------------------------- MODULE ArchiveShadowProofs -------------------------
(***************************************************************************)
(* Proofs about ArchiveShadow, for any numbers of commits, attempts,       *)
(* crashes and faults, and, in the second part, about what comes to be     *)
(* archived and deleted (TaskThreads).                                     *)
(*                                                                         *)
(* The invariant says, for each phase of the durable marker, which names   *)
(* can stand for which files and what those files hold between them        *)
(* (Fresh, Pinned, Old): so nothing depends on where a crash fell.  For    *)
(* each step of the worker and of the recovery it says what the step still *)
(* knows of the files since it last looked (Worker, Tails, Recovery), and  *)
(* which steps hold the locks that keep other connections out (Locked).    *)
(* Each action has a lemma that it keeps the invariant, with a step for    *)
(* each part that it can disturb.                                          *)
(***************************************************************************)
EXTENDS Integers, ArchiveShadow, ThreadRetention, FiniteSetTheorems, TLAPS

\* Every commit so far.
All == 1..commits
\* What the public database, its copy, and a database created in the gap hold.
Src == contents["src"]
Cand == contents["cand"]
Other == contents["other"]
\* Which files the three names can stand for.
At(file, next, old) == dir.file \in file /\ dir.next \in next /\ dir.old \in old
None == {"none"}

\* The phases of the marker; the last two are those of an older version.
Phases == {"none", "begun", "prepared", "pinned", "unpinned", "legacy"}
\* The types that the proofs need.
Typed ==
    /\ dir \in [{"file", "next", "old"} -> Inodes \cup None]
    /\ contents \in [Inodes -> SUBSET (0..MaxCommits)] /\ fenced \in [Inodes -> BOOLEAN]
    /\ marker \in [phase : Phases, cand : SUBSET (0..MaxCommits), source : SUBSET (0..MaxCommits)]
    /\ swapping \in BOOLEAN
    /\ commits \in 1..MaxCommits
    /\ marker.phase = "none" => marker = NoMarker

\* What can be in each file, and in what the marker and the worker noted of them.
Committed ==
    /\ 1 \in Src /\ Src \subseteq All /\ Other \subseteq All \ {1} /\ Cand \subseteq All \cup {0}
    /\ marker.cand \subseteq All /\ marker.source \subseteq All
    /\ seen \subseteq Src /\ version \subseteq Src

\* Before anything is pinned the public database is in its place, with every commit.
Fresh ==
    /\ marker.phase = "none" => /\ At({"src", "cand"}, None, None)
                                /\ contents[dir.file] = All /\ ~fenced[dir.file]
    /\ marker.phase \in {"begun", "prepared"} => At({"src"}, {"none", "cand"}, None) /\ Src = All

\* Once the swap is pinned, some file has each commit, wherever the renames and links stopped,
\* and whoever wrote to the file that is public.
Pinned == marker.phase = "pinned" =>
    /\ marker.cand = marker.source /\ marker.source \subseteq Src /\ 1 \in marker.cand
    /\ \/ At({"src"}, {"none", "cand"}, {"none", "src"}) /\ Src = All
       \/ At(None, {"cand"}, {"src"}) /\ Src = All
       \/ At({"other"}, {"cand"}, {"src"}) /\ All \subseteq Src \cup Other
       \/ At({"cand"}, {"none", "cand"}, {"src"}) /\ All \subseteq Src \cup Cand
       \/ At({"cand"}, None, None) /\ Cand = All

\* The same for what an older version left between its two renames.
Old == Legacy =>
    /\ marker.cand = {1} /\ commits = 1
    /\ \/ At(None, {"cand"}, {"src"})
       \/ At(None, {"none"}, {"src"}) /\ marker.phase = "unpinned"
       \/ At({"cand"}, None, {"src"}) /\ (marker.phase = "legacy" => Cand = All)
       \/ At({"src"}, {"none", "cand"}, None)
       \/ At({"cand"}, None, None) /\ Cand = All

\* The source, its copy and what is pinned agree, and nobody writes to either.
Agreed == Cand = marker.cand /\ Src = marker.cand /\ locks = {"src", "cand"}
\* The copy is there, and the public database is in its place.
Copied == At({"src"}, {"cand"}, None)

\* What the worker knows at each of its steps up to the rename.
Worker ==
    /\ pc = "reserve" => marker.phase = "begun" /\ dir.next = "none"
    /\ pc = "copy" => marker.phase = "begun" /\ Copied /\ Cand = {}
    /\ pc = "prepare" => marker.phase = "begun" /\ Copied /\ seen \subseteq Cand /\ Cand \subseteq Src
    /\ pc = "handoff" => marker.phase = "prepared" /\ Copied /\ seen \subseteq marker.cand /\ marker.cand \subseteq version
    /\ pc \in {"fence", "lock"} => marker.phase = "prepared" /\ Copied /\ marker.cand = version
    /\ pc \in {"reserve", "copy", "prepare", "handoff"} => 1 \in seen
    /\ pc \in {"fence", "lock", "pin"} => 1 \in version
    /\ pc = "pin" => marker.phase = "prepared" /\ Copied /\ Agreed /\ marker.cand = version
    /\ pc = "rename" => marker.phase = "pinned" /\ Copied /\ Agreed

\* What the worker, or the recovery that finishes its swap, knows after the rename.
Tails ==
    /\ pc = "link" => marker.phase = "pinned" /\ At({"none", "other"}, {"cand"}, {"src"}) /\ Agreed
    /\ pc = "unlink" => marker.phase = "pinned" /\ At({"cand"}, {"cand"}, {"src"}) /\ Agreed
    /\ pc = "drop" =>
         \/ marker.phase = "pinned" /\ At({"cand"}, None, {"src"}) /\ Agreed
         \/ marker.phase = "pinned" /\ At({"src"}, None, {"src"})
         \/ marker.phase = "legacy" /\ At({"cand"}, None, {"src"}) /\ Cand = All
    /\ pc \in {"release", "discard", "settle"} => At({"src", "cand"}, {"none", "cand"}, None)
    /\ pc \in {"release", "discard"} => marker.phase # "none"
    /\ pc \in {"discard", "settle"} => ~fenced[dir.file]
    /\ pc = "settle" => dir.next = "none"

\* What the recovery knows at each of its steps.
Recovery ==
    /\ pc = "idle" => marker.phase = "none"
    /\ pc = "failed" => dir.file = "other" \/ Cand # marker.cand
    /\ pc = "decide" => marker.phase = "pinned" /\
         (At({"none", "other"}, {"cand"}, {"src"}) \/ At({"cand"}, None, {"src"}))
    /\ pc \in {"back", "vacate"} => marker.phase = "pinned" /\ Cand = marker.cand /\ locks = {"src", "cand"}
    /\ pc = "back" => At({"cand"}, None, {"src"})
    /\ pc = "vacate" => At({"cand"}, {"cand"}, {"src"})
    /\ pc = "restore" => marker.phase = "pinned" /\ At({"none", "other"}, {"cand"}, {"src"})
    /\ pc = "restored" => marker.phase = "pinned" /\ At({"src"}, {"cand"}, {"src"})
    /\ pc \in {"legacy", "legacy check", "legacy restore"} => Legacy /\ dir.old = "src"
    /\ pc = "legacy check" => marker.phase = "legacy" /\ At({"cand"}, None, {"src"})
    /\ pc = "legacy restore" => dir.file = "none"

\* The steps that keep the locks.
Locked ==
    /\ locks \subseteq {"src", "cand"}
    /\ locks # {} => pc \in {"pin", "rename", "link", "unlink", "drop", "back", "vacate", "restore", "restored"}

\* The inductive invariant.
Inv == Typed /\ Committed /\ Fresh /\ Pinned /\ Old /\ Worker /\ Tails /\ Recovery /\ Locked

\* At the first commit there is one commit.
LEMMA OnlyFirst == ASSUME commits = 1 PROVE All = {1}
BY DEF All

\* The record of names is a function of them.
LEMMA Directory == ASSUME NEW S, NEW d \in [file : S, next : S, old : S]
                  PROVE d \in [{"file", "next", "old"} -> S]
OBVIOUS

\* Every state the program can find at its start satisfies the invariant.
LEMMA InvInit == ASSUME Init PROVE Inv
<1> USE DEF Inodes, None, At, Src, Cand, Other, Legacy
<1>a. All = {1} /\ 1 \in 1..MaxCommits /\ commits = 1  BY ShadowBounds, OnlyFirst DEF Init
<1>b. contents = [i \in Inodes |-> IF i = "other" THEN {} ELSE {1}]
      /\ fenced = [i \in Inodes |-> i = "cand" /\ pc = "down"]
      /\ swapping = FALSE /\ seen = {} /\ version = {} /\ locks = {}  BY DEF Init
<1>d. contents \in [Inodes -> SUBSET (0..MaxCommits)] /\ fenced \in [Inodes -> BOOLEAN] /\ swapping \in BOOLEAN
  <2>1. contents \in [Inodes -> SUBSET (0..MaxCommits)]  BY <1>a, <1>b
  <2>2. fenced \in [Inodes -> BOOLEAN]  BY <1>b
  <2>. QED  BY <1>b, <2>1, <2>2
<1>1. CASE dir = [file |-> "src", next |-> "none", old |-> "none"] /\ marker = NoMarker /\ pc = "idle"
  <2>1. dir \in [file : Inodes \cup None, next : Inodes \cup None, old : Inodes \cup None]  BY <1>1
  <2>2. Typed
    <3>1. dir \in [{"file", "next", "old"} -> Inodes \cup None]  BY <2>1, Directory
    <3>2. marker \in [phase : Phases, cand : SUBSET (0..MaxCommits), source : SUBSET (0..MaxCommits)]
      BY <1>1 DEF Phases, NoMarker
    <3>. QED  BY <1>1, <1>a, <1>d, <3>1, <3>2 DEF Typed, NoMarker
  <2>3. Committed /\ Fresh /\ Pinned /\ Old  BY <1>1, <1>a, <1>b DEF Committed, Fresh,
     Pinned, Old, NoMarker
  <2>4. Worker /\ Tails /\ Recovery /\ Locked  BY <1>1, <1>b DEF Worker, Tails, Recovery,
     Locked, NoMarker
  <2>. QED  BY <2>2, <2>3, <2>4 DEF Inv
<1>2. ASSUME dir \in {[file |-> "none", next |-> "cand", old |-> "src"], [file |-> "cand", next |-> "none", old |-> "src"]},
             NEW phase \in {"unpinned", "legacy"}, marker = [phase |-> phase, cand |-> {1}, source |-> {}],
                pc = "down"
      PROVE Inv
  <2>1. dir \in [file : Inodes \cup None, next : Inodes \cup None, old : Inodes \cup None]  BY <1>2
  <2>2. Typed
    <3>1. dir \in [{"file", "next", "old"} -> Inodes \cup None]  BY <2>1, Directory
    <3>2. marker \in [phase : Phases, cand : SUBSET (0..MaxCommits), source : SUBSET (0..MaxCommits)]
      BY <1>2, <1>a DEF Phases
    <3>. QED  BY <1>2, <1>a, <1>d, <3>1, <3>2 DEF Typed
  <2>3. Committed /\ Fresh /\ Pinned /\ Old  BY <1>2, <1>a, <1>b DEF Committed, Fresh,
     Pinned, Old, NoMarker
  <2>4. Worker /\ Tails /\ Recovery /\ Locked  BY <1>2, <1>b DEF Worker, Tails, Recovery,
     Locked, NoMarker
  <2>. QED  BY <2>2, <2>3, <2>4 DEF Inv
<1>. QED  BY <1>1, <1>2 DEF Init

\* Begin keeps the invariant.
LEMMA BeginInv == ASSUME Inv, Begin PROVE Inv'
<1> USE DEF disk, counts, To, Point, Exists, Inodes, None, At, Src, Cand, Other, Legacy
<1>a. All' = All  BY DEF Begin, All, NoMarker
<1>1. Typed'  BY <1>a DEF Inv, Begin, NoMarker, Phases, Typed
<1>2. Committed'  BY <1>a DEF Inv, Begin, NoMarker, Typed, Committed, Worker
<1>3. Fresh'  BY <1>a DEF Inv, Begin, NoMarker, Typed, Committed, Fresh, Pinned, Old,
   Worker, Tails, Recovery, Copied
<1>4. Pinned'  BY <1>a DEF Inv, Begin, NoMarker, Typed, Committed, Fresh, Pinned, Worker,
   Tails, Recovery, Agreed, Copied
<1>5. Old'  BY <1>a DEF Inv, Begin, Typed, Committed, Old
<1>6. Worker'  BY <1>a DEF Inv, Begin, NoMarker, Typed, Committed, Fresh, Worker,
   Recovery
<1>7. Tails'  BY <1>a DEF Inv, Begin, NoMarker, Typed, Committed, Fresh, Pinned, Old,
   Worker, Tails, Recovery
<1>8. Recovery'  BY <1>a DEF Inv, Begin, NoMarker, Typed, Committed, Fresh, Pinned, Old,
   Worker, Tails, Recovery, Agreed, Locked
<1>9. Locked'  BY <1>a DEF Inv, Begin, NoMarker, Locked, Worker, Tails
<1>. QED  BY <1>1, <1>2, <1>3, <1>4, <1>5, <1>6, <1>7, <1>8, <1>9 DEF Inv

\* Reserve keeps the invariant.
LEMMA ReserveInv == ASSUME Inv, Reserve PROVE Inv'
<1> USE DEF disk, counts, To, Point, Exists, Inodes, None, At, Src, Cand, Other, Legacy
<1>a. All' = All  BY DEF Reserve, All
<1>1. Typed'  BY <1>a DEF Inv, Reserve, Typed
<1>2. Committed'  BY <1>a DEF Inv, Reserve, Committed, Worker
<1>3. Fresh'  BY <1>a DEF Inv, Reserve, Committed, Fresh, Pinned, Old, Worker, Tails,
   Recovery, NoMarker, Copied
<1>4. Pinned'  BY <1>a DEF Inv, Reserve, Typed, Committed, Fresh, Pinned, Worker, Tails,
   Recovery, Agreed
<1>5. Old'  BY <1>a DEF Inv, Reserve, Typed, Committed, Old, Worker, Recovery
<1>6. Worker'  BY <1>a DEF Inv, Reserve, Typed, Committed, Fresh, Worker, Recovery,
   Agreed, Locked, Copied
<1>7. Tails'  BY <1>a DEF Inv, Reserve, Typed, Committed, Fresh, Pinned, Old, Worker,
   Tails, Recovery, Agreed, Locked, Copied
<1>8. Recovery'  BY <1>a DEF Inv, Reserve, Committed, Fresh, Pinned, Old, Worker, Tails,
   Recovery, Agreed, Locked
<1>9. Locked'  BY <1>a DEF Inv, Reserve, Locked, Worker, Tails
<1>. QED  BY <1>1, <1>2, <1>3, <1>4, <1>5, <1>6, <1>7, <1>8, <1>9 DEF Inv

\* Copy keeps the invariant.
LEMMA CopyInv == ASSUME Inv, Copy PROVE Inv'
<1> USE DEF disk, counts, To, Point, Exists, Inodes, None, At, Src, Cand, Other, Legacy
<1>a. All' = All  BY DEF Copy, All
<1>1. Typed'  BY <1>a DEF Inv, Copy, Typed
<1>2. Committed'  BY <1>a DEF Inv, Copy, Committed, Worker
<1>3. Fresh'  BY <1>a DEF Inv, Copy, Committed, Fresh, Pinned, Old, Worker, Tails,
   Recovery, NoMarker, Copied
<1>4. Pinned'  BY <1>a DEF Inv, Copy, Typed, Committed, Fresh, Pinned, Worker, Tails,
   Recovery, Agreed
<1>5. Old'  BY <1>a DEF Inv, Copy, Typed, Committed, Old, Worker, Recovery
<1>6. Worker'  BY <1>a DEF Inv, Copy, Typed, Committed, Fresh, Worker, Recovery, Agreed,
   Locked, Copied
<1>7. Tails'  BY <1>a DEF Inv, Copy, Typed, Committed, Fresh, Pinned, Old, Worker, Tails,
   Recovery, Agreed, Locked, Copied
<1>8. Recovery'  BY <1>a DEF Inv, Copy, Committed, Fresh, Pinned, Old, Worker, Tails,
   Recovery, Agreed, Locked
<1>9. Locked'  BY <1>a DEF Inv, Copy, Locked, Worker, Tails
<1>. QED  BY <1>1, <1>2, <1>3, <1>4, <1>5, <1>6, <1>7, <1>8, <1>9 DEF Inv

\* Prepare keeps the invariant.
LEMMA PrepareInv == ASSUME Inv, Prepare PROVE Inv'
<1> USE DEF disk, counts, To, Point, Exists, Inodes, None, At, Src, Cand, Other, Legacy
<1>a. All' = All  BY DEF Prepare, All
<1>1. Typed'  BY <1>a DEF Inv, Prepare, Phases, Typed
<1>2. Committed'  BY <1>a DEF Inv, Prepare, Typed, Committed, Worker
<1>3. Fresh'  BY <1>a DEF Inv, Prepare, Typed, Committed, Fresh, Pinned, Old, Worker,
   Tails, Recovery, NoMarker, Copied
<1>4. Pinned'  BY <1>a DEF Inv, Prepare, Typed, Committed, Fresh, Pinned, Worker, Tails,
   Recovery, Agreed
<1>5. Old'  BY <1>a DEF Inv, Prepare, Typed, Old
<1>6. Worker'  BY <1>a DEF Inv, Prepare, Typed, Committed, Fresh, Worker, Recovery,
   Agreed, Locked, Copied
<1>7. Tails'  BY <1>a DEF Inv, Prepare, Typed, Committed, Fresh, Pinned, Old, Worker,
   Tails, Recovery, Agreed, Locked, Copied
<1>8. Recovery'  BY <1>a DEF Inv, Prepare, Old, Worker, Tails, Recovery, Agreed, Locked
<1>9. Locked'  BY <1>a DEF Inv, Prepare, Locked, Worker, Tails
<1>. QED  BY <1>1, <1>2, <1>3, <1>4, <1>5, <1>6, <1>7, <1>8, <1>9 DEF Inv

\* Handoff keeps the invariant.
LEMMA HandoffInv == ASSUME Inv, Handoff PROVE Inv'
<1> USE DEF disk, counts, To, Point, Exists, Inodes, None, At, Src, Cand, Other, Legacy
<1>a. All' = All  BY DEF Handoff, All
<1>1. Typed'  BY <1>a DEF Inv, Handoff, SameSnapshot, Recover, Release, Phases, Typed
<1>2. Committed'  BY <1>a DEF Inv, Handoff, SameSnapshot, Recover, Release, Typed,
   Committed, Worker
<1>3. Fresh'  BY <1>a DEF Inv, Handoff, SameSnapshot, Recover, Release, Typed, Committed,
   Fresh, Pinned, Old, Worker, Tails, Recovery, NoMarker, Copied
<1>4. Pinned'  BY <1>a DEF Inv, Handoff, SameSnapshot, Recover, Release, Typed, Committed,
   Fresh, Pinned, Worker, Tails, Recovery, Agreed, Copied
<1>5. Old'  BY <1>a DEF Inv, Handoff, Typed, Committed, Old
<1>6. Worker'  BY <1>a DEF Inv, Handoff, SameSnapshot, Recover, Release, Typed, Committed,
   Fresh, Worker, Recovery, Agreed, Locked, Copied
<1>7. Tails'  BY <1>a DEF Inv, Handoff, SameSnapshot, Recover, Release, Typed, Committed,
   Fresh, Pinned, Old, Worker, Tails, Recovery, Agreed, Locked, Copied
<1>8. Recovery'  BY <1>a DEF Inv, Handoff, SameSnapshot, Recover, Release, Typed,
   Committed, Fresh, Pinned, Old, Worker, Tails, Recovery, Agreed, Locked
<1>9. Locked'  BY <1>a DEF Inv, Handoff, SameSnapshot, Recover, Release, Locked, Worker,
   Tails, Recovery, Agreed
<1>. QED  BY <1>1, <1>2, <1>3, <1>4, <1>5, <1>6, <1>7, <1>8, <1>9 DEF Inv

\* Fence keeps the invariant.
LEMMA FenceInv == ASSUME Inv, Fence PROVE Inv'
<1> USE DEF disk, counts, To, Point, Exists, Inodes, None, At, Src, Cand, Other, Legacy
<1>a. All' = All  BY DEF Fence, All
<1>1. Typed'  BY <1>a DEF Inv, Fence, Recover, Release, Phases, Typed
<1>2. Committed'  BY <1>a DEF Inv, Fence, Recover, Release, Typed, Committed, Worker
<1>3. Fresh'  BY <1>a DEF Inv, Fence, Recover, Release, Typed, Committed, Fresh, Pinned,
   Old, Worker, Tails, Recovery, NoMarker, Copied
<1>4. Pinned'  BY <1>a DEF Inv, Fence, Recover, Release, Typed, Committed, Fresh, Pinned,
   Worker, Tails, Recovery, Agreed, Copied
<1>5. Old'  BY <1>a DEF Inv, Fence, Typed, Committed, Old
<1>6. Worker'  BY <1>a DEF Inv, Fence, Recover, Fresh, Worker, Recovery, Agreed, Locked,
   Copied
<1>7. Tails'  BY <1>a DEF Inv, Fence, Recover, Release, Typed, Committed, Worker, Tails,
   Recovery, Agreed, Locked, Copied
<1>8. Recovery'  BY <1>a DEF Inv, Fence, Recover, Release, Typed, Committed, Fresh,
   Pinned, Old, Worker, Tails, Recovery, Agreed, Locked
<1>9. Locked'  BY <1>a DEF Inv, Fence, Recover, Release, Locked, Worker, Tails, Recovery,
   Agreed
<1>. QED  BY <1>1, <1>2, <1>3, <1>4, <1>5, <1>6, <1>7, <1>8, <1>9 DEF Inv

\* Lock keeps the invariant.
LEMMA LockInv == ASSUME Inv, Lock PROVE Inv'
<1> USE DEF disk, counts, To, Point, Exists, Inodes, None, At, Src, Cand, Other, Legacy
<1>a. All' = All  BY DEF Lock, All
<1>1. Typed'  BY <1>a DEF Inv, Lock, SourceAsFenced, Recover, Release, Phases, Typed
<1>2. Committed'  BY <1>a DEF Inv, Lock, SourceAsFenced, Recover, Release, Typed,
   Committed, Worker
<1>3. Fresh'  BY <1>a DEF Inv, Lock, SourceAsFenced, Recover, Release, Typed, Committed,
   Fresh, Pinned, Old, Worker, Tails, Recovery, NoMarker, Copied
<1>4. Pinned'  BY <1>a DEF Inv, Lock, SourceAsFenced, Recover, Release, Typed, Committed,
   Fresh, Pinned, Worker, Tails, Recovery, Agreed, Copied
<1>5. Old'  BY <1>a DEF Inv, Lock, Typed, Committed, Old
<1>6. Worker'  BY <1>a DEF Inv, Lock, SourceAsFenced, Recover, Fresh, Worker, Recovery,
   Agreed, Locked, Copied
<1>7. Tails'  BY <1>a DEF Inv, Lock, SourceAsFenced, Recover, Release, Typed, Committed,
   Worker, Tails, Recovery, Agreed, Locked, Copied
<1>8. Recovery'  BY <1>a DEF Inv, Lock, SourceAsFenced, Recover, Release, Typed,
   Committed, Fresh, Pinned, Old, Worker, Tails, Recovery, Agreed, Locked
<1>9. Locked'  BY <1>a DEF Inv, Lock, SourceAsFenced, Recover, Release, Locked, Worker,
   Tails, Recovery, Agreed
<1>. QED  BY <1>1, <1>2, <1>3, <1>4, <1>5, <1>6, <1>7, <1>8, <1>9 DEF Inv

\* Pin keeps the invariant.
LEMMA PinInv == ASSUME Inv, Pin PROVE Inv'
<1> USE DEF disk, counts, To, Point, Exists, Inodes, None, At, Src, Cand, Other, Legacy
<1>a. All' = All  BY DEF Pin, All
<1>1. Typed'  BY <1>a DEF Inv, Pin, Phases, Typed
<1>2. Committed'  BY <1>a DEF Inv, Pin, Typed, Committed, Worker
<1>3. Fresh'  BY <1>a DEF Inv, Pin, Typed, Committed, Fresh, Pinned, Old, Worker, Tails,
   Recovery, NoMarker, Copied
<1>4. Pinned'  BY <1>a DEF Inv, Pin, Typed, Committed, Fresh, Pinned, Worker, Tails,
   Recovery, Agreed
<1>5. Old'  BY <1>a DEF Inv, Pin, Typed, Committed, Old, Worker, Recovery
<1>6. Worker'  BY <1>a DEF Inv, Pin, Typed, Committed, Fresh, Worker, Recovery, Agreed,
   Locked, Copied
<1>7. Tails'  BY <1>a DEF Inv, Pin, Typed, Committed, Fresh, Pinned, Old, Worker, Tails,
   Recovery, Agreed, Locked, Copied
<1>8. Recovery'  BY <1>a DEF Inv, Pin, Old, Worker, Tails, Recovery, Agreed, Locked
<1>9. Locked'  BY <1>a DEF Inv, Pin, Locked, Worker, Tails
<1>. QED  BY <1>1, <1>2, <1>3, <1>4, <1>5, <1>6, <1>7, <1>8, <1>9 DEF Inv

\* Rename keeps the invariant.
LEMMA RenameInv == ASSUME Inv, Rename PROVE Inv'
<1> USE DEF disk, counts, To, Point, Exists, Inodes, None, At, Src, Cand, Other, Legacy
<1>a. All' = All  BY DEF Rename, All
<1>1. Typed'  BY <1>a DEF Inv, Rename, Phases, Typed
<1>2. Committed'  BY <1>a DEF Inv, Rename, Typed, Committed, Worker
<1>3. Fresh'  BY <1>a DEF Inv, Rename, Typed, Committed, Fresh, Pinned, Old, Worker,
   Tails, Recovery, NoMarker, Copied
<1>4. Pinned'  BY <1>a DEF Inv, Rename, Typed, Committed, Fresh, Pinned, Worker, Tails,
   Recovery, Agreed, Copied
<1>5. Old'  BY <1>a DEF Inv, Rename, Typed, Committed, Old, Worker, Tails, Recovery
<1>6. Worker'  BY <1>a DEF Inv, Rename, Fresh, Worker, Recovery, Agreed, Locked, Copied
<1>7. Tails'  BY <1>a DEF Inv, Rename, Worker, Tails, Recovery, Agreed, Locked, Copied
<1>8. Recovery'  BY <1>a DEF Inv, Rename, Old, Worker, Tails, Recovery, Agreed, Locked
<1>9. Locked'  BY <1>a DEF Inv, Rename, Locked, Worker, Tails
<1>. QED  BY <1>1, <1>2, <1>3, <1>4, <1>5, <1>6, <1>7, <1>8, <1>9 DEF Inv

\* A step of the worker that fails keeps the invariant.
LEMMA WorkerFailsInv == ASSUME Inv, WorkerFails PROVE Inv'
<1> USE DEF disk, counts, To, Point, Exists, Inodes, None, At, Src, Cand, Other, Legacy
<1>a. All' = All  BY DEF WorkerFails, All
<1>1. Typed'  BY <1>a DEF Inv, WorkerFails, Recover, Release, Phases, Typed
<1>2. Committed'  BY <1>a DEF Inv, WorkerFails, Recover, Release, Typed, Committed,
   Worker
<1>3. Fresh'  BY <1>a DEF Inv, WorkerFails, Recover, Release, Typed, Committed, Fresh,
   Pinned, Old, Worker, Tails, Recovery, NoMarker, Copied
<1>4. Pinned'  BY <1>a DEF Inv, WorkerFails, Recover, Release, Typed, Committed, Fresh,
   Pinned, Worker, Tails, Recovery, Agreed, Copied
<1>5. Old'  BY <1>a DEF Inv, WorkerFails, Recover, Release, Typed, Committed, Old
<1>6. Worker'  BY <1>a DEF Inv, WorkerFails, Recover, Release, Typed, Committed, Fresh,
   Worker, Recovery, Agreed, Locked, Copied
<1>7. Tails'  BY <1>a DEF Inv, WorkerFails, Recover, Release, Typed, Committed, Fresh,
   Pinned, Old, Worker, Tails, Recovery, Agreed, Locked, Copied
<1>8. Recovery'  BY <1>a DEF Inv, WorkerFails, Recover, Release, Typed, Committed, Fresh,
   Pinned, Old, Worker, Tails, Recovery, Agreed, Locked
<1>9. Locked'  BY <1>a DEF Inv, WorkerFails, Recover, Release, Locked, Worker, Tails,
   Recovery, Agreed
<1>. QED  BY <1>1, <1>2, <1>3, <1>4, <1>5, <1>6, <1>7, <1>8, <1>9 DEF Inv

\* Link keeps the invariant.
LEMMA LinkInv == ASSUME Inv, Link PROVE Inv'
<1> USE DEF disk, counts, To, Point, Exists, Inodes, None, At, Src, Cand, Other, Legacy
<1>a. All' = All  BY DEF Link, All
<1>1. Typed'  BY <1>a DEF Inv, Link, NameTaken, Stop, Recover, Release, Phases, Typed
<1>2. Committed'  BY <1>a DEF Inv, Link, NameTaken, Stop, Recover, Release, Typed,
   Committed, Worker
<1>3. Fresh'  BY <1>a DEF Inv, Link, NameTaken, Stop, Recover, Release, Typed, Committed,
   Fresh, Pinned, Old, Worker, Tails, Recovery, NoMarker, Copied
<1>4. Pinned'  BY <1>a DEF Inv, Link, NameTaken, Typed, Committed, Fresh, Pinned, Worker,
   Tails, Recovery, Agreed, Copied
<1>5. Old'  BY <1>a DEF Inv, Link, Stop, Recover, Release, Typed, Committed, Old, Worker,
   Tails, Recovery
<1>6. Worker'  BY <1>a DEF Inv, Link, NameTaken, Stop, Recover, Fresh, Worker, Recovery,
   Agreed, Locked, Copied
<1>7. Tails'  BY <1>a DEF Inv, Link, NameTaken, Stop, Recover, Release, Typed, Committed,
   Worker, Tails, Recovery, Agreed, Locked, Copied
<1>8. Recovery'  BY <1>a DEF Inv, Link, NameTaken, Stop, Recover, Release, Typed,
   Committed, Fresh, Pinned, Old, Worker, Tails, Recovery, Agreed, Locked
<1>9. Locked'  BY <1>a DEF Inv, Link, NameTaken, Stop, Recover, Release, Locked, Worker,
   Tails, Recovery, Agreed
<1>. QED  BY <1>1, <1>2, <1>3, <1>4, <1>5, <1>6, <1>7, <1>8, <1>9 DEF Inv

\* Unlink keeps the invariant.
LEMMA UnlinkInv == ASSUME Inv, Unlink PROVE Inv'
<1> USE DEF disk, counts, To, Point, Exists, Inodes, None, At, Src, Cand, Other, Legacy
<1>a. All' = All  BY DEF Unlink, All
<1>1. Typed'  BY <1>a DEF Inv, Unlink, Typed
<1>2. Committed'  BY <1>a DEF Inv, Unlink, Committed, Worker
<1>3. Fresh'  BY <1>a DEF Inv, Unlink, Committed, Fresh, Pinned, Old, Worker, Tails,
   Recovery, NoMarker, Copied
<1>4. Pinned'  BY <1>a DEF Inv, Unlink, Typed, Committed, Fresh, Pinned, Worker, Tails,
   Recovery, Agreed
<1>5. Old'  BY <1>a DEF Inv, Unlink, Typed, Committed, Old, Worker, Tails, Recovery
<1>6. Worker'  BY <1>a DEF Inv, Unlink, Fresh, Worker, Recovery, Agreed, Locked, Copied
<1>7. Tails'  BY <1>a DEF Inv, Unlink, Typed, Committed, Worker, Tails, Recovery, Agreed,
   Locked, Copied
<1>8. Recovery'  BY <1>a DEF Inv, Unlink, Typed, Old, Worker, Tails, Recovery, Agreed,
   Locked
<1>9. Locked'  BY <1>a DEF Inv, Unlink, Locked, Worker, Tails, Recovery
<1>. QED  BY <1>1, <1>2, <1>3, <1>4, <1>5, <1>6, <1>7, <1>8, <1>9 DEF Inv

\* Drop keeps the invariant.
LEMMA DropInv == ASSUME Inv, Drop PROVE Inv'
<1> USE DEF disk, counts, To, Point, Exists, Inodes, None, At, Src, Cand, Other, Legacy
<1>a. All' = All  BY DEF Drop, All
<1>1. Typed'  BY <1>a DEF Inv, Drop, Release, Typed
<1>2. Committed'  BY <1>a DEF Inv, Drop, Typed, Committed, Worker
<1>3. Fresh'  BY <1>a DEF Inv, Drop, LocksEnd, Release, Typed, Committed, Fresh, Pinned,
   Recovery, NoMarker, Copied
<1>4. Pinned'  BY <1>a DEF Inv, Drop, LocksEnd, Release, Typed, Committed, Fresh, Pinned,
   Worker, Tails, Recovery, Agreed, Copied
<1>5. Old'  BY <1>a DEF Inv, Drop, LocksEnd, Release, Typed, Committed, Old, Worker,
   Tails
<1>6. Worker'  BY <1>a DEF Inv, Drop, Release, Typed, Committed, Fresh, Worker, Recovery,
   Agreed, Locked, Copied
<1>7. Tails'  BY <1>a DEF Inv, Drop, LocksEnd, Release, Typed, Committed, Worker, Tails,
   Recovery, Agreed, Locked, Copied
<1>8. Recovery'  BY <1>a DEF Inv, Drop, LocksEnd, Release, Typed, Old, Worker, Tails,
   Recovery, Agreed, Locked
<1>9. Locked'  BY <1>a DEF Inv, Drop, LocksEnd, Release, Locked, Worker, Tails, Recovery,
   Agreed
<1>. QED  BY <1>1, <1>2, <1>3, <1>4, <1>5, <1>6, <1>7, <1>8, <1>9 DEF Inv

\* ReleaseFence keeps the invariant.
LEMMA ReleaseFenceInv == ASSUME Inv, ReleaseFence PROVE Inv'
<1> USE DEF disk, counts, To, Point, Exists, Inodes, None, At, Src, Cand, Other, Legacy
<1>a. All' = All  BY DEF ReleaseFence, All
<1>1. Typed'  BY <1>a DEF Inv, ReleaseFence, Phases, Typed
<1>2. Committed'  BY <1>a DEF Inv, ReleaseFence, Typed, Committed, Worker
<1>3. Fresh'  BY <1>a DEF Inv, ReleaseFence, Typed, Committed, Fresh, Pinned, Old, Worker,
   Tails, Recovery, NoMarker, Copied
<1>4. Pinned'  BY <1>a DEF Inv, ReleaseFence, Typed, Committed, Fresh, Pinned, Worker,
   Tails, Recovery, Agreed
<1>5. Old'  BY <1>a DEF Inv, ReleaseFence, Typed, Old
<1>6. Worker'  BY <1>a DEF Inv, ReleaseFence, Typed, Committed, Fresh, Worker
<1>7. Tails'  BY <1>a DEF Inv, ReleaseFence, Typed, Committed, Fresh, Pinned, Old, Worker,
   Tails, Recovery
<1>8. Recovery'  BY <1>a DEF Inv, ReleaseFence, Typed, Committed, Fresh, Pinned, Old,
   Worker, Tails, Recovery, Agreed, Locked
<1>9. Locked'  BY <1>a DEF Inv, ReleaseFence, Locked, Worker, Tails, Recovery
<1>. QED  BY <1>1, <1>2, <1>3, <1>4, <1>5, <1>6, <1>7, <1>8, <1>9 DEF Inv

\* Discard keeps the invariant.
LEMMA DiscardInv == ASSUME Inv, Discard PROVE Inv'
<1> USE DEF disk, counts, To, Point, Exists, Inodes, None, At, Src, Cand, Other, Legacy
<1>a. All' = All  BY DEF Discard, All
<1>1. Typed'  BY <1>a DEF Inv, Discard, Typed
<1>2. Committed'  BY <1>a DEF Inv, Discard, Committed, Worker
<1>3. Fresh'  BY <1>a DEF Inv, Discard, Committed, Fresh, Pinned, Old, Worker, Tails,
   Recovery, NoMarker, Copied
<1>4. Pinned'  BY <1>a DEF Inv, Discard, Typed, Committed, Fresh, Pinned, Worker, Tails,
   Recovery, Agreed
<1>5. Old'  BY <1>a DEF Inv, Discard, Typed, Committed, Old, Worker, Tails, Recovery
<1>6. Worker'  BY <1>a DEF Inv, Discard, Fresh, Worker, Recovery, Agreed, Locked, Copied
<1>7. Tails'  BY <1>a DEF Inv, Discard, Typed, Committed, Worker, Tails, Recovery, Agreed,
   Locked, Copied
<1>8. Recovery'  BY <1>a DEF Inv, Discard, Typed, Old, Worker, Tails, Recovery, Agreed,
   Locked
<1>9. Locked'  BY <1>a DEF Inv, Discard, Locked, Worker, Tails, Recovery
<1>. QED  BY <1>1, <1>2, <1>3, <1>4, <1>5, <1>6, <1>7, <1>8, <1>9 DEF Inv

\* Settle keeps the invariant.
LEMMA SettleInv == ASSUME Inv, Settle PROVE Inv'
<1> USE DEF disk, counts, To, Point, Exists, Inodes, None, At, Src, Cand, Other, Legacy
<1>a. All' = All  BY DEF Settle, All, NoMarker
<1>b. contents[dir.file] = All /\ Src \subseteq All
  BY OnlyFirst DEF Inv, Settle, Typed, Committed, Fresh, Pinned, Old, Tails, Phases
<1>1. Typed'  BY <1>a DEF Inv, Settle, NoMarker, Phases, Typed
<1>2. Committed'  BY <1>a DEF Inv, Settle, NoMarker, Typed, Committed, Worker
<1>3. Fresh'  BY <1>a, <1>b DEF Inv, Settle, NoMarker, Typed, Committed, Fresh, Pinned,
   Old, Worker, Tails, Recovery, Copied
<1>4. Pinned'  BY <1>a DEF Inv, Settle, NoMarker, Typed, Committed, Fresh, Pinned, Worker,
   Tails, Recovery, Agreed, Copied
<1>5. Old'  BY <1>a DEF Inv, Settle, NoMarker, Typed, Committed, Old
<1>6. Worker'  BY <1>a DEF Inv, Settle, NoMarker, Typed, Committed, Fresh, Worker,
   Recovery
<1>7. Tails'  BY <1>a DEF Inv, Settle, NoMarker, Typed, Committed, Fresh, Pinned, Old,
   Worker, Tails, Recovery
<1>8. Recovery'  BY <1>a DEF Inv, Settle, NoMarker, Typed, Old, Worker, Tails, Recovery,
   Agreed, Locked
<1>9. Locked'  BY <1>a DEF Inv, Settle, NoMarker, Locked, Worker, Tails, Recovery
<1>. QED  BY <1>1, <1>2, <1>3, <1>4, <1>5, <1>6, <1>7, <1>8, <1>9 DEF Inv

\* FinishSource keeps the invariant.
LEMMA FinishSourceInv == ASSUME Inv, FinishSource PROVE Inv'
<1> USE DEF disk, counts, To, Point, Exists, Inodes, None, At, Src, Cand, Other, Legacy
<1>a. All' = All  BY DEF FinishSource, All
<1>1. Typed'  BY <1>a DEF Inv, FinishSource, FinishesSource, LinkedSource, Same, Stop,
   Recover, Release, Phases, Typed
<1>2. Committed'  BY <1>a DEF Inv, FinishSource, FinishesSource, LinkedSource, Same, Stop,
   Recover, Release, Typed, Committed, Worker
<1>3. Fresh'  BY <1>a DEF Inv, FinishSource, FinishesSource, LinkedSource, Same, Stop,
   Committed, Fresh, Pinned, Recovery, NoMarker, Copied
<1>4. Pinned'  BY <1>a DEF Inv, FinishSource, FinishesSource, LinkedSource, Same, Typed,
   Committed, Fresh, Pinned, Worker, Tails
<1>5. Old'  BY <1>a DEF Inv, FinishSource, FinishesSource, LinkedSource, Same, Stop,
   Recover, Release, Typed, Committed, Old
<1>6. Worker'  BY <1>a DEF Inv, FinishSource, FinishesSource, LinkedSource, Same, Stop,
   Recover, Fresh, Worker, Recovery
<1>7. Tails'  BY <1>a DEF Inv, FinishSource, FinishesSource, LinkedSource, Same, Stop,
   Recover, Release, Typed, Committed, Worker, Tails, Recovery
<1>8. Recovery'  BY <1>a DEF Inv, FinishSource, FinishesSource, LinkedSource, Same, Stop,
   Recover, Release, Typed, Committed, Fresh, Pinned, Old, Worker, Tails, Recovery,
   Agreed, Locked
<1>9. Locked'  BY <1>a DEF Inv, FinishSource, FinishesSource, LinkedSource, Same, Stop,
   Recover, Release, Locked, Worker, Tails, Recovery, Agreed
<1>. QED  BY <1>1, <1>2, <1>3, <1>4, <1>5, <1>6, <1>7, <1>8, <1>9 DEF Inv

\* FinishCandidate keeps the invariant.
LEMMA FinishCandidateInv == ASSUME Inv, FinishCandidate PROVE Inv'
<1> USE DEF disk, counts, To, Point, Exists, Inodes, None, At, Src, Cand, Other, Legacy
<1>a. All' = All  BY DEF FinishCandidate, All
<1>1. Typed'  BY <1>a DEF Inv, FinishCandidate, Same, Typed
<1>2. Committed'  BY <1>a DEF Inv, FinishCandidate, FinishesSource, Typed, Committed
<1>3. Fresh'  BY <1>a DEF Inv, FinishCandidate, FinishesSource, LinkedSource, Committed,
   Fresh, Pinned, Recovery, NoMarker, Copied
<1>4. Pinned'  BY <1>a DEF Inv, FinishCandidate, FinishesSource, LinkedSource,
   LinkedCandidate, Same, Typed, Committed, Fresh, Pinned, Worker, Tails
<1>5. Old'  BY <1>a DEF Inv, FinishCandidate, FinishesSource, LinkedSource,
   LinkedCandidate, Same, Typed, Committed, Old
<1>6. Worker'  BY <1>a DEF Inv, FinishCandidate, Same, Typed, Committed, Fresh, Worker,
   Recovery
<1>7. Tails'  BY <1>a DEF Inv, FinishCandidate, FinishesSource, LinkedSource,
   LinkedCandidate, Fresh, Pinned, Old, Worker, Tails, Recovery
<1>8. Recovery'  BY <1>a DEF Inv, FinishCandidate, FinishesSource, LinkedSource, Old,
   Worker, Tails, Recovery, Agreed, Locked
<1>9. Locked'  BY <1>a DEF Inv, FinishCandidate, Same, Locked, Worker, Tails, Recovery
<1>. QED  BY <1>1, <1>2, <1>3, <1>4, <1>5, <1>6, <1>7, <1>8, <1>9 DEF Inv

\* Examine keeps the invariant.
LEMMA ExamineInv == ASSUME Inv, Examine PROVE Inv'
<1> USE DEF disk, counts, To, Point, Exists, Inodes, None, At, Src, Cand, Other, Legacy
<1>a. All' = All  BY DEF Examine, All
<1>b. \/ pc' = "settle" /\ marker.phase = "none" /\ locks' = locks
      \/ pc' = "decide" /\ marker.phase = "pinned" /\ dir.old = "src" /\ dir.file # "src"
         /\ dir.file # dir.next /\ locks' = locks
      \/ pc' = "legacy" /\ Legacy /\ dir.old = "src" /\ locks' = locks
      \/ pc' = "release" /\ marker.phase # "none" /\ dir.old = "none" /\ Exists("file") /\ locks' = locks
  BY DEF Inv, Examine, FinishesSource, LinkedSource, LinkedCandidate, Same, Unsafe, Stop,
     Continue, NoMarker, Typed, Phases, Fresh, Pinned, Old
<1>1. Typed'  BY <1>a DEF Inv, Examine, FinishesSource, LinkedSource, LinkedCandidate,
   Same, Unsafe, Stop, Recover, Release, Continue, NoMarker, Phases, Typed
<1>2. Committed'  BY <1>a DEF Inv, Examine, FinishesSource, LinkedSource, LinkedCandidate,
   Same, Unsafe, Stop, Recover, Release, Continue, NoMarker, Typed, Committed, Worker
<1>3. Fresh'  BY <1>a DEF Inv, Examine, FinishesSource, LinkedSource, LinkedCandidate,
   Same, Unsafe, Stop, Recover, Typed, Committed, Fresh, Tails, Recovery, Copied
<1>4. Pinned'  BY <1>a DEF Inv, Examine, FinishesSource, LinkedSource, LinkedCandidate,
   Same, Unsafe, Stop, Recover, Typed, Committed, Fresh, Pinned, Worker, Tails
<1>5. Old'  BY <1>a DEF Inv, Examine, FinishesSource, LinkedSource, LinkedCandidate, Same,
   Typed, Committed, Old
<1>6. Worker'  BY <1>a DEF Inv, Examine, FinishesSource, LinkedSource, LinkedCandidate,
   Same, Unsafe, Stop, Recover, Release, Continue, Fresh, Worker, Recovery
<1>7. Tails'  BY <1>a, <1>b DEF Inv, Examine, Typed, Phases, Fresh, Pinned, Old, Tails,
   Agreed
<1>8. Recovery'  BY <1>a, <1>b DEF Inv, Examine, Typed, Phases, Fresh, Pinned, Old,
   Recovery
<1>9. Locked'  BY <1>a DEF Inv, Examine, FinishesSource, LinkedSource, LinkedCandidate,
   Same, Unsafe, Stop, Recover, Release, Continue, NoMarker, Locked, Worker, Tails,
   Recovery, Agreed
<1>. QED  BY <1>1, <1>2, <1>3, <1>4, <1>5, <1>6, <1>7, <1>8, <1>9 DEF Inv

\* Choose keeps the invariant.
LEMMA ChooseInv == ASSUME Inv, Choose PROVE Inv'
<1> USE DEF disk, counts, To, Point, Exists, Inodes, None, At, Src, Cand, Other, Legacy
<1>a. All' = All  BY DEF Choose, All
<1>b. Candidate \in {"cand", "other", "none"} /\ Candidate # "none" /\ (contents[Candidate] = marker.cand => Candidate = "cand")
  BY DEF Inv, Choose, Candidate, Committed, Recovery, Pinned
<1>1. Typed'  BY <1>a DEF Inv, Choose, Candidate, SourceChanged, Stop, Recover, Release,
   Phases, Typed
<1>2. Committed'  BY <1>a DEF Inv, Choose, Candidate, SourceChanged, Stop, Recover,
   Release, Typed, Committed, Worker
<1>3. Fresh'  BY <1>a DEF Inv, Choose, Candidate, SourceChanged, Stop, Committed, Fresh,
   Pinned, Old, Worker, Tails, Recovery, NoMarker, Copied
<1>4. Pinned'  BY <1>a DEF Inv, Choose, Candidate, SourceChanged, Typed, Committed, Fresh,
   Pinned, Worker, Tails
<1>5. Old'  BY <1>a DEF Inv, Choose, Typed, Committed, Old
<1>6. Worker'  BY <1>a DEF Inv, Choose, Candidate, SourceChanged, Stop, Recover, Fresh,
   Worker, Recovery
<1>7. Tails'  BY <1>a DEF Inv, Choose, Candidate, SourceChanged, Stop, Recover, Release,
   Typed, Committed, Fresh, Pinned, Old, Worker, Tails, Recovery, Agreed, Locked, Copied
<1>8. Recovery'  BY <1>a DEF Inv, Choose, Candidate, SourceChanged, Stop, Recover,
   Release, Typed, Committed, Fresh, Pinned, Old, Worker, Tails, Recovery, Agreed, Locked
<1>9. Locked'  BY <1>a, <1>b DEF Inv, Choose, Candidate, SourceChanged, Stop, Recover,
   Release, Locked, Worker, Tails, Recovery, Agreed
<1>. QED  BY <1>1, <1>2, <1>3, <1>4, <1>5, <1>6, <1>7, <1>8, <1>9 DEF Inv

\* Back keeps the invariant.
LEMMA BackInv == ASSUME Inv, Back PROVE Inv'
<1> USE DEF disk, counts, To, Point, Exists, Inodes, None, At, Src, Cand, Other, Legacy
<1>a. All' = All  BY DEF Back, All
<1>1. Typed'  BY <1>a DEF Inv, Back, Typed
<1>2. Committed'  BY <1>a DEF Inv, Back, Committed, Worker
<1>3. Fresh'  BY <1>a DEF Inv, Back, Committed, Fresh, Pinned, Old, Worker, Tails,
   Recovery, NoMarker, Copied
<1>4. Pinned'  BY <1>a DEF Inv, Back, Typed, Committed, Fresh, Pinned, Worker, Tails,
   Recovery, Agreed
<1>5. Old'  BY <1>a DEF Inv, Back, Typed, Committed, Old, Worker, Recovery
<1>6. Worker'  BY <1>a DEF Inv, Back, Typed, Committed, Fresh, Worker, Recovery, Agreed,
   Locked
<1>7. Tails'  BY <1>a DEF Inv, Back, Typed, Committed, Fresh, Pinned, Old, Worker, Tails,
   Recovery, Agreed, Locked, Copied
<1>8. Recovery'  BY <1>a DEF Inv, Back, Typed, Old, Worker, Tails, Recovery, Agreed,
   Locked
<1>9. Locked'  BY <1>a DEF Inv, Back, Locked, Worker, Tails, Recovery
<1>. QED  BY <1>1, <1>2, <1>3, <1>4, <1>5, <1>6, <1>7, <1>8, <1>9 DEF Inv

\* Vacate keeps the invariant.
LEMMA VacateInv == ASSUME Inv, Vacate PROVE Inv'
<1> USE DEF disk, counts, To, Point, Exists, Inodes, None, At, Src, Cand, Other, Legacy
<1>a. All' = All  BY DEF Vacate, All
<1>1. Typed'  BY <1>a DEF Inv, Vacate, Typed
<1>2. Committed'  BY <1>a DEF Inv, Vacate, Committed, Worker
<1>3. Fresh'  BY <1>a DEF Inv, Vacate, Committed, Fresh, Pinned, Old, Worker, Tails,
   Recovery, NoMarker, Copied
<1>4. Pinned'  BY <1>a DEF Inv, Vacate, Typed, Committed, Fresh, Pinned, Worker, Tails,
   Recovery, Agreed, Copied
<1>5. Old'  BY <1>a DEF Inv, Vacate, Typed, Committed, Old, Worker, Tails, Recovery
<1>6. Worker'  BY <1>a DEF Inv, Vacate, Typed, Committed, Fresh, Worker, Recovery, Agreed,
   Locked, Copied
<1>7. Tails'  BY <1>a DEF Inv, Vacate, Fresh, Pinned, Old, Worker, Tails, Recovery,
   Agreed, Locked, Copied
<1>8. Recovery'  BY <1>a DEF Inv, Vacate, Typed, Old, Worker, Tails, Recovery, Agreed,
   Locked
<1>9. Locked'  BY <1>a DEF Inv, Vacate, Locked, Worker, Tails, Recovery
<1>. QED  BY <1>1, <1>2, <1>3, <1>4, <1>5, <1>6, <1>7, <1>8, <1>9 DEF Inv

\* Restore keeps the invariant.
LEMMA RestoreInv == ASSUME Inv, Restore PROVE Inv'
<1> USE DEF disk, counts, To, Point, Exists, Inodes, None, At, Src, Cand, Other, Legacy
<1>a. All' = All  BY DEF Restore, All
<1>1. Typed'  BY <1>a DEF Inv, Restore, Stop, Recover, Release, Continue, Phases, Typed
<1>2. Committed'  BY <1>a DEF Inv, Restore, Stop, Recover, Release, Continue, Typed,
   Committed, Worker
<1>3. Fresh'  BY <1>a DEF Inv, Restore, Stop, Recover, Release, Continue, Typed,
   Committed, Fresh, Pinned, Old, Worker, Tails, Recovery, NoMarker, Copied
<1>4. Pinned'  BY <1>a DEF Inv, Restore, Stop, Typed, Committed, Fresh, Pinned, Worker,
   Tails, Recovery, Agreed, Copied
<1>5. Old'  BY <1>a DEF Inv, Restore, Recover, Release, Continue, Typed, Committed, Old,
   Worker, Tails, Recovery
<1>6. Worker'  BY <1>a DEF Inv, Restore, Stop, Recover, Release, Continue, Typed,
   Committed, Fresh, Worker, Recovery, Agreed, Locked, Copied
<1>7. Tails'  BY <1>a DEF Inv, Restore, Stop, Recover, Release, Continue, Typed,
   Committed, Fresh, Pinned, Old, Worker, Tails, Recovery
<1>8. Recovery'  BY <1>a DEF Inv, Restore, Stop, Recover, Release, Continue, Typed,
   Committed, Fresh, Pinned, Old, Worker, Tails, Recovery, Agreed, Locked
<1>9. Locked'  BY <1>a DEF Inv, Restore, Stop, Recover, Release, Continue, Locked, Worker,
   Tails, Recovery, Agreed
<1>. QED  BY <1>1, <1>2, <1>3, <1>4, <1>5, <1>6, <1>7, <1>8, <1>9 DEF Inv

\* Restored keeps the invariant.
LEMMA RestoredInv == ASSUME Inv, Restored PROVE Inv'
<1> USE DEF disk, counts, To, Point, Exists, Inodes, None, At, Src, Cand, Other, Legacy
<1>a. All' = All  BY DEF Restored, All
<1>1. Typed'  BY <1>a DEF Inv, Restored, Typed
<1>2. Committed'  BY <1>a DEF Inv, Restored, Committed, Worker
<1>3. Fresh'  BY <1>a DEF Inv, Restored, Committed, Fresh, Pinned, Old, Worker, Tails,
   Recovery, NoMarker, Copied
<1>4. Pinned'  BY <1>a DEF Inv, Restored, Typed, Committed, Fresh, Pinned, Worker, Tails,
   Recovery, Agreed
<1>5. Old'  BY <1>a DEF Inv, Restored, Typed, Committed, Old, Worker, Recovery
<1>6. Worker'  BY <1>a DEF Inv, Restored, Typed, Committed, Fresh, Worker, Recovery,
   Agreed, Locked
<1>7. Tails'  BY <1>a DEF Inv, Restored, Typed, Committed, Fresh, Pinned, Old, Worker,
   Tails, Recovery, Agreed, Locked, Copied
<1>8. Recovery'  BY <1>a DEF Inv, Restored, Typed, Old, Worker, Tails, Recovery, Agreed,
   Locked
<1>9. Locked'  BY <1>a DEF Inv, Restored, Locked, Worker, Tails, Recovery
<1>. QED  BY <1>1, <1>2, <1>3, <1>4, <1>5, <1>6, <1>7, <1>8, <1>9 DEF Inv

\* LegacyChoose keeps the invariant.
LEMMA LegacyChooseInv == ASSUME Inv, LegacyChoose PROVE Inv'
<1> USE DEF disk, counts, To, Point, Exists, Inodes, None, At, Src, Cand, Other, Legacy
<1>a. All' = All  BY DEF LegacyChoose, All, Authenticated, Continue
<1>b. marker.phase = "legacy" /\ Exists("file") => Authenticated("file")
  BY <1>a, OnlyFirst DEF Inv, LegacyChoose, Authenticated, Old, Recovery
<1>1. Typed'  BY <1>a DEF Inv, LegacyChoose, Authenticated, Continue, Phases, Typed
<1>2. Committed'  BY <1>a DEF Inv, LegacyChoose, Authenticated, Continue, Typed,
   Committed, Worker
<1>3. Fresh'  BY <1>a DEF Inv, LegacyChoose, Authenticated, Continue, Typed, Committed,
   Fresh, Pinned, Old, Worker, Tails, Recovery, NoMarker, Copied
<1>4. Pinned'  BY <1>a DEF Inv, LegacyChoose, Authenticated, Continue, Typed, Committed,
   Fresh, Pinned, Worker, Tails, Recovery, Agreed, Copied
<1>5. Old'
  <2>1. CASE Exists("file")
    BY <1>a, <1>b, <2>1 DEF Inv, LegacyChoose, Authenticated, Continue, Typed, Old,
       Recovery
  <2>2. CASE ~Exists("file") /\ Authenticated("next")
    <3>1. dir.next = "cand" /\ Cand = {1} /\ dir.old = "src" /\ commits = 1
      BY <2>2 DEF Inv, LegacyChoose, Authenticated, Old, Recovery
    <3>2. marker' = marker /\ contents' = contents /\ counts' = counts
          /\ dir' = [dir EXCEPT !.file = dir.next, !.next = "none"]
      BY <2>2 DEF LegacyChoose
    <3>3. dir'["file"] = "cand" /\ dir'["next"] = "none" /\ dir'["old"] = "src"
      BY <3>1, <3>2 DEF Inv, Typed
    <3>. QED  BY <1>a, <2>2, <3>1, <3>2, <3>3, OnlyFirst DEF Inv, Old, LegacyChoose,
       Recovery
  <2>3. CASE ~Exists("file") /\ ~Authenticated("next")
    BY <1>a, <1>b, <2>3 DEF Inv, LegacyChoose, Continue, Old, Recovery
  <2>. QED  BY <2>1, <2>2, <2>3
<1>6. Worker'  BY <1>a DEF Inv, LegacyChoose, Authenticated, Continue, Typed, Committed,
   Fresh, Worker, Recovery, Agreed, Locked, Copied
<1>7. Tails'  BY <1>a DEF Inv, LegacyChoose, Authenticated, Continue, Typed, Committed,
   Fresh, Pinned, Old, Worker, Tails, Recovery, Agreed, Locked, Copied
<1>8. Recovery'  BY <1>a, <1>b DEF Inv, LegacyChoose, Authenticated, Continue, Typed,
   Committed, Fresh, Pinned, Old, Worker, Tails, Recovery, Agreed, Locked
<1>9. Locked'  BY <1>a DEF Inv, LegacyChoose, Authenticated, Continue, Locked, Worker,
   Tails, Recovery, Agreed
<1>. QED  BY <1>1, <1>2, <1>3, <1>4, <1>5, <1>6, <1>7, <1>8, <1>9 DEF Inv

\* LegacyCheck keeps the invariant.
LEMMA LegacyCheckInv == ASSUME Inv, LegacyCheck PROVE Inv'
<1> USE DEF disk, counts, To, Point, Exists, Inodes, None, At, Src, Cand, Other, Legacy
<1>a. All' = All  BY DEF LegacyCheck, All, Authenticated, Continue
<1>1. Typed'  BY <1>a DEF Inv, LegacyCheck, Authenticated, Continue, Phases, Typed
<1>2. Committed'  BY <1>a DEF Inv, LegacyCheck, Authenticated, Continue, Typed, Committed,
   Worker
<1>3. Fresh'  BY <1>a DEF Inv, LegacyCheck, Authenticated, Continue, Typed, Committed,
   Fresh, Pinned, Old, Worker, Tails, Recovery, NoMarker, Copied
<1>4. Pinned'  BY <1>a DEF Inv, LegacyCheck, Authenticated, Continue, Typed, Committed,
   Fresh, Pinned, Worker, Tails, Recovery, Agreed, Copied
<1>5. Old'  BY <1>a DEF Inv, LegacyCheck, Authenticated, Continue, Typed, Committed, Old,
   Worker, Tails, Recovery
<1>6. Worker'  BY <1>a DEF Inv, LegacyCheck, Authenticated, Continue, Typed, Committed,
   Fresh, Worker, Recovery, Agreed, Locked, Copied
<1>7. Tails'  BY <1>a DEF Inv, LegacyCheck, Authenticated, Continue, Typed, Committed,
   Fresh, Pinned, Old, Worker, Tails, Recovery, Agreed, Locked, Copied
<1>8. Recovery'  BY <1>a DEF Inv, LegacyCheck, Authenticated, Continue, Typed, Committed,
   Fresh, Pinned, Old, Worker, Tails, Recovery, Agreed, Locked
<1>9. Locked'  BY <1>a DEF Inv, LegacyCheck, Authenticated, Continue, Locked, Worker,
   Tails, Recovery, Agreed
<1>. QED  BY <1>1, <1>2, <1>3, <1>4, <1>5, <1>6, <1>7, <1>8, <1>9 DEF Inv

\* LegacyRestore keeps the invariant.
LEMMA LegacyRestoreInv == ASSUME Inv, LegacyRestore PROVE Inv'
<1> USE DEF disk, counts, To, Point, Exists, Inodes, None, At, Src, Cand, Other, Legacy
<1>a. All' = All  BY DEF LegacyRestore, All, Continue
<1>1. Typed'  BY <1>a DEF Inv, LegacyRestore, Continue, Phases, Typed
<1>2. Committed'  BY <1>a DEF Inv, LegacyRestore, Continue, Typed, Committed, Worker
<1>3. Fresh'  BY <1>a DEF Inv, LegacyRestore, Continue, Typed, Committed, Fresh, Pinned,
   Old, Worker, Tails, Recovery, NoMarker, Copied
<1>4. Pinned'  BY <1>a DEF Inv, LegacyRestore, Continue, Typed, Committed, Fresh, Pinned,
   Worker, Tails, Recovery, Agreed, Copied
<1>5. Old'  BY <1>a DEF Inv, LegacyRestore, Continue, Typed, Committed, Old, Worker,
   Tails, Recovery
<1>6. Worker'  BY <1>a DEF Inv, LegacyRestore, Continue, Typed, Committed, Fresh, Worker,
   Recovery, Agreed, Locked, Copied
<1>7. Tails'  BY <1>a DEF Inv, LegacyRestore, Continue, Typed, Committed, Fresh, Pinned,
   Old, Worker, Tails, Recovery, Agreed, Locked, Copied
<1>8. Recovery'  BY <1>a DEF Inv, LegacyRestore, Continue, Typed, Committed, Fresh,
   Pinned, Old, Worker, Tails, Recovery, Agreed, Locked
<1>9. Locked'  BY <1>a DEF Inv, LegacyRestore, Continue, Locked, Worker, Tails, Recovery,
   Agreed
<1>. QED  BY <1>1, <1>2, <1>3, <1>4, <1>5, <1>6, <1>7, <1>8, <1>9 DEF Inv

\* A crash, at any step, keeps the invariant: locks go, files and marker stay.
LEMMA CrashInv == ASSUME Inv, Crash PROVE Inv'
<1> USE DEF disk, counts, To, Point, Exists, Inodes, None, At, Src, Cand, Other, Legacy
<1>a. All' = All  BY DEF Crash, All, Release
<1>1. Typed'  BY <1>a DEF Inv, Crash, Release, Phases, Typed
<1>2. Committed'  BY <1>a DEF Inv, Crash, Release, Typed, Committed, Worker
<1>3. Fresh'  BY <1>a DEF Inv, Crash, Release, Typed, Committed, Fresh, Pinned, Old,
   Worker, Tails, Recovery, NoMarker, Copied
<1>4. Pinned'  BY <1>a DEF Inv, Crash, Release, Typed, Committed, Fresh, Pinned, Worker,
   Tails, Recovery, Agreed, Copied
<1>5. Old'  BY <1>a DEF Inv, Crash, Release, Typed, Committed, Old
<1>6. Worker'  BY <1>a DEF Inv, Crash, Release, Typed, Committed, Fresh, Worker, Recovery,
   Agreed, Locked, Copied
<1>7. Tails'  BY <1>a DEF Inv, Crash, Release, Typed, Committed, Fresh, Pinned, Old,
   Worker, Tails, Recovery, Agreed, Locked, Copied
<1>8. Recovery'  BY <1>a DEF Inv, Crash, Release, Typed, Committed, Fresh, Pinned, Old,
   Worker, Tails, Recovery, Agreed, Locked
<1>9. Locked'  BY <1>a DEF Inv, Crash, Release, Locked, Worker, Tails, Recovery, Agreed
<1>. QED  BY <1>1, <1>2, <1>3, <1>4, <1>5, <1>6, <1>7, <1>8, <1>9 DEF Inv

\* A start of the runtime keeps the invariant.
LEMMA StartupInv == ASSUME Inv, Startup PROVE Inv'
<1> USE DEF disk, counts, To, Point, Exists, Inodes, None, At, Src, Cand, Other, Legacy
<1>a. All' = All  BY DEF Startup, All, Continue
<1>1. Typed'  BY <1>a DEF Inv, Startup, Continue, Typed
<1>2. Committed'  BY <1>a DEF Inv, Startup, Continue, Typed, Committed
<1>3. Fresh'  BY <1>a DEF Inv, Startup, Continue, Typed, Committed, Fresh, Pinned, Old,
   Worker, Tails, Recovery, NoMarker, Copied
<1>4. Pinned'  BY <1>a DEF Inv, Startup, Continue, Typed, Committed, Fresh, Pinned,
   Worker, Tails, Recovery, Agreed, Copied
<1>5. Old'  BY <1>a DEF Inv, Startup, Typed, Committed, Old
<1>6. Worker'  BY <1>a DEF Inv, Startup, Continue, Typed, Committed, Fresh, Worker,
   Recovery
<1>7. Tails'  BY <1>a DEF Inv, Startup, Continue, Typed, Committed, Fresh, Pinned, Old,
   Worker, Tails, Recovery
<1>8. Recovery'  BY <1>a DEF Inv, Startup, Continue, Typed, Committed, Fresh, Pinned, Old,
   Worker, Tails, Recovery, Agreed, Locked
<1>9. Locked'  BY <1>a DEF Inv, Startup, Continue, Locked, Worker, Tails, Recovery
<1>. QED  BY <1>1, <1>2, <1>3, <1>4, <1>5, <1>6, <1>7, <1>8, <1>9 DEF Inv


\* A new commit is one more.
LEMMA AllGrows == ASSUME Inv, commits' = commits + 1
                  PROVE All' = All \cup {commits'} /\ commits' \notin All \cup {0, 1}
BY DEF Inv, Typed, All

\* A commit by any connection, through any name it has open, keeps the invariant.
LEMMA CommitInv == ASSUME Inv, NEW name \in {"file", "old"}, Commit(name) PROVE Inv'
<1> USE DEF disk, counts, To, Point, Exists, Inodes, None, At, Src, Cand, Other, Legacy
<1>a. commits' = commits + 1 /\ commits' \in 1..MaxCommits /\ All' = All \cup {commits'} /\ commits' \notin All \cup {0, 1}
  BY ShadowBounds, AllGrows DEF Inv, Typed, Commit
<1>1. Typed'  BY <1>a, ShadowBounds DEF Inv, Commit, Typed
<1>2. Committed'  BY <1>a, ShadowBounds DEF Inv, Commit, Typed, Committed
<1>3. Fresh'  BY <1>a, ShadowBounds DEF Inv, Commit, Typed, Committed, Fresh, Locked
<1>4. Pinned'  BY <1>a, ShadowBounds DEF Inv, Commit, Typed, Committed, Fresh, Pinned
<1>5. Old'  BY <1>a, ShadowBounds DEF Inv, Commit, Typed, Committed, Old
<1>6. Worker'  BY <1>a, ShadowBounds DEF Inv, Commit, Typed, Committed, Worker, Agreed,
   Copied
<1>7. Tails'  BY <1>a, ShadowBounds DEF Inv, Commit, Typed, Committed, Tails, Agreed
<1>8. Recovery'  BY <1>a, ShadowBounds DEF Inv, Commit, Typed, Committed, Fresh, Pinned,
   Old, Recovery, Agreed
<1>9. Locked'  BY <1>a, ShadowBounds DEF Inv, Commit, Locked
<1>. QED  BY <1>1, <1>2, <1>3, <1>4, <1>5, <1>6, <1>7, <1>8, <1>9 DEF Inv

\* A database that another connection creates in the gap keeps the invariant.
LEMMA CreatesInv == ASSUME Inv, Creates PROVE Inv'
<1> USE DEF disk, counts, To, Point, Exists, Inodes, None, At, Src, Cand, Other, Legacy
<1>a. commits' = commits + 1 /\ commits' \in 1..MaxCommits /\ All' = All \cup {commits'} /\ commits' \notin All \cup {0, 1}
  BY ShadowBounds, AllGrows DEF Inv, Typed, Creates
<1>1. Typed'  BY <1>a, ShadowBounds DEF Inv, Creates, Typed
<1>2. Committed'  BY <1>a, ShadowBounds DEF Inv, Creates, Typed, Committed
<1>3. Fresh'  BY <1>a, ShadowBounds DEF Inv, Creates, Typed, Committed, Fresh, Locked
<1>4. Pinned'  BY <1>a, ShadowBounds DEF Inv, Creates, Typed, Committed, Fresh, Pinned
<1>5. Old'  BY <1>a, ShadowBounds DEF Inv, Creates, Typed, Committed, Old
<1>6. Worker'  BY <1>a, ShadowBounds DEF Inv, Creates, Typed, Committed, Worker, Agreed,
   Copied
<1>7. Tails'  BY <1>a, ShadowBounds DEF Inv, Creates, Typed, Committed, Tails, Agreed
<1>8. Recovery'  BY <1>a, ShadowBounds DEF Inv, Creates, Typed, Committed, Fresh, Pinned,
   Old, Recovery, Agreed
<1>9. Locked'  BY <1>a, ShadowBounds DEF Inv, Creates, Locked
<1>. QED  BY <1>1, <1>2, <1>3, <1>4, <1>5, <1>6, <1>7, <1>8, <1>9 DEF Inv

\* A candidate that something replaces keeps the invariant.
LEMMA TamperInv == ASSUME Inv, Tamper PROVE Inv'
<1> USE DEF disk, counts, To, Point, Exists, Inodes, None, At, Src, Cand, Other, Legacy
<1>a. All' = All /\ 0 \notin All  BY DEF Tamper, All
<1>1. Typed'  BY <1>a, ShadowBounds DEF Inv, Tamper, Typed
<1>2. Committed'  BY <1>a, ShadowBounds DEF Inv, Tamper, Typed, Committed
<1>3. Fresh'  BY <1>a, ShadowBounds DEF Inv, Tamper, Same, Typed, Committed, Fresh,
   Locked
<1>4. Pinned'  BY <1>a, ShadowBounds DEF Inv, Tamper, Same, Typed, Committed, Fresh,
   Pinned
<1>5. Old'  BY <1>a, ShadowBounds DEF Inv, Tamper, Same, Typed, Committed, Old
<1>6. Worker'  BY <1>a, ShadowBounds DEF Inv, Tamper, Worker, Agreed, Copied
<1>7. Tails'  BY <1>a, ShadowBounds DEF Inv, Tamper, Committed, Tails, Agreed
<1>8. Recovery'  BY <1>a, ShadowBounds DEF Inv, Tamper, Same, Typed, Committed, Fresh,
   Pinned, Old, Recovery, Agreed
<1>9. Locked'  BY <1>a, ShadowBounds DEF Inv, Tamper, Same, Locked
<1>. QED  BY <1>1, <1>2, <1>3, <1>4, <1>5, <1>6, <1>7, <1>8, <1>9 DEF Inv

\* Every step keeps the invariant.
LEMMA NextInv == ASSUME Inv, [Next]_vars PROVE Inv'
<1>1. CASE UNCHANGED vars
  <2> USE <1>1 DEF vars, disk, counts, Inv
  <2>1. Typed' /\ Committed' /\ Locked'  BY DEF Typed, Committed, Locked, All, Src, Cand,
     Other
  <2>2. Fresh' /\ Pinned' /\ Old'  BY DEF Fresh, Pinned, Old, All, Src, Cand, Other, At,
     Legacy
  <2>3. Worker' /\ Tails' /\ Recovery'
    BY DEF Worker, Tails, Recovery, All, Src, Cand, At, Legacy, Agreed, Copied
  <2>. QED  BY <2>1, <2>2, <2>3
<1>2. ASSUME NEW name \in {"file", "old"}, Commit(name) PROVE Inv'  BY <1>2, CommitInv
<1>3. CASE Creates  BY <1>3, CreatesInv
<1>4. CASE Tamper  BY <1>4, TamperInv
<1>5. CASE Swaps
  BY <1>5, BeginInv, ReserveInv, CopyInv, PrepareInv, HandoffInv, FenceInv, LockInv, PinInv,
     RenameInv DEF Swaps
<1>6. CASE Tail
  BY <1>6, LinkInv, UnlinkInv, DropInv, ReleaseFenceInv, DiscardInv, SettleInv DEF Tail
<1>7. CASE Recovers
  BY <1>7, FinishSourceInv, FinishCandidateInv, ExamineInv, ChooseInv, BackInv, VacateInv, RestoreInv,
     RestoredInv DEF Recovers
<1>8. CASE LegacySteps
  BY <1>8, LegacyChooseInv, LegacyCheckInv, LegacyRestoreInv DEF LegacySteps
<1>9. CASE WorkerFails  BY <1>9, WorkerFailsInv
<1>10. CASE Crash  BY <1>10, CrashInv
<1>11. CASE Startup  BY <1>11, StartupInv
<1>. QED  BY <1>1, <1>2, <1>3, <1>4, <1>5, <1>6, <1>7, <1>8, <1>9, <1>10, <1>11 DEF Next

\* The inductive invariant holds in every behaviour.
THEOREM Invariance == Spec => []Inv
<1>1. Init => Inv  BY InvInit
<1>2. Inv /\ [Next]_vars => Inv'  BY NextInv
<1>. QED  BY <1>1, <1>2, PTL DEF Spec

\* Each commit is in some file that still has a name, wherever a swap or its recovery was
\* interrupted and whatever other connections committed meanwhile (archive-shadow.mjs, the swap
\* of the two files and its recovery).
THEOREM KeepsCommits == Spec => []NothingLost
<1>1. ASSUME Inv PROVE NothingLost
  <2> USE DEF Inodes, None, At, Src, Cand, Other, Legacy, Exists
  <2>1. \A n \in {"file", "next", "old"} : Exists(n) => contents[dir[n]] \subseteq Kept  BY DEF Kept
  <2>2. CASE marker.phase = "pinned"  BY <1>1, <2>1, <2>2 DEF Inv, Typed, Committed,
     Pinned, NothingLost, All
  <2>3. CASE Legacy  BY <1>1, <2>1, <2>3, OnlyFirst DEF Inv, Typed, Committed, Old,
     NothingLost, All
  <2>4. CASE marker.phase \in {"none", "begun", "prepared"}
    BY <1>1, <2>1, <2>4 DEF Inv, Typed, Committed, Fresh, NothingLost, All
  <2>. QED  BY <1>1, <2>2, <2>3, <2>4 DEF Inv, Typed, Phases
<1>. QED  BY <1>1, Invariance, PTL

\* A store at rest is one public, unfenced database that holds every commit and nothing else,
\* and nothing of the swap is left (archive-shadow.mjs, recovery at start).
THEOREM RestsWhole == Spec => []RestIsWhole
<1>1. ASSUME Inv PROVE RestIsWhole
  BY <1>1 DEF Inv, Typed, Fresh, Recovery, RestIsWhole, At, None, Exists, All
<1>. QED  BY <1>1, Invariance, PTL

\* Recovery refuses to go on only where the databases contradict each other: a database created
\* in the gap, or a candidate other than the pinned one; no sequence of crashes leads it there
\* by itself.
THEOREM StopsOnConflict == Spec => []StopsOnlyOnConflict
<1>1. ASSUME Inv PROVE StopsOnlyOnConflict
  <2>1. TypeOK
    BY <1>1, ShadowBounds DEF Inv, Typed, Committed, Locked, TypeOK, Inodes, None, Phases,
       All, Src, Cand, Other
  <2>. QED  BY <1>1, <2>1 DEF Inv, Recovery, StopsOnlyOnConflict, Cand
<1>. QED  BY <1>1, Invariance, PTL

\* The swap ends in one whole database or stops at a contradiction, in every
\* instance.
THEOREM EndsWhole == Spec => []EndsWholeOrStops
<1>. QED  BY RestsWhole, StopsOnConflict, PTL DEF EndsWholeOrStops

--------------------------------------------------------------------------
(***************************************************************************)
(* What is archived and then deleted: TaskThreads, for any tasks, threads, *)
(* windows, limits, page sizes and clean-up calls.                         *)
(*                                                                         *)
(* A thread is selected by its stamp, but what matters is since when it is *)
(* hidden; so the invariant says that no step hides a thread without       *)
(* stamping it (Stamped), whichever row hides it.  Of the sweep it says    *)
(* that what a call owes and nobody touched is still without threads, and  *)
(* that the shared cursor has not passed it once it wrapped for this call: *)
(* a page is closed towards earlier rows (ScannedIsClosed), so the cursor  *)
(* of another call's page passes only what that page deletes.  What each   *)
(* step owes to both tables is Fits; each action has a lemma for it.       *)
(***************************************************************************)
\* What the proofs assume of the constants; ids are numbers, which orders equal instants.
TaskBounds ==
  /\ Tasks \subseteq Nat /\ Window \in Nat
  /\ {CallLimit, SweepSize} \subseteq Nat \ {0}

TaskRecs == [archived : BOOLEAN, updated : 1..clock]
ThreadRecs == [task : Tasks, archived : BOOLEAN, deleting : {"no", "user", "retention"},
               updated : 1..clock, run : {"none", "active", "interrupted"}]
CallRecs == [phase : {"off", "threads", "tasks", "swept"}, cutoff : Nat, ids : SUBSET Threads,
             deleted : Nat, examined : Nat, wrapped : BOOLEAN, owed : SUBSET Tasks]

\* The types of the state.
RetentionTyped ==
  /\ clock \in Nat \ {0} /\ after \in Nat \X Nat
  /\ DOMAIN tasks \subseteq Tasks /\ tasks \in [DOMAIN tasks -> TaskRecs] /\ IsFiniteSet(DOMAIN tasks)
  /\ DOMAIN threads \subseteq Threads \cap DOMAIN hiddenAt /\ threads \in [DOMAIN threads -> ThreadRecs]
  /\ hiddenAt \in [DOMAIN hiddenAt -> 0..clock]
  /\ call \in [Calls -> CallRecs]

\* Every thread has its task; a marked one stays hidden and idle.
Homes == \A c \in DOMAIN threads :
  /\ threads[c].task \in DOMAIN tasks
  /\ threads[c].deleting # "no" => threads[c].archived /\ T!Settled(c)

\* A hidden thread's stamp is not older than its hiding: the selection goes by it.
Stamped == \A c \in DOMAIN threads :
  threads[c].deleting = "no" /\ T!Hidden(threads[c], tasks) => hiddenAt[c] <= threads[c].updated

\* What retention marked had been hidden for longer than the window.
Overdue == \A c \in DOMAIN threads : threads[c].deleting = "retention" => hiddenAt[c] < clock - Window

\* The cutoff of a call stays a window behind the clock.
Cutoffs == \A p \in Calls :
  IF call[p].phase = "off" THEN call[p].ids = {} ELSE call[p].cutoff <= clock - Window

\* What a call owes, of what has not been touched since, is still without threads, and once
\* the shared cursor has wrapped for this call it has not passed any of it.
Owing(p) == call[p].owed \cap T!Old(call[p].cutoff)
Sweeping == \A p \in Calls :
  /\ call[p].phase = "swept" => Owing(p) = {}
  /\ call[p].phase = "tasks" => \A t \in Owing(p) : T!Threadless(t) /\ (call[p].wrapped => ~T!Passed(t))

RInv == RetentionTyped /\ Homes /\ Stamped /\ Overdue /\ Cutoffs /\ Sweeping

--------------------------------------------------------------------------
\* The order of rows: by instant, equal ones by name.
Rows(f, S) == S \subseteq Nat /\ IsFiniteSet(S) /\ \A x \in S : f[x].updated \in Nat
Before(f, S, x) == {y \in S : T!Earlier(f, y, x)}

LEMMA Ordering ==
  ASSUME NEW f, NEW S, Rows(f, S), NEW x \in S, NEW y \in S
  PROVE  /\ ~T!Earlier(f, x, x)
         /\ x = y \/ T!Earlier(f, x, y) \/ T!Earlier(f, y, x)
         /\ T!Earlier(f, x, y) => ~T!Earlier(f, y, x)
         /\ \A z \in S : T!Earlier(f, x, y) /\ T!Earlier(f, y, z) => T!Earlier(f, x, z)
<1>1. /\ x \in Nat /\ y \in Nat /\ f[x].updated \in Nat /\ f[y].updated \in Nat
      /\ \A z \in S : z \in Nat /\ f[z].updated \in Nat
  BY DEF Rows
<1>2. ASSUME NEW z \in S, T!Earlier(f, x, y), T!Earlier(f, y, z) PROVE T!Earlier(f, x, z)
  <2>1. z \in Nat /\ f[z].updated \in Nat
    BY <1>1
  <2>2. f[x].updated < f[y].updated \/ (f[x].updated = f[y].updated /\ x < y)
    BY <1>2 DEF T!Earlier
  <2>3. f[y].updated < f[z].updated \/ (f[y].updated = f[z].updated /\ y < z)
    BY <1>2 DEF T!Earlier
  <2>4. f[x].updated < f[z].updated \/ (f[x].updated = f[z].updated /\ x < z)
    BY <1>1, <2>1, <2>2, <2>3
  <2> QED
    BY <2>4 DEF T!Earlier
<1>3. ~T!Earlier(f, x, x) /\ (T!Earlier(f, x, y) => ~T!Earlier(f, y, x))
  BY <1>1 DEF T!Earlier
<1>4. x = y \/ T!Earlier(f, x, y) \/ T!Earlier(f, y, x)
  BY <1>1 DEF T!Earlier
<1> QED
  BY <1>2, <1>3, <1>4

LEMMA RowsPart ==
  ASSUME NEW f, NEW S, Rows(f, S), NEW U, U \subseteq S
  PROVE  Rows(f, U)
  BY FS_Subset DEF Rows

\* TaskThreads counts as the library does.
LEMMA Counting == ASSUME NEW S PROVE T!Cardinality(S) = Cardinality(S)
  BY DEF T!Cardinality, Cardinality

LEMMA NoneCounted == T!Cardinality({}) = 0
  BY FS_EmptySet, Counting

LEMMA Sizes ==
  ASSUME NEW S, IsFiniteSet(S), NEW U, U \subseteq S
  PROVE  /\ IsFiniteSet(U) /\ T!Cardinality(U) \in Nat /\ T!Cardinality(S) \in Nat
         /\ T!Cardinality(U) <= T!Cardinality(S)
<1>1. /\ IsFiniteSet(U) /\ Cardinality(U) \in Nat /\ Cardinality(S) \in Nat
      /\ Cardinality(U) <= Cardinality(S)
  BY FS_Subset, FS_CardinalityType
<1> QED
  BY <1>1, Counting

\* A finite family of sets has a least one among them, whatever it is ordered by.
LEMMA LeastSet ==
  ASSUME NEW S, IsFiniteSet(S), NEW F, F \subseteq SUBSET S, F # {}
  PROVE  \E U \in F : \A V \in F : ~(V \subseteq U /\ V # U)
<1>1. F \subseteq FiniteSubsetsOf(S)
  BY FS_Subset DEF FiniteSubsetsOf
<1>2. PICK U \in F : \A V \in F : ~(<<V, U>> \in StrictSubsetOrdering(S))
  BY <1>1, FS_StrictSubsetOrderingWellFounded, WFMin
<1> QED
  BY <1>2 DEF StrictSubsetOrdering

LEMMA Earliest ==
  ASSUME NEW f, NEW S, Rows(f, S), S # {}
  PROVE  \E x \in S : \A y \in S : ~T!Earlier(f, y, x)
<1> DEFINE F == {Before(f, S, x) : x \in S}
<1>1. F \subseteq SUBSET S /\ F # {}
  BY DEF Before
<1>2. PICK U \in F : \A V \in F : ~(V \subseteq U /\ V # U)
  <2>1. IsFiniteSet(S)
    BY DEF Rows
  <2> HIDE DEF F
  <2> QED
    BY <1>1, <2>1, LeastSet
<1>3. PICK x \in S : U = Before(f, S, x)
  BY <1>2
<1>4. ASSUME NEW y \in S, T!Earlier(f, y, x) PROVE FALSE
  <2>1. Before(f, S, y) \subseteq U /\ y \in U /\ y \notin Before(f, S, y)
    BY <1>3, <1>4, Ordering DEF Before
  <2> QED
    BY <1>2, <2>1
<1> QED
  BY <1>4

LEMMA Latest ==
  ASSUME NEW f, NEW S, Rows(f, S), S # {}
  PROVE  \E x \in S : \A y \in S : ~T!Earlier(f, x, y)
<1> DEFINE Behind(x) == {y \in S : T!Earlier(f, x, y)}
           F == {Behind(x) : x \in S}
<1>1. F \subseteq SUBSET S /\ F # {}
  OBVIOUS
<1>2. PICK U \in F : \A V \in F : ~(V \subseteq U /\ V # U)
  <2>1. IsFiniteSet(S)
    BY DEF Rows
  <2> HIDE DEF F
  <2> QED
    BY <1>1, <2>1, LeastSet
<1>3. PICK x \in S : U = Behind(x)
  BY <1>2
<1>4. ASSUME NEW y \in S, T!Earlier(f, x, y) PROVE FALSE
  <2>1. Behind(y) \subseteq U /\ y \in U /\ y \notin Behind(y)
    BY <1>3, <1>4, Ordering
  <2> QED
    BY <1>2, <2>1
<1> QED
  BY <1>4

\* The first n rows are closed towards the earlier ones, and all there are if
\* they are fewer than n.
LEMMA FirstIsClosed ==
  ASSUME NEW f, NEW S, Rows(f, S), NEW n \in Nat, NEW x \in T!First(f, S, n), NEW y \in S,
         ~T!Earlier(f, x, y)
  PROVE  y \in T!First(f, S, n)
<1>1. x \in S /\ T!Cardinality(Before(f, S, x)) < n
  BY DEF T!First, Before
<1>2. Before(f, S, y) \subseteq Before(f, S, x) /\ Before(f, S, x) \subseteq S
  BY <1>1, Ordering DEF Before
<1>3. IsFiniteSet(Before(f, S, x))
  BY <1>2, Sizes DEF Rows
<1>4. /\ T!Cardinality(Before(f, S, y)) \in Nat /\ T!Cardinality(Before(f, S, x)) \in Nat
      /\ T!Cardinality(Before(f, S, y)) <= T!Cardinality(Before(f, S, x))
  BY <1>2, <1>3, Sizes
<1> QED
  BY <1>1, <1>4 DEF T!First, Before

LEMMA FirstIsAll ==
  ASSUME NEW f, NEW S, Rows(f, S), NEW n \in Nat, T!Cardinality(T!First(f, S, n)) < n
  PROVE  T!First(f, S, n) = S
<1> SUFFICES ASSUME S \ T!First(f, S, n) # {} PROVE FALSE
  BY DEF T!First
<1>1. PICK x \in S \ T!First(f, S, n) : \A y \in S \ T!First(f, S, n) : ~T!Earlier(f, y, x)
  <2>1. Rows(f, S \ T!First(f, S, n))
    BY RowsPart
  <2> QED
    BY <2>1, Earliest
<1>2. Before(f, S, x) \subseteq T!First(f, S, n) /\ T!First(f, S, n) \subseteq S
  BY <1>1 DEF Before, T!First
<1>3. IsFiniteSet(T!First(f, S, n))
  BY <1>2, Sizes DEF Rows
<1>4. /\ T!Cardinality(Before(f, S, x)) \in Nat /\ T!Cardinality(T!First(f, S, n)) \in Nat
      /\ T!Cardinality(Before(f, S, x)) <= T!Cardinality(T!First(f, S, n))
  BY <1>2, <1>3, Sizes
<1>5. T!Cardinality(Before(f, S, x)) < n
  BY <1>4
<1> QED
  BY <1>1, <1>5 DEF T!First, Before

LEMMA FirstIsSome ==
  ASSUME NEW f, NEW S, Rows(f, S), NEW n \in Nat \ {0}, S # {}
  PROVE  T!First(f, S, n) # {}
<1>1. PICK x \in S : \A y \in S : ~T!Earlier(f, y, x)
  BY Earliest
<1>2. Before(f, S, x) = {}
  BY <1>1 DEF Before
<1> QED
  BY <1>1, <1>2, NoneCounted DEF T!First, Before

--------------------------------------------------------------------------
\* What each step does to the two tables.
TablesTyped ==
  /\ DOMAIN tasks \subseteq Tasks /\ tasks \in [DOMAIN tasks -> TaskRecs] /\ IsFiniteSet(DOMAIN tasks)
  /\ DOMAIN threads \subseteq Threads /\ threads \in [DOMAIN threads -> ThreadRecs]

HidingNoted == hiddenAt' = [c \in DOMAIN hiddenAt \cup DOMAIN threads' |->
       IF c \notin DOMAIN hiddenAt THEN 0
       ELSE IF /\ c \in DOMAIN threads /\ c \in DOMAIN threads'
               /\ ~T!Hidden(threads[c], tasks) /\ T!Hidden(threads'[c], tasks')
       THEN clock ELSE hiddenAt[c]]

\* A task that is new or changed has the present stamp, and so has one that a
\* thread came to.
TasksStamped ==
  /\ \A t \in DOMAIN tasks' : (t \in DOMAIN tasks /\ tasks'[t] = tasks[t]) \/ tasks'[t].updated = clock
  /\ \A c \in DOMAIN threads' :
       \/ c \in DOMAIN threads /\ threads[c].task = threads'[c].task
       \/ tasks'[threads'[c].task].updated = clock

\* A thread that gets hidden has the present stamp; a hidden one keeps its stamp
\* or gets a later one; retention marks what was hidden long enough.
ThreadsStamped == \A c \in DOMAIN threads' :
  \/ c \notin DOMAIN hiddenAt /\ threads'[c].deleting = "no"
  \/ /\ c \in DOMAIN threads
     /\ threads'[c].deleting = "no" /\ T!Hidden(threads'[c], tasks') =>
          \/ threads'[c].updated = clock
          \/ /\ threads[c].deleting = "no" /\ T!Hidden(threads[c], tasks)
             /\ threads'[c].updated = threads[c].updated
     /\ threads'[c].deleting = "retention" =>
          T!Hidden(threads[c], tasks) /\ hiddenAt[c] < clock - Window

LEMMA HidingKept ==
  ASSUME RInv, HidingNoted, TablesTyped', clock' \in Nat \ {0}, clock <= clock', ThreadsStamped, TaskBounds
  PROVE  /\ DOMAIN threads' \subseteq DOMAIN hiddenAt' /\ hiddenAt' \in [DOMAIN hiddenAt' -> 0..clock']
         /\ Stamped' /\ Overdue'
<1> USE DEF RInv, RetentionTyped, TaskBounds
<1>1. DOMAIN hiddenAt' = DOMAIN hiddenAt \cup DOMAIN threads'
  BY DEF HidingNoted
<1>2. \A c \in DOMAIN hiddenAt' : hiddenAt'[c] \in 0..clock
  BY DEF HidingNoted
<1>3. hiddenAt' \in [DOMAIN hiddenAt' -> 0..clock']
  <2>1. \A c \in DOMAIN hiddenAt' : hiddenAt'[c] \in 0..clock'
    BY <1>2
  <2>2. hiddenAt' = [c \in DOMAIN hiddenAt' |-> hiddenAt'[c]]
    BY DEF HidingNoted
  <2> QED
    BY <2>1, <2>2
<1>4. ASSUME NEW c \in DOMAIN threads', threads'[c].deleting = "no", T!Hidden(threads'[c], tasks')
      PROVE  hiddenAt'[c] <= threads'[c].updated
  <2>1. threads'[c].updated \in Nat /\ hiddenAt'[c] \in 0..clock
    BY <1>1, <1>2, <1>4 DEF TablesTyped, ThreadRecs
  <2>2. CASE c \notin DOMAIN hiddenAt
    BY <1>1, <2>1, <2>2 DEF HidingNoted
  <2>3. CASE threads'[c].updated = clock
    BY <2>1, <2>3
  <2>4. CASE c \in DOMAIN threads /\ threads[c].deleting = "no" /\ T!Hidden(threads[c], tasks)
             /\ threads'[c].updated = threads[c].updated
    BY <1>4, <2>4 DEF HidingNoted, Stamped
  <2> QED
    BY <1>4, <2>2, <2>3, <2>4 DEF ThreadsStamped
<1>5. ASSUME NEW c \in DOMAIN threads', threads'[c].deleting = "retention"
      PROVE  hiddenAt'[c] < clock' - Window
  <2>1. c \in DOMAIN threads /\ T!Hidden(threads[c], tasks) /\ hiddenAt[c] < clock - Window
    BY <1>5 DEF ThreadsStamped
  <2>2. hiddenAt'[c] = hiddenAt[c] /\ hiddenAt[c] \in Nat
    BY <2>1 DEF HidingNoted
  <2> QED
    BY <2>1, <2>2
<1> QED
  BY <1>1, <1>3, <1>4, <1>5 DEF Stamped, Overdue

\* A step that leaves the cursor and what the calls owe alone moves no owed task.
SameCalls ==
  /\ after' = after /\ call' \in [Calls -> CallRecs]
  /\ \A p \in Calls :
       /\ call'[p].phase = call[p].phase /\ call'[p].cutoff = call[p].cutoff
       /\ call'[p].wrapped = call[p].wrapped /\ call'[p].owed = call[p].owed
       /\ call'[p].ids \subseteq call[p].ids

LEMMA SweepingKept ==
  ASSUME RInv, TaskBounds, TasksStamped, TablesTyped', clock' \in Nat, clock <= clock', SameCalls
  PROVE  Cutoffs' /\ Sweeping'
<1> USE DEF RInv, RetentionTyped, TaskBounds
<1>1. Cutoffs'
  BY DEF Cutoffs, CallRecs, SameCalls
<1>2. ASSUME NEW p \in Calls, call[p].phase # "off", NEW t \in Owing(p)'
      PROVE  t \in Owing(p) /\ tasks'[t] = tasks[t] /\ t \in DOMAIN tasks
  <2>1. call[p].cutoff <= clock /\ call[p].cutoff \in Nat
    BY <1>2 DEF Cutoffs, CallRecs
  <2>2. tasks'[t].updated # clock /\ t \in DOMAIN tasks'
    BY <1>2, <2>1 DEF Owing, T!Old, TablesTyped, TaskRecs, SameCalls
  <2> QED
    BY <1>2, <2>2 DEF TasksStamped, Owing, T!Old, SameCalls
<1>3. ASSUME NEW p \in Calls, call[p].phase # "off", NEW t \in Owing(p)', T!Threadless(t)
      PROVE  T!Threadless(t)'
  <2>1. tasks'[t].updated # clock
    <3>1. call[p].cutoff <= clock /\ call[p].cutoff \in Nat
      BY <1>3 DEF Cutoffs, CallRecs
    <3> QED
      BY <1>2, <1>3, <3>1 DEF Owing, T!Old, CallRecs, TaskRecs, SameCalls, TablesTyped
  <2> QED
    BY <1>3, <2>1 DEF T!Threadless, T!Of, TasksStamped
<1>4. \A p \in Calls, t \in Tasks : tasks'[t] = tasks[t] => (T!Passed(t)' <=> T!Passed(t))
  BY DEF T!Passed, SameCalls
<1>5. ASSUME NEW p \in Calls, call[p].phase = "swept" PROVE Owing(p)' = {}
  BY <1>2, <1>5 DEF Sweeping
<1>6. ASSUME NEW p \in Calls, call[p].phase = "tasks", NEW t \in Owing(p)'
      PROVE  T!Threadless(t)' /\ (call[p].wrapped => ~T!Passed(t)')
  BY <1>2, <1>3, <1>4, <1>6 DEF Sweeping
<1> QED
  BY <1>1, <1>5, <1>6 DEF Sweeping, SameCalls

--------------------------------------------------------------------------
\* What a step of a user, of a run or of a deletion owes to the invariant.
Fits == TablesTyped' /\ Homes' /\ TasksStamped /\ ThreadsStamped /\ T!LeavesTheList

LEMMA PutIs ==
  ASSUME NEW f, NEW x, NEW v
  PROVE  /\ DOMAIN T!Put(f, x, v) = DOMAIN f \cup {x}
         /\ T!Put(f, x, v)[x] = v /\ \A y \in DOMAIN f : y # x => T!Put(f, x, v)[y] = f[y]
  BY DEF T!Put

LEMMA PutTyped ==
  ASSUME NEW V, NEW f, f \in [DOMAIN f -> V], NEW x, NEW v, v \in V
  PROVE  T!Put(f, x, v) \in [DOMAIN f \cup {x} -> V]
  BY DEF T!Put

\* What the invariant says of the two tables.
LEMMA Tables ==
  ASSUME RInv, TaskBounds
  PROVE  /\ clock \in Nat /\ clock > 0
         /\ tasks \in [DOMAIN tasks -> TaskRecs] /\ DOMAIN tasks \subseteq Tasks
         /\ IsFiniteSet(DOMAIN tasks)
         /\ threads \in [DOMAIN threads -> ThreadRecs] /\ DOMAIN threads \subseteq Threads
         /\ DOMAIN threads \subseteq DOMAIN hiddenAt
         /\ \A c \in DOMAIN threads :
              /\ threads[c] \in ThreadRecs /\ threads[c].task \in DOMAIN tasks
              /\ threads[c].deleting # "no" => threads[c].archived /\ T!Settled(c)
              /\ threads[c].deleting = "retention" => hiddenAt[c] < clock - Window
  BY DEF RInv, RetentionTyped, Homes, Overdue

LEMMA Freshly ==
  ASSUME NEW archived \in BOOLEAN, clock \in Nat, clock > 0
  PROVE  /\ T!Fresh(archived) \in TaskRecs
         /\ T!Fresh(archived).updated = clock /\ T!Fresh(archived).archived = archived
  BY DEF T!Fresh, TaskRecs

LEMMA FitsCreateTask == ASSUME RInv, TaskBounds, NEW t \in Tasks, T!CreateTask(t) PROVE Fits
<1>1. tasks' = T!Put(tasks, t, T!Fresh(FALSE)) /\ threads' = threads /\ clock' = clock /\ t \notin DOMAIN tasks
  BY DEF T!CreateTask, T!Edit
<1>2. /\ tasks' \in [DOMAIN tasks \cup {t} -> TaskRecs] /\ tasks'[t] = T!Fresh(FALSE)
      /\ \A y \in DOMAIN tasks : y # t => tasks'[y] = tasks[y]
  <2>1. T!Fresh(FALSE) \in TaskRecs /\ tasks \in [DOMAIN tasks -> TaskRecs]
    BY Tables, Freshly
  <2>2. tasks' \in [DOMAIN tasks \cup {t} -> TaskRecs]
    BY <1>1, <2>1, PutTyped
  <2> QED
    BY <1>1, <2>2 DEF T!Put
<1>3. TablesTyped'
  <2>1. DOMAIN tasks' = DOMAIN tasks \cup {t}
    BY <1>2
  <2>2. IsFiniteSet(DOMAIN tasks')
    BY <2>1, Tables, FS_AddElement
  <2> QED
    BY <2>2, <1>1, <1>2, <2>1, Tables DEF TablesTyped, TaskRecs, ThreadRecs
<1>4. Homes'
  BY <1>1, <1>2, Tables DEF Homes, T!Settled
<1>5. TasksStamped
  BY <1>1, <1>2, Tables, Freshly DEF TasksStamped
<1>6. ThreadsStamped
  BY <1>1, <1>2, Tables DEF ThreadsStamped, T!Hidden
<1>7. T!LeavesTheList
  BY <1>1 DEF T!LeavesTheList
<1> QED
  BY <1>3, <1>4, <1>5, <1>6, <1>7 DEF Fits

LEMMA FitsCreateThread ==
  ASSUME RInv, TaskBounds, NEW c \in Threads, NEW t \in Tasks, T!CreateThread(c, t)
  PROVE  Fits
<1> DEFINE new == [task |-> t, archived |-> FALSE, deleting |-> "no", updated |-> clock, run |-> "none"]
<1>1. /\ tasks' = T!Put(tasks, t, T!Fresh(FALSE)) /\ threads' = T!Put(threads, c, new) /\ clock' = clock
      /\ c \notin DOMAIN hiddenAt /\ c \notin DOMAIN threads /\ (t \in DOMAIN tasks => ~tasks[t].archived)
  BY Tables DEF T!CreateThread, T!Edit, T!Joinable
<1>2. /\ tasks' \in [DOMAIN tasks \cup {t} -> TaskRecs] /\ tasks'[t] = T!Fresh(FALSE)
      /\ \A y \in DOMAIN tasks : y # t => tasks'[y] = tasks[y]
  <2>1. T!Fresh(FALSE) \in TaskRecs /\ tasks \in [DOMAIN tasks -> TaskRecs]
    BY Tables, Freshly
  <2>2. tasks' \in [DOMAIN tasks \cup {t} -> TaskRecs]
    BY <1>1, <2>1, PutTyped
  <2> QED
    BY <1>1, <2>2 DEF T!Put
<1>3. new \in ThreadRecs
  BY Tables DEF ThreadRecs
<1>4. /\ new.task = t /\ ~new.archived /\ new.deleting = "no"
  OBVIOUS
<1> HIDE DEF new
<1>5. /\ threads' \in [DOMAIN threads \cup {c} -> ThreadRecs] /\ threads'[c] = new
      /\ \A y \in DOMAIN threads : y # c => threads'[y] = threads[y]
  <2>1. threads \in [DOMAIN threads -> ThreadRecs]
    BY Tables
  <2>2. threads' \in [DOMAIN threads \cup {c} -> ThreadRecs]
    BY <1>1, <1>3, <2>1, PutTyped
  <2> QED
    BY <1>1, <2>2 DEF T!Put
<1>6. DOMAIN tasks' = DOMAIN tasks \cup {t} /\ DOMAIN threads' = DOMAIN threads \cup {c}
  BY <1>2, <1>5
<1>7. TablesTyped'
  <2>1. IsFiniteSet(DOMAIN tasks')
    BY <1>6, Tables, FS_AddElement
  <2> QED
    BY <1>1, <1>2, <1>5, <1>6, <2>1, Tables DEF TablesTyped, TaskRecs, ThreadRecs
<1>8. Homes'
  BY <1>1, <1>4, <1>5, <1>6, Tables DEF Homes, T!Settled
<1>9. TasksStamped
  <2>1. tasks'[t].updated = clock
    BY <1>2, Tables, Freshly
  <2>2. \A y \in DOMAIN tasks' : (y \in DOMAIN tasks /\ tasks'[y] = tasks[y]) \/ tasks'[y].updated = clock
    BY <1>2, <1>6, <2>1
  <2>3. \A y \in DOMAIN threads' :
          (y \in DOMAIN threads /\ threads[y].task = threads'[y].task) \/ threads'[y].task = t
    BY <1>4, <1>5, <1>6
  <2> QED
    BY <2>1, <2>2, <2>3 DEF TasksStamped
<1>10. \A y \in DOMAIN threads : T!Hidden(threads'[y], tasks') => T!Hidden(threads[y], tasks)
  BY <1>1, <1>2, <1>5, Tables, Freshly DEF T!Hidden
<1>11. ThreadsStamped
  <2>1. ASSUME NEW y \in DOMAIN threads, y # c
        PROVE  /\ threads'[y] = threads[y]
               /\ threads[y].deleting = "retention" => threads[y].archived /\ hiddenAt[y] < clock - Window
    BY <1>5, <2>1, Tables
  <2> QED
    BY <1>1, <1>4, <1>5, <1>6, <1>10, <2>1 DEF ThreadsStamped, T!Hidden
<1>12. T!LeavesTheList
  BY <1>1, <1>5, <1>6 DEF T!LeavesTheList, T!Shown, T!Of
<1> QED
  BY <1>7, <1>8, <1>9, <1>11, <1>12 DEF Fits

\* Hiding an empty task touches no other and stamps it.
LEMMA Emptied ==
  ASSUME NEW ts, ts \in [DOMAIN ts -> TaskRecs], NEW cs, NEW t, clock \in Nat, clock > 0
  PROVE  /\ DOMAIN T!HiddenIfEmpty(t, ts, cs) = DOMAIN ts
         /\ T!HiddenIfEmpty(t, ts, cs) \in [DOMAIN ts -> TaskRecs]
         /\ \A x \in DOMAIN ts : \/ T!HiddenIfEmpty(t, ts, cs)[x] = ts[x]
                                  \/ /\ x = t /\ ~ts[x].archived /\ T!Shown(t, cs) = {}
                                     /\ T!HiddenIfEmpty(t, ts, cs)[x].archived
                                     /\ T!HiddenIfEmpty(t, ts, cs)[x].updated = clock
         /\ t \in DOMAIN ts => T!HiddenIfEmpty(t, ts, cs)[t].archived \/ T!Shown(t, cs) # {}
<1> DEFINE hid == [archived |-> TRUE, updated |-> clock]
<1>1. hid \in TaskRecs /\ hid.archived /\ hid.updated = clock
  BY DEF TaskRecs
<1>2. CASE t \in DOMAIN ts /\ ~ts[t].archived /\ T!Shown(t, cs) = {}
  <2>1. T!HiddenIfEmpty(t, ts, cs) = [ts EXCEPT ![t] = hid]
    BY <1>2 DEF T!HiddenIfEmpty
  <2> HIDE DEF hid
  <2> QED
    BY <1>1, <1>2, <2>1
<1>3. CASE ~(t \in DOMAIN ts /\ ~ts[t].archived /\ T!Shown(t, cs) = {})
  <2>1. T!HiddenIfEmpty(t, ts, cs) = ts
    BY <1>3 DEF T!HiddenIfEmpty
  <2> QED
    BY <1>3, <2>1
<1> QED
  BY <1>2, <1>3

\* A step that only empties a task of what it showed hides no thread that was
\* not hidden.
LEMMA OthersAsTheyWere ==
  ASSUME RInv, TaskBounds, NEW t,
         \A x \in DOMAIN tasks \cap DOMAIN tasks' :
           (tasks'[x].archived => tasks[x].archived) \/ (x = t /\ T!Shown(t, threads') = {}),
         NEW y \in DOMAIN threads, y \in DOMAIN threads', threads'[y] = threads[y],
         threads[y].task \in DOMAIN tasks',
         T!Hidden(threads'[y], tasks'), threads[y].deleting = "no"
  PROVE  T!Hidden(threads[y], tasks)
<1>1. threads[y].task \in DOMAIN tasks
  BY Tables
<1>2. CASE threads[y].task = t /\ T!Shown(t, threads') = {}
  BY <1>2 DEF T!Shown, T!Of, T!Hidden
<1>3. CASE tasks'[threads[y].task].archived => tasks[threads[y].task].archived
  BY <1>3 DEF T!Hidden
<1> QED
  BY <1>1, <1>2, <1>3

\* A step that gives one thread a new row, and changes tasks by stamping them.
OneThread(c, new, t) ==
  /\ threads' = [threads EXCEPT ![c] = new] /\ clock' = clock
  /\ new \in ThreadRecs /\ new.task \in DOMAIN tasks'
  /\ new.deleting # "no" => new.archived /\ new.run = "none"
  /\ DOMAIN tasks' \subseteq Tasks /\ IsFiniteSet(DOMAIN tasks') /\ tasks' \in [DOMAIN tasks' -> TaskRecs]
  /\ \A x \in DOMAIN tasks' \ DOMAIN tasks : tasks'[x].updated = clock
  /\ \A x \in DOMAIN tasks :
       /\ x \in DOMAIN tasks' /\ (tasks'[x] = tasks[x] \/ tasks'[x].updated = clock)
       /\ (tasks'[x].archived => tasks[x].archived) \/ (x = t /\ T!Shown(t, threads') = {})
  /\ new.task = threads[c].task \/ tasks'[new.task].updated = clock
  /\ c \in T!Shown(threads[c].task, threads) =>
       \/ new.task = threads[c].task /\ ~new.archived /\ new.deleting = "no"
       \/ tasks'[threads[c].task].archived \/ T!Shown(threads[c].task, threads') # {}
  /\ new.deleting = "no" /\ T!Hidden(new, tasks') =>
       \/ new.updated = clock
       \/ threads[c].deleting = "no" /\ T!Hidden(threads[c], tasks) /\ new.updated = threads[c].updated
  /\ new.deleting = "retention" => T!Hidden(threads[c], tasks) /\ hiddenAt[c] < clock - Window

LEMMA OneFits ==
  ASSUME RInv, TaskBounds, NEW c \in DOMAIN threads, NEW new, NEW t, OneThread(c, new, t)
  PROVE  Fits
<1>1. /\ threads' \in [DOMAIN threads -> ThreadRecs] /\ threads'[c] = new /\ DOMAIN threads' = DOMAIN threads
      /\ \A y \in DOMAIN threads : y # c => threads'[y] = threads[y]
  BY Tables DEF OneThread
<1>2. TablesTyped'
  BY <1>1, Tables DEF OneThread, TablesTyped, TaskRecs, ThreadRecs
<1>3. Homes'
  BY <1>1, Tables DEF OneThread, Homes, T!Settled
<1>4. TasksStamped
  BY <1>1 DEF OneThread, TasksStamped
<1>5. ASSUME NEW y \in DOMAIN threads, y # c
      PROVE  /\ threads'[y] = threads[y]
             /\ threads[y].deleting = "no" /\ T!Hidden(threads'[y], tasks') => T!Hidden(threads[y], tasks)
             /\ threads[y].deleting = "retention" => T!Hidden(threads[y], tasks) /\ hiddenAt[y] < clock - Window
  <2>1. threads'[y] = threads[y] /\ threads[y].task \in DOMAIN tasks /\ threads[y].task \in DOMAIN tasks'
    BY <1>1, <1>5, Tables DEF OneThread
  <2>2. threads[y].deleting = "no" /\ T!Hidden(threads'[y], tasks') => T!Hidden(threads[y], tasks)
    <3>1. \A x \in DOMAIN tasks \cap DOMAIN tasks' :
            (tasks'[x].archived => tasks[x].archived) \/ (x = t /\ T!Shown(t, threads') = {})
      BY DEF OneThread
    <3> QED
      BY <1>1, <2>1, <3>1, OthersAsTheyWere
  <2> QED
    BY <2>1, <2>2, Tables DEF T!Hidden
<1>6. ThreadsStamped
  BY <1>1, <1>5 DEF OneThread, ThreadsStamped
<1>7. T!LeavesTheList
  <2> SUFFICES ASSUME NEW x \in DOMAIN tasks \cap DOMAIN tasks', T!Shown(x, threads) # {}
               PROVE  tasks'[x].archived \/ T!Shown(x, threads') # {}
    BY DEF T!LeavesTheList
  <2>1. PICK y \in DOMAIN threads : y \in T!Shown(x, threads) /\ threads[y].task = x
    BY DEF T!Shown, T!Of
  <2>2. CASE y # c
    BY <1>1, <2>1, <2>2 DEF T!Shown, T!Of
  <2>3. CASE y = c
    BY <1>1, <2>1, <2>3 DEF OneThread, T!Shown, T!Of
  <2> QED
    BY <2>2, <2>3
<1> QED
  BY <1>2, <1>3, <1>4, <1>6, <1>7 DEF Fits

LEMMA FitsArchive == ASSUME RInv, TaskBounds, NEW c \in DOMAIN threads, T!Archive(c) PROVE Fits
<1>1. /\ threads' = [threads EXCEPT ![c].archived = TRUE, ![c].updated = clock] /\ clock' = clock
      /\ tasks' = T!HiddenIfEmpty(threads[c].task, tasks, threads') /\ threads[c].deleting = "no"
  BY DEF T!Archive, T!Editable, T!Edit
<1> DEFINE new == [threads[c] EXCEPT !.archived = TRUE, !.updated = clock]
           t == threads[c].task
<1>2. /\ new \in ThreadRecs /\ new.task = t /\ new.archived /\ new.deleting = "no" /\ new.updated = clock
  <2>1. threads[c] \in ThreadRecs /\ clock \in 1..clock
    BY Tables
  <2> QED
    BY <1>1, <2>1 DEF ThreadRecs
<1>3. threads' = [threads EXCEPT ![c] = new]
  BY <1>1, Tables
<1>4. /\ DOMAIN tasks' = DOMAIN tasks /\ tasks' \in [DOMAIN tasks -> TaskRecs]
      /\ \A x \in DOMAIN tasks : \/ tasks'[x] = tasks[x]
                                 \/ x = t /\ T!Shown(t, threads') = {} /\ tasks'[x].updated = clock
      /\ tasks'[t].archived \/ T!Shown(t, threads') # {}
  <2>1. tasks \in [DOMAIN tasks -> TaskRecs] /\ clock \in Nat /\ clock > 0 /\ t \in DOMAIN tasks
    BY Tables
  <2> DEFINE e == T!HiddenIfEmpty(t, tasks, threads')
  <2> HIDE DEF t
  <2>2. DOMAIN e = DOMAIN tasks
    BY <2>1, Emptied
  <2>3. e \in [DOMAIN tasks -> TaskRecs]
    BY <2>1, Emptied
  <2>4. \A x \in DOMAIN tasks :
          e[x] = tasks[x] \/ (x = t /\ T!Shown(t, threads') = {} /\ e[x].updated = clock)
    BY <2>1, Emptied
  <2>5. e[t].archived \/ T!Shown(t, threads') # {}
    BY <2>1, Emptied
  <2> QED
    BY <1>1, <2>2, <2>3, <2>4, <2>5 DEF t
<1> HIDE DEF new
<1>5. OneThread(c, new, t)
  BY <1>1, <1>2, <1>3, <1>4, Tables DEF OneThread
<1> QED
  BY <1>5, OneFits

LEMMA FitsRestore == ASSUME RInv, TaskBounds, NEW c \in DOMAIN threads, T!Restore(c) PROVE Fits
<1> DEFINE new == [threads[c] EXCEPT !.archived = FALSE, !.updated = clock]
           t == threads[c].task
<1>1. /\ threads' = [threads EXCEPT ![c].archived = FALSE, ![c].updated = clock] /\ clock' = clock
      /\ tasks' = [tasks EXCEPT ![t] = IF @.archived THEN T!Fresh(FALSE) ELSE @] /\ threads[c].deleting = "no"
  BY DEF T!Restore, T!Editable, T!Edit
<1>2. /\ new \in ThreadRecs /\ new.task = t /\ ~new.archived /\ new.deleting = "no" /\ new.updated = clock
  <2>1. threads[c] \in ThreadRecs /\ clock \in 1..clock
    BY Tables
  <2> QED
    BY <1>1, <2>1 DEF ThreadRecs
<1>3. threads' = [threads EXCEPT ![c] = new]
  BY <1>1, Tables
<1>4. /\ DOMAIN tasks' = DOMAIN tasks /\ tasks' \in [DOMAIN tasks -> TaskRecs]
      /\ \A x \in DOMAIN tasks : tasks'[x] = tasks[x] \/ (tasks'[x].updated = clock /\ ~tasks'[x].archived)
  <2>1. tasks \in [DOMAIN tasks -> TaskRecs] /\ t \in DOMAIN tasks
    BY Tables
  <2>2. T!Fresh(FALSE) \in TaskRecs /\ T!Fresh(FALSE).updated = clock /\ ~T!Fresh(FALSE).archived
    BY Tables, Freshly
  <2> HIDE DEF t
  <2> QED
    BY <1>1, <2>1, <2>2
<1> HIDE DEF new
<1>5. OneThread(c, new, t)
  BY <1>1, <1>2, <1>3, <1>4, Tables DEF OneThread
<1> QED
  BY <1>5, OneFits

LEMMA FitsMove == ASSUME RInv, TaskBounds, NEW c \in DOMAIN threads, NEW t \in Tasks, T!Move(c, t) PROVE Fits
<1> DEFINE old == threads[c].task
           hidden == T!Hidden(threads[c], tasks)
           named == t \in DOMAIN tasks
           stamped == T!Put(tasks, t, T!Fresh(~named /\ hidden))
           marked == [stamped EXCEPT ![old].updated = clock]
           new == [threads[c] EXCEPT !.task = t, !.updated = clock, !.archived = @ \/ (named /\ hidden)]
<1>1. /\ threads' = [threads EXCEPT ![c].task = t, ![c].updated = clock, ![c].archived = @ \/ (named /\ hidden)]
      /\ clock' = clock /\ tasks' = T!HiddenIfEmpty(old, marked, threads') /\ threads[c].deleting = "no"
      /\ t # old /\ (named => ~tasks[t].archived)
  BY DEF T!Move, T!Editable, T!Edit, T!Joinable
<1>2. /\ new \in ThreadRecs /\ new.task = t /\ new.deleting = "no" /\ new.updated = clock
  <2>1. threads[c] \in ThreadRecs /\ clock \in 1..clock
    BY Tables
  <2> HIDE DEF named, hidden
  <2> QED
    BY <1>1, <2>1 DEF ThreadRecs
<1>3. threads' = [threads EXCEPT ![c] = new]
  BY <1>1, Tables
<1>4. /\ DOMAIN marked = DOMAIN tasks \cup {t} /\ marked \in [DOMAIN tasks \cup {t} -> TaskRecs]
      /\ marked[t].updated = clock /\ marked[old].updated = clock
      /\ named => ~marked[t].archived
      /\ marked[old].archived = tasks[old].archived
      /\ \A x \in DOMAIN tasks : x \notin {t, old} => marked[x] = tasks[x]
  <2>1. /\ tasks \in [DOMAIN tasks -> TaskRecs] /\ old \in DOMAIN tasks
        /\ clock \in Nat /\ clock > 0 /\ clock \in 1..clock
    BY Tables
  <2> DEFINE gone == T!Fresh(~named /\ hidden)
  <2>2. gone \in TaskRecs /\ gone.updated = clock /\ (named => ~gone.archived)
    <3>1. (~named /\ hidden) \in BOOLEAN
      OBVIOUS
    <3> QED
      BY <2>1, <3>1, Freshly
  <2> HIDE DEF gone, named, hidden, old
  <2>3. stamped \in [DOMAIN tasks \cup {t} -> TaskRecs]
    BY <2>1, <2>2, PutTyped DEF gone
  <2>4. /\ DOMAIN stamped = DOMAIN tasks \cup {t} /\ stamped[t] = gone
        /\ \A x \in DOMAIN tasks : x # t => stamped[x] = tasks[x]
    BY DEF T!Put, gone
  <2> HIDE DEF stamped
  <2>5. old \in DOMAIN stamped /\ stamped[old] \in TaskRecs /\ stamped[old] = tasks[old]
    BY <1>1, <2>1, <2>3, <2>4
  <2> DEFINE row == [stamped[old] EXCEPT !.updated = clock]
  <2>6. row \in TaskRecs /\ row.updated = clock /\ row.archived = tasks[old].archived
    BY <2>1, <2>5 DEF TaskRecs
  <2>7. marked = [stamped EXCEPT ![old] = row]
    OBVIOUS
  <2> HIDE DEF row, marked
  <2> QED
    BY <1>1, <2>1, <2>2, <2>3, <2>4, <2>5, <2>6, <2>7
<1> HIDE DEF new, marked
<1>5. /\ DOMAIN tasks' = DOMAIN tasks \cup {t} /\ tasks' \in [DOMAIN tasks \cup {t} -> TaskRecs]
      /\ \A x \in DOMAIN tasks \cup {t} :
           \/ tasks'[x] = marked[x]
           \/ x = old /\ T!Shown(old, threads') = {} /\ tasks'[x].updated = clock
      /\ tasks'[old].archived \/ T!Shown(old, threads') # {}
  <2>1. /\ marked \in [DOMAIN marked -> TaskRecs] /\ clock \in Nat /\ clock > 0 /\ old \in DOMAIN marked
        /\ DOMAIN marked = DOMAIN tasks \cup {t}
    BY <1>4, Tables
  <2> DEFINE e == T!HiddenIfEmpty(old, marked, threads')
  <2> HIDE DEF old
  <2>2. DOMAIN e = DOMAIN marked
    BY <2>1, Emptied
  <2>3. e \in [DOMAIN marked -> TaskRecs]
    BY <2>1, Emptied
  <2>4. \A x \in DOMAIN marked :
          e[x] = marked[x] \/ (x = old /\ T!Shown(old, threads') = {} /\ e[x].updated = clock)
    BY <2>1, Emptied
  <2>5. e[old].archived \/ T!Shown(old, threads') # {}
    BY <2>1, Emptied
  <2> HIDE DEF e
  <2>6. tasks' = e
    BY <1>1 DEF old, e
  <2> QED
    BY <2>1, <2>2, <2>3, <2>4, <2>5, <2>6
<1>6. /\ tasks'[t].updated = clock /\ tasks'[old].updated = clock
      /\ named => ~tasks'[t].archived
      /\ (tasks'[old].archived => tasks[old].archived) \/ T!Shown(old, threads') = {}
      /\ \A x \in DOMAIN tasks : x \notin {t, old} => tasks'[x] = tasks[x]
  BY <1>1, <1>4, <1>5, Tables
<1>7. OneThread(c, new, old)
  <2> HIDE DEF hidden
  <2>1. IsFiniteSet(DOMAIN tasks')
    BY <1>5, Tables, FS_AddElement
  <2> QED
    BY <1>1, <1>2, <1>3, <1>5, <1>6, <2>1, Tables DEF OneThread
<1> HIDE DEF old
<1> QED
  BY <1>7, OneFits

LEMMA FitsRun == ASSUME RInv, TaskBounds, NEW c \in DOMAIN threads, T!Run(c) PROVE Fits
<1> DEFINE new == [threads[c] EXCEPT !.run = "active", !.updated = clock]
           t == threads[c].task
<1>1. /\ threads' = [threads EXCEPT ![c].run = "active", ![c].updated = clock] /\ clock' = clock
      /\ tasks' = tasks /\ threads[c].deleting = "no"
  BY DEF T!Run, T!Editable, T!Edit
<1>2. /\ new \in ThreadRecs /\ new.task = t /\ new.archived = threads[c].archived
      /\ new.deleting = "no" /\ new.updated = clock
  <2>1. threads[c] \in ThreadRecs /\ clock \in 1..clock
    BY Tables
  <2> QED
    BY <1>1, <2>1 DEF ThreadRecs
<1>3. threads' = [threads EXCEPT ![c] = new]
  BY <1>1, Tables
<1> HIDE DEF new
<1>4. OneThread(c, new, t)
  BY <1>1, <1>2, <1>3, Tables DEF OneThread, T!Shown, T!Of
<1> QED
  BY <1>4, OneFits

LEMMA FitsRunEnds == ASSUME RInv, TaskBounds, NEW c \in DOMAIN threads, T!RunEnds(c) PROVE Fits
<1> DEFINE new == [threads[c] EXCEPT !.run = "none"]
           t == threads[c].task
<1>1. /\ threads' = [threads EXCEPT ![c].run = "none"] /\ clock' = clock
      /\ tasks' = tasks /\ threads[c].deleting = "no"
  BY Tables DEF T!RunEnds
<1>2. /\ new \in ThreadRecs /\ new.task = t /\ new.archived = threads[c].archived
      /\ new.deleting = "no" /\ new.updated = threads[c].updated
  <2>1. threads[c] \in ThreadRecs
    BY Tables
  <2> QED
    BY <1>1, <2>1 DEF ThreadRecs
<1>3. threads' = [threads EXCEPT ![c] = new]
  BY <1>1, Tables
<1> HIDE DEF new
<1>4. OneThread(c, new, t)
  BY <1>1, <1>2, <1>3, Tables DEF OneThread, T!Shown, T!Of, T!Hidden
<1> QED
  BY <1>4, OneFits

\* A thread is marked only while it is hidden and idle, for retention only if it
\* has been hidden long enough.
LEMMA FitsMarked ==
  ASSUME RInv, TaskBounds, NEW c \in DOMAIN threads, NEW by \in {"user", "retention"},
         T!Deletable(c), threads' = T!Marked(c, by), clock' = clock, tasks' = tasks,
         by = "retention" /\ threads[c].deleting = "no" => hiddenAt[c] < clock - Window
  PROVE  Fits
<1> DEFINE new == [threads[c] EXCEPT !.archived = TRUE, !.deleting = IF @ = "no" THEN by ELSE @]
           t == threads[c].task
<1>1. threads' = [threads EXCEPT ![c].archived = TRUE, ![c].deleting = IF @ = "no" THEN by ELSE @]
  BY DEF T!Marked
<1>2. /\ new \in ThreadRecs /\ new.task = t /\ new.archived /\ new.run = threads[c].run
      /\ new.deleting = (IF threads[c].deleting = "no" THEN by ELSE threads[c].deleting)
      /\ new.deleting # "no"
  <2>1. threads[c] \in ThreadRecs
    BY Tables
  <2> QED
    BY <1>1, <2>1 DEF ThreadRecs
<1>3. threads' = [threads EXCEPT ![c] = new]
  BY <1>1, Tables
<1> HIDE DEF new
<1>4. OneThread(c, new, t)
  BY <1>2, <1>3, Tables DEF OneThread, T!Shown, T!Of, T!Hidden, T!Deletable, T!Settled
<1> QED
  BY <1>4, OneFits

\* A step that changes rows of threads in place, without moving one or taking
\* a mark.
InPlace ==
  /\ threads' \in [DOMAIN threads -> ThreadRecs] /\ clock' = clock
  /\ \A c \in DOMAIN threads :
       /\ threads'[c].task = threads[c].task /\ threads'[c].archived = threads[c].archived
       /\ threads'[c].deleting = threads[c].deleting
       /\ threads[c].run = "none" => threads'[c].run = "none"

LEMMA InPlaceFits ==
  ASSUME RInv, TaskBounds, InPlace,
         tasks' \in [DOMAIN tasks -> TaskRecs],
         \A t \in DOMAIN tasks : tasks'[t] = tasks[t] \/ tasks'[t].updated = clock,
         \A c \in DOMAIN threads : threads[c].deleting = "no" /\ T!Hidden(threads'[c], tasks') =>
           \/ threads'[c].updated = clock
           \/ T!Hidden(threads[c], tasks) /\ threads'[c].updated = threads[c].updated
  PROVE  Fits
<1>1. DOMAIN threads' = DOMAIN threads /\ DOMAIN tasks' = DOMAIN tasks
  BY DEF InPlace
<1>2. TablesTyped'
  BY <1>1, Tables DEF InPlace, TablesTyped, TaskRecs, ThreadRecs
<1>3. Homes'
  BY <1>1, Tables DEF InPlace, Homes, T!Settled
<1>4. TasksStamped
  BY <1>1 DEF InPlace, TasksStamped
<1>5. ThreadsStamped
  BY <1>1, Tables DEF InPlace, ThreadsStamped, T!Hidden
<1>6. T!LeavesTheList
  BY <1>1 DEF InPlace, T!LeavesTheList, T!Shown, T!Of
<1> QED
  BY <1>2, <1>3, <1>4, <1>5, <1>6 DEF Fits

LEMMA FitsUpdateTask ==
  ASSUME RInv, TaskBounds, NEW t, NEW archived \in BOOLEAN, T!UpdateTask(t, archived) PROVE Fits
<1>1. /\ t \in DOMAIN tasks /\ tasks' = [tasks EXCEPT ![t] = T!Fresh(archived)] /\ clock' = clock
      /\ threads' = [c \in DOMAIN threads |->
           IF archived # tasks[t].archived /\ c \in T!Shown(t, threads)
           THEN [threads[c] EXCEPT !.updated = clock] ELSE threads[c]]
  BY DEF T!UpdateTask, T!Edit
<1>2. /\ tasks' \in [DOMAIN tasks -> TaskRecs] /\ tasks'[t].updated = clock /\ tasks'[t].archived = archived
      /\ \A x \in DOMAIN tasks : x # t => tasks'[x] = tasks[x]
  <2>1. /\ T!Fresh(archived) \in TaskRecs
        /\ T!Fresh(archived).updated = clock /\ T!Fresh(archived).archived = archived
    BY Tables, Freshly
  <2> QED
    BY <1>1, <2>1, Tables
<1>3. ASSUME NEW c \in DOMAIN threads
      PROVE  /\ threads'[c] \in ThreadRecs
             /\ threads'[c].task = threads[c].task /\ threads'[c].archived = threads[c].archived
             /\ threads'[c].deleting = threads[c].deleting /\ threads'[c].run = threads[c].run
             /\ \/ threads'[c].updated = clock /\ c \in T!Shown(t, threads)
                \/ threads'[c] = threads[c] /\ (archived = tasks[t].archived \/ c \notin T!Shown(t, threads))
  <2> DEFINE new == [threads[c] EXCEPT !.updated = clock]
  <2>1. threads[c] \in ThreadRecs /\ clock \in 1..clock
    BY Tables
  <2>2. /\ new \in ThreadRecs /\ new.task = threads[c].task /\ new.archived = threads[c].archived
        /\ new.deleting = threads[c].deleting /\ new.run = threads[c].run /\ new.updated = clock
    BY <2>1 DEF ThreadRecs
  <2> HIDE DEF new
  <2>3. threads'[c] = IF archived # tasks[t].archived /\ c \in T!Shown(t, threads) THEN new ELSE threads[c]
    BY <1>1 DEF new
  <2> QED
    BY <2>1, <2>2, <2>3
<1>4. InPlace
  <2>1. threads' = [c \in DOMAIN threads |-> threads'[c]]
    BY <1>1
  <2> QED
    BY <1>1, <1>3, <2>1 DEF InPlace
<1>5. ASSUME NEW c \in DOMAIN threads, threads[c].deleting = "no", T!Hidden(threads'[c], tasks'),
             threads'[c].updated # clock
      PROVE  T!Hidden(threads[c], tasks) /\ threads'[c].updated = threads[c].updated
  <2>1. threads'[c] = threads[c] /\ (archived = tasks[t].archived \/ c \notin T!Shown(t, threads))
    BY <1>3, <1>5
  <2>2. CASE threads[c].task = t
    BY <1>2, <1>5, <2>1, <2>2 DEF T!Hidden, T!Shown, T!Of
  <2>3. CASE threads[c].task # t
    BY <1>2, <1>5, <2>1, <2>3, Tables DEF T!Hidden
  <2> QED
    BY <2>1, <2>2, <2>3
<1> QED
  BY <1>1, <1>2, <1>4, <1>5, InPlaceFits

LEMMA FitsRestart == ASSUME RInv, TaskBounds, T!Restart PROVE Fits
<1>1. /\ tasks' = tasks /\ clock' = clock
      /\ threads' = [c \in DOMAIN threads |->
           [threads[c] EXCEPT !.run = IF @ = "active" THEN "interrupted" ELSE @]]
  BY DEF T!Restart
<1>2. ASSUME NEW c \in DOMAIN threads
      PROVE  /\ threads'[c] \in ThreadRecs
             /\ threads'[c].task = threads[c].task /\ threads'[c].archived = threads[c].archived
             /\ threads'[c].deleting = threads[c].deleting /\ threads'[c].updated = threads[c].updated
             /\ threads[c].run = "none" => threads'[c].run = "none"
  <2>1. threads[c] \in ThreadRecs
    BY Tables
  <2>2. threads'[c] = [threads[c] EXCEPT !.run = IF @ = "active" THEN "interrupted" ELSE @]
    BY <1>1
  <2> QED
    BY <2>1, <2>2 DEF ThreadRecs
<1>3. InPlace
  <2>1. threads' = [c \in DOMAIN threads |-> threads'[c]]
    BY <1>1
  <2> QED
    BY <1>1, <1>2, <2>1 DEF InPlace
<1>4. \A c \in DOMAIN threads : T!Hidden(threads'[c], tasks') => T!Hidden(threads[c], tasks)
  BY <1>1, <1>2 DEF T!Hidden
<1> QED
  BY <1>1, <1>2, <1>3, <1>4, Tables, InPlaceFits

LEMMA FitsDelete == ASSUME RInv, TaskBounds, NEW c \in DOMAIN threads, T!Delete(c) PROVE Fits
<1> DEFINE t == threads[c].task
<1>1. /\ threads' = T!Without(threads, {c}) /\ tasks' = T!WithoutOrphan(t, tasks, threads')
      /\ clock' = clock /\ threads[c].deleting # "no"
  BY DEF T!Delete
<1>2. /\ DOMAIN threads' = DOMAIN threads \ {c} /\ threads' \in [DOMAIN threads \ {c} -> ThreadRecs]
      /\ \A y \in DOMAIN threads \ {c} : threads'[y] = threads[y]
  BY <1>1, Tables DEF T!Without, T!Restrict
<1>3. /\ DOMAIN tasks' \subseteq DOMAIN tasks /\ tasks' \in [DOMAIN tasks' -> TaskRecs]
      /\ \A x \in DOMAIN tasks \ {t} : x \in DOMAIN tasks' /\ tasks'[x] = tasks[x]
      /\ t \notin DOMAIN tasks' => T!Of(t, threads') = {}
      /\ \A x \in DOMAIN tasks' : \/ tasks'[x] = tasks[x]
                                  \/ x = t /\ T!Shown(t, threads') = {} /\ tasks'[x].updated = clock
  <2>1. tasks \in [DOMAIN tasks -> TaskRecs] /\ clock \in Nat /\ clock > 0 /\ t \in DOMAIN tasks
    BY Tables
  <2>2. CASE tasks[t].archived /\ T!Of(t, threads') = {}
    <3>1. tasks' = T!Without(tasks, {t})
      BY <1>1, <2>2 DEF T!WithoutOrphan
    <3> HIDE DEF t
    <3> QED
      BY <2>1, <2>2, <3>1 DEF T!Without, T!Restrict
  <2>3. CASE ~(tasks[t].archived /\ T!Of(t, threads') = {})
    <3> DEFINE e == T!HiddenIfEmpty(t, tasks, threads')
    <3>1. tasks' = e
      BY <1>1, <2>3 DEF T!WithoutOrphan
    <3> HIDE DEF t
    <3>2. DOMAIN e = DOMAIN tasks
      BY <2>1, Emptied
    <3>3. e \in [DOMAIN tasks -> TaskRecs]
      BY <2>1, Emptied
    <3>4. \A x \in DOMAIN tasks :
            e[x] = tasks[x] \/ (x = t /\ T!Shown(t, threads') = {} /\ e[x].updated = clock)
      BY <2>1, Emptied
    <3> HIDE DEF e
    <3> QED
      BY <2>1, <3>1, <3>2, <3>3, <3>4
  <2> QED
    BY <2>2, <2>3
<1>4. \A y \in DOMAIN threads' : threads'[y].task \in DOMAIN tasks'
  <2> SUFFICES ASSUME NEW y \in DOMAIN threads' PROVE threads'[y].task \in DOMAIN tasks'
    OBVIOUS
  <2>1. threads'[y] = threads[y] /\ threads[y].task \in DOMAIN tasks
    BY <1>2, Tables
  <2>2. CASE threads[y].task = t
    BY <1>3, <2>1, <2>2 DEF T!Of
  <2>3. CASE threads[y].task # t
    BY <1>3, <2>1, <2>3
  <2> QED
    BY <2>2, <2>3
<1> HIDE DEF t
<1>5. TablesTyped'
  <2>1. IsFiniteSet(DOMAIN tasks')
    BY <1>3, Tables, FS_Subset
  <2> QED
    BY <1>1, <1>2, <1>3, <2>1, Tables DEF TablesTyped, TaskRecs, ThreadRecs
<1>6. Homes'
  BY <1>2, <1>4, Tables DEF Homes, T!Settled
<1>7. TasksStamped
  BY <1>2, <1>3 DEF TasksStamped
<1>8. ThreadsStamped
  <2> SUFFICES ASSUME NEW y \in DOMAIN threads'
               PROVE  /\ y \in DOMAIN threads /\ threads'[y] = threads[y]
                      /\ threads[y].deleting = "no" /\ T!Hidden(threads'[y], tasks') =>
                           T!Hidden(threads[y], tasks)
                      /\ threads[y].deleting = "retention" =>
                           T!Hidden(threads[y], tasks) /\ hiddenAt[y] < clock - Window
    BY DEF ThreadsStamped
  <2>1. y \in DOMAIN threads /\ threads'[y] = threads[y] /\ threads[y].task \in DOMAIN tasks'
    BY <1>2, <1>4
  <2>2. \A x \in DOMAIN tasks \cap DOMAIN tasks' :
          (tasks'[x].archived => tasks[x].archived) \/ (x = t /\ T!Shown(t, threads') = {})
    BY <1>3
  <2>3. threads[y].deleting = "no" /\ T!Hidden(threads'[y], tasks') => T!Hidden(threads[y], tasks)
    BY <2>1, <2>2, OthersAsTheyWere
  <2> QED
    BY <2>1, <2>3, Tables DEF T!Hidden
<1>9. T!LeavesTheList
  <2> SUFFICES ASSUME NEW x, T!Shown(x, threads) # {} PROVE T!Shown(x, threads') # {}
    BY DEF T!LeavesTheList
  <2>1. PICK y \in DOMAIN threads : y \in T!Shown(x, threads)
    BY DEF T!Shown, T!Of
  <2>2. y \in DOMAIN threads' /\ threads'[y] = threads[y]
    BY <1>1, <1>2, <2>1 DEF T!Shown
  <2>3. y \in T!Shown(x, threads')
    BY <2>1, <2>2 DEF T!Shown, T!Of
  <2> QED
    BY <2>3
<1> QED
  BY <1>5, <1>6, <1>7, <1>8, <1>9 DEF Fits

\* A step that leaves the tables alone.
LEMMA FitsUnchanged ==
  ASSUME RInv, TaskBounds, UNCHANGED <<tasks, threads>>, clock' \in Nat, clock <= clock'
  PROVE  TablesTyped' /\ Homes' /\ TasksStamped /\ ThreadsStamped /\ T!LeavesTheList
<1>1. TablesTyped'
  BY Tables DEF TablesTyped, TaskRecs, ThreadRecs
<1>2. Homes'
  BY Tables DEF Homes, T!Settled
<1>3. TasksStamped /\ ThreadsStamped /\ T!LeavesTheList
  BY Tables DEF TasksStamped, ThreadsStamped, T!LeavesTheList, T!Hidden
<1> QED
  BY <1>1, <1>2, <1>3

--------------------------------------------------------------------------
\* One page of the sweep.
LEMMA Sized ==
  ASSUME NEW a \in Nat \ {0}, NEW b \in Nat \ {0}
  PROVE  T!Min({a, b}) \in Nat \ {0}
<1>1. CASE a <= b
  BY <1>1 DEF T!Min
<1>2. CASE b <= a
  BY <1>2 DEF T!Min
<1> QED
  BY <1>1, <1>2

\* The old archived tasks that the cursor has not passed, and what a page that
\* begins with n deletions reads, scans and deletes of them.
Candidates(p) == {t \in T!Old(call[p].cutoff) : ~T!Passed(t)}
PageLeft(p) == T!Min({SweepSize, CallLimit * SweepSize - call[p].examined})
PageRows(p) == T!First(tasks, Candidates(p), PageLeft(p))
BareBefore(p, t) == {u \in PageRows(p) : T!Threadless(u) /\ T!Earlier(tasks, u, t)}
PageScanned(p) == {t \in PageRows(p) : call[p].deleted + T!Cardinality(BareBefore(p, t)) < CallLimit}
PageGone(p) == {t \in PageScanned(p) : T!Threadless(t)}
PageLast(p) == CHOOSE t \in PageScanned(p) : \A u \in PageScanned(p) : ~T!Earlier(tasks, t, u)
PageIsEnd(p) == T!AtEnd(PageRows(p), PageScanned(p), PageLeft(p))
PageNext(p) == [call[p] EXCEPT !.deleted = @ + T!Cardinality(PageGone(p)),
                               !.examined = @ + T!Cardinality(PageRows(p)),
                               !.wrapped = @ \/ PageIsEnd(p)]

LEMMA PageStep ==
  ASSUME NEW p, T!SweepPage(p)
  PROVE  /\ call[p].phase = "tasks" /\ call[p].deleted < CallLimit /\ call[p].examined < CallLimit * SweepSize
         /\ tasks' = T!Without(tasks, PageGone(p))
         /\ after' = IF PageIsEnd(p) THEN T!Origin ELSE <<tasks[PageLast(p)].updated, PageLast(p)>>
         /\ call' = [call EXCEPT ![p] = IF PageIsEnd(p) /\ call[p].wrapped
                                         THEN [PageNext(p) EXCEPT !.phase = "swept"] ELSE PageNext(p)]
         /\ threads' = threads /\ clock' = clock
  BY DEF T!SweepPage, Candidates, PageLeft, PageRows, BareBefore, PageScanned, PageGone, PageLast,
         PageIsEnd, PageNext

LEMMA Candidacy ==
  ASSUME RInv, TaskBounds, NEW p \in Calls
  PROVE  /\ Rows(tasks, Candidates(p)) /\ Rows(tasks, DOMAIN tasks)
         /\ Candidates(p) \subseteq DOMAIN tasks /\ PageRows(p) \subseteq Candidates(p)
         /\ PageScanned(p) \subseteq PageRows(p) /\ PageGone(p) \subseteq PageScanned(p)
<1>1. Candidates(p) \subseteq DOMAIN tasks
  BY DEF Candidates, T!Old
<1>2. Rows(tasks, DOMAIN tasks)
  <2>1. \A t \in DOMAIN tasks : tasks[t].updated \in Nat
    BY Tables DEF TaskRecs
  <2> QED
    BY <2>1, Tables DEF Rows, TaskBounds
<1>3. Rows(tasks, Candidates(p))
  BY <1>1, <1>2, RowsPart
<1> QED
  BY <1>1, <1>2, <1>3 DEF PageRows, T!First, PageScanned, PageGone

LEMMA PageSized ==
  ASSUME RInv, TaskBounds, NEW p \in Calls, T!SweepPage(p)
  PROVE  PageLeft(p) \in Nat \ {0}
<1>1. /\ call[p].examined \in Nat /\ call[p].examined < CallLimit * SweepSize
      /\ SweepSize \in Nat \ {0} /\ CallLimit * SweepSize \in Nat
  BY PageStep DEF RInv, RetentionTyped, CallRecs, TaskBounds
<1>2. CallLimit * SweepSize - call[p].examined \in Nat \ {0}
  BY <1>1
<1> QED
  BY <1>1, <1>2, Sized DEF PageLeft

\* A page that is not the last one scans at least a task.
LEMMA PageScans ==
  ASSUME RInv, TaskBounds, NEW p \in Calls, T!SweepPage(p), ~PageIsEnd(p)
  PROVE  /\ PageLast(p) \in PageScanned(p)
         /\ \A u \in PageScanned(p) : ~T!Earlier(tasks, PageLast(p), u)
<1>1. Rows(tasks, PageRows(p)) /\ Rows(tasks, PageScanned(p)) /\ PageScanned(p) \subseteq PageRows(p)
  <2>1. PageRows(p) \subseteq DOMAIN tasks /\ PageScanned(p) \subseteq DOMAIN tasks
    BY Candidacy
  <2> QED
    BY <2>1, Candidacy, RowsPart
<1>2. PageRows(p) # {}
  <2> SUFFICES ASSUME PageRows(p) = {} PROVE FALSE
    OBVIOUS
  <2>1. PageScanned(p) = PageRows(p) /\ T!Cardinality(PageRows(p)) = 0
    BY <1>1, NoneCounted
  <2> QED
    BY <2>1, PageSized DEF PageIsEnd, T!AtEnd
<1>3. PageScanned(p) # {}
  <2>1. PICK x \in PageRows(p) : \A y \in PageRows(p) : ~T!Earlier(tasks, y, x)
    BY <1>1, <1>2, Earliest
  <2>2. BareBefore(p, x) = {}
    BY <2>1 DEF BareBefore
  <2>3. call[p].deleted \in Nat /\ call[p].deleted < CallLimit /\ CallLimit \in Nat
    BY PageStep DEF RInv, RetentionTyped, CallRecs, TaskBounds
  <2>4. call[p].deleted + T!Cardinality(BareBefore(p, x)) < CallLimit
    BY <2>2, <2>3, NoneCounted
  <2> QED
    BY <2>1, <2>4 DEF PageScanned
<1>4. \E x \in PageScanned(p) : \A u \in PageScanned(p) : ~T!Earlier(tasks, x, u)
  BY <1>1, <1>3, Latest
<1> QED
  BY <1>4 DEF PageLast

\* What was scanned is all there was up to the last one scanned.
LEMMA ScannedIsClosed ==
  ASSUME RInv, TaskBounds, NEW p \in Calls, T!SweepPage(p), NEW x \in PageScanned(p),
         NEW t \in Candidates(p), ~T!Earlier(tasks, x, t)
  PROVE  t \in PageScanned(p)
<1>1. x \in PageRows(p) /\ PageRows(p) \subseteq Candidates(p) /\ Rows(tasks, Candidates(p))
  BY Candidacy
<1>2. t \in PageRows(p)
  BY <1>1, PageSized, FirstIsClosed DEF PageRows
<1>3. BareBefore(p, t) \subseteq BareBefore(p, x)
  <2>1. \A u \in Candidates(p) : T!Earlier(tasks, u, t) => T!Earlier(tasks, u, x)
    BY <1>1, Ordering
  <2> QED
    BY <1>1, <2>1 DEF BareBefore
<1>4. IsFiniteSet(BareBefore(p, x))
  <2>1. BareBefore(p, x) \subseteq Candidates(p)
    BY <1>1 DEF BareBefore
  <2> QED
    BY <1>1, <2>1, FS_Subset DEF Rows
<1>5. /\ T!Cardinality(BareBefore(p, t)) \in Nat /\ T!Cardinality(BareBefore(p, x)) \in Nat
      /\ T!Cardinality(BareBefore(p, t)) <= T!Cardinality(BareBefore(p, x))
  BY <1>3, <1>4, Sizes
<1>6. call[p].deleted \in Nat /\ CallLimit \in Nat
  BY DEF RInv, RetentionTyped, CallRecs, TaskBounds
<1>7. call[p].deleted + T!Cardinality(BareBefore(p, x)) < CallLimit
  BY DEF PageScanned
<1> QED
  BY <1>2, <1>5, <1>6, <1>7 DEF PageScanned

LEMMA FitsSweepPage == ASSUME RInv, TaskBounds, NEW p \in Calls, T!SweepPage(p) PROVE Fits
<1>1. tasks' = T!Without(tasks, PageGone(p)) /\ threads' = threads /\ clock' = clock
  BY PageStep
<1>2. /\ DOMAIN tasks' = DOMAIN tasks \ PageGone(p) /\ tasks' \in [DOMAIN tasks' -> TaskRecs]
      /\ \A t \in DOMAIN tasks' : tasks'[t] = tasks[t]
  BY <1>1, Tables DEF T!Without, T!Restrict
<1>3. \A c \in DOMAIN threads : threads[c].task \in DOMAIN tasks'
  BY <1>2, Tables DEF PageGone, T!Threadless, T!Of
<1>4. TablesTyped'
  <2>1. IsFiniteSet(DOMAIN tasks')
    BY <1>2, Tables, FS_Subset
  <2> QED
    BY <1>1, <1>2, <2>1, Tables DEF TablesTyped, TaskRecs, ThreadRecs
<1>5. Homes'
  BY <1>1, <1>3, Tables DEF Homes, T!Settled
<1>6. TasksStamped /\ T!LeavesTheList
  BY <1>1, <1>2, <1>3 DEF TasksStamped, T!LeavesTheList
<1>7. ThreadsStamped
  BY <1>1, <1>2, <1>3, Tables DEF ThreadsStamped, T!Hidden
<1> QED
  BY <1>4, <1>5, <1>6, <1>7 DEF Fits

\* Whatever is owed to a call and was not passed is not passed by the page either:
\* it is gone with it, or it comes later than the new cursor.
LEMMA PagePasses ==
  ASSUME RInv, TaskBounds, NEW p \in Calls, T!SweepPage(p), ~PageIsEnd(p),
         NEW t \in DOMAIN tasks, t \in DOMAIN tasks', tasks[t].archived, T!Threadless(t), ~T!Passed(t)
  PROVE  ~T!Passed(t)'
<1> SUFFICES ASSUME T!Passed(t)' PROVE FALSE
  OBVIOUS
<1> DEFINE last == PageLast(p)
<1>1. /\ last \in PageScanned(p) /\ last \in Candidates(p) /\ last \in DOMAIN tasks
      /\ after' = <<tasks[last].updated, last>>
  BY PageStep, PageScans, Candidacy
<1>2. tasks'[t] = tasks[t] /\ t \notin PageGone(p)
  <2>1. tasks' = T!Without(tasks, PageGone(p))
    BY PageStep
  <2> QED
    BY <2>1 DEF T!Without, T!Restrict
<1>3. tasks[t].updated \in Nat /\ tasks[last].updated \in Nat /\ t \in Nat /\ last \in Nat
  BY <1>1, Candidacy DEF Rows
<1> HIDE DEF last
<1>4. tasks[t].updated < tasks[last].updated \/ (tasks[t].updated = tasks[last].updated /\ t <= last)
  BY <1>1, <1>2 DEF T!Passed
<1>5. ~T!Earlier(tasks, last, t)
  BY <1>3, <1>4 DEF T!Earlier
<1>6. t \in Candidates(p)
  <2>1. tasks[last].updated < call[p].cutoff /\ call[p].cutoff \in Nat
    BY <1>1 DEF Candidates, T!Old, RInv, RetentionTyped, CallRecs
  <2>2. tasks[t].updated < call[p].cutoff
    BY <1>3, <1>4, <2>1
  <2> QED
    BY <2>2 DEF Candidates, T!Old
<1>7. t \in PageScanned(p)
  BY <1>1, <1>5, <1>6, ScannedIsClosed
<1> QED
  BY <1>2, <1>7 DEF PageGone

\* The last page takes every task without threads that the cursor had left.
LEMMA LastPage ==
  ASSUME RInv, TaskBounds, NEW p \in Calls, T!SweepPage(p), PageIsEnd(p),
         NEW t \in Candidates(p), T!Threadless(t)
  PROVE  t \in PageGone(p)
<1>1. PageScanned(p) = PageRows(p) /\ T!Cardinality(PageRows(p)) < PageLeft(p)
  BY DEF PageIsEnd, T!AtEnd
<1>2. PageRows(p) = Candidates(p)
  BY <1>1, Candidacy, PageSized, FirstIsAll DEF PageRows
<1> QED
  BY <1>1, <1>2 DEF PageGone

LEMMA PageCalls ==
  ASSUME RInv, TaskBounds, NEW p \in Calls, T!SweepPage(p)
  PROVE  /\ call' \in [Calls -> CallRecs] /\ after' \in Nat \X Nat
         /\ \A q \in Calls : q # p => call'[q] = call[q]
         /\ call'[p].phase = (IF PageIsEnd(p) /\ call[p].wrapped THEN "swept" ELSE "tasks")
         /\ call'[p].cutoff = call[p].cutoff /\ call'[p].owed = call[p].owed /\ call'[p].ids = call[p].ids
         /\ call'[p].wrapped = (call[p].wrapped \/ PageIsEnd(p))
<1>1. call[p] \in CallRecs /\ call \in [Calls -> CallRecs] /\ call[p].phase = "tasks"
  BY PageStep DEF RInv, RetentionTyped
<1>2. T!Cardinality(PageGone(p)) \in Nat /\ T!Cardinality(PageRows(p)) \in Nat
  <2>1. IsFiniteSet(Candidates(p)) /\ PageGone(p) \subseteq Candidates(p) /\ PageRows(p) \subseteq Candidates(p)
    BY Candidacy DEF Rows
  <2> QED
    BY <2>1, Sizes
<1> DEFINE next == PageNext(p)
           swept == [next EXCEPT !.phase = "swept"]
           new == IF PageIsEnd(p) /\ call[p].wrapped THEN swept ELSE next
<1>3. /\ next \in CallRecs /\ next.phase = "tasks" /\ next.cutoff = call[p].cutoff /\ next.owed = call[p].owed
      /\ next.ids = call[p].ids /\ next.wrapped = (call[p].wrapped \/ PageIsEnd(p))
  <2>1. PageIsEnd(p) \in BOOLEAN
    BY DEF PageIsEnd, T!AtEnd
  <2>2. /\ call[p].deleted + T!Cardinality(PageGone(p)) \in Nat
        /\ call[p].examined + T!Cardinality(PageRows(p)) \in Nat
        /\ (call[p].wrapped \/ PageIsEnd(p)) \in BOOLEAN
    BY <1>1, <1>2, <2>1 DEF CallRecs
  <2> DEFINE d == call[p].deleted + T!Cardinality(PageGone(p))
             e == call[p].examined + T!Cardinality(PageRows(p))
             w == call[p].wrapped \/ PageIsEnd(p)
  <2>3. next = [call[p] EXCEPT !.deleted = d, !.examined = e, !.wrapped = w]
    BY DEF PageNext
  <2>4. d \in Nat /\ e \in Nat /\ w \in BOOLEAN
    BY <2>2
  <2> HIDE DEF d, e, w, next
  <2>5. /\ next \in CallRecs /\ next.phase = "tasks" /\ next.cutoff = call[p].cutoff /\ next.owed = call[p].owed
        /\ next.ids = call[p].ids /\ next.wrapped = w
    BY <1>1, <2>3, <2>4 DEF CallRecs
  <2> QED
    BY <2>5 DEF w
<1> HIDE DEF next
<1>4. /\ swept \in CallRecs /\ swept.phase = "swept" /\ swept.cutoff = call[p].cutoff /\ swept.owed = call[p].owed
      /\ swept.ids = call[p].ids /\ swept.wrapped = (call[p].wrapped \/ PageIsEnd(p))
  BY <1>3 DEF CallRecs
<1> HIDE DEF swept
<1>5. call' = [call EXCEPT ![p] = new]
  BY PageStep DEF next, swept
<1>6. after' \in Nat \X Nat
  <2>1. CASE PageIsEnd(p)
    BY <2>1, PageStep DEF T!Origin
  <2>2. CASE ~PageIsEnd(p)
    <3>1. PageLast(p) \in DOMAIN tasks
      BY <2>2, PageScans, Candidacy
    <3>2. PageLast(p) \in Nat /\ tasks[PageLast(p)].updated \in Nat
      BY <3>1, Candidacy DEF Rows
    <3> QED
      BY <2>2, <3>2, PageStep
  <2> QED
    BY <2>1, <2>2
<1> QED
  BY <1>1, <1>3, <1>4, <1>5, <1>6

LEMMA PageSweeps ==
  ASSUME RInv, TaskBounds, NEW p \in Calls, T!SweepPage(p)
  PROVE  Cutoffs' /\ Sweeping'
<1>1. clock' = clock /\ threads' = threads
  BY PageStep
<1>2. Cutoffs'
  BY <1>1, PageCalls, PageStep DEF Cutoffs, RInv
<1>3. ASSUME NEW q \in Calls, NEW t \in Owing(q)'
      PROVE  /\ t \in Owing(q) /\ t \in DOMAIN tasks /\ t \in DOMAIN tasks' /\ t \notin PageGone(p)
             /\ tasks[t].archived /\ tasks[t].updated < call[q].cutoff
  <2>1. call'[q].owed = call[q].owed /\ call'[q].cutoff = call[q].cutoff
    BY PageCalls
  <2>2. t \in DOMAIN tasks \ PageGone(p) /\ t \in DOMAIN tasks' /\ tasks'[t] = tasks[t]
    BY <1>3, PageStep, Tables DEF Owing, T!Old, T!Without, T!Restrict
  <2> QED
    BY <1>3, <2>1, <2>2 DEF Owing, T!Old
<1>4. ASSUME NEW q \in Calls, call'[q].phase = "swept", NEW t \in Owing(q)' PROVE FALSE
  <2>1. CASE call[q].phase = "swept"
    BY <1>3, <1>4, <2>1 DEF RInv, Sweeping
  <2>2. CASE call[q].phase # "swept"
    <3>1. q = p /\ PageIsEnd(p) /\ call[p].wrapped /\ call[p].phase = "tasks"
      BY <1>4, <2>2, PageCalls, PageStep
    <3>2. T!Threadless(t) /\ ~T!Passed(t)
      BY <1>3, <1>4, <3>1 DEF RInv, Sweeping
    <3>3. t \in Candidates(p)
      BY <1>3, <1>4, <3>1, <3>2 DEF Candidates, T!Old
    <3> QED
      BY <1>3, <1>4, <3>1, <3>2, <3>3, LastPage
  <2> QED
    BY <2>1, <2>2
<1>5. ASSUME NEW q \in Calls, call'[q].phase = "tasks", NEW t \in Owing(q)'
      PROVE  T!Threadless(t)' /\ (call'[q].wrapped => ~T!Passed(t)')
  <2>1. call[q].phase = "tasks"
    BY <1>5, PageCalls, PageStep
  <2>2. T!Threadless(t) /\ (call[q].wrapped => ~T!Passed(t))
    BY <1>3, <1>5, <2>1 DEF RInv, Sweeping
  <2>3. T!Threadless(t)'
    BY <1>1, <2>2 DEF T!Threadless
  <2>4. CASE PageIsEnd(p)
    <3>1. after' = <<0, 0>>
      BY <2>4, PageStep DEF T!Origin
    <3>2. tasks'[t] = tasks[t] /\ tasks[t].updated \in Nat /\ tasks[t].updated > 0
      <4>1. tasks'[t] = tasks[t]
        BY <1>3, <1>5, PageStep, Tables DEF T!Without, T!Restrict
      <4>2. t \in DOMAIN tasks /\ tasks[t] \in TaskRecs /\ clock \in Nat
        BY <1>3, <1>5, Tables
      <4> QED
        BY <4>1, <4>2 DEF TaskRecs
    <3> QED
      BY <2>3, <3>1, <3>2 DEF T!Passed
  <2>5. CASE ~PageIsEnd(p)
    <3>1. call'[q].wrapped => call[q].wrapped
      BY <2>5, PageCalls
    <3> QED
      BY <1>3, <1>5, <2>2, <2>3, <2>5, <3>1, PagePasses
  <2> QED
    BY <2>4, <2>5
<1> QED
  BY <1>2, <1>4, <1>5 DEF Sweeping

--------------------------------------------------------------------------
LEMMA Inherited ==
  ASSUME RInv, TaskBounds, HidingNoted, TablesTyped', Homes', ThreadsStamped, Cutoffs', Sweeping',
         clock' \in Nat, clock <= clock', after' \in Nat \X Nat, call' \in [Calls -> CallRecs]
  PROVE  RInv'
<1>1. clock' \in Nat \ {0}
  BY Tables
<1>2. /\ DOMAIN threads' \subseteq DOMAIN hiddenAt' /\ hiddenAt' \in [DOMAIN hiddenAt' -> 0..clock']
      /\ Stamped' /\ Overdue'
  BY <1>1, HidingKept
<1>3. RetentionTyped'
  BY <1>1, <1>2 DEF RetentionTyped, TablesTyped, TaskRecs, ThreadRecs
<1> QED
  BY <1>2, <1>3 DEF RInv

LEMMA Fitting ==
  ASSUME RInv, TaskBounds, HidingNoted, Fits, SameCalls, clock' = clock
  PROVE  RInv' /\ T!LeavesTheList
<1>1. clock' \in Nat /\ clock <= clock'
  BY Tables
<1>2. Cutoffs' /\ Sweeping'
  BY <1>1, SweepingKept DEF Fits
<1>3. after' \in Nat \X Nat /\ call' \in [Calls -> CallRecs]
  BY DEF SameCalls, RInv, RetentionTyped
<1> QED
  BY <1>1, <1>2, <1>3, Inherited DEF Fits

LEMMA CallsKept == ASSUME RInv, UNCHANGED <<call, after>> PROVE SameCalls
  BY DEF SameCalls, RInv, RetentionTyped

\* The steps of users, of runs and of deletions.
LEMMA TablesStep ==
  ASSUME RInv, TaskBounds, HidingNoted,
         \/ \E t \in Tasks : T!CreateTask(t) \/ \E archived \in BOOLEAN : T!UpdateTask(t, archived)
         \/ \E c \in Threads, t \in Tasks : T!CreateThread(c, t)
         \/ \E c \in DOMAIN threads : \/ T!Archive(c) \/ T!Restore(c) \/ \E t \in Tasks : T!Move(c, t)
                                      \/ T!Run(c) \/ T!RunEnds(c) \/ T!DeleteChosen(c) \/ T!Delete(c)
  PROVE  RInv' /\ T!LeavesTheList
<1>1. clock' = clock /\ UNCHANGED <<call, after>>
  BY DEF T!CreateTask, T!UpdateTask, T!CreateThread, T!Archive, T!Restore, T!Move, T!Run, T!RunEnds,
         T!DeleteChosen, T!Delete, T!Edit
<1>2. SameCalls
  BY <1>1, CallsKept
<1>3. ASSUME NEW t \in Tasks, T!CreateTask(t) PROVE Fits
  BY <1>3, FitsCreateTask
<1>4. ASSUME NEW t \in Tasks, NEW archived \in BOOLEAN, T!UpdateTask(t, archived) PROVE Fits
  BY <1>4, FitsUpdateTask
<1>5. ASSUME NEW c \in Threads, NEW t \in Tasks, T!CreateThread(c, t)
  PROVE  Fits
  BY <1>5, FitsCreateThread
<1>6. ASSUME NEW c \in DOMAIN threads, T!Archive(c) PROVE Fits
  BY <1>6, FitsArchive
<1>7. ASSUME NEW c \in DOMAIN threads, T!Restore(c) PROVE Fits
  BY <1>7, FitsRestore
<1>8. ASSUME NEW c \in DOMAIN threads, NEW t \in Tasks, T!Move(c, t) PROVE Fits
  BY <1>8, FitsMove
<1>9. ASSUME NEW c \in DOMAIN threads, T!Run(c) PROVE Fits
  BY <1>9, FitsRun
<1>10. ASSUME NEW c \in DOMAIN threads, T!RunEnds(c) PROVE Fits
  BY <1>10, FitsRunEnds
<1>11. ASSUME NEW c \in DOMAIN threads, T!DeleteChosen(c) PROVE Fits
  <2>1. T!Deletable(c) /\ threads' = T!Marked(c, "user") /\ tasks' = tasks
    BY <1>11 DEF T!DeleteChosen
  <2> QED
    BY <1>1, <2>1, FitsMarked
<1>12. ASSUME NEW c \in DOMAIN threads, T!Delete(c) PROVE Fits
  BY <1>12, FitsDelete
<1> QED
  BY <1>1, <1>2, <1>3, <1>4, <1>5, <1>6, <1>7, <1>8, <1>9, <1>10, <1>11, <1>12, Fitting

LEMMA PruneBeginsKeeps ==
  ASSUME RInv, TaskBounds, HidingNoted, NEW p \in Calls, T!PruneBegins(p)
  PROVE  RInv' /\ T!LeavesTheList
<1>1. UNCHANGED <<tasks, threads, clock, after>>
  BY DEF T!PruneBegins
<1>2. PICK cutoff \in 1 .. clock - Window :
        call' = [call EXCEPT ![p] = [T!Off EXCEPT !.phase = "threads", !.cutoff = cutoff,
          !.ids = T!First(threads, {c \in DOMAIN threads : T!Deletable(c) /\ T!Stale(c, cutoff)}, CallLimit)]]
  BY DEF T!PruneBegins
<1> DEFINE ids == T!First(threads, {c \in DOMAIN threads : T!Deletable(c) /\ T!Stale(c, cutoff)}, CallLimit)
           new == [T!Off EXCEPT !.phase = "threads", !.cutoff = cutoff, !.ids = ids]
<1>3. ids \subseteq Threads
  BY Tables DEF T!First
<1> HIDE DEF ids
<1>4. cutoff \in Nat /\ cutoff <= clock - Window
  BY Tables DEF TaskBounds
<1>5. /\ new \in CallRecs /\ new.phase = "threads" /\ new.cutoff = cutoff
  BY <1>3, <1>4 DEF CallRecs, T!Off
<1> HIDE DEF new
<1>6. /\ call' \in [Calls -> CallRecs] /\ call'[p] = new
      /\ \A q \in Calls : q # p => call'[q] = call[q]
  BY <1>2, <1>5 DEF RInv, RetentionTyped, new, ids
<1>7. Cutoffs' /\ Sweeping'
  BY <1>1, <1>4, <1>5, <1>6 DEF RInv, Cutoffs, Sweeping, Owing, T!Old, T!Threadless, T!Passed
<1>8. after' \in Nat \X Nat /\ clock' \in Nat /\ clock <= clock'
  BY <1>1, Tables DEF RInv, RetentionTyped
<1> QED
  BY <1>1, <1>6, <1>7, <1>8, FitsUnchanged, Inherited

LEMMA PrunesKeeps ==
  ASSUME RInv, TaskBounds, HidingNoted, NEW p \in Calls, NEW c, T!Prunes(p, c)
  PROVE  RInv' /\ T!LeavesTheList
<1>1. /\ UNCHANGED <<tasks, clock, after>> /\ c \in call[p].ids
      /\ call' = [call EXCEPT ![p].ids = @ \ {c}]
      /\ threads' = IF T!Deletable(c) /\ T!Stale(c, call[p].cutoff) THEN T!Marked(c, "retention") ELSE threads
  BY DEF T!Prunes
<1>2. SameCalls
  <2>1. call \in [Calls -> CallRecs]
    BY DEF RInv, RetentionTyped
  <2> DEFINE new == [call[p] EXCEPT !.ids = @ \ {c}]
  <2>2. /\ new \in CallRecs /\ new.phase = call[p].phase /\ new.cutoff = call[p].cutoff
        /\ new.wrapped = call[p].wrapped /\ new.owed = call[p].owed /\ new.ids \subseteq call[p].ids
    BY <2>1 DEF CallRecs
  <2>3. call' = [call EXCEPT ![p] = new]
    BY <1>1, <2>1
  <2> HIDE DEF new
  <2> QED
    BY <1>1, <2>1, <2>2, <2>3 DEF SameCalls
<1>3. Fits
  <2>1. CASE T!Deletable(c) /\ T!Stale(c, call[p].cutoff)
    <3>1. call[p].cutoff <= clock - Window /\ call[p].cutoff \in Nat /\ clock \in Nat /\ Window \in Nat
      BY <1>1 DEF RInv, RetentionTyped, Cutoffs, CallRecs, TaskBounds
    <3>2. c \in DOMAIN threads /\ T!Hidden(threads[c], tasks)
      BY <2>1 DEF T!Deletable
    <3>3. threads[c].deleting = "no" => hiddenAt[c] <= threads[c].updated /\ threads[c].updated < call[p].cutoff
      BY <2>1, <3>2 DEF RInv, Stamped, T!Stale
    <3>4. threads[c].updated \in Nat /\ hiddenAt[c] \in Nat
      BY <3>1, <3>2, Tables DEF RInv, RetentionTyped, ThreadRecs
    <3>5. threads[c].deleting = "no" => hiddenAt[c] < clock - Window
      BY <3>1, <3>3, <3>4
    <3> QED
      BY <1>1, <2>1, <3>2, <3>5, FitsMarked
  <2>2. CASE ~(T!Deletable(c) /\ T!Stale(c, call[p].cutoff))
    BY <1>1, <2>2, FitsUnchanged, Tables DEF Fits
  <2> QED
    BY <2>1, <2>2
<1> QED
  BY <1>1, <1>2, <1>3, Fitting

LEMMA SweepBeginsKeeps ==
  ASSUME RInv, TaskBounds, HidingNoted, NEW p \in Calls, T!SweepBegins(p)
  PROVE  RInv' /\ T!LeavesTheList
<1> DEFINE owed == {t \in T!Old(call[p].cutoff) : T!Threadless(t)}
           fresh == after = T!Origin
           new == [call[p] EXCEPT !.phase = "tasks", !.wrapped = fresh, !.owed = owed]
<1>1. /\ UNCHANGED <<tasks, threads, clock, after>> /\ call[p].phase = "threads"
      /\ call' = [call EXCEPT ![p].phase = "tasks", ![p].wrapped = fresh, ![p].owed = owed]
  BY DEF T!SweepBegins
<1>2. call \in [Calls -> CallRecs] /\ call[p] \in CallRecs
  BY DEF RInv, RetentionTyped
<1>3. owed \subseteq Tasks /\ \A t \in owed : T!Threadless(t) /\ tasks[t].updated \in Nat /\ tasks[t].updated > 0
  <2>1. \A t \in owed : t \in DOMAIN tasks /\ T!Threadless(t)
    BY DEF T!Old
  <2> QED
    BY <2>1, Tables DEF TaskRecs
<1> HIDE DEF owed
<1>4. call' = [call EXCEPT ![p] = new]
  BY <1>1, <1>2
<1>5. /\ new \in CallRecs /\ new.phase = "tasks" /\ new.cutoff = call[p].cutoff
      /\ new.wrapped = fresh /\ new.owed = owed /\ new.ids = call[p].ids
  BY <1>2, <1>3 DEF CallRecs
<1> HIDE DEF new, fresh
<1>6. /\ call' \in [Calls -> CallRecs] /\ call'[p] = new
      /\ \A q \in Calls : q # p => call'[q] = call[q]
  BY <1>2, <1>4, <1>5
<1>7. Cutoffs'
  BY <1>1, <1>5, <1>6 DEF RInv, Cutoffs
<1>8. Sweeping'
  <2> SUFFICES ASSUME NEW q \in Calls
               PROVE  /\ call'[q].phase = "swept" => Owing(q)' = {}
                      /\ call'[q].phase = "tasks" =>
                           \A t \in Owing(q)' : T!Threadless(t)' /\ (call'[q].wrapped => ~T!Passed(t)')
    BY DEF Sweeping
  <2>1. CASE q # p
    BY <1>1, <1>6, <2>1 DEF RInv, Sweeping, Owing, T!Old, T!Threadless, T!Passed
  <2>2. CASE q = p
    <3>1. ASSUME NEW t \in Owing(q)' PROVE t \in owed /\ T!Threadless(t)'
      BY <1>1, <1>3, <1>5, <1>6, <2>2, <3>1 DEF Owing, T!Threadless
    <3>2. ASSUME NEW t \in owed, fresh PROVE ~T!Passed(t)'
      BY <1>1, <1>3, <3>2 DEF T!Passed, fresh, T!Origin
    <3> QED
      BY <1>5, <1>6, <2>2, <3>1, <3>2
  <2> QED
    BY <2>1, <2>2
<1>9. after' \in Nat \X Nat /\ clock' \in Nat /\ clock <= clock'
  BY <1>1, Tables DEF RInv, RetentionTyped
<1> QED
  BY <1>1, <1>6, <1>7, <1>8, <1>9, FitsUnchanged, Inherited

LEMMA SweepPageKeeps ==
  ASSUME RInv, TaskBounds, HidingNoted, NEW p \in Calls, T!SweepPage(p)
  PROVE  RInv' /\ T!LeavesTheList
<1>1. clock' \in Nat /\ clock <= clock'
  BY PageStep, Tables
<1>2. Cutoffs' /\ Sweeping'
  BY PageSweeps
<1>3. call' \in [Calls -> CallRecs] /\ after' \in Nat \X Nat
  BY PageCalls
<1> QED
  BY <1>1, <1>2, <1>3, FitsSweepPage, Inherited DEF Fits

LEMMA CallEndsKeeps ==
  ASSUME RInv, TaskBounds, HidingNoted, NEW p \in Calls, T!CallEnds(p)
  PROVE  RInv' /\ T!LeavesTheList
<1>1. UNCHANGED <<tasks, threads, clock, after>> /\ call' = [call EXCEPT ![p] = T!Off]
  BY DEF T!CallEnds
<1>2. T!Off \in CallRecs /\ T!Off.phase = "off" /\ T!Off.ids = {}
  BY DEF T!Off, CallRecs
<1>3. /\ call' \in [Calls -> CallRecs] /\ call'[p] = T!Off
      /\ \A q \in Calls : q # p => call'[q] = call[q]
  BY <1>1, <1>2 DEF RInv, RetentionTyped
<1>4. Cutoffs' /\ Sweeping'
  BY <1>1, <1>2, <1>3 DEF RInv, Cutoffs, Sweeping, Owing, T!Old, T!Threadless, T!Passed
<1>5. after' \in Nat \X Nat /\ clock' \in Nat /\ clock <= clock'
  BY <1>1, Tables DEF RInv, RetentionTyped
<1> QED
  BY <1>1, <1>3, <1>4, <1>5, FitsUnchanged, Inherited

LEMMA TickKeeps == ASSUME RInv, TaskBounds, HidingNoted, T!Tick PROVE RInv' /\ T!LeavesTheList
<1>1. UNCHANGED <<tasks, threads, call, after>> /\ clock' = clock + 1
  BY DEF T!Tick
<1>2. clock' \in Nat /\ clock <= clock'
  BY <1>1, Tables
<1>3. TablesTyped' /\ Homes' /\ TasksStamped /\ ThreadsStamped /\ T!LeavesTheList
  BY <1>1, <1>2, FitsUnchanged
<1>4. Cutoffs' /\ Sweeping'
  BY <1>1, <1>2, <1>3, CallsKept, SweepingKept
<1>5. after' \in Nat \X Nat /\ call' \in [Calls -> CallRecs]
  BY <1>1 DEF RInv, RetentionTyped
<1> QED
  BY <1>2, <1>3, <1>4, <1>5, Inherited

LEMMA RestartKeeps == ASSUME RInv, TaskBounds, HidingNoted, T!Restart PROVE RInv' /\ T!LeavesTheList
<1>1. after' = T!Origin /\ call' = [p \in Calls |-> T!Off] /\ clock' = clock
  BY DEF T!Restart
<1>2. T!Off \in CallRecs /\ T!Off.phase = "off" /\ T!Off.ids = {}
  BY DEF T!Off, CallRecs
<1>3. Cutoffs' /\ Sweeping'
  BY <1>1, <1>2 DEF Cutoffs, Sweeping
<1>4. after' \in Nat \X Nat /\ call' \in [Calls -> CallRecs] /\ clock' \in Nat /\ clock <= clock'
  BY <1>1, <1>2, Tables DEF T!Origin
<1> QED
  BY <1>3, <1>4, FitsRestart, Inherited DEF Fits

LEMMA RetentionBegins == ASSUME TaskBounds, T!Init PROVE RInv
<1>1. DOMAIN tasks = {} /\ DOMAIN threads = {} /\ DOMAIN hiddenAt = {} /\ clock = 1
  BY DEF T!Init
<1>2. T!Off \in CallRecs /\ T!Off.phase = "off" /\ T!Off.ids = {}
  BY DEF T!Off, CallRecs
<1>3. RetentionTyped
  BY <1>1, <1>2, FS_EmptySet DEF T!Init, T!Origin, RetentionTyped
<1>4. Homes /\ Stamped /\ Overdue /\ Cutoffs /\ Sweeping
  BY <1>1, <1>2 DEF T!Init, Homes, Stamped, Overdue, Cutoffs, Sweeping
<1> QED
  BY <1>3, <1>4 DEF RInv

LEMMA RetentionStep == ASSUME TaskBounds, RInv, T!Next PROVE RInv' /\ T!LeavesTheList
<1>1. HidingNoted
  BY DEF T!Next, HidingNoted
<1>2. ASSUME NEW p \in Calls, \/ T!PruneBegins(p) \/ \E c \in Threads : T!Prunes(p, c)
                             \/ T!SweepBegins(p) \/ T!SweepPage(p) \/ T!CallEnds(p)
      PROVE  RInv' /\ T!LeavesTheList
  BY <1>1, <1>2, PruneBeginsKeeps, PrunesKeeps, SweepBeginsKeeps, SweepPageKeeps, CallEndsKeeps
<1> QED
  BY <1>1, <1>2, TablesStep, TickKeeps, RestartKeeps DEF T!Next, T!Step

LEMMA RetentionStutters == ASSUME RInv, UNCHANGED T!vars PROVE RInv' /\ T!LeavesTheList
  BY DEF T!vars, RInv, RetentionTyped, Homes, Stamped, Overdue, Cutoffs, Sweeping, Owing, T!Old, T!Hidden, T!Settled,
         T!Threadless, T!Of, T!Passed, TaskRecs, ThreadRecs, CallRecs, T!LeavesTheList, T!Shown

\* The invariant of tasks, threads and clean-up calls (server/database.mjs, pruneHistory and
\* deleteThreadlessArchivedTasks), for any number of any of them.
THEOREM RetentionInvariant == ASSUME TaskBounds PROVE T!Spec => []RInv
<1>1. T!Init => RInv
  BY RetentionBegins
<1>2. RInv /\ [T!Next]_(T!vars) => RInv'
  BY RetentionStep, RetentionStutters
<1> QED
  BY <1>1, <1>2, PTL DEF T!Spec

\* Every thread has its task; retention marks only threads that have been hidden for longer than
\* the window, whoever restored and archived what meanwhile; and a call that came to the end of
\* its sweep leaves none of the tasks it owed, whatever other calls did to the shared cursor
\* (server/database.mjs, pruneHistory and deleteThreadlessArchivedTasks).
THEOREM RetentionIsTrue == ASSUME TaskBounds PROVE T!Spec => []RetentionTrue
<1>1. RInv => T!RetentionTrue
  <2> SUFFICES ASSUME RInv PROVE T!RetentionTrue
    OBVIOUS
  <2>1. T!TypeOK
    BY Tables DEF T!TypeOK, TaskRecs, ThreadRecs
  <2>2. T!ThreadsKept
    BY Tables DEF T!ThreadsKept
  <2>3. T!SweepsWhole
    BY DEF RInv, Sweeping, Owing, T!SweepsWhole
  <2> QED
    BY <2>1, <2>2, <2>3 DEF T!RetentionTrue
<1> QED
  BY <1>1, RetentionInvariant, PTL DEF RetentionTrue

\* A listed task whose last visible thread is archived, moved or deleted leaves the list in the
\* same transaction (server/database.mjs, archiveTaskWithoutVisibleThreads).
THEOREM ListKept == ASSUME TaskBounds PROVE T!Spec => NeverListedEmpty
<1>1. RInv /\ [T!Next]_(T!vars) => [T!LeavesTheList]_(T!vars)
  BY RetentionStep, RetentionStutters
<1> QED
  BY <1>1, RetentionInvariant, PTL DEF T!Spec, NeverListedEmpty
=============================================================================
