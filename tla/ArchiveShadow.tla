--------------------------- MODULE ArchiveShadow ---------------------------
(***************************************************************************)
(* Deleting an archived conversation that is too large for the live        *)
(* database (server/archive-delete-worker.mjs, archive-shadow.mjs).  A     *)
(* worker copies the database, deletes in the copy, and swaps the two      *)
(* files by rename and hard link, under a durable marker.  A crash can     *)
(* fall between any two durable steps, of the swap and of the recovery     *)
(* that finishes or undoes it, while other SQLite connections go on        *)
(* committing to whatever they can open.                                   *)
(*                                                                         *)
(* dir gives each name its inode; two names of one inode are a hard link.  *)
(* What a database holds is a set of numbered commits.  The number 0 is    *)
(* anything that never was committed to the public database.               *)
(***************************************************************************)
EXTENDS Naturals, FiniteSets

CONSTANTS
    MaxCommits,  \* bound: commits by the runtime and by other connections
    MaxAttempts, \* bound: attempts to delete
    MaxCrashes,  \* bound: deaths of the runtime
    MaxFaults    \* bound: failures of a step, and replaced candidates

\* A store starts with one commit.
ASSUME ShadowBounds == MaxCommits \in Nat \ {0} /\ {MaxAttempts, MaxCrashes, MaxFaults} \subseteq Nat

VARIABLES
    dir,               \* file, next and old: an inode, or "none"
    contents, fenced,  \* of each inode
    marker,            \* the state file: its phase, and the contents it pins
    pc, swapping,      \* the worker or the recovery, and which of the two
    seen, version,     \* the source as the parent, and the worker, last saw it
    locks,             \* inodes that are exclusively locked
    commits, attempts, crashes, faults

disk == <<dir, contents, fenced, marker>>
counts == <<commits, attempts, crashes, faults>>
vars == <<disk, pc, swapping, seen, version, locks, counts>>

Inodes == {"src", "cand", "other"}
NoMarker == [phase |-> "none", cand |-> {}, source |-> {}]
Exists(name) == dir[name] # "none"
Same(a, b) == Exists(a) /\ dir[a] = dir[b]
Point(name, inode) == dir' = [dir EXCEPT ![name] = inode]
Release == locks' = {}

\* A store at rest, or one that an older version left between two renames.
Init ==
    /\ \/ /\ dir = [file |-> "src", next |-> "none", old |-> "none"]
          /\ marker = NoMarker /\ pc = "idle"
       \/ /\ dir \in {[file |-> "none", next |-> "cand", old |-> "src"],
                      [file |-> "cand", next |-> "none", old |-> "src"]}
          /\ \E phase \in {"unpinned", "legacy"} :
                marker = [phase |-> phase, cand |-> {1}, source |-> {}]
          /\ pc = "down"
    /\ contents = [i \in Inodes |-> IF i = "other" THEN {} ELSE {1}]
    /\ fenced = [i \in Inodes |-> i = "cand" /\ pc = "down"]
    /\ swapping = FALSE /\ seen = {} /\ version = {} /\ locks = {}
    /\ commits = 1 /\ attempts = 0 /\ crashes = 0 /\ faults = 0

Legacy == marker.phase \in {"unpinned", "legacy"}

(***************************************************************************)
(* Other connections.                                                      *)
(***************************************************************************)
\* A commit to the public database or to the set-aside source.  A schema change
\* passes a fence; only a lock stops it.  Nobody writes while an older version's
\* swap is unfinished.
Commit(name) ==
    /\ Exists(name) /\ dir[name] \notin locks /\ ~Legacy
    /\ commits < MaxCommits /\ commits' = commits + 1
    /\ contents' = [contents EXCEPT ![dir[name]] = @ \cup {commits'}]
    /\ UNCHANGED <<dir, fenced, marker, pc, swapping, seen, version, locks, attempts, crashes, faults>>

\* A writer that finds no public database creates one.
Creates ==
    /\ ~Exists("file") /\ ~Legacy /\ contents["other"] = {}
    /\ commits < MaxCommits /\ commits' = commits + 1
    /\ Point("file", "other") /\ contents' = [contents EXCEPT !["other"] = {commits'}]
    /\ UNCHANGED <<fenced, marker, pc, swapping, seen, version, locks, attempts, crashes, faults>>

\* A candidate that is pinned is replaced or corrupted under its private name.
Tamper ==
    /\ dir.next = "cand" /\ ~Same("next", "file") /\ "cand" \notin locks /\ marker.phase # "begun"
    /\ faults < MaxFaults /\ faults' = faults + 1
    /\ contents' = [contents EXCEPT !["cand"] = @ \cup {0}]
    /\ UNCHANGED <<dir, fenced, marker, pc, swapping, seen, version, locks, commits, attempts, crashes>>

(***************************************************************************)
(* The worker, up to the first rename.                                     *)
(***************************************************************************)
To(label) == pc' = label
Recover == To("recover") /\ swapping' = FALSE /\ Release

\* beginArchiveShadow: the marker is written, and the parent notes its source.
Begin ==
    /\ pc = "idle" /\ dir.file = "src" /\ attempts < MaxAttempts /\ attempts' = attempts + 1
    /\ ~Exists("next") /\ ~Exists("old")
    /\ marker' = [NoMarker EXCEPT !.phase = "begun"] /\ seen' = contents["src"]
    /\ swapping' = TRUE /\ To("reserve")
    /\ UNCHANGED <<dir, contents, fenced, version, locks, commits, crashes, faults>>

Reserve ==
    /\ pc = "reserve" /\ To("copy") /\ Point("next", "cand")
    /\ contents' = [contents EXCEPT !["cand"] = {}] /\ fenced' = [fenced EXCEPT !["cand"] = FALSE]
    /\ UNCHANGED <<marker, swapping, seen, version, locks, counts>>

\* The online backup ends with one state of the source.
Copy ==
    /\ pc = "copy" /\ To("prepare")
    /\ contents' = [contents EXCEPT !["cand"] = @ \cup contents["src"]]
    /\ UNCHANGED <<dir, fenced, marker, swapping, seen, version, locks, counts>>

\* prepareArchiveShadowCutover: the candidate is fenced, and the marker pins it.
\* The worker notes its own version of the source before it asks to proceed.
Prepare ==
    /\ pc = "prepare" /\ To("handoff")
    /\ fenced' = [fenced EXCEPT !["cand"] = TRUE]
    /\ marker' = [marker EXCEPT !.phase = "prepared", !.cand = contents["cand"]]
    /\ version' = contents["src"]
    /\ UNCHANGED <<dir, contents, swapping, seen, locks, counts>>

\* Mutant: the parent compares nothing.
AnySnapshot(now) == TRUE
SameSnapshot(now) == now = seen

\* onWorkerReady: the parent closes its connection if its source is the one
\* that was copied.
Handoff ==
    /\ pc = "handoff"
    /\ IF SameSnapshot(contents["src"]) THEN To("fence") /\ UNCHANGED <<swapping, locks>> ELSE Recover
    /\ UNCHANGED <<disk, seen, version, counts>>

\* The worker fences the source if nobody committed since, and notes its file.
Fence ==
    /\ pc = "fence"
    /\ IF contents["src"] = version
       THEN fenced' = [fenced EXCEPT !["src"] = TRUE] /\ To("lock") /\ UNCHANGED <<swapping, locks>>
       ELSE Recover /\ UNCHANGED fenced
    /\ UNCHANGED <<dir, contents, marker, seen, version, counts>>

SourceAsFenced(now) == now = version

\* cutoverArchiveShadow: both files are locked, and are still those compared.
Lock ==
    /\ pc = "lock"
    /\ IF contents["cand"] = marker.cand /\ SourceAsFenced(contents["src"])
       THEN locks' = {"src", "cand"} /\ To("pin") /\ UNCHANGED swapping
       ELSE Recover
    /\ UNCHANGED <<disk, seen, version, counts>>

Pin ==
    /\ pc = "pin" /\ To("rename")
    /\ marker' = [marker EXCEPT !.phase = "pinned", !.source = contents["src"]]
    /\ UNCHANGED <<dir, contents, fenced, swapping, seen, version, locks, counts>>

Rename ==
    /\ pc = "rename" /\ To("link") /\ dir' = [dir EXCEPT !.old = dir.file, !.file = "none"]
    /\ UNCHANGED <<contents, fenced, marker, swapping, seen, version, locks, counts>>

\* A step fails; the parent has the swap undone or finished.
WorkerFails ==
    /\ swapping /\ pc \in {"reserve", "copy", "prepare", "handoff", "fence", "lock", "pin", "rename"}
    /\ faults < MaxFaults /\ faults' = faults + 1
    /\ Recover
    /\ UNCHANGED <<disk, seen, version, commits, attempts, crashes>>

(***************************************************************************)
(* The swap's last steps, which recovery takes too.                        *)
(***************************************************************************)
\* What a refused link, or a mismatch, does to each.
Stop == IF swapping THEN Recover ELSE To("failed") /\ Release /\ UNCHANGED swapping

NameTaken == Exists("file")

\* link(2) never overwrites a database that was created in the gap.
Link ==
    /\ pc = "link"
    /\ IF NameTaken THEN Stop /\ UNCHANGED dir
       ELSE Point("file", dir.next) /\ To("unlink") /\ UNCHANGED <<swapping, locks>>
    /\ UNCHANGED <<contents, fenced, marker, seen, version, counts>>

Unlink ==
    /\ pc = "unlink" /\ To("drop") /\ Point("next", "none")
    /\ UNCHANGED <<contents, fenced, marker, swapping, seen, version, locks, counts>>

LocksEnd == Release

\* The replaced file goes, and with it the locks.
Drop ==
    /\ pc = "drop" /\ To("release") /\ Point("old", "none") /\ LocksEnd
    /\ UNCHANGED <<contents, fenced, marker, swapping, seen, version, counts>>

ReleaseFence ==
    /\ pc = "release" /\ To("discard") /\ fenced' = [fenced EXCEPT ![dir.file] = FALSE]
    /\ UNCHANGED <<dir, contents, marker, swapping, seen, version, locks, counts>>

Discard ==
    /\ pc = "discard" /\ To("settle") /\ Point("next", "none")
    /\ UNCHANGED <<contents, fenced, marker, swapping, seen, version, locks, counts>>

\* The marker goes last; the runtime opens what stands at the public name.
Settle ==
    /\ pc = "settle" /\ To("idle") /\ marker' = NoMarker
    /\ swapping' = FALSE /\ seen' = {} /\ version' = {}
    /\ UNCHANGED <<dir, contents, fenced, locks, counts>>

(***************************************************************************)
(* Recovery.                                                               *)
(***************************************************************************)
LinkedSource == marker.phase = "pinned" /\ Same("file", "old") /\ dir.file = "src"
LinkedCandidate == marker.phase = "pinned" /\ Exists("old") /\ Same("file", "next") /\ dir.file = "cand"
Unsafe == Same("next", "file") \/ Same("next", "old") \/ Same("file", "old")
Continue(label) == To(label) /\ UNCHANGED <<swapping, locks>>

\* Mutant: a restored source with two names is not recognised.
NoLinkedSource == FALSE
FinishesSource == LinkedSource

\* finishLinkedSource: the source is back under its name, and the rest goes.
FinishSource ==
    /\ pc = "recover" /\ FinishesSource
    /\ IF Exists("next") /\ contents["cand"] # marker.cand
       THEN Stop /\ UNCHANGED dir
       ELSE Point("next", "none") /\ locks' = {"src", "cand"} /\ To("drop") /\ UNCHANGED swapping
    /\ UNCHANGED <<contents, fenced, marker, seen, version, counts>>

\* finishLinkedCandidate: the candidate's private name goes.
FinishCandidate ==
    /\ pc = "recover" /\ ~FinishesSource /\ LinkedCandidate /\ Point("next", "none")
    /\ UNCHANGED <<contents, fenced, marker, pc, swapping, seen, version, locks, counts>>

\* recoverArchiveShadow: what is left of the swap says how to go on.
Examine ==
    /\ pc = "recover" /\ ~FinishesSource /\ ~LinkedCandidate
    /\ IF marker = NoMarker THEN IF Exists("next") \/ Exists("old") THEN Stop ELSE Continue("settle")
       ELSE IF Unsafe THEN Stop
       ELSE IF Exists("old") THEN Continue(IF marker.phase = "pinned" THEN "decide" ELSE "legacy")
       ELSE IF Exists("file") THEN Continue("release")
       ELSE Stop
    /\ UNCHANGED <<disk, seen, version, counts>>

\* Mutant: the set-aside source is taken to be as it was pinned.
Unlooked == FALSE
SourceChanged == contents["src"] # marker.source
Candidate == IF Exists("file") THEN dir.file ELSE dir.next

\* recoverPinnedInterruptedCutover: under both locks, a source that changed
\* is restored and one that did not gives way.  Any candidate but the pinned
\* one keeps both.
Choose ==
    /\ pc = "decide"
    /\ IF Candidate # "none" /\ contents[Candidate] # marker.cand THEN Stop
       ELSE /\ locks' = {"src"} \cup ({Candidate} \ {"none"}) /\ UNCHANGED swapping
            /\ IF SourceChanged \/ Candidate = "none"
               THEN To(IF Exists("file") THEN "back" ELSE "restore")
               ELSE To(IF Exists("file") THEN "drop" ELSE "link")
    /\ UNCHANGED <<disk, seen, version, counts>>

\* The candidate leaves the public name by a link and an unlink.
Back ==
    /\ pc = "back" /\ To("vacate") /\ Point("next", dir.file)
    /\ UNCHANGED <<contents, fenced, marker, swapping, seen, version, locks, counts>>

Vacate ==
    /\ pc = "vacate" /\ To("restore") /\ Point("file", "none")
    /\ UNCHANGED <<contents, fenced, marker, swapping, seen, version, locks, counts>>

\* restoreArchiveSource
Restore ==
    /\ pc = "restore"
    /\ IF Exists("file") THEN Stop /\ UNCHANGED dir
       ELSE Point("file", dir.old) /\ Continue("restored")
    /\ UNCHANGED <<contents, fenced, marker, seen, version, counts>>

Restored ==
    /\ pc = "restored" /\ To("drop") /\ Point("next", "none")
    /\ UNCHANGED <<contents, fenced, marker, swapping, seen, version, locks, counts>>

(***************************************************************************)
(* Recovery of a swap that an older version began: only a pinned candidate *)
(* that still is what was pinned replaces the source.                      *)
(***************************************************************************)
\* Mutant: a candidate that nobody pinned is trusted.
Trusted(name) == marker.phase = "unpinned" \/ contents[dir[name]] = marker.cand
Authenticated(name) == marker.phase = "legacy" /\ contents[dir[name]] = marker.cand

\* recoverMissingSource, and recoverInterruptedCutover's choice.
LegacyChoose ==
    /\ pc = "legacy"
    /\ IF Exists("file")
       THEN IF Authenticated("file") THEN Continue("drop") /\ UNCHANGED dir
            ELSE Point("file", "none") /\ Continue("legacy restore")
       ELSE IF Authenticated("next")
            THEN dir' = [dir EXCEPT !.file = dir.next, !.next = "none"] /\ Continue("legacy check")
            ELSE UNCHANGED dir /\ Continue("legacy restore")
    /\ UNCHANGED <<contents, fenced, marker, seen, version, counts>>

\* What was promoted must still be what was authenticated.
LegacyCheck ==
    /\ pc = "legacy check"
    /\ IF Authenticated("file") THEN Continue("drop") /\ UNCHANGED dir
       ELSE dir' = [dir EXCEPT !.next = dir.file, !.file = "none"] /\ Continue("legacy restore")
    /\ UNCHANGED <<contents, fenced, marker, seen, version, counts>>

LegacyRestore ==
    /\ pc = "legacy restore" /\ Continue("release")
    /\ dir' = [dir EXCEPT !.file = dir.old, !.old = "none"]
    /\ UNCHANGED <<contents, fenced, marker, seen, version, counts>>

(***************************************************************************)
(* The runtime dies, with its worker and all locks, and starts again.      *)
(***************************************************************************)
Crash ==
    /\ pc # "down" /\ crashes < MaxCrashes /\ crashes' = crashes + 1
    /\ To("down") /\ Release /\ swapping' = FALSE /\ seen' = {} /\ version' = {}
    /\ UNCHANGED <<disk, commits, attempts, faults>>

Startup ==
    /\ pc = "down" /\ Continue("recover")
    /\ UNCHANGED <<disk, seen, version, counts>>

Swaps == Begin \/ Reserve \/ Copy \/ Prepare \/ Handoff \/ Fence \/ Lock \/ Pin \/ Rename
Tail == Link \/ Unlink \/ Drop \/ ReleaseFence \/ Discard \/ Settle
Recovers == FinishSource \/ FinishCandidate \/ Examine \/ Choose \/ Back \/ Vacate \/ Restore \/ Restored
LegacySteps == LegacyChoose \/ LegacyCheck \/ LegacyRestore

Next ==
    \/ \E name \in {"file", "old"} : Commit(name)
    \/ Creates \/ Tamper \/ Swaps \/ WorkerFails \/ Tail \/ Recovers \/ LegacySteps \/ Crash \/ Startup

Spec == Init /\ [][Next]_vars

(***************************************************************************)
(* Properties.                                                             *)
(***************************************************************************)
\* Types; and no lock outlives the steps it protects.
TypeOK ==
    /\ dir \in [{"file", "next", "old"} -> Inodes \cup {"none"}]
    /\ contents \in [Inodes -> SUBSET (0..MaxCommits)] /\ fenced \in [Inodes -> BOOLEAN]
    /\ marker.phase \in {"none", "begun", "prepared", "pinned", "unpinned", "legacy"}
    /\ marker.cand \subseteq 0..MaxCommits /\ marker.source \subseteq 1..MaxCommits
    /\ {seen, version} \subseteq SUBSET (1..MaxCommits) /\ locks \subseteq {"src", "cand"}
    /\ swapping \in BOOLEAN
    /\ locks # {} => pc \in {"pin", "rename", "link", "unlink", "drop", "back", "vacate", "restore", "restored"}

Kept == UNION {contents[dir[name]] : name \in {n \in {"file", "next", "old"} : Exists(n)}}

\* However often the swap and its recovery are interrupted, each commit is in
\* some file that still has a name.
NothingLost == 1..commits \subseteq Kept

\* A store at rest is one public, unfenced database, with every commit and
\* nothing that was not committed, and nothing is left of the swap.
RestIsWhole ==
    pc = "idle" => /\ marker = NoMarker /\ ~Exists("next") /\ ~Exists("old") /\ Exists("file")
                   /\ contents[dir.file] = 1..commits /\ ~fenced[dir.file]

\* Recovery gives up only on databases that contradict each other: one that was
\* created in the gap, or a candidate that is not the one that was pinned.  No
\* sequence of crashes leaves files it cannot interpret.  (The types of the state
\* are checked with it.)
StopsOnlyOnConflict ==
    /\ TypeOK
    /\ pc = "failed" => dir.file = "other" \/ contents["cand"] # marker.cand

\* However the swap and its recovery are interrupted, they end in one whole
\* database, or stop at one that contradicts the marker.
EndsWholeOrStops == RestIsWhole /\ StopsOnlyOnConflict
=============================================================================
