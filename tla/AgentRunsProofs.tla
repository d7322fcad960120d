-------------------------- MODULE AgentRunsProofs --------------------------
(***************************************************************************)
(* Proofs about AgentRuns, for any numbers of runs, worktrees, slots,      *)
(* crashes and storage faults.                                             *)
(*                                                                         *)
(* The invariant joins what memory, rows, sidecars, recovery classes and   *)
(* process trees say of a run: an owned run is unsettled, a queued run is  *)
(* new, a tree lives only where somebody looks at it, and whatever is owed *)
(* is in the current turn, in the timer or in a shutdown.  Each action has *)
(* a lemma that it keeps the invariant; the safety properties follow from  *)
(* the invariant, and the steps of the ledger are read off it.             *)
(***************************************************************************)
EXTENDS AgentRuns, FiniteSetTheorems, SequenceTheorems, TLAPS

\* Nothing of a dead runtime is left, and recovery finds an empty manager.
DeadIsEmpty ==
    /\ up \/ ~recovered
    /\ recovered \/ (queue = <<>> /\ active = {} /\ pending = {})

\* A run that was not created has left no trace.
Unborn == \A r \in Runs : r > created =>
    /\ status[r] = "absent" /\ class[r] = "none" /\ side[r] = "none" /\ tree[r] = "none"
    /\ ~Queued(r) /\ r \notin Owned /\ r \notin resolved

\* A run is queued once, and not while it is owned.
OneEntry ==
    /\ \A i, j \in DOMAIN queue : queue[i] = queue[j] => i = j
    /\ \A r \in Owned : ~Queued(r)

\* Two owned runs share no worktree, and no active run is in a held one.
OwnedApart ==
    /\ \A o, p \in Owned : wt[o] = wt[p] => o = p
    /\ \A o \in active : wt[o] \notin held

\* A queued run is as it was created.
QueuedIsNew == \A r \in Runs : Queued(r) =>
    status[r] = "queued" /\ tree[r] = "none" /\ side[r] = "none"

\* What the manager keeps of a run it keeps only while it owns the run.
Manager == \A r \in Runs :
    /\ r \in Owned <=> step[r] # "none"
    /\ outcome[r] # "none" => r \in Owned
    /\ r \in pending => outcome[r] # "none"
    /\ finishing = r => outcome[r] # "none"

InLaunch(r) == step[r] \in {"marked", "spawned", "owned"} \/ SpawnFailed(r)

\* The synchronous part of a launch is a turn of its own.
LaunchAlone == \A r \in Runs : InLaunch(r) =>
    /\ r \in active /\ finishing = NoRun /\ stops = {}
    /\ step[r] \in {"marked", "spawned", "owned"} => outcome[r] = "none" /\ r \notin stopped
    /\ \A s \in Runs : InLaunch(s) => s = r

\* What the step of a launch says of the process tree ...
StepTree == \A r \in Runs :
    /\ step[r] \in {"preparing", "marked"} => tree[r] = "none"
    /\ step[r] \in {"spawned", "owned", "unlaunching", "orphaned"} =>
         tree[r] \in {"none", "waiting", "abandoned"}
    /\ outcome[r] # "none" => tree[r] # "live"

\* ... and of the row and its sidecar.
StepRow == \A r \in Owned :
    /\ (finishing # r \/ phase # "clean") => status[r] \in Unsettled
    /\ finishing = r /\ phase = "clean" => status[r] = outcome[r]
    /\ side[r] \in {"none", outcome[r]}
    /\ outcome[r] = "none" /\ step[r] = "preparing" => status[r] = "queued"
    /\ outcome[r] = "none" /\ step[r] \in {"owned", "launched"} => status[r] = "running"

\* What row and sidecar say of the process tree.
RowTree == \A r \in Runs :
    /\ status[r] \in {"queued", "launching"} => tree[r] \notin {"live", "ended"}
    /\ side[r] # "none" => tree[r] # "live"
    /\ r \in resolved => status[r] \in {"interrupted"} \cup Outcomes
    /\ status[r] = "absent" => side[r] = "none"

\* What a recovery class says of it.
ClassTree == \A r \in Runs : class[r] # "none" =>
    /\ r \notin Owned /\ ~Queued(r)
    /\ class[r] \in {"never-started", "unreadable-queued", "unreadable-launching"} =>
         tree[r] \notin {"live", "ended"}
    /\ class[r] = "exited" => tree[r] \notin {"live", "waiting"}

\* A run in review with a sidecar is one whose sidecar could not be read.
ReviewSide == \A r \in Runs : status[r] = "interrupted" /\ side[r] # "none" =>
    /\ class[r] \in {"unreadable-queued", "unreadable-launching", "unreadable-running"}
    /\ r \notin resolved

\* Work and review share a worktree only when every review there is verified.
WorkAfterReview == \A r, i \in Runs :
    (Queued(r) \/ r \in Owned) /\ Unresolved(i) /\ wt[i] = wt[r] =>
      class[i] \in {"never-started", "exited"}

LiveOwned == \A r \in Runs : tree[r] = "live" =>
    \/ r \in active /\ step[r] = "launched"
    \/ ~recovered /\ status[r] = "running"
    \/ Unresolved(r) /\ class[r] \in {"alive", "unknown", "unreadable-running"}

LiveApart ==
    /\ \A r, s \in Runs : tree[r] = "live" /\ tree[s] = "live" /\ wt[r] = wt[s] => r = s
    /\ \A r \in Runs : tree[r] = "live" => wt[r] \notin held

Remembered == recovered =>
    \A r \in Runs : status[r] \in Unsettled => Queued(r) \/ r \in Owned

\* An owed outcome is being settled, is due, will be stopped, or is retried.
OutcomeOwed == up => \A f \in Frozen :
    f = finishing \/ f \in due \/ f \in stops \/ armed \/ (ShuttingDown /\ f \in journaled)

\* A shutdown stops the queued runs before anything else happens.
StopsQueuedFirst == (\E q \in stops : Queued(q)) =>
    ShuttingDown /\ ~armed /\ finishing = NoRun /\ due = {} /\ ~timer /\ drain = "no"

\* A launchable run with nobody to wait for has a drain or a retry to come.
QueueOwed ==
    (/\ recovered /\ ~ShuttingDown /\ ~full /\ ~undrained /\ Owned = {}
     /\ \E i \in DOMAIN queue : Launchable(queue[i]))
    => armed \/ timer \/ drain # "no"

Inv == /\ TypeOK
       /\ DeadIsEmpty /\ Unborn /\ OneEntry /\ OwnedApart /\ QueuedIsNew
       /\ Manager /\ LaunchAlone /\ StepTree /\ StepRow
       /\ RowTree /\ ClassTree /\ ReviewSide /\ WorkAfterReview
       /\ LiveOwned /\ LiveApart /\ Remembered
       /\ OutcomeOwed /\ StopsQueuedFirst /\ QueueOwed


\* No run has the number of none.
LEMMA NoRunIsNone == NoRun \notin Runs
  BY MaxRunsNat DEF NoRun, Runs

\* A manager that owns nothing has a slot.
LEMMA FreeSlot == Owned = {} => HasSlot
<1>1. Cardinality({}) = 0
  BY FS_EmptySet
<1>. QED  BY <1>1, SlotsNat DEF Owned, HasSlot

\* Between the parts of a turn no launch is half made.
LEMMA NotLaunching == ASSUME Inv, ~Launching PROVE \A r \in Runs : ~InLaunch(r)
  BY DEF Inv, LaunchAlone, InLaunch, Launching

\* What stop() changes beside the run it stops, for a request and for a
\* shutdown, and what its callers have checked.
StopRest(r) ==
    /\ up /\ Between
    /\ stops' = stops \ {r}
    /\ ShuttingDown => r \in stops
    /\ Queued(r) \/ \A q \in stops : ~Queued(q)
    /\ UNCHANGED <<world, up, recovered, crashes, active, pending, step, closed,
                   journaled, refusedOnce, undrained, drain, due, timer>>

\* A shutdown finds a run it meant to stop gone already.
NoStop ==
    /\ \E r \in stops : r \notin Owned /\ stops' = stops \ {r}
    /\ UNCHANGED <<rows, world, life, queue, owners, retry, finishing, phase, drain,
                   due, timer>>

\* The runs that were created.
LEMMA Born ==
  ASSUME TypeOK
  PROVE  /\ created \in Nat /\ MaxRuns \in Nat
         /\ \A r \in Runs : r \in Nat /\ (r \in 1..created <=> r <= created)
         /\ \A r \in 1..created : r \in Runs
         /\ created < MaxRuns => created + 1 \in Runs
  BY MaxRunsNat DEF TypeOK, Runs

\* What is queued is a run.
LEMMA QueueRuns ==
  ASSUME TypeOK
  PROVE  /\ \A i \in DOMAIN queue : queue[i] \in Runs
         /\ ToSet(queue) \subseteq Runs /\ \A r : r \in ToSet(queue) <=> Queued(r)
  BY DEF TypeOK, ToSet, Queued

\* The run that is being finished is owned and frozen.
LEMMA FinishingOwned ==
  ASSUME Inv, finishing # NoRun
  PROVE  finishing \in Runs /\ finishing \in Owned /\ outcome[finishing] \in Outcomes
  BY DEF Inv, TypeOK, Manager, Outcomes

\* Two sequences of runs, one behind the other.
LEMMA Joined ==
  ASSUME NEW a \in Seq(Runs), NEW b \in Seq(Runs)
  PROVE  /\ a \o b \in Seq(Runs) /\ Len(a \o b) = Len(a) + Len(b)
         /\ \A k \in 1..(Len(a) + Len(b)) : (a \o b)[k] = IF k <= Len(a) THEN a[k] ELSE b[k - Len(a)]
  OBVIOUS

\* A sequence of runs without an entry: what is left is queued once.
LEMMA Removal ==
  ASSUME NEW q \in Seq(Runs), NEW i \in DOMAIN q, \A j, k \in DOMAIN q : q[j] = q[k] => j = k
  PROVE  LET n == RemoveAt(q, i) IN
         /\ n \in Seq(Runs)
         /\ \A j, k \in DOMAIN n : n[j] = n[k] => j = k
         /\ \A r \in Runs : (\E k \in DOMAIN n : n[k] = r) <=> (r # q[i] /\ \E k \in DOMAIN q : q[k] = r)
<1> DEFINE n == RemoveAt(q, i)
<1>1. i \in 1..Len(q) /\ DOMAIN q = 1..Len(q) /\ Len(q) \in Nat
  OBVIOUS
<1>2. n = [k \in 1..(Len(q) - 1) |-> IF k < i THEN q[k] ELSE q[k + 1]]
  <2> DEFINE a == SubSeq(q, 1, i - 1)
             b == SubSeq(q, i + 1, Len(q))
  <2>0. q \in [1..Len(q) -> Runs] /\ \A k \in 1..Len(q) : q[k] \in Runs
    BY <1>1
  <2>1. a \in Seq(Runs) /\ Len(a) = i - 1 /\ \A k \in 1..(i - 1) : a[k] = q[k]
    <3>1. 1 \in Int /\ i - 1 \in Int /\ \A k \in 1..(i - 1) : q[k] \in Runs
      BY <1>1, <2>0
    <3>2. a \in Seq(Runs) /\ Len(a) = (IF 1 <= i - 1 THEN i - 1 - 1 + 1 ELSE 0)
          /\ \A k \in 1..(i - 1 - 1 + 1) : a[k] = q[1 + k - 1]
      BY <3>1, SubSeqProperties
    <3>. QED  BY <1>1, <3>2
  <2>2. b \in Seq(Runs) /\ Len(b) = Len(q) - i /\ \A k \in 1..(Len(q) - i) : b[k] = q[i + k]
    <3>1. i + 1 \in Int /\ Len(q) \in Int /\ \A k \in (i + 1)..Len(q) : q[k] \in Runs
      BY <1>1, <2>0
    <3>2. b \in Seq(Runs) /\ Len(b) = (IF i + 1 <= Len(q) THEN Len(q) - (i + 1) + 1 ELSE 0)
          /\ \A k \in 1..(Len(q) - (i + 1) + 1) : b[k] = q[i + 1 + k - 1]
      BY <3>1, SubSeqProperties
    <3>. QED  BY <1>1, <3>2
  <2>3. n = a \o b
    BY DEF RemoveAt
  <2> HIDE DEF a, b, n
  <2>4. n \in Seq(Runs) /\ Len(n) = Len(a) + Len(b)
        /\ \A k \in 1..(Len(a) + Len(b)) : n[k] = IF k <= Len(a) THEN a[k] ELSE b[k - Len(a)]
    BY <2>1, <2>2, <2>3, Joined
  <2>5. Len(n) = Len(q) - 1 /\ \A k \in 1..(Len(q) - 1) : n[k] = IF k < i THEN q[k] ELSE q[k + 1]
    <3>1. Len(n) = Len(q) - 1
      BY <1>1, <2>1, <2>2, <2>4
    <3>2. ASSUME NEW k \in 1..(Len(q) - 1) PROVE n[k] = IF k < i THEN q[k] ELSE q[k + 1]
      <4>1. CASE k < i
        BY <1>1, <2>1, <2>2, <2>4, <4>1
      <4>2. CASE ~(k < i)
        <5>1. k - Len(a) \in 1..(Len(q) - i) /\ i + (k - Len(a)) = k + 1
          BY <1>1, <2>1, <4>2
        <5>2. b[k - Len(a)] = q[k + 1]
          BY <2>2, <5>1
        <5>. QED  BY <1>1, <2>1, <2>2, <2>4, <4>2, <5>2
      <4>. QED  BY <4>1, <4>2
    <3>. QED  BY <3>1, <3>2
  <2>6. n = [k \in 1..Len(n) |-> n[k]]
    BY <2>4
  <2>. QED  BY <2>5, <2>6
<1>3. Len(q) - 1 \in Nat /\ n \in [1..(Len(q) - 1) -> Runs]
  BY <1>1, <1>2
<1>4. n \in Seq(Runs)
  BY <1>3, SeqDef
<1>5. \A j, k \in DOMAIN n : n[j] = n[k] => j = k
  BY <1>1, <1>2
<1>6. ASSUME NEW r \in Runs PROVE (\E k \in DOMAIN n : n[k] = r) <=> (r # q[i] /\ \E k \in DOMAIN q : q[k] = r)
  <2>1. ASSUME NEW k \in DOMAIN n, n[k] = r PROVE r # q[i] /\ \E j \in DOMAIN q : q[j] = r
    BY <1>1, <1>2, <2>1
  <2>2. ASSUME NEW k \in DOMAIN q, q[k] = r, r # q[i] PROVE \E j \in DOMAIN n : n[j] = r
    <3>1. CASE k < i
      BY <1>1, <1>2, <2>2, <3>1
    <3>2. CASE k > i
      <4>1. k - 1 \in DOMAIN n /\ n[k - 1] = r
        BY <1>1, <1>2, <2>2, <3>2
      <4>. QED  BY <4>1
    <3>. QED  BY <1>1, <2>2, <3>1, <3>2
  <2>. QED  BY <2>1, <2>2
<1>. QED  BY <1>4, <1>5, <1>6

\* A new entry behind the others, or one put back before them.
LEMMA Addition ==
  ASSUME NEW q \in Seq(Runs), NEW e \in Runs, \A j, k \in DOMAIN q : q[j] = q[k] => j = k,
         \A k \in DOMAIN q : q[k] # e, NEW n, n = Append(q, e) \/ n = <<e>> \o q
  PROVE  /\ n \in Seq(Runs)
         /\ \A j, k \in DOMAIN n : n[j] = n[k] => j = k
         /\ \A r \in Runs : (\E k \in DOMAIN n : n[k] = r) <=> (r = e \/ \E k \in DOMAIN q : q[k] = r)
<1>0. DOMAIN q = 1..Len(q) /\ Len(q) \in Nat
  OBVIOUS
<1>1. CASE n = Append(q, e)
  <2>1. n \in Seq(Runs) /\ DOMAIN n = 1..(Len(q) + 1) /\ n[Len(q) + 1] = e
        /\ \A k \in 1..Len(q) : n[k] = q[k]
    BY <1>1, AppendProperties
  <2>2. \A j, k \in DOMAIN n : n[j] = n[k] => j = k
    BY <1>0, <2>1
  <2>3. \A r \in Runs : (\E k \in DOMAIN n : n[k] = r) <=> (r = e \/ \E k \in DOMAIN q : q[k] = r)
    BY <1>0, <2>1
  <2>. QED  BY <2>1, <2>2, <2>3
<1>2. CASE n = <<e>> \o q
  <2>1. n \in Seq(Runs) /\ DOMAIN n = 1..(Len(q) + 1) /\ n[1] = e
        /\ \A k \in 1..Len(q) : n[k + 1] = q[k]
    BY <1>0, <1>2
  <2>2. \A j \in DOMAIN n : j = 1 \/ (j - 1 \in DOMAIN q /\ n[j] = q[j - 1])
    BY <1>0, <2>1
  <2>3. \A j, k \in DOMAIN n : n[j] = n[k] => j = k
    BY <1>0, <2>1, <2>2
  <2>4. ASSUME NEW r \in Runs PROVE (\E k \in DOMAIN n : n[k] = r) <=> (r = e \/ \E k \in DOMAIN q : q[k] = r)
    <3>1. ASSUME NEW k \in DOMAIN q PROVE k + 1 \in DOMAIN n /\ n[k + 1] = q[k]
      BY <1>0, <2>1
    <3>2. 1 \in DOMAIN n
      BY <1>0, <2>1
    <3>3. ASSUME NEW k \in DOMAIN n, n[k] = r, r # e PROVE \E j \in DOMAIN q : q[j] = r
      BY <2>1, <2>2, <3>3
    <3>. QED  BY <2>1, <3>1, <3>2, <3>3
  <2>. QED  BY <2>1, <2>3, <2>4
<1>. QED  BY <1>1, <1>2

\* What putting a run into the queue does to the queue.
LEMMA Enqueued ==
  ASSUME Inv, NEW e \in Runs, ~Queued(e), queue' \in {Append(queue, e), <<e>> \o queue}
  PROVE  /\ queue' \in Seq(Runs)
         /\ \A i, j \in DOMAIN queue' : queue'[i] = queue'[j] => i = j
         /\ \A r \in Runs : Queued(r)' <=> r = e \/ Queued(r)
<1> DEFINE n == queue'
<1>1. /\ queue \in Seq(Runs)
      /\ \A i, j \in DOMAIN queue : queue[i] = queue[j] => i = j
      /\ \A k \in DOMAIN queue : queue[k] # e
  BY DEF Inv, TypeOK, OneEntry, Queued
<1>2. n = Append(queue, e) \/ n = <<e>> \o queue
  OBVIOUS
<1> HIDE DEF n
<1>3. /\ n \in Seq(Runs)
      /\ \A i, j \in DOMAIN n : n[i] = n[j] => i = j
      /\ \A r \in Runs : (\E k \in DOMAIN n : n[k] = r) <=> (r = e \/ \E k \in DOMAIN queue : queue[k] = r)
  BY <1>1, <1>2, Addition, SMTT(60)
<1>. QED  BY <1>3 DEF n, Queued

\* What taking a run out of the queue does to the queue.
LEMMA Dequeued ==
  ASSUME Inv, NEW i \in DOMAIN queue, queue' = RemoveAt(queue, i)
  PROVE  /\ queue' \in Seq(Runs)
         /\ \A j, k \in DOMAIN queue' : queue'[j] = queue'[k] => j = k
         /\ \A r \in Runs : Queued(r)' <=> Queued(r) /\ r # queue[i]
<1> DEFINE n == RemoveAt(queue, i)
<1>1. queue \in Seq(Runs) /\ \A j, k \in DOMAIN queue : queue[j] = queue[k] => j = k
  BY DEF Inv, TypeOK, OneEntry
<1>2. /\ n \in Seq(Runs)
      /\ \A j, k \in DOMAIN n : n[j] = n[k] => j = k
      /\ \A r \in Runs : (\E k \in DOMAIN n : n[k] = r) <=> (r # queue[i] /\ \E k \in DOMAIN queue : queue[k] = r)
  BY <1>1, Removal
<1>3. queue' = n
  OBVIOUS
<1> HIDE DEF n
<1>. QED  BY <1>2, <1>3 DEF Queued


\* What a pass of drain() that gets to the queue leaves alone, and what it
\* does when nothing there is launchable, and when a run is.
DrainRest ==
    /\ up /\ ~Launching /\ finishing = NoRun /\ ~ShuttingDown /\ ~full /\ drain # "no"
    /\ ClearRetry(FALSE, admissionRetry)
    /\ queueRead' = FALSE /\ undrained' = FALSE
    /\ UNCHANGED <<rows, world, life, pending, closed, stopped, stopping, outcome,
                   journaled, refusedOnce, admissionRetry, finishing, phase, due, timer, stops>>

NothingReady ==
    /\ DrainRest /\ drain' = "no"
    /\ \A i \in DOMAIN queue : ~Launchable(queue[i])
    /\ UNCHANGED <<queue, active, step>>

Admitted(e) ==
    /\ DrainRest /\ drain' = "loop"
    /\ Queued(e) /\ Launchable(e)
    /\ queue' \in Seq(Runs)
    /\ \A j, k \in DOMAIN queue' : queue'[j] = queue'[k] => j = k
    /\ \A r \in Runs : Queued(r)' <=> Queued(r) /\ r # e
    /\ active' = active \cup {e}
    /\ step' = [step EXCEPT ![e] = "preparing"]

\* A drain that gets to the queue admits its first launchable run, if any.
LEMMA DrainAdmitsCases ==
  ASSUME Inv, DrainAdmits
  PROVE  NothingReady \/ \E e \in Runs : Admitted(e)
<1>1. DrainRest
  BY DEF DrainAdmits, Draining, DrainRest
<1>2. CASE \E first \in {i \in DOMAIN queue : Launchable(queue[i])} :
              /\ queue' = RemoveAt(queue, first)
              /\ active' = active \cup {queue[first]}
              /\ step' = [step EXCEPT ![queue[first]] = "preparing"]
              /\ drain' = "loop"
  <2>1. PICK first \in {i \in DOMAIN queue : Launchable(queue[i])} :
              /\ queue' = RemoveAt(queue, first)
              /\ active' = active \cup {queue[first]}
              /\ step' = [step EXCEPT ![queue[first]] = "preparing"]
              /\ drain' = "loop"
    BY <1>2
  <2>2. first \in DOMAIN queue /\ queue[first] \in Runs /\ Queued(queue[first])
        /\ Launchable(queue[first])
    BY QueueRuns DEF Inv, Queued
  <2>3. /\ queue' \in Seq(Runs)
        /\ \A j, k \in DOMAIN queue' : queue'[j] = queue'[k] => j = k
        /\ \A r \in Runs : Queued(r)' <=> Queued(r) /\ r # queue[first]
    BY <2>1, <2>2, Dequeued
  <2>. QED  BY <1>1, <2>1, <2>2, <2>3 DEF Admitted
<1>3. CASE /\ UNCHANGED <<queue, active, step>> /\ drain' = "no"
           /\ {i \in DOMAIN queue : Launchable(queue[i])} = {}
  BY <1>1, <1>3 DEF NothingReady
<1>. QED  BY <1>2, <1>3 DEF DrainAdmits


\* A step that leaves the variables of a part alone keeps the part.
LEMMA Frame ==
  /\ DeadIsEmpty /\ UNCHANGED <<up, recovered, queue, active, pending>> => DeadIsEmpty'
  /\ Unborn /\ UNCHANGED <<created, status, class, side, tree, queue, active, pending, resolved>> => Unborn'
  /\ OneEntry /\ UNCHANGED <<queue, active, pending>> => OneEntry'
  /\ OwnedApart /\ UNCHANGED <<wt, active, pending, held>> => OwnedApart'
  /\ QueuedIsNew /\ UNCHANGED <<queue, status, tree, side>> => QueuedIsNew'
  /\ Manager /\ UNCHANGED <<active, pending, step, outcome, finishing>> => Manager'
  /\ LaunchAlone /\ UNCHANGED <<step, tree, closed, active, finishing, outcome, stopped, stops>> => LaunchAlone'
  /\ StepTree /\ UNCHANGED <<step, tree, outcome>> => StepTree'
  /\ StepRow /\ UNCHANGED <<active, pending, outcome, finishing, phase, status, side, step>> => StepRow'
  /\ RowTree /\ UNCHANGED <<status, tree, side, resolved>> => RowTree'
  /\ ClassTree /\ UNCHANGED <<class, active, pending, queue, tree>> => ClassTree'
  /\ ReviewSide /\ UNCHANGED <<status, side, class, resolved>> => ReviewSide'
  /\ WorkAfterReview /\ UNCHANGED <<queue, active, pending, wt, status, resolved, class>> => WorkAfterReview'
  /\ LiveOwned /\ UNCHANGED <<tree, active, step, recovered, status, resolved, class>> => LiveOwned'
  /\ LiveApart /\ UNCHANGED <<tree, wt, held>> => LiveApart'
  /\ Remembered /\ UNCHANGED <<recovered, status, queue, active, pending>> => Remembered'
  /\ OutcomeOwed /\ UNCHANGED <<up, active, pending, outcome, finishing, due, stops, armed, shutdown, journaled>> => OutcomeOwed'
  /\ StopsQueuedFirst /\ UNCHANGED <<stops, queue, shutdown, armed, finishing, due, timer, drain>> => StopsQueuedFirst'
  /\ QueueOwed /\ UNCHANGED <<recovered, shutdown, full, undrained, active, pending, queue, wt, held, armed, timer, drain>> => QueueOwed'
<1>1. DeadIsEmpty /\ UNCHANGED <<up, recovered, queue, active, pending>> => DeadIsEmpty'
  BY DEF DeadIsEmpty
<1>2. Unborn /\ UNCHANGED <<created, status, class, side, tree, queue, active, pending, resolved>> => Unborn'
  BY DEF Unborn, Queued, Owned
<1>3. OneEntry /\ UNCHANGED <<queue, active, pending>> => OneEntry'
  BY DEF OneEntry, Queued, Owned
<1>4. OwnedApart /\ UNCHANGED <<wt, active, pending, held>> => OwnedApart'
  BY DEF OwnedApart, Owned
<1>5. QueuedIsNew /\ UNCHANGED <<queue, status, tree, side>> => QueuedIsNew'
  BY DEF QueuedIsNew, Queued
<1>6. Manager /\ UNCHANGED <<active, pending, step, outcome, finishing>> => Manager'
  BY DEF Manager, Owned
<1>7. LaunchAlone /\ UNCHANGED <<step, tree, closed, active, finishing, outcome, stopped, stops>> => LaunchAlone'
  BY DEF LaunchAlone, InLaunch, SpawnFailed
<1>8. StepTree /\ UNCHANGED <<step, tree, outcome>> => StepTree'
  BY DEF StepTree
<1>9. StepRow /\ UNCHANGED <<active, pending, outcome, finishing, phase, status, side, step>> => StepRow'
  BY DEF StepRow, Owned
<1>10. RowTree /\ UNCHANGED <<status, tree, side, resolved>> => RowTree'
  BY DEF RowTree
<1>11. ClassTree /\ UNCHANGED <<class, active, pending, queue, tree>> => ClassTree'
  BY DEF ClassTree, Owned, Queued
<1>12. ReviewSide /\ UNCHANGED <<status, side, class, resolved>> => ReviewSide'
  BY DEF ReviewSide
<1>13. WorkAfterReview /\ UNCHANGED <<queue, active, pending, wt, status, resolved, class>> => WorkAfterReview'
  BY DEF WorkAfterReview, Owned, Queued, Unresolved
<1>14. LiveOwned /\ UNCHANGED <<tree, active, step, recovered, status, resolved, class>> => LiveOwned'
  BY DEF LiveOwned, Unresolved
<1>15. LiveApart /\ UNCHANGED <<tree, wt, held>> => LiveApart'
  BY DEF LiveApart
<1>16. Remembered /\ UNCHANGED <<recovered, status, queue, active, pending>> => Remembered'
  BY DEF Remembered, Owned, Queued
<1>17. OutcomeOwed /\ UNCHANGED <<up, active, pending, outcome, finishing, due, stops, armed, shutdown, journaled>> => OutcomeOwed'
  BY DEF OutcomeOwed, Frozen, Owned, ShuttingDown
<1>18. StopsQueuedFirst /\ UNCHANGED <<stops, queue, shutdown, armed, finishing, due, timer, drain>> => StopsQueuedFirst'
  BY DEF StopsQueuedFirst, Queued, ShuttingDown
<1>19. QueueOwed /\ UNCHANGED <<recovered, shutdown, full, undrained, active, pending, queue, wt, held, armed, timer, drain>> => QueueOwed'
  BY DEF QueueOwed, Owned, Launchable, ShuttingDown
<1>. QED  BY <1>1, <1>2, <1>3, <1>4, <1>5, <1>6, <1>7, <1>8, <1>9, <1>10, <1>11, <1>12,
   <1>13, <1>14, <1>15, <1>16, <1>17, <1>18, <1>19

\* The frozen outcome of an owned run goes to its sidecar, whose tree is not live.
LEMMA FinishJournalInv == ASSUME Inv, FinishJournal PROVE Inv'
<1> USE DEF rows, store, world, life, owners, retry, turn, Outcomes
<1>a. Inv /\ NoRun \notin Runs  BY NoRunIsNone
<1>0. TypeOK'  BY <1>a, BoundsNat, SlotsNat
   DEF Inv, TypeOK, FinishJournal, SavesOutcome, SaveFails
<1>1. (DeadIsEmpty /\ OneEntry /\ OwnedApart /\ Manager /\ LaunchAlone /\ StepTree
    /\ ClassTree /\ WorkAfterReview /\ LiveOwned /\ LiveApart /\ Remembered
    /\ StopsQueuedFirst /\ QueueOwed)'
  BY <1>a, Frame DEF Inv, FinishJournal, SavesOutcome, SaveFails
<1>2. Unborn'
  BY <1>a DEF Inv, FinishJournal, SavesOutcome, SaveFails, Unborn, Manager, DeadIsEmpty,
     TypeOK, Queued, Owned
<1>3. QueuedIsNew'
  BY <1>a DEF Inv, FinishJournal, SavesOutcome, SaveFails, QueuedIsNew, Unborn, OneEntry,
     StepTree, StepRow, ClassTree, Manager, DeadIsEmpty, TypeOK, Queued, Owned,
     Unresolved
<1>4. StepRow'
  BY <1>a DEF Inv, FinishJournal, SavesOutcome, SaveFails, StepRow, QueuedIsNew, Manager,
     LaunchAlone, DeadIsEmpty, Unborn, OneEntry, TypeOK, Owned, Queued, SpawnFailed,
     InLaunch, Idle, Between, Launching, Serving, Frozen, Unresolved, Unsettled
<1>5. RowTree'
  BY <1>a DEF Inv, FinishJournal, SavesOutcome, SaveFails, RowTree, Unborn, Manager,
     LaunchAlone, StepTree, StepRow, QueuedIsNew, OneEntry, TypeOK, Owned, Queued,
     Unresolved, InLaunch, Unsettled
<1>6. ReviewSide'
  BY <1>a DEF Inv, FinishJournal, SavesOutcome, SaveFails, ReviewSide, StepRow, Manager,
     TypeOK, Unresolved, Owned, Unsettled
<1>7. OutcomeOwed'
  BY <1>a DEF Inv, FinishJournal, SavesOutcome, SaveFails, OutcomeOwed, StopsQueuedFirst,
     Manager, DeadIsEmpty, TypeOK, Frozen, Owned, ShuttingDown, Queued, Idle, Between,
     Serving
<1>. QED  BY <1>0, <1>1, <1>2, <1>3, <1>4, <1>5, <1>6, <1>7 DEF Inv

\* The row of an owned run takes its frozen outcome.
LEMMA FinishCommitInv == ASSUME Inv, FinishCommit PROVE Inv'
<1> USE DEF rows, store, world, life, owners, retry, turn, Outcomes
<1>a. Inv /\ NoRun \notin Runs  BY NoRunIsNone
<1>b. finishing \in Runs /\ outcome[finishing] \in Outcomes
  BY <1>a, FinishingOwned DEF FinishCommit
<1>0. TypeOK'  BY <1>a, <1>b DEF Inv, TypeOK, FinishCommit
<1>1. (DeadIsEmpty /\ OneEntry /\ OwnedApart /\ Manager /\ LaunchAlone /\ StepTree
    /\ ClassTree /\ LiveApart /\ OutcomeOwed /\ StopsQueuedFirst /\ QueueOwed)'
  BY <1>a, Frame DEF Inv, FinishCommit
<1>2. Unborn'
  BY <1>a DEF Inv, FinishCommit, Unborn, Manager, DeadIsEmpty, TypeOK, Queued, Owned
<1>3. QueuedIsNew'
  BY <1>a DEF Inv, FinishCommit, QueuedIsNew, Unborn, OneEntry, StepTree, StepRow,
     ClassTree, Manager, DeadIsEmpty, TypeOK, Queued, Owned, Unresolved
<1>4. StepRow'
  BY <1>a DEF Inv, FinishCommit, StepRow, QueuedIsNew, Manager, LaunchAlone, DeadIsEmpty,
     Unborn, OneEntry, TypeOK, Owned, Queued, SpawnFailed, InLaunch, Idle, Between,
     Launching, Serving, Frozen, Unresolved, Unsettled
<1>5. RowTree'
  BY <1>a DEF Inv, FinishCommit, RowTree, Unborn, Manager, LaunchAlone, StepTree, TypeOK,
     Owned, Queued, Unresolved, InLaunch, Unsettled
<1>6. ReviewSide'
  BY <1>a DEF Inv, FinishCommit, ReviewSide, StepRow, Manager, TypeOK, Unresolved
<1>7. WorkAfterReview'
  BY <1>a DEF Inv, FinishCommit, WorkAfterReview, DeadIsEmpty, OneEntry, TypeOK, Queued,
     Owned, Unresolved, UnresolvedIn, Unsettled, InLaunch
<1>8. LiveOwned'
  BY <1>a DEF Inv, FinishCommit, LiveOwned, DeadIsEmpty, StepRow, StepTree, Manager,
     LaunchAlone, ClassTree, RowTree, Unborn, TypeOK, Owned, Unresolved, InLaunch,
     UnresolvedIn, Queued
<1>9. Remembered'
  BY <1>a DEF Inv, FinishCommit, Remembered, StepRow, OneEntry, LaunchAlone, RowTree,
     TypeOK, Queued, Owned, InLaunch, Unresolved, Unsettled
<1>. QED  BY <1>0, <1>1, <1>2, <1>3, <1>4, <1>5, <1>6, <1>7, <1>8, <1>9 DEF Inv

\* A refused commit keeps the run owned and its outcome owed.
LEMMA FinishDeferInv == ASSUME Inv, FinishDefer PROVE Inv'
<1> USE DEF rows, store, world, life, owners, retry, turn, Outcomes
<1>a. Inv /\ NoRun \notin Runs  BY NoRunIsNone
<1>b. finishing \in Runs /\ finishing \in Owned /\ outcome[finishing] # "none" /\ finishing' = NoRun
  BY <1>a, FinishingOwned DEF FinishDefer, Outcomes
<1>c. Owned' = Owned /\ active' \subseteq active /\ (pending' = pending \/ pending' = pending \cup {finishing})
  BY <1>b DEF FinishDefer, Owned
<1>0. TypeOK'  BY <1>a, BoundsNat, SlotsNat DEF Inv, TypeOK, FinishDefer, RetryLater
<1>1. (QueuedIsNew /\ StepTree /\ RowTree /\ ReviewSide /\ LiveApart)'
  BY <1>a, Frame DEF Inv, FinishDefer, RetryLater
<1>2. DeadIsEmpty'
  BY <1>a, <1>b, <1>c DEF Inv, DeadIsEmpty, FinishDefer, Owned
<1>3. Unborn'
  BY <1>a DEF Inv, FinishDefer, RetryLater, Unborn, Manager, DeadIsEmpty, TypeOK, Queued,
     Owned
<1>4. OneEntry'
  BY <1>a DEF Inv, FinishDefer, RetryLater, OneEntry, Unborn, Manager, DeadIsEmpty,
     TypeOK, Queued, Owned, Launchable
<1>5. OwnedApart'
  BY <1>a, <1>c DEF Inv, OwnedApart, FinishDefer
<1>6. Manager'
  BY <1>a DEF Inv, FinishDefer, RetryLater, Manager, OneEntry, DeadIsEmpty, TypeOK, Owned,
     Launchable, Frozen, Queued
<1>7. LaunchAlone'
  BY <1>a DEF Inv, FinishDefer, RetryLater, LaunchAlone, Manager, TypeOK, SpawnFailed,
     InLaunch, Owned, Idle, Between, Launching, Draining
<1>8. StepRow'
  BY <1>a DEF Inv, FinishDefer, RetryLater, StepRow, QueuedIsNew, Manager, LaunchAlone,
     DeadIsEmpty, Unborn, OneEntry, TypeOK, Owned, Queued, SpawnFailed, InLaunch, Idle,
     Between, Launching, Serving, Frozen, Unresolved, Unsettled
<1>9. ClassTree'
  BY <1>a DEF Inv, FinishDefer, RetryLater, ClassTree, OneEntry, Manager, LaunchAlone,
     StepTree, TypeOK, Owned, Queued, Unresolved
<1>10. WorkAfterReview'
  BY <1>a, <1>c DEF Inv, WorkAfterReview, FinishDefer, Queued, Unresolved
<1>11. LiveOwned'
  BY <1>a DEF Inv, FinishDefer, RetryLater, LiveOwned, DeadIsEmpty, StepRow, StepTree,
     Manager, LaunchAlone, ClassTree, RowTree, Unborn, TypeOK, Owned, Unresolved,
     InLaunch, UnresolvedIn, Queued
<1>12. Remembered'
  BY <1>a DEF Inv, FinishDefer, RetryLater, Remembered, StepRow, Manager, QueuedIsNew,
     DeadIsEmpty, OneEntry, LaunchAlone, RowTree, TypeOK, Queued, Owned, InLaunch,
     Unresolved, Unsettled
<1>13. OutcomeOwed'
  <2>1. Frozen' = Frozen
    BY <1>c DEF FinishDefer, Frozen
  <2>2. \A f \in Frozen : f \in Runs
    BY <1>a DEF Inv, TypeOK, Frozen, Owned
  <2>. QED  BY <1>a, <1>b, <2>1, <2>2
     DEF Inv, OutcomeOwed, FinishDefer, RetryLater, ShuttingDown
<1>14. StopsQueuedFirst'
  BY <1>a DEF Inv, FinishDefer, RetryLater, StopsQueuedFirst, OneEntry, Manager,
     LaunchAlone, TypeOK, Queued, Owned, ShuttingDown, Idle, Between, Draining, Serving,
     ToSet, InLaunch
<1>15. QueueOwed'
  BY <1>a DEF Inv, FinishDefer, RetryLater, QueueOwed, DeadIsEmpty, TypeOK, Owned,
     Launchable, ShuttingDown, Idle, Between, HasSlot, Serving, Draining
<1>. QED  BY <1>0, <1>1, <1>2, <1>3, <1>4, <1>5, <1>6, <1>7, <1>8, <1>9, <1>10, <1>11,
   <1>12, <1>13, <1>14, <1>15 DEF Inv

\* A settled run is let go.
LEMMA FinishCleanInv == ASSUME Inv, FinishClean PROVE Inv'
<1> USE DEF rows, store, world, life, owners, retry, turn, Outcomes
<1>a. Inv /\ NoRun \notin Runs  BY NoRunIsNone
<1>0. TypeOK'  BY <1>a, BoundsNat, SlotsNat DEF Inv, TypeOK, FinishClean, RemovesOutcome
<1>1. (LiveApart)'
  BY <1>a, Frame DEF Inv, FinishClean, RemovesOutcome
<1>2. DeadIsEmpty'
  BY <1>a DEF Inv, FinishClean, RemovesOutcome, DeadIsEmpty, Manager, TypeOK
<1>3. Unborn'
  BY <1>a DEF Inv, FinishClean, RemovesOutcome, Unborn, Manager, DeadIsEmpty, TypeOK,
     Queued, Owned
<1>4. OneEntry'
  BY <1>a DEF Inv, FinishClean, RemovesOutcome, OneEntry, Unborn, Manager, DeadIsEmpty,
     TypeOK, Queued, Owned, Launchable
<1>5. OwnedApart'
  BY <1>a DEF Inv, FinishClean, RemovesOutcome, OwnedApart, OneEntry, Unborn, TypeOK,
     Owned, Launchable, HasWork, ToSet, Serving
<1>6. QueuedIsNew'
  BY <1>a DEF Inv, FinishClean, RemovesOutcome, QueuedIsNew, Unborn, OneEntry, StepTree,
     StepRow, ClassTree, Manager, DeadIsEmpty, TypeOK, Queued, Owned, Unresolved
<1>7. Manager'
  BY <1>a DEF Inv, FinishClean, RemovesOutcome, Manager, OneEntry, DeadIsEmpty, TypeOK,
     Owned, Launchable, Frozen, Queued
<1>8. LaunchAlone'
  BY <1>a DEF Inv, FinishClean, RemovesOutcome, LaunchAlone, Manager, TypeOK, SpawnFailed,
     InLaunch, Owned, Idle, Between, Launching, Draining
<1>9. StepTree'
  BY <1>a DEF Inv, FinishClean, RemovesOutcome, StepTree, QueuedIsNew, Manager,
     LaunchAlone, TypeOK, Owned, Queued, SpawnFailed, InLaunch, Childless, Gone, Idle,
     Between, Launching, Serving, Frozen
<1>10. StepRow'
  BY <1>a DEF Inv, FinishClean, RemovesOutcome, StepRow, QueuedIsNew, Manager,
     LaunchAlone, DeadIsEmpty, Unborn, OneEntry, TypeOK, Owned, Queued, SpawnFailed,
     InLaunch, Idle, Between, Launching, Serving, Frozen, Unresolved, Unsettled
<1>11. RowTree'
  BY <1>a DEF Inv, FinishClean, RemovesOutcome, RowTree, Unborn, QueuedIsNew, OneEntry,
     TypeOK, Owned
<1>12. ClassTree'
  BY <1>a DEF Inv, FinishClean, RemovesOutcome, ClassTree, Unborn, RowTree, DeadIsEmpty,
     StepTree, TypeOK, Owned, Queued, Unresolved, InLaunch
<1>13. ReviewSide'
  BY <1>a DEF Inv, FinishClean, RemovesOutcome, ReviewSide, StepRow, Manager, TypeOK,
     Unresolved, Owned
<1>14. WorkAfterReview'
  BY <1>a DEF Inv, FinishClean, RemovesOutcome, WorkAfterReview, DeadIsEmpty, Unborn,
     StepRow, QueuedIsNew, OneEntry, TypeOK, Queued, Owned, Unresolved, UnresolvedIn,
     Unsettled, InLaunch
<1>15. LiveOwned'
  BY <1>a DEF Inv, FinishClean, RemovesOutcome, LiveOwned, DeadIsEmpty, StepRow, StepTree,
     Manager, LaunchAlone, Owned, Unresolved, InLaunch, UnresolvedIn
<1>16. Remembered'
  BY <1>a DEF Inv, FinishClean, RemovesOutcome, Remembered, StepRow, Manager, QueuedIsNew,
     DeadIsEmpty, OneEntry, LaunchAlone, RowTree, TypeOK, Queued, Owned, InLaunch,
     Unresolved, Unsettled
<1>17. OutcomeOwed'
  BY <1>a DEF Inv, FinishClean, RemovesOutcome, OutcomeOwed, TypeOK, Frozen, Owned,
     ShuttingDown, Queued, Idle, Between, Serving
<1>18. StopsQueuedFirst'
  BY <1>a DEF Inv, FinishClean, RemovesOutcome, StopsQueuedFirst, OneEntry, Manager,
     LaunchAlone, TypeOK, Queued, Owned, ShuttingDown, Idle, Between, Draining, Serving,
     ToSet, InLaunch
<1>19. QueueOwed'
  BY <1>a DEF Inv, FinishClean, RemovesOutcome, QueueOwed, Draining
<1>. QED  BY <1>0, <1>1, <1>2, <1>3, <1>4, <1>5, <1>6, <1>7, <1>8, <1>9, <1>10, <1>11,
   <1>12, <1>13, <1>14, <1>15, <1>16, <1>17, <1>18, <1>19 DEF Inv

\* drain() gives up: nothing could have been launched.
LEMMA DrainReturnsInv == ASSUME Inv, DrainReturns PROVE Inv'
<1> USE DEF rows, store, world, life, owners, retry, turn, Outcomes
<1>a. Inv /\ NoRun \notin Runs  BY NoRunIsNone
<1>0. TypeOK'  BY <1>a, BoundsNat, SlotsNat
   DEF Inv, TypeOK, DrainReturns, Draining, DrainOnly
<1>1. (DeadIsEmpty /\ Unborn /\ OneEntry /\ OwnedApart /\ QueuedIsNew /\ Manager
    /\ LaunchAlone /\ StepTree /\ StepRow /\ RowTree /\ ClassTree /\ ReviewSide
    /\ WorkAfterReview /\ LiveOwned /\ LiveApart /\ Remembered /\ OutcomeOwed)'
  BY <1>a, Frame DEF Inv, DrainReturns, Draining, DrainOnly
<1>2. StopsQueuedFirst'
  BY <1>a DEF Inv, DrainReturns, Draining, DrainOnly, StopsQueuedFirst, OneEntry, Manager,
     LaunchAlone, TypeOK, Queued, Owned, ShuttingDown, Idle, Between, Serving, ToSet,
     InLaunch
<1>3. QueueOwed'
  BY <1>a, FreeSlot DEF Inv, QueueOwed, DrainReturns, Draining, DrainOnly, ShuttingDown,
     Launchable, Owned, HasSlot
<1>. QED  BY <1>0, <1>1, <1>2, <1>3 DEF Inv

\* An empty queue owes nothing but outcomes.
LEMMA DrainEmptyInv == ASSUME Inv, DrainEmpty PROVE Inv'
<1> USE DEF rows, store, world, life, owners, retry, turn, Outcomes
<1>a. Inv /\ NoRun \notin Runs  BY NoRunIsNone
<1>0. TypeOK'  BY <1>a, BoundsNat, SlotsNat
   DEF Inv, TypeOK, DrainEmpty, Draining, DrainOnly, ClearRetry
<1>1. (DeadIsEmpty /\ Unborn /\ OneEntry /\ OwnedApart /\ QueuedIsNew /\ Manager
    /\ LaunchAlone /\ StepTree /\ StepRow /\ RowTree /\ ClassTree /\ ReviewSide
    /\ WorkAfterReview /\ LiveOwned /\ LiveApart /\ Remembered)'
  BY <1>a, Frame DEF Inv, DrainEmpty, Draining, DrainOnly, ClearRetry
<1>2. OutcomeOwed'
  BY <1>a DEF Inv, DrainEmpty, Draining, DrainOnly, ClearRetry, OutcomeOwed,
     StopsQueuedFirst, Manager, DeadIsEmpty, TypeOK, Frozen, Owned, ShuttingDown, Queued,
     Idle, Between, Serving
<1>3. StopsQueuedFirst'
  BY <1>a DEF Inv, DrainEmpty, Draining, DrainOnly, ClearRetry, StopsQueuedFirst,
     OneEntry, Manager, LaunchAlone, TypeOK, Queued, Owned, ShuttingDown, Idle, Between,
     Serving, ToSet, InLaunch
<1>4. QueueOwed'
  BY <1>a DEF Inv, DrainEmpty, Draining, DrainOnly, ClearRetry, QueueOwed, DeadIsEmpty,
     TypeOK, Owned, Launchable, ShuttingDown, Idle, Between, HasSlot, Serving
<1>. QED  BY <1>0, <1>1, <1>2, <1>3, <1>4 DEF Inv

\* Without a slot some run is owned, whose end drains again.
LEMMA DrainWithoutSlotInv == ASSUME Inv, DrainWithoutSlot PROVE Inv'
<1> USE DEF rows, store, world, life, owners, retry, turn, Outcomes
<1>a. Inv /\ NoRun \notin Runs  BY NoRunIsNone
<1>0. TypeOK'  BY <1>a, BoundsNat, SlotsNat
   DEF Inv, TypeOK, DrainWithoutSlot, Draining, DrainOnly, ClearRetry
<1>1. (DeadIsEmpty /\ Unborn /\ OneEntry /\ OwnedApart /\ QueuedIsNew /\ Manager
    /\ LaunchAlone /\ StepTree /\ StepRow /\ RowTree /\ ClassTree /\ ReviewSide
    /\ WorkAfterReview /\ LiveOwned /\ LiveApart /\ Remembered)'
  BY <1>a, Frame DEF Inv, DrainWithoutSlot, Draining, DrainOnly, ClearRetry
<1>2. OutcomeOwed'
  BY <1>a DEF Inv, DrainWithoutSlot, Draining, DrainOnly, ClearRetry, OutcomeOwed,
     StopsQueuedFirst, Manager, DeadIsEmpty, TypeOK, Frozen, Owned, ShuttingDown, Queued,
     Idle, Between, Serving
<1>3. StopsQueuedFirst'
  BY <1>a DEF Inv, DrainWithoutSlot, Draining, DrainOnly, ClearRetry, StopsQueuedFirst,
     OneEntry, Manager, LaunchAlone, TypeOK, Queued, Owned, ShuttingDown, Idle, Between,
     Serving, ToSet, InLaunch
<1>4. QueueOwed'
  BY <1>a, FreeSlot DEF Inv, QueueOwed, DrainWithoutSlot, Draining, DrainOnly,
     ShuttingDown, Launchable, Owned, HasSlot
<1>. QED  BY <1>0, <1>1, <1>2, <1>3, <1>4 DEF Inv

\* A failed read arms the retry.
LEMMA DrainFaultedInv == ASSUME Inv, DrainFaulted PROVE Inv'
<1> USE DEF rows, store, world, life, owners, retry, turn, Outcomes
<1>a. Inv /\ NoRun \notin Runs  BY NoRunIsNone
<1>0. TypeOK'  BY <1>a, BoundsNat, SlotsNat
   DEF Inv, TypeOK, DrainFaulted, Draining, DrainOnly
<1>1. (DeadIsEmpty /\ Unborn /\ OneEntry /\ OwnedApart /\ QueuedIsNew /\ Manager
    /\ LaunchAlone /\ StepTree /\ StepRow /\ RowTree /\ ClassTree /\ ReviewSide
    /\ WorkAfterReview /\ LiveOwned /\ LiveApart /\ Remembered)'
  BY <1>a, Frame DEF Inv, DrainFaulted, Draining, DrainOnly
<1>2. OutcomeOwed'
  BY <1>a DEF Inv, DrainFaulted, Draining, DrainOnly, OutcomeOwed, StopsQueuedFirst,
     Manager, DeadIsEmpty, TypeOK, Frozen, Owned, ShuttingDown, Queued, Idle, Between,
     Serving
<1>3. StopsQueuedFirst'
  BY <1>a DEF Inv, DrainFaulted, Draining, DrainOnly, StopsQueuedFirst, OneEntry, Manager,
     LaunchAlone, TypeOK, Queued, Owned, ShuttingDown, Idle
<1>4. QueueOwed'
  BY <1>a DEF Inv, DrainFaulted, Draining, DrainOnly, QueueOwed, DeadIsEmpty, TypeOK,
     Idle, Between, HasSlot, Serving
<1>. QED  BY <1>0, <1>1, <1>2, <1>3, <1>4 DEF Inv

\* A refused admission arms the retry, unless the budget is full.
LEMMA DrainRefusedInv == ASSUME Inv, DrainRefused PROVE Inv'
<1> USE DEF rows, store, world, life, owners, retry, turn, Outcomes
<1>a. Inv /\ NoRun \notin Runs  BY NoRunIsNone
<1>0. TypeOK'  BY <1>a, BoundsNat, SlotsNat
   DEF Inv, TypeOK, DrainRefused, Draining, DrainOnly, RetryDeferred
<1>1. (DeadIsEmpty /\ Unborn /\ OneEntry /\ OwnedApart /\ QueuedIsNew /\ Manager
    /\ LaunchAlone /\ StepTree /\ StepRow /\ RowTree /\ ClassTree /\ ReviewSide
    /\ WorkAfterReview /\ LiveOwned /\ LiveApart /\ Remembered)'
  BY <1>a, Frame DEF Inv, DrainRefused, Draining, DrainOnly, RetryDeferred
<1>2. OutcomeOwed'
  BY <1>a DEF Inv, DrainRefused, Draining, DrainOnly, RetryDeferred, OutcomeOwed,
     StopsQueuedFirst, Manager, DeadIsEmpty, TypeOK, Frozen, Owned, ShuttingDown, Queued,
     Idle, Between, Serving
<1>3. StopsQueuedFirst'
  BY <1>a DEF Inv, DrainRefused, Draining, DrainOnly, RetryDeferred, StopsQueuedFirst,
     OneEntry, Manager, LaunchAlone, TypeOK, Queued, Owned, ShuttingDown, Idle, Between,
     Serving, ToSet, InLaunch
<1>4. QueueOwed'
  BY <1>a DEF Inv, DrainRefused, Draining, DrainOnly, RetryDeferred, QueueOwed,
     DeadIsEmpty, TypeOK, Owned, Launchable, ShuttingDown, Idle, Between, HasSlot,
     Serving
<1>. QED  BY <1>0, <1>1, <1>2, <1>3, <1>4 DEF Inv

\* A drain that finds nothing launchable.
LEMMA NothingReadyInv == ASSUME Inv, NothingReady PROVE Inv'
<1> USE DEF rows, store, world, life, owners, retry, turn, Outcomes
<1>a. Inv /\ NoRun \notin Runs  BY NoRunIsNone
<1>0. TypeOK'  BY <1>a, BoundsNat, SlotsNat
   DEF Inv, TypeOK, NothingReady, DrainRest, ClearRetry
<1>1. (DeadIsEmpty /\ Unborn /\ OneEntry /\ OwnedApart /\ QueuedIsNew /\ Manager
    /\ LaunchAlone /\ StepTree /\ StepRow /\ RowTree /\ ClassTree /\ ReviewSide
    /\ WorkAfterReview /\ LiveOwned /\ LiveApart /\ Remembered)'
  BY <1>a, Frame DEF Inv, NothingReady, DrainRest, ClearRetry
<1>2. OutcomeOwed'
  BY <1>a DEF Inv, NothingReady, DrainRest, ClearRetry, OutcomeOwed, StopsQueuedFirst,
     Manager, DeadIsEmpty, TypeOK, Frozen, Owned, ShuttingDown, Queued, Idle, Between,
     Serving
<1>3. StopsQueuedFirst'
  BY <1>a DEF Inv, NothingReady, DrainRest, ClearRetry, StopsQueuedFirst, OneEntry,
     Manager, LaunchAlone, TypeOK, Queued, Owned, ShuttingDown, Idle, Between, Draining,
     Serving, ToSet, InLaunch
<1>4. QueueOwed'
  BY <1>a DEF Inv, NothingReady, DrainRest, ClearRetry, QueueOwed, DeadIsEmpty, TypeOK,
     Owned, Launchable, ShuttingDown, Idle, Between, HasSlot, Serving, Draining
<1>. QED  BY <1>0, <1>1, <1>2, <1>3, <1>4 DEF Inv

\* An admitted run leaves the queue for an owner, alone in its worktree.
LEMMA AdmittedInv == ASSUME Inv, NEW r \in Runs, Admitted(r) PROVE Inv'
<1> USE DEF rows, store, world, life, owners, retry, turn, Outcomes
<1>a. Inv /\ NoRun \notin Runs  BY NoRunIsNone
<1>b. /\ r \in Owned' /\ Owned' = Owned \cup {r} /\ r \notin Owned /\ Queued(r)
      /\ wt[r] \notin held /\ \A o \in Owned : wt[o] # wt[r]
      /\ step[r] = "none" /\ outcome[r] = "none" /\ status[r] = "queued"
      /\ tree[r] = "none" /\ side[r] = "none" /\ class[r] = "none"
      /\ recovered /\ finishing = NoRun
  <2>1. recovered
    BY <1>a DEF Inv, DeadIsEmpty, Admitted, Queued
  <2>. QED  BY <1>a, <2>1 DEF Inv, TypeOK, OneEntry, QueuedIsNew, Manager, ClassTree,
     Admitted, DrainRest, Launchable, Owned
<1>c. /\ active' = active \cup {r} /\ step' = [step EXCEPT ![r] = "preparing"]
      /\ \A i \in Runs : Queued(i)' <=> Queued(i) /\ i # r
      /\ \A j, k \in DOMAIN queue' : queue'[j] = queue'[k] => j = k
      /\ UNCHANGED <<rows, world, life, pending, closed, stopped, stopping, outcome,
                     journaled, refusedOnce, finishing, phase, due, timer, stops>>
  BY DEF Admitted, DrainRest
<1>0. TypeOK'
  <2>1. armed' \in BOOLEAN /\ queueRead' \in BOOLEAN /\ undrained' \in BOOLEAN
        /\ drain' \in {"no", "enter", "loop"} /\ queue' \in Seq(Runs)
    BY <1>a DEF Inv, TypeOK, Admitted, DrainRest, ClearRetry
  <2>2. admissionRetry' = admissionRetry
    BY DEF Admitted, DrainRest
  <2>. QED  BY <1>a, <1>c, <2>1, <2>2, BoundsNat DEF Inv, TypeOK
<1>1. (RowTree /\ ReviewSide /\ LiveApart)'
  BY <1>a, Frame DEF Inv, Admitted, DrainRest, ClearRetry
<1>2. DeadIsEmpty'
  BY <1>a, <1>b, <1>c DEF Inv, DeadIsEmpty
<1>3. Unborn'
  BY <1>a, <1>b, <1>c DEF Inv, TypeOK, Unborn
<1>4. OneEntry'
  <2>1. \A o \in Owned' : o \in Runs /\ ~Queued(o)'
    BY <1>a, <1>b, <1>c DEF Inv, TypeOK, OneEntry, Owned
  <2>. QED  BY <1>c, <2>1 DEF OneEntry
<1>5. OwnedApart'
  BY <1>a, <1>b, <1>c DEF Inv, TypeOK, OwnedApart
<1>6. QueuedIsNew'
  BY <1>a, <1>b, <1>c DEF Inv, TypeOK, QueuedIsNew
<1>7. Manager'
  BY <1>a, <1>b, <1>c DEF Inv, TypeOK, Manager
<1>8. LaunchAlone'
  BY <1>a DEF Inv, Admitted, DrainRest, ClearRetry, LaunchAlone, Manager, TypeOK,
     SpawnFailed, InLaunch, Owned, Idle, Between, Launching, Draining
<1>9. StepTree'
  BY <1>a, <1>b, <1>c DEF Inv, TypeOK, StepTree
<1>10. StepRow'
  BY <1>a, <1>b, <1>c DEF Inv, TypeOK, StepRow, Unsettled
<1>11. ClassTree'
  BY <1>a, <1>b, <1>c DEF Inv, TypeOK, ClassTree
<1>12. WorkAfterReview'
  <2>1. \A i \in Runs : Unresolved(i)' <=> Unresolved(i)
    BY <1>c DEF Unresolved
  <2>2. \A i \in Runs : Queued(i)' \/ i \in Owned' => Queued(i) \/ i \in Owned
    BY <1>b, <1>c
  <2>. QED  BY <1>a, <1>c, <2>1, <2>2 DEF Inv, WorkAfterReview
<1>13. LiveOwned'
  BY <1>a, <1>b, <1>c DEF Inv, TypeOK, LiveOwned, Unresolved
<1>14. Remembered'
  BY <1>a, <1>b, <1>c DEF Inv, TypeOK, Remembered
<1>15. OutcomeOwed'
  BY <1>a DEF Inv, Admitted, DrainRest, ClearRetry, OutcomeOwed, StopsQueuedFirst,
     Manager, DeadIsEmpty, TypeOK, Frozen, Owned, ShuttingDown, Queued, Idle, Between,
     Serving
<1>16. StopsQueuedFirst'
  BY <1>a DEF Inv, Admitted, DrainRest, ClearRetry, StopsQueuedFirst, OneEntry, Manager,
     LaunchAlone, TypeOK, Queued, Owned, ShuttingDown, Idle, Between, Draining, Serving,
     ToSet, InLaunch
<1>17. QueueOwed'
  BY <1>a DEF Inv, Admitted, DrainRest, ClearRetry, QueueOwed, DeadIsEmpty, TypeOK
<1>. QED  BY <1>0, <1>1, <1>2, <1>3, <1>4, <1>5, <1>6, <1>7, <1>8, <1>9, <1>10, <1>11,
   <1>12, <1>13, <1>14, <1>15, <1>16, <1>17 DEF Inv

\* A submitted run is new, and enters a worktree without reviews.
LEMMA SubmitInv == ASSUME Inv, NEW w \in Worktrees, Submit(w) PROVE Inv'
<1> USE DEF rows, store, world, life, owners, retry, turn, Outcomes
<1>a. Inv /\ NoRun \notin Runs  BY NoRunIsNone
<1>b. /\ created \in Nat /\ created + 1 \in Runs /\ \A r \in Runs : r \in Nat
      /\ ~Queued(created + 1) /\ created + 1 \notin Owned /\ created + 1 \notin resolved
      /\ status[created + 1] = "absent" /\ class[created + 1] = "none"
      /\ side[created + 1] = "none" /\ tree[created + 1] = "none"
  BY <1>a, Born DEF Inv, Unborn, Submit, MayCreate
<1>c. /\ queue' \in Seq(Runs)
      /\ \A i, j \in DOMAIN queue' : queue'[i] = queue'[j] => i = j
      /\ \A r \in Runs : Queued(r)' <=> r = created + 1 \/ Queued(r)
  BY <1>a, <1>b, Enqueued DEF Submit, Enqueue
<1>d. /\ created' = created + 1 /\ wt' = [wt EXCEPT ![created + 1] = w]
      /\ status' = [status EXCEPT ![created + 1] = "queued"] /\ Owned' = Owned
      /\ UNCHANGED <<class, resolved, pids, side, world, life, owners>>
  BY DEF Submit, Enqueue, Owned
<1>0. TypeOK'
  <2>1. created' \in 0..MaxRuns
    BY <1>b, <1>d, MaxRunsNat DEF Runs
  <2>2. undrained' \in BOOLEAN /\ drain' \in {"no", "enter", "loop"}
    BY <1>a DEF Inv, TypeOK, Submit, Enqueue
  <2>. QED  BY <1>a, <1>b, <1>c, <1>d, <2>1, <2>2 DEF Inv, TypeOK, Submit, Unsettled
<1>1. (Manager /\ LaunchAlone /\ StepTree /\ OutcomeOwed)'
  BY <1>a, Frame DEF Inv, Submit, Serving, MayCreate, Enqueue
<1>2. DeadIsEmpty'
  BY <1>a DEF Inv, Submit, Serving, MayCreate, Enqueue, DeadIsEmpty, Manager, TypeOK
<1>3. Unborn'
  BY <1>a, <1>b, <1>c, <1>d DEF Inv, TypeOK, Unborn
<1>4. OneEntry'
  BY <1>a, <1>b, <1>c, <1>d DEF Inv, TypeOK, OneEntry, Owned
<1>5. OwnedApart'
  BY <1>a DEF Inv, Submit, Serving, MayCreate, Enqueue, OwnedApart, OneEntry, Unborn,
     TypeOK, Owned, Launchable, HasWork, ToSet
<1>6. QueuedIsNew'
  BY <1>a, <1>b, <1>c, <1>d DEF Inv, TypeOK, QueuedIsNew
<1>7. StepRow'
  BY <1>a DEF Inv, Submit, Serving, MayCreate, Enqueue, StepRow, QueuedIsNew, Manager,
     LaunchAlone, DeadIsEmpty, Unborn, OneEntry, TypeOK, Owned, Queued, SpawnFailed,
     InLaunch, Idle, Between, Launching, Frozen, Unresolved, Unsettled
<1>8. RowTree'
  BY <1>a DEF Inv, Submit, Serving, MayCreate, Enqueue, RowTree, Unborn, Manager,
     LaunchAlone, TypeOK, Owned, Queued, Unresolved, InLaunch, Unsettled
<1>9. ClassTree'
  BY <1>a DEF Inv, Submit, Serving, MayCreate, Enqueue, ClassTree, Unborn, RowTree,
     DeadIsEmpty, OneEntry, Manager, LaunchAlone, StepTree, TypeOK, Owned, Queued,
     Unresolved, InLaunch
<1>10. ReviewSide'
  BY <1>a DEF Inv, Submit, Serving, MayCreate, Enqueue, ReviewSide, StepRow, Manager,
     TypeOK, Unresolved, Owned
<1>11. WorkAfterReview'
  <2>1. \A i \in Runs : Unresolved(i) => wt[i] # w
    BY <1>a, Born DEF Inv, Unborn, Submit, UnresolvedIn, Unresolved
  <2>2. \A i \in Runs : Unresolved(i)' => i # created + 1 /\ Unresolved(i)
    BY <1>a, <1>b, <1>d DEF Inv, TypeOK, Unresolved
  <2>3. \A i \in Runs : i # created + 1 => wt'[i] = wt[i]
    BY <1>a, <1>d DEF Inv, TypeOK
  <2>4. wt'[created + 1] = w
    BY <1>a, <1>b, <1>d DEF Inv, TypeOK
  <2>. QED  BY <1>a, <1>b, <1>c, <1>d, <2>1, <2>2, <2>3, <2>4 DEF Inv, WorkAfterReview
<1>12. LiveOwned'
  BY <1>a DEF Inv, Submit, Serving, MayCreate, Enqueue, LiveOwned, DeadIsEmpty, StepRow,
     StepTree, Manager, LaunchAlone, ClassTree, RowTree, Unborn, TypeOK, Owned,
     Unresolved, InLaunch, UnresolvedIn, Queued
<1>13. LiveApart'
  BY <1>a DEF Inv, Submit, Serving, MayCreate, Enqueue, LiveApart, LiveOwned, OwnedApart,
     WorkAfterReview, DeadIsEmpty, Unborn, LaunchAlone, Manager, TypeOK, Owned,
     Unresolved
<1>14. Remembered'
  BY <1>a, <1>b, <1>c, <1>d DEF Inv, TypeOK, Remembered
<1>15. StopsQueuedFirst'
  BY <1>a DEF Inv, Submit, Serving, MayCreate, Enqueue, StopsQueuedFirst, OneEntry,
     Manager, LaunchAlone, TypeOK, Queued, Owned, ShuttingDown, Idle, Between, Draining,
     ToSet, InLaunch
<1>16. QueueOwed'
  BY <1>a DEF Inv, Submit, Serving, MayCreate, Enqueue, QueueOwed, DeadIsEmpty, TypeOK,
     Owned, Launchable, HasSlot, Draining
<1>. QED  BY <1>0, <1>1, <1>2, <1>3, <1>4, <1>5, <1>6, <1>7, <1>8, <1>9, <1>10, <1>11,
   <1>12, <1>13, <1>14, <1>15, <1>16 DEF Inv

\* A launch that fails before its marker finishes as failed.
LEMMA PrepareFailsInv == ASSUME Inv, NEW r \in Runs, PrepareFails(r) PROVE Inv'
<1> USE DEF rows, store, world, life, owners, retry, turn, Outcomes
<1>a. Inv /\ NoRun \notin Runs  BY NoRunIsNone
<1>0. TypeOK'  BY <1>a, BoundsNat, SlotsNat
   DEF Inv, TypeOK, PrepareFails, Prepared, Finish, LaunchOnly
<1>1. (DeadIsEmpty /\ Unborn /\ OneEntry /\ OwnedApart /\ QueuedIsNew /\ RowTree
    /\ ClassTree /\ ReviewSide /\ WorkAfterReview /\ LiveOwned /\ LiveApart
    /\ Remembered /\ QueueOwed)'
  BY <1>a, Frame DEF Inv, PrepareFails, Prepared, Finish, LaunchOnly
<1>2. Manager'
  BY <1>a DEF Inv, PrepareFails, Prepared, Finish, LaunchOnly, Manager, OneEntry,
     DeadIsEmpty, TypeOK, Owned, Launchable, Frozen, Queued
<1>3. LaunchAlone'
  BY <1>a DEF Inv, PrepareFails, Prepared, Finish, LaunchOnly, LaunchAlone, Manager,
     TypeOK, SpawnFailed, InLaunch, Owned, Idle, Between, Launching, Draining
<1>4. StepTree'
  BY <1>a DEF Inv, PrepareFails, Prepared, Finish, LaunchOnly, StepTree, QueuedIsNew,
     Manager, LaunchAlone, TypeOK, Owned, Queued, SpawnFailed, InLaunch, Childless, Gone,
     Idle, Between, Launching, Serving, Frozen
<1>5. StepRow'
  BY <1>a DEF Inv, PrepareFails, Prepared, Finish, LaunchOnly, StepRow, OneEntry, TypeOK,
     Owned, Queued, SpawnFailed, InLaunch, Idle, Between, Launching, Serving, Frozen,
     Unresolved, Unsettled
<1>6. OutcomeOwed'
  BY <1>a DEF Inv, PrepareFails, Prepared, Finish, LaunchOnly, OutcomeOwed,
     StopsQueuedFirst, Manager, DeadIsEmpty, TypeOK, Frozen, Owned, ShuttingDown, Queued,
     Idle, Between, Serving
<1>7. StopsQueuedFirst'
  BY <1>a DEF Inv, PrepareFails, Prepared, Finish, LaunchOnly, StopsQueuedFirst, OneEntry,
     Manager, LaunchAlone, TypeOK, Queued, Owned, ShuttingDown, Idle, Between, Draining,
     Serving, ToSet, InLaunch
<1>. QED  BY <1>0, <1>1, <1>2, <1>3, <1>4, <1>5, <1>6, <1>7 DEF Inv

\* A deferred launch is a new run at the head of the queue again.
LEMMA DeferInv == ASSUME Inv, NEW r \in Runs, Defer(r) PROVE Inv'
<1> USE DEF rows, store, world, life, owners, retry, turn, Outcomes
<1>a. Inv /\ NoRun \notin Runs  BY NoRunIsNone
<1>b. /\ r \in active /\ r \in Owned /\ step[r] = "preparing" /\ outcome[r] = "none" /\ r \notin pending
      /\ active' = active \ {r} /\ step' = [step EXCEPT ![r] = "none"] /\ Owned' = Owned \ {r}
      /\ UNCHANGED <<rows, world, life, pending, closed, stopped, stopping, outcome,
                     journaled, refusedOnce, turn>>
  BY <1>a DEF Inv, Manager, Defer, Prepared, LaunchOnly, NoFinish, Owned
<1>c. /\ queue' \in Seq(Runs)
      /\ \A i, j \in DOMAIN queue' : queue'[i] = queue'[j] => i = j
      /\ \A i \in Runs : Queued(i)' <=> i = r \/ Queued(i)
  BY <1>a, <1>b, Enqueued DEF Inv, OneEntry, Defer
<1>0. TypeOK'
  <2>1. armed' \in BOOLEAN /\ admissionRetry' \subseteq Runs /\ queueRead' = queueRead
        /\ undrained' = undrained
    BY <1>a DEF Inv, TypeOK, Defer, RetryDeferred, LaunchOnly
  <2>. QED  BY <1>a, <1>b, <1>c, <2>1, BoundsNat DEF Inv, TypeOK
<1>1. (RowTree /\ ReviewSide /\ LiveApart)'
  BY <1>a, Frame DEF Inv, Defer, Prepared, NoFinish, LaunchOnly, RetryDeferred
<1>2. DeadIsEmpty'
  BY <1>a DEF Inv, Defer, Prepared, NoFinish, LaunchOnly, RetryDeferred, DeadIsEmpty
<1>3. Unborn'
  BY <1>a, <1>b, <1>c DEF Inv, TypeOK, Unborn
<1>4. OneEntry'
  BY <1>a, <1>b, <1>c DEF Inv, TypeOK, OneEntry, Owned
<1>5. OwnedApart'
  BY <1>a DEF Inv, Defer, Prepared, NoFinish, LaunchOnly, RetryDeferred, OwnedApart,
     OneEntry, Unborn, TypeOK, Owned, Launchable, HasWork, ToSet, Serving
<1>6. QueuedIsNew'
  BY <1>a, <1>b, <1>c DEF Inv, TypeOK, QueuedIsNew, StepTree, StepRow, Owned
<1>7. Manager'
  BY <1>a DEF Inv, Defer, Prepared, NoFinish, LaunchOnly, RetryDeferred, Manager,
     OneEntry, DeadIsEmpty, TypeOK, Owned, Launchable, Frozen
<1>8. LaunchAlone'
  BY <1>a DEF Inv, Defer, Prepared, NoFinish, LaunchOnly, RetryDeferred, LaunchAlone,
     Manager, TypeOK, SpawnFailed, InLaunch, Owned, Idle, Between, Launching, Draining
<1>9. StepTree'
  BY <1>a DEF Inv, Defer, Prepared, NoFinish, LaunchOnly, RetryDeferred, StepTree,
     QueuedIsNew, Manager, LaunchAlone, TypeOK, Owned, Queued, SpawnFailed, InLaunch,
     Childless, Gone, Idle, Between, Launching, Serving, Frozen
<1>10. StepRow'
  BY <1>a DEF Inv, Defer, Prepared, NoFinish, LaunchOnly, RetryDeferred, StepRow,
     QueuedIsNew, Manager, LaunchAlone, DeadIsEmpty, Unborn, OneEntry, TypeOK, Owned,
     Queued, SpawnFailed, InLaunch, Idle
<1>11. ClassTree'
  BY <1>a, <1>b, <1>c DEF Inv, TypeOK, ClassTree, Owned
<1>12. WorkAfterReview'
  <2>1. r \in Owned /\ \A i \in Runs : Unresolved(i)' <=> Unresolved(i)
    BY <1>b DEF Unresolved, Owned
  <2>. QED  BY <1>a, <1>b, <1>c, <2>1 DEF Inv, WorkAfterReview
<1>13. LiveOwned'
  BY <1>a DEF Inv, Defer, Prepared, NoFinish, LaunchOnly, RetryDeferred, LiveOwned,
     DeadIsEmpty, StepRow, StepTree, Manager, LaunchAlone, ClassTree, RowTree, Unborn,
     TypeOK, Owned, Unresolved, InLaunch, UnresolvedIn, Queued
<1>14. Remembered'
  BY <1>a, <1>b, <1>c DEF Inv, TypeOK, Remembered, Owned
<1>15. OutcomeOwed'
  BY <1>a DEF Inv, Defer, Prepared, NoFinish, LaunchOnly, RetryDeferred, OutcomeOwed,
     StopsQueuedFirst, Manager, DeadIsEmpty, TypeOK, Frozen, Owned, ShuttingDown, Queued,
     Idle, Between, Serving
<1>16. StopsQueuedFirst'
  BY <1>a DEF Inv, Defer, Prepared, NoFinish, LaunchOnly, RetryDeferred, StopsQueuedFirst,
     OneEntry, Manager, LaunchAlone, TypeOK, Queued, Owned, ShuttingDown, Idle, Between,
     Draining, Serving, ToSet
<1>17. QueueOwed'
  BY <1>a DEF Inv, Defer, Prepared, NoFinish, LaunchOnly, RetryDeferred, QueueOwed,
     DeadIsEmpty, TypeOK, Owned, Launchable, ShuttingDown, Idle, Between, HasSlot,
     Serving, Draining
<1>. QED  BY <1>0, <1>1, <1>2, <1>3, <1>4, <1>5, <1>6, <1>7, <1>8, <1>9, <1>10, <1>11,
   <1>12, <1>13, <1>14, <1>15, <1>16, <1>17 DEF Inv

\* The launching marker starts the synchronous part of a launch.
LEMMA MarkInv == ASSUME Inv, NEW r \in Runs, Mark(r) PROVE Inv'
<1> USE DEF rows, store, world, life, owners, retry, turn, Outcomes
<1>a. Inv /\ NoRun \notin Runs  BY NoRunIsNone
<1>0. TypeOK'
  <2>1. CASE NoFinish
    BY <1>a, <2>1, BoundsNat
       DEF Inv, TypeOK, Mark, Prepared, Finish, NoFinish, LaunchOnly, ClearRetry,
          Unsettled
  <2>2. CASE Finish(r, "failed") /\ UNCHANGED <<status, step>>
    BY <1>a, <2>2, BoundsNat
       DEF Inv, TypeOK, Mark, Prepared, Finish, NoFinish, LaunchOnly, ClearRetry,
          Unsettled
  <2>. QED  BY <1>a, <2>1, <2>2
     DEF Mark, Prepared, Finish, NoFinish, LaunchOnly, ClearRetry, Unsettled
<1>1. (DeadIsEmpty /\ OneEntry /\ OwnedApart /\ ClassTree /\ LiveApart)'
  BY <1>a, Frame DEF Inv, Mark, LaunchOnly, ClearRetry
<1>2. Unborn'
  BY <1>a DEF Inv, Mark, Prepared, Finish, NoFinish, LaunchOnly, ClearRetry, Unborn,
     Manager, DeadIsEmpty, TypeOK, Queued, Owned
<1>3. QueuedIsNew'
  BY <1>a DEF Inv, Mark, Prepared, Finish, NoFinish, LaunchOnly, ClearRetry, QueuedIsNew,
     Unborn, OneEntry, StepTree, StepRow, ClassTree, Manager, DeadIsEmpty, TypeOK, Queued,
     Owned, Unresolved
<1>4. Manager'
  BY <1>a DEF Inv, Mark, Prepared, Finish, NoFinish, LaunchOnly, ClearRetry, Manager,
     OneEntry, DeadIsEmpty, TypeOK, Owned, Launchable, Frozen, Queued
<1>5. LaunchAlone'
  BY <1>a DEF Inv, Mark, Prepared, Finish, NoFinish, LaunchOnly, ClearRetry, LaunchAlone,
     Manager, TypeOK, SpawnFailed, InLaunch, Owned, Idle, Between, Launching, Draining
<1>6. StepTree'
  BY <1>a DEF Inv, Mark, Prepared, Finish, NoFinish, LaunchOnly, ClearRetry, StepTree,
     QueuedIsNew, Manager, LaunchAlone, TypeOK, Owned, Queued, SpawnFailed, InLaunch,
     Childless, Gone, Idle, Between, Launching, Serving, Frozen
<1>7. StepRow'
  BY <1>a DEF Inv, Mark, Prepared, Finish, NoFinish, LaunchOnly, ClearRetry, StepRow,
     QueuedIsNew, Manager, LaunchAlone, DeadIsEmpty, Unborn, OneEntry, TypeOK, Owned,
     Queued, SpawnFailed, InLaunch, Idle, Between, Launching, Serving, Frozen, Unresolved,
     Unsettled
<1>8. RowTree'
  BY <1>a DEF Inv, Mark, Prepared, Finish, NoFinish, LaunchOnly, ClearRetry, RowTree,
     Unborn, Manager, LaunchAlone, StepTree, StepRow, QueuedIsNew, OneEntry, TypeOK
<1>9. ReviewSide'
  BY <1>a DEF Inv, Mark, Prepared, Finish, NoFinish, LaunchOnly, ClearRetry, ReviewSide,
     StepRow, Manager, TypeOK, Unresolved, Owned, Unsettled
<1>10. WorkAfterReview'
  BY <1>a DEF Inv, Mark, Prepared, Finish, NoFinish, LaunchOnly, ClearRetry,
     WorkAfterReview, DeadIsEmpty, Unborn, StepRow, QueuedIsNew, OneEntry, TypeOK, Queued,
     Owned, Unresolved, UnresolvedIn, Unsettled, InLaunch
<1>11. LiveOwned'
  BY <1>a DEF Inv, Mark, Prepared, Finish, NoFinish, LaunchOnly, ClearRetry, LiveOwned,
     DeadIsEmpty, StepRow, StepTree, TypeOK, Owned, Unresolved, InLaunch, UnresolvedIn
<1>12. Remembered'
  BY <1>a DEF Inv, Mark, Prepared, Finish, NoFinish, LaunchOnly, ClearRetry, Remembered,
     StepRow, Manager, QueuedIsNew, DeadIsEmpty, OneEntry, LaunchAlone, RowTree, TypeOK,
     Queued, Owned, InLaunch, Unresolved, Unsettled
<1>13. OutcomeOwed'
  BY <1>a DEF Inv, Mark, Prepared, Finish, NoFinish, LaunchOnly, ClearRetry, OutcomeOwed,
     StopsQueuedFirst, Manager, DeadIsEmpty, TypeOK, Frozen, Owned, ShuttingDown, Queued,
     Idle, Between, Serving
<1>14. StopsQueuedFirst'
  BY <1>a DEF Inv, Mark, Prepared, Finish, NoFinish, LaunchOnly, ClearRetry,
     StopsQueuedFirst, OneEntry, Manager, LaunchAlone, TypeOK, Queued, Owned,
     ShuttingDown, Idle, Between, Draining, Serving, ToSet, InLaunch
<1>15. QueueOwed'
  BY <1>a DEF Inv, Mark, Prepared, Finish, NoFinish, LaunchOnly, ClearRetry, QueueOwed,
     DeadIsEmpty, TypeOK, Owned, Launchable, ShuttingDown, Idle, Between, HasSlot,
     Serving, Draining
<1>. QED  BY <1>0, <1>1, <1>2, <1>3, <1>4, <1>5, <1>6, <1>7, <1>8, <1>9, <1>10, <1>11,
   <1>12, <1>13, <1>14, <1>15 DEF Inv

\* The wrapper waits for its authorization.
LEMMA SpawnInv == ASSUME Inv, NEW r \in Runs, Spawn(r) PROVE Inv'
<1> USE DEF rows, store, world, life, owners, retry, turn, Outcomes
<1>a. Inv /\ NoRun \notin Runs  BY NoRunIsNone
<1>0. TypeOK'
  <2>1. CASE NoFinish
    BY <1>a, <2>1, BoundsNat DEF Inv, TypeOK, Spawn, Finish, NoFinish, LaunchOnly
  <2>2. CASE Finish(r, "failed")
    BY <1>a, <2>2, BoundsNat DEF Inv, TypeOK, Spawn, Finish, NoFinish, LaunchOnly
  <2>. QED  BY <1>a, <2>1, <2>2 DEF Spawn, Finish, NoFinish, LaunchOnly
<1>1. (DeadIsEmpty /\ OneEntry /\ OwnedApart /\ ReviewSide /\ WorkAfterReview
    /\ Remembered /\ QueueOwed)'
  BY <1>a, Frame DEF Inv, Spawn, Finish, NoFinish, LaunchOnly
<1>2. Unborn'
  BY <1>a DEF Inv, Spawn, Finish, NoFinish, LaunchOnly, Unborn, Manager, DeadIsEmpty,
     TypeOK, Queued, Owned
<1>3. QueuedIsNew'
  BY <1>a DEF Inv, Spawn, Finish, NoFinish, LaunchOnly, QueuedIsNew, Unborn, OneEntry,
     StepTree, StepRow, ClassTree, Manager, DeadIsEmpty, TypeOK, Queued, Owned,
     Unresolved
<1>4. Manager'
  BY <1>a DEF Inv, Spawn, Finish, NoFinish, LaunchOnly, Manager, OneEntry, DeadIsEmpty,
     TypeOK, Owned, Launchable, Frozen, Queued
<1>5. LaunchAlone'
  BY <1>a DEF Inv, Spawn, Finish, NoFinish, LaunchOnly, LaunchAlone, Manager, TypeOK,
     SpawnFailed, InLaunch, Launching, Draining
<1>6. StepTree'
  BY <1>a DEF Inv, Spawn, Finish, NoFinish, LaunchOnly, StepTree, QueuedIsNew, Manager,
     LaunchAlone, TypeOK, Owned, Queued, SpawnFailed, InLaunch, Childless, Gone, Idle,
     Between, Launching, Serving, Frozen
<1>7. StepRow'
  BY <1>a DEF Inv, Spawn, Finish, NoFinish, LaunchOnly, StepRow, OneEntry, TypeOK, Owned,
     Queued, SpawnFailed, InLaunch, Idle, Between, Launching, Serving, Frozen, Unresolved,
     Unsettled
<1>8. RowTree'
  BY <1>a DEF Inv, Spawn, Finish, NoFinish, LaunchOnly, RowTree, Unborn, Manager,
     LaunchAlone, TypeOK, Owned, Queued, Unresolved, InLaunch, Unsettled
<1>9. ClassTree'
  BY <1>a DEF Inv, Spawn, Finish, NoFinish, LaunchOnly, ClassTree, Unborn, RowTree,
     DeadIsEmpty, OneEntry, Manager, LaunchAlone, StepTree, TypeOK, Owned, Queued,
     Unresolved, InLaunch
<1>10. LiveOwned'
  BY <1>a DEF Inv, Spawn, Finish, NoFinish, LaunchOnly, LiveOwned, DeadIsEmpty, StepRow,
     StepTree, Manager, LaunchAlone, ClassTree, RowTree, Unborn, TypeOK, Owned,
     Unresolved, InLaunch, UnresolvedIn
<1>11. LiveApart'
  BY <1>a DEF Inv, Spawn, Finish, NoFinish, LaunchOnly, LiveApart, LiveOwned, OwnedApart,
     WorkAfterReview, DeadIsEmpty, Unborn, LaunchAlone, Manager, TypeOK, Owned,
     Unresolved, UnresolvedIn, Queued, HasWork, InLaunch, Serving, ToSet
<1>12. OutcomeOwed'
  BY <1>a DEF Inv, Spawn, Finish, NoFinish, LaunchOnly, OutcomeOwed, StopsQueuedFirst,
     Manager, DeadIsEmpty, TypeOK, Frozen, Owned, ShuttingDown
<1>13. StopsQueuedFirst'
  BY <1>a DEF Inv, Spawn, Finish, NoFinish, LaunchOnly, StopsQueuedFirst, OneEntry,
     Manager, LaunchAlone, TypeOK, Queued, Owned, ShuttingDown, Idle, Between, Draining,
     Serving, ToSet, InLaunch
<1>. QED  BY <1>0, <1>1, <1>2, <1>3, <1>4, <1>5, <1>6, <1>7, <1>8, <1>9, <1>10, <1>11,
   <1>12, <1>13 DEF Inv

\* Ownership is durable before the provider is authorized.
LEMMA OwnInv == ASSUME Inv, NEW r \in Runs, Own(r) PROVE Inv'
<1> USE DEF rows, store, world, life, owners, retry, turn, Outcomes
<1>a. Inv /\ NoRun \notin Runs  BY NoRunIsNone
<1>0. TypeOK'
  <2>1. CASE UNCHANGED <<status, pids>>
    BY <1>a, <2>1, BoundsNat DEF Inv, TypeOK, Own, NoFinish, LaunchOnly, Unsettled
  <2>2. CASE status' = [status EXCEPT ![r] = "running"]
    BY <1>a, <2>2, BoundsNat DEF Inv, TypeOK, Own, NoFinish, LaunchOnly, Unsettled
  <2>. QED  BY <1>a, <2>1, <2>2 DEF Own, NoFinish, LaunchOnly, Unsettled
<1>1. (DeadIsEmpty /\ OneEntry /\ OwnedApart /\ ClassTree /\ LiveApart
    /\ OutcomeOwed /\ StopsQueuedFirst /\ QueueOwed)'
  BY <1>a, Frame DEF Inv, Own, NoFinish, LaunchOnly
<1>2. Unborn'
  BY <1>a DEF Inv, Own, NoFinish, LaunchOnly, Unborn, Manager, DeadIsEmpty, TypeOK,
     Queued, Owned
<1>3. QueuedIsNew'
  BY <1>a DEF Inv, Own, NoFinish, LaunchOnly, QueuedIsNew, Unborn, OneEntry, StepTree,
     StepRow, ClassTree, Manager, DeadIsEmpty, TypeOK, Queued, Owned, Unresolved
<1>4. Manager'
  BY <1>a DEF Inv, Own, NoFinish, LaunchOnly, Manager, TypeOK, Owned, Launchable, Frozen,
     Queued
<1>5. LaunchAlone'
  BY <1>a DEF Inv, Own, NoFinish, LaunchOnly, LaunchAlone, Manager, TypeOK, SpawnFailed,
     InLaunch, Owned, Idle, Between, Launching, Draining
<1>6. StepTree'
  BY <1>a DEF Inv, Own, NoFinish, LaunchOnly, StepTree, QueuedIsNew, Manager, LaunchAlone,
     TypeOK, Owned, Queued, SpawnFailed, InLaunch, Childless, Gone, Idle, Between,
     Launching, Serving, Frozen
<1>7. StepRow'
  BY <1>a DEF Inv, Own, NoFinish, LaunchOnly, StepRow, QueuedIsNew, Manager, LaunchAlone,
     DeadIsEmpty, Unborn, OneEntry, TypeOK, Owned, Queued, SpawnFailed, InLaunch, Idle,
     Between, Launching, Serving, Frozen, Unresolved, Unsettled
<1>8. RowTree'
  BY <1>a DEF Inv, Own, NoFinish, LaunchOnly, RowTree, Unborn, Manager, LaunchAlone,
     StepTree, StepRow, QueuedIsNew, OneEntry, TypeOK, Owned, Queued, Unresolved,
     InLaunch, Unsettled
<1>9. ReviewSide'
  BY <1>a DEF Inv, Own, NoFinish, LaunchOnly, ReviewSide, StepRow, Manager, TypeOK,
     Unresolved, Owned, Unsettled
<1>10. WorkAfterReview'
  BY <1>a DEF Inv, Own, NoFinish, LaunchOnly, WorkAfterReview, DeadIsEmpty, Unborn,
     StepRow, QueuedIsNew, OneEntry, TypeOK, Queued, Owned, Unresolved, UnresolvedIn,
     Unsettled, InLaunch
<1>11. LiveOwned'
  BY <1>a DEF Inv, Own, NoFinish, LaunchOnly, LiveOwned, LaunchAlone, ClassTree, RowTree,
     Unborn, TypeOK, Owned, Unresolved, InLaunch, UnresolvedIn, Queued
<1>12. Remembered'
  BY <1>a DEF Inv, Own, NoFinish, LaunchOnly, Remembered, StepRow, Manager, QueuedIsNew,
     DeadIsEmpty, OneEntry, LaunchAlone, RowTree, TypeOK, Queued, Owned, InLaunch,
     Unresolved, Unsettled
<1>. QED  BY <1>0, <1>1, <1>2, <1>3, <1>4, <1>5, <1>6, <1>7, <1>8, <1>9, <1>10, <1>11,
   <1>12 DEF Inv

\* The provider comes to life, alone in its worktree.
LEMMA AuthorizeInv == ASSUME Inv, NEW r \in Runs, Authorize(r) PROVE Inv'
<1> USE DEF rows, store, world, life, owners, retry, turn, Outcomes
<1>a. Inv /\ NoRun \notin Runs  BY NoRunIsNone
<1>0. TypeOK'  BY <1>a, BoundsNat, SlotsNat DEF Inv, TypeOK, Authorize, NoFinish,
   LaunchOnly
<1>1. (DeadIsEmpty /\ OneEntry /\ OwnedApart /\ ReviewSide /\ WorkAfterReview
    /\ Remembered /\ OutcomeOwed /\ StopsQueuedFirst /\ QueueOwed)'
  BY <1>a, Frame DEF Inv, Authorize, NoFinish, LaunchOnly
<1>2. Unborn'
  BY <1>a DEF Inv, Authorize, NoFinish, LaunchOnly, Unborn, Manager, DeadIsEmpty, TypeOK,
     Queued, Owned
<1>3. QueuedIsNew'
  BY <1>a DEF Inv, Authorize, NoFinish, LaunchOnly, QueuedIsNew, Unborn, OneEntry,
     Manager, DeadIsEmpty, TypeOK, Queued, Owned, Unresolved
<1>4. Manager'
  BY <1>a DEF Inv, Authorize, NoFinish, LaunchOnly, Manager, TypeOK, Owned, Launchable,
     Frozen, Queued
<1>5. LaunchAlone'
  BY <1>a DEF Inv, Authorize, NoFinish, LaunchOnly, LaunchAlone, Manager, TypeOK,
     SpawnFailed, InLaunch, Owned, Idle, Between, Launching, Draining
<1>6. StepTree'
  BY <1>a DEF Inv, Authorize, NoFinish, LaunchOnly, StepTree, QueuedIsNew, Manager,
     LaunchAlone, TypeOK, Owned, Queued, SpawnFailed, InLaunch, Childless, Gone, Idle,
     Between, Launching, Serving, Frozen
<1>7. StepRow'
  BY <1>a DEF Inv, Authorize, NoFinish, LaunchOnly, StepRow, QueuedIsNew, Manager,
     LaunchAlone, DeadIsEmpty, Unborn, OneEntry, TypeOK, Owned, Queued, SpawnFailed,
     InLaunch, Idle, Between, Launching, Serving, Frozen, Unresolved, Unsettled
<1>8. RowTree'
  BY <1>a DEF Inv, Authorize, NoFinish, LaunchOnly, RowTree, Unborn, Manager, LaunchAlone,
     StepTree, StepRow, QueuedIsNew, OneEntry, TypeOK, Owned, Queued, Unresolved,
     InLaunch
<1>9. ClassTree'
  BY <1>a DEF Inv, Authorize, NoFinish, LaunchOnly, ClassTree, Unborn, RowTree,
     DeadIsEmpty, OneEntry, Manager, LaunchAlone, StepTree, TypeOK, Owned, Queued,
     Unresolved, InLaunch
<1>10. LiveOwned'
  BY <1>a DEF Inv, Authorize, NoFinish, LaunchOnly, LiveOwned, LaunchAlone, ClassTree,
     RowTree, Unborn, TypeOK, Owned, Unresolved, InLaunch, UnresolvedIn, Queued
<1>11. LiveApart'
  <2>1. r \in active /\ r \in Owned /\ recovered
    BY <1>a DEF Inv, DeadIsEmpty, LaunchAlone, InLaunch, Authorize, Owned
  <2>2. ASSUME NEW s \in Runs, tree[s] = "live", wt[s] = wt[r] PROVE s = r
    <3>1. ~(Unresolved(s) /\ class[s] \in {"alive", "unknown", "unreadable-running"})
      BY <1>a, <2>1, <2>2 DEF Inv, WorkAfterReview
    <3>. QED  BY <1>a, <2>1, <2>2, <3>1 DEF Inv, LiveOwned, OwnedApart, Owned
  <2>3. tree' \in {tree, [tree EXCEPT ![r] = "live"]} /\ UNCHANGED <<wt, held>>
    BY <1>a DEF Inv, TypeOK, Authorize, LaunchOnly
  <2>. QED  BY <1>a, <2>1, <2>2, <2>3 DEF Inv, TypeOK, LiveApart, OwnedApart
<1>. QED  BY <1>0, <1>1, <1>2, <1>3, <1>4, <1>5, <1>6, <1>7, <1>8, <1>9, <1>10, <1>11
   DEF Inv

\* A child without a process ends its launch.
LEMMA SpawnErrorInv == ASSUME Inv, NEW r \in Runs, SpawnError(r) PROVE Inv'
<1> USE DEF rows, store, world, life, owners, retry, turn, Outcomes
<1>a. Inv /\ NoRun \notin Runs  BY NoRunIsNone
<1>0. TypeOK'  BY <1>a, BoundsNat, SlotsNat
   DEF Inv, TypeOK, SpawnError, Finish, NoFinish, ChildOnly
<1>1. (DeadIsEmpty /\ Unborn /\ OneEntry /\ OwnedApart /\ QueuedIsNew /\ RowTree
    /\ ClassTree /\ ReviewSide /\ WorkAfterReview /\ LiveOwned /\ LiveApart
    /\ Remembered /\ QueueOwed)'
  BY <1>a, Frame DEF Inv, SpawnError, Finish, NoFinish, ChildOnly
<1>2. Manager'
  BY <1>a DEF Inv, SpawnError, Finish, NoFinish, ChildOnly, Manager, OneEntry,
     DeadIsEmpty, TypeOK, Owned, Launchable, Frozen, Queued
<1>3. LaunchAlone'
  BY <1>a DEF Inv, SpawnError, Finish, NoFinish, ChildOnly, LaunchAlone, Manager, TypeOK,
     SpawnFailed, InLaunch, Launching, Draining
<1>4. StepTree'
  BY <1>a DEF Inv, SpawnError, Finish, NoFinish, ChildOnly, StepTree, QueuedIsNew,
     Manager, LaunchAlone, TypeOK, Owned, Queued, SpawnFailed, InLaunch, Childless, Gone,
     Idle, Between, Launching, Serving, Frozen
<1>5. StepRow'
  BY <1>a DEF Inv, SpawnError, Finish, NoFinish, ChildOnly, StepRow, QueuedIsNew, Manager,
     LaunchAlone, DeadIsEmpty, Unborn, OneEntry, TypeOK, Owned, Queued, SpawnFailed,
     InLaunch, Idle, Between, Launching, Serving, Frozen, Unresolved, Unsettled
<1>6. OutcomeOwed'
  BY <1>a DEF Inv, SpawnError, Finish, NoFinish, ChildOnly, OutcomeOwed, StopsQueuedFirst,
     Manager, DeadIsEmpty, TypeOK, Frozen, Owned, ShuttingDown
<1>7. StopsQueuedFirst'
  BY <1>a DEF Inv, SpawnError, Finish, NoFinish, ChildOnly, StopsQueuedFirst, OneEntry,
     Manager, LaunchAlone, TypeOK, Queued, Owned, ShuttingDown, Idle, Between, Draining,
     Serving, ToSet, InLaunch
<1>. QED  BY <1>0, <1>1, <1>2, <1>3, <1>4, <1>5, <1>6, <1>7 DEF Inv

\* A closed child has no live tree.
LEMMA CloseInv == ASSUME Inv, NEW r \in Runs, Close(r) PROVE Inv'
<1> USE DEF rows, store, world, life, owners, retry, turn, Outcomes
<1>a. Inv /\ NoRun \notin Runs  BY NoRunIsNone
<1>0. TypeOK'
  <2>1. CASE NoFinish
    BY <1>a, <2>1, BoundsNat DEF Inv, TypeOK, Close, Finish, NoFinish, ChildOnly
  <2>2. CASE \E o \in {"completed", "failed"} : Finish(r, o)
    BY <1>a, <2>2, BoundsNat DEF Inv, TypeOK, Close, Finish, NoFinish, ChildOnly
  <2>. QED  BY <1>a, <2>1, <2>2 DEF Close, Finish, NoFinish, ChildOnly
<1>1. (DeadIsEmpty /\ Unborn /\ OneEntry /\ OwnedApart /\ QueuedIsNew /\ RowTree
    /\ ClassTree /\ ReviewSide /\ WorkAfterReview /\ LiveOwned /\ LiveApart
    /\ Remembered /\ QueueOwed)'
  BY <1>a, Frame DEF Inv, Close, Finish, NoFinish, ChildOnly
<1>2. Manager'
  BY <1>a DEF Inv, Close, Finish, NoFinish, ChildOnly, Manager, OneEntry, DeadIsEmpty,
     TypeOK, Owned, Launchable, Frozen, Queued
<1>3. LaunchAlone'
  BY <1>a DEF Inv, Close, Finish, NoFinish, ChildOnly, LaunchAlone, Manager, TypeOK,
     SpawnFailed, InLaunch, Owned, Idle, Between, Launching, Draining
<1>4. StepTree'
  BY <1>a DEF Inv, Close, Finish, NoFinish, ChildOnly, StepTree, QueuedIsNew, Manager,
     LaunchAlone, TypeOK, Owned, Queued, SpawnFailed, InLaunch, Childless, Gone, Idle,
     Between, Launching, Serving, Frozen
<1>5. StepRow'
  BY <1>a DEF Inv, Close, Finish, NoFinish, ChildOnly, StepRow, OneEntry, TypeOK, Owned,
     Queued, SpawnFailed, InLaunch, Idle, Between, Launching, Serving, Frozen, Unresolved,
     Unsettled
<1>6. OutcomeOwed'
  BY <1>a DEF Inv, Close, Finish, NoFinish, ChildOnly, OutcomeOwed, StopsQueuedFirst,
     Manager, DeadIsEmpty, TypeOK, Frozen, Owned, ShuttingDown, Queued, Idle, Between,
     Serving
<1>7. StopsQueuedFirst'
  BY <1>a DEF Inv, Close, Finish, NoFinish, ChildOnly, StopsQueuedFirst, OneEntry,
     Manager, LaunchAlone, TypeOK, Queued, Owned, ShuttingDown, Idle, Between, Draining,
     Serving, ToSet, InLaunch
<1>. QED  BY <1>0, <1>1, <1>2, <1>3, <1>4, <1>5, <1>6, <1>7 DEF Inv

\* A launch that was torn down.
LEMMA UnlaunchedInv == ASSUME Inv, NEW r \in Runs, Unlaunched(r) PROVE Inv'
<1> USE DEF rows, store, world, life, owners, retry, turn, Outcomes
<1>a. Inv /\ NoRun \notin Runs  BY NoRunIsNone
<1>0. TypeOK'  BY <1>a, BoundsNat, SlotsNat
   DEF Inv, TypeOK, Unlaunched, Finish, NoFinish, ChildOnly
<1>1. (DeadIsEmpty /\ Unborn /\ OneEntry /\ OwnedApart /\ QueuedIsNew /\ RowTree
    /\ ClassTree /\ ReviewSide /\ WorkAfterReview /\ LiveApart /\ Remembered
    /\ QueueOwed)'
  BY <1>a, Frame DEF Inv, Unlaunched, Finish, NoFinish, ChildOnly
<1>2. Manager'
  BY <1>a DEF Inv, Unlaunched, Finish, NoFinish, ChildOnly, Manager, OneEntry,
     DeadIsEmpty, TypeOK, Owned, Launchable, Frozen, Queued
<1>3. LaunchAlone'
  BY <1>a DEF Inv, Unlaunched, Finish, NoFinish, ChildOnly, LaunchAlone, Manager, TypeOK,
     SpawnFailed, InLaunch, Owned, Idle, Between, Launching, Draining
<1>4. StepTree'
  BY <1>a DEF Inv, Unlaunched, Finish, NoFinish, ChildOnly, StepTree, QueuedIsNew,
     Manager, LaunchAlone, TypeOK, Owned, Queued, SpawnFailed, InLaunch, Childless, Gone,
     Idle, Between, Launching, Serving, Frozen
<1>5. StepRow'
  BY <1>a DEF Inv, Unlaunched, Finish, NoFinish, ChildOnly, StepRow, OneEntry, TypeOK,
     Owned, Queued, SpawnFailed, InLaunch, Idle, Between, Launching, Serving, Frozen,
     Unresolved, Unsettled
<1>6. LiveOwned'
  BY <1>a DEF Inv, Unlaunched, Finish, NoFinish, ChildOnly, LiveOwned, DeadIsEmpty,
     StepRow, StepTree, Manager, LaunchAlone, ClassTree, RowTree, Unborn, TypeOK, Owned,
     Unresolved, InLaunch, UnresolvedIn
<1>7. OutcomeOwed'
  BY <1>a DEF Inv, Unlaunched, Finish, NoFinish, ChildOnly, OutcomeOwed, StopsQueuedFirst,
     Manager, DeadIsEmpty, TypeOK, Frozen, Owned, ShuttingDown, Queued, Idle, Between,
     Serving
<1>8. StopsQueuedFirst'
  BY <1>a DEF Inv, Unlaunched, Finish, NoFinish, ChildOnly, StopsQueuedFirst, OneEntry,
     Manager, LaunchAlone, TypeOK, Queued, Owned, ShuttingDown, Idle, Between, Draining,
     Serving, ToSet, InLaunch
<1>. QED  BY <1>0, <1>1, <1>2, <1>3, <1>4, <1>5, <1>6, <1>7, <1>8 DEF Inv

\* A queued run that is stopped leaves the queue and owes nothing.
LEMMA StopQueuedInv == ASSUME Inv, NEW r \in Runs, StopRest(r), StopQueued(r) PROVE Inv'
<1> USE DEF rows, store, world, life, owners, retry, turn, Outcomes
<1>a. Inv /\ NoRun \notin Runs  BY NoRunIsNone
<1>b. /\ queue' \in Seq(Runs)
      /\ \A j, k \in DOMAIN queue' : queue'[j] = queue'[k] => j = k
      /\ \A i \in Runs : Queued(i)' <=> Queued(i) /\ i # r
      /\ Queued(r)
  <2>1. PICK i \in DOMAIN queue : queue[i] = r /\ queue' = RemoveAt(queue, i)
    BY DEF StopQueued
  <2>. QED  BY <1>a, <2>1, Dequeued DEF Queued
<1>c. /\ r \notin Owned /\ status[r] = "queued" /\ tree[r] = "none" /\ side[r] = "none"
      /\ class[r] = "none" /\ recovered
  <2>1. recovered
    BY <1>a, <1>b DEF Inv, DeadIsEmpty, Queued
  <2>. QED  BY <1>a, <1>b, <2>1 DEF Inv, TypeOK, OneEntry, QueuedIsNew, ClassTree
<1>d. /\ status' = [status EXCEPT ![r] = "stopped"] /\ Owned' = Owned /\ stops' = stops \ {r}
      /\ UNCHANGED <<created, wt, class, resolved, side, world, life, owners, finishing,
                     phase, drain, due, timer>>
      /\ armed' \in {armed, FALSE} /\ (ShuttingDown => r \in stops)
      /\ Frozen' = Frozen /\ (armed' = FALSE => armed = FALSE \/ ShuttingDown \/ Frozen = {})
  BY <1>a DEF Inv, TypeOK, StopQueued, StopRest, NoFinish, ClearRetry, Owned, Frozen
<1>0. TypeOK'
  <2>1. armed' \in BOOLEAN /\ queueRead' \in BOOLEAN /\ undrained' \in BOOLEAN
    BY <1>a DEF Inv, TypeOK, StopQueued, StopRest, ClearRetry
  <2>2. admissionRetry' \subseteq Runs /\ pids' = pids /\ stops' \subseteq Runs
    BY <1>a DEF Inv, TypeOK, StopQueued, StopRest
  <2>. QED  BY <1>a, <1>b, <1>d, <2>1, <2>2, BoundsNat DEF Inv, TypeOK
<1>1. (OwnedApart /\ Manager /\ StepTree /\ LiveApart)'
  BY <1>a, Frame DEF Inv, StopQueued, StopRest, NoFinish, ClearRetry
<1>2. DeadIsEmpty'
  BY <1>a, <1>b, <1>c, <1>d DEF Inv, TypeOK, DeadIsEmpty
<1>3. Unborn'
  BY <1>a, <1>b, <1>c, <1>d DEF Inv, TypeOK, Unborn
<1>4. OneEntry'
  <2>1. \A o \in Owned' : o \in Runs /\ ~Queued(o)'
    BY <1>a, <1>b, <1>d DEF Inv, TypeOK, OneEntry, Owned
  <2>. QED  BY <1>b, <2>1 DEF OneEntry
<1>5. QueuedIsNew'
  BY <1>a, <1>b, <1>c, <1>d DEF Inv, TypeOK, QueuedIsNew
<1>6. LaunchAlone'
  BY <1>a DEF Inv, StopQueued, StopRest, NoFinish, ClearRetry, LaunchAlone, Manager,
     TypeOK, SpawnFailed, InLaunch, Owned, Idle, Between, Launching, Draining
<1>7. StepRow'
  BY <1>a, <1>c, <1>d DEF Inv, TypeOK, StepRow, Owned
<1>8. RowTree'
  BY <1>a, <1>b, <1>c, <1>d DEF Inv, TypeOK, RowTree
<1>9. ClassTree'
  BY <1>a, <1>b, <1>c, <1>d DEF Inv, TypeOK, ClassTree
<1>10. ReviewSide'
  BY <1>a, <1>b, <1>c, <1>d DEF Inv, TypeOK, ReviewSide
<1>11. WorkAfterReview'
  <2>1. \A i \in Runs : Unresolved(i)' => Unresolved(i)
    BY <1>a, <1>c, <1>d DEF Inv, TypeOK, Unresolved
  <2>. QED  BY <1>a, <1>b, <1>d, <2>1 DEF Inv, WorkAfterReview
<1>12. LiveOwned'
  BY <1>a, <1>c, <1>d DEF Inv, TypeOK, LiveOwned, Unresolved
<1>13. Remembered'
  BY <1>a, <1>b, <1>c, <1>d DEF Inv, TypeOK, Remembered, Unsettled
<1>14. OutcomeOwed'
  <2>1. ShuttingDown => ~armed
    BY <1>a, <1>b, <1>d DEF Inv, StopsQueuedFirst
  <2>2. r \notin Frozen
    BY <1>c DEF Frozen
  <2>. QED  BY <1>a, <1>d, <2>1, <2>2 DEF Inv, OutcomeOwed, ShuttingDown
<1>15. StopsQueuedFirst'
  <2>1. \A q \in stops' : q \in Runs /\ q \in stops
    BY <1>a, <1>d DEF Inv, TypeOK
  <2>. QED  BY <1>a, <1>b, <1>d, <2>1 DEF Inv, TypeOK, StopsQueuedFirst, ShuttingDown
<1>16. QueueOwed'
  <2>1. CASE queue' = <<>>
    BY <2>1 DEF QueueOwed
  <2>2. CASE queue' # <<>>
    <3>1. UNCHANGED <<armed, timer, drain, recovered, undrained, held, wt, full, shutdown>>
      BY <2>2 DEF StopQueued, StopRest
    <3>2. ASSUME NEW i \in DOMAIN queue' PROVE \E j \in DOMAIN queue : queue[j] = queue'[i]
      <4>1. PICK x \in Runs : x = queue'[i]
        BY <1>b
      <4>2. Queued(x)'
        BY <4>1 DEF Queued
      <4>3. Queued(x)
        BY <1>b, <4>2
      <4>. QED  BY <4>1, <4>3 DEF Queued
    <3>3. (\E i \in DOMAIN queue : Launchable(queue[i]))' => \E i \in DOMAIN queue : Launchable(queue[i])
      BY <1>d, <3>1, <3>2 DEF Launchable
    <3>. QED  BY <1>a, <1>d, <3>1, <3>3 DEF Inv, QueueOwed, ShuttingDown
  <2>. QED  BY <2>1, <2>2
<1>. QED  BY <1>0, <1>1, <1>2, <1>3, <1>4, <1>5, <1>6, <1>7, <1>8, <1>9, <1>10, <1>11,
   <1>12, <1>13, <1>14, <1>15, <1>16 DEF Inv

\* A queued run whose stop is refused stays queued.
LEMMA StopRefusedInv == ASSUME Inv, NEW r \in Runs, StopRest(r), StopRefused(r) PROVE Inv'
<1> USE DEF rows, store, world, life, owners, retry, turn, Outcomes
<1>a. Inv /\ NoRun \notin Runs  BY NoRunIsNone
<1>0. TypeOK'  BY <1>a, BoundsNat, SlotsNat DEF Inv, TypeOK, StopRefused, StopRest,
   NoFinish
<1>1. (DeadIsEmpty /\ Unborn /\ OneEntry /\ OwnedApart /\ QueuedIsNew /\ Manager
    /\ StepTree /\ StepRow /\ RowTree /\ ClassTree /\ ReviewSide /\ WorkAfterReview
    /\ LiveOwned /\ LiveApart /\ Remembered)'
  BY <1>a, Frame DEF Inv, StopRefused, StopRest, NoFinish
<1>2. LaunchAlone'
  BY <1>a DEF Inv, StopRefused, StopRest, NoFinish, LaunchAlone, Manager, TypeOK,
     SpawnFailed, InLaunch, Owned, Idle, Between, Launching, Draining
<1>3. OutcomeOwed'
  <2>1. r \notin Frozen /\ Frozen' = Frozen
    BY <1>a DEF Inv, OneEntry, StopRefused, StopRest, NoFinish, Frozen, Owned
  <2>2. ShuttingDown' = ShuttingDown
    BY DEF StopRefused, ShuttingDown
  <2>. QED  BY <1>a, <2>1, <2>2 DEF Inv, OutcomeOwed, StopRefused, StopRest, NoFinish
<1>4. StopsQueuedFirst'
  BY <1>a DEF Inv, StopRefused, StopRest, NoFinish, StopsQueuedFirst, OneEntry, Manager,
     LaunchAlone, TypeOK, Queued, Owned, ShuttingDown, Idle, Between, Draining, Serving,
     ToSet, InLaunch
<1>5. QueueOwed'
  BY <1>a DEF Inv, StopRefused, StopRest, NoFinish, QueueOwed, DeadIsEmpty, TypeOK, Owned,
     Launchable, ShuttingDown, Idle, Between, HasSlot, Serving, Draining
<1>. QED  BY <1>0, <1>1, <1>2, <1>3, <1>4, <1>5 DEF Inv

\* An owned run is told to stop, or settles at once.
LEMMA StopOwnedInv == ASSUME Inv, NEW r \in Runs, StopRest(r), StopOwned(r) PROVE Inv'
<1> USE DEF rows, store, world, life, owners, retry, turn, Outcomes
<1>a. Inv /\ NoRun \notin Runs  BY NoRunIsNone
<1>0. TypeOK'  BY <1>a, BoundsNat, SlotsNat
   DEF Inv, TypeOK, StopOwned, StopRest, Childless, Finish, NoFinish
<1>1. (DeadIsEmpty /\ Unborn /\ OneEntry /\ OwnedApart /\ QueuedIsNew /\ RowTree
    /\ ClassTree /\ ReviewSide /\ WorkAfterReview /\ LiveOwned /\ LiveApart
    /\ Remembered /\ QueueOwed)'
  BY <1>a, Frame DEF Inv, StopOwned, StopRest
<1>2. Manager'
  BY <1>a DEF Inv, StopOwned, StopRest, Childless, Finish, NoFinish, Manager, OneEntry,
     DeadIsEmpty, TypeOK, Owned, Launchable, Frozen
<1>3. LaunchAlone'
  BY <1>a DEF Inv, StopOwned, StopRest, Childless, Finish, NoFinish, LaunchAlone, Manager,
     TypeOK, SpawnFailed, InLaunch, Owned, Idle, Between, Launching, Draining
<1>4. StepTree'
  BY <1>a DEF Inv, StopOwned, StopRest, Childless, Finish, NoFinish, StepTree,
     QueuedIsNew, Manager, LaunchAlone, TypeOK, Owned, Queued, SpawnFailed, InLaunch,
     Gone, Idle, Between, Launching, Serving, Frozen
<1>5. StepRow'
  BY <1>a DEF Inv, StopOwned, StopRest, Childless, Finish, NoFinish, StepRow, QueuedIsNew,
     Manager, LaunchAlone, DeadIsEmpty, Unborn, OneEntry, TypeOK, Owned, Queued,
     SpawnFailed, InLaunch, Idle, Between, Launching, Serving, Frozen, Unresolved,
     Unsettled
<1>6. OutcomeOwed'
  BY <1>a DEF Inv, StopOwned, StopRest, Childless, Finish, NoFinish, OutcomeOwed,
     StopsQueuedFirst, Manager, DeadIsEmpty, TypeOK, Frozen, Owned, ShuttingDown, Queued,
     Idle, Between, Serving
<1>7. StopsQueuedFirst'
  BY <1>a DEF Inv, StopOwned, StopRest, Childless, Finish, NoFinish, StopsQueuedFirst,
     OneEntry, Manager, LaunchAlone, TypeOK, Queued, Owned, ShuttingDown, Idle, Between,
     Draining, Serving, ToSet
<1>. QED  BY <1>0, <1>1, <1>2, <1>3, <1>4, <1>5, <1>6, <1>7 DEF Inv

\* Nothing is left to stop.
LEMMA NoStopInv == ASSUME Inv, NoStop PROVE Inv'
<1> USE DEF rows, store, world, life, owners, retry, turn, Outcomes
<1>a. Inv /\ NoRun \notin Runs  BY NoRunIsNone
<1>0. TypeOK'  BY <1>a, BoundsNat, SlotsNat DEF Inv, TypeOK, NoStop
<1>1. (DeadIsEmpty /\ Unborn /\ OneEntry /\ OwnedApart /\ QueuedIsNew /\ Manager
    /\ StepTree /\ StepRow /\ RowTree /\ ClassTree /\ ReviewSide /\ WorkAfterReview
    /\ LiveOwned /\ LiveApart /\ Remembered /\ QueueOwed)'
  BY <1>a, Frame DEF Inv, NoStop
<1>2. LaunchAlone'
  BY <1>a DEF Inv, NoStop, LaunchAlone, Manager, TypeOK, SpawnFailed, InLaunch, Owned,
     Idle, Between, Launching, Draining
<1>3. OutcomeOwed'
  BY <1>a DEF Inv, NoStop, OutcomeOwed, StopsQueuedFirst, Frozen, Owned, ShuttingDown,
     Queued, Idle, Between, Serving
<1>4. StopsQueuedFirst'
  BY <1>a DEF Inv, NoStop, StopsQueuedFirst, OneEntry, Queued, Owned, ShuttingDown, Idle,
     Between, Draining, Serving, ToSet, InLaunch
<1>. QED  BY <1>0, <1>1, <1>2, <1>3, <1>4 DEF Inv

\* A stop settles once the tree is gone.
LEMMA StopSettlesInv == ASSUME Inv, NEW r \in Runs, StopSettles(r) PROVE Inv'
<1> USE DEF rows, store, world, life, owners, retry, turn, Outcomes
<1>a. Inv /\ NoRun \notin Runs  BY NoRunIsNone
<1>0. TypeOK'  BY <1>a, BoundsNat, SlotsNat
   DEF Inv, TypeOK, StopSettles, Gone, Finish, ChildOnly
<1>1. (DeadIsEmpty /\ Unborn /\ OneEntry /\ OwnedApart /\ QueuedIsNew /\ RowTree
    /\ ClassTree /\ ReviewSide /\ WorkAfterReview /\ LiveOwned /\ LiveApart
    /\ Remembered /\ QueueOwed)'
  BY <1>a, Frame DEF Inv, StopSettles, Gone, Finish, ChildOnly
<1>2. Manager'
  BY <1>a DEF Inv, StopSettles, Gone, Finish, ChildOnly, Manager, OneEntry, DeadIsEmpty,
     TypeOK, Owned, Launchable, Frozen, Queued
<1>3. LaunchAlone'
  BY <1>a DEF Inv, StopSettles, Gone, Finish, ChildOnly, LaunchAlone, Manager, TypeOK,
     SpawnFailed, InLaunch, Owned, Idle, Between, Launching, Draining
<1>4. StepTree'
  BY <1>a DEF Inv, StopSettles, Gone, Finish, ChildOnly, StepTree, QueuedIsNew, Manager,
     LaunchAlone, TypeOK, Owned, Queued, SpawnFailed, InLaunch, Childless, Idle, Between,
     Launching, Serving, Frozen
<1>5. StepRow'
  BY <1>a DEF Inv, StopSettles, Gone, Finish, ChildOnly, StepRow, QueuedIsNew, Manager,
     LaunchAlone, DeadIsEmpty, Unborn, OneEntry, TypeOK, Owned, Queued, SpawnFailed,
     InLaunch, Idle, Between, Launching, Serving, Frozen, Unresolved
<1>6. OutcomeOwed'
  BY <1>a DEF Inv, StopSettles, Gone, Finish, ChildOnly, OutcomeOwed, StopsQueuedFirst,
     Manager, DeadIsEmpty, TypeOK, Frozen, Owned, ShuttingDown, Queued, Idle, Between,
     Serving
<1>7. StopsQueuedFirst'
  BY <1>a DEF Inv, StopSettles, Gone, Finish, ChildOnly, StopsQueuedFirst, OneEntry,
     Manager, LaunchAlone, TypeOK, Queued, Owned, ShuttingDown, Idle, Between, Draining,
     Serving, ToSet, InLaunch
<1>. QED  BY <1>0, <1>1, <1>2, <1>3, <1>4, <1>5, <1>6, <1>7 DEF Inv

\* A stop that gives up changes what is reported only.
LEMMA StopTimesOutInv == ASSUME Inv, NEW r \in Runs, StopTimesOut(r) PROVE Inv'
<1> USE DEF rows, store, world, life, owners, retry, turn, Outcomes
<1>a. Inv /\ NoRun \notin Runs  BY NoRunIsNone
<1>0. TypeOK'  BY <1>a, BoundsNat, SlotsNat DEF Inv, TypeOK, StopTimesOut, NoFinish
<1>1. (DeadIsEmpty /\ Unborn /\ OneEntry /\ OwnedApart /\ QueuedIsNew /\ Manager
    /\ LaunchAlone /\ StepTree /\ StepRow /\ RowTree /\ ClassTree /\ ReviewSide
    /\ WorkAfterReview /\ LiveOwned /\ LiveApart /\ Remembered)'
  BY <1>a, Frame DEF Inv, StopTimesOut, NoFinish
<1>2. OutcomeOwed'
  BY <1>a DEF Inv, StopTimesOut, NoFinish, OutcomeOwed, StopsQueuedFirst, Manager,
     DeadIsEmpty, TypeOK, Frozen, Owned, ShuttingDown, Queued, Idle, Between, Serving
<1>3. StopsQueuedFirst'
  BY <1>a DEF Inv, StopTimesOut, NoFinish, StopsQueuedFirst, OneEntry, Owned,
     ShuttingDown, Idle, Between, Draining, Serving, ToSet, InLaunch
<1>4. QueueOwed'
  BY <1>a DEF Inv, StopTimesOut, NoFinish, QueueOwed, DeadIsEmpty, TypeOK, Owned,
     Launchable, ShuttingDown, Idle, Between, HasSlot, Serving, Draining
<1>. QED  BY <1>0, <1>1, <1>2, <1>3, <1>4 DEF Inv

\* A fired timer makes every owed outcome due.
LEMMA TimerFiresInv == ASSUME Inv, TimerFires PROVE Inv'
<1> USE DEF rows, store, world, life, owners, retry, turn, Outcomes
<1>a. Inv /\ NoRun \notin Runs  BY NoRunIsNone
<1>0. TypeOK'
  <2>1. armed' \in BOOLEAN /\ timer' \in BOOLEAN /\ due' \subseteq Runs
    BY <1>a DEF Inv, TypeOK, TimerFires, Retrying, Frozen, Owned
  <2>. QED  BY <1>a, <2>1, BoundsNat DEF Inv, TypeOK, TimerFires, Retrying
<1>1. (DeadIsEmpty /\ Unborn /\ OneEntry /\ OwnedApart /\ QueuedIsNew /\ Manager
    /\ LaunchAlone /\ StepTree /\ StepRow /\ RowTree /\ ClassTree /\ ReviewSide
    /\ WorkAfterReview /\ LiveOwned /\ LiveApart /\ Remembered)'
  BY <1>a, Frame DEF Inv, TimerFires, Retrying
<1>2. OutcomeOwed'
  BY <1>a DEF Inv, TimerFires, Retrying, OutcomeOwed, StopsQueuedFirst, Manager,
     DeadIsEmpty, TypeOK, Frozen, Owned, ShuttingDown, Queued, Idle, Between, Serving
<1>3. StopsQueuedFirst'
  BY <1>a DEF Inv, TimerFires, Retrying, StopsQueuedFirst, OneEntry, Owned, ShuttingDown,
     Idle, Between
<1>4. QueueOwed'
  BY <1>a DEF Inv, TimerFires, Retrying, QueueOwed, DeadIsEmpty, TypeOK, Owned, Draining
<1>. QED  BY <1>0, <1>1, <1>2, <1>3, <1>4 DEF Inv

\* resumeQueued() makes every owed outcome due.
LEMMA ResumeQueuedInv == ASSUME Inv, ResumeQueued PROVE Inv'
<1> USE DEF rows, store, world, life, owners, retry, turn, Outcomes
<1>a. Inv /\ NoRun \notin Runs  BY NoRunIsNone
<1>0. TypeOK'
  <2>1. timer' \in BOOLEAN /\ full' \in BOOLEAN /\ due' \subseteq Runs
    BY <1>a DEF Inv, TypeOK, ResumeQueued, Retrying, Serving, Frozen, Owned
  <2>. QED  BY <1>a, <2>1, BoundsNat DEF Inv, TypeOK, ResumeQueued, Retrying, Serving
<1>1. (DeadIsEmpty /\ Unborn /\ OneEntry /\ OwnedApart /\ QueuedIsNew /\ Manager
    /\ LaunchAlone /\ StepTree /\ StepRow /\ RowTree /\ ClassTree /\ ReviewSide
    /\ WorkAfterReview /\ LiveOwned /\ LiveApart /\ Remembered)'
  BY <1>a, Frame DEF Inv, ResumeQueued, Retrying, Serving
<1>2. OutcomeOwed'
  BY <1>a DEF Inv, ResumeQueued, Retrying, Serving, OutcomeOwed, StopsQueuedFirst,
     Manager, DeadIsEmpty, TypeOK, Frozen, Owned, ShuttingDown, Queued, Idle, Between
<1>3. StopsQueuedFirst'
  BY <1>a DEF Inv, ResumeQueued, Retrying, Serving, StopsQueuedFirst, OneEntry, Manager,
     LaunchAlone, TypeOK, Queued, Owned, ShuttingDown, Idle, Between, Draining, ToSet,
     InLaunch
<1>4. QueueOwed'
  BY <1>a DEF Inv, ResumeQueued, Retrying, Serving, QueueOwed, DeadIsEmpty, TypeOK, Idle,
     Between, HasSlot, Draining
<1>. QED  BY <1>0, <1>1, <1>2, <1>3, <1>4 DEF Inv

\* One owed outcome after the other is finished again.
LEMMA RetryNextInv == ASSUME Inv, RetryNext PROVE Inv'
<1> USE DEF rows, store, world, life, owners, retry, turn, Outcomes
<1>a. Inv /\ NoRun \notin Runs  BY NoRunIsNone
<1>0. TypeOK'
  <2>1. timer' \in BOOLEAN
    BY <1>a DEF Inv, TypeOK, RetryNext, Finish, NoFinish
  <2>. QED  BY <1>a, <2>1, BoundsNat DEF Inv, TypeOK, RetryNext, Finish, NoFinish
<1>1. (DeadIsEmpty /\ Unborn /\ OneEntry /\ OwnedApart /\ QueuedIsNew /\ RowTree
    /\ ClassTree /\ ReviewSide /\ WorkAfterReview /\ LiveOwned /\ LiveApart
    /\ Remembered)'
  BY <1>a, Frame DEF Inv, RetryNext, Finish, NoFinish
<1>2. Manager'
  BY <1>a DEF Inv, RetryNext, Finish, NoFinish, Manager, OneEntry, DeadIsEmpty, TypeOK,
     Owned, Launchable, Frozen, Queued
<1>3. LaunchAlone'
  BY <1>a DEF Inv, RetryNext, Finish, NoFinish, LaunchAlone, Manager, TypeOK, SpawnFailed,
     InLaunch, Owned, Idle, Between, Launching, Draining
<1>4. StepTree'
  BY <1>a DEF Inv, RetryNext, Finish, NoFinish, StepTree, QueuedIsNew, Manager,
     LaunchAlone, TypeOK, Owned, Queued, SpawnFailed, InLaunch, Childless, Gone, Idle,
     Between, Launching, Serving, Frozen
<1>5. StepRow'
  BY <1>a DEF Inv, RetryNext, Finish, NoFinish, StepRow, QueuedIsNew, Manager,
     LaunchAlone, DeadIsEmpty, Unborn, OneEntry, TypeOK, Owned, Queued, SpawnFailed,
     InLaunch, Idle, Between, Launching, Serving, Frozen, Unresolved, Unsettled
<1>6. OutcomeOwed'
  BY <1>a DEF Inv, RetryNext, Finish, NoFinish, OutcomeOwed, StopsQueuedFirst, Manager,
     DeadIsEmpty, TypeOK, Frozen, Owned, ShuttingDown, Queued, Idle, Between, Serving
<1>7. StopsQueuedFirst'
  BY <1>a DEF Inv, RetryNext, Finish, NoFinish, StopsQueuedFirst, OneEntry, Manager,
     LaunchAlone, TypeOK, Queued, Owned, ShuttingDown, Idle, Between, Draining, Serving,
     ToSet, InLaunch
<1>8. QueueOwed'
  BY <1>a DEF Inv, RetryNext, Finish, NoFinish, QueueOwed, DeadIsEmpty, TypeOK, Owned,
     Launchable, ShuttingDown, Idle, Between, HasSlot, Serving, Draining
<1>. QED  BY <1>0, <1>1, <1>2, <1>3, <1>4, <1>5, <1>6, <1>7, <1>8 DEF Inv

\* A shutdown lists every queued and every owned run.
LEMMA BeginShutdownInv == ASSUME Inv, BeginShutdown PROVE Inv'
<1> USE DEF rows, store, world, life, owners, retry, turn, Outcomes
<1>a. Inv /\ NoRun \notin Runs  BY NoRunIsNone
<1>0. TypeOK'
  <2>1. armed' \in BOOLEAN /\ stops' \subseteq Runs
    BY <1>a, QueueRuns DEF Inv, TypeOK, BeginShutdown, Owned
  <2>. QED  BY <1>a, <2>1, BoundsNat DEF Inv, TypeOK, BeginShutdown
<1>1. (DeadIsEmpty /\ Unborn /\ OneEntry /\ OwnedApart /\ QueuedIsNew /\ Manager
    /\ StepTree /\ StepRow /\ RowTree /\ ClassTree /\ ReviewSide /\ WorkAfterReview
    /\ LiveOwned /\ LiveApart /\ Remembered)'
  BY <1>a, Frame DEF Inv, BeginShutdown
<1>2. LaunchAlone'
  BY <1>a DEF Inv, BeginShutdown, LaunchAlone, Manager, TypeOK, SpawnFailed, InLaunch,
     Owned, Idle, Between, Launching, Draining
<1>3. OutcomeOwed'
  BY <1>a DEF Inv, BeginShutdown, OutcomeOwed, StopsQueuedFirst, Frozen, Owned,
     ShuttingDown, Queued, Idle, Between, Serving
<1>4. StopsQueuedFirst'
  BY <1>a DEF Inv, BeginShutdown, StopsQueuedFirst, OneEntry, Queued, Owned, ShuttingDown,
     Idle, Between, Draining, Serving, ToSet, InLaunch
<1>5. QueueOwed'
  BY <1>a DEF Inv, BeginShutdown, QueueOwed, DeadIsEmpty, TypeOK, Owned, Launchable,
     ShuttingDown, Idle, Between, HasSlot, Serving, Draining
<1>. QED  BY <1>0, <1>1, <1>2, <1>3, <1>4, <1>5 DEF Inv

\* The runtime leaves; what it kept in memory is gone.
LEMMA ExitInv == ASSUME Inv, Exit PROVE Inv'
<1> USE DEF rows, store, world, life, owners, retry, turn, Outcomes
<1>a. Inv /\ NoRun \notin Runs  BY NoRunIsNone
<1>0. TypeOK'
  <2>1. up' \in BOOLEAN /\ recovered' \in BOOLEAN /\ armed' \in BOOLEAN /\ queueRead' \in BOOLEAN /\ undrained' \in BOOLEAN /\ timer' \in BOOLEAN
    BY <1>a DEF Inv, TypeOK, Exit, Forget
  <2>. QED  BY <1>a, <2>1, BoundsNat DEF Inv, TypeOK, Exit, Forget
<1>1. (RowTree /\ ReviewSide /\ LiveApart)'
  BY <1>a, Frame DEF Inv, Exit, Forget
<1>2. DeadIsEmpty'
  BY <1>a DEF Inv, Exit, Forget, DeadIsEmpty, Manager, TypeOK
<1>3. Unborn'
  BY <1>a DEF Inv, Exit, Forget, Unborn, Manager, DeadIsEmpty, TypeOK, Queued, Owned
<1>4. OneEntry'
  BY <1>a DEF Inv, Exit, Forget, OneEntry, Unborn, TypeOK, Queued, Owned, Launchable
<1>5. OwnedApart'
  BY <1>a DEF Inv, Exit, Forget, OwnedApart, OneEntry, Owned, Launchable, HasWork, ToSet,
     Serving
<1>6. QueuedIsNew'
  BY <1>a DEF Inv, Exit, Forget, QueuedIsNew, Unborn, OneEntry, StepTree, StepRow,
     ClassTree, Manager, DeadIsEmpty, TypeOK, Queued, Owned, Unresolved
<1>7. Manager'
  BY <1>a DEF Inv, Exit, Forget, Manager, OneEntry, Owned, Launchable, Frozen, Queued
<1>8. LaunchAlone'
  BY <1>a DEF Inv, Exit, Forget, LaunchAlone, Manager, TypeOK, SpawnFailed, InLaunch,
     Owned, Idle, Between, Launching, Draining
<1>9. StepTree'
  BY <1>a DEF Inv, Exit, Forget, StepTree, QueuedIsNew, Manager, LaunchAlone, TypeOK,
     Owned, Queued, SpawnFailed, InLaunch, Childless, Serving, Frozen
<1>10. StepRow'
  BY <1>a DEF Inv, Exit, Forget, StepRow, QueuedIsNew, Manager, Owned, Queued,
     SpawnFailed, InLaunch, Idle, Between, Launching, Serving, Frozen, Unresolved,
     Unsettled
<1>11. ClassTree'
  BY <1>a DEF Inv, Exit, Forget, ClassTree, OneEntry, Manager, LaunchAlone, StepTree,
     TypeOK, Owned, Queued, Unresolved
<1>12. WorkAfterReview'
  BY <1>a DEF Inv, Exit, Forget, WorkAfterReview, Queued, Owned, Unresolved, UnresolvedIn,
     Unsettled, InLaunch
<1>13. LiveOwned'
  BY <1>a DEF Inv, Exit, Forget, LiveOwned, DeadIsEmpty, StepRow, StepTree, Manager,
     LaunchAlone, Owned, Unresolved, InLaunch, UnresolvedIn, Queued
<1>14. Remembered'
  BY <1>a DEF Inv, Exit, Forget, Remembered, StepRow, Manager, QueuedIsNew, DeadIsEmpty,
     OneEntry, LaunchAlone, RowTree, TypeOK, Queued
<1>15. OutcomeOwed'
  BY <1>a DEF Inv, Exit, Forget, OutcomeOwed
<1>16. StopsQueuedFirst'
  BY <1>a DEF Inv, Exit, Forget, StopsQueuedFirst, OneEntry
<1>17. QueueOwed'
  BY <1>a DEF Inv, Exit, Forget, QueueOwed, DeadIsEmpty, TypeOK, Owned, Draining
<1>. QED  BY <1>0, <1>1, <1>2, <1>3, <1>4, <1>5, <1>6, <1>7, <1>8, <1>9, <1>10, <1>11,
   <1>12, <1>13, <1>14, <1>15, <1>16, <1>17 DEF Inv

\* A refused shutdown arms the retry of what is not journaled.
LEMMA ShutdownRefusedInv == ASSUME Inv, ShutdownRefused PROVE Inv'
<1> USE DEF rows, store, world, life, owners, retry, turn, Outcomes
<1>a. Inv /\ NoRun \notin Runs  BY NoRunIsNone
<1>0. TypeOK'
  <2>1. CASE armed' = armed
    BY <1>a, <2>1, BoundsNat DEF Inv, TypeOK, ShutdownRefused, RetryLater, Frozen, Owned
  <2>2. CASE RetryLater
    BY <1>a, <2>2, BoundsNat DEF Inv, TypeOK, ShutdownRefused, RetryLater, Frozen
  <2>. QED  BY <1>a, <2>1, <2>2 DEF ShutdownRefused, RetryLater, Frozen, Owned
<1>1. (DeadIsEmpty /\ Unborn /\ OneEntry /\ OwnedApart /\ QueuedIsNew /\ Manager
    /\ LaunchAlone /\ StepTree /\ StepRow /\ RowTree /\ ClassTree /\ ReviewSide
    /\ WorkAfterReview /\ LiveOwned /\ LiveApart /\ Remembered)'
  BY <1>a, Frame DEF Inv, ShutdownRefused, RetryLater
<1>2. OutcomeOwed'
  BY <1>a DEF Inv, ShutdownRefused, RetryLater, OutcomeOwed, StopsQueuedFirst, Manager,
     DeadIsEmpty, TypeOK, Frozen, Owned, ShuttingDown, Queued, Idle, Between, Serving
<1>3. StopsQueuedFirst'
  BY <1>a DEF Inv, ShutdownRefused, RetryLater, StopsQueuedFirst, OneEntry, Owned,
     ShuttingDown, Idle, Between, Draining, Serving, ToSet, InLaunch
<1>4. QueueOwed'
  BY <1>a DEF Inv, ShutdownRefused, RetryLater, QueueOwed, DeadIsEmpty, TypeOK, Owned,
     Launchable, ShuttingDown, Idle, Between, HasSlot, Serving, Draining
<1>. QED  BY <1>0, <1>1, <1>2, <1>3, <1>4 DEF Inv

\* A crash leaves rows, sidecars and trees as they are.
LEMMA CrashInv == ASSUME Inv, Crash PROVE Inv'
<1> USE DEF rows, store, world, life, owners, retry, turn, Outcomes
<1>a. Inv /\ NoRun \notin Runs  BY NoRunIsNone
<1>0. TypeOK'
  <2>1. up' \in BOOLEAN /\ recovered' \in BOOLEAN /\ armed' \in BOOLEAN /\ queueRead' \in BOOLEAN /\ undrained' \in BOOLEAN /\ timer' \in BOOLEAN
    BY <1>a DEF Inv, TypeOK, Crash, Forget
  <2>. QED  BY <1>a, <2>1, BoundsNat DEF Inv, TypeOK, Crash, Forget
<1>1. (RowTree /\ ReviewSide /\ LiveApart)'
  BY <1>a, Frame DEF Inv, Crash, Forget
<1>2. DeadIsEmpty'
  BY <1>a DEF Inv, Crash, Forget, DeadIsEmpty, Manager, TypeOK
<1>3. Unborn'
  BY <1>a DEF Inv, Crash, Forget, Unborn, Manager, DeadIsEmpty, TypeOK, Queued, Owned
<1>4. OneEntry'
  BY <1>a DEF Inv, Crash, Forget, OneEntry, Unborn, TypeOK, Queued, Owned, Launchable
<1>5. OwnedApart'
  BY <1>a DEF Inv, Crash, Forget, OwnedApart, OneEntry, Owned, Launchable, HasWork, ToSet,
     Serving
<1>6. QueuedIsNew'
  BY <1>a DEF Inv, Crash, Forget, QueuedIsNew, Unborn, OneEntry, StepTree, StepRow,
     ClassTree, Manager, DeadIsEmpty, TypeOK, Queued, Owned, Unresolved
<1>7. Manager'
  BY <1>a DEF Inv, Crash, Forget, Manager, OneEntry, Owned, Launchable, Frozen, Queued
<1>8. LaunchAlone'
  BY <1>a DEF Inv, Crash, Forget, LaunchAlone, Manager, TypeOK, SpawnFailed, InLaunch,
     Owned, Idle, Between, Launching, Draining
<1>9. StepTree'
  BY <1>a DEF Inv, Crash, Forget, StepTree, QueuedIsNew, Manager, LaunchAlone, TypeOK,
     Owned, Queued, SpawnFailed, InLaunch, Childless, Gone, Idle, Between, Launching,
     Serving, Frozen
<1>10. StepRow'
  BY <1>a DEF Inv, Crash, Forget, StepRow, QueuedIsNew, Manager, Owned, Queued,
     SpawnFailed, InLaunch, Idle, Between, Launching, Serving, Frozen, Unresolved,
     Unsettled
<1>11. ClassTree'
  BY <1>a DEF Inv, Crash, Forget, ClassTree, OneEntry, Manager, LaunchAlone, StepTree,
     TypeOK, Owned, Queued, Unresolved
<1>12. WorkAfterReview'
  BY <1>a DEF Inv, Crash, Forget, WorkAfterReview, Queued, Owned, Unresolved,
     UnresolvedIn, Unsettled, InLaunch
<1>13. LiveOwned'
  BY <1>a DEF Inv, Crash, Forget, LiveOwned, DeadIsEmpty, StepRow, StepTree, Manager,
     LaunchAlone, Owned, Unresolved, InLaunch, UnresolvedIn, Queued
<1>14. Remembered'
  BY <1>a DEF Inv, Crash, Forget, Remembered, StepRow, Manager, QueuedIsNew, DeadIsEmpty,
     OneEntry, LaunchAlone, RowTree, TypeOK, Queued
<1>15. OutcomeOwed'
  BY <1>a DEF Inv, Crash, Forget, OutcomeOwed
<1>16. StopsQueuedFirst'
  BY <1>a DEF Inv, Crash, Forget, StopsQueuedFirst, OneEntry
<1>17. QueueOwed'
  BY <1>a DEF Inv, Crash, Forget, QueueOwed, DeadIsEmpty, TypeOK, Owned, Draining
<1>. QED  BY <1>0, <1>1, <1>2, <1>3, <1>4, <1>5, <1>6, <1>7, <1>8, <1>9, <1>10, <1>11,
   <1>12, <1>13, <1>14, <1>15, <1>16, <1>17 DEF Inv

\* A new runtime starts empty.
LEMMA RestartInv == ASSUME Inv, Restart PROVE Inv'
<1> USE DEF rows, store, world, life, owners, retry, turn, Outcomes
<1>a. Inv /\ NoRun \notin Runs  BY NoRunIsNone
<1>0. TypeOK'  BY <1>a, BoundsNat, SlotsNat DEF Inv, TypeOK, Restart
<1>1. (Unborn /\ OneEntry /\ OwnedApart /\ QueuedIsNew /\ Manager /\ LaunchAlone
    /\ StepTree /\ StepRow /\ RowTree /\ ClassTree /\ ReviewSide /\ WorkAfterReview
    /\ LiveOwned /\ LiveApart /\ Remembered /\ StopsQueuedFirst /\ QueueOwed)'
  BY <1>a, Frame DEF Inv, Restart
<1>2. DeadIsEmpty'
  BY <1>a DEF Inv, Restart, DeadIsEmpty, Manager, TypeOK
<1>3. OutcomeOwed'
  BY <1>a DEF Inv, Restart, OutcomeOwed, StopsQueuedFirst, Manager, DeadIsEmpty, TypeOK,
     Frozen, Owned, ShuttingDown, Queued, Idle, Between, Serving
<1>. QED  BY <1>0, <1>1, <1>2, <1>3 DEF Inv

\* A row of a dead runtime settles, or goes to review with a class.
LEMMA ReconcileInv == ASSUME Inv, NEW r \in Runs, Reconcile(r) PROVE Inv'
<1> USE DEF rows, store, world, life, owners, retry, turn, Outcomes
<1>a. Inv /\ NoRun \notin Runs  BY NoRunIsNone
<1>b. \/ SettleBySide(r) /\ side[r] \in Outcomes
      \/ side[r] = "none" /\ Interrupt(r, Classes(r)) /\ UNCHANGED pids
      \/ Interrupt(r, {Unreadable(status[r])}) /\ UNCHANGED pids
  BY <1>a DEF Inv, TypeOK, Reconcile, OutcomeRead
<1>0. TypeOK'
  <2>1. CASE SettleBySide(r) /\ side[r] \in Outcomes
    BY <1>a, <2>1, BoundsNat DEF Inv, TypeOK, Reconcile, OutcomeRead, SettleBySide,
       Interrupt, Classes, ProbeVerdicts, Unreadable, RecoveryOnly, Gone
  <2>2. CASE Interrupt(r, Classes(r)) /\ UNCHANGED pids
    BY <1>a, <2>2, BoundsNat DEF Inv, TypeOK, Reconcile, OutcomeRead, SettleBySide,
       Interrupt, Classes, ProbeVerdicts, Unreadable, RecoveryOnly, Gone
  <2>3. CASE Interrupt(r, {Unreadable(status[r])}) /\ UNCHANGED pids
    BY <1>a, <2>3, BoundsNat DEF Inv, TypeOK, Reconcile, Interrupt, Classes,
       ProbeVerdicts, Unreadable, RecoveryOnly, Gone
  <2>. QED  BY <1>a, <2>1, <2>2, <2>3 DEF Reconcile, OutcomeRead, SettleBySide,
     ProbeVerdicts, Unreadable, RecoveryOnly, Gone
<1>1. (DeadIsEmpty /\ OneEntry /\ OwnedApart /\ Manager /\ LaunchAlone /\ StepTree
    /\ LiveApart /\ OutcomeOwed /\ StopsQueuedFirst /\ QueueOwed)'
  BY <1>a, Frame DEF Inv, Reconcile, OutcomeRead, Unreadable, RecoveryOnly
<1>2. Unborn'
  BY <1>a DEF Inv, Reconcile, OutcomeRead, SettleBySide, Interrupt, Classes,
     ProbeVerdicts, Unreadable, RecoveryOnly, Gone, Unborn, Manager, DeadIsEmpty, TypeOK,
     Queued, Owned
<1>3. QueuedIsNew'
  BY <1>a DEF Inv, Reconcile, OutcomeRead, SettleBySide, Interrupt, Classes,
     ProbeVerdicts, Unreadable, RecoveryOnly, Gone, QueuedIsNew, Unborn, OneEntry,
     StepTree, StepRow, ClassTree, Manager, DeadIsEmpty, TypeOK, Queued, Owned,
     Unresolved
<1>4. StepRow'
  BY <1>a DEF Inv, Reconcile, OutcomeRead, SettleBySide, Interrupt, Classes,
     ProbeVerdicts, Unreadable, RecoveryOnly, Gone, StepRow, QueuedIsNew, Manager,
     LaunchAlone, DeadIsEmpty, Unborn, OneEntry, TypeOK, Owned, Queued, SpawnFailed,
     InLaunch
<1>5. RowTree'
  BY <1>a DEF Inv, Reconcile, OutcomeRead, SettleBySide, Interrupt, Classes,
     ProbeVerdicts, Unreadable, RecoveryOnly, Gone, RowTree, QueuedIsNew, OneEntry,
     TypeOK, Owned, Queued, Unresolved, InLaunch
<1>6. ClassTree'
  BY <1>a DEF Inv, Reconcile, OutcomeRead, SettleBySide, Interrupt, Classes,
     ProbeVerdicts, Unreadable, RecoveryOnly, Gone, ClassTree, Unborn, RowTree,
     DeadIsEmpty, OneEntry, Manager, LaunchAlone, StepTree, TypeOK, Owned, Queued,
     Unresolved, InLaunch
<1>7. ReviewSide'
  <2>1. CASE SettleBySide(r) /\ side[r] \in Outcomes
    BY <1>a, <2>1 DEF Inv, ReviewSide, Reconcile, SettleBySide
  <2>2. CASE side[r] = "none" /\ Interrupt(r, Classes(r)) /\ UNCHANGED pids
    BY <1>a, <2>2 DEF Inv, ReviewSide, Reconcile, Interrupt
  <2>3. CASE Interrupt(r, {Unreadable(status[r])}) /\ UNCHANGED pids
    BY <1>a, <2>3 DEF Inv, TypeOK, ReviewSide, RowTree, Reconcile, Interrupt, Unreadable,
       RecoveryOnly, Unsettled
  <2>. QED  BY <1>b, <2>1, <2>2, <2>3
<1>8. WorkAfterReview'
  BY <1>a DEF Inv, Reconcile, OutcomeRead, SettleBySide, Interrupt, Classes,
     ProbeVerdicts, Unreadable, RecoveryOnly, Gone, WorkAfterReview, DeadIsEmpty, Unborn,
     StepRow, QueuedIsNew, OneEntry, TypeOK, Queued, Owned, Unresolved, UnresolvedIn,
     Unsettled, InLaunch
<1>9. LiveOwned'
  BY <1>a DEF Inv, Reconcile, OutcomeRead, SettleBySide, Interrupt, Classes,
     ProbeVerdicts, Unreadable, RecoveryOnly, Gone, LiveOwned, DeadIsEmpty, StepRow,
     StepTree, Manager, LaunchAlone, ClassTree, RowTree, Unborn, TypeOK, Owned,
     Unresolved, InLaunch, UnresolvedIn, Queued
<1>10. Remembered'
  BY <1>a DEF Inv, Reconcile, OutcomeRead, SettleBySide, Interrupt, Classes,
     ProbeVerdicts, Unreadable, RecoveryOnly, Gone, Remembered, LaunchAlone, RowTree,
     TypeOK, Queued, Owned, InLaunch, Unresolved
<1>. QED  BY <1>0, <1>1, <1>2, <1>3, <1>4, <1>5, <1>6, <1>7, <1>8, <1>9, <1>10 DEF Inv

\* The sweep drops the sidecars that nothing waits for.
LEMMA RecoveryCompleteInv == ASSUME Inv, RecoveryComplete PROVE Inv'
<1> USE DEF rows, store, world, life, owners, retry, turn, Outcomes
<1>a. Inv /\ NoRun \notin Runs  BY NoRunIsNone
<1>b. \A r \in Runs : status[r] \notin Unsettled
  BY <1>a, Born DEF Inv, Unborn, RecoveryComplete, Unsettled
<1>0. TypeOK'  BY <1>a, BoundsNat, SlotsNat DEF Inv, TypeOK, RecoveryComplete
<1>1. (OneEntry /\ OwnedApart /\ Manager /\ LaunchAlone /\ StepTree /\ ClassTree
    /\ WorkAfterReview /\ LiveApart /\ OutcomeOwed /\ StopsQueuedFirst)'
  BY <1>a, Frame DEF Inv, RecoveryComplete
<1>2. DeadIsEmpty'
  BY <1>a DEF Inv, RecoveryComplete, DeadIsEmpty, Manager, TypeOK
<1>3. Unborn'
  BY <1>a DEF Inv, RecoveryComplete, Unborn, Manager, DeadIsEmpty, TypeOK, Queued, Owned
<1>4. QueuedIsNew'
  BY <1>a DEF Inv, RecoveryComplete, QueuedIsNew, Unborn, OneEntry, StepTree, StepRow,
     TypeOK, Queued, Owned, Unresolved
<1>5. StepRow'
  BY <1>a DEF Inv, RecoveryComplete, StepRow, QueuedIsNew, Manager, LaunchAlone,
     DeadIsEmpty, Unborn, OneEntry, TypeOK, Owned
<1>6. RowTree'
  BY <1>a DEF Inv, RecoveryComplete, RowTree, Unborn, Unsettled
<1>7. ReviewSide'
  BY <1>a DEF Inv, RecoveryComplete, ReviewSide, StepRow, Manager
<1>8. LiveOwned'
  BY <1>a, <1>b DEF Inv, LiveOwned, RecoveryComplete, Unresolved, Unsettled
<1>9. Remembered'
  BY <1>a, <1>b DEF Inv, Remembered, RecoveryComplete, Unsettled
<1>10. QueueOwed'
  BY <1>a DEF Inv, RecoveryComplete, QueueOwed, DeadIsEmpty, TypeOK, Owned, Launchable,
     ShuttingDown, Idle, Between, HasSlot, Serving, Draining
<1>. QED  BY <1>0, <1>1, <1>2, <1>3, <1>4, <1>5, <1>6, <1>7, <1>8, <1>9, <1>10 DEF Inv

\* A sidecar is read at last.
LEMMA RetryUnreadableInv == ASSUME Inv, NEW r \in Runs, RetryUnreadable(r) PROVE Inv'
<1> USE DEF rows, store, world, life, owners, retry, turn, Outcomes
<1>a. Inv /\ NoRun \notin Runs  BY NoRunIsNone
<1>0. TypeOK'  BY <1>a, BoundsNat, SlotsNat DEF Inv, TypeOK, RetryUnreadable, Serving,
   SettleBySide, DropSide, RemovesOutcome, RecoveryOnly
<1>1. (DeadIsEmpty /\ OneEntry /\ OwnedApart /\ Manager /\ LaunchAlone /\ StepTree
    /\ LiveApart /\ OutcomeOwed /\ StopsQueuedFirst /\ QueueOwed)'
  BY <1>a, Frame DEF Inv, RetryUnreadable, RemovesOutcome, RecoveryOnly
<1>2. Unborn'
  BY <1>a DEF Inv, RetryUnreadable, Serving, SettleBySide, DropSide, RemovesOutcome,
     RecoveryOnly, Unborn, Manager, DeadIsEmpty, TypeOK, Queued, Owned
<1>3. QueuedIsNew'
  BY <1>a DEF Inv, RetryUnreadable, Serving, SettleBySide, DropSide, RemovesOutcome,
     RecoveryOnly, QueuedIsNew, Unborn, OneEntry, StepTree, StepRow, ClassTree, Manager,
     DeadIsEmpty, TypeOK, Queued, Owned, Unresolved
<1>4. StepRow'
  BY <1>a DEF Inv, RetryUnreadable, Serving, SettleBySide, DropSide, RemovesOutcome,
     RecoveryOnly, StepRow, QueuedIsNew, Manager, LaunchAlone, DeadIsEmpty, Unborn,
     OneEntry, TypeOK, Owned, Queued, SpawnFailed, InLaunch, Idle, Between, Launching,
     Frozen, Unresolved, Unsettled
<1>5. RowTree'
  BY <1>a DEF Inv, RetryUnreadable, Serving, SettleBySide, DropSide, RemovesOutcome,
     RecoveryOnly, RowTree, Unborn, Manager, LaunchAlone, StepTree, StepRow, QueuedIsNew,
     OneEntry, TypeOK
<1>6. ClassTree'
  BY <1>a DEF Inv, RetryUnreadable, Serving, SettleBySide, DropSide, RemovesOutcome,
     RecoveryOnly, ClassTree, Unborn, LaunchAlone, StepTree, TypeOK, Owned, Queued,
     Unresolved, InLaunch
<1>7. ReviewSide'
  BY <1>a DEF Inv, RetryUnreadable, Serving, SettleBySide, DropSide, RemovesOutcome,
     RecoveryOnly, ReviewSide, StepRow, Manager, TypeOK, Unresolved, Owned
<1>8. WorkAfterReview'
  BY <1>a DEF Inv, RetryUnreadable, Serving, SettleBySide, DropSide, RemovesOutcome,
     RecoveryOnly, WorkAfterReview, DeadIsEmpty, Unborn, StepRow, QueuedIsNew, OneEntry,
     TypeOK, Queued, Owned, Unresolved, UnresolvedIn, Unsettled, InLaunch
<1>9. LiveOwned'
  BY <1>a DEF Inv, RetryUnreadable, Serving, SettleBySide, DropSide, RemovesOutcome,
     RecoveryOnly, LiveOwned, DeadIsEmpty, StepRow, StepTree, Manager, LaunchAlone,
     ClassTree, RowTree, Unborn, TypeOK, Owned, Unresolved, InLaunch, UnresolvedIn
<1>10. Remembered'
  BY <1>a DEF Inv, RetryUnreadable, Serving, SettleBySide, DropSide, RemovesOutcome,
     RecoveryOnly, Remembered, StepRow, Manager, QueuedIsNew, DeadIsEmpty, OneEntry,
     LaunchAlone, RowTree, TypeOK, Queued, Owned, InLaunch, Unresolved, Unsettled
<1>. QED  BY <1>0, <1>1, <1>2, <1>3, <1>4, <1>5, <1>6, <1>7, <1>8, <1>9, <1>10 DEF Inv

\* A verified process is gone.
LEMMA VerifyExitedInv == ASSUME Inv, NEW r \in Runs, VerifyExited(r) PROVE Inv'
<1> USE DEF rows, store, world, life, owners, retry, turn, Outcomes
<1>a. Inv /\ NoRun \notin Runs  BY NoRunIsNone
<1>0. TypeOK'  BY <1>a, BoundsNat, SlotsNat
   DEF Inv, TypeOK, VerifyExited, Serving, RecoveryOnly
<1>1. (DeadIsEmpty /\ OneEntry /\ OwnedApart /\ Manager /\ StepRow /\ Remembered
    /\ OutcomeOwed /\ StopsQueuedFirst /\ QueueOwed)'
  BY <1>a, Frame DEF Inv, VerifyExited, Serving, RecoveryOnly
<1>2. Unborn'
  BY <1>a DEF Inv, VerifyExited, Serving, RecoveryOnly, Unborn, Manager, DeadIsEmpty,
     TypeOK, Queued, Owned
<1>3. QueuedIsNew'
  BY <1>a DEF Inv, VerifyExited, Serving, RecoveryOnly, QueuedIsNew, Unborn, OneEntry,
     Manager, DeadIsEmpty, TypeOK, Queued, Owned, Unresolved
<1>4. LaunchAlone'
  BY <1>a DEF Inv, VerifyExited, Serving, RecoveryOnly, LaunchAlone, Manager, TypeOK,
     SpawnFailed, InLaunch, Owned, Idle, Between, Launching, Draining
<1>5. StepTree'
  BY <1>a DEF Inv, VerifyExited, Serving, RecoveryOnly, StepTree, QueuedIsNew, Manager,
     LaunchAlone, TypeOK, Owned, Queued, SpawnFailed, InLaunch, Childless, Gone, Idle,
     Between, Launching, Frozen
<1>6. RowTree'
  BY <1>a DEF Inv, VerifyExited, Serving, RecoveryOnly, RowTree, Unsettled
<1>7. ClassTree'
  BY <1>a DEF Inv, VerifyExited, Serving, RecoveryOnly, ClassTree, Unborn, RowTree,
     DeadIsEmpty, OneEntry, Manager, LaunchAlone, StepTree, TypeOK, Owned, Queued,
     Unresolved, InLaunch
<1>8. ReviewSide'
  BY <1>a DEF Inv, VerifyExited, Serving, RecoveryOnly, ReviewSide, StepRow, Manager,
     TypeOK, Unresolved, Owned, Unsettled
<1>9. WorkAfterReview'
  BY <1>a DEF Inv, VerifyExited, Serving, RecoveryOnly, WorkAfterReview, DeadIsEmpty,
     Unborn, StepRow, QueuedIsNew, OneEntry, TypeOK, Queued, Owned, Unresolved,
     UnresolvedIn, Unsettled, InLaunch
<1>10. LiveOwned'
  BY <1>a DEF Inv, VerifyExited, Serving, RecoveryOnly, LiveOwned, LaunchAlone, ClassTree,
     RowTree, Unborn, TypeOK, Owned, Unresolved, InLaunch, UnresolvedIn, Queued
<1>11. LiveApart'
  BY <1>a DEF Inv, VerifyExited, Serving, RecoveryOnly, LiveApart, Unborn, LaunchAlone,
     Manager, TypeOK, Owned, Unresolved, UnresolvedIn, Queued, HasWork, InLaunch, ToSet
<1>. QED  BY <1>0, <1>1, <1>2, <1>3, <1>4, <1>5, <1>6, <1>7, <1>8, <1>9, <1>10, <1>11
   DEF Inv

\* A verified review is settled as failed.
LEMMA DiscardInv == ASSUME Inv, NEW r \in Runs, Discard(r) PROVE Inv'
<1> USE DEF rows, store, world, life, owners, retry, turn, Outcomes
<1>a. Inv /\ NoRun \notin Runs  BY NoRunIsNone
<1>b. /\ status[r] = "interrupted" /\ r \notin resolved /\ r \in 1..created
      /\ class[r] \in {"never-started", "exited"} /\ side[r] = "none"
  BY <1>a, Born DEF Inv, TypeOK, ReviewSide, Discard, Verified, UnresolvedIn, Unresolved
<1>c. /\ status' = [status EXCEPT ![r] = "failed"] /\ resolved' = resolved \cup {r} /\ side' = side
      /\ UNCHANGED <<created, wt, class, pids, tree, store, held, life, queue, owners, retry, turn>>
  <2>1. [side EXCEPT ![r] = "none"] = side
    BY <1>a, <1>b DEF Inv, TypeOK
  <2>. QED  BY <2>1 DEF Discard, DropSide, RemovesOutcome, RecoveryOnly
<1>0. TypeOK'  BY <1>a, BoundsNat, SlotsNat
   DEF Inv, TypeOK, Discard, Serving, Verified, DropSide, RemovesOutcome, RecoveryOnly
<1>1. (DeadIsEmpty /\ OneEntry /\ OwnedApart /\ Manager /\ LaunchAlone /\ StepTree
    /\ ClassTree /\ LiveApart /\ OutcomeOwed /\ StopsQueuedFirst /\ QueueOwed)'
  BY <1>a, Frame DEF Inv, Discard, RemovesOutcome, RecoveryOnly
<1>2. Unborn'
  BY <1>a, <1>b, <1>c, Born DEF Inv, TypeOK, Unborn, Queued, Owned
<1>3. QueuedIsNew'
  BY <1>a DEF Inv, Discard, Serving, Verified, DropSide, RemovesOutcome, RecoveryOnly,
     QueuedIsNew, Unborn, OneEntry, StepTree, StepRow, ClassTree, Manager, DeadIsEmpty,
     TypeOK, Queued, Owned, Unresolved
<1>4. StepRow'
  BY <1>a DEF Inv, Discard, Serving, Verified, DropSide, RemovesOutcome, RecoveryOnly,
     StepRow, QueuedIsNew, Manager, LaunchAlone, DeadIsEmpty, Unborn, OneEntry, TypeOK,
     Owned, Queued, SpawnFailed, InLaunch, Idle, Between, Launching, Frozen, Unresolved,
     Unsettled
<1>5. RowTree'
  BY <1>a DEF Inv, Discard, Serving, Verified, DropSide, RemovesOutcome, RecoveryOnly,
     RowTree, Unborn, Manager, LaunchAlone, StepTree, StepRow, QueuedIsNew, OneEntry,
     TypeOK
<1>6. ReviewSide'
  BY <1>a DEF Inv, Discard, Serving, Verified, DropSide, RemovesOutcome, RecoveryOnly,
     ReviewSide, StepRow, Manager, TypeOK, Unresolved, Owned, Unsettled
<1>7. WorkAfterReview'
  BY <1>a DEF Inv, Discard, Serving, Verified, DropSide, RemovesOutcome, RecoveryOnly,
     WorkAfterReview, DeadIsEmpty, Unborn, StepRow, QueuedIsNew, OneEntry, TypeOK, Queued,
     Owned, Unresolved, UnresolvedIn, Unsettled, InLaunch
<1>8. LiveOwned'
  BY <1>a, <1>b, <1>c DEF Inv, TypeOK, LiveOwned, ClassTree, Unresolved
<1>9. Remembered'
  BY <1>a DEF Inv, Discard, Serving, Verified, DropSide, RemovesOutcome, RecoveryOnly,
     Remembered, StepRow, Manager, QueuedIsNew, DeadIsEmpty, OneEntry, LaunchAlone,
     RowTree, TypeOK, Queued, Owned, InLaunch, Unresolved, Unsettled
<1>. QED  BY <1>0, <1>1, <1>2, <1>3, <1>4, <1>5, <1>6, <1>7, <1>8, <1>9 DEF Inv

\* A verified review is replaced by a new queued run.
LEMMA ReplaceInv == ASSUME Inv, NEW r \in Runs, Replace(r) PROVE Inv'
<1> USE DEF rows, store, world, life, owners, retry, turn, Outcomes
<1>a. Inv /\ NoRun \notin Runs  BY NoRunIsNone
<1>b. /\ created \in Nat /\ created + 1 \in Runs /\ \A i \in Runs : i \in Nat
      /\ ~Queued(created + 1) /\ created + 1 \notin Owned /\ created + 1 \notin resolved
      /\ status[created + 1] = "absent" /\ class[created + 1] = "none"
      /\ side[created + 1] = "none" /\ tree[created + 1] = "none"
  BY <1>a, Born DEF Inv, Unborn, Replace, MayCreate
<1>c. /\ queue' \in Seq(Runs)
      /\ \A i, j \in DOMAIN queue' : queue'[i] = queue'[j] => i = j
      /\ \A i \in Runs : Queued(i)' <=> i = created + 1 \/ Queued(i)
  BY <1>a, <1>b, Enqueued DEF Replace, Enqueue
<1>e. /\ status[r] = "interrupted" /\ r \notin resolved /\ r # created + 1 /\ side[r] = "none"
      /\ \A i \in Runs : Unresolved(i) /\ wt[i] = wt[r] => class[i] \in {"never-started", "exited"}
  <2>1. status[r] = "interrupted" /\ r \notin resolved /\ r \in 1..created /\ Verified(r)
    BY <1>a, Born DEF Inv, Replace, Unresolved
  <2>2. \A i \in Runs : Unresolved(i) /\ wt[i] = wt[r] => class[i] \in {"never-started", "exited"}
    BY <1>a, <2>1, Born DEF Inv, Unborn, Verified, UnresolvedIn, Unresolved
  <2>3. side[r] = "none"
    BY <1>a, <2>1, <2>2 DEF Inv, TypeOK, ReviewSide, Unresolved
  <2>. QED  BY <1>b, <2>1, <2>2, <2>3
<1>d. /\ created' = created + 1 /\ wt' = [wt EXCEPT ![created + 1] = wt[r]]
      /\ status' = [status EXCEPT ![created + 1] = "queued"] /\ Owned' = Owned
      /\ resolved' = resolved \cup {r} /\ side' = side
      /\ UNCHANGED <<class, pids, world, life, owners>>
  <2>1. [side EXCEPT ![r] = "none"] = side
    BY <1>a, <1>e DEF Inv, TypeOK
  <2>. QED  BY <2>1 DEF Replace, Enqueue, Owned, DropSide, RemovesOutcome
<1>0. TypeOK'
  <2>1. created' \in 0..MaxRuns
    BY <1>b, <1>d, MaxRunsNat DEF Runs
  <2>2. undrained' \in BOOLEAN /\ drain' \in {"no", "enter", "loop"}
    BY <1>a DEF Inv, TypeOK, Replace, Enqueue
  <2>. QED  BY <1>a, <1>b, <1>c, <1>d, <2>1, <2>2 DEF Inv, TypeOK, Replace, Unsettled
<1>1. (Manager /\ LaunchAlone /\ StepTree /\ OutcomeOwed)'
  BY <1>a, Frame DEF Inv, Replace, Serving, Verified, MayCreate, Oldest, DropSide,
     RemovesOutcome, Enqueue
<1>2. DeadIsEmpty'
  BY <1>a DEF Inv, Replace, Serving, RemovesOutcome, Enqueue, DeadIsEmpty, Manager,
     TypeOK
<1>3. Unborn'
  BY <1>a, <1>b, <1>c, <1>d, <1>e DEF Inv, TypeOK, Unborn
<1>4. OneEntry'
  BY <1>a, <1>b, <1>c, <1>d, <1>e DEF Inv, TypeOK, OneEntry, Owned
<1>5. OwnedApart'
  BY <1>a, <1>b, <1>d DEF Inv, TypeOK, OwnedApart, Owned
<1>6. QueuedIsNew'
  BY <1>a, <1>b, <1>c, <1>d, <1>e DEF Inv, TypeOK, QueuedIsNew
<1>7. StepRow'
  <2>1. \A i \in Owned : status'[i] = status[i]
    BY <1>a, <1>b, <1>d DEF Inv, TypeOK, Owned
  <2>2. UNCHANGED <<outcome, finishing, phase, step>>
    BY DEF Replace
  <2>. QED  BY <1>a, <1>d, <2>1, <2>2 DEF Inv, StepRow
<1>8. RowTree'
  BY <1>a, <1>b, <1>d, <1>e DEF Inv, TypeOK, RowTree
<1>9. ClassTree'
  BY <1>a DEF Inv, Replace, Serving, Verified, MayCreate, Oldest, DropSide,
     RemovesOutcome, Enqueue, ClassTree, Unborn, RowTree, DeadIsEmpty, OneEntry, Manager,
     LaunchAlone, StepTree, TypeOK, Owned, Queued, Unresolved, InLaunch
<1>10. ReviewSide'
  BY <1>a, <1>b, <1>d, <1>e DEF Inv, TypeOK, ReviewSide, ClassTree
<1>11. WorkAfterReview'
  <2>1. \A i \in Runs : Unresolved(i)' => i # created + 1 /\ Unresolved(i)
    BY <1>a, <1>b, <1>d DEF Inv, TypeOK, Unresolved
  <2>2. wt'[created + 1] = wt[r] /\ \A i \in Runs : i # created + 1 => wt'[i] = wt[i]
    BY <1>a, <1>b, <1>d DEF Inv, TypeOK
  <2>. QED  BY <1>a, <1>b, <1>c, <1>d, <1>e, <2>1, <2>2 DEF Inv, WorkAfterReview
<1>12. LiveOwned'
  <2>1. \A i \in Runs : tree[i] = "live" => i # created + 1 /\ i # r
    <3>1. tree[r] # "live"
      BY <1>a, <1>e DEF Inv, TypeOK, ClassTree, Unresolved
    <3>. QED  BY <1>b, <3>1
  <2>2. \A i \in Runs : i # created + 1 /\ i # r => status'[i] = status[i] /\ (i \in resolved' <=> i \in resolved)
    BY <1>a, <1>d DEF Inv, TypeOK
  <2>. QED  BY <1>a, <1>d, <2>1, <2>2 DEF Inv, LiveOwned, Unresolved
<1>13. LiveApart'
  BY <1>a, <1>b, <1>d DEF Inv, TypeOK, LiveApart
<1>14. Remembered'
  BY <1>a, <1>b, <1>c, <1>d, <1>e DEF Inv, TypeOK, Remembered
<1>15. StopsQueuedFirst'
  BY <1>a DEF Inv, Replace, Serving, Verified, MayCreate, Oldest, DropSide,
     RemovesOutcome, Enqueue, StopsQueuedFirst, OneEntry, Manager, LaunchAlone, TypeOK,
     Queued, Owned, ShuttingDown, Idle, Between, Draining, ToSet, InLaunch
<1>16. QueueOwed'
  BY <1>a DEF Inv, Replace, Serving, Verified, MayCreate, Oldest, DropSide,
     RemovesOutcome, Enqueue, QueueOwed, DeadIsEmpty, TypeOK, Owned, HasSlot, Draining
<1>. QED  BY <1>0, <1>1, <1>2, <1>3, <1>4, <1>5, <1>6, <1>7, <1>8, <1>9, <1>10, <1>11,
   <1>12, <1>13, <1>14, <1>15, <1>16 DEF Inv

\* A process tree ends.
LEMMA TreeEndsInv == ASSUME Inv, NEW r \in Runs, TreeEnds(r) PROVE Inv'
<1> USE DEF rows, store, world, life, owners, retry, turn, Outcomes
<1>a. Inv /\ NoRun \notin Runs  BY NoRunIsNone
<1>0. TypeOK'  BY <1>a, BoundsNat, SlotsNat DEF Inv, TypeOK, TreeEnds, WorldOnly
<1>1. (DeadIsEmpty /\ OneEntry /\ OwnedApart /\ Manager /\ StepRow /\ ReviewSide
    /\ WorkAfterReview /\ Remembered /\ OutcomeOwed /\ StopsQueuedFirst /\ QueueOwed)'
  BY <1>a, Frame DEF Inv, TreeEnds, WorldOnly
<1>2. Unborn'
  BY <1>a DEF Inv, TreeEnds, WorldOnly, Unborn, Manager, DeadIsEmpty, TypeOK, Queued,
     Owned
<1>3. QueuedIsNew'
  BY <1>a DEF Inv, TreeEnds, WorldOnly, QueuedIsNew, Unborn, OneEntry, StepTree,
     DeadIsEmpty, TypeOK, Queued, Owned, Unresolved
<1>4. LaunchAlone'
  BY <1>a DEF Inv, TreeEnds, WorldOnly, LaunchAlone, Manager, TypeOK, SpawnFailed,
     InLaunch, Owned, Idle, Between, Launching, Draining
<1>5. StepTree'
  BY <1>a DEF Inv, TreeEnds, WorldOnly, StepTree, QueuedIsNew, Manager, LaunchAlone,
     TypeOK, Owned, Queued, SpawnFailed, InLaunch, Childless, Gone, Idle, Between,
     Launching, Serving, Frozen
<1>6. RowTree'
  BY <1>a DEF Inv, TreeEnds, WorldOnly, RowTree, Unborn
<1>7. ClassTree'
  BY <1>a DEF Inv, TreeEnds, WorldOnly, ClassTree, Unborn, RowTree, DeadIsEmpty, OneEntry,
     Manager, LaunchAlone, StepTree, TypeOK, Owned, Queued, Unresolved, InLaunch
<1>8. LiveOwned'
  BY <1>a DEF Inv, TreeEnds, WorldOnly, LiveOwned, DeadIsEmpty, Owned, Unresolved,
     InLaunch, UnresolvedIn
<1>9. LiveApart'
  BY <1>a DEF Inv, TreeEnds, WorldOnly, LiveApart, LiveOwned, Unresolved, UnresolvedIn,
     Queued, HasWork, InLaunch, Serving, ToSet
<1>. QED  BY <1>0, <1>1, <1>2, <1>3, <1>4, <1>5, <1>6, <1>7, <1>8, <1>9 DEF Inv

\* Storage fails.
LEMMA FaultBeginsInv == ASSUME Inv, FaultBegins PROVE Inv'
<1> USE DEF rows, store, world, life, owners, retry, turn, Outcomes
<1>a. Inv /\ NoRun \notin Runs  BY NoRunIsNone
<1>0. TypeOK'  BY <1>a, BoundsNat, SlotsNat DEF Inv, TypeOK, FaultBegins, WorldOnly
<1>1. (DeadIsEmpty /\ Unborn /\ OneEntry /\ OwnedApart /\ QueuedIsNew /\ Manager
    /\ LaunchAlone /\ StepTree /\ StepRow /\ RowTree /\ ClassTree /\ ReviewSide
    /\ WorkAfterReview /\ LiveOwned /\ LiveApart /\ Remembered /\ OutcomeOwed
    /\ StopsQueuedFirst /\ QueueOwed)'
  BY <1>a, Frame DEF Inv, FaultBegins, WorldOnly
<1>. QED  BY <1>0, <1>1 DEF Inv

\* Storage works again.
LEMMA FaultEndsInv == ASSUME Inv, FaultEnds PROVE Inv'
<1> USE DEF rows, store, world, life, owners, retry, turn, Outcomes
<1>a. Inv /\ NoRun \notin Runs  BY NoRunIsNone
<1>0. TypeOK'
  <2>1. faulty' \in BOOLEAN
    BY <1>a DEF Inv, TypeOK, FaultEnds, WorldOnly
  <2>. QED  BY <1>a, <2>1, BoundsNat DEF Inv, TypeOK, FaultEnds, WorldOnly
<1>1. (DeadIsEmpty /\ Unborn /\ OneEntry /\ OwnedApart /\ QueuedIsNew /\ Manager
    /\ LaunchAlone /\ StepTree /\ StepRow /\ RowTree /\ ClassTree /\ ReviewSide
    /\ WorkAfterReview /\ LiveOwned /\ LiveApart /\ Remembered /\ OutcomeOwed
    /\ StopsQueuedFirst /\ QueueOwed)'
  BY <1>a, Frame DEF Inv, FaultEnds, WorldOnly
<1>. QED  BY <1>0, <1>1 DEF Inv

\* The budget fills up.
LEMMA FillsInv == ASSUME Inv, Fills PROVE Inv'
<1> USE DEF rows, store, world, life, owners, retry, turn, Outcomes
<1>a. Inv /\ NoRun \notin Runs  BY NoRunIsNone
<1>0. TypeOK'  BY <1>a, BoundsNat, SlotsNat DEF Inv, TypeOK, Fills, WorldOnly
<1>1. (DeadIsEmpty /\ Unborn /\ OneEntry /\ OwnedApart /\ QueuedIsNew /\ Manager
    /\ LaunchAlone /\ StepTree /\ StepRow /\ RowTree /\ ClassTree /\ ReviewSide
    /\ WorkAfterReview /\ LiveOwned /\ LiveApart /\ Remembered /\ OutcomeOwed
    /\ StopsQueuedFirst)'
  BY <1>a, Frame DEF Inv, Fills, WorldOnly
<1>2. QueueOwed'
  BY <1>a DEF Inv, Fills, WorldOnly, QueueOwed, DeadIsEmpty, TypeOK, Owned, Launchable,
     ShuttingDown, Idle, Between, HasSlot, Serving, Draining
<1>. QED  BY <1>0, <1>1, <1>2 DEF Inv

\* A hold takes a worktree in which nothing lives or waits.
LEMMA HoldBeginsInv == ASSUME Inv, NEW w \in Worktrees, HoldBegins(w) PROVE Inv'
<1> USE DEF rows, store, world, life, owners, retry, turn, Outcomes
<1>a. Inv /\ NoRun \notin Runs  BY NoRunIsNone
<1>0. TypeOK'  BY <1>a, BoundsNat, SlotsNat
   DEF Inv, TypeOK, HoldBegins, WorldOnly, Serving, HasWork
<1>1. (DeadIsEmpty /\ Unborn /\ OneEntry /\ QueuedIsNew /\ Manager /\ LaunchAlone
    /\ StepTree /\ StepRow /\ RowTree /\ ClassTree /\ ReviewSide /\ WorkAfterReview
    /\ LiveOwned /\ Remembered /\ OutcomeOwed /\ StopsQueuedFirst)'
  BY <1>a, Frame DEF Inv, HoldBegins, WorldOnly, Serving, HasWork
<1>2. OwnedApart'
  BY <1>a DEF Inv, OwnedApart, HoldBegins, HasWork, WorldOnly, Owned
<1>3. LiveApart'
  <2>1. ASSUME NEW r \in Runs, tree[r] = "live" PROVE wt[r] # w
    <3>1. CASE r \in active
      BY <3>1 DEF HoldBegins, HasWork, Owned
    <3>2. CASE Unresolved(r)
      <4>1. r \in 1..created
        BY <1>a, <3>2, Born DEF Inv, Unborn, Unresolved
      <4>. QED  BY <3>2, <4>1 DEF HoldBegins, UnresolvedIn
    <3>. QED  BY <1>a, <2>1, <3>1, <3>2 DEF Inv, LiveOwned, HoldBegins, Serving
  <2>. QED  BY <1>a, <2>1 DEF Inv, LiveApart, HoldBegins, WorldOnly
<1>4. QueueOwed'
  BY <1>a DEF Inv, HoldBegins, WorldOnly, Serving, HasWork, QueueOwed, DeadIsEmpty,
     TypeOK, Owned, Launchable, ShuttingDown, Idle, Between, HasSlot, Draining
<1>. QED  BY <1>0, <1>1, <1>2, <1>3, <1>4 DEF Inv

\* A released hold resumes the queue.
LEMMA HoldEndsInv == ASSUME Inv, NEW w \in Worktrees, HoldEnds(w) PROVE Inv'
<1> USE DEF rows, store, world, life, owners, retry, turn, Outcomes
<1>a. Inv /\ NoRun \notin Runs  BY NoRunIsNone
<1>0. TypeOK'
  <2>1. timer' \in BOOLEAN /\ due' \subseteq Runs
    BY <1>a DEF Inv, TypeOK, HoldEnds, WorldOnly, Retrying, Frozen, Owned
  <2>. QED  BY <1>a, <2>1, BoundsNat DEF Inv, TypeOK, HoldEnds, WorldOnly, Retrying
<1>1. (DeadIsEmpty /\ Unborn /\ OneEntry /\ QueuedIsNew /\ Manager /\ LaunchAlone
    /\ StepTree /\ StepRow /\ RowTree /\ ClassTree /\ ReviewSide /\ WorkAfterReview
    /\ LiveOwned /\ Remembered)'
  BY <1>a, Frame DEF Inv, HoldEnds, WorldOnly, Retrying
<1>2. OwnedApart'
  BY <1>a DEF Inv, HoldEnds, WorldOnly, Retrying, OwnedApart, OneEntry, Unborn, TypeOK,
     Owned, Launchable, HasWork, ToSet, Serving
<1>3. LiveApart'
  BY <1>a DEF Inv, HoldEnds, WorldOnly, Retrying, LiveApart, LiveOwned, OwnedApart,
     WorkAfterReview, DeadIsEmpty, Unborn, LaunchAlone, Manager, TypeOK, Owned,
     Unresolved, UnresolvedIn, Queued, HasWork, InLaunch, Serving, ToSet
<1>4. OutcomeOwed'
  BY <1>a DEF Inv, HoldEnds, WorldOnly, Retrying, OutcomeOwed, StopsQueuedFirst, Manager,
     DeadIsEmpty, TypeOK, Frozen, Owned, ShuttingDown, Queued, Idle, Between, Serving
<1>5. StopsQueuedFirst'
  BY <1>a DEF Inv, HoldEnds, WorldOnly, Retrying, StopsQueuedFirst, OneEntry, Manager,
     LaunchAlone, TypeOK, Queued, Owned, ShuttingDown, Idle, Between, Draining, Serving,
     ToSet, InLaunch
<1>6. QueueOwed'
  BY <1>a DEF Inv, HoldEnds, WorldOnly, Retrying, QueueOwed, DeadIsEmpty, TypeOK, Owned,
     Launchable, ShuttingDown, Idle, Between, HasSlot, Serving, Draining
<1>. QED  BY <1>0, <1>1, <1>2, <1>3, <1>4, <1>5, <1>6 DEF Inv

\* A drain that gets to the queue.
LEMMA DrainAdmitsInv == ASSUME Inv, DrainAdmits PROVE Inv'
  BY DrainAdmitsCases, NothingReadyInv, AdmittedInv

\* stop() for a request: no shutdown is under way.
LEMMA StopInv == ASSUME Inv, NEW r \in Runs, Stop(r) PROVE Inv'
<1>1. StopRest(r)
  BY DEF Stop, StopRun, StopRest, Serving, Idle
<1>. QED  BY <1>1, StopQueuedInv, StopRefusedInv, StopOwnedInv DEF Stop, StopRun

\* stop() for a shutdown, one run of its list at a time.
LEMMA ShutdownStopsInv == ASSUME Inv, ShutdownStops PROVE Inv'
<1>1. PICK r \in stops : \/ StopRun(r) /\ StopRest(r)
                         \/ NoStop
  BY DEF ShutdownStops, StopRun, StopRest, NoStop, NoFinish, owners, turn
<1>2. r \in Runs
  BY DEF Inv, TypeOK
<1>. QED  BY <1>1, <1>2, StopQueuedInv, StopRefusedInv, StopOwnedInv, NoStopInv DEF StopRun

\* The first start.
LEMMA InitInv == Init => Inv
<1> SUFFICES ASSUME Init PROVE Inv
  OBVIOUS
<1>1. TypeOK /\ NoRun \notin Runs
  <2>1. created \in 0..MaxRuns /\ crashes \in 0..MaxCrashes /\ faults \in 0..MaxFaults
    BY MaxRunsNat, BoundsNat DEF Init
  <2>2. /\ faulty \in BOOLEAN /\ full \in BOOLEAN /\ up \in BOOLEAN /\ recovered \in BOOLEAN
        /\ armed \in BOOLEAN /\ queueRead \in BOOLEAN /\ undrained \in BOOLEAN /\ timer \in BOOLEAN
    BY DEF Init
  <2>3. wt \in [Runs -> Worktrees] /\ queue \in Seq(Runs)
    BY DEF Init
  <2>. QED  BY <2>1, <2>2, <2>3, NoRunIsNone DEF Init, TypeOK, Outcomes
<1>2. queue = <<>> /\ DOMAIN queue = {} /\ (\A r : ~Queued(r)) /\ Owned = {} /\ Frozen = {}
  BY DEF Init, Queued, Owned, Frozen
<1>3. DeadIsEmpty /\ OneEntry /\ OwnedApart /\ QueuedIsNew
  BY <1>2 DEF Init, DeadIsEmpty, OneEntry, OwnedApart, QueuedIsNew, Owned
<1>4. Unborn /\ Manager /\ StepTree /\ StepRow
  BY <1>1, <1>2 DEF Init, Unborn, Manager, StepTree, StepRow
<1>5. LaunchAlone
  BY <1>1 DEF Init, LaunchAlone, InLaunch, SpawnFailed
<1>6. RowTree /\ ClassTree /\ ReviewSide /\ WorkAfterReview
  BY <1>2 DEF Init, RowTree, ClassTree, ReviewSide, WorkAfterReview
<1>7. LiveOwned /\ LiveApart /\ Remembered
  BY DEF Init, LiveOwned, LiveApart, Remembered, Unsettled
<1>8. OutcomeOwed /\ StopsQueuedFirst /\ QueueOwed
  BY <1>2 DEF Init, OutcomeOwed, StopsQueuedFirst, QueueOwed
<1>. QED  BY <1>1, <1>3, <1>4, <1>5, <1>6, <1>7, <1>8 DEF Inv

\* Every action keeps the invariant.
LEMMA NextInv == ASSUME Inv, Next PROVE Inv'
<1>1. CASE FinishJournal
  BY <1>1, FinishJournalInv
<1>2. CASE FinishCommit
  BY <1>2, FinishCommitInv
<1>3. CASE FinishDefer
  BY <1>3, FinishDeferInv
<1>4. CASE FinishClean
  BY <1>4, FinishCleanInv
<1>5. CASE DrainReturns
  BY <1>5, DrainReturnsInv
<1>6. CASE DrainEmpty
  BY <1>6, DrainEmptyInv
<1>7. CASE DrainWithoutSlot
  BY <1>7, DrainWithoutSlotInv
<1>8. CASE DrainFaulted
  BY <1>8, DrainFaultedInv
<1>9. CASE DrainRefused
  BY <1>9, DrainRefusedInv
<1>10. CASE TimerFires
  BY <1>10, TimerFiresInv
<1>11. CASE ResumeQueued
  BY <1>11, ResumeQueuedInv
<1>12. CASE RetryNext
  BY <1>12, RetryNextInv
<1>13. CASE BeginShutdown
  BY <1>13, BeginShutdownInv
<1>14. CASE Exit
  BY <1>14, ExitInv
<1>15. CASE ShutdownRefused
  BY <1>15, ShutdownRefusedInv
<1>16. CASE Crash
  BY <1>16, CrashInv
<1>17. CASE Restart
  BY <1>17, RestartInv
<1>18. CASE RecoveryComplete
  BY <1>18, RecoveryCompleteInv
<1>19. CASE FaultBegins
  BY <1>19, FaultBeginsInv
<1>20. CASE FaultEnds
  BY <1>20, FaultEndsInv
<1>21. CASE Fills
  BY <1>21, FillsInv
<1>22. CASE DrainAdmits
  BY <1>22, DrainAdmitsInv
<1>23. CASE ShutdownStops
  BY <1>23, ShutdownStopsInv
<1>24. CASE \E r \in Runs : PrepareFails(r)
  BY <1>24, PrepareFailsInv
<1>25. CASE \E r \in Runs : Defer(r)
  BY <1>25, DeferInv
<1>26. CASE \E r \in Runs : Mark(r)
  BY <1>26, MarkInv
<1>27. CASE \E r \in Runs : Spawn(r)
  BY <1>27, SpawnInv
<1>28. CASE \E r \in Runs : Own(r)
  BY <1>28, OwnInv
<1>29. CASE \E r \in Runs : Authorize(r)
  BY <1>29, AuthorizeInv
<1>30. CASE \E r \in Runs : SpawnError(r)
  BY <1>30, SpawnErrorInv
<1>31. CASE \E r \in Runs : Close(r)
  BY <1>31, CloseInv
<1>32. CASE \E r \in Runs : Unlaunched(r)
  BY <1>32, UnlaunchedInv
<1>33. CASE \E r \in Runs : StopSettles(r)
  BY <1>33, StopSettlesInv
<1>34. CASE \E r \in Runs : StopTimesOut(r)
  BY <1>34, StopTimesOutInv
<1>35. CASE \E r \in Runs : Reconcile(r)
  BY <1>35, ReconcileInv
<1>36. CASE \E r \in Runs : RetryUnreadable(r)
  BY <1>36, RetryUnreadableInv
<1>37. CASE \E r \in Runs : VerifyExited(r)
  BY <1>37, VerifyExitedInv
<1>38. CASE \E r \in Runs : Discard(r)
  BY <1>38, DiscardInv
<1>39. CASE \E r \in Runs : Replace(r)
  BY <1>39, ReplaceInv
<1>40. CASE \E r \in Runs : TreeEnds(r)
  BY <1>40, TreeEndsInv
<1>41. CASE \E r \in Runs : Stop(r)
  BY <1>41, StopInv
<1>42. CASE \E w \in Worktrees : Submit(w)
  BY <1>42, SubmitInv
<1>43. CASE \E w \in Worktrees : HoldBegins(w)
  BY <1>43, HoldBeginsInv
<1>44. CASE \E w \in Worktrees : HoldEnds(w)
  BY <1>44, HoldEndsInv
<1>. QED
  BY <1>1, <1>2, <1>3, <1>4, <1>5, <1>6, <1>7, <1>8, <1>9, <1>10, <1>11, <1>12, <1>13,
     <1>14, <1>15, <1>16, <1>17, <1>18, <1>19, <1>20, <1>21, <1>22, <1>23, <1>24, <1>25,
     <1>26, <1>27, <1>28, <1>29, <1>30, <1>31, <1>32, <1>33, <1>34, <1>35, <1>36, <1>37,
     <1>38, <1>39, <1>40, <1>41, <1>42, <1>43, <1>44
  DEF Next, TurnStep, FinishStep, DrainStep, LaunchStep, RunEvent, Request

\* A step that changes nothing keeps it too.
LEMMA StutterInv == ASSUME Inv, UNCHANGED vars PROVE Inv'
<1> USE DEF vars, rows, store, world, life, owners, retry, turn
<1>1. TypeOK'
  BY DEF Inv, TypeOK
<1>. QED  BY <1>1, Frame DEF Inv

\* The invariant holds in every reachable state.
THEOREM Invariance == Spec => []Inv
<1>1. Inv /\ [Next]_vars => Inv'
  BY NextInv, StutterInv
<1>. QED  BY InitInv, <1>1, PTL DEF Spec

\* Every variable keeps its type.
THEOREM TypeCorrect == Spec => []TypeOK
<1>1. Inv => TypeOK
  BY DEF Inv
<1>. QED  BY Invariance, <1>1, PTL

\* At most one provider acts in a worktree, and none in a held one, however
\* many runs, worktrees, crashes and storage faults there are.
THEOREM OneTree == Spec => []OneTreePerWorktree
<1>1. Inv => OneTreePerWorktree
  BY DEF Inv, TypeOK, OneTreePerWorktree, LiveApart, OwnedApart
<1>. QED  BY Invariance, <1>1, PTL

\* A live process tree is owned, or waits for reconciliation, or is in a review
\* that must look at it; and "never-started" is always the truth.
THEOREM LiveGated == Spec => []LiveTreesGated
<1>1. Inv => LiveTreesGated
  BY DEF Inv, LiveTreesGated, LiveOwned, ClassTree
<1>. QED  BY Invariance, <1>1, PTL

\* While the manager serves, every unsettled row has an entry or an owner.
THEOREM NotForgotten == Spec => []NoRunForgotten
<1>1. Inv => NoRunForgotten
  BY Born DEF Inv, NoRunForgotten, Remembered
<1>. QED  BY Invariance, <1>1, PTL

\* Every owed outcome and every launchable run that waits for nobody else has
\* a retry to come.
THEOREM RetriesHaveOwners == Spec => []RetriesOwned
<1>1. ASSUME Inv PROVE RetriesOwned
  <2>1. ASSUME up, Idle, Frozen # {} PROVE armed \/ (ShuttingDown /\ Frozen \subseteq journaled)
    <3>1. finishing = NoRun /\ due = {} /\ stops = {} /\ NoRun \notin Runs
      BY <2>1, NoRunIsNone DEF Idle, Between
    <3>2. \A f \in Frozen : f \in Runs
      BY <1>1 DEF Inv, TypeOK, Frozen, Owned
    <3>. QED  BY <1>1, <2>1, <3>1, <3>2 DEF Inv, OutcomeOwed
  <2>2. ASSUME Serving, ~full, ~undrained, Owned = {}, \E i \in DOMAIN queue : Launchable(queue[i])
        PROVE  armed
    BY <1>1, <2>2 DEF Inv, QueueOwed, Serving, Idle, Between
  <2>. QED  BY <2>1, <2>2 DEF RetriesOwned
<1>. QED  BY Invariance, <1>1, PTL

\* Only an authorization brings a process tree to life.
LEMMA LiveByAuthorize ==
  ASSUME Inv, Next
  PROVE  tree' = tree \/ (\E r \in Runs : Authorize(r)) \/ \A r \in Runs : tree'[r] = "live" => tree[r] = "live"
<1>1. CASE FinishJournal
  BY <1>1 DEF FinishJournal, world
<1>2. CASE FinishCommit
  BY <1>2 DEF FinishCommit, world
<1>3. CASE FinishDefer
  BY <1>3 DEF FinishDefer, world
<1>4. CASE FinishClean
  BY <1>4 DEF FinishClean, world
<1>5. CASE DrainReturns
  BY <1>5 DEF DrainReturns, DrainOnly, world
<1>6. CASE DrainEmpty
  BY <1>6 DEF DrainEmpty, DrainOnly, world
<1>7. CASE DrainWithoutSlot
  BY <1>7 DEF DrainWithoutSlot, DrainOnly, world
<1>8. CASE DrainFaulted
  BY <1>8 DEF DrainFaulted, DrainOnly, world
<1>9. CASE DrainRefused
  BY <1>9 DEF DrainRefused, DrainOnly, world
<1>10. CASE TimerFires
  BY <1>10 DEF TimerFires, world
<1>11. CASE ResumeQueued
  BY <1>11 DEF ResumeQueued, world
<1>12. CASE RetryNext
  BY <1>12 DEF RetryNext, world
<1>13. CASE BeginShutdown
  BY <1>13 DEF BeginShutdown, world
<1>14. CASE Exit
  BY <1>14 DEF Exit, Forget, world
<1>15. CASE ShutdownRefused
  BY <1>15 DEF ShutdownRefused, world
<1>16. CASE Crash
  BY <1>16 DEF Crash, Forget, world
<1>17. CASE Restart
  BY <1>17 DEF Restart, world
<1>18. CASE RecoveryComplete
  BY <1>18 DEF RecoveryComplete, world
<1>19. CASE FaultBegins
  BY <1>19 DEF FaultBegins, WorldOnly, world
<1>20. CASE FaultEnds
  BY <1>20 DEF FaultEnds, WorldOnly, world
<1>21. CASE Fills
  BY <1>21 DEF Fills, WorldOnly, world
<1>22. CASE DrainAdmits
  BY <1>22 DEF DrainAdmits, world
<1>23. CASE ShutdownStops
  BY <1>23 DEF ShutdownStops, StopRun, world
<1>24. CASE \E r \in Runs : PrepareFails(r)
  BY <1>24 DEF PrepareFails, LaunchOnly, world
<1>25. CASE \E r \in Runs : Defer(r)
  BY <1>25 DEF Defer, LaunchOnly, world
<1>26. CASE \E r \in Runs : Mark(r)
  BY <1>26 DEF Mark, LaunchOnly, world
<1>27. CASE \E r \in Runs : Spawn(r)
  BY <1>27 DEF Inv, TypeOK, Spawn, LaunchOnly
<1>28. CASE \E r \in Runs : Own(r)
  BY <1>28 DEF Own, LaunchOnly, world
<1>29. CASE \E r \in Runs : Authorize(r)
  BY <1>29 DEF Inv, TypeOK, Authorize, LaunchOnly
<1>30. CASE \E r \in Runs : SpawnError(r)
  BY <1>30 DEF SpawnError, ChildOnly, world
<1>31. CASE \E r \in Runs : Close(r)
  BY <1>31 DEF Close, ChildOnly, world
<1>32. CASE \E r \in Runs : Unlaunched(r)
  BY <1>32 DEF Unlaunched, ChildOnly, world
<1>33. CASE \E r \in Runs : StopSettles(r)
  BY <1>33 DEF StopSettles, ChildOnly, world
<1>34. CASE \E r \in Runs : StopTimesOut(r)
  BY <1>34 DEF StopTimesOut, world
<1>35. CASE \E r \in Runs : Reconcile(r)
  BY <1>35 DEF Reconcile, RecoveryOnly, world
<1>36. CASE \E r \in Runs : RetryUnreadable(r)
  BY <1>36 DEF RetryUnreadable, RecoveryOnly, world
<1>37. CASE \E r \in Runs : VerifyExited(r)
  BY <1>37 DEF Inv, TypeOK, VerifyExited, RecoveryOnly
<1>38. CASE \E r \in Runs : Discard(r)
  BY <1>38 DEF Discard, RecoveryOnly, world
<1>39. CASE \E r \in Runs : Replace(r)
  BY <1>39 DEF Replace, world
<1>40. CASE \E r \in Runs : TreeEnds(r)
  BY <1>40 DEF Inv, TypeOK, TreeEnds, WorldOnly
<1>41. CASE \E r \in Runs : Stop(r)
  BY <1>41 DEF Stop, StopRun, world
<1>42. CASE \E w \in Worktrees : Submit(w)
  BY <1>42 DEF Submit, world
<1>43. CASE \E w \in Worktrees : HoldBegins(w)
  BY <1>43 DEF HoldBegins, WorldOnly, world
<1>44. CASE \E w \in Worktrees : HoldEnds(w)
  BY <1>44 DEF HoldEnds, WorldOnly, world
<1>. QED
  BY <1>1, <1>2, <1>3, <1>4, <1>5, <1>6, <1>7, <1>8, <1>9, <1>10, <1>11, <1>12, <1>13,
     <1>14, <1>15, <1>16, <1>17, <1>18, <1>19, <1>20, <1>21, <1>22, <1>23, <1>24, <1>25,
     <1>26, <1>27, <1>28, <1>29, <1>30, <1>31, <1>32, <1>33, <1>34, <1>35, <1>36, <1>37,
     <1>38, <1>39, <1>40, <1>41, <1>42, <1>43, <1>44
  DEF Next, TurnStep, FinishStep, DrainStep, LaunchStep, RunEvent, Request

\* A run whose stop was accepted before its authorization never comes to life.
THEOREM StopWins == Spec => StopPreventsLaunch
<1> DEFINE Dead == \A r \in Runs : r \in stopped /\ tree[r] # "live" => tree'[r] # "live"
<1>1. ASSUME Inv, Next PROVE Dead
  <2>1. ASSUME NEW a \in Runs, Authorize(a) PROVE Dead
    <3>1. a \notin stopped /\ tree' \in {tree, [tree EXCEPT ![a] = "live"]}
      BY <1>1, <2>1 DEF Inv, TypeOK, LaunchAlone, InLaunch, Authorize
    <3>. QED  BY <1>1, <3>1 DEF Inv, TypeOK
  <2>. QED  BY <1>1, <2>1, LiveByAuthorize
<1>2. Inv /\ [Next]_vars => [Dead]_vars
  BY <1>1
<1>. QED  BY Invariance, <1>2, PTL DEF Spec, StopPreventsLaunch

---------------------------------------------------------------------------
(* The ledger. *)

\* The step of the ledger, with the state of the manager put in.
LedgerStep == [Ledger!Next]_<<[r \in Runs |-> LedgerEntry(r)], wt>>

\* A step that leaves every entry and every place alone.
LEMMA LedgerStutters ==
  ASSUME wt' = wt, \A r \in Runs : LedgerEntry(r)' = LedgerEntry(r)
  PROVE  LedgerStep
  BY DEF LedgerStep

\* The entry of a run is read off its row, its sidecar and its decision.
LEMMA LedgerSame ==
  ASSUME NEW r \in Runs, status'[r] = status[r], side'[r] = side[r],
         r \in resolved' <=> r \in resolved
  PROVE  LedgerEntry(r)' = LedgerEntry(r)
  BY DEF LedgerEntry

\* A step that changes the entry of one run only.
LEMMA LedgerMoves ==
  ASSUME NEW r \in Runs, wt' = wt, \A i \in Runs \ {r} : LedgerEntry(i)' = LedgerEntry(i),
         \/ LedgerEntry(r)' = LedgerEntry(r)
         \/ LedgerEntry(r) = "open" /\ LedgerEntry(r)' \in Outcomes \cup {"review"}
         \/ LedgerEntry(r) = "review" /\ LedgerEntry(r)' = "failed"
  PROVE  LedgerStep
<1> DEFINE old == [i \in Runs |-> LedgerEntry(i)]
           new == [i \in Runs |-> LedgerEntry(i)']
<1>1. CASE LedgerEntry(r)' = LedgerEntry(r)
  BY <1>1, LedgerStutters
<1>2. new = [old EXCEPT ![r] = LedgerEntry(r)']
  OBVIOUS
<1>3. CASE LedgerEntry(r) = "open" /\ LedgerEntry(r)' \in Outcomes
  <2>1. Ledger!Settle(r)
    BY <1>2, <1>3 DEF Ledger!Settle, Outcomes
  <2>. QED  BY <2>1 DEF LedgerStep, Ledger!Next
<1>4. CASE LedgerEntry(r) = "open" /\ LedgerEntry(r)' = "review"
  <2>1. Ledger!Interrupt(r)
    BY <1>2, <1>4 DEF Ledger!Interrupt
  <2>. QED  BY <2>1 DEF LedgerStep, Ledger!Next
<1>5. CASE LedgerEntry(r) = "review" /\ LedgerEntry(r)' = "failed"
  <2>1. Ledger!Discard(r)
    BY <1>2, <1>5 DEF Ledger!Discard
  <2>. QED  BY <2>1 DEF LedgerStep, Ledger!Next
<1>. QED  BY <1>1, <1>3, <1>4, <1>5

\* The journal, or else the row, settles an open run; the sweep of a settled
\* run's record changes nothing.
LEMMA FinishLedger ==
  ASSUME Inv, NEW r \in Runs, finishing = r, FinishJournal \/ FinishCommit \/ FinishClean
  PROVE  LedgerStep
<1>1. r \in Owned /\ outcome[r] \in Outcomes
  BY FinishingOwned, NoRunIsNone
<1>2. wt' = wt /\ resolved' = resolved
  BY DEF FinishJournal, FinishCommit, FinishClean
<1>3. /\ side[r] \in {"none", outcome[r]}
      /\ phase # "clean" => status[r] \in Unsettled
      /\ phase = "clean" => status[r] = outcome[r]
  BY <1>1 DEF Inv, StepRow
<1>4. \A i \in Runs \ {r} : LedgerEntry(i)' = LedgerEntry(i)
  <2>1. \A i \in Runs \ {r} : status'[i] = status[i] /\ side'[i] = side[i]
    BY DEF Inv, TypeOK, FinishJournal, FinishCommit, FinishClean, SavesOutcome, SaveFails,
       RemovesOutcome
  <2>. QED  BY <1>2, <2>1, LedgerSame
<1>5. CASE FinishJournal
  <2>1. status' = status /\ (side' = side \/ side' = [side EXCEPT ![r] = outcome[r]])
    BY <1>5 DEF FinishJournal, SavesOutcome, SaveFails
  <2>2. \/ LedgerEntry(r)' = LedgerEntry(r)
        \/ LedgerEntry(r) = "open" /\ LedgerEntry(r)' \in Outcomes
    BY <1>1, <1>2, <1>3, <1>5, <2>1
       DEF Inv, TypeOK, FinishJournal, LedgerEntry, Outcomes, Unsettled
  <2>. QED  BY <1>1, <1>2, <1>4, <2>2, LedgerMoves
<1>6. CASE FinishCommit
  <2>1. \/ LedgerEntry(r)' = LedgerEntry(r)
        \/ LedgerEntry(r) = "open" /\ LedgerEntry(r)' \in Outcomes
    BY <1>1, <1>2, <1>3, <1>6
       DEF Inv, FinishCommit, LedgerEntry, Outcomes, Unsettled
  <2>. QED  BY <1>1, <1>2, <1>4, <2>1, LedgerMoves
<1>7. CASE FinishClean
  <2>1. LedgerEntry(r)' = LedgerEntry(r)
    BY <1>1, <1>2, <1>3, <1>7 DEF FinishClean, LedgerEntry
  <2>. QED  BY <1>1, <1>2, <1>4, <2>1, LedgerMoves
<1>. QED  BY <1>5, <1>6, <1>7

\* A launch moves an unsettled row on: the run stays open.
LEMMA LaunchLedger ==
  ASSUME Inv, NEW r \in Runs, Mark(r) \/ Own(r)
  PROVE  LedgerStep
<1>1. /\ UNCHANGED <<wt, side, resolved>>
      /\ status' = status \/ \E s \in Unsettled : status' = [status EXCEPT ![r] = s]
  BY DEF Mark, Own, LaunchOnly, Unsettled
<1>2. status[r] \in Unsettled
  BY NoRunIsNone
     DEF Inv, StepRow, LaunchAlone, InLaunch, Mark, Own, Prepared, Owned, Unsettled
<1>3. \A i \in Runs \ {r} : LedgerEntry(i)' = LedgerEntry(i)
  BY <1>1, LedgerSame DEF Inv, TypeOK
<1>4. LedgerEntry(r)' = LedgerEntry(r)
  BY <1>1, <1>2 DEF Inv, TypeOK, LedgerEntry, Unsettled, Outcomes
<1>. QED  BY <1>1, <1>3, <1>4, LedgerMoves

\* A queued run that is stopped settles.
LEMMA StopQueuedLedger ==
  ASSUME Inv, NEW r \in Runs, StopQueued(r)
  PROVE  LedgerStep
<1>1. /\ UNCHANGED <<wt, side, resolved>>
      /\ status' = [status EXCEPT ![r] = "stopped"]
  BY DEF StopQueued
<1>2. status[r] = "queued" /\ side[r] = "none"
  BY DEF Inv, QueuedIsNew, StopQueued, Queued
<1>3. \A i \in Runs \ {r} : LedgerEntry(i)' = LedgerEntry(i)
  BY <1>1, LedgerSame DEF Inv, TypeOK
<1>4. LedgerEntry(r) = "open" /\ LedgerEntry(r)' \in Outcomes
  BY <1>1, <1>2 DEF Inv, TypeOK, LedgerEntry, Unsettled, Outcomes
<1>. QED  BY <1>1, <1>3, <1>4, LedgerMoves

\* Reconciliation settles a run by its sidecar, which the ledger counted
\* already, or sends it to review.
LEMMA ReconcileLedger ==
  ASSUME Inv, NEW r \in Runs, Reconcile(r)
  PROVE  LedgerStep
<1>1. UNCHANGED <<wt, side, resolved>> /\ status[r] \in Unsettled /\ r \notin resolved
  BY DEF Inv, RowTree, Reconcile, RecoveryOnly, Unsettled, Outcomes
<1>2. \/ side[r] \in Outcomes /\ status' = [status EXCEPT ![r] = side[r]]
      \/ status' = [status EXCEPT ![r] = "interrupted"]
  <2>1. \/ side[r] \in Outcomes /\ SettleBySide(r)
        \/ Interrupt(r, Classes(r)) \/ Interrupt(r, {Unreadable(status[r])})
    BY DEF Inv, TypeOK, Reconcile, OutcomeRead, Outcomes
  <2>. QED  BY <2>1 DEF SettleBySide, Interrupt
<1>3. \A i \in Runs \ {r} : LedgerEntry(i)' = LedgerEntry(i)
  BY <1>1, <1>2, LedgerSame DEF Inv, TypeOK
<1>4. \/ LedgerEntry(r)' = LedgerEntry(r)
      \/ LedgerEntry(r) = "open" /\ LedgerEntry(r)' = "review"
  BY <1>1, <1>2 DEF Inv, TypeOK, LedgerEntry, Unsettled, Outcomes
<1>. QED  BY <1>1, <1>3, <1>4, LedgerMoves

\* The sweep removes only records that no entry depends on.
LEMMA SweepLedger ==
  ASSUME Inv, RecoveryComplete
  PROVE  LedgerStep
<1>1. UNCHANGED <<wt, status, resolved>> /\ \A r \in Runs : status[r] \notin Unsettled
  BY Born DEF Inv, Unborn, RecoveryComplete, Unsettled
<1>2. \A r \in Runs : side'[r] = side[r] \/ (~Unresolved(r) /\ side'[r] = "none")
  BY DEF RecoveryComplete
<1>3. ASSUME NEW r \in Runs PROVE LedgerEntry(r)' = LedgerEntry(r)
  <2>1. CASE side'[r] = side[r]
    BY <1>1, <2>1, LedgerSame
  <2>2. CASE status[r] \in Outcomes
    BY <1>1, <2>2 DEF LedgerEntry
  <2>3. CASE ~Unresolved(r) /\ status[r] \in {"absent", "interrupted"}
    <3>1. side[r] = "none"
      BY <2>3 DEF Inv, RowTree, ReviewSide, Unresolved
    <3>. QED  BY <1>1, <1>2, <3>1, LedgerSame
  <2>. QED  BY <1>1, <1>2, <2>1, <2>2, <2>3 DEF Inv, TypeOK
<1>. QED  BY <1>1, <1>3, LedgerStutters

\* A record that can be read at last settles the run the ledger had settled.
LEMMA RetryUnreadableLedger ==
  ASSUME Inv, NEW r \in Runs, RetryUnreadable(r)
  PROVE  LedgerStep
<1>1. UNCHANGED <<wt, resolved>> /\ status[r] = "interrupted" /\ r \notin resolved
  BY DEF RetryUnreadable, RecoveryOnly, Unresolved
<1>2. \/ UNCHANGED <<status, side>>
      \/ /\ side[r] \in Outcomes /\ status' = [status EXCEPT ![r] = side[r]]
         /\ side' = side \/ side' = [side EXCEPT ![r] = "none"]
  BY DEF RetryUnreadable, SettleBySide, DropSide, RemovesOutcome
<1>3. \A i \in Runs \ {r} : LedgerEntry(i)' = LedgerEntry(i)
  <2>1. \A i \in Runs \ {r} : status'[i] = status[i] /\ side'[i] = side[i]
    BY <1>2 DEF Inv, TypeOK
  <2>. QED  BY <1>1, <2>1, LedgerSame
<1>4. LedgerEntry(r)' = LedgerEntry(r)
  BY <1>1, <1>2 DEF Inv, TypeOK, LedgerEntry, Unsettled, Outcomes
<1>. QED  BY <1>1, <1>3, <1>4, LedgerMoves

\* A discarded review is settled as failed.
LEMMA DiscardLedger ==
  ASSUME Inv, NEW r \in Runs, Discard(r)
  PROVE  LedgerStep
<1>1. /\ wt' = wt /\ status' = [status EXCEPT ![r] = "failed"] /\ resolved' = resolved \cup {r}
      /\ side' = side \/ side' = [side EXCEPT ![r] = "none"]
      /\ status[r] = "interrupted" /\ r \notin resolved
  BY DEF Discard, DropSide, RemovesOutcome, RecoveryOnly, Unresolved
<1>2. side[r] = "none"
  <2>1. class[r] \in {"never-started", "exited"}
    BY Born DEF Inv, Discard, Verified, UnresolvedIn
  <2>. QED  BY <1>1, <2>1 DEF Inv, ReviewSide
<1>3. \A i \in Runs \ {r} : LedgerEntry(i)' = LedgerEntry(i)
  <2>1. \A i \in Runs \ {r} : status'[i] = status[i] /\ side'[i] = side[i] /\ (i \in resolved' <=> i \in resolved)
    BY <1>1 DEF Inv, TypeOK
  <2>. QED  BY <2>1, LedgerSame
<1>4. LedgerEntry(r) = "review" /\ LedgerEntry(r)' = "failed"
  BY <1>1, <1>2 DEF Inv, TypeOK, LedgerEntry, Unsettled, Outcomes
<1>. QED  BY <1>1, <1>3, <1>4, LedgerMoves

\* What is in review in the ledger is in review in the database.
LEMMA InReviewUnresolved ==
  ASSUME Inv, NEW i \in Runs, LedgerEntry(i) = "review"
  PROVE  Unresolved(i) /\ i \in 1..created
<1>1. Unresolved(i)
  BY DEF Inv, TypeOK, LedgerEntry, Unresolved, Unsettled, Outcomes
<1>. QED  BY <1>1, Born DEF Inv, Unborn, Unresolved

\* A submission is accepted, in a worktree where nothing is in review.
LEMMA SubmitLedger ==
  ASSUME Inv, NEW w \in Worktrees, Submit(w)
  PROVE  LedgerStep
<1> DEFINE old == [i \in Runs |-> LedgerEntry(i)]
           new == [i \in Runs |-> LedgerEntry(i)']
<1>0. PICK n \in Runs : n = created + 1
  BY Born DEF Inv, Submit, Replace, MayCreate
<1>1. /\ status[n] = "absent" /\ side[n] = "none"
  BY <1>0, Born DEF Inv, Unborn, Submit
<1>2. /\ wt' = [wt EXCEPT ![n] = w] /\ status' = [status EXCEPT ![n] = "queued"]
      /\ UNCHANGED <<side, resolved>>
  BY <1>0 DEF Submit, Enqueue
<1>3. \A i \in Runs \ {n} : LedgerEntry(i)' = LedgerEntry(i)
  BY <1>1, <1>2, LedgerSame DEF Inv, TypeOK
<1>4. LedgerEntry(n) = "absent" /\ LedgerEntry(n)' = "open"
  BY <1>1, <1>2 DEF Inv, TypeOK, LedgerEntry, Unsettled, Outcomes
<1>5. \A i \in Runs : LedgerEntry(i) = "review" => wt[i] # w
  BY InReviewUnresolved DEF Submit, UnresolvedIn
<1>6. new = [old EXCEPT ![n] = "open"]
  BY <1>3, <1>4
<1>7. Ledger!Accept(n, w)
  BY <1>1, <1>2, <1>4, <1>5, <1>6 DEF Ledger!Accept, Ledger!InReview
<1>. QED  BY <1>1, <1>7 DEF LedgerStep, Ledger!Next

\* The oldest run in review is replaced by exactly one new run.
LEMMA ReplaceLedger ==
  ASSUME Inv, NEW r \in Runs, Replace(r)
  PROVE  LedgerStep
<1> DEFINE old == [i \in Runs |-> LedgerEntry(i)]
           new == [i \in Runs |-> LedgerEntry(i)']
<1>0. PICK n \in Runs : n = created + 1
  BY Born DEF Inv, Submit, Replace, MayCreate
<1>1. /\ status[n] = "absent" /\ side[n] = "none" /\ n \notin resolved
  BY <1>0, Born DEF Inv, Unborn, Replace
<1>2. /\ wt' = [wt EXCEPT ![n] = wt[r]] /\ status' = [status EXCEPT ![n] = "queued"]
      /\ side' = side \/ side' = [side EXCEPT ![r] = "none"]
      /\ resolved' = resolved \cup {r} /\ Unresolved(r)
  BY <1>0 DEF Replace, Enqueue, DropSide, RemovesOutcome
<1>3. side[r] = "none" /\ r # n
  <2>1. class[r] \in {"never-started", "exited"}
    BY <1>2, Born DEF Inv, Replace, Verified, UnresolvedIn
  <2>. QED  BY <1>1, <1>2, <2>1 DEF Inv, ReviewSide, Unresolved
<1>4. \A i \in Runs \ {r, n} : LedgerEntry(i)' = LedgerEntry(i)
  <2>1. \A i \in Runs \ {r, n} : status'[i] = status[i] /\ side'[i] = side[i] /\ (i \in resolved' <=> i \in resolved)
    BY <1>1, <1>2 DEF Inv, TypeOK
  <2>. QED  BY <2>1, LedgerSame
<1>5. LedgerEntry(n) = "absent" /\ LedgerEntry(n)' = "open"
  BY <1>1, <1>2, <1>3 DEF Inv, TypeOK, LedgerEntry, Unsettled, Outcomes
<1>6. LedgerEntry(r) = "review" /\ LedgerEntry(r)' = "replaced"
  BY <1>1, <1>2, <1>3 DEF Inv, TypeOK, LedgerEntry, Unresolved, Unsettled, Outcomes
<1>7. \A i \in Runs : LedgerEntry(i) = "review" /\ wt[i] = wt[r] => r <= i
  BY InReviewUnresolved DEF Replace, Oldest, UnresolvedIn
<1>8. new = [i \in Runs |-> IF i = r THEN "replaced" ELSE IF i = n THEN "open" ELSE old[i]]
  BY <1>3, <1>4, <1>5, <1>6
<1>9. Ledger!Replace(r, n)
  BY <1>1, <1>2, <1>5, <1>6, <1>7, <1>8 DEF Ledger!Replace, Ledger!InReview
<1>. QED  BY <1>1, <1>9 DEF LedgerStep, Ledger!Next

\* A stop changes a row only when it takes a run from the queue.
LEMMA StopLedger ==
  ASSUME Inv, NEW r \in Runs, StopRun(r)
  PROVE  LedgerStep
<1>1. CASE StopQueued(r)
  BY <1>1, StopQueuedLedger
<1>2. CASE StopRefused(r) \/ StopOwned(r)
  BY <1>2, LedgerStutters, LedgerSame DEF StopRefused, StopOwned, rows
<1>. QED  BY <1>1, <1>2 DEF StopRun

\* Every step of the manager is a step of the ledger, or none.
LEMMA NextLedger == ASSUME Inv, Next PROVE LedgerStep
<1>1. CASE FinishJournal
  <2>1. finishing \in Runs
    BY <1>1 DEF Inv, TypeOK, FinishJournal, FinishCommit, FinishClean
  <2>. QED  BY <1>1, <2>1, FinishLedger
<1>2. CASE FinishCommit
  <2>1. finishing \in Runs
    BY <1>2 DEF Inv, TypeOK, FinishJournal, FinishCommit, FinishClean
  <2>. QED  BY <1>2, <2>1, FinishLedger
<1>3. CASE FinishDefer
  BY <1>3, LedgerStutters, LedgerSame DEF FinishDefer, rows
<1>4. CASE FinishClean
  <2>1. finishing \in Runs
    BY <1>4 DEF Inv, TypeOK, FinishJournal, FinishCommit, FinishClean
  <2>. QED  BY <1>4, <2>1, FinishLedger
<1>5. CASE DrainReturns
  BY <1>5, LedgerStutters, LedgerSame DEF DrainReturns, DrainOnly, rows
<1>6. CASE DrainEmpty
  BY <1>6, LedgerStutters, LedgerSame DEF DrainEmpty, DrainOnly, rows
<1>7. CASE DrainWithoutSlot
  BY <1>7, LedgerStutters, LedgerSame DEF DrainWithoutSlot, DrainOnly, rows
<1>8. CASE DrainFaulted
  BY <1>8, LedgerStutters, LedgerSame DEF DrainFaulted, DrainOnly, rows
<1>9. CASE DrainRefused
  BY <1>9, LedgerStutters, LedgerSame DEF DrainRefused, DrainOnly, rows
<1>10. CASE TimerFires
  BY <1>10, LedgerStutters, LedgerSame DEF TimerFires, rows
<1>11. CASE ResumeQueued
  BY <1>11, LedgerStutters, LedgerSame DEF ResumeQueued, rows
<1>12. CASE RetryNext
  BY <1>12, LedgerStutters, LedgerSame DEF RetryNext, rows
<1>13. CASE BeginShutdown
  BY <1>13, LedgerStutters, LedgerSame DEF BeginShutdown, rows
<1>14. CASE Exit
  BY <1>14, LedgerStutters, LedgerSame DEF Exit, Forget, rows
<1>15. CASE ShutdownRefused
  BY <1>15, LedgerStutters, LedgerSame DEF ShutdownRefused, rows
<1>16. CASE Crash
  BY <1>16, LedgerStutters, LedgerSame DEF Crash, Forget, rows
<1>17. CASE Restart
  BY <1>17, LedgerStutters, LedgerSame DEF Restart, rows
<1>18. CASE RecoveryComplete
  BY <1>18, SweepLedger
<1>19. CASE FaultBegins
  BY <1>19, LedgerStutters, LedgerSame DEF FaultBegins, WorldOnly, rows
<1>20. CASE FaultEnds
  BY <1>20, LedgerStutters, LedgerSame DEF FaultEnds, WorldOnly, rows
<1>21. CASE Fills
  BY <1>21, LedgerStutters, LedgerSame DEF Fills, WorldOnly, rows
<1>22. CASE DrainAdmits
  BY <1>22, LedgerStutters, LedgerSame DEF DrainAdmits, rows
<1>23. CASE ShutdownStops
  BY <1>23, StopLedger, LedgerStutters, LedgerSame DEF ShutdownStops, Inv, TypeOK, rows
<1>24. CASE \E r \in Runs : PrepareFails(r)
  BY <1>24, LedgerStutters, LedgerSame DEF PrepareFails, LaunchOnly, rows
<1>25. CASE \E r \in Runs : Defer(r)
  BY <1>25, LedgerStutters, LedgerSame DEF Defer, LaunchOnly, rows
<1>26. CASE \E r \in Runs : Mark(r)
  BY <1>26, LaunchLedger
<1>27. CASE \E r \in Runs : Spawn(r)
  BY <1>27, LedgerStutters, LedgerSame DEF Spawn, LaunchOnly, rows
<1>28. CASE \E r \in Runs : Own(r)
  BY <1>28, LaunchLedger
<1>29. CASE \E r \in Runs : Authorize(r)
  BY <1>29, LedgerStutters, LedgerSame DEF Authorize, LaunchOnly, rows
<1>30. CASE \E r \in Runs : SpawnError(r)
  BY <1>30, LedgerStutters, LedgerSame DEF SpawnError, ChildOnly, rows
<1>31. CASE \E r \in Runs : Close(r)
  BY <1>31, LedgerStutters, LedgerSame DEF Close, ChildOnly, rows
<1>32. CASE \E r \in Runs : Unlaunched(r)
  BY <1>32, LedgerStutters, LedgerSame DEF Unlaunched, ChildOnly, rows
<1>33. CASE \E r \in Runs : StopSettles(r)
  BY <1>33, LedgerStutters, LedgerSame DEF StopSettles, ChildOnly, rows
<1>34. CASE \E r \in Runs : StopTimesOut(r)
  BY <1>34, LedgerStutters, LedgerSame DEF StopTimesOut, rows
<1>35. CASE \E r \in Runs : Reconcile(r)
  BY <1>35, ReconcileLedger
<1>36. CASE \E r \in Runs : RetryUnreadable(r)
  BY <1>36, RetryUnreadableLedger
<1>37. CASE \E r \in Runs : VerifyExited(r)
  BY <1>37, LedgerStutters, LedgerSame DEF VerifyExited, RecoveryOnly, rows
<1>38. CASE \E r \in Runs : Discard(r)
  BY <1>38, DiscardLedger
<1>39. CASE \E r \in Runs : Replace(r)
  BY <1>39, ReplaceLedger
<1>40. CASE \E r \in Runs : TreeEnds(r)
  BY <1>40, LedgerStutters, LedgerSame DEF TreeEnds, WorldOnly, rows
<1>41. CASE \E r \in Runs : Stop(r)
  BY <1>41, StopLedger DEF Stop
<1>42. CASE \E w \in Worktrees : Submit(w)
  BY <1>42, SubmitLedger
<1>43. CASE \E w \in Worktrees : HoldBegins(w)
  BY <1>43, LedgerStutters, LedgerSame DEF HoldBegins, WorldOnly, rows
<1>44. CASE \E w \in Worktrees : HoldEnds(w)
  BY <1>44, LedgerStutters, LedgerSame DEF HoldEnds, WorldOnly, rows
<1>. QED
  BY <1>1, <1>2, <1>3, <1>4, <1>5, <1>6, <1>7, <1>8, <1>9, <1>10, <1>11, <1>12, <1>13,
     <1>14, <1>15, <1>16, <1>17, <1>18, <1>19, <1>20, <1>21, <1>22, <1>23, <1>24, <1>25,
     <1>26, <1>27, <1>28, <1>29, <1>30, <1>31, <1>32, <1>33, <1>34, <1>35, <1>36, <1>37,
     <1>38, <1>39, <1>40, <1>41, <1>42, <1>43, <1>44
  DEF Next, TurnStep, FinishStep, DrainStep, LaunchStep, RunEvent, Request

\* The manager implements the ledger: rows, sidecars, crashes, sweeps and
\* decisions together keep what a user was promised.
THEOREM LedgerKept == Spec => ImplementsLedger
<1>1. Init => Ledger!Init
  <2>1. ASSUME Init PROVE [r \in Runs |-> LedgerEntry(r)] = [r \in Runs |-> "absent"]
    BY <2>1 DEF Init, LedgerEntry, Outcomes, Unsettled
  <2>2. ASSUME Init PROVE wt \in [Runs -> Worktrees]
    BY <2>2 DEF Init
  <2>. QED  BY <2>1, <2>2 DEF Ledger!Init
<1>2. Inv /\ [Next]_vars => LedgerStep
  <2>1. ASSUME UNCHANGED vars PROVE LedgerStep
    BY <2>1, LedgerStutters, LedgerSame DEF vars, rows
  <2>. QED  BY <2>1, NextLedger
<1>. QED  BY Invariance, <1>1, <1>2, PTL DEF Spec, ImplementsLedger, Ledger!Spec,
   LedgerStep

\* Live trees are apart and accounted for, in every instance.
THEOREM TreesApart == Spec => []LiveTreesApart
<1>. QED  BY OneTree, LiveGated, PTL DEF LiveTreesApart

\* Nothing accepted is lost and nothing waits for nobody, in every instance.
THEOREM NoneIsStranded == Spec => []NothingStranded
<1>. QED  BY NotForgotten, RetriesHaveOwners, PTL DEF NothingStranded
=============================================================================
