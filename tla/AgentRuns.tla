----------------------------- MODULE AgentRuns -----------------------------
(***************************************************************************)
(* Agent runs from submission to a settled row: the scheduler of           *)
(* server/agent-manager.mjs, the run rows of server/database.mjs, the      *)
(* outcome sidecars of server/run-outcome-journal.mjs and the recovery of  *)
(* interrupted runs in server/outright-runtime.mjs.                        *)
(*                                                                         *)
(* JavaScript runs one callback at a time.  A callback that makes several  *)
(* durable writes is several actions here, so that a crash can fall        *)
(* between any two of them; what it has still to do is the "rest of the    *)
(* turn" (drain, due, timer, stops, finishing, a half-made launch), and    *)
(* nothing else of the runtime runs until the turn is over (Idle).         *)
(* Archive maintenance, transcripts and chat retargeting are left out.     *)
(***************************************************************************)
EXTENDS Integers, Sequences, FiniteSets, SequencesExt

CONSTANTS
    MaxRuns,    \* bound: runs ever created
    Worktrees,  \* worktree paths
    MaxActive,  \* settings.maxConcurrentRuns
    MaxPending, \* RESOURCE_BUDGETS.maxPendingRunOutcomes
    MaxQueued,  \* settings.maxQueuedRuns
    MaxCrashes, \* bound: deaths of the runtime that are explored
    MaxFaults   \* bound: periods of storage faults that are explored

ASSUME MaxRunsNat == MaxRuns \in Nat
\* The settings' schema and RESOURCE_BUDGETS keep both slot limits positive.
ASSUME SlotsNat == MaxActive \in Nat \ {0} /\ MaxPending \in Nat \ {0} /\ MaxQueued \in Nat
ASSUME BoundsNat == MaxCrashes \in Nat /\ MaxFaults \in Nat

Runs == 1..MaxRuns      \* in order of creation (created_at, rowid)
NoRun == 0
Outcomes == {"completed", "failed", "stopped"}
Unsettled == {"queued", "launching", "running"}

VARIABLES
    (* the database and the launch directory *)
    created,        \* runs created so far
    wt,             \* runs.worktree_path
    status,         \* runs.status
    class,          \* runs.recovery_class
    resolved,       \* runs with a recovery_decision
    pids,           \* runs whose row holds a pid
    side,           \* the outcome sidecar of the run
    (* the world *)
    tree,           \* the run's process tree
    faulty,         \* reads and writes of storage may fail
    full,           \* the measured budget refuses new work
    held,           \* worktrees held by set-up, tear-down or a restore
    (* the manager *)
    up, recovered,  \* the runtime runs; interrupted runs are reconciled
    shutdown,       \* shuttingDown and the state of shutdownPromise
    queue, active, pending, \* queue, active, pendingOutcomes
    step,           \* how far the launch of an owned run has come
    closed, stopped, stopping, \* state.closed, .stopped, .stopping
    outcome,        \* state.terminalOutcome
    journaled,      \* state.outcomeJournaled
    refusedOnce,    \* state.finishFailureCount > 0
    armed,          \* diskRetryTimer
    admissionRetry, \* admissionRetryRuns
    queueRead,      \* queueReadRetryPending
    undrained,      \* schedule() queued a run and failed before drain()
    (* the rest of the current turn *)
    finishing, phase, drain, due, timer, stops,
    (* bounds *)
    crashes, faults

rows   == <<created, wt, status, class, resolved, pids, side>>
store  == <<faulty, full, faults>>
world  == <<tree, store, held>>
life   == <<up, recovered, shutdown, crashes>>
owners == <<active, pending, step, closed, stopped, stopping, outcome,
            journaled, refusedOnce>>
retry  == <<armed, admissionRetry, queueRead, undrained>>
turn   == <<finishing, phase, drain, due, timer, stops>>
vars   == <<rows, world, life, queue, owners, retry, turn>>

---------------------------------------------------------------------------
(* What the code asks of the state. *)

Owned == active \cup pending
ShuttingDown == shutdown # "no"
Unresolved(r) == status[r] = "interrupted" /\ r \notin resolved
UnresolvedIn(w) == {r \in 1..created : wt[r] = w /\ Unresolved(r)}
Queued(r) == \E i \in DOMAIN queue : queue[i] = r
QueuedRows == {r \in 1..created : status[r] = "queued"}

\* state.pendingFinish: a frozen outcome whose terminal row is still owed.
Frozen == {r \in Owned : outcome[r] # "none"}
Gone(r) == tree[r] \notin {"waiting", "live"}
Childless(r) == step[r] \in {"none", "preparing", "marked"}

\* Mutant: only a launched run counts as work.
HasLaunchedWork(w) == \E r \in active : wt[r] = w /\ step[r] = "launched"

\* hasWorktreeWork
HasWork(w) == \E r \in Owned \cup ToSet(queue) : wt[r] = w

\* conflictsWithActiveRun and heldByWorktreeLifecycle
Launchable(r) == wt[r] \notin held /\ \A o \in Owned : wt[o] # wt[r]

HasSlot == /\ Cardinality(active) < MaxActive
           /\ Cardinality(active) + Cardinality(pending) < MaxPending

\* A child without a process: its error event precedes every other callback.
SpawnFailed(r) == /\ step[r] \in {"launched", "unlaunching"}
                  /\ tree[r] = "none" /\ r \notin closed

\* A launch whose synchronous part is under way.
Launching == \E r \in active : \/ step[r] \in {"marked", "spawned", "owned"}
                               \/ SpawnFailed(r)

\* The current callback makes no nested call.
Between == finishing = NoRun /\ drain = "no" /\ ~Launching

\* The current callback has returned.
Idle == Between /\ due = {} /\ ~timer /\ stops = {}

Serving == up /\ recovered /\ Idle /\ ~ShuttingDown

---------------------------------------------------------------------------
(* The disk retry timer. *)

\* retryUnknownDiskUsage
RetryLater == armed' = (armed \/ ~ShuttingDown \/ ~(Frozen \subseteq journaled))

\* Mutant: a drained queue also cancels the retry of owed outcomes.
ClearRetryOfQueue(read, admissions) ==
    armed' = (armed /\ ~ShuttingDown /\ (read \/ admissions # {}))

\* clearDiskRetry, for the retry owners that are left.
ClearRetry(read, admissions) ==
    armed' = (armed /\ ~ShuttingDown /\ (read \/ admissions # {} \/ Frozen # {}))

\* Mutant: unknown disk usage waits for a release like a full budget.
RetryDeferredFaultsOnly(admissions, measured) ==
    armed' \in IF admissions = {} THEN {armed} ELSE {TRUE}

\* retryDeferredAdmission: only a measured, full budget may arm nothing.
RetryDeferred(admissions, measured) ==
    armed' \in IF measured /\ admissions = {} THEN {armed, TRUE} ELSE {TRUE}

---------------------------------------------------------------------------
(* Finishing a run: freeze the outcome, journal it, commit it, let go.     *)

\* Mutant: a later finish freezes the outcome again.
FinishAgain(r, o) ==
    /\ outcome' = [outcome EXCEPT ![r] = o]
    /\ finishing' = r
    /\ phase' = "journal"

\* finish(): a later finish keeps the outcome an earlier one froze.
Finish(r, o) ==
    /\ outcome' = [outcome EXCEPT ![r] = IF @ = "none" THEN o ELSE @]
    /\ finishing' = r
    /\ phase' = "journal"

NoFinish == UNCHANGED <<outcome, finishing, phase>>

\* saveRunOutcome writes a new file and renames it.  A save that fails after
\* its rename leaves a readable record that the manager does not count on.
SavesOutcome(r) == side' = [side EXCEPT ![r] = outcome[r]]

SaveFails(r) == faulty /\ (SavesOutcome(r) \/ UNCHANGED side)

\* removeRunOutcome; a record that is not there is no error.
RemovesOutcome(r) == side' = [side EXCEPT ![r] = "none"]

\* What readRunOutcome may answer: the record (one that saveRunOutcome wrote
\* passes its checks), none, or an error that is not the absence of the file.
OutcomeRead(r) == {side[r]} \cup (IF faulty THEN {"unavailable"} ELSE {})

\* persistTerminalOutcome: savePendingRunOutcome.
FinishJournal ==
    /\ up /\ finishing # NoRun /\ phase = "journal"
    /\ phase' = "commit"
    /\ \/ SavesOutcome(finishing) /\ journaled' = journaled \cup {finishing}
       \/ SaveFails(finishing) /\ finishing \notin journaled /\ UNCHANGED journaled
    /\ UNCHANGED <<created, wt, status, class, resolved, pids, world, life, queue,
                   active, pending, step, closed, stopped, stopping, outcome,
                   refusedOnce, retry, finishing, drain, due, timer, stops>>

\* persistTerminalOutcome: finishRun.
FinishCommit ==
    /\ up /\ finishing # NoRun /\ phase = "commit"
    /\ status' = [status EXCEPT ![finishing] = outcome[finishing]]
    /\ pids' = pids \ {finishing}
    /\ phase' = "clean"
    /\ UNCHANGED <<created, wt, class, resolved, side, world, life, queue, owners,
                   retry, finishing, drain, due, timer, stops>>

\* deferFailedTerminalOutcome.  A second refusal, or one that will persist,
\* gives the process slot back while the outcome stays owned.
FinishDefer ==
    /\ up /\ finishing # NoRun /\ phase = "commit" /\ faulty
    /\ finishing' = NoRun
    /\ refusedOnce' = refusedOnce \cup {finishing}
    /\ RetryLater
    /\ \E persistent \in BOOLEAN :
         IF persistent \/ finishing \in refusedOnce
         THEN /\ active' = active \ {finishing}
              /\ pending' = pending \cup {finishing}
              /\ drain' = "enter"
         ELSE UNCHANGED <<active, pending, drain>>
    /\ stopping' = stopping \ {finishing}
    /\ shutdown' = IF shutdown = "waiting" /\ finishing \in stopping
                   THEN "failing" ELSE shutdown
    /\ UNCHANGED <<rows, world, up, recovered, crashes, queue, step, closed, stopped,
                   outcome, journaled, admissionRetry, queueRead, undrained,
                   phase, due, timer, stops>>

\* completeTerminalOutcome
FinishClean ==
    /\ up /\ finishing # NoRun /\ phase = "clean"
    /\ \/ finishing \in journaled /\ RemovesOutcome(finishing)
       \/ (finishing \in journaled => faulty) /\ UNCHANGED side
    /\ active' = active \ {finishing}
    /\ pending' = pending \ {finishing}
    /\ step' = [step EXCEPT ![finishing] = "none"]
    /\ closed' = closed \ {finishing}
    /\ stopped' = stopped \ {finishing}
    /\ stopping' = stopping \ {finishing}
    /\ outcome' = [outcome EXCEPT ![finishing] = "none"]
    /\ journaled' = journaled \ {finishing}
    /\ refusedOnce' = refusedOnce \ {finishing}
    /\ admissionRetry' = admissionRetry \ {finishing}
    /\ finishing' = NoRun
    /\ drain' = "enter"
    /\ UNCHANGED <<created, wt, status, class, resolved, pids, world, life, queue,
                   armed, queueRead, undrained, phase, due, timer, stops>>

---------------------------------------------------------------------------
(* drain() and launchNextQueuedRun().                                      *)

Draining(state) == up /\ finishing = NoRun /\ ~Launching /\ drain \in state

DrainOnly == UNCHANGED <<rows, world, life, owners, finishing, phase, due, timer, stops>>

\* drain() does nothing while shutting down; its loop ends on an empty queue
\* or without a free slot.
DrainReturns ==
    /\ Draining({"enter", "loop"})
    /\ \/ ShuttingDown
       \/ drain = "loop" /\ (queue = <<>> \/ ~HasSlot)
    /\ drain' = "no"
    /\ DrainOnly /\ UNCHANGED <<queue, retry>>

DrainEmpty ==
    /\ Draining({"enter"}) /\ ~ShuttingDown /\ queue = <<>>
    /\ queueRead' = FALSE
    /\ admissionRetry' = {}
    /\ ClearRetry(FALSE, {})
    /\ drain' = "no" /\ undrained' = FALSE
    /\ DrainOnly /\ UNCHANGED queue

DrainWithoutSlot ==
    /\ Draining({"enter"}) /\ ~ShuttingDown /\ queue # <<>> /\ ~HasSlot
    /\ IF Cardinality(active) >= MaxActive
       THEN queueRead' = FALSE /\ ClearRetry(FALSE, admissionRetry)
       ELSE UNCHANGED <<queueRead, armed>>
    /\ drain' = "no" /\ undrained' = FALSE
    /\ DrainOnly /\ UNCHANGED <<queue, admissionRetry>>

\* getSettings() or canLaunchRun() throws.
DrainFaulted ==
    /\ Draining({"enter", "loop"}) /\ ~ShuttingDown /\ queue # <<>>
    /\ faulty /\ (drain = "loop" => HasSlot)
    /\ queueRead' = TRUE
    /\ armed' = TRUE
    /\ drain' = "no" /\ undrained' = FALSE
    /\ DrainOnly /\ UNCHANGED <<queue, admissionRetry>>

\* canLaunchRun() is false: the budget is full, or its usage is unknown.
DrainRefused ==
    /\ Draining({"enter", "loop"}) /\ ~ShuttingDown /\ queue # <<>> /\ HasSlot
    /\ queueRead' = FALSE
    /\ \/ full /\ RetryDeferred(admissionRetry, TRUE)
       \/ faulty /\ RetryDeferred(admissionRetry, FALSE)
    /\ drain' = "no" /\ undrained' = FALSE
    /\ DrainOnly /\ UNCHANGED <<queue, admissionRetry>>

\* The first entry that conflicts with no owned run and no hold is launched.
DrainAdmits ==
    /\ Draining({"enter", "loop"}) /\ ~ShuttingDown /\ queue # <<>> /\ HasSlot /\ ~full
    /\ queueRead' = FALSE
    /\ ClearRetry(FALSE, admissionRetry)
    /\ undrained' = FALSE
    /\ LET ready == {i \in DOMAIN queue : Launchable(queue[i])}
       IN  \/ ready = {} /\ drain' = "no" /\ UNCHANGED <<queue, active, step>>
           \/ \E first \in ready :
                /\ \A i \in ready : first <= i
                /\ queue' = RemoveAt(queue, first)
                /\ active' = active \cup {queue[first]}
                /\ step' = [step EXCEPT ![queue[first]] = "preparing"]
                /\ drain' = "loop"
    /\ UNCHANGED <<rows, world, life, pending, closed, stopped, stopping, outcome,
                   journaled, refusedOnce, admissionRetry, finishing, phase, due,
                   timer, stops>>

---------------------------------------------------------------------------
(* Submission and the launch of one run.                                   *)

\* createRun, then schedule(): its run.queued event may fail between the
\* queue and drain().
Enqueue(r, w) ==
    /\ created' = r
    /\ wt' = [wt EXCEPT ![r] = w]
    /\ queue' = Append(queue, r)
    /\ \/ drain' = "enter" /\ UNCHANGED undrained
       \/ faulty /\ undrained' = TRUE /\ UNCHANGED drain

MayCreate == /\ created < MaxRuns
             /\ ~full
             /\ Cardinality(QueuedRows) < MaxQueued

\* POST /api/conversations/:id/runs
Submit(w) ==
    /\ Serving /\ MayCreate
    /\ w \notin held
    /\ UnresolvedIn(w) = {}
    /\ Enqueue(created + 1, w)
    /\ status' = [status EXCEPT ![created + 1] = "queued"]
    /\ UNCHANGED <<class, resolved, pids, side, world, life, owners, armed,
                   admissionRetry, queueRead, finishing, phase, due, timer, stops>>

\* Mutant: the launch does not look at state.stopped after its awaits.
PreparedUnchecked(r) ==
    /\ up /\ Idle /\ ~ShuttingDown
    /\ r \in active /\ step[r] = "preparing"

\* launchQueued resumes from prepareQueuedLaunch and launchCommand.
Prepared(r) ==
    /\ up /\ Idle /\ ~ShuttingDown
    /\ r \in active /\ step[r] = "preparing"
    /\ r \notin stopped /\ outcome[r] = "none"

LaunchOnly == UNCHANGED <<created, wt, class, resolved, side, store, held, life,
                          pending, closed, stopped, stopping, journaled, refusedOnce,
                          undrained, drain, due, timer, stops>>

\* A target, trust, account or read failure before the launching marker.
PrepareFails(r) ==
    /\ Prepared(r)
    /\ Finish(r, "failed")
    /\ LaunchOnly /\ UNCHANGED <<status, pids, tree, queue, active, step, armed,
                                 admissionRetry, queueRead>>

\* Mutant: a deferred entry does not return to the queue.
DeferDropped(r) ==
    /\ Prepared(r)
    /\ active' = active \ {r}
    /\ step' = [step EXCEPT ![r] = "none"]
    /\ \/ full /\ RetryDeferred(admissionRetry, TRUE) /\ UNCHANGED admissionRetry
       \/ /\ faulty
          /\ admissionRetry' \in {admissionRetry, admissionRetry \cup {r}}
          /\ RetryDeferred(admissionRetry', FALSE)
    /\ LaunchOnly /\ NoFinish
    /\ UNCHANGED <<status, pids, tree, queue, queueRead>>

\* preflightAgentAdmission defers: the run goes back to the head of the queue.
Defer(r) ==
    /\ Prepared(r)
    /\ active' = active \ {r}
    /\ step' = [step EXCEPT ![r] = "none"]
    /\ queue' = <<r>> \o queue
    /\ \/ full /\ RetryDeferred(admissionRetry, TRUE) /\ UNCHANGED admissionRetry
       \/ /\ faulty
          /\ admissionRetry' \in {admissionRetry, admissionRetry \cup {r}}
          /\ RetryDeferred(admissionRetry', FALSE)
    /\ LaunchOnly /\ NoFinish
    /\ UNCHANGED <<status, pids, tree, queueRead>>

\* Phase 1: the preflight passes and the launching marker commits, or is
\* refused (storage, or the account was removed).
Mark(r) ==
    /\ Prepared(r) /\ ~full
    /\ admissionRetry' = admissionRetry \ {r}
    /\ ClearRetry(queueRead, admissionRetry \ {r})
    /\ \/ /\ status' = [status EXCEPT ![r] = "launching"]
          /\ step' = [step EXCEPT ![r] = "marked"]
          /\ NoFinish
       \/ Finish(r, "failed") /\ UNCHANGED <<status, step>>
    /\ LaunchOnly /\ UNCHANGED <<pids, tree, queue, active, queueRead>>

\* Mutant: the provider starts without waiting for its authorization.
SpawnUngated(r) ==
    /\ up /\ step[r] = "marked" /\ finishing = NoRun
    /\ step' = [step EXCEPT ![r] = "spawned"]
    /\ tree' = [tree EXCEPT ![r] = "live"]
    /\ NoFinish
    /\ LaunchOnly /\ UNCHANGED <<status, pids, queue, active, armed, admissionRetry,
                                 queueRead>>

\* run.started is recorded and the wrapper spawned; a spawn that fails may
\* throw, or return a child without a pid.
Spawn(r) ==
    /\ up /\ step[r] = "marked" /\ finishing = NoRun
    /\ \/ /\ step' = [step EXCEPT ![r] = "spawned"]
          /\ tree' \in {tree, [tree EXCEPT ![r] = "waiting"]}
          /\ NoFinish
       \/ /\ Finish(r, "failed")
          /\ step' = [step EXCEPT ![r] = "preparing"]
          /\ UNCHANGED tree
    /\ LaunchOnly /\ UNCHANGED <<status, pids, queue, active, armed, admissionRetry,
                                 queueRead>>

\* Phase 2: durable process ownership before the provider is authorized.  A
\* refused commit kills the wrapper and waits for its close.
Own(r) ==
    /\ up /\ step[r] = "spawned"
    /\ \/ /\ status' = [status EXCEPT ![r] = "running"]
          /\ pids' = IF tree[r] = "none" THEN pids ELSE pids \cup {r}
          /\ step' = [step EXCEPT ![r] = "owned"]
       \/ /\ faulty
          /\ step' = [step EXCEPT ![r] = "unlaunching"]
          /\ UNCHANGED <<status, pids>>
    /\ LaunchOnly /\ NoFinish
    /\ UNCHANGED <<tree, queue, active, armed, admissionRetry, queueRead>>

\* Phase 3: authorize.  From here on the provider may act.
Authorize(r) ==
    /\ up /\ step[r] = "owned"
    /\ step' = [step EXCEPT ![r] = "launched"]
    /\ tree' = [tree EXCEPT ![r] = IF @ = "waiting" THEN "live" ELSE @]
    /\ LaunchOnly /\ NoFinish
    /\ UNCHANGED <<status, pids, queue, active, armed, admissionRetry, queueRead>>

---------------------------------------------------------------------------
(* The end of a child.                                                     *)

ChildOnly == UNCHANGED <<rows, world, life, queue, active, pending, stopped,
                         journaled, refusedOnce, retry, drain, due, timer, stops>>

\* The child's error event: it never had a process.
SpawnError(r) ==
    /\ up /\ finishing = NoRun /\ r \in active /\ SpawnFailed(r)
    /\ closed' = closed \cup {r}
    /\ IF step[r] = "launched" THEN Finish(r, "failed") ELSE NoFinish
    /\ ChildOnly /\ UNCHANGED <<step, stopping>>

\* The child's close event.  The wrapper closes after its tree ended.  The
\* close of a stopped run, or of one whose launch was torn down, finishes
\* nothing itself.
Close(r) ==
    /\ up /\ Idle /\ r \notin closed
    /\ r \in active /\ step[r] \in {"launched", "unlaunching", "orphaned"}
    /\ tree[r] \in {"ended", "abandoned"}
    /\ closed' = closed \cup {r}
    /\ IF step[r] = "launched" /\ r \notin stopped
       THEN \E o \in {"completed", "failed"} :
              (o = "completed" => tree[r] = "ended") /\ Finish(r, o)
       ELSE NoFinish
    /\ ChildOnly /\ UNCHANGED <<step, stopping>>

\* start() after a refused running commit: the wrapper closed, or did not
\* within terminationTimeoutMs (preserveActiveRun).
Unlaunched(r) ==
    /\ up /\ Idle /\ r \in active /\ step[r] = "unlaunching"
    /\ step' = [step EXCEPT ![r] = "orphaned"]
    /\ IF r \in closed /\ r \notin stopped THEN Finish(r, "failed") ELSE NoFinish
    /\ ChildOnly /\ UNCHANGED <<closed, stopping>>

---------------------------------------------------------------------------
(* Stop.                                                                   *)

\* stopQueuedRun, when the row commits.
StopQueued(r) ==
    /\ \E i \in DOMAIN queue : queue[i] = r /\ queue' = RemoveAt(queue, i)
    /\ status' = [status EXCEPT ![r] = "stopped"]
    /\ admissionRetry' = admissionRetry \ {r}
    /\ IF queue' = <<>>
       THEN queueRead' = FALSE /\ ClearRetry(FALSE, admissionRetry \ {r})
       ELSE UNCHANGED <<queueRead, armed>>
    /\ NoFinish
    /\ UNCHANGED <<created, wt, class, resolved, pids, side, stopped, stopping, shutdown>>

\* stopQueuedRun, when it does not: the entry stays queued.
StopRefused(r) ==
    /\ Queued(r) /\ faulty
    /\ shutdown' = IF shutdown = "waiting" THEN "failing" ELSE shutdown
    /\ NoFinish
    /\ UNCHANGED <<rows, queue, armed, admissionRetry, queueRead, stopped, stopping>>

\* An owned run: settle a frozen outcome, stop a childless launch at once,
\* ask a live tree to end, or join the stop under way.
StopOwned(r) ==
    /\ r \in Owned
    /\ IF outcome[r] # "none" THEN Finish(r, "stopped") /\ UNCHANGED <<stopped, stopping>>
       ELSE IF r \in stopping THEN NoFinish /\ UNCHANGED <<stopped, stopping>>
       ELSE /\ stopped' = stopped \cup {r}
            /\ IF Childless(r) THEN Finish(r, "stopped") /\ UNCHANGED stopping
                               ELSE NoFinish /\ stopping' = stopping \cup {r}
    /\ UNCHANGED <<rows, queue, armed, admissionRetry, queueRead, shutdown>>

\* stop()
StopRun(r) ==
    /\ StopQueued(r) \/ StopRefused(r) \/ StopOwned(r)
    /\ UNCHANGED <<world, up, recovered, crashes, active, pending, step, closed,
                   journaled, refusedOnce, undrained, drain, due, timer>>

\* POST /api/runs/:id/stop
Stop(r) == Serving /\ StopRun(r) /\ UNCHANGED stops

\* waitForOwnedAgentTree ends: the child closed and its proof is gone.
StopSettles(r) ==
    /\ up /\ Idle /\ r \in stopping /\ r \in Owned
    /\ r \in closed /\ Gone(r)
    /\ Finish(r, "stopped")
    /\ ChildOnly /\ UNCHANGED <<closed, step, stopping>>

\* waitForOwnedAgentTree gives up; the slot stays charged.
StopTimesOut(r) ==
    /\ up /\ Idle /\ r \in stopping
    /\ ~(r \in closed /\ Gone(r))
    /\ stopping' = stopping \ {r}
    /\ shutdown' = IF shutdown = "waiting" THEN "failing" ELSE shutdown
    /\ NoFinish
    /\ UNCHANGED <<rows, world, up, recovered, crashes, queue, active, pending, step,
                   closed, stopped, journaled, refusedOnce, retry, drain, due, timer, stops>>

---------------------------------------------------------------------------
(* Retries: the timer, resumeQueued() and their common tail.               *)

\* Mutant: only outcomes that still hold a process slot are retried.
RetryingActive == /\ due' = Frozen \cap active
                  /\ timer' = TRUE
                  /\ UNCHANGED <<finishing, phase, drain, stops>>

Retrying == /\ due' = Frozen
            /\ timer' = TRUE
            /\ UNCHANGED <<finishing, phase, drain, stops>>

\* diskRetryTimer fires.
TimerFires ==
    /\ up /\ Idle /\ armed
    /\ armed' = FALSE
    /\ Retrying
    /\ UNCHANGED <<rows, world, life, queue, owners, admissionRetry, queueRead, undrained>>

\* resumeQueued(), called after an operator frees capacity or edits settings.
ResumeQueued ==
    /\ Serving
    /\ full' \in {full, FALSE}
    /\ Retrying
    /\ UNCHANGED <<rows, tree, faulty, faults, held, life, queue, owners, retry>>

\* retryPendingFinishes: one owed outcome after the other, then drain().
RetryNext ==
    /\ up /\ Between /\ (due # {} \/ timer)
    /\ IF due = {}
       THEN timer' = FALSE /\ drain' = "enter" /\ NoFinish /\ UNCHANGED due
       ELSE \E r \in due :
              /\ due' = due \ {r}
              /\ IF r \in Frozen THEN Finish(r, "failed") ELSE NoFinish
              /\ UNCHANGED <<timer, drain>>
    /\ UNCHANGED <<rows, world, life, queue, active, pending, step, closed, stopped,
                   stopping, journaled, refusedOnce, retry, stops>>

---------------------------------------------------------------------------
(* Shutdown, crash and restart.                                            *)

\* shutdown(): every queued run, then every owned one, is told to stop.
BeginShutdown ==
    /\ up /\ Idle /\ shutdown \in {"no", "refused"}
    /\ shutdown' = "waiting"
    /\ armed' = FALSE
    /\ stops' = ToSet(queue) \cup Owned
    /\ UNCHANGED <<rows, world, up, recovered, crashes, queue, owners, admissionRetry,
                   queueRead, undrained, finishing, phase, drain, due, timer>>

ShutdownStops ==
    /\ up /\ Between /\ due = {} /\ ~timer /\ stops # {}
    /\ \E r \in stops :
         /\ Queued(r) \/ \A q \in stops : ~Queued(q)
         /\ stops' = stops \ {r}
         /\ \/ StopRun(r)
            \/ /\ ~Queued(r) /\ r \notin Owned
               /\ NoFinish
               /\ UNCHANGED <<rows, world, life, queue, active, pending, step, closed,
                              stopped, stopping, journaled, refusedOnce, retry, drain,
                              due, timer>>

\* Nothing of the manager outlives the process.
Forget ==
    /\ up' = FALSE /\ recovered' = FALSE /\ shutdown' = "no"
    /\ queue' = <<>> /\ active' = {} /\ pending' = {}
    /\ step' = [r \in Runs |-> "none"]
    /\ closed' = {} /\ stopped' = {} /\ stopping' = {}
    /\ outcome' = [r \in Runs |-> "none"]
    /\ journaled' = {} /\ refusedOnce' = {}
    /\ armed' = FALSE /\ admissionRetry' = {} /\ queueRead' = FALSE /\ undrained' = FALSE
    /\ finishing' = NoRun /\ phase' = "journal" /\ drain' = "no"
    /\ due' = {} /\ timer' = FALSE /\ stops' = {}
    /\ UNCHANGED <<rows, world>>

StopsSettled == stopping = {} /\ \A r \in active : step[r] # "unlaunching"

\* Every stop succeeded and each outcome still owed is journaled: the
\* runtime exits.
Exit ==
    /\ up /\ Idle /\ shutdown = "waiting" /\ StopsSettled
    /\ Frozen \subseteq journaled
    /\ Forget /\ UNCHANGED crashes

\* Otherwise shutdown() rejects and may be called again.
ShutdownRefused ==
    /\ up /\ Idle /\ StopsSettled
    /\ \/ shutdown = "failing"
       \/ shutdown = "waiting" /\ ~(Frozen \subseteq journaled)
    /\ shutdown' = "refused"
    /\ IF Frozen # {} THEN RetryLater ELSE UNCHANGED armed
    /\ UNCHANGED <<rows, world, up, recovered, crashes, queue, owners, admissionRetry,
                   queueRead, undrained, turn>>

Crash ==
    /\ up /\ crashes < MaxCrashes
    /\ crashes' = crashes + 1
    /\ Forget

Restart ==
    /\ ~up /\ up' = TRUE
    /\ UNCHANGED <<rows, world, recovered, shutdown, crashes, queue, owners, retry, turn>>

---------------------------------------------------------------------------
(* Recovery of the runs of a dead runtime.                                 *)

RecoveryOnly == UNCHANGED <<created, wt, store, held, life, queue, owners, retry, turn>>

\* Mutant: only the group leader is probed, not its descendants.
ProbesLeader(r) == {"alive", "exited", "unknown"}

\* probeAlive of a recorded pid; a pid in use by a stranger may look alive.
ProbeVerdicts(r) == IF Gone(r) THEN {"alive", "exited", "unknown"} ELSE {"alive", "unknown"}

Classes(r) ==
    CASE status[r] \in {"queued", "launching"} -> {"never-started"}
      [] status[r] = "running" /\ r \in pids   -> ProbeVerdicts(r)
      [] OTHER                                 -> {"unknown"}

Unreadable(s) == CASE s = "queued" -> "unreadable-queued"
                   [] s = "launching" -> "unreadable-launching"
                   [] OTHER -> "unreadable-running"

Interrupt(r, classes) ==
    /\ status' = [status EXCEPT ![r] = "interrupted"]
    /\ \E c \in classes : class' = [class EXCEPT ![r] = c]

\* A durable outcome settles the row it belongs to.
SettleBySide(r) ==
    /\ status' = [status EXCEPT ![r] = side[r]]
    /\ pids' = pids \ {r}
    /\ UNCHANGED class

\* reconcileInterruptedRuns, one row: a durable outcome wins over any probe.
Reconcile(r) ==
    /\ up /\ ~recovered /\ ~ShuttingDown /\ r <= created
    /\ status[r] \in Unsettled
    /\ \E found \in OutcomeRead(r) :
         \/ found \in Outcomes /\ SettleBySide(r)
         \/ found = "none" /\ Interrupt(r, Classes(r)) /\ UNCHANGED pids
         \/ found = "unavailable" /\ Interrupt(r, {Unreadable(status[r])}) /\ UNCHANGED pids
    /\ RecoveryOnly /\ UNCHANGED <<resolved, side, tree>>

\* No row is left: completeRunRecovery, and the sweep of stale sidecars.
RecoveryComplete ==
    /\ up /\ ~recovered /\ ~ShuttingDown
    /\ \A r \in 1..created : status[r] \notin Unsettled
    /\ recovered' = TRUE
    /\ \/ side' = [r \in Runs |-> IF Unresolved(r) THEN side[r] ELSE "none"]
       \/ faulty /\ UNCHANGED side
    /\ UNCHANGED <<created, wt, status, class, resolved, pids, world, up, shutdown,
                   crashes, queue, owners, retry, turn>>

\* A removal that fails is left to the sweep of the next start.
DropSide(r) == RemovesOutcome(r) \/ (faulty /\ UNCHANGED side)

\* retryUnreadableRunOutcome; a record it cannot read is answered 503.
RetryUnreadable(r) ==
    /\ Serving /\ r <= created /\ Unresolved(r)
    /\ class[r] \in {"unreadable-queued", "unreadable-launching", "unreadable-running"}
    /\ \/ side[r] \in Outcomes /\ SettleBySide(r) /\ DropSide(r)
       \/ /\ side[r] = "none"
          /\ class' = [class EXCEPT ![r] =
                         IF @ = "unreadable-running" THEN "unknown" ELSE "never-started"]
          /\ UNCHANGED <<status, pids, side>>
    /\ RecoveryOnly /\ UNCHANGED <<resolved, tree>>

\* The verification of one run by POST /api/runs/:id/resume: the recorded
\* process is gone, or its proven owner ends it now.
VerifyExited(r) ==
    /\ Serving /\ r \in pids /\ Unresolved(r)
    /\ class[r] \in {"alive", "unknown"}
    /\ class' = [class EXCEPT ![r] = "exited"]
    /\ tree' = [tree EXCEPT ![r] = CASE @ = "live" -> "ended"
                                     [] @ = "waiting" -> "abandoned"
                                     [] OTHER -> @]
    /\ RecoveryOnly /\ UNCHANGED <<status, resolved, pids, side>>

\* Mutant: a process that cannot be verified is taken for an exited one.
VerifiedOrUnknown(r) ==
    \A i \in UnresolvedIn(wt[r]) : class[i] \in {"never-started", "exited", "unknown"}

\* Every interrupted run of the worktree is verified before any decision.
Verified(r) == \A i \in UnresolvedIn(wt[r]) : class[i] \in {"never-started", "exited"}

\* resolveInterruptedRun("discard")
Discard(r) ==
    /\ Serving /\ r <= created /\ Unresolved(r) /\ Verified(r)
    /\ status' = [status EXCEPT ![r] = "failed"]
    /\ resolved' = resolved \cup {r}
    /\ DropSide(r)
    /\ RecoveryOnly /\ UNCHANGED <<class, pids, tree>>

\* RECOVERY_ORDER_REQUIRED
Oldest(r) == \A i \in UnresolvedIn(wt[r]) : r <= i

\* beginInterruptedRunRecovery and schedule(): retry or resume the oldest.
Replace(r) ==
    /\ Serving /\ r <= created /\ Unresolved(r) /\ Verified(r) /\ MayCreate
    /\ Oldest(r)
    /\ resolved' = resolved \cup {r}
    /\ DropSide(r)
    /\ Enqueue(created + 1, wt[r])
    /\ status' = [status EXCEPT ![created + 1] = "queued"]
    /\ UNCHANGED <<class, pids, world, life, owners, armed, admissionRetry, queueRead,
                   finishing, phase, due, timer, stops>>

---------------------------------------------------------------------------
(* The world.                                                              *)

WorldOnly == UNCHANGED <<rows, life, queue, owners, retry>>

\* A provider tree ends; an unauthorized wrapper leaves without starting one.
TreeEnds(r) ==
    /\ tree[r] \in {"live", "waiting"}
    /\ tree' = [tree EXCEPT ![r] = IF @ = "live" THEN "ended" ELSE "abandoned"]
    /\ WorldOnly /\ UNCHANGED <<store, held, turn>>

FaultBegins ==
    /\ ~faulty /\ faults < MaxFaults
    /\ faulty' = TRUE /\ faults' = faults + 1
    /\ WorldOnly /\ UNCHANGED <<tree, full, held, turn>>

FaultEnds ==
    /\ faulty /\ faulty' = FALSE
    /\ WorldOnly /\ UNCHANGED <<tree, full, faults, held, turn>>

\* Retained history fills up; only ResumeQueued's callers make room.
Fills ==
    /\ ~full /\ Idle /\ full' = TRUE
    /\ WorldOnly /\ UNCHANGED <<tree, faulty, faults, held, turn>>

\* claim(): set-up, tear-down or a restore takes a worktree without work.
HoldBegins(w) ==
    /\ Serving /\ w \notin held
    /\ ~HasWork(w) /\ UnresolvedIn(w) = {}
    /\ held' = held \cup {w}
    /\ WorldOnly /\ UNCHANGED <<tree, store, turn>>

\* release(): onRelease resumes the queue unless the runtime is leaving.
HoldEnds(w) ==
    /\ up /\ Idle /\ w \in held
    /\ held' = held \ {w}
    /\ IF ShuttingDown THEN UNCHANGED turn ELSE Retrying
    /\ WorldOnly /\ UNCHANGED <<tree, store>>

---------------------------------------------------------------------------
(* The specification.                                                      *)

Init ==
    /\ created = 0 /\ wt \in {[r \in Runs |-> w] : w \in Worktrees}
    /\ status = [r \in Runs |-> "absent"]
    /\ class = [r \in Runs |-> "none"]
    /\ resolved = {} /\ pids = {}
    /\ side = [r \in Runs |-> "none"]
    /\ tree = [r \in Runs |-> "none"]
    /\ faulty = FALSE /\ full = FALSE /\ held = {}
    /\ up = TRUE /\ recovered = TRUE /\ shutdown = "no"
    /\ queue = <<>> /\ active = {} /\ pending = {}
    /\ step = [r \in Runs |-> "none"]
    /\ closed = {} /\ stopped = {} /\ stopping = {}
    /\ outcome = [r \in Runs |-> "none"]
    /\ journaled = {} /\ refusedOnce = {}
    /\ armed = FALSE /\ admissionRetry = {} /\ queueRead = FALSE /\ undrained = FALSE
    /\ finishing = NoRun /\ phase = "journal" /\ drain = "no"
    /\ due = {} /\ timer = FALSE /\ stops = {}
    /\ crashes = 0 /\ faults = 0

FinishStep == FinishJournal \/ FinishCommit \/ FinishDefer \/ FinishClean

DrainStep == \/ DrainReturns \/ DrainEmpty \/ DrainWithoutSlot
             \/ DrainFaulted \/ DrainRefused \/ DrainAdmits

LaunchStep(r) == Spawn(r) \/ Own(r) \/ Authorize(r) \/ SpawnError(r)

\* What the current callback has still to do.
TurnStep == \/ FinishStep \/ DrainStep \/ RetryNext \/ ShutdownStops
            \/ \E r \in Runs : LaunchStep(r)

\* Callbacks of the event loop that belong to one run.
RunEvent(r) == \/ PrepareFails(r) \/ Defer(r) \/ Mark(r)
               \/ Close(r) \/ Unlaunched(r) \/ StopSettles(r) \/ StopTimesOut(r)

Request(r) == Stop(r) \/ RetryUnreadable(r) \/ VerifyExited(r) \/ Discard(r) \/ Replace(r)

Next ==
    \/ TurnStep
    \/ \E r \in Runs : RunEvent(r) \/ Request(r) \/ Reconcile(r) \/ TreeEnds(r)
    \/ \E w \in Worktrees : Submit(w) \/ HoldBegins(w) \/ HoldEnds(w)
    \/ TimerFires \/ ResumeQueued
    \/ BeginShutdown \/ Exit \/ ShutdownRefused
    \/ Crash \/ Restart \/ RecoveryComplete
    \/ FaultBegins \/ FaultEnds \/ Fills

Spec == Init /\ [][Next]_vars

\* A callback runs to its end, and the event loop does not put a due timer
\* off for ever.
Fairness == WF_vars(TurnStep) /\ SF_vars(TimerFires)

FairSpec == Spec /\ Fairness

---------------------------------------------------------------------------
(* Properties.                                                             *)

TypeOK ==
    /\ created \in 0..MaxRuns /\ wt \in [Runs -> Worktrees]
    /\ status \in [Runs -> {"absent", "interrupted"} \cup Unsettled \cup Outcomes]
    /\ class \in [Runs -> {"none", "never-started", "alive", "exited", "unknown",
                    "unreadable-queued", "unreadable-launching", "unreadable-running"}]
    /\ resolved \subseteq Runs /\ pids \subseteq Runs
    /\ side \in [Runs -> {"none"} \cup Outcomes]
    /\ tree \in [Runs -> {"none", "waiting", "live", "ended", "abandoned"}]
    /\ faulty \in BOOLEAN /\ full \in BOOLEAN /\ held \subseteq Worktrees
    /\ up \in BOOLEAN /\ recovered \in BOOLEAN
    /\ shutdown \in {"no", "waiting", "failing", "refused"}
    /\ queue \in Seq(Runs) /\ active \subseteq Runs /\ pending \subseteq Runs
    /\ step \in [Runs -> {"none", "preparing", "marked", "spawned", "owned",
                          "launched", "unlaunching", "orphaned"}]
    /\ closed \subseteq Runs /\ stopped \subseteq Runs /\ stopping \subseteq Runs
    /\ outcome \in [Runs -> {"none"} \cup Outcomes]
    /\ journaled \subseteq Runs /\ refusedOnce \subseteq Runs
    /\ armed \in BOOLEAN /\ admissionRetry \subseteq Runs
    /\ queueRead \in BOOLEAN /\ undrained \in BOOLEAN
    /\ finishing \in Runs \cup {NoRun} /\ phase \in {"journal", "commit", "clean"}
    /\ drain \in {"no", "enter", "loop"}
    /\ due \subseteq Runs /\ timer \in BOOLEAN /\ stops \subseteq Runs
    /\ crashes \in 0..MaxCrashes /\ faults \in 0..MaxFaults

\* At most one run's process tree acts in a worktree, across crashes and
\* whatever was decided about interrupted runs; and none does, nor is a launch
\* under way, in a worktree that set-up, tear-down or a restore holds.
OneTreePerWorktree ==
    /\ \A r, s \in Runs : tree[r] = "live" /\ tree[s] = "live" /\ wt[r] = wt[s] => r = s
    /\ \A r \in Runs : r \in active \/ tree[r] = "live" => wt[r] \notin held

\* A live tree is never forgotten: its run is owned by the manager, waits
\* for reconciliation, or is in review with a class that must be verified.  And
\* "never-started", on which recovery continues a run without looking at
\* processes, is a proof: no tree of such a run ever acted.  (The types of the
\* state are checked with it.)
LiveTreesGated ==
    /\ TypeOK
    /\ \A r \in Runs : tree[r] = "live" =>
         \/ r \in active /\ step[r] = "launched"
         \/ ~recovered /\ status[r] = "running"
         \/ Unresolved(r) /\ class[r] \in {"alive", "unknown", "unreadable-running"}
    /\ \A r \in Runs : class[r] = "never-started" => tree[r] \notin {"live", "ended"}

\* No accepted run is lost between the database and memory: while the
\* manager serves, each unsettled row has a queue entry or an owner.
NoRunForgotten ==
    up /\ recovered /\ Idle =>
      \A r \in 1..created : status[r] \in Unsettled => Queued(r) \/ r \in Owned

\* Nothing waits for nobody.  An outcome that could not be committed always
\* has somebody to retry it; only a shutdown may leave it, to the sidecar.  A
\* launchable queued run that nothing blocks has a retry owner, once no other
\* run is left whose end would drain the queue.
RetriesOwned ==
    /\ up /\ Idle /\ Frozen # {} => armed \/ (ShuttingDown /\ Frozen \subseteq journaled)
    /\ (Serving /\ ~full /\ ~undrained /\ Owned = {} /\ \E i \in DOMAIN queue : Launchable(queue[i]))
         => armed

\* Live trees are apart and accounted for: at most one in a worktree, none where
\* a worktree is held, and each one owned or awaiting a verified decision.
LiveTreesApart == OneTreePerWorktree /\ LiveTreesGated

\* Nothing is stranded: no accepted run is lost, and no run or outcome that waits
\* waits for nobody.
NothingStranded == NoRunForgotten /\ RetriesOwned

\* A stop that was accepted before the provider was authorized keeps it from
\* ever acting.
StopPreventsLaunch ==
    [][\A r \in Runs : r \in stopped /\ tree[r] # "live" => tree'[r] # "live"]_vars

\* The ledger a user sees: a journaled outcome already counts.
LedgerEntry(r) ==
    CASE status[r] \in Outcomes -> status[r]
      [] status[r] \notin Outcomes /\ side[r] # "none" -> side[r]
      [] side[r] = "none" /\ status[r] \in Unsettled -> "open"
      [] side[r] = "none" /\ status[r] = "interrupted" ->
           IF r \in resolved THEN "replaced" ELSE "review"
      [] OTHER -> "absent"

Ledger == INSTANCE RunLedger WITH entry <- [r \in Runs |-> LedgerEntry(r)], place <- wt

\* Rows, sidecars, crashes, sweeps and stops together keep the promises of
\* RunLedger.
ImplementsLedger == Ledger!Spec

\* Once storage works again, an outcome that was frozen reaches its row,
\* unless the runtime leaves first.
OwedOutcomesCommit ==
    <>[]~faulty =>
      \A r \in Runs : r \in Frozen ~> status[r] \in Outcomes \/ ~up \/ ShuttingDown
=============================================================================
