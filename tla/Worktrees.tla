----------------------------- MODULE Worktrees -----------------------------
(***************************************************************************)
(* Who may write in a worktree: its set-up and teardown                    *)
(* (server/worktree-lifecycle.mjs), its checkpoints and Git writers        *)
(* (WorktreeCheckpoints) and its agent run, each of which looks at the     *)
(* others before it starts (server/outright-runtime.mjs).                  *)
(*                                                                         *)
(* One path is modelled.  The worktree at it may be removed and created    *)
(* again, which makes it another instance; lost processes stay with the    *)
(* path.  An attempt of set-up or teardown has a run id.                   *)
(***************************************************************************)
EXTENDS WorktreeCheckpoints

CONSTANTS
    Configs,      \* digests of the lifecycle configuration
    NStep,        \* steps of each phase
    MaxAttempts,  \* bound: attempts of set-up or teardown
    MaxClaims,    \* bound: operations claimed, attempts or not
    MaxEdits,     \* bound: edits of the configuration, trusts, replacements
    MaxFaults,    \* bound: saves that fail
    MaxCrashes,   \* bound: deaths of the runtime
    MaxRuns       \* bound: agent runs

ASSUME WorktreeBounds == /\ NStep \in Nat \ {0} /\ MaxAttempts \in Nat
                         /\ MaxClaims \in Nat /\ MaxEdits \in Nat
                         /\ MaxFaults \in Nat /\ MaxCrashes \in Nat /\ MaxRuns \in Nat

VARIABLES
    exists, instance,  \* the worktree at the path, and which one it is
    config, trusted,   \* its configuration, and the trusted ones
    state, db,         \* the lifecycle state: in memory, and stored
    entry,             \* the lifecycle operation that holds the worktree
    attempts,          \* run ids given out
    ran,               \* steps that finished and need not run again, per phase
    torn,              \* a teardown ran to its end, and no set-up began since
    excused,           \* lost processes the user acknowledged
    edits, faults, crashes, runs, claims \* bounds

lifecycle == <<exists, instance, config, trusted, state, db, entry, attempts, ran, torn>>
bounds == <<edits, faults, crashes, runs, claims>>
vars == <<checkpointVars, lifecycle, agent, excused, bounds>>

Phases == {"setup", "teardown"}
NoConfig == "unconfigured"
Checkpoint(c, n) == [cfg |-> c, at |-> n]
Fresh == [p \in Phases |-> Checkpoint(NoConfig, 0)]
NoState == [status |-> "none", phase |-> "setup", inst |-> 0, cfg |-> NoConfig,
            at |-> 0, cp |-> Fresh, run |-> 0, unknown |-> FALSE]
NoEntry == [phase |-> "none", pc |-> "none", inst |-> 0, skip |-> FALSE, ack |-> 0,
            cfg |-> NoConfig, at |-> 0, cancel |-> FALSE, complete |-> FALSE]

Init ==
    /\ CheckpointInit
    /\ exists = TRUE /\ instance = 1
    /\ config \in Configs \cup {NoConfig} /\ trusted \in {{}, Configs}
    /\ state = NoState /\ db = NoState /\ entry = NoEntry /\ attempts = 0
    /\ ran = Fresh /\ torn = FALSE /\ excused = {}
    /\ edits = 0 /\ faults = 0 /\ crashes = 0 /\ runs = 0 /\ claims = 0

Fault == faults < MaxFaults /\ faults' = faults + 1
Others == UNCHANGED <<edits, crashes, runs>>

---------------------------------------------------------------------------
(* Holds.                                                                  *)

Busy == entry # NoEntry
Unconfirmed == state.unknown
Hold == Busy \/ Unconfirmed

\* writers: what a restore finds at work besides Git writes.
Writers == agent # "none" \/ Hold

\* worktreeHeld, and the same checks of a submission.
WorktreeHeld == Hold \/ Holding

---------------------------------------------------------------------------
(* Lifecycle states.                                                       *)

\* commit, strict: refused if it cannot be stored.
CommitStrict(s) == state' = s /\ db' = s /\ UNCHANGED faults

\* commit: the state in memory is authoritative whether it is stored or not.
Commit(s) == /\ state' = s
             /\ \/ db' = s /\ UNCHANGED faults
                \/ Fault /\ UNCHANGED db

Current == IF state.inst = instance THEN state ELSE NoState

\* The configuration an operation goes by: a removal that looked at the
\* worktree's cleanliness keeps the one it had read before.
Wanted == IF entry.pc = "clean" THEN entry.cfg ELSE config

\* prepare: where the phase resumes, by the checkpoint of this instance and
\* of this configuration.
ResumeAt(phase) ==
    LET cp == Current.cp[phase] IN IF cp.cfg = Wanted THEN cp.at ELSE 0

Base(phase) ==
    [NoState EXCEPT !.phase = phase, !.inst = instance, !.cfg = Wanted, !.cp = Current.cp]

\* requireAcknowledged
Acknowledged == Unconfirmed => entry.ack = state.run
Excuse == excused' = IF Unconfirmed THEN excused \cup (lost \cap {"step"}) ELSE excused

\* finishedCheckpoints
Finished(cp, phase, cfg, status, at) ==
    CASE status = "ready"    -> Fresh
      [] status = "complete" -> [Fresh EXCEPT !["teardown"] = Checkpoint(cfg, NStep)]
      [] OTHER               -> [cp EXCEPT ![phase] = Checkpoint(cfg, at)]

\* Mutant: a set-up that begins keeps the checkpoint of an old teardown.
KeptAll(phase, cp) == cp

\* Set-up provisions again: a finished teardown must run again.
Kept(phase, cp) ==
    IF phase = "setup" THEN [cp EXCEPT !["teardown"] = Checkpoint(NoConfig, 0)] ELSE cp

---------------------------------------------------------------------------
(* Operations.                                                             *)

Own == UNCHANGED <<exists, instance, config, trusted>> /\ Others
Checkpoints == UNCHANGED checkpointVars
Files == previewed' = 0 /\ UNCHANGED <<refs, taken, marker, writeMarker, partial, origin>>

\* claim: never beside another operation, agent work, a restore or a run
\* whose interruption is not resolved.
ClaimLifecycle(phase, skip, ack) ==
    /\ ~Busy /\ exists /\ claims < MaxClaims /\ claims' = claims + 1
    /\ agent = "none" /\ Settled /\ ~Holding
    /\ entry' = [NoEntry EXCEPT !.phase = phase, !.pc = "identify", !.skip = skip, !.ack = ack]
    /\ UNCHANGED <<state, db, attempts, ran, torn, agent, excused, faults>> /\ Own /\ Checkpoints

\* The release of the claim, with onRelease.
End == entry' = NoEntry /\ OnRelease
    /\ UNCHANGED <<disk, holds, lost, alive, restores, writes, agent, claims>>

\* Anything that refuses an operation before its steps.
Refuse ==
    /\ entry.pc \in {"identify", "clean"}
    /\ End /\ UNCHANGED <<state, db, attempts, ran, torn, excused, faults>> /\ Own

\* prepare refuses an untrusted configuration, and records that.
NeedsTrust ==
    /\ entry.pc \in {"identify", "clean"} /\ ~entry.skip
    /\ Wanted # NoConfig /\ Wanted \notin trusted
    /\ Commit([Base(entry.phase) EXCEPT !.status = "needs-trust", !.unknown = state.unknown,
                                        !.run = IF state.unknown THEN state.run ELSE 0])
    /\ End /\ UNCHANGED <<attempts, ran, torn, excused>> /\ Own

\* Set-up with nothing to run: no earlier set-up describes this worktree.
NothingToSetUp ==
    /\ entry.pc = "identify" /\ entry.phase = "setup" /\ config = NoConfig
    /\ IF ~Unconfirmed /\ (state.phase = "setup" \/ state.inst # instance)
       THEN state' = NoState /\ db' = NoState /\ ran' = Fresh
       ELSE UNCHANGED <<state, db, ran>>
    /\ End /\ UNCHANGED <<attempts, torn, excused, faults>> /\ Own

\* begin: the running state is stored before any step starts.
Begin(at) ==
    /\ Wanted \in trusted /\ Acknowledged /\ attempts < MaxAttempts
    /\ attempts' = attempts + 1 /\ Excuse
    /\ CommitStrict([Base(entry.phase) EXCEPT !.status = "running", !.run = attempts + 1,
                       !.at = at, !.cp = Kept(entry.phase, Current.cp)])
    /\ entry' = [entry EXCEPT !.pc = "steps", !.inst = instance, !.at = at]
    /\ ran' = [p \in Phases |->
                  CASE p = entry.phase /\ (ran[p].cfg # Wanted \/ (torn /\ p = "setup" /\ at = 0))
                           -> Checkpoint(Wanted, 0)
                    [] p # entry.phase /\ p = "teardown" -> Checkpoint(NoConfig, 0)
                    [] OTHER -> ran[p]]
    /\ torn' = (torn /\ entry.phase = "teardown")
    /\ UNCHANGED <<agent, claims>> /\ Own /\ Checkpoints

SetUp == entry.pc = "identify" /\ entry.phase = "setup" /\ config # NoConfig /\ Begin(ResumeAt("setup"))

\* prepareRemoval: teardown is skipped, absent, already finished, or is to
\* run once the worktree was found clean.
PrepareRemoval ==
    /\ entry.pc = "identify" /\ entry.phase = "teardown" /\ Acknowledged
    /\ LET none == entry.skip \/ config = NoConfig
           done == ~none /\ config \in trusted /\ ResumeAt("teardown") = NStep
       IN  /\ none \/ config \in trusted
           /\ entry' = [entry EXCEPT !.inst = instance, !.cfg = config, !.complete = done,
                          !.pc = IF none \/ done THEN "proceed" ELSE "clean"]
    /\ Excuse
    /\ UNCHANGED <<state, db, attempts, ran, torn, agent, faults, claims>> /\ Own /\ Checkpoints

Teardown == entry.pc = "clean" /\ Begin(ResumeAt("teardown"))

---------------------------------------------------------------------------
(* Steps.                                                                  *)

Stop(at, unknown) == entry' = [entry EXCEPT !.pc = "save", !.at = at]
                     /\ state' = [state EXCEPT !.unknown = unknown]

\* Mutant: a step starts before the checkpoint of the earlier ones is stored.
StepStartsUnsaved ==
    /\ entry.pc = "steps" /\ entry.at < NStep /\ ~entry.cancel /\ state.cfg \in trusted
    /\ entry' = [entry EXCEPT !.pc = "running"]
    /\ state' = [state EXCEPT !.at = entry.at] /\ UNCHANGED <<db, faults>>
    /\ UNCHANGED <<attempts, ran, torn, agent, excused, claims>> /\ Own /\ Checkpoints

\* A step starts once the checkpoint saying earlier ones finished is stored.
StepStarts ==
    /\ entry.pc = "steps" /\ entry.at < NStep /\ ~entry.cancel /\ state.cfg \in trusted
    /\ CommitStrict([state EXCEPT !.at = entry.at])
    /\ entry' = [entry EXCEPT !.pc = "running"]
    /\ UNCHANGED <<attempts, ran, torn, agent, excused, claims>> /\ Own /\ Checkpoints

\* A cancel, lost trust or a checkpoint that cannot be stored stops the run
\* before the step.
StepRefused ==
    /\ entry.pc = "steps" /\ entry.at < NStep
    /\ IF entry.cancel \/ state.cfg \notin trusted THEN UNCHANGED faults ELSE Fault
    /\ Stop(entry.at, FALSE)
    /\ UNCHANGED <<db, attempts, ran, torn, agent, excused, claims>> /\ Own /\ Checkpoints

StepEnds ==
    /\ entry.pc = "running"
    /\ entry' = [entry EXCEPT !.pc = "steps", !.at = entry.at + 1]
    /\ ran' = [ran EXCEPT ![entry.phase] = Checkpoint(state.cfg, entry.at + 1)]
    /\ Files /\ UNCHANGED <<holds, lost, alive, wake, restores, writes>>
    /\ UNCHANGED <<state, db, attempts, torn, agent, excused, faults, claims>> /\ Own

\* stepFailure: the run stops at the step; its processes may be lost.
StepFails(lostIt) ==
    /\ entry.pc = "running"
    /\ Stop(entry.at, lostIt)
    /\ IF lostIt THEN Lose("step") /\ excused' = excused \ {"step"}
                 ELSE UNCHANGED <<lost, alive, excused>>
    /\ Files
    /\ UNCHANGED <<holds, wake, restores, writes, db, attempts, ran, torn, agent, faults, claims>>
    /\ Own

\* The outcome of the run, with the cancel that was accepted before it.
Outcome ==
    LET phase == entry.phase
        all == entry.pc = "steps" /\ entry.at = NStep
        status == CASE all /\ phase = "teardown" -> "complete"
                    [] all /\ phase = "setup" /\ ~entry.cancel -> "ready"
                    [] OTHER -> "stopped"
    IN  [state EXCEPT !.status = status, !.at = entry.at,
                      !.cp = Finished(state.cp, phase, state.cfg, status, entry.at)]

\* The outcome that could not be saved: reported as stopped, in memory only.
Unsaved ==
    [state EXCEPT !.status = "stopped", !.at = entry.at,
                  !.cp = [Outcome.cp EXCEPT ![entry.phase] = Checkpoint(state.cfg, entry.at)]]

\* commitOutcome ends a run; removal goes on from a finished teardown.
CommitOutcome ==
    /\ entry.pc = "save" \/ (entry.pc = "steps" /\ entry.at = NStep)
    /\ \/ CommitStrict(Outcome)
       \/ Fault /\ state' = Unsaved /\ UNCHANGED db
    /\ IF state'.status = "complete"
       THEN /\ entry' = [entry EXCEPT !.pc = "proceed", !.complete = TRUE]
            /\ UNCHANGED <<agent, claims>> /\ Checkpoints
       ELSE End
    /\ ran' = CASE state'.status = "ready"    -> Fresh
                [] state'.status = "complete" -> [ran EXCEPT !["setup"] = Checkpoint(NoConfig, 0)]
                [] OTHER                      -> ran
    /\ torn' = (torn \/ (entry.phase = "teardown" /\ entry.pc = "steps"))
    /\ UNCHANGED <<attempts, excused>> /\ Own

---------------------------------------------------------------------------
(* Removal.                                                                *)

\* A finished teardown whose worktree stays keeps its checkpoint, which is in
\* the state already, from this run or from an earlier one.
TeardownKept ==
    [state EXCEPT !.status = "stopped", !.phase = "teardown", !.inst = entry.inst, !.cfg = entry.cfg,
                  !.unknown = FALSE, !.run = 0, !.at = NStep]

\* proceed refuses a cancel ; admitWriter refuses beside a restore.
KeepWorktree ==
    /\ entry.pc = "proceed"
    /\ entry.cancel \/ Holding
    /\ IF entry.complete THEN Commit(TeardownKept) ELSE UNCHANGED <<state, db, faults>>
    /\ End /\ UNCHANGED <<attempts, ran, torn, excused>> /\ Own

\* Git removal is a Git writer of its own.
Proceed ==
    /\ entry.pc = "proceed" /\ ~entry.cancel
    /\ Settled /\ ~Holding
    /\ entry' = [entry EXCEPT !.pc = "remove"]
    /\ gitWrites' = gitWrites + 1 /\ writeMarker' = TRUE
    /\ UNCHANGED <<refs, taken, marker, partial, origin, previewed, claim, launches, unconfirmed, stray,
                   lost, alive, wake, restores, writes>>
    /\ UNCHANGED <<state, db, attempts, ran, torn, agent, excused, faults, claims>> /\ Own

\* The worktree is gone, and its state is forgotten.
Removed ==
    /\ entry.pc = "remove" /\ claim = NoClaim /\ gitWrites = 1 /\ GitLost = {}
    /\ exists' = FALSE /\ state' = NoState /\ db' = NoState /\ entry' = NoEntry
    /\ DiskGone /\ gitWrites' = 0 /\ OnRelease
    /\ UNCHANGED <<taken, claim, launches, unconfirmed, stray, lost, alive, restores, writes>>
    /\ UNCHANGED <<instance, config, trusted, attempts, ran, torn, agent, excused, bounds>>

\* Git kept it: the finished teardown's checkpoint sends a retry to removal.
RemovalFails(lostIt, stuck) ==
    /\ entry.pc = "remove"
    /\ Released(lostIt, stuck)
    /\ IF lostIt THEN Lose("write") ELSE UNCHANGED <<lost, alive>>
    /\ IF entry.complete THEN Commit(TeardownKept) ELSE UNCHANGED <<state, db, faults>>
    /\ entry' = NoEntry /\ OnRelease
    /\ previewed' = 0
    /\ UNCHANGED <<refs, taken, marker, partial, origin, claim, launches, unconfirmed, restores, writes>>
    /\ UNCHANGED <<attempts, ran, torn, agent, excused, claims>> /\ Own

Cancel ==
    /\ Busy /\ entry.pc # "remove" /\ ~entry.cancel
    /\ entry' = [entry EXCEPT !.cancel = TRUE]
    /\ UNCHANGED <<state, db, attempts, ran, torn, agent, excused, faults, claims>> /\ Own /\ Checkpoints

---------------------------------------------------------------------------
(* Unconfirmed processes.                                                  *)

\* acknowledge: of the attempt that was shown, and of no later one.
Acknowledge(run) ==
    /\ ~Busy /\ Unconfirmed /\ run = state.run
    /\ Commit([state EXCEPT !.unknown = FALSE])
    /\ Excuse /\ OnRelease
    /\ UNCHANGED <<disk, holds, lost, alive, restores, writes, entry, attempts, ran, torn, agent, claims>>
    /\ Own

\* Mutant: a proof asked for before the attempt was lost clears it.
ReconcileStale ==
    /\ ~Busy /\ Unconfirmed
    /\ Commit([state EXCEPT !.unknown = FALSE]) /\ OnRelease
    /\ UNCHANGED <<disk, holds, lost, alive, restores, writes, entry, attempts, ran, torn, agent, excused, claims>>
    /\ Own

\* reconcile: no lost step is left to prove.
ReconcileSteps ==
    /\ ~Busy /\ Unconfirmed /\ "step" \notin lost
    /\ Commit([state EXCEPT !.unknown = FALSE]) /\ OnRelease
    /\ UNCHANGED <<disk, holds, lost, alive, restores, writes, entry, attempts, ran, torn, agent, excused, claims>>
    /\ Own

\* A budget proves the processes it lost gone.
Prove(kind) ==
    /\ kind \in lost \ alive
    /\ lost' = lost \ {kind} /\ excused' = excused \ {kind}
    /\ UNCHANGED <<disk, holds, alive, wake, restores, writes, lifecycle, agent, bounds>>

---------------------------------------------------------------------------
(* The agent run.                                                          *)

AgentOnly == UNCHANGED <<holds, lost, alive, restores, writes, lifecycle, excused,
                         edits, faults, crashes, claims>>

Submit == /\ agent = "none" /\ runs < MaxRuns /\ Settled /\ ~WorktreeHeld /\ exists
          /\ agent' = "queued" /\ runs' = runs + 1 /\ wake' = TRUE
          /\ AgentOnly /\ UNCHANGED disk

\* resumeQueued: the queued run launches unless its worktree is held.
Launch == /\ wake /\ Settled
          /\ agent' = IF agent = "queued" /\ ~WorktreeHeld THEN "running" ELSE agent
          /\ wake' = FALSE
          /\ AgentOnly /\ UNCHANGED <<disk, runs>>

AgentEnds == /\ agent \in {"queued", "running", "interrupted"} /\ agent' = "none"
             /\ wake' = FALSE /\ Files /\ AgentOnly /\ UNCHANGED runs

---------------------------------------------------------------------------
(* The world.                                                              *)

Edit == edits < MaxEdits /\ edits' = edits + 1
Unmoved == UNCHANGED <<entry, attempts, agent, excused, crashes, runs, claims>>

EditConfig(c) == /\ Edit /\ config' = c /\ c # config
                 /\ UNCHANGED <<exists, instance, trusted, state, db, ran, torn, faults>>
                 /\ Unmoved /\ Checkpoints

\* trust: a refusal recorded for this file no longer stands.
Trust ==
    /\ Edit /\ config # NoConfig /\ config \notin trusted
    /\ trusted' = trusted \cup {config}
    /\ IF state.status = "needs-trust" /\ state.cfg = config /\ ~Busy
       THEN Commit([state EXCEPT !.status = "trusted"])
       ELSE UNCHANGED <<state, db, faults>>
    /\ UNCHANGED <<exists, instance, config, ran, torn>> /\ Unmoved /\ Checkpoints

Distrust == /\ Edit /\ config \in trusted /\ trusted' = trusted \ {config}
            /\ UNCHANGED <<exists, instance, config, state, db, ran, torn, faults>>
            /\ Unmoved /\ Checkpoints

\* A worktree is created at the path, or replaced there while nothing of
\* Outright works in it.
Recreate ==
    /\ Edit /\ ~Busy /\ claim = NoClaim /\ agent = "none" /\ gitWrites = 0 /\ GitLost = {}
    /\ exists' = TRUE /\ instance' = instance + 1 /\ ran' = Fresh /\ torn' = FALSE
    /\ DiskGone
    /\ UNCHANGED <<taken, holds, lost, alive, wake, restores, writes>>
    /\ UNCHANGED <<config, trusted, state, db, faults>> /\ Unmoved

\* The constructor: a run that was going is interrupted, its processes are
\* unconfirmed.
Interrupted(s) ==
    IF s.status # "running" THEN s
    ELSE [s EXCEPT !.status = "stopped", !.unknown = TRUE,
                   !.cp = [s.cp EXCEPT ![s.phase] = Checkpoint(s.cfg, s.at)]]

\* The runtime dies, and starts again.
Crash ==
    /\ crashes < MaxCrashes /\ crashes' = crashes + 1
    /\ CheckpointsDie(IF entry.pc = "running" THEN {"step"} ELSE {})
    /\ excused' = excused \ (IF entry.pc = "running" THEN {"step"} ELSE {})
    /\ state' = Interrupted(db) /\ db' = Interrupted(db)
    /\ entry' = NoEntry
    /\ agent' = IF agent \in {"queued", "running"} THEN "interrupted" ELSE agent
    /\ UNCHANGED <<exists, instance, config, trusted, attempts, ran, torn, edits, faults, runs, claims>>

---------------------------------------------------------------------------

Removals == IF entry.pc = "remove" THEN 1 ELSE 0

LifecycleNext ==
    \/ \E p \in Phases, s \in BOOLEAN, a \in 0..MaxAttempts :
           (s => p = "teardown") /\ ClaimLifecycle(p, s, a)
    \/ Refuse \/ NeedsTrust \/ NothingToSetUp \/ SetUp \/ PrepareRemoval \/ Teardown
    \/ StepStarts \/ StepRefused \/ StepEnds \/ CommitOutcome
    \/ \E l \in BOOLEAN : StepFails(l)
    \/ KeepWorktree \/ Proceed \/ Removed \/ Cancel
    \/ \E l, s \in BOOLEAN : RemovalFails(l, s)
    \/ \E r \in 1..MaxAttempts : Acknowledge(r)
    \/ ReconcileSteps
    \/ \E k \in {"step", "restore", "write"} : Prove(k)
    \/ \E c \in Configs \cup {NoConfig} : EditConfig(c)
    \/ Trust \/ Distrust \/ Recreate \/ Crash

Next ==
    \/ CheckpointNext(Writers, Removals) /\ exists /\ UNCHANGED <<lifecycle, agent, excused, bounds>>
    \/ LifecycleNext
    \/ Submit \/ Launch \/ AgentEnds

Spec == Init /\ [][Next]_vars

---------------------------------------------------------------------------
(* Properties.                                                             *)

\* The values the variables take; a Git write that runs or was lost has its
\* marker on disk, for the runtime that starts after this one.
TypeOK ==
    /\ refs \subseteq 1..taken /\ taken \in 0..MaxIds
    /\ marker.kept \subseteq Ids /\ claim.id \in 0..MaxIds
    /\ gitWrites \in 0..(MaxWrites + 1) /\ launches \in 0..MaxWrites
    /\ alive \subseteq lost /\ excused \subseteq lost
    /\ state.at \in 0..NStep /\ state.run \in 0..attempts
    /\ entry.pc \in {"none", "identify", "clean", "steps", "running", "save", "proceed", "remove"}
    /\ (gitWrites > 0 \/ "write" \in lost => writeMarker)

\* An agent run, a step and a restore never work in a worktree together, and
\* a restore works beside no Git write, terminal launch or lost process the
\* user did not acknowledge.  A worktree a restore left half changed is still
\* marked as such, and nothing works in it, until the restore is finished or
\* its files are kept: also after a restart.
WritersApart ==
    /\ agent = "running" => ~(Restoring \/ entry.pc = "running" \/ partial)
    /\ entry.pc = "running" => ~(Restoring \/ partial)
    /\ Restoring => gitWrites = 0 /\ launches = 0
    /\ claim.pc = "apply" => alive \subseteq excused
    /\ partial => marker # NoMarker /\ gitWrites = 0

\* Neither does an agent run start nor a restore change files, and no attempt of set-up or
\* teardown begins, beside a lost process that may still write, unless the
\* user acknowledged that very attempt; a lost Git write is excepted for an
\* attempt, beside which Git writes are admitted anyway.
LostProcessesHold ==
    [][/\ (agent # "running" /\ agent' = "running" => alive \subseteq excused)
       /\ (claim.pc # "apply" /\ claim'.pc = "apply" => alive \subseteq excused)
       /\ (attempts' > attempts => alive \ {"write"} \subseteq excused')]_vars

\* The state before an interrupted restore, however often it was resumed,
\* and the checkpoint it restores are never pruned or deleted.
\* A restore replaces the state its confirmed preview showed and that its
\* own checkpoint holds, whatever Outright started in between.
SafetyKept ==
    /\ marker # NoMarker => {marker.id, origin} \subseteq refs
    /\ claim.pc \in {"prune", "mark"} => previewed = claim.id

\* A step starts only after every earlier step of its configuration finished
\* in this worktree, and none of those runs a second time.  (The types of the
\* state are checked with it.)
StepsInOrder ==
    /\ TypeOK
    /\ entry.pc = "running" =>
         LET done == ran[entry.phase] IN
         /\ (entry.at > 0 => done.cfg = state.cfg /\ done.at \in {entry.at, entry.at + 1})
         /\ (done.cfg = state.cfg => entry.at >= done.at - 1)

\* Git removes a worktree only after every step of its teardown finished in
\* it since its last set-up, unless the user skipped them or there were none.
RemovalAfterTeardown ==
    [][(entry.pc # "remove" /\ entry'.pc = "remove") =>
          \/ entry.skip \/ ~entry.complete
          \/ ran["teardown"].at = NStep]_vars

\* A queued run whose worktree is no longer held has been or will be tried:
\* every way a hold ends calls onRelease.
NoStrandedRun == agent = "queued" /\ ~WorktreeHeld => wake
=============================================================================
