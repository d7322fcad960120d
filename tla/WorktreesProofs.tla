-------------------------- MODULE WorktreesProofs --------------------------

(***************************************************************************)
(* Proofs about Worktrees and the checkpoints it composes, for any         *)
(* configurations, any number of steps, and any bounds.                    *)
(*                                                                         *)
(* The invariant has four threads.  Apart: who holds the worktree, and     *)
(* what cannot be there beside that holder.  Keeping: which checkpoints a  *)
(* restore needs, at each of its places and in its marker.  Losses: what   *)
(* still says of a lost process that it may be running.  Progress and      *)
(* Stepping: the stored state is never more than one step behind the steps *)
(* that really finished (ran), in memory and on disk alike, and the rest   *)
(* of a run agrees with it.                                                *)
(*                                                                         *)
(* Each action has a lemma.  Those of WorktreeCheckpoints leave the        *)
(* lifecycle's variables alone (Steady), so their lemmas prove DiskInv,    *)
(* the parts of the invariant that they can disturb; those of the          *)
(* lifecycle prove all of it.  In each lemma the lettered steps say what   *)
(* the action does, the numbered ones go through the invariant's parts.    *)
(* What LostProcessesHold asks of a step is proved there as well (Holds).  *)
(***************************************************************************)
EXTENDS Worktrees, TLAPS

\* What a lost process was.
Kinds == {"step", "restore", "write"}
\* The places of a restore that has read its plan.
Deep == {"prune", "mark", "apply"}
\* The places of a run of set-up or teardown.
InSteps == {"steps", "running", "save"}
\* Digests of the configuration, or none.
Digests == Configs \cup {NoConfig}
\* Checkpoints of a phase.
Points == [cfg : Digests, at : 0..NStep]
\* The statuses of a lifecycle state.
Statuses == {"none", "needs-trust", "trusted", "running", "stopped", "ready", "complete"}
\* Lifecycle states.
States == [status : Statuses, phase : Phases, inst : Nat, cfg : Digests, at : 0..NStep,
           cp : [Phases -> Points], run : Nat, unknown : BOOLEAN]
\* The places of a lifecycle operation.
Places == {"none", "identify", "clean", "steps", "running", "save", "proceed", "remove"}
\* Lifecycle operations.
Entries == [phase : Phases \cup {"none"}, pc : Places,
            inst : Nat, skip : BOOLEAN, ack : Nat, cfg : Digests, at : 0..NStep,
            cancel : BOOLEAN, complete : BOOLEAN]
\* Claims of checkpoint operations.
Claims == [kind : {"none", "capture", "delete", "recover", "restore"},
           pc : {"none", "read", "prune", "mark", "apply"}, id : 0..MaxIds, resume : BOOLEAN, safety : Nat]

\* The types of what the checkpoint service keeps.
DiskTyped ==
    /\ taken \in 0..MaxIds /\ refs \subseteq 1..taken /\ origin \in Nat /\ previewed \in Nat
    /\ marker \in [id : Nat, kept : SUBSET Ids] /\ claim \in Claims
    /\ writeMarker \in BOOLEAN /\ partial \in BOOLEAN /\ stray \in BOOLEAN /\ unconfirmed \in BOOLEAN
    /\ wake \in BOOLEAN
    /\ lost \subseteq Kinds /\ alive \subseteq lost /\ excused \subseteq lost \cap {"step"}

\* The types of what the lifecycle service keeps; no state is of a later attempt or worktree
\* than there was.
LifeTyped ==
    /\ exists \in BOOLEAN /\ torn \in BOOLEAN
    /\ agent \in {"none", "queued", "running", "interrupted"}
    /\ instance \in Nat /\ attempts \in Nat
    /\ config \in Digests /\ trusted \subseteq Configs
    /\ state \in States /\ db \in States /\ entry \in Entries
    /\ state.run <= attempts /\ db.run <= attempts
    /\ state.inst <= instance /\ db.inst <= instance /\ instance >= 1
    /\ ran \in [Phases -> Points]

\* A removal is one of the admitted Git writes; every write and launch was counted when it was
\* admitted.
Counted ==
    /\ writes \in 0..MaxWrites /\ launches \in 0..MaxWrites /\ launches <= writes
    /\ gitWrites \in Nat /\ gitWrites <= writes + Removals /\ gitWrites >= Removals

\* A restore, a lifecycle operation and an agent run exclude one another and what each of them
\* would disturb; a claim that is not held says nothing.
Apart ==
    /\ Restoring => ~Writers /\ gitWrites = 0 /\ launches = 0 /\ ~stray /\ ~writeMarker
    /\ claim.pc \in Deep => Restoring
    /\ claim.kind = "none" => claim = NoClaim
    /\ Busy \/ agent # "none" => marker = NoMarker /\ ~unconfirmed
    /\ Busy => agent = "none" /\ exists
    /\ ~Busy => entry = NoEntry
    /\ Busy => entry.phase \in Phases /\ entry.pc # "none"
    /\ marker # NoMarker => gitWrites = 0 /\ launches = 0

\* The checkpoint being restored, the state it replaces and those of an interrupted restore are
\* kept; an interrupted restore has its marker.
Keeping ==
    /\ Restoring => claim.id \in refs
    /\ claim.pc \in Deep => claim.safety \in refs /\ GitLost = {}
    /\ claim.pc \in {"prune", "mark"} => previewed = claim.id
    /\ claim.pc \in Deep /\ claim.resume => marker.id = claim.id /\ marker # NoMarker
    /\ claim.pc \in {"prune", "mark"} /\ ~claim.resume => marker = NoMarker
    /\ claim.pc = "apply" => marker # NoMarker
    /\ marker # NoMarker => marker.id \in marker.kept /\ origin \in marker.kept /\ marker.kept \subseteq refs
    /\ partial => marker # NoMarker

\* A lost process has left something that holds the worktree: a marker, or a state, in memory
\* and on disk, that is unconfirmed or will be after a restart.  While an operation works there
\* is no lost step that was not acknowledged.
Losses ==
    /\ "restore" \in lost => marker # NoMarker
    /\ "write" \in lost => writeMarker /\ (stray \/ gitWrites = 0)
    /\ gitWrites > 0 => writeMarker
    /\ "step" \in lost \ excused => state.unknown /\ (db.unknown \/ db.status = "running")
    /\ entry.pc \in {"clean", "steps", "running", "proceed", "remove"} => "step" \notin lost \ excused

\* Where a state says the phase p of worktree i got to.
Reached(s, i, p) ==
    IF s.inst # i THEN Checkpoint(NoConfig, 0)
    ELSE IF s.status = "running" /\ s.phase = p THEN Checkpoint(s.cfg, s.at) ELSE s.cp[p]

\* The steps done are those of the point, or one more.
Near(point, done) == point.cfg = done.cfg /\ done.at \in {point.at, point.at + 1}

\* A state is at most one step behind the steps that finished; it may have forgotten a set-up
\* only if there was none, or the worktree was torn down since.
Follows(s, i, r, t) ==
    \A p \in Phases :
        \/ Reached(s, i, p).cfg = NoConfig /\ (r[p].cfg = NoConfig \/ (t /\ p = "setup"))
        \/ Near(Reached(s, i, p), r[p])

\* Both states follow the steps of the worktree that is there.
Progress == exists => Follows(state, instance, ran, torn) /\ Follows(db, instance, ran, torn)

\* A run that goes on agrees with the state in memory and on disk, and a removal after teardown
\* has all its steps behind it.
Stepping ==
    /\ entry.pc \notin InSteps => state.status # "running"
    /\ entry.pc \in InSteps =>
         /\ state.status = "running" /\ db.status = "running"
         /\ state.phase = entry.phase /\ db.phase = entry.phase /\ state.cfg # NoConfig
         /\ state.inst = instance /\ db.inst = instance /\ entry.inst = instance
         /\ Near(Checkpoint(state.cfg, entry.at), ran[entry.phase])
         /\ entry.at \in {state.at, state.at + 1}
         /\ (entry.phase = "setup" => ran["teardown"].cfg = NoConfig /\ ~torn)
    /\ entry.pc \in {"steps", "running"} => db = state
    /\ entry.pc = "running" => entry.at = state.at /\ entry.at < NStep
    /\ entry.pc \in {"clean", "proceed", "remove"} => entry.phase = "teardown"
    /\ entry.pc = "clean" => entry.cfg # NoConfig
    /\ entry.complete => entry.pc \in {"proceed", "remove"} /\ ran["teardown"].at = NStep
                       /\ state.inst = instance /\ entry.inst = instance

\* The inductive invariant.
Inv == DiskTyped /\ LifeTyped /\ Counted /\ Apart /\ Keeping /\ Losses /\ Progress /\ Stepping
       /\ NoStrandedRun

\* What LostProcessesHold asks of a step.
Holds ==
    /\ (agent # "running" /\ agent' = "running" => alive \subseteq excused)
    /\ (claim.pc # "apply" /\ claim'.pc = "apply" => alive \subseteq excused)
    /\ (attempts' > attempts => alive \ {"write"} \subseteq excused')

\* The parts that a step of WorktreeCheckpoints can disturb.
DiskInv == DiskTyped /\ Counted /\ Apart /\ Keeping /\ Losses /\ NoStrandedRun
\* What such a step leaves alone.
Steady == exists /\ UNCHANGED <<exists, instance, config, trusted, state, db, entry, attempts, ran, torn,
                               agent, excused, edits, faults, crashes, runs, claims>>

\* The values that stand for nothing have their types.
LEMMA NothingIs ==
  /\ NoEntry \in Entries /\ NoEntry.pc = "none" /\ NoEntry.complete = FALSE
  /\ NoState \in States /\ NoState.status = "none" /\ NoState.unknown = FALSE /\ NoState.run = 0
  /\ NoState.inst = 0 /\ NoState.cp = Fresh
  /\ NoClaim \in Claims /\ NoClaim.kind = "none" /\ NoClaim.pc = "none"
  /\ NoMarker \in [id : Nat, kept : SUBSET Ids] /\ NoMarker.id = 0
<1> USE WorktreeBounds, CheckpointBounds
<1>1. NoState \in States
  BY DEF NoState, States, Statuses, Phases, Digests, Fresh, Points, Checkpoint
<1>2. NoEntry \in Entries
  BY DEF NoEntry, Entries, Places, Digests
<1>. QED  BY <1>1, <1>2 DEF NoEntry, NoState, NoClaim, NoMarker, Claims

\* No phase has got anywhere.
LEMMA FreshIs ==
  /\ Fresh \in [Phases -> Points]
  /\ \A p \in Phases : Fresh[p].cfg = NoConfig /\ Fresh[p].at = 0 /\ Fresh[p] = Checkpoint(NoConfig, 0)
BY WorktreeBounds DEF Fresh, Points, Checkpoint, Digests

\* The fields of a checkpoint of a phase.
LEMMA PointIs ==
  ASSUME NEW c, NEW n
  PROVE  /\ Checkpoint(c, n).cfg = c /\ Checkpoint(c, n).at = n
         /\ (c \in Digests /\ n \in 0..NStep => Checkpoint(c, n) \in Points)
BY DEF Checkpoint, Points

\* The state a run starts from, and where it resumes.
LEMMA BaseIs ==
  ASSUME LifeTyped, NEW phase \in Phases
  PROVE  /\ Current \in States /\ Wanted \in Digests /\ ResumeAt(phase) \in 0..NStep
         /\ Base(phase) = [status |-> "none", phase |-> phase, inst |-> instance, cfg |-> Wanted, at |-> 0,
                           cp |-> Current.cp, run |-> 0, unknown |-> FALSE]
         /\ Base(phase) \in States
<1> USE WorktreeBounds
<1>2. Current \in States /\ Wanted \in Digests
  BY NothingIs DEF Current, LifeTyped, Wanted, Entries
<1>3. ResumeAt(phase) \in 0..NStep
  BY <1>2 DEF ResumeAt, States, Points
<1>4. Base(phase) = [status |-> "none", phase |-> phase, inst |-> instance, cfg |-> Wanted, at |-> 0,
                     cp |-> Current.cp, run |-> 0, unknown |-> FALSE]
  <2>1. Base(phase) = [[[[NoState EXCEPT !.phase = phase] EXCEPT !.inst = instance] EXCEPT !.cfg = Wanted]
                         EXCEPT !.cp = Current.cp]
    BY DEF Base, NoState
  <2>. QED  BY <2>1 DEF NoState
<1>5. Base(phase) \in States
  BY <1>2, <1>4 DEF States, Statuses, LifeTyped
<1>. QED  BY <1>2, <1>3, <1>4, <1>5

\* Between runs, the state of the present worktree says where each phase got to.
LEMMA CurrentReached ==
  ASSUME LifeTyped, state.status # "running", NEW p \in Phases
  PROVE  Current.cp[p] = Reached(state, instance, p)
BY NothingIs, FreshIs DEF Current, Reached, LifeTyped, States

\* A state that got to the same places follows the same steps.
LEMMA SameReached ==
  ASSUME NEW s, NEW t, NEW i, NEW r, NEW b, NEW c, Follows(s, i, r, b), (b => c),
         \A p \in Phases : Reached(t, i, p) = Reached(s, i, p)
  PROVE  Follows(t, i, r, c)
BY DEF Follows

\* Beside a lifecycle operation there is no agent run, no restore and no marker of one.
LEMMA AtWork ==
  ASSUME Inv, entry.pc # "none"
  PROVE  /\ entry # NoEntry /\ exists /\ agent = "none" /\ entry \in Entries /\ entry.phase \in Phases
         /\ ~Restoring /\ claim.pc \notin Deep /\ marker = NoMarker /\ ~unconfirmed
BY NothingIs DEF Inv, Apart, LifeTyped, Busy, Writers, Hold

\* What set-up keeps of the checkpoints of the phases.
LEMMA KeptIs ==
  ASSUME NEW phase \in Phases, NEW cp \in [Phases -> Points]
  PROVE  /\ Kept(phase, cp) \in [Phases -> Points]
         /\ phase = "setup" => Kept(phase, cp)["teardown"] = Checkpoint(NoConfig, 0)
         /\ phase # "setup" => Kept(phase, cp) = cp
<1>1. Checkpoint(NoConfig, 0) \in Points  BY PointIs, WorktreeBounds DEF Digests
<1>. QED  BY <1>1 DEF Kept, Phases

\* The checkpoints of the phases after a run.
LEMMA FinishedIs ==
  ASSUME NEW cp \in [Phases -> Points], NEW phase \in Phases, NEW cfg \in Digests, NEW at \in 0..NStep,
         NEW status
  PROVE  LET F == Finished(cp, phase, cfg, status, at) IN
         /\ F \in [Phases -> Points]
         /\ status = "ready" => F = Fresh
         /\ status = "complete" => /\ F["teardown"] = Checkpoint(cfg, NStep)
                                   /\ F["setup"] = Checkpoint(NoConfig, 0)
         /\ status \notin {"ready", "complete"} =>
              /\ F[phase] = Checkpoint(cfg, at)
              /\ \A p \in Phases : p # phase => F[p] = cp[p]
<1>1. NStep \in 0..NStep  BY WorktreeBounds
<1>2. Checkpoint(cfg, at) \in Points /\ Checkpoint(cfg, NStep) \in Points  BY <1>1, PointIs
<1>3. CASE status = "ready"  BY <1>3, FreshIs DEF Finished
<1>4. CASE status = "complete"
  <2>1. Finished(cp, phase, cfg, status, at) = [Fresh EXCEPT !["teardown"] = Checkpoint(cfg, NStep)]
    BY <1>4 DEF Finished
  <2>. QED  BY <1>2, <1>4, <2>1, FreshIs DEF Phases
<1>5. CASE status \notin {"ready", "complete"}
  <2>1. Finished(cp, phase, cfg, status, at) = [cp EXCEPT ![phase] = Checkpoint(cfg, at)]
    BY <1>5 DEF Finished
  <2>. QED  BY <1>2, <1>5, <2>1
<1>. QED  BY <1>3, <1>4, <1>5

\* The status of a run's outcome; a teardown that went through is complete even if a cancel
\* came late.
LEMMA OutcomeIs ==
  ASSUME entry.pc \in {"steps", "save"}, entry.pc = "steps" => entry.at = NStep, entry.phase \in Phases
  PROVE  \E st \in {"ready", "complete", "stopped"} :
            /\ Outcome = [state EXCEPT !.status = st, !.at = entry.at,
                             !.cp = Finished(state.cp, entry.phase, state.cfg, st, entry.at)]
            /\ (st = "ready" => entry.pc = "steps" /\ entry.phase = "setup")
            /\ (st = "complete" <=> entry.pc = "steps" /\ entry.phase = "teardown")
<1> DEFINE all == entry.pc = "steps" /\ entry.at = NStep
           st == CASE all /\ entry.phase = "teardown" -> "complete"
                   [] all /\ entry.phase = "setup" /\ ~entry.cancel -> "ready"
                   [] OTHER -> "stopped"
<1>1. Outcome = [state EXCEPT !.status = st, !.at = entry.at,
                    !.cp = Finished(state.cp, entry.phase, state.cfg, st, entry.at)]
  BY DEF Outcome
<1>2. /\ st \in {"ready", "complete", "stopped"}
      /\ st = "ready" => entry.pc = "steps" /\ entry.phase = "setup"
      /\ st = "complete" <=> entry.pc = "steps" /\ entry.phase = "teardown"
  OBVIOUS
<1> HIDE DEF st
<1>. QED  BY <1>1, <1>2

\* Reconcile keeps the invariant.
LEMMA ReconcileInv ==
  ASSUME Inv, Steady, Reconcile
  PROVE  DiskInv' /\ Holds
<1> USE WorktreeBounds, CheckpointBounds
<1>1. DiskTyped'  BY DEF Steady, Inv, DiskTyped, Counted, Keeping, Apart, Kinds, Claims, NoMarker, NoClaim,
   Restoring, Ids, Reconcile, Settled, OnRelease
<1>2. Counted'  BY DEF Steady, Inv, Counted, DiskTyped, Removals, Reconcile, Settled, OnRelease
<1>3. Apart'  BY DEF Steady, Inv, Apart, DiskTyped, Counted, Keeping, Losses, Deep, Restoring, StrayWrite,
   Holding, Unfinished, Writers, Hold, Busy, Unconfirmed, NoClaim, NoMarker, GitLost, Reconcile, Settled,
      OnRelease
<1>4. Keeping'  BY DEF Steady, Inv, Keeping, DiskTyped, Apart, Losses, Kinds, Deep, Restoring, StrayWrite,
   Holding, Unfinished, NoClaim, GitLost, NoMarker, Reconcile, Settled, OnRelease
<1>5. Losses'  BY DEF Steady, Inv, Losses, DiskTyped, Counted, Apart, Keeping, Deep, Restoring, StrayWrite,
   Holding, Unfinished, GitLost, NoMarker, Kinds, Reconcile, Settled, OnRelease
<1>6. NoStrandedRun'  BY DEF Steady, Inv, NoStrandedRun, DiskTyped, Apart, Keeping, WorktreeHeld, Holding,
   Unfinished, StrayWrite, Restoring, Hold, Busy, Unconfirmed, NoClaim, Reconcile, Settled, OnRelease
<1>7. Holds  BY NothingIs DEF Holds, Steady, Inv, LifeTyped, Reconcile, Settled, OnRelease
<1>. QED  BY <1>1, <1>2, <1>3, <1>4, <1>5, <1>6, <1>7 DEF DiskInv

\* GitWriteBegins keeps the invariant.
LEMMA GitWriteBeginsInv ==
  ASSUME Inv, Steady, GitWriteBegins
  PROVE  DiskInv' /\ Holds
<1> USE WorktreeBounds, CheckpointBounds
<1>1. DiskTyped'  BY DEF Steady, Inv, DiskTyped, Counted, Keeping, Apart, Kinds, Claims, NoMarker, NoClaim,
   Restoring, Ids, GitWriteBegins, Admit, Settled
<1>2. Counted'  BY DEF Steady, Inv, Counted, DiskTyped, Removals, GitWriteBegins, Admit, Settled
<1>3. Apart'  BY DEF Steady, Inv, Apart, DiskTyped, Counted, Keeping, Losses, Deep, Restoring, StrayWrite,
   Holding, Unfinished, Writers, Hold, Busy, Unconfirmed, NoClaim, NoMarker, GitLost, GitWriteBegins,
      Admit, Settled
<1>4. Keeping'  BY DEF Steady, Inv, Keeping, DiskTyped, Apart, Losses, Kinds, Deep, Restoring, StrayWrite,
   Holding, Unfinished, NoClaim, GitLost, NoMarker, GitWriteBegins, Admit, Settled
<1>5. Losses'  BY DEF Steady, Inv, Losses, DiskTyped, Counted, Apart, Keeping, Deep, Restoring, StrayWrite,
   Holding, Unfinished, GitLost, NoMarker, Kinds, GitWriteBegins, Admit, Settled
<1>6. NoStrandedRun'  BY DEF Steady, Inv, NoStrandedRun, DiskTyped, Apart, Keeping, WorktreeHeld, Holding,
   Unfinished, StrayWrite, Restoring, Hold, Busy, Unconfirmed, NoClaim, GitWriteBegins, Admit, Settled
<1>7. Holds  BY NothingIs DEF Holds, Steady, Inv, LifeTyped, GitWriteBegins, Admit, Settled
<1>. QED  BY <1>1, <1>2, <1>3, <1>4, <1>5, <1>6, <1>7 DEF DiskInv

\* LaunchBegins keeps the invariant.
LEMMA LaunchBeginsInv ==
  ASSUME Inv, Steady, LaunchBegins
  PROVE  DiskInv' /\ Holds
<1> USE WorktreeBounds, CheckpointBounds
<1>1. DiskTyped'  BY DEF Steady, Inv, DiskTyped, Counted, Keeping, Apart, Kinds, Claims, NoMarker, NoClaim,
   Restoring, Ids, LaunchBegins, Admit, Settled, disk
<1>2. Counted'  BY DEF Steady, Inv, Counted, DiskTyped, Removals, LaunchBegins, Admit, Settled, disk
<1>3. Apart'  BY DEF Steady, Inv, Apart, DiskTyped, Counted, Keeping, Losses, Deep, Restoring, StrayWrite,
   Holding, Unfinished, Writers, Hold, Busy, Unconfirmed, NoClaim, NoMarker, GitLost, LaunchBegins, Admit,
      Settled, disk
<1>4. Keeping'  BY DEF Steady, Inv, Keeping, DiskTyped, Apart, Losses, Kinds, Deep, Restoring, StrayWrite,
   Holding, Unfinished, NoClaim, GitLost, NoMarker, LaunchBegins, Admit, Settled, disk
<1>5. Losses'  BY DEF Steady, Inv, Losses, DiskTyped, Counted, Apart, Keeping, Deep, Restoring, StrayWrite,
   Holding, Unfinished, GitLost, NoMarker, Kinds, LaunchBegins, Admit, Settled, disk
<1>6. NoStrandedRun'  BY DEF Steady, Inv, NoStrandedRun, DiskTyped, Apart, Keeping, WorktreeHeld, Holding,
   Unfinished, StrayWrite, Restoring, Hold, Busy, Unconfirmed, NoClaim, LaunchBegins, Admit, Settled, disk
<1>7. Holds  BY NothingIs DEF Holds, Steady, Inv, LifeTyped, LaunchBegins, Admit, Settled, disk
<1>. QED  BY <1>1, <1>2, <1>3, <1>4, <1>5, <1>6, <1>7 DEF DiskInv

\* LaunchEnds keeps the invariant.
LEMMA LaunchEndsInv ==
  ASSUME Inv, Steady, LaunchEnds
  PROVE  DiskInv' /\ Holds
<1> USE WorktreeBounds, CheckpointBounds
<1>1. DiskTyped'  BY DEF Steady, Inv, DiskTyped, Counted, Keeping, Apart, Kinds, Claims, NoMarker, NoClaim,
   Restoring, Ids, LaunchEnds, disk
<1>2. Counted'  BY DEF Steady, Inv, Counted, DiskTyped, Removals, LaunchEnds, disk
<1>3. Apart'  BY DEF Steady, Inv, Apart, DiskTyped, Counted, Keeping, Losses, Deep, Restoring, StrayWrite,
   Holding, Unfinished, Writers, Hold, Busy, Unconfirmed, NoClaim, NoMarker, GitLost, LaunchEnds, disk
<1>4. Keeping'  BY DEF Steady, Inv, Keeping, DiskTyped, Apart, Losses, Kinds, Deep, Restoring, StrayWrite,
   Holding, Unfinished, NoClaim, GitLost, NoMarker, LaunchEnds, disk
<1>5. Losses'  BY DEF Steady, Inv, Losses, DiskTyped, Counted, Apart, Keeping, Deep, Restoring, StrayWrite,
   Holding, Unfinished, GitLost, NoMarker, Kinds, LaunchEnds, disk
<1>6. NoStrandedRun'  BY DEF Steady, Inv, NoStrandedRun, DiskTyped, Apart, Keeping, WorktreeHeld, Holding,
   Unfinished, StrayWrite, Restoring, Hold, Busy, Unconfirmed, NoClaim, LaunchEnds, disk
<1>7. Holds  BY NothingIs DEF Holds, Steady, Inv, LifeTyped, LaunchEnds, disk
<1>. QED  BY <1>1, <1>2, <1>3, <1>4, <1>5, <1>6, <1>7 DEF DiskInv

\* GitWriteEnds keeps the invariant.
LEMMA GitWriteEndsInv ==
  ASSUME Inv, Steady, gitWrites > Removals, NEW l \in BOOLEAN, NEW s \in BOOLEAN, GitWriteEnds(l, s)
  PROVE  DiskInv' /\ Holds
<1> USE WorktreeBounds, CheckpointBounds
<1>a. /\ gitWrites \in Nat /\ gitWrites >= Removals + 1 /\ Removals' = Removals /\ Removals \in Nat
      /\ gitWrites' = gitWrites - 1 /\ gitWrites' \in Nat
      /\ gitWrites # 0 /\ (gitWrites = 1 <=> gitWrites' = 0)
  BY DEF Inv, Steady, Counted, Removals, GitWriteEnds, Released
<1>b. /\ marker = NoMarker /\ ~Restoring /\ claim.pc \notin Deep /\ marker' = marker /\ claim' = claim
  BY <1>a DEF Inv, Apart, GitWriteEnds
<1>c. /\ writeMarker /\ ("write" \in lost => stray) /\ "restore" \notin lost
  BY <1>a, <1>b DEF Inv, Losses, Counted
<1>d. /\ stray \/ l => stray' /\ writeMarker'
      /\ gitWrites' # 0 => writeMarker'
      /\ lost' \in {lost, lost \cup {"write"}} /\ (~l => lost' = lost) /\ UNCHANGED <<excused, state, db,
                                                                                      entry>>
  BY <1>a, <1>c DEF Inv, DiskTyped, GitWriteEnds, Released, Lose, Steady
<1>e. alive' \in {alive, alive \cup {"write"}} /\ (~l => alive' = alive) /\ alive' \subseteq lost'
  BY <1>d DEF Inv, DiskTyped, GitWriteEnds, Lose
<1>1. DiskTyped'
  <2>1. UNCHANGED <<taken, refs, marker, origin, claim, partial, unconfirmed, excused>>
        /\ previewed' \in {0, previewed} /\ writeMarker' \in BOOLEAN /\ stray' \in BOOLEAN /\ wake' \in BOOLEAN
    BY <1>b, <1>d DEF Inv, DiskTyped, GitWriteEnds, Released, Lose, Steady
  <2>. QED  BY <1>d, <1>e, <2>1 DEF Inv, DiskTyped, Kinds
<1>2. Counted'  BY <1>a, <1>b, <1>c, <1>d DEF Steady, Inv, Counted, DiskTyped, Removals, GitWriteEnds,
   Released, Lose
<1>3. Apart'  BY <1>a, <1>b, <1>c, <1>d DEF Steady, Inv, Apart, DiskTyped, Counted, Keeping, Losses, Deep,
   Restoring, StrayWrite, Holding, Unfinished, Writers, Hold, Busy, Unconfirmed, NoClaim, NoMarker,
      GitLost, GitWriteEnds, Released, Lose
<1>4. Keeping'  BY <1>a, <1>b, <1>c, <1>d DEF Steady, Inv, Keeping, DiskTyped, Apart, Losses, Kinds, Deep,
   Restoring, StrayWrite, Holding, Unfinished, NoClaim, GitLost, NoMarker, GitWriteEnds, Released, Lose
<1>5. Losses'  BY <1>a, <1>b, <1>c, <1>d DEF Inv, Losses
<1>6. NoStrandedRun'  BY <1>a, <1>b, <1>c, <1>d DEF Steady, Inv, NoStrandedRun, DiskTyped, Apart, Keeping,
   WorktreeHeld, Holding, Unfinished, StrayWrite, Restoring, Hold, Busy, Unconfirmed, NoClaim,
      GitWriteEnds, Released, Lose
<1>7. Holds  BY NothingIs DEF Holds, Steady, Inv, LifeTyped, GitWriteEnds, Released, Lose
<1>. QED  BY <1>1, <1>2, <1>3, <1>4, <1>5, <1>6, <1>7 DEF DiskInv

\* Refused keeps the invariant.
LEMMA RefusedInv ==
  ASSUME Inv, Steady, Refused
  PROVE  DiskInv' /\ Holds
<1> USE WorktreeBounds, CheckpointBounds
<1>1. DiskTyped'  BY NothingIs DEF Steady, Inv, DiskTyped, Counted, Keeping, Apart, Kinds, Restoring, Ids,
   Refused, Release, OnRelease, ClaimOnly, disk
<1>2. Counted'  BY NothingIs DEF Steady, Inv, Counted, DiskTyped, Removals, Refused, Release, OnRelease,
   ClaimOnly, disk
<1>3. Apart'  BY NothingIs DEF Steady, Inv, Apart, DiskTyped, Counted, Keeping, Losses, Deep, Restoring,
   StrayWrite, Holding, Unfinished, Writers, Hold, Busy, Unconfirmed, NoClaim, NoMarker, GitLost, Refused,
      Release, OnRelease, ClaimOnly, disk
<1>4. Keeping'  BY NothingIs DEF Steady, Inv, Keeping, DiskTyped, Apart, Losses, Kinds, Deep, Restoring,
   StrayWrite, Holding, Unfinished, NoClaim, GitLost, NoMarker, Refused, Release, OnRelease, ClaimOnly, disk
<1>5. Losses'  BY NothingIs DEF Steady, Inv, Losses, DiskTyped, Counted, Apart, Keeping, Deep, Restoring,
   StrayWrite, Holding, Unfinished, GitLost, NoMarker, Kinds, Refused, Release, OnRelease, ClaimOnly, disk
<1>6. NoStrandedRun'  BY NothingIs DEF Steady, Inv, NoStrandedRun, DiskTyped, Apart, Keeping, WorktreeHeld,
   Holding, Unfinished, StrayWrite, Restoring, Hold, Busy, Unconfirmed, NoClaim, Refused, Release,
      OnRelease, ClaimOnly, disk
<1>7. Holds  BY NothingIs DEF Holds, Steady, Inv, LifeTyped, Refused, Release, OnRelease, ClaimOnly, disk
<1>. QED  BY <1>1, <1>2, <1>3, <1>4, <1>5, <1>6, <1>7 DEF DiskInv

\* Captures keeps the invariant.
LEMMA CapturesInv ==
  ASSUME Inv, Steady, Captures
  PROVE  DiskInv' /\ Holds
<1> USE WorktreeBounds, CheckpointBounds
<1>1. DiskTyped'  BY DEF Steady, Inv, DiskTyped, Counted, Keeping, Apart, Kinds, Claims, NoMarker, NoClaim,
   Restoring, Ids, Captures, Claim, ClaimOnly, disk
<1>2. Counted'  BY DEF Steady, Inv, Counted, DiskTyped, Removals, Captures, Claim, ClaimOnly, disk
<1>3. Apart'  BY DEF Steady, Inv, Apart, DiskTyped, Counted, Keeping, Losses, Deep, Restoring, StrayWrite,
   Holding, Unfinished, Writers, Hold, Busy, Unconfirmed, NoClaim, NoMarker, GitLost, Captures, Claim,
      ClaimOnly, disk
<1>4. Keeping'  BY DEF Steady, Inv, Keeping, DiskTyped, Apart, Losses, Kinds, Deep, Restoring, StrayWrite,
   Holding, Unfinished, NoClaim, GitLost, NoMarker, Captures, Claim, ClaimOnly, disk
<1>5. Losses'  BY DEF Steady, Inv, Losses, DiskTyped, Counted, Apart, Keeping, Deep, Restoring, StrayWrite,
   Holding, Unfinished, GitLost, NoMarker, Kinds, Captures, Claim, ClaimOnly, disk
<1>6. NoStrandedRun'  BY DEF Steady, Inv, NoStrandedRun, DiskTyped, Apart, Keeping, WorktreeHeld, Holding,
   Unfinished, StrayWrite, Restoring, Hold, Busy, Unconfirmed, NoClaim, Captures, Claim, ClaimOnly, disk
<1>7. Holds  BY NothingIs DEF Holds, Steady, Inv, LifeTyped, Captures, Claim, ClaimOnly, disk
<1>. QED  BY <1>1, <1>2, <1>3, <1>4, <1>5, <1>6, <1>7 DEF DiskInv

\* Recovers keeps the invariant.
LEMMA RecoversInv ==
  ASSUME Inv, Steady, Recovers
  PROVE  DiskInv' /\ Holds
<1> USE WorktreeBounds, CheckpointBounds
<1>1. DiskTyped'  BY DEF Steady, Inv, DiskTyped, Counted, Keeping, Apart, Kinds, Claims, NoMarker, NoClaim,
   Restoring, Ids, Recovers, Claim, ClaimOnly, disk
<1>2. Counted'  BY DEF Steady, Inv, Counted, DiskTyped, Removals, Recovers, Claim, ClaimOnly, disk
<1>3. Apart'  BY DEF Steady, Inv, Apart, DiskTyped, Counted, Keeping, Losses, Deep, Restoring, StrayWrite,
   Holding, Unfinished, Writers, Hold, Busy, Unconfirmed, NoClaim, NoMarker, GitLost, Recovers, Claim,
      ClaimOnly, disk
<1>4. Keeping'  BY DEF Steady, Inv, Keeping, DiskTyped, Apart, Losses, Kinds, Deep, Restoring, StrayWrite,
   Holding, Unfinished, NoClaim, GitLost, NoMarker, Recovers, Claim, ClaimOnly, disk
<1>5. Losses'  BY DEF Steady, Inv, Losses, DiskTyped, Counted, Apart, Keeping, Deep, Restoring, StrayWrite,
   Holding, Unfinished, GitLost, NoMarker, Kinds, Recovers, Claim, ClaimOnly, disk
<1>6. NoStrandedRun'  BY DEF Steady, Inv, NoStrandedRun, DiskTyped, Apart, Keeping, WorktreeHeld, Holding,
   Unfinished, StrayWrite, Restoring, Hold, Busy, Unconfirmed, NoClaim, Recovers, Claim, ClaimOnly, disk
<1>7. Holds  BY NothingIs DEF Holds, Steady, Inv, LifeTyped, Recovers, Claim, ClaimOnly, disk
<1>. QED  BY <1>1, <1>2, <1>3, <1>4, <1>5, <1>6, <1>7 DEF DiskInv

\* Deletes keeps the invariant.
LEMMA DeletesInv ==
  ASSUME Inv, Steady, NEW id \in Ids, Deletes(id)
  PROVE  DiskInv' /\ Holds
<1> USE WorktreeBounds, CheckpointBounds
<1>1. DiskTyped'  BY DEF Steady, Inv, DiskTyped, Counted, Keeping, Apart, Kinds, Claims, NoMarker, NoClaim,
   Restoring, Ids, Deletes, Claim, ClaimOnly, disk
<1>2. Counted'  BY DEF Steady, Inv, Counted, DiskTyped, Removals, Deletes, Claim, ClaimOnly, disk
<1>3. Apart'  BY DEF Steady, Inv, Apart, DiskTyped, Counted, Keeping, Losses, Deep, Restoring, StrayWrite,
   Holding, Unfinished, Writers, Hold, Busy, Unconfirmed, NoClaim, NoMarker, GitLost, Deletes, Claim,
      ClaimOnly, disk
<1>4. Keeping'  BY DEF Steady, Inv, Keeping, DiskTyped, Apart, Losses, Kinds, Deep, Restoring, StrayWrite,
   Holding, Unfinished, NoClaim, GitLost, NoMarker, Deletes, Claim, ClaimOnly, disk
<1>5. Losses'  BY DEF Steady, Inv, Losses, DiskTyped, Counted, Apart, Keeping, Deep, Restoring, StrayWrite,
   Holding, Unfinished, GitLost, NoMarker, Kinds, Deletes, Claim, ClaimOnly, disk
<1>6. NoStrandedRun'  BY DEF Steady, Inv, NoStrandedRun, DiskTyped, Apart, Keeping, WorktreeHeld, Holding,
   Unfinished, StrayWrite, Restoring, Hold, Busy, Unconfirmed, NoClaim, Deletes, Claim, ClaimOnly, disk
<1>7. Holds  BY NothingIs DEF Holds, Steady, Inv, LifeTyped, Deletes, Claim, ClaimOnly, disk
<1>. QED  BY <1>1, <1>2, <1>3, <1>4, <1>5, <1>6, <1>7 DEF DiskInv

\* Preview keeps the invariant.
LEMMA PreviewInv ==
  ASSUME Inv, Steady, NEW id \in Ids, Preview(id)
  PROVE  DiskInv' /\ Holds
<1> USE WorktreeBounds, CheckpointBounds
<1>1. DiskTyped'  BY DEF Steady, Inv, DiskTyped, Counted, Keeping, Apart, Kinds, Claims, NoMarker, NoClaim,
   Restoring, Ids, Preview, holds
<1>2. Counted'  BY DEF Steady, Inv, Counted, DiskTyped, Removals, Preview, holds
<1>3. Apart'  BY DEF Steady, Inv, Apart, DiskTyped, Counted, Keeping, Losses, Deep, Restoring, StrayWrite,
   Holding, Unfinished, Writers, Hold, Busy, Unconfirmed, NoClaim, NoMarker, GitLost, Preview, holds
<1>4. Keeping'  BY DEF Steady, Inv, Keeping, DiskTyped, Apart, Losses, Kinds, Deep, Restoring, StrayWrite,
   Holding, Unfinished, NoClaim, GitLost, NoMarker, Preview, holds
<1>5. Losses'  BY DEF Steady, Inv, Losses, DiskTyped, Counted, Apart, Keeping, Deep, Restoring, StrayWrite,
   Holding, Unfinished, GitLost, NoMarker, Kinds, Preview, holds
<1>6. NoStrandedRun'  BY DEF Steady, Inv, NoStrandedRun, DiskTyped, Apart, Keeping, WorktreeHeld, Holding,
   Unfinished, StrayWrite, Restoring, Hold, Busy, Unconfirmed, NoClaim, Preview, holds
<1>7. Holds  BY NothingIs DEF Holds, Steady, Inv, LifeTyped, Preview, holds
<1>. QED  BY <1>1, <1>2, <1>3, <1>4, <1>5, <1>6, <1>7 DEF DiskInv

\* Restores keeps the invariant.
LEMMA RestoresInv ==
  ASSUME Inv, Steady, NEW id \in Ids, NEW r \in BOOLEAN, Restores(id, r, Writers)
  PROVE  DiskInv' /\ Holds
<1> USE WorktreeBounds, CheckpointBounds
<1>1. DiskTyped'  BY DEF Steady, Inv, DiskTyped, Counted, Keeping, Apart, Kinds, Claims, NoMarker, NoClaim,
   Restoring, Ids, Restores, Claim, ClaimOnly, disk, GitWriters, Settled
<1>2. Counted'  BY DEF Steady, Inv, Counted, DiskTyped, Removals, Restores, Claim, ClaimOnly, disk,
   GitWriters, Settled
<1>3. Apart'  BY DEF Steady, Inv, Apart, DiskTyped, Counted, Keeping, Losses, Deep, Restoring, StrayWrite,
   Holding, Unfinished, Writers, Hold, Busy, Unconfirmed, NoClaim, NoMarker, GitLost, Restores, Claim,
      ClaimOnly, disk, GitWriters, Settled
<1>4. Keeping'  BY DEF Steady, Inv, Keeping, DiskTyped, Apart, Losses, Kinds, Deep, Restoring, StrayWrite,
   Holding, Unfinished, NoClaim, GitLost, NoMarker, Restores, Claim, ClaimOnly, disk, GitWriters, Settled
<1>5. Losses'  BY DEF Steady, Inv, Losses, DiskTyped, Counted, Apart, Keeping, Deep, Restoring, StrayWrite,
   Holding, Unfinished, GitLost, NoMarker, Kinds, Restores, Claim, ClaimOnly, disk, GitWriters, Settled
<1>6. NoStrandedRun'  BY DEF Steady, Inv, NoStrandedRun, DiskTyped, Apart, Keeping, WorktreeHeld, Holding,
   Unfinished, StrayWrite, Restoring, Hold, Busy, Unconfirmed, NoClaim, Restores, Claim, ClaimOnly, disk,
      GitWriters, Settled
<1>7. Holds  BY NothingIs DEF Holds, Steady, Inv, LifeTyped, Restores, Claim, ClaimOnly, disk, GitWriters,
   Settled
<1>. QED  BY <1>1, <1>2, <1>3, <1>4, <1>5, <1>6, <1>7 DEF DiskInv

\* Capture keeps the invariant.
LEMMA CaptureInv ==
  ASSUME Inv, Steady, Capture
  PROVE  DiskInv' /\ Holds
<1> USE WorktreeBounds, CheckpointBounds
<1>a. refs' \subseteq 1..taken' /\ taken' \in 0..MaxIds
  <2>1. taken' = taken + 1 /\ taken \in 0..MaxIds /\ taken < MaxIds /\ refs \subseteq 1..taken  BY DEF Inv,
     DiskTyped, Capture, Record
  <2>2. taken' \in 0..MaxIds /\ 1..taken \subseteq 1..taken' /\ taken + 1 \in 1..taken'  BY <2>1
  <2>. QED  BY <2>1, <2>2 DEF Capture
<1>1. DiskTyped'  BY <1>a, NothingIs DEF Steady, Inv, DiskTyped, Counted, Keeping, Apart, Kinds, Restoring,
   Ids, Capture, Record, Release, OnRelease, Steps
<1>2. Counted'  BY <1>a, NothingIs DEF Steady, Inv, Counted, DiskTyped, Removals, Capture, Record, Release,
   OnRelease, Steps
<1>3. Apart'  BY <1>a, NothingIs DEF Steady, Inv, Apart, DiskTyped, Counted, Keeping, Losses, Deep,
   Restoring, StrayWrite, Holding, Unfinished, Writers, Hold, Busy, Unconfirmed, NoClaim, NoMarker,
      GitLost, Capture, Record, Release, OnRelease, Steps
<1>4. Keeping'  BY <1>a, NothingIs DEF Steady, Inv, Keeping, DiskTyped, Apart, Losses, Kinds, Deep,
   Restoring, StrayWrite, Holding, Unfinished, NoClaim, GitLost, NoMarker, Capture, Record, Release,
      OnRelease, Steps
<1>5. Losses'  BY <1>a, NothingIs DEF Steady, Inv, Losses, DiskTyped, Counted, Apart, Keeping, Deep,
   Restoring, StrayWrite, Holding, Unfinished, GitLost, NoMarker, Kinds, Capture, Record, Release,
      OnRelease, Steps
<1>6. NoStrandedRun'  BY <1>a, NothingIs DEF Steady, Inv, NoStrandedRun, DiskTyped, Apart, Keeping,
   WorktreeHeld, Holding, Unfinished, StrayWrite, Restoring, Hold, Busy, Unconfirmed, NoClaim, Capture,
      Record, Release, OnRelease, Steps
<1>7. Holds  BY NothingIs DEF Holds, Steady, Inv, LifeTyped, Capture, Record, Release, OnRelease, Steps
<1>. QED  BY <1>1, <1>2, <1>3, <1>4, <1>5, <1>6, <1>7 DEF DiskInv

\* Delete keeps the invariant.
LEMMA DeleteInv ==
  ASSUME Inv, Steady, Delete
  PROVE  DiskInv' /\ Holds
<1> USE WorktreeBounds, CheckpointBounds
<1>1. DiskTyped'  BY NothingIs DEF Steady, Inv, DiskTyped, Counted, Keeping, Apart, Kinds, Restoring, Ids,
   Delete, Release, OnRelease, Steps
<1>2. Counted'  BY NothingIs DEF Steady, Inv, Counted, DiskTyped, Removals, Delete, Release, OnRelease, Steps
<1>3. Apart'  BY NothingIs DEF Steady, Inv, Apart, DiskTyped, Counted, Keeping, Losses, Deep, Restoring,
   StrayWrite, Holding, Unfinished, Writers, Hold, Busy, Unconfirmed, NoClaim, NoMarker, GitLost, Delete,
      Release, OnRelease, Steps
<1>4. Keeping'  BY NothingIs DEF Steady, Inv, Keeping, DiskTyped, Apart, Losses, Kinds, Deep, Restoring,
   StrayWrite, Holding, Unfinished, NoClaim, GitLost, NoMarker, Delete, Release, OnRelease, Steps
<1>5. Losses'  BY NothingIs DEF Steady, Inv, Losses, DiskTyped, Counted, Apart, Keeping, Deep, Restoring,
   StrayWrite, Holding, Unfinished, GitLost, NoMarker, Kinds, Delete, Release, OnRelease, Steps
<1>6. NoStrandedRun'  BY NothingIs DEF Steady, Inv, NoStrandedRun, DiskTyped, Apart, Keeping, WorktreeHeld,
   Holding, Unfinished, StrayWrite, Restoring, Hold, Busy, Unconfirmed, NoClaim, Delete, Release,
      OnRelease, Steps
<1>7. Holds  BY NothingIs DEF Holds, Steady, Inv, LifeTyped, Delete, Release, OnRelease, Steps
<1>. QED  BY <1>1, <1>2, <1>3, <1>4, <1>5, <1>6, <1>7 DEF DiskInv

\* RestoreRecords keeps the invariant.
LEMMA RestoreRecordsInv ==
  ASSUME Inv, Steady, RestoreRecords
  PROVE  DiskInv' /\ Holds
<1> USE WorktreeBounds, CheckpointBounds
<1>a. refs' \subseteq 1..taken' /\ taken' \in 0..MaxIds /\ taken + 1 \in Nat
  <2>1. taken' = taken + 1 /\ taken \in 0..MaxIds /\ taken < MaxIds /\ refs \subseteq 1..taken  BY DEF Inv,
     DiskTyped, RestoreRecords, Record
  <2>2. taken' \in 0..MaxIds /\ 1..taken \subseteq 1..taken' /\ taken + 1 \in 1..taken'  BY <2>1
  <2>. QED  BY <2>1, <2>2 DEF RestoreRecords
<1>1. DiskTyped'  BY <1>a DEF Steady, Inv, DiskTyped, Counted, Keeping, Apart, Kinds, Claims, NoMarker,
   NoClaim, Restoring, Ids, RestoreRecords, AdmitMarker, OwnerPending, SamePlan, Record, Steps, Settled
<1>2. Counted'  BY <1>a DEF Steady, Inv, Counted, DiskTyped, Removals, RestoreRecords, AdmitMarker,
   OwnerPending, SamePlan, Record, Steps, Settled
<1>3. Apart'  BY <1>a DEF Steady, Inv, Apart, DiskTyped, Counted, Keeping, Losses, Deep, Restoring,
   StrayWrite, Holding, Unfinished, Writers, Hold, Busy, Unconfirmed, NoClaim, NoMarker, GitLost,
      RestoreRecords, AdmitMarker, OwnerPending, SamePlan, Record, Steps, Settled
<1>4. Keeping'  BY <1>a DEF Steady, Inv, Keeping, DiskTyped, Apart, Losses, Kinds, Deep, Restoring,
   StrayWrite, Holding, Unfinished, NoClaim, GitLost, NoMarker, RestoreRecords, AdmitMarker, OwnerPending,
      SamePlan, Record, Steps, Settled
<1>5. Losses'  BY <1>a DEF Steady, Inv, Losses, DiskTyped, Counted, Apart, Keeping, Deep, Restoring,
   StrayWrite, Holding, Unfinished, GitLost, NoMarker, Kinds, RestoreRecords, AdmitMarker, OwnerPending,
      SamePlan, Record, Steps, Settled
<1>6. NoStrandedRun'  BY <1>a DEF Steady, Inv, NoStrandedRun, DiskTyped, Apart, Keeping, WorktreeHeld,
   Holding, Unfinished, StrayWrite, Restoring, Hold, Busy, Unconfirmed, NoClaim, RestoreRecords,
      AdmitMarker, OwnerPending, SamePlan, Record, Steps, Settled
<1>7. Holds  BY NothingIs DEF Holds, Steady, Inv, LifeTyped, RestoreRecords, AdmitMarker, OwnerPending,
   SamePlan, Record, Steps, Settled
<1>. QED  BY <1>1, <1>2, <1>3, <1>4, <1>5, <1>6, <1>7 DEF DiskInv

\* RestorePrunes keeps the invariant.
LEMMA RestorePrunesInv ==
  ASSUME Inv, Steady, RestorePrunes
  PROVE  DiskInv' /\ Holds
<1> USE WorktreeBounds, CheckpointBounds
<1>1. DiskTyped'  BY DEF Steady, Inv, DiskTyped, Counted, Keeping, Apart, Kinds, Claims, NoMarker, NoClaim,
   Restoring, Ids, RestorePrunes, Pruned, PruneKeeps, Steps
<1>2. Counted'  BY DEF Steady, Inv, Counted, DiskTyped, Removals, RestorePrunes, Pruned, PruneKeeps, Steps
<1>3. Apart'  BY DEF Steady, Inv, Apart, DiskTyped, Counted, Keeping, Losses, Deep, Restoring, StrayWrite,
   Holding, Unfinished, Writers, Hold, Busy, Unconfirmed, NoClaim, NoMarker, GitLost, RestorePrunes,
      Pruned, PruneKeeps, Steps
<1>4. Keeping'  BY DEF Steady, Inv, Keeping, DiskTyped, Apart, Losses, Kinds, Deep, Restoring, StrayWrite,
   Holding, Unfinished, NoClaim, GitLost, NoMarker, RestorePrunes, Pruned, PruneKeeps, Steps
<1>5. Losses'  BY DEF Steady, Inv, Losses, DiskTyped, Counted, Apart, Keeping, Deep, Restoring, StrayWrite,
   Holding, Unfinished, GitLost, NoMarker, Kinds, RestorePrunes, Pruned, PruneKeeps, Steps
<1>6. NoStrandedRun'  BY DEF Steady, Inv, NoStrandedRun, DiskTyped, Apart, Keeping, WorktreeHeld, Holding,
   Unfinished, StrayWrite, Restoring, Hold, Busy, Unconfirmed, NoClaim, RestorePrunes, Pruned, PruneKeeps,
      Steps
<1>7. Holds  BY NothingIs DEF Holds, Steady, Inv, LifeTyped, RestorePrunes, Pruned, PruneKeeps, Steps
<1>. QED  BY <1>1, <1>2, <1>3, <1>4, <1>5, <1>6, <1>7 DEF DiskInv

\* RestoreMarks keeps the invariant.
LEMMA RestoreMarksInv ==
  ASSUME Inv, Steady, RestoreMarks
  PROVE  DiskInv' /\ Holds
<1> USE WorktreeBounds, CheckpointBounds
<1>a. {claim.id, claim.safety} \subseteq refs /\ refs \subseteq Ids
  BY DEF Inv, RestoreMarks, Keeping, Apart, Deep, DiskTyped, Ids
<1>1. DiskTyped'  BY <1>a DEF Steady, Inv, DiskTyped, Counted, Keeping, Apart, Kinds, Claims, NoMarker,
   NoClaim, Restoring, Ids, RestoreMarks, PruneKeeps, Steps
<1>2. Counted'  BY <1>a DEF Steady, Inv, Counted, DiskTyped, Removals, RestoreMarks, PruneKeeps, Steps
<1>3. Apart'  BY <1>a DEF Steady, Inv, Apart, DiskTyped, Counted, Keeping, Losses, Deep, Restoring,
   StrayWrite, Holding, Unfinished, Writers, Hold, Busy, Unconfirmed, NoClaim, NoMarker, GitLost,
      RestoreMarks, PruneKeeps, Steps
<1>4. Keeping'  BY <1>a DEF Steady, Inv, Keeping, DiskTyped, Apart, Losses, Kinds, Deep, Restoring,
   StrayWrite, Holding, Unfinished, NoClaim, GitLost, NoMarker, RestoreMarks, PruneKeeps, Steps
<1>5. Losses'  BY <1>a DEF Steady, Inv, Losses, DiskTyped, Counted, Apart, Keeping, Deep, Restoring,
   StrayWrite, Holding, Unfinished, GitLost, NoMarker, Kinds, RestoreMarks, PruneKeeps, Steps
<1>6. NoStrandedRun'  BY <1>a DEF Steady, Inv, NoStrandedRun, DiskTyped, Apart, Keeping, WorktreeHeld,
   Holding, Unfinished, StrayWrite, Restoring, Hold, Busy, Unconfirmed, NoClaim, RestoreMarks, PruneKeeps,
      Steps
<1>7. Holds
  <2>1. attempts' = attempts /\ agent' = agent /\ attempts \in Nat  BY DEF Steady, Inv, LifeTyped
  <2>2. Restoring /\ GitLost = {}  BY DEF Inv, Apart, Keeping, Deep, RestoreMarks
  <2>3. "step" \notin lost \ excused  BY <2>2 DEF Inv, Apart, Losses, Writers, Hold, Unconfirmed
  <2>4. alive \subseteq excused  BY <2>2, <2>3 DEF Inv, DiskTyped, Kinds, GitLost
  <2>. QED  BY <2>1, <2>4 DEF Holds
<1>. QED  BY <1>1, <1>2, <1>3, <1>4, <1>5, <1>6, <1>7 DEF DiskInv

\* Apply keeps the invariant.
LEMMA ApplyInv ==
  ASSUME Inv, Steady, Apply
  PROVE  DiskInv' /\ Holds
<1> USE WorktreeBounds, CheckpointBounds
<1>1. DiskTyped'  BY DEF Steady, Inv, DiskTyped, Counted, Keeping, Apart, Kinds, Claims, NoMarker, NoClaim,
   Restoring, Ids, Apply, Steps
<1>2. Counted'  BY DEF Steady, Inv, Counted, DiskTyped, Removals, Apply, Steps
<1>3. Apart'  BY DEF Steady, Inv, Apart, DiskTyped, Counted, Keeping, Losses, Deep, Restoring, StrayWrite,
   Holding, Unfinished, Writers, Hold, Busy, Unconfirmed, NoClaim, NoMarker, GitLost, Apply, Steps
<1>4. Keeping'  BY DEF Steady, Inv, Keeping, DiskTyped, Apart, Losses, Kinds, Deep, Restoring, StrayWrite,
   Holding, Unfinished, NoClaim, GitLost, NoMarker, Apply, Steps
<1>5. Losses'  BY DEF Steady, Inv, Losses, DiskTyped, Counted, Apart, Keeping, Deep, Restoring, StrayWrite,
   Holding, Unfinished, GitLost, NoMarker, Kinds, Apply, Steps
<1>6. NoStrandedRun'  BY DEF Steady, Inv, NoStrandedRun, DiskTyped, Apart, Keeping, WorktreeHeld, Holding,
   Unfinished, StrayWrite, Restoring, Hold, Busy, Unconfirmed, NoClaim, Apply, Steps
<1>7. Holds  BY NothingIs DEF Holds, Steady, Inv, LifeTyped, Apply, Steps
<1>. QED  BY <1>1, <1>2, <1>3, <1>4, <1>5, <1>6, <1>7 DEF DiskInv

\* RestoreEnds keeps the invariant.
LEMMA RestoreEndsInv ==
  ASSUME Inv, Steady, RestoreEnds
  PROVE  DiskInv' /\ Holds
<1> USE WorktreeBounds, CheckpointBounds
<1>1. DiskTyped'  BY NothingIs DEF Steady, Inv, DiskTyped, Counted, Keeping, Apart, Kinds, Restoring, Ids,
   RestoreEnds, Release, OnRelease, Steps
<1>2. Counted'  BY NothingIs DEF Steady, Inv, Counted, DiskTyped, Removals, RestoreEnds, Release,
   OnRelease, Steps
<1>3. Apart'  BY NothingIs DEF Steady, Inv, Apart, DiskTyped, Counted, Keeping, Losses, Deep, Restoring,
   StrayWrite, Holding, Unfinished, Writers, Hold, Busy, Unconfirmed, NoClaim, NoMarker, GitLost,
      RestoreEnds, Release, OnRelease, Steps
<1>4. Keeping'  BY NothingIs DEF Steady, Inv, Keeping, DiskTyped, Apart, Losses, Kinds, Deep, Restoring,
   StrayWrite, Holding, Unfinished, NoClaim, GitLost, NoMarker, RestoreEnds, Release, OnRelease, Steps
<1>5. Losses'  BY NothingIs DEF Steady, Inv, Losses, DiskTyped, Counted, Apart, Keeping, Deep, Restoring,
   StrayWrite, Holding, Unfinished, GitLost, NoMarker, Kinds, RestoreEnds, Release, OnRelease, Steps
<1>6. NoStrandedRun'  BY NothingIs DEF Steady, Inv, NoStrandedRun, DiskTyped, Apart, Keeping, WorktreeHeld,
   Holding, Unfinished, StrayWrite, Restoring, Hold, Busy, Unconfirmed, NoClaim, RestoreEnds, Release,
      OnRelease, Steps
<1>7. Holds  BY NothingIs DEF Holds, Steady, Inv, LifeTyped, RestoreEnds, Release, OnRelease, Steps
<1>. QED  BY <1>1, <1>2, <1>3, <1>4, <1>5, <1>6, <1>7 DEF DiskInv

\* RestoreFails keeps the invariant.
LEMMA RestoreFailsInv ==
  ASSUME Inv, Steady, NEW l \in BOOLEAN, RestoreFails(l)
  PROVE  DiskInv' /\ Holds
<1> USE WorktreeBounds, CheckpointBounds
<1>1. DiskTyped'  BY NothingIs DEF Steady, Inv, DiskTyped, Counted, Keeping, Apart, Kinds, Restoring, Ids,
   RestoreFails, Lose, Release, OnRelease, disk
<1>2. Counted'  BY NothingIs DEF Steady, Inv, Counted, DiskTyped, Removals, RestoreFails, Lose, Release,
   OnRelease, disk
<1>3. Apart'  BY NothingIs DEF Steady, Inv, Apart, DiskTyped, Counted, Keeping, Losses, Deep, Restoring,
   StrayWrite, Holding, Unfinished, Writers, Hold, Busy, Unconfirmed, NoClaim, NoMarker, GitLost,
      RestoreFails, Lose, Release, OnRelease, disk
<1>4. Keeping'  BY NothingIs DEF Steady, Inv, Keeping, DiskTyped, Apart, Losses, Kinds, Deep, Restoring,
   StrayWrite, Holding, Unfinished, NoClaim, GitLost, NoMarker, RestoreFails, Lose, Release, OnRelease, disk
<1>5. Losses'  BY NothingIs DEF Steady, Inv, Losses, DiskTyped, Counted, Apart, Keeping, Deep, Restoring,
   StrayWrite, Holding, Unfinished, GitLost, NoMarker, Kinds, RestoreFails, Lose, Release, OnRelease, disk
<1>6. NoStrandedRun'  BY NothingIs DEF Steady, Inv, NoStrandedRun, DiskTyped, Apart, Keeping, WorktreeHeld,
   Holding, Unfinished, StrayWrite, Restoring, Hold, Busy, Unconfirmed, NoClaim, RestoreFails, Lose,
      Release, OnRelease, disk
<1>7. Holds  BY NothingIs DEF Holds, Steady, Inv, LifeTyped, RestoreFails, Lose, Release, OnRelease, disk
<1>. QED  BY <1>1, <1>2, <1>3, <1>4, <1>5, <1>6, <1>7 DEF DiskInv

\* Keep keeps the invariant.
LEMMA KeepInv ==
  ASSUME Inv, Steady, Keep
  PROVE  DiskInv' /\ Holds
<1> USE WorktreeBounds, CheckpointBounds
<1>1. DiskTyped'  BY NothingIs DEF Steady, Inv, DiskTyped, Counted, Keeping, Apart, Kinds, Restoring, Ids,
   Keep, OwnerPending, Settled, OnRelease, Steps
<1>2. Counted'  BY NothingIs DEF Steady, Inv, Counted, DiskTyped, Removals, Keep, OwnerPending, Settled,
   OnRelease, Steps
<1>3. Apart'  BY NothingIs DEF Steady, Inv, Apart, DiskTyped, Counted, Keeping, Losses, Deep, Restoring,
   StrayWrite, Holding, Unfinished, Writers, Hold, Busy, Unconfirmed, NoClaim, NoMarker, GitLost, Keep,
      OwnerPending, Settled, OnRelease, Steps
<1>4. Keeping'  BY NothingIs DEF Steady, Inv, Keeping, DiskTyped, Apart, Losses, Kinds, Deep, Restoring,
   StrayWrite, Holding, Unfinished, NoClaim, GitLost, NoMarker, Keep, OwnerPending, Settled, OnRelease, Steps
<1>5. Losses'  BY NothingIs DEF Steady, Inv, Losses, DiskTyped, Counted, Apart, Keeping, Deep, Restoring,
   StrayWrite, Holding, Unfinished, GitLost, NoMarker, Kinds, Keep, OwnerPending, Settled, OnRelease, Steps
<1>6. NoStrandedRun'  BY NothingIs DEF Steady, Inv, NoStrandedRun, DiskTyped, Apart, Keeping, WorktreeHeld,
   Holding, Unfinished, StrayWrite, Restoring, Hold, Busy, Unconfirmed, NoClaim, Keep, OwnerPending,
      Settled, OnRelease, Steps
<1>7. Holds  BY NothingIs DEF Holds, Steady, Inv, LifeTyped, Keep, OwnerPending, Settled, OnRelease, Steps
<1>. QED  BY <1>1, <1>2, <1>3, <1>4, <1>5, <1>6, <1>7 DEF DiskInv

\* ProcessDies keeps the invariant.
LEMMA ProcessDiesInv ==
  ASSUME Inv, Steady, NEW k \in Kinds, ProcessDies(k)
  PROVE  DiskInv' /\ Holds
<1> USE WorktreeBounds, CheckpointBounds
<1>1. DiskTyped'  BY DEF Steady, Inv, DiskTyped, Counted, Keeping, Apart, Kinds, Claims, NoMarker, NoClaim,
   Restoring, Ids, ProcessDies, holds
<1>2. Counted'  BY DEF Steady, Inv, Counted, DiskTyped, Removals, ProcessDies, holds
<1>3. Apart'  BY DEF Steady, Inv, Apart, DiskTyped, Counted, Keeping, Losses, Deep, Restoring, StrayWrite,
   Holding, Unfinished, Writers, Hold, Busy, Unconfirmed, NoClaim, NoMarker, GitLost, ProcessDies, holds
<1>4. Keeping'  BY DEF Steady, Inv, Keeping, DiskTyped, Apart, Losses, Kinds, Deep, Restoring, StrayWrite,
   Holding, Unfinished, NoClaim, GitLost, NoMarker, ProcessDies, holds
<1>5. Losses'  BY DEF Steady, Inv, Losses, DiskTyped, Counted, Apart, Keeping, Deep, Restoring, StrayWrite,
   Holding, Unfinished, GitLost, NoMarker, Kinds, ProcessDies, holds
<1>6. NoStrandedRun'  BY DEF Steady, Inv, NoStrandedRun, DiskTyped, Apart, Keeping, WorktreeHeld, Holding,
   Unfinished, StrayWrite, Restoring, Hold, Busy, Unconfirmed, NoClaim, ProcessDies, holds
<1>7. Holds  BY NothingIs DEF Holds, Steady, Inv, LifeTyped, ProcessDies, holds
<1>. QED  BY <1>1, <1>2, <1>3, <1>4, <1>5, <1>6, <1>7 DEF DiskInv

\* lifecycle
LEMMA ClaimLifecycleInv ==
  ASSUME Inv, NEW p \in Phases, NEW s \in BOOLEAN, NEW a \in 0..MaxAttempts, ClaimLifecycle(p, s, a)
  PROVE  Inv' /\ Holds
<1> USE WorktreeBounds, CheckpointBounds
<1>g. /\ exists /\ agent = "none" /\ Settled /\ ~Holding /\ entry = NoEntry
      /\ ~Restoring /\ claim.pc \notin Deep /\ marker = NoMarker /\ ~unconfirmed
      /\ entry \in Entries /\ entry.pc = "none" /\ ~entry.complete /\ state.status # "running"
  BY NothingIs DEF Inv, Apart, Stepping, InSteps, ClaimLifecycle, Holding, Unfinished
<1>u. UNCHANGED <<refs, taken, marker, writeMarker, partial, origin, previewed, claim, gitWrites,
                  launches, unconfirmed, stray, lost, alive, wake, restores, writes, exists, instance,
                  config, trusted, state, db, attempts, ran, torn, agent, excused>>
  BY DEF ClaimLifecycle, Own, Checkpoints, checkpointVars, disk, holds
<1>n. /\ entry' \in Entries
      /\ entry'.phase = p
      /\ entry'.pc = "identify"
      /\ entry'.skip = s
      /\ entry'.ack = a
      /\ entry'.complete = FALSE
  <2> DEFINE e == [phase |-> p, pc |-> "identify", inst |-> 0, skip |-> s, ack |-> a, cfg |-> NoConfig, at |-> 0,
                   cancel |-> FALSE, complete |-> FALSE]
  <2>1. entry' = e  BY DEF ClaimLifecycle, NoEntry
  <2>2. e \in Entries  BY DEF Entries, Places, Digests
  <2>. QED  BY <2>1, <2>2
<1>m. entry' # NoEntry  BY <1>n, NothingIs
<1>1. DiskTyped'  BY <1>g, <1>u, <1>n, <1>m, NothingIs DEF Inv, DiskTyped, Counted, Keeping, Apart, Kinds
<1>2. Counted'  BY <1>g, <1>u, <1>n, <1>m, NothingIs DEF Inv, Counted, DiskTyped, Removals
<1>3. Apart'  BY <1>g, <1>u, <1>n, <1>m, NothingIs DEF Inv, Apart, DiskTyped, Counted, Keeping, Losses,
   Deep, Restoring, Writers, Hold, Busy, Unconfirmed, GitLost
<1>4. Keeping'  BY <1>g, <1>u, <1>n, <1>m, NothingIs DEF Inv, Keeping, DiskTyped, Apart, Losses, Deep,
   Restoring, GitLost, Kinds
<1>5. Losses'  BY <1>g, <1>u, <1>n, <1>m, NothingIs DEF Inv, Losses, DiskTyped, Counted, Apart, Keeping,
   GitLost, Kinds
<1>6. NoStrandedRun'  BY <1>g, <1>u, <1>n, <1>m, NothingIs DEF Inv, NoStrandedRun, WorktreeHeld, Holding,
   Unfinished, StrayWrite, Restoring, Hold, Busy, Unconfirmed
<1>7. LifeTyped'  BY <1>g, <1>u, <1>n, <1>m, NothingIs, FreshIs DEF Inv, LifeTyped, Apart
<1>8. Progress'  BY <1>u DEF Inv, Progress, Follows, Reached
<1>9. Stepping'  BY <1>g, <1>u, <1>n, <1>m, NothingIs, FreshIs, PointIs DEF Inv, Stepping, LifeTyped,
   Apart, Progress, InSteps, Near, Phases
<1>10. Holds  BY <1>g, <1>u, <1>n, <1>m, NothingIs DEF Holds, Inv, LifeTyped
<1>. QED  BY <1>1, <1>2, <1>3, <1>4, <1>5, <1>6, <1>7, <1>8, <1>9, <1>10 DEF Inv

\* Refuse keeps the invariant.
LEMMA RefuseInv ==
  ASSUME Inv, Refuse
  PROVE  Inv' /\ Holds
<1> USE WorktreeBounds, CheckpointBounds
<1>h. entry.pc \in {"identify", "clean"} /\ entry.pc # "none"
  BY DEF Refuse
<1>g. /\ entry # NoEntry /\ exists /\ agent = "none" /\ entry \in Entries /\ entry.phase \in Phases
      /\ ~Restoring /\ claim.pc \notin Deep /\ marker = NoMarker /\ ~unconfirmed
      /\ entry.pc \in {"identify", "clean"}
  BY <1>h, AtWork
<1>u. UNCHANGED <<refs, taken, marker, writeMarker, partial, origin, previewed, claim, gitWrites,
                  launches, unconfirmed, stray, lost, alive, restores, writes, exists, instance, config,
                  trusted, state, db, attempts, ran, torn, agent, excused>>
  BY DEF Refuse, Own, End, disk, holds
<1>n. /\ entry' = NoEntry /\ entry' \in Entries /\ entry'.pc = "none" /\ ~entry'.complete
      /\ wake' = (agent = "queued")
  BY NothingIs DEF Refuse, End, OnRelease
<1>1. DiskTyped'  BY <1>h, <1>g, <1>u, <1>n, NothingIs DEF Inv, DiskTyped, Counted, Keeping, Apart, Kinds
<1>2. Counted'  BY <1>h, <1>g, <1>u, <1>n, NothingIs DEF Inv, Counted, DiskTyped, Removals
<1>3. Apart'  BY <1>h, <1>g, <1>u, <1>n, NothingIs DEF Inv, Apart, DiskTyped, Counted, Keeping, Losses,
   Deep, Restoring, Writers, Hold, Busy, Unconfirmed, GitLost
<1>4. Keeping'  BY <1>h, <1>g, <1>u, <1>n, NothingIs DEF Inv, Keeping, DiskTyped, Apart, Losses, Deep,
   Restoring, GitLost, Kinds
<1>5. Losses'  BY <1>h, <1>g, <1>u, <1>n, NothingIs DEF Inv, Losses, DiskTyped, Counted, Apart, Keeping,
   GitLost, Kinds
<1>6. NoStrandedRun'  BY <1>h, <1>g, <1>u, <1>n, NothingIs DEF Inv, NoStrandedRun, WorktreeHeld, Holding,
   Unfinished, StrayWrite, Restoring, Hold, Busy, Unconfirmed
<1>7. LifeTyped'  BY <1>h, <1>g, <1>u, <1>n, NothingIs, FreshIs DEF Inv, LifeTyped, Apart
<1>8. Progress'  BY <1>u DEF Inv, Progress, Follows, Reached
<1>9. Stepping'  BY <1>h, <1>g, <1>u, <1>n, NothingIs, FreshIs, PointIs DEF Inv, Stepping, LifeTyped,
   Apart, Progress, InSteps, Near, Phases
<1>10. Holds  BY <1>h, <1>g, <1>u, <1>n, NothingIs DEF Holds, Inv, LifeTyped
<1>. QED  BY <1>1, <1>2, <1>3, <1>4, <1>5, <1>6, <1>7, <1>8, <1>9, <1>10 DEF Inv

\* NeedsTrust keeps the invariant.
LEMMA NeedsTrustInv ==
  ASSUME Inv, NeedsTrust
  PROVE  Inv' /\ Holds
<1> USE WorktreeBounds, CheckpointBounds
<1>h. entry.pc \in {"identify", "clean"} /\ entry.pc # "none"
  BY DEF NeedsTrust
<1>g. /\ entry # NoEntry /\ exists /\ agent = "none" /\ entry \in Entries /\ entry.phase \in Phases
      /\ ~Restoring /\ claim.pc \notin Deep /\ marker = NoMarker /\ ~unconfirmed
      /\ entry.pc \in {"identify", "clean"}
  BY <1>h, AtWork
<1>u. UNCHANGED <<refs, taken, marker, writeMarker, partial, origin, previewed, claim, gitWrites,
                  launches, unconfirmed, stray, lost, alive, restores, writes, exists, instance, config,
                  trusted, attempts, ran, torn, agent, excused>>
  BY DEF NeedsTrust, Own, End, disk, holds
<1>n. /\ entry' = NoEntry /\ entry' \in Entries /\ entry'.pc = "none" /\ ~entry'.complete
      /\ wake' = (agent = "queued")
  BY NothingIs DEF NeedsTrust, End, OnRelease
<1>s. /\ state' \in States /\ state'.status = "needs-trust" /\ state'.inst = instance
      /\ state'.cp = Current.cp
      /\ state'.unknown = state.unknown /\ state'.run \in {state.run, 0} /\ db' \in {state', db}
  <2> DEFINE r == IF state.unknown THEN state.run ELSE 0
             b == Base(entry.phase)
  <2>1. /\ state' = [b EXCEPT !.status = "needs-trust", !.unknown = state.unknown, !.run = r]
        /\ db' \in {state', db}
    BY DEF NeedsTrust, Commit
  <2>2. r \in Nat /\ r \in {state.run, 0} /\ state.unknown \in BOOLEAN  BY DEF Inv, LifeTyped, States
  <2>3. b \in States /\ b.inst = instance /\ b.cp = Current.cp
    BY <1>g, BaseIs DEF Inv
  <2> HIDE DEF r, b
  <2>4. /\ state' \in States /\ state'.status = "needs-trust" /\ state'.inst = b.inst /\ state'.cp = b.cp
        /\ state'.unknown = state.unknown /\ state'.run = r
    BY <2>1, <2>2, <2>3 DEF States, Statuses
  <2>. QED  BY <2>1, <2>2, <2>3, <2>4
<1>1. DiskTyped'  BY <1>h, <1>g, <1>u, <1>n, <1>s, NothingIs DEF Inv, DiskTyped, Counted, Keeping, Apart,
   Kinds
<1>2. Counted'  BY <1>h, <1>g, <1>u, <1>n, <1>s, NothingIs DEF Inv, Counted, DiskTyped, Removals
<1>3. Apart'  BY <1>h, <1>g, <1>u, <1>n, <1>s, NothingIs DEF Inv, Apart, DiskTyped, Counted, Keeping,
   Losses, Deep, Restoring, Writers, Hold, Busy, Unconfirmed, GitLost
<1>4. Keeping'  BY <1>h, <1>g, <1>u, <1>n, <1>s, NothingIs DEF Inv, Keeping, DiskTyped, Apart, Losses,
   Deep, Restoring, GitLost, Kinds
<1>5. Losses'  BY <1>h, <1>g, <1>u, <1>n, <1>s, NothingIs DEF Inv, Losses, DiskTyped, Counted, Apart,
   Keeping, GitLost, Kinds
<1>6. NoStrandedRun'  BY <1>h, <1>g, <1>u, <1>n, <1>s, NothingIs DEF Inv, NoStrandedRun, WorktreeHeld,
   Holding, Unfinished, StrayWrite, Restoring, Hold, Busy, Unconfirmed
<1>7. LifeTyped'  BY <1>h, <1>g, <1>u, <1>n, <1>s, NothingIs, FreshIs DEF Inv, LifeTyped, Apart
<1>8. Progress'
  <2>1. \A p \in Phases : Reached(state', instance', p) = Reached(state, instance, p)
    BY <1>g, <1>u, <1>s, CurrentReached DEF Inv, Stepping, InSteps, Reached
  <2>. QED  BY <1>g, <1>u, <1>s, <2>1, SameReached DEF Inv, Progress
<1>9. Stepping'  BY <1>h, <1>g, <1>u, <1>n, <1>s, NothingIs, FreshIs, PointIs DEF Inv, Stepping, LifeTyped,
   Apart, Progress, InSteps, Near, Phases
<1>10. Holds  BY <1>h, <1>g, <1>u, <1>n, <1>s, NothingIs DEF Holds, Inv, LifeTyped
<1>. QED  BY <1>1, <1>2, <1>3, <1>4, <1>5, <1>6, <1>7, <1>8, <1>9, <1>10 DEF Inv

\* NothingToSetUp keeps the invariant.
LEMMA NothingToSetUpInv ==
  ASSUME Inv, NothingToSetUp
  PROVE  Inv' /\ Holds
<1> USE WorktreeBounds, CheckpointBounds
<1>h. entry.pc \in {"identify"} /\ entry.pc # "none"
  BY DEF NothingToSetUp
<1>g. /\ entry # NoEntry /\ exists /\ agent = "none" /\ entry \in Entries /\ entry.phase \in Phases
      /\ ~Restoring /\ claim.pc \notin Deep /\ marker = NoMarker /\ ~unconfirmed
      /\ entry.pc \in {"identify"}
  BY <1>h, AtWork
<1>u. UNCHANGED <<refs, taken, marker, writeMarker, partial, origin, previewed, claim, gitWrites,
                  launches, unconfirmed, stray, lost, alive, restores, writes, exists, instance, config,
                  trusted, attempts, torn, agent, excused>>
  BY DEF NothingToSetUp, Own, End, disk, holds
<1>n. /\ entry' = NoEntry /\ entry' \in Entries /\ entry'.pc = "none" /\ ~entry'.complete
      /\ wake' = (agent = "queued")
  BY NothingIs DEF NothingToSetUp, End, OnRelease
<1>s. \/ ~state.unknown /\ state' = NoState /\ db' = NoState /\ ran' = Fresh
      \/ UNCHANGED <<state, db, ran>>
  BY DEF NothingToSetUp, Unconfirmed
<1>1. DiskTyped'  BY <1>h, <1>g, <1>u, <1>n, <1>s, NothingIs DEF Inv, DiskTyped, Counted, Keeping, Apart,
   Kinds
<1>2. Counted'  BY <1>h, <1>g, <1>u, <1>n, <1>s, NothingIs DEF Inv, Counted, DiskTyped, Removals
<1>3. Apart'  BY <1>h, <1>g, <1>u, <1>n, <1>s, NothingIs DEF Inv, Apart, DiskTyped, Counted, Keeping,
   Losses, Deep, Restoring, Writers, Hold, Busy, Unconfirmed, GitLost
<1>4. Keeping'  BY <1>h, <1>g, <1>u, <1>n, <1>s, NothingIs DEF Inv, Keeping, DiskTyped, Apart, Losses,
   Deep, Restoring, GitLost, Kinds
<1>5. Losses'  BY <1>h, <1>g, <1>u, <1>n, <1>s, NothingIs DEF Inv, Losses, DiskTyped, Counted, Apart,
   Keeping, GitLost, Kinds
<1>6. NoStrandedRun'  BY <1>h, <1>g, <1>u, <1>n, <1>s, NothingIs DEF Inv, NoStrandedRun, WorktreeHeld,
   Holding, Unfinished, StrayWrite, Restoring, Hold, Busy, Unconfirmed
<1>7. LifeTyped'  BY <1>h, <1>g, <1>u, <1>n, <1>s, NothingIs, FreshIs DEF Inv, LifeTyped, Apart
<1>8. Progress'
  <2>1. CASE UNCHANGED <<state, db, ran>>  BY <1>u, <2>1 DEF Inv, Progress, Follows, Reached
  <2>2. CASE state' = NoState /\ db' = NoState /\ ran' = Fresh
    <3>1. \A p \in Phases : Reached(NoState, instance, p).cfg = NoConfig
      BY NothingIs, FreshIs, PointIs DEF Reached
    <3>. QED  BY <1>u, <2>2, <3>1, FreshIs DEF Progress, Follows
  <2>. QED  BY <1>s, <2>1, <2>2
<1>9. Stepping'  BY <1>h, <1>g, <1>u, <1>n, <1>s, NothingIs, FreshIs, PointIs DEF Inv, Stepping, LifeTyped,
   Apart, Progress, InSteps, Near, Phases
<1>10. Holds  BY <1>h, <1>g, <1>u, <1>n, <1>s, NothingIs DEF Holds, Inv, LifeTyped
<1>. QED  BY <1>1, <1>2, <1>3, <1>4, <1>5, <1>6, <1>7, <1>8, <1>9, <1>10 DEF Inv

\* A run of set-up or teardown begins: a resumed one where its checkpoint says, which is near
\* the steps done, and with every lost step acknowledged.
LEMMA BeginInv ==
  ASSUME Inv, entry.pc \in {"identify", "clean"}, Wanted # NoConfig, Begin(ResumeAt(entry.phase))
  PROVE  Inv' /\ Holds
<1> USE WorktreeBounds, CheckpointBounds
<1> DEFINE at == ResumeAt(entry.phase)
<1>h. entry.pc \in {"identify", "clean"} /\ entry.pc # "none"
  OBVIOUS
<1>g. /\ entry # NoEntry /\ exists /\ agent = "none" /\ entry \in Entries /\ entry.phase \in Phases
      /\ ~Restoring /\ claim.pc \notin Deep /\ marker = NoMarker /\ ~unconfirmed
      /\ entry.pc \in {"identify", "clean"}
  BY <1>h, AtWork
<1>u. UNCHANGED <<refs, taken, marker, writeMarker, partial, origin, previewed, claim, gitWrites,
                  launches, unconfirmed, stray, lost, alive, wake, restores, writes, exists, instance,
                  config, trusted, agent>>
  BY DEF Begin, Own, Checkpoints, checkpointVars, disk, holds
<1>b. /\ Wanted \in Digests /\ Current.cp \in [Phases -> Points] /\ at \in 0..NStep
      /\ Kept(entry.phase, Current.cp) \in [Phases -> Points] /\ attempts' = attempts + 1 /\ attempts + 1 \in Nat /\ instance \in Nat
  <2>1. Wanted \in Digests /\ Current.cp \in [Phases -> Points] /\ at \in 0..NStep
    BY <1>g, BaseIs DEF Inv, States
  <2>. QED  BY <1>g, <2>1, KeptIs DEF Begin, Inv, LifeTyped
<1>n. /\ entry' \in Entries
      /\ entry'.phase = entry.phase
      /\ entry'.pc = "steps"
      /\ entry'.inst = instance
      /\ entry'.skip = entry.skip
      /\ entry'.ack = entry.ack
      /\ entry'.cfg = entry.cfg
      /\ entry'.at = at
      /\ entry'.cancel = entry.cancel
      /\ entry'.complete = entry.complete
  <2>1. entry' = [entry EXCEPT !.pc = "steps", !.inst = instance, !.at = at]  BY DEF Begin
  <2> HIDE DEF at
  <2>. QED  BY <1>g, <1>b, <2>1 DEF Entries, Places
<1>s. /\ state' \in States /\ db' = state' /\ state'.status = "running" /\ state'.phase = entry.phase
      /\ state'.inst = instance
      /\ state'.cfg = Wanted /\ state'.at = at /\ state'.cp = Kept(entry.phase, Current.cp) /\ state'.run = attempts + 1
      /\ state'.unknown = FALSE
  <2> DEFINE b == Base(entry.phase)
             k == Kept(entry.phase, Current.cp)
  <2>1. /\ state' = [b EXCEPT !.status = "running", !.run = attempts + 1, !.at = at, !.cp = k]
        /\ db' = state'
    BY DEF Begin, CommitStrict
  <2>2. /\ b \in States /\ b.inst = instance /\ b.cfg = Wanted /\ b.phase = entry.phase /\ b.unknown = FALSE
    BY <1>g, BaseIs DEF Inv
  <2>3. k \in [Phases -> Points] /\ at \in 0..NStep /\ attempts + 1 \in Nat  BY <1>b
  <2> HIDE DEF b, k, at
  <2>4. /\ state' \in States /\ state'.status = "running" /\ state'.inst = b.inst /\ state'.cp = k
        /\ state'.cfg = b.cfg
        /\ state'.unknown = b.unknown /\ state'.run = attempts + 1 /\ state'.at = at /\ state'.phase = b.phase
    BY <2>1, <2>2, <2>3 DEF States, Statuses
  <2>. QED  BY <2>1, <2>2, <2>3, <2>4 DEF k
<1>r. /\ ran' \in [Phases -> Points]
      /\ ran'[entry.phase] = IF ran[entry.phase].cfg # Wanted \/ (torn /\ entry.phase = "setup" /\ at = 0)
                              THEN Checkpoint(Wanted, 0) ELSE ran[entry.phase]
      /\ entry.phase = "setup" => ran'["teardown"] = Checkpoint(NoConfig, 0)
      /\ entry.phase = "teardown" => ran'["setup"] = ran["setup"]
      /\ torn' = (torn /\ entry.phase = "teardown")
  <2>1. /\ ran' = [p \in Phases |->
                  CASE p = entry.phase /\ (ran[p].cfg # Wanted \/ (torn /\ p = "setup" /\ at = 0))
                           -> Checkpoint(Wanted, 0)
                    [] p # entry.phase /\ p = "teardown" -> Checkpoint(NoConfig, 0)
                    [] OTHER -> ran[p]]
        /\ torn' = (torn /\ entry.phase = "teardown")
    BY DEF Begin
  <2>2. /\ Checkpoint(Wanted, 0) \in Points /\ Checkpoint(NoConfig, 0) \in Points /\ ran \in [Phases -> Points]
    BY <1>b, PointIs, WorktreeBounds DEF Digests, Inv, LifeTyped
  <2> HIDE DEF at
  <2>3. \A p \in Phases :
          ran'[p] = CASE p = entry.phase /\ (ran[p].cfg # Wanted \/ (torn /\ p = "setup" /\ at = 0))
                             -> Checkpoint(Wanted, 0)
                      [] p # entry.phase /\ p = "teardown" -> Checkpoint(NoConfig, 0)
                      [] OTHER -> ran[p]
    BY <2>1
  <2>4. \A p \in Phases : ran'[p] \in Points  BY <2>2, <2>3
  <2>. QED  BY <1>g, <2>1, <2>3, <2>4 DEF Phases
<1>x. IF state.unknown THEN excused' = excused \cup (lost \cap {"step"}) ELSE excused' = excused
  BY DEF Begin, Excuse, Unconfirmed
<1>y. Near(Checkpoint(Wanted, at), ran'[entry.phase])
  <2> DEFINE cp == Current.cp
  <2>1. \A p \in Phases :
          \/ cp[p].cfg = NoConfig /\ (ran[p].cfg = NoConfig \/ (torn /\ p = "setup"))
          \/ Near(cp[p], ran[p])
    BY <1>g, CurrentReached DEF Inv, Progress, Follows, Stepping, InSteps
  <2>2. at = IF cp[entry.phase].cfg = Wanted THEN cp[entry.phase].at ELSE 0  BY DEF ResumeAt
  <2> HIDE DEF at, cp
  <2>. QED  BY <1>g, <1>r, <2>1, <2>2, PointIs DEF Near
<1>m. entry' # NoEntry  BY <1>h, <1>n, NothingIs
<1> HIDE DEF at
<1>1. DiskTyped'  BY <1>h, <1>g, <1>u, <1>b, <1>n, <1>s, <1>r, <1>x, <1>y, <1>m, NothingIs DEF Inv,
   DiskTyped, Counted, Keeping, Apart, Kinds
<1>2. Counted'  BY <1>h, <1>g, <1>u, <1>b, <1>n, <1>s, <1>r, <1>x, <1>y, <1>m, NothingIs DEF Inv, Counted,
   DiskTyped, Removals
<1>3. Apart'  BY <1>h, <1>g, <1>u, <1>b, <1>n, <1>s, <1>r, <1>x, <1>y, <1>m, NothingIs DEF Inv, Apart,
   DiskTyped, Counted, Keeping, Losses, Deep, Restoring, Writers, Hold, Busy, Unconfirmed, GitLost
<1>4. Keeping'  BY <1>h, <1>g, <1>u, <1>b, <1>n, <1>s, <1>r, <1>x, <1>y, <1>m, NothingIs DEF Inv, Keeping,
   DiskTyped, Apart, Losses, Deep, Restoring, GitLost, Kinds
<1>5. Losses'  BY <1>h, <1>g, <1>u, <1>b, <1>n, <1>s, <1>r, <1>x, <1>y, <1>m, NothingIs DEF Inv, Losses,
   DiskTyped, Counted, Apart, Keeping, GitLost, Kinds
<1>6. NoStrandedRun'  BY <1>h, <1>g, <1>u, <1>b, <1>n, <1>s, <1>r, <1>x, <1>y, <1>m, NothingIs DEF Inv,
   NoStrandedRun, WorktreeHeld, Holding, Unfinished, StrayWrite, Restoring, Hold, Busy, Unconfirmed
<1>7. LifeTyped'  BY <1>h, <1>g, <1>u, <1>b, <1>n, <1>s, <1>r, <1>x, <1>y, <1>m, NothingIs,
   FreshIs DEF Inv, LifeTyped, Apart
<1>8. Progress'
  <2> DEFINE cp == Current.cp
  <2>1. \A p \in Phases :
          \/ cp[p].cfg = NoConfig /\ (ran[p].cfg = NoConfig \/ (torn /\ p = "setup"))
          \/ Near(cp[p], ran[p])
    BY <1>g, CurrentReached DEF Inv, Progress, Follows, Stepping, InSteps
  <2> HIDE DEF cp
  <2>4. Near(Reached(state', instance', entry.phase), ran'[entry.phase])
    BY <1>u, <1>s, <1>y DEF Reached
  <2>5. CASE entry.phase = "setup"
    <3>1. Reached(state', instance', "teardown") = Checkpoint(NoConfig, 0)
      BY <1>g, <1>b, <1>u, <1>s, <2>5, KeptIs DEF Reached
    <3>. QED  BY <1>s, <1>r, <2>4, <2>5, <3>1, PointIs DEF Progress, Follows, Phases
  <2>6. CASE entry.phase = "teardown"
    <3>1. Reached(state', instance', "setup") = cp["setup"]
      BY <1>g, <1>b, <1>u, <1>s, <2>6, KeptIs DEF Reached, cp
    <3>. QED  BY <1>s, <1>r, <2>1, <2>4, <2>6, <3>1 DEF Progress, Follows, Phases
  <2>. QED  BY <1>g, <2>5, <2>6 DEF Phases
<1>9. Stepping'
  <2>1. ~entry.complete /\ entry'.complete = entry.complete  BY <1>h, <1>n DEF Inv, Stepping
  <2>2. Near(Checkpoint(state'.cfg, entry'.at), ran'[entry'.phase])  BY <1>n, <1>s, <1>y
  <2>a. Checkpoint(NoConfig, 0).cfg = NoConfig  BY PointIs
  <2>b. entry.phase = "setup" => ran'["teardown"].cfg = NoConfig  BY <1>r, <2>a
  <2>3. entry.phase = "setup" => (ran'["teardown"].cfg = NoConfig /\ ~torn')  BY <1>r, <2>b
  <2>. QED  BY <1>u, <1>n, <1>s, <2>1, <2>2, <2>3 DEF Stepping, InSteps
<1>10. Holds
  <2>1. agent' = agent /\ claim' = claim  BY <1>u
  <2>2. "restore" \notin lost  BY <1>g DEF Inv, Losses
  <2>3. "step" \in lost => "step" \in excused'  BY <1>x DEF Inv, Losses
  <2>4. alive \ {"write"} \subseteq excused'  BY <2>2, <2>3 DEF Inv, DiskTyped, Kinds
  <2>. QED  BY <2>1, <2>4 DEF Holds
<1>. QED  BY <1>1, <1>2, <1>3, <1>4, <1>5, <1>6, <1>7, <1>8, <1>9, <1>10 DEF Inv

\* SetUp keeps the invariant.
LEMMA SetUpInv == ASSUME Inv, SetUp PROVE Inv' /\ Holds
<1>1. Wanted # NoConfig  BY DEF SetUp, Wanted
<1>. QED  BY <1>1, BeginInv DEF SetUp

\* PrepareRemoval keeps the invariant.
LEMMA PrepareRemovalInv ==
  ASSUME Inv, PrepareRemoval
  PROVE  Inv' /\ Holds
<1> USE WorktreeBounds, CheckpointBounds
<1>h. entry.pc \in {"identify"} /\ entry.pc # "none"
  BY DEF PrepareRemoval
<1>g. /\ entry # NoEntry /\ exists /\ agent = "none" /\ entry \in Entries /\ entry.phase \in Phases
      /\ ~Restoring /\ claim.pc \notin Deep /\ marker = NoMarker /\ ~unconfirmed
      /\ entry.pc \in {"identify"}
  BY <1>h, AtWork
<1>u. UNCHANGED <<refs, taken, marker, writeMarker, partial, origin, previewed, claim, gitWrites,
                  launches, unconfirmed, stray, lost, alive, wake, restores, writes, exists, instance,
                  config, trusted, state, db, attempts, ran, torn, agent>>
      /\ entry.phase = "teardown" /\ IF state.unknown THEN excused' = excused \cup (lost \cap {"step"}) ELSE excused' = excused
  BY DEF PrepareRemoval, Own, Excuse, Unconfirmed, Checkpoints, checkpointVars, disk, holds
<1>n. /\ entry' \in Entries /\ entry'.phase = "teardown" /\ entry'.inst = instance
      /\ entry'.pc \in {"proceed", "clean"}
      /\ entry'.complete \in BOOLEAN /\ entry'.cfg = config
      /\ entry'.complete => entry'.pc = "proceed" /\ config # NoConfig /\ ResumeAt("teardown") = NStep
      /\ entry'.pc = "clean" => config # NoConfig
  <2> DEFINE none == entry.skip \/ config = NoConfig
             done == ~none /\ config \in trusted /\ ResumeAt("teardown") = NStep
             pc == IF none \/ done THEN "proceed" ELSE "clean"
  <2>1. /\ entry' = [entry EXCEPT !.inst = instance, !.cfg = config, !.complete = done, !.pc = pc]
        /\ entry.phase = "teardown"
    BY DEF PrepareRemoval
  <2>2. /\ done \in BOOLEAN /\ (done => config # NoConfig /\ ResumeAt("teardown") = NStep)
        /\ pc \in {"proceed", "clean"} /\ (done => pc = "proceed") /\ (pc = "clean" => config # NoConfig)
    OBVIOUS
  <2>3. config \in Digests /\ instance \in Nat  BY DEF Inv, LifeTyped
  <2> HIDE DEF done, pc
  <2>4. /\ entry' \in Entries /\ entry'.phase = entry.phase /\ entry'.inst = instance /\ entry'.pc = pc
        /\ entry'.complete = done /\ entry'.cfg = config
    BY <1>g, <2>1, <2>2, <2>3 DEF Entries, Places
  <2>. QED  BY <2>1, <2>2, <2>4
<1>m. entry' # NoEntry  BY <1>n, NothingIs
<1>1. DiskTyped'  BY <1>h, <1>g, <1>u, <1>n, <1>m, NothingIs DEF Inv, DiskTyped, Counted, Keeping, Apart,
   Kinds
<1>2. Counted'  BY <1>h, <1>g, <1>u, <1>n, <1>m, NothingIs DEF Inv, Counted, DiskTyped, Removals
<1>3. Apart'  BY <1>h, <1>g, <1>u, <1>n, <1>m, NothingIs DEF Inv, Apart, DiskTyped, Counted, Keeping,
   Losses, Deep, Restoring, Writers, Hold, Busy, Unconfirmed, GitLost
<1>4. Keeping'  BY <1>h, <1>g, <1>u, <1>n, <1>m, NothingIs DEF Inv, Keeping, DiskTyped, Apart, Losses,
   Deep, Restoring, GitLost, Kinds
<1>5. Losses'  BY <1>h, <1>g, <1>u, <1>n, <1>m, NothingIs DEF Inv, Losses, DiskTyped, Counted, Apart,
   Keeping, GitLost, Kinds
<1>6. NoStrandedRun'  BY <1>h, <1>g, <1>u, <1>n, <1>m, NothingIs DEF Inv, NoStrandedRun, WorktreeHeld,
   Holding, Unfinished, StrayWrite, Restoring, Hold, Busy, Unconfirmed
<1>7. LifeTyped'  BY <1>h, <1>g, <1>u, <1>n, <1>m, NothingIs, FreshIs DEF Inv, LifeTyped, Apart
<1>8. Progress'  BY <1>u DEF Inv, Progress, Follows, Reached
<1>9. Stepping'
  <2>1. entry'.complete => state.inst = instance /\ ran["teardown"].at = NStep
    <3> SUFFICES ASSUME entry'.complete PROVE state.inst = instance /\ ran["teardown"].at = NStep
      OBVIOUS
    <3>1. config # NoConfig /\ Current.cp["teardown"].cfg = config /\ Current.cp["teardown"].at = NStep
      BY <1>n, <1>h, WorktreeBounds DEF ResumeAt, Wanted
    <3>2. state.inst = instance
      BY <3>1, NothingIs, FreshIs DEF Current, Phases
    <3>3. Near(Current.cp["teardown"], ran["teardown"])
      BY <1>g, <1>h, <3>1, CurrentReached DEF Inv, Stepping, InSteps, Progress, Follows, Phases
    <3>4. ran["teardown"].at \in 0..NStep  BY DEF Inv, LifeTyped, Points, Phases
    <3>. QED  BY <3>1, <3>2, <3>3, <3>4, WorktreeBounds DEF Near
  <2>2. state.status # "running"  BY <1>h DEF Inv, Stepping, InSteps
  <2>. QED  BY <1>u, <1>n, <2>1, <2>2 DEF Stepping, InSteps
<1>10. Holds  BY <1>h, <1>g, <1>u, <1>n, <1>m, NothingIs DEF Holds, Inv, LifeTyped
<1>. QED  BY <1>1, <1>2, <1>3, <1>4, <1>5, <1>6, <1>7, <1>8, <1>9, <1>10 DEF Inv

\* Teardown keeps the invariant.
LEMMA TeardownInv == ASSUME Inv, Teardown PROVE Inv' /\ Holds
<1>1. Wanted # NoConfig /\ entry.phase = "teardown"  BY DEF Teardown, Wanted, Inv, Stepping
<1>. QED  BY <1>1, BeginInv DEF Teardown

\* StepStarts keeps the invariant.
LEMMA StepStartsInv ==
  ASSUME Inv, StepStarts
  PROVE  Inv' /\ Holds
<1> USE WorktreeBounds, CheckpointBounds
<1>h. entry.pc \in {"steps"} /\ entry.pc # "none"
  BY DEF StepStarts
<1>g. /\ entry # NoEntry /\ exists /\ agent = "none" /\ entry \in Entries /\ entry.phase \in Phases
      /\ ~Restoring /\ claim.pc \notin Deep /\ marker = NoMarker /\ ~unconfirmed
      /\ entry.pc \in {"steps"}
  BY <1>h, AtWork
<1>u. UNCHANGED <<refs, taken, marker, writeMarker, partial, origin, previewed, claim, gitWrites,
                  launches, unconfirmed, stray, lost, alive, wake, restores, writes, exists, instance,
                  config, trusted, attempts, ran, torn, agent, excused>>
  BY DEF StepStarts, Own, CommitStrict, Checkpoints, checkpointVars, disk, holds
<1>n. /\ entry' \in Entries
      /\ entry'.phase = entry.phase
      /\ entry'.pc = "running"
      /\ entry'.inst = entry.inst
      /\ entry'.skip = entry.skip
      /\ entry'.ack = entry.ack
      /\ entry'.cfg = entry.cfg
      /\ entry'.at = entry.at
      /\ entry'.cancel = entry.cancel
      /\ entry'.complete = entry.complete
      /\ entry.at < NStep
  BY <1>g DEF StepStarts, Entries, Places, Phases, Digests
<1>s. /\ state' \in States
      /\ state'.status = state.status
      /\ state'.phase = state.phase
      /\ state'.inst = state.inst
      /\ state'.cfg = state.cfg
      /\ state'.at = entry.at
      /\ state'.cp = state.cp
      /\ state'.run = state.run
      /\ state'.unknown = state.unknown
      /\ db' = state'
  BY <1>g DEF Inv, LifeTyped, StepStarts, CommitStrict, Entries, States
<1>m. entry' # NoEntry  BY <1>h, <1>n, NothingIs
<1>1. DiskTyped'  BY <1>h, <1>g, <1>u, <1>n, <1>s, <1>m, NothingIs DEF Inv, DiskTyped, Counted, Keeping,
   Apart, Kinds
<1>2. Counted'  BY <1>h, <1>g, <1>u, <1>n, <1>s, <1>m, NothingIs DEF Inv, Counted, DiskTyped, Removals
<1>3. Apart'  BY <1>h, <1>g, <1>u, <1>n, <1>s, <1>m, NothingIs DEF Inv, Apart, DiskTyped, Counted, Keeping,
   Losses, Deep, Restoring, Writers, Hold, Busy, Unconfirmed, GitLost
<1>4. Keeping'  BY <1>h, <1>g, <1>u, <1>n, <1>s, <1>m, NothingIs DEF Inv, Keeping, DiskTyped, Apart,
   Losses, Deep, Restoring, GitLost, Kinds
<1>5. Losses'  BY <1>h, <1>g, <1>u, <1>n, <1>s, <1>m, NothingIs DEF Inv, Losses, DiskTyped, Counted, Apart,
   Keeping, GitLost, Kinds
<1>6. NoStrandedRun'  BY <1>h, <1>g, <1>u, <1>n, <1>s, <1>m, NothingIs DEF Inv, NoStrandedRun,
   WorktreeHeld, Holding, Unfinished, StrayWrite, Restoring, Hold, Busy, Unconfirmed
<1>7. LifeTyped'  BY <1>h, <1>g, <1>u, <1>n, <1>s, <1>m, NothingIs, FreshIs DEF Inv, LifeTyped, Apart
<1>8. Progress'
  <2>1. /\ state.status = "running" /\ state.phase = entry.phase /\ db = state /\ state.inst = instance
        /\ Near(Checkpoint(state.cfg, entry.at), ran[entry.phase])
    BY <1>h DEF Inv, Stepping, InSteps
  <2>2. \A p \in Phases : p # entry.phase => Reached(state', instance, p) = Reached(state, instance, p)
    BY <1>s, <2>1 DEF Reached
  <2>3. Reached(state', instance, entry.phase) = Checkpoint(state.cfg, entry.at)
    BY <1>s, <2>1 DEF Reached
  <2>. QED  BY <1>u, <1>g, <1>s, <2>1, <2>2, <2>3 DEF Inv, Progress, Follows
<1>9. Stepping'  BY <1>h, <1>g, <1>u, <1>n, <1>s, <1>m, NothingIs, FreshIs, PointIs DEF Inv, Stepping,
   LifeTyped, Apart, Progress, InSteps, Near, Phases
<1>10. Holds  BY <1>h, <1>g, <1>u, <1>n, <1>s, <1>m, NothingIs DEF Holds, Inv, LifeTyped
<1>. QED  BY <1>1, <1>2, <1>3, <1>4, <1>5, <1>6, <1>7, <1>8, <1>9, <1>10 DEF Inv

\* StepRefused keeps the invariant.
LEMMA StepRefusedInv ==
  ASSUME Inv, StepRefused
  PROVE  Inv' /\ Holds
<1> USE WorktreeBounds, CheckpointBounds
<1>h. entry.pc \in {"steps"} /\ entry.pc # "none"
  BY DEF StepRefused
<1>g. /\ entry # NoEntry /\ exists /\ agent = "none" /\ entry \in Entries /\ entry.phase \in Phases
      /\ ~Restoring /\ claim.pc \notin Deep /\ marker = NoMarker /\ ~unconfirmed
      /\ entry.pc \in {"steps"}
  BY <1>h, AtWork
<1>u. UNCHANGED <<refs, taken, marker, writeMarker, partial, origin, previewed, claim, gitWrites,
                  launches, unconfirmed, stray, lost, alive, wake, restores, writes, exists, instance,
                  config, trusted, db, attempts, ran, torn, agent, excused>>
  BY DEF StepRefused, Own, Checkpoints, checkpointVars, disk, holds
<1>n. /\ entry' \in Entries
      /\ entry'.phase = entry.phase
      /\ entry'.pc = "save"
      /\ entry'.inst = entry.inst
      /\ entry'.skip = entry.skip
      /\ entry'.ack = entry.ack
      /\ entry'.cfg = entry.cfg
      /\ entry'.at = entry.at
      /\ entry'.cancel = entry.cancel
      /\ entry'.complete = entry.complete
  BY <1>g DEF StepRefused, Stop, Entries, Places, Phases, Digests
<1>s. /\ state' \in States
      /\ state'.status = state.status
      /\ state'.phase = state.phase
      /\ state'.inst = state.inst
      /\ state'.cfg = state.cfg
      /\ state'.at = state.at
      /\ state'.cp = state.cp
      /\ state'.run = state.run
      /\ state'.unknown = FALSE
  BY DEF Inv, LifeTyped, StepRefused, Stop, States
<1>m. entry' # NoEntry  BY <1>h, <1>n, NothingIs
<1>1. DiskTyped'  BY <1>h, <1>g, <1>u, <1>n, <1>s, <1>m, NothingIs DEF Inv, DiskTyped, Counted, Keeping,
   Apart, Kinds
<1>2. Counted'  BY <1>h, <1>g, <1>u, <1>n, <1>s, <1>m, NothingIs DEF Inv, Counted, DiskTyped, Removals
<1>3. Apart'  BY <1>h, <1>g, <1>u, <1>n, <1>s, <1>m, NothingIs DEF Inv, Apart, DiskTyped, Counted, Keeping,
   Losses, Deep, Restoring, Writers, Hold, Busy, Unconfirmed, GitLost
<1>4. Keeping'  BY <1>h, <1>g, <1>u, <1>n, <1>s, <1>m, NothingIs DEF Inv, Keeping, DiskTyped, Apart,
   Losses, Deep, Restoring, GitLost, Kinds
<1>5. Losses'  BY <1>h, <1>g, <1>u, <1>n, <1>s, <1>m, NothingIs DEF Inv, Losses, DiskTyped, Counted, Apart,
   Keeping, GitLost, Kinds
<1>6. NoStrandedRun'  BY <1>h, <1>g, <1>u, <1>n, <1>s, <1>m, NothingIs DEF Inv, NoStrandedRun,
   WorktreeHeld, Holding, Unfinished, StrayWrite, Restoring, Hold, Busy, Unconfirmed
<1>7. LifeTyped'  BY <1>h, <1>g, <1>u, <1>n, <1>s, <1>m, NothingIs, FreshIs DEF Inv, LifeTyped, Apart
<1>8. Progress'  BY <1>u, <1>s DEF Inv, Progress, Follows, Reached
<1>9. Stepping'  BY <1>h, <1>g, <1>u, <1>n, <1>s, <1>m, NothingIs, FreshIs, PointIs DEF Inv, Stepping,
   LifeTyped, Apart, Progress, InSteps, Near, Phases
<1>10. Holds  BY <1>h, <1>g, <1>u, <1>n, <1>s, <1>m, NothingIs DEF Holds, Inv, LifeTyped
<1>. QED  BY <1>1, <1>2, <1>3, <1>4, <1>5, <1>6, <1>7, <1>8, <1>9, <1>10 DEF Inv

\* StepEnds keeps the invariant.
LEMMA StepEndsInv ==
  ASSUME Inv, StepEnds
  PROVE  Inv' /\ Holds
<1> USE WorktreeBounds, CheckpointBounds
<1>h. entry.pc \in {"running"} /\ entry.pc # "none"
  BY DEF StepEnds
<1>g. /\ entry # NoEntry /\ exists /\ agent = "none" /\ entry \in Entries /\ entry.phase \in Phases
      /\ ~Restoring /\ claim.pc \notin Deep /\ marker = NoMarker /\ ~unconfirmed
      /\ entry.pc \in {"running"}
  BY <1>h, AtWork
<1>u. UNCHANGED <<refs, taken, marker, writeMarker, partial, origin, claim, gitWrites, launches,
                  unconfirmed, stray, lost, alive, wake, restores, writes, exists, instance, config,
                  trusted, state, db, attempts, torn, agent, excused>>
      /\ previewed' = 0
  BY DEF StepEnds, Own, Files, holds
<1>b. entry.at \in 0..NStep /\ entry.at < NStep /\ entry.at + 1 \in 0..NStep /\ state.at = entry.at /\ state.cfg \in Digests
  BY <1>g DEF Inv, Stepping, LifeTyped, Entries, States
<1>n. /\ entry' \in Entries
      /\ entry'.phase = entry.phase
      /\ entry'.pc = "steps"
      /\ entry'.inst = entry.inst
      /\ entry'.skip = entry.skip
      /\ entry'.ack = entry.ack
      /\ entry'.cfg = entry.cfg
      /\ entry'.at = entry.at + 1
      /\ entry'.cancel = entry.cancel
      /\ entry'.complete = entry.complete
  BY <1>g, <1>b DEF StepEnds, Entries, Places, Phases, Digests
<1>s. /\ ran' \in [Phases -> Points] /\ ran'[entry.phase] = Checkpoint(state.cfg, entry.at + 1)
      /\ \A p \in Phases : p # entry.phase => ran'[p] = ran[p]
  BY <1>g, <1>b, PointIs DEF Inv, LifeTyped, StepEnds
<1>m. entry' # NoEntry  BY <1>h, <1>n, NothingIs
<1>1. DiskTyped'  BY <1>h, <1>g, <1>u, <1>b, <1>n, <1>s, <1>m, NothingIs DEF Inv, DiskTyped, Counted,
   Keeping, Apart, Kinds
<1>2. Counted'  BY <1>h, <1>g, <1>u, <1>b, <1>n, <1>s, <1>m, NothingIs DEF Inv, Counted, DiskTyped, Removals
<1>3. Apart'  BY <1>h, <1>g, <1>u, <1>b, <1>n, <1>s, <1>m, NothingIs DEF Inv, Apart, DiskTyped, Counted,
   Keeping, Losses, Deep, Restoring, Writers, Hold, Busy, Unconfirmed, GitLost
<1>4. Keeping'  BY <1>h, <1>g, <1>u, <1>b, <1>n, <1>s, <1>m, NothingIs DEF Inv, Keeping, DiskTyped, Apart,
   Losses, Deep, Restoring, GitLost, Kinds
<1>5. Losses'  BY <1>h, <1>g, <1>u, <1>b, <1>n, <1>s, <1>m, NothingIs DEF Inv, Losses, DiskTyped, Counted,
   Apart, Keeping, GitLost, Kinds
<1>6. NoStrandedRun'  BY <1>h, <1>g, <1>u, <1>b, <1>n, <1>s, <1>m, NothingIs DEF Inv, NoStrandedRun,
   WorktreeHeld, Holding, Unfinished, StrayWrite, Restoring, Hold, Busy, Unconfirmed
<1>7. LifeTyped'  BY <1>h, <1>g, <1>u, <1>b, <1>n, <1>s, <1>m, NothingIs, FreshIs DEF Inv, LifeTyped, Apart
<1>8. Progress'
  <2>1. Near(Checkpoint(state.cfg, state.at), ran'[entry.phase])
    BY <1>b, <1>s, PointIs DEF Near
  <2>2. state.status = "running" /\ state.phase = entry.phase /\ state.inst = instance /\ db = state
    BY <1>h DEF Inv, Stepping, InSteps
  <2>3. Follows(state, instance, ran', torn)
    BY <1>g, <1>s, <2>1, <2>2 DEF Inv, Progress, Follows, Reached
  <2>. QED  BY <1>u, <2>2, <2>3 DEF Progress
<1>9. Stepping'  BY <1>h, <1>g, <1>u, <1>b, <1>n, <1>s, <1>m, NothingIs, FreshIs, PointIs DEF Inv,
   Stepping, LifeTyped, Apart, Progress, InSteps, Near, Phases
<1>10. Holds  BY <1>h, <1>g, <1>u, <1>b, <1>n, <1>s, <1>m, NothingIs DEF Holds, Inv, LifeTyped
<1>. QED  BY <1>1, <1>2, <1>3, <1>4, <1>5, <1>6, <1>7, <1>8, <1>9, <1>10 DEF Inv

\* StepFails keeps the invariant.
LEMMA StepFailsInv ==
  ASSUME Inv, NEW l \in BOOLEAN, StepFails(l)
  PROVE  Inv' /\ Holds
<1> USE WorktreeBounds, CheckpointBounds
<1>h. entry.pc \in {"running"} /\ entry.pc # "none"
  BY DEF StepFails
<1>g. /\ entry # NoEntry /\ exists /\ agent = "none" /\ entry \in Entries /\ entry.phase \in Phases
      /\ ~Restoring /\ claim.pc \notin Deep /\ marker = NoMarker /\ ~unconfirmed
      /\ entry.pc \in {"running"}
  BY <1>h, AtWork
<1>u. UNCHANGED <<refs, taken, marker, writeMarker, partial, origin, claim, gitWrites, launches,
                  unconfirmed, stray, wake, restores, writes, exists, instance, config, trusted, db,
                  attempts, ran, torn, agent>>
      /\ previewed' = 0
  BY DEF StepFails, Own, Files, holds
<1>n. /\ entry' \in Entries
      /\ entry'.phase = entry.phase
      /\ entry'.pc = "save"
      /\ entry'.inst = entry.inst
      /\ entry'.skip = entry.skip
      /\ entry'.ack = entry.ack
      /\ entry'.cfg = entry.cfg
      /\ entry'.at = entry.at
      /\ entry'.cancel = entry.cancel
      /\ entry'.complete = entry.complete
  BY <1>g DEF StepFails, Stop, Entries, Places, Phases, Digests
<1>s. /\ state' \in States
      /\ state'.status = state.status
      /\ state'.phase = state.phase
      /\ state'.inst = state.inst
      /\ state'.cfg = state.cfg
      /\ state'.at = state.at
      /\ state'.cp = state.cp
      /\ state'.run = state.run
      /\ state'.unknown = l
  BY DEF Inv, LifeTyped, StepFails, Stop, States
<1>l. \/ l /\ lost' = lost \cup {"step"} /\ alive' \in {alive, alive \cup {"step"}} /\ excused' = excused \ {"step"}
      \/ ~l /\ UNCHANGED <<lost, alive, excused>>
  BY DEF StepFails, Lose
<1>m. entry' # NoEntry  BY <1>h, <1>n, NothingIs
<1>1. DiskTyped'  BY <1>h, <1>g, <1>u, <1>n, <1>s, <1>l, <1>m, NothingIs DEF Inv, DiskTyped, Counted,
   Keeping, Apart, Kinds
<1>2. Counted'  BY <1>h, <1>g, <1>u, <1>n, <1>s, <1>l, <1>m, NothingIs DEF Inv, Counted, DiskTyped, Removals
<1>3. Apart'  BY <1>h, <1>g, <1>u, <1>n, <1>s, <1>l, <1>m, NothingIs DEF Inv, Apart, DiskTyped, Counted,
   Keeping, Losses, Deep, Restoring, Writers, Hold, Busy, Unconfirmed, GitLost
<1>4. Keeping'  BY <1>h, <1>g, <1>u, <1>n, <1>s, <1>l, <1>m, NothingIs DEF Inv, Keeping, DiskTyped, Apart,
   Losses, Deep, Restoring, GitLost, Kinds
<1>5. Losses'
  <2>1. GitLost' = GitLost  BY <1>l DEF GitLost
  <2>2. db.status = "running" /\ "step" \notin lost \ excused  BY <1>h DEF Inv, Stepping, InSteps, Losses
  <2>3. "restore" \in lost' <=> "restore" \in lost  BY <1>l
  <2>4. "write" \in lost' <=> "write" \in lost  BY <1>l
  <2>5. "step" \in lost' \ excused' => l  BY <1>l, <2>2
  <2>. QED  BY <1>u, <1>n, <1>s, <2>2, <2>3, <2>4, <2>5 DEF Inv, Losses
<1>6. NoStrandedRun'  BY <1>h, <1>g, <1>u, <1>n, <1>s, <1>l, <1>m, NothingIs DEF Inv, NoStrandedRun,
   WorktreeHeld, Holding, Unfinished, StrayWrite, Restoring, Hold, Busy, Unconfirmed
<1>7. LifeTyped'  BY <1>h, <1>g, <1>u, <1>n, <1>s, <1>l, <1>m, NothingIs, FreshIs DEF Inv, LifeTyped, Apart
<1>8. Progress'  BY <1>u, <1>s DEF Inv, Progress, Follows, Reached
<1>9. Stepping'  BY <1>h, <1>g, <1>u, <1>n, <1>s, <1>l, <1>m, NothingIs, FreshIs, PointIs DEF Inv,
   Stepping, LifeTyped, Apart, Progress, InSteps, Near, Phases
<1>10. Holds  BY <1>h, <1>g, <1>u, <1>n, <1>s, <1>l, <1>m, NothingIs DEF Holds, Inv, LifeTyped
<1>. QED  BY <1>1, <1>2, <1>3, <1>4, <1>5, <1>6, <1>7, <1>8, <1>9, <1>10 DEF Inv

\* CommitOutcome keeps the invariant.
LEMMA CommitOutcomeInv ==
  ASSUME Inv, CommitOutcome
  PROVE  Inv' /\ Holds
<1> USE WorktreeBounds, CheckpointBounds
<1>h. entry.pc \in {"steps", "save"} /\ entry.pc # "none"
  BY DEF CommitOutcome
<1>g. /\ entry # NoEntry /\ exists /\ agent = "none" /\ entry \in Entries /\ entry.phase \in Phases
      /\ ~Restoring /\ claim.pc \notin Deep /\ marker = NoMarker /\ ~unconfirmed
      /\ entry.pc \in {"steps", "save"}
  BY <1>h, AtWork
<1>b. /\ (entry.pc = "steps" => entry.at = NStep) /\ entry.at \in 0..NStep /\ state.phase = entry.phase /\ state.inst = instance
      /\ state.status = "running" /\ db.status = "running" /\ db.phase = entry.phase /\ db.inst = instance
      /\ Near(Checkpoint(state.cfg, entry.at), ran[entry.phase]) /\ state \in States
      /\ Checkpoint(state.cfg, entry.at) \in Points
  BY <1>g, <1>h, PointIs DEF CommitOutcome, Inv, Stepping, InSteps, LifeTyped, Entries, States
<1>u. UNCHANGED <<refs, taken, marker, writeMarker, partial, origin, previewed, claim, gitWrites,
                  launches, unconfirmed, stray, lost, alive, restores, writes, exists, instance, config,
                  trusted, attempts, agent, excused>>
      /\ torn' = (torn \/ (entry.phase = "teardown" /\ entry.pc = "steps"))
  BY DEF CommitOutcome, Own, End, OnRelease, Checkpoints, checkpointVars, disk, holds
<1>s. /\ state' \in States /\ state'.phase = state.phase /\ state'.inst = state.inst /\ state'.cfg = state.cfg
      /\ state'.run = state.run /\ state'.unknown = state.unknown /\ db' \in {state', db}
      /\ \/ /\ state'.status = "ready" /\ state'.cp = Fresh /\ db' = state'
         \/ /\ state'.status = "complete" /\ entry.pc = "steps" /\ entry.phase = "teardown" /\ db' = state'
            /\ state'.cp["teardown"] = Checkpoint(state.cfg, entry.at) /\ state'.cp["setup"] = Checkpoint(NoConfig, 0)
         \/ /\ state'.status = "stopped" /\ state'.cp[entry.phase] = Checkpoint(state.cfg, entry.at)
            /\ \A p \in Phases : p # entry.phase => state'.cp[p] = state.cp[p] \/ (entry.pc = "steps" /\ state'.cp[p] = Checkpoint(NoConfig, 0))
  <2>1. PICK st \in {"ready", "complete", "stopped"} :
            /\ Outcome = [state EXCEPT !.status = st, !.at = entry.at,
                             !.cp = Finished(state.cp, entry.phase, state.cfg, st, entry.at)]
            /\ (st = "ready" => entry.pc = "steps" /\ entry.phase = "setup")
            /\ (st = "complete" <=> entry.pc = "steps" /\ entry.phase = "teardown")
    BY <1>g, <1>h, <1>b, OutcomeIs
  <2> DEFINE F == Finished(state.cp, entry.phase, state.cfg, st, entry.at)
             at == entry.at
             point == Checkpoint(state.cfg, entry.at)
  <2>2. /\ F \in [Phases -> Points]
        /\ st = "ready" => F = Fresh
        /\ st = "complete" => F["teardown"] = Checkpoint(state.cfg, NStep) /\ F["setup"] = Checkpoint(NoConfig, 0)
        /\ st = "stopped" => F[entry.phase] = point /\ \A p \in Phases : p # entry.phase => F[p] = state.cp[p]
    BY <1>g, <1>b, FinishedIs DEF States
  <2>3. at \in 0..NStep /\ point \in Points  BY <1>b
  <2>4. Outcome = [state EXCEPT !.status = st, !.at = at, !.cp = F]  BY <2>1
  <2> HIDE DEF F, at, point
  <2>5. /\ Outcome \in States /\ Outcome.phase = state.phase /\ Outcome.inst = state.inst
        /\ Outcome.cfg = state.cfg
        /\ Outcome.run = state.run /\ Outcome.unknown = state.unknown /\ Outcome.status = st /\ Outcome.cp = F
    BY <1>b, <2>2, <2>3, <2>4 DEF States, Statuses
  <2>6. CASE state' = Outcome /\ db' = Outcome
    BY <1>b, <2>1, <2>2, <2>5, <2>6 DEF point
  <2>7. CASE state' = Unsaved /\ UNCHANGED db
    <3> DEFINE G == [F EXCEPT ![entry.phase] = point]
    <3>1. /\ G \in [Phases -> Points] /\ G[entry.phase] = point
          /\ \A p \in Phases : p # entry.phase => G[p] = F[p]
      BY <1>g, <2>2, <2>3
    <3>2. Unsaved = [state EXCEPT !.status = "stopped", !.at = at, !.cp = G]
      BY <2>5 DEF Unsaved, at, point
    <3> HIDE DEF G
    <3>3. /\ Unsaved \in States /\ Unsaved.phase = state.phase /\ Unsaved.inst = state.inst
          /\ Unsaved.cfg = state.cfg
          /\ Unsaved.run = state.run /\ Unsaved.unknown = state.unknown /\ Unsaved.status = "stopped"
          /\ Unsaved.cp = G
      BY <1>b, <2>3, <3>1, <3>2 DEF States, Statuses
    <3>4. \A p \in Phases : p # entry.phase => F[p] = state.cp[p] \/ (entry.pc = "steps" /\ F[p] = Checkpoint(NoConfig, 0))
      BY <1>g, <2>1, <2>2, FreshIs DEF Phases
    <3>. QED  BY <2>7, <3>1, <3>3, <3>4 DEF point
  <2>. QED  BY <2>6, <2>7 DEF CommitOutcome, CommitStrict
<1>n. \/ /\ state'.status # "complete" /\ entry' = NoEntry /\ wake' = (agent = "queued")
      \/ /\ state'.status = "complete" /\ wake' = wake /\ entry' \in Entries /\ entry'.pc = "proceed" /\ entry'.complete = TRUE
         /\ entry'.phase = entry.phase /\ entry'.inst = entry.inst
  BY <1>g DEF CommitOutcome, End, OnRelease, Checkpoints, checkpointVars, Entries, Places
<1>r. /\ (state'.status = "ready" => ran' = Fresh)
      /\ (state'.status = "complete" => /\ ran' \in [Phases -> Points] /\ ran'["teardown"] = ran["teardown"]
                                        /\ ran'["setup"] = Checkpoint(NoConfig, 0))
      /\ (state'.status = "stopped" => ran' = ran)
  <2>1. Checkpoint(NoConfig, 0) \in Points /\ ran \in [Phases -> Points]  BY PointIs,
     WorktreeBounds DEF Digests, Inv, LifeTyped
  <2>2. ran' = CASE state'.status = "ready"    -> Fresh
                 [] state'.status = "complete" -> [ran EXCEPT !["setup"] = Checkpoint(NoConfig, 0)]
                 [] OTHER                      -> ran
    BY DEF CommitOutcome
  <2>. QED  BY <2>1, <2>2 DEF Phases
<1>1. DiskTyped'  BY <1>h, <1>g, <1>b, <1>u, <1>s, <1>n, <1>r, NothingIs DEF Inv, DiskTyped, Counted,
   Keeping, Apart, Kinds
<1>2. Counted'  BY <1>h, <1>g, <1>b, <1>u, <1>s, <1>n, <1>r, NothingIs DEF Inv, Counted, DiskTyped, Removals
<1>3. Apart'  BY <1>h, <1>g, <1>b, <1>u, <1>s, <1>n, <1>r, NothingIs DEF Inv, Apart, DiskTyped, Counted,
   Keeping, Losses, Deep, Restoring, Writers, Hold, Busy, Unconfirmed, GitLost
<1>4. Keeping'  BY <1>h, <1>g, <1>b, <1>u, <1>s, <1>n, <1>r, NothingIs DEF Inv, Keeping, DiskTyped, Apart,
   Losses, Deep, Restoring, GitLost, Kinds
<1>5. Losses'  BY <1>h, <1>g, <1>b, <1>u, <1>s, <1>n, <1>r, NothingIs DEF Inv, Losses, DiskTyped, Counted,
   Apart, Keeping, GitLost, Kinds
<1>6. NoStrandedRun'  BY <1>h, <1>g, <1>b, <1>u, <1>s, <1>n, <1>r, NothingIs DEF Inv, NoStrandedRun,
   WorktreeHeld, Holding, Unfinished, StrayWrite, Restoring, Hold, Busy, Unconfirmed
<1>7. LifeTyped'  BY <1>h, <1>g, <1>b, <1>u, <1>s, <1>n, <1>r, NothingIs, FreshIs DEF Inv, LifeTyped, Apart
<1>8. Progress'
  <2> DEFINE F(s, r) == Follows(s, instance, r, torn')
  <2>1. \A p \in Phases : Reached(state', instance, p) = state'.cp[p]
    BY <1>b, <1>s DEF Reached
  <2>2. \A p \in Phases : p # entry.phase => Reached(state, instance, p) = state.cp[p]
    BY <1>b DEF Reached
  <2>3. Follows(state, instance, ran, torn) /\ Follows(db, instance, ran, torn) /\ torn \in BOOLEAN
    BY <1>g DEF Inv, Progress, LifeTyped
  <2>4. CASE state'.status = "ready"
    <3>1. state'.cp = Fresh /\ ran' = Fresh /\ db' = state'  BY <1>s, <1>r, <2>4
    <3>2. F(state', ran')  BY <2>1, <3>1, FreshIs DEF Follows
    <3>. QED  BY <1>u, <3>1, <3>2 DEF Progress
  <2>5. CASE state'.status = "complete"
    <3>1. /\ entry.phase = "teardown" /\ entry.pc = "steps" /\ db' = state'
          /\ state'.cp["teardown"] = Checkpoint(state.cfg, entry.at) /\ state'.cp["setup"] = Checkpoint(NoConfig, 0)
          /\ ran'["teardown"] = ran["teardown"] /\ ran'["setup"] = Checkpoint(NoConfig, 0)
      BY <1>s, <1>r, <2>5
    <3>2. Checkpoint(NoConfig, 0).cfg = NoConfig  BY PointIs
    <3>3. F(state', ran')  BY <1>b, <2>1, <3>1, <3>2 DEF Follows, Phases
    <3>. QED  BY <1>u, <3>1, <3>3 DEF Progress
  <2>6. CASE state'.status = "stopped"
    <3>1. ran' = ran /\ db' \in {state', db} /\ state'.cp[entry.phase] = Checkpoint(state.cfg, entry.at)
      BY <1>s, <1>r, <2>6
    <3>2. torn => torn'  BY <1>u
    <3>3. F(db, ran')  BY <2>3, <3>1, <3>2 DEF Follows
    <3>4. ASSUME NEW p \in Phases, p # entry.phase
          PROVE  \/ state'.cp[p].cfg = NoConfig /\ (ran[p].cfg = NoConfig \/ (torn' /\ p = "setup"))
                 \/ Near(state'.cp[p], ran[p])
      <4>1. CASE state'.cp[p] = state.cp[p]
        BY <2>2, <2>3, <3>2, <3>4, <4>1 DEF Follows
      <4>2. CASE entry.pc = "steps" /\ state'.cp[p] = Checkpoint(NoConfig, 0)
        <5>1. state'.cp[p].cfg = NoConfig  BY <4>2, PointIs
        <5>2. CASE entry.phase = "setup"
          <6>1. p = "teardown" /\ ran["teardown"].cfg = NoConfig
            BY <3>4, <4>2, <5>2 DEF Phases, Inv, Stepping, InSteps
          <6>. QED  BY <5>1, <6>1
        <5>3. CASE entry.phase = "teardown"
          <6>1. p = "setup" /\ torn'  BY <1>u, <3>4, <4>2, <5>3 DEF Phases
          <6>. QED  BY <5>1, <6>1
        <5>. QED  BY <1>g, <5>2, <5>3 DEF Phases
      <4>. QED  BY <1>s, <2>6, <3>4, <4>1, <4>2
    <3>5. F(state', ran')  BY <1>b, <2>1, <3>1, <3>4 DEF Follows
    <3>. QED  BY <1>u, <3>1, <3>3, <3>5 DEF Progress
  <2>. QED  BY <1>s, <2>4, <2>5, <2>6
<1>9. Stepping'
  <2>1. state'.status # "running"  BY <1>s
  <2>2. CASE state'.status # "complete"  BY <1>n, <2>1, <2>2, NothingIs DEF Stepping, InSteps
  <2>3. CASE state'.status = "complete"
    <3>1. /\ entry.phase = "teardown" /\ entry.at = NStep /\ ran'["teardown"] = ran["teardown"]
          /\ ran["teardown"].at \in {NStep, NStep + 1}
      BY <1>b, <1>s, <1>r, <2>3, PointIs DEF Near
    <3>2. ran["teardown"].at \in 0..NStep  BY DEF Inv, LifeTyped, Points, Phases
    <3>3. ran'["teardown"].at = NStep  BY <3>1, <3>2, WorktreeBounds
    <3>4. entry.inst = instance  BY <1>h DEF Inv, Stepping, InSteps
    <3>. QED  BY <1>b, <1>u, <1>n, <1>s, <2>1, <2>3, <3>1, <3>3, <3>4 DEF Stepping, InSteps
  <2>. QED  BY <2>2, <2>3
<1>10. Holds  BY <1>h, <1>g, <1>b, <1>u, <1>s, <1>n, <1>r, NothingIs DEF Holds, Inv, LifeTyped
<1>. QED  BY <1>1, <1>2, <1>3, <1>4, <1>5, <1>6, <1>7, <1>8, <1>9, <1>10 DEF Inv

\* KeepWorktree keeps the invariant.
LEMMA KeepWorktreeInv ==
  ASSUME Inv, KeepWorktree
  PROVE  Inv' /\ Holds
<1> USE WorktreeBounds, CheckpointBounds
<1>h. entry.pc \in {"proceed"} /\ entry.pc # "none"
  BY DEF KeepWorktree
<1>g. /\ entry # NoEntry /\ exists /\ agent = "none" /\ entry \in Entries /\ entry.phase \in Phases
      /\ ~Restoring /\ claim.pc \notin Deep /\ marker = NoMarker /\ ~unconfirmed
      /\ entry.pc \in {"proceed"}
  BY <1>h, AtWork
<1>u. UNCHANGED <<refs, taken, marker, writeMarker, partial, origin, previewed, claim, gitWrites,
                  launches, unconfirmed, stray, lost, alive, restores, writes, exists, instance, config,
                  trusted, attempts, ran, torn, agent, excused>>
  BY DEF KeepWorktree, Own, End, disk, holds
<1>n. /\ entry' = NoEntry /\ entry' \in Entries /\ entry'.pc = "none" /\ ~entry'.complete
      /\ wake' = (agent = "queued")
  BY NothingIs DEF KeepWorktree, End, OnRelease
<1>s. /\ \/ /\ entry.complete /\ db' \in {state', db} /\ state' \in States /\ state'.status = "stopped" /\ state'.phase = "teardown"
            /\ state'.inst = state.inst /\ state'.cfg = entry.cfg /\ state'.cp = state.cp
            /\ state'.run = 0 /\ state'.unknown = FALSE
         \/ UNCHANGED <<state, db>>
  <2>1. entry.complete => state.inst = entry.inst  BY DEF Inv, Stepping
  <2>2. state \in States /\ NStep \in 0..NStep  BY WorktreeBounds DEF Inv, LifeTyped
  <2>3. entry.complete => /\ TeardownKept \in States /\ TeardownKept.status = "stopped" /\ TeardownKept.phase = "teardown"
                          /\ TeardownKept.inst = entry.inst /\ TeardownKept.cfg = entry.cfg
                          /\ TeardownKept.cp = state.cp
                          /\ TeardownKept.run = 0 /\ TeardownKept.unknown = FALSE
    BY <1>g, <2>2 DEF TeardownKept, States, Statuses, Phases, Entries
  <2>. QED  BY <2>1, <2>3 DEF KeepWorktree, Commit
<1>1. DiskTyped'  BY <1>h, <1>g, <1>u, <1>n, <1>s, NothingIs DEF Inv, DiskTyped, Counted, Keeping, Apart,
   Kinds
<1>2. Counted'  BY <1>h, <1>g, <1>u, <1>n, <1>s, NothingIs DEF Inv, Counted, DiskTyped, Removals
<1>3. Apart'  BY <1>h, <1>g, <1>u, <1>n, <1>s, NothingIs DEF Inv, Apart, DiskTyped, Counted, Keeping,
   Losses, Deep, Restoring, Writers, Hold, Busy, Unconfirmed, GitLost
<1>4. Keeping'  BY <1>h, <1>g, <1>u, <1>n, <1>s, NothingIs DEF Inv, Keeping, DiskTyped, Apart, Losses,
   Deep, Restoring, GitLost, Kinds
<1>5. Losses'  BY <1>h, <1>g, <1>u, <1>n, <1>s, NothingIs DEF Inv, Losses, DiskTyped, Counted, Apart,
   Keeping, GitLost, Kinds
<1>6. NoStrandedRun'  BY <1>h, <1>g, <1>u, <1>n, <1>s, NothingIs DEF Inv, NoStrandedRun, WorktreeHeld,
   Holding, Unfinished, StrayWrite, Restoring, Hold, Busy, Unconfirmed
<1>7. LifeTyped'  BY <1>h, <1>g, <1>u, <1>n, <1>s, NothingIs, FreshIs DEF Inv, LifeTyped, Apart
<1>8. Progress'
  <2>1. state.status # "running" /\ exists  BY <1>g, <1>h DEF Inv, Stepping, InSteps
  <2>2. \A p \in Phases : Reached(state', instance', p) = Reached(state, instance, p)
    BY <1>u, <1>s, <2>1 DEF Reached
  <2>. QED  BY <1>u, <1>s, <2>1, <2>2, SameReached DEF Inv, Progress
<1>9. Stepping'  BY <1>h, <1>g, <1>u, <1>n, <1>s, NothingIs, FreshIs, PointIs DEF Inv, Stepping, LifeTyped,
   Apart, Progress, InSteps, Near, Phases
<1>10. Holds  BY <1>h, <1>g, <1>u, <1>n, <1>s, NothingIs DEF Holds, Inv, LifeTyped
<1>. QED  BY <1>1, <1>2, <1>3, <1>4, <1>5, <1>6, <1>7, <1>8, <1>9, <1>10 DEF Inv

\* Proceed keeps the invariant.
LEMMA ProceedInv ==
  ASSUME Inv, Proceed
  PROVE  Inv' /\ Holds
<1> USE WorktreeBounds, CheckpointBounds
<1>h. entry.pc \in {"proceed"} /\ entry.pc # "none"
  BY DEF Proceed
<1>g. /\ entry # NoEntry /\ exists /\ agent = "none" /\ entry \in Entries /\ entry.phase \in Phases
      /\ ~Restoring /\ claim.pc \notin Deep /\ marker = NoMarker /\ ~unconfirmed
      /\ entry.pc \in {"proceed"}
  BY <1>h, AtWork
<1>u. UNCHANGED <<refs, taken, marker, partial, origin, previewed, claim, launches, unconfirmed, stray,
                  lost, alive, wake, restores, writes, exists, instance, config, trusted, state, db,
                  attempts, ran, torn, agent, excused>>
      /\ gitWrites' = gitWrites + 1 /\ writeMarker'
      /\ ~stray /\ (writeMarker => gitWrites # 0)
  BY DEF Proceed, Own, Holding, StrayWrite
<1>n. /\ entry' \in Entries
      /\ entry'.phase = entry.phase
      /\ entry'.pc = "remove"
      /\ entry'.inst = entry.inst
      /\ entry'.skip = entry.skip
      /\ entry'.ack = entry.ack
      /\ entry'.cfg = entry.cfg
      /\ entry'.at = entry.at
      /\ entry'.cancel = entry.cancel
      /\ entry'.complete = entry.complete
  BY <1>g DEF Proceed, Entries, Places, Phases, Digests
<1>m. entry' # NoEntry  BY <1>h, <1>n, NothingIs
<1>1. DiskTyped'  BY <1>h, <1>g, <1>u, <1>n, <1>m, NothingIs DEF Inv, DiskTyped, Counted, Keeping, Apart,
   Kinds
<1>2. Counted'  BY <1>h, <1>g, <1>u, <1>n, <1>m, NothingIs DEF Inv, Counted, DiskTyped, Removals
<1>3. Apart'  BY <1>h, <1>g, <1>u, <1>n, <1>m, NothingIs DEF Inv, Apart, DiskTyped, Counted, Keeping,
   Losses, Deep, Restoring, Writers, Hold, Busy, Unconfirmed, GitLost
<1>4. Keeping'  BY <1>h, <1>g, <1>u, <1>n, <1>m, NothingIs DEF Inv, Keeping, DiskTyped, Apart, Losses,
   Deep, Restoring, GitLost, Kinds
<1>5. Losses'  BY <1>h, <1>g, <1>u, <1>n, <1>m, NothingIs DEF Inv, Losses, DiskTyped, Counted, Apart,
   Keeping, GitLost, Kinds
<1>6. NoStrandedRun'  BY <1>h, <1>g, <1>u, <1>n, <1>m, NothingIs DEF Inv, NoStrandedRun, WorktreeHeld,
   Holding, Unfinished, StrayWrite, Restoring, Hold, Busy, Unconfirmed
<1>7. LifeTyped'  BY <1>h, <1>g, <1>u, <1>n, <1>m, NothingIs, FreshIs DEF Inv, LifeTyped, Apart
<1>8. Progress'  BY <1>u DEF Inv, Progress, Follows, Reached
<1>9. Stepping'  BY <1>h, <1>g, <1>u, <1>n, <1>m, NothingIs, FreshIs, PointIs DEF Inv, Stepping, LifeTyped,
   Apart, Progress, InSteps, Near, Phases
<1>10. Holds  BY <1>h, <1>g, <1>u, <1>n, <1>m, NothingIs DEF Holds, Inv, LifeTyped
<1>. QED  BY <1>1, <1>2, <1>3, <1>4, <1>5, <1>6, <1>7, <1>8, <1>9, <1>10 DEF Inv

\* Removed keeps the invariant.
LEMMA RemovedInv ==
  ASSUME Inv, Removed
  PROVE  Inv' /\ Holds
<1> USE WorktreeBounds, CheckpointBounds
<1>h. entry.pc \in {"remove"} /\ entry.pc # "none"
  BY DEF Removed
<1>g. /\ entry # NoEntry /\ exists /\ agent = "none" /\ entry \in Entries /\ entry.phase \in Phases
      /\ ~Restoring /\ claim.pc \notin Deep /\ marker = NoMarker /\ ~unconfirmed
      /\ entry.pc \in {"remove"}
  BY <1>h, AtWork
<1>u. /\ UNCHANGED <<taken, claim, launches, unconfirmed, stray, lost, alive, restores, writes, instance,
                     config, trusted,
                    attempts, ran, torn, agent, excused>>
      /\ refs' = {} /\ marker' = NoMarker /\ ~writeMarker' /\ ~partial' /\ origin' = 0 /\ previewed' = 0
      /\ gitWrites' = 0
      /\ writeMarker' \in BOOLEAN /\ partial' \in BOOLEAN /\ claim = NoClaim /\ gitWrites = 1
      /\ GitLost = {} /\ ~exists' /\ exists' \in BOOLEAN
      /\ state' = NoState /\ db' = NoState
  BY DEF Removed, DiskGone
<1>n. /\ entry' = NoEntry /\ entry' \in Entries /\ entry'.pc = "none" /\ ~entry'.complete
      /\ wake' = (agent = "queued")
  BY NothingIs DEF Removed, OnRelease
<1>1. DiskTyped'  BY <1>h, <1>g, <1>u, <1>n, NothingIs DEF Inv, DiskTyped, Counted, Keeping, Apart, Kinds
<1>2. Counted'  BY <1>h, <1>g, <1>u, <1>n, NothingIs DEF Inv, Counted, DiskTyped, Removals
<1>3. Apart'  BY <1>h, <1>g, <1>u, <1>n, NothingIs DEF Inv, Apart, DiskTyped, Counted, Keeping, Losses,
   Deep, Restoring, Writers, Hold, Busy, Unconfirmed, GitLost
<1>4. Keeping'  BY <1>h, <1>g, <1>u, <1>n, NothingIs DEF Inv, Keeping, DiskTyped, Apart, Losses, Deep,
   Restoring, GitLost, Kinds
<1>5. Losses'  BY <1>h, <1>g, <1>u, <1>n, NothingIs DEF Inv, Losses, DiskTyped, Counted, Apart, Keeping,
   GitLost, Kinds
<1>6. NoStrandedRun'  BY <1>h, <1>g, <1>u, <1>n, NothingIs DEF Inv, NoStrandedRun, WorktreeHeld, Holding,
   Unfinished, StrayWrite, Restoring, Hold, Busy, Unconfirmed
<1>7. LifeTyped'  BY <1>h, <1>g, <1>u, <1>n, NothingIs, FreshIs DEF Inv, LifeTyped, Apart
<1>8. Progress'  BY <1>h, <1>g, <1>u, <1>n, NothingIs, FreshIs, PointIs DEF Inv, Progress, LifeTyped,
   Stepping, Apart, Follows, Reached, Near
<1>9. Stepping'  BY <1>h, <1>g, <1>u, <1>n, NothingIs, FreshIs, PointIs DEF Inv, Stepping, LifeTyped,
   Apart, Progress, InSteps, Near, Phases
<1>10. Holds  BY <1>h, <1>g, <1>u, <1>n, NothingIs DEF Holds, Inv, LifeTyped
<1>. QED  BY <1>1, <1>2, <1>3, <1>4, <1>5, <1>6, <1>7, <1>8, <1>9, <1>10 DEF Inv

\* RemovalFails keeps the invariant.
LEMMA RemovalFailsInv ==
  ASSUME Inv, NEW l \in BOOLEAN, NEW s \in BOOLEAN, RemovalFails(l, s)
  PROVE  Inv' /\ Holds
<1> USE WorktreeBounds, CheckpointBounds
<1>h. entry.pc \in {"remove"} /\ entry.pc # "none"
  BY DEF RemovalFails
<1>g. /\ entry # NoEntry /\ exists /\ agent = "none" /\ entry \in Entries /\ entry.phase \in Phases
      /\ ~Restoring /\ claim.pc \notin Deep /\ marker = NoMarker /\ ~unconfirmed
      /\ entry.pc \in {"remove"}
  BY <1>h, AtWork
<1>u. /\ UNCHANGED <<refs, taken, marker, partial, origin, claim, launches, unconfirmed, restores,
                     writes, exists, instance, config, trusted,
                    attempts, ran, torn, agent, excused>>
      /\ previewed' = 0 /\ gitWrites' = gitWrites - 1
  BY DEF RemovalFails, Own, Released
<1>n. /\ entry' = NoEntry /\ entry' \in Entries /\ entry'.pc = "none" /\ ~entry'.complete
      /\ wake' = (agent = "queued")
  BY NothingIs DEF RemovalFails, OnRelease
<1>b. /\ gitWrites \in Nat /\ gitWrites # 0 /\ gitWrites' \in Nat /\ (gitWrites = 1 <=> gitWrites' = 0) /\ gitWrites' <= writes
      /\ writeMarker /\ ("write" \in lost => stray) /\ writes \in Nat
  BY <1>h, <1>u DEF Inv, Counted, Losses, Removals
<1>l. /\ stray' \in BOOLEAN /\ writeMarker' \in BOOLEAN /\ (stray \/ l => stray' /\ writeMarker') /\ (gitWrites' # 0 => writeMarker')
      /\ lost' \in {lost, lost \cup {"write"}} /\ alive' \subseteq lost' /\ (~l => lost' = lost)
  BY <1>b DEF Inv, DiskTyped, RemovalFails, Released, Lose
<1>s. /\ \/ /\ entry.complete /\ db' \in {state', db} /\ state' \in States /\ state'.status = "stopped" /\ state'.phase = "teardown"
            /\ state'.inst = state.inst /\ state'.cfg = entry.cfg /\ state'.cp = state.cp
            /\ state'.run = 0 /\ state'.unknown = FALSE
         \/ UNCHANGED <<state, db>>
  <2>1. entry.complete => state.inst = entry.inst  BY DEF Inv, Stepping
  <2>2. state \in States /\ NStep \in 0..NStep  BY WorktreeBounds DEF Inv, LifeTyped
  <2>3. entry.complete => /\ TeardownKept \in States /\ TeardownKept.status = "stopped" /\ TeardownKept.phase = "teardown"
                          /\ TeardownKept.inst = entry.inst /\ TeardownKept.cfg = entry.cfg
                          /\ TeardownKept.cp = state.cp
                          /\ TeardownKept.run = 0 /\ TeardownKept.unknown = FALSE
    BY <1>g, <2>2 DEF TeardownKept, States, Statuses, Phases, Entries
  <2>. QED  BY <2>1, <2>3 DEF RemovalFails, Commit
<1>1. DiskTyped'  BY <1>h, <1>g, <1>u, <1>n, <1>b, <1>l, <1>s, NothingIs DEF Inv, DiskTyped, Counted,
   Keeping, Apart, Kinds
<1>2. Counted'  BY <1>h, <1>g, <1>u, <1>n, <1>b, <1>l, <1>s, NothingIs DEF Inv, Counted, DiskTyped, Removals
<1>3. Apart'  BY <1>h, <1>g, <1>u, <1>n, <1>b, <1>l, <1>s, NothingIs DEF Inv, Apart, DiskTyped, Counted,
   Keeping, Losses, Deep, Restoring, Writers, Hold, Busy, Unconfirmed, GitLost
<1>4. Keeping'  BY <1>h, <1>g, <1>u, <1>n, <1>b, <1>l, <1>s, NothingIs DEF Inv, Keeping, DiskTyped, Apart,
   Losses, Deep, Restoring, GitLost, Kinds
<1>5. Losses'  BY <1>h, <1>g, <1>u, <1>n, <1>b, <1>l, <1>s, NothingIs DEF Inv, Losses, DiskTyped, Counted,
   Apart, Keeping, GitLost, Kinds
<1>6. NoStrandedRun'  BY <1>h, <1>g, <1>u, <1>n, <1>b, <1>l, <1>s, NothingIs DEF Inv, NoStrandedRun,
   WorktreeHeld, Holding, Unfinished, StrayWrite, Restoring, Hold, Busy, Unconfirmed
<1>7. LifeTyped'  BY <1>h, <1>g, <1>u, <1>n, <1>b, <1>l, <1>s, NothingIs, FreshIs DEF Inv, LifeTyped, Apart
<1>8. Progress'
  <2>1. state.status # "running" /\ exists  BY <1>g, <1>h DEF Inv, Stepping, InSteps
  <2>2. \A p \in Phases : Reached(state', instance', p) = Reached(state, instance, p)
    BY <1>u, <1>s, <2>1 DEF Reached
  <2>. QED  BY <1>u, <1>s, <2>1, <2>2, SameReached DEF Inv, Progress
<1>9. Stepping'  BY <1>h, <1>g, <1>u, <1>n, <1>b, <1>l, <1>s, NothingIs, FreshIs, PointIs DEF Inv,
   Stepping, LifeTyped, Apart, Progress, InSteps, Near, Phases
<1>10. Holds  BY <1>h, <1>g, <1>u, <1>n, <1>b, <1>l, <1>s, NothingIs DEF Holds, Inv, LifeTyped
<1>. QED  BY <1>1, <1>2, <1>3, <1>4, <1>5, <1>6, <1>7, <1>8, <1>9, <1>10 DEF Inv

\* Cancel keeps the invariant.
LEMMA CancelInv ==
  ASSUME Inv, Cancel
  PROVE  Inv' /\ Holds
<1> USE WorktreeBounds, CheckpointBounds
<1>h. entry.pc # "remove" /\ entry.pc # "none"
  BY DEF Cancel, Busy, Inv, Apart
<1>g. /\ entry # NoEntry /\ exists /\ agent = "none" /\ entry \in Entries /\ entry.phase \in Phases
      /\ ~Restoring /\ claim.pc \notin Deep /\ marker = NoMarker /\ ~unconfirmed
      /\ entry.pc # "remove"
  BY <1>h, AtWork
<1>u. UNCHANGED <<refs, taken, marker, writeMarker, partial, origin, previewed, claim, gitWrites,
                  launches, unconfirmed, stray, lost, alive, wake, restores, writes, exists, instance,
                  config, trusted, state, db, attempts, ran, torn, agent, excused>>
  BY DEF Cancel, Own, Checkpoints, checkpointVars, disk, holds
<1>n. /\ entry' \in Entries
      /\ entry'.phase = entry.phase
      /\ entry'.pc = entry.pc
      /\ entry'.inst = entry.inst
      /\ entry'.skip = entry.skip
      /\ entry'.ack = entry.ack
      /\ entry'.cfg = entry.cfg
      /\ entry'.at = entry.at
      /\ entry'.cancel = TRUE
      /\ entry'.complete = entry.complete
  BY <1>g DEF Cancel, Entries, Places, Phases, Digests
<1>m. entry' # NoEntry  BY <1>h, <1>n, NothingIs
<1>1. DiskTyped'  BY <1>h, <1>g, <1>u, <1>n, <1>m, NothingIs DEF Inv, DiskTyped, Counted, Keeping, Apart,
   Kinds
<1>2. Counted'  BY <1>h, <1>g, <1>u, <1>n, <1>m, NothingIs DEF Inv, Counted, DiskTyped, Removals
<1>3. Apart'  BY <1>h, <1>g, <1>u, <1>n, <1>m, NothingIs DEF Inv, Apart, DiskTyped, Counted, Keeping,
   Losses, Deep, Restoring, Writers, Hold, Busy, Unconfirmed, GitLost
<1>4. Keeping'  BY <1>h, <1>g, <1>u, <1>n, <1>m, NothingIs DEF Inv, Keeping, DiskTyped, Apart, Losses,
   Deep, Restoring, GitLost, Kinds
<1>5. Losses'  BY <1>h, <1>g, <1>u, <1>n, <1>m, NothingIs DEF Inv, Losses, DiskTyped, Counted, Apart,
   Keeping, GitLost, Kinds
<1>6. NoStrandedRun'  BY <1>h, <1>g, <1>u, <1>n, <1>m, NothingIs DEF Inv, NoStrandedRun, WorktreeHeld,
   Holding, Unfinished, StrayWrite, Restoring, Hold, Busy, Unconfirmed
<1>7. LifeTyped'  BY <1>h, <1>g, <1>u, <1>n, <1>m, NothingIs, FreshIs DEF Inv, LifeTyped, Apart
<1>8. Progress'  BY <1>u DEF Inv, Progress, Follows, Reached
<1>9. Stepping'  BY <1>h, <1>g, <1>u, <1>n, <1>m, NothingIs, FreshIs, PointIs DEF Inv, Stepping, LifeTyped,
   Apart, Progress, InSteps, Near, Phases
<1>10. Holds  BY <1>h, <1>g, <1>u, <1>n, <1>m, NothingIs DEF Holds, Inv, LifeTyped
<1>. QED  BY <1>1, <1>2, <1>3, <1>4, <1>5, <1>6, <1>7, <1>8, <1>9, <1>10 DEF Inv

\* Acknowledge keeps the invariant.
LEMMA AcknowledgeInv ==
  ASSUME Inv, NEW r \in 1..MaxAttempts, Acknowledge(r)
  PROVE  Inv' /\ Holds
<1> USE WorktreeBounds, CheckpointBounds
<1>g. /\ entry = NoEntry /\ state.unknown /\ state.status # "running"
      /\ entry \in Entries /\ entry.pc = "none" /\ ~entry.complete /\ state.status # "running"
  BY NothingIs DEF Inv, Stepping, InSteps, Acknowledge, Busy, Unconfirmed
<1>u. UNCHANGED <<refs, taken, marker, writeMarker, partial, origin, previewed, claim, gitWrites,
                  launches, unconfirmed, stray, lost, alive, restores, writes, exists, instance, config,
                  trusted, entry, attempts, ran, torn, agent>>
      /\ wake' = (agent = "queued") /\ excused' = excused \cup (lost \cap {"step"})
  BY <1>g DEF Acknowledge, Own, Excuse, Unconfirmed, OnRelease, disk, holds
<1>s. /\ state' \in States
      /\ state'.status = state.status
      /\ state'.phase = state.phase
      /\ state'.inst = state.inst
      /\ state'.cfg = state.cfg
      /\ state'.at = state.at
      /\ state'.cp = state.cp
      /\ state'.run = state.run
      /\ state'.unknown = FALSE
      /\ db' \in {state', db}
  BY DEF Inv, LifeTyped, Acknowledge, Commit, States
<1>1. DiskTyped'  BY <1>g, <1>u, <1>s, NothingIs DEF Inv, DiskTyped, Counted, Keeping, Apart, Kinds
<1>2. Counted'  BY <1>g, <1>u, <1>s, NothingIs DEF Inv, Counted, DiskTyped, Removals
<1>3. Apart'  BY <1>g, <1>u, <1>s, NothingIs DEF Inv, Apart, DiskTyped, Counted, Keeping, Losses, Deep,
   Restoring, Writers, Hold, Busy, Unconfirmed, GitLost
<1>4. Keeping'  BY <1>g, <1>u, <1>s, NothingIs DEF Inv, Keeping, DiskTyped, Apart, Losses, Deep, Restoring,
   GitLost, Kinds
<1>5. Losses'  BY <1>g, <1>u, <1>s, NothingIs DEF Inv, Losses, DiskTyped, Counted, Apart, Keeping, GitLost,
   Kinds
<1>6. NoStrandedRun'  BY <1>g, <1>u, <1>s, NothingIs DEF Inv, NoStrandedRun, WorktreeHeld, Holding,
   Unfinished, StrayWrite, Restoring, Hold, Busy, Unconfirmed
<1>7. LifeTyped'  BY <1>g, <1>u, <1>s, NothingIs, FreshIs DEF Inv, LifeTyped, Apart
<1>8. Progress'
  <2>1. \A p \in Phases : Reached(state', instance, p) = Reached(state, instance, p)  BY <1>s DEF Reached
  <2>2. \A p \in Phases : Reached(db', instance, p) \in {Reached(state', instance, p), Reached(db, instance, p)}
    BY <1>s
  <2>. QED  BY <1>u, <2>1, <2>2 DEF Inv, Progress, Follows
<1>9. Stepping'  BY <1>g, <1>u, <1>s, NothingIs, FreshIs, PointIs DEF Inv, Stepping, LifeTyped, Apart,
   Progress, InSteps, Near, Phases
<1>10. Holds  BY <1>g, <1>u, <1>s, NothingIs DEF Holds, Inv, LifeTyped
<1>. QED  BY <1>1, <1>2, <1>3, <1>4, <1>5, <1>6, <1>7, <1>8, <1>9, <1>10 DEF Inv

\* ReconcileSteps keeps the invariant.
LEMMA ReconcileStepsInv ==
  ASSUME Inv, ReconcileSteps
  PROVE  Inv' /\ Holds
<1> USE WorktreeBounds, CheckpointBounds
<1>g. /\ entry = NoEntry /\ state.unknown /\ "step" \notin lost
      /\ entry \in Entries /\ entry.pc = "none" /\ ~entry.complete /\ state.status # "running"
  BY NothingIs DEF Inv, Stepping, InSteps, ReconcileSteps, Busy, Unconfirmed
<1>u. UNCHANGED <<refs, taken, marker, writeMarker, partial, origin, previewed, claim, gitWrites,
                  launches, unconfirmed, stray, lost, alive, restores, writes, exists, instance, config,
                  trusted, entry, attempts, ran, torn, agent, excused>>
      /\ wake' = (agent = "queued")
  BY <1>g DEF ReconcileSteps, Own, OnRelease, disk, holds
<1>s. /\ state' \in States
      /\ state'.status = state.status
      /\ state'.phase = state.phase
      /\ state'.inst = state.inst
      /\ state'.cfg = state.cfg
      /\ state'.at = state.at
      /\ state'.cp = state.cp
      /\ state'.run = state.run
      /\ state'.unknown = FALSE
      /\ db' \in {state', db}
  BY DEF Inv, LifeTyped, ReconcileSteps, Commit, States
<1>1. DiskTyped'  BY <1>g, <1>u, <1>s, NothingIs DEF Inv, DiskTyped, Counted, Keeping, Apart, Kinds
<1>2. Counted'  BY <1>g, <1>u, <1>s, NothingIs DEF Inv, Counted, DiskTyped, Removals
<1>3. Apart'  BY <1>g, <1>u, <1>s, NothingIs DEF Inv, Apart, DiskTyped, Counted, Keeping, Losses, Deep,
   Restoring, Writers, Hold, Busy, Unconfirmed, GitLost
<1>4. Keeping'  BY <1>g, <1>u, <1>s, NothingIs DEF Inv, Keeping, DiskTyped, Apart, Losses, Deep, Restoring,
   GitLost, Kinds
<1>5. Losses'  BY <1>g, <1>u, <1>s, NothingIs DEF Inv, Losses, DiskTyped, Counted, Apart, Keeping, GitLost,
   Kinds
<1>6. NoStrandedRun'  BY <1>g, <1>u, <1>s, NothingIs DEF Inv, NoStrandedRun, WorktreeHeld, Holding,
   Unfinished, StrayWrite, Restoring, Hold, Busy, Unconfirmed
<1>7. LifeTyped'  BY <1>g, <1>u, <1>s, NothingIs, FreshIs DEF Inv, LifeTyped, Apart
<1>8. Progress'
  <2>1. \A p \in Phases : Reached(state', instance, p) = Reached(state, instance, p)  BY <1>s DEF Reached
  <2>2. \A p \in Phases : Reached(db', instance, p) \in {Reached(state', instance, p), Reached(db, instance, p)}
    BY <1>s
  <2>. QED  BY <1>u, <2>1, <2>2 DEF Inv, Progress, Follows
<1>9. Stepping'  BY <1>g, <1>u, <1>s, NothingIs, FreshIs, PointIs DEF Inv, Stepping, LifeTyped, Apart,
   Progress, InSteps, Near, Phases
<1>10. Holds  BY <1>g, <1>u, <1>s, NothingIs DEF Holds, Inv, LifeTyped
<1>. QED  BY <1>1, <1>2, <1>3, <1>4, <1>5, <1>6, <1>7, <1>8, <1>9, <1>10 DEF Inv

\* Prove keeps the invariant.
LEMMA ProveInv ==
  ASSUME Inv, NEW k \in Kinds, Prove(k)
  PROVE  Inv' /\ Holds
<1> USE WorktreeBounds, CheckpointBounds
<1>1. DiskTyped'  BY DEF Inv, LifeTyped, DiskTyped, Counted, Keeping, Apart, Kinds, Claims, NoMarker,
   NoClaim, Restoring, Ids, Prove, Own, Others, disk, holds, lifecycle, bounds
<1>2. Counted'  BY DEF Inv, LifeTyped, Counted, DiskTyped, Removals, Prove, Own, Others, disk, holds,
   lifecycle, bounds
<1>3. Apart'  BY DEF Inv, LifeTyped, Apart, DiskTyped, Counted, Keeping, Losses, Deep, Restoring,
   StrayWrite, Holding, Unfinished, Writers, Hold, Busy, Unconfirmed, NoClaim, NoMarker, GitLost, Prove,
      Own, Others, disk, holds, lifecycle, bounds
<1>4. Keeping'  BY DEF Inv, LifeTyped, Keeping, DiskTyped, Apart, Losses, Kinds, Deep, Restoring,
   StrayWrite, Holding, Unfinished, NoClaim, GitLost, NoMarker, Prove, Own, Others, disk, holds, lifecycle,
      bounds
<1>5. Losses'  BY DEF Inv, LifeTyped, Losses, DiskTyped, Counted, Apart, Keeping, Deep, Restoring,
   StrayWrite, Holding, Unfinished, GitLost, NoMarker, Kinds, Prove, Own, Others, disk, holds, lifecycle,
      bounds
<1>6. NoStrandedRun'  BY DEF Inv, LifeTyped, NoStrandedRun, WorktreeHeld, Holding, Unfinished, StrayWrite,
   Restoring, Hold, Busy, Unconfirmed, NoClaim, Prove, Own, Others, disk, holds, lifecycle, bounds
<1>7. LifeTyped'  BY DEF Inv, LifeTyped, Apart, Digests, Points, Places, States, Entries, Statuses,
   NoEntry, NoState, Phases, Fresh, Checkpoint, Prove, Own, Others, lifecycle
<1>8. Progress'  BY DEF Inv, Progress, Follows, Reached, Prove, lifecycle
<1>9. Stepping'  BY DEF Inv, Stepping, Prove, lifecycle
<1>10. Holds  BY NothingIs DEF Holds, Inv, LifeTyped, Prove, Own, Others, disk, holds, lifecycle, bounds
<1>. QED  BY <1>1, <1>2, <1>3, <1>4, <1>5, <1>6, <1>7, <1>8, <1>9, <1>10 DEF Inv

\* EditConfig keeps the invariant.
LEMMA EditConfigInv ==
  ASSUME Inv, NEW c \in Digests, EditConfig(c)
  PROVE  Inv' /\ Holds
<1> USE WorktreeBounds, CheckpointBounds
<1>1. DiskTyped'  BY DEF Inv, LifeTyped, DiskTyped, Counted, Keeping, Apart, Kinds, Claims, NoMarker,
   NoClaim, Restoring, Ids, EditConfig, Own, Others, Checkpoints, checkpointVars, disk, holds, Unmoved
<1>2. Counted'  BY DEF Inv, LifeTyped, Counted, DiskTyped, Removals, EditConfig, Own, Others, Checkpoints,
   checkpointVars, disk, holds, Unmoved
<1>3. Apart'  BY DEF Inv, LifeTyped, Apart, DiskTyped, Counted, Keeping, Losses, Deep, Restoring,
   StrayWrite, Holding, Unfinished, Writers, Hold, Busy, Unconfirmed, NoClaim, NoMarker, GitLost,
      EditConfig, Own, Others, Checkpoints, checkpointVars, disk, holds, Unmoved
<1>4. Keeping'  BY DEF Inv, LifeTyped, Keeping, DiskTyped, Apart, Losses, Kinds, Deep, Restoring,
   StrayWrite, Holding, Unfinished, NoClaim, GitLost, NoMarker, EditConfig, Own, Others, Checkpoints,
      checkpointVars, disk, holds, Unmoved
<1>5. Losses'  BY DEF Inv, LifeTyped, Losses, DiskTyped, Counted, Apart, Keeping, Deep, Restoring,
   StrayWrite, Holding, Unfinished, GitLost, NoMarker, Kinds, EditConfig, Own, Others, Checkpoints,
      checkpointVars, disk, holds, Unmoved
<1>6. NoStrandedRun'  BY DEF Inv, LifeTyped, NoStrandedRun, WorktreeHeld, Holding, Unfinished, StrayWrite,
   Restoring, Hold, Busy, Unconfirmed, NoClaim, EditConfig, Own, Others, Checkpoints, checkpointVars, disk,
      holds, Unmoved
<1>7. LifeTyped'  BY DEF Inv, LifeTyped, Apart, Digests, Points, Places, States, Entries, Statuses,
   NoEntry, NoState, Phases, Fresh, Checkpoint, EditConfig, Own, Others, Unmoved
<1>8. Progress'
  <2>1. UNCHANGED <<exists, instance, state, db, ran, torn>>  BY DEF EditConfig, Own, Unmoved
  <2>. QED  BY <2>1 DEF Inv, Progress, Follows, Reached
<1>9. Stepping'  BY DEF Inv, Stepping, LifeTyped, Apart, Progress, InSteps, Near, Checkpoint, NoEntry,
   NoState, Phases, EditConfig, Own, Others, Unmoved
<1>10. Holds  BY NothingIs DEF Holds, Inv, LifeTyped, EditConfig, Own, Others, Checkpoints, checkpointVars,
   disk, holds, Unmoved
<1>. QED  BY <1>1, <1>2, <1>3, <1>4, <1>5, <1>6, <1>7, <1>8, <1>9, <1>10 DEF Inv

\* Trust keeps the invariant.
LEMMA TrustInv ==
  ASSUME Inv, Trust
  PROVE  Inv' /\ Holds
<1> USE WorktreeBounds, CheckpointBounds
<1>u. UNCHANGED <<refs, taken, marker, writeMarker, partial, origin, previewed, claim, gitWrites,
                  launches, unconfirmed, stray, lost, alive, wake, restores, writes, exists, instance,
                  config, entry, attempts, ran, torn, agent, excused>>
      /\ trusted' \subseteq Configs /\ NoConfig = NoConfig
  BY DEF Inv, LifeTyped, Digests, Trust, Unmoved, Commit, Checkpoints, checkpointVars, disk, holds
<1>s. /\ state' \in States
      /\ state'.status = state'.status
      /\ state'.phase = state.phase
      /\ state'.inst = state.inst
      /\ state'.cfg = state.cfg
      /\ state'.at = state.at
      /\ state'.cp = state.cp
      /\ state'.run = state.run
      /\ state'.unknown = state.unknown
      /\ (state'.status = "running" <=> state.status = "running")
      /\ db' \in {state', db} /\ (state' = state \/ entry = NoEntry)
  BY DEF Inv, LifeTyped, Trust, Commit, States, Statuses, Busy
<1>1. DiskTyped'  BY <1>u, <1>s, NothingIs DEF Inv, DiskTyped, Counted, Keeping, Apart, Kinds
<1>2. Counted'  BY <1>u, <1>s, NothingIs DEF Inv, Counted, DiskTyped, Removals
<1>3. Apart'  BY <1>u, <1>s, NothingIs DEF Inv, Apart, DiskTyped, Counted, Keeping, Losses, Deep,
   Restoring, Writers, Hold, Busy, Unconfirmed, GitLost
<1>4. Keeping'  BY <1>u, <1>s, NothingIs DEF Inv, Keeping, DiskTyped, Apart, Losses, Deep, Restoring,
   GitLost, Kinds
<1>5. Losses'  BY <1>u, <1>s, NothingIs DEF Inv, Losses, DiskTyped, Counted, Apart, Keeping, GitLost, Kinds
<1>6. NoStrandedRun'  BY <1>u, <1>s, NothingIs DEF Inv, NoStrandedRun, WorktreeHeld, Holding, Unfinished,
   StrayWrite, Restoring, Hold, Busy, Unconfirmed
<1>7. LifeTyped'  BY <1>u, <1>s, NothingIs, FreshIs DEF Inv, LifeTyped, Apart
<1>8. Progress'
  <2>1. \A p \in Phases : Reached(state', instance, p) = Reached(state, instance, p)  BY <1>s DEF Reached
  <2>2. \A p \in Phases : Reached(db', instance, p) \in {Reached(state', instance, p), Reached(db, instance, p)}
    BY <1>s
  <2>. QED  BY <1>u, <2>1, <2>2 DEF Inv, Progress, Follows
<1>9. Stepping'  BY <1>u, <1>s, NothingIs, FreshIs, PointIs DEF Inv, Stepping, LifeTyped, Apart, Progress,
   InSteps, Near, Phases
<1>10. Holds  BY <1>u, <1>s, NothingIs DEF Holds, Inv, LifeTyped
<1>. QED  BY <1>1, <1>2, <1>3, <1>4, <1>5, <1>6, <1>7, <1>8, <1>9, <1>10 DEF Inv

\* Distrust keeps the invariant.
LEMMA DistrustInv ==
  ASSUME Inv, Distrust
  PROVE  Inv' /\ Holds
<1> USE WorktreeBounds, CheckpointBounds
<1>1. DiskTyped'  BY DEF Inv, LifeTyped, DiskTyped, Counted, Keeping, Apart, Kinds, Claims, NoMarker,
   NoClaim, Restoring, Ids, Distrust, Own, Others, Checkpoints, checkpointVars, disk, holds, Unmoved
<1>2. Counted'  BY DEF Inv, LifeTyped, Counted, DiskTyped, Removals, Distrust, Own, Others, Checkpoints,
   checkpointVars, disk, holds, Unmoved
<1>3. Apart'  BY DEF Inv, LifeTyped, Apart, DiskTyped, Counted, Keeping, Losses, Deep, Restoring,
   StrayWrite, Holding, Unfinished, Writers, Hold, Busy, Unconfirmed, NoClaim, NoMarker, GitLost, Distrust,
      Own, Others, Checkpoints, checkpointVars, disk, holds, Unmoved
<1>4. Keeping'  BY DEF Inv, LifeTyped, Keeping, DiskTyped, Apart, Losses, Kinds, Deep, Restoring,
   StrayWrite, Holding, Unfinished, NoClaim, GitLost, NoMarker, Distrust, Own, Others, Checkpoints,
      checkpointVars, disk, holds, Unmoved
<1>5. Losses'  BY DEF Inv, LifeTyped, Losses, DiskTyped, Counted, Apart, Keeping, Deep, Restoring,
   StrayWrite, Holding, Unfinished, GitLost, NoMarker, Kinds, Distrust, Own, Others, Checkpoints,
      checkpointVars, disk, holds, Unmoved
<1>6. NoStrandedRun'  BY DEF Inv, LifeTyped, NoStrandedRun, WorktreeHeld, Holding, Unfinished, StrayWrite,
   Restoring, Hold, Busy, Unconfirmed, NoClaim, Distrust, Own, Others, Checkpoints, checkpointVars, disk,
      holds, Unmoved
<1>7. LifeTyped'  BY DEF Inv, LifeTyped, Apart, Digests, Points, Places, States, Entries, Statuses,
   NoEntry, NoState, Phases, Fresh, Checkpoint, Distrust, Own, Others, Unmoved
<1>8. Progress'
  <2>1. UNCHANGED <<exists, instance, state, db, ran, torn>>  BY DEF Distrust, Unmoved
  <2>. QED  BY <2>1 DEF Inv, Progress, Follows, Reached
<1>9. Stepping'  BY DEF Inv, Stepping, LifeTyped, Apart, Progress, InSteps, Near, Checkpoint, NoEntry,
   NoState, Phases, Distrust, Own, Others, Unmoved
<1>10. Holds  BY NothingIs DEF Holds, Inv, LifeTyped, Distrust, Own, Others, Checkpoints, checkpointVars,
   disk, holds, Unmoved
<1>. QED  BY <1>1, <1>2, <1>3, <1>4, <1>5, <1>6, <1>7, <1>8, <1>9, <1>10 DEF Inv

\* Recreate keeps the invariant.
LEMMA RecreateInv ==
  ASSUME Inv, Recreate
  PROVE  Inv' /\ Holds
<1> USE WorktreeBounds, CheckpointBounds
<1>g. /\ entry = NoEntry /\ claim = NoClaim /\ agent = "none" /\ gitWrites = 0 /\ GitLost = {}
      /\ entry \in Entries /\ entry.pc = "none" /\ ~entry.complete /\ state.status # "running"
  BY NothingIs DEF Inv, Stepping, InSteps, Recreate, Busy
<1>u. /\ UNCHANGED <<taken, claim, gitWrites, launches, unconfirmed, stray, lost, alive, wake, restores,
                     writes, config, trusted, state, db,
                    entry, attempts, agent, excused>>
      /\ refs' = {} /\ marker' = NoMarker /\ ~writeMarker' /\ ~partial' /\ origin' = 0 /\ previewed' = 0
      /\ writeMarker' \in BOOLEAN /\ partial' \in BOOLEAN /\ exists' = TRUE /\ ran' = Fresh /\ torn' = FALSE
  BY DEF Recreate, DiskGone, holds, Unmoved
<1>s. /\ instance' \in Nat /\ instance' >= 1 /\ state.inst \in Nat /\ db.inst \in Nat
      /\ state.inst <= instance' /\ db.inst <= instance'
      /\ state.inst # instance' /\ db.inst # instance'
  BY DEF Inv, LifeTyped, Recreate, States
<1>1. DiskTyped'  BY <1>g, <1>u, <1>s, NothingIs DEF Inv, DiskTyped, Counted, Keeping, Apart, Kinds
<1>2. Counted'  BY <1>g, <1>u, <1>s, NothingIs DEF Inv, Counted, DiskTyped, Removals
<1>3. Apart'  BY <1>g, <1>u, <1>s, NothingIs DEF Inv, Apart, DiskTyped, Counted, Keeping, Losses, Deep,
   Restoring, Writers, Hold, Busy, Unconfirmed, GitLost
<1>4. Keeping'  BY <1>g, <1>u, <1>s, NothingIs DEF Inv, Keeping, DiskTyped, Apart, Losses, Deep, Restoring,
   GitLost, Kinds
<1>5. Losses'  BY <1>g, <1>u, <1>s, NothingIs DEF Inv, Losses, DiskTyped, Counted, Apart, Keeping, GitLost,
   Kinds
<1>6. NoStrandedRun'  BY <1>g, <1>u, <1>s, NothingIs DEF Inv, NoStrandedRun, WorktreeHeld, Holding,
   Unfinished, StrayWrite, Restoring, Hold, Busy, Unconfirmed
<1>7. LifeTyped'  BY <1>g, <1>u, <1>s, NothingIs, FreshIs DEF Inv, LifeTyped, Apart
<1>8. Progress'  BY <1>g, <1>u, <1>s, NothingIs, FreshIs, PointIs DEF Inv, Progress, LifeTyped, Stepping,
   Apart, Follows, Reached, Near
<1>9. Stepping'  BY <1>g, <1>u, <1>s, NothingIs, FreshIs, PointIs DEF Inv, Stepping, LifeTyped, Apart,
   Progress, InSteps, Near, Phases
<1>10. Holds  BY <1>g, <1>u, <1>s, NothingIs DEF Holds, Inv, LifeTyped
<1>. QED  BY <1>1, <1>2, <1>3, <1>4, <1>5, <1>6, <1>7, <1>8, <1>9, <1>10 DEF Inv

\* Crash keeps the invariant.
LEMMA CrashInv ==
  ASSUME Inv, Crash
  PROVE  Inv' /\ Holds
<1> USE WorktreeBounds, CheckpointBounds
<1>u. /\ UNCHANGED <<refs, taken, marker, writeMarker, partial, origin, previewed, restores, writes,
                     exists, instance, config, trusted, attempts,
                    ran, torn>>
      /\ claim' = NoClaim /\ gitWrites' = 0 /\ launches' = 0 /\ ~unconfirmed' /\ ~stray' /\ ~wake'
      /\ unconfirmed' \in BOOLEAN /\ stray' \in BOOLEAN /\ wake' \in BOOLEAN
      /\ agent' \in {"none", "interrupted"} /\ (agent = "none" => agent' = "none")
  BY DEF Crash, CheckpointsDie, disk, Inv, LifeTyped
<1>n. /\ entry' = NoEntry /\ entry' \in Entries /\ entry'.pc = "none" /\ ~entry'.complete
  BY NothingIs DEF Crash
<1>l. /\ lost \subseteq lost' /\ lost' \subseteq Kinds /\ alive' \subseteq lost' /\ excused' = excused \ (IF entry.pc = "running" THEN {"step"} ELSE {})
      /\ ("write" \in lost' => "write" \in lost \/ gitWrites > 0)
      /\ ("restore" \in lost' => "restore" \in lost \/ claim.pc = "apply")
      /\ ("step" \in lost' => "step" \in lost \/ entry.pc = "running")
  <2> DEFINE steps == IF entry.pc = "running" THEN {"step"} ELSE {}
             busy == steps \cup (IF gitWrites > 0 THEN {"write"} ELSE {})
                           \cup (IF claim.pc = "apply" THEN {"restore"} ELSE {})
  <2>1. /\ lost' \in {lost \cup S : S \in SUBSET busy}
        /\ alive' \in {alive \cup S : S \in SUBSET (lost' \ lost)}
        /\ excused' = excused \ steps
    BY DEF Crash, CheckpointsDie
  <2>2. /\ busy \subseteq Kinds /\ ("write" \in busy => gitWrites > 0) /\ ("restore" \in busy => claim.pc = "apply")
        /\ ("step" \in busy => entry.pc = "running")
    BY DEF Kinds
  <2>3. lost \subseteq Kinds /\ alive \subseteq lost  BY DEF Inv, DiskTyped
  <2> HIDE DEF busy
  <2>. QED  BY <2>1, <2>2, <2>3
<1>s. /\ db' = state' /\ state' \in States /\ state'.inst = db.inst /\ state'.run = db.run
      /\ state'.status # "running"
      /\ (db.unknown \/ db.status = "running" => state'.unknown)
      /\ \A p \in Phases : state'.cp[p] = IF db.status = "running" /\ db.phase = p THEN Checkpoint(db.cfg, db.at) ELSE db.cp[p]
  <2>1. db \in States /\ db.phase \in Phases /\ db.cp \in [Phases -> Points] /\ Checkpoint(db.cfg, db.at) \in Points
        /\ db.unknown \in BOOLEAN
    BY PointIs DEF Inv, LifeTyped, States
  <2>2. state' = Interrupted(db) /\ db' = Interrupted(db)  BY DEF Crash
  <2>3. CASE db.status # "running"  BY <2>1, <2>2, <2>3 DEF Interrupted
  <2>4. CASE db.status = "running"
    <3> DEFINE G == [db.cp EXCEPT ![db.phase] = Checkpoint(db.cfg, db.at)]
    <3>1. /\ G \in [Phases -> Points] /\ \A p \in Phases : G[p] = IF db.phase = p THEN Checkpoint(db.cfg, db.at) ELSE db.cp[p]
      BY <2>1
    <3>2. state' = [db EXCEPT !.status = "stopped", !.unknown = TRUE, !.cp = G]  BY <2>2, <2>4 DEF Interrupted
    <3> HIDE DEF G
    <3>3. /\ state' \in States /\ state'.inst = db.inst /\ state'.run = db.run
          /\ state'.status = "stopped" /\ state'.unknown = TRUE
          /\ state'.cp = G
      BY <2>1, <3>1, <3>2 DEF States, Statuses
    <3>. QED  BY <2>2, <2>4, <3>1, <3>3
  <2>. QED  BY <2>3, <2>4
<1>1. DiskTyped'  BY <1>u, <1>n, <1>l, <1>s, NothingIs DEF Inv, DiskTyped, Counted, Keeping, Apart, Kinds
<1>2. Counted'  BY <1>u, <1>n, <1>l, <1>s, NothingIs DEF Inv, Counted, DiskTyped, Removals
<1>3. Apart'  BY <1>u, <1>n, <1>l, <1>s, NothingIs DEF Inv, Apart, DiskTyped, Counted, Keeping, Losses,
   Deep, Restoring, Writers, Hold, Busy, Unconfirmed, GitLost
<1>4. Keeping'  BY <1>u, <1>n, <1>l, <1>s, NothingIs DEF Inv, Keeping, DiskTyped, Apart, Losses, Deep,
   Restoring, GitLost, Kinds
<1>5. Losses'
  <2>1. "restore" \in lost' => marker' # NoMarker
    BY <1>u, <1>l DEF Inv, Losses, Keeping
  <2>2. "write" \in lost' => writeMarker'
    BY <1>u, <1>l DEF Inv, Losses
  <2>3. "step" \in lost' \ excused' => state'.unknown /\ db'.unknown
    <3>1. "step" \in lost' \ excused' => "step" \in lost \ excused \/ entry.pc = "running"  BY <1>l
    <3>2. entry.pc = "running" => db.status = "running"  BY DEF Inv, Stepping, InSteps
    <3>. QED  BY <1>s, <3>1, <3>2 DEF Inv, Losses
  <2>. QED  BY <1>u, <1>n, <2>1, <2>2, <2>3 DEF Losses
<1>6. NoStrandedRun'  BY <1>u, <1>n, <1>l, <1>s, NothingIs DEF Inv, NoStrandedRun, WorktreeHeld, Holding,
   Unfinished, StrayWrite, Restoring, Hold, Busy, Unconfirmed
<1>7. LifeTyped'  BY <1>u, <1>n, <1>l, <1>s, NothingIs, FreshIs DEF Inv, LifeTyped, Apart
<1>8. Progress'  BY <1>u, <1>n, <1>l, <1>s, NothingIs, FreshIs, PointIs DEF Inv, Progress, LifeTyped,
   Stepping, Apart, Follows, Reached, Near
<1>9. Stepping'  BY <1>u, <1>n, <1>l, <1>s, NothingIs, FreshIs, PointIs DEF Inv, Stepping, LifeTyped,
   Apart, Progress, InSteps, Near, Phases
<1>10. Holds  BY <1>u, <1>n, <1>l, <1>s, NothingIs DEF Holds, Inv, LifeTyped
<1>. QED  BY <1>1, <1>2, <1>3, <1>4, <1>5, <1>6, <1>7, <1>8, <1>9, <1>10 DEF Inv

\* Submit keeps the invariant.
LEMMA SubmitInv ==
  ASSUME Inv, Submit
  PROVE  Inv' /\ Holds
<1> USE WorktreeBounds, CheckpointBounds
<1>g. /\ exists /\ agent = "none" /\ entry = NoEntry /\ ~state.unknown
      /\ ~Restoring /\ claim.pc \notin Deep /\ marker = NoMarker /\ ~unconfirmed
  BY DEF Inv, Apart, Submit, WorktreeHeld, Hold, Busy, Unconfirmed, Holding, Unfinished
<1>u. UNCHANGED <<refs, taken, marker, writeMarker, partial, origin, previewed, claim, gitWrites,
                  launches, unconfirmed, stray, lost, alive, restores, writes, exists, instance, config,
                  trusted, state, db, entry, attempts, ran, torn, excused>>
      /\ agent' = "queued" /\ wake' = TRUE
  BY DEF Submit, AgentOnly, disk, holds, lifecycle
<1>1. DiskTyped'  BY <1>g, <1>u, NothingIs DEF Inv, DiskTyped, Counted, Keeping, Apart, Kinds
<1>2. Counted'  BY <1>g, <1>u, NothingIs DEF Inv, Counted, DiskTyped, Removals
<1>3. Apart'  BY <1>g, <1>u, NothingIs DEF Inv, Apart, DiskTyped, Counted, Keeping, Losses, Deep,
   Restoring, Writers, Hold, Busy, Unconfirmed, GitLost
<1>4. Keeping'  BY <1>g, <1>u, NothingIs DEF Inv, Keeping, DiskTyped, Apart, Losses, Deep, Restoring,
   GitLost, Kinds
<1>5. Losses'  BY <1>g, <1>u, NothingIs DEF Inv, Losses, DiskTyped, Counted, Apart, Keeping, GitLost, Kinds
<1>6. NoStrandedRun'  BY <1>g, <1>u, NothingIs DEF Inv, NoStrandedRun, WorktreeHeld, Holding, Unfinished,
   StrayWrite, Restoring, Hold, Busy, Unconfirmed
<1>7. LifeTyped'  BY <1>g, <1>u, NothingIs, FreshIs DEF Inv, LifeTyped, Apart
<1>8. Progress'  BY <1>u DEF Inv, Progress, Follows, Reached
<1>9. Stepping'  BY <1>g, <1>u, NothingIs, FreshIs, PointIs DEF Inv, Stepping, LifeTyped, Apart, Progress,
   InSteps, Near, Phases
<1>10. Holds  BY <1>g, <1>u, NothingIs DEF Holds, Inv, LifeTyped
<1>. QED  BY <1>1, <1>2, <1>3, <1>4, <1>5, <1>6, <1>7, <1>8, <1>9, <1>10 DEF Inv

\* Launch keeps the invariant.
LEMMA LaunchInv ==
  ASSUME Inv, Launch
  PROVE  Inv' /\ Holds
<1> USE WorktreeBounds, CheckpointBounds
<1>1. DiskTyped'  BY DEF Inv, LifeTyped, DiskTyped, Counted, Keeping, Apart, Kinds, Claims, NoMarker,
   NoClaim, Restoring, Ids, Launch, Own, Others, AgentOnly, disk, holds, lifecycle
<1>2. Counted'  BY DEF Inv, LifeTyped, Counted, DiskTyped, Removals, Launch, Own, Others, AgentOnly, disk,
   holds, lifecycle
<1>3. Apart'  BY DEF Inv, LifeTyped, Apart, DiskTyped, Counted, Keeping, Losses, Deep, Restoring,
   StrayWrite, Holding, Unfinished, Writers, Hold, Busy, Unconfirmed, NoClaim, NoMarker, GitLost, Launch,
      Own, Others, AgentOnly, disk, holds, lifecycle
<1>4. Keeping'  BY DEF Inv, LifeTyped, Keeping, DiskTyped, Apart, Losses, Kinds, Deep, Restoring,
   StrayWrite, Holding, Unfinished, NoClaim, GitLost, NoMarker, Launch, Own, Others, AgentOnly, disk,
      holds, lifecycle
<1>5. Losses'  BY DEF Inv, LifeTyped, Losses, DiskTyped, Counted, Apart, Keeping, Deep, Restoring,
   StrayWrite, Holding, Unfinished, GitLost, NoMarker, Kinds, Launch, Own, Others, AgentOnly, disk, holds,
      lifecycle
<1>6. NoStrandedRun'  BY DEF Inv, LifeTyped, NoStrandedRun, WorktreeHeld, Holding, Unfinished, StrayWrite,
   Restoring, Hold, Busy, Unconfirmed, NoClaim, Launch, Own, Others, AgentOnly, disk, holds, lifecycle
<1>7. LifeTyped'  BY DEF Inv, LifeTyped, Apart, Digests, Points, Places, States, Entries, Statuses,
   NoEntry, NoState, Phases, Fresh, Checkpoint, Launch, Own, Others, AgentOnly, lifecycle
<1>8. Progress'
  <2>1. UNCHANGED <<exists, instance, state, db, ran, torn>>  BY DEF Launch, AgentOnly, lifecycle
  <2>. QED  BY <2>1 DEF Inv, Progress, Follows, Reached
<1>9. Stepping'  BY DEF Inv, Stepping, LifeTyped, Apart, Progress, InSteps, Near, Checkpoint, NoEntry,
   NoState, Phases, Launch, Own, Others, AgentOnly, lifecycle
<1>10. Holds
  <2>1. /\ attempts' = attempts /\ claim' = claim /\ attempts \in Nat
        /\ (agent # "running" /\ agent' = "running" => ~WorktreeHeld)
    BY DEF Launch, AgentOnly, lifecycle, holds, Inv, LifeTyped
  <2>2. ~WorktreeHeld => lost \subseteq excused
    <3> SUFFICES ASSUME ~WorktreeHeld PROVE lost \subseteq excused
      OBVIOUS
    <3>1. ~state.unknown /\ marker = NoMarker /\ ~StrayWrite
      BY DEF WorktreeHeld, Hold, Unconfirmed, Holding, Unfinished
    <3>2. "restore" \notin lost /\ "write" \notin lost /\ "step" \notin lost \ excused
      BY <3>1 DEF Inv, Losses, StrayWrite
    <3>. QED  BY <3>2 DEF Inv, DiskTyped, Kinds
  <2>. QED  BY <2>1, <2>2 DEF Holds, Inv, DiskTyped
<1>. QED  BY <1>1, <1>2, <1>3, <1>4, <1>5, <1>6, <1>7, <1>8, <1>9, <1>10 DEF Inv

\* AgentEnds keeps the invariant.
LEMMA AgentEndsInv ==
  ASSUME Inv, AgentEnds
  PROVE  Inv' /\ Holds
<1> USE WorktreeBounds, CheckpointBounds
<1>u. UNCHANGED <<refs, taken, marker, writeMarker, partial, origin, claim, gitWrites, launches,
                  unconfirmed, stray, lost, alive, restores, writes, exists, instance, config, trusted,
                  state, db, entry, attempts, ran, torn, excused>>
      /\ agent # "none" /\ agent' = "none" /\ wake' = FALSE /\ previewed' = 0
  BY DEF AgentEnds, AgentOnly, Files, holds, lifecycle
<1>g. ~Restoring /\ claim.pc \notin Deep
  BY <1>u DEF Inv, Apart, Writers
<1>1. DiskTyped'  BY <1>u, <1>g, NothingIs DEF Inv, DiskTyped, Counted, Keeping, Apart, Kinds
<1>2. Counted'  BY <1>u, <1>g, NothingIs DEF Inv, Counted, DiskTyped, Removals
<1>3. Apart'  BY <1>u, <1>g, NothingIs DEF Inv, Apart, DiskTyped, Counted, Keeping, Losses, Deep,
   Restoring, Writers, Hold, Busy, Unconfirmed, GitLost
<1>4. Keeping'  BY <1>u, <1>g, NothingIs DEF Inv, Keeping, DiskTyped, Apart, Losses, Deep, Restoring,
   GitLost, Kinds
<1>5. Losses'  BY <1>u, <1>g, NothingIs DEF Inv, Losses, DiskTyped, Counted, Apart, Keeping, GitLost, Kinds
<1>6. NoStrandedRun'  BY <1>u, <1>g, NothingIs DEF Inv, NoStrandedRun, WorktreeHeld, Holding, Unfinished,
   StrayWrite, Restoring, Hold, Busy, Unconfirmed
<1>7. LifeTyped'  BY <1>u, <1>g, NothingIs, FreshIs DEF Inv, LifeTyped, Apart
<1>8. Progress'  BY <1>u DEF Inv, Progress, Follows, Reached
<1>9. Stepping'  BY <1>u, <1>g, NothingIs, FreshIs, PointIs DEF Inv, Stepping, LifeTyped, Apart, Progress,
   InSteps, Near, Phases
<1>10. Holds  BY <1>u, <1>g, NothingIs DEF Holds, Inv, LifeTyped
<1>. QED  BY <1>1, <1>2, <1>3, <1>4, <1>5, <1>6, <1>7, <1>8, <1>9, <1>10 DEF Inv

\* Every step of WorktreeCheckpoints keeps the invariant.
LEMMA CheckpointStep ==
  ASSUME Inv, CheckpointNext(Writers, Removals), exists, UNCHANGED <<lifecycle, agent, excused, bounds>>
  PROVE  Inv' /\ Holds
<1>1. Steady  BY DEF Steady, lifecycle, bounds
<1>2. DiskInv' /\ Holds
  <2>1. CASE Reconcile  BY <2>1, <1>1, ReconcileInv
  <2>2. CASE GitWriteBegins  BY <2>2, <1>1, GitWriteBeginsInv
  <2>3. CASE LaunchBegins  BY <2>3, <1>1, LaunchBeginsInv
  <2>4. CASE LaunchEnds  BY <2>4, <1>1, LaunchEndsInv
  <2>5. ASSUME gitWrites > Removals, NEW l \in BOOLEAN, NEW s \in BOOLEAN, GitWriteEnds(l, s)
       PROVE DiskInv' /\ Holds
    BY <2>5, <1>1, GitWriteEndsInv
  <2>6. CASE Refused  BY <2>6, <1>1, RefusedInv
  <2>7. CASE Captures  BY <2>7, <1>1, CapturesInv
  <2>8. CASE Recovers  BY <2>8, <1>1, RecoversInv
  <2>9. ASSUME NEW id \in Ids, Deletes(id)
       PROVE DiskInv' /\ Holds
    BY <2>9, <1>1, DeletesInv
  <2>10. ASSUME NEW id \in Ids, Preview(id)
       PROVE DiskInv' /\ Holds
    BY <2>10, <1>1, PreviewInv
  <2>11. ASSUME NEW id \in Ids, NEW r \in BOOLEAN, Restores(id, r, Writers)
       PROVE DiskInv' /\ Holds
    BY <2>11, <1>1, RestoresInv
  <2>12. CASE Capture  BY <2>12, <1>1, CaptureInv
  <2>13. CASE Delete  BY <2>13, <1>1, DeleteInv
  <2>14. CASE RestoreRecords  BY <2>14, <1>1, RestoreRecordsInv
  <2>15. CASE RestorePrunes  BY <2>15, <1>1, RestorePrunesInv
  <2>16. CASE RestoreMarks  BY <2>16, <1>1, RestoreMarksInv
  <2>17. CASE Apply  BY <2>17, <1>1, ApplyInv
  <2>18. CASE RestoreEnds  BY <2>18, <1>1, RestoreEndsInv
  <2>19. ASSUME NEW l \in BOOLEAN, RestoreFails(l)
       PROVE DiskInv' /\ Holds
    BY <2>19, <1>1, RestoreFailsInv
  <2>20. CASE Keep  BY <2>20, <1>1, KeepInv
  <2>21. ASSUME NEW k \in Kinds, ProcessDies(k)
       PROVE DiskInv' /\ Holds
    BY <2>21, <1>1, ProcessDiesInv
  <2>. QED  BY <2>1, <2>2, <2>3, <2>4, <2>5, <2>6, <2>7, <2>8, <2>9, <2>10, <2>11, <2>12, <2>13, <2>14,
     <2>15, <2>16, <2>17, <2>18, <2>19, <2>20, <2>21 DEF CheckpointNext, Kinds
<1>3. LifeTyped'  BY <1>1 DEF Inv, Steady, LifeTyped
<1>4. Progress'  BY <1>1 DEF Inv, Steady, Progress, Follows, Reached
<1>5. Stepping'  BY <1>1 DEF Inv, Steady, Stepping
<1>. QED  BY <1>2, <1>3, <1>4, <1>5 DEF Inv, DiskInv

\* The invariant holds at the start.
LEMMA InitInv == Init => Inv
<1> SUFFICES ASSUME Init PROVE Inv
  OBVIOUS
<1> USE WorktreeBounds, CheckpointBounds DEF Init, CheckpointInit
<1>1. DiskTyped
  <2>1. claim \in Claims /\ marker \in [id : Nat, kept : SUBSET Ids]  BY NothingIs
  <2>2. taken \in 0..MaxIds /\ refs \subseteq 1..taken  OBVIOUS
  <2>3. lost = {} /\ alive = {} /\ excused = {} /\ origin = 0 /\ previewed = 0  OBVIOUS
  <2>4. /\ writeMarker \in BOOLEAN /\ partial \in BOOLEAN /\ stray \in BOOLEAN /\ unconfirmed \in BOOLEAN
        /\ wake \in BOOLEAN
    OBVIOUS
  <2>. QED  BY <2>1, <2>2, <2>3, <2>4 DEF DiskTyped
<1>2. LifeTyped
  <2>1. ran \in [Phases -> Points]  BY FreshIs
  <2>2. config \in Digests /\ trusted \subseteq Configs  BY DEF Digests
  <2>3. state \in States /\ db \in States /\ entry \in Entries /\ state.run = 0 /\ state.inst = 0
    BY NothingIs
  <2>4. exists \in BOOLEAN /\ torn \in BOOLEAN  OBVIOUS
  <2>5. agent = "none" /\ instance = 1 /\ attempts = 0  OBVIOUS
  <2>. QED  BY <2>1, <2>2, <2>3, <2>4, <2>5 DEF LifeTyped
<1>3. Counted  BY NothingIs DEF Counted, Removals
<1>4. Apart  BY NothingIs DEF Apart, Deep, Restoring, Busy
<1>5. Keeping  BY NothingIs DEF Keeping, Deep, Restoring
<1>6. Losses  BY DEF Losses
<1>7. Progress  BY NothingIs, FreshIs, PointIs DEF Progress, Follows, Reached
<1>8. Stepping  BY NothingIs DEF Stepping, InSteps
<1>9. NoStrandedRun  BY DEF NoStrandedRun
<1>. QED  BY <1>1, <1>2, <1>3, <1>4, <1>5, <1>6, <1>7, <1>8, <1>9 DEF Inv

\* Every step of the lifecycle keeps the invariant.
LEMMA LifecycleStep == ASSUME Inv, LifecycleNext PROVE Inv' /\ Holds
<1>1. ASSUME NEW p \in Phases, NEW s \in BOOLEAN, NEW a \in 0..MaxAttempts, ClaimLifecycle(p, s, a) PROVE Inv' /\ Holds  BY <1>1, ClaimLifecycleInv
<1>2. CASE Refuse  BY <1>2, RefuseInv
<1>3. CASE NeedsTrust  BY <1>3, NeedsTrustInv
<1>4. CASE NothingToSetUp  BY <1>4, NothingToSetUpInv
<1>5. CASE SetUp  BY <1>5, SetUpInv
<1>6. CASE PrepareRemoval  BY <1>6, PrepareRemovalInv
<1>7. CASE Teardown  BY <1>7, TeardownInv
<1>8. CASE StepStarts  BY <1>8, StepStartsInv
<1>9. CASE StepRefused  BY <1>9, StepRefusedInv
<1>10. CASE StepEnds  BY <1>10, StepEndsInv
<1>11. ASSUME NEW l \in BOOLEAN, StepFails(l) PROVE Inv' /\ Holds  BY <1>11, StepFailsInv
<1>12. CASE CommitOutcome  BY <1>12, CommitOutcomeInv
<1>13. CASE KeepWorktree  BY <1>13, KeepWorktreeInv
<1>14. CASE Proceed  BY <1>14, ProceedInv
<1>15. CASE Removed  BY <1>15, RemovedInv
<1>16. ASSUME NEW l \in BOOLEAN, NEW s \in BOOLEAN, RemovalFails(l, s) PROVE Inv' /\ Holds  BY <1>16,
   RemovalFailsInv
<1>17. CASE Cancel  BY <1>17, CancelInv
<1>18. ASSUME NEW r \in 1..MaxAttempts, Acknowledge(r) PROVE Inv' /\ Holds  BY <1>18, AcknowledgeInv
<1>19. CASE ReconcileSteps  BY <1>19, ReconcileStepsInv
<1>20. ASSUME NEW k \in Kinds, Prove(k) PROVE Inv' /\ Holds  BY <1>20, ProveInv
<1>21. ASSUME NEW c \in Digests, EditConfig(c) PROVE Inv' /\ Holds  BY <1>21, EditConfigInv
<1>22. CASE Trust  BY <1>22, TrustInv
<1>23. CASE Distrust  BY <1>23, DistrustInv
<1>24. CASE Recreate  BY <1>24, RecreateInv
<1>25. CASE Crash  BY <1>25, CrashInv
<1>. QED  BY <1>1, <1>2, <1>3, <1>4, <1>5, <1>6, <1>7, <1>8, <1>9, <1>10, <1>11, <1>12, <1>13, <1>14,
   <1>15, <1>16, <1>17, <1>18, <1>19, <1>20, <1>21, <1>22, <1>23, <1>24, <1>25 DEF LifecycleNext, Kinds,
      Digests

\* A step that changes nothing keeps the invariant.
LEMMA StutterInv == ASSUME Inv, UNCHANGED vars PROVE Inv'
<1>1. UNCHANGED <<state, db, entry, ran, torn, exists, instance, agent, excused>>
  BY DEF vars, lifecycle
<1>2. UNCHANGED checkpointVars  BY DEF vars
<1>3. UNCHANGED <<attempts, config, trusted>>  BY DEF vars, lifecycle
<1>4. DiskTyped' /\ LifeTyped' /\ Counted' /\ Apart' /\ Keeping' /\ Losses'
  BY <1>1, <1>2, <1>3 DEF Inv, DiskTyped, LifeTyped, Counted, Removals, Apart, Keeping, Losses, Restoring,
     Writers, Hold, Busy,
     Unconfirmed, GitLost, checkpointVars, disk, holds
<1>5. Progress' /\ Stepping'
  BY <1>1 DEF Inv, Progress, Stepping, Follows, Reached, Near
<1>6. NoStrandedRun'
  BY <1>1, <1>2 DEF Inv, NoStrandedRun, WorktreeHeld, Holding, Unfinished, StrayWrite, Restoring, Hold,
     Busy, Unconfirmed,
     checkpointVars, disk, holds
<1>. QED  BY <1>4, <1>5, <1>6 DEF Inv

\* Every step keeps the invariant, and starts nothing beside a lost process.
LEMMA NextInv == ASSUME Inv, [Next]_vars PROVE Inv' /\ [Holds]_vars
<1>1. CASE CheckpointNext(Writers, Removals) /\ exists /\ UNCHANGED <<lifecycle, agent, excused, bounds>>
  BY <1>1, CheckpointStep
<1>2. CASE LifecycleNext  BY <1>2, LifecycleStep
<1>3. CASE Submit  BY <1>3, SubmitInv
<1>4. CASE Launch  BY <1>4, LaunchInv
<1>5. CASE AgentEnds  BY <1>5, AgentEndsInv
<1>6. CASE UNCHANGED vars  BY <1>6, StutterInv
<1>. QED  BY <1>1, <1>2, <1>3, <1>4, <1>5, <1>6 DEF Next

\* The inductive invariant holds in every behaviour.
THEOREM Invariance == Spec => []Inv
<1>1. Init => Inv  BY InitInv
<1>2. Inv /\ [Next]_vars => Inv'  BY NextInv
<1>. QED  BY <1>1, <1>2, PTL DEF Spec

\* An agent run, a lifecycle step and a restore never work in the worktree together, a restore
\* works beside no other writer, and a worktree it left half changed stays held, also after
\* restarts (worktree-lifecycle.mjs claim, worktree-checkpoints.mjs holding and its markers).
THEOREM WritersStayApart == Spec => []WritersApart
<1>1. Inv => WritersApart
  <2> SUFFICES ASSUME Inv PROVE WritersApart
    OBVIOUS
  <2>1. entry.pc = "running" => Busy /\ agent = "none"
    BY NothingIs DEF Inv, Apart, Busy
  <2>2. partial => marker # NoMarker /\ gitWrites = 0 /\ agent = "none" /\ ~Busy
    BY DEF Inv, Keeping, Apart
  <2>3. Restoring => agent = "none" /\ ~Busy /\ ~state.unknown /\ gitWrites = 0 /\ launches = 0
    BY DEF Inv, Apart, Writers, Hold, Unconfirmed
  <2>4. claim.pc = "apply" => alive \subseteq excused
    <3> SUFFICES ASSUME claim.pc = "apply" PROVE alive \subseteq excused
      OBVIOUS
    <3>1. Restoring /\ GitLost = {}  BY DEF Inv, Apart, Keeping, Deep
    <3>2. "step" \notin lost \ excused  BY <2>3, <3>1 DEF Inv, Losses
    <3>. QED  BY <3>1, <3>2 DEF Inv, DiskTyped, Kinds, GitLost
  <2>. QED  BY <2>1, <2>2, <2>3, <2>4 DEF WritersApart
<1>. QED  BY <1>1, Invariance, PTL

\* No run starts, no restore changes files and no attempt begins beside a lost process that may
\* still write, unless the user acknowledged that very attempt (requireAcknowledged,
\* ownerPending).
THEOREM LostHold == Spec => LostProcessesHold
<1>1. Inv /\ [Next]_vars => [Holds]_vars  BY NextInv
<1>. QED  BY <1>1, Invariance, PTL DEF Spec, LostProcessesHold, Holds

\* Retention and deletion never take the checkpoint of the state before an interrupted restore,
\* however often that was resumed, and a restore replaces what its preview showed (prune,
\* admitMarker, confirmed plans).
THEOREM SafetyStays == Spec => []SafetyKept
<1>1. Inv => SafetyKept  BY DEF Inv, Keeping, SafetyKept
<1>. QED  BY <1>1, Invariance, PTL

\* Whatever fails to be saved and whenever the runtime dies, a step starts only after the
\* earlier ones of its configuration finished in this worktree, and none of those is run again
\* (runSteps, begin, finishedCheckpoints).
THEOREM StepsKeepOrder == Spec => []StepsInOrder
<1>1. Inv => StepsInOrder
  <2> SUFFICES ASSUME Inv PROVE StepsInOrder
    OBVIOUS
  <2>1. gitWrites \in 0..(MaxWrites + 1)
    BY CheckpointBounds DEF Inv, Counted, Removals
  <2>2. gitWrites > 0 \/ "write" \in lost => writeMarker
    BY DEF Inv, Losses
  <2>3. state.at \in 0..NStep /\ state.run \in 0..attempts /\ entry.pc \in Places
    BY DEF Inv, LifeTyped, States, Entries
  <2>4. marker.kept \subseteq Ids /\ claim.id \in 0..MaxIds
    BY DEF Inv, DiskTyped, Claims
  <2>5. TypeOK
    BY <2>1, <2>2, <2>3, <2>4 DEF Inv, DiskTyped, Counted, TypeOK, Places
  <2>6. entry.pc = "running" => /\ entry.at \in Nat /\ ran[entry.phase].cfg = state.cfg
                                /\ ran[entry.phase].at \in {entry.at, entry.at + 1}
    BY PointIs DEF Inv, Stepping, InSteps, Near, LifeTyped, Entries
  <2>. QED  BY <2>5, <2>6 DEF StepsInOrder
<1>. QED  BY <1>1, Invariance, PTL

\* Git removes a worktree only with its teardown finished since its last set-up, unless there
\* was none or the user skipped it (removeWorktree).
THEOREM RemovesAfterTeardown == Spec => RemovalAfterTeardown
<1> DEFINE Allowed == entry.skip \/ ~entry.complete \/ ran["teardown"].at = NStep
           Step == entry.pc # "remove" /\ entry'.pc = "remove" => Allowed
<1>1. Inv /\ [Next]_vars => [Step]_vars  BY DEF Inv, Stepping
<1>. QED  BY <1>1, Invariance, PTL DEF Spec, RemovalAfterTeardown

\* A queued run whose worktree is no longer held is tried: no way a hold ends forgets
\* onRelease.
THEOREM NoneStranded == Spec => []NoStrandedRun
<1>1. Inv => NoStrandedRun  BY DEF Inv
<1>. QED  BY <1>1, Invariance, PTL

=============================================================================
