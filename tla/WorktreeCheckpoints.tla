------------------------ MODULE WorktreeCheckpoints ------------------------
(***************************************************************************)
(* Checkpoints of one worktree and the writers admitted beside them:       *)
(* server/worktree-checkpoints.mjs.  A checkpoint is a ref, a restore      *)
(* leaves its marker in the Git directory until it is finished, and a Git  *)
(* write leaves one while it runs; all three outlive the runtime.          *)
(*                                                                         *)
(* A lost process is one whose owner the runtime lost: a step of set-up or *)
(* teardown, a Git command of a restore, or a Git write.  The budgets      *)
(* count it until it is proven gone; it may go on writing until then.      *)
(***************************************************************************)
EXTENDS Naturals, FiniteSets

CONSTANTS
    MaxIds,      \* bound: checkpoints taken
    MaxRestores, \* bound: restores claimed
    MaxWrites,   \* bound: Git writes and terminal launches admitted
    Retained     \* checkpoints kept per worktree

ASSUME CheckpointBounds == /\ MaxIds \in Nat /\ MaxRestores \in Nat
                           /\ MaxWrites \in Nat /\ Retained \in Nat \ {0}

VARIABLES
    refs, taken,   \* the checkpoints there are, and how many were taken
    marker,        \* the restore marker
    writeMarker,   \* the Git write marker is there
    partial,       \* a restore changed files and did not finish
    origin,        \* the checkpoint of the state before that restore, or 0
    previewed,     \* the checkpoint whose confirmed preview still holds, or 0
    claim,         \* the checkpoint operation that holds the worktree
    gitWrites, launches, \* writers admitted: Git writes, terminal launches
    unconfirmed, stray,  \* a restore, a Git write, lost its process
    lost, alive,   \* lost processes not proven gone, and those of them that run
    agent,         \* the worktree's agent run
    wake,          \* onRelease was called: the queued run is to be tried
    restores, writes \* bounds

disk == <<refs, taken, marker, writeMarker, partial, origin, previewed>>
holds == <<claim, gitWrites, launches, unconfirmed, stray>>
\* onRelease: resumeQueued does nothing without a queued run.
OnRelease == wake' = (agent = "queued")

checkpointVars == <<disk, holds, lost, alive, wake, restores, writes>>

Ids == 1..MaxIds
NoMarker == [id |-> 0, kept |-> {}]
NoClaim == [kind |-> "none", pc |-> "none", id |-> 0, resume |-> FALSE, safety |-> 0]
GitLost == lost \cap {"restore", "write"}
Claim(kind, pc, id, resume) ==
    [kind |-> kind, pc |-> pc, id |-> id, resume |-> resume, safety |-> 0]

CheckpointInit ==
    /\ refs = {} /\ taken = 0 /\ marker = NoMarker
    /\ writeMarker = FALSE /\ partial = FALSE /\ origin = 0 /\ previewed = 0
    /\ claim = NoClaim /\ gitWrites = 0 /\ launches = 0
    /\ unconfirmed = FALSE /\ stray = FALSE
    /\ lost = {} /\ alive = {} /\ agent = "none" /\ wake = FALSE
    /\ restores = 0 /\ writes = 0

---------------------------------------------------------------------------
(* What holds the worktree.                                                *)

Restoring == claim.kind = "restore"
Unfinished == unconfirmed \/ marker # NoMarker

\* strayWrite: a write lost its process, or a marker is none of ours.
StrayWrite == stray \/ (writeMarker /\ gitWrites = 0)

\* Mutant: the marker of a restore that did not finish is not looked for.
HoldingMemory == Restoring \/ unconfirmed \/ StrayWrite

\* holding.  It reconciles a stray write first: where this is evaluated
\* Settled holds.
Holding == Restoring \/ Unfinished \/ StrayWrite

Settled == GitLost # {} \/ ~(StrayWrite \/ unconfirmed)

\* Mutant: the runs that waited for the worktree are not told.
ReconcileQuietly ==
    /\ ~Settled
    /\ unconfirmed' = FALSE /\ stray' = FALSE
    /\ writeMarker' = (writeMarker /\ gitWrites > 0)
    /\ UNCHANGED <<refs, taken, marker, partial, origin, previewed, claim, gitWrites,
                   launches, lost, alive, wake, restores, writes>>

\* reconcile: the utility budget counts no unknown owner, so the worktrees
\* held only for such processes are released.
Reconcile ==
    /\ ~Settled
    /\ unconfirmed' = FALSE /\ stray' = FALSE
    /\ writeMarker' = (writeMarker /\ gitWrites > 0)
    /\ OnRelease
    /\ UNCHANGED <<refs, taken, marker, partial, origin, previewed, claim, gitWrites,
                   launches, lost, alive, restores, writes>>

---------------------------------------------------------------------------
(* Admitted writers.                                                       *)

Admit == Settled /\ ~Holding /\ writes < MaxWrites /\ writes' = writes + 1

\* admitWriter for a stage, an unstage or a commit: its marker is on disk
\* before it is admitted.
GitWriteBegins ==
    /\ Admit
    /\ gitWrites' = gitWrites + 1 /\ writeMarker' = TRUE
    /\ UNCHANGED <<refs, taken, marker, partial, origin, previewed, claim, launches, unconfirmed,
                   stray, lost, alive, wake, restores>>

\* The token's release: a write that lost its process keeps its marker, and
\* so does one whose marker cannot be removed.
Released(lostIt, stuck) ==
    /\ gitWrites' = gitWrites - 1
    /\ LET clean == ~(stray \/ lostIt) /\ gitWrites = 1
       IN  /\ stray' = (stray \/ lostIt \/ (clean /\ stuck))
           /\ writeMarker' = (writeMarker /\ (~clean \/ stuck))

Lose(kind) == /\ lost' = lost \cup {kind}
              /\ alive' \in {alive, alive \cup {kind}}

GitWriteEnds(lostIt, stuck) ==
    /\ Released(lostIt, stuck)
    /\ IF lostIt THEN Lose("write") ELSE UNCHANGED <<lost, alive>>
    /\ previewed' = 0
    /\ UNCHANGED <<refs, taken, marker, partial, origin, claim, launches, unconfirmed,
                   wake, restores, writes>>

LaunchBegins ==
    /\ Admit /\ launches' = launches + 1
    /\ UNCHANGED <<disk, claim, gitWrites, unconfirmed, stray, lost, alive, wake, restores>>

LaunchEnds ==
    /\ launches > 0 /\ launches' = launches - 1
    /\ UNCHANGED <<disk, claim, gitWrites, unconfirmed, stray, lost, alive, wake, restores, writes>>

---------------------------------------------------------------------------
(* Claims.                                                                 *)

ClaimOnly == UNCHANGED <<disk, gitWrites, launches, unconfirmed, stray, lost, alive, writes>>

\* The claim's release; that of a restore calls onRelease.
Release == claim' = NoClaim /\ IF Restoring THEN OnRelease ELSE UNCHANGED wake

Refused == /\ claim.pc \in {"read", "prune", "mark"}
           /\ Release /\ ClaimOnly /\ UNCHANGED restores

Captures == /\ claim = NoClaim /\ taken < MaxIds
            /\ claim' = Claim("capture", "read", 0, FALSE)
            /\ ClaimOnly /\ UNCHANGED <<wake, restores>>

Deletes(id) == /\ claim = NoClaim /\ id \in refs
               /\ claim' = Claim("delete", "read", id, FALSE)
               /\ ClaimOnly /\ UNCHANGED <<wake, restores>>

Recovers == /\ claim = NoClaim /\ marker # NoMarker
            /\ claim' = Claim("recover", "read", 0, FALSE)
            /\ ClaimOnly /\ UNCHANGED <<wake, restores>>

GitWriters == gitWrites > 0 \/ launches > 0 \/ StrayWrite

\* A restore, or the finish of one: refused beside every other writer.
Restores(id, resume, writers) ==
    /\ claim = NoClaim /\ id \in refs /\ restores < MaxRestores
    /\ Settled /\ ~writers /\ ~GitWriters
    /\ claim' = Claim("restore", "read", id, resume)
    /\ restores' = restores + 1
    /\ ClaimOnly /\ UNCHANGED wake

---------------------------------------------------------------------------
(* The operations.                                                         *)

Steps == UNCHANGED <<writeMarker, gitWrites, launches, stray, lost, alive, restores, writes>>

\* prune: what is kept goes on to the newest; a failure may leave more.
Old == {id \in refs : Cardinality({x \in refs : x > id}) >= Retained}
Pruned(keep) == refs' \in {refs \ gone : gone \in SUBSET (Old \ keep)}

\* Mutant: only the two checkpoints at hand are kept.
PruneKeepsTwo == {claim.id, claim.safety}

\* The checkpoints the prune of a restore keeps: its own, the one it took,
\* and all those of the restore it finishes.
PruneKeeps == {claim.id, claim.safety} \cup (IF claim.resume THEN marker.kept ELSE {})

\* record: the checkpoint of the worktree as it is.
Record == taken < MaxIds /\ taken' = taken + 1

Capture == /\ claim.kind = "capture" /\ claim.pc = "read"
           /\ Record
           /\ \E S \in SUBSET (Old \ marker.kept) : refs' = (refs \ S) \cup {taken + 1}
           /\ Release
           /\ UNCHANGED <<marker, partial, origin, previewed, unconfirmed>> /\ Steps

Delete == /\ claim.kind = "delete" /\ claim.pc = "read" /\ marker = NoMarker
          /\ refs' = refs \ {claim.id}
          /\ Release
          /\ UNCHANGED <<taken, marker, partial, origin, previewed, unconfirmed>> /\ Steps

\* ownerPending: an interrupted restore waits for every lost Git process.
OwnerPending == GitLost # {}

\* admitMarker: a restore goes on beside a marker only as the finish of the
\* restore that left it.
AdmitMarker ==
    IF claim.resume THEN marker.id = claim.id /\ ~OwnerPending /\ Settled
                    ELSE marker = NoMarker

\* preview: plan() compares the checkpoint with the files as they are.
Preview(id) ==
    /\ id \in refs /\ previewed # id /\ restores < MaxRestores /\ ~Restoring
    /\ previewed' = id
    /\ UNCHANGED <<refs, taken, marker, writeMarker, partial, origin, holds, lost, alive,
                   wake, restores, writes>>

\* The plan made for the restore is the one of the preview.
SamePlan == previewed = claim.id

\* The checkpoint of the state before the restore, as its plan found it.
RestoreRecords ==
    /\ Restoring /\ claim.pc = "read"
    /\ AdmitMarker /\ SamePlan
    /\ Record
    /\ refs' = refs \cup {taken + 1}
    /\ claim' = [claim EXCEPT !.pc = "prune", !.safety = taken + 1]
    /\ UNCHANGED <<marker, partial, origin, previewed, unconfirmed, wake>> /\ Steps

RestorePrunes ==
    /\ claim.pc = "prune"
    /\ Pruned(PruneKeeps)
    /\ claim' = [claim EXCEPT !.pc = "mark"]
    /\ UNCHANGED <<taken, marker, partial, origin, previewed, unconfirmed, wake>> /\ Steps

RestoreMarks ==
    /\ claim.pc = "mark"
    /\ marker' = [id |-> claim.id, kept |-> PruneKeeps]
    /\ origin' = IF claim.resume THEN origin ELSE claim.safety
    /\ claim' = [claim EXCEPT !.pc = "apply"]
    /\ UNCHANGED <<refs, taken, partial, previewed, unconfirmed, wake>> /\ Steps

Apply ==
    /\ claim.pc = "apply" /\ ~partial
    /\ partial' = TRUE /\ previewed' = 0
    /\ UNCHANGED <<refs, taken, marker, origin, claim, unconfirmed, wake>> /\ Steps

RestoreEnds ==
    /\ claim.pc = "apply"
    /\ partial' = FALSE /\ marker' = NoMarker /\ origin' = 0 /\ previewed' = 0
    /\ Release
    /\ UNCHANGED <<refs, taken, unconfirmed>> /\ Steps

\* apply fails: its marker stays, and a lost Git process is remembered.
RestoreFails(lostIt) ==
    /\ claim.pc = "apply"
    /\ unconfirmed' = (unconfirmed \/ lostIt)
    /\ IF lostIt THEN Lose("restore") ELSE UNCHANGED <<lost, alive>>
    /\ Release
    /\ UNCHANGED <<disk, gitWrites, launches, stray, restores, writes>>

\* recover("keep"): the files stay as they are.
Keep ==
    /\ claim.kind = "recover" /\ claim.pc = "read" /\ ~OwnerPending /\ Settled
    /\ partial' = FALSE /\ marker' = NoMarker /\ origin' = 0
    /\ claim' = NoClaim /\ OnRelease
    /\ UNCHANGED <<refs, taken, previewed, unconfirmed>> /\ Steps

---------------------------------------------------------------------------
(* The budgets and the runtime's death.                                    *)

\* A lost process ends; what a step wrote after the user acknowledged it is
\* not counted as a change of the files.
ProcessDies(kind) ==
    /\ kind \in alive /\ alive' = alive \ {kind}
    /\ previewed' = IF kind = "step" THEN previewed ELSE 0
    /\ UNCHANGED <<refs, taken, marker, writeMarker, partial, origin, holds, lost, wake, restores, writes>>

\* The runtime died with these at work: what they started may run on.
CheckpointsDie(others) ==
    LET busy == others \cup (IF gitWrites > 0 THEN {"write"} ELSE {})
                       \cup (IF claim.pc = "apply" THEN {"restore"} ELSE {})
    IN  /\ lost' \in {lost \cup S : S \in SUBSET busy}
        /\ alive' \in {alive \cup S : S \in SUBSET (lost' \ lost)}
        /\ claim' = NoClaim /\ gitWrites' = 0 /\ launches' = 0
        /\ unconfirmed' = FALSE /\ stray' = FALSE /\ wake' = FALSE
        /\ UNCHANGED <<disk, restores, writes>>

\* The Git directory of the worktree goes, with everything in it.
DiskGone == /\ refs' = {} /\ marker' = NoMarker /\ writeMarker' = FALSE
            /\ partial' = FALSE /\ origin' = 0 /\ previewed' = 0

\* One of the Git writes may be a removal of the worktree, which ends by itself.
CheckpointNext(writers, removals) ==
    \/ Reconcile
    \/ GitWriteBegins \/ LaunchBegins \/ LaunchEnds
    \/ gitWrites > removals /\ \E l, s \in BOOLEAN : GitWriteEnds(l, s)
    \/ Refused \/ Captures \/ Recovers
    \/ \E id \in Ids : Deletes(id) \/ Preview(id)
    \/ \E id \in Ids, r \in BOOLEAN : Restores(id, r, writers)
    \/ Capture \/ Delete \/ RestoreRecords \/ RestorePrunes \/ RestoreMarks
    \/ Apply \/ RestoreEnds \/ Keep
    \/ \E l \in BOOLEAN : RestoreFails(l)
    \/ \E k \in {"step", "restore", "write"} : ProcessDies(k)
=============================================================================
