--------------------------- MODULE UtilityBudget ---------------------------
(***************************************************************************)
(* The permit budget of native helper processes: createSubprocessBudget of *)
(* server/subprocess-budget.mjs, which admits Git, scanner, set-up and     *)
(* editor commands, with the durable owner records it keeps in             *)
(* unknownDirectory and the native trees the supervisors own.              *)
(*                                                                         *)
(* One JavaScript callback is one action.  Everything a callback does to   *)
(* disk is one step unless the runtime dies in the middle of it (Crash) or *)
(* a call fails (the ...Failed disjuncts).  A reservation whose record     *)
(* cannot be written is undone before run() returns, so it is a stutter.   *)
(***************************************************************************)
EXTENDS Integers, FiniteSets

CONSTANTS
    Owners,     \* owner identifiers; each run() draws a fresh one
    Limit,      \* permits of this budget
    MaxBoot,    \* bound: boots of the computer that are explored
    MaxEditors  \* bound: editor launches under way at once

ASSUME OwnersFinite == IsFiniteSet(Owners)
ASSUME LimitNat == Limit \in Nat
ASSUME MaxBootNat == MaxBoot \in Nat \ {0}
ASSUME MaxEditorsNat == MaxEditors \in Nat

VARIABLES
    disk,           \* [Owners -> Entry]: <id>.json and <id>.tmp
    native,         \* the owner's supervisor process
    live,           \* owners of whose tree a command may be running
    boot,           \* the current boot of the computer
    up,             \* whether the runtime is running
    unreadable,     \* unreadableOwners
    active,         \* permits charged
    unknown,        \* permits charged to unknown owners
    detached,       \* editor launches whose admission is still charged
    phase,          \* what run() of this runtime knows of the owner
    unknownOwners,  \* unknownOwners; accountedOwners always equals it
    inFlight,       \* inFlightOwners
    check,          \* the release decision under way for an owner
    sweep,          \* the names one reconcileUnknown() has still to visit
    sweeping,       \* reconciliationPromise
    reason,         \* ownerStates: the verdict reported for an unknown owner
    promised        \* ownerStates: owners that "a computer restart clears"

durable  == <<disk, native, live, boot>>
permits  == <<active, unknown, detached, unknownOwners>>
checks   == <<check, sweep, sweeping>>
states   == <<reason, promised>>
vars == <<durable, up, unreadable, permits, phase, inFlight, checks, states>>

---------------------------------------------------------------------------
(* Owner records.  A stamp of 0 is a boot identity that could not be read. *)

Entry == [json : {"absent", "torn", "unauthorized", "authorized"},
          tmp : BOOLEAN, stamp : 0..MaxBoot]

NoEntry == [json |-> "absent", tmp |-> FALSE, stamp |-> 0]

Recorded(o) == disk[o].json \in {"unauthorized", "authorized"}
Present(o)  == disk[o].json # "absent"
BootReads   == {0, boot}

\* retainedOwnerId: a torn record, or a temporary without its record, makes
\* the whole inventory unreadable.
BadEntry(o) == \/ disk[o].json = "torn"
               \/ disk[o].tmp /\ ~Present(o)

\* Mutant: the record is unlinked before its temporary.
ReleaseStepsRecordFirst(e) == << [NoEntry EXCEPT !.tmp = e.tmp], NoEntry >>

\* The files after each call of releaseOwnerFiles.
ReleaseSteps(e) == << [e EXCEPT !.tmp = FALSE], NoEntry >>

\* releaseOwnerRecord, which removes the record only.
Unrecorded(e) == [NoEntry EXCEPT !.tmp = e.tmp]

\* What a failing release may leave: the record, or no record when only the
\* directory fsync failed.
FailedRelease(e) == {e, Unrecorded(e)}

---------------------------------------------------------------------------
(* What nativeOwnerProof can answer about the record on disk.              *)

\* Every verdict of a proof that does not release is "unproven": only the
\* code of the refusal differs.
ReleaseEvidence == {"proven", "earlier-boot"}
RecheckReasons  == {"awaiting-reconciliation", "owner-unsettled", "release-failed"}
Reasons         == RecheckReasons \cup {"unproven"}

Alive == {"starting", "waiting", "commanded"}

\* Mutant: a record without a boot counts as one of an earlier boot.
EarlierBootUnstamped(o, read) == Recorded(o) /\ disk[o].stamp # read

EarlierBoot(o, read) == Recorded(o) /\ disk[o].stamp # 0 /\ read # 0 /\ disk[o].stamp # read

\* A process identifier is gone only once its process is, and may be reused.
\* Until the runtime that made it is gone, an owner recorded as unauthorized
\* may still be launched.
MayBeGone(o) ==
    IF disk[o].json = "unauthorized" THEN phase[o] = "past" ELSE native[o] \notin Alive

Verdicts(o, read) ==
    IF ~Recorded(o) THEN {"unproven"}
    ELSE IF EarlierBoot(o, read) THEN {"earlier-boot"}
    ELSE {"unproven"} \cup (IF MayBeGone(o) THEN {"proven"} ELSE {})

Released(v) == v \in ReleaseEvidence

\* Mutant: a restart is promised for a record that carries no boot.
ClearsUnstamped(e) == e.json \in {"unauthorized", "authorized"}

ClearsAfterRestart(e) == e.json \in {"unauthorized", "authorized"} /\ e.stamp # 0

---------------------------------------------------------------------------

Phases  == {"fresh", "running", "stopping", "settled", "past"}
Natives == {"none", "unspawned", "starting", "waiting", "commanded", "framed", "bare", "closed"}
Checks  == {"none", "sweep", "operator", "auditing"}

TypeOK ==
    /\ disk \in [Owners -> Entry]
    /\ native \in [Owners -> Natives]
    /\ live \subseteq Owners
    /\ boot \in 1..MaxBoot
    /\ up \in BOOLEAN /\ unreadable \in BOOLEAN /\ sweeping \in BOOLEAN
    /\ active \in Int /\ unknown \in Int /\ detached \in 0..MaxEditors
    /\ phase \in [Owners -> Phases]
    /\ unknownOwners \subseteq Owners
    /\ inFlight \subseteq Owners
    /\ check \in [Owners -> Checks]
    /\ sweep \subseteq Owners
    /\ reason \in [Owners -> Reasons]
    /\ promised \subseteq Owners

Init ==
    /\ disk = [o \in Owners |-> NoEntry]
    /\ native = [o \in Owners |-> "none"]
    /\ live = {}
    /\ boot = 1
    /\ up = TRUE /\ unreadable = FALSE
    /\ active = 0 /\ unknown = 0 /\ detached = 0
    /\ phase = [o \in Owners |-> "fresh"]
    /\ unknownOwners = {} /\ inFlight = {}
    /\ check = [o \in Owners |-> "none"]
    /\ sweep = {} /\ sweeping = FALSE
    /\ reason = [o \in Owners |-> "awaiting-reconciliation"]
    /\ promised = {}

---------------------------------------------------------------------------
(* run(): admission, the reservation record and the supervisor's spawn.    *)

HasRoom == active < Limit

Reserve(o) ==
    /\ up /\ phase[o] = "fresh" /\ HasRoom
    /\ active' = active + 1
    /\ \E read \in BootReads :
         disk' = [disk EXCEPT ![o] = [json |-> "unauthorized", tmp |-> FALSE, stamp |-> read]]
    /\ inFlight' = inFlight \cup {o}
    /\ phase' = [phase EXCEPT ![o] = "running"]
    /\ \E started \in {"starting", "unspawned"} : native' = [native EXCEPT ![o] = started]
    /\ UNCHANGED <<live, boot, up, unreadable, unknown, detached, unknownOwners, checks, states>>

\* The "spawn" event: the record is replaced and fsynced before "go".
SpawnEvent(o) ==
    /\ up /\ native[o] = "starting" /\ phase[o] \in {"running", "stopping"}
    /\ disk' = [disk EXCEPT ![o].json = "authorized"]
    /\ LET go == phase[o] = "running"
       IN  /\ native' = [native EXCEPT ![o] = IF go THEN "commanded" ELSE "waiting"]
           /\ live' = IF go THEN live \cup {o} ELSE live
    /\ UNCHANGED <<boot, up, unreadable, permits, phase, inFlight, checks, states>>

\* A failed replacement stops the owner; it may have reached the rename.
SpawnEventFailed(o) ==
    /\ up /\ native[o] = "starting" /\ phase[o] \in {"running", "stopping"}
    /\ \E json \in {"unauthorized", "authorized"} : disk' = [disk EXCEPT ![o].json = json]
    /\ native' = [native EXCEPT ![o] = "waiting"]
    /\ phase' = [phase EXCEPT ![o] = "stopping"]
    /\ UNCHANGED <<live, boot, up, unreadable, permits, inFlight, checks, states>>

\* A timeout, an abort, or output beyond maxBuffer.
StopRequested(o) ==
    /\ up /\ phase[o] = "running"
    /\ phase' = [phase EXCEPT ![o] = "stopping"]
    /\ UNCHANGED <<durable, up, unreadable, permits, inFlight, checks, states>>

---------------------------------------------------------------------------
(* finish(): the owner settles, or a settled owner's frame arrives late.   *)

Promise(o, e) ==
    promised' = IF ClearsAfterRestart(e) THEN promised \cup {o} ELSE promised \ {o}

ForgetState(o) ==
    /\ reason' = [reason EXCEPT ![o] = "awaiting-reconciliation"]
    /\ promised' = promised \ {o}

SettleReleased(o) ==
    /\ disk' = [disk EXCEPT ![o] = Unrecorded(@)]
    /\ active' = active - 1
    /\ UNCHANGED <<unknown, unknownOwners, states>>

SettleUnknown(o) ==
    /\ unknown' = unknown + 1
    /\ unknownOwners' = unknownOwners \cup {o}
    /\ reason' = [reason EXCEPT ![o] = "owner-unsettled"]
    /\ Promise(o, disk[o])
    /\ UNCHANGED active

Settle(o, frameProven) ==
    /\ phase[o] \in {"running", "stopping"}
    /\ phase' = [phase EXCEPT ![o] = "settled"]
    /\ inFlight' = inFlight \ {o}
    /\ \/ frameProven /\ SettleReleased(o)
       \/ /\ frameProven /\ SettleUnknown(o)
          /\ \E e \in FailedRelease(disk[o]) : disk' = [disk EXCEPT ![o] = e]
       \/ ~frameProven /\ SettleUnknown(o) /\ UNCHANGED disk

MayReleaseLate(o, frameProven) == frameProven /\ o \in unknownOwners /\ o \notin inFlight

LateFrame(o, frameProven) ==
    /\ phase[o] = "settled"
    /\ \/ /\ MayReleaseLate(o, frameProven)
          /\ disk[o].json # "absent"
          /\ disk' = [disk EXCEPT ![o] = Unrecorded(@)]
          /\ active' = active - 1 /\ unknown' = unknown - 1
          /\ unknownOwners' = unknownOwners \ {o}
          /\ ForgetState(o)
       \/ /\ MayReleaseLate(o, frameProven)
          /\ \E e \in FailedRelease(disk[o]) : disk' = [disk EXCEPT ![o] = e]
          /\ UNCHANGED <<active, unknown, unknownOwners, states>>
       \/ /\ ~MayReleaseLate(o, frameProven)
          /\ UNCHANGED <<disk, active, unknown, unknownOwners, states>>
    /\ UNCHANGED <<phase, inFlight>>

\* runOwned's "close": the frame proves the tree empty only while the owner
\* directory can be cleared; on macOS a bounded bootout may end the tree.
Close(o) ==
    /\ up /\ native[o] \in {"framed", "bare", "unspawned"}
    /\ phase[o] \in {"running", "stopping", "settled"}
    /\ \E frameProven \in BOOLEAN :
         /\ native[o] = "unspawned" => frameProven
         /\ live' = IF frameProven THEN live \ {o} ELSE live
         /\ Settle(o, frameProven) \/ LateFrame(o, frameProven)
    /\ native' = [native EXCEPT ![o] = "closed"]
    /\ UNCHANGED <<boot, up, unreadable, detached, checks>>

\* The stop grace ran out before the supervisor closed.
GraceExpired(o) ==
    /\ up /\ phase[o] = "stopping" /\ native[o] # "closed"
    /\ Settle(o, FALSE)
    /\ UNCHANGED <<native, live, boot, up, unreadable, detached, checks>>

---------------------------------------------------------------------------
(* launchDetached(): an editor's permit covers process creation only.      *)

LaunchEditor ==
    /\ up /\ HasRoom /\ detached < MaxEditors
    /\ active' = active + 1 /\ detached' = detached + 1
    /\ UNCHANGED <<durable, up, unreadable, unknown, unknownOwners, phase, inFlight, checks, states>>

EditorCreated ==
    /\ up /\ detached > 0
    /\ active' = active - 1 /\ detached' = detached - 1
    /\ UNCHANGED <<durable, up, unreadable, unknown, unknownOwners, phase, inFlight, checks, states>>

---------------------------------------------------------------------------
(* reconcileUnknown() and releaseUnknownOwner().                           *)

SweepStart ==
    /\ up /\ unknown # 0 /\ ~unreadable /\ ~sweeping
    /\ sweeping' = TRUE
    /\ sweep' = {o \in Owners : Present(o)}
    /\ UNCHANGED <<durable, up, unreadable, permits, phase, inFlight, check, states>>

MaySweep(o) == o \in unknownOwners /\ o \notin inFlight

SweepTake(o) ==
    /\ up /\ o \in sweep /\ \A p \in Owners : check[p] # "sweep"
    /\ sweep' = sweep \ {o}
    /\ IF MaySweep(o)
       THEN /\ check' = [check EXCEPT ![o] = "sweep"]
            /\ inFlight' = inFlight \cup {o}
       ELSE UNCHANGED <<check, inFlight>>
    /\ UNCHANGED <<durable, up, unreadable, permits, phase, sweeping, states>>

SweepEnd ==
    /\ up /\ sweeping /\ sweep = {} /\ \A p \in Owners : check[p] # "sweep"
    /\ sweeping' = FALSE
    /\ UNCHANGED <<durable, up, unreadable, permits, phase, inFlight, check, sweep, states>>

Recheck(o) ==
    /\ up /\ o \in unknownOwners /\ o \notin inFlight
    /\ check' = [check EXCEPT ![o] = "operator"]
    /\ inFlight' = inFlight \cup {o}
    /\ UNCHANGED <<durable, up, unreadable, permits, phase, sweep, sweeping, states>>

EndCheck(o) ==
    /\ check' = [check EXCEPT ![o] = "none"]
    /\ inFlight' = inFlight \ {o}

\* releaseProvenOwner: the files, then the permit; a failure keeps it charged.
ReleaseProvenOwner(o) ==
    \/ /\ Present(o)
       /\ disk' = [disk EXCEPT ![o] = ReleaseSteps(@)[2]]
       /\ active' = active - 1 /\ unknown' = unknown - 1
       /\ unknownOwners' = unknownOwners \ {o}
       /\ ForgetState(o)
    \/ /\ \E e \in {disk[o], ReleaseSteps(disk[o])[1], ReleaseSteps(disk[o])[2]} :
            disk' = [disk EXCEPT ![o] = e]
       /\ reason' = [reason EXCEPT ![o] = "release-failed"]
       /\ Promise(o, disk[o])
       /\ UNCHANGED <<active, unknown, unknownOwners>>

\* adoptObservedBoot stamps a record that carries no boot; \E over whether
\* the identity was read and the write succeeded.
Unproven(o, v) ==
    \E read \in BootReads, written \in BOOLEAN :
      LET adopted == Recorded(o) /\ disk[o].stamp = 0 /\ read # 0 /\ written
          entry == IF adopted THEN [json |-> disk[o].json, tmp |-> FALSE, stamp |-> read] ELSE disk[o]
      IN  /\ disk' = [disk EXCEPT ![o] = entry]
          /\ reason' = [reason EXCEPT ![o] = v]
          /\ Promise(o, entry)

\* The continuation of the awaited proof.  A proof of a launched owner may
\* itself have ended the tree (--terminate-owned, launchd bootout, job kill).
ProveOwner(o) ==
    /\ up /\ check[o] \in {"sweep", "operator"}
    /\ \E v \in UNION {Verdicts(o, read) : read \in BootReads} :
         /\ live' = IF v = "proven" THEN live \ {o} ELSE live
         /\ \/ ~Released(v) /\ Unproven(o, v) /\ EndCheck(o) /\ UNCHANGED permits
            \/ /\ Released(v) /\ check[o] = "sweep"
               /\ ReleaseProvenOwner(o) /\ EndCheck(o) /\ UNCHANGED detached
            \/ /\ Released(v) /\ check[o] = "operator"
               /\ check' = [check EXCEPT ![o] = "auditing"]
               /\ UNCHANGED <<disk, permits, inFlight, states>>
    /\ UNCHANGED <<native, boot, up, unreadable, phase, sweep, sweeping>>

AuditRecorded(o) ==
    /\ up /\ check[o] = "auditing"
    /\ ReleaseProvenOwner(o) /\ EndCheck(o)
    /\ UNCHANGED <<native, live, boot, up, unreadable, detached, phase, sweep, sweeping>>

AuditRefused(o) ==
    /\ up /\ check[o] = "auditing"
    /\ EndCheck(o)
    /\ UNCHANGED <<durable, up, unreadable, permits, phase, sweep, sweeping, states>>

---------------------------------------------------------------------------
(* The supervisor and its tree, outside the runtime.                       *)

\* A frame is written only after the tree is empty.  A supervisor waiting for
\* "go" ends when its caller stops it or dies; any supervisor may be killed.
SupervisorEnds(o) ==
    /\ native[o] \in Alive
    /\ \/ /\ phase[o] # "past" /\ native[o] # "starting"
          /\ \E end \in {"framed", "bare"} :
               /\ end = "framed" => o \notin live
               /\ native' = [native EXCEPT ![o] = end]
       \/ phase[o] = "past" /\ native' = [native EXCEPT ![o] = "closed"]
    /\ UNCHANGED <<disk, live, boot, up, unreadable, permits, phase, inFlight, checks, states>>

TreeEnds(o) ==
    /\ o \in live
    /\ live' = live \ {o}
    /\ UNCHANGED <<disk, native, boot, up, unreadable, permits, phase, inFlight, checks, states>>

---------------------------------------------------------------------------
(* The runtime dies, starts again, or the computer restarts.               *)

\* The entries a death in the middle of one callback's writes leaves.
MidWrite(o) ==
    UNION { IF phase[o] = "fresh" /\ HasRoom THEN {[NoEntry EXCEPT !.json = "torn"]} ELSE {},
            IF native[o] = "starting" /\ phase[o] \in {"running", "stopping"}
              THEN {[disk[o] EXCEPT !.tmp = TRUE]} ELSE {},
            IF check[o] # "none" /\ Recorded(o)
              THEN {ReleaseSteps(disk[o])[1], [disk[o] EXCEPT !.tmp = TRUE]} ELSE {} }

Crash ==
    /\ up /\ up' = FALSE
    /\ \/ UNCHANGED disk
       \/ \E o \in Owners : \E e \in MidWrite(o) : disk' = [disk EXCEPT ![o] = e]
    /\ phase' = [o \in Owners |-> IF phase[o] = "fresh" /\ disk'[o] = NoEntry THEN "fresh" ELSE "past"]
    /\ active' = 0 /\ unknown' = 0 /\ detached' = 0 /\ unknownOwners' = {} /\ inFlight' = {}
    /\ check' = [o \in Owners |-> "none"] /\ sweep' = {} /\ sweeping' = FALSE
    /\ unreadable' = FALSE
    /\ reason' = [o \in Owners |-> "awaiting-reconciliation"]
    /\ promised' = {}
    /\ native' = [o \in Owners |-> IF native[o] \in Alive \cup {"none"} THEN native[o] ELSE "closed"]
    /\ UNCHANGED <<live, boot>>

\* Mutant: only records of this boot are charged again.
RetainedOfThisBoot == {o \in Owners : Recorded(o) /\ disk[o].stamp = boot}

RetainedOwners == {o \in Owners : Recorded(o)}

\* Mutant: an unreadable inventory charges only the owners it lists.
PermitsOfListed(bad, ids) == Cardinality(ids)

RetainedPermits(bad, ids) == IF bad THEN Limit ELSE Cardinality(ids)

\* retainedUnknownOwners reads the directory in an arbitrary order and stops
\* at the first bad entry, with the identifiers it has read so far.
Start ==
    /\ ~up /\ up' = TRUE
    /\ unreadable' = (\E o \in Owners : BadEntry(o))
    /\ \E ids \in SUBSET RetainedOwners :
         /\ ~unreadable' => ids = RetainedOwners
         /\ unknownOwners' = ids
         /\ unknown' = RetainedPermits(unreadable', ids)
         /\ active' = RetainedPermits(unreadable', ids)
    /\ UNCHANGED <<durable, detached, phase, inFlight, checks, states>>

Reboot ==
    /\ ~up /\ boot < MaxBoot
    /\ boot' = boot + 1
    /\ live' = {}
    /\ native' = [o \in Owners |-> IF native[o] = "none" THEN "none" ELSE "closed"]
    /\ UNCHANGED <<disk, up, unreadable, permits, phase, inFlight, checks, states>>

---------------------------------------------------------------------------

OwnerStep(o) ==
    \/ Reserve(o) \/ SpawnEvent(o) \/ SpawnEventFailed(o) \/ StopRequested(o)
    \/ Close(o) \/ GraceExpired(o)
    \/ SweepTake(o) \/ Recheck(o) \/ ProveOwner(o) \/ AuditRecorded(o) \/ AuditRefused(o)
    \/ SupervisorEnds(o) \/ TreeEnds(o)

Next ==
    \/ \E o \in Owners : OwnerStep(o)
    \/ LaunchEditor \/ EditorCreated
    \/ SweepStart \/ SweepEnd
    \/ Crash \/ Start \/ Reboot

Spec == Init /\ [][Next]_vars

---------------------------------------------------------------------------
(* What the budget promises.                                               *)

Running == {o \in Owners : phase[o] \in {"running", "stopping"}}

\* The permit count is exactly its holders': commands that have not settled,
\* editors being created and unknown owners.  A late frame, a sweep and an
\* operator's re-check of one owner never give its permit back twice, and a
\* release that fails never loses it.
PermitsAccounted ==
    up => /\ active = Cardinality(Running) + detached + unknown
          /\ ~unreadable => unknown = Cardinality(unknownOwners)

\* No interleaving of settling, recovery, restart and failed release leaves a
\* tree running that no permit is charged for.
LiveTreesCharged ==
    up /\ ~unreadable => live \subseteq Running \cup unknownOwners

\* Even when the inventory cannot be read and the operator releases the owners
\* it does list, the trees that run are never more than the permits charged,
\* nor those more than the limit.
LiveTreesWithinLimit ==
    up => /\ Cardinality(live) + detached <= active
          /\ active <= Limit

\* A tree runs only under a record that says so, so that no later runtime can
\* take it for an owner that was never launched.
LiveTreesRecorded ==
    \A o \in live : disk[o].json = "authorized"

\* No crash, not even between the two unlinks of a release, leaves a temporary
\* without its record, which would make the inventory unreadable for good.
NoOrphanTemporary ==
    \A o \in Owners : disk[o].tmp => Recorded(o)

\* An owner reported as cleared by a computer restart has left either a record
\* stamped with a boot or none: a later boot releases it.
RestartPromiseKept ==
    \A o \in unknownOwners \cap promised : disk[o].stamp # 0 \/ ~Present(o)

\* Trees and permits agree, by name and by number: no tree runs uncharged, and
\* no more trees run than permits are charged, nor those beyond the limit.
LiveTreesCounted == LiveTreesCharged /\ LiveTreesWithinLimit

\* What a death leaves on disk can be read and released by a later runtime: no
\* temporary without its record, and no promise of a restart without a stamp.
RecordsUsable == NoOrphanTemporary /\ RestartPromiseKept

\* What every callback may rely on, and every callback restores, about one
\* owner: a record is only missing for an owner that holds nothing, a release
\* decision has one owner of its own, and a tree runs only under an
\* authorization of this boot that no release decision has already accepted.
OwnerConsistent(o) ==
    /\ phase[o] = "fresh" => disk[o] = NoEntry /\ o \notin unknownOwners
    /\ o \in Running => Recorded(o) /\ disk[o].stamp \in {0, boot} /\ o \notin unknownOwners
    /\ check[o] # "none" => o \in inFlight /\ o \in unknownOwners
    /\ disk[o].tmp => Recorded(o) /\ phase[o] = "past"
    /\ o \in live => /\ phase[o] # "fresh" /\ native[o] # "starting" /\ check[o] # "auditing"
                     /\ disk[o].json = "authorized" /\ disk[o].stamp \in {0, boot}
    /\ ~up => phase[o] \in {"fresh", "past"} /\ o \notin unknownOwners /\ check[o] = "none"

\* An owner's record, its place in the budget and its tree never disagree.
OwnersConsistent == \A o \in Owners : OwnerConsistent(o)

---------------------------------------------------------------------------
(* The abstract pool.  While the runtime is down, or cannot read its        *)
(* inventory, the records themselves hold the permits.                      *)

Charged ==
    IF up /\ ~unreadable THEN Running \cup unknownOwners
    ELSE Running \cup unknownOwners \cup {o \in Owners : Recorded(o)}

Pool == INSTANCE PermitPool WITH charged <- Charged

\* Restarts, lost frames, failed writes and operator releases included, the
\* budget behaves as a pool of Limit permits that no running tree loses.
ImplementsPool == Pool!Spec
=============================================================================
