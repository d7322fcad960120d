------------------------ MODULE UtilityBudgetProofs ------------------------
(***************************************************************************)
(* Theorems about UtilityBudget for every set of owners, every limit and   *)
(* every number of boots and editors.                                      *)
(***************************************************************************)
EXTENDS UtilityBudget, FiniteSetTheorems, TLAPS

LEMMA EntryUpdates ==
    ASSUME NEW e \in Entry
    PROVE  /\ NoEntry \in Entry
           /\ Unrecorded(e) \in Entry
           /\ FailedRelease(e) \subseteq Entry
           /\ ReleaseSteps(e)[1] \in Entry
           /\ ReleaseSteps(e)[2] \in Entry
           /\ [e EXCEPT !.tmp = TRUE] \in Entry
  <1>1. NoEntry \in Entry
    BY MaxBootNat DEF Entry, NoEntry
  <1>2. Unrecorded(e) \in Entry
    BY <1>1 DEF Entry, Unrecorded
  <1>3. ReleaseSteps(e)[1] \in Entry /\ ReleaseSteps(e)[2] \in Entry
    BY <1>1 DEF Entry, ReleaseSteps
  <1>4. [e EXCEPT !.tmp = TRUE] \in Entry
    BY DEF Entry
  <1> QED
    BY <1>1, <1>2, <1>3, <1>4 DEF FailedRelease

LEMMA DiskUpdate ==
    ASSUME TypeOK, NEW o \in Owners, NEW e \in Entry, disk' = [disk EXCEPT ![o] = e]
    PROVE  disk' \in [Owners -> Entry]
  BY DEF TypeOK

LEMMA VerdictsAreReasons ==
    ASSUME NEW o \in Owners, NEW read, NEW v \in Verdicts(o, read)
    PROVE  /\ v \in {"unproven", "proven", "earlier-boot"}
           /\ ~Released(v) => v = "unproven"
  BY DEF Verdicts, MayBeGone, Released, ReleaseEvidence

USE DEF Reasons, RecheckReasons

LEMMA TypeInit == Init => TypeOK
  <1> SUFFICES ASSUME Init PROVE TypeOK
    OBVIOUS
  <1>1. NoEntry \in Entry
    BY MaxBootNat DEF Entry, NoEntry
  <1>2. disk \in [Owners -> Entry]
    BY <1>1 DEF Init
  <1>3. boot \in 1..MaxBoot /\ detached \in 0..MaxEditors /\ active \in Int /\ unknown \in Int
    BY MaxBootNat, MaxEditorsNat DEF Init
  <1>4. /\ native \in [Owners -> Natives] /\ phase \in [Owners -> Phases]
        /\ check \in [Owners -> Checks] /\ reason \in [Owners -> Reasons]
    BY DEF Init, Natives, Phases, Checks
  <1> QED
    BY <1>2, <1>3, <1>4 DEF Init, TypeOK

LEMMA TypeRelease ==
    ASSUME TypeOK, NEW o \in Owners, ReleaseProvenOwner(o)
    PROVE  /\ disk' \in [Owners -> Entry]
           /\ active' \in Int /\ unknown' \in Int
           /\ unknownOwners' \subseteq Owners
           /\ reason' \in [Owners -> Reasons]
           /\ promised' \subseteq Owners
  <1>1. disk[o] \in Entry
    BY DEF TypeOK
  <1>2. /\ ReleaseSteps(disk[o])[1] \in Entry
        /\ ReleaseSteps(disk[o])[2] \in Entry
    BY <1>1, EntryUpdates
  <1>3. disk' \in [Owners -> Entry]
    <2>1. PICK e \in {disk[o], ReleaseSteps(disk[o])[1], ReleaseSteps(disk[o])[2]} :
            disk' = [disk EXCEPT ![o] = e]
      BY DEF ReleaseProvenOwner
    <2> QED
      BY <1>1, <1>2, <2>1, DiskUpdate
  <1> QED
    BY <1>3 DEF Promise, ReleaseProvenOwner, ForgetState, TypeOK

LEMMA TypeEndCheck ==
    ASSUME TypeOK, NEW o \in Owners, EndCheck(o)
    PROVE  check' \in [Owners -> Checks] /\ inFlight' \subseteq Owners
  BY DEF TypeOK, EndCheck, Checks

LEMMA TypeReserve == ASSUME TypeOK, NEW o \in Owners, Reserve(o) PROVE TypeOK'
  <1>1. PICK read \in BootReads :
          disk' = [disk EXCEPT ![o] = [json |-> "unauthorized", tmp |-> FALSE, stamp |-> read]]
    BY DEF Reserve
  <1>2. disk' \in [Owners -> Entry]
    <2>1. read \in 0..MaxBoot
      BY MaxBootNat DEF TypeOK, BootReads
    <2>2. [json |-> "unauthorized", tmp |-> FALSE, stamp |-> read] \in Entry
      BY <2>1 DEF Entry
    <2> QED
      BY <1>1, <2>2, DiskUpdate
  <1>3. native' \in [Owners -> Natives]
    BY DEF TypeOK, Reserve, Natives
  <1> QED
    BY <1>2, <1>3 DEF TypeOK, Reserve, Phases, checks, states

LEMMA TypeSpawn == ASSUME TypeOK, NEW o \in Owners, SpawnEvent(o) \/ SpawnEventFailed(o) PROVE TypeOK'
  <1>1. disk' \in [Owners -> Entry]
    <2>1. PICK json \in {"unauthorized", "authorized"} : disk' = [disk EXCEPT ![o].json = json]
      BY DEF SpawnEvent, SpawnEventFailed
    <2> QED
      BY <2>1 DEF TypeOK, Entry
  <1>2. native' \in [Owners -> Natives]
    BY DEF TypeOK, SpawnEvent, SpawnEventFailed, Natives
  <1>3. live' \subseteq Owners
    BY DEF TypeOK, SpawnEvent, SpawnEventFailed
  <1>4. phase' \in [Owners -> Phases]
    BY DEF TypeOK, SpawnEvent, SpawnEventFailed, Phases
  <1> QED
    BY <1>1, <1>2, <1>3, <1>4
    DEF TypeOK, SpawnEvent, SpawnEventFailed, permits, checks, states

LEMMA TypeSettle ==
    ASSUME TypeOK, NEW o \in Owners, NEW f \in BOOLEAN, Settle(o, f) \/ LateFrame(o, f)
    PROVE  /\ disk' \in [Owners -> Entry]
           /\ active' \in Int /\ unknown' \in Int
           /\ unknownOwners' \subseteq Owners /\ inFlight' \subseteq Owners
           /\ phase' \in [Owners -> Phases]
           /\ reason' \in [Owners -> Reasons]
           /\ promised' \subseteq Owners
  <1>1. disk[o] \in Entry
    BY DEF TypeOK
  <1>2. Unrecorded(disk[o]) \in Entry /\ FailedRelease(disk[o]) \subseteq Entry
    BY <1>1, EntryUpdates
  <1>3. CASE Settle(o, f)
    <2>0. \E e \in {disk[o], Unrecorded(disk[o])} : disk' = [disk EXCEPT ![o] = e]
      <3>1. disk = [disk EXCEPT ![o] = disk[o]]
        BY DEF TypeOK
      <3> QED
        BY <1>3, <3>1 DEF Settle, SettleReleased, FailedRelease
    <2>1. disk' \in [Owners -> Entry]
      BY <1>1, <1>2, <2>0, DiskUpdate
    <2> QED
      BY <2>1, <1>3 DEF Promise, TypeOK, Settle, SettleReleased, SettleUnknown, Phases, states
  <1>4. CASE LateFrame(o, f)
    <2>0. \E e \in {disk[o], Unrecorded(disk[o])} : disk' = [disk EXCEPT ![o] = e]
      <3>1. disk = [disk EXCEPT ![o] = disk[o]]
        BY DEF TypeOK
      <3> QED
        BY <1>4, <3>1 DEF LateFrame, FailedRelease
    <2>1. disk' \in [Owners -> Entry]
      BY <1>1, <1>2, <2>0, DiskUpdate
    <2> QED
      BY <2>1, <1>4 DEF TypeOK, LateFrame, ForgetState, states
  <1> QED
    BY <1>3, <1>4

LEMMA TypeClose == ASSUME TypeOK, NEW o \in Owners, Close(o) \/ GraceExpired(o) PROVE TypeOK'
  <1>1. CASE Close(o)
    <2>1. PICK f \in BOOLEAN : Settle(o, f) \/ LateFrame(o, f)
      BY <1>1 DEF Close
    <2>2. live' \subseteq Owners /\ native' \in [Owners -> Natives]
      BY <1>1 DEF Close, TypeOK, Natives
    <2>3. UNCHANGED <<boot, up, unreadable, detached, check, sweep, sweeping>>
      BY <1>1 DEF Close, checks
    <2> QED
      BY <2>1, <2>2, <2>3, TypeSettle DEF TypeOK
  <1>2. CASE GraceExpired(o)
    <2>1. Settle(o, FALSE)
      BY <1>2 DEF GraceExpired
    <2>2. UNCHANGED <<native, live, boot, up, unreadable, detached, check, sweep, sweeping>>
      BY <1>2 DEF GraceExpired, checks
    <2> QED
      BY <2>1, <2>2, TypeSettle DEF TypeOK
  <1> QED
    BY <1>1, <1>2

LEMMA TypeUnproven ==
    ASSUME TypeOK, NEW o \in Owners, NEW v, v = "unproven", Unproven(o, v)
    PROVE  /\ disk' \in [Owners -> Entry]
           /\ reason' \in [Owners -> Reasons]
           /\ promised' \subseteq Owners
  <1>1. PICK read \in BootReads, written \in BOOLEAN :
          LET adopted == Recorded(o) /\ disk[o].stamp = 0 /\ read # 0 /\ written
              entry == IF adopted THEN [json |-> disk[o].json, tmp |-> FALSE, stamp |-> read] ELSE disk[o]
          IN  /\ disk' = [disk EXCEPT ![o] = entry]
              /\ reason' = [reason EXCEPT ![o] = v]
              /\ Promise(o, entry)
    BY DEF Unproven
  <1> DEFINE adopted == Recorded(o) /\ disk[o].stamp = 0 /\ read # 0 /\ written
             entry == IF adopted THEN [json |-> disk[o].json, tmp |-> FALSE, stamp |-> read] ELSE disk[o]
  <1>2. read \in 0..MaxBoot
    BY MaxBootNat DEF BootReads, TypeOK
  <1>3. entry \in Entry
    BY <1>2 DEF TypeOK, Entry
  <1> HIDE DEF entry
  <1>5. /\ disk' = [disk EXCEPT ![o] = entry]
        /\ reason' = [reason EXCEPT ![o] = v]
        /\ Promise(o, entry)
    BY <1>1 DEF entry
  <1> QED
    BY <1>3, <1>5 DEF Promise, TypeOK

LEMMA TypeProve == ASSUME TypeOK, NEW o \in Owners, ProveOwner(o) PROVE TypeOK'
  <1>1. PICK v \in UNION {Verdicts(o, read) : read \in BootReads} :
          /\ live' = IF v = "proven" THEN live \ {o} ELSE live
          /\ \/ ~Released(v) /\ Unproven(o, v) /\ EndCheck(o) /\ UNCHANGED permits
             \/ /\ Released(v) /\ check[o] = "sweep"
                /\ ReleaseProvenOwner(o) /\ EndCheck(o) /\ UNCHANGED detached
             \/ /\ Released(v) /\ check[o] = "operator"
                /\ check' = [check EXCEPT ![o] = "auditing"]
                /\ UNCHANGED <<disk, permits, inFlight, states>>
    BY DEF ProveOwner
  <1> PICK read \in BootReads : v \in Verdicts(o, read)
    OBVIOUS
  <1>2. UNCHANGED <<native, boot, up, unreadable, phase, sweep, sweeping>>
    BY DEF ProveOwner
  <1>3. live' \subseteq Owners
    BY <1>1 DEF TypeOK
  <1>4. CASE ~Released(v) /\ Unproven(o, v) /\ EndCheck(o) /\ UNCHANGED permits
    BY <1>2, <1>3, <1>4, VerdictsAreReasons, TypeUnproven, TypeEndCheck DEF TypeOK, permits
  <1>5. CASE ReleaseProvenOwner(o) /\ EndCheck(o) /\ UNCHANGED detached
    BY <1>2, <1>3, <1>5, TypeRelease, TypeEndCheck DEF TypeOK
  <1>6. CASE check' = [check EXCEPT ![o] = "auditing"] /\ UNCHANGED <<disk, permits, inFlight, states>>
    BY <1>2, <1>3, <1>6 DEF TypeOK, permits, states, Checks
  <1> QED
    BY <1>1, <1>4, <1>5, <1>6

LEMMA TypeAudit == ASSUME TypeOK, NEW o \in Owners, AuditRecorded(o) \/ AuditRefused(o) PROVE TypeOK'
  <1>1. CASE AuditRecorded(o)
    <2>1. ReleaseProvenOwner(o) /\ EndCheck(o)
      BY <1>1 DEF AuditRecorded
    <2>2. UNCHANGED <<native, live, boot, up, unreadable, detached, phase, sweep, sweeping>>
      BY <1>1 DEF AuditRecorded
    <2> QED
      BY <2>1, <2>2, TypeRelease, TypeEndCheck DEF TypeOK
  <1>2. CASE AuditRefused(o)
    BY <1>2, TypeEndCheck DEF AuditRefused, TypeOK, durable, permits, states
  <1> QED
    BY <1>1, <1>2

LEMMA TypeSweep ==
    ASSUME TypeOK, \/ SweepStart \/ SweepEnd
                   \/ \E o \in Owners : SweepTake(o) \/ Recheck(o) \/ StopRequested(o)
    PROVE  TypeOK'
  BY DEF TypeOK, SweepStart, SweepEnd, SweepTake, Recheck, StopRequested, Checks, Phases,
         durable, permits, checks, states

LEMMA TypeEditor == ASSUME TypeOK, LaunchEditor \/ EditorCreated PROVE TypeOK'
  BY MaxEditorsNat DEF TypeOK, LaunchEditor, EditorCreated, durable, checks, states

LEMMA TypeTree ==
    ASSUME TypeOK, NEW o \in Owners, SupervisorEnds(o) \/ TreeEnds(o)
    PROVE  TypeOK'
  BY DEF TypeOK, SupervisorEnds, TreeEnds, Natives, permits, checks, states

LEMMA TypeRestart == ASSUME TypeOK, Crash \/ Start \/ Reboot PROVE TypeOK'
  <1>1. CASE Crash
    <2>1. ASSUME NEW o \in Owners, NEW e \in MidWrite(o) PROVE e \in Entry
      <3>1. disk[o] \in Entry
        BY DEF TypeOK
      <3>2. [NoEntry EXCEPT !.json = "torn"] \in Entry
        BY EntryUpdates, <3>1 DEF Entry
      <3> QED
        BY <2>1, <3>1, <3>2, EntryUpdates DEF MidWrite
    <2>2. disk' \in [Owners -> Entry]
      <3>1. CASE UNCHANGED disk
        BY <3>1 DEF TypeOK
      <3>2. ASSUME NEW o \in Owners, NEW e \in MidWrite(o), disk' = [disk EXCEPT ![o] = e]
            PROVE  disk' \in [Owners -> Entry]
        BY <2>1, <3>2, DiskUpdate
      <3> QED
        BY <1>1, <3>1, <3>2 DEF Crash
    <2>3. native' \in [Owners -> Natives]
      BY <1>1 DEF Crash, TypeOK, Natives, Alive
    <2>4. detached' \in 0..MaxEditors /\ active' \in Int /\ unknown' \in Int
      BY <1>1, MaxEditorsNat DEF Crash
    <2>5. /\ phase' \in [Owners -> Phases] /\ check' \in [Owners -> Checks]
          /\ reason' \in [Owners -> Reasons]
      BY <1>1 DEF Crash, Phases, Checks
    <2> QED
      BY <1>1, <2>2, <2>3, <2>4, <2>5 DEF Crash, TypeOK
  <1>2. CASE Start
    <2>1. PICK ids \in SUBSET RetainedOwners :
            /\ unknownOwners' = ids
            /\ unknown' = RetainedPermits(unreadable', ids)
            /\ active' = RetainedPermits(unreadable', ids)
            /\ ~unreadable' => ids = RetainedOwners
      BY <1>2 DEF Start
    <2>2. IsFiniteSet(ids) /\ ids \subseteq Owners
      BY OwnersFinite, FS_Subset DEF RetainedOwners
    <2>3. RetainedPermits(unreadable', ids) \in Int
      BY <2>2, LimitNat, FS_CardinalityType DEF RetainedPermits
    <2> QED
      BY <1>2, <2>1, <2>2, <2>3 DEF Start, TypeOK, durable, checks, states
  <1>3. CASE Reboot
    BY <1>3, MaxBootNat DEF Reboot, TypeOK, Natives, permits, checks, states
  <1> QED
    BY <1>1, <1>2, <1>3

LEMMA TypeNext == TypeOK /\ [Next]_vars => TypeOK'
  <1> SUFFICES ASSUME TypeOK, [Next]_vars PROVE TypeOK'
    OBVIOUS
  <1>1. ASSUME NEW o \in Owners, OwnerStep(o) PROVE TypeOK'
    BY <1>1, TypeReserve, TypeSpawn, TypeClose, TypeSweep, TypeProve, TypeAudit, TypeTree
    DEF OwnerStep
  <1>2. CASE UNCHANGED vars
    BY <1>2 DEF TypeOK, vars, durable, permits, checks, states
  <1> QED
    BY <1>1, <1>2, TypeEditor, TypeSweep, TypeRestart DEF Next

\* Every variable keeps its type, whatever the interleaving of commands,
\* checks, crashes and restarts of server/subprocess-budget.mjs.
THEOREM TypeCorrect == Spec => []TypeOK
  BY TypeInit, TypeNext, PTL DEF Spec

---------------------------------------------------------------------------
(* The inductive invariant: no record, permit and tree of an owner ever     *)
(* disagree.  One lemma per group of actions.                               *)

Inv == TypeOK /\ OwnersConsistent /\ LiveTreesCharged

LEMMA InvInit == Init => Inv
  <1> SUFFICES ASSUME Init PROVE Inv
    OBVIOUS
  <1>1. TypeOK
    BY TypeInit
  <1>2. OwnersConsistent
    BY DEF Init, OwnersConsistent, OwnerConsistent, Running, NoEntry
  <1>3. LiveTreesCharged
    BY DEF Init, LiveTreesCharged
  <1> QED
    BY <1>1, <1>2, <1>3 DEF Inv

LEMMA InvReserve == ASSUME Inv, NEW o \in Owners, Reserve(o) PROVE OwnersConsistent' /\ LiveTreesCharged'
  <1>1. PICK read \in BootReads :
          disk' = [disk EXCEPT ![o] = [json |-> "unauthorized", tmp |-> FALSE, stamp |-> read]]
    BY DEF Reserve
  <1>2. OwnersConsistent'
    <2> SUFFICES ASSUME NEW p \in Owners PROVE OwnerConsistent(p)'
      BY DEF OwnersConsistent
    <2>1. CASE p = o
      <3>1. disk'[o] = [json |-> "unauthorized", tmp |-> FALSE, stamp |-> read]
        BY <1>1 DEF Inv, TypeOK
      <3>2. /\ phase'[o] = "running" /\ o \notin live' /\ o \notin unknownOwners' /\ check'[o] = "none"
        BY DEF Reserve, Inv, TypeOK, OwnersConsistent, OwnerConsistent, checks
      <3> QED
        BY <2>1, <3>1, <3>2 DEF Reserve, OwnerConsistent, Running, Recorded, BootReads
    <2>2. CASE p # o
      BY <1>1, <2>2 DEF Reserve, Inv, TypeOK, OwnersConsistent, OwnerConsistent, Running, Recorded,
           checks, states
    <2> QED
      BY <2>1, <2>2
  <1>3. LiveTreesCharged'
    BY DEF Reserve, Inv, TypeOK, LiveTreesCharged, Running
  <1> QED
    BY <1>2, <1>3

LEMMA InvSpawn ==
    ASSUME Inv, NEW o \in Owners, SpawnEvent(o) \/ SpawnEventFailed(o)
    PROVE  OwnersConsistent' /\ LiveTreesCharged'
  <1>1. OwnersConsistent'
    <2> SUFFICES ASSUME NEW p \in Owners PROVE OwnerConsistent(p)'
      BY DEF OwnersConsistent
    <2>0. /\ disk[o] \in Entry /\ disk[p] \in Entry
          /\ OwnerConsistent(o) /\ OwnerConsistent(p)
      BY DEF Inv, TypeOK, OwnersConsistent
    <2>1. PICK json \in {"unauthorized", "authorized"} :
            /\ disk' = [disk EXCEPT ![o].json = json]
            /\ SpawnEvent(o) => json = "authorized"
      BY DEF SpawnEvent, SpawnEventFailed
    <2>2. CASE p = o
      <3>1. disk'[o].json = json /\ disk'[o].tmp = disk[o].tmp /\ disk'[o].stamp = disk[o].stamp
        BY <2>0, <2>1 DEF Inv, TypeOK, Entry
      <3>2. /\ phase'[o] \in {"running", "stopping"} /\ native'[o] # "starting"
            /\ o \in Running /\ o \notin live
            /\ o \in live' => json = "authorized"
        BY <2>0, <2>1 DEF SpawnEvent, SpawnEventFailed, OwnerConsistent, Inv, TypeOK, Running
      <3>3. UNCHANGED <<boot, up, unknownOwners, inFlight, check>>
        BY DEF SpawnEvent, SpawnEventFailed, permits, checks
      <3> QED
        BY <2>0, <2>2, <3>1, <3>2, <3>3 DEF OwnerConsistent, Running, Recorded, Inv, TypeOK
    <2>3. CASE p # o
      BY <2>0, <2>3 DEF SpawnEvent, SpawnEventFailed, Inv, TypeOK, OwnerConsistent, Running, Recorded,
           permits, checks, states
    <2> QED
      BY <2>1, <2>2, <2>3
  <1>2. LiveTreesCharged'
    <2>1. Running' = Running /\ o \in Running
      BY DEF SpawnEvent, SpawnEventFailed, Inv, TypeOK, Running
    <2>2. live' \subseteq live \cup {o}
      BY DEF SpawnEvent, SpawnEventFailed
    <2>3. UNCHANGED <<up, unreadable, unknownOwners>>
      BY DEF SpawnEvent, SpawnEventFailed, permits
    <2> QED
      BY <2>1, <2>2, <2>3 DEF Inv, LiveTreesCharged
  <1> QED
    BY <1>1, <1>2

\* A settling or late frame: the tree is gone wherever the record goes.
LEMMA InvSettle ==
    ASSUME Inv, NEW o \in Owners, NEW f \in BOOLEAN, Settle(o, f) \/ LateFrame(o, f),
           live' = (IF f THEN live \ {o} ELSE live),
           UNCHANGED <<boot, up, unreadable, check>>, up,
           native' = native \/ native' = [native EXCEPT ![o] = "closed"]
    PROVE  OwnersConsistent' /\ LiveTreesCharged'
  <1>0. /\ disk[o] \in Entry /\ OwnerConsistent(o) /\ ~disk[o].tmp
    BY DEF Inv, TypeOK, OwnersConsistent, OwnerConsistent, Settle, LateFrame
  <1>1. \/ disk' = disk
        \/ f /\ disk' = [disk EXCEPT ![o] = Unrecorded(disk[o])]
    <2>1. disk = [disk EXCEPT ![o] = disk[o]]
      BY DEF Inv, TypeOK
    <2> QED
      BY <2>1 DEF Settle, LateFrame, SettleReleased, FailedRelease, MayReleaseLate
  <1>2. Unrecorded(disk[o]).tmp = FALSE
    BY <1>0 DEF Unrecorded, NoEntry, Entry
  <1>3. OwnersConsistent'
    <2> SUFFICES ASSUME NEW p \in Owners PROVE OwnerConsistent(p)'
      BY DEF OwnersConsistent
    <2>0. OwnerConsistent(p)
      BY DEF Inv, OwnersConsistent
    <2>1. CASE p = o
      <3>1. disk'[o].tmp = FALSE /\ (disk'[o] = disk[o] \/ f)
        BY <1>0, <1>1, <1>2 DEF Inv, TypeOK
      <3>2. phase'[o] = "settled"
        BY DEF Settle, LateFrame, Inv, TypeOK
      <3>3. check[o] # "none" => o \in inFlight' /\ o \in unknownOwners'
        BY <1>0 DEF Settle, LateFrame, MayReleaseLate, OwnerConsistent, Running, Inv, TypeOK
      <3>4. native'[o] # "starting" \/ native'[o] = native[o]
        BY DEF Inv, TypeOK
      <3> QED
        BY <1>0, <2>1, <3>1, <3>2, <3>3, <3>4 DEF OwnerConsistent, Running, Recorded
    <2>2. CASE p # o
      <3>1. disk'[p] = disk[p] /\ phase'[p] = phase[p] /\ native'[p] = native[p]
        BY <1>1, <2>2 DEF Settle, LateFrame, Inv, TypeOK
      <3>2. /\ p \in unknownOwners' <=> p \in unknownOwners
            /\ p \in inFlight' <=> p \in inFlight
            /\ p \in live' <=> p \in live
        BY <2>2 DEF Settle, SettleReleased, SettleUnknown, LateFrame
      <3> QED
        BY <2>0, <3>1, <3>2 DEF OwnerConsistent, Running, Recorded
    <2> QED
      BY <2>1, <2>2
  <1>4. LiveTreesCharged'
    <2> SUFFICES ASSUME ~unreadable, NEW p \in live' PROVE p \in Running' \cup unknownOwners'
      BY DEF LiveTreesCharged
    <2>0. p \in Owners /\ p \in live /\ p \in Running \cup unknownOwners
      BY DEF Inv, TypeOK, LiveTreesCharged
    <2>1. CASE p = o
      BY <2>0, <2>1 DEF Settle, SettleUnknown, LateFrame, MayReleaseLate, Running
    <2>2. CASE p # o
      BY <2>0, <2>2 DEF Settle, SettleReleased, SettleUnknown, LateFrame, Running, Inv, TypeOK
    <2> QED
      BY <2>1, <2>2
  <1> QED
    BY <1>3, <1>4

LEMMA InvClose == ASSUME Inv, NEW o \in Owners, Close(o) \/ GraceExpired(o) PROVE OwnersConsistent' /\ LiveTreesCharged'
  <1>1. CASE Close(o)
    <2>1. PICK f \in BOOLEAN : /\ Settle(o, f) \/ LateFrame(o, f)
                              /\ live' = IF f THEN live \ {o} ELSE live
      BY <1>1 DEF Close
    <2> QED
      BY <1>1, <2>1, InvSettle DEF Close, checks
  <1>2. CASE GraceExpired(o)
    BY <1>2, InvSettle DEF GraceExpired, checks
  <1> QED
    BY <1>1, <1>2

\* A release decision that has accepted the owner's tree as gone.
LEMMA InvRelease ==
    ASSUME Inv, NEW o \in Owners, check[o] # "none", ReleaseProvenOwner(o), EndCheck(o),
           live' \subseteq live, o \notin live',
           UNCHANGED <<native, boot, up, unreadable, phase>>
    PROVE  OwnersConsistent' /\ LiveTreesCharged'
  <1>0. /\ disk[o] \in Entry /\ OwnerConsistent(o) /\ o \in unknownOwners /\ up
        /\ phase[o] # "fresh" /\ o \notin Running
    BY DEF Inv, TypeOK, OwnersConsistent, OwnerConsistent
  <1>1. PICK e \in {disk[o], [disk[o] EXCEPT !.tmp = FALSE], NoEntry} : disk' = [disk EXCEPT ![o] = e]
    BY DEF ReleaseProvenOwner, ReleaseSteps
  <1>2. disk'[o] = e /\ (e.tmp => e.json = disk[o].json /\ disk[o].tmp)
    BY <1>0, <1>1 DEF Inv, TypeOK, Entry, NoEntry
  <1>3. unknownOwners' = unknownOwners \/ unknownOwners' = unknownOwners \ {o}
    BY DEF ReleaseProvenOwner
  <1>4. OwnersConsistent'
    <2> SUFFICES ASSUME NEW p \in Owners PROVE OwnerConsistent(p)'
      BY DEF OwnersConsistent
    <2>0. OwnerConsistent(p)
      BY DEF Inv, OwnersConsistent
    <2>1. CASE p = o
      <3>1. check'[o] = "none"
        BY DEF EndCheck, Inv, TypeOK
      <3> QED
        BY <1>0, <1>2, <2>1, <3>1 DEF OwnerConsistent, Running, Recorded
    <2>2. CASE p # o
      <3>1. disk'[p] = disk[p] /\ check'[p] = check[p] /\ (p \in inFlight' <=> p \in inFlight)
        BY <1>1, <2>2 DEF EndCheck, Inv, TypeOK
      <3> QED
        BY <1>3, <2>0, <2>2, <3>1 DEF OwnerConsistent, Running, Recorded
    <2> QED
      BY <2>1, <2>2
  <1>5. LiveTreesCharged'
    BY <1>3 DEF LiveTreesCharged, Running, Inv
  <1> QED
    BY <1>4, <1>5

\* A release decision that keeps the owner: at most its boot is stamped.
LEMMA InvUnproven ==
    ASSUME Inv, NEW o \in Owners, check[o] # "none", NEW v, Unproven(o, v), EndCheck(o), live' \subseteq live,
           UNCHANGED <<native, boot, up, unreadable, phase, unknownOwners>>
    PROVE  OwnersConsistent' /\ LiveTreesCharged'
  <1>1. PICK read \in BootReads :
          \/ disk' = [disk EXCEPT ![o] = disk[o]]
          \/ Recorded(o) /\ disk' = [disk EXCEPT ![o] = [json |-> disk[o].json, tmp |-> FALSE, stamp |-> read]]
    BY DEF Unproven
  <1>2. \/ disk'[o] = disk[o]
        \/ /\ Recorded(o) /\ disk'[o].json = disk[o].json
           /\ disk'[o].tmp = FALSE /\ disk'[o].stamp \in {0, boot}
    BY <1>1 DEF Inv, TypeOK, BootReads
  <1>3. OwnersConsistent'
    <2> SUFFICES ASSUME NEW p \in Owners PROVE OwnerConsistent(p)'
      BY DEF OwnersConsistent
    <2>0. OwnerConsistent(p)
      BY DEF Inv, OwnersConsistent
    <2>1. CASE p = o
      <3>1. check'[o] = "none" /\ o \in unknownOwners /\ phase[o] # "fresh" /\ up
        BY <2>0, <2>1 DEF EndCheck, Inv, TypeOK, OwnerConsistent
      <3> QED
        BY <1>2, <2>0, <2>1, <3>1 DEF OwnerConsistent, Running, Recorded
    <2>2. CASE p # o
      <3>1. disk'[p] = disk[p] /\ check'[p] = check[p] /\ (p \in inFlight' <=> p \in inFlight)
        BY <1>1, <2>2 DEF EndCheck, Inv, TypeOK
      <3> QED
        BY <2>0, <2>2, <3>1 DEF OwnerConsistent, Running, Recorded
    <2> QED
      BY <2>1, <2>2
  <1>4. LiveTreesCharged'
    BY DEF LiveTreesCharged, Running, Inv
  <1> QED
    BY <1>3, <1>4

LEMMA InvProve == ASSUME Inv, NEW o \in Owners, ProveOwner(o) PROVE OwnersConsistent' /\ LiveTreesCharged'
  <1>0. OwnerConsistent(o) /\ check[o] # "none"
    BY DEF Inv, OwnersConsistent, ProveOwner
  <1>2. PICK v \in UNION {Verdicts(o, read) : read \in BootReads} :
          /\ live' = IF v = "proven" THEN live \ {o} ELSE live
          /\ \/ ~Released(v) /\ Unproven(o, v) /\ EndCheck(o) /\ UNCHANGED permits
             \/ /\ Released(v) /\ check[o] = "sweep"
                /\ ReleaseProvenOwner(o) /\ EndCheck(o) /\ UNCHANGED detached
             \/ /\ Released(v) /\ check[o] = "operator"
                /\ check' = [check EXCEPT ![o] = "auditing"]
                /\ UNCHANGED <<disk, permits, inFlight, states>>
    BY DEF ProveOwner
  <1> PICK read \in BootReads : v \in Verdicts(o, read)
    OBVIOUS
  <1>3. UNCHANGED <<native, boot, up, unreadable, phase>>
    BY DEF ProveOwner
  <1>4. Released(v) => o \notin live'
    <2>1. v = "earlier-boot" => EarlierBoot(o, read)
      BY DEF Verdicts
    <2>2. v = "earlier-boot" => o \notin live
      BY <1>0, <2>1 DEF EarlierBoot, OwnerConsistent, BootReads
    <2> QED
      BY <1>2, <2>2 DEF Released, ReleaseEvidence
  <1>5. CASE ~Released(v) /\ Unproven(o, v) /\ EndCheck(o) /\ UNCHANGED permits
    BY <1>0, <1>2, <1>3, <1>5, InvUnproven DEF permits
  <1>6. CASE Released(v) /\ ReleaseProvenOwner(o) /\ EndCheck(o)
    BY <1>0, <1>2, <1>3, <1>4, <1>6, InvRelease
  <1>7. CASE /\ Released(v) /\ check' = [check EXCEPT ![o] = "auditing"]
             /\ UNCHANGED <<disk, permits, inFlight, states>>
    <2>1. UNCHANGED <<disk, unknownOwners, inFlight>> /\ live' \subseteq live
      BY <1>2, <1>7 DEF permits
    <2>2. OwnersConsistent'
      <3> SUFFICES ASSUME NEW p \in Owners PROVE OwnerConsistent(p)'
        BY DEF OwnersConsistent
      <3>1. OwnerConsistent(p)
        BY DEF Inv, OwnersConsistent
      <3>2. /\ p = o => check'[p] = "auditing"
            /\ p # o => check'[p] = check[p]
        BY <1>7 DEF Inv, TypeOK
      <3> QED
        BY <1>0, <1>3, <1>4, <1>7, <2>1, <3>1, <3>2 DEF OwnerConsistent, Running, Recorded
    <2>3. LiveTreesCharged'
      BY <1>3, <2>1 DEF LiveTreesCharged, Running, Inv
    <2> QED
      BY <2>2, <2>3
  <1> QED
    BY <1>2, <1>5, <1>6, <1>7

LEMMA InvAudit ==
    ASSUME Inv, NEW o \in Owners, AuditRecorded(o) \/ AuditRefused(o)
    PROVE  OwnersConsistent' /\ LiveTreesCharged'
  <1>0. OwnerConsistent(o) /\ check[o] = "auditing" /\ o \notin live
    BY DEF Inv, OwnersConsistent, OwnerConsistent, AuditRecorded, AuditRefused
  <1>1. CASE AuditRecorded(o)
    BY <1>0, <1>1, InvRelease DEF AuditRecorded
  <1>2. CASE AuditRefused(o)
    <2>1. OwnersConsistent'
      <3> SUFFICES ASSUME NEW p \in Owners PROVE OwnerConsistent(p)'
        BY DEF OwnersConsistent
      <3>1. OwnerConsistent(p)
        BY DEF Inv, OwnersConsistent
      <3>2. /\ p = o => check'[p] = "none"
            /\ p # o => check'[p] = check[p] /\ (p \in inFlight' <=> p \in inFlight)
        BY <1>2 DEF AuditRefused, EndCheck, Inv, TypeOK
      <3> QED
        BY <1>2, <3>1, <3>2 DEF AuditRefused, OwnerConsistent, Running, Recorded, durable, permits
    <2>2. LiveTreesCharged'
      BY <1>2 DEF AuditRefused, LiveTreesCharged, Running, Inv, durable, permits
    <2> QED
      BY <2>1, <2>2
  <1> QED
    BY <1>1, <1>2

LEMMA InvSweep ==
    ASSUME Inv, NEW o \in Owners, SweepTake(o) \/ Recheck(o)
    PROVE  OwnersConsistent' /\ LiveTreesCharged'
  <1>1. UNCHANGED <<disk, native, live, boot, up, unreadable, phase, unknownOwners>>
    BY DEF SweepTake, Recheck, durable, permits
  <1>2. \/ UNCHANGED <<check, inFlight>>
        \/ /\ o \in unknownOwners
           /\ inFlight' = inFlight \cup {o}
           /\ \E c \in {"sweep", "operator"} : check' = [check EXCEPT ![o] = c]
    BY DEF SweepTake, Recheck, MaySweep
  <1>3. OwnersConsistent'
    <2> SUFFICES ASSUME NEW p \in Owners PROVE OwnerConsistent(p)'
      BY DEF OwnersConsistent
    <2>1. OwnerConsistent(p) /\ up
      BY DEF Inv, OwnersConsistent, SweepTake, Recheck
    <2>2. \/ check'[p] = check[p] /\ (p \in inFlight => p \in inFlight')
          \/ check'[p] \in {"sweep", "operator"} /\ p \in inFlight' /\ p \in unknownOwners
      BY <1>2 DEF Inv, TypeOK
    <2> QED
      BY <1>1, <2>1, <2>2 DEF OwnerConsistent, Running, Recorded
  <1>4. LiveTreesCharged'
    BY <1>1 DEF LiveTreesCharged, Running, Inv
  <1> QED
    BY <1>3, <1>4

LEMMA InvStop == ASSUME Inv, NEW o \in Owners, StopRequested(o) PROVE OwnersConsistent' /\ LiveTreesCharged'
  <1>1. UNCHANGED <<disk, native, live, boot, up, unreadable, unknownOwners, inFlight, check>>
    BY DEF StopRequested, durable, permits, checks
  <1>2. Running' = Running
    BY DEF StopRequested, Running, Inv, TypeOK
  <1>3. \A p \in Owners : phase'[p] = phase[p] \/ (phase[p] = "running" /\ phase'[p] = "stopping")
    <2>1. phase' = [phase EXCEPT ![o] = "stopping"] /\ phase[o] = "running"
      BY DEF StopRequested
    <2> QED
      BY <2>1 DEF Inv, TypeOK
  <1> QED
    BY <1>1, <1>2, <1>3 DEF StopRequested, Inv, OwnersConsistent, OwnerConsistent, LiveTreesCharged, Recorded

LEMMA InvEditor ==
    ASSUME Inv, LaunchEditor \/ EditorCreated \/ SweepStart \/ SweepEnd
    PROVE  OwnersConsistent' /\ LiveTreesCharged'
  <1>1. UNCHANGED <<disk, native, live, boot, up, unreadable, phase, unknownOwners, inFlight, check>>
    BY DEF LaunchEditor, EditorCreated, SweepStart, SweepEnd, durable, permits, checks
  <1> QED
    BY <1>1 DEF Inv, OwnersConsistent, OwnerConsistent, LiveTreesCharged, Recorded, Running

LEMMA InvTree ==
    ASSUME Inv, NEW o \in Owners, SupervisorEnds(o) \/ TreeEnds(o)
    PROVE  OwnersConsistent' /\ LiveTreesCharged'
  <1>1. UNCHANGED <<disk, boot, up, unreadable, phase, unknownOwners, inFlight, check>> /\ live' \subseteq live
    BY DEF SupervisorEnds, TreeEnds, permits, checks
  <1>2. \A p \in Owners : native'[p] = "starting" => native[p] = "starting"
    <2>1. CASE SupervisorEnds(o)
      <3>1. PICK end \in {"framed", "bare", "closed"} : native' = [native EXCEPT ![o] = end]
        BY <2>1 DEF SupervisorEnds
      <3> QED
        BY <3>1 DEF Inv, TypeOK
    <2>2. CASE TreeEnds(o)
      BY <2>2 DEF TreeEnds
    <2> QED
      BY <2>1, <2>2
  <1> QED
    BY <1>1, <1>2 DEF Inv, OwnersConsistent, OwnerConsistent, LiveTreesCharged, Recorded, Running

\* A death loses only what a callback had not written yet.
LEMMA MidWriteKeeps ==
    ASSUME Inv, up, NEW o \in Owners, NEW e \in MidWrite(o)
    PROVE  /\ o \in live => e.json = "authorized" /\ e.stamp = disk[o].stamp
           /\ e.tmp => e.json \in {"unauthorized", "authorized"}
           /\ e # NoEntry
  <1>1. disk[o] \in Entry /\ OwnerConsistent(o)
    BY DEF Inv, TypeOK, OwnersConsistent
  <1>2. CASE phase[o] = "fresh" /\ e = [NoEntry EXCEPT !.json = "torn"]
    <2>1. e.json = "torn" /\ e.tmp = FALSE
      BY <1>2 DEF NoEntry
    <2> QED
      BY <1>1, <1>2, <2>1 DEF OwnerConsistent, NoEntry
  <1>3. CASE Recorded(o) /\ e \in {[disk[o] EXCEPT !.tmp = TRUE], [disk[o] EXCEPT !.tmp = FALSE]}
    <2>1. e.json = disk[o].json /\ e.stamp = disk[o].stamp
      BY <1>1, <1>3 DEF Entry
    <2> QED
      BY <1>1, <1>3, <2>1 DEF OwnerConsistent, NoEntry, Recorded
  <1>4. \/ phase[o] = "fresh" /\ e = [NoEntry EXCEPT !.json = "torn"]
        \/ Recorded(o) /\ e \in {[disk[o] EXCEPT !.tmp = TRUE], [disk[o] EXCEPT !.tmp = FALSE]}
    BY <1>1 DEF MidWrite, ReleaseSteps, OwnerConsistent, Running
  <1> QED
    BY <1>2, <1>3, <1>4

LEMMA InvCrash == ASSUME Inv, Crash PROVE OwnersConsistent' /\ LiveTreesCharged'
  <1>1. OwnersConsistent'
    <2> SUFFICES ASSUME NEW p \in Owners PROVE OwnerConsistent(p)'
      BY DEF OwnersConsistent
    <2>1. OwnerConsistent(p) /\ disk[p] \in Entry
      BY DEF Inv, OwnersConsistent, TypeOK
    <2>2. \/ disk'[p] = disk[p]
          \/ \E e \in MidWrite(p) : disk'[p] = e
      BY DEF Crash, Inv, TypeOK
    <2>3. /\ p \in live => disk'[p].json = "authorized" /\ disk'[p].stamp \in {0, boot}
          /\ disk'[p].tmp => disk'[p].json \in {"unauthorized", "authorized"} /\ disk'[p] # NoEntry
      <3>1. disk[p].tmp => disk[p] # NoEntry
        BY DEF NoEntry
      <3> QED
        BY <2>1, <2>2, <3>1, MidWriteKeeps DEF Crash, OwnerConsistent, Recorded
    <2>4. /\ phase'[p] = IF phase[p] = "fresh" /\ disk'[p] = NoEntry THEN "fresh" ELSE "past"
          /\ check'[p] = "none" /\ p \notin unknownOwners'
          /\ native'[p] = "starting" => native[p] = "starting"
          /\ UNCHANGED <<live, boot>>
      BY DEF Crash, Alive
    <2> QED
      BY <2>1, <2>3, <2>4 DEF OwnerConsistent, Running, Recorded
  <1>2. LiveTreesCharged'
    BY DEF Crash, LiveTreesCharged
  <1> QED
    BY <1>1, <1>2

LEMMA InvStart == ASSUME Inv, Start \/ Reboot PROVE OwnersConsistent' /\ LiveTreesCharged'
  <1>1. CASE Start
    <2>1. UNCHANGED <<disk, native, live, boot, phase, inFlight, check>> /\ ~up
      BY <1>1 DEF Start, durable, checks
    <2>2. /\ unknownOwners' \subseteq RetainedOwners
          /\ ~unreadable' => unknownOwners' = RetainedOwners
      BY <1>1 DEF Start
    <2>3. OwnersConsistent'
      <3> SUFFICES ASSUME NEW p \in Owners PROVE OwnerConsistent(p)'
        BY DEF OwnersConsistent
      <3>1. OwnerConsistent(p)
        BY DEF Inv, OwnersConsistent
      <3>2. p \in unknownOwners' => Recorded(p)
        BY <2>2 DEF RetainedOwners
      <3> QED
        BY <1>1, <2>1, <3>1, <3>2 DEF Start, OwnerConsistent, Running, Recorded, NoEntry
    <2>4. LiveTreesCharged'
      BY <2>1, <2>2 DEF LiveTreesCharged, RetainedOwners, Recorded, Inv, OwnersConsistent, OwnerConsistent, TypeOK
    <2> QED
      BY <2>3, <2>4
  <1>2. CASE Reboot
    <2>1. UNCHANGED <<disk, up, unreadable, phase, unknownOwners, inFlight, check>> /\ live' = {} /\ ~up
      BY <1>2 DEF Reboot, permits, checks
    <2> QED
      BY <2>1 DEF Inv, OwnersConsistent, OwnerConsistent, LiveTreesCharged, Recorded, Running
  <1> QED
    BY <1>1, <1>2

LEMMA InvNext == Inv /\ [Next]_vars => Inv'
  <1> SUFFICES ASSUME Inv, [Next]_vars PROVE Inv'
    OBVIOUS
  <1>0. TypeOK'
    BY TypeNext DEF Inv
  <1> SUFFICES OwnersConsistent' /\ LiveTreesCharged'
    BY <1>0 DEF Inv
  <1>1. ASSUME NEW o \in Owners, OwnerStep(o) PROVE OwnersConsistent' /\ LiveTreesCharged'
    BY <1>1, InvReserve, InvSpawn, InvStop, InvClose, InvSweep, InvProve, InvAudit, InvTree DEF OwnerStep
  <1>2. CASE UNCHANGED vars
    BY <1>2 DEF Inv, OwnersConsistent, OwnerConsistent, LiveTreesCharged, Recorded, Running,
       vars, durable, permits, checks, states
  <1>3. CASE LaunchEditor \/ EditorCreated \/ SweepStart \/ SweepEnd
    BY <1>3, InvEditor
  <1>4. CASE Crash \/ Start \/ Reboot
    BY <1>4, InvCrash, InvStart
  <1> QED
    BY <1>1, <1>2, <1>3, <1>4 DEF Next

\* The record, the permit and the tree of every owner stay consistent: the
\* inductive invariant, a property of the runs of UtilityBudget.
THEOREM OwnersStayConsistent == Spec => []OwnersConsistent
  <1>1. Inv => OwnersConsistent
    BY DEF Inv
  <1> QED
    BY <1>1, InvInit, InvNext, PTL DEF Spec

\* No interleaving of settling, recovery, restart and failed release leaves a
\* tree running that no permit is charged for.
THEOREM NoTreeUncharged == Spec => []LiveTreesCharged
  <1>1. Inv => LiveTreesCharged
    BY DEF Inv
  <1> QED
    BY <1>1, InvInit, InvNext, PTL DEF Spec

\* A tree that runs has a durable record that says it was authorized.
THEOREM NoTreeUnrecorded == Spec => []LiveTreesRecorded
  <1>1. Inv => LiveTreesRecorded
    BY DEF Inv, TypeOK, OwnersConsistent, OwnerConsistent, LiveTreesRecorded
  <1> QED
    BY <1>1, InvInit, InvNext, PTL DEF Spec

\* No crash leaves a temporary file whose record is gone.
THEOREM NoTemporaryOrphaned == Spec => []NoOrphanTemporary
  <1>1. Inv => NoOrphanTemporary
    BY DEF Inv, OwnersConsistent, OwnerConsistent, NoOrphanTemporary
  <1> QED
    BY <1>1, InvInit, InvNext, PTL DEF Spec

---------------------------------------------------------------------------
(* The permit count.  Each kind of step moves one owner between the sets    *)
(* whose sizes are counted.                                                 *)

Counted == PermitsAccounted /\ (~up => detached = 0)

\* An owner enters or leaves a set of owners.
LEMMA OneMoreOrLess ==
    ASSUME NEW S, S \subseteq Owners, NEW o \in Owners
    PROVE  /\ IsFiniteSet(S) /\ Cardinality(S) \in Nat
           /\ o \notin S => Cardinality(S \cup {o}) = Cardinality(S) + 1
           /\ o \in S => Cardinality(S \ {o}) = Cardinality(S) - 1
  <1>1. IsFiniteSet(S)
    BY OwnersFinite, FS_Subset
  <1> QED
    BY <1>1, FS_CardinalityType, FS_AddElement, FS_RemoveElement

RunningSame == Running' = Running

\* A step that keeps the counts and the sets keeps the account.
LEMMA CountedKept ==
    ASSUME Counted, RunningSame,
           UNCHANGED <<up, unreadable, active, unknown, detached, unknownOwners>>
    PROVE  Counted'
  BY DEF Counted, PermitsAccounted, RunningSame

\* The release of an unknown owner's permit.
LEMMA CountedReturned ==
    ASSUME Inv, Counted, RunningSame, NEW o \in Owners, o \in unknownOwners, up,
           active' = active - 1, unknown' = unknown - 1, unknownOwners' = unknownOwners \ {o},
           UNCHANGED <<up, unreadable, detached>>
    PROVE  Counted'
  <1>1. Cardinality(unknownOwners') = Cardinality(unknownOwners) - 1
    BY OneMoreOrLess DEF Inv, TypeOK
  <1>2. Cardinality(Running) \in Nat /\ Cardinality(unknownOwners) \in Nat
    BY OneMoreOrLess DEF Inv, TypeOK, Running
  <1> QED
    BY <1>1, <1>2, MaxEditorsNat DEF Counted, PermitsAccounted, RunningSame, Inv, TypeOK

LEMMA CountedReserve == ASSUME Inv, Counted, NEW o \in Owners, Reserve(o) PROVE Counted'
  <1>1. Running' = Running \cup {o} /\ o \notin Running
    BY DEF Reserve, Running, Inv, TypeOK
  <1>2. Cardinality(Running') = Cardinality(Running) + 1 /\ Cardinality(Running) \in Nat
    BY <1>1, OneMoreOrLess DEF Running
  <1> QED
    BY <1>2, MaxEditorsNat DEF Reserve, Counted, PermitsAccounted, Inv, TypeOK

LEMMA CountedSettle ==
    ASSUME Inv, Counted, NEW o \in Owners, NEW f \in BOOLEAN, Settle(o, f), up,
           UNCHANGED <<up, unreadable, detached>>
    PROVE  Counted'
  <1>1. o \in Running /\ Running' = Running \ {o} /\ o \notin unknownOwners
    BY DEF Settle, Running, Inv, TypeOK, OwnersConsistent, OwnerConsistent
  <1>2. /\ Cardinality(Running') = Cardinality(Running) - 1 /\ Cardinality(Running) \in Nat
        /\ Cardinality(unknownOwners \cup {o}) = Cardinality(unknownOwners) + 1
        /\ Cardinality(unknownOwners) \in Nat
    BY <1>1, OneMoreOrLess DEF Running, Inv, TypeOK
  <1>3. CASE active' = active - 1 /\ UNCHANGED <<unknown, unknownOwners>>
    BY <1>2, <1>3, MaxEditorsNat DEF Counted, PermitsAccounted, Inv, TypeOK
  <1>4. CASE active' = active /\ unknown' = unknown + 1 /\ unknownOwners' = unknownOwners \cup {o}
    BY <1>2, <1>4, MaxEditorsNat DEF Counted, PermitsAccounted, Inv, TypeOK
  <1> QED
    BY <1>3, <1>4 DEF Settle, SettleReleased, SettleUnknown

LEMMA CountedClose == ASSUME Inv, Counted, NEW o \in Owners, Close(o) \/ GraceExpired(o) PROVE Counted'
  <1>0. up /\ UNCHANGED <<up, unreadable, detached>>
    BY DEF Close, GraceExpired
  <1>1. PICK f \in BOOLEAN : Settle(o, f) \/ LateFrame(o, f)
    BY DEF Close, GraceExpired
  <1>2. CASE Settle(o, f)
    BY <1>0, <1>2, CountedSettle
  <1>3. CASE LateFrame(o, f)
    <2>1. RunningSame
      BY <1>3 DEF LateFrame, RunningSame, Running
    <2>2. \/ UNCHANGED <<active, unknown, unknownOwners>>
          \/ /\ o \in unknownOwners /\ active' = active - 1 /\ unknown' = unknown - 1
             /\ unknownOwners' = unknownOwners \ {o}
      BY <1>3 DEF LateFrame, MayReleaseLate
    <2> QED
      BY <1>0, <2>1, <2>2, CountedKept, CountedReturned
  <1> QED
    BY <1>1, <1>2, <1>3

LEMMA CountedRelease ==
    ASSUME Inv, Counted, NEW o \in Owners, check[o] # "none", ReleaseProvenOwner(o), up,
           UNCHANGED <<up, unreadable, phase, detached>>
    PROVE  Counted'
  <1>1. o \in unknownOwners
    BY DEF Inv, OwnersConsistent, OwnerConsistent
  <1>2. RunningSame
    BY DEF RunningSame, Running
  <1>3. \/ UNCHANGED <<active, unknown, unknownOwners>>
        \/ /\ active' = active - 1 /\ unknown' = unknown - 1
           /\ unknownOwners' = unknownOwners \ {o}
    BY DEF ReleaseProvenOwner
  <1> QED
    BY <1>1, <1>2, <1>3, CountedKept, CountedReturned

LEMMA CountedProve ==
    ASSUME Inv, Counted, NEW o \in Owners, ProveOwner(o) \/ AuditRecorded(o) \/ AuditRefused(o)
    PROVE  Counted'
  <1>1. up /\ check[o] # "none" /\ UNCHANGED <<up, unreadable, phase, detached>>
    BY DEF ProveOwner, AuditRecorded, AuditRefused, permits, durable
  <1>2. ReleaseProvenOwner(o) \/ UNCHANGED <<active, unknown, unknownOwners>>
    BY DEF ProveOwner, AuditRecorded, AuditRefused, permits
  <1>3. RunningSame
    BY <1>1 DEF RunningSame, Running
  <1> QED
    BY <1>1, <1>2, <1>3, CountedRelease, CountedKept

LEMMA CountedOther ==
    ASSUME Inv, Counted, NEW o \in Owners,
           \/ SpawnEvent(o) \/ SpawnEventFailed(o) \/ StopRequested(o) \/ SweepTake(o)
           \/ Recheck(o) \/ SupervisorEnds(o) \/ TreeEnds(o)
    PROVE  Counted'
  <1>1. RunningSame
    BY DEF RunningSame, Running, SpawnEvent, SpawnEventFailed, StopRequested, SweepTake, Recheck,
           SupervisorEnds, TreeEnds, Inv, TypeOK
  <1>2. UNCHANGED <<up, unreadable, active, unknown, detached, unknownOwners>>
    BY DEF SpawnEvent, SpawnEventFailed, StopRequested, SweepTake, Recheck, SupervisorEnds, TreeEnds, permits
  <1> QED
    BY <1>1, <1>2, CountedKept

LEMMA CountedStart == ASSUME Inv, Counted, Start PROVE Counted'
  <1>1. Running' = {} /\ detached' = 0
    BY DEF Start, Running, Inv, OwnersConsistent, OwnerConsistent, Counted
  <1>2. Cardinality(Running') = 0
    BY <1>1, FS_EmptySet
  <1>3. /\ unknownOwners' \subseteq Owners
        /\ unknown' = RetainedPermits(unreadable', unknownOwners') /\ active' = unknown'
    BY DEF Start, RetainedOwners
  <1>4. unknown' \in Int
    BY <1>3, LimitNat, OwnersFinite, FS_Subset, FS_CardinalityType DEF RetainedPermits
  <1> QED
    BY <1>1, <1>2, <1>3, <1>4 DEF Start, Counted, PermitsAccounted, RetainedPermits

LEMMA CountedNext == Inv /\ Counted /\ [Next]_vars => Counted'
  <1> SUFFICES ASSUME Inv, Counted, [Next]_vars PROVE Counted'
    OBVIOUS
  <1>1. ASSUME NEW o \in Owners, OwnerStep(o) PROVE Counted'
    BY <1>1, CountedReserve, CountedClose, CountedProve, CountedOther DEF OwnerStep
  <1>2. CASE UNCHANGED vars
    BY <1>2, CountedKept DEF RunningSame, Running, vars, permits
  <1>3. CASE LaunchEditor \/ EditorCreated
    <2>1. Cardinality(Running) \in Nat /\ Running' = Running
      BY <1>3, OwnersFinite, FS_Subset, FS_CardinalityType DEF LaunchEditor, EditorCreated, Running
    <2> QED
      BY <1>3, <2>1, MaxEditorsNat DEF LaunchEditor, EditorCreated, Counted, PermitsAccounted, Inv, TypeOK
  <1>4. CASE SweepStart \/ SweepEnd
    BY <1>4, CountedKept DEF SweepStart, SweepEnd, RunningSame, Running, permits
  <1>5. CASE Crash \/ Reboot
    BY <1>5 DEF Crash, Reboot, Counted, PermitsAccounted, permits
  <1> QED
    BY <1>1, <1>2, <1>3, <1>4, <1>5, CountedStart DEF Next

\* Settling, a late frame, a sweep and a re-check, in any order and with any
\* of their writes failing, never lose a permit or give one back twice.
THEOREM PermitsStayAccounted == Spec => []PermitsAccounted
  <1>1. Init => Counted
    <2> SUFFICES ASSUME Init PROVE Counted
      OBVIOUS
    <2>1. Running = {} /\ Cardinality({}) = 0
      BY FS_EmptySet DEF Init, Running
    <2>2. active = 0 /\ unknown = 0 /\ detached = 0 /\ unknownOwners = {}
      BY DEF Init
    <2> QED
      BY <2>1, <2>2 DEF Counted, PermitsAccounted
  <1>2. Counted => PermitsAccounted
    BY DEF Counted
  <1> QED
    BY <1>1, <1>2, InvInit, InvNext, CountedNext, PTL DEF Spec

(***************************************************************************)
(* The budget implements PermitPool and keeps its limit.  The permits that *)
(* are out are held by commands that have not settled, by unknown owners,  *)
(* and by owners with a record: the last are all that counts while the     *)
(* runtime is down or cannot read its inventory.                           *)
(***************************************************************************)
Recordeds == {o \in Owners : Recorded(o)}
Held == Running \cup unknownOwners \cup Recordeds

\* A readable inventory lists every record, and no torn file is an owner's.
Listed ==
    /\ up /\ ~unreadable => Recordeds \subseteq Running \cup unknownOwners
    /\ \A o \in unknownOwners : disk[o].json # "torn"

\* The permits charged cover the holders, and a dead runtime's records fit.
Budgeted ==
    /\ up => Cardinality(Held) + detached <= active /\ active <= Limit
    /\ ~up => Cardinality(Held) <= Limit

LEMMA HeldFinite ==
    ASSUME Inv
    PROVE  Held \subseteq Owners /\ IsFiniteSet(Held) /\ Cardinality(Held) \in Nat
  <1>1. Held \subseteq Owners
    BY DEF Held, Running, Recordeds, Inv, TypeOK
  <1> QED
    BY <1>1, OneMoreOrLess, OwnersFinite, FS_Subset, FS_CardinalityType

LEMMA HeldShrinks ==
    ASSUME Inv, Held' \subseteq Held
    PROVE  /\ Cardinality(Held') \in Nat
           /\ Cardinality(Held') <= Cardinality(Held)
  BY HeldFinite, FS_Subset, FS_CardinalityType

\* One owner gives its permit back.
LEMMA HeldLeaves ==
    ASSUME Inv, NEW o \in Held, Held' \subseteq Held \ {o}
    PROVE  /\ Cardinality(Held') \in Nat
           /\ Cardinality(Held') <= Cardinality(Held) - 1
  <1>1. IsFiniteSet(Held) /\ Cardinality(Held) \in Nat
    BY HeldFinite
  <1>2. IsFiniteSet(Held \ {o}) /\ Cardinality(Held \ {o}) = Cardinality(Held) - 1
    BY <1>1, FS_RemoveElement
  <1> QED
    BY <1>2, FS_Subset, FS_CardinalityType

---------------------------------------------------------------------------
(* What a step of one owner does to the holders.                           *)

\* Owner p counts as before.
Same(p) ==
    /\ disk'[p].json = disk[p].json
    /\ p \in Running' <=> p \in Running
    /\ p \in unknownOwners' <=> p \in unknownOwners

Stays(o) == active' = active /\ (o \in Held' => o \in Held)
Leaves(o) == active' = active - 1 /\ o \in Held /\ o \notin Held'

\* A step of owner o that takes no permit.
Move(o) ==
    /\ UNCHANGED <<up, unreadable, detached>>
    /\ \A p \in Owners \ {o} : Same(p)
    /\ Same(o) \/ (o \in Held' => o \in Running' \cup unknownOwners')
    /\ o \in unknownOwners' => disk'[o].json # "torn"
    /\ Stays(o) \/ (Leaves(o) /\ up)

LEMMA MoveKeeps ==
    ASSUME Inv, Inv', Listed, Budgeted, NEW o \in Owners, Move(o)
    PROVE  Listed' /\ Budgeted' /\ Held' \subseteq Held
  <1>1. \A p \in Owners \ {o} : p \in Held' <=> p \in Held
    BY DEF Move, Same, Held, Recordeds, Recorded
  <1>2. Held' \subseteq Owners
    BY DEF Held, Running, Recordeds, Inv, TypeOK
  <1>3. Listed'
    <2>1. ASSUME up', ~unreadable', NEW p \in Recordeds' PROVE p \in Running' \cup unknownOwners'
      <3>1. p \in Owners /\ p \in Held' /\ up /\ ~unreadable
        BY <2>1 DEF Recordeds, Held, Move
      <3>2. CASE Same(p)
        BY <2>1, <3>1, <3>2 DEF Same, Listed, Recordeds, Recorded
      <3> QED
        BY <3>1, <3>2 DEF Move
    <2>2. ASSUME NEW p \in unknownOwners' PROVE disk'[p].json # "torn"
      <3>1. p \in Owners
        BY <2>2 DEF Inv, TypeOK
      <3> QED
        BY <2>2, <3>1 DEF Move, Same, Listed
    <2> QED
      BY <2>1, <2>2 DEF Listed
  <1>4. active \in Int /\ detached \in Int /\ Cardinality(Held) \in Nat
    BY HeldFinite, MaxEditorsNat DEF Inv, TypeOK
  <1>5. CASE Stays(o)
    <2>1. Held' \subseteq Held
      BY <1>1, <1>2, <1>5 DEF Stays
    <2>2. Cardinality(Held') \in Nat /\ Cardinality(Held') <= Cardinality(Held)
      BY <2>1, HeldShrinks
    <2> QED
      BY <1>3, <1>4, <1>5, <2>1, <2>2, LimitNat DEF Stays, Move, Budgeted
  <1>6. CASE Leaves(o) /\ up
    <2>1. o \in Held /\ Held' \subseteq Held \ {o}
      BY <1>1, <1>2, <1>6 DEF Leaves
    <2>2. Cardinality(Held') \in Nat /\ Cardinality(Held') <= Cardinality(Held) - 1
      BY <2>1, HeldLeaves
    <2> QED
      BY <1>3, <1>4, <1>6, <2>1, <2>2, LimitNat DEF Leaves, Move, Budgeted
  <1> QED
    BY <1>5, <1>6 DEF Move

LEMMA RunningOthers ==
    ASSUME Inv, NEW o \in Owners, NEW p \in Owners \ {o},
           \/ UNCHANGED phase
           \/ \E v : phase' = [phase EXCEPT ![o] = v]
    PROVE  p \in Running' <=> p \in Running
  BY DEF Running, Inv, TypeOK

LEMMA DiskOthers ==
    ASSUME Inv, NEW o \in Owners, NEW p \in Owners \ {o},
           \/ UNCHANGED disk
           \/ \E e : disk' = [disk EXCEPT ![o] = e]
    PROVE  disk'[p] = disk[p]
  BY DEF Inv, TypeOK

\* Starting to stop, the spawn event, and whatever leaves records alone.
LEMMA MoveSpawn ==
    ASSUME Inv, Listed, NEW o \in Owners,
           SpawnEvent(o) \/ SpawnEventFailed(o) \/ StopRequested(o)
    PROVE  Move(o) /\ o \in Running /\ o \in Running'
  <1>1. o \in Running /\ o \in Running' /\ o \notin unknownOwners
    BY DEF SpawnEvent, SpawnEventFailed, StopRequested, Running, Inv, TypeOK, OwnersConsistent, OwnerConsistent
  <1>2. UNCHANGED <<up, unreadable, active, unknown, detached, unknownOwners>>
    BY DEF SpawnEvent, SpawnEventFailed, StopRequested, permits
  <1>3. ASSUME NEW p \in Owners \ {o} PROVE Same(p)
    <2>1. p \in Running' <=> p \in Running
      BY RunningOthers DEF SpawnEvent, SpawnEventFailed, StopRequested
    <2>2. disk'[p] = disk[p]
      BY DEF SpawnEvent, SpawnEventFailed, StopRequested, durable, Inv, TypeOK
    <2> QED
      BY <1>2, <2>1, <2>2 DEF Same
  <1> QED
    BY <1>1, <1>2, <1>3 DEF Move, Stays, Held

LEMMA MoveChecks ==
    ASSUME Inv, Listed, NEW o \in Owners,
           \/ SweepTake(o) \/ Recheck(o) \/ SupervisorEnds(o) \/ TreeEnds(o) \/ AuditRefused(o)
    PROVE  Move(o)
  <1>1. UNCHANGED <<disk, up, unreadable, active, unknown, detached, unknownOwners, phase>>
    BY DEF SweepTake, Recheck, SupervisorEnds, TreeEnds, AuditRefused, permits, durable
  <1>2. \A p \in Owners : Same(p)
    BY <1>1 DEF Same, Running
  <1>3. Held' = Held
    BY <1>1 DEF Held, Running, Recordeds, Recorded
  <1> QED
    BY <1>1, <1>2, <1>3 DEF Move, Stays, Listed

LEMMA FailedReleaseKeeps ==
    ASSUME NEW e, NEW f \in FailedRelease(e), e.json # "torn"
    PROVE  f.json \in {e.json, "absent"}
  BY DEF FailedRelease, Unrecorded, NoEntry

LEMMA MoveSettle ==
    ASSUME Inv, Listed, NEW o \in Owners, NEW f \in BOOLEAN, Settle(o, f), up,
           UNCHANGED <<up, unreadable, detached>>
    PROVE  Move(o)
  <1>1. /\ o \in Running /\ o \notin Running' /\ o \notin unknownOwners
        /\ Recorded(o) /\ o \in Held
    BY DEF Settle, Running, Held, Inv, TypeOK, OwnersConsistent, OwnerConsistent
  <1>2. CASE f /\ SettleReleased(o)
    <2>1. disk' = [disk EXCEPT ![o] = Unrecorded(disk[o])] /\ active' = active - 1
          /\ UNCHANGED unknownOwners
      BY <1>2 DEF SettleReleased
    <2>2. disk'[o].json = "absent"
      BY <2>1 DEF Unrecorded, NoEntry, Inv, TypeOK
    <2>3. o \notin Held' /\ o \notin unknownOwners'
      BY <1>1, <2>1, <2>2 DEF Held, Recordeds, Recorded
    <2>4. ASSUME NEW p \in Owners \ {o} PROVE Same(p)
      BY <2>1, RunningOthers, DiskOthers DEF Same, Settle
    <2> QED
      BY <1>1, <2>1, <2>3, <2>4 DEF Move, Leaves
  <1>3. CASE SettleUnknown(o) /\ \E e \in FailedRelease(disk[o]) : disk' = [disk EXCEPT ![o] = e]
    <2>1. PICK e \in FailedRelease(disk[o]) : disk' = [disk EXCEPT ![o] = e]
      BY <1>3
    <2>2. active' = active /\ unknownOwners' = unknownOwners \cup {o}
      BY <1>3 DEF SettleUnknown
    <2>3. disk'[o].json # "torn"
      BY <1>1, <2>1, FailedReleaseKeeps DEF Recorded, Inv, TypeOK
    <2>4. ASSUME NEW p \in Owners \ {o} PROVE Same(p)
      BY <2>1, <2>2, RunningOthers, DiskOthers DEF Same, Settle
    <2> QED
      BY <1>1, <2>2, <2>3, <2>4 DEF Move, Stays
  <1>4. CASE SettleUnknown(o) /\ UNCHANGED disk
    <2>1. active' = active /\ unknownOwners' = unknownOwners \cup {o}
      BY <1>4 DEF SettleUnknown
    <2>2. ASSUME NEW p \in Owners \ {o} PROVE Same(p)
      BY <1>4, <2>1, RunningOthers DEF Same, Settle
    <2> QED
      BY <1>1, <1>4, <2>1, <2>2 DEF Move, Stays, Recorded
  <1> QED
    BY <1>2, <1>3, <1>4 DEF Settle

\* The release of an unknown owner, or its failure: a proof or a late frame.
LEMMA MoveRelease ==
    ASSUME Inv, Listed, NEW o \in unknownOwners, UNCHANGED <<up, unreadable, detached, phase>>, up,
           NEW e \in Entry, disk' = [disk EXCEPT ![o] = e], e.json \in {disk[o].json, "absent"},
           \/ active' = active /\ UNCHANGED unknownOwners
           \/ /\ active' = active - 1 /\ unknownOwners' = unknownOwners \ {o}
              /\ e.json = "absent"
    PROVE  Move(o)
  <1>1. o \in Owners /\ o \in Held /\ o \notin Running
    BY DEF Held, Inv, TypeOK, OwnersConsistent, OwnerConsistent
  <1>2. disk'[o] = e /\ disk[o].json # "torn" /\ o \notin Running'
    BY <1>1 DEF Listed, Inv, TypeOK, Running
  <1>3. ASSUME NEW p \in Owners \ {o} PROVE Same(p)
    BY <1>1, RunningOthers, DiskOthers DEF Same
  <1>4. CASE active' = active /\ UNCHANGED unknownOwners
    BY <1>1, <1>2, <1>3, <1>4 DEF Move, Stays
  <1>5. CASE active' = active - 1 /\ unknownOwners' = unknownOwners \ {o} /\ e.json = "absent"
    <2>1. o \notin Held'
      BY <1>2, <1>5 DEF Held, Recordeds, Recorded
    <2> QED
      BY <1>1, <1>2, <1>3, <1>5, <2>1 DEF Move, Leaves
  <1> QED
    BY <1>4, <1>5

LEMMA MoveLate ==
    ASSUME Inv, Listed, NEW o \in Owners, NEW f \in BOOLEAN, LateFrame(o, f), up,
           UNCHANGED <<up, unreadable, detached>>
    PROVE  Move(o)
  <1>1. CASE UNCHANGED <<disk, active, unknownOwners>>
    <2>1. \A p \in Owners : Same(p)
      BY <1>1 DEF Same, Running, LateFrame
    <2>2. Held' = Held
      BY <1>1 DEF Held, Running, Recordeds, Recorded, LateFrame
    <2> QED
      BY <1>1, <2>1, <2>2 DEF Move, Stays, Listed
  <1>2. CASE ~UNCHANGED <<disk, active, unknownOwners>>
    <2>1. o \in unknownOwners /\ UNCHANGED phase
      BY <1>2 DEF LateFrame, MayReleaseLate
    <2>2. disk[o] \in Entry /\ disk[o].json # "torn"
      BY <2>1 DEF Listed, Inv, TypeOK
    <2>3. PICK e \in FailedRelease(disk[o]) :
            /\ disk' = [disk EXCEPT ![o] = e]
            /\ \/ active' = active /\ UNCHANGED unknownOwners
               \/ active' = active - 1 /\ unknownOwners' = unknownOwners \ {o} /\ e = Unrecorded(disk[o])
      BY <1>2 DEF LateFrame, FailedRelease
    <2>4. e \in Entry /\ e.json \in {disk[o].json, "absent"} /\ Unrecorded(disk[o]).json = "absent"
      BY <2>2, EntryUpdates, FailedReleaseKeeps DEF Unrecorded, NoEntry
    <2> QED
      BY <2>1, <2>3, <2>4, MoveRelease
  <1> QED
    BY <1>1, <1>2

LEMMA MoveClose ==
    ASSUME Inv, Listed, NEW o \in Owners, Close(o) \/ GraceExpired(o)
    PROVE  Move(o)
  <1>0. up /\ UNCHANGED <<up, unreadable, detached>>
    BY DEF Close, GraceExpired
  <1>1. PICK f \in BOOLEAN : Settle(o, f) \/ LateFrame(o, f)
    BY DEF Close, GraceExpired
  <1> QED
    BY <1>0, <1>1, MoveSettle, MoveLate

LEMMA MoveProven ==
    ASSUME Inv, Listed, NEW o \in unknownOwners, ReleaseProvenOwner(o), up,
           UNCHANGED <<up, unreadable, detached, phase>>
    PROVE  Move(o)
  <1>1. disk[o] \in Entry
    BY DEF Inv, TypeOK
  <1>2. /\ ReleaseSteps(disk[o])[1] \in Entry /\ ReleaseSteps(disk[o])[2] \in Entry
        /\ ReleaseSteps(disk[o])[1].json = disk[o].json /\ ReleaseSteps(disk[o])[2].json = "absent"
    BY <1>1, EntryUpdates DEF ReleaseSteps, NoEntry, Entry
  <1>3. PICK e \in {disk[o], ReleaseSteps(disk[o])[1], ReleaseSteps(disk[o])[2]} :
          /\ disk' = [disk EXCEPT ![o] = e]
          /\ \/ active' = active /\ UNCHANGED unknownOwners
             \/ active' = active - 1 /\ unknownOwners' = unknownOwners \ {o} /\ e = ReleaseSteps(disk[o])[2]
    BY DEF ReleaseProvenOwner
  <1> QED
    BY <1>1, <1>2, <1>3, MoveRelease

LEMMA MoveUnproven ==
    ASSUME Inv, Listed, NEW o \in unknownOwners, NEW v, Unproven(o, v), up,
           UNCHANGED <<up, unreadable, detached, phase, active, unknownOwners>>
    PROVE  Move(o)
  <1>1. disk[o] \in Entry
    BY DEF Inv, TypeOK
  <1>2. PICK read, e :
          /\ read \in BootReads
          /\ disk' = [disk EXCEPT ![o] = e]
          /\ e = disk[o] \/ e = [json |-> disk[o].json, tmp |-> FALSE, stamp |-> read]
    BY DEF Unproven
  <1>3. read \in 0..MaxBoot
    BY <1>2, MaxBootNat DEF BootReads, Inv, TypeOK
  <1>4. e \in Entry /\ e.json = disk[o].json
    <2>1. disk[o].json \in {"absent", "torn", "unauthorized", "authorized"}
      BY <1>1 DEF Entry
    <2>2. CASE e = disk[o]
      BY <1>1, <2>2
    <2>3. CASE e = [json |-> disk[o].json, tmp |-> FALSE, stamp |-> read]
      BY <1>3, <2>1, <2>3 DEF Entry
    <2> QED
      BY <1>2, <2>2, <2>3
  <1> QED
    BY <1>2, <1>4, MoveRelease

LEMMA MoveProve ==
    ASSUME Inv, Listed, NEW o \in Owners, ProveOwner(o) \/ AuditRecorded(o)
    PROVE  Move(o)
  <1>1. o \in unknownOwners /\ up /\ UNCHANGED <<up, unreadable, detached, phase>>
    BY DEF ProveOwner, AuditRecorded, permits, Inv, OwnersConsistent, OwnerConsistent
  <1>2. CASE ReleaseProvenOwner(o)
    BY <1>1, <1>2, MoveProven
  <1>3. CASE \E v : Unproven(o, v) /\ UNCHANGED permits
    BY <1>1, <1>3, MoveUnproven DEF permits
  <1>4. CASE UNCHANGED <<disk, permits>>
    <2>1. \A p \in Owners : Same(p)
      BY <1>1, <1>4 DEF Same, Running, permits
    <2>2. Held' = Held
      BY <1>1, <1>4 DEF Held, Running, Recordeds, Recorded, permits
    <2> QED
      BY <1>1, <1>4, <2>1, <2>2 DEF Move, Stays, Listed, permits
  <1> QED
    BY <1>2, <1>3, <1>4 DEF ProveOwner, AuditRecorded

---------------------------------------------------------------------------
(* The steps that take a permit, and those of all owners at once.          *)

LEMMA ReserveTakes ==
    ASSUME Inv, Listed, Budgeted, NEW o \in Owners, Reserve(o)
    PROVE  /\ Listed' /\ Budgeted'
           /\ o \notin Held /\ Held' = Held \cup {o}
  <1>1. PICK read \in BootReads :
          disk' = [disk EXCEPT ![o] = [json |-> "unauthorized", tmp |-> FALSE, stamp |-> read]]
    BY DEF Reserve
  <1>2. /\ phase' = [phase EXCEPT ![o] = "running"] /\ phase[o] = "fresh"
        /\ up /\ active < Limit /\ active' = active + 1
        /\ UNCHANGED <<up, unreadable, detached, unknownOwners>>
    BY DEF Reserve, HasRoom
  <1>3. o \notin Held
    BY <1>2 DEF Held, Running, Recordeds, Recorded, NoEntry, Inv, OwnersConsistent, OwnerConsistent
  <1>4. ASSUME NEW p \in Owners \ {o} PROVE Same(p)
    BY <1>1, <1>2, RunningOthers, DiskOthers DEF Same
  <1>5. o \in Running' /\ disk'[o].json = "unauthorized"
    BY <1>1, <1>2 DEF Running, Inv, TypeOK
  <1>6. Held' = Held \cup {o}
    <2>1. Held' \subseteq Owners /\ Held \subseteq Owners
      BY <1>2 DEF Held, Running, Recordeds, Inv, TypeOK
    <2>2. \A p \in Owners \ {o} : p \in Held' <=> p \in Held
      BY <1>4 DEF Same, Held, Recordeds, Recorded
    <2>3. o \in Held'
      BY <1>5 DEF Held
    <2> QED
      BY <2>1, <2>2, <2>3
  <1>7. Listed'
    BY <1>2, <1>4, <1>5 DEF Listed, Same, Recordeds, Recorded, Inv, TypeOK
  <1>8. Cardinality(Held') = Cardinality(Held) + 1 /\ Cardinality(Held) \in Nat
    BY <1>3, <1>6, HeldFinite, OneMoreOrLess
  <1>9. active \in Int /\ detached \in Int
    BY MaxEditorsNat DEF Inv, TypeOK
  <1> QED
    BY <1>2, <1>3, <1>6, <1>7, <1>8, <1>9, LimitNat DEF Budgeted

LEMMA EditorMoves ==
    ASSUME Inv, Listed, Budgeted, LaunchEditor \/ EditorCreated
    PROVE  Listed' /\ Budgeted' /\ Held' = Held
  <1>1. UNCHANGED <<disk, phase, up, unreadable, unknownOwners>> /\ up
    BY DEF LaunchEditor, EditorCreated, durable
  <1>2. Held' = Held /\ Listed'
    BY <1>1 DEF Held, Running, Recordeds, Recorded, Listed
  <1>3. active \in Int /\ detached \in Int /\ Cardinality(Held) \in Nat
    BY HeldFinite, MaxEditorsNat DEF Inv, TypeOK
  <1> QED
    BY <1>1, <1>2, <1>3, LimitNat DEF Budgeted, LaunchEditor, EditorCreated, HasRoom

LEMMA CrashKeeps ==
    ASSUME Inv, Inv', Listed, Budgeted, Crash
    PROVE  Listed' /\ Budgeted' /\ Held' \subseteq Held
  <1>1. up /\ ~up' /\ unknownOwners' = {}
    BY DEF Crash
  <1>2. Running' = {}
    BY <1>1 DEF Running, Inv, OwnersConsistent, OwnerConsistent
  <1>3. Recordeds' \subseteq Held
    <2> SUFFICES ASSUME NEW p \in Owners, Recorded(p)' PROVE p \in Held
      BY DEF Recordeds
    <2>1. CASE disk'[p] = disk[p]
      BY <2>1 DEF Held, Recordeds, Recorded
    <2>2. CASE disk'[p] # disk[p]
      <3>0. PICK o \in Owners : \E e \in MidWrite(o) : disk' = [disk EXCEPT ![o] = e]
        BY <2>2 DEF Crash
      <3>1. PICK e \in MidWrite(o) : disk' = [disk EXCEPT ![o] = e]
        BY <3>0
      <3>2. p = o /\ disk'[p] = e
        BY <2>2, <3>1 DEF Inv, TypeOK
      <3>3. CASE e = [NoEntry EXCEPT !.json = "torn"]
        BY <3>2, <3>3 DEF Recorded, NoEntry
      <3>4. CASE phase[o] \in {"running", "stopping"}
        BY <3>2, <3>4 DEF Held, Running
      <3>5. CASE Recorded(o)
        BY <3>2, <3>5 DEF Held, Recordeds
      <3> QED
        BY <3>1, <3>3, <3>4, <3>5 DEF MidWrite
    <2> QED
      BY <2>1, <2>2
  <1>4. Held' \subseteq Held
    BY <1>1, <1>2, <1>3 DEF Held
  <1>5. Cardinality(Held') \in Nat /\ Cardinality(Held') <= Cardinality(Held) /\ Cardinality(Held) \in Nat
    BY <1>4, HeldShrinks, HeldFinite
  <1>6. active \in Int /\ detached \in Nat
    BY MaxEditorsNat DEF Inv, TypeOK
  <1> QED
    BY <1>1, <1>4, <1>5, <1>6, LimitNat DEF Budgeted, Listed

LEMMA StartKeeps ==
    ASSUME Inv, Listed, Budgeted, Counted, Start
    PROVE  Listed' /\ Budgeted' /\ Held' = Held
  <1>1. ~up /\ up' /\ UNCHANGED <<disk, phase, detached>> /\ detached = 0
    BY DEF Start, durable, Counted
  <1>2. /\ unknownOwners' \subseteq RetainedOwners
        /\ ~unreadable' => unknownOwners' = RetainedOwners
        /\ active' = RetainedPermits(unreadable', unknownOwners')
    BY DEF Start
  <1>3. Held = RetainedOwners /\ Held' = RetainedOwners
    <2>1. Running = {} /\ Running' = {} /\ unknownOwners = {}
      BY <1>1 DEF Running, Inv, TypeOK, OwnersConsistent, OwnerConsistent
    <2>2. Recordeds = RetainedOwners /\ Recordeds' = RetainedOwners
      BY <1>1 DEF Recordeds, RetainedOwners, Recorded
    <2> QED
      BY <1>2, <2>1, <2>2 DEF Held
  <1>4. Listed'
    BY <1>1, <1>2, <1>3 DEF Listed, Held, RetainedOwners, Recorded
  <1>5. Cardinality(Held) \in Nat /\ Cardinality(Held) <= Limit
    BY <1>1, HeldFinite DEF Budgeted
  <1>6. Cardinality(Held') <= active' /\ active' <= Limit
    BY <1>2, <1>3, <1>5, LimitNat DEF RetainedPermits
  <1>7. active' \in Int
    BY <1>2, <1>3, <1>5, LimitNat DEF RetainedPermits
  <1> QED
    BY <1>1, <1>3, <1>4, <1>5, <1>6, <1>7 DEF Budgeted

LEMMA QuietKeeps ==
    ASSUME Listed, Budgeted, SweepStart \/ SweepEnd \/ Reboot \/ UNCHANGED vars
    PROVE  Listed' /\ Budgeted' /\ Held' = Held
  <1>1. UNCHANGED <<disk, phase, up, unreadable, active, detached, unknownOwners>>
    BY DEF SweepStart, SweepEnd, Reboot, vars, durable, permits
  <1> QED
    BY <1>1 DEF Listed, Budgeted, Held, Running, Recordeds, Recorded

\* Every step keeps the account, and the holders only grow by a reservation.
LEMMA HolderStep ==
    ASSUME Inv, Inv', Listed, Budgeted, Counted, [Next]_vars
    PROVE  /\ Listed' /\ Budgeted'
           /\ Held' \subseteq Held \/ \E o \in Owners : Reserve(o)
  <1>1. ASSUME NEW o \in Owners, OwnerStep(o), ~Reserve(o) PROVE Move(o)
    BY <1>1, MoveSpawn, MoveChecks, MoveClose, MoveProve DEF OwnerStep
  <1>2. CASE \E o \in Owners : OwnerStep(o)
    BY <1>1, <1>2, MoveKeeps, ReserveTakes
  <1>3. CASE LaunchEditor \/ EditorCreated
    BY <1>3, EditorMoves
  <1>4. CASE Crash \/ Start
    BY <1>4, CrashKeeps, StartKeeps
  <1>5. CASE SweepStart \/ SweepEnd \/ Reboot \/ UNCHANGED vars
    BY <1>5, QuietKeeps
  <1> QED
    BY <1>2, <1>3, <1>4, <1>5 DEF Next

\* A tree that runs has a record.
LEMMA LiveHeld == ASSUME Inv PROVE live \subseteq Held
  BY DEF Inv, TypeOK, OwnersConsistent, OwnerConsistent, Held, Recordeds, Recorded

PoolInv == Inv /\ Counted /\ Listed /\ Budgeted

LEMMA PoolInvInit == Init => PoolInv
  <1> SUFFICES ASSUME Init PROVE PoolInv
    OBVIOUS
  <1>1. Running = {} /\ Recordeds = {} /\ unknownOwners = {} /\ Cardinality({}) = 0
    BY FS_EmptySet DEF Init, Running, Recordeds, Recorded, NoEntry
  <1>2. active = 0 /\ unknown = 0 /\ detached = 0 /\ up
    BY DEF Init
  <1> QED
    BY <1>1, <1>2, InvInit, LimitNat DEF PoolInv, Counted, PermitsAccounted, Listed, Budgeted, Held

LEMMA PoolInvNext == PoolInv /\ [Next]_vars => PoolInv'
  BY InvNext, CountedNext, HolderStep DEF PoolInv

\* Even when the inventory cannot be read and the operator releases the owners
\* it does list, no more trees run than permits are charged, nor more permits
\* are charged than the limit.
THEOREM TreesWithinLimit == Spec => []LiveTreesWithinLimit
  <1>1. PoolInv => LiveTreesWithinLimit
    <2> SUFFICES ASSUME PoolInv, up PROVE Cardinality(live) + detached <= active /\ active <= Limit
      BY DEF LiveTreesWithinLimit
    <2>1. live \subseteq Held
      BY LiveHeld DEF PoolInv
    <2>2. IsFiniteSet(Held) /\ Cardinality(Held) \in Nat
      BY HeldFinite DEF PoolInv
    <2>3. Cardinality(live) \in Nat /\ Cardinality(live) <= Cardinality(Held)
      BY <2>1, <2>2, FS_Subset, FS_CardinalityType
    <2>4. active \in Int /\ detached \in Int
      BY MaxEditorsNat DEF PoolInv, Inv, TypeOK
    <2> QED
      BY <2>2, <2>3, <2>4, LimitNat DEF PoolInv, Budgeted
  <1> QED
    BY <1>1, PoolInvInit, PoolInvNext, PTL DEF Spec

---------------------------------------------------------------------------
(* The refinement.                                                         *)

LEMMA ChargedIsHeld == ASSUME PoolInv PROVE Charged = Held
  BY DEF PoolInv, Charged, Held, Recordeds, Listed

\* Trees begin with the spawn event only.
LEMMA LiveShrinks ==
    ASSUME Inv, [Next]_vars, \A o \in Owners : ~SpawnEvent(o)
    PROVE  live' \subseteq live
  <1>1. ASSUME NEW o \in Owners, OwnerStep(o) PROVE live' \subseteq live
    <2>1. CASE Close(o) \/ GraceExpired(o) \/ ProveOwner(o) \/ TreeEnds(o)
      BY <2>1 DEF Close, GraceExpired, ProveOwner, TreeEnds
    <2>2. CASE Reserve(o) \/ SpawnEventFailed(o) \/ StopRequested(o) \/ SweepTake(o) \/ Recheck(o)
      BY <2>2 DEF Reserve, SpawnEventFailed, StopRequested, SweepTake, Recheck, durable
    <2>3. CASE AuditRecorded(o) \/ AuditRefused(o) \/ SupervisorEnds(o)
      BY <2>3 DEF AuditRecorded, AuditRefused, SupervisorEnds, durable
    <2> QED
      BY <1>1, <2>1, <2>2, <2>3 DEF OwnerStep
  <1>2. CASE LaunchEditor \/ EditorCreated \/ SweepStart \/ SweepEnd \/ UNCHANGED vars
    BY <1>2 DEF LaunchEditor, EditorCreated, SweepStart, SweepEnd, vars, durable
  <1>3. CASE Crash \/ Start \/ Reboot
    BY <1>3 DEF Crash, Start, Reboot, durable
  <1> QED
    BY <1>1, <1>2, <1>3 DEF Next

\* PermitPool counts as FiniteSets does.
LEMMA PoolCardinality == \A S : Pool!Cardinality(S) = Cardinality(S)
  BY DEF Pool!Cardinality, Cardinality

LEMMA PoolStep ==
    ASSUME PoolInv, PoolInv', [Next]_vars
    PROVE  [Pool!Next]_<<Charged, live>>
  <1>1. Charged = Held /\ Charged' = Held'
    <2>1. Charged = Held
      BY ChargedIsHeld
    <2>2. Charged' = Held'
      BY DEF PoolInv, Charged, Held, Recordeds, Listed
    <2> QED
      BY <2>1, <2>2
  <1>2. live' \subseteq Held'
    BY DEF PoolInv, Inv, TypeOK, OwnersConsistent, OwnerConsistent, Held, Recordeds, Recorded
  <1>3. CASE \E o \in Owners : Reserve(o)
    <2>1. PICK o \in Owners : Reserve(o)
      BY <1>3
    <2>2. o \notin Held /\ Held' = Held \cup {o}
      BY <2>1, ReserveTakes DEF PoolInv
    <2>3. live' = live /\ up /\ active < Limit
      BY <2>1 DEF Reserve, HasRoom
    <2>4. Cardinality(Held) < Limit
      <3>1. Cardinality(Held) \in Nat /\ active \in Int /\ detached \in Nat
        BY HeldFinite, MaxEditorsNat DEF PoolInv, Inv, TypeOK
      <3> QED
        BY <2>3, <3>1, LimitNat DEF PoolInv, Budgeted
    <2>5. Pool!Admit(o)
      <3>1. Pool!Cardinality(Charged) < Limit
        BY <1>1, <2>4, PoolCardinality
      <3>2. o \notin Charged /\ Charged' = Charged \cup {o}
        BY <1>1, <2>2
      <3> QED
        BY <2>3, <3>1, <3>2 DEF Pool!Admit
    <2> QED
      BY <2>5 DEF Pool!Next
  <1>4. CASE \E o \in Owners : SpawnEvent(o)
    <2>1. PICK o \in Owners : SpawnEvent(o)
      BY <1>4
    <2>2. Move(o) /\ o \in Running /\ o \in Running'
      BY <2>1, MoveSpawn DEF PoolInv
    <2>3. Held' = Held /\ o \in Held
      <3>1. \A p \in Owners : p \in Held' <=> p \in Held
        BY <2>2 DEF Move, Same, Held, Recordeds, Recorded
      <3>2. Held \subseteq Owners /\ Held' \subseteq Owners
        BY DEF PoolInv, Inv, TypeOK, Held, Running, Recordeds
      <3> QED
        BY <2>2, <3>1, <3>2 DEF Held
    <2>4. o \notin live /\ live' \in {live, live \cup {o}}
      BY <2>1 DEF SpawnEvent, PoolInv, Inv, OwnersConsistent, OwnerConsistent
    <2> QED
      BY <1>1, <2>3, <2>4 DEF Pool!Next, Pool!Begin
  <1>5. CASE (\A o \in Owners : ~Reserve(o)) /\ (\A o \in Owners : ~SpawnEvent(o))
    <2>1. Held' \subseteq Held
      BY <1>5, HolderStep DEF PoolInv
    <2>2. live' \subseteq live
      BY <1>5, LiveShrinks DEF PoolInv
    <2> QED
      BY <1>1, <1>2, <2>1, <2>2 DEF Pool!Next, Pool!EndOrReturn
  <1> QED
    BY <1>3, <1>4, <1>5

\* Restarts, lost frames, failed writes and operator releases included, the
\* budget behaves as a pool of Limit permits that no running tree loses.
THEOREM PoolImplemented == Spec => ImplementsPool
  <1>1. Init => Pool!Init
    BY DEF Init, Pool!Init, Charged, Running, Recorded, NoEntry
  <1>2. PoolInv /\ PoolInv' /\ [Next]_vars => [Pool!Next]_<<Charged, live>>
    BY PoolStep
  <1> QED
    BY <1>1, <1>2, PoolInvInit, PoolInvNext, PTL DEF Spec, ImplementsPool, Pool!Spec

---------------------------------------------------------------------------
(* What is promised of a restart.                                          *)

\* A restart clears owner o: its record is stamped, or gone.
Clears(o) == disk[o].stamp # 0 \/ ~Present(o)

\* A step of owner o keeps the promises made to the others, and o's own.
LEMMA PromiseMove ==
    ASSUME Inv', RestartPromiseKept, NEW o \in Owners,
           \A p \in Owners \ {o} : /\ disk'[p] = disk[p]
                                   /\ p \in unknownOwners' => p \in unknownOwners
                                   /\ p \in promised' => p \in promised,
           o \in unknownOwners' /\ o \in promised' => Clears(o)'
    PROVE  RestartPromiseKept'
  <1> SUFFICES ASSUME NEW p \in unknownOwners' \cap promised' PROVE Clears(p)'
    BY DEF RestartPromiseKept, Clears
  <1>1. CASE p = o
    BY <1>1
  <1>2. CASE p \in Owners \ {o}
    <2>1. p \in unknownOwners \cap promised /\ disk'[p] = disk[p]
      BY <1>2
    <2> QED
      BY <2>1 DEF RestartPromiseKept, Clears, Present
  <1>3. CASE p \notin Owners
    BY <1>3 DEF Inv, TypeOK
  <1> QED
    BY <1>1, <1>2, <1>3

LEMMA FailedReleaseClears ==
    ASSUME Inv, NEW o \in Owners, NEW e \in FailedRelease(disk[o]), disk' = [disk EXCEPT ![o] = e],
           Clears(o)
    PROVE  Clears(o)'
  <1>1. disk'[o] = e
    BY DEF Inv, TypeOK
  <1> QED
    BY <1>1 DEF FailedRelease, Unrecorded, NoEntry, Clears, Present

\* What Promise(o, e) promises is what clears e.
LEMMA PromiseClears ==
    ASSUME Inv, NEW o \in Owners, NEW e, Promise(o, e), e.stamp = disk[o].stamp
    PROVE  o \in promised' => Clears(o)
  BY DEF Promise, ClearsAfterRestart, Clears, Inv, TypeOK

LEMMA PromiseSettle ==
    ASSUME Inv, Inv', RestartPromiseKept, NEW o \in Owners, NEW f \in BOOLEAN, Settle(o, f)
    PROVE  RestartPromiseKept'
  <1>1. o \notin unknownOwners
    BY DEF Settle, Running, Inv, TypeOK, OwnersConsistent, OwnerConsistent
  <1>2. CASE SettleReleased(o)
    <2>1. /\ disk' = [disk EXCEPT ![o] = Unrecorded(disk[o])]
          /\ UNCHANGED <<unknownOwners, promised>>
      BY <1>2 DEF SettleReleased, states
    <2> QED
      BY <1>1, <2>1, DiskOthers, PromiseMove
  <1>3. CASE SettleUnknown(o) /\ \E e \in FailedRelease(disk[o]) : disk' = [disk EXCEPT ![o] = e]
    <2>1. PICK e \in FailedRelease(disk[o]) : disk' = [disk EXCEPT ![o] = e]
      BY <1>3
    <2>2. unknownOwners' = unknownOwners \cup {o} /\ Promise(o, disk[o])
      BY <1>3 DEF SettleUnknown
    <2>3. o \in promised' => Clears(o)'
      BY <2>1, <2>2, PromiseClears, FailedReleaseClears
    <2>4. \A p \in Owners \ {o} : p \in promised' => p \in promised
      BY <2>2 DEF Promise
    <2> QED
      BY <2>1, <2>2, <2>3, <2>4, DiskOthers, PromiseMove
  <1>4. CASE SettleUnknown(o) /\ UNCHANGED disk
    <2>1. unknownOwners' = unknownOwners \cup {o} /\ Promise(o, disk[o])
      BY <1>4 DEF SettleUnknown
    <2>2. o \in promised' => Clears(o)'
      BY <1>4, <2>1, PromiseClears DEF Clears, Present
    <2>3. \A p \in Owners \ {o} : p \in promised' => p \in promised
      BY <2>1 DEF Promise
    <2> QED
      BY <1>4, <2>1, <2>2, <2>3, PromiseMove
  <1> QED
    BY <1>2, <1>3, <1>4 DEF Settle

\* A release, a late frame's or a proof's, forgets its owner; a failed one
\* keeps the record's stamp or removes the record.
LEMMA PromiseRelease ==
    ASSUME Inv, Inv', RestartPromiseKept, NEW o \in unknownOwners, NEW e,
           disk' = [disk EXCEPT ![o] = e],
           \/ unknownOwners' = unknownOwners \ {o} /\ promised' = promised \ {o}
           \/ /\ UNCHANGED unknownOwners
              /\ (e.stamp = disk[o].stamp /\ e.json = disk[o].json) \/ e.json = "absent"
              /\ UNCHANGED promised \/ Promise(o, disk[o])
    PROVE  RestartPromiseKept'
  <1>1. o \in Owners /\ disk'[o] = e
    BY DEF Inv, TypeOK
  <1>2. CASE unknownOwners' = unknownOwners \ {o} /\ promised' = promised \ {o}
    BY <1>1, <1>2, DiskOthers, PromiseMove
  <1>3. CASE /\ UNCHANGED unknownOwners
             /\ (e.stamp = disk[o].stamp /\ e.json = disk[o].json) \/ e.json = "absent"
             /\ UNCHANGED promised \/ Promise(o, disk[o])
    <2>1. o \in promised' => Clears(o)
      <3>1. CASE UNCHANGED promised
        BY <3>1 DEF RestartPromiseKept, Clears
      <3>2. CASE Promise(o, disk[o])
        BY <1>1, <3>2, PromiseClears
      <3> QED
        BY <1>3, <3>1, <3>2
    <2>2. Clears(o) => Clears(o)'
      BY <1>1, <1>3 DEF Clears, Present
    <2>3. \A p \in Owners \ {o} : p \in promised' => p \in promised
      BY <1>3 DEF Promise
    <2> QED
      BY <1>1, <1>3, <2>1, <2>2, <2>3, DiskOthers, PromiseMove
  <1> QED
    BY <1>2, <1>3

LEMMA PromiseClose ==
    ASSUME Inv, Inv', RestartPromiseKept, NEW o \in Owners, Close(o) \/ GraceExpired(o)
    PROVE  RestartPromiseKept'
  <1>1. PICK f \in BOOLEAN : Settle(o, f) \/ LateFrame(o, f)
    BY DEF Close, GraceExpired
  <1>2. CASE LateFrame(o, f) /\ ~UNCHANGED <<disk, unknownOwners, promised>>
    <2>1. o \in unknownOwners
      BY <1>2 DEF LateFrame, MayReleaseLate, states
    <2>2. PICK e \in FailedRelease(disk[o]) :
            /\ disk' = [disk EXCEPT ![o] = e]
            /\ \/ unknownOwners' = unknownOwners \ {o} /\ promised' = promised \ {o}
               \/ UNCHANGED <<unknownOwners, promised>>
      BY <1>2 DEF LateFrame, FailedRelease, ForgetState, states
    <2>3. e = disk[o] \/ e.json = "absent"
      BY DEF FailedRelease, Unrecorded, NoEntry
    <2> QED
      BY <2>1, <2>2, <2>3, PromiseRelease
  <1>3. CASE UNCHANGED <<disk, unknownOwners, promised>>
    BY <1>3 DEF RestartPromiseKept, Present
  <1> QED
    BY <1>1, <1>2, <1>3, PromiseSettle

LEMMA PromiseUnproven ==
    ASSUME Inv, Inv', RestartPromiseKept, NEW o \in unknownOwners, NEW v, Unproven(o, v),
           UNCHANGED unknownOwners
    PROVE  RestartPromiseKept'
  <1>1. o \in Owners /\ disk[o] \in Entry
    BY DEF Inv, TypeOK
  <1>2. PICK e : disk' = [disk EXCEPT ![o] = e] /\ Promise(o, e)
    BY DEF Unproven
  <1>3. disk'[o] = e
    BY <1>1, <1>2 DEF Inv, TypeOK
  <1>4. o \in promised' => Clears(o)'
    BY <1>1, <1>2, <1>3 DEF Promise, ClearsAfterRestart, Clears, Inv, TypeOK
  <1>5. \A p \in Owners \ {o} : p \in promised' => p \in promised
    BY <1>2 DEF Promise
  <1> QED
    BY <1>1, <1>2, <1>4, <1>5, DiskOthers, PromiseMove

LEMMA PromiseProven ==
    ASSUME Inv, Inv', RestartPromiseKept, NEW o \in unknownOwners, ReleaseProvenOwner(o)
    PROVE  RestartPromiseKept'
  <1>1. disk[o] \in Entry
    BY DEF Inv, TypeOK
  <1>2. /\ ReleaseSteps(disk[o])[1].json = disk[o].json /\ ReleaseSteps(disk[o])[1].stamp = disk[o].stamp
        /\ ReleaseSteps(disk[o])[2].json = "absent"
    BY <1>1 DEF ReleaseSteps, NoEntry, Entry
  <1>3. PICK e \in {disk[o], ReleaseSteps(disk[o])[1], ReleaseSteps(disk[o])[2]} :
          /\ disk' = [disk EXCEPT ![o] = e]
          /\ \/ unknownOwners' = unknownOwners \ {o} /\ promised' = promised \ {o}
             \/ UNCHANGED unknownOwners /\ Promise(o, disk[o])
    BY DEF ReleaseProvenOwner, ForgetState
  <1> QED
    BY <1>2, <1>3, PromiseRelease

LEMMA PromiseProve ==
    ASSUME Inv, Inv', RestartPromiseKept, NEW o \in Owners, ProveOwner(o) \/ AuditRecorded(o)
    PROVE  RestartPromiseKept'
  <1>1. o \in unknownOwners
    BY DEF ProveOwner, AuditRecorded, Inv, OwnersConsistent, OwnerConsistent
  <1>2. CASE ReleaseProvenOwner(o)
    BY <1>1, <1>2, PromiseProven
  <1>3. CASE \E v : Unproven(o, v) /\ UNCHANGED permits
    BY <1>1, <1>3, PromiseUnproven DEF permits
  <1>4. CASE UNCHANGED <<disk, permits, states>>
    BY <1>4 DEF RestartPromiseKept, Present, permits, states
  <1> QED
    BY <1>2, <1>3, <1>4 DEF ProveOwner, AuditRecorded

LEMMA PromiseOther ==
    ASSUME Inv, Inv', RestartPromiseKept, NEW o \in Owners,
           \/ Reserve(o) \/ SpawnEvent(o) \/ SpawnEventFailed(o) \/ StopRequested(o)
           \/ SweepTake(o) \/ Recheck(o) \/ AuditRefused(o) \/ SupervisorEnds(o) \/ TreeEnds(o)
    PROVE  RestartPromiseKept'
  <1>1. UNCHANGED <<unknownOwners, promised>>
    BY DEF Reserve, SpawnEvent, SpawnEventFailed, StopRequested, SweepTake, Recheck, AuditRefused,
           SupervisorEnds, TreeEnds, permits, states
  <1>2. CASE Reserve(o) \/ SpawnEvent(o) \/ SpawnEventFailed(o)
    <2>1. o \notin unknownOwners
      BY <1>2 DEF Reserve, SpawnEvent, SpawnEventFailed, Running, Inv, OwnersConsistent, OwnerConsistent
    <2>2. \A p \in Owners \ {o} : disk'[p] = disk[p]
      BY <1>2 DEF Reserve, SpawnEvent, SpawnEventFailed, Inv, TypeOK
    <2> QED
      BY <1>1, <2>1, <2>2, PromiseMove
  <1>3. CASE UNCHANGED disk
    BY <1>1, <1>3 DEF RestartPromiseKept, Present
  <1> QED
    BY <1>2, <1>3 DEF StopRequested, SweepTake, Recheck, AuditRefused, SupervisorEnds, TreeEnds, durable

PromiseInv == Inv /\ RestartPromiseKept /\ (~up => promised = {})

LEMMA PromiseInvNext == PromiseInv /\ [Next]_vars => PromiseInv'
  <1> SUFFICES ASSUME PromiseInv, [Next]_vars PROVE PromiseInv'
    OBVIOUS
  <1>0. Inv /\ Inv' /\ RestartPromiseKept
    BY InvNext DEF PromiseInv
  <1>1. ASSUME NEW o \in Owners, OwnerStep(o) PROVE RestartPromiseKept'
    BY <1>0, <1>1, PromiseClose, PromiseProve, PromiseOther DEF OwnerStep
  <1>2. ASSUME NEW o \in Owners, OwnerStep(o) PROVE ~up' => promised' = {}
    <2>1. CASE up
      BY <1>2, <2>1 DEF OwnerStep, Reserve, SpawnEvent, SpawnEventFailed, StopRequested, Close,
         GraceExpired, SweepTake, Recheck, ProveOwner, AuditRecorded, AuditRefused, SupervisorEnds, TreeEnds
    <2>2. CASE ~up
      <3>1. SupervisorEnds(o) \/ TreeEnds(o)
        BY <1>2, <2>2 DEF OwnerStep, Reserve, SpawnEvent, SpawnEventFailed, StopRequested, Close,
           GraceExpired, SweepTake, Recheck, ProveOwner, AuditRecorded, AuditRefused
      <3> QED
        BY <2>2, <3>1 DEF SupervisorEnds, TreeEnds, states, PromiseInv
    <2> QED
      BY <2>1, <2>2
  <1>3. CASE LaunchEditor \/ EditorCreated \/ SweepStart \/ SweepEnd \/ Reboot \/ UNCHANGED vars
    <2>1. UNCHANGED <<disk, up, unknownOwners, promised>>
      BY <1>3 DEF LaunchEditor, EditorCreated, SweepStart, SweepEnd, Reboot, vars, durable, permits, states
    <2> QED
      BY <1>0, <2>1 DEF PromiseInv, RestartPromiseKept, Present
  <1>4. CASE Crash
    BY <1>0, <1>4 DEF Crash, PromiseInv, RestartPromiseKept
  <1>5. CASE Start
    <2>1. promised' = {} /\ up'
      BY <1>5 DEF Start, states, PromiseInv
    <2> QED
      BY <1>0, <2>1 DEF PromiseInv, RestartPromiseKept
  <1> QED
    BY <1>0, <1>1, <1>2, <1>3, <1>4, <1>5 DEF Next, PromiseInv

\* An owner reported as cleared by a computer restart has left either a record
\* stamped with a boot or none, whatever failed since the report.
THEOREM PromisesKept == Spec => []RestartPromiseKept
  <1>1. Init => PromiseInv
    BY InvInit DEF Init, PromiseInv, RestartPromiseKept
  <1>2. PromiseInv => RestartPromiseKept
    BY DEF PromiseInv
  <1> QED
    BY <1>1, <1>2, PromiseInvNext, PTL DEF Spec

\* Trees and permits agree, by name and by number, in every instance.
THEOREM TreesCounted == Spec => []LiveTreesCounted
<1>. QED  BY NoTreeUncharged, TreesWithinLimit, PTL DEF LiveTreesCounted

\* What a death leaves on disk can be read and released, in every instance.
THEOREM RecordsStayUsable == Spec => []RecordsUsable
<1>. QED  BY NoTemporaryOrphaned, PromisesKept, PTL DEF RecordsUsable
=============================================================================
