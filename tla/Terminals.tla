----------------------------- MODULE Terminals -----------------------------
(***************************************************************************)
(* The terminals of one installation over several runtimes                 *)
(* (server/terminal-manager.mjs): shells that are launched, closed, handed *)
(* back to their brokers by a restart, reattached or proved gone by the    *)
(* next runtime, and ended by a quit.  TerminalSession has the detail of   *)
(* one broker; here a broker is its shell's state and whether the stored   *)
(* token is the one it accepts.                                            *)
(***************************************************************************)
EXTENDS Naturals, FiniteSets

CONSTANTS
    Terminals,   \* terminal ids, each launched at most once
    Limits,      \* maxTerminals, one of these
    MaxRuntimes, \* bound: runtimes started one after the other
    MaxFaults    \* bound: writes of the audit log or of a record that fail

ASSUME TerminalBounds ==
    /\ Limits \subseteq Nat \ {0} /\ MaxRuntimes \in Nat /\ MaxFaults \in Nat
    /\ IsFiniteSet(Terminals)

VARIABLES
    limit,    \* maxTerminals
    row,      \* the owner's rows in the audit log: the last one that counts
    record,   \* the reattach record, against the token the broker accepts
    proof,    \* an empty proof is on disk
    shell,    \* the shell, and who holds it
    keeps,    \* the broker has a session: it survives its peer
    phase,    \* the runtime
    started, reattach, scanning, prior, reserved, failures,
    status,   \* the terminals map: "absent" when not in it
    create, end, settle, claim, shut, ends, \* what runs on a terminal
    quit, restart, withdrawn, handed,
    disowned, \* shells left behind by a runtime that was told to quit
    faults

durable == <<row, record, proof>>
native == <<shell, keeps>>
intent == <<quit, restart, withdrawn>>
tasks == <<create, end, settle, claim, shut, ends>>
ledger == <<scanning, prior, reserved, failures>>
run == <<phase, started, reattach, limit>>
vars == <<durable, native, run, ledger, status, tasks, intent, handed, disowned, faults>>

All(v) == [t \in Terminals |-> v]
Up(t) == shell[t] \in {"attached", "detached", "ending"}
Map == {t \in Terminals : status[t] # "absent"}
ShuttingDown == phase \notin {"down", "up", "stopping"}
Fault == faults < MaxFaults /\ faults' = faults + 1

\* terminalUnknownReservations reads the owners its scan found, less those
\* that got an outcome since.
Unresolved == IF scanning THEN {} ELSE prior \ Map
DetachingForRestart == restart /\ ~quit /\ reattach

Init ==
    /\ limit \in Limits /\ row = All("none") /\ record = All("none") /\ proof = All(FALSE)
    /\ shell = All("none") /\ keeps = All(FALSE)
    /\ phase = "down" /\ started = 0 /\ reattach = FALSE /\ scanning = FALSE
    /\ prior = {} /\ reserved = {} /\ failures = {}
    /\ status = All("absent") /\ create = All("no") /\ end = All("no")
    /\ settle = All(FALSE) /\ claim = All("no") /\ shut = All("no") /\ ends = All("no")
    /\ quit = FALSE /\ restart = FALSE /\ withdrawn = FALSE /\ handed = {}
    /\ disowned = {} /\ faults = 0

(***************************************************************************)
(* What several operations do.                                             *)
(***************************************************************************)
\* An outcome row settles the owner and leaves the cached inventory.
Outcome(t) == row' = [row EXCEPT ![t] = "settled"] /\ prior' = prior \ {t}

\* withdrawReattachRecords removes every record; recordTerminalEmpty and
\* removeTerminalEmpty write and remove an empty proof.
WithdrawnRecords == All("none")
EmptyProof(t, written) == proof' = [proof EXCEPT ![t] = written]

\* A native owner is told to end its shell.
Kill(t) == shell' = IF Up(t) THEN [shell EXCEPT ![t] = "ending"] ELSE shell
Empty(t) == shell[t] \in {"none", "gone"}

\* recoverManagedTerminal finds the owner empty: its proof was written, or it
\* was fully launched and native recovery ended it.
Recovered(t) == Empty(t) /\ (proof[t] \/ row[t] # "requested")

\* Its peer closes: the broker keeps a session's shell, and kills another.
Orphan == shell' = [t \in Terminals |->
    IF shell[t] # "attached" THEN shell[t]
    ELSE IF keeps[t] THEN "detached" ELSE "ending"]

(***************************************************************************)
(* The runtime and its inventory of prior owners.                          *)
(***************************************************************************)
Start ==
    /\ phase = "down" /\ started < MaxRuntimes /\ started' = started + 1
    /\ phase' = "up" /\ reattach' \in BOOLEAN /\ scanning' = TRUE
    /\ UNCHANGED <<durable, native, limit, prior, reserved, failures, status, tasks,
                   intent, handed, disowned, faults>>

\* Mutant: an owner that was requested but never created is not inherited.
OnlyCreated(owners) == {t \in owners : row[t] = "created"}
ScanFinds(owners) == owners

\* The scan completes: unless the runtime is stopping, the manager reloads its
\* reservations and sweeps the files of owners it does not know.
Scanned ==
    /\ scanning /\ scanning' = FALSE
    /\ prior' = ScanFinds({t \in Terminals : row[t] \in {"requested", "created"}})
    /\ IF phase # "up" THEN UNCHANGED <<record, proof, reserved>>
       ELSE /\ reserved' = prior' \ Map
            /\ record' = [t \in Terminals |-> IF t \in reserved' THEN record[t] ELSE "none"]
            /\ proof' = [t \in Terminals |-> t \in reserved' /\ proof[t]]
    /\ UNCHANGED <<row, native, run, failures, status, tasks, intent, handed, disowned, faults>>

\* The process ends, or is killed.  Its sockets close, and every shell still
\* up that a quit was asked for is one no runtime may offer again.
Gone ==
    /\ Orphan
    /\ disowned' = IF quit THEN disowned \cup {t \in Terminals : Up(t)} ELSE disowned
    /\ phase' = "down" /\ reattach' = FALSE /\ scanning' = FALSE
    /\ prior' = {} /\ reserved' = {} /\ failures' = {}
    /\ status' = All("absent") /\ create' = All("no") /\ end' = All("no")
    /\ settle' = All(FALSE) /\ claim' = All("no") /\ shut' = All("no") /\ ends' = All("no")
    /\ quit' = FALSE /\ restart' = FALSE /\ withdrawn' = FALSE /\ handed' = {}
    /\ UNCHANGED <<durable, keeps, started, limit, faults>>

Dies == phase # "down" /\ Gone
Leave == phase \in {"handed over", "left", "given up"} /\ Gone

(***************************************************************************)
(* Launching.                                                              *)
(***************************************************************************)
\* Every terminal in the map and every reservation counts, and exited
\* terminals make room, no more than needed.
Excess == (Cardinality(Map) + Cardinality(reserved) + 1) - limit
Pruned == {pruned \in SUBSET {x \in Map : status[x] = "exited"} :
             Cardinality(pruned) = IF Excess > 0 THEN Excess ELSE 0}

Create(t) ==
    /\ phase = "up" /\ ~scanning /\ row[t] = "none" /\ t \notin Map
    /\ \E pruned \in Pruned :
        status' = [x \in Terminals |-> IF x = t THEN "launching"
                     ELSE IF x \in pruned THEN "absent" ELSE status[x]]
    /\ row' = [row EXCEPT ![t] = "requested"]
    /\ create' = [create EXCEPT ![t] = "spawning"]
    /\ keeps' = [keeps EXCEPT ![t] = reattach]
    /\ UNCHANGED <<record, proof, shell, run, ledger, end, settle, claim, shut,
                   ends, intent, handed, disowned, faults>>

\* The broker starts the shell and answers.
Spawn(t) ==
    /\ create[t] = "spawning" /\ shell[t] = "none"
    /\ shell' = [shell EXCEPT ![t] = "attached"]
    /\ UNCHANGED <<durable, keeps, run, ledger, status, tasks, intent, handed, disowned, faults>>

\* The launch fails, before or after the shell started: it is torn down.
SpawnFails(t) ==
    /\ create[t] = "spawning"
    /\ create' = [create EXCEPT ![t] = "failing"]
    /\ Kill(t)
    /\ UNCHANGED <<durable, keeps, run, ledger, status, end, settle, claim, shut,
                   ends, intent, handed, disowned, faults>>

Kept(t) == keeps[t] /\ ~withdrawn

\* The launch is recorded and its token stored, which may fail; a shell that
\* has exited meanwhile settles.
Ready(t) ==
    /\ create[t] = "spawning" /\ shell[t] # "none"
    /\ row' = [row EXCEPT ![t] = "created"]
    /\ create' = [create EXCEPT ![t] = "no"]
    /\ \/ record' = [record EXCEPT ![t] = IF Kept(t) THEN "current" ELSE @] /\ UNCHANGED faults
       \/ Kept(t) /\ UNCHANGED record /\ Fault
    /\ settle' = [settle EXCEPT ![t] = Empty(t) /\ status[t] = "launching"]
    /\ status' = [status EXCEPT ![t] = IF @ # "launching" THEN @
                                       ELSE IF Empty(t) THEN "settling" ELSE "running"]
    /\ UNCHANGED <<proof, native, run, ledger, end, claim, shut, ends, intent, handed, disowned>>

\* The created outcome cannot be recorded, or the shell's exit could not be
\* verified: the launch is undone.
ReadyFails(t) ==
    /\ create[t] = "spawning" /\ shell[t] # "none"
    /\ \/ Fault /\ UNCHANGED row
       \/ Empty(t) /\ row' = [row EXCEPT ![t] = "created"] /\ UNCHANGED faults
    /\ create' = [create EXCEPT ![t] = "tearing"]
    /\ status' = [status EXCEPT ![t] = "closing"]
    /\ Kill(t)
    /\ UNCHANGED <<record, proof, keeps, run, ledger, end, settle, claim, shut,
                   ends, intent, handed, disowned>>

\* failManagedCreate: proved empty, the launch is recorded as failed; when that
\* fails the proof is on disk and the slot stays reserved.
TornDown(t) ==
    /\ create[t] \in {"failing", "tearing"} /\ Empty(t)
    /\ create' = [create EXCEPT ![t] = "no"]
    /\ status' = [status EXCEPT ![t] = "absent"]
    /\ \/ Outcome(t) /\ record' = [record EXCEPT ![t] = "none"]
          /\ UNCHANGED <<proof, reserved, failures, faults>>
       \/ /\ Fault /\ \E written \in BOOLEAN : EmptyProof(t, written)
          /\ failures' = failures \cup {t} /\ reserved' = reserved \cup {t}
          /\ UNCHANGED <<row, record, prior>>
    /\ UNCHANGED <<native, run, scanning, end, settle, claim, shut, ends, intent, handed, disowned>>

NotTornDown(t) ==
    /\ create[t] \in {"failing", "tearing"}
    /\ create' = [create EXCEPT ![t] = "no"]
    /\ status' = [status EXCEPT ![t] = IF @ = "absent" THEN @ ELSE "unknown"]
    /\ UNCHANGED <<durable, native, run, ledger, end, settle, claim, shut, ends,
                   intent, handed, disowned, faults>>

(***************************************************************************)
(* Exits.                                                                  *)
(***************************************************************************)
\* A shell ends by itself, because it was told to, or when its window closes.
Exits(t) ==
    /\ Up(t) /\ shell' = [shell EXCEPT ![t] = "gone"]
    /\ UNCHANGED <<durable, keeps, run, ledger, status, tasks, intent, handed, disowned, faults>>

\* The owner reports the exit, verified or not.
ExitSeen(t) ==
    /\ shell[t] = "gone" /\ status[t] \in {"running", "detaching"} /\ end[t] = "no"
    /\ \E verified \in BOOLEAN :
        /\ status' = [status EXCEPT ![t] = IF verified THEN "settling" ELSE "unknown"]
        /\ settle' = [settle EXCEPT ![t] = verified]
    /\ UNCHANGED <<durable, native, run, ledger, create, end, claim, shut, ends,
                   intent, handed, disowned, faults>>

\* The connection to the broker is lost: a session's broker takes the shell
\* back, and the owner is recovered natively, or is not.
Disconnected(t) ==
    /\ shell[t] = "attached" /\ status[t] = "running"
    /\ shell' = [shell EXCEPT ![t] = IF keeps[t] THEN "detached" ELSE "ending"]
    /\ status' = [status EXCEPT ![t] = "unknown"]
    /\ UNCHANGED <<durable, keeps, run, ledger, tasks, intent, handed, disowned, faults>>

\* settleNaturalExit, whose outcome a close under way may overtake.
Settles(t) ==
    /\ settle[t] /\ settle' = [settle EXCEPT ![t] = FALSE]
    /\ record' = [record EXCEPT ![t] = "none"]
    /\ \/ Outcome(t) /\ UNCHANGED faults
          /\ status' = [status EXCEPT ![t] = IF @ = "settling" THEN "exited" ELSE @]
       \/ Fault /\ UNCHANGED <<row, prior>>
          /\ status' = [status EXCEPT ![t] = IF @ = "settling" THEN "unknown" ELSE @]
    /\ UNCHANGED <<proof, native, run, scanning, reserved, failures, create, end,
                   claim, shut, ends, intent, handed, disowned>>

Forget(t) ==
    /\ status[t] = "exited" /\ ~ShuttingDown
    /\ status' = [status EXCEPT ![t] = "absent"]
    /\ UNCHANGED <<durable, native, run, ledger, tasks, intent, handed, disowned, faults>>

(***************************************************************************)
(* Closing, by the user or by shutdown, which tries a second time.         *)
(***************************************************************************)
Closes(t) ==
    /\ status' = [status EXCEPT ![t] = "closing"]
    /\ end' = [end EXCEPT ![t] = "asked"]

Close(t) ==
    /\ phase \in {"up", "stopping"} /\ t \in Map /\ end[t] = "no"
    /\ Closes(t)
    /\ UNCHANGED <<durable, native, run, ledger, create, settle, claim, shut, ends,
                   intent, handed, disowned, faults>>

\* The shutdown of a terminal goes on when its close did.
ShutAfter(t, unproven) == IF shut[t] = "closing" /\ unproven THEN "again"
                      ELSE IF shut[t] \in {"closing", "retrying"} THEN "done" ELSE shut[t]

\* A close waits for the launch, and for nothing when the launch failed.
Terminate(t) ==
    /\ end[t] = "asked" /\ create[t] \notin {"spawning", "failing"}
    /\ IF status[t] = "absent"
       THEN /\ end' = [end EXCEPT ![t] = "no"] /\ UNCHANGED shell
            /\ shut' = [shut EXCEPT ![t] = ShutAfter(t, FALSE)]
       ELSE end' = [end EXCEPT ![t] = "ending"] /\ Kill(t) /\ UNCHANGED shut
    /\ UNCHANGED <<durable, keeps, run, ledger, status, create, settle, claim, ends,
                   intent, handed, disowned, faults>>

\* Mutant: the end of the shell's own process is taken for the proof.
Told(t) == Empty(t) \/ shell[t] = "ending"
Proved(t) == Empty(t)

Closed(t) ==
    /\ end[t] = "ending" /\ Proved(t)
    /\ end' = [end EXCEPT ![t] = "no"]
    /\ record' = [record EXCEPT ![t] = "none"]
    /\ \/ Outcome(t) /\ status' = [status EXCEPT ![t] = "absent"] /\ UNCHANGED faults
       \/ /\ Fault /\ UNCHANGED <<row, prior>>
          /\ status' = [status EXCEPT ![t] = IF @ = "absent" THEN @ ELSE "unknown"]
    /\ shut' = [shut EXCEPT ![t] = ShutAfter(t, FALSE)]
    /\ UNCHANGED <<proof, native, run, scanning, reserved, failures, create, settle,
                   claim, ends, intent, handed, disowned>>

CloseUnproven(t) ==
    /\ end[t] = "ending" /\ end' = [end EXCEPT ![t] = "no"]
    /\ status' = [status EXCEPT ![t] = IF @ = "absent" THEN @ ELSE "unknown"]
    /\ shut' = [shut EXCEPT ![t] = ShutAfter(t, TRUE)]
    /\ UNCHANGED <<durable, native, run, ledger, create, settle, claim, ends, intent,
                   handed, disowned, faults>>

(***************************************************************************)
(* Reconciling a reserved owner: a reattach, and native recovery when the  *)
(* owner is not reattached.                                                *)
(***************************************************************************)
\* A launch that failed, verified, only owes its outcome.
Owed(t) ==
    /\ t \in reserved \cap failures /\ ~ShuttingDown /\ ~scanning /\ claim[t] = "no"
    /\ \/ /\ Outcome(t) /\ failures' = failures \ {t}
          /\ EmptyProof(t, FALSE)
          /\ reserved' = (prior \ {t}) \ Map /\ UNCHANGED faults
       \/ /\ Fault /\ EmptyProof(t, TRUE)
          /\ UNCHANGED <<row, prior, failures, reserved>>
    /\ UNCHANGED <<record, native, run, scanning, status, tasks, intent, handed, disowned>>

Reconcile(t) ==
    /\ t \in reserved \ failures /\ ~ShuttingDown /\ ~scanning /\ claim[t] = "no"
    /\ claim' = [claim EXCEPT ![t] =
         IF ~reattach \/ row[t] # "created" \/ t \in Map \/ record[t] = "none"
         THEN "proving" ELSE IF record[t] = "current" THEN "knocking" ELSE "refused"]
    /\ UNCHANGED <<durable, native, run, ledger, status, create, end, settle, shut,
                   ends, intent, handed, disowned, faults>>

\* The broker proved the token: it is spent unless a shutdown began.
Proceed(t) ==
    /\ claim[t] = "knocking" /\ ~ShuttingDown /\ shell[t] = "detached"
    /\ claim' = [claim EXCEPT ![t] = "spending"]
    /\ UNCHANGED <<durable, native, run, ledger, status, create, end, settle, shut,
                   ends, intent, handed, disowned, faults>>

\* The broker takes the next token: the stored one is spent.
Accepts(t) ==
    /\ claim[t] = "spending" /\ shell[t] = "detached"
    /\ shell' = [shell EXCEPT ![t] = "attached"]
    /\ record' = [record EXCEPT ![t] = IF @ = "none" THEN @ ELSE "stale"]
    /\ claim' = [claim EXCEPT ![t] = "accepted"]
    /\ UNCHANGED <<row, proof, keeps, run, ledger, status, create, end, settle, shut,
                   ends, intent, handed, disowned, faults>>

\* Refused, withdrawn or out of time, even after the broker accepted.
NotReattached(t) ==
    /\ claim[t] \in {"knocking", "refused", "spending", "accepted"}
    /\ shell' = [shell EXCEPT ![t] = IF @ = "attached" THEN "detached" ELSE @]
    /\ record' = [record EXCEPT ![t] = IF ShuttingDown THEN @ ELSE "none"]
    /\ claim' = [claim EXCEPT ![t] = IF ShuttingDown THEN "no" ELSE "proving"]
    /\ UNCHANGED <<row, proof, keeps, run, ledger, status, create, end, settle, shut,
                   ends, intent, handed, disowned, faults>>

\* Mutant: the next token is stored although a quit withdrew the records.
StoredAlways(t) == record' = [record EXCEPT ![t] = "current"] /\ UNCHANGED faults
\* The next token is stored, unless a quit withdrew the records or it fails.
Stored(t) ==
    \/ record' = [record EXCEPT ![t] = IF withdrawn THEN "none" ELSE "current"] /\ UNCHANGED faults
    \/ ~withdrawn /\ record' = [record EXCEPT ![t] = "none"] /\ Fault

\* The reattach is recorded and the shell is live again.
Reattached(t) ==
    /\ claim[t] = "accepted" /\ ~ShuttingDown /\ Stored(t)
    /\ claim' = [claim EXCEPT ![t] = "no"]
    /\ status' = [status EXCEPT ![t] = "running"]
    /\ reserved' = prior \ (Map \cup {t})
    /\ UNCHANGED <<row, proof, native, run, scanning, prior, failures, create, end, settle,
                   shut, ends, intent, handed, disowned>>

\* It cannot be recorded: the shell is ended, and the owner proved like others.
Unrecorded(t) ==
    /\ claim[t] = "accepted" /\ ~ShuttingDown /\ Fault
    /\ record' = [record EXCEPT ![t] = "none"]
    /\ claim' = [claim EXCEPT ![t] = "proving"] /\ Kill(t)
    /\ UNCHANGED <<row, proof, keeps, run, ledger, status, create, end, settle, shut,
                   ends, intent, handed, disowned>>

\* A shutdown began: a restart releases the shell to its broker, a quit ends it.
ReattachedLate(t) ==
    /\ claim[t] = "accepted" /\ ShuttingDown /\ Stored(t)
    /\ IF DetachingForRestart
       THEN claim' = [claim EXCEPT ![t] = "releasing"] /\ UNCHANGED shell
       ELSE claim' = [claim EXCEPT ![t] = "dropping"] /\ Kill(t)
    /\ UNCHANGED <<row, proof, keeps, run, ledger, status, create, end, settle, shut,
                   ends, intent, handed, disowned>>

ClaimEnds(t) ==
    /\ \/ /\ claim[t] = "releasing"
          /\ shell' = [shell EXCEPT ![t] = IF @ = "attached" THEN "detached" ELSE @]
       \/ claim[t] = "dropping" /\ UNCHANGED shell
    /\ claim' = [claim EXCEPT ![t] = "no"]
    /\ UNCHANGED <<durable, keeps, run, ledger, status, create, end, settle, shut,
                   ends, intent, handed, disowned, faults>>

\* Native recovery ends a fully launched owner.
Recovers(t) ==
    /\ claim[t] = "proving" \/ ends[t] = "proving"
    /\ row[t] # "requested" /\ shell[t] \in {"attached", "detached"} /\ Kill(t)
    /\ UNCHANGED <<durable, keeps, run, ledger, status, tasks, intent, handed, disowned, faults>>

\* A proved owner is settled, unless a shutdown began; anything else keeps it.
ReconcileEnds(t) ==
    /\ claim[t] = "proving" /\ claim' = [claim EXCEPT ![t] = "no"]
    /\ \/ /\ Recovered(t) /\ ~ShuttingDown /\ t \in prior
          /\ Outcome(t) /\ record' = [record EXCEPT ![t] = "none"]
          /\ EmptyProof(t, FALSE)
          /\ reserved' = (prior \ {t}) \ Map
       \/ UNCHANGED <<row, prior, record, proof, reserved>>
    /\ UNCHANGED <<native, run, scanning, failures, status, create, end, settle, shut,
                   ends, intent, handed, disowned, faults>>

(***************************************************************************)
(* Restarting and quitting.                                                *)
(***************************************************************************)
\* A quit may be asked for at any time, also while a restart shuts down: it
\* withdraws every reattach record at once.
Quit ==
    /\ phase # "down" /\ ~quit /\ quit' = TRUE
    /\ withdrawn' = TRUE /\ record' = WithdrawnRecords
    /\ phase' = IF phase = "up" THEN "stopping" ELSE phase
    /\ UNCHANGED <<row, proof, native, started, reattach, limit, ledger, status, tasks, restart,
                   handed, disowned, faults>>

Restart ==
    /\ phase = "up" /\ phase' = "stopping" /\ restart' = TRUE
    /\ UNCHANGED <<durable, native, started, reattach, limit, ledger, status, tasks, quit,
                   withdrawn, handed, disowned, faults>>

\* The manager's own shutdown begins, and joins the reattaches in flight.
ShutdownBegins ==
    /\ phase = "stopping" /\ phase' = "joining"
    /\ UNCHANGED <<durable, native, started, reattach, limit, ledger, status, tasks, intent,
                   handed, disowned, faults>>

Joined ==
    /\ phase = "joining" /\ \A t \in Terminals : claim[t] \in {"no", "proving"}
    /\ phase' = "closing"
    /\ shut' = [t \in Terminals |-> IF t \in Map THEN "todo" ELSE "no"]
    /\ UNCHANGED <<durable, native, started, reattach, limit, ledger, status, create, end, settle,
                   claim, ends, intent, handed, disowned, faults>>

\* Mutant: a shell is handed back without its record.
Unread(t) == /\ DetachingForRestart /\ status[t] = "running" /\ end[t] = "no"
             /\ create[t] = "no" /\ keeps[t]
CanHandBack(t) == /\ DetachingForRestart /\ status[t] = "running" /\ end[t] = "no"
                  /\ create[t] = "no" /\ keeps[t] /\ record[t] # "none"

HandBack(t) ==
    /\ shut[t] = "todo" /\ CanHandBack(t)
    /\ shut' = [shut EXCEPT ![t] = "handing"]
    /\ status' = [status EXCEPT ![t] = "detaching"]
    /\ UNCHANGED <<durable, native, run, ledger, create, end, settle, claim, ends,
                   intent, handed, disowned, faults>>

\* The broker acknowledges, and the shell is its own.
HandedBack(t) ==
    /\ shut[t] = "handing" /\ shell[t] = "attached"
    /\ shell' = [shell EXCEPT ![t] = "detached"]
    /\ shut' = [shut EXCEPT ![t] = "done"]
    /\ status' = [status EXCEPT ![t] = "absent"] /\ handed' = handed \cup {t}
    /\ UNCHANGED <<durable, keeps, run, ledger, create, end, settle, claim, ends, intent,
                   disowned, faults>>

\* It does not, whether or not it took the shell: the shell is closed.
NotHandedBack(t) ==
    /\ shut[t] = "handing"
    /\ shell' \in {shell, [shell EXCEPT ![t] = IF @ = "attached" THEN "detached" ELSE @]}
    /\ shut' = [shut EXCEPT ![t] = "close"]
    /\ status' = [status EXCEPT ![t] = IF @ = "detaching" THEN "running" ELSE @]
    /\ UNCHANGED <<durable, keeps, run, ledger, create, end, settle, claim, ends, intent,
                   handed, disowned, faults>>

\* Shutdown closes a terminal, joins its close, or tries again.
ShutCloses(t) ==
    /\ \/ shut[t] \in {"close", "again"}
       \/ shut[t] = "todo" /\ ~CanHandBack(t)
    /\ shut' = [shut EXCEPT ![t] = IF status[t] = "absent" THEN "done"
                                   ELSE IF @ = "again" THEN "retrying" ELSE "closing"]
    /\ IF end[t] = "no" /\ status[t] # "absent" THEN Closes(t) ELSE UNCHANGED <<status, end>>
    /\ UNCHANGED <<durable, native, run, ledger, create, settle, claim, ends, intent,
                   handed, disowned, faults>>

\* Mutant: what was handed back is left to the next runtime.
NoneHanded == {}
EndHandedBack == handed

\* Every terminal is dealt with and the intent is final: a quit ends what was
\* handed back before it won.
Decide ==
    /\ phase = "closing" /\ \A t \in Terminals : shut[t] \in {"no", "done"}
    /\ IF DetachingForRestart THEN phase' = "handed over" /\ UNCHANGED <<ends, handed, record>>
       ELSE /\ phase' = "ending" /\ handed' = {}
            /\ ends' = [t \in Terminals |-> IF t \in EndHandedBack THEN "proving" ELSE "no"]
            /\ record' = [t \in Terminals |-> IF t \in EndHandedBack THEN "none" ELSE record[t]]
    /\ UNCHANGED <<row, proof, native, started, reattach, limit, ledger, status, create, end, settle,
                   claim, shut, intent, disowned, faults>>

\* One native attempt for each owner: settled when it is proved empty.
OwnerEnds(t) ==
    /\ ends[t] = "proving" /\ ends' = [ends EXCEPT ![t] = "done"]
    /\ \/ Recovered(t) /\ Outcome(t) /\ EmptyProof(t, FALSE)
       \/ UNCHANGED <<row, prior, proof>>
    /\ UNCHANGED <<record, native, run, scanning, reserved, failures, status, create, end,
                   settle, claim, shut, intent, handed, disowned, faults>>

OwnersTried == \A t \in Terminals : ends[t] # "proving"

\* The owners earlier runtimes left follow, unless their inventory is unknown:
\* then it is waited for, and given up.
EndPrior ==
    /\ phase \in {"ending", "waiting"} /\ OwnersTried /\ ~scanning
    /\ phase' = "ending prior" /\ withdrawn' = TRUE /\ record' = WithdrawnRecords
    /\ ends' = [t \in Terminals |-> IF /\ t \in Unresolved /\ row[t] = "created"
                                        /\ claim[t] # "proving" /\ ends[t] = "no"
                                     THEN "proving" ELSE ends[t]]
    /\ UNCHANGED <<row, proof, native, started, reattach, limit, ledger, status, create, end, settle,
                   claim, shut, quit, restart, handed, disowned, faults>>

AwaitInventory ==
    /\ phase = "ending" /\ OwnersTried /\ scanning
    /\ withdrawn' = TRUE /\ record' = WithdrawnRecords
    /\ phase' = IF ~reattach /\ record = All("none") THEN "given up" ELSE "waiting"
    /\ UNCHANGED <<row, proof, native, started, reattach, limit, ledger, status, tasks, quit, restart,
                   handed, disowned, faults>>

EndsShutdown ==
    /\ \/ phase = "ending prior" /\ OwnersTried /\ phase' = "left"
       \/ phase = "waiting" /\ scanning /\ phase' = "given up"
    /\ UNCHANGED <<durable, native, started, reattach, limit, ledger, status, tasks, intent,
                   handed, disowned, faults>>

Next ==
    \/ Start \/ Scanned \/ Dies \/ Leave \/ Quit \/ Restart \/ ShutdownBegins \/ Joined
    \/ Decide \/ EndPrior \/ AwaitInventory \/ EndsShutdown
    \/ \E t \in Terminals :
        \/ Create(t) \/ Spawn(t) \/ SpawnFails(t) \/ Ready(t) \/ ReadyFails(t) \/ TornDown(t)
        \/ NotTornDown(t) \/ Exits(t) \/ ExitSeen(t) \/ Disconnected(t) \/ Settles(t) \/ Forget(t)
        \/ Close(t) \/ Terminate(t) \/ Closed(t) \/ CloseUnproven(t)
        \/ Owed(t) \/ Reconcile(t) \/ Proceed(t) \/ Accepts(t) \/ NotReattached(t)
        \/ Reattached(t) \/ Unrecorded(t) \/ ReattachedLate(t) \/ ClaimEnds(t) \/ Recovers(t)
        \/ ReconcileEnds(t) \/ HandBack(t) \/ HandedBack(t) \/ NotHandedBack(t)
        \/ ShutCloses(t) \/ OwnerEnds(t)

Spec == Init /\ [][Next]_vars

(***************************************************************************)
(* Properties.                                                             *)
(***************************************************************************)
TypeOK ==
    /\ limit \in Limits /\ row \in [Terminals -> {"none", "requested", "created", "settled"}]
    /\ record \in [Terminals -> {"none", "current", "stale"}]
    /\ proof \in [Terminals -> BOOLEAN] /\ keeps \in [Terminals -> BOOLEAN]
    /\ shell \in [Terminals -> {"none", "attached", "detached", "ending", "gone"}]
    /\ phase \in {"down", "up", "stopping", "joining", "closing", "handed over",
                  "ending", "waiting", "ending prior", "left", "given up"}
    /\ started \in 0..MaxRuntimes /\ faults \in 0..MaxFaults
    /\ {reattach, scanning, quit, restart, withdrawn} \subseteq BOOLEAN
    /\ prior \subseteq Terminals /\ reserved \subseteq Terminals /\ failures \subseteq Terminals
    /\ status \in [Terminals -> {"absent", "launching", "running", "settling", "closing",
                                 "detaching", "exited", "unknown"}]
    /\ create \in [Terminals -> {"no", "spawning", "failing", "tearing"}]
    /\ end \in [Terminals -> {"no", "asked", "ending"}] /\ settle \in [Terminals -> BOOLEAN]
    /\ claim \in [Terminals -> {"no", "knocking", "refused", "spending", "accepted",
                                "releasing", "dropping", "proving"}]
    /\ shut \in [Terminals -> {"no", "todo", "handing", "close", "closing", "again", "retrying", "done"}]
    /\ ends \in [Terminals -> {"no", "proving", "done"}]
    /\ handed \subseteq Terminals /\ disowned \subseteq Terminals

\* An owner gets its outcome (terminal.exited, closed, recovered or
\* create.failed) only when its shell is gone, whichever of the exit, a close,
\* the reconciliation or the quit records it.
OutcomeMeansGone == \A t \in Terminals : row[t] = "settled" => Empty(t)

\* The shells that are up never exceed maxTerminals, whoever holds them: those
\* of earlier runtimes keep their slots until they are proved gone.  (The types
\* of the state are checked with it.)
ShellsWithinLimit == TypeOK /\ Cardinality({t \in Terminals : Up(t)}) <= limit

\* A runtime told to quit that knows its inventory leaves no shell without a
\* native attempt: when it turns to the owners earlier runtimes left, each shell
\* still up is tried now, was tried, is under recovery, or could not be closed.
\* The shells a restart had already handed back are no exception.
QuitTriesEveryShell ==
    [][(phase # "ending prior" /\ phase' = "ending prior") =>
         \A t \in Terminals : (Up(t) /\ row[t] = "created") =>
            ends'[t] # "no" \/ claim[t] = "proving" \/ status[t] = "unknown"]_vars

\* A shell handed back by a restart can be reattached by the next runtime: its
\* stored token is the one the broker accepts and its owner is on record,
\* unless a quit takes it back.  And no runtime reattaches a shell that was up
\* when a runtime told to quit ended, however it ended and whenever the quit was
\* asked for.
HandBackAndQuitKept ==
    /\ \A t \in handed : ~withdrawn => record[t] = "current" /\ row[t] = "created"
    /\ \A t \in disowned : shell[t] # "attached"
=============================================================================
