-------------------------- MODULE TerminalsProofs --------------------------
(***************************************************************************)
(* Proofs about Terminals, for any finite set of terminals, any limit and  *)
(* any number of runtimes and failures.                                    *)
(*                                                                         *)
(* The invariant is stated terminal by terminal, in ten parts.  The one    *)
(* the limit rests on is Known: whenever the runtime has its inventory, a  *)
(* shell that is up and not in the map is an owner it inherited, one it    *)
(* handed back or one the quit is ending, and while launches are possible  *)
(* it is reserved.  Claiming, HandingBack and Shutting say what the tasks  *)
(* running on a terminal exclude, which is what makes the outcomes true    *)
(* and the records current.                                                *)
(*                                                                         *)
(* Each action has a lemma: the invariant is kept, and no terminal becomes *)
(* one whose shell is up or may start (Taken).  Only a launch takes a      *)
(* slot, and CreateSlots counts what is left for it.  In a lemma, <1>u and *)
(* <1>s say what the action does, <1>3 is about the other terminals        *)
(* (Elsewhere), and <1>4 goes through the parts for its own.               *)
(***************************************************************************)
EXTENDS Terminals, FiniteSetTheorems, TLAPS

\* The phases after the reattaches in flight were joined.
Late == {"closing", "handed over", "ending", "waiting", "ending prior", "left", "given up"}
\* The phases in which reservations are worked on.
Early == {"up", "stopping"}
\* What a reattach under way does, short of proving an owner.
Claims == {"knocking", "refused", "spending", "accepted", "releasing", "dropping"}

\* The statuses of a terminal, and the places of its shutdown.
Statuses == {"absent", "launching", "running", "settling", "closing", "detaching", "exited",
             "unknown"}
Shuts == {"no", "todo", "handing", "close", "closing", "again", "retrying", "done"}

\* The terminals whose shell is up or may still start.
In(t) == Up(t) \/ (create[t] = "spawning" /\ shell[t] = "none")
\* All of them.
Taken == {t \in Terminals : In(t)}

\* The type of each variable.
Typed ==
    /\ limit \in Limits /\ row \in [Terminals -> {"none", "requested", "created", "settled"}]
    /\ record \in [Terminals -> {"none", "current", "stale"}]
    /\ proof \in [Terminals -> BOOLEAN] /\ keeps \in [Terminals -> BOOLEAN]
    /\ shell \in [Terminals -> {"none", "attached", "detached", "ending", "gone"}]
    /\ phase \in {"down", "up", "stopping", "joining"} \cup Late
    /\ started \in 0..MaxRuntimes /\ faults \in 0..MaxFaults
    /\ reattach \in BOOLEAN /\ scanning \in BOOLEAN
    /\ quit \in BOOLEAN /\ restart \in BOOLEAN /\ withdrawn \in BOOLEAN
    /\ prior \subseteq Terminals /\ reserved \subseteq Terminals /\ failures \subseteq Terminals
    /\ status \in [Terminals -> Statuses]
    /\ create \in [Terminals -> {"no", "spawning", "failing", "tearing"}]
    /\ end \in [Terminals -> {"no", "asked", "ending"}] /\ settle \in [Terminals -> BOOLEAN]
    /\ claim \in [Terminals -> Claims \cup {"no", "proving"}]
    /\ shut \in [Terminals -> Shuts]
    /\ ends \in [Terminals -> {"no", "proving", "done"}]
    /\ handed \subseteq Terminals /\ disowned \subseteq Terminals

\* The owner's rows and its shell.
Rows(t) ==
    /\ row[t] = "none" => shell[t] = "none" /\ create[t] = "no" /\ status[t] = "absent"
                         /\ record[t] = "none" /\ end[t] = "no" /\ claim[t] = "no"
    /\ row[t] = "settled" => Empty(t) /\ create[t] # "spawning"
    /\ settle[t] => shell[t] = "gone"
    /\ status[t] = "exited" => shell[t] = "gone" /\ row[t] = "settled"

\* A launch under way.
Launching(t) ==
    /\ create[t] = "spawning" => /\ row[t] = "requested" /\ ~settle[t] /\ record[t] = "none"
                                 /\ status[t] \in {"launching", "closing"}
    /\ create[t] \in {"spawning", "failing"} => end[t] # "ending"
    /\ status[t] = "launching" => end[t] = "no"
    /\ create[t] # "no" => /\ t \notin prior /\ t \notin reserved /\ t \notin failures
                           /\ claim[t] = "no" /\ ends[t] = "no" 

\* An owner of an earlier runtime, and one whose launch failed.
Inherited(t) ==
    /\ t \in prior => row[t] \in {"requested", "created"}
    /\ t \in prior /\ status[t] = "absent" => end[t] = "no" /\ ~settle[t]
    /\ t \in reserved => status[t] = "absent" /\ row[t] # "none"
    /\ t \in reserved \ failures /\ phase \in Early => t \in prior
    /\ t \in failures => Empty(t) /\ row[t] # "none"

\* A reattach under way.
Claiming(t) ==
    /\ claim[t] # "no" => status[t] = "absent"
    /\ claim[t] \in Claims => t \in prior /\ row[t] = "created" /\ ends[t] = "no" /\ phase \notin Late

\* A shell that can be handed back, is being handed back or was.
HandingBack(t) ==
    /\ status[t] \in {"running", "detaching"} => /\ row[t] = "created" /\ record[t] # "stale"
                                                 /\ end[t] = "no" /\ ~settle[t] /\ create[t] = "no"
    /\ status[t] = "detaching" => shut[t] = "handing" /\ (withdrawn \/ record[t] = "current")
    /\ shut[t] = "handing" => create[t] = "no" /\ (shell[t] = "attached" => status[t] = "detaching")
    /\ t \in handed =>
         /\ status[t] = "absent" /\ create[t] = "no" /\ end[t] = "no" /\ ~settle[t] /\ claim[t] = "no"
         /\ shut[t] = "done" /\ (withdrawn \/ (record[t] = "current" /\ row[t] = "created"))
         /\ phase \in {"closing", "handed over"} /\ ends[t] = "no"

\* The shutdown of a terminal.
Shutting(t) ==
    /\ shut[t] # "no" => phase \in Late
    /\ phase \in Late /\ status[t] # "absent" => shut[t] # "no"
    /\ phase \in Late \ {"closing"} => shut[t] \in {"no", "done"}
    /\ shut[t] = "done" => create[t] # "spawning"
    /\ shut[t] = "done" /\ status[t] # "absent" /\ Up(t) => status[t] = "unknown"
    /\ ends[t] # "no" => phase \in Late \ {"closing", "handed over"} /\ status[t] = "absent"

\* A shell that is up is known: it is in the map, an owner inherited, or handed back and then
\* ended.
Known(t) ==
    phase # "down" /\ ~scanning /\ Up(t) /\ status[t] = "absent" =>
        /\ t \in prior \/ t \in handed \/ ends[t] # "no"
        /\ phase = "up" => t \in reserved

\* A shell that was up when a runtime told to quit ended.
Abandoned(t) ==
    t \in disowned => /\ shell[t] \notin {"none", "attached"} /\ record[t] = "none"
                      /\ create[t] = "no" /\ claim[t] \notin Claims /\ row[t] # "none"

\* Nothing runs on a terminal, or is known of it, before the inventory is read.
Blank(t) ==
    phase = "down" \/ scanning =>
        /\ status[t] = "absent" /\ create[t] = "no" /\ end[t] = "no" /\ ~settle[t]
        /\ claim[t] = "no" /\ shut[t] = "no" /\ ends[t] = "no"
        /\ t \notin prior /\ t \notin reserved /\ t \notin failures /\ t \notin handed

\* A quit takes every reattach record.
Withdrawn(t) == withdrawn => record[t] = "none"

\* What holds of a terminal.
Parts(t) ==
    /\ Rows(t) /\ Launching(t) /\ Inherited(t) /\ Claiming(t) /\ HandingBack(t)
    /\ Shutting(t) /\ Known(t) /\ Abandoned(t) /\ Blank(t) /\ Withdrawn(t)

\* All parts hold of all terminals.
PerTerminal == \A t \in Terminals : Parts(t)

\* A runtime's intent is its own.
Globals ==
    /\ phase = "down" => ~quit /\ ~withdrawn /\ ~scanning /\ ~restart
    /\ quit => withdrawn

\* The inductive invariant.
Inv == Typed /\ Globals /\ PerTerminal

\* What a step at another terminal leaves alone; it may read the reservations again from the
\* inventory.
Same(x) ==
    /\ row'[x] = row[x] /\ record'[x] = record[x] /\ shell'[x] = shell[x] /\ status'[x] = status[x]
    /\ create'[x] = create[x] /\ end'[x] = end[x] /\ settle'[x] = settle[x] /\ claim'[x] = claim[x]
    /\ shut'[x] = shut[x] /\ ends'[x] = ends[x]
    /\ (x \in prior' <=> x \in prior) /\ (x \in failures' <=> x \in failures)
    /\ (x \in handed' <=> x \in handed) /\ (x \in disowned' <=> x \in disowned)
    /\ \/ x \in reserved' <=> x \in reserved
       \/ /\ ~scanning /\ phase # "down"
          /\ x \in reserved' <=> (x \in prior /\ status[x] = "absent")

\* A step at one terminal leaves what holds of another.
LEMMA Elsewhere ==
  ASSUME Inv, UNCHANGED <<phase, scanning, withdrawn>>, NEW x \in Terminals, Same(x)
  PROVE  Parts(x)' /\ (In(x)' => In(x))
<1>h. Parts(x)  BY DEF Inv, PerTerminal
<1>1. Rows(x)'  BY <1>h DEF Parts, Same, Rows, Empty
<1>2. Launching(x)'  BY <1>h DEF Parts, Same, Launching, Inherited, Rows
<1>3. Inherited(x)'  BY <1>h DEF Parts, Same, Inherited, Empty, Early
<1>4. Claiming(x)'  BY <1>h DEF Parts, Same, Claiming
<1>5. HandingBack(x)'  BY <1>h DEF Parts, Same, HandingBack
<1>6. Shutting(x)'  BY <1>h DEF Parts, Same, Shutting, Up
<1>7. Known(x)'  BY <1>h DEF Parts, Same, Known, HandingBack, Shutting, Up, Late
<1>8. Abandoned(x)'  BY <1>h DEF Parts, Same, Abandoned
<1>9. Blank(x)'  BY <1>h DEF Parts, Same, Blank
<1>10. Withdrawn(x)'  BY <1>h DEF Parts, Same, Withdrawn
<1>11. In(x)' => In(x)  BY DEF Same, In, Up
<1>. QED  BY <1>1, <1>2, <1>3, <1>4, <1>5, <1>6, <1>7, <1>8, <1>9, <1>10, <1>11 DEF Parts

\* Spawn keeps the invariant, and takes no slot.
LEMMA SpawnInv ==
  ASSUME Inv, NEW t \in Terminals, Spawn(t)
  PROVE  Inv' /\ Taken' \subseteq Taken
<1>u. UNCHANGED <<row, record, proof, keeps, phase, started, reattach, limit, scanning, prior,
                  reserved, failures, status, create, end, settle, claim, shut, ends, quit,
                  restart, withdrawn, handed, disowned, faults>>
  BY DEF Spawn, durable, run, ledger, tasks, intent
<1>k1. shell' \in [Terminals -> {"none", "attached", "detached", "ending", "gone"}]
       /\ \A x \in Terminals \ {t} : shell'[x] = shell[x]
  BY DEF Inv, Typed, Statuses, Claims, Shuts, Spawn
<1>s. /\ create[t] = "spawning" /\ shell[t] = "none"
      /\ shell'[t] = "attached"
  BY DEF Inv, Typed, Spawn
<1>1. Typed'
  BY <1>u, <1>k1 DEF Inv, Typed
<1>2. Globals'
  BY <1>u DEF Inv, Globals
<1>h. Parts(t) /\ record[t] \in {"none", "current", "stale"}
  BY DEF Inv, Typed, PerTerminal
<1>3. ASSUME NEW x \in Terminals, x # t
      PROVE  Parts(x)' /\ (In(x)' => In(x))
  <2>1. Same(x)  BY <1>3, <1>u, <1>k1 DEF Same
  <2>. QED  BY <2>1, <1>u, Elsewhere
<1>4. Parts(t)'
  <2>. USE <1>h, <1>u, <1>s
         DEF Parts, Rows, Launching, Inherited, Claiming, HandingBack, Shutting, Known, Abandoned,
             Blank, Withdrawn, Claims, Late, Early, ShuttingDown, Up, Empty
  <2>1. Rows(t)'  OBVIOUS
  <2>2. Launching(t)'  OBVIOUS
  <2>3. Inherited(t)'  OBVIOUS
  <2>4. Claiming(t)'  OBVIOUS
  <2>5. HandingBack(t)'  OBVIOUS
  <2>6. Shutting(t)'  OBVIOUS
  <2>7. Known(t)'  OBVIOUS
  <2>8. Abandoned(t)'  OBVIOUS
  <2>9. Blank(t)'  OBVIOUS
  <2>10. Withdrawn(t)'  OBVIOUS
  <2>. QED  BY <2>1, <2>2, <2>3, <2>4, <2>5, <2>6, <2>7, <2>8, <2>9, <2>10 DEF Parts
<1>5. In(t)' => In(t)
  BY <1>h, <1>u, <1>s DEF In, Parts, Rows, Launching, Up, Empty
<1>. QED  BY <1>1, <1>2, <1>3, <1>4, <1>5 DEF Inv, PerTerminal, Taken

\* SpawnFails keeps the invariant, and takes no slot.
LEMMA SpawnFailsInv ==
  ASSUME Inv, NEW t \in Terminals, SpawnFails(t)
  PROVE  Inv' /\ Taken' \subseteq Taken
<1>u. UNCHANGED <<row, record, proof, keeps, phase, started, reattach, limit, scanning, prior,
                  reserved, failures, status, end, settle, claim, shut, ends, quit, restart,
                  withdrawn, handed, disowned, faults>>
  BY DEF SpawnFails, durable, run, ledger, intent
<1>k1. shell' \in [Terminals -> {"none", "attached", "detached", "ending", "gone"}]
       /\ \A x \in Terminals \ {t} : shell'[x] = shell[x]
  BY DEF Inv, Typed, Statuses, Claims, Shuts, SpawnFails, Kill, Up
<1>k2. create' \in [Terminals -> {"no", "spawning", "failing", "tearing"}]
       /\ \A x \in Terminals \ {t} : create'[x] = create[x]
  BY DEF Inv, Typed, Statuses, Claims, Shuts, SpawnFails, Kill, Up
<1>s. /\ create[t] = "spawning"
      /\ create'[t] = "failing"
      /\ shell'[t] = (IF Up(t) THEN "ending" ELSE shell[t])
  BY DEF Inv, Typed, SpawnFails, Kill
<1>1. Typed'
  BY <1>u, <1>k1, <1>k2 DEF Inv, Typed
<1>2. Globals'
  BY <1>u DEF Inv, Globals
<1>h. Parts(t) /\ record[t] \in {"none", "current", "stale"}
  BY DEF Inv, Typed, PerTerminal
<1>3. ASSUME NEW x \in Terminals, x # t
      PROVE  Parts(x)' /\ (In(x)' => In(x))
  <2>1. Same(x)  BY <1>3, <1>u, <1>k1, <1>k2 DEF Same
  <2>. QED  BY <2>1, <1>u, Elsewhere
<1>4. Parts(t)'
  <2>. USE <1>h, <1>u, <1>s
         DEF Parts, Rows, Launching, Inherited, Claiming, HandingBack, Shutting, Known, Abandoned,
             Blank, Withdrawn, Claims, Late, Early, ShuttingDown, Up, Empty
  <2>1. Rows(t)'  OBVIOUS
  <2>2. Launching(t)'  OBVIOUS
  <2>3. Inherited(t)'  OBVIOUS
  <2>4. Claiming(t)'  OBVIOUS
  <2>5. HandingBack(t)'  OBVIOUS
  <2>6. Shutting(t)'  OBVIOUS
  <2>7. Known(t)'  OBVIOUS
  <2>8. Abandoned(t)'  OBVIOUS
  <2>9. Blank(t)'  OBVIOUS
  <2>10. Withdrawn(t)'  OBVIOUS
  <2>. QED  BY <2>1, <2>2, <2>3, <2>4, <2>5, <2>6, <2>7, <2>8, <2>9, <2>10 DEF Parts
<1>5. In(t)' => In(t)
  BY <1>h, <1>u, <1>s DEF In, Parts, Rows, Launching, Up, Empty
<1>. QED  BY <1>1, <1>2, <1>3, <1>4, <1>5 DEF Inv, PerTerminal, Taken

\* Ready keeps the invariant, and takes no slot.
LEMMA ReadyInv ==
  ASSUME Inv, NEW t \in Terminals, Ready(t)
  PROVE  Inv' /\ Taken' \subseteq Taken
<1>u. UNCHANGED <<proof, shell, keeps, phase, started, reattach, limit, scanning, prior, reserved,
                  failures, end, claim, shut, ends, quit, restart, withdrawn, handed, disowned>>
  BY DEF Ready, native, run, ledger, intent
<1>k1. row' \in [Terminals -> {"none", "requested", "created", "settled"}]
       /\ \A x \in Terminals \ {t} : row'[x] = row[x]
  BY DEF Inv, Typed, Statuses, Claims, Shuts, Ready, Kept, Fault, Empty
<1>k2. record' \in [Terminals -> {"none", "current", "stale"}]
       /\ \A x \in Terminals \ {t} : record'[x] = record[x]
  BY DEF Inv, Typed, Statuses, Claims, Shuts, Ready, Kept, Fault, Empty
<1>k3. status' \in [Terminals -> Statuses]
       /\ \A x \in Terminals \ {t} : status'[x] = status[x]
  BY DEF Inv, Typed, Statuses, Claims, Shuts, Ready, Kept, Fault, Empty
<1>k4. create' \in [Terminals -> {"no", "spawning", "failing", "tearing"}]
       /\ \A x \in Terminals \ {t} : create'[x] = create[x]
  BY DEF Inv, Typed, Statuses, Claims, Shuts, Ready, Kept, Fault, Empty
<1>k5. settle' \in [Terminals -> BOOLEAN]
       /\ \A x \in Terminals \ {t} : settle'[x] = settle[x]
  BY DEF Inv, Typed, Statuses, Claims, Shuts, Ready, Kept, Fault, Empty
<1>f. faults' \in 0..MaxFaults
  BY TerminalBounds DEF Inv, Typed, Ready, Fault
<1>s. /\ create[t] = "spawning" /\ shell[t] # "none"
      /\ row'[t] = "created"
      /\ create'[t] = "no"
      /\ \/ record'[t] = (IF Kept(t) THEN "current" ELSE record[t])
         \/ Kept(t) /\ UNCHANGED record
      /\ settle'[t] = (Empty(t) /\ status[t] = "launching")
      /\ status'[t] = (IF status[t] # "launching" THEN status[t]
                                         ELSE IF Empty(t) THEN "settling" ELSE "running")
  BY DEF Inv, Typed, Ready, Fault
<1>1. Typed'
  BY <1>u, <1>k1, <1>k2, <1>k3, <1>k4, <1>k5, <1>f DEF Inv, Typed
<1>2. Globals'
  BY <1>u DEF Inv, Globals
<1>h. Parts(t) /\ record[t] \in {"none", "current", "stale"}
  BY DEF Inv, Typed, PerTerminal
<1>3. ASSUME NEW x \in Terminals, x # t
      PROVE  Parts(x)' /\ (In(x)' => In(x))
  <2>1. Same(x)  BY <1>3, <1>u, <1>k1, <1>k2, <1>k3, <1>k4, <1>k5 DEF Same
  <2>. QED  BY <2>1, <1>u, Elsewhere
<1>4. Parts(t)'
  <2>. USE <1>h, <1>u, <1>s
         DEF Parts, Rows, Launching, Inherited, Claiming, HandingBack, Shutting, Known, Abandoned,
             Blank, Withdrawn, Claims, Late, Early, ShuttingDown, Up, Empty, Kept
  <2>1. Rows(t)'  OBVIOUS
  <2>2. Launching(t)'  OBVIOUS
  <2>3. Inherited(t)'  OBVIOUS
  <2>4. Claiming(t)'  OBVIOUS
  <2>5. HandingBack(t)'  OBVIOUS
  <2>6. Shutting(t)'  OBVIOUS
  <2>7. Known(t)'  OBVIOUS
  <2>8. Abandoned(t)'  OBVIOUS
  <2>9. Blank(t)'  OBVIOUS
  <2>10. Withdrawn(t)'  OBVIOUS
  <2>. QED  BY <2>1, <2>2, <2>3, <2>4, <2>5, <2>6, <2>7, <2>8, <2>9, <2>10 DEF Parts
<1>5. In(t)' => In(t)
  BY <1>h, <1>u, <1>s DEF In, Parts, Rows, Launching, Up, Empty, Kept
<1>. QED  BY <1>1, <1>2, <1>3, <1>4, <1>5 DEF Inv, PerTerminal, Taken

\* ReadyFails keeps the invariant, and takes no slot.
LEMMA ReadyFailsInv ==
  ASSUME Inv, NEW t \in Terminals, ReadyFails(t)
  PROVE  Inv' /\ Taken' \subseteq Taken
<1>u. UNCHANGED <<record, proof, keeps, phase, started, reattach, limit, scanning, prior,
                  reserved, failures, end, settle, claim, shut, ends, quit, restart, withdrawn,
                  handed, disowned>>
  BY DEF ReadyFails, run, ledger, intent
<1>k1. row' \in [Terminals -> {"none", "requested", "created", "settled"}]
       /\ \A x \in Terminals \ {t} : row'[x] = row[x]
  BY DEF Inv, Typed, Statuses, Claims, Shuts, ReadyFails, Fault, Empty, Kill, Up
<1>k2. shell' \in [Terminals -> {"none", "attached", "detached", "ending", "gone"}]
       /\ \A x \in Terminals \ {t} : shell'[x] = shell[x]
  BY DEF Inv, Typed, Statuses, Claims, Shuts, ReadyFails, Fault, Empty, Kill, Up
<1>k3. status' \in [Terminals -> Statuses]
       /\ \A x \in Terminals \ {t} : status'[x] = status[x]
  BY DEF Inv, Typed, Statuses, Claims, Shuts, ReadyFails, Fault, Empty, Kill, Up
<1>k4. create' \in [Terminals -> {"no", "spawning", "failing", "tearing"}]
       /\ \A x \in Terminals \ {t} : create'[x] = create[x]
  BY DEF Inv, Typed, Statuses, Claims, Shuts, ReadyFails, Fault, Empty, Kill, Up
<1>f. faults' \in 0..MaxFaults
  BY TerminalBounds DEF Inv, Typed, ReadyFails, Fault, Kill
<1>s. /\ create[t] = "spawning" /\ shell[t] # "none"
      /\ \/ UNCHANGED row
         \/ Empty(t) /\ row'[t] = "created"
      /\ create'[t] = "tearing"
      /\ status'[t] = "closing"
      /\ shell'[t] = (IF Up(t) THEN "ending" ELSE shell[t])
  BY DEF Inv, Typed, ReadyFails, Fault, Kill
<1>1. Typed'
  BY <1>u, <1>k1, <1>k2, <1>k3, <1>k4, <1>f DEF Inv, Typed
<1>2. Globals'
  BY <1>u DEF Inv, Globals
<1>h. Parts(t) /\ record[t] \in {"none", "current", "stale"}
  BY DEF Inv, Typed, PerTerminal
<1>3. ASSUME NEW x \in Terminals, x # t
      PROVE  Parts(x)' /\ (In(x)' => In(x))
  <2>1. Same(x)  BY <1>3, <1>u, <1>k1, <1>k2, <1>k3, <1>k4 DEF Same
  <2>. QED  BY <2>1, <1>u, Elsewhere
<1>4. Parts(t)'
  <2>. USE <1>h, <1>u, <1>s
         DEF Parts, Rows, Launching, Inherited, Claiming, HandingBack, Shutting, Known, Abandoned,
             Blank, Withdrawn, Claims, Late, Early, ShuttingDown, Up, Empty
  <2>1. Rows(t)'  OBVIOUS
  <2>2. Launching(t)'  OBVIOUS
  <2>3. Inherited(t)'  OBVIOUS
  <2>4. Claiming(t)'  OBVIOUS
  <2>5. HandingBack(t)'  OBVIOUS
  <2>6. Shutting(t)'  OBVIOUS
  <2>7. Known(t)'  OBVIOUS
  <2>8. Abandoned(t)'  OBVIOUS
  <2>9. Blank(t)'  OBVIOUS
  <2>10. Withdrawn(t)'  OBVIOUS
  <2>. QED  BY <2>1, <2>2, <2>3, <2>4, <2>5, <2>6, <2>7, <2>8, <2>9, <2>10 DEF Parts
<1>5. In(t)' => In(t)
  BY <1>h, <1>u, <1>s DEF In, Parts, Rows, Launching, Up, Empty
<1>. QED  BY <1>1, <1>2, <1>3, <1>4, <1>5 DEF Inv, PerTerminal, Taken

\* TornDown keeps the invariant, and takes no slot.
LEMMA TornDownInv ==
  ASSUME Inv, NEW t \in Terminals, TornDown(t)
  PROVE  Inv' /\ Taken' \subseteq Taken
<1>u. UNCHANGED <<shell, keeps, phase, started, reattach, limit, scanning, end, settle, claim,
                  shut, ends, quit, restart, withdrawn, handed, disowned>>
  BY DEF TornDown, native, run, intent
<1>k1. row' \in [Terminals -> {"none", "requested", "created", "settled"}]
       /\ \A x \in Terminals \ {t} : row'[x] = row[x]
  BY DEF Inv, Typed, Statuses, Claims, Shuts, TornDown, Empty, Outcome, Fault, EmptyProof
<1>k2. record' \in [Terminals -> {"none", "current", "stale"}]
       /\ \A x \in Terminals \ {t} : record'[x] = record[x]
  BY DEF Inv, Typed, Statuses, Claims, Shuts, TornDown, Empty, Outcome, Fault, EmptyProof
<1>k3. proof' \in [Terminals -> BOOLEAN]
  <2>1. proof' = proof \/ \E w \in BOOLEAN : proof' = [proof EXCEPT ![t] = w]
    BY DEF TornDown, EmptyProof
  <2>. QED  BY <2>1 DEF Inv, Typed
<1>k4. prior' \subseteq Terminals
  BY DEF Inv, Typed, TornDown, Outcome, Fault, EmptyProof
<1>k5. reserved' \subseteq Terminals
  BY DEF Inv, Typed, TornDown, Outcome, Fault, EmptyProof
<1>k6. failures' \subseteq Terminals
  BY DEF Inv, Typed, TornDown, Outcome, Fault, EmptyProof
<1>k7. status' \in [Terminals -> Statuses]
       /\ \A x \in Terminals \ {t} : status'[x] = status[x]
  BY DEF Inv, Typed, Statuses, Claims, Shuts, TornDown, Empty, Outcome, Fault, EmptyProof
<1>k8. create' \in [Terminals -> {"no", "spawning", "failing", "tearing"}]
       /\ \A x \in Terminals \ {t} : create'[x] = create[x]
  BY DEF Inv, Typed, Statuses, Claims, Shuts, TornDown, Empty, Outcome, Fault, EmptyProof
<1>f. faults' \in 0..MaxFaults
  BY TerminalBounds DEF Inv, Typed, TornDown, Outcome, Fault, EmptyProof
<1>s. /\ create[t] \in {"failing", "tearing"} /\ Empty(t)
      /\ create'[t] = "no"
      /\ status'[t] = "absent"
      /\ \/ row'[t] = "settled" /\ prior' = prior \ {t} /\ record'[t] = "none"
            /\ UNCHANGED <<reserved, failures>>
         \/
            /\ failures' = failures \cup {t} /\ reserved' = reserved \cup {t}
            /\ UNCHANGED <<row, record, prior>>
  BY DEF Inv, Typed, TornDown, Outcome, Fault, EmptyProof
<1>1. Typed'
  BY <1>u, <1>k1, <1>k2, <1>k3, <1>k4, <1>k5, <1>k6, <1>k7, <1>k8, <1>f DEF Inv, Typed
<1>2. Globals'
  BY <1>u DEF Inv, Globals
<1>h. Parts(t) /\ record[t] \in {"none", "current", "stale"}
  BY DEF Inv, Typed, PerTerminal
<1>3. ASSUME NEW x \in Terminals, x # t
      PROVE  Parts(x)' /\ (In(x)' => In(x))
  <2>1. Same(x)  BY <1>3, <1>u, <1>k1, <1>k2, <1>k3, <1>k4, <1>k5, <1>k6, <1>k7, <1>k8, <1>s DEF Same
  <2>. QED  BY <2>1, <1>u, Elsewhere
<1>4. Parts(t)'
  <2>. USE <1>h, <1>u, <1>s
         DEF Parts, Rows, Launching, Inherited, Claiming, HandingBack, Shutting, Known, Abandoned,
             Blank, Withdrawn, Claims, Late, Early, ShuttingDown, Up, Empty
  <2>1. Rows(t)'  OBVIOUS
  <2>2. Launching(t)'  OBVIOUS
  <2>3. Inherited(t)'  OBVIOUS
  <2>4. Claiming(t)'  OBVIOUS
  <2>5. HandingBack(t)'  OBVIOUS
  <2>6. Shutting(t)'  OBVIOUS
  <2>7. Known(t)'  OBVIOUS
  <2>8. Abandoned(t)'  OBVIOUS
  <2>9. Blank(t)'  OBVIOUS
  <2>10. Withdrawn(t)'  OBVIOUS
  <2>. QED  BY <2>1, <2>2, <2>3, <2>4, <2>5, <2>6, <2>7, <2>8, <2>9, <2>10 DEF Parts
<1>5. In(t)' => In(t)
  BY <1>h, <1>u, <1>s DEF In, Parts, Rows, Launching, Up, Empty
<1>. QED  BY <1>1, <1>2, <1>3, <1>4, <1>5 DEF Inv, PerTerminal, Taken

\* NotTornDown keeps the invariant, and takes no slot.
LEMMA NotTornDownInv ==
  ASSUME Inv, NEW t \in Terminals, NotTornDown(t)
  PROVE  Inv' /\ Taken' \subseteq Taken
<1>u. UNCHANGED <<row, record, proof, shell, keeps, phase, started, reattach, limit, scanning,
                  prior, reserved, failures, end, settle, claim, shut, ends, quit, restart,
                  withdrawn, handed, disowned, faults>>
  BY DEF NotTornDown, durable, native, run, ledger, intent
<1>k1. status' \in [Terminals -> Statuses]
       /\ \A x \in Terminals \ {t} : status'[x] = status[x]
  BY DEF Inv, Typed, Statuses, Claims, Shuts, NotTornDown
<1>k2. create' \in [Terminals -> {"no", "spawning", "failing", "tearing"}]
       /\ \A x \in Terminals \ {t} : create'[x] = create[x]
  BY DEF Inv, Typed, Statuses, Claims, Shuts, NotTornDown
<1>s. /\ create[t] \in {"failing", "tearing"}
      /\ create'[t] = "no"
      /\ status'[t] = (IF status[t] = "absent" THEN status[t] ELSE "unknown")
  BY DEF Inv, Typed, NotTornDown
<1>1. Typed'
  BY <1>u, <1>k1, <1>k2 DEF Inv, Typed
<1>2. Globals'
  BY <1>u DEF Inv, Globals
<1>h. Parts(t) /\ record[t] \in {"none", "current", "stale"}
  BY DEF Inv, Typed, PerTerminal
<1>3. ASSUME NEW x \in Terminals, x # t
      PROVE  Parts(x)' /\ (In(x)' => In(x))
  <2>1. Same(x)  BY <1>3, <1>u, <1>k1, <1>k2 DEF Same
  <2>. QED  BY <2>1, <1>u, Elsewhere
<1>4. Parts(t)'
  <2>. USE <1>h, <1>u, <1>s
         DEF Parts, Rows, Launching, Inherited, Claiming, HandingBack, Shutting, Known, Abandoned,
             Blank, Withdrawn, Claims, Late, Early, ShuttingDown, Up, Empty
  <2>1. Rows(t)'  OBVIOUS
  <2>2. Launching(t)'  OBVIOUS
  <2>3. Inherited(t)'  OBVIOUS
  <2>4. Claiming(t)'  OBVIOUS
  <2>5. HandingBack(t)'  OBVIOUS
  <2>6. Shutting(t)'  OBVIOUS
  <2>7. Known(t)'  OBVIOUS
  <2>8. Abandoned(t)'  OBVIOUS
  <2>9. Blank(t)'  OBVIOUS
  <2>10. Withdrawn(t)'  OBVIOUS
  <2>. QED  BY <2>1, <2>2, <2>3, <2>4, <2>5, <2>6, <2>7, <2>8, <2>9, <2>10 DEF Parts
<1>5. In(t)' => In(t)
  BY <1>h, <1>u, <1>s DEF In, Parts, Rows, Launching, Up, Empty
<1>. QED  BY <1>1, <1>2, <1>3, <1>4, <1>5 DEF Inv, PerTerminal, Taken

\* Exits keeps the invariant, and takes no slot.
LEMMA ExitsInv ==
  ASSUME Inv, NEW t \in Terminals, Exits(t)
  PROVE  Inv' /\ Taken' \subseteq Taken
<1>u. UNCHANGED <<row, record, proof, keeps, phase, started, reattach, limit, scanning, prior,
                  reserved, failures, status, create, end, settle, claim, shut, ends, quit,
                  restart, withdrawn, handed, disowned, faults>>
  BY DEF Exits, durable, run, ledger, tasks, intent
<1>k1. shell' \in [Terminals -> {"none", "attached", "detached", "ending", "gone"}]
       /\ \A x \in Terminals \ {t} : shell'[x] = shell[x]
  BY DEF Inv, Typed, Statuses, Claims, Shuts, Exits, Up
<1>s. /\ Up(t) /\ shell'[t] = "gone"
  BY DEF Inv, Typed, Exits
<1>1. Typed'
  BY <1>u, <1>k1 DEF Inv, Typed
<1>2. Globals'
  BY <1>u DEF Inv, Globals
<1>h. Parts(t) /\ record[t] \in {"none", "current", "stale"}
  BY DEF Inv, Typed, PerTerminal
<1>3. ASSUME NEW x \in Terminals, x # t
      PROVE  Parts(x)' /\ (In(x)' => In(x))
  <2>1. Same(x)  BY <1>3, <1>u, <1>k1 DEF Same
  <2>. QED  BY <2>1, <1>u, Elsewhere
<1>4. Parts(t)'
  <2>. USE <1>h, <1>u, <1>s
         DEF Parts, Rows, Launching, Inherited, Claiming, HandingBack, Shutting, Known, Abandoned,
             Blank, Withdrawn, Claims, Late, Early, ShuttingDown, Up, Empty
  <2>1. Rows(t)'  OBVIOUS
  <2>2. Launching(t)'  OBVIOUS
  <2>3. Inherited(t)'  OBVIOUS
  <2>4. Claiming(t)'  OBVIOUS
  <2>5. HandingBack(t)'  OBVIOUS
  <2>6. Shutting(t)'  OBVIOUS
  <2>7. Known(t)'  OBVIOUS
  <2>8. Abandoned(t)'  OBVIOUS
  <2>9. Blank(t)'  OBVIOUS
  <2>10. Withdrawn(t)'  OBVIOUS
  <2>. QED  BY <2>1, <2>2, <2>3, <2>4, <2>5, <2>6, <2>7, <2>8, <2>9, <2>10 DEF Parts
<1>5. In(t)' => In(t)
  BY <1>h, <1>u, <1>s DEF In, Parts, Rows, Launching, Up, Empty
<1>. QED  BY <1>1, <1>2, <1>3, <1>4, <1>5 DEF Inv, PerTerminal, Taken

\* ExitSeen keeps the invariant, and takes no slot.
LEMMA ExitSeenInv ==
  ASSUME Inv, NEW t \in Terminals, ExitSeen(t)
  PROVE  Inv' /\ Taken' \subseteq Taken
<1>u. UNCHANGED <<row, record, proof, shell, keeps, phase, started, reattach, limit, scanning,
                  prior, reserved, failures, create, end, claim, shut, ends, quit, restart,
                  withdrawn, handed, disowned, faults>>
  BY DEF ExitSeen, durable, native, run, ledger, intent
<1>k1. status' \in [Terminals -> Statuses]
       /\ \A x \in Terminals \ {t} : status'[x] = status[x]
  BY DEF Inv, Typed, Statuses, Claims, Shuts, ExitSeen
<1>k2. settle' \in [Terminals -> BOOLEAN]
       /\ \A x \in Terminals \ {t} : settle'[x] = settle[x]
  BY DEF Inv, Typed, Statuses, Claims, Shuts, ExitSeen
<1>s. /\ shell[t] = "gone" /\ status[t] \in {"running", "detaching"} /\ end[t] = "no"
      /\ \E verified \in BOOLEAN :
          /\ status'[t] = (IF verified THEN "settling" ELSE "unknown")
          /\ settle'[t] = verified
  BY DEF Inv, Typed, ExitSeen
<1>1. Typed'
  BY <1>u, <1>k1, <1>k2 DEF Inv, Typed
<1>2. Globals'
  BY <1>u DEF Inv, Globals
<1>h. Parts(t) /\ record[t] \in {"none", "current", "stale"}
  BY DEF Inv, Typed, PerTerminal
<1>3. ASSUME NEW x \in Terminals, x # t
      PROVE  Parts(x)' /\ (In(x)' => In(x))
  <2>1. Same(x)  BY <1>3, <1>u, <1>k1, <1>k2 DEF Same
  <2>. QED  BY <2>1, <1>u, Elsewhere
<1>4. Parts(t)'
  <2>. USE <1>h, <1>u, <1>s
         DEF Parts, Rows, Launching, Inherited, Claiming, HandingBack, Shutting, Known, Abandoned,
             Blank, Withdrawn, Claims, Late, Early, ShuttingDown, Up, Empty
  <2>1. Rows(t)'  OBVIOUS
  <2>2. Launching(t)'  OBVIOUS
  <2>3. Inherited(t)'  OBVIOUS
  <2>4. Claiming(t)'  OBVIOUS
  <2>5. HandingBack(t)'  OBVIOUS
  <2>6. Shutting(t)'  OBVIOUS
  <2>7. Known(t)'  OBVIOUS
  <2>8. Abandoned(t)'  OBVIOUS
  <2>9. Blank(t)'  OBVIOUS
  <2>10. Withdrawn(t)'  OBVIOUS
  <2>. QED  BY <2>1, <2>2, <2>3, <2>4, <2>5, <2>6, <2>7, <2>8, <2>9, <2>10 DEF Parts
<1>5. In(t)' => In(t)
  BY <1>h, <1>u, <1>s DEF In, Parts, Rows, Launching, Up, Empty
<1>. QED  BY <1>1, <1>2, <1>3, <1>4, <1>5 DEF Inv, PerTerminal, Taken

\* Disconnected keeps the invariant, and takes no slot.
LEMMA DisconnectedInv ==
  ASSUME Inv, NEW t \in Terminals, Disconnected(t)
  PROVE  Inv' /\ Taken' \subseteq Taken
<1>u. UNCHANGED <<row, record, proof, keeps, phase, started, reattach, limit, scanning, prior,
                  reserved, failures, create, end, settle, claim, shut, ends, quit, restart,
                  withdrawn, handed, disowned, faults>>
  BY DEF Disconnected, durable, run, ledger, tasks, intent
<1>k1. shell' \in [Terminals -> {"none", "attached", "detached", "ending", "gone"}]
       /\ \A x \in Terminals \ {t} : shell'[x] = shell[x]
  BY DEF Inv, Typed, Statuses, Claims, Shuts, Disconnected
<1>k2. status' \in [Terminals -> Statuses]
       /\ \A x \in Terminals \ {t} : status'[x] = status[x]
  BY DEF Inv, Typed, Statuses, Claims, Shuts, Disconnected
<1>s. /\ shell[t] = "attached" /\ status[t] = "running"
      /\ shell'[t] = (IF keeps[t] THEN "detached" ELSE "ending")
      /\ status'[t] = "unknown"
  BY DEF Inv, Typed, Disconnected
<1>1. Typed'
  BY <1>u, <1>k1, <1>k2 DEF Inv, Typed
<1>2. Globals'
  BY <1>u DEF Inv, Globals
<1>h. Parts(t) /\ record[t] \in {"none", "current", "stale"}
  BY DEF Inv, Typed, PerTerminal
<1>3. ASSUME NEW x \in Terminals, x # t
      PROVE  Parts(x)' /\ (In(x)' => In(x))
  <2>1. Same(x)  BY <1>3, <1>u, <1>k1, <1>k2 DEF Same
  <2>. QED  BY <2>1, <1>u, Elsewhere
<1>4. Parts(t)'
  <2>. USE <1>h, <1>u, <1>s
         DEF Parts, Rows, Launching, Inherited, Claiming, HandingBack, Shutting, Known, Abandoned,
             Blank, Withdrawn, Claims, Late, Early, ShuttingDown, Up, Empty
  <2>1. Rows(t)'  OBVIOUS
  <2>2. Launching(t)'  OBVIOUS
  <2>3. Inherited(t)'  OBVIOUS
  <2>4. Claiming(t)'  OBVIOUS
  <2>5. HandingBack(t)'  OBVIOUS
  <2>6. Shutting(t)'  OBVIOUS
  <2>7. Known(t)'  OBVIOUS
  <2>8. Abandoned(t)'  OBVIOUS
  <2>9. Blank(t)'  OBVIOUS
  <2>10. Withdrawn(t)'  OBVIOUS
  <2>. QED  BY <2>1, <2>2, <2>3, <2>4, <2>5, <2>6, <2>7, <2>8, <2>9, <2>10 DEF Parts
<1>5. In(t)' => In(t)
  BY <1>h, <1>u, <1>s DEF In, Parts, Rows, Launching, Up, Empty
<1>. QED  BY <1>1, <1>2, <1>3, <1>4, <1>5 DEF Inv, PerTerminal, Taken

\* Settles keeps the invariant, and takes no slot.
LEMMA SettlesInv ==
  ASSUME Inv, NEW t \in Terminals, Settles(t)
  PROVE  Inv' /\ Taken' \subseteq Taken
<1>u. UNCHANGED <<proof, shell, keeps, phase, started, reattach, limit, scanning, reserved,
                  failures, create, end, claim, shut, ends, quit, restart, withdrawn, handed,
                  disowned>>
  BY DEF Settles, native, run, intent
<1>k1. row' \in [Terminals -> {"none", "requested", "created", "settled"}]
       /\ \A x \in Terminals \ {t} : row'[x] = row[x]
  BY DEF Inv, Typed, Statuses, Claims, Shuts, Settles, Outcome, Fault
<1>k2. record' \in [Terminals -> {"none", "current", "stale"}]
       /\ \A x \in Terminals \ {t} : record'[x] = record[x]
  BY DEF Inv, Typed, Statuses, Claims, Shuts, Settles, Outcome, Fault
<1>k3. prior' \subseteq Terminals
  BY DEF Inv, Typed, Settles, Outcome, Fault
<1>k4. status' \in [Terminals -> Statuses]
       /\ \A x \in Terminals \ {t} : status'[x] = status[x]
  BY DEF Inv, Typed, Statuses, Claims, Shuts, Settles, Outcome, Fault
<1>k5. settle' \in [Terminals -> BOOLEAN]
       /\ \A x \in Terminals \ {t} : settle'[x] = settle[x]
  BY DEF Inv, Typed, Statuses, Claims, Shuts, Settles, Outcome, Fault
<1>f. faults' \in 0..MaxFaults
  BY TerminalBounds DEF Inv, Typed, Settles, Outcome, Fault
<1>s. /\ settle[t] /\ settle'[t] = FALSE
      /\ record'[t] = "none"
      /\ \/ row'[t] = "settled" /\ prior' = prior \ {t}
            /\ status'[t] = (IF status[t] = "settling" THEN "exited" ELSE status[t])
         \/ UNCHANGED <<row, prior>>
            /\ status'[t] = (IF status[t] = "settling" THEN "unknown" ELSE status[t])
  BY DEF Inv, Typed, Settles, Outcome, Fault
<1>1. Typed'
  BY <1>u, <1>k1, <1>k2, <1>k3, <1>k4, <1>k5, <1>f DEF Inv, Typed
<1>2. Globals'
  BY <1>u DEF Inv, Globals
<1>h. Parts(t) /\ record[t] \in {"none", "current", "stale"}
  BY DEF Inv, Typed, PerTerminal
<1>3. ASSUME NEW x \in Terminals, x # t
      PROVE  Parts(x)' /\ (In(x)' => In(x))
  <2>1. Same(x)  BY <1>3, <1>u, <1>k1, <1>k2, <1>k3, <1>k4, <1>k5, <1>s DEF Same
  <2>. QED  BY <2>1, <1>u, Elsewhere
<1>4. Parts(t)'
  <2>. USE <1>h, <1>u, <1>s
         DEF Parts, Rows, Launching, Inherited, Claiming, HandingBack, Shutting, Known, Abandoned,
             Blank, Withdrawn, Claims, Late, Early, ShuttingDown, Up, Empty
  <2>1. Rows(t)'  OBVIOUS
  <2>2. Launching(t)'  OBVIOUS
  <2>3. Inherited(t)'  OBVIOUS
  <2>4. Claiming(t)'  OBVIOUS
  <2>5. HandingBack(t)'  OBVIOUS
  <2>6. Shutting(t)'  OBVIOUS
  <2>7. Known(t)'  OBVIOUS
  <2>8. Abandoned(t)'  OBVIOUS
  <2>9. Blank(t)'  OBVIOUS
  <2>10. Withdrawn(t)'  OBVIOUS
  <2>. QED  BY <2>1, <2>2, <2>3, <2>4, <2>5, <2>6, <2>7, <2>8, <2>9, <2>10 DEF Parts
<1>5. In(t)' => In(t)
  BY <1>h, <1>u, <1>s DEF In, Parts, Rows, Launching, Up, Empty
<1>. QED  BY <1>1, <1>2, <1>3, <1>4, <1>5 DEF Inv, PerTerminal, Taken

\* Forget keeps the invariant, and takes no slot.
LEMMA ForgetInv ==
  ASSUME Inv, NEW t \in Terminals, Forget(t)
  PROVE  Inv' /\ Taken' \subseteq Taken
<1>u. UNCHANGED <<row, record, proof, shell, keeps, phase, started, reattach, limit, scanning,
                  prior, reserved, failures, create, end, settle, claim, shut, ends, quit,
                  restart, withdrawn, handed, disowned, faults>>
  BY DEF Forget, durable, native, run, ledger, tasks, intent
<1>k1. status' \in [Terminals -> Statuses]
       /\ \A x \in Terminals \ {t} : status'[x] = status[x]
  BY DEF Inv, Typed, Statuses, Claims, Shuts, Forget, ShuttingDown
<1>s. /\ status[t] = "exited" /\ ~ShuttingDown
      /\ status'[t] = "absent"
  BY DEF Inv, Typed, Forget
<1>1. Typed'
  BY <1>u, <1>k1 DEF Inv, Typed
<1>2. Globals'
  BY <1>u DEF Inv, Globals
<1>h. Parts(t) /\ record[t] \in {"none", "current", "stale"}
  BY DEF Inv, Typed, PerTerminal
<1>3. ASSUME NEW x \in Terminals, x # t
      PROVE  Parts(x)' /\ (In(x)' => In(x))
  <2>1. Same(x)  BY <1>3, <1>u, <1>k1 DEF Same
  <2>. QED  BY <2>1, <1>u, Elsewhere
<1>4. Parts(t)'
  <2>. USE <1>h, <1>u, <1>s
         DEF Parts, Rows, Launching, Inherited, Claiming, HandingBack, Shutting, Known, Abandoned,
             Blank, Withdrawn, Claims, Late, Early, ShuttingDown, Up, Empty
  <2>1. Rows(t)'  OBVIOUS
  <2>2. Launching(t)'  OBVIOUS
  <2>3. Inherited(t)'  OBVIOUS
  <2>4. Claiming(t)'  OBVIOUS
  <2>5. HandingBack(t)'  OBVIOUS
  <2>6. Shutting(t)'  OBVIOUS
  <2>7. Known(t)'  OBVIOUS
  <2>8. Abandoned(t)'  OBVIOUS
  <2>9. Blank(t)'  OBVIOUS
  <2>10. Withdrawn(t)'  OBVIOUS
  <2>. QED  BY <2>1, <2>2, <2>3, <2>4, <2>5, <2>6, <2>7, <2>8, <2>9, <2>10 DEF Parts
<1>5. In(t)' => In(t)
  BY <1>h, <1>u, <1>s DEF In, Parts, Rows, Launching, Up, Empty, ShuttingDown
<1>. QED  BY <1>1, <1>2, <1>3, <1>4, <1>5 DEF Inv, PerTerminal, Taken

\* Close keeps the invariant, and takes no slot.
LEMMA CloseInv ==
  ASSUME Inv, NEW t \in Terminals, Close(t)
  PROVE  Inv' /\ Taken' \subseteq Taken
<1>u. UNCHANGED <<row, record, proof, shell, keeps, phase, started, reattach, limit, scanning,
                  prior, reserved, failures, create, settle, claim, shut, ends, quit, restart,
                  withdrawn, handed, disowned, faults>>
  BY DEF Close, durable, native, run, ledger, intent
<1>k1. status' \in [Terminals -> Statuses]
       /\ \A x \in Terminals \ {t} : status'[x] = status[x]
  BY DEF Inv, Typed, Statuses, Claims, Shuts, Close, Map, Closes
<1>k2. end' \in [Terminals -> {"no", "asked", "ending"}]
       /\ \A x \in Terminals \ {t} : end'[x] = end[x]
  BY DEF Inv, Typed, Statuses, Claims, Shuts, Close, Map, Closes
<1>s. /\ phase \in {"up", "stopping"} /\ t \in Map /\ end[t] = "no"
      /\ (status'[t] = "closing" /\ end'[t] = "asked")
  BY DEF Inv, Typed, Close, Closes
<1>1. Typed'
  BY <1>u, <1>k1, <1>k2 DEF Inv, Typed
<1>2. Globals'
  BY <1>u DEF Inv, Globals
<1>h. Parts(t) /\ record[t] \in {"none", "current", "stale"}
  BY DEF Inv, Typed, PerTerminal
<1>3. ASSUME NEW x \in Terminals, x # t
      PROVE  Parts(x)' /\ (In(x)' => In(x))
  <2>1. Same(x)  BY <1>3, <1>u, <1>k1, <1>k2 DEF Same
  <2>. QED  BY <2>1, <1>u, Elsewhere
<1>4. Parts(t)'
  <2>. USE <1>h, <1>u, <1>s
         DEF Parts, Rows, Launching, Inherited, Claiming, HandingBack, Shutting, Known, Abandoned,
             Blank, Withdrawn, Claims, Late, Early, ShuttingDown, Up, Empty, Map
  <2>1. Rows(t)'  OBVIOUS
  <2>2. Launching(t)'  OBVIOUS
  <2>3. Inherited(t)'  OBVIOUS
  <2>4. Claiming(t)'  OBVIOUS
  <2>5. HandingBack(t)'  OBVIOUS
  <2>6. Shutting(t)'  OBVIOUS
  <2>7. Known(t)'  OBVIOUS
  <2>8. Abandoned(t)'  OBVIOUS
  <2>9. Blank(t)'  OBVIOUS
  <2>10. Withdrawn(t)'  OBVIOUS
  <2>. QED  BY <2>1, <2>2, <2>3, <2>4, <2>5, <2>6, <2>7, <2>8, <2>9, <2>10 DEF Parts
<1>5. In(t)' => In(t)
  BY <1>h, <1>u, <1>s DEF In, Parts, Rows, Launching, Up, Empty, Map
<1>. QED  BY <1>1, <1>2, <1>3, <1>4, <1>5 DEF Inv, PerTerminal, Taken

\* Terminate keeps the invariant, and takes no slot.
LEMMA TerminateInv ==
  ASSUME Inv, NEW t \in Terminals, Terminate(t)
  PROVE  Inv' /\ Taken' \subseteq Taken
<1>u. UNCHANGED <<row, record, proof, keeps, phase, started, reattach, limit, scanning, prior,
                  reserved, failures, status, create, settle, claim, ends, quit, restart,
                  withdrawn, handed, disowned, faults>>
  BY DEF Terminate, durable, run, ledger, intent
<1>k1. shell' \in [Terminals -> {"none", "attached", "detached", "ending", "gone"}]
       /\ \A x \in Terminals \ {t} : shell'[x] = shell[x]
  BY DEF Inv, Typed, Statuses, Claims, Shuts, Terminate, ShutAfter, Kill, Up
<1>k2. end' \in [Terminals -> {"no", "asked", "ending"}]
       /\ \A x \in Terminals \ {t} : end'[x] = end[x]
  BY DEF Inv, Typed, Statuses, Claims, Shuts, Terminate, ShutAfter, Kill, Up
<1>k3. shut' \in [Terminals -> Shuts]
       /\ \A x \in Terminals \ {t} : shut'[x] = shut[x]
  BY DEF Inv, Typed, Statuses, Claims, Shuts, Terminate, ShutAfter, Kill, Up
<1>s. /\ end[t] = "asked" /\ create[t] \notin {"spawning", "failing"}
      /\ IF status[t] = "absent"
         THEN /\ end'[t] = "no" /\ UNCHANGED shell
              /\ shut'[t] = ShutAfter(t, FALSE)
         ELSE end'[t] = "ending" /\ shell'[t] = (IF Up(t) THEN "ending" ELSE shell[t]) /\ UNCHANGED shut
  <2>1. CASE status[t] = "absent"  BY <2>1 DEF Inv, Typed, Terminate
  <2>2. CASE status[t] # "absent"
    <3>1. end'[t] = "ending" /\ UNCHANGED shut  BY <2>2 DEF Inv, Typed, Terminate
    <3>2. shell'[t] = (IF Up(t) THEN "ending" ELSE shell[t])  BY <2>2 DEF Inv, Typed, Terminate, Kill
    <3>. QED  BY <2>2, <3>1, <3>2 DEF Terminate
  <2>. QED  BY <2>1, <2>2
<1>1. Typed'
  BY <1>u, <1>k1, <1>k2, <1>k3 DEF Inv, Typed
<1>2. Globals'
  BY <1>u DEF Inv, Globals
<1>h. Parts(t) /\ record[t] \in {"none", "current", "stale"}
  BY DEF Inv, Typed, PerTerminal
<1>3. ASSUME NEW x \in Terminals, x # t
      PROVE  Parts(x)' /\ (In(x)' => In(x))
  <2>1. Same(x)  BY <1>3, <1>u, <1>k1, <1>k2, <1>k3 DEF Same
  <2>. QED  BY <2>1, <1>u, Elsewhere
<1>4. Parts(t)'
  <2>. USE <1>h, <1>u, <1>s
         DEF Parts, Rows, Launching, Inherited, Claiming, HandingBack, Shutting, Known, Abandoned,
             Blank, Withdrawn, Claims, Late, Early, ShuttingDown, Up, Empty, ShutAfter
  <2>1. Rows(t)'  OBVIOUS
  <2>2. Launching(t)'  OBVIOUS
  <2>3. Inherited(t)'  OBVIOUS
  <2>4. Claiming(t)'  OBVIOUS
  <2>5. HandingBack(t)'  OBVIOUS
  <2>6. Shutting(t)'  OBVIOUS
  <2>7. Known(t)'  OBVIOUS
  <2>8. Abandoned(t)'  OBVIOUS
  <2>9. Blank(t)'  OBVIOUS
  <2>10. Withdrawn(t)'  OBVIOUS
  <2>. QED  BY <2>1, <2>2, <2>3, <2>4, <2>5, <2>6, <2>7, <2>8, <2>9, <2>10 DEF Parts
<1>5. In(t)' => In(t)
  BY <1>h, <1>u, <1>s DEF In, Parts, Rows, Launching, Up, Empty, ShutAfter
<1>. QED  BY <1>1, <1>2, <1>3, <1>4, <1>5 DEF Inv, PerTerminal, Taken

\* Closed keeps the invariant, and takes no slot.
LEMMA ClosedInv ==
  ASSUME Inv, NEW t \in Terminals, Closed(t)
  PROVE  Inv' /\ Taken' \subseteq Taken
<1>u. UNCHANGED <<proof, shell, keeps, phase, started, reattach, limit, scanning, reserved,
                  failures, create, settle, claim, ends, quit, restart, withdrawn, handed,
                  disowned>>
  BY DEF Closed, native, run, intent
<1>k1. row' \in [Terminals -> {"none", "requested", "created", "settled"}]
       /\ \A x \in Terminals \ {t} : row'[x] = row[x]
  BY DEF Inv, Typed, Statuses, Claims, Shuts, Closed, Proved, Empty, Outcome, Fault, ShutAfter
<1>k2. record' \in [Terminals -> {"none", "current", "stale"}]
       /\ \A x \in Terminals \ {t} : record'[x] = record[x]
  BY DEF Inv, Typed, Statuses, Claims, Shuts, Closed, Proved, Empty, Outcome, Fault, ShutAfter
<1>k3. prior' \subseteq Terminals
  BY DEF Inv, Typed, Closed, Outcome, Fault
<1>k4. status' \in [Terminals -> Statuses]
       /\ \A x \in Terminals \ {t} : status'[x] = status[x]
  BY DEF Inv, Typed, Statuses, Claims, Shuts, Closed, Proved, Empty, Outcome, Fault, ShutAfter
<1>k5. end' \in [Terminals -> {"no", "asked", "ending"}]
       /\ \A x \in Terminals \ {t} : end'[x] = end[x]
  BY DEF Inv, Typed, Statuses, Claims, Shuts, Closed, Proved, Empty, Outcome, Fault, ShutAfter
<1>k6. shut' \in [Terminals -> Shuts]
       /\ \A x \in Terminals \ {t} : shut'[x] = shut[x]
  BY DEF Inv, Typed, Statuses, Claims, Shuts, Closed, Proved, Empty, Outcome, Fault, ShutAfter
<1>f. faults' \in 0..MaxFaults
  BY TerminalBounds DEF Inv, Typed, Closed, Outcome, Fault
<1>s. /\ end[t] = "ending" /\ Proved(t)
      /\ end'[t] = "no"
      /\ record'[t] = "none"
      /\ \/ row'[t] = "settled" /\ prior' = prior \ {t} /\ status'[t] = "absent"
         \/ /\ UNCHANGED <<row, prior>>
            /\ status'[t] = (IF status[t] = "absent" THEN status[t] ELSE "unknown")
      /\ shut'[t] = ShutAfter(t, FALSE)
  BY DEF Inv, Typed, Closed, Outcome, Fault
<1>1. Typed'
  BY <1>u, <1>k1, <1>k2, <1>k3, <1>k4, <1>k5, <1>k6, <1>f DEF Inv, Typed
<1>2. Globals'
  BY <1>u DEF Inv, Globals
<1>h. Parts(t) /\ record[t] \in {"none", "current", "stale"}
  BY DEF Inv, Typed, PerTerminal
<1>3. ASSUME NEW x \in Terminals, x # t
      PROVE  Parts(x)' /\ (In(x)' => In(x))
  <2>1. Same(x)  BY <1>3, <1>u, <1>k1, <1>k2, <1>k3, <1>k4, <1>k5, <1>k6, <1>s DEF Same
  <2>. QED  BY <2>1, <1>u, Elsewhere
<1>4. Parts(t)'
  <2>. USE <1>h, <1>u, <1>s
         DEF Parts, Rows, Launching, Inherited, Claiming, HandingBack, Shutting, Known, Abandoned,
             Blank, Withdrawn, Claims, Late, Early, ShuttingDown, Up, Empty, Proved, ShutAfter
  <2>1. Rows(t)'  OBVIOUS
  <2>2. Launching(t)'  OBVIOUS
  <2>3. Inherited(t)'  OBVIOUS
  <2>4. Claiming(t)'  OBVIOUS
  <2>5. HandingBack(t)'  OBVIOUS
  <2>6. Shutting(t)'  OBVIOUS
  <2>7. Known(t)'  OBVIOUS
  <2>8. Abandoned(t)'  OBVIOUS
  <2>9. Blank(t)'  OBVIOUS
  <2>10. Withdrawn(t)'  OBVIOUS
  <2>. QED  BY <2>1, <2>2, <2>3, <2>4, <2>5, <2>6, <2>7, <2>8, <2>9, <2>10 DEF Parts
<1>5. In(t)' => In(t)
  BY <1>h, <1>u, <1>s DEF In, Parts, Rows, Launching, Up, Empty, Proved, ShutAfter
<1>. QED  BY <1>1, <1>2, <1>3, <1>4, <1>5 DEF Inv, PerTerminal, Taken

\* CloseUnproven keeps the invariant, and takes no slot.
LEMMA CloseUnprovenInv ==
  ASSUME Inv, NEW t \in Terminals, CloseUnproven(t)
  PROVE  Inv' /\ Taken' \subseteq Taken
<1>u. UNCHANGED <<row, record, proof, shell, keeps, phase, started, reattach, limit, scanning,
                  prior, reserved, failures, create, settle, claim, ends, quit, restart,
                  withdrawn, handed, disowned, faults>>
  BY DEF CloseUnproven, durable, native, run, ledger, intent
<1>k1. status' \in [Terminals -> Statuses]
       /\ \A x \in Terminals \ {t} : status'[x] = status[x]
  BY DEF Inv, Typed, Statuses, Claims, Shuts, CloseUnproven, ShutAfter
<1>k2. end' \in [Terminals -> {"no", "asked", "ending"}]
       /\ \A x \in Terminals \ {t} : end'[x] = end[x]
  BY DEF Inv, Typed, Statuses, Claims, Shuts, CloseUnproven, ShutAfter
<1>k3. shut' \in [Terminals -> Shuts]
       /\ \A x \in Terminals \ {t} : shut'[x] = shut[x]
  BY DEF Inv, Typed, Statuses, Claims, Shuts, CloseUnproven, ShutAfter
<1>s. /\ end[t] = "ending" /\ end'[t] = "no"
      /\ status'[t] = (IF status[t] = "absent" THEN status[t] ELSE "unknown")
      /\ shut'[t] = ShutAfter(t, TRUE)
  BY DEF Inv, Typed, CloseUnproven
<1>1. Typed'
  BY <1>u, <1>k1, <1>k2, <1>k3 DEF Inv, Typed
<1>2. Globals'
  BY <1>u DEF Inv, Globals
<1>h. Parts(t) /\ record[t] \in {"none", "current", "stale"}
  BY DEF Inv, Typed, PerTerminal
<1>3. ASSUME NEW x \in Terminals, x # t
      PROVE  Parts(x)' /\ (In(x)' => In(x))
  <2>1. Same(x)  BY <1>3, <1>u, <1>k1, <1>k2, <1>k3 DEF Same
  <2>. QED  BY <2>1, <1>u, Elsewhere
<1>4. Parts(t)'
  <2>. USE <1>h, <1>u, <1>s
         DEF Parts, Rows, Launching, Inherited, Claiming, HandingBack, Shutting, Known, Abandoned,
             Blank, Withdrawn, Claims, Late, Early, ShuttingDown, Up, Empty, ShutAfter
  <2>1. Rows(t)'  OBVIOUS
  <2>2. Launching(t)'  OBVIOUS
  <2>3. Inherited(t)'  OBVIOUS
  <2>4. Claiming(t)'  OBVIOUS
  <2>5. HandingBack(t)'  OBVIOUS
  <2>6. Shutting(t)'  OBVIOUS
  <2>7. Known(t)'  OBVIOUS
  <2>8. Abandoned(t)'  OBVIOUS
  <2>9. Blank(t)'  OBVIOUS
  <2>10. Withdrawn(t)'  OBVIOUS
  <2>. QED  BY <2>1, <2>2, <2>3, <2>4, <2>5, <2>6, <2>7, <2>8, <2>9, <2>10 DEF Parts
<1>5. In(t)' => In(t)
  BY <1>h, <1>u, <1>s DEF In, Parts, Rows, Launching, Up, Empty, ShutAfter
<1>. QED  BY <1>1, <1>2, <1>3, <1>4, <1>5 DEF Inv, PerTerminal, Taken

\* Proceed keeps the invariant, and takes no slot.
LEMMA ProceedInv ==
  ASSUME Inv, NEW t \in Terminals, Proceed(t)
  PROVE  Inv' /\ Taken' \subseteq Taken
<1>u. UNCHANGED <<row, record, proof, shell, keeps, phase, started, reattach, limit, scanning,
                  prior, reserved, failures, status, create, end, settle, shut, ends, quit,
                  restart, withdrawn, handed, disowned, faults>>
  BY DEF Proceed, durable, native, run, ledger, intent
<1>k1. claim' \in [Terminals -> Claims \cup {"no", "proving"}]
       /\ \A x \in Terminals \ {t} : claim'[x] = claim[x]
  BY DEF Inv, Typed, Statuses, Claims, Shuts, Proceed, ShuttingDown
<1>s. /\ claim[t] = "knocking" /\ ~ShuttingDown /\ shell[t] = "detached"
      /\ claim'[t] = "spending"
  BY DEF Inv, Typed, Proceed
<1>1. Typed'
  BY <1>u, <1>k1 DEF Inv, Typed
<1>2. Globals'
  BY <1>u DEF Inv, Globals
<1>h. Parts(t) /\ record[t] \in {"none", "current", "stale"}
  BY DEF Inv, Typed, PerTerminal
<1>3. ASSUME NEW x \in Terminals, x # t
      PROVE  Parts(x)' /\ (In(x)' => In(x))
  <2>1. Same(x)  BY <1>3, <1>u, <1>k1 DEF Same
  <2>. QED  BY <2>1, <1>u, Elsewhere
<1>4. Parts(t)'
  <2>. USE <1>h, <1>u, <1>s
         DEF Parts, Rows, Launching, Inherited, Claiming, HandingBack, Shutting, Known, Abandoned,
             Blank, Withdrawn, Claims, Late, Early, ShuttingDown, Up, Empty
  <2>1. Rows(t)'  OBVIOUS
  <2>2. Launching(t)'  OBVIOUS
  <2>3. Inherited(t)'  OBVIOUS
  <2>4. Claiming(t)'  OBVIOUS
  <2>5. HandingBack(t)'  OBVIOUS
  <2>6. Shutting(t)'  OBVIOUS
  <2>7. Known(t)'  OBVIOUS
  <2>8. Abandoned(t)'  OBVIOUS
  <2>9. Blank(t)'  OBVIOUS
  <2>10. Withdrawn(t)'  OBVIOUS
  <2>. QED  BY <2>1, <2>2, <2>3, <2>4, <2>5, <2>6, <2>7, <2>8, <2>9, <2>10 DEF Parts
<1>5. In(t)' => In(t)
  BY <1>h, <1>u, <1>s DEF In, Parts, Rows, Launching, Up, Empty, ShuttingDown
<1>. QED  BY <1>1, <1>2, <1>3, <1>4, <1>5 DEF Inv, PerTerminal, Taken

\* Accepts keeps the invariant, and takes no slot.
LEMMA AcceptsInv ==
  ASSUME Inv, NEW t \in Terminals, Accepts(t)
  PROVE  Inv' /\ Taken' \subseteq Taken
<1>u. UNCHANGED <<row, proof, keeps, phase, started, reattach, limit, scanning, prior, reserved,
                  failures, status, create, end, settle, shut, ends, quit, restart, withdrawn,
                  handed, disowned, faults>>
  BY DEF Accepts, run, ledger, intent
<1>k1. record' \in [Terminals -> {"none", "current", "stale"}]
       /\ \A x \in Terminals \ {t} : record'[x] = record[x]
  BY DEF Inv, Typed, Statuses, Claims, Shuts, Accepts
<1>k2. shell' \in [Terminals -> {"none", "attached", "detached", "ending", "gone"}]
       /\ \A x \in Terminals \ {t} : shell'[x] = shell[x]
  BY DEF Inv, Typed, Statuses, Claims, Shuts, Accepts
<1>k3. claim' \in [Terminals -> Claims \cup {"no", "proving"}]
       /\ \A x \in Terminals \ {t} : claim'[x] = claim[x]
  BY DEF Inv, Typed, Statuses, Claims, Shuts, Accepts
<1>s. /\ claim[t] = "spending" /\ shell[t] = "detached"
      /\ shell'[t] = "attached"
      /\ record'[t] = (IF record[t] = "none" THEN record[t] ELSE "stale")
      /\ claim'[t] = "accepted"
  BY DEF Inv, Typed, Accepts
<1>1. Typed'
  BY <1>u, <1>k1, <1>k2, <1>k3 DEF Inv, Typed
<1>2. Globals'
  BY <1>u DEF Inv, Globals
<1>h. Parts(t) /\ record[t] \in {"none", "current", "stale"}
  BY DEF Inv, Typed, PerTerminal
<1>3. ASSUME NEW x \in Terminals, x # t
      PROVE  Parts(x)' /\ (In(x)' => In(x))
  <2>1. Same(x)  BY <1>3, <1>u, <1>k1, <1>k2, <1>k3 DEF Same
  <2>. QED  BY <2>1, <1>u, Elsewhere
<1>4. Parts(t)'
  <2>. USE <1>h, <1>u, <1>s
         DEF Parts, Rows, Launching, Inherited, Claiming, HandingBack, Shutting, Known, Abandoned,
             Blank, Withdrawn, Claims, Late, Early, ShuttingDown, Up, Empty
  <2>1. Rows(t)'  OBVIOUS
  <2>2. Launching(t)'  OBVIOUS
  <2>3. Inherited(t)'  OBVIOUS
  <2>4. Claiming(t)'  OBVIOUS
  <2>5. HandingBack(t)'  OBVIOUS
  <2>6. Shutting(t)'  OBVIOUS
  <2>7. Known(t)'  OBVIOUS
  <2>8. Abandoned(t)'  OBVIOUS
  <2>9. Blank(t)'  OBVIOUS
  <2>10. Withdrawn(t)'  OBVIOUS
  <2>. QED  BY <2>1, <2>2, <2>3, <2>4, <2>5, <2>6, <2>7, <2>8, <2>9, <2>10 DEF Parts
<1>5. In(t)' => In(t)
  BY <1>h, <1>u, <1>s DEF In, Parts, Rows, Launching, Up, Empty
<1>. QED  BY <1>1, <1>2, <1>3, <1>4, <1>5 DEF Inv, PerTerminal, Taken

\* NotReattached keeps the invariant, and takes no slot.
LEMMA NotReattachedInv ==
  ASSUME Inv, NEW t \in Terminals, NotReattached(t)
  PROVE  Inv' /\ Taken' \subseteq Taken
<1>u. UNCHANGED <<row, proof, keeps, phase, started, reattach, limit, scanning, prior, reserved,
                  failures, status, create, end, settle, shut, ends, quit, restart, withdrawn,
                  handed, disowned, faults>>
  BY DEF NotReattached, run, ledger, intent
<1>k1. record' \in [Terminals -> {"none", "current", "stale"}]
       /\ \A x \in Terminals \ {t} : record'[x] = record[x]
  BY DEF Inv, Typed, Statuses, Claims, Shuts, NotReattached, ShuttingDown
<1>k2. shell' \in [Terminals -> {"none", "attached", "detached", "ending", "gone"}]
       /\ \A x \in Terminals \ {t} : shell'[x] = shell[x]
  BY DEF Inv, Typed, Statuses, Claims, Shuts, NotReattached, ShuttingDown
<1>k3. claim' \in [Terminals -> Claims \cup {"no", "proving"}]
       /\ \A x \in Terminals \ {t} : claim'[x] = claim[x]
  BY DEF Inv, Typed, Statuses, Claims, Shuts, NotReattached, ShuttingDown
<1>s. /\ claim[t] \in {"knocking", "refused", "spending", "accepted"}
      /\ shell'[t] = (IF shell[t] = "attached" THEN "detached" ELSE shell[t])
      /\ record'[t] = (IF ShuttingDown THEN record[t] ELSE "none")
      /\ claim'[t] = (IF ShuttingDown THEN "no" ELSE "proving")
  BY DEF Inv, Typed, NotReattached
<1>1. Typed'
  BY <1>u, <1>k1, <1>k2, <1>k3 DEF Inv, Typed
<1>2. Globals'
  BY <1>u DEF Inv, Globals
<1>h. Parts(t) /\ record[t] \in {"none", "current", "stale"}
  BY DEF Inv, Typed, PerTerminal
<1>3. ASSUME NEW x \in Terminals, x # t
      PROVE  Parts(x)' /\ (In(x)' => In(x))
  <2>1. Same(x)  BY <1>3, <1>u, <1>k1, <1>k2, <1>k3 DEF Same
  <2>. QED  BY <2>1, <1>u, Elsewhere
<1>4. Parts(t)'
  <2>. USE <1>h, <1>u, <1>s
         DEF Parts, Rows, Launching, Inherited, Claiming, HandingBack, Shutting, Known, Abandoned,
             Blank, Withdrawn, Claims, Late, Early, ShuttingDown, Up, Empty
  <2>1. Rows(t)'  OBVIOUS
  <2>2. Launching(t)'  OBVIOUS
  <2>3. Inherited(t)'  OBVIOUS
  <2>4. Claiming(t)'  OBVIOUS
  <2>5. HandingBack(t)'  OBVIOUS
  <2>6. Shutting(t)'  OBVIOUS
  <2>7. Known(t)'  OBVIOUS
  <2>8. Abandoned(t)'  OBVIOUS
  <2>9. Blank(t)'  OBVIOUS
  <2>10. Withdrawn(t)'  OBVIOUS
  <2>. QED  BY <2>1, <2>2, <2>3, <2>4, <2>5, <2>6, <2>7, <2>8, <2>9, <2>10 DEF Parts
<1>5. In(t)' => In(t)
  BY <1>h, <1>u, <1>s DEF In, Parts, Rows, Launching, Up, Empty, ShuttingDown
<1>. QED  BY <1>1, <1>2, <1>3, <1>4, <1>5 DEF Inv, PerTerminal, Taken

\* ReattachedLate keeps the invariant, and takes no slot.
LEMMA ReattachedLateInv ==
  ASSUME Inv, NEW t \in Terminals, ReattachedLate(t)
  PROVE  Inv' /\ Taken' \subseteq Taken
<1>u. UNCHANGED <<row, proof, keeps, phase, started, reattach, limit, scanning, prior, reserved,
                  failures, status, create, end, settle, shut, ends, quit, restart, withdrawn,
                  handed, disowned>>
  BY DEF ReattachedLate, run, ledger, intent
<1>k1. record' \in [Terminals -> {"none", "current", "stale"}]
       /\ \A x \in Terminals \ {t} : record'[x] = record[x]
  BY DEF Inv, Typed, Statuses, Claims, Shuts, ReattachedLate, ShuttingDown, Stored, Fault,
         DetachingForRestart, Kill, Up
<1>k2. shell' \in [Terminals -> {"none", "attached", "detached", "ending", "gone"}]
       /\ \A x \in Terminals \ {t} : shell'[x] = shell[x]
  BY DEF Inv, Typed, Statuses, Claims, Shuts, ReattachedLate, ShuttingDown, Stored, Fault,
         DetachingForRestart, Kill, Up
<1>k3. claim' \in [Terminals -> Claims \cup {"no", "proving"}]
       /\ \A x \in Terminals \ {t} : claim'[x] = claim[x]
  BY DEF Inv, Typed, Statuses, Claims, Shuts, ReattachedLate, ShuttingDown, Stored, Fault,
         DetachingForRestart, Kill, Up
<1>f. faults' \in 0..MaxFaults
  BY TerminalBounds DEF Inv, Typed, ReattachedLate, Stored, Fault, Kill
<1>s. /\ claim[t] = "accepted" /\ ShuttingDown
      /\ record'[t] \in {"none", IF withdrawn THEN "none" ELSE "current"}
      /\ IF DetachingForRestart
         THEN claim'[t] = "releasing" /\ UNCHANGED shell
         ELSE claim'[t] = "dropping" /\ shell'[t] = (IF Up(t) THEN "ending" ELSE shell[t])
  BY DEF Inv, Typed, ReattachedLate, Stored, Fault, Kill
<1>1. Typed'
  BY <1>u, <1>k1, <1>k2, <1>k3, <1>f DEF Inv, Typed
<1>2. Globals'
  BY <1>u DEF Inv, Globals
<1>h. Parts(t) /\ record[t] \in {"none", "current", "stale"}
  BY DEF Inv, Typed, PerTerminal
<1>3. ASSUME NEW x \in Terminals, x # t
      PROVE  Parts(x)' /\ (In(x)' => In(x))
  <2>1. Same(x)  BY <1>3, <1>u, <1>k1, <1>k2, <1>k3 DEF Same
  <2>. QED  BY <2>1, <1>u, Elsewhere
<1>4. Parts(t)'
  <2>. USE <1>h, <1>u, <1>s
         DEF Parts, Rows, Launching, Inherited, Claiming, HandingBack, Shutting, Known, Abandoned,
             Blank, Withdrawn, Claims, Late, Early, ShuttingDown, Up, Empty, DetachingForRestart
  <2>1. Rows(t)'  OBVIOUS
  <2>2. Launching(t)'  OBVIOUS
  <2>3. Inherited(t)'  OBVIOUS
  <2>4. Claiming(t)'  OBVIOUS
  <2>5. HandingBack(t)'  OBVIOUS
  <2>6. Shutting(t)'  OBVIOUS
  <2>7. Known(t)'  OBVIOUS
  <2>8. Abandoned(t)'  OBVIOUS
  <2>9. Blank(t)'  OBVIOUS
  <2>10. Withdrawn(t)'  OBVIOUS
  <2>. QED  BY <2>1, <2>2, <2>3, <2>4, <2>5, <2>6, <2>7, <2>8, <2>9, <2>10 DEF Parts
<1>5. In(t)' => In(t)
  BY <1>h, <1>u, <1>s DEF In, Parts, Rows, Launching, Up, Empty, ShuttingDown, DetachingForRestart
<1>. QED  BY <1>1, <1>2, <1>3, <1>4, <1>5 DEF Inv, PerTerminal, Taken

\* Unrecorded keeps the invariant, and takes no slot.
LEMMA UnrecordedInv ==
  ASSUME Inv, NEW t \in Terminals, Unrecorded(t)
  PROVE  Inv' /\ Taken' \subseteq Taken
<1>u. UNCHANGED <<row, proof, keeps, phase, started, reattach, limit, scanning, prior, reserved,
                  failures, status, create, end, settle, shut, ends, quit, restart, withdrawn,
                  handed, disowned>>
  BY DEF Unrecorded, run, ledger, intent
<1>k1. record' \in [Terminals -> {"none", "current", "stale"}]
       /\ \A x \in Terminals \ {t} : record'[x] = record[x]
  BY DEF Inv, Typed, Statuses, Claims, Shuts, Unrecorded, ShuttingDown, Fault, Kill, Up
<1>k2. shell' \in [Terminals -> {"none", "attached", "detached", "ending", "gone"}]
       /\ \A x \in Terminals \ {t} : shell'[x] = shell[x]
  BY DEF Inv, Typed, Statuses, Claims, Shuts, Unrecorded, ShuttingDown, Fault, Kill, Up
<1>k3. claim' \in [Terminals -> Claims \cup {"no", "proving"}]
       /\ \A x \in Terminals \ {t} : claim'[x] = claim[x]
  BY DEF Inv, Typed, Statuses, Claims, Shuts, Unrecorded, ShuttingDown, Fault, Kill, Up
<1>f. faults' \in 0..MaxFaults
  BY TerminalBounds DEF Inv, Typed, Unrecorded, Fault, Kill
<1>s. /\ claim[t] = "accepted" /\ ~ShuttingDown
      /\ record'[t] = "none"
      /\ claim'[t] = "proving" /\ shell'[t] = (IF Up(t) THEN "ending" ELSE shell[t])
  BY DEF Inv, Typed, Unrecorded, Fault, Kill
<1>1. Typed'
  BY <1>u, <1>k1, <1>k2, <1>k3, <1>f DEF Inv, Typed
<1>2. Globals'
  BY <1>u DEF Inv, Globals
<1>h. Parts(t) /\ record[t] \in {"none", "current", "stale"}
  BY DEF Inv, Typed, PerTerminal
<1>3. ASSUME NEW x \in Terminals, x # t
      PROVE  Parts(x)' /\ (In(x)' => In(x))
  <2>1. Same(x)  BY <1>3, <1>u, <1>k1, <1>k2, <1>k3 DEF Same
  <2>. QED  BY <2>1, <1>u, Elsewhere
<1>4. Parts(t)'
  <2>. USE <1>h, <1>u, <1>s
         DEF Parts, Rows, Launching, Inherited, Claiming, HandingBack, Shutting, Known, Abandoned,
             Blank, Withdrawn, Claims, Late, Early, ShuttingDown, Up, Empty
  <2>1. Rows(t)'  OBVIOUS
  <2>2. Launching(t)'  OBVIOUS
  <2>3. Inherited(t)'  OBVIOUS
  <2>4. Claiming(t)'  OBVIOUS
  <2>5. HandingBack(t)'  OBVIOUS
  <2>6. Shutting(t)'  OBVIOUS
  <2>7. Known(t)'  OBVIOUS
  <2>8. Abandoned(t)'  OBVIOUS
  <2>9. Blank(t)'  OBVIOUS
  <2>10. Withdrawn(t)'  OBVIOUS
  <2>. QED  BY <2>1, <2>2, <2>3, <2>4, <2>5, <2>6, <2>7, <2>8, <2>9, <2>10 DEF Parts
<1>5. In(t)' => In(t)
  BY <1>h, <1>u, <1>s DEF In, Parts, Rows, Launching, Up, Empty, ShuttingDown
<1>. QED  BY <1>1, <1>2, <1>3, <1>4, <1>5 DEF Inv, PerTerminal, Taken

\* ClaimEnds keeps the invariant, and takes no slot.
LEMMA ClaimEndsInv ==
  ASSUME Inv, NEW t \in Terminals, ClaimEnds(t)
  PROVE  Inv' /\ Taken' \subseteq Taken
<1>u. UNCHANGED <<row, record, proof, keeps, phase, started, reattach, limit, scanning, prior,
                  reserved, failures, status, create, end, settle, shut, ends, quit, restart,
                  withdrawn, handed, disowned, faults>>
  BY DEF ClaimEnds, durable, run, ledger, intent
<1>k1. shell' \in [Terminals -> {"none", "attached", "detached", "ending", "gone"}]
       /\ \A x \in Terminals \ {t} : shell'[x] = shell[x]
  BY DEF Inv, Typed, Statuses, Claims, Shuts, ClaimEnds
<1>k2. claim' \in [Terminals -> Claims \cup {"no", "proving"}]
       /\ \A x \in Terminals \ {t} : claim'[x] = claim[x]
  BY DEF Inv, Typed, Statuses, Claims, Shuts, ClaimEnds
<1>s. /\ \/ /\ claim[t] = "releasing"
            /\ shell'[t] = (IF shell[t] = "attached" THEN "detached" ELSE shell[t])
         \/ claim[t] = "dropping" /\ UNCHANGED shell
      /\ claim'[t] = "no"
  BY DEF Inv, Typed, ClaimEnds
<1>1. Typed'
  BY <1>u, <1>k1, <1>k2 DEF Inv, Typed
<1>2. Globals'
  BY <1>u DEF Inv, Globals
<1>h. Parts(t) /\ record[t] \in {"none", "current", "stale"}
  BY DEF Inv, Typed, PerTerminal
<1>3. ASSUME NEW x \in Terminals, x # t
      PROVE  Parts(x)' /\ (In(x)' => In(x))
  <2>1. Same(x)  BY <1>3, <1>u, <1>k1, <1>k2 DEF Same
  <2>. QED  BY <2>1, <1>u, Elsewhere
<1>4. Parts(t)'
  <2>. USE <1>h, <1>u, <1>s
         DEF Parts, Rows, Launching, Inherited, Claiming, HandingBack, Shutting, Known, Abandoned,
             Blank, Withdrawn, Claims, Late, Early, ShuttingDown, Up, Empty
  <2>1. Rows(t)'  OBVIOUS
  <2>2. Launching(t)'  OBVIOUS
  <2>3. Inherited(t)'  OBVIOUS
  <2>4. Claiming(t)'  OBVIOUS
  <2>5. HandingBack(t)'  OBVIOUS
  <2>6. Shutting(t)'  OBVIOUS
  <2>7. Known(t)'  OBVIOUS
  <2>8. Abandoned(t)'  OBVIOUS
  <2>9. Blank(t)'  OBVIOUS
  <2>10. Withdrawn(t)'  OBVIOUS
  <2>. QED  BY <2>1, <2>2, <2>3, <2>4, <2>5, <2>6, <2>7, <2>8, <2>9, <2>10 DEF Parts
<1>5. In(t)' => In(t)
  BY <1>h, <1>u, <1>s DEF In, Parts, Rows, Launching, Up, Empty
<1>. QED  BY <1>1, <1>2, <1>3, <1>4, <1>5 DEF Inv, PerTerminal, Taken

\* Recovers keeps the invariant, and takes no slot.
LEMMA RecoversInv ==
  ASSUME Inv, NEW t \in Terminals, Recovers(t)
  PROVE  Inv' /\ Taken' \subseteq Taken
<1>u. UNCHANGED <<row, record, proof, keeps, phase, started, reattach, limit, scanning, prior,
                  reserved, failures, status, create, end, settle, claim, shut, ends, quit,
                  restart, withdrawn, handed, disowned, faults>>
  BY DEF Recovers, durable, run, ledger, tasks, intent
<1>k1. shell' \in [Terminals -> {"none", "attached", "detached", "ending", "gone"}]
       /\ \A x \in Terminals \ {t} : shell'[x] = shell[x]
  BY DEF Inv, Typed, Statuses, Claims, Shuts, Recovers, Kill, Up
<1>s. /\ claim[t] = "proving" \/ ends[t] = "proving"
      /\ row[t] # "requested" /\ shell[t] \in {"attached", "detached"}
      /\ shell'[t] = (IF Up(t) THEN "ending" ELSE shell[t])
  BY DEF Inv, Typed, Recovers, Kill
<1>1. Typed'
  BY <1>u, <1>k1 DEF Inv, Typed
<1>2. Globals'
  BY <1>u DEF Inv, Globals
<1>h. Parts(t) /\ record[t] \in {"none", "current", "stale"}
  BY DEF Inv, Typed, PerTerminal
<1>3. ASSUME NEW x \in Terminals, x # t
      PROVE  Parts(x)' /\ (In(x)' => In(x))
  <2>1. Same(x)  BY <1>3, <1>u, <1>k1 DEF Same
  <2>. QED  BY <2>1, <1>u, Elsewhere
<1>4. Parts(t)'
  <2>. USE <1>h, <1>u, <1>s
         DEF Parts, Rows, Launching, Inherited, Claiming, HandingBack, Shutting, Known, Abandoned,
             Blank, Withdrawn, Claims, Late, Early, ShuttingDown, Up, Empty
  <2>1. Rows(t)'  OBVIOUS
  <2>2. Launching(t)'  OBVIOUS
  <2>3. Inherited(t)'  OBVIOUS
  <2>4. Claiming(t)'  OBVIOUS
  <2>5. HandingBack(t)'  OBVIOUS
  <2>6. Shutting(t)'  OBVIOUS
  <2>7. Known(t)'  OBVIOUS
  <2>8. Abandoned(t)'  OBVIOUS
  <2>9. Blank(t)'  OBVIOUS
  <2>10. Withdrawn(t)'  OBVIOUS
  <2>. QED  BY <2>1, <2>2, <2>3, <2>4, <2>5, <2>6, <2>7, <2>8, <2>9, <2>10 DEF Parts
<1>5. In(t)' => In(t)
  BY <1>h, <1>u, <1>s DEF In, Parts, Rows, Launching, Up, Empty
<1>. QED  BY <1>1, <1>2, <1>3, <1>4, <1>5 DEF Inv, PerTerminal, Taken

\* Reconcile keeps the invariant, and takes no slot.
LEMMA ReconcileInv ==
  ASSUME Inv, NEW t \in Terminals, Reconcile(t)
  PROVE  Inv' /\ Taken' \subseteq Taken
<1>u. UNCHANGED <<row, record, proof, shell, keeps, phase, started, reattach, limit, scanning,
                  prior, reserved, failures, status, create, end, settle, shut, ends, quit,
                  restart, withdrawn, handed, disowned, faults>>
  BY DEF Reconcile, durable, native, run, ledger, intent
<1>k1. claim' \in [Terminals -> Claims \cup {"no", "proving"}]
       /\ \A x \in Terminals \ {t} : claim'[x] = claim[x]
  BY DEF Inv, Typed, Statuses, Claims, Shuts, Reconcile, ShuttingDown, Map
<1>s. /\ t \in reserved \ failures /\ ~ShuttingDown /\ ~scanning /\ claim[t] = "no"
      /\ claim'[t] = (IF ~reattach \/ row[t] # "created" \/ t \in Map \/ record[t] = "none"
           THEN "proving" ELSE IF record[t] = "current" THEN "knocking" ELSE "refused")
  BY DEF Inv, Typed, Reconcile
<1>1. Typed'
  BY <1>u, <1>k1 DEF Inv, Typed
<1>2. Globals'
  BY <1>u DEF Inv, Globals
<1>h. Parts(t) /\ record[t] \in {"none", "current", "stale"}
  BY DEF Inv, Typed, PerTerminal
<1>3. ASSUME NEW x \in Terminals, x # t
      PROVE  Parts(x)' /\ (In(x)' => In(x))
  <2>1. Same(x)  BY <1>3, <1>u, <1>k1 DEF Same
  <2>. QED  BY <2>1, <1>u, Elsewhere
<1>4. Parts(t)'
  <2>. USE <1>h, <1>u, <1>s
         DEF Parts, Rows, Launching, Inherited, Claiming, HandingBack, Shutting, Known, Abandoned,
             Blank, Withdrawn, Claims, Late, Early, ShuttingDown, Up, Empty, Map
  <2>1. Rows(t)'  OBVIOUS
  <2>2. Launching(t)'  OBVIOUS
  <2>3. Inherited(t)'  OBVIOUS
  <2>4. Claiming(t)'  OBVIOUS
  <2>5. HandingBack(t)'  OBVIOUS
  <2>6. Shutting(t)'  OBVIOUS
  <2>7. Known(t)'  OBVIOUS
  <2>8. Abandoned(t)'  OBVIOUS
  <2>9. Blank(t)'  OBVIOUS
  <2>10. Withdrawn(t)'  OBVIOUS
  <2>. QED  BY <2>1, <2>2, <2>3, <2>4, <2>5, <2>6, <2>7, <2>8, <2>9, <2>10 DEF Parts
<1>5. In(t)' => In(t)
  BY <1>h, <1>u, <1>s DEF In, Parts, Rows, Launching, Up, Empty, ShuttingDown, Map
<1>. QED  BY <1>1, <1>2, <1>3, <1>4, <1>5 DEF Inv, PerTerminal, Taken

\* HandBack keeps the invariant, and takes no slot.
LEMMA HandBackInv ==
  ASSUME Inv, NEW t \in Terminals, HandBack(t)
  PROVE  Inv' /\ Taken' \subseteq Taken
<1>u. UNCHANGED <<row, record, proof, shell, keeps, phase, started, reattach, limit, scanning,
                  prior, reserved, failures, create, end, settle, claim, ends, quit, restart,
                  withdrawn, handed, disowned, faults>>
  BY DEF HandBack, durable, native, run, ledger, intent
<1>k1. status' \in [Terminals -> Statuses]
       /\ \A x \in Terminals \ {t} : status'[x] = status[x]
  BY DEF Inv, Typed, Statuses, Claims, Shuts, HandBack, CanHandBack, DetachingForRestart
<1>k2. shut' \in [Terminals -> Shuts]
       /\ \A x \in Terminals \ {t} : shut'[x] = shut[x]
  BY DEF Inv, Typed, Statuses, Claims, Shuts, HandBack, CanHandBack, DetachingForRestart
<1>s. /\ shut[t] = "todo" /\ CanHandBack(t)
      /\ shut'[t] = "handing"
      /\ status'[t] = "detaching"
  BY DEF Inv, Typed, HandBack
<1>1. Typed'
  BY <1>u, <1>k1, <1>k2 DEF Inv, Typed
<1>2. Globals'
  BY <1>u DEF Inv, Globals
<1>h. Parts(t) /\ record[t] \in {"none", "current", "stale"}
  BY DEF Inv, Typed, PerTerminal
<1>3. ASSUME NEW x \in Terminals, x # t
      PROVE  Parts(x)' /\ (In(x)' => In(x))
  <2>1. Same(x)  BY <1>3, <1>u, <1>k1, <1>k2 DEF Same
  <2>. QED  BY <2>1, <1>u, Elsewhere
<1>4. Parts(t)'
  <2>. USE <1>h, <1>u, <1>s
         DEF Parts, Rows, Launching, Inherited, Claiming, HandingBack, Shutting, Known, Abandoned,
             Blank, Withdrawn, Claims, Late, Early, ShuttingDown, Up, Empty, CanHandBack,
             DetachingForRestart
  <2>1. Rows(t)'  OBVIOUS
  <2>2. Launching(t)'  OBVIOUS
  <2>3. Inherited(t)'  OBVIOUS
  <2>4. Claiming(t)'  OBVIOUS
  <2>5. HandingBack(t)'  OBVIOUS
  <2>6. Shutting(t)'  OBVIOUS
  <2>7. Known(t)'  OBVIOUS
  <2>8. Abandoned(t)'  OBVIOUS
  <2>9. Blank(t)'  OBVIOUS
  <2>10. Withdrawn(t)'  OBVIOUS
  <2>. QED  BY <2>1, <2>2, <2>3, <2>4, <2>5, <2>6, <2>7, <2>8, <2>9, <2>10 DEF Parts
<1>5. In(t)' => In(t)
  BY <1>h, <1>u, <1>s DEF In, Parts, Rows, Launching, Up, Empty, CanHandBack, DetachingForRestart
<1>. QED  BY <1>1, <1>2, <1>3, <1>4, <1>5 DEF Inv, PerTerminal, Taken

\* HandedBack keeps the invariant, and takes no slot.
LEMMA HandedBackInv ==
  ASSUME Inv, NEW t \in Terminals, HandedBack(t)
  PROVE  Inv' /\ Taken' \subseteq Taken
<1>u. UNCHANGED <<row, record, proof, keeps, phase, started, reattach, limit, scanning, prior,
                  reserved, failures, create, end, settle, claim, ends, quit, restart, withdrawn,
                  disowned, faults>>
  BY DEF HandedBack, durable, run, ledger, intent
<1>k1. shell' \in [Terminals -> {"none", "attached", "detached", "ending", "gone"}]
       /\ \A x \in Terminals \ {t} : shell'[x] = shell[x]
  BY DEF Inv, Typed, Statuses, Claims, Shuts, HandedBack
<1>k2. status' \in [Terminals -> Statuses]
       /\ \A x \in Terminals \ {t} : status'[x] = status[x]
  BY DEF Inv, Typed, Statuses, Claims, Shuts, HandedBack
<1>k3. shut' \in [Terminals -> Shuts]
       /\ \A x \in Terminals \ {t} : shut'[x] = shut[x]
  BY DEF Inv, Typed, Statuses, Claims, Shuts, HandedBack
<1>k4. handed' \subseteq Terminals
  BY DEF Inv, Typed, HandedBack
<1>s. /\ shut[t] = "handing" /\ shell[t] = "attached"
      /\ shell'[t] = "detached"
      /\ shut'[t] = "done"
      /\ status'[t] = "absent" /\ handed' = handed \cup {t}
  BY DEF Inv, Typed, HandedBack
<1>1. Typed'
  BY <1>u, <1>k1, <1>k2, <1>k3, <1>k4 DEF Inv, Typed
<1>2. Globals'
  BY <1>u DEF Inv, Globals
<1>h. Parts(t) /\ record[t] \in {"none", "current", "stale"}
  BY DEF Inv, Typed, PerTerminal
<1>3. ASSUME NEW x \in Terminals, x # t
      PROVE  Parts(x)' /\ (In(x)' => In(x))
  <2>1. Same(x)  BY <1>3, <1>u, <1>k1, <1>k2, <1>k3, <1>k4, <1>s DEF Same
  <2>. QED  BY <2>1, <1>u, Elsewhere
<1>4. Parts(t)'
  <2>. USE <1>h, <1>u, <1>s
         DEF Parts, Rows, Launching, Inherited, Claiming, HandingBack, Shutting, Known, Abandoned,
             Blank, Withdrawn, Claims, Late, Early, ShuttingDown, Up, Empty
  <2>1. Rows(t)'  OBVIOUS
  <2>2. Launching(t)'  OBVIOUS
  <2>3. Inherited(t)'  OBVIOUS
  <2>4. Claiming(t)'  OBVIOUS
  <2>5. HandingBack(t)'  OBVIOUS
  <2>6. Shutting(t)'  OBVIOUS
  <2>7. Known(t)'  OBVIOUS
  <2>8. Abandoned(t)'  OBVIOUS
  <2>9. Blank(t)'  OBVIOUS
  <2>10. Withdrawn(t)'  OBVIOUS
  <2>. QED  BY <2>1, <2>2, <2>3, <2>4, <2>5, <2>6, <2>7, <2>8, <2>9, <2>10 DEF Parts
<1>5. In(t)' => In(t)
  BY <1>h, <1>u, <1>s DEF In, Parts, Rows, Launching, Up, Empty
<1>. QED  BY <1>1, <1>2, <1>3, <1>4, <1>5 DEF Inv, PerTerminal, Taken

\* NotHandedBack keeps the invariant, and takes no slot.
LEMMA NotHandedBackInv ==
  ASSUME Inv, NEW t \in Terminals, NotHandedBack(t)
  PROVE  Inv' /\ Taken' \subseteq Taken
<1>u. UNCHANGED <<row, record, proof, keeps, phase, started, reattach, limit, scanning, prior,
                  reserved, failures, create, end, settle, claim, ends, quit, restart, withdrawn,
                  handed, disowned, faults>>
  BY DEF NotHandedBack, durable, run, ledger, intent
<1>k1. shell' \in [Terminals -> {"none", "attached", "detached", "ending", "gone"}]
       /\ \A x \in Terminals \ {t} : shell'[x] = shell[x]
  BY DEF Inv, Typed, Statuses, Claims, Shuts, NotHandedBack
<1>k2. status' \in [Terminals -> Statuses]
       /\ \A x \in Terminals \ {t} : status'[x] = status[x]
  BY DEF Inv, Typed, Statuses, Claims, Shuts, NotHandedBack
<1>k3. shut' \in [Terminals -> Shuts]
       /\ \A x \in Terminals \ {t} : shut'[x] = shut[x]
  BY DEF Inv, Typed, Statuses, Claims, Shuts, NotHandedBack
<1>s. /\ shut[t] = "handing"
      /\ shell'[t] \in {shell[t], IF shell[t] = "attached" THEN "detached" ELSE shell[t]}
      /\ shut'[t] = "close"
      /\ status'[t] = (IF status[t] = "detaching" THEN "running" ELSE status[t])
  BY DEF Inv, Typed, NotHandedBack
<1>1. Typed'
  BY <1>u, <1>k1, <1>k2, <1>k3 DEF Inv, Typed
<1>2. Globals'
  BY <1>u DEF Inv, Globals
<1>h. Parts(t) /\ record[t] \in {"none", "current", "stale"}
  BY DEF Inv, Typed, PerTerminal
<1>3. ASSUME NEW x \in Terminals, x # t
      PROVE  Parts(x)' /\ (In(x)' => In(x))
  <2>1. Same(x)  BY <1>3, <1>u, <1>k1, <1>k2, <1>k3 DEF Same
  <2>. QED  BY <2>1, <1>u, Elsewhere
<1>4. Parts(t)'
  <2>. USE <1>h, <1>u, <1>s
         DEF Parts, Rows, Launching, Inherited, Claiming, HandingBack, Shutting, Known, Abandoned,
             Blank, Withdrawn, Claims, Late, Early, ShuttingDown, Up, Empty
  <2>1. Rows(t)'  OBVIOUS
  <2>2. Launching(t)'  OBVIOUS
  <2>3. Inherited(t)'  OBVIOUS
  <2>4. Claiming(t)'  OBVIOUS
  <2>5. HandingBack(t)'  OBVIOUS
  <2>6. Shutting(t)'  OBVIOUS
  <2>7. Known(t)'  OBVIOUS
  <2>8. Abandoned(t)'  OBVIOUS
  <2>9. Blank(t)'  OBVIOUS
  <2>10. Withdrawn(t)'  OBVIOUS
  <2>. QED  BY <2>1, <2>2, <2>3, <2>4, <2>5, <2>6, <2>7, <2>8, <2>9, <2>10 DEF Parts
<1>5. In(t)' => In(t)
  BY <1>h, <1>u, <1>s DEF In, Parts, Rows, Launching, Up, Empty
<1>. QED  BY <1>1, <1>2, <1>3, <1>4, <1>5 DEF Inv, PerTerminal, Taken

\* ShutCloses keeps the invariant, and takes no slot.
LEMMA ShutClosesInv ==
  ASSUME Inv, NEW t \in Terminals, ShutCloses(t)
  PROVE  Inv' /\ Taken' \subseteq Taken
<1>u. UNCHANGED <<row, record, proof, shell, keeps, phase, started, reattach, limit, scanning,
                  prior, reserved, failures, create, settle, claim, ends, quit, restart,
                  withdrawn, handed, disowned, faults>>
  BY DEF ShutCloses, durable, native, run, ledger, intent
<1>k1. status' \in [Terminals -> Statuses]
       /\ \A x \in Terminals \ {t} : status'[x] = status[x]
  BY DEF Inv, Typed, Statuses, Claims, Shuts, ShutCloses, CanHandBack, DetachingForRestart, Closes
<1>k2. end' \in [Terminals -> {"no", "asked", "ending"}]
       /\ \A x \in Terminals \ {t} : end'[x] = end[x]
  BY DEF Inv, Typed, Statuses, Claims, Shuts, ShutCloses, CanHandBack, DetachingForRestart, Closes
<1>k3. shut' \in [Terminals -> Shuts]
       /\ \A x \in Terminals \ {t} : shut'[x] = shut[x]
  BY DEF Inv, Typed, Statuses, Claims, Shuts, ShutCloses, CanHandBack, DetachingForRestart, Closes
<1>s. /\ \/ shut[t] \in {"close", "again"}
         \/ shut[t] = "todo" /\ ~CanHandBack(t)
      /\ shut'[t] = (IF status[t] = "absent" THEN "done"
                                     ELSE IF shut[t] = "again" THEN "retrying" ELSE "closing")
      /\ IF end[t] = "no" /\ status[t] # "absent"
         THEN (status'[t] = "closing" /\ end'[t] = "asked") ELSE UNCHANGED <<status, end>>
  BY DEF Inv, Typed, ShutCloses, Closes
<1>1. Typed'
  BY <1>u, <1>k1, <1>k2, <1>k3 DEF Inv, Typed
<1>2. Globals'
  BY <1>u DEF Inv, Globals
<1>h. Parts(t) /\ record[t] \in {"none", "current", "stale"}
  BY DEF Inv, Typed, PerTerminal
<1>3. ASSUME NEW x \in Terminals, x # t
      PROVE  Parts(x)' /\ (In(x)' => In(x))
  <2>1. Same(x)  BY <1>3, <1>u, <1>k1, <1>k2, <1>k3 DEF Same
  <2>. QED  BY <2>1, <1>u, Elsewhere
<1>4. Parts(t)'
  <2>. USE <1>h, <1>u, <1>s
         DEF Parts, Rows, Launching, Inherited, Claiming, HandingBack, Shutting, Known, Abandoned,
             Blank, Withdrawn, Claims, Late, Early, ShuttingDown, Up, Empty, CanHandBack,
             DetachingForRestart
  <2>1. Rows(t)'  OBVIOUS
  <2>2. Launching(t)'  OBVIOUS
  <2>3. Inherited(t)'  OBVIOUS
  <2>4. Claiming(t)'  OBVIOUS
  <2>5. HandingBack(t)'  OBVIOUS
  <2>6. Shutting(t)'  OBVIOUS
  <2>7. Known(t)'  OBVIOUS
  <2>8. Abandoned(t)'  OBVIOUS
  <2>9. Blank(t)'  OBVIOUS
  <2>10. Withdrawn(t)'  OBVIOUS
  <2>. QED  BY <2>1, <2>2, <2>3, <2>4, <2>5, <2>6, <2>7, <2>8, <2>9, <2>10 DEF Parts
<1>5. In(t)' => In(t)
  BY <1>h, <1>u, <1>s DEF In, Parts, Rows, Launching, Up, Empty, CanHandBack, DetachingForRestart
<1>. QED  BY <1>1, <1>2, <1>3, <1>4, <1>5 DEF Inv, PerTerminal, Taken

\* OwnerEnds keeps the invariant, and takes no slot.
LEMMA OwnerEndsInv ==
  ASSUME Inv, NEW t \in Terminals, OwnerEnds(t)
  PROVE  Inv' /\ Taken' \subseteq Taken
<1>u. UNCHANGED <<record, shell, keeps, phase, started, reattach, limit, scanning, reserved,
                  failures, status, create, end, settle, claim, shut, quit, restart, withdrawn,
                  handed, disowned, faults>>
  BY DEF OwnerEnds, native, run, intent
<1>k1. row' \in [Terminals -> {"none", "requested", "created", "settled"}]
       /\ \A x \in Terminals \ {t} : row'[x] = row[x]
  BY DEF Inv, Typed, Statuses, Claims, Shuts, OwnerEnds, Recovered, Empty, Outcome, EmptyProof
<1>k2. proof' \in [Terminals -> BOOLEAN]
  <2>1. proof' = proof \/ \E w \in BOOLEAN : proof' = [proof EXCEPT ![t] = w]
    BY DEF OwnerEnds, EmptyProof
  <2>. QED  BY <2>1 DEF Inv, Typed
<1>k3. prior' \subseteq Terminals
  BY DEF Inv, Typed, OwnerEnds, Outcome, EmptyProof
<1>k4. ends' \in [Terminals -> {"no", "proving", "done"}]
       /\ \A x \in Terminals \ {t} : ends'[x] = ends[x]
  BY DEF Inv, Typed, Statuses, Claims, Shuts, OwnerEnds, Recovered, Empty, Outcome, EmptyProof
<1>s. /\ ends[t] = "proving" /\ ends'[t] = "done"
      /\ \/ Recovered(t) /\ row'[t] = "settled" /\ prior' = prior \ {t}
         \/ UNCHANGED <<row, prior>>
  BY DEF Inv, Typed, OwnerEnds, Outcome, EmptyProof
<1>1. Typed'
  BY <1>u, <1>k1, <1>k2, <1>k3, <1>k4 DEF Inv, Typed
<1>2. Globals'
  BY <1>u DEF Inv, Globals
<1>h. Parts(t) /\ record[t] \in {"none", "current", "stale"}
  BY DEF Inv, Typed, PerTerminal
<1>3. ASSUME NEW x \in Terminals, x # t
      PROVE  Parts(x)' /\ (In(x)' => In(x))
  <2>1. Same(x)  BY <1>3, <1>u, <1>k1, <1>k2, <1>k3, <1>k4, <1>s DEF Same
  <2>. QED  BY <2>1, <1>u, Elsewhere
<1>4. Parts(t)'
  <2>. USE <1>h, <1>u, <1>s
         DEF Parts, Rows, Launching, Inherited, Claiming, HandingBack, Shutting, Known, Abandoned,
             Blank, Withdrawn, Claims, Late, Early, ShuttingDown, Up, Empty, Recovered
  <2>1. Rows(t)'  OBVIOUS
  <2>2. Launching(t)'  OBVIOUS
  <2>3. Inherited(t)'  OBVIOUS
  <2>4. Claiming(t)'  OBVIOUS
  <2>5. HandingBack(t)'  OBVIOUS
  <2>6. Shutting(t)'  OBVIOUS
  <2>7. Known(t)'  OBVIOUS
  <2>8. Abandoned(t)'  OBVIOUS
  <2>9. Blank(t)'  OBVIOUS
  <2>10. Withdrawn(t)'  OBVIOUS
  <2>. QED  BY <2>1, <2>2, <2>3, <2>4, <2>5, <2>6, <2>7, <2>8, <2>9, <2>10 DEF Parts
<1>5. In(t)' => In(t)
  BY <1>h, <1>u, <1>s DEF In, Parts, Rows, Launching, Up, Empty, Recovered
<1>. QED  BY <1>1, <1>2, <1>3, <1>4, <1>5 DEF Inv, PerTerminal, Taken

\* Owed keeps the invariant, and takes no slot.
LEMMA OwedInv ==
  ASSUME Inv, NEW t \in Terminals, Owed(t)
  PROVE  Inv' /\ Taken' \subseteq Taken
<1>u. UNCHANGED <<record, shell, keeps, phase, started, reattach, limit, scanning, status, create,
                  end, settle, claim, shut, ends, quit, restart, withdrawn, handed, disowned>>
  BY DEF Owed, native, run, tasks, intent
<1>k1. row' \in [Terminals -> {"none", "requested", "created", "settled"}]
       /\ \A x \in Terminals \ {t} : row'[x] = row[x]
  BY DEF Inv, Typed, Statuses, Claims, Shuts, Owed, ShuttingDown, Outcome, EmptyProof, Map, Fault
<1>k2. proof' \in [Terminals -> BOOLEAN]
  <2>1. proof' = proof \/ \E w \in BOOLEAN : proof' = [proof EXCEPT ![t] = w]
    BY DEF Owed, EmptyProof
  <2>. QED  BY <2>1 DEF Inv, Typed
<1>k3. prior' \subseteq Terminals
  BY DEF Inv, Typed, Owed, Outcome, EmptyProof, Fault
<1>k4. reserved' \subseteq Terminals
  BY DEF Inv, Typed, Owed, Outcome, EmptyProof, Fault
<1>k5. failures' \subseteq Terminals
  BY DEF Inv, Typed, Owed, Outcome, EmptyProof, Fault
<1>f. faults' \in 0..MaxFaults
  BY TerminalBounds DEF Inv, Typed, Owed, Outcome, EmptyProof, Fault
<1>s. /\ t \in reserved \cap failures /\ ~ShuttingDown /\ ~scanning /\ claim[t] = "no"
      /\ \/ /\ row'[t] = "settled" /\ prior' = prior \ {t} /\ failures' = failures \ {t}
            /\ reserved' = (prior \ {t}) \ Map
         \/
            /\ UNCHANGED <<row, prior, failures, reserved>>
  BY DEF Inv, Typed, Owed, Outcome, EmptyProof, Fault
<1>1. Typed'
  BY <1>u, <1>k1, <1>k2, <1>k3, <1>k4, <1>k5, <1>f DEF Inv, Typed
<1>2. Globals'
  BY <1>u DEF Inv, Globals
<1>h. Parts(t) /\ record[t] \in {"none", "current", "stale"}
  BY DEF Inv, Typed, PerTerminal
<1>3. ASSUME NEW x \in Terminals, x # t
      PROVE  Parts(x)' /\ (In(x)' => In(x))
  <2>1. Same(x)
    BY <1>3, <1>u, <1>k1, <1>k2, <1>k3, <1>k4, <1>k5, <1>s, <1>h DEF Same, Parts, Blank,
         ShuttingDown, Map
  <2>. QED  BY <2>1, <1>u, Elsewhere
<1>4. Parts(t)'
  <2>. USE <1>h, <1>u, <1>s
         DEF Parts, Rows, Launching, Inherited, Claiming, HandingBack, Shutting, Known, Abandoned,
             Blank, Withdrawn, Claims, Late, Early, ShuttingDown, Up, Empty, Map
  <2>1. Rows(t)'  OBVIOUS
  <2>2. Launching(t)'  OBVIOUS
  <2>3. Inherited(t)'  OBVIOUS
  <2>4. Claiming(t)'  OBVIOUS
  <2>5. HandingBack(t)'  OBVIOUS
  <2>6. Shutting(t)'  OBVIOUS
  <2>7. Known(t)'  OBVIOUS
  <2>8. Abandoned(t)'  OBVIOUS
  <2>9. Blank(t)'  OBVIOUS
  <2>10. Withdrawn(t)'  OBVIOUS
  <2>. QED  BY <2>1, <2>2, <2>3, <2>4, <2>5, <2>6, <2>7, <2>8, <2>9, <2>10 DEF Parts
<1>5. In(t)' => In(t)
  BY <1>h, <1>u, <1>s DEF In, Parts, Rows, Launching, Up, Empty, ShuttingDown, Map
<1>. QED  BY <1>1, <1>2, <1>3, <1>4, <1>5 DEF Inv, PerTerminal, Taken

\* Reattached keeps the invariant, and takes no slot.
LEMMA ReattachedInv ==
  ASSUME Inv, NEW t \in Terminals, Reattached(t)
  PROVE  Inv' /\ Taken' \subseteq Taken
<1>u. UNCHANGED <<row, proof, shell, keeps, phase, started, reattach, limit, scanning, prior,
                  failures, create, end, settle, shut, ends, quit, restart, withdrawn, handed,
                  disowned>>
  BY DEF Reattached, native, run, intent
<1>k1. record' \in [Terminals -> {"none", "current", "stale"}]
       /\ \A x \in Terminals \ {t} : record'[x] = record[x]
  BY DEF Inv, Typed, Statuses, Claims, Shuts, Reattached, ShuttingDown, Stored, Fault, Map
<1>k2. reserved' \subseteq Terminals
  BY DEF Inv, Typed, Reattached, Stored, Fault
<1>k3. status' \in [Terminals -> Statuses]
       /\ \A x \in Terminals \ {t} : status'[x] = status[x]
  BY DEF Inv, Typed, Statuses, Claims, Shuts, Reattached, ShuttingDown, Stored, Fault, Map
<1>k4. claim' \in [Terminals -> Claims \cup {"no", "proving"}]
       /\ \A x \in Terminals \ {t} : claim'[x] = claim[x]
  BY DEF Inv, Typed, Statuses, Claims, Shuts, Reattached, ShuttingDown, Stored, Fault, Map
<1>f. faults' \in 0..MaxFaults
  BY TerminalBounds DEF Inv, Typed, Reattached, Stored, Fault
<1>s. /\ claim[t] = "accepted" /\ ~ShuttingDown
      /\ record'[t] \in {"none", IF withdrawn THEN "none" ELSE "current"}
      /\ claim'[t] = "no"
      /\ status'[t] = "running"
      /\ reserved' = prior \ (Map \cup {t})
  BY DEF Inv, Typed, Reattached, Stored, Fault
<1>1. Typed'
  BY <1>u, <1>k1, <1>k2, <1>k3, <1>k4, <1>f DEF Inv, Typed
<1>2. Globals'
  BY <1>u DEF Inv, Globals
<1>h. Parts(t) /\ record[t] \in {"none", "current", "stale"}
  BY DEF Inv, Typed, PerTerminal
<1>3. ASSUME NEW x \in Terminals, x # t
      PROVE  Parts(x)' /\ (In(x)' => In(x))
  <2>1. Same(x)
    BY <1>3, <1>u, <1>k1, <1>k2, <1>k3, <1>k4, <1>s, <1>h DEF Same, Parts, Blank, ShuttingDown, Map
  <2>. QED  BY <2>1, <1>u, Elsewhere
<1>4. Parts(t)'
  <2>. USE <1>h, <1>u, <1>s
         DEF Parts, Rows, Launching, Inherited, Claiming, HandingBack, Shutting, Known, Abandoned,
             Blank, Withdrawn, Claims, Late, Early, ShuttingDown, Up, Empty, Map
  <2>1. Rows(t)'  OBVIOUS
  <2>2. Launching(t)'  OBVIOUS
  <2>3. Inherited(t)'  OBVIOUS
  <2>4. Claiming(t)'  OBVIOUS
  <2>5. HandingBack(t)'  OBVIOUS
  <2>6. Shutting(t)'  OBVIOUS
  <2>7. Known(t)'  OBVIOUS
  <2>8. Abandoned(t)'  OBVIOUS
  <2>9. Blank(t)'  OBVIOUS
  <2>10. Withdrawn(t)'  OBVIOUS
  <2>. QED  BY <2>1, <2>2, <2>3, <2>4, <2>5, <2>6, <2>7, <2>8, <2>9, <2>10 DEF Parts
<1>5. In(t)' => In(t)
  BY <1>h, <1>u, <1>s DEF In, Parts, Rows, Launching, Up, Empty, ShuttingDown, Map
<1>. QED  BY <1>1, <1>2, <1>3, <1>4, <1>5 DEF Inv, PerTerminal, Taken

\* ReconcileEnds keeps the invariant, and takes no slot.
LEMMA ReconcileEndsInv ==
  ASSUME Inv, NEW t \in Terminals, ReconcileEnds(t)
  PROVE  Inv' /\ Taken' \subseteq Taken
<1>u. UNCHANGED <<shell, keeps, phase, started, reattach, limit, scanning, failures, status,
                  create, end, settle, shut, ends, quit, restart, withdrawn, handed, disowned,
                  faults>>
  BY DEF ReconcileEnds, native, run, intent
<1>k1. row' \in [Terminals -> {"none", "requested", "created", "settled"}]
       /\ \A x \in Terminals \ {t} : row'[x] = row[x]
  BY DEF Inv, Typed, Statuses, Claims, Shuts, ReconcileEnds, Recovered, Empty, ShuttingDown,
         Outcome, EmptyProof, Map
<1>k2. record' \in [Terminals -> {"none", "current", "stale"}]
       /\ \A x \in Terminals \ {t} : record'[x] = record[x]
  BY DEF Inv, Typed, Statuses, Claims, Shuts, ReconcileEnds, Recovered, Empty, ShuttingDown,
         Outcome, EmptyProof, Map
<1>k3. proof' \in [Terminals -> BOOLEAN]
  <2>1. proof' = proof \/ \E w \in BOOLEAN : proof' = [proof EXCEPT ![t] = w]
    BY DEF ReconcileEnds, EmptyProof
  <2>. QED  BY <2>1 DEF Inv, Typed
<1>k4. prior' \subseteq Terminals
  BY DEF Inv, Typed, ReconcileEnds, Outcome, EmptyProof
<1>k5. reserved' \subseteq Terminals
  BY DEF Inv, Typed, ReconcileEnds, Outcome, EmptyProof
<1>k6. claim' \in [Terminals -> Claims \cup {"no", "proving"}]
       /\ \A x \in Terminals \ {t} : claim'[x] = claim[x]
  BY DEF Inv, Typed, Statuses, Claims, Shuts, ReconcileEnds, Recovered, Empty, ShuttingDown,
         Outcome, EmptyProof, Map
<1>s. /\ claim[t] = "proving" /\ claim'[t] = "no"
      /\ \/ /\ Recovered(t) /\ ~ShuttingDown /\ t \in prior
            /\ row'[t] = "settled" /\ prior' = prior \ {t} /\ record'[t] = "none"
            /\ reserved' = (prior \ {t}) \ Map
         \/ UNCHANGED <<row, prior, record, reserved>>
  BY DEF Inv, Typed, ReconcileEnds, Outcome, EmptyProof
<1>1. Typed'
  BY <1>u, <1>k1, <1>k2, <1>k3, <1>k4, <1>k5, <1>k6 DEF Inv, Typed
<1>2. Globals'
  BY <1>u DEF Inv, Globals
<1>h. Parts(t) /\ record[t] \in {"none", "current", "stale"}
  BY DEF Inv, Typed, PerTerminal
<1>3. ASSUME NEW x \in Terminals, x # t
      PROVE  Parts(x)' /\ (In(x)' => In(x))
  <2>1. Same(x)
    BY <1>3, <1>u, <1>k1, <1>k2, <1>k3, <1>k4, <1>k5, <1>k6, <1>s, <1>h DEF Same, Parts, Blank,
         Recovered, Empty, ShuttingDown, Map
  <2>. QED  BY <2>1, <1>u, Elsewhere
<1>4. Parts(t)'
  <2>. USE <1>h, <1>u, <1>s
         DEF Parts, Rows, Launching, Inherited, Claiming, HandingBack, Shutting, Known, Abandoned,
             Blank, Withdrawn, Claims, Late, Early, ShuttingDown, Up, Empty, Recovered, Map
  <2>1. Rows(t)'  OBVIOUS
  <2>2. Launching(t)'  OBVIOUS
  <2>3. Inherited(t)'  OBVIOUS
  <2>4. Claiming(t)'  OBVIOUS
  <2>5. HandingBack(t)'  OBVIOUS
  <2>6. Shutting(t)'  OBVIOUS
  <2>7. Known(t)'  OBVIOUS
  <2>8. Abandoned(t)'  OBVIOUS
  <2>9. Blank(t)'  OBVIOUS
  <2>10. Withdrawn(t)'  OBVIOUS
  <2>. QED  BY <2>1, <2>2, <2>3, <2>4, <2>5, <2>6, <2>7, <2>8, <2>9, <2>10 DEF Parts
<1>5. In(t)' => In(t)
  BY <1>h, <1>u, <1>s DEF In, Parts, Rows, Launching, Up, Empty, Recovered, ShuttingDown, Map
<1>. QED  BY <1>1, <1>2, <1>3, <1>4, <1>5 DEF Inv, PerTerminal, Taken

\* The steps of one terminal, but for a launch.
Moves(t) ==
    \/ Spawn(t) \/ SpawnFails(t) \/ Ready(t) \/ ReadyFails(t) \/ TornDown(t)
    \/ NotTornDown(t) \/ Exits(t) \/ ExitSeen(t) \/ Disconnected(t) \/ Settles(t) \/ Forget(t)
    \/ Close(t) \/ Terminate(t) \/ Closed(t) \/ CloseUnproven(t)
    \/ Owed(t) \/ Reconcile(t) \/ Proceed(t) \/ Accepts(t) \/ NotReattached(t)
    \/ Reattached(t) \/ Unrecorded(t) \/ ReattachedLate(t) \/ ClaimEnds(t) \/ Recovers(t)
    \/ ReconcileEnds(t) \/ HandBack(t) \/ HandedBack(t) \/ NotHandedBack(t)
    \/ ShutCloses(t) \/ OwnerEnds(t)

\* Each of them keeps the invariant and takes no slot.
LEMMA MovesInv ==
  ASSUME Inv, NEW t \in Terminals, Moves(t)
  PROVE  Inv' /\ Taken' \subseteq Taken
<1>1. CASE Spawn(t)  BY <1>1, SpawnInv
<1>2. CASE SpawnFails(t)  BY <1>2, SpawnFailsInv
<1>3. CASE Ready(t)  BY <1>3, ReadyInv
<1>4. CASE ReadyFails(t)  BY <1>4, ReadyFailsInv
<1>5. CASE TornDown(t)  BY <1>5, TornDownInv
<1>6. CASE NotTornDown(t)  BY <1>6, NotTornDownInv
<1>7. CASE Exits(t)  BY <1>7, ExitsInv
<1>8. CASE ExitSeen(t)  BY <1>8, ExitSeenInv
<1>9. CASE Disconnected(t)  BY <1>9, DisconnectedInv
<1>10. CASE Settles(t)  BY <1>10, SettlesInv
<1>11. CASE Forget(t)  BY <1>11, ForgetInv
<1>12. CASE Close(t)  BY <1>12, CloseInv
<1>13. CASE Terminate(t)  BY <1>13, TerminateInv
<1>14. CASE Closed(t)  BY <1>14, ClosedInv
<1>15. CASE CloseUnproven(t)  BY <1>15, CloseUnprovenInv
<1>16. CASE Owed(t)  BY <1>16, OwedInv
<1>17. CASE Reconcile(t)  BY <1>17, ReconcileInv
<1>18. CASE Proceed(t)  BY <1>18, ProceedInv
<1>19. CASE Accepts(t)  BY <1>19, AcceptsInv
<1>20. CASE NotReattached(t)  BY <1>20, NotReattachedInv
<1>21. CASE Reattached(t)  BY <1>21, ReattachedInv
<1>22. CASE Unrecorded(t)  BY <1>22, UnrecordedInv
<1>23. CASE ReattachedLate(t)  BY <1>23, ReattachedLateInv
<1>24. CASE ClaimEnds(t)  BY <1>24, ClaimEndsInv
<1>25. CASE Recovers(t)  BY <1>25, RecoversInv
<1>26. CASE ReconcileEnds(t)  BY <1>26, ReconcileEndsInv
<1>27. CASE HandBack(t)  BY <1>27, HandBackInv
<1>28. CASE HandedBack(t)  BY <1>28, HandedBackInv
<1>29. CASE NotHandedBack(t)  BY <1>29, NotHandedBackInv
<1>30. CASE ShutCloses(t)  BY <1>30, ShutClosesInv
<1>31. CASE OwnerEnds(t)  BY <1>31, OwnerEndsInv
<1>. QED  BY <1>1, <1>2, <1>3, <1>4, <1>5, <1>6, <1>7, <1>8, <1>9, <1>10, <1>11, <1>12, <1>13,
             <1>14, <1>15, <1>16, <1>17, <1>18, <1>19, <1>20, <1>21, <1>22, <1>23, <1>24, <1>25,
             <1>26, <1>27, <1>28, <1>29, <1>30, <1>31 DEF Moves

\* Start keeps the invariant, and takes no slot.
LEMMA StartInv ==
  ASSUME Inv, Start
  PROVE  Inv' /\ Taken' \subseteq Taken
<1>u. UNCHANGED <<row, record, proof, shell, keeps, limit, prior, reserved, failures, status,
                  create, end, settle, claim, shut, ends, quit, restart, withdrawn, handed,
                  disowned, faults>>
  BY DEF Start, durable, native, tasks, intent
<1>s. /\ phase = "down" /\ phase' = "up" /\ scanning' = TRUE
  BY DEF Start
<1>t. /\ reattach' \in BOOLEAN /\ started' \in 0..MaxRuntimes
  BY TerminalBounds DEF Inv, Typed, Start
<1>1. Typed'
  BY <1>u, <1>s, <1>t DEF Inv, Typed, Late
<1>2. Globals'
  BY <1>u, <1>s DEF Inv, Globals
<1>3. ASSUME NEW x \in Terminals
      PROVE  Parts(x)' /\ (In(x)' => In(x))
  <2>h. Parts(x) /\ record[x] \in {"none", "current", "stale"} 
        /\ phase \in {"down", "up", "stopping", "joining"} \cup Late
        /\ row[x] \in {"none", "requested", "created", "settled"} /\ Globals
    BY DEF Inv, Typed, PerTerminal
  <2>. USE <2>h, <1>u, <1>s
         DEF Parts, Rows, Launching, Inherited, Claiming, HandingBack, Shutting, Known, Abandoned,
             Blank, Withdrawn, Globals, Claims, Late, Early, Up, Empty
  <2>1. Rows(x)'  OBVIOUS
  <2>2. Launching(x)'  OBVIOUS
  <2>3. Inherited(x)'  OBVIOUS
  <2>4. Claiming(x)'  OBVIOUS
  <2>5. HandingBack(x)'  OBVIOUS
  <2>6. Shutting(x)'  OBVIOUS
  <2>7. Known(x)'  OBVIOUS
  <2>8. Abandoned(x)'  OBVIOUS
  <2>9. Blank(x)'  OBVIOUS
  <2>10. Withdrawn(x)'  OBVIOUS
  <2>11. In(x)' => In(x)  BY DEF In
  <2>. QED  BY <2>1, <2>2, <2>3, <2>4, <2>5, <2>6, <2>7, <2>8, <2>9, <2>10, <2>11 DEF Parts
<1>. QED  BY <1>1, <1>2, <1>3 DEF Inv, PerTerminal, Taken

\* Scanned keeps the invariant, and takes no slot.
LEMMA ScannedInv ==
  ASSUME Inv, Scanned
  PROVE  Inv' /\ Taken' \subseteq Taken
<1>u. UNCHANGED <<row, shell, keeps, phase, started, reattach, limit, failures, status, create,
                  end, settle, claim, shut, ends, quit, restart, withdrawn, handed, disowned,
                  faults>>
  BY DEF Scanned, native, run, tasks, intent
<1>s. /\ scanning /\ scanning' = FALSE
  BY DEF Scanned
<1>t. /\ prior' \subseteq Terminals /\ reserved' \subseteq Terminals /\ proof' \in [Terminals -> BOOLEAN]
      /\ record' \in [Terminals -> {"none", "current", "stale"}]
  <2>1. prior' \subseteq Terminals
    BY DEF Scanned, ScanFinds
  <2>2. CASE phase # "up"
    BY <2>1, <2>2 DEF Inv, Typed, Scanned
  <2>3. CASE phase = "up"
    <3>1. reserved' \subseteq Terminals
      BY <2>1, <2>3 DEF Scanned
    <3>2. record' \in [Terminals -> {"none", "current", "stale"}]
      BY <2>3 DEF Inv, Typed, Scanned
    <3>3. proof' = [x \in Terminals |-> x \in reserved' /\ proof[x]]
      BY <2>3 DEF Scanned
    <3>4. proof' \in [Terminals -> BOOLEAN]
      BY <3>3
    <3>. QED  BY <2>1, <3>1, <3>2, <3>4
  <2>. QED  BY <2>2, <2>3
<1>1. Typed'
  BY <1>u, <1>s, <1>t DEF Inv, Typed, Late
<1>2. Globals'
  BY <1>u, <1>s DEF Inv, Globals
<1>3. ASSUME NEW x \in Terminals
      PROVE  Parts(x)' /\ (In(x)' => In(x))
  <2>h. Parts(x) /\ record[x] \in {"none", "current", "stale"} 
        /\ phase \in {"down", "up", "stopping", "joining"} \cup Late
        /\ row[x] \in {"none", "requested", "created", "settled"} /\ Globals
    BY DEF Inv, Typed, PerTerminal
  <2>s. /\ (x \in prior' <=> row[x] \in {"requested", "created"})
        /\ (phase # "up" => (record'[x] = record[x] /\ (x \in reserved' <=> x \in reserved)))
        /\ (phase = "up" => /\ (x \in reserved' <=> (x \in prior' /\ status[x] = "absent"))
                            /\ record'[x] = (IF x \in reserved' THEN record[x] ELSE "none"))
    BY DEF Inv, Typed, Scanned, ScanFinds, Map
  <2>. USE <2>h, <1>u, <1>s, <2>s
         DEF Parts, Rows, Launching, Inherited, Claiming, HandingBack, Shutting, Known, Abandoned,
             Blank, Withdrawn, Globals, Claims, Late, Early, Up, Empty
  <2>1. Rows(x)'  OBVIOUS
  <2>2. Launching(x)'  OBVIOUS
  <2>3. Inherited(x)'  OBVIOUS
  <2>4. Claiming(x)'  OBVIOUS
  <2>5. HandingBack(x)'  OBVIOUS
  <2>6. Shutting(x)'  OBVIOUS
  <2>7. Known(x)'  OBVIOUS
  <2>8. Abandoned(x)'  OBVIOUS
  <2>9. Blank(x)'  OBVIOUS
  <2>10. Withdrawn(x)'  OBVIOUS
  <2>11. In(x)' => In(x)  BY DEF In
  <2>. QED  BY <2>1, <2>2, <2>3, <2>4, <2>5, <2>6, <2>7, <2>8, <2>9, <2>10, <2>11 DEF Parts
<1>. QED  BY <1>1, <1>2, <1>3 DEF Inv, PerTerminal, Taken

\* Gone keeps the invariant, and takes no slot.
LEMMA GoneInv ==
  ASSUME Inv, Gone
  PROVE  Inv' /\ Taken' \subseteq Taken
<1>u. UNCHANGED <<row, record, proof, keeps, started, limit, faults>>
  BY DEF Gone, durable
<1>s. /\ phase' = "down" /\ quit' = FALSE /\ restart' = FALSE /\ withdrawn' = FALSE /\ scanning' = FALSE
      /\ reattach' = FALSE /\ prior' = {} /\ reserved' = {} /\ failures' = {} /\ handed' = {}
  BY DEF Gone
<1>t. /\ shell' \in [Terminals -> {"none", "attached", "detached", "ending", "gone"}]
      /\ disowned' \subseteq Terminals
      /\ status' \in [Terminals -> Statuses]
      /\ create' \in [Terminals -> {"no", "spawning", "failing", "tearing"}]
      /\ end' \in [Terminals -> {"no", "asked", "ending"}] /\ settle' \in [Terminals -> BOOLEAN]
      /\ claim' \in [Terminals -> Claims \cup {"no", "proving"}] /\ shut' \in [Terminals -> Shuts]
      /\ ends' \in [Terminals -> {"no", "proving", "done"}]
  BY TerminalBounds DEF Inv, Typed, Statuses, Shuts, Gone, Orphan, Up, All
<1>1. Typed'
  BY <1>u, <1>s, <1>t DEF Inv, Typed, Late
<1>2. Globals'
  BY <1>u, <1>s DEF Inv, Globals
<1>3. ASSUME NEW x \in Terminals
      PROVE  Parts(x)' /\ (In(x)' => In(x))
  <2>h. Parts(x) /\ record[x] \in {"none", "current", "stale"} 
        /\ phase \in {"down", "up", "stopping", "joining"} \cup Late
        /\ row[x] \in {"none", "requested", "created", "settled"} /\ Globals
    BY DEF Inv, Typed, PerTerminal
  <2>s. /\ shell'[x] = (IF shell[x] # "attached" THEN shell[x]
                      ELSE IF keeps[x] THEN "detached" ELSE "ending")
        /\ (x \in disowned' <=> (x \in disowned \/ (quit /\ Up(x))))
        /\ status'[x] = "absent" /\ create'[x] = "no" /\ end'[x] = "no" /\ settle'[x] = FALSE
        /\ claim'[x] = "no" /\ shut'[x] = "no" /\ ends'[x] = "no"
    BY DEF Inv, Typed, Gone, Orphan, Up, All
  <2>. USE <2>h, <1>u, <1>s, <2>s
         DEF Parts, Rows, Launching, Inherited, Claiming, HandingBack, Shutting, Known, Abandoned,
             Blank, Withdrawn, Globals, Claims, Late, Early, Up, Empty
  <2>1. Rows(x)'  OBVIOUS
  <2>2. Launching(x)'  OBVIOUS
  <2>3. Inherited(x)'  OBVIOUS
  <2>4. Claiming(x)'  OBVIOUS
  <2>5. HandingBack(x)'  OBVIOUS
  <2>6. Shutting(x)'  OBVIOUS
  <2>7. Known(x)'  OBVIOUS
  <2>8. Abandoned(x)'  OBVIOUS
  <2>9. Blank(x)'  OBVIOUS
  <2>10. Withdrawn(x)'  OBVIOUS
  <2>11. In(x)' => In(x)  BY DEF In
  <2>. QED  BY <2>1, <2>2, <2>3, <2>4, <2>5, <2>6, <2>7, <2>8, <2>9, <2>10, <2>11 DEF Parts
<1>. QED  BY <1>1, <1>2, <1>3 DEF Inv, PerTerminal, Taken

\* Quit keeps the invariant, and takes no slot.
LEMMA QuitInv ==
  ASSUME Inv, Quit
  PROVE  Inv' /\ Taken' \subseteq Taken
<1>u. UNCHANGED <<row, proof, shell, keeps, started, reattach, limit, scanning, prior, reserved,
                  failures, status, create, end, settle, claim, shut, ends, restart, handed,
                  disowned, faults>>
  BY DEF Quit, native, ledger, tasks
<1>s. /\ phase # "down" /\ quit' = TRUE /\ withdrawn' = TRUE
      /\ phase' = IF phase = "up" THEN "stopping" ELSE phase
  BY DEF Quit
<1>t. /\ record' \in [Terminals -> {"none", "current", "stale"}]
  BY TerminalBounds DEF Inv, Typed, Quit, WithdrawnRecords, All
<1>1. Typed'
  BY <1>u, <1>s, <1>t DEF Inv, Typed, Late
<1>2. Globals'
  BY <1>u, <1>s DEF Inv, Globals
<1>3. ASSUME NEW x \in Terminals
      PROVE  Parts(x)' /\ (In(x)' => In(x))
  <2>h. Parts(x) /\ record[x] \in {"none", "current", "stale"} 
        /\ phase \in {"down", "up", "stopping", "joining"} \cup Late
        /\ row[x] \in {"none", "requested", "created", "settled"} /\ Globals
    BY DEF Inv, Typed, PerTerminal
  <2>s. record'[x] = "none"
    BY DEF Inv, Typed, Quit, WithdrawnRecords, All
  <2>. USE <2>h, <1>u, <1>s, <2>s
         DEF Parts, Rows, Launching, Inherited, Claiming, HandingBack, Shutting, Known, Abandoned,
             Blank, Withdrawn, Globals, Claims, Late, Early, Up, Empty
  <2>1. Rows(x)'  OBVIOUS
  <2>2. Launching(x)'  OBVIOUS
  <2>3. Inherited(x)'  OBVIOUS
  <2>4. Claiming(x)'  OBVIOUS
  <2>5. HandingBack(x)'  OBVIOUS
  <2>6. Shutting(x)'  OBVIOUS
  <2>7. Known(x)'  OBVIOUS
  <2>8. Abandoned(x)'  OBVIOUS
  <2>9. Blank(x)'  OBVIOUS
  <2>10. Withdrawn(x)'  OBVIOUS
  <2>11. In(x)' => In(x)  BY DEF In
  <2>. QED  BY <2>1, <2>2, <2>3, <2>4, <2>5, <2>6, <2>7, <2>8, <2>9, <2>10, <2>11 DEF Parts
<1>. QED  BY <1>1, <1>2, <1>3 DEF Inv, PerTerminal, Taken

\* Restart keeps the invariant, and takes no slot.
LEMMA RestartInv ==
  ASSUME Inv, Restart
  PROVE  Inv' /\ Taken' \subseteq Taken
<1>u. UNCHANGED <<row, record, proof, shell, keeps, started, reattach, limit, scanning, prior,
                  reserved, failures, status, create, end, settle, claim, shut, ends, quit,
                  withdrawn, handed, disowned, faults>>
  BY DEF Restart, durable, native, ledger, tasks
<1>s. /\ phase = "up" /\ phase' = "stopping" /\ restart' = TRUE
  BY DEF Restart
<1>1. Typed'
  BY <1>u, <1>s DEF Inv, Typed, Late
<1>2. Globals'
  BY <1>u, <1>s DEF Inv, Globals
<1>3. ASSUME NEW x \in Terminals
      PROVE  Parts(x)' /\ (In(x)' => In(x))
  <2>h. Parts(x) /\ record[x] \in {"none", "current", "stale"} 
        /\ phase \in {"down", "up", "stopping", "joining"} \cup Late
        /\ row[x] \in {"none", "requested", "created", "settled"} /\ Globals
    BY DEF Inv, Typed, PerTerminal
  <2>. USE <2>h, <1>u, <1>s
         DEF Parts, Rows, Launching, Inherited, Claiming, HandingBack, Shutting, Known, Abandoned,
             Blank, Withdrawn, Globals, Claims, Late, Early, Up, Empty
  <2>1. Rows(x)'  OBVIOUS
  <2>2. Launching(x)'  OBVIOUS
  <2>3. Inherited(x)'  OBVIOUS
  <2>4. Claiming(x)'  OBVIOUS
  <2>5. HandingBack(x)'  OBVIOUS
  <2>6. Shutting(x)'  OBVIOUS
  <2>7. Known(x)'  OBVIOUS
  <2>8. Abandoned(x)'  OBVIOUS
  <2>9. Blank(x)'  OBVIOUS
  <2>10. Withdrawn(x)'  OBVIOUS
  <2>11. In(x)' => In(x)  BY DEF In
  <2>. QED  BY <2>1, <2>2, <2>3, <2>4, <2>5, <2>6, <2>7, <2>8, <2>9, <2>10, <2>11 DEF Parts
<1>. QED  BY <1>1, <1>2, <1>3 DEF Inv, PerTerminal, Taken

\* ShutdownBegins keeps the invariant, and takes no slot.
LEMMA ShutdownBeginsInv ==
  ASSUME Inv, ShutdownBegins
  PROVE  Inv' /\ Taken' \subseteq Taken
<1>u. UNCHANGED <<row, record, proof, shell, keeps, started, reattach, limit, scanning, prior,
                  reserved, failures, status, create, end, settle, claim, shut, ends, quit,
                  restart, withdrawn, handed, disowned, faults>>
  BY DEF ShutdownBegins, durable, native, ledger, tasks, intent
<1>s. /\ phase = "stopping" /\ phase' = "joining"
  BY DEF ShutdownBegins
<1>1. Typed'
  BY <1>u, <1>s DEF Inv, Typed, Late
<1>2. Globals'
  BY <1>u, <1>s DEF Inv, Globals
<1>3. ASSUME NEW x \in Terminals
      PROVE  Parts(x)' /\ (In(x)' => In(x))
  <2>h. Parts(x) /\ record[x] \in {"none", "current", "stale"} 
        /\ phase \in {"down", "up", "stopping", "joining"} \cup Late
        /\ row[x] \in {"none", "requested", "created", "settled"} /\ Globals
    BY DEF Inv, Typed, PerTerminal
  <2>. USE <2>h, <1>u, <1>s
         DEF Parts, Rows, Launching, Inherited, Claiming, HandingBack, Shutting, Known, Abandoned,
             Blank, Withdrawn, Globals, Claims, Late, Early, Up, Empty
  <2>1. Rows(x)'  OBVIOUS
  <2>2. Launching(x)'  OBVIOUS
  <2>3. Inherited(x)'  OBVIOUS
  <2>4. Claiming(x)'  OBVIOUS
  <2>5. HandingBack(x)'  OBVIOUS
  <2>6. Shutting(x)'  OBVIOUS
  <2>7. Known(x)'  OBVIOUS
  <2>8. Abandoned(x)'  OBVIOUS
  <2>9. Blank(x)'  OBVIOUS
  <2>10. Withdrawn(x)'  OBVIOUS
  <2>11. In(x)' => In(x)  BY DEF In
  <2>. QED  BY <2>1, <2>2, <2>3, <2>4, <2>5, <2>6, <2>7, <2>8, <2>9, <2>10, <2>11 DEF Parts
<1>. QED  BY <1>1, <1>2, <1>3 DEF Inv, PerTerminal, Taken

\* Joined keeps the invariant, and takes no slot.
LEMMA JoinedInv ==
  ASSUME Inv, Joined
  PROVE  Inv' /\ Taken' \subseteq Taken
<1>u. UNCHANGED <<row, record, proof, shell, keeps, started, reattach, limit, scanning, prior,
                  reserved, failures, status, create, end, settle, claim, ends, quit, restart,
                  withdrawn, handed, disowned, faults>>
  BY DEF Joined, durable, native, ledger, intent
<1>s. /\ phase = "joining" /\ phase' = "closing"
  BY DEF Joined
<1>t. /\ shut' \in [Terminals -> Shuts]
  BY TerminalBounds DEF Inv, Typed, Statuses, Shuts, Joined, Map
<1>1. Typed'
  BY <1>u, <1>s, <1>t DEF Inv, Typed, Late
<1>2. Globals'
  BY <1>u, <1>s DEF Inv, Globals
<1>3. ASSUME NEW x \in Terminals
      PROVE  Parts(x)' /\ (In(x)' => In(x))
  <2>h. Parts(x) /\ record[x] \in {"none", "current", "stale"} 
        /\ phase \in {"down", "up", "stopping", "joining"} \cup Late
        /\ row[x] \in {"none", "requested", "created", "settled"} /\ Globals
    BY DEF Inv, Typed, PerTerminal
  <2>s. claim[x] \in {"no", "proving"} /\ shut'[x] = IF status[x] # "absent" THEN "todo" ELSE "no"
    BY DEF Inv, Typed, Joined, Map
  <2>. USE <2>h, <1>u, <1>s, <2>s
         DEF Parts, Rows, Launching, Inherited, Claiming, HandingBack, Shutting, Known, Abandoned,
             Blank, Withdrawn, Globals, Claims, Late, Early, Up, Empty
  <2>1. Rows(x)'  OBVIOUS
  <2>2. Launching(x)'  OBVIOUS
  <2>3. Inherited(x)'  OBVIOUS
  <2>4. Claiming(x)'  OBVIOUS
  <2>5. HandingBack(x)'  OBVIOUS
  <2>6. Shutting(x)'  OBVIOUS
  <2>7. Known(x)'  OBVIOUS
  <2>8. Abandoned(x)'  OBVIOUS
  <2>9. Blank(x)'  OBVIOUS
  <2>10. Withdrawn(x)'  OBVIOUS
  <2>11. In(x)' => In(x)  BY DEF In
  <2>. QED  BY <2>1, <2>2, <2>3, <2>4, <2>5, <2>6, <2>7, <2>8, <2>9, <2>10, <2>11 DEF Parts
<1>. QED  BY <1>1, <1>2, <1>3 DEF Inv, PerTerminal, Taken

\* Decide keeps the invariant, and takes no slot.
LEMMA DecideInv ==
  ASSUME Inv, Decide
  PROVE  Inv' /\ Taken' \subseteq Taken
<1>u. UNCHANGED <<row, proof, shell, keeps, started, reattach, limit, scanning, prior, reserved,
                  failures, status, create, end, settle, claim, shut, quit, restart, withdrawn,
                  disowned, faults>>
  BY DEF Decide, native, ledger, intent
<1>s. /\ phase = "closing" /\ phase' \in {"handed over", "ending"}
  BY DEF Decide
<1>t. /\ handed' \subseteq Terminals /\ record' \in [Terminals -> {"none", "current", "stale"}]
      /\ ends' \in [Terminals -> {"no", "proving", "done"}]
  <2>1. CASE DetachingForRestart
    <3>1. UNCHANGED <<ends, handed, record>>
      BY <2>1 DEF Decide
    <3>. QED  BY <3>1 DEF Inv, Typed
  <2>2. CASE ~DetachingForRestart
    <3>1. handed' \subseteq Terminals
      BY <2>2 DEF Decide
    <3>2. record' \in [Terminals -> {"none", "current", "stale"}]
      BY <2>2 DEF Inv, Typed, Decide
    <3>3. ends' \in [Terminals -> {"no", "proving", "done"}]
      BY <2>2 DEF Decide
    <3>. QED  BY <3>1, <3>2, <3>3
  <2>. QED  BY <2>1, <2>2
<1>1. Typed'
  BY <1>u, <1>s, <1>t DEF Inv, Typed, Late
<1>2. Globals'
  BY <1>u, <1>s DEF Inv, Globals
<1>3. ASSUME NEW x \in Terminals
      PROVE  Parts(x)' /\ (In(x)' => In(x))
  <2>h. Parts(x) /\ record[x] \in {"none", "current", "stale"} 
        /\ phase \in {"down", "up", "stopping", "joining"} \cup Late
        /\ row[x] \in {"none", "requested", "created", "settled"} /\ Globals
    BY DEF Inv, Typed, PerTerminal
  <2>s. /\ shut[x] \in {"no", "done"}
        /\ \/ /\ phase' = "handed over" /\ ends'[x] = ends[x] /\ record'[x] = record[x]
              /\ (x \in handed' <=> x \in handed)
           \/ /\ phase' = "ending" /\ x \notin handed'
              /\ ends'[x] = (IF x \in handed THEN "proving" ELSE "no")
              /\ record'[x] = (IF x \in handed THEN "none" ELSE record[x])
    <3>1. CASE DetachingForRestart
      <4>1. phase' = "handed over" /\ UNCHANGED <<ends, handed, record>>
        BY <3>1 DEF Decide
      <4>. QED  BY <4>1 DEF Decide
    <3>2. CASE ~DetachingForRestart
      <4>1. phase' = "ending" /\ handed' = {}
        BY <3>2 DEF Decide
      <4>2. ends'[x] = (IF x \in handed THEN "proving" ELSE "no")
        BY <3>2 DEF Decide, EndHandedBack
      <4>3. record'[x] = (IF x \in handed THEN "none" ELSE record[x])
        BY <3>2 DEF Decide, EndHandedBack
      <4>4. shut[x] \in {"no", "done"}
        BY DEF Decide
      <4>. QED  BY <4>1, <4>2, <4>3, <4>4
    <3>. QED  BY <3>1, <3>2
  <2>. USE <2>h, <1>u, <1>s, <2>s
         DEF Parts, Rows, Launching, Inherited, Claiming, HandingBack, Shutting, Known, Abandoned,
             Blank, Withdrawn, Globals, Claims, Late, Early, Up, Empty
  <2>1. Rows(x)'  OBVIOUS
  <2>2. Launching(x)'  OBVIOUS
  <2>3. Inherited(x)'  OBVIOUS
  <2>4. Claiming(x)'  OBVIOUS
  <2>5. HandingBack(x)'  OBVIOUS
  <2>6. Shutting(x)'  OBVIOUS
  <2>7. Known(x)'  OBVIOUS
  <2>8. Abandoned(x)'  OBVIOUS
  <2>9. Blank(x)'  OBVIOUS
  <2>10. Withdrawn(x)'  OBVIOUS
  <2>11. In(x)' => In(x)  BY DEF In
  <2>. QED  BY <2>1, <2>2, <2>3, <2>4, <2>5, <2>6, <2>7, <2>8, <2>9, <2>10, <2>11 DEF Parts
<1>. QED  BY <1>1, <1>2, <1>3 DEF Inv, PerTerminal, Taken

\* EndPrior keeps the invariant, and takes no slot.
LEMMA EndPriorInv ==
  ASSUME Inv, EndPrior
  PROVE  Inv' /\ Taken' \subseteq Taken
<1>u. UNCHANGED <<row, proof, shell, keeps, started, reattach, limit, scanning, prior, reserved,
                  failures, status, create, end, settle, claim, shut, quit, restart, handed,
                  disowned, faults>>
  BY DEF EndPrior, native, ledger
<1>s. /\ phase \in {"ending", "waiting"} /\ phase' = "ending prior" /\ withdrawn' = TRUE /\ ~scanning
  BY DEF EndPrior
<1>t. /\ record' \in [Terminals -> {"none", "current", "stale"}]
      /\ ends' \in [Terminals -> {"no", "proving", "done"}]
  BY TerminalBounds DEF Inv, Typed, EndPrior, OwnersTried, WithdrawnRecords, All, Unresolved, Map
<1>1. Typed'
  BY <1>u, <1>s, <1>t DEF Inv, Typed, Late
<1>2. Globals'
  BY <1>u, <1>s DEF Inv, Globals
<1>3. ASSUME NEW x \in Terminals
      PROVE  Parts(x)' /\ (In(x)' => In(x))
  <2>h. Parts(x) /\ record[x] \in {"none", "current", "stale"} 
        /\ phase \in {"down", "up", "stopping", "joining"} \cup Late
        /\ row[x] \in {"none", "requested", "created", "settled"} /\ Globals
    BY DEF Inv, Typed, PerTerminal
  <2>s. /\ record'[x] = "none"
        /\ ends'[x] = IF /\ x \in prior /\ status[x] = "absent" /\ row[x] = "created"
                         /\ claim[x] # "proving" /\ ends[x] = "no"
                      THEN "proving" ELSE ends[x]
    BY DEF Inv, Typed, EndPrior, OwnersTried, WithdrawnRecords, All, Unresolved, Map
  <2>. USE <2>h, <1>u, <1>s, <2>s
         DEF Parts, Rows, Launching, Inherited, Claiming, HandingBack, Shutting, Known, Abandoned,
             Blank, Withdrawn, Globals, Claims, Late, Early, Up, Empty
  <2>1. Rows(x)'  OBVIOUS
  <2>2. Launching(x)'  OBVIOUS
  <2>3. Inherited(x)'  OBVIOUS
  <2>4. Claiming(x)'  OBVIOUS
  <2>5. HandingBack(x)'  OBVIOUS
  <2>6. Shutting(x)'  OBVIOUS
  <2>7. Known(x)'  OBVIOUS
  <2>8. Abandoned(x)'  OBVIOUS
  <2>9. Blank(x)'  OBVIOUS
  <2>10. Withdrawn(x)'  OBVIOUS
  <2>11. In(x)' => In(x)  BY DEF In
  <2>. QED  BY <2>1, <2>2, <2>3, <2>4, <2>5, <2>6, <2>7, <2>8, <2>9, <2>10, <2>11 DEF Parts
<1>. QED  BY <1>1, <1>2, <1>3 DEF Inv, PerTerminal, Taken

\* AwaitInventory keeps the invariant, and takes no slot.
LEMMA AwaitInventoryInv ==
  ASSUME Inv, AwaitInventory
  PROVE  Inv' /\ Taken' \subseteq Taken
<1>u. UNCHANGED <<row, proof, shell, keeps, started, reattach, limit, scanning, prior, reserved,
                  failures, status, create, end, settle, claim, shut, ends, quit, restart, handed,
                  disowned, faults>>
  BY DEF AwaitInventory, native, ledger, tasks
<1>s. /\ phase = "ending" /\ phase' \in {"given up", "waiting"} /\ withdrawn' = TRUE
  BY DEF AwaitInventory
<1>t. /\ record' \in [Terminals -> {"none", "current", "stale"}]
  BY TerminalBounds DEF Inv, Typed, AwaitInventory, OwnersTried, WithdrawnRecords, All
<1>1. Typed'
  BY <1>u, <1>s, <1>t DEF Inv, Typed, Late
<1>2. Globals'
  BY <1>u, <1>s DEF Inv, Globals
<1>3. ASSUME NEW x \in Terminals
      PROVE  Parts(x)' /\ (In(x)' => In(x))
  <2>h. Parts(x) /\ record[x] \in {"none", "current", "stale"} 
        /\ phase \in {"down", "up", "stopping", "joining"} \cup Late
        /\ row[x] \in {"none", "requested", "created", "settled"} /\ Globals
    BY DEF Inv, Typed, PerTerminal
  <2>s. record'[x] = "none"
    BY DEF Inv, Typed, AwaitInventory, OwnersTried, WithdrawnRecords, All
  <2>. USE <2>h, <1>u, <1>s, <2>s
         DEF Parts, Rows, Launching, Inherited, Claiming, HandingBack, Shutting, Known, Abandoned,
             Blank, Withdrawn, Globals, Claims, Late, Early, Up, Empty
  <2>1. Rows(x)'  OBVIOUS
  <2>2. Launching(x)'  OBVIOUS
  <2>3. Inherited(x)'  OBVIOUS
  <2>4. Claiming(x)'  OBVIOUS
  <2>5. HandingBack(x)'  OBVIOUS
  <2>6. Shutting(x)'  OBVIOUS
  <2>7. Known(x)'  OBVIOUS
  <2>8. Abandoned(x)'  OBVIOUS
  <2>9. Blank(x)'  OBVIOUS
  <2>10. Withdrawn(x)'  OBVIOUS
  <2>11. In(x)' => In(x)  BY DEF In
  <2>. QED  BY <2>1, <2>2, <2>3, <2>4, <2>5, <2>6, <2>7, <2>8, <2>9, <2>10, <2>11 DEF Parts
<1>. QED  BY <1>1, <1>2, <1>3 DEF Inv, PerTerminal, Taken

\* EndsShutdown keeps the invariant, and takes no slot.
LEMMA EndsShutdownInv ==
  ASSUME Inv, EndsShutdown
  PROVE  Inv' /\ Taken' \subseteq Taken
<1>u. UNCHANGED <<row, record, proof, shell, keeps, started, reattach, limit, scanning, prior,
                  reserved, failures, status, create, end, settle, claim, shut, ends, quit,
                  restart, withdrawn, handed, disowned, faults>>
  BY DEF EndsShutdown, durable, native, ledger, tasks, intent
<1>s. /\ phase \in {"ending prior", "waiting"} /\ phase' \in {"left", "given up"}
  BY DEF EndsShutdown
<1>1. Typed'
  BY <1>u, <1>s DEF Inv, Typed, Late
<1>2. Globals'
  BY <1>u, <1>s DEF Inv, Globals
<1>3. ASSUME NEW x \in Terminals
      PROVE  Parts(x)' /\ (In(x)' => In(x))
  <2>h. Parts(x) /\ record[x] \in {"none", "current", "stale"} 
        /\ phase \in {"down", "up", "stopping", "joining"} \cup Late
        /\ row[x] \in {"none", "requested", "created", "settled"} /\ Globals
    BY DEF Inv, Typed, PerTerminal
  <2>. USE <2>h, <1>u, <1>s
         DEF Parts, Rows, Launching, Inherited, Claiming, HandingBack, Shutting, Known, Abandoned,
             Blank, Withdrawn, Globals, Claims, Late, Early, Up, Empty
  <2>1. Rows(x)'  OBVIOUS
  <2>2. Launching(x)'  OBVIOUS
  <2>3. Inherited(x)'  OBVIOUS
  <2>4. Claiming(x)'  OBVIOUS
  <2>5. HandingBack(x)'  OBVIOUS
  <2>6. Shutting(x)'  OBVIOUS
  <2>7. Known(x)'  OBVIOUS
  <2>8. Abandoned(x)'  OBVIOUS
  <2>9. Blank(x)'  OBVIOUS
  <2>10. Withdrawn(x)'  OBVIOUS
  <2>11. In(x)' => In(x)  BY DEF In
  <2>. QED  BY <2>1, <2>2, <2>3, <2>4, <2>5, <2>6, <2>7, <2>8, <2>9, <2>10, <2>11 DEF Parts
<1>. QED  BY <1>1, <1>2, <1>3 DEF Inv, PerTerminal, Taken

\* A launch keeps the invariant, and the terminals it prunes leave the map like forgotten ones.
LEMMA CreateInv ==
  ASSUME Inv, NEW t \in Terminals, Create(t)
  PROVE  Inv'
<1>u. UNCHANGED <<record, proof, shell, phase, started, reattach, limit, scanning, prior,
                  reserved, failures, end, settle, claim, shut, ends, quit, restart, withdrawn,
                  handed, disowned, faults>>
  BY DEF Create, run, ledger, intent
<1>g. phase = "up" /\ ~scanning /\ row[t] = "none" /\ status[t] = "absent"
  BY DEF Create, Map
<1>p. PICK pruned \in Pruned :
        status' = [x \in Terminals |-> IF x = t THEN "launching"
                     ELSE IF x \in pruned THEN "absent" ELSE status[x]]
  BY DEF Create
<1>q. pruned \subseteq Terminals /\ \A x \in pruned : status[x] = "exited"
  BY <1>p DEF Pruned, Map
<1>k1. row' \in [Terminals -> {"none", "requested", "created", "settled"}] /\ row'[t] = "requested"
       /\ \A x \in Terminals \ {t} : row'[x] = row[x]
  BY DEF Inv, Typed, Create
<1>k2. create' \in [Terminals -> {"no", "spawning", "failing", "tearing"}] /\ create'[t] = "spawning"
       /\ \A x \in Terminals \ {t} : create'[x] = create[x]
  BY DEF Inv, Typed, Create
<1>k3. keeps' \in [Terminals -> BOOLEAN]
  BY DEF Inv, Typed, Create
<1>k4. status' \in [Terminals -> Statuses] /\ status'[t] = "launching"
       /\ \A x \in Terminals \ {t} : status'[x] = (IF x \in pruned THEN "absent" ELSE status[x])
  BY <1>p, Zenon DEF Inv, Typed, Statuses
<1>1. Typed'
  BY <1>u, <1>k1, <1>k2, <1>k3, <1>k4 DEF Inv, Typed
<1>2. Globals'
  BY <1>u DEF Inv, Globals
<1>3. ASSUME NEW x \in Terminals
      PROVE  Parts(x)'
  <2>h. Parts(x)
    BY DEF Inv, PerTerminal
  <2>1. CASE x = t
    <3>1. /\ shell[t] = "none" /\ create[t] = "no" /\ record[t] = "none"
          /\ end[t] = "no" /\ claim[t] = "no"
      BY <1>g, <2>1, <2>h DEF Parts, Rows
    <3>2. /\ ~settle[t] /\ t \notin prior /\ t \notin reserved /\ t \notin failures
          /\ shut[t] = "no" /\ ends[t] = "no"
      BY <1>g, <2>1, <2>h, <3>1 DEF Parts, Rows, Inherited, Shutting, Late
    <3>. QED  BY <1>u, <1>g, <1>k1, <1>k2, <1>k4, <2>1, <2>h, <3>1, <3>2
           DEF Parts, Rows, Launching, Inherited, Claiming, HandingBack, Shutting, Known,
               Abandoned, Blank, Withdrawn, Claims, Late, Early, Empty, Up
  <2>2. CASE x # t /\ x \notin pruned
    <3>1. Same(x)  BY <1>u, <1>k1, <1>k2, <1>k4, <2>2 DEF Same
    <3>. QED  BY <1>u, <3>1, Elsewhere
  <2>3. CASE x # t /\ x \in pruned
    <3>1. /\ status[x] = "exited" /\ status'[x] = "absent" /\ row'[x] = row[x]
          /\ create'[x] = create[x]
      BY <1>q, <1>k1, <1>k2, <1>k4, <2>3
    <3>. QED  BY <1>u, <1>g, <2>h, <3>1
           DEF Parts, Rows, Launching, Inherited, Claiming, HandingBack, Shutting, Known,
               Abandoned, Blank, Withdrawn, Claims, Late, Early, Empty, Up
  <2>. QED  BY <2>1, <2>2, <2>3
<1>. QED  BY <1>1, <1>2, <1>3 DEF Inv, PerTerminal

\* A launch leaves no more shells than the limit: all that may be up is in the map or
\* reserved, and what it prunes is gone.
LEMMA CreateSlots ==
  ASSUME Inv, NEW t \in Terminals, Create(t)
  PROVE  Cardinality(Taken') <= limit'
<1> DEFINE Kept0(pruned) == (Map \ pruned) \cup {t}
<1>f. /\ IsFiniteSet(Terminals) /\ IsFiniteSet(Map) /\ IsFiniteSet(reserved)
      /\ Cardinality(Map) \in Nat /\ Cardinality(reserved) \in Nat /\ limit \in Nat /\ limit' = limit
  <2>1. Map \subseteq Terminals /\ reserved \subseteq Terminals
    BY DEF Map, Inv, Typed
  <2>. QED  BY <2>1, TerminalBounds, FS_Subset, FS_CardinalityType DEF Inv, Typed, Create, run
<1>u. UNCHANGED shell
  BY DEF Create
<1>g. phase = "up" /\ ~scanning /\ t \notin Map
  BY DEF Create
<1>p. PICK pruned \in Pruned :
        status' = [x \in Terminals |-> IF x = t THEN "launching"
                     ELSE IF x \in pruned THEN "absent" ELSE status[x]]
  BY DEF Create
<1>q. /\ pruned \subseteq Map /\ \A x \in pruned : status[x] = "exited"
      /\ Cardinality(pruned) = IF Excess > 0 THEN Excess ELSE 0
  BY <1>p DEF Pruned
<1>1. Taken' \subseteq Kept0(pruned) \cup reserved
  <2> SUFFICES ASSUME NEW x \in Terminals, In(x)', x # t
               PROVE  x \in Kept0(pruned) \cup reserved
    BY DEF Taken
  <2>h. Parts(x)
    BY DEF Inv, PerTerminal
  <2>1. In(x)
    BY <1>u DEF In, Up, Create, Inv, Typed
  <2>2. status[x] # "exited"
    BY <2>h, <2>1 DEF In, Up, Parts, Rows, Empty
  <2>3. x \notin pruned
    BY <1>q, <2>2
  <2>4. CASE status[x] = "absent"
    <3>1. Up(x)
      BY <2>h, <2>1, <2>4 DEF In, Parts, Launching
    <3>. QED  BY <1>g, <2>h, <2>4, <3>1 DEF Parts, Known
  <2>5. CASE status[x] # "absent"
    BY <2>3, <2>5 DEF Map
  <2>. QED  BY <2>4, <2>5
<1>2. /\ IsFiniteSet(Map \ pruned)
      /\ Cardinality(Map \ pruned) = Cardinality(Map) - Cardinality(pruned)
  <2>1. Map \cap pruned = pruned
    BY <1>q
  <2>. QED  BY <1>f, <2>1, FS_Difference
<1>3. IsFiniteSet(Kept0(pruned)) /\ Cardinality(Kept0(pruned)) = Cardinality(Map) - Cardinality(pruned) + 1
  BY <1>g, <1>2, FS_AddElement
<1>4. /\ IsFiniteSet(Kept0(pruned) \cup reserved)
      /\ Cardinality(Kept0(pruned) \cup reserved) <= Cardinality(Kept0(pruned)) + Cardinality(reserved)
  <2> DEFINE both == Kept0(pruned) \cap reserved
  <2> HIDE DEF Kept0
  <2>1. /\ IsFiniteSet(Kept0(pruned) \cup reserved)
        /\ Cardinality(Kept0(pruned) \cup reserved)
             = Cardinality(Kept0(pruned)) + Cardinality(reserved) - Cardinality(both)
    BY <1>f, <1>3, FS_Union
  <2>2. Cardinality(both) \in Nat
    BY <1>f, <1>3, FS_Intersection, FS_CardinalityType
  <2>3. Cardinality(Kept0(pruned)) \in Nat
    BY <1>3, FS_CardinalityType
  <2>. QED  BY <1>f, <2>1, <2>2, <2>3
<1>5. Cardinality(Taken') <= Cardinality(Kept0(pruned) \cup reserved)
  BY <1>1, <1>4, FS_Subset
<1>6. Cardinality(Map) - Cardinality(pruned) + 1 + Cardinality(reserved) <= limit
  BY <1>f, <1>q DEF Excess
<1>7. Cardinality(Taken') \in Nat /\ Cardinality(Kept0(pruned) \cup reserved) \in Nat
  BY <1>1, <1>4, FS_Subset, FS_CardinalityType
<1>8. Cardinality(pruned) \in Nat
  BY <1>f, <1>q, FS_Subset, FS_CardinalityType
<1> HIDE DEF Kept0
<1>. QED  BY <1>3, <1>4, <1>5, <1>6, <1>7, <1>8, <1>f

\* The steps of the runtime as a whole.
Runs ==
    \/ Start \/ Scanned \/ Dies \/ Leave \/ Quit \/ Restart \/ ShutdownBegins \/ Joined
    \/ Decide \/ EndPrior \/ AwaitInventory \/ EndsShutdown

\* Each of them keeps the invariant and takes no slot.
LEMMA RunsInv ==
  ASSUME Inv, Runs
  PROVE  Inv' /\ Taken' \subseteq Taken
<1>1. CASE Start  BY <1>1, StartInv
<1>2. CASE Scanned  BY <1>2, ScannedInv
<1>3. CASE Dies \/ Leave  BY <1>3, GoneInv DEF Dies, Leave
<1>4. CASE Quit  BY <1>4, QuitInv
<1>5. CASE Restart  BY <1>5, RestartInv
<1>6. CASE ShutdownBegins  BY <1>6, ShutdownBeginsInv
<1>7. CASE Joined  BY <1>7, JoinedInv
<1>8. CASE Decide  BY <1>8, DecideInv
<1>9. CASE EndPrior  BY <1>9, EndPriorInv
<1>10. CASE AwaitInventory  BY <1>10, AwaitInventoryInv
<1>11. CASE EndsShutdown  BY <1>11, EndsShutdownInv
<1>. QED  BY <1>1, <1>2, <1>3, <1>4, <1>5, <1>6, <1>7, <1>8, <1>9, <1>10, <1>11 DEF Runs

\* A step of one terminal leaves the runtime as it is.
LEMMA RunKept ==
  ASSUME NEW t \in Terminals, Create(t) \/ Moves(t)
  PROVE  UNCHANGED run
<1>1. CASE Create(t)  BY <1>1 DEF Create
<1>2. CASE Spawn(t)  BY <1>2 DEF Spawn
<1>3. CASE SpawnFails(t)  BY <1>3 DEF SpawnFails
<1>4. CASE Ready(t)  BY <1>4 DEF Ready
<1>5. CASE ReadyFails(t)  BY <1>5 DEF ReadyFails
<1>6. CASE TornDown(t)  BY <1>6 DEF TornDown
<1>7. CASE NotTornDown(t)  BY <1>7 DEF NotTornDown
<1>8. CASE Exits(t)  BY <1>8 DEF Exits
<1>9. CASE ExitSeen(t)  BY <1>9 DEF ExitSeen
<1>10. CASE Disconnected(t)  BY <1>10 DEF Disconnected
<1>11. CASE Settles(t)  BY <1>11 DEF Settles
<1>12. CASE Forget(t)  BY <1>12 DEF Forget
<1>13. CASE Close(t)  BY <1>13 DEF Close
<1>14. CASE Terminate(t)  BY <1>14 DEF Terminate
<1>15. CASE Closed(t)  BY <1>15 DEF Closed
<1>16. CASE CloseUnproven(t)  BY <1>16 DEF CloseUnproven
<1>17. CASE Owed(t)  BY <1>17 DEF Owed
<1>18. CASE Reconcile(t)  BY <1>18 DEF Reconcile
<1>19. CASE Proceed(t)  BY <1>19 DEF Proceed
<1>20. CASE Accepts(t)  BY <1>20 DEF Accepts
<1>21. CASE NotReattached(t)  BY <1>21 DEF NotReattached
<1>22. CASE Reattached(t)  BY <1>22 DEF Reattached
<1>23. CASE Unrecorded(t)  BY <1>23 DEF Unrecorded
<1>24. CASE ReattachedLate(t)  BY <1>24 DEF ReattachedLate
<1>25. CASE ClaimEnds(t)  BY <1>25 DEF ClaimEnds
<1>26. CASE Recovers(t)  BY <1>26 DEF Recovers
<1>27. CASE ReconcileEnds(t)  BY <1>27 DEF ReconcileEnds
<1>28. CASE HandBack(t)  BY <1>28 DEF HandBack
<1>29. CASE HandedBack(t)  BY <1>29 DEF HandedBack
<1>30. CASE NotHandedBack(t)  BY <1>30 DEF NotHandedBack
<1>31. CASE ShutCloses(t)  BY <1>31 DEF ShutCloses
<1>32. CASE OwnerEnds(t)  BY <1>32 DEF OwnerEnds
<1>. QED  BY <1>1, <1>2, <1>3, <1>4, <1>5, <1>6, <1>7, <1>8, <1>9, <1>10, <1>11, <1>12, <1>13,
             <1>14, <1>15, <1>16, <1>17, <1>18, <1>19, <1>20, <1>21, <1>22, <1>23, <1>24, <1>25,
             <1>26, <1>27, <1>28, <1>29, <1>30, <1>31, <1>32 DEF Moves

\* The shells that are up or may still start fit in the limit.
Slots == Cardinality(Taken) <= limit

\* The first runtime finds nothing.
LEMMA InitInv == Init => Inv /\ Slots
<1> SUFFICES ASSUME Init PROVE Inv /\ Slots
  OBVIOUS
<1>1. Typed
  <2>0. started \in 0..MaxRuntimes /\ faults \in 0..MaxFaults
    BY TerminalBounds DEF Init
  <2>1. /\ limit \in Limits /\ phase \in {"down", "up", "stopping", "joining"} \cup Late
        /\ reattach \in BOOLEAN /\ scanning \in BOOLEAN
        /\ quit \in BOOLEAN /\ restart \in BOOLEAN /\ withdrawn \in BOOLEAN
    BY Zenon DEF Init
  <2>2. /\ row \in [Terminals -> {"none", "requested", "created", "settled"}]
        /\ record \in [Terminals -> {"none", "current", "stale"}]
        /\ proof \in [Terminals -> BOOLEAN] /\ keeps \in [Terminals -> BOOLEAN]
        /\ shell \in [Terminals -> {"none", "attached", "detached", "ending", "gone"}]
    BY DEF Init, All
  <2>3. /\ status \in [Terminals -> Statuses]
        /\ create \in [Terminals -> {"no", "spawning", "failing", "tearing"}]
        /\ end \in [Terminals -> {"no", "asked", "ending"}] /\ settle \in [Terminals -> BOOLEAN]
    BY DEF Init, All, Statuses
  <2>4. /\ claim \in [Terminals -> Claims \cup {"no", "proving"}]
        /\ shut \in [Terminals -> Shuts] /\ ends \in [Terminals -> {"no", "proving", "done"}]
    BY DEF Init, All, Shuts
  <2>. QED  BY <2>0, <2>1, <2>2, <2>3, <2>4 DEF Init, Typed
<1>2. ASSUME NEW x \in Terminals
      PROVE  Parts(x) /\ ~In(x)
  BY DEF Init, All, Parts, Rows, Launching, Inherited, Claiming, HandingBack, Shutting, Known,
         Abandoned, Blank, Withdrawn, Late, Claims, In, Up
<1>3. Taken = {}
  BY <1>2 DEF Taken
<1>. QED  BY <1>1, <1>2, <1>3, FS_EmptySet, TerminalBounds DEF Init, Inv, Globals, PerTerminal, Slots

\* Every step keeps the invariant and the limit: only a launch takes a slot.
LEMMA NextInv == Inv /\ Slots /\ [Next]_vars => (Inv /\ Slots)'
<1> SUFFICES ASSUME Inv, Slots, [Next]_vars PROVE Inv' /\ Slots'
  OBVIOUS
<1>1. ASSUME Inv', Taken' \subseteq Taken, limit' = limit PROVE Inv' /\ Slots'
  <2>1. IsFiniteSet(Taken) /\ Cardinality(Taken) \in Nat
    BY TerminalBounds, FS_Subset, FS_CardinalityType DEF Taken
  <2>2. IsFiniteSet(Taken') /\ Cardinality(Taken') \in Nat /\ Cardinality(Taken') <= Cardinality(Taken)
    BY <1>1, <2>1, FS_Subset, FS_CardinalityType
  <2>3. limit \in Nat
    BY TerminalBounds DEF Inv, Typed
  <2>. QED  BY <1>1, <2>1, <2>2, <2>3 DEF Slots
<1>l. limit' = limit
  <2>1. CASE Runs
    BY <2>1 DEF Runs, Start, Scanned, Gone, Dies, Leave, Quit, Restart, ShutdownBegins, Joined,
         Decide, EndPrior, AwaitInventory, EndsShutdown, run
  <2>2. ASSUME NEW t \in Terminals, Create(t) \/ Moves(t) PROVE limit' = limit
    BY <2>2, RunKept DEF run
  <2>3. CASE UNCHANGED vars
    BY <2>3 DEF vars, run
  <2>. QED  BY <2>1, <2>2, <2>3 DEF Next, Runs, Moves
<1>2. CASE Runs
  BY <1>1, <1>2, <1>l, RunsInv
<1>3. ASSUME NEW t \in Terminals, Create(t)
      PROVE  Inv' /\ Slots'
  BY <1>3, CreateInv, CreateSlots DEF Slots
<1>4. ASSUME NEW t \in Terminals, Moves(t)
      PROVE  Inv' /\ Slots'
  BY <1>1, <1>4, <1>l, MovesInv
<1>5. CASE UNCHANGED vars
  <2>1. UNCHANGED <<limit, row, record, proof, shell, keeps, phase, started, reattach, scanning,
                    prior, reserved, failures, status, create, end, settle, claim, shut, ends,
                    quit, restart, withdrawn, handed, disowned, faults>>
    BY <1>5 DEF vars, durable, native, intent, tasks, ledger, run
  <2>2. ASSUME NEW x \in Terminals
        PROVE  Parts(x)' /\ (In(x)' => In(x))
    <3>1. Same(x)  BY <2>1 DEF Same
    <3>. QED  BY <2>1, <3>1, Elsewhere
  <2>3. Typed'
    BY <2>1 DEF Inv, Typed
  <2>4. Inv' /\ Taken' \subseteq Taken
    BY <2>1, <2>2, <2>3 DEF Inv, Globals, PerTerminal, Taken
  <2>. QED  BY <1>1, <1>l, <2>4
<1>. QED  BY <1>2, <1>3, <1>4, <1>5 DEF Next, Runs, Moves

\* What the theorems below rest on.
THEOREM Invariance == Spec => [](Inv /\ Slots)
<1>. QED  BY InitInv, NextInv, PTL DEF Spec

\* An owner gets its outcome only when its shell is gone, whoever records it.
THEOREM OutcomesTrue == Spec => []OutcomeMeansGone
<1>1. Inv => OutcomeMeansGone
  BY DEF Inv, PerTerminal, Parts, Rows, OutcomeMeansGone
<1>. QED  BY <1>1, Invariance, PTL

\* The shells that are up never exceed maxTerminals.
THEOREM WithinLimit == Spec => []ShellsWithinLimit
<1>1. Inv /\ Slots => ShellsWithinLimit
  <2> SUFFICES ASSUME Inv, Slots PROVE ShellsWithinLimit
    OBVIOUS
  <2>1. TypeOK
    <3>1. Claims \cup {"no", "proving"} = {"no", "knocking", "refused", "spending", "accepted",
                                           "releasing", "dropping", "proving"}
      BY DEF Claims
    <3>2. /\ phase \in {"down", "up", "stopping", "joining", "closing", "handed over",
                       "ending", "waiting", "ending prior", "left", "given up"}
          /\ {reattach, scanning, quit, restart, withdrawn} \subseteq BOOLEAN
      BY DEF Inv, Typed, Late
    <3>. QED  BY <3>1, <3>2 DEF Inv, Typed, TypeOK, Statuses, Shuts
  <2>2. {t \in Terminals : Up(t)} \subseteq Taken
    BY DEF Taken, In
  <2>3. IsFiniteSet(Taken) /\ Cardinality(Taken) \in Nat
    BY TerminalBounds, FS_Subset, FS_CardinalityType DEF Taken
  <2>4. /\ Cardinality({t \in Terminals : Up(t)}) \in Nat
        /\ Cardinality({t \in Terminals : Up(t)}) <= Cardinality(Taken)
    BY <2>2, <2>3, FS_Subset, FS_CardinalityType
  <2>5. limit \in Nat
    BY TerminalBounds DEF Inv, Typed
  <2>. QED  BY <2>1, <2>3, <2>4, <2>5 DEF Slots, ShellsWithinLimit
<1>. QED  BY <1>1, Invariance, PTL

\* A shell handed back by a restart can be reattached, unless a quit takes it back; no runtime
\* reattaches one left by a runtime that was told to quit.
THEOREM HandsBack == Spec => []HandBackAndQuitKept
<1>1. Inv => HandBackAndQuitKept
  <2> SUFFICES ASSUME Inv PROVE HandBackAndQuitKept
    OBVIOUS
  <2>1. ASSUME NEW t \in Terminals
        PROVE  /\ t \in handed /\ ~withdrawn => record[t] = "current" /\ row[t] = "created"
               /\ t \in disowned => shell[t] # "attached"
    BY DEF Inv, PerTerminal, Parts, HandingBack, Abandoned
  <2>. QED  BY <2>1 DEF Inv, Typed, HandBackAndQuitKept
<1>. QED  BY <1>1, Invariance, PTL

\* A runtime told to quit that knows its inventory tries every shell that is up.
THEOREM QuitTries == Spec => QuitTriesEveryShell
<1> DEFINE Begins == phase # "ending prior" /\ phase' = "ending prior"
           Tried(t) == (Up(t) /\ row[t] = "created") =>
                         ends'[t] # "no" \/ claim[t] = "proving" \/ status[t] = "unknown"
           Step == Begins => \A t \in Terminals : Tried(t)
<1>1. Inv /\ [Next]_vars => [Step]_vars
  <2> SUFFICES ASSUME Inv, Next, Begins, NEW t \in Terminals, Up(t), row[t] = "created"
               PROVE  ends'[t] # "no" \/ claim[t] = "proving" \/ status[t] = "unknown"
    OBVIOUS
  <2>1. EndPrior
    <3>1. Runs
      BY RunKept DEF Next, Runs, Moves, run
    <3>. QED  BY <3>1 DEF Runs, Start, Scanned, Gone, Dies, Leave, Quit, Restart, ShutdownBegins,
           Joined, Decide, AwaitInventory, EndsShutdown, run
  <2>2. /\ phase \in {"ending", "waiting"} /\ ~scanning
        /\ ends'[t] = (IF /\ t \in prior /\ status[t] = "absent" /\ row[t] = "created"
                          /\ claim[t] # "proving" /\ ends[t] = "no"
                       THEN "proving" ELSE ends[t])
    BY <2>1 DEF EndPrior, Unresolved, Map
  <2>h. Parts(t)
    BY DEF Inv, PerTerminal
  <2>3. CASE status[t] = "absent"
    BY <2>h, <2>2, <2>3 DEF Parts, Known, HandingBack
  <2>4. CASE status[t] # "absent"
    BY <2>h, <2>2, <2>4 DEF Parts, Shutting, Late
  <2>. QED  BY <2>3, <2>4
<1>. QED  BY <1>1, Invariance, PTL DEF Spec, QuitTriesEveryShell

=============================================================================
