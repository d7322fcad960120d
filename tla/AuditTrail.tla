----------------------------- MODULE AuditTrail -----------------------------
(***************************************************************************)
(* The audit log as recovery evidence (server/audit-retention.mjs and the  *)
(* audit parts of server/database.mjs).  Rows are trimmed a page at a time *)
(* behind a cursor that lives in the database, while they are what a later *)
(* runtime learns from which terminals may still be alive, which requests  *)
(* never got an outcome, and which retention cleanups were cut short.      *)
(*                                                                         *)
(* A row keeps its action, its target and its operation; `operationId' is  *)
(* the id of the row that asked, 0 for none.  An action here is one SQLite *)
(* transaction, so that the process may die between any two.  Rows about a *)
(* run that is active are kept too; nothing here reads them.               *)
(***************************************************************************)
EXTENDS Integers, Sequences, FiniteSets, SequencesExt, Functions

CONSTANTS Targets,     \* terminals
          Limit,       \* AUDIT_RETENTION_LIMIT
          PageSize,    \* rows of one trimming page
          Pages,       \* pages one ordinary write trims
          ScanPage,    \* rows the start-up scan reads at a time
          Batch,       \* outcomes it writes at a time
          MaxPending,  \* MAX_PENDING_RETENTION_CLEANUPS
          Legacy,      \* row sequences a database may start with
          MaxRows, MaxRuns, MaxFaults  \* bounds

VARIABLES db,        \* the tables: rows, evidence, complete, cursor, upper, next
          scan,      \* the start-up scan, None when none runs
          cache,     \* terminalReservationsCache: owners of earlier runtimes, None before it is known
          fenced,    \* cleanupReconciliationPending
          tick,      \* a reconciliation of cleanups is scheduled
          up, live,  \* the runtime, and what it knows of each terminal
          cleaning,  \* retention cleanups this runtime has admitted and not finished
          told,      \* what every row ever written says is unsettled
          run, faults

vars == <<db, scan, cache, fenced, tick, up, live, cleaning, told, run, faults>>

None == [none |-> TRUE]

Owners    == {"create.requested", "created", "create.unknown", "unknown", "reattached"}
Outcomes  == {"create.failed", "exited", "closed", "recovered"}
Requests  == {"create.requested", "close.requested", "cleanup.requested"}
Asks      == {"create.requested", "close.requested"}

(***************************************************************************)
(* What rows say: applyTerminalAuditRow, and the cleanups without outcome. *)
(***************************************************************************)
Nothing == [owners |-> <<>>, requests |-> {}, cleanups |-> {}]

Owner(owners, r) ==
  LET known == r.target \in DOMAIN owners IN
  [created |-> r.action = "created" \/ (known /\ owners[r.target].created),
   unknown |-> r.action = "unknown"
               \/ (r.action # "reattached" /\ known /\ owners[r.target].unknown)]

Learn(said, r) ==
  [owners   |-> IF r.action \in Owners
                THEN [t \in DOMAIN said.owners \cup {r.target} |->
                        IF t = r.target THEN Owner(said.owners, r) ELSE said.owners[t]]
                ELSE IF r.action \in Outcomes THEN Restrict(said.owners, DOMAIN said.owners \ {r.target})
                ELSE said.owners,
   requests |-> {q \in said.requests : q.op # r.op \/ r.op = 0} \cup (IF r.action \in Asks THEN {r} ELSE {}),
   cleanups |-> {c \in said.cleanups : c # r.op} \cup (IF r.action = "cleanup.requested" THEN {r.op} ELSE {})]

Replay(rows) == FoldLeft(Learn, Nothing, rows)

(***************************************************************************)
(* Retention.                                                              *)
(***************************************************************************)
IsEvidence(r) == r.action \in Owners \cup Outcomes \cup Requests \/ r.op # 0

\* The Limit-th newest row: nothing newer is ever trimmed.
Horizon(d) == IF Len(d.rows) >= Limit THEN d.rows[Len(d.rows) - Limit + 1].id ELSE 0
Evidence(d) == {r \in ToSet(d.rows) : r.id \in d.evidence}

\* auditTrimSql: what one row still protects, or still needs.
Unanswered(d, r)  == /\ r.action \in Requests /\ r.op # 0
                     /\ ~\E o \in Evidence(d) : o.op = r.op /\ o.id > r.id
OwnerHeld(d, r)   == /\ r.action \in Owners
                     /\ ~\E o \in Evidence(d) : o.target = r.target /\ o.id > r.id /\ o.action \in Outcomes
\* Mutant: an outcome is trimmed although rows of its owner are still there.
OutcomeFree(d, r) == FALSE

OutcomeHeld(d, r) == /\ r.action \in Outcomes
                     /\ \E o \in Evidence(d) : o.target = r.target /\ o.id < r.id /\ o.action \in Owners
AnswerHeld(d, r)  == /\ r.op # 0
                     /\ \E q \in Evidence(d) : q.op = r.op /\ q.id < r.id /\ q.action \in Requests
Protected(d, r)   == Unanswered(d, r) \/ OwnerHeld(d, r) \/ OutcomeHeld(d, r) \/ AnswerHeld(d, r)

Trim(d, after, through) ==
  LET horizon == Horizon(d)
      kept    == SelectSeq(d.rows, LAMBDA r : ~(r.id > after /\ r.id <= through /\ r.id <= horizon)
                                              \/ Protected(d, r))
  IN  [d EXCEPT !.rows = kept, !.evidence = @ \cap {r.id : r \in ToSet(kept)}]

\* One page, both passes: the second deletes the outcomes whose owners the first deleted.
\* The high-water mark is frozen for the whole sweep.
TrimPage(d, top) ==
  LET upper == IF d.upper # 0 THEN d.upper ELSE Horizon(d)
      ahead == SelectSeq(d.rows, LAMBDA r : r.id > d.cursor /\ r.id <= upper /\ r.id <= top)
      page  == SubSeq(ahead, 1, IF Len(ahead) < PageSize THEN Len(ahead) ELSE PageSize)
      last  == Last(page).id
      once  == Trim(d, d.cursor, last)
  IN  IF ~d.complete THEN d
      ELSE IF page = <<>> THEN [d EXCEPT !.cursor = 0, !.upper = 0]
      ELSE [Trim(once, d.cursor, last) EXCEPT !.cursor = last, !.upper = upper]

Swept(d) == d.complete /\ d.cursor = 0 /\ d.upper = 0

(***************************************************************************)
(* Writing a row.  While the scan reads, nothing is trimmed.               *)
(***************************************************************************)
Row(d, action, t, op) == [id |-> d.next, action |-> action, target |-> t, op |-> op]
Inserted(d, r) ==
  [d EXCEPT !.rows = Append(@, r), !.next = @ + 1,
            !.evidence = IF IsEvidence(r) THEN @ \cup {r.id} ELSE @]
Trimmed(d) ==
  FoldLeft(LAMBDA acc, i : IF acc.done THEN acc
                           ELSE LET n == TrimPage(acc.db, acc.db.next) IN [db |-> n, done |-> Swept(n) \/ ~n.complete],
           [db |-> d, done |-> FALSE], [i \in 1..Pages |-> i]).db

WriteAudit(action, t, op) ==
  LET r == Row(db, action, t, op)
      d == Inserted(db, r) IN
  /\ db.next <= MaxRows
  /\ db' = IF scan = None THEN Trimmed(d) ELSE d
  /\ told' = Learn(told, r)

(***************************************************************************)
(* The terminal manager, and other writers.                                *)
(***************************************************************************)
Steps ==
  { [from |-> "new",     action |-> "create.requested", to |-> "asked"],
    [from |-> "asked",   action |-> "created",          to |-> "live"],
    [from |-> "asked",   action |-> "create.failed",    to |-> "gone"],
    [from |-> "live",    action |-> "exited",           to |-> "gone"],
    [from |-> "live",    action |-> "close.requested",  to |-> "closing"],
    [from |-> "closing", action |-> "closed",           to |-> "gone"],
    [from |-> "closing", action |-> "close.unknown",    to |-> "live"],
    [from |-> "prior",   action |-> "recovered",        to |-> "gone"],
    [from |-> "prior",   action |-> "reattached",       to |-> "live"] }

\* Terminals are admitted, closed and recovered only once the scan has rebuilt the owners.
Terminal(t) ==
  /\ up /\ scan = None
  /\ \E s \in Steps :
       /\ live[t].is = s.from
       /\ s.from = "prior" => t \in DOMAIN cache
       /\ LET op == CASE s.action \in Asks -> db.next
                      [] s.from \in {"asked", "closing"} -> live[t].op
                      [] OTHER -> 0
          IN  /\ WriteAudit(s.action, t, op)
              /\ live' = [live EXCEPT ![t] = [is |-> s.to, op |-> op]]
       /\ cache' = IF s.action \in Outcomes THEN Restrict(cache, DOMAIN cache \ {t}) ELSE cache
  /\ UNCHANGED <<scan, fenced, tick, up, cleaning, run, faults>>

Telemetry ==
  /\ up
  /\ WriteAudit("note", "none", 0)
  /\ UNCHANGED <<scan, cache, fenced, tick, up, live, cleaning, run, faults>>

(***************************************************************************)
(* Retention cleanups.  A request without an outcome may have deleted part *)
(* of an archive: a later runtime answers it before it admits another.     *)
(***************************************************************************)
PendingCleanups(d) ==
  SelectSeq(d.rows, LAMBDA r : /\ r.id \in d.evidence /\ r.action = "cleanup.requested"
                               /\ ~\E o \in Evidence(d) : o.op = r.op /\ o.id > r.id)

\* Mutant: a cleanup is admitted while inherited ones have no outcome.
AdmitUnfenced ==
  /\ up /\ db.complete
  /\ Len(PendingCleanups(db)) < MaxPending
  /\ WriteAudit("cleanup.requested", "none", db.next)
  /\ cleaning' = cleaning \cup {db.next}
  /\ UNCHANGED <<scan, cache, fenced, tick, up, live, run, faults>>

AdmitCleanup ==
  /\ up /\ ~fenced /\ db.complete
  /\ Len(PendingCleanups(db)) < MaxPending
  /\ WriteAudit("cleanup.requested", "none", db.next)
  /\ cleaning' = cleaning \cup {db.next}
  /\ UNCHANGED <<scan, cache, fenced, tick, up, live, run, faults>>

FinishCleanup ==
  /\ up
  /\ \E op \in cleaning, action \in {"cleaned", "cleanup.unknown"} :
       WriteAudit(action, "none", op) /\ cleaning' = cleaning \ {op}
  /\ UNCHANGED <<scan, cache, fenced, tick, up, live, run, faults>>

\* One page of unknown outcomes; what each write trims comes after it.
Answer(acc, r) ==
  LET row == Row(acc.db, "cleanup.unknown", "none", r.op)
      d   == Inserted(acc.db, row)
  IN  [db |-> IF acc.trim THEN Trimmed(d) ELSE d, told |-> Learn(acc.told, row), trim |-> acc.trim]

AnswerPage(d, said, trim) ==
  LET pending == PendingCleanups(d)
      page    == SubSeq(pending, 1, IF Len(pending) < MaxPending THEN Len(pending) ELSE MaxPending)
  IN  FoldLeft(Answer, [db |-> d, told |-> said, trim |-> trim], page)

\* reconcilePendingRetentionCleanup, once the evidence is complete.
ReconcilePage ==
  LET answered == AnswerPage(db, told, scan = None)
      more     == PendingCleanups(answered.db) # <<>> IN
  /\ db' = answered.db /\ told' = answered.told
  /\ fenced' = more /\ tick' = more

Reconcile ==
  /\ up /\ tick /\ db.complete
  /\ ReconcilePage
  /\ UNCHANGED <<scan, cache, up, live, cleaning, run, faults>>

(***************************************************************************)
(* The start-up scan: it reads the rows up to a frozen mark, indexes those *)
(* of older versions, writes what its readers must find, and trims.        *)
(***************************************************************************)
NewScan == [cursor |-> 0, last |-> -1, said |-> Nothing, ended |-> FALSE, outcomes |-> <<>>, written |-> 0,
            cleaned |-> FALSE, failed |-> FALSE]
Scanning == up /\ scan # None /\ ~scan.failed
ScanLast == IF scan.last = -1 THEN db.next - 1 ELSE scan.last
Unread   == SelectSeq(db.rows, LAMBDA r : r.id > scan.cursor /\ r.id <= ScanLast)

ScanReads ==
  LET page == SubSeq(Unread, 1, IF Len(Unread) < ScanPage THEN Len(Unread) ELSE ScanPage) IN
  /\ Scanning /\ ~scan.ended /\ Unread # <<>>
  /\ scan' = [scan EXCEPT !.cursor = Last(page).id, !.last = ScanLast, !.said = FoldLeft(Learn, @, page)]
  /\ db' = [db EXCEPT !.cursor = IF scan.last = -1 THEN 0 ELSE @,
                      !.upper  = IF scan.last = -1 THEN 0 ELSE @,
                      !.evidence = IF db.complete THEN @
                                   ELSE @ \cup {r.id : r \in {q \in ToSet(page) : IsEvidence(q)}}]
  /\ UNCHANGED <<cache, fenced, tick, up, live, cleaning, told, run, faults>>

Unknowns(said) ==
  SetToSeq({[action |-> IF q.action = "create.requested" THEN "create.unknown" ELSE "close.unknown",
             target |-> q.target, op |-> q.op] : q \in said.requests})
  \o SetToSeq({[action |-> "unknown", target |-> t, op |-> 0] :
                 t \in {o \in DOMAIN said.owners : said.owners[o].created /\ ~said.owners[o].unknown}})

ScanEnds ==
  /\ Scanning /\ ~scan.ended /\ Unread = <<>>
  /\ scan' = [scan EXCEPT !.last = ScanLast, !.ended = TRUE, !.outcomes = Unknowns(scan.said)]
  /\ db' = [db EXCEPT !.complete = TRUE]
  /\ UNCHANGED <<cache, fenced, tick, up, live, cleaning, told, run, faults>>

Written(acc, o) ==
  LET row == Row(acc.db, o.action, o.target, o.op)
  IN  [db |-> Inserted(acc.db, row), told |-> Learn(acc.told, row)]

ScanWrites ==
  /\ Scanning /\ scan.ended /\ scan.written < Len(scan.outcomes)
  /\ LET left  == SubSeq(scan.outcomes, scan.written + 1, Len(scan.outcomes))
         batch == SubSeq(left, 1, IF Len(left) < Batch THEN Len(left) ELSE Batch)
         wrote == FoldLeft(Written, [db |-> db, told |-> told], batch)
     IN  /\ db' = wrote.db /\ told' = wrote.told
         /\ scan' = [scan EXCEPT !.written = @ + Len(batch)]
  /\ UNCHANGED <<cache, fenced, tick, up, live, cleaning, run, faults>>

WroteAll == Scanning /\ scan.ended /\ scan.written = Len(scan.outcomes)

ScanReconciles ==
  /\ WroteAll /\ fenced /\ ~scan.cleaned
  /\ ReconcilePage
  /\ scan' = [scan EXCEPT !.cleaned = TRUE]
  /\ UNCHANGED <<cache, up, live, cleaning, run, faults>>

ScanTrims ==
  LET trimmed == TrimPage(db, scan.last)
      done    == trimmed.cursor = 0 /\ trimmed.upper = 0 IN
  /\ WroteAll /\ (fenced => scan.cleaned)
  /\ db' = trimmed
  /\ scan' = IF done THEN None ELSE scan
  /\ cache' = IF done THEN scan.said.owners ELSE cache
  /\ live' = IF done THEN [t \in Targets |-> IF t \in DOMAIN scan.said.owners
                                             THEN [is |-> "prior", op |-> 0] ELSE live[t]]
             ELSE live
  /\ UNCHANGED <<fenced, tick, up, cleaning, told, run, faults>>

\* A tick that throws changes nothing; what retries it starts the scan over.
ScanFails ==
  /\ Scanning /\ faults < MaxFaults /\ faults' = faults + 1
  /\ scan' = [scan EXCEPT !.failed = TRUE]
  /\ UNCHANGED <<db, cache, fenced, tick, up, live, cleaning, told, run>>

\* Mutant: the new scan keeps the count of the outcomes the failed one wrote.
ScanResumes ==
  /\ up /\ scan # None /\ scan.failed
  /\ scan' = [NewScan EXCEPT !.written = scan.written]
  /\ UNCHANGED <<db, cache, fenced, tick, up, live, cleaning, told, run, faults>>

ScanRestarts ==
  /\ up /\ scan # None /\ scan.failed
  /\ scan' = NewScan
  /\ UNCHANGED <<db, cache, fenced, tick, up, live, cleaning, told, run, faults>>

(***************************************************************************)
(* Runtimes.                                                               *)
(***************************************************************************)
\* Cleanups first, if the evidence is complete, and then the scan.
Start ==
  /\ ~up /\ run < MaxRuns /\ run' = run + 1
  /\ up' = TRUE /\ scan' = NewScan
  /\ IF db.complete THEN ReconcilePage
     ELSE fenced' = TRUE /\ tick' = FALSE /\ UNCHANGED <<db, told>>
  /\ UNCHANGED <<cache, live, cleaning, faults>>

Crash ==
  /\ up /\ up' = FALSE
  /\ scan' = None /\ cache' = <<>> /\ fenced' = FALSE /\ tick' = FALSE /\ cleaning' = {}
  /\ live' = [t \in Targets |-> IF live[t].is = "new" THEN live[t] ELSE [is |-> "gone", op |-> 0]]
  /\ UNCHANGED <<db, told, run, faults>>

Init ==
  /\ \E rows \in Legacy :
       /\ db = [rows |-> rows, evidence |-> {}, complete |-> rows = <<>>, cursor |-> 0, upper |-> 0,
                next |-> Len(rows) + 1]
       /\ told = Replay(rows)
       /\ live = [t \in Targets |-> [is |-> IF \E r \in ToSet(rows) : r.target = t THEN "gone" ELSE "new", op |-> 0]]
  /\ scan = None /\ cache = <<>> /\ fenced = FALSE /\ tick = FALSE
  /\ up = FALSE /\ cleaning = {} /\ run = 0 /\ faults = 0

Next ==
  \/ Telemetry \/ AdmitCleanup \/ FinishCleanup \/ Reconcile
  \/ ScanReads \/ ScanEnds \/ ScanWrites \/ ScanReconciles \/ ScanTrims \/ ScanFails \/ ScanRestarts
  \/ Start \/ Crash
  \/ \E t \in Targets : Terminal(t)

Spec == Init /\ [][Next]_vars

\* The projection indexes rows that exist, and the cursors stay within the rows
\* ever written.
TypeOK ==
  /\ db.evidence \subseteq {r.id : r \in ToSet(db.rows)} /\ {db.cursor, db.upper} \subseteq 0..db.next
  /\ DOMAIN cache \subseteq Targets /\ cleaning \subseteq 1..db.next

(***************************************************************************)
(* Properties.                                                             *)
(***************************************************************************)
\* A reader of the rows that are left learns what all rows ever written say:
\* which terminals have an owner without an outcome, which requests were not
\* answered, which cleanups were cut short.  Trimming by pages, with owners and
\* outcomes in different ones, by writes, by scans, and with a death between any
\* two, never lets a trimmed outcome bring its owner back, nor a trimmed owner
\* free a slot.
EvidenceKept == Replay(db.rows) = told

\* Once a runtime admits cleanups, the requests without an outcome are its own:
\* each one that an earlier runtime left has been answered.
CleanupsFenced ==
  /\ up /\ ~fenced => told.cleanups = cleaning
  /\ up => cleaning \subseteq told.cleanups

\* A slot that is kept for a terminal of an earlier runtime is still owed: no
\* outcome of that terminal was recorded, by whichever of recovery, close or exit.
SlotsOwed == DOMAIN cache \subseteq DOMAIN told.owners

\* The trail tells what happened, and its reader acts on nothing else.
TrailKept == EvidenceKept /\ CleanupsFenced /\ SlotsOwed

\* When the start-up scan ends, the runtime knows exactly the terminals that may
\* still be alive, each terminal request of an earlier runtime is answered, and
\* each created owner is recorded as unknown, however often the scan was begun
\* again after a failed write.
Settled ==
  scan # None /\ scan' = None /\ up'
    => /\ DOMAIN cache' = DOMAIN told.owners
       /\ told.requests = {}
       /\ \A t \in DOMAIN told.owners : told.owners[t].created => told.owners[t].unknown

\* No scan ends before its work is done.
ScanSettles == [][Settled]_vars
=============================================================================
