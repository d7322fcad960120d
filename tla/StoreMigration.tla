--------------------------- MODULE StoreMigration ---------------------------
(***************************************************************************)
(* The upgrade of an old database while the runtime is in use              *)
(* (server/database.mjs: migrate and advanceMigrations).  Opening creates  *)
(* empty lookups with triggers and leaves a durable job for each; a tick   *)
(* then gives every job one page of rows, in a fixed order, each page a    *)
(* transaction of its own.  Between two ticks the runtime settles runs,    *)
(* writes the outcomes it journaled and deletes archived history.          *)
(*                                                                         *)
(* Tables are functions from rowids.  A task is named by its conversation, *)
(* and a row has size one; a run that names its worktree one more.  An     *)
(* action is one transaction, so that the process may die between any two. *)
(* Left out: spaces, settings and audit rows, the text of what is stored,  *)
(* and the indexes.  Maintenance that compacts the file keeps the rowids   *)
(* of tables with a text key, which SQLite does in practice.               *)
(***************************************************************************)
EXTENDS Integers, Sequences, FiniteSets, FiniteSetsExt, Functions

CONSTANTS Stores,     \* the databases an older version may have left
          PageSize,   \* rows of one job in one tick
          MaxItems,   \* events kept of one run
          Headroom,   \* recovery headroom, and the reserve of optional writes
          MaxRows, MaxWrites, MaxFaults  \* bounds

VARIABLES db,       \* the tables and the lookups
          jobs,     \* migration_progress: the cursor of each unfinished job
          usage,    \* retained_usage, retained_scans and maxRetainedMiB (cap)
          version,  \* user_version
          at,       \* the last job this tick has run, 0 between ticks
          refused,  \* jobs whose write the quota refused
          writes, faults

vars == <<db, jobs, usage, version, at, refused, writes, faults>>

--------------------------------------------------------------------------
(***************************************************************************)
(* Rows, pages and their sizes.                                            *)
(***************************************************************************)
Without(f, S) == Restrict(f, DOMAIN f \ S)
Put(f, x, v) == [y \in DOMAIN f \cup {x} |-> IF y = x THEN v ELSE f[y]]

\* SQLite gives a new row the number after the highest one in use.
NextRow(S) == IF S = {} THEN 1 ELSE Max(S) + 1

Page(S, cursor) ==
  {x \in S : x > cursor /\ Cardinality({y \in S : cursor < y /\ y <= x}) <= PageSize}
Short(page) == Cardinality(page) < PageSize

Unsettled(d) == {r \in DOMAIN d.runs : d.runs[r].status # "settled"}
Live(d) == {c \in DOMAIN d.convs : ~d.convs[c].deleting}
Ordered(d, c) == {m \in d.order : d.msgs[m].conv = c}

Tables == <<"tasks", "conversations", "messages", "runs", "run_events", "run_event_usage">>

RowsOf(d, t) ==
  CASE t = "tasks" -> Range(d.tasks)
    [] t = "conversations" -> DOMAIN d.convs
    [] t = "messages" -> DOMAIN d.msgs
    [] t = "runs" -> DOMAIN d.runs
    [] t = "run_events" -> DOMAIN d.events
    [] t = "run_event_usage" -> {d.kept[r].row : r \in DOMAIN d.kept}

AllRows(d) == [t \in Range(Tables) |-> RowsOf(d, t)]

SizeOf(rows, d) ==
  MapThenSumSet(LAMBDA t : Cardinality(rows[t]), Range(Tables))
  + Cardinality({r \in rows["runs"] : d.runs[r].path})

Total(d) == SizeOf(AllRows(d), d)

(***************************************************************************)
(* The byte counter.  Until it is measured a write is charged only when    *)
(* the scan of its table has passed its row.                               *)
(***************************************************************************)
\* Mutant: a table scanned to its end counts only up to its last cursor.
CountedByCursor(u, t, row) == u.measured \/ row <= u.scans[t].cursor

Counted(u, t, row) ==
  \/ u.measured
  \/ u.scans[t].done
  \/ row <= u.scans[t].cursor

Charged(u, before, after) ==
  IF u.measured THEN u.bytes + Total(after) - Total(before) ELSE
  LET seen(d) == SizeOf([t \in Range(Tables) |-> {x \in RowsOf(d, t) : Counted(u, t, x)}], d)
  IN  u.bytes + seen(after) - seen(before)

\* retained_hard_limit
Admitted(u, bytes) == u.measured => bytes <= Max({u.cap, u.ceiling})

Reserved(u, d, j, critical) ==
  LET pending == "recovery" \in DOMAIN j
      headroom == IF critical \/ pending \/ d.scope # {} \/ u.bytes > u.cap THEN Headroom ELSE 0
  IN  [u EXCEPT !.ceiling = IF u.bytes + headroom > u.cap THEN u.bytes + headroom ELSE 0]

--------------------------------------------------------------------------
(***************************************************************************)
(* The triggers that keep the lookups.                                     *)
(***************************************************************************)
\* Mutant: a head takes the message entered last, although a page enters old ones.
InOrderLast(d, M) ==
  LET new == M \ d.order
      heads == {c \in Live(d) : \E m \in new : d.msgs[m].conv = c}
  IN  [d EXCEPT !.order = @ \cup new,
                !.heads = [c \in DOMAIN @ \cup heads |->
                   IF c \in heads THEN Max({m \in new : d.msgs[m].conv = c}) ELSE @[c]]]

\* Messages enter the order, and the head of a visible conversation follows.
InOrder(d, M) ==
  LET new == M \ d.order
      heads == {c \in Live(d) : \E m \in new : d.msgs[m].conv = c}
  IN  [d EXCEPT !.order = @ \cup new,
                !.heads = [c \in DOMAIN @ \cup heads |->
                   Max((IF c \in DOMAIN @ THEN {@[c]} ELSE {})
                       \cup (IF c \in heads THEN {m \in new : d.msgs[m].conv = c} ELSE {}))]]

\* Removed messages leave the order; a head among them falls back.
MessagesGone(d, gone) ==
  LET rest == [d EXCEPT !.msgs = Without(@, gone), !.order = @ \ gone] IN
  [rest EXCEPT !.heads =
     [c \in {c \in DOMAIN @ : @[c] \notin gone \/ Ordered(rest, c) # {}} |->
        IF @[c] \in gone THEN Max(Ordered(rest, c)) ELSE @[c]]]

ConversationMarked(d, c) ==
  [d EXCEPT !.convs[c].deleting = TRUE, !.visible = @ \ {c},
            !.titles = Without(@, {c}), !.heads = Without(@, {c})]

ConversationGone(d, c) ==
  [d EXCEPT !.convs = Without(@, {c}), !.visible = @ \ {c},
            !.titles = Without(@, {c}), !.heads = Without(@, {c})]

ConversationAdded(d, c) ==
  [d EXCEPT !.convs = Put(@, c, [deleting |-> FALSE, archived |-> FALSE, updated |-> 0]),
            !.visible = @ \cup {c}, !.titles = Put(@, c, 0)]

MessageAdded(d, c) ==
  LET m == NextRow(DOMAIN d.msgs)
      touched == [d EXCEPT !.convs[c].updated = 1,
                           !.titles = IF c \in Live(d) THEN Put(@, c, 1) ELSE @,
                           !.msgs = Put(@, m, [conv |-> c, ordered |-> TRUE])]
  IN  InOrder(touched, {m})

\* Every change of a run's row drops it from the scope and enters it anew.
RunChanged(d, r, status) ==
  LET changed == [d EXCEPT !.runs[r].status = status] IN
  [changed EXCEPT !.scope = (@ \ {r}) \cup (IF r \in Unsettled(changed) THEN {r} ELSE {})]

--------------------------------------------------------------------------
(***************************************************************************)
(* Opening: what each version lacks gets an empty table and a job.         *)
(***************************************************************************)
Missing(v) ==
  {"tasks", "visible", "titles", "heads"} \cup (IF v < 2 THEN {"recovery", "messages"} ELSE {})
  \cup (IF v < 1 THEN {"events"} ELSE {})

Start(kind) == IF kind = "events" THEN [run |-> 0, below |-> 0, items |-> 0, top |-> 0] ELSE 0

\* `backfill-terminal': settled runs of such a store may lack their worktree.
Backfills == version < 2

\* Every table is still to be counted.
Uncounted(u) ==
  [u EXCEPT !.bytes = 0, !.measured = FALSE,
            !.scans = [t \in Range(Tables) |-> [cursor |-> 0, done |-> FALSE]]]

\* prepareRetainedMeasurement, for a store of version v: one of version 2 has been
\* measured.  An older one is counted, and begins anew when its count was complete
\* but not yet the rest of its upgrade; only an unfinished count goes on.
FirstCount(s, d) ==
  LET u == [bytes |-> Total(d), cap |-> s.cap, ceiling |-> 0, measured |-> TRUE, scans |-> <<>>]
  IN  IF s.version < 2 THEN Uncounted(u) ELSE u

Recounted(v, u) == IF v < 2 /\ u.measured THEN Uncounted(u) ELSE u

Opened(s) ==
  LET d == [convs |-> s.convs, msgs |-> s.msgs, runs |-> s.runs, events |-> s.events, kept |-> s.kept,
            tasks |-> <<>>, ready |-> FALSE, visible |-> {}, titles |-> <<>>, heads |-> <<>>,
            order |-> IF s.version < 2 THEN {} ELSE DOMAIN s.msgs,
            scope |-> IF s.version < 2 THEN {} ELSE Unsettled(s)]
      j == [kind \in Missing(s.version) |-> Start(kind)]
  IN  [db |-> d, jobs |-> j, usage |-> Reserved(FirstCount(s, d), d, j, FALSE)]

Init ==
  /\ \E s \in Stores : LET o == Opened(s) IN
       db = o.db /\ jobs = o.jobs /\ usage = o.usage /\ version = s.version
  /\ at = 0 /\ refused = {} /\ writes = 0 /\ faults = 0

--------------------------------------------------------------------------
(***************************************************************************)
(* A tick.                                                                 *)
(***************************************************************************)
Order == <<"tasks", "rebuild", "recovery", "events", "messages", "visible", "titles", "heads", "retained">>

Due(i, last, j, u) ==
  CASE Order[i] = "rebuild" -> last = 1
    [] Order[i] = "retained" -> ~u.measured /\ "recovery" \notin DOMAIN j
    [] OTHER -> Order[i] \in DOMAIN j

Pending(j, u) == DOMAIN j # {} \/ ~u.measured

Turn(kind) ==
  \E i \in DOMAIN Order : /\ Order[i] = kind /\ i > at /\ Due(i, at, jobs, usage)
                          /\ \A k \in at + 1 .. i - 1 : ~Due(k, at, jobs, usage)

\* The tick goes on after the step `last', or is over.
Goes(last, j, u) ==
  /\ at' = IF \E i \in last + 1 .. Len(Order) : Due(i, last, j, u) THEN last ELSE 0
  /\ version' = IF Pending(j, u) THEN version ELSE 4

IndexOf(kind) == CHOOSE i \in DOMAIN Order : Order[i] = kind

\* withMigrationGrowth: duplicates of retained history may cross the cap.
Grown(u) == [u EXCEPT !.ceiling = 1000000]

\* A page commits, or the quota aborts it and with it the tick.
Commits(kind, d, j, grows, last) ==
  LET u == IF grows THEN Grown(usage) ELSE usage
      charged == Charged(u, db, d)
      counter == [u EXCEPT !.bytes = charged]
  IN
  /\ UNCHANGED <<writes, faults>>
  /\ IF Admitted(u, charged)
       THEN /\ db' = d /\ jobs' = j
            /\ usage' = IF grows THEN Reserved(counter, d, jobs, FALSE) ELSE counter
            /\ Goes(last, j, usage') /\ UNCHANGED refused
       ELSE /\ at' = 0 /\ refused' = refused \cup {kind}
            /\ UNCHANGED <<db, jobs, usage, version>>

\* The next cursor of a job, or no job after a short page.
Moved(kind, page) ==
  IF Short(page) THEN Without(jobs, {kind}) ELSE Put(jobs, kind, Max(page))

\* A task for each of C that has none; INSERT OR IGNORE passes the others by.
Backfilled(d, C) ==
  LET new == C \ DOMAIN d.tasks IN
  [d EXCEPT !.tasks = [c \in DOMAIN @ \cup new |->
     IF c \in new THEN NextRow(Range(@)) + Cardinality({b \in new : b < c}) ELSE @[c]]]

\* Mutant: the copies are charged like new work.
TasksUnraised ==
  LET page == Page(DOMAIN db.convs, jobs["tasks"]) IN
  /\ Turn("tasks")
  /\ Commits("tasks", Backfilled(db, page), IF page = {} THEN jobs ELSE Put(jobs, "tasks", Max(page)),
             FALSE, IF Short(page) THEN 1 ELSE 2)

TasksPage ==
  LET page == Page(DOMAIN db.convs, jobs["tasks"]) IN
  /\ Turn("tasks")
  /\ Commits("tasks", Backfilled(db, page), IF page = {} THEN jobs ELSE Put(jobs, "tasks", Max(page)),
             page # {}, IF Short(page) THEN 1 ELSE 2)

\* rebuildConversationsWithTasks: tasks whose conversation went are dropped,
\* conversations passed by no page get theirs, and the table is replaced.
Rebuild ==
  /\ Turn("rebuild")
  /\ Commits("tasks", [Backfilled([db EXCEPT !.tasks = Restrict(@, DOMAIN @ \cap DOMAIN db.convs)], DOMAIN db.convs)
                         EXCEPT !.ready = TRUE],
             Without(jobs, {"tasks"}), TRUE, 2)

RecoveryPage ==
  LET page == Page(DOMAIN db.runs, jobs["recovery"])
      named == {r \in page : Backfills /\ db.runs[r].status = "settled" /\ db.runs[r].conv \in DOMAIN db.convs}
  IN
  /\ Turn("recovery")
  /\ Commits("recovery", [db EXCEPT !.runs = [r \in DOMAIN @ |-> IF r \in named THEN [@[r] EXCEPT !.path = TRUE] ELSE @[r]],
                                    !.scope = @ \cup (page \cap Unsettled(db))],
             Moved("recovery", page), FALSE, IndexOf("recovery"))

(***************************************************************************)
(* advanceEventMigration: one run at a time, its newest events first; those *)
(* beyond the kept tail are removed and the rest entered in its usage row. *)
(***************************************************************************)
OfRun(d, r) == {e \in DOMAIN d.events : d.events[e].run = r}

EventsPage ==
  LET job == jobs["events"]
      later == {db.events[e].run : e \in DOMAIN db.events} \ 0..job.run
      run == IF job.below # 0 THEN job.run ELSE Min(later)
      all == OfRun(db, run)
      top == IF job.below # 0 THEN job.top ELSE Max({db.events[e].seq : e \in all})
      below == IF job.below # 0 THEN job.below ELSE top + 1
      lower == {e \in all : db.events[e].seq < below}
      page == {e \in lower : Cardinality({f \in lower : db.events[f].seq >= db.events[e].seq}) <= PageSize}
      Rank(e) == Cardinality({f \in page : db.events[f].seq >= db.events[e].seq})
      gone == {e \in page : job.items + Rank(e) > MaxItems}
      items == job.items + Cardinality(page \ gone)
      row == IF run \in DOMAIN db.kept THEN db.kept[run] ELSE [row |-> NextRow(RowsOf(db, "run_event_usage")), last |-> 0]
      entered == IF Short(page) /\ run \in DOMAIN db.runs
                   THEN Put(db.kept, run, [row |-> row.row, items |-> items, last |-> Max({row.last, top})])
                   ELSE db.kept
      next == IF Short(page) THEN [Start("events") EXCEPT !.run = run]
              ELSE [run |-> run, below |-> Min({db.events[e].seq : e \in page}), items |-> items, top |-> top]
  IN
  /\ Turn("events")
  /\ IF job.below = 0 /\ later = {}
       THEN Commits("events", db, Without(jobs, {"events"}), FALSE, IndexOf("events"))
       ELSE Commits("events", [db EXCEPT !.events = Without(@, gone), !.kept = entered],
                    Put(jobs, "events", next), FALSE, IndexOf("events"))

MessagesPage ==
  LET page == Page(DOMAIN db.msgs, jobs["messages"])
      numbered == [db EXCEPT !.msgs = [m \in DOMAIN @ |-> IF m \in page THEN [@[m] EXCEPT !.ordered = TRUE] ELSE @[m]]]
  IN
  /\ Turn("messages")
  /\ Commits("messages", InOrder(numbered, page), Moved("messages", page), FALSE, IndexOf("messages"))

\* The lookups of visible conversations, of their titles and of their heads.
LookupPage(kind, d) ==
  LET page == Page(DOMAIN db.convs, jobs[kind]) IN
  /\ Turn(kind)
  /\ Commits(kind, d[page \cap Live(db)], Moved(kind, page), FALSE, IndexOf(kind))

VisiblePage == LookupPage("visible", [P \in SUBSET Live(db) |-> [db EXCEPT !.visible = @ \cup P]])

TitlesPage ==
  LookupPage("titles", [P \in SUBSET Live(db) |->
    [db EXCEPT !.titles = [c \in DOMAIN @ \cup P |-> IF c \in P THEN db.convs[c].updated ELSE @[c]]]])

HeadsPage ==
  LookupPage("heads", [P \in SUBSET Live(db) |->
    [db EXCEPT !.heads = [c \in DOMAIN @ \cup {c \in P : Ordered(db, c) # {}} |->
       Max((IF c \in DOMAIN @ THEN {@[c]} ELSE {}) \cup (IF c \in P THEN Ordered(db, c) ELSE {}))]]])

(***************************************************************************)
(* advanceRetainedMigration: a page of each table that is not done, cut by *)
(* bytes or time after at least its first row, and then perhaps no more    *)
(* tables in this tick.                                                    *)
(***************************************************************************)
Scanned(d, u, upto, cut) ==
  LET page == [t \in upto |-> Page(RowsOf(d, t), u.scans[t].cursor)]
      read == [t \in Range(Tables) |->
                 IF t \notin upto THEN {} ELSE IF t \in cut THEN {Min(page[t])} ELSE page[t]]
  IN  [u EXCEPT !.bytes = @ + SizeOf(read, d),
                !.scans = [t \in Range(Tables) |->
                   [cursor |-> IF read[t] = {} THEN @[t].cursor ELSE Max(read[t]),
                    done |-> u.scans[t].done \/ (t \in upto /\ Short(page[t]) /\ read[t] = page[t])]]]

RetainedPage ==
  /\ Turn("retained")
  /\ \E n \in {n \in 1..Len(Tables) : ~usage.scans[Tables[n]].done} :
       LET upto == {t \in {Tables[i] : i \in 1..n} : ~usage.scans[t].done}
           long == {t \in upto : Cardinality(Page(RowsOf(db, t), usage.scans[t].cursor)) > 1}
       IN  \E cut \in SUBSET long :
       LET u == Scanned(db, usage, upto, cut)
       IN  /\ usage' = IF \A t \in Range(Tables) : u.scans[t].done
                         THEN [Reserved(u, db, jobs, FALSE) EXCEPT !.measured = TRUE, !.scans = <<>>]
                         ELSE u
           /\ Goes(IndexOf("retained"), jobs, usage')
  /\ UNCHANGED <<db, jobs, refused, writes, faults>>

Tick ==
  \/ TasksPage \/ Rebuild \/ RecoveryPage \/ EventsPage \/ MessagesPage
  \/ VisiblePage \/ TitlesPage \/ HeadsPage \/ RetainedPage

--------------------------------------------------------------------------
(***************************************************************************)
(* What the runtime writes between two ticks.                              *)
(***************************************************************************)
\* A transaction that the quota refuses leaves nothing behind.  One that writes
\* recovery evidence may use the headroom.
Critical == Reserved(usage, db, jobs, TRUE)

Writes(d, evidence) ==
  LET u == IF evidence THEN Critical ELSE usage
      counter == [u EXCEPT !.bytes = Charged(u, db, d)]
  IN
  /\ at = 0 /\ writes < MaxWrites /\ writes' = writes + 1
  /\ Admitted(u, counter.bytes)
  /\ db' = d /\ usage' = IF evidence THEN Reserved(counter, d, jobs, FALSE) ELSE counter
  /\ UNCHANGED <<jobs, version, at, refused, faults>>

\* Reconciliation of a run of an earlier process: interrupted, or its journaled
\* outcome with the final message, which a quota may refuse.
Interrupt(r) ==
  /\ db.runs[r].status = "active"
  /\ Writes(RunChanged(db, r, "interrupted"), FALSE)

ReplayOutcome(r) ==
  LET d == RunChanged(db, r, "settled")
      c == db.runs[r].conv
      told == MessageAdded(d, c)
      fits == IF Pending(jobs, usage) THEN Admitted(Critical, Charged(Critical, db, told))
              ELSE Charged(usage, db, told) <= Max({0, usage.cap - Headroom})
  IN
  /\ db.runs[r].status = "active"
  /\ NextRow(DOMAIN db.msgs) <= MaxRows
  /\ Writes(IF fits THEN told ELSE d, TRUE)

\* The user's decision about an interrupted run.
Decide(r) ==
  /\ db.runs[r].status = "interrupted"
  /\ Writes(RunChanged(db, r, "settled"), TRUE)

MarkDeleting(c) ==
  /\ db.convs[c].archived /\ ~db.convs[c].deleting
  /\ \A r \in Unsettled(db) : db.runs[r].conv # c
  /\ Writes(ConversationMarked(db, c), FALSE)

(***************************************************************************)
(* deleteArchivedBatch: a page of events, else of messages, else of runs,  *)
(* else the conversation, with its task; before the rebuild that is the    *)
(* one a page may already have entered for it.                             *)
(***************************************************************************)
DeletionPage(c) ==
  LET runs == {r \in DOMAIN db.runs : db.runs[r].conv = c}
      events == Page({e \in DOMAIN db.events : db.events[e].run \in runs}, 0)
      msgs == Page({m \in DOMAIN db.msgs : db.msgs[m].conv = c}, 0)
      page == Page(runs, 0)
  IN
  [db |-> CASE events # {} -> [db EXCEPT !.events = Without(@, events)]
            [] events = {} /\ msgs # {} -> MessagesGone(db, msgs)
            [] events = {} /\ msgs = {} /\ page # {} ->
                 [db EXCEPT !.runs = Without(@, page), !.kept = Without(@, page), !.scope = @ \ page]
            [] OTHER -> [ConversationGone(db, c) EXCEPT !.tasks = Without(@, {c})],
   done |-> events \cup msgs \cup page = {}]

\* deleteArchivedInBatches: a batch at a time, by whoever resumes it, until the
\* conversation is gone; that is audited as critical evidence.
DeleteBatch(c) == db.convs[c].deleting /\ Writes(DeletionPage(c).db, DeletionPage(c).done)

\* Once nothing is pending: a new chat and its task, a new message.
Fits(d) == ~Pending(jobs, usage) /\ Charged(usage, db, d) <= Max({0, usage.cap - Headroom})

NewChat ==
  LET c == NextRow(DOMAIN db.convs)
      d == [ConversationAdded(db, c) EXCEPT !.tasks = Put(@, c, NextRow(Range(@)))]
  IN  c <= MaxRows /\ Fits(d) /\ Writes(d, FALSE)

NewMessage(c) ==
  LET d == MessageAdded(db, c) IN
  ~db.convs[c].deleting /\ NextRow(DOMAIN db.msgs) <= MaxRows /\ Fits(d) /\ Writes(d, FALSE)

--------------------------------------------------------------------------
\* The process dies between two transactions, and the next one opens the store:
\* an upgrade of version 0 that is not over begins its event job again, and one of
\* a version below 2 its count, if that was complete.
Restart ==
  /\ faults < MaxFaults /\ faults' = faults + 1
  /\ at' = 0
  /\ jobs' = IF version < 1 /\ "events" \notin DOMAIN jobs THEN Put(jobs, "events", Start("events")) ELSE jobs
  /\ usage' = Reserved(Recounted(version, usage), db, jobs', FALSE)
  /\ UNCHANGED <<db, version, refused, writes>>

\* A page fails, for want of disk for instance; the next tick begins anew.
TickFails ==
  /\ at # 0 /\ faults < MaxFaults /\ faults' = faults + 1
  /\ at' = 0
  /\ UNCHANGED <<db, jobs, usage, version, refused, writes>>

Next ==
  \/ Tick \/ NewChat \/ Restart \/ TickFails
  \/ \E r \in DOMAIN db.runs : Interrupt(r) \/ ReplayOutcome(r) \/ Decide(r)
  \/ \E c \in DOMAIN db.convs : MarkDeleting(c) \/ DeleteBatch(c) \/ NewMessage(c)

Spec == Init /\ [][Next]_vars

--------------------------------------------------------------------------
TypeOK ==
  /\ at \in 0..Len(Order) /\ version \in 0..4 /\ usage.bytes \in Nat
  /\ DOMAIN jobs \subseteq Range(Order)

(***************************************************************************)
(* Properties.                                                             *)
(***************************************************************************)
\* A lookup never shows what is not so, and is complete from the moment its job
\* is gone, whatever was written, deleted or interrupted on the way.
LookupsTrue ==
  LET done(kind) == kind \notin DOMAIN jobs
      Heads == [c \in {c \in Live(db) : Ordered(db, c) # {}} |-> Max(Ordered(db, c))]
  IN
  /\ db.visible \subseteq Live(db) /\ (done("visible") => db.visible = Live(db))
  /\ DOMAIN db.titles \subseteq Live(db)
  /\ done("titles") => db.titles = [c \in Live(db) |-> db.convs[c].updated]
  /\ DOMAIN db.heads \subseteq DOMAIN Heads /\ (done("heads") => db.heads = Heads)
  /\ db.order \subseteq DOMAIN db.msgs /\ (done("messages") => db.order = DOMAIN db.msgs)
  /\ db.scope \subseteq Unsettled(db) /\ (done("recovery") => db.scope = Unsettled(db))

\* From the rebuild on, every conversation has its task and no task is left of
\* one that was deleted meanwhile.
TasksWhole == db.ready => DOMAIN db.tasks = DOMAIN db.convs

\* When the event job is gone, each run of a conversation that stays keeps its
\* newest events, counts them and continues their numbers.
EventsKept ==
  "events" \notin DOMAIN jobs =>
    \A r \in DOMAIN db.runs : LET own == OfRun(db, r) IN
      (own # {} /\ db.runs[r].conv \in Live(db)) =>
        /\ r \in DOMAIN db.kept /\ db.kept[r].items = Cardinality(own) /\ Cardinality(own) <= MaxItems
        /\ \A e \in own : db.events[e].seq <= db.kept[r].last

\* What the upgrade built is what the tables say.
UpgradeTrue == TypeOK /\ LookupsTrue /\ TasksWhole /\ EventsKept

\* The measured counter is the sum of the rows, although rows came and went
\* either side of each scan and a restart may begin the count anew; it is within
\* what the quota admits, so that no deletion is refused; and no page of the
\* upgrade is refused, however full the store was, except one of events: it adds
\* a row of usage for its run, and a store counted to just its limit has no
\* headroom for that until something is deleted or a restart counts it again.
QuotaTrue ==
  /\ usage.measured => usage.bytes = Total(db) /\ Admitted(usage, usage.bytes)
  /\ refused \subseteq {"events"}
=============================================================================
