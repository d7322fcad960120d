---------------------------- MODULE TaskThreads ----------------------------
(***************************************************************************)
(* Tasks, their threads and what retention removes of both                 *)
(* (server/database.mjs).  A thread is hidden while it or its task is      *)
(* archived.  Users archive, restore and move threads and tasks while      *)
(* clean-up calls, each a series of short transactions, delete what has    *)
(* been hidden for longer than the window; all calls share one cursor over *)
(* the archived tasks.                                                     *)
(*                                                                         *)
(* Left out: pins, spaces, positions, and that a task takes threads of its *)
(* own worktree only.  Instants are numbers, the rows of a marked thread   *)
(* go in one step (StoreMigration has the batches), and the name of a task *)
(* that is gone may be given again, as nothing refers to it any more.      *)
(***************************************************************************)
EXTENDS Integers, FiniteSets, FiniteSetsExt, Functions

CONSTANTS Tasks, Threads, \* ids, numbers: the order of equal instants
          Window,         \* retentionDays
          Limit,          \* what one call may delete
          PageSize,       \* archived tasks read by one transaction
          Calls,          \* clean-up calls
          MaxClock, MaxEdits  \* bounds

VARIABLES tasks, threads, \* the tables
          clock,
          call,           \* each clean-up call
          after,          \* taskRetentionCursor
          edits,
          hiddenAt        \* when each thread was last hidden

vars == <<tasks, threads, clock, call, after, edits, hiddenAt>>

Without(f, S) == Restrict(f, DOMAIN f \ S)
Put(f, x, v) == [y \in DOMAIN f \cup {x} |-> IF y = x THEN v ELSE f[y]]

--------------------------------------------------------------------------
\* archivedConversationSql: hidden by its own flag or by its task's.
Hidden(c, t) == t[c.task].archived \/ c.archived

Of(t, cs) == {c \in DOMAIN cs : cs[c].task = t}
Shown(t, cs) == {c \in Of(t, cs) : ~cs[c].archived /\ cs[c].deleting = "no"}

\* Mutant: a task is hidden only once its last thread is gone.
HiddenOnlyThreadless(t, ts, cs) ==
  IF t \in DOMAIN ts /\ ~ts[t].archived /\ Of(t, cs) = {}
    THEN [ts EXCEPT ![t] = [archived |-> TRUE, updated |-> clock]] ELSE ts

\* archiveTaskWithoutVisibleThreads
HiddenIfEmpty(t, ts, cs) ==
  IF t \in DOMAIN ts /\ ~ts[t].archived /\ Shown(t, cs) = {}
    THEN [ts EXCEPT ![t] = [archived |-> TRUE, updated |-> clock]] ELSE ts

\* deleteOrphanedTask: an archived task goes with its last thread.
WithoutOrphan(t, ts, cs) ==
  IF ts[t].archived /\ Of(t, cs) = {} THEN Without(ts, {t}) ELSE HiddenIfEmpty(t, ts, cs)

Fresh(archived) == [archived |-> archived, updated |-> clock]

\* requireThreadTask
Joinable(t) == t \in DOMAIN tasks /\ ~tasks[t].archived

Settled(c) == threads[c].run = "none"

Off == [phase |-> "off", cutoff |-> 0, ids |-> {}, deleted |-> 0, examined |-> 0,
        wrapped |-> FALSE, owed |-> {}]
Origin == <<0, 0>>

Init ==
  /\ tasks = <<>> /\ threads = <<>> /\ clock = 1
  /\ call = [p \in Calls |-> Off] /\ after = Origin /\ edits = 0 /\ hiddenAt = <<>>

--------------------------------------------------------------------------
(***************************************************************************)
(* The user.                                                               *)
(***************************************************************************)
Edit == /\ edits < MaxEdits /\ edits' = edits + 1
        /\ UNCHANGED <<clock, call, after>>
Editable(c) == c \in DOMAIN threads /\ threads[c].deleting = "no"

\* A new thread gets a task of its own, or joins one, which that stamps.
CreateThread(c, t) ==
  /\ c \notin DOMAIN hiddenAt /\ (t \in DOMAIN tasks => Joinable(t))
  /\ threads' = Put(threads, c, [task |-> t, archived |-> FALSE, deleting |-> "no", updated |-> clock, run |-> "none"])
  /\ tasks' = Put(tasks, t, Fresh(FALSE))
  /\ Edit

CreateTask(t) ==
  /\ t \notin DOMAIN tasks /\ tasks' = Put(tasks, t, Fresh(FALSE))
  /\ UNCHANGED threads /\ Edit

\* updateConversation with syncTaskArchive.
Archive(c) ==
  /\ Editable(c) /\ ~threads[c].archived /\ threads[c].run # "interrupted"
  /\ threads' = [threads EXCEPT ![c].archived = TRUE, ![c].updated = clock]
  /\ tasks' = HiddenIfEmpty(threads[c].task, tasks, threads')
  /\ Edit

Restore(c) ==
  /\ Editable(c) /\ Hidden(threads[c], tasks)
  /\ threads' = [threads EXCEPT ![c].archived = FALSE, ![c].updated = clock]
  /\ tasks' = [tasks EXCEPT ![threads[c].task] = IF @.archived THEN Fresh(FALSE) ELSE @]
  /\ Edit

\* moveConversation: to a new task, hidden with the thread, or to a named one,
\* where a hidden thread archives itself.
Move(c, t) ==
  LET old == threads[c].task
      hidden == Hidden(threads[c], tasks)
      named == t \in DOMAIN tasks
      stamped == Put(tasks, t, Fresh(~named /\ hidden))
  IN
  /\ Editable(c) /\ t # old /\ (named => Joinable(t))
  /\ threads' = [threads EXCEPT ![c].task = t, ![c].updated = clock,
                                ![c].archived = @ \/ (named /\ hidden)]
  /\ tasks' = HiddenIfEmpty(old, [stamped EXCEPT ![old].updated = clock], threads')
  /\ Edit

\* Mutant: the threads a task hides keep their old stamp.
StampsTaskOnly(t, archived) ==
  /\ t \in DOMAIN tasks
  /\ archived => \A c \in Of(t, threads) : threads[c].run # "interrupted"
  /\ tasks' = [tasks EXCEPT ![t] = Fresh(archived)]
  /\ UNCHANGED threads
  /\ Edit

\* updateTask: hiding or showing its threads through the task stamps them.
UpdateTask(t, archived) ==
  /\ t \in DOMAIN tasks
  /\ archived => \A c \in Of(t, threads) : threads[c].run # "interrupted"
  /\ tasks' = [tasks EXCEPT ![t] = Fresh(archived)]
  /\ threads' = [c \in DOMAIN threads |->
       IF archived # tasks[t].archived /\ c \in Shown(t, threads)
       THEN [threads[c] EXCEPT !.updated = clock] ELSE threads[c]]
  /\ Edit

\* createRun refuses a marked thread, not a hidden one.
Run(c) ==
  /\ Editable(c) /\ Settled(c)
  /\ threads' = [threads EXCEPT ![c].run = "active", ![c].updated = clock]
  /\ UNCHANGED tasks /\ Edit

RunEnds(c) ==
  /\ ~Settled(c) /\ threads' = [threads EXCEPT ![c].run = "none"]
  /\ UNCHANGED <<tasks, clock, call, after, edits>>

--------------------------------------------------------------------------
(***************************************************************************)
(* Deletion.                                                               *)
(***************************************************************************)
\* markArchivedForDeletion checks again what the list was selected by.
Deletable(c) == c \in DOMAIN threads /\ Hidden(threads[c], tasks) /\ Settled(c)
Stale(c, cutoff) == threads[c].deleting # "no" \/ threads[c].updated < cutoff
Marked(c, by) == [threads EXCEPT ![c].archived = TRUE, ![c].deleting = IF @ = "no" THEN by ELSE @]

\* The user's own choice of an archived thread.
DeleteChosen(c) ==
  /\ Editable(c) /\ Deletable(c)
  /\ threads' = Marked(c, "user") /\ UNCHANGED tasks /\ Edit

Delete(c) ==
  /\ threads[c].deleting # "no"
  /\ threads' = Without(threads, {c})
  /\ tasks' = WithoutOrphan(threads[c].task, tasks, threads')
  /\ UNCHANGED <<clock, call, after, edits>>

Earlier(f, x, y) == f[x].updated < f[y].updated \/ (f[x].updated = f[y].updated /\ x < y)
First(f, S, n) == {x \in S : Cardinality({y \in S : Earlier(f, y, x)}) < n}

\* pruneHistory selects its threads once; the cutoff lies a window back.
PruneBegins(p) ==
  /\ call[p].phase = "off"
  /\ \E cutoff \in 1 .. clock - Window :
       call' = [call EXCEPT ![p] = [Off EXCEPT !.phase = "threads", !.cutoff = cutoff,
                  !.ids = First(threads, {c \in DOMAIN threads : Deletable(c) /\ Stale(c, cutoff)}, Limit)]]
  /\ UNCHANGED <<tasks, threads, clock, after, edits>>

\* Mutant: the list is trusted although users went on meanwhile.
PrunesUnchecked(p, c) ==
  /\ c \in call[p].ids /\ call' = [call EXCEPT ![p].ids = @ \ {c}]
  /\ threads' = IF Deletable(c) THEN Marked(c, "retention") ELSE threads
  /\ UNCHANGED <<tasks, clock, after, edits>>

Prunes(p, c) ==
  /\ c \in call[p].ids /\ call' = [call EXCEPT ![p].ids = @ \ {c}]
  /\ threads' = IF Deletable(c) /\ Stale(c, call[p].cutoff) THEN Marked(c, "retention") ELSE threads
  /\ UNCHANGED <<tasks, clock, after, edits>>

--------------------------------------------------------------------------
(***************************************************************************)
(* deleteThreadlessArchivedTasks                                           *)
(***************************************************************************)
Threadless(t) == Of(t, threads) = {}
Old(cutoff) == {t \in DOMAIN tasks : tasks[t].archived /\ tasks[t].updated < cutoff}
Passed(t) == tasks[t].updated < after[1] \/ (tasks[t].updated = after[1] /\ t <= after[2])

SweepBegins(p) ==
  /\ call[p].phase = "threads" /\ call[p].ids = {}
  /\ call' = [call EXCEPT ![p].phase = "tasks", ![p].wrapped = after = Origin,
                          ![p].owed = {t \in Old(call[p].cutoff) : Threadless(t)}]
  /\ UNCHANGED <<tasks, threads, clock, after, edits>>

\* Mutant: a page that the limit cut short is taken for the last one.
ShortIsEnd(rows, scanned, size) == Cardinality(rows) < size
AtEnd(rows, scanned, size) == scanned = rows /\ Cardinality(rows) < size

\* One transaction: a page of old archived tasks after the cursor, of which
\* the threadless go, as many as the call may still delete.
SweepPage(p) ==
  LET k == call[p]
      size == Min({PageSize, Limit * PageSize - k.examined})
      rows == First(tasks, {t \in Old(k.cutoff) : ~Passed(t)}, size)
      Before(t) == {u \in rows : Threadless(u) /\ Earlier(tasks, u, t)}
      scanned == {t \in rows : k.deleted + Cardinality(Before(t)) < Limit}
      gone == {t \in scanned : Threadless(t)}
      last == CHOOSE t \in scanned : \A u \in scanned : ~Earlier(tasks, t, u)
      atEnd == AtEnd(rows, scanned, size)
      next == [k EXCEPT !.deleted = @ + Cardinality(gone), !.examined = @ + Cardinality(rows),
                        !.wrapped = @ \/ atEnd]
  IN
  /\ k.phase = "tasks" /\ k.deleted < Limit /\ k.examined < Limit * PageSize
  /\ tasks' = Without(tasks, gone)
  /\ after' = IF atEnd THEN Origin ELSE <<tasks[last].updated, last>>
  /\ call' = [call EXCEPT ![p] = IF atEnd /\ k.wrapped THEN [next EXCEPT !.phase = "swept"] ELSE next]
  /\ UNCHANGED <<threads, clock, edits>>

\* A call that has used up its limit, or finds the database closing or under
\* maintenance, is over.
CallEnds(p) ==
  /\ call[p].phase \in {"tasks", "swept"}
  /\ call' = [call EXCEPT ![p] = Off]
  /\ UNCHANGED <<tasks, threads, clock, after, edits>>

Tick == clock < MaxClock /\ clock' = clock + 1 /\ UNCHANGED <<tasks, threads, call, after, edits>>

\* The next runtime begins with no call and no cursor; marked threads remain.
Restart ==
  /\ after' = Origin /\ call' = [p \in Calls |-> Off]
  /\ threads' = [c \in DOMAIN threads |->
       [threads[c] EXCEPT !.run = IF @ = "active" THEN "interrupted" ELSE @]]
  /\ UNCHANGED <<tasks, clock, edits>>

Step ==
  \/ \E t \in Tasks : CreateTask(t) \/ \E archived \in BOOLEAN : UpdateTask(t, archived)
  \/ \E c \in Threads, t \in Tasks : CreateThread(c, t)
  \/ \E c \in DOMAIN threads : \/ Archive(c) \/ Restore(c) \/ \E t \in Tasks : Move(c, t)
                               \/ Run(c) \/ RunEnds(c) \/ DeleteChosen(c) \/ Delete(c)
  \/ \E p \in Calls : \/ PruneBegins(p) \/ \E c \in Threads : Prunes(p, c)
                      \/ SweepBegins(p) \/ SweepPage(p) \/ CallEnds(p)
  \/ Tick \/ Restart

Next ==
  /\ Step
  /\ hiddenAt' = [c \in DOMAIN hiddenAt \cup DOMAIN threads' |->
       IF c \notin DOMAIN hiddenAt THEN 0
       ELSE IF c \in DOMAIN threads /\ c \in DOMAIN threads' /\ ~Hidden(threads[c], tasks) /\ Hidden(threads'[c], tasks')
       THEN clock ELSE hiddenAt[c]]

Spec == Init /\ [][Next]_vars

--------------------------------------------------------------------------
TypeOK ==
  /\ \A t \in DOMAIN tasks : t \in Tasks /\ tasks[t].updated \in 1..clock
  /\ \A c \in DOMAIN threads : c \in Threads /\ threads[c].updated \in 1..clock

(***************************************************************************)
(* Properties.                                                             *)
(***************************************************************************)
\* Every thread has its task; one marked for deletion stays hidden and idle
\* until it is gone; and retention marks only threads that have been hidden
\* for longer than the window, by whichever archive hid them, although users
\* restore and archive between the selection of a thread and its turn.
ThreadsKept ==
  \A c \in DOMAIN threads :
    /\ threads[c].task \in DOMAIN tasks
    /\ threads[c].deleting # "no" => threads[c].archived /\ Settled(c)
    /\ threads[c].deleting = "retention" => hiddenAt[c] < clock - Window

\* A call that came to the end of its sweep leaves no task that was archived,
\* old and without threads when it began, wherever the shared cursor was and
\* whatever the other call did to it.
SweepsWhole ==
  \A p \in Calls : call[p].phase = "swept" => call[p].owed \cap Old(call[p].cutoff) = {}

\* What retention removes and what it leaves.
RetentionTrue == TypeOK /\ ThreadsKept /\ SweepsWhole

\* A listed task whose last visible thread is archived, moved or deleted leaves
\* the list in the same transaction.
LeavesTheList ==
  \A t \in DOMAIN tasks \cap DOMAIN tasks' :
    ~tasks[t].archived /\ Shown(t, threads) # {} => tasks'[t].archived \/ Shown(t, threads') # {}
=============================================================================
