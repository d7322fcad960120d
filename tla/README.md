# A TLA+ development of Outright

Outright is a local workspace for coding agents: one Node.js runtime owns a SQLite database, starts provider processes
(Codex, Claude Code, a direct API runner) and terminals in Git worktrees through small native supervisors, and streams
what they say to browser tabs. The program is one event loop, so two statements of one callback never interleave with
another callback; everything that is hard about it lies *between* callbacks (`await`s, child processes, timers), in the
order of durable writes when the process dies between two of them, and in storage that refuses a write.

This directory holds the specifications of the parts where that matters most, their model-checked instances and the
proofs about them. Paths below are relative to the repository root; `AM` is `server/agent-manager.mjs`, `DB`
`server/database.mjs`, `RT` `server/outright-runtime.mjs`, `SB` `server/subprocess-budget.mjs`.

| module | what it is | section |
| --- | --- | --- |
| `UtilityBudget` | the budget of native helper processes, with its durable owner records | 2 |
| `PermitPool` | what that budget promises: a pool of permits | 2 |
| `MCUtilityBudget`, `UtilityBudgetProofs` | its symmetry for TLC; its theorems | 2 |
| `OwnedProcess`, `LinuxSupervisor`, `DarwinSupervisor`, `WindowsSupervisor` | one command under each native supervisor, and its recovery | 3 |
| `OwnedTree`, `NativeOwners` | what every supervisor promises; the three together, with that promise | 3 |
| `NativeOwnersProofs` | theorems about the three supervisors | 3 |
| `AgentRuns` | agent runs from submission to a settled row, with crash and recovery | 4 |
| `RunLedger`, `AgentRunsProofs` | what a user is promised about a run; theorems | 4 |
| `SessionEpoch` | the native session of one chat and the writes that race for it | 5 |
| `ChatSession` | what a chat promises about its session | 5 |
| `MCSessionEpoch`, `SessionEpochProofs` | its instance for TLC; its theorems | 5 |
| `StreamReplay` | a streamed answer from the provider to the reader's page | 6 |
| `WorktreeCheckpoints` | checkpoints, restores and Git writes of one worktree | 7 |
| `Worktrees`, `MCWorktrees` | that, composed with set-up, teardown, removal and an agent run; an instance | 7 |
| `WorktreesProofs` | theorems about both | 7 |
| `Terminals`, `MCTerminals`, `TerminalsProofs` | the shells of one installation over several runtimes; theorems | 8 |
| `TerminalSession` | one shell's broker, tokens, output and detach window | 8 |
| `ArchiveShadow`, `ArchiveShadowProofs` | deletion through a smaller copy of the database: the swap and its recovery; theorems | 9 |
| `ProviderAccounts`, `MCProviderAccounts` | login checks, account switches and the login a launch runs with | 10 |
| `ProviderAccountsProofs` | theorems about them | 10 |
| `AuditTrail` | the audit log as evidence, trimmed in pages | 11 |
| `TerminalHistory` | the saved output of terminals | 11 |
| `StoreMigration` | the upgrade of an old database while it is in use | 11 |
| `TaskThreads`, `ThreadRetention` | tasks, their threads and the retention of both; what is promised of it, with theorems in `ArchiveShadowProofs` | 11 |
| `MCStores` | these four for TLC | 11 |

## 1. Inventory

### Components, their state and their operations

* **Agent manager** (`AM`). In memory: the `queue` of runs, the `active` launches (at most `maxConcurrentRuns`),
  `pendingOutcomes` (exited runs whose row is still owed), one disk-retry timer with its three sorts of waiters
  (`admissionRetryRuns`, `queueReadRetryPending`, frozen outcomes), the shutdown promise. Operations: `schedule`,
  `drain`, `prepareQueuedLaunch`, `start`, the handlers of a child's lines, error and close, `stop` with its escalation,
  `retryDeferredRuns`, `shutdown`. *Correct when* at most one tree acts in a worktree, no accepted run is lost, every
  outcome reaches its row, a stop that came first wins.
* **Run rows and outcome journal** (`DB`, `server/run-outcome-journal.mjs`). `runs.status`, `recovery_class`,
  `recovery_decision`, `pid`; a sidecar file per owed outcome. *Correct when* memory, sidecar and row never tell two
  outcomes.
* **Run recovery** (`RT` 900-1110, `DB` 1800-2060). At start, rows of a dead runtime are settled from their sidecars or
  classed by process evidence; the user retries, resumes or discards each. *Correct when* no continuation starts beside
  a tree that may still act, and every interrupted run can be decided.
* **Chat sessions** (`DB` `updateConversation`, `adoptConversationSession`, `beginInterruptedRunRecovery`; `AM`
  `prepareQueuedLaunch`, `persistSessionMetadata`). A chat's provider, its session id and the epoch fence.
  *Correct when* no late write undoes a later choice and no provider gets another provider's token.
* **Utility budget** (`SB`). Permits for Git, scanner, set-up and editor commands; an owner record per command on disk.
  *Correct when* no tree runs without a permit and no permit is lost or given back twice, across crashes and reboots.
* **Native supervisors** (`server/agent-supervisor*.c`). Start a command in a subreaper, process group or job; wait for
  `go`; report spawn, exit and an empty tree.
* **Streaming and replay** (`AM` 1160-1300, `server/runtime-events.mjs`, `src/App.jsx` 569-930,
  `src/recovery-policy.js`). Deltas and checkpoints, the bounded replay window, the client's cursor, buffered loads and
  streaming text. *Correct when* the text shown never repeats, reorders or shrinks, and is complete when nothing is in
  flight.
* **Worktree set-up and removal** (`server/worktree-lifecycle.mjs`). Per worktree: the running claim, the last state
  with its checkpoints, unconfirmed processes. Operations: `setup`, `removeWorktree`, `cancel`, `acknowledge`,
  `reconcile`, `shutdown`. *Correct when* nothing else writes a held worktree and no step runs twice beside a lost one.
* **Worktree checkpoints** (`server/worktree-checkpoints.mjs`). Git refs, a restore marker and a write marker in the Git
  directory, claims, admitted writers. *Correct when* an interrupted restore keeps its worktree held across restarts and
  its safety checkpoint is never pruned.
* **Terminals** (`server/terminal-manager.mjs`, `managed-terminal.mjs`, `terminal-broker.mjs`, `terminal-history.mjs`,
  `src/lib/terminal-exit-state.js`). Live PTYs, reservations of shells whose end is unproven, reattach tokens, saved
  sessions. *Correct when* a shell is never forgotten, ended twice or shown live when it is not.
* **Terminal history** (`server/terminal-history.mjs`). A metadata file and at most two segments of output per terminal,
  under one quota. *Correct when* what is served is a session's own output, with nothing missing that was
  not warned of, over crashes and refused deletions.
* **Schema upgrade, tasks and retention** (`DB` 880-920, 2970-3590, 3700-3820). Jobs with cursors that fill new tables
  page by page beside live writes; clean-up calls that delete what was archived long enough ago. *Correct when* a
  finished job's table is complete, the byte counter is true, and nothing shown or hidden lately is deleted.
* **Audit retention** (`server/audit-retention.mjs`). Trims the audit log in pages under a persistent cursor. *Correct
  when* it never drops evidence that recovery still reads.
* **Archive shadow** (`server/archive-shadow.mjs` and its workers). Builds a smaller database beside the live one, cuts
  over by rename and link, recovers an interrupted cutover. *Correct when* exactly one whole database survives any crash.
* **Provider accounts** (`server/provider-accounts.mjs`). Accounts of a provider, the active one, evidence of logins, a
  queue of checks, the login each session last ran with. Operations: resolve and confirm a launch, add, remove, switch,
  check. *Correct when* no session runs with another login than its own, and no account is used on stale evidence.
* **Provider discovery**, **execution adapters**, **Git service**, **project scanner**, **HTTP/WebSocket runtime**,
  **user interface**, **pane layout**, **automation**.

### How they interact

`RT` validates a request and calls `AM` or the database; `AM` calls `hasWorktreeWork`/`hold` of the lifecycle and
checkpoint services synchronously before a launch, and they call it back when they claim a worktree. The lifecycle,
checkpoints, Git service and scanner run commands through `SB`, whose refusals and unknown owners they turn into held
worktrees. Every service reports through the event hub to the browser. All durable state is in SQLite except owner
records, launch-handshake files, outcome sidecars, reattach records and the markers in Git directories.

### What is hard to test here

Death of the runtime between two durable writes of one callback; a write refused by storage (busy, I/O) as against one
refused by the measured budget (507); state read before an `await` and used after it; one timer serving several
waiters; late frames of processes whose caller has gone; process identifiers that are reused; edits that race with
writes of a run that was launched before them. `PROJECT.json` lists each such place with its line under `hazards`.

## 2. The utility budget

**Model and code.** `UtilityBudget` models `createSubprocessBudget`. One callback is one action: `Reserve` is `run()` up
to the spawn; `SpawnEvent`/`SpawnEventFailed` its `spawn` listener (authorize the record, send `go`); `StopRequested`,
`GraceExpired` and `Close` its endings; `SweepStart`, `SweepTake`, `ProveOwner`, `SweepEnd` are `reconcileUnknown`;
`Recheck`, `ProveOwner`, `AuditRecorded`/`AuditRefused` the operator's `release`; `LaunchEditor`/`EditorCreated` the
detached launches; `Crash`, `Start`, `Reboot` the lives of runtime and computer. `disk` holds what each owner's `.json`
and `.tmp` files say, including a torn record and a record stamped with the boot it was seen in; `MidWrite` gives every
file state a crash inside a callback can leave. The native side is `native` (the supervisor) and `live` (trees in which
a command may be running).

**Abstractions.** Refusals to release collapse to one verdict, "unproven". At most one failure happens per operation
(no failing repair of a failed write). A power loss that undoes an unlink that was not yet synchronised is left out.
`accountedOwners` always equals `unknownOwners` and is not a second variable. A reservation whose record cannot be
written is a stutter. A refused admission changes only what the sweep it triggers changes. What the supervisors report
is taken as true here; `NativeOwners` (section 3) is why it may be.

**Run.** `budget`: two owners, two permits, one editor launch at a time, two boots, any number of runtime deaths; 1.3
million states. The editor and the torn record of a running owner compete with the two owners for the permits, and the
second boot is there for stamped records. Deadlock is checked. No fairness is used. `LiveTreesCounted` joins
`LiveTreesCharged` and `LiveTreesWithinLimit`: trees and permits agree by name and by number. `RecordsUsable` joins
`NoOrphanTemporary` and `RestartPromiseKept`: a later runtime can read and release what a death left.
`ImplementsPool` is the refinement of `PermitPool`.

**Proofs** (`UtilityBudgetProofs`, for any finite set of owners, any limit, any number of boots). `TypeCorrect` proves
`TypeOK`. `Inv == TypeOK /\ OwnersConsistent /\ LiveTreesCharged` is inductive: `LiveTreesCharged` alone is not, since a
step that drops an owner from the books is harmless only if its record, phase, supervisor and release decision agree
that no tree is left, which is what `OwnersConsistent` says for one owner at a time. The permit counters are a second
layer, `Counted == PermitsAccounted /\ (~up => detached = 0)`, proved inductive relative to `Inv` with lemmas on
cardinalities of sets that gain or lose one member. The theorems `OwnersStayConsistent`, `NoTreeUncharged`,
`NoTreeUnrecorded`, `NoTemporaryOrphaned` and `PermitsStayAccounted` follow.

Its second part goes on from there. While the runtime is down, or cannot read its inventory, only the records on disk
say who holds a permit, so the account is kept over `Held`, the commands that have not settled, the unknown owners and
the owners with a record: `PoolInv == Inv /\ Counted /\ Listed /\ Budgeted`, where `Listed` says that a readable
inventory lists each record (and that no unknown owner's file is torn) and `Budgeted` that the holders and the editors
are at most the permits charged, those at most the limit, and that the records of a dead runtime still fit. One lemma
per kind of step shows that it keeps the holders or takes one away together with a permit. `TreesWithinLimit`,
`TreesCounted` and `PoolImplemented` follow, the last mapping a reservation to `Admit`, the spawn event to `Begin` and
everything else to `EndOrReturn`. `PromisesKept` needs only that a dead runtime has promised nothing, and
`RecordsStayUsable` joins it with `NoTemporaryOrphaned`. All of it rests on `OwnersFinite`, `LimitNat`, `MaxBootNat` and
`MaxEditorsNat` only: every property of the run is also a theorem.

## 3. Native supervisors

**Model and code.** `OwnedProcess` has what the three share: the runtime that writes `go` and `stop` to a control pipe
and may die, the launch wrapper of an agent on macOS and Windows (`AM` 60-200), a tree of a command and one kid, the
private files, and the recovery by a later runtime. `LinuxSupervisor` is `agent-supervisor.c` (subreaper, gate, scan of
`/proc`, proof by the kernel's answer that no child is left), `DarwinSupervisor` is `agent-supervisor-darwin.c` (a
launchd job, its helper that claims the launch file, the coalition and its marker), `WindowsSupervisor` is
`agent-supervisor-windows.c` (a Job Object, a suspended command, the marker before the frame). `NativeOwners` chooses
the platform and the launcher at the start and checks one promise for all of them: `OwnedTree`, *started at most once,
and declared gone only when nothing of it runs, after which nothing starts*, with one exception (`unseen`) that macOS
needs.

A teardown on macOS is two steps, for the supervisor (`DarwinKills` or `DarwinDecides`, then `DarwinBootsOut`) and for a
recovery (`DarwinTerminates`, then `DarwinRemoves`): a listing that finds the coalition empty, and the removal of the
registration, which launchd answers in its own time and after which nobody lists again. A job whose first start is
pending may start in between. Its helper ends with the registration, but what the helper has started may run on, and the
tree is then declared gone over it. `job.late` is a history variable that marks this case; the promise excepts a command
that was started so and no other, so it still says that whatever ran before the last listing is gone.

A killed process is `dying` until the kernel has ended it, so a call that killed something proves nothing by returning.
What the operating systems do is external: that a Job Object ends its members after its last handle is closed, that
launchd may start a helper again after it ended and forgets a job only once the job's own process is over (of the other
processes of the job nothing is assumed), that a subreaper inherits what its children leave behind.

**Properties.** `KeepsPromise` is the refinement. `RunningIsRecorded`: what a later runtime needs is on disk before the
command can start and as long as it runs. `StrangersSpared`: recovery never signals a process that was given the
supervisor's number. `ReportsTrue`: what is reported as the command's end is never that of a later start of the job, and
an agent's process group that is found empty means the tree is, except for what escaped after its supervisor was killed.

**Run.** `native_owners`: each platform with each kind of launcher, and four deaths or failing system calls; four are
needed for a supervisor and its wrapper to die, the runtime with them, and a recovery to meet a further failure.

**Left out.** The detach window of terminals (it is in `TerminalSession`), boot identities, the self-test, the checks of
arguments and file modes, and a recovery that cannot read a registered service and removes it before it asks the marker
(`agent-supervisor-darwin.c` 832-838). `launchctl kickstart` happens while its owner is up and at most once; a process
number is reused only after its owner has gone; the supervisors clean up in two steps of which the marker's removal is
last.

**Proofs** (`NativeOwnersProofs`, for any choice of platforms and kinds of process and any number of faults, from
`NativeBounds` alone). `Inv` has a part for each platform; since the platform never changes, each action disturbs only
its own part. A part says three things: what of the tree can exist at each place of the supervisor, what its records say
by then, and what each later "it is gone" rests on (the kernel's answer, the removed job, an empty Job Object). The last
one is what makes it inductive: a frame, a marker or a finished handshake is read long after it was written, so the
invariant must carry the fact from the write to the read through every death in between. On macOS that fact is `Left`:
no helper of the job runs, and what of the tree does run was started `late`. The lemma of each action also
says that it makes one step of `OwnedTree` or none (`Moves`). `Recorded`, `Spares`, `TellsTrue` and the refinement
`PromiseKept` follow: every property of the run is also a theorem.

## 4. Agent runs

**Model and code.** JavaScript runs one callback at a time, but a callback that writes twice can be cut by a crash
between its writes. `AgentRuns` therefore has small actions and a record of *the rest of the turn*: `finishing`/`phase`
(the finish of one run: freeze, `FinishJournal` the sidecar, `FinishCommit` the row, `FinishClean` the sidecar away, or
`FinishDefer`), `drain` (the loop of `drain()`), `due`/`timer` (what a retry still has to visit), `stops` (what a
shutdown still has to stop) and a half-made launch (`Mark`, `Spawn`, `Own`, `Authorize`: the launching marker, the
spawn, the `running` commit, the authorization). Other callbacks need `Idle`, that is, the turn is over; `Crash` needs
only `up`. A spawn without a process belongs to the launching turn, since its error event comes before any other
callback. The awaits inside `prepareQueuedLaunch` are real gaps: between `DrainAdmits` and `Mark`, `Defer` or
`PrepareFails` anything may happen.

Rows (`status`, `class`, `resolved`, `pids`), sidecars (`side`, with `SavesOutcome`, `OutcomeRead` and `RemovesOutcome`
for `run-outcome-journal.mjs`) and process trees (`tree`) survive a crash; `Reconcile` reads one row at a time (the code
reads pages of 64 in one callback, so this allows more interleavings than the code); `RetryUnreadable`, `VerifyExited`,
`Discard` and `Replace` are the recovery requests. `faulty` makes any storage call fail or succeed, `full` is a measured
budget that refuses new work, `held` is a worktree held by the lifecycle or checkpoint service.

**Abstractions.** A tree is gone when its wrapper closes (section 3). The conflict of two runs of one chat is subsumed by
the conflict of their worktree. Corrupt sidecars, rows older than the worktree column, `discard-unverifiable`, archive
maintenance, transcripts, retargeting of chats, changes of settings and the format of handshake files are left out. The
continuation that re-queues a deferred launch one microtask after `start()` returned is part of `Defer`.

**Properties.** `OneTreePerWorktree` (with the fence of a held worktree) and `LiveTreesGated` (with the proof that a run
classed never-started had no tree) are the safety of recovery. `NoRunForgotten` and `RetriesOwned` say who still has to
act on a run: an owed outcome has a retry to come, and a queued run that could be launched has a drain to come.
`RetriesOwned` excludes exactly two cases, both described in section 13: a fault on the `run.queued` event (`undrained`),
and a run that another run's preflight left without the timer. `StopPreventsLaunch` is an action property.
`ImplementsLedger` is the refinement of `RunLedger`, with the entry of a run computed from its row and its sidecar: a
journaled outcome already counts, whatever the row says. `OwedOutcomesCommit` is liveness. The run checks the first two
as `LiveTreesApart` and the next two as `NothingStranded`.

**Runs.** `agent_runs`: two runs of one worktree, one slot, one crash, one period of faults, 1.7 million states; two runs
are what it takes for one to be queued behind, replaced by, or recovered beside the other. `agent_runs_fair`: one run,
two periods of faults and a crash, for the refinement under faults and for liveness. Deadlock is checked in both.

**Fairness.** `WF_vars(TurnStep)`: a callback that has begun runs to its end, as JavaScript does. `SF_vars(TimerFires)`:
an armed timer is not put off for ever, although other callbacks come between. Nothing is assumed of users, of
processes or of storage; the property itself asks that storage eventually stays usable, and excuses a runtime that
leaves, since the sidecar then carries the outcome. No other module states fairness.

**Proofs** (`AgentRunsProofs`, for any numbers of runs, worktrees, slots, crashes and faults, with both slot limits
positive as the settings' schema has them: `SlotsNat`). No property of this module is inductive alone, since the safety
of a tree rests on five places that are written at different moments. `Inv` says of a run what its place in the queue
and in the slots, the step of its launch, its process tree, its row, its sidecar and its class can be together
(`StepTree`, `StepRow`, `RowTree`, `ClassTree`, `ReviewSide`), that two owned runs share no worktree and work begins
beside a review only when that is verified (`OwnedApart`, `WorkAfterReview`), that a live tree has somebody who looks at
it (`LiveOwned`), and that whatever is owed is in the present turn, in the timer or in a shutdown (`Remembered`,
`OutcomeOwed`, `QueueOwed`). From it follow `TypeCorrect`, `TreesApart` (from `OneTree` and `LiveGated`) and
`NoneIsStranded` (from `NotForgotten` and `RetriesHaveOwners`); `StopWins` reads the action property off it, action by
action, and `LedgerKept` the refinement of `RunLedger`, by showing which entry each action can move.
`OwedOutcomesCommit` is liveness and stays with TLC.

## 5. Chat sessions

**Model and code.** `SessionEpoch` is one chat; chats do not share sessions. Its runs share a worktree, so one is
launched at a time, in order. `Edit` is the PATCH handler (switch, clear, attach); `Send` and `Create` make a run;
`Prepare` is the synchronous end of `prepareQueuedLaunch` (bind to the epoch, read the session), `Defer` puts the launch
back; `Report`, `RetryPersist` and `Finish` are the three ways a run's session reaches its own row and the chat, each
with the outcomes storage may give it; `Crash` interrupts open runs or settles them from sidecars (which does not adopt
a session); `Retry`, `AskResume`/`Resume`/`ResumeRefused` and `Discard` are the decisions, a resume split where the
handler awaits its checks with the session already read.

**Abstractions.** Only providers that can resume. `Maker` maps a session id to the provider it belongs to, and users
attach only fitting ids (the code checks the form of the id). One resume request is under way at a time. Budget
refusals and storage faults are nondeterministic outcomes, with no separate state.

**Properties.** `SessionsFitProviders`: no provider gets another one's token. `SendsFollowThread`: a send resumes what
the last finished run of its epoch reported; the run checks both as `SendsResumeThread`. `ImplementsChat`: only runs
launched from the present choice carry it on (`ChatSession`), where the writers of a choice are the open runs bound to
the present epoch.

**Run.** `session_epoch`: three runs, one edit, one crash, two providers, two sessions of one and one of the other,
symmetric in the two; about a million states. Three runs are needed for two interrupted runs to be continued at once
beside a later one. Deadlock is not checked: a chat whose bounds are spent, with nothing open, is at rest.

**Proofs** (`SessionEpochProofs`, for any providers, sessions and numbers of runs, edits and crashes).
`Inv == TypeOK /\ Timely /\ Unborn /\ AllFit /\ AnswerFits` is inductive: no binding is ahead of the chat's epoch
(`Timely`), so a new epoch outdates every writer; a run that does not exist has left no trace (`Unborn`), so a number
can be reused for a new run; every remembered token fits its run's provider, also those that no row shows (`AllFit`,
`AnswerFits`), since they may be written later. `SessionsAlwaysFit` and `ChatImplemented` follow, the latter by mapping
every action to a step of `ChatSession` or a stutter. Assumptions: `NoSessionType`, `MakerType`, `BoundsType`. For
`SendsFollowThread` there is a second layer, `ThreadInv`, inductive together with `Inv`: behind an open run nothing was
launched (`Behind`, `SendsLast`), so when a send reads the chat every later run has still said nothing; a run copies its
session to the chat as the last thing it does (`CopiedLast`); and the chat has the session of the last run that copied
one to the present choice (`Thread`). `SendsAlwaysFollow`, and with
`SessionsAlwaysFit` `SendsAlwaysResume`, are the theorems.

## 6. Streaming and replay

**Model and code.** The text of one answer is the units 1, 2, ...; a unit also stands for the sequence number of its
delta. On the server `CommitWithDelta` and `CheckpointTimer` store what was said, `Complete`, `Rewrite` and `Tool` close
a segment (with the whole text, with a text that does not extend it, before a tool's item), `Notice` stores an item in
the middle of one, and `Finish` ends the run (`AM` 1160-1300). `Publish` is the hub of `runtime-events.mjs`: a window of
retained events and what a connected socket is sent; `Connect` replays what came after the page's last event, or
announces that it missed some. The page (`App.jsx` 560-930, `recovery-policy.js`) has its cursor, the messages it shows,
the streaming text below them, the deltas it keeps for a reload, and one pending load with a buffer that may overflow.

**Properties.** `ShownInOrder`: no unit is repeated or shown before an earlier one. `CompleteAtRest`: with the run over
and nothing under way the page shows what the database holds, also if it joined late, missed events or saw the runtime
die. `NeverShrinks`: nothing that was shown disappears, except as named by `Excused` and `Counted`.

**Run.** `stream_replay`: three units, a window of two events, one selection of the chat, one notice, one fault. Three
units make two segments of which one has an inner boundary, and exceed the window. Sockets come and go, so the system
may rest; deadlock is not checked.

**Left out.** Other runs of the same chat and the previews of chats that are not displayed, the budget's omissions and
truncation of transcripts, pages of older messages, scroll position, events of the hub that are not a chat's.

## 7. Worktrees

**Model and code.** One path. `WorktreeCheckpoints` has the refs, the restore marker and the write marker on disk, the
claim of the operation in memory, the admitted Git writes and terminal launches, and processes whose owner was lost. A
restore records what it replaces (`RestoreRecords`), prunes, marks, applies and ends; each is a step, a crash falls
between any two. `Worktrees` adds the lifecycle service (claim, trust, the steps of set-up and teardown with a
checkpoint after each, cancel, acknowledge, reconcile, removal), an agent run, and the death of the runtime. The checks
each service makes of the others (`worktreeHeld`, `holding`, `hasWorktreeWork`) are the guards of the claims, and
`onRelease` is `wake`.

**Properties.** `WritersApart`: agent, step and restore never work together, a restore works beside no other writer, and
nothing works in a worktree a restore left half changed, also after a restart. `LostProcessesHold`: nothing starts
beside a process that may still write unless the user acknowledged that attempt. `StepsInOrder`: a step starts only
after the earlier ones of its configuration finished in this worktree, and none of those runs twice.
`RemovalAfterTeardown`, `SafetyKept` (the state before an interrupted restore is never pruned) and `NoStrandedRun` (each
way a hold ends tries the queued run).

**Run.** `worktrees` (`MCWorktrees`): a behaviour is either about the steps of set-up and teardown or about restores. The
first kind has two steps per phase, two attempts, three operations (or two and an edit), one failing save, one death and
one agent run, without checkpoints: every order of a step, its checkpoint and its outcome with a death, a retry and a
re-created worktree. The second has three checkpoints of which one is retained, a restore and its resumption, one death,
and two of a Git write or terminal launch, an operation of one step and an agent run, from a worktree trusted before.

**Left out.** Path aliases, output logs, an unreadable marker, retries over Git's index lock, previews of one file. A
worktree is replaced from outside only while it is idle. A shutdown is a cancel and a death. Git writes may run beside
steps and agents, as in the code; only a restore excludes them. What a process does that was lost in an attempt the user
acknowledged is the user's risk, as the dialog says (`excused`). Two variables are history only: `ran`, the steps that
really finished, and `torn`, that a teardown ran to its end since the last set-up.

**Proofs** (`WorktreesProofs`, for any configurations, steps and bounds, from `WorktreeBounds` and `CheckpointBounds`).
`Inv` has four threads. `Apart` says who holds the worktree and what cannot be there beside it; `Keeping` which
checkpoints a restore needs at each of its places and in its marker; `Losses` what still tells of each lost process (a
marker on disk, an unconfirmed state, or a running state on disk that a restart will turn into one), since a crash
erases what memory knew; `Progress` and `Stepping` that the state in memory and the one on disk are each at most one
step behind `ran`. The last is why a failed save, a death and a resumed run can follow one another in any order without
skipping or repeating a step. The same `Inv` was checked by TLC over both kinds of behaviour first. The actions of
`WorktreeCheckpoints` cannot move the lifecycle and are proved against the first threads only (`DiskInv`).
`WritersStayApart`, `LostHold`, `SafetyStays`, `StepsKeepOrder`, `RemovesAfterTeardown` and `NoneStranded` follow: every
property of the run is also a theorem.

## 8. Terminals

**Model and code.** `Terminals` is `terminal-manager.mjs`: the audit rows that tell which owners are settled, the
reattach records and empty proofs on disk, the `terminals` map, and one task per terminal for each operation that
awaits: create, end, settle, reattach or prove (`claim`), the manager's shutdown (`shut`), the native attempts of a quit
(`ends`). A restart withdraws no record and hands shells back; a quit withdraws all and ends them, also when it arrives
in the middle of a restart. `TerminalSession` is one shell in detail: the broker's token, its single connection, output
that waits behind a slow socket and the ring it keeps while nobody reads, the runtimes that hold it one after the other,
and the supervisor's window, which looks at the clock first and reads the broker's announcements later.

**Properties.** `OutcomeMeansGone`: no owner is settled while its shell runs. `ShellsWithinLimit`: shells of earlier
runtimes keep their slots until proved gone. `HandBackAndQuitKept`: what a restart hands back the next runtime can
reattach, and nothing that a quit left is reattached. `QuitTriesEveryShell`. `HeldShellKept`: the stored token is the one
the broker accepts, and the window ends no shell a runtime holds. `NothingLostSilently`: output is saved in order, once,
and each gap is counted.

**Runs.** `terminals`: two terminals, a limit of one or two, three runtimes, one failing write: hand-back, reattach and a
third runtime that finds what the second left. `terminal_session`: three runtimes, three units, a socket of two frames, a
ring of two, a window and a grace of one tick. Both systems rest once their bounds are spent.

**Proofs** (`TerminalsProofs`, for any finite set of terminals, any limit, any number of runtimes and failures). The
four properties of `terminals` are theorems. None of them is inductive: whether a slot may be given away, or a shell may
be called gone, depends on what else is running on that terminal. The invariant says it of one terminal at a time, in
ten parts. `Known` is the heart of the limit: once the inventory is read, a shell that is up and not in the map is one
the runtime inherited, one it handed back or one the quit is ending, and it is reserved as long as launches are
admitted; so what `Excess` counts covers every shell that is up or may still start (`Taken`), and `CreateSlots` does the
arithmetic of pruning. Every other step takes no slot (`Taken' \subseteq Taken`), which each action's lemma proves
beside the invariant. `Known` needs `Claiming` (a reattach under way holds an inherited owner that no one else settles),
`HandingBack` (a shell being handed back has its current token on disk and nothing else running on it) and `Shutting` (a
terminal that is dealt with is gone, or could not be closed). `QuitTries` then follows from the state in which
`EndPrior` runs. The theorems assume `TerminalBounds` only.

**Left out.** The limit per directory, history (section 11), input, resize, the launch handshake of a shell, the bound on
early frames, and diagnostics. Each terminal id is launched once. Whether reattaching is enabled is chosen at each start.
The removal of a record succeeds. Output that a notice counts may stand after the notice when it was shed behind a peer
that leaves.

## 9. Archive shadow

**Model and code.** `ArchiveShadow` has the names `file`, `next` and `old` with their inodes, the commits each inode
holds, the fence, and the marker with its phase. The worker copies, prepares, hands off; the parent fences, compares,
locks, pins, renames, links and unlinks; each durable step is an action, and `Crash` or a failure may follow any of them.
`Recover` is the start-up recovery, which examines what is there and goes on or back (`Settle`, `Examine`, `Back`,
`Vacate`, `Restore`); it may itself be interrupted. `LegacySteps` recover the markers of older versions. Other SQLite
connections commit through any name they can open, one may create a database while no file has the public name, and the
candidate may be replaced.

**Properties.** `NothingLost`: each commit is in a file that still has a name. `RestIsWhole`: a store at rest is one
public, unfenced database with all commits and nothing else. `StopsOnlyOnConflict`: recovery gives up only on databases
that contradict each other; crashes alone never leave what it cannot interpret. The run checks the last two as
`EndsWholeOrStops`.

**Run.** `archive_shadow`: five commits, three attempts, four crashes and two failures: an attempt, its interrupted
recovery, and the recovery of that.

**Left out.** Windows (locks and renames differ), what is deleted (section 11) and when, the disk-usage scan. The
write-ahead log is part of the file's contents, integrity checks are taken as true, and synchronising a directory
belongs to the step. Nobody commits while a swap of an older version is pending, and after a successful swap there is no
other attempt.

**Proofs** (`ArchiveShadowProofs`, for any numbers of commits, attempts, crashes and faults, from `ShadowBounds`). What
is on disk must be safe wherever a crash falls, so the first parts of `Inv` speak of the disk alone: for each phase of
the marker, which names can stand for which files and what those hold between them (`Fresh`, `Pinned`, `Old`). The other
parts say what each step of the worker or of the recovery still knows since it last looked (`Worker`, `Tails`,
`Recovery`), and which of them hold the locks that keep other connections from changing it (`Locked`). `KeepsCommits`
and `EndsWhole` (from `RestsWhole` and `StopsOnConflict`) follow: every property of the run is also a theorem.

## 10. Provider accounts

**Model and code.** One provider. A login key is the directory an account's home leads to now (`leads`). Checks of
logins form one queue with joinable entries (`EnqueueCheck`, `Join`, `StartCheck`, `ProbeIdentity`, `SettleCheck`); the
CLI reads through the link while it runs, so the link may move under it. A launch goes from `Submit` over the first
look, a check, the wait for its turn and the confirmation (`LoginConfirmed`) to `Launch`, which confirms, records and
spawns in one callback. A switch takes its turn after its check (`Activate`, `SwitchTurn`, `Select`). The user moves
links, signs in and out, adds and removes accounts and changes the chat's session throughout.

**Properties.** `LaunchKeepsLogin`: a run is spawned with the login it is recorded with, which is the one its session
last launched with and not known to be signed out. `EvidenceIsItsLogins`: kept evidence was read in the directory it is
filed under, and the active account exists. `SwitchedOnEvidence`: a switch rests on evidence of the directory the
account leads to. The run checks the first and the last, what was checked still holds when it is acted on, as
`ChecksStillHold`.

**Run.** `provider_accounts`: the default login and one added account, two directories (symmetric), one launch and one
request, two changes by the user: one to move a link under a check, one to change what the launch waits with.

**Left out.** Usage and limits, labels and the validation of a new home, environment credentials (fixed per process),
probe clean-up errors (an "unknown" answer). A link that leads elsewhere and back within one probe is excluded. The
listing after a request re-checks old logins in the background, with any age.

**Proofs** (`ProviderAccountsProofs`, for any finite set of added accounts, any callers and any number of moves). `Inv`
has four threads: an account's mark agrees with the queue and with the check under way and no caller waits for two
checks (`Queues`); a switch that has its turn stays first until it is answered (`Line`); what a check read belongs to
the directory it is filed under, because one that read another finds the account moved when it settles (`ProbeApart`,
`Reads`); and one launch is under way whose account, pin and session owner still agree (`OneLaunch`, `Launches`).
`Evident` and `ChecksHold` (from `Switches` and `LaunchesKeepLogin`) follow. The assumptions `NamesApart` and
`NoneApart` only keep the names of the model apart: account and directory names, callers, and the value that stands for
nothing.

## 11. What is stored for later

Four parts that share nothing; `MCStores` lets a behaviour be about one of them, in the run `stores`.

**Audit log.** `AuditTrail` has the rows with their ids, the evidence table that protects the rows a reader still needs,
the trimming cursor with its upper end (in the database, so that it survives a death), the start-up scan that fills the
evidence of an old log and answers what an earlier runtime left open, the fence that refuses clean-up requests until
that is done, and the cache of reserved terminals. `told` is history: what all rows ever written say. `EvidenceKept`: a
reader of the rows that are left learns the same. `CleanupsFenced`, `SlotsOwed`; the three are `TrailKept`.
`ScanSettles`: a scan that ends has answered and recorded everything, however often a failed write began it anew. Six
rows, a limit of two, pages of three, an outcome batch of one, two runtimes and one failed write: an owner and its
outcome lie in different pages, and trimming crosses a restart. Databases with older rows are among the initial states.

**Terminal history.** In `TerminalHistory` a call is a stack `todo` of file operations still to come, with marks where
the code's `try` blocks end: the process may die between any two operations, a deletion may be refused and a write may
fail or be cut half way. A refused deletion stalls a terminal: what it prints then is dropped, one warning is given
(`Warns`), and saving begins again once the deletion succeeds. A start-up reads what is there, trims torn ends, keeps
what it could not delete on the books (`residue`) and restores what belongs together; `Output` appends, rotates and
evicts ended sessions to stay within the quota; `Begin`, `Reattach`, `End`, `Finish` and `Dismiss` are the manager's
calls. `HistoryTrue`: what is served is the end of what the session printed, in order and whole but for pieces that came
while the status warned that output is not saved (`OutputUnbroken` over `printed`, `missed` and `warning`); no dismissed
session comes back, and files and charge stay within the limits. `EndedIsWhole`: no step leaves an ended session with
part of its output. Two terminals, two runtimes, four pieces of output of one or three of two, segments of one and a
quota that two terminals exceed; one refused operation. One case is excepted by name (`mixed`): a terminal that is begun
again over output of its own that could not be deleted. Reading and closing a file never fail here, a death is the
process's and not a power failure, and a load that fails does so before it deletes.

**Schema upgrade.** In `StoreMigration` opening creates what a version lacks, empty, with triggers, and leaves a durable
job with a cursor; `Tick` gives each job a page in the code's order, a transaction each; between two ticks the runtime
settles runs, writes journaled outcomes, adds chats and messages and deletes archived history in batches. `UpgradeTrue`:
when a job is gone its table is what a scan of the rows would give (`LookupsTrue`, `TasksWhole`, `EventsKept`), the
measured byte counter is the sum of the rows although rows came and went on both sides of every cursor, and the quota
never refuses a page of the upgrade but one of the event job (`QuotaTrue`). A restart of a store that is not yet of
version 2 counts anew, from zero and every table, if its count was over already (`Recounted`). Four old stores (of
versions 0, 1 and 3, two of them over or at their limit), pages of two rows, two live writes and one failing tick or
death. A page is cut by rows; where the code cuts by bytes or time the model may cut anywhere after the first row.
Writes may also come before the first tick, which the code runs at once: the model allows more. Tables with a text key
keep their rowids when the file is compacted.

**Tasks and threads.** `TaskThreads` has users who create, archive, restore, move and run threads and archive tasks, and
clean-up calls: `PruneBegins` selects threads hidden for longer than the window, `Prunes` visits one (the deletion
re-checks it), `SweepBegins`/`SweepPage` delete old archived tasks without threads behind one cursor that all calls
share and that wraps. `ThreadsKept`: retention marks only what has been hidden for longer than the window, by whichever
archive hid it (`hiddenAt` is history), and marked threads stay hidden and idle. `SweepsWhole`: a call that came to its
end leaves none of the tasks it owed. They are `RetentionTrue`. `NeverListedEmpty`: a listed task whose last visible
thread goes leaves the list in the same transaction. Two tasks, two calls, three instants; four edits of one thread or
three of two. Every change of an archived task stamps it, so the wrap of the cursor matters only where the clock stepped
back.

**Left out.** Audit rows that protect an active run, log wording; search of saved output and what the client shows;
spaces, settings, search tables, usage reports and the physical size of the file; pins, positions, the worktree scope and
the byte budget of clean-up calls. A marked thread goes in one step in `TaskThreads`; `StoreMigration` has the batches.
`AuditTrail`, `TerminalHistory` and `StoreMigration` are model-checked only.

**Proofs** (second part of `ArchiveShadowProofs`, for any tasks, threads, windows, limits, page sizes and calls). Both
properties of `TaskThreads`, stated in `ThreadRetention`, are theorems. Clean-up selects threads by their stamp, but
what matters is since when they are hidden: the invariant `RInv` says that no step hides a thread without stamping it
or its task's threads (`Stamped`), so what a stale list still names passes the second look only if it was hidden a
window ago (`Overdue`). For the sweep it says that what a call owes and nobody touched is without threads, and that
the shared cursor has not passed it once it wrapped for this call (`Sweeping`). That another call's page keeps this
rests on the order of rows: a page is closed towards earlier rows and is all there is when it is short
(`FirstIsClosed`, `FirstIsAll`, for any finite table, by the finite sets' well-founded order), so the cursor passes
only what the page deletes (`PagePasses`). `ListKept` holds because every step that takes a thread from a task looks
at what is left of it (`Fits`). The theorems assume `TaskBounds`: ids are numbers, limit and page size at least 1.

## 12. Bounds

Bounds are constants (`Max...`). Each only limits how often one kind of action happens (`MaxRuns`, `MaxBoot` and
`MaxUnits` by the range of the identifiers). The theorems hold for every value of them. The capacities (`Limit`,
`MaxActive`, `MaxPending`, `MaxQueued`, `Window`, `MaxBuffer`, `Retained`, `Limits`, `HighWater`, `RingLimit`) are the
code's own settings, taken small so that they are reached. `CHECK_DEADLOCK FALSE` stands where the bounded system comes
to rest. Type invariants are conjuncts of a named invariant in each module, and parts of the inductive invariants that
are proved. In `agent_runs` the last disjunct of `ShutdownStops` (a run that is already gone) is defensive and needs a
third run.

## 13. What the code does that a reader may not expect

Modelling met these places. Each is what the code does, in the model as it is in the code; the properties above are stated
around them, by name where an exception is needed.

* `SB` 591: an owner whose record was unlinked while its directory could not be synchronised stays charged, and is
  offered for a re-check that can only answer `record-unreadable` until a restart (the comment at `SB` 22 promises more).
* `AM` 574: a launch without a pid whose `running` row commits before the runtime dies is classed unknown; it stays in
  review for ever and blocks its worktree (comment at `AM` 479).
* `AM` 424: a storage fault on the `run.queued` event leaves a queued run with a free slot and no drain or retry to come
  (comment at `AM` 1081).
* `AM` 460: a sibling's successful preflight cancels the timer of a run that was refused because disk usage was unknown
  (comment at `AM` 1092).
* `AM` 893: a stop that timed out, or a torn-down launch, is not finished by its later close: the slot stays charged until
  the run is stopped again.
* `AM` 165: a wrapper whose supervisor ended without a proof still removes the handshake, so the group's absence is all
  that is left to look at.
* `DB` 1974: retrying a run of a chat that has no session starts no epoch, so two continued runs share one and the
  session follows whichever reports last (comment at `DB` 1972).
* `App.jsx` 628: a message that arrives while the displayed chat is read again is counted by the cursor, and the older
  snapshot then takes it off the page until the next reading (`Counted`; comment at `recovery-policy.js` 88).
* `App.jsx` 569: a background reading is refused while a load of the reader's own is pending, also after a reconnect
  that missed events (`skipped`).
* `DB` 3333: a store of version 0 or 1 whose bytes were counted but whose upgrade is not over is counted anew from zero
  when it is opened again; until then its quota refuses nothing (the comment at `DB` 3379 says that an interrupted
  upgrade resumes without recounting).
* `DB` 3556: a store whose count ends at or just under its limit, with no run under way, has no headroom for the event
  job's page, which adds rows: the page is refused and tried again every second, and the jobs behind it wait, until
  something is deleted or a restart begins the count anew (by the comment at `DB` 3071 "an over-quota store still
  finishes upgrading").
* `terminal-history.mjs` 225: after a stall saving goes on and the warning is withdrawn, so the saved output has a hole
  that nothing marks any more; so it has when a runtime that could not save is followed by one that resumes the session.
* `agent-supervisor-darwin.c` 781: an empty coalition is followed by `bootout` without another listing; a job whose first
  start is pending may start in between, and what outlives its helper outlives a tree that was declared gone (section 3).
  The comment at 718 has the registration in view, the one at 849 the pending start, none both.
* `archive-shadow.mjs` 665: a database that another process creates while no file has the public name stops recovery for
  good; both databases are kept.

## 14. What could come next

1. `AuditTrail` with the owners, requests and cleanups that rows leave open stated by a quantifier over the rows instead
   of a fold, which would bring `EvidenceKept` within reach of the prover.
2. `TerminalSession` and `StreamReplay` with sequences replaced by functions on positions, to bring them within reach of
   the prover.
3. Archive maintenance and the memory bound of owed outcomes in `AgentRuns` (two worktrees sharing a slot and a timer);
   corrupt sidecars and `discard-unverifiable` in recovery. The gap of one microtask between the return of `start()` and
   the continuation that re-queues a deferred launch (`AM` 1000), in which a stop could arrive, is part of `Defer` there.
4. `pane-layout.js` as operators checked against a reference definition.

## 15. What is not modelled, and why

Command-line and output parsing of the adapters, provider discovery (a shared probe without state others rely on), the
Git service and project scanner (one command per request; their permits are section 2's, the admission of Git writes is
section 7's), rendering, layout and search in the browser, the generated case-folding table, HTTP routing and guards,
automation beside the product, build scripts and CI. `PROJECT.json` gives the status of every
component.

Left to TLC: liveness (`OwedOutcomesCommit`), which is out of the prover's reach, as is anything that would need
induction over data: `StreamReplay` and `TerminalSession` fold over queues of messages and output units of any length,
so `ShownInOrder`, `CompleteAtRest`, `NothingLostSilently` and `HeldShellKept` are checked on their instances and not
proved. Of section 11 only `RetentionTrue` and `NeverListedEmpty` are proved: the properties of `AuditTrail`,
`TerminalHistory` and `StoreMigration` rest on folds over rows, stacks and tables as well.

## 16. Running

`tlc -workers 2 -config AgentRuns.cfg AgentRuns.tla` checks an instance (each configuration's module is named in
`PROJECT.json`); `tlapm` checks the proofs of `UtilityBudgetProofs`, `NativeOwnersProofs`, `AgentRunsProofs`,
`SessionEpochProofs`, `WorktreesProofs`, `TerminalsProofs`, `ArchiveShadowProofs` and `ProviderAccountsProofs`.
Definitions marked *Mutant* are plausible bugs that stand next to the definition they would replace; each property is
violated by the one `PROJECT.json` pairs it with.
