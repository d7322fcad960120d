------------------------- MODULE ProviderAccounts -------------------------
(* The accounts of one provider (src/server/provider-accounts.mjs): the      *)
(* queue of login checks, the switch of the active account, and the way of   *)
(* one chat's launches from the first look at their login to the spawn       *)
(* (agent-manager.mjs, prepareQueuedLaunch and start).                       *)
(*                                                                           *)
(* A login key is the directory an account's home leads to.  The user moves  *)
(* those links, signs in and out, and adds, removes and switches accounts    *)
(* while checks and launches are under way.  A check runs the provider's CLI *)
(* and takes time: the CLI follows the link when it reads the login.         *)
EXTENDS Naturals, FiniteSets, Sequences, SequencesExt

CONSTANTS Default,     \* the default login
          Added,       \* accounts a user can add (an id is never used again)
          Dirs,        \* directories that hold a login
          Runs,        \* launches of the chat, one at a time
          Requests,    \* requests to switch the active account, or to check one
          Old,         \* the session of earlier runs
          Unrecorded,  \* the login key of runs from before accounts, which nobody wrote down
          None,
          Changed,     \* the answer of a check whose login changed under it
          MaxMoves     \* changes made by the user

ASSUME SomeDirectory == Dirs # {} /\ IsFiniteSet(Added) /\ MaxMoves \in Nat
ASSUME NamesApart == Default \notin Added /\ Runs \cap Requests = {} /\ Old \notin Runs /\ Unrecorded \notin Dirs

Accounts == {Default} \cup Added
Callers == Runs \cup Requests
Sessions == Runs \cup {Old}      \* a fresh launch opens a session of its own
BeforeAccounts == [account |-> Default, home |-> Unrecorded]
Statuses == {"in", "out", "unknown"}


VARIABLES
  stored,    \* added accounts in the database
  active,    \* the account new sessions use
  leads,     \* the directory each account's home leads to now
  login,     \* the login in each directory: "in" or "out"
  identities,\* the newest evidence kept for each account
  queue,     \* checks that have not started: account, background, callers
  running,   \* the one check under way
  pending,   \* the newest check of each account: "queued", "running" or None
  call,      \* each caller: where it stands, and what it waits with
  switches,  \* switch requests in order
  session,   \* the session the chat advertises
  owner,     \* the account and key each session last launched with
  moves

user == <<stored, active, leads, login, session, moves>>
checks == <<identities, queue, running, pending>>
vars == <<user, checks, call, switches, owner>>

Existing == {Default} \cup stored
Logins == [account : Accounts, home : Dirs \cup {Unrecorded}]
Evidence == [key : Dirs, status : Statuses, from : Dirs]
Checks == [account : Accounts, background : BOOLEAN, callers : SUBSET Callers]
Probes == [account : Accounts, callers : SUBSET Callers, key : Dirs,
           from : Dirs \cup {None}, status : Statuses \cup {None}]
Calls == [at : {"idle", "turn", "waiting", "answered", "confirmed", "checked", "launching", "done", "refused"},
          account : Accounts \cup {None},      \* the account it concerns
          attempt : 0..2,                      \* which look of currentLogin it waits for
          answer : Evidence \cup {None, Changed}, \* what its check settled with
          home : Dirs \cup {None},             \* the key a launch was resolved with
          pin : Logins \cup {None},            \* a recovery's pin
          session : Sessions \cup {None}]      \* the session a launch is for

\* The names that stand for nothing, and for a login that changed, are nothing else.
ASSUME NoneApart ==
  /\ Changed \notin Evidence
  /\ None \notin Accounts \cup Dirs \cup Sessions \cup Logins \cup Evidence \cup Probes
                \cup Statuses \cup {"queued", "running", Changed}

TypeOK ==
  /\ stored \subseteq Added /\ active \in Accounts
  /\ leads \in [Accounts -> Dirs] /\ login \in [Dirs -> {"in", "out"}]
  /\ identities \in [Accounts -> Evidence \cup {None}]
  /\ queue \in Seq(Checks)
  /\ running \in Probes \cup {None}
  /\ pending \in [Accounts -> {"queued", "running", None}]
  /\ call \in [Callers -> Calls] /\ switches \in Seq(Requests)
  /\ session \in Sessions \cup {None} /\ owner \in [Sessions -> Logins \cup {None}]

(***************************************************************************)
(* Checks of logins                                                        *)
(***************************************************************************)

\* The result kept for an account, when it was made under `key`.
CheckedLogin(a, key) ==
  IF identities[a] # None /\ identities[a].key = key THEN identities[a].status ELSE None

JoinableCheck(a) ==
  \/ pending[a] = "queued"
  \/ pending[a] = "running" /\ running.key = leads[a]

\* The queue with a new check: one that someone waits for goes before every
\* background check.
EnqueueCheck(q, check, next) ==
  LET behind == {i \in DOMAIN q : ~check.background /\ q[i].background}
  IN  \/ behind = {} /\ next = Append(q, check)
      \/ \E first \in behind :
            (\A i \in behind : first <= i) /\ next = InsertAt(q, first, check)

\* A caller joins a queued check; a background one moves ahead for it.
Join(q, i, c, next) ==
  LET joined == [q[i] EXCEPT !.callers = @ \cup {c}, !.background = FALSE]
  IN  IF q[i].background THEN EnqueueCheck(RemoveAt(q, i), joined, next)
      ELSE next = [q EXCEPT ![i] = joined]

\* Caller `c` asks for a check of the account, or shares one.
CheckIdentity(a, c) ==
  \/ /\ JoinableCheck(a) /\ pending[a] = "queued"
     /\ \E i \in DOMAIN queue : queue[i].account = a /\ Join(queue, i, c, queue')
     /\ UNCHANGED <<running, pending>>
  \/ /\ JoinableCheck(a) /\ pending[a] = "running"
     /\ running' = [running EXCEPT !.callers = @ \cup {c}]
     /\ UNCHANGED <<queue, pending>>
  \/ /\ ~JoinableCheck(a)
     /\ EnqueueCheck(queue, [account |-> a, background |-> FALSE, callers |-> {c}], queue')
     /\ pending' = [pending EXCEPT ![a] = "queued"]
     /\ UNCHANGED running

InBackground(accounts) ==
  [i \in DOMAIN accounts |-> [account |-> accounts[i], background |-> TRUE, callers |-> {}]]

\* Of the accounts `among`, those whose login nobody checked, and those whose
\* check is too old, are checked in the background.
RecheckIfOld(among) ==
  LET free == {a \in among : ~JoinableCheck(a)}
      unchecked == {a \in free : CheckedLogin(a, leads[a]) = None}
  IN  /\ \E old \in SUBSET (free \ unchecked) :
           LET due == unchecked \cup old IN
             /\ queue' = queue \o InBackground(SetToSeq(due))
             /\ pending' = [a \in Accounts |-> IF a \in due THEN "queued" ELSE pending[a]]
      /\ UNCHANGED running

StartCheck ==
  /\ running = None /\ queue # <<>>
  /\ LET c == Head(queue) IN
       /\ running' = [account |-> c.account, callers |-> c.callers,
                      key |-> leads[c.account], from |-> None, status |-> None]
       /\ pending' = [pending EXCEPT ![c.account] = "running"]
  /\ queue' = Tail(queue)
  /\ UNCHANGED <<user, identities, call, switches, owner>>

\* The CLI reads the login in the directory the home leads to at that time.
ProbeIdentity ==
  /\ running # None /\ running.from = None
  /\ \E status \in {login[leads[running.account]], "unknown"} :
       running' = [running EXCEPT !.from = leads[running.account], !.status = status]
  /\ UNCHANGED <<user, identities, queue, pending, call, switches, owner>>

\* Mutant: the login key is not read again when the probe ends.
NotReread(c) == TRUE
Unchanged(c) == leads[c.account] = c.key

SettleCheck ==
  /\ running # None /\ running.from # None
  /\ LET c == running
         result == [key |-> c.key, status |-> c.status, from |-> c.from]
     IN  /\ identities' = IF c.account \in Existing /\ Unchanged(c)
                            THEN [identities EXCEPT ![c.account] = result] ELSE identities
         /\ call' = [w \in Callers |-> IF w \notin c.callers THEN call[w]
                     ELSE [call[w] EXCEPT !.at = "answered", !.answer = IF Unchanged(c) THEN result ELSE Changed]]
         /\ pending' = IF pending[c.account] = "running" THEN [pending EXCEPT ![c.account] = None] ELSE pending
  /\ running' = None
  /\ UNCHANGED <<user, queue, switches, owner>>

(***************************************************************************)
(* Callers that wait for a check                                           *)
(***************************************************************************)

Goes(c, as) == call' = [call EXCEPT ![c] = as]

\* The caller has its outcome, and forgets what it waited with.
NoCall(step) == [at |-> step, account |-> None, attempt |-> 0, answer |-> None, home |-> None, pin |-> None, session |-> None]
Ends(c, step) == call' = [call EXCEPT ![c] = NoCall(step)]
Refused(c) == Ends(c, "refused")

\* Caller `c` waits for a check of account `a`; currentLogin counts its looks.
Look(c, a, n) ==
  CheckIdentity(a, c) /\ Goes(c, [call[c] EXCEPT !.at = "waiting", !.account = a, !.attempt = n, !.answer = None])

Current(c) == IF call[c].answer = Changed THEN FALSE ELSE call[c].answer.key = leads[call[c].account]

\* One more look when the login changed under the first, then none.
CurrentLogin(c) ==
  /\ call[c].at = "answered" /\ call[c].attempt > 0
  /\ \/ /\ Current(c) /\ Goes(c, [call[c] EXCEPT !.at = "confirmed", !.attempt = 0])
        /\ UNCHANGED <<checks, switches>>
     \/ /\ ~Current(c) /\ call[c].attempt < 2
        /\ Look(c, call[c].account, 2)
        /\ UNCHANGED <<identities, switches>>
     \/ /\ ~Current(c) /\ call[c].attempt = 2 /\ Refused(c)
        /\ switches' = IF c \in Requests THEN Tail(switches) ELSE switches
        /\ UNCHANGED checks
  /\ UNCHANGED <<user, owner>>

\* The user asks for a check, or adds an account, which checks it.
Refresh(c) ==
  /\ call[c].at = "idle"
  /\ \E a \in Existing : Look(c, a, 0)
  /\ UNCHANGED <<user, identities, switches, owner>>

Refreshed(c) ==
  /\ call[c].at = "answered" /\ call[c].attempt = 0 /\ Ends(c, "done")
  /\ RecheckIfOld(Existing)
  /\ UNCHANGED <<user, identities, switches, owner>>

\* Every answer lists the accounts, and so does opening the settings page.
List(c) ==
  /\ call[c].at = "idle" /\ Ends(c, "done")
  /\ RecheckIfOld(Existing)
  /\ UNCHANGED <<user, identities, switches, owner>>

SameAsDefault(a) == a # Default /\ leads[a] = leads[Default]

\* A switch waits for the switches asked for before it.
Activate(c) ==
  /\ call[c].at = "idle"
  /\ \E a \in Existing : Goes(c, [call[c] EXCEPT !.at = "turn", !.account = a])
  /\ switches' = Append(switches, c)
  /\ UNCHANGED <<user, checks, owner>>

SwitchTurn(c) ==
  /\ call[c].at = "turn" /\ Head(switches) = c
  /\ LET a == call[c].account IN
       \/ SameAsDefault(a) /\ Refused(c) /\ switches' = Tail(switches) /\ UNCHANGED checks
       \/ ~SameAsDefault(a) /\ Look(c, a, 1) /\ UNCHANGED <<identities, switches>>
  /\ UNCHANGED <<user, owner>>

\* Mutant: the login is not compared again where the switch acts.
OnFirstLook(a, checked) == ~SameAsDefault(a) /\ checked.status = "in" /\ a \in Existing
\* What a switch still needs once its check is in.
Selectable(a, checked) ==
  /\ checked.key = leads[a]
  /\ ~SameAsDefault(a)
  /\ checked.status = "in"
  /\ a \in Existing

Select(c) ==
  /\ call[c].at = "confirmed"
  /\ switches' = Tail(switches)
  /\ IF Selectable(call[c].account, call[c].answer)
       THEN active' = call[c].account /\ Ends(c, "done") /\ RecheckIfOld(Existing)
       ELSE UNCHANGED <<active, queue, running, pending>> /\ Refused(c)
  /\ UNCHANGED <<stored, leads, login, session, moves, identities, owner>>

(***************************************************************************)
(* Launches                                                                *)
(***************************************************************************)

Recovery(r) == call[r].pin # None
SessionOf(r) == IF Recovery(r) THEN call[r].session ELSE session
SessionAccount(r) == IF SessionOf(r) = None THEN None ELSE owner[SessionOf(r)]
OwnerOf(r) == IF Recovery(r) THEN call[r].pin ELSE SessionAccount(r)
AccountOf(r) == IF OwnerOf(r) = None THEN active ELSE OwnerOf(r).account
KeyOf(o, a) == IF o.home = Unrecorded THEN leads[a] ELSE o.home

\* A recovery resumes only a session launched with the login it is pinned to.
PinFits(r) ==
  Recovery(r) /\ SessionAccount(r) # None =>
    /\ SessionAccount(r).account = AccountOf(r)
    /\ KeyOf(SessionAccount(r), AccountOf(r)) = KeyOf(call[r].pin, AccountOf(r))

\* resolve: whether the launch has an account, and may use its login.
Resolves(r) ==
  /\ AccountOf(r) \in Existing
  /\ OwnerOf(r) = None => ~SameAsDefault(AccountOf(r))
  /\ PinFits(r)
  /\ OwnerOf(r) # None => OwnerOf(r).home \in {Unrecorded, leads[AccountOf(r)]}

Idle == \A r \in Runs : call[r].at \in {"idle", "done", "refused"}

\* The chat is sent a message, or an interrupted run is recovered: with the
\* login that run launched with, in its session, in a session attached by
\* hand, or afresh.
Submit(r) ==
  /\ call[r].at = "idle" /\ Idle
  /\ \E pin \in {None, BeforeAccounts} \cup {owner[x] : x \in Sessions},
        s \in {None, session} :
       /\ pin = None => s = None
       /\ Goes(r, [call[r] EXCEPT !.at = "turn", !.pin = pin, !.session = s])
  /\ UNCHANGED <<user, checks, switches, owner>>

\* The login the launch goes ahead with.
Checked(r) ==
  Goes(r, [call[r] EXCEPT !.at = "checked", !.account = AccountOf(r),
                          !.home = leads[AccountOf(r)], !.answer = None])

\* The account was found signed out, or was checked under another key.
Doubtful(a) ==
  IF identities[a] = None THEN FALSE
  ELSE identities[a].key # leads[a] \/ identities[a].status = "out"

\* assertLaunchable: a doubtful login is checked first.
AssertLaunchable(r) ==
  /\ call[r].at = "turn"
  /\ LET a == AccountOf(r) IN
       \/ ~Resolves(r) /\ Refused(r) /\ UNCHANGED checks
       \/ Resolves(r) /\ ~Doubtful(a) /\ Checked(r) /\ RecheckIfOld({a}) /\ UNCHANGED identities
       \/ Resolves(r) /\ Doubtful(a) /\ Look(r, a, 1) /\ UNCHANGED identities
  /\ UNCHANGED <<user, switches, owner>>

\* The check found no sign-out, and the launch resolves to the key it was made under.
LoginConfirmed(r) ==
  /\ call[r].at = "confirmed"
  /\ IF /\ call[r].answer.status # "out" /\ Resolves(r)
        /\ leads[AccountOf(r)] = call[r].answer.key
       THEN Checked(r) ELSE Refused(r)
  /\ UNCHANGED <<user, checks, switches, owner>>

SameAccount(r) == Resolves(r) /\ AccountOf(r) = call[r].account /\ leads[AccountOf(r)] = call[r].home

\* The final resolve of a queued launch, which also settles its session.
ResolveChecked(r) ==
  /\ call[r].at = "checked"
  /\ \/ ~SameAccount(r) /\ Refused(r) /\ UNCHANGED checks
     \/ /\ SameAccount(r)
        /\ Goes(r, [call[r] EXCEPT !.at = "launching",
                                   !.session = IF SessionOf(r) = None THEN r ELSE SessionOf(r)])
        /\ RecheckIfOld({AccountOf(r)}) /\ UNCHANGED identities
  /\ UNCHANGED <<user, switches, owner>>

\* Mutant: the login is not compared again before the spawn.
NotCompared(a, key) == a \in Existing /\ CheckedLogin(a, key) # "out"
\* confirmLaunch, and the launch marker, which refuses a removed account.
ConfirmLaunch(a, key) ==
  /\ a \in Existing
  /\ leads[a] = key
  /\ CheckedLogin(a, key) # "out"

\* The command is ready: the run is recorded with its login and spawned.
Launch(r) ==
  /\ call[r].at = "launching"
  /\ LET a == call[r].account IN
       \/ ~ConfirmLaunch(a, call[r].home) /\ Refused(r) /\ UNCHANGED owner
       \/ /\ ConfirmLaunch(a, call[r].home) /\ Ends(r, "done")
          /\ owner' = [owner EXCEPT ![call[r].session] = [account |-> a, home |-> call[r].home]]
  /\ UNCHANGED <<user, checks, switches>>

(***************************************************************************)
(* The user                                                                *)
(***************************************************************************)

\* A home's link is pointed elsewhere.  During a check of the account it is
\* not also pointed back: the check could not tell.
Repoint ==
  /\ \E a \in Accounts, d \in Dirs :
       /\ leads[a] # d
       /\ running # None => running.account # a \/ running.key # d
       /\ leads' = [leads EXCEPT ![a] = d]
  /\ UNCHANGED <<stored, active, login, session>>

SignInOrOut ==
  /\ \E d \in Dirs : login' = [login EXCEPT ![d] = IF @ = "in" THEN "out" ELSE "in"]
  /\ UNCHANGED <<stored, active, leads, session>>

\* An added account is removed, unless it is the active one.
RemoveAccount ==
  /\ \E a \in stored \ {active} :
       /\ stored' = stored \ {a} /\ identities' = [identities EXCEPT ![a] = None]
       /\ RecheckIfOld(Existing \ {a})
  /\ UNCHANGED <<active, leads, login, session>>

\* The chat's session is cleared, another is attached by hand, or a run's own
\* session is advertised.
SetSession ==
  /\ \E s \in {None} \cup {s \in Sessions : owner[s] # None} : s # session /\ session' = s
  /\ UNCHANGED <<stored, active, leads, login>>

User ==
  /\ moves < MaxMoves /\ moves' = moves + 1
  /\ RemoveAccount \/ ((Repoint \/ SignInOrOut \/ SetSession) /\ UNCHANGED checks)
  /\ UNCHANGED <<call, switches, owner>>

(***************************************************************************)

\* The chat may resume a session of an earlier run, one from before accounts, or
\* one attached by hand, which no run of this chat launched.
Init ==
  /\ stored = Added /\ active = Default
  /\ leads \in {f \in [Accounts -> Dirs] : \A a \in Added : f[a] # f[Default]}
  /\ login = [d \in Dirs |-> "in"]
  /\ identities = [a \in Accounts |-> None]
  /\ queue = <<>> /\ running = None /\ pending = [a \in Accounts |-> None]
  /\ call = [c \in Callers |-> NoCall("idle")] /\ switches = <<>>
  /\ session \in {None, Old}
  /\ owner \in {[s \in Sessions |-> IF s = Old THEN o ELSE None] :
       o \in {None, BeforeAccounts} \cup {[account |-> a, home |-> leads[a]] : a \in Accounts}}
  /\ moves = 0

Next ==
  \/ StartCheck \/ ProbeIdentity \/ SettleCheck \/ User
  \/ \E c \in Callers : CurrentLogin(c)
  \/ \E c \in Requests : Refresh(c) \/ Refreshed(c) \/ List(c) \/ Activate(c) \/ SwitchTurn(c) \/ Select(c)
  \/ \E r \in Runs : \/ Submit(r) \/ AssertLaunchable(r) \/ LoginConfirmed(r)
                     \/ ResolveChecked(r) \/ Launch(r)

Spec == Init /\ [][Next]_vars

(***************************************************************************)
(* Properties                                                              *)
(***************************************************************************)

\* A run is spawned with the login it is recorded with, that login is the one
\* its session and its pin last launched with, and no check has found it
\* signed out, however links, sign-ins, the active account and the accounts
\* themselves change while it is prepared (resolve, confirmLaunch).
LaunchKeepsLogin ==
  [][\A r \in Runs : call[r].at = "launching" /\ call'[r].at = "done" =>
       LET recorded == owner'[call[r].session] IN
         /\ recorded.home = leads[recorded.account] /\ recorded.account \in Existing
         /\ CheckedLogin(recorded.account, recorded.home) # "out"
         /\ \A o \in {call[r].pin, owner[call[r].session]} \ {None} :
              o.account = recorded.account /\ o.home \in {Unrecorded, recorded.home}]_vars

\* Kept evidence was read in the directory it is filed under, and only for an
\* account that exists; the active account is one that exists (runChecks,
\* selectProviderAccount).  (The types of the state are checked with it.)
EvidenceIsItsLogins ==
  /\ TypeOK
  /\ active \in Existing
  /\ \A a \in Accounts : identities[a] # None =>
       a \in Existing /\ identities[a].from = identities[a].key

\* An account becomes active only on evidence that its present directory is
\* signed in, read there, and never while the default login uses that
\* directory (activate).
SwitchedOnEvidence ==
  [][active' # active =>
       \E c \in Requests :
         /\ call[c].account = active' /\ call[c].at = "confirmed" /\ call'[c].at = "done"
         /\ call[c].answer.status = "in" /\ call[c].answer.from = leads[active']
         /\ ~SameAsDefault(active')]_vars

\* What was checked still holds when it is acted on: at a launch the login, at a
\* switch the evidence.
ChecksStillHold == LaunchKeepsLogin /\ SwitchedOnEvidence
=============================================================================
