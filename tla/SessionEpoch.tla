---------------------------- MODULE SessionEpoch ----------------------------
(***************************************************************************)
(* The native session of one chat: the edits of server/database.mjs        *)
(* (updateConversation and the recovery decisions), the launch that reads  *)
(* the session and its epoch, and the writes with which runs copy their    *)
(* own session back to the chat, in server/agent-manager.mjs.              *)
(*                                                                         *)
(* The runs of one chat share its worktree, so one of them is launched at  *)
(* a time, in order.  Each durable write below is one transaction.         *)
(***************************************************************************)
EXTENDS Integers, FiniteSets

CONSTANTS
    Providers,  \* execution adapters that can resume a session
    Sessions,   \* native session ids
    NoSession,  \* null
    Maker,      \* the provider a session id belongs to
    MaxRuns,    \* bound: runs ever created
    MaxEdits,   \* bound: edits of the chat
    MaxCrashes  \* bound: deaths of the runtime

ASSUME NoSessionType == NoSession \notin Sessions
ASSUME MakerType == Maker \in [Sessions -> Providers]
ASSUME BoundsType == MaxRuns \in Nat /\ MaxEdits \in Nat /\ MaxCrashes \in Nat

Runs == 1..MaxRuns
NoRun == 0
NoEpoch == -1
Tokens == Sessions \cup {NoSession}

VARIABLES
    provider, session, epoch,  \* the chat's row
    created,                   \* runs created so far
    agent, token,              \* runs.provider, runs.provider_session_id
    status,                    \* where the run is (see TypeOK)
    recovery,                  \* runs created by a recovery decision
    bound,                     \* the epoch an entry or a launch is bound to
    resumes,                   \* the session the launch hands to the provider
    known,                     \* state.run.providerSessionId
    unsaved,                   \* state.pendingSessionId
    copied,                    \* runs whose finish copied their session
    asking, answer,            \* a resume request past its read of the chat
    edits, crashes             \* bounds

chat == <<provider, session, epoch>>
rows == <<created, agent, token, status, recovery>>
memory == <<bound, resumes, known, unsaved, copied>>
request == <<asking, answer>>
vars == <<chat, rows, memory, request, edits, crashes>>

Waiting == {r \in 1..created : status[r] = "queued"}
Launched == {r \in 1..created : status[r] \in {"prepared", "running"}}
Interrupted == {r \in 1..created : status[r] = "interrupted"}
Oldest(r) == \A i \in Interrupted : r <= i

MadeBy(s, p) == s \in Sessions => Maker[s] = p

---------------------------------------------------------------------------
(* Edits of the chat.                                                      *)

\* updateConversation: a changed provider or session starts a new epoch.
SetChat(p, s) ==
    /\ provider' = p /\ session' = s
    /\ epoch' = IF p # provider \/ s # session THEN epoch + 1 ELSE epoch

\* PATCH of provider and session.  A switch that attaches no session clears
\* it; a session is attached to a provider that made it.
Edit(p, s) ==
    /\ edits < MaxEdits /\ edits' = edits + 1
    /\ MadeBy(s, p)
    /\ SetChat(p, s)
    /\ UNCHANGED <<rows, memory, request, crashes>>

---------------------------------------------------------------------------
(* Runs.                                                                   *)

\* createRun: the run's row, and the entry that schedule() keeps of it.
Create(p, s, e) ==
    LET r == created + 1
    IN  /\ created' = r
        /\ agent' = [agent EXCEPT ![r] = p]
        /\ token' = [token EXCEPT ![r] = s]
        /\ known' = [known EXCEPT ![r] = s]
        /\ bound' = [bound EXCEPT ![r] = e]

\* POST /api/conversations/:id/runs, for the chat's provider or another one.
Send(p) ==
    /\ created < MaxRuns /\ Interrupted = {}
    /\ Create(p, NoSession, NoEpoch)
    /\ status' = [status EXCEPT ![created + 1] = "queued"]
    /\ UNCHANGED <<chat, recovery, resumes, unsaved, copied, request, edits, crashes>>

\* Mutant: a recovery run takes the epoch of its launch, as a send does.
BindAtLaunch(r) == bound' = [bound EXCEPT ![r] = epoch]

\* A send binds to the chat's present epoch; a recovery run keeps the epoch
\* of its decision.
Bind(r) == IF r \in recovery THEN UNCHANGED bound
           ELSE bound' = [bound EXCEPT ![r] = epoch]

\* launchSessionId: a recovery's own choice, else what the chat advertises
\* to the run's own provider.
LaunchSession(r) == IF r \in recovery THEN token[r]
                    ELSE IF agent[r] # provider THEN NoSession ELSE session

\* The synchronous end of prepareQueuedLaunch.
Prepare(r) ==
    /\ r \in Waiting /\ Launched = {}
    /\ \A q \in Waiting : r <= q
    /\ status' = [status EXCEPT ![r] = "prepared"]
    /\ Bind(r)
    /\ resumes' = [resumes EXCEPT ![r] = LaunchSession(r)]
    /\ UNCHANGED <<chat, created, agent, token, recovery, known, unsaved, copied,
                   request, edits, crashes>>

\* The launch is deferred before anything was written; a later attempt
\* prepares it again.
Defer(r) ==
    /\ r \in Launched /\ status[r] = "prepared"
    /\ status' = [status EXCEPT ![r] = "queued"]
    /\ resumes' = [resumes EXCEPT ![r] = NoSession]
    /\ bound' = IF r \in recovery THEN bound ELSE [bound EXCEPT ![r] = NoEpoch]
    /\ UNCHANGED <<chat, created, agent, token, recovery, known, unsaved, copied,
                   request, edits, crashes>>

\* The provider is started with the session of the launch.
Start(r) ==
    /\ r \in Launched /\ status[r] = "prepared"
    /\ status' = [status EXCEPT ![r] = "running"]
    /\ UNCHANGED <<chat, created, agent, token, recovery, memory, request, edits, crashes>>

\* A queued run is stopped, or fails before it reads the chat.
Cancel(r) ==
    /\ r \in Waiting
    /\ status' = [status EXCEPT ![r] = "finished"]
    /\ UNCHANGED <<chat, created, agent, token, recovery, memory, request, edits, crashes>>

\* adoptConversationSession: would the chat take session s from run r?
Adoptable(r, s) == /\ bound[r] # NoEpoch /\ s # NoSession
                   /\ agent[r] = provider /\ bound[r] = epoch

\* persistSessionMetadata, for a session the run has reported: the run's row,
\* then the chat.  A refusal by the budget spares the row and drops the copy;
\* a storage fault, before either write or between them, is retried.
Persist(r, s) ==
    /\ \/ /\ token' = [token EXCEPT ![r] = s]
          /\ session' = IF Adoptable(r, s) THEN s ELSE session
          /\ unsaved' = [unsaved EXCEPT ![r] = NoSession]
       \/ /\ token' = [token EXCEPT ![r] = s]
          /\ unsaved' = [unsaved EXCEPT ![r] = NoSession]
          /\ UNCHANGED session
       \/ /\ token' \in {token, [token EXCEPT ![r] = s]}
          /\ unsaved' = [unsaved EXCEPT ![r] = s]
          /\ UNCHANGED session
    /\ UNCHANGED <<provider, epoch, created, agent, status, recovery, bound, resumes,
                   copied, request, edits, crashes>>

\* A session event of the provider.
Report(r, s) ==
    /\ r \in Launched /\ status[r] = "running"
    /\ Maker[s] = agent[r]
    /\ known' = [known EXCEPT ![r] = s]
    /\ Persist(r, s)

\* retryPendingSessionMetadata
RetryPersist(r) ==
    /\ r \in Launched /\ unsaved[r] # NoSession
    /\ Persist(r, unsaved[r])
    /\ UNCHANGED known

\* Mutant: the chat gets the session the run was launched with.
CopiesLaunchSession(r) == resumes[r]

\* The session finishRun copies: the last one the run has reported.
FinalSession(r) == known[r]

\* finishRun, of a run that was launched or that ends just before.
Finish(r) ==
    /\ r \in Launched
    /\ status' = [status EXCEPT ![r] = "finished"]
    /\ token' = [token EXCEPT ![r] = IF FinalSession(r) = NoSession THEN @ ELSE FinalSession(r)]
    /\ unsaved' = [unsaved EXCEPT ![r] = NoSession]
    /\ \/ /\ session' = IF Adoptable(r, FinalSession(r)) THEN FinalSession(r) ELSE session
          /\ copied' = copied \cup {r}
       \/ UNCHANGED <<session, copied>>  \* sessionMetadataRefused
    /\ UNCHANGED <<provider, epoch, created, agent, recovery, bound, resumes, known,
                   request, edits, crashes>>

---------------------------------------------------------------------------
(* The death of the runtime, and recovery.                                 *)

\* The entries and launches are gone.  Every open run is interrupted, but a
\* run whose outcome was journaled is settled from its sidecar.
Crash ==
    /\ crashes < MaxCrashes /\ crashes' = crashes + 1
    /\ \E settled \in SUBSET Launched :
         status' = [r \in Runs |-> IF r \in settled THEN "finished"
                                   ELSE IF r \in Waiting \cup Launched THEN "interrupted"
                                   ELSE status[r]]
    /\ bound' = [r \in Runs |-> IF status[r] = "finished" THEN bound[r] ELSE NoEpoch]
    /\ unsaved' = [r \in Runs |-> NoSession]
    /\ asking' = NoRun /\ answer' = NoSession
    /\ UNCHANGED <<chat, created, agent, token, recovery, resumes, known, copied, edits>>

Discard(r) ==
    /\ r \in Interrupted
    /\ status' = [status EXCEPT ![r] = "resolved"]
    /\ UNCHANGED <<chat, created, agent, token, recovery, memory, request, edits, crashes>>

\* Mutant: the chat's session is taken whatever provider the chat has now.
OfferedByAny(r) == IF token[r] # NoSession THEN token[r] ELSE session

\* The session a resume is bound to: the run's own, else the chat's if the
\* chat still has the run's provider.
Offered(r) == IF token[r] # NoSession THEN token[r]
              ELSE IF provider = agent[r] THEN session ELSE NoSession

\* POST /api/runs/:id/resume reads the run and the chat, and then awaits the
\* checks of provider and account.
AskResume(r) ==
    /\ r \in Interrupted /\ Oldest(r) /\ asking = NoRun
    /\ Offered(r) # NoSession
    /\ asking' = r /\ answer' = Offered(r)
    /\ UNCHANGED <<chat, rows, memory, edits, crashes>>

\* The chat follows the decision while it has the run's provider.
ChooseForRecovery(r, s) == IF agent[r] = provider THEN SetChat(provider, s)
                           ELSE UNCHANGED chat

\* beginInterruptedRunRecovery and the entry of its run.
Replace(r, s) ==
    /\ r \in Interrupted /\ created < MaxRuns
    /\ ChooseForRecovery(r, s)
    /\ Create(agent[r], s, epoch')
    /\ status' = [status EXCEPT ![r] = "resolved", ![created + 1] = "queued"]
    /\ recovery' = recovery \cup {created + 1}
    /\ UNCHANGED <<resumes, unsaved, copied, edits, crashes>>

\* retry: a fresh session.
Retry(r) == Oldest(r) /\ Replace(r, NoSession) /\ UNCHANGED request

\* resume-session, with the session read before the checks.
Resume(r) ==
    /\ asking = r
    /\ Replace(r, answer)
    /\ asking' = NoRun /\ answer' = NoSession

\* The request ends otherwise: refused, or the run was decided meanwhile.
ResumeRefused ==
    /\ asking # NoRun
    /\ asking' = NoRun /\ answer' = NoSession
    /\ UNCHANGED <<chat, rows, memory, edits, crashes>>

---------------------------------------------------------------------------

Init ==
    /\ provider \in Providers /\ session = NoSession /\ epoch = 0
    /\ created = 0 /\ recovery = {}
    /\ agent = [r \in Runs |-> provider]
    /\ token = [r \in Runs |-> NoSession]
    /\ status = [r \in Runs |-> "absent"]
    /\ bound = [r \in Runs |-> NoEpoch]
    /\ resumes = [r \in Runs |-> NoSession]
    /\ known = [r \in Runs |-> NoSession]
    /\ unsaved = [r \in Runs |-> NoSession]
    /\ copied = {}
    /\ asking = NoRun /\ answer = NoSession
    /\ edits = 0 /\ crashes = 0

RunStep(r) ==
    \/ Prepare(r) \/ Defer(r) \/ Start(r) \/ Cancel(r) \/ RetryPersist(r) \/ Finish(r)
    \/ Discard(r) \/ AskResume(r) \/ Retry(r) \/ Resume(r)

Next ==
    \/ \E p \in Providers, s \in Tokens : Edit(p, s)
    \/ \E p \in Providers : Send(p)
    \/ \E r \in Runs : RunStep(r)
    \/ \E r \in Runs, s \in Sessions : Report(r, s)
    \/ Crash \/ ResumeRefused

Spec == Init /\ [][Next]_vars

---------------------------------------------------------------------------
(* Properties.                                                             *)

TypeOK ==
    /\ provider \in Providers /\ session \in Tokens /\ epoch \in Nat
    /\ created \in 0..MaxRuns /\ recovery \subseteq Runs
    /\ agent \in [Runs -> Providers] /\ token \in [Runs -> Tokens]
    /\ status \in [Runs -> {"absent", "queued", "prepared", "running", "finished",
                            "interrupted", "resolved"}]
    /\ bound \in [Runs -> Nat \cup {NoEpoch}]
    /\ resumes \in [Runs -> Tokens] /\ known \in [Runs -> Tokens]
    /\ unsaved \in [Runs -> Tokens] /\ copied \subseteq Runs
    /\ asking \in Runs \cup {NoRun} /\ answer \in Tokens
    /\ edits \in Nat /\ crashes \in Nat

\* No provider is ever handed another provider's resume token: not by a
\* switch, not by a send that names another provider, and not by a resume
\* whose chat was switched while the request was being checked.
SessionsFitProviders ==
    /\ MadeBy(session, provider)
    /\ \A r \in Runs : /\ MadeBy(resumes[r], agent[r])
                       /\ MadeBy(token[r], agent[r])

\* A chat keeps its thread: a send resumes the session that the last run of
\* the same epoch reported when it finished, through every deferral, retried
\* write and title edit in between.
SendsFollowThread ==
    \A q, r \in Runs :
      (/\ r \notin recovery /\ r \in Launched /\ bound[r] = epoch
       /\ q < r /\ q \in copied /\ known[q] # NoSession
       /\ bound[q] = epoch /\ agent[q] = provider /\ agent[r] = provider
       /\ \A o \in (q + 1)..(r - 1) : known[o] = NoSession)
      => resumes[r] = known[q]

\* The token a provider is handed is one of its own, and the one the chat's
\* thread left.
SendsResumeThread == SessionsFitProviders /\ SendsFollowThread

\* The writers of a chat are the open runs bound to its present epoch.
ChatWriters == {r \in Runs : /\ status[r] \in {"queued", "prepared", "running"}
                             /\ bound[r] = epoch}

ChatCommitted == recovery \cup
                 {r \in Runs : status[r] \notin {"absent", "queued", "prepared"}}

Chat == INSTANCE ChatSession WITH writers <- ChatWriters, committed <- ChatCommitted

\* Edits, recovery decisions and every late write of a run together keep the
\* promise of ChatSession: only a run launched from the present choice moves
\* the chat's session on.
ImplementsChat == Chat!Spec

=============================================================================
