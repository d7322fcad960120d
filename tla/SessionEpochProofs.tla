------------------------- MODULE SessionEpochProofs -------------------------
(***************************************************************************)
(* Proofs about SessionEpoch for any providers, any sessions and any       *)
(* number of runs, edits and crashes.                                      *)
(*                                                                         *)
(* Inv is inductive: a binding is never ahead of the chat's epoch, a run   *)
(* not yet created has left no trace, and every token that is remembered   *)
(* anywhere fits its run's provider.  That no edit can be undone           *)
(* (ImplementsChat) then follows step by step: a change of the chat moves  *)
(* to an epoch that no binding has reached.                                *)
(*                                                                         *)
(* ThreadInv is what SendsFollowThread needs besides: runs are launched in *)
(* their order, one at a time, so when a send reads the chat, every later  *)
(* run has still said nothing.                                             *)
(***************************************************************************)
EXTENDS SessionEpoch, TLAPS

Timely == \A r \in Runs : bound[r] <= epoch

Unborn == \A r \in Runs : r > created =>
    /\ status[r] = "absent" /\ token[r] = NoSession /\ known[r] = NoSession
    /\ resumes[r] = NoSession /\ unsaved[r] = NoSession
    /\ r \notin recovery

RunFits(r) == /\ MadeBy(resumes[r], agent[r]) /\ MadeBy(token[r], agent[r])
              /\ MadeBy(known[r], agent[r]) /\ MadeBy(unsaved[r], agent[r])

AllFit == MadeBy(session, provider) /\ \A r \in Runs : RunFits(r)

AnswerFits == asking \in Runs => asking <= created /\ MadeBy(answer, agent[asking])

Inv == TypeOK /\ Timely /\ Unborn /\ AllFit /\ AnswerFits

\* No session fits every provider.
LEMMA NoneFits == \A p : MadeBy(NoSession, p)
  BY NoSessionType DEF MadeBy

\* The initial states satisfy the invariant.
LEMMA InitInv == Init => Inv
<1> SUFFICES ASSUME Init PROVE Inv
  OBVIOUS
<1> USE NoSessionType, BoundsType DEF Init, Runs, Tokens, NoRun, NoEpoch
<1>1. TypeOK
  BY DEF TypeOK
<1>2. Timely /\ Unborn /\ AnswerFits
  BY DEF Timely, Unborn, AnswerFits
<1>3. AllFit
  BY NoneFits DEF AllFit, RunFits
<1>. QED  BY <1>1, <1>2, <1>3 DEF Inv

\* An edit moves the chat to a session of its provider.
LEMMA EditInv == ASSUME Inv, NEW p \in Providers, NEW s \in Tokens, Edit(p, s) PROVE Inv'
<1> USE BoundsType DEF Edit, SetChat, rows, memory, request
<1>1. TypeOK'
  BY DEF Inv, TypeOK
<1>2. Timely'
  BY DEF Inv, Timely, TypeOK, Runs, NoEpoch
<1>3. Unborn' /\ AnswerFits'
  BY DEF Inv, Unborn, AnswerFits
<1>4. AllFit'
  BY DEF Inv, AllFit, RunFits
<1>. QED  BY <1>1, <1>2, <1>3, <1>4 DEF Inv

\* createRun, for any session that fits the run's provider and any epoch
\* that the chat has reached.
LEMMA CreateInv ==
  ASSUME Inv, created < MaxRuns, NEW p \in Providers, NEW s \in Tokens, MadeBy(s, p),
         NEW e \in Nat \cup {NoEpoch}, Create(p, s, e)
  PROVE  /\ created + 1 \in Runs /\ created' = created + 1
         /\ agent' \in [Runs -> Providers] /\ token' \in [Runs -> Tokens]
         /\ known' \in [Runs -> Tokens] /\ bound' \in [Runs -> Nat \cup {NoEpoch}]
         /\ bound'[created + 1] = e
         /\ \A r \in Runs \ {created + 1} :
              /\ agent'[r] = agent[r] /\ token'[r] = token[r]
              /\ known'[r] = known[r] /\ bound'[r] = bound[r]
         /\ agent'[created + 1] = p /\ token'[created + 1] = s /\ known'[created + 1] = s
<1>1. created + 1 \in Runs /\ created \in Nat
  BY BoundsType DEF Inv, TypeOK, Runs
<1>. QED  BY <1>1 DEF Create, Inv, TypeOK

\* A send.
LEMMA SendInv == ASSUME Inv, NEW p \in Providers, Send(p) PROVE Inv'
<1> DEFINE n == created + 1
<1>0. NoSession \in Tokens /\ MadeBy(NoSession, p) /\ NoEpoch \in Nat \cup {NoEpoch}
  BY NoneFits DEF Tokens
<1>1. Create(p, NoSession, NoEpoch) /\ created < MaxRuns
  BY DEF Send
<1> HIDE DEF n
<1>2. /\ n \in Runs /\ created' = n
      /\ agent' \in [Runs -> Providers] /\ token' \in [Runs -> Tokens]
      /\ known' \in [Runs -> Tokens] /\ bound' \in [Runs -> Nat \cup {NoEpoch}]
      /\ bound'[n] = NoEpoch
      /\ \A r \in Runs \ {n} :
           /\ agent'[r] = agent[r] /\ token'[r] = token[r]
           /\ known'[r] = known[r] /\ bound'[r] = bound[r]
      /\ agent'[n] = p /\ token'[n] = NoSession /\ known'[n] = NoSession
  BY <1>0, <1>1, CreateInv DEF n
<1>3. /\ status' = [status EXCEPT ![n] = "queued"]
      /\ UNCHANGED <<chat, recovery, resumes, unsaved, copied, request, edits, crashes>>
      /\ n > created /\ created \in Nat
  BY BoundsType DEF Send, n, Inv, TypeOK
<1>4. TypeOK'
  BY <1>2, <1>3 DEF Inv, TypeOK, chat, request, Runs
<1>5. Timely'
  BY <1>2, <1>3 DEF Inv, Timely, TypeOK, chat, NoEpoch, Runs
<1>6. Unborn'
  BY <1>2, <1>3 DEF Inv, Unborn, TypeOK, Runs, n
<1>7. AllFit'
  <2>1. \A r \in Runs : RunFits(r)'
    <3> SUFFICES ASSUME NEW r \in Runs PROVE RunFits(r)'
      OBVIOUS
    <3>1. CASE r = n
      BY <1>2, <1>3, <3>1, NoneFits DEF RunFits, Inv, Unborn
    <3>2. CASE r # n
      BY <1>2, <1>3, <3>2 DEF RunFits, Inv, AllFit
    <3>. QED  BY <3>1, <3>2
  <2>. QED  BY <2>1, <1>3 DEF AllFit, Inv, chat
<1>8. AnswerFits'
  BY <1>2, <1>3 DEF AnswerFits, Inv, request, Runs, TypeOK, n
<1>. QED  BY <1>4, <1>5, <1>6, <1>7, <1>8 DEF Inv

\* The launch binds the run and picks its session.
LEMMA PrepareInv == ASSUME Inv, NEW r \in Runs, Prepare(r) PROVE Inv'
<1>1. LaunchSession(r) \in Tokens /\ MadeBy(LaunchSession(r), agent[r])
  BY NoneFits DEF LaunchSession, Inv, TypeOK, AllFit, RunFits, Tokens
<1>2. bound' \in [Runs -> Nat \cup {NoEpoch}] /\ \A q \in Runs : bound'[q] <= epoch
  <2>1. CASE r \in recovery
    BY <2>1 DEF Prepare, Bind, Inv, TypeOK, Timely
  <2>2. CASE r \notin recovery
    <3>1. bound' = [bound EXCEPT ![r] = epoch]
      BY <2>2 DEF Prepare, Bind
    <3>. QED  BY <3>1 DEF Inv, TypeOK, Timely, NoEpoch
  <2>. QED  BY <2>1, <2>2
<1> USE DEF Prepare, chat, request
<1>3. TypeOK'
  BY <1>1, <1>2 DEF Inv, TypeOK
<1>4. Timely'
  BY <1>2 DEF Timely
<1>5. Unborn'
  BY DEF Inv, Unborn, TypeOK, Waiting, Runs
<1>6. AllFit'
  <2>1. \A q \in Runs : RunFits(q)'
    BY <1>1 DEF RunFits, Inv, AllFit, TypeOK
  <2>. QED  BY <2>1 DEF AllFit, Inv
<1>7. AnswerFits'
  BY DEF AnswerFits, Inv
<1>. QED  BY <1>3, <1>4, <1>5, <1>6, <1>7 DEF Inv

\* A launch is put off.
LEMMA DeferInv == ASSUME Inv, NEW r \in Runs, Defer(r) PROVE Inv'
<1> USE DEF Defer, chat, request
<1>1. bound' \in [Runs -> Nat \cup {NoEpoch}] /\ \A q \in Runs : bound'[q] <= epoch
  BY DEF Inv, TypeOK, Timely, NoEpoch, Runs
<1>2. TypeOK'
  BY <1>1 DEF Inv, TypeOK, Tokens
<1>3. Timely' /\ AnswerFits'
  BY <1>1 DEF Timely, AnswerFits, Inv
<1>4. Unborn'
  BY DEF Inv, Unborn, TypeOK, Launched, Runs
<1>5. AllFit'
  <2>1. \A q \in Runs : RunFits(q)'
    BY NoneFits DEF RunFits, Inv, AllFit, TypeOK
  <2>. QED  BY <2>1 DEF AllFit, Inv
<1>. QED  BY <1>2, <1>3, <1>4, <1>5 DEF Inv

\* A step that moves one created run on and leaves every token alone.
LEMMA MoveInv ==
  ASSUME Inv, NEW r \in Runs, r <= created,
         NEW s \in {"running", "finished", "resolved"},
         status' = [status EXCEPT ![r] = s],
         UNCHANGED <<chat, created, agent, token, recovery, memory, request, edits, crashes>>
  PROVE  Inv'
<1> USE DEF chat, memory, request
<1>1. TypeOK'
  BY DEF Inv, TypeOK
<1>2. Timely' /\ AnswerFits'
  BY DEF Timely, AnswerFits, Inv
<1>3. Unborn'
  BY DEF Inv, Unborn, TypeOK, Runs
<1>4. AllFit'
  BY DEF AllFit, RunFits, Inv
<1>. QED  BY <1>1, <1>2, <1>3, <1>4 DEF Inv

\* A reported session is saved, refused or kept for a retry.
LEMMA PersistInv ==
  ASSUME Inv, NEW r \in Runs, r <= created, NEW s \in Sessions, MadeBy(s, agent[r]),
         Persist(r, s), known' = known \/ known' = [known EXCEPT ![r] = s]
  PROVE  Inv'
<1> USE DEF request
<1>1. /\ UNCHANGED <<provider, epoch, created, agent, status, recovery, bound, resumes,
                     copied, asking, answer, edits, crashes>>
      /\ token' = token \/ token' = [token EXCEPT ![r] = s]
      /\ unsaved' = [unsaved EXCEPT ![r] = s] \/ unsaved' = [unsaved EXCEPT ![r] = NoSession]
      /\ session' = session \/ (session' = s /\ Adoptable(r, s))
  BY DEF Persist
<1>6. /\ token' \in [Runs -> Tokens] /\ unsaved' \in [Runs -> Tokens]
      /\ known' \in [Runs -> Tokens] /\ session' \in Tokens
      /\ \A q \in Runs : /\ token'[q] = token[q] \/ (q = r /\ token'[q] = s)
                         /\ known'[q] = known[q] \/ (q = r /\ known'[q] = s)
                         /\ \/ unsaved'[q] = unsaved[q]
                            \/ q = r /\ unsaved'[q] \in {s, NoSession}
  BY <1>1 DEF Inv, TypeOK, Tokens
<1>2. TypeOK'
  BY <1>1, <1>6 DEF Inv, TypeOK
<1>3. Timely' /\ AnswerFits'
  BY <1>1 DEF Timely, AnswerFits, Inv
<1>4. Unborn'
  BY <1>1, <1>6 DEF Inv, Unborn, TypeOK, Runs
<1>5. AllFit'
  <2>1. \A q \in Runs : RunFits(q)'
    BY <1>1, <1>6, NoneFits DEF RunFits, Inv, AllFit
  <2>2. MadeBy(session, provider)'
    BY <1>1 DEF Adoptable, Inv, AllFit
  <2>. QED  BY <2>1, <2>2 DEF AllFit
<1>. QED  BY <1>2, <1>3, <1>4, <1>5 DEF Inv

\* The terminal commit.
LEMMA FinishInv == ASSUME Inv, NEW r \in Runs, Finish(r) PROVE Inv'
<1> USE DEF request, FinalSession
<1>0. r <= created /\ known[r] \in Tokens /\ MadeBy(known[r], agent[r])
  BY DEF Finish, Launched, Inv, AllFit, RunFits, TypeOK
<1>1. /\ UNCHANGED <<provider, epoch, created, agent, recovery, bound, resumes, known,
                     asking, answer, edits, crashes>>
      /\ status' = [status EXCEPT ![r] = "finished"]
      /\ token' = [token EXCEPT ![r] = IF known[r] = NoSession THEN @ ELSE known[r]]
      /\ unsaved' = [unsaved EXCEPT ![r] = NoSession]
      /\ session' = session \/ (session' = known[r] /\ Adoptable(r, known[r]))
      /\ copied' = copied \/ copied' = copied \cup {r}
  BY DEF Finish
<1>6. /\ token' \in [Runs -> Tokens] /\ unsaved' \in [Runs -> Tokens]
      /\ session' \in Tokens
      /\ \A q \in Runs : /\ token'[q] = token[q] \/ (q = r /\ token'[q] = known[r])
                         /\ unsaved'[q] = unsaved[q] \/ unsaved'[q] = NoSession
                         /\ status'[q] = status[q] \/ q = r
  BY <1>0, <1>1 DEF Inv, TypeOK, Tokens
<1>2. TypeOK'
  BY <1>1, <1>6 DEF Inv, TypeOK
<1>3. Timely' /\ AnswerFits'
  BY <1>1 DEF Timely, AnswerFits, Inv
<1>4. Unborn'
  BY <1>0, <1>1, <1>6 DEF Inv, Unborn, TypeOK, Runs
<1>5. AllFit'
  <2>1. \A q \in Runs : RunFits(q)'
    BY <1>0, <1>1, <1>6, NoneFits DEF RunFits, Inv, AllFit
  <2>2. MadeBy(session, provider)'
    BY <1>0, <1>1 DEF Adoptable, Inv, AllFit
  <2>. QED  BY <2>1, <2>2 DEF AllFit
<1>. QED  BY <1>2, <1>3, <1>4, <1>5 DEF Inv

\* The death of the runtime.
LEMMA CrashInv == ASSUME Inv, Crash PROVE Inv'
<1> USE DEF Crash, chat
<1>1. TypeOK'
  <2>1. PICK settled \in SUBSET Launched :
          status' = [r \in Runs |-> IF r \in settled THEN "finished"
                                    ELSE IF r \in Waiting \cup Launched THEN "interrupted"
                                    ELSE status[r]]
    OBVIOUS
  <2>2. status' \in [Runs -> {"absent", "queued", "prepared", "running", "finished",
                              "interrupted", "resolved"}]
    BY <2>1 DEF Inv, TypeOK
  <2>. QED  BY <2>2 DEF Inv, TypeOK, Tokens, NoRun
<1>2. Timely' /\ AnswerFits'
  BY DEF Timely, AnswerFits, Inv, TypeOK, NoEpoch, NoRun, Runs
<1>3. Unborn'
  BY DEF Inv, Unborn, TypeOK, Waiting, Launched, Runs
<1>4. AllFit'
  BY NoneFits DEF AllFit, RunFits, Inv
<1>. QED  BY <1>1, <1>2, <1>3, <1>4 DEF Inv

\* A resume request reads the session it will use, or ends without using it.
LEMMA RequestInv ==
  ASSUME Inv, \/ ResumeRefused \/ \E r \in Runs : AskResume(r)
  PROVE  Inv'
<1> USE DEF chat, rows, memory, request
<1>1. CASE ResumeRefused
  <2>1. UNCHANGED <<chat, rows, memory, edits, crashes>> /\ asking' = NoRun /\ answer' = NoSession
    BY <1>1 DEF ResumeRefused
  <2>2. TypeOK'
    BY <2>1 DEF Inv, TypeOK, Tokens
  <2>3. Timely' /\ Unborn' /\ AnswerFits'
    BY <2>1 DEF Inv, Timely, Unborn, AnswerFits, NoRun, Runs
  <2>4. AllFit'
    BY <2>1 DEF Inv, AllFit, RunFits
  <2>. QED  BY <2>2, <2>3, <2>4 DEF Inv
<1>2. ASSUME NEW r \in Runs, AskResume(r) PROVE Inv'
  <2>1. /\ UNCHANGED <<chat, rows, memory, edits, crashes>>
        /\ asking' = r /\ answer' = Offered(r) /\ r <= created
    BY <1>2 DEF AskResume, Interrupted
  <2>2. Offered(r) \in Tokens /\ MadeBy(Offered(r), agent[r])
    BY NoneFits DEF Offered, Inv, TypeOK, AllFit, RunFits, Tokens
  <2>3. TypeOK'
    BY <2>1, <2>2 DEF Inv, TypeOK
  <2>4. Timely' /\ Unborn' /\ AnswerFits'
    BY <2>1, <2>2 DEF Inv, Timely, Unborn, AnswerFits
  <2>5. AllFit'
    BY <2>1 DEF Inv, AllFit, RunFits
  <2>. QED  BY <2>3, <2>4, <2>5 DEF Inv
<1>. QED  BY <1>1, <1>2

\* A recovery decision with a session that fits the run.
LEMMA ReplaceInv ==
  ASSUME Inv, NEW q \in Runs, NEW s \in Tokens, MadeBy(s, agent[q]), Replace(q, s),
         UNCHANGED request \/ (asking' = NoRun /\ answer' = NoSession)
  PROVE  Inv'
<1> DEFINE n == created + 1
<1>1. /\ provider' = provider /\ session' \in Tokens /\ MadeBy(session', provider)
      /\ epoch' \in Nat /\ epoch' >= epoch
  BY DEF Replace, ChooseForRecovery, SetChat, chat, Inv, TypeOK, AllFit
<1>2. /\ agent[q] \in Providers /\ q <= created /\ created < MaxRuns
      /\ Create(agent[q], s, epoch') /\ epoch' \in Nat \cup {NoEpoch}
  BY <1>1 DEF Replace, Interrupted, Inv, TypeOK
<1> HIDE DEF n
<1>3. /\ n \in Runs /\ created' = n
      /\ agent' \in [Runs -> Providers] /\ token' \in [Runs -> Tokens]
      /\ known' \in [Runs -> Tokens] /\ bound' \in [Runs -> Nat \cup {NoEpoch}]
      /\ bound'[n] = epoch'
      /\ \A r \in Runs \ {n} :
           /\ agent'[r] = agent[r] /\ token'[r] = token[r]
           /\ known'[r] = known[r] /\ bound'[r] = bound[r]
      /\ agent'[n] = agent[q] /\ token'[n] = s /\ known'[n] = s
  BY <1>2, CreateInv DEF n
<1>4. /\ status' = [status EXCEPT ![q] = "resolved", ![n] = "queued"]
      /\ recovery' = recovery \cup {n}
      /\ UNCHANGED <<resumes, unsaved, copied, edits, crashes>>
      /\ n > created /\ created \in Nat
  BY BoundsType DEF Replace, n, Inv, TypeOK
<1>5. TypeOK'
  BY <1>1, <1>3, <1>4 DEF Inv, TypeOK, request, Runs, NoRun, Tokens
<1>6. Timely'
  BY <1>1, <1>3, <1>4 DEF Inv, Timely, TypeOK, NoEpoch, Runs
<1>7. Unborn'
  BY <1>2, <1>3, <1>4 DEF Inv, Unborn, TypeOK, Runs, n
<1>8. AllFit'
  <2>1. \A r \in Runs : RunFits(r)'
    <3> SUFFICES ASSUME NEW r \in Runs PROVE RunFits(r)'
      OBVIOUS
    <3>1. CASE r = n
      BY <1>3, <1>4, <3>1, NoneFits DEF RunFits, Inv, Unborn
    <3>2. CASE r # n
      BY <1>3, <1>4, <3>2 DEF RunFits, Inv, AllFit
    <3>. QED  BY <3>1, <3>2
  <2>. QED  BY <2>1, <1>1 DEF AllFit
<1>9. AnswerFits'
  BY <1>3, <1>4 DEF AnswerFits, Inv, request, Runs, NoRun, TypeOK, n
<1>. QED  BY <1>5, <1>6, <1>7, <1>8, <1>9 DEF Inv

\* Every step keeps the invariant.
LEMMA NextInv == ASSUME Inv, [Next]_vars PROVE Inv'
<1>1. CASE UNCHANGED vars
  <2> USE <1>1 DEF vars, chat, rows, memory, request
  <2>1. TypeOK'
    BY DEF Inv, TypeOK
  <2>2. Timely' /\ Unborn' /\ AnswerFits'
    BY DEF Inv, Timely, Unborn, AnswerFits
  <2>3. AllFit'
    BY DEF Inv, AllFit, RunFits
  <2>. QED  BY <2>1, <2>2, <2>3 DEF Inv
<1>2. ASSUME NEW p \in Providers, NEW s \in Tokens, Edit(p, s) PROVE Inv'
  BY <1>2, EditInv
<1>3. ASSUME NEW p \in Providers, Send(p) PROVE Inv'
  BY <1>3, SendInv
<1>4. ASSUME NEW r \in Runs, RunStep(r) PROVE Inv'
  <2>1. CASE Prepare(r) \/ Defer(r)
    BY <2>1, PrepareInv, DeferInv
  <2>2. CASE Start(r)
    <3>1. r <= created /\ status' = [status EXCEPT ![r] = "running"]
      BY <2>2 DEF Start, Launched
    <3>2. UNCHANGED <<chat, created, agent, token, recovery, memory, request, edits, crashes>>
      BY <2>2 DEF Start
    <3>. QED  BY <3>1, <3>2, MoveInv
  <2>3. CASE Cancel(r)
    <3>1. r <= created /\ status' = [status EXCEPT ![r] = "finished"]
      BY <2>3 DEF Cancel, Waiting
    <3>2. UNCHANGED <<chat, created, agent, token, recovery, memory, request, edits, crashes>>
      BY <2>3 DEF Cancel
    <3>. QED  BY <3>1, <3>2, MoveInv
  <2>4. CASE Discard(r)
    <3>1. r <= created /\ status' = [status EXCEPT ![r] = "resolved"]
      BY <2>4 DEF Discard, Interrupted
    <3>2. UNCHANGED <<chat, created, agent, token, recovery, memory, request, edits, crashes>>
      BY <2>4 DEF Discard
    <3>. QED  BY <3>1, <3>2, MoveInv
  <2>5. CASE RetryPersist(r)
    <3>1. r <= created /\ unsaved[r] \in Sessions /\ MadeBy(unsaved[r], agent[r])
      BY <2>5 DEF RetryPersist, Launched, Inv, TypeOK, Tokens, AllFit, RunFits
    <3>. QED  BY <2>5, <3>1, PersistInv DEF RetryPersist
  <2>6. CASE Finish(r)
    BY <2>6, FinishInv
  <2>7. CASE AskResume(r)
    BY <2>7, RequestInv
  <2>8. CASE Retry(r)
    <3>1. NoSession \in Tokens /\ MadeBy(NoSession, agent[r])
      BY NoneFits DEF Tokens
    <3>2. /\ Replace(r, NoSession)
          /\ UNCHANGED request \/ (asking' = NoRun /\ answer' = NoSession)
      BY <2>8 DEF Retry
    <3>. QED  BY <3>1, <3>2, ReplaceInv
  <2>9. CASE Resume(r)
    <3>1. answer \in Tokens /\ MadeBy(answer, agent[r])
      BY <2>9 DEF Resume, Inv, TypeOK, AnswerFits
    <3>. QED  BY <2>9, <3>1, ReplaceInv DEF Resume
  <2>. QED  BY <1>4, <2>1, <2>2, <2>3, <2>4, <2>5, <2>6, <2>7, <2>8, <2>9 DEF RunStep
<1>5. ASSUME NEW r \in Runs, NEW s \in Sessions, Report(r, s) PROVE Inv'
  <2>1. r <= created /\ MadeBy(s, agent[r])
    BY <1>5 DEF Report, Launched, MadeBy
  <2>2. Persist(r, s) /\ known' = [known EXCEPT ![r] = s]
    BY <1>5 DEF Report
  <2>. QED  BY <2>1, <2>2, PersistInv
<1>6. CASE Crash \/ ResumeRefused
  BY <1>6, CrashInv, RequestInv
<1>. QED  BY <1>1, <1>2, <1>3, <1>4, <1>5, <1>6 DEF Next

\* Inv is an invariant of the specification.
THEOREM InvHolds == Spec => []Inv
  BY InitInv, NextInv, PTL DEF Spec

\* No provider is ever handed another provider's resume token.
THEOREM SessionsAlwaysFit == Spec => []SessionsFitProviders
<1>1. Inv => SessionsFitProviders
  BY DEF Inv, AllFit, RunFits, SessionsFitProviders
<1>. QED  BY <1>1, InvHolds, PTL

---------------------------------------------------------------------------
(* The refinement of ChatSession.                                          *)

\* Runs that start, end, are put off or die only withdraw.
LEMMA Withdraws ==
  ASSUME ChatWriters' \subseteq ChatWriters, ChatCommitted \subseteq ChatCommitted',
         ChatCommitted' \subseteq Runs, provider' = provider, session' = session
  PROVE  Chat!Next
<1>1. ChatCommitted' = ChatCommitted \cup ChatCommitted' /\ ChatCommitted' \in SUBSET Runs
  OBVIOUS
<1>2. Chat!MoveOn
  BY <1>1 DEF Chat!MoveOn
<1>. QED  BY <1>2 DEF Chat!Next

\* The initial chat is an initial chat of ChatSession.
LEMMA ChatInit == Init => Chat!Init
  BY DEF Init, Chat!Init, ChatWriters, ChatCommitted

\* An edit is a new choice, or changes nothing.
LEMMA EditRefines == ASSUME Inv, NEW p \in Providers, NEW s \in Tokens, Edit(p, s)
                     PROVE  Chat!Next \/ UNCHANGED Chat!vars
<1>1. /\ provider' = p /\ session' = s /\ status' = status /\ bound' = bound
      /\ recovery' = recovery
  BY DEF Edit, SetChat, rows, memory
<1>2. CASE <<p, s>> = <<provider, session>>
  <2>1. epoch' = epoch
    BY <1>2 DEF Edit, SetChat
  <2>. QED  BY <1>1, <1>2, <2>1 DEF Chat!vars, ChatWriters, ChatCommitted
<1>3. CASE <<p, s>> # <<provider, session>>
  <2>1. epoch' = epoch + 1
    BY <1>3 DEF Edit, SetChat
  <2>2. ChatWriters' = {}
    BY <1>1, <2>1 DEF ChatWriters, Inv, TypeOK, Timely, NoEpoch
  <2>3. Chat!Choose(p, s)
    BY <1>1, <1>3, <2>2 DEF Chat!Choose, ChatCommitted
  <2>. QED  BY <2>3 DEF Chat!Next, Tokens
<1>. QED  BY <1>2, <1>3

\* A send waits outside the chat until it is prepared.
LEMMA SendRefines == ASSUME Inv, NEW p \in Providers, Send(p) PROVE UNCHANGED Chat!vars
<1> DEFINE n == created + 1
<1>1. /\ n \in Runs /\ status[n] = "absent"
      /\ bound' = [bound EXCEPT ![n] = NoEpoch] /\ status' = [status EXCEPT ![n] = "queued"]
      /\ UNCHANGED <<provider, session, epoch, recovery>>
  BY BoundsType DEF Send, Create, Inv, TypeOK, Unborn, Runs, chat
<1> HIDE DEF n
<1>2. \A r \in Runs : r \in ChatWriters' <=> r \in ChatWriters
  BY <1>1 DEF ChatWriters, Inv, TypeOK, NoEpoch
<1>3. ChatWriters' = ChatWriters
  BY <1>2 DEF ChatWriters
<1>4. ChatCommitted' = ChatCommitted
  BY <1>1 DEF ChatCommitted, Inv, TypeOK
<1>. QED  BY <1>1, <1>3, <1>4 DEF Chat!vars

\* A prepared send takes up the present choice; a prepared recovery run has
\* done so before.
LEMMA PrepareRefines == ASSUME Inv, NEW r \in Runs, Prepare(r)
                        PROVE  Chat!Next \/ UNCHANGED Chat!vars
<1>1. /\ status[r] = "queued" /\ status' = [status EXCEPT ![r] = "prepared"]
      /\ UNCHANGED <<provider, session, epoch, recovery>>
  BY DEF Prepare, Waiting, chat
<1>2. ChatCommitted' = ChatCommitted
  BY <1>1 DEF ChatCommitted, Inv, TypeOK
<1>3. CASE r \in recovery
  <2>1. bound' = bound
    BY <1>3 DEF Prepare, Bind
  <2>2. ChatWriters' = ChatWriters
    BY <1>1, <2>1 DEF ChatWriters, Inv, TypeOK
  <2>. QED  BY <1>1, <1>2, <2>2 DEF Chat!vars
<1>4. CASE r \notin recovery
  <2>1. bound' = [bound EXCEPT ![r] = epoch]
    BY <1>4 DEF Prepare, Bind
  <2>2. ChatWriters' = ChatWriters \cup {r}
    BY <1>1, <2>1 DEF ChatWriters, Inv, TypeOK
  <2>3. r \notin ChatCommitted
    BY <1>1, <1>4 DEF ChatCommitted
  <2>4. Chat!TakeUp(r)
    BY <1>1, <1>2, <2>2, <2>3 DEF Chat!TakeUp
  <2>. QED  BY <2>4 DEF Chat!Next
<1>. QED  BY <1>3, <1>4

\* A deferred launch gives up the choice it took up.
LEMMA DeferRefines == ASSUME Inv, NEW r \in Runs, Defer(r) PROVE Chat!Next
<1>1. /\ status[r] = "prepared" /\ status' = [status EXCEPT ![r] = "queued"]
      /\ bound' = bound \/ bound' = [bound EXCEPT ![r] = NoEpoch]
      /\ UNCHANGED <<provider, session, epoch, recovery>>
  BY DEF Defer, chat
<1>2. ChatWriters' \subseteq ChatWriters
  BY <1>1 DEF ChatWriters, Inv, TypeOK, NoEpoch
<1>3. ChatCommitted' = ChatCommitted /\ ChatCommitted' \subseteq Runs
  BY <1>1 DEF ChatCommitted, Inv, TypeOK
<1>. QED  BY <1>1, <1>2, <1>3, Withdraws

\* A run that starts, is cancelled or is discarded only withdraws.
LEMMA MoveRefines ==
  ASSUME Inv, NEW r \in Runs, NEW s \in {"running", "finished", "resolved"},
         status' = [status EXCEPT ![r] = s],
         s = "running" => status[r] = "prepared",
         UNCHANGED <<provider, session, epoch, recovery, bound>>
  PROVE  Chat!Next
<1>1. ChatWriters' \subseteq ChatWriters
  BY DEF ChatWriters, Inv, TypeOK
<1>2. ChatCommitted \subseteq ChatCommitted' /\ ChatCommitted' \subseteq Runs
  BY DEF ChatCommitted, Inv, TypeOK
<1>. QED  BY <1>1, <1>2, Withdraws

\* Only a writer's report reaches the chat.
LEMMA PersistRefines ==
  ASSUME Inv, NEW r \in Runs, status[r] \in {"prepared", "running"}, NEW s \in Sessions,
         Persist(r, s)
  PROVE  Chat!Next
<1>1. /\ UNCHANGED <<provider, epoch, status, recovery, bound>>
      /\ session' = session \/ (session' = s /\ Adoptable(r, s))
  BY DEF Persist
<1>2. ChatWriters' = ChatWriters /\ ChatCommitted' = ChatCommitted
  BY <1>1 DEF ChatWriters, ChatCommitted
<1>3. CASE session' = session
  <2>1. ChatCommitted' \subseteq Runs
    BY <1>2 DEF ChatCommitted, Inv, TypeOK
  <2>. QED  BY <1>1, <1>2, <1>3, <2>1, Withdraws
<1>4. CASE session' = s /\ Adoptable(r, s)
  <2>1. r \in ChatWriters
    BY <1>4 DEF Adoptable, ChatWriters
  <2>2. Chat!CarryOn(r, s)
    BY <1>1, <1>2, <1>4, <2>1 DEF Chat!CarryOn
  <2>. QED  BY <2>2 DEF Chat!Next
<1>. QED  BY <1>1, <1>3, <1>4

\* The terminal commit carries the session on as the run's last act.
LEMMA FinishRefines == ASSUME Inv, NEW r \in Runs, Finish(r) PROVE Chat!Next
<1>1. /\ status[r] \in {"prepared", "running"}
      /\ status' = [status EXCEPT ![r] = "finished"]
      /\ UNCHANGED <<provider, epoch, recovery, bound>>
      /\ session' = session \/ (session' = known[r] /\ Adoptable(r, known[r]))
  BY DEF Finish, FinalSession, Launched
<1>2. CASE session' = session
  BY <1>1, <1>2, MoveRefines
<1>3. CASE session' = known[r] /\ Adoptable(r, known[r])
  <2>1. r \in ChatWriters /\ known[r] \in Sessions
    BY <1>1, <1>3 DEF Adoptable, ChatWriters, Inv, TypeOK, Tokens
  <2>2. ChatWriters' = ChatWriters \ {r}
    BY <1>1 DEF ChatWriters, Inv, TypeOK
  <2>3. ChatCommitted' = ChatCommitted \cup {r}
    BY <1>1 DEF ChatCommitted, Inv, TypeOK
  <2>4. Chat!CarryOn(r, known[r])
    BY <1>1, <1>3, <2>1, <2>2, <2>3 DEF Chat!CarryOn
  <2>. QED  BY <2>1, <2>4 DEF Chat!Next
<1>. QED  BY <1>1, <1>2, <1>3

\* The open runs of a dead runtime withdraw.
LEMMA CrashRefines == ASSUME Inv, Crash PROVE Chat!Next
<1>1. PICK settled \in SUBSET Launched :
        status' = [q \in Runs |-> IF q \in settled THEN "finished"
                                  ELSE IF q \in Waiting \cup Launched THEN "interrupted"
                                  ELSE status[q]]
  BY DEF Crash
<1>2. UNCHANGED <<provider, session, epoch, recovery>>
  BY DEF Crash, chat
<1>3. \A q \in Runs : status[q] \in {"queued", "prepared", "running"} => q <= created
  BY DEF Inv, Unborn, TypeOK, Runs
<1>4. \A q \in Runs : status'[q] \notin {"queued", "prepared", "running"}
  BY <1>1, <1>3 DEF Waiting, Launched, Inv, TypeOK, Runs
<1>5. ChatWriters' = {}
  BY <1>4 DEF ChatWriters
<1>6. ChatCommitted \subseteq ChatCommitted' /\ ChatCommitted' \subseteq Runs
  BY <1>1, <1>2 DEF ChatCommitted, Waiting, Inv, TypeOK
<1>. QED  BY <1>2, <1>5, <1>6, Withdraws

\* A recovery decision is a choice made for its run, or its run takes up the
\* choice that stands.
LEMMA ReplaceRefines ==
  ASSUME Inv, NEW q \in Runs, NEW s \in Tokens, Replace(q, s)
  PROVE  Chat!Next
<1> DEFINE n == created + 1
<1>1. /\ n \in Runs /\ status[n] = "absent" /\ n \notin recovery
      /\ status[q] = "interrupted" /\ n # q
      /\ bound' = [bound EXCEPT ![n] = epoch']
      /\ status' = [status EXCEPT ![q] = "resolved", ![n] = "queued"]
      /\ recovery' = recovery \cup {n}
  BY BoundsType DEF Replace, Create, Interrupted, Inv, TypeOK, Unborn, Runs
<1> HIDE DEF n
<1>2. ChatCommitted' = ChatCommitted \cup {n}
  BY <1>1 DEF ChatCommitted, Inv, TypeOK
<1>3. CASE session' = session /\ UNCHANGED <<provider, epoch>>
  <2>1. ChatWriters' = ChatWriters \cup {n}
    BY <1>1, <1>3 DEF ChatWriters, Inv, TypeOK
  <2>2. n \notin ChatCommitted
    BY <1>1 DEF ChatCommitted
  <2>3. Chat!TakeUp(n)
    BY <1>2, <1>3, <2>1, <2>2 DEF Chat!TakeUp
  <2>. QED  BY <1>1, <2>3 DEF Chat!Next
<1>4. CASE /\ provider' = provider /\ session' = s /\ s # session
           /\ epoch' = epoch + 1
  <2>1. ChatWriters' = {n}
    <3>1. \A r \in Runs : bound[r] # epoch'
      BY <1>4 DEF Inv, TypeOK, Timely, NoEpoch
    <3>. QED  BY <1>1, <3>1 DEF ChatWriters, Inv, TypeOK
  <2>2. n \notin ChatCommitted
    BY <1>1 DEF ChatCommitted
  <2>3. Chat!ChooseFor(n, s)
    BY <1>2, <1>4, <2>1, <2>2 DEF Chat!ChooseFor
  <2>. QED  BY <1>1, <2>3 DEF Chat!Next, Tokens
<1>. QED
  <2>1. \/ session' = session /\ UNCHANGED <<provider, epoch>>
        \/ /\ provider' = provider /\ session' = s /\ s # session
           /\ epoch' = epoch + 1
    BY DEF Replace, ChooseForRecovery, SetChat, chat
  <2>. QED  BY <1>3, <1>4, <2>1

\* Every step of the chat is a step of ChatSession or changes nothing there.
LEMMA StepRefines == ASSUME Inv, [Next]_vars PROVE [Chat!Next]_(Chat!vars)
<1>1. CASE UNCHANGED vars
  BY <1>1 DEF vars, chat, rows, memory, Chat!vars, ChatWriters, ChatCommitted
<1>2. ASSUME NEW p \in Providers, NEW s \in Tokens, Edit(p, s)
      PROVE  Chat!Next \/ UNCHANGED Chat!vars
  BY <1>2, EditRefines
<1>3. ASSUME NEW p \in Providers, Send(p) PROVE UNCHANGED Chat!vars
  BY <1>3, SendRefines
<1>4. ASSUME NEW r \in Runs, RunStep(r) PROVE Chat!Next \/ UNCHANGED Chat!vars
  <2>1. CASE Prepare(r) \/ Defer(r)
    BY <2>1, PrepareRefines, DeferRefines
  <2>2. CASE Start(r)
    <3>1. /\ status' = [status EXCEPT ![r] = "running"] /\ status[r] = "prepared"
          /\ UNCHANGED <<provider, session, epoch, recovery, bound>>
      BY <2>2 DEF Start, chat, memory
    <3>. QED  BY <3>1, MoveRefines
  <2>3. CASE Cancel(r)
    <3>1. /\ status' = [status EXCEPT ![r] = "finished"]
          /\ UNCHANGED <<provider, session, epoch, recovery, bound>>
      BY <2>3 DEF Cancel, chat, memory
    <3>. QED  BY <3>1, MoveRefines
  <2>4. CASE Discard(r)
    <3>1. /\ status' = [status EXCEPT ![r] = "resolved"]
          /\ UNCHANGED <<provider, session, epoch, recovery, bound>>
      BY <2>4 DEF Discard, chat, memory
    <3>. QED  BY <3>1, MoveRefines
  <2>5. CASE RetryPersist(r)
    <3>1. /\ status[r] \in {"prepared", "running"} /\ unsaved[r] \in Sessions
          /\ Persist(r, unsaved[r])
      BY <2>5 DEF RetryPersist, Launched, Inv, TypeOK, Tokens
    <3>. QED  BY <3>1, PersistRefines
  <2>6. CASE Finish(r)
    BY <2>6, FinishRefines
  <2>7. CASE AskResume(r)
    BY <2>7 DEF AskResume, chat, rows, memory, Chat!vars, ChatWriters, ChatCommitted
  <2>8. CASE Retry(r)
    BY <2>8, ReplaceRefines DEF Retry, Tokens
  <2>9. CASE Resume(r)
    BY <2>9, ReplaceRefines DEF Resume, Inv, TypeOK
  <2>. QED  BY <1>4, <2>1, <2>2, <2>3, <2>4, <2>5, <2>6, <2>7, <2>8, <2>9 DEF RunStep
<1>5. ASSUME NEW r \in Runs, NEW s \in Sessions, Report(r, s) PROVE Chat!Next
  <2>1. status[r] \in {"prepared", "running"} /\ Persist(r, s)
    BY <1>5 DEF Report
  <2>. QED  BY <2>1, PersistRefines
<1>6. CASE Crash
  BY <1>6, CrashRefines
<1>7. CASE ResumeRefused
  BY <1>7 DEF ResumeRefused, chat, rows, memory, Chat!vars, ChatWriters, ChatCommitted
<1>. QED  BY <1>1, <1>2, <1>3, <1>4, <1>5, <1>6, <1>7 DEF Next

\* The chat implements ChatSession: no edit, recovery decision or late write
\* lets a run of an earlier choice move the chat's session.
THEOREM ChatImplemented == Spec => ImplementsChat
<1>1. Spec => Chat!Spec
  BY ChatInit, StepRefines, InvHolds, PTL DEF Spec, Chat!Spec
<1>. QED  BY <1>1 DEF ImplementsChat
---------------------------------------------------------------------------
(* SendsFollowThread.                                                      *)

Open(r) == status[r] \in {"queued", "prepared", "running"}

\* Behind an open run nothing was launched: at most it is queued or cancelled.
Behind == \A r, o \in Runs : Open(r) /\ r < o =>
    /\ status[o] \in {"absent", "queued", "finished"} /\ o \notin copied
    /\ o \in recovery \/ known[o] = NoSession

\* A send knows no session before its provider has reported one.
Fresh == \A r \in Runs :
    status[r] \in {"absent", "queued", "prepared"} /\ r \notin recovery
    => known[r] = NoSession

\* While a send is open no run waits for a decision, so none is replaced
\* after it.
SendsLast == \A r, o \in Runs : Open(r) /\ r \notin recovery =>
    status[o] # "interrupted" /\ (r < o => o \notin recovery)

\* A run copies its session as the last thing it does.
CopiedLast == \A r \in Runs : r \in copied => status[r] = "finished"

\* What waits to be saved has been reported.
UnsavedKnown == \A r \in Runs : unsaved[r] # NoSession => known[r] # NoSession

\* Run q copied a session to the chat's present choice.
Leads(q) == /\ q \in copied /\ known[q] # NoSession
            /\ bound[q] = epoch /\ agent[q] = provider

\* The chat has the session of the last such run, unless a later run reported
\* another one.
Thread == \A q \in Runs :
    Leads(q) /\ (\A o \in Runs : q < o => known[o] = NoSession) => session = known[q]

\* SendsFollowThread, with the runs in between given by the order alone.
Follows == \A q, r \in Runs :
    /\ r \notin recovery /\ status[r] \in {"prepared", "running"} /\ bound[r] = epoch
    /\ q < r /\ Leads(q) /\ agent[r] = provider
    /\ \A o \in Runs : q < o /\ o < r => known[o] = NoSession
    => resumes[r] = known[q]

\* Inductive together with Inv.
ThreadInv == /\ Behind /\ Fresh /\ SendsLast /\ CopiedLast /\ UnsavedKnown /\ Thread
             /\ Follows

\* Runs are numbers.
LEMMA RunOrder == /\ \A a, b \in Runs : a < b \/ a = b \/ b < a
                  /\ \A a, b \in Runs : ~(a < b /\ b < a) /\ ~(a < a)
BY DEF Runs

\* An edit moves to an epoch that no run is bound to, or changes nothing.
LEMMA EditThread ==
  ASSUME Inv, ThreadInv, NEW p \in Providers, NEW s \in Tokens, Edit(p, s)
  PROVE  ThreadInv'
<1>1. /\ UNCHANGED <<created, agent, status, recovery, bound, resumes, known, unsaved, copied>>
      /\ UNCHANGED <<provider, session, epoch>> \/ \A q \in Runs : bound[q] # epoch'
  BY DEF Edit, Inv, TypeOK, Timely, SetChat, rows, memory, NoEpoch
<1>2. Behind'  BY <1>1, RunOrder DEF ThreadInv, Behind, Open, CopiedLast
<1>3. Fresh'  BY <1>1 DEF ThreadInv, Fresh
<1>4. SendsLast'  BY <1>1 DEF ThreadInv, SendsLast, Open
<1>5. CopiedLast'  BY <1>1 DEF ThreadInv, CopiedLast
<1>6. UnsavedKnown'  BY <1>1 DEF ThreadInv, UnsavedKnown
<1>7. Thread'
  BY <1>1, RunOrder DEF ThreadInv, Thread, Leads, Behind, CopiedLast, UnsavedKnown, Open
<1>8. Follows'  BY <1>1, RunOrder DEF ThreadInv, Follows, Leads, Behind, CopiedLast, Open
<1>. QED  BY <1>2, <1>3, <1>4, <1>5, <1>6, <1>7, <1>8 DEF ThreadInv

\* A send knows nothing yet and is bound to nothing.
LEMMA SendThread == ASSUME Inv, ThreadInv, NEW p \in Providers, Send(p) PROVE ThreadInv'
<1> DEFINE n == created + 1
<1>a. /\ n \in Runs /\ status[n] = "absent" /\ n \notin recovery
      /\ known[n] = NoSession /\ unsaved[n] = NoSession
  BY BoundsType DEF Send, Inv, TypeOK, Unborn, Runs, n
<1>b. /\ UNCHANGED <<provider, session, epoch, recovery, resumes, unsaved, copied>>
      /\ status'[n] = "queued" /\ known'[n] = NoSession /\ agent'[n] = p
  BY <1>a DEF Send, Create, Inv, TypeOK, chat, n
<1>c. /\ bound'[n] # epoch
  BY <1>a DEF Send, Create, NoEpoch, Inv, TypeOK, n
<1>d. /\ \A q \in Runs \ {n} : status'[q] = status[q] /\ known'[q] = known[q]
            /\ bound'[q] = bound[q] /\ agent'[q] = agent[q]
  BY <1>a DEF Send, Create, Inv, TypeOK, n
<1>e. \A q \in Runs : n < q => (status[q] = "absent" /\ known[q] = NoSession
            /\ q \notin recovery)
  BY DEF Send, Inv, TypeOK, Unborn, Runs, n
<1>f. \A q \in Runs : status[q] = "interrupted" => q \in 1..created
  BY DEF Send, Inv, TypeOK, Unborn, Runs
<1>g. \A q \in Runs : status[q] # "interrupted"
  BY <1>f DEF Send, Interrupted
<1> HIDE DEF n
<1>2. Behind'
  BY <1>a, <1>b, <1>c, <1>d, <1>e, <1>f, <1>g, RunOrder DEF ThreadInv, Behind, Open,
     CopiedLast
<1>3. Fresh'  BY <1>a, <1>b, <1>c, <1>d, <1>e, <1>f, <1>g DEF ThreadInv, Fresh
<1>4. SendsLast'
  BY <1>a, <1>b, <1>c, <1>d, <1>e, <1>f, <1>g DEF ThreadInv, SendsLast, Open
<1>5. CopiedLast'
  BY <1>a, <1>b, <1>c, <1>d, <1>e, <1>f, <1>g DEF ThreadInv, CopiedLast
<1>6. UnsavedKnown'
  BY <1>a, <1>b, <1>c, <1>d, <1>e, <1>f, <1>g DEF ThreadInv, UnsavedKnown
<1>7. Thread'
  BY <1>a, <1>b, <1>c, <1>d, <1>e, <1>f, <1>g, RunOrder DEF ThreadInv, Thread, Leads,
     Behind, CopiedLast, UnsavedKnown, Open
<1>8. Follows'
  BY <1>a, <1>b, <1>c, <1>d, <1>e, <1>f, <1>g, RunOrder DEF ThreadInv, Follows, Leads,
     Behind, CopiedLast, Open
<1>. QED  BY <1>2, <1>3, <1>4, <1>5, <1>6, <1>7, <1>8 DEF ThreadInv

\* The launch reads the chat's session: every run after it has reported none,
\* so Thread gives the session of the run it follows.
LEMMA PrepareThread == ASSUME Inv, ThreadInv, NEW r \in Runs, Prepare(r) PROVE ThreadInv'
<1>a. /\ UNCHANGED <<provider, session, epoch, created, agent, recovery, known, unsaved, copied>>
      /\ status[r] = "queued" /\ status'[r] = "prepared" /\ resumes'[r] = LaunchSession(r)
  BY DEF Prepare, Waiting, Inv, TypeOK, chat
<1>b. \A q \in Runs : status[q] \in {"queued", "prepared", "running"} => q \in 1..created
  BY DEF Prepare, Inv, TypeOK, Unborn, Runs
<1>c. \A q \in Runs : status[q] \notin {"prepared", "running"}
            /\ (q < r => status[q] # "queued")
  BY <1>b DEF Prepare, Waiting, Launched, Runs
<1>d. /\ \A q \in Runs \ {r} : status'[q] = status[q] /\ resumes'[q] = resumes[q]
  BY DEF Prepare, Inv, TypeOK
<1>e. /\ \A q \in Runs \ {r} : bound'[q] = bound[q]
  BY DEF Prepare, Bind, Inv, TypeOK
<1>2. Behind'
  BY <1>a, <1>b, <1>c, <1>d, <1>e, RunOrder DEF ThreadInv, Behind, Open, CopiedLast
<1>3. Fresh'  BY <1>a, <1>b, <1>c, <1>d, <1>e DEF ThreadInv, Fresh
<1>4. SendsLast'  BY <1>a, <1>b, <1>c, <1>d, <1>e DEF ThreadInv, SendsLast, Open
<1>5. CopiedLast'  BY <1>a, <1>b, <1>c, <1>d, <1>e DEF ThreadInv, CopiedLast
<1>6. UnsavedKnown'  BY <1>a, <1>b, <1>c, <1>d, <1>e DEF ThreadInv, UnsavedKnown
<1>7. Thread'
  BY <1>a, <1>b, <1>c, <1>d, <1>e, RunOrder DEF ThreadInv, Thread, Leads, Behind,
     CopiedLast, UnsavedKnown, Open
<1>8. Follows'
  BY <1>a, <1>b, <1>c, <1>d, <1>e, RunOrder DEF ThreadInv, Follows, Leads, Behind,
     CopiedLast, Open, LaunchSession, Thread, Fresh, SendsLast
<1>. QED  BY <1>2, <1>3, <1>4, <1>5, <1>6, <1>7, <1>8 DEF ThreadInv

\* A deferred launch has copied nothing.
LEMMA DeferThread == ASSUME Inv, ThreadInv, NEW r \in Runs, Defer(r) PROVE ThreadInv'
<1>1. /\ UNCHANGED <<provider, session, epoch, created, agent, recovery, known, unsaved, copied>>
      /\ status[r] = "prepared" /\ status'[r] = "queued"
      /\ \A q \in Runs \ {r} : status'[q] = status[q] /\ resumes'[q] = resumes[q]
         /\ bound'[q] = bound[q]
  BY DEF Defer, Inv, TypeOK, chat
<1>2. Behind'  BY <1>1, RunOrder DEF ThreadInv, Behind, Open, CopiedLast
<1>3. Fresh'  BY <1>1 DEF ThreadInv, Fresh
<1>4. SendsLast'  BY <1>1 DEF ThreadInv, SendsLast, Open
<1>5. CopiedLast'  BY <1>1 DEF ThreadInv, CopiedLast
<1>6. UnsavedKnown'  BY <1>1 DEF ThreadInv, UnsavedKnown
<1>7. Thread'
  BY <1>1, RunOrder DEF ThreadInv, Thread, Leads, Behind, CopiedLast, UnsavedKnown, Open
<1>8. Follows'  BY <1>1, RunOrder DEF ThreadInv, Follows, Leads, Behind, CopiedLast, Open
<1>. QED  BY <1>2, <1>3, <1>4, <1>5, <1>6, <1>7, <1>8 DEF ThreadInv

\* The start of the provider.
LEMMA StartThread == ASSUME Inv, ThreadInv, NEW r \in Runs, Start(r) PROVE ThreadInv'
<1>1. /\ UNCHANGED <<provider, session, epoch, created, agent, recovery, bound, resumes, known, unsaved, copied>>
      /\ status[r] = "prepared" /\ status'[r] = "running"
      /\ \A q \in Runs \ {r} : status'[q] = status[q]
  BY DEF Start, Inv, TypeOK, chat, memory
<1>2. Behind'  BY <1>1, RunOrder DEF ThreadInv, Behind, Open, CopiedLast
<1>3. Fresh'  BY <1>1 DEF ThreadInv, Fresh
<1>4. SendsLast'  BY <1>1 DEF ThreadInv, SendsLast, Open
<1>5. CopiedLast'  BY <1>1 DEF ThreadInv, CopiedLast
<1>6. UnsavedKnown'  BY <1>1 DEF ThreadInv, UnsavedKnown
<1>7. Thread'
  BY <1>1, RunOrder DEF ThreadInv, Thread, Leads, Behind, CopiedLast, UnsavedKnown, Open
<1>8. Follows'  BY <1>1, RunOrder DEF ThreadInv, Follows, Leads, Behind, CopiedLast, Open
<1>. QED  BY <1>2, <1>3, <1>4, <1>5, <1>6, <1>7, <1>8 DEF ThreadInv

\* A queued run that is cancelled was never launched.
LEMMA CancelThread == ASSUME Inv, ThreadInv, NEW r \in Runs, Cancel(r) PROVE ThreadInv'
<1>1. /\ UNCHANGED <<provider, session, epoch, created, agent, recovery, bound, resumes, known, unsaved, copied>>
      /\ status[r] = "queued" /\ status'[r] = "finished"
      /\ \A q \in Runs \ {r} : status'[q] = status[q]
  BY DEF Cancel, Waiting, Inv, TypeOK, chat, memory
<1>2. Behind'  BY <1>1, RunOrder DEF ThreadInv, Behind, Open, CopiedLast
<1>3. Fresh'  BY <1>1 DEF ThreadInv, Fresh
<1>4. SendsLast'  BY <1>1 DEF ThreadInv, SendsLast, Open
<1>5. CopiedLast'  BY <1>1 DEF ThreadInv, CopiedLast
<1>6. UnsavedKnown'  BY <1>1 DEF ThreadInv, UnsavedKnown
<1>7. Thread'
  BY <1>1, RunOrder DEF ThreadInv, Thread, Leads, Behind, CopiedLast, UnsavedKnown, Open
<1>8. Follows'  BY <1>1, RunOrder DEF ThreadInv, Follows, Leads, Behind, CopiedLast, Open
<1>. QED  BY <1>2, <1>3, <1>4, <1>5, <1>6, <1>7, <1>8 DEF ThreadInv

\* A discarded run was interrupted, so it is behind no open run.
LEMMA DiscardThread == ASSUME Inv, ThreadInv, NEW r \in Runs, Discard(r) PROVE ThreadInv'
<1>1. /\ UNCHANGED <<provider, session, epoch, created, agent, recovery, bound, resumes, known, unsaved, copied>>
      /\ status[r] = "interrupted" /\ status'[r] = "resolved"
      /\ \A q \in Runs \ {r} : status'[q] = status[q]
  BY DEF Discard, Interrupted, Inv, TypeOK, chat, memory
<1>2. Behind'  BY <1>1, RunOrder DEF ThreadInv, Behind, Open, CopiedLast
<1>3. Fresh'  BY <1>1 DEF ThreadInv, Fresh
<1>4. SendsLast'  BY <1>1 DEF ThreadInv, SendsLast, Open
<1>5. CopiedLast'  BY <1>1 DEF ThreadInv, CopiedLast
<1>6. UnsavedKnown'  BY <1>1 DEF ThreadInv, UnsavedKnown
<1>7. Thread'
  BY <1>1, RunOrder DEF ThreadInv, Thread, Leads, Behind, CopiedLast, UnsavedKnown, Open
<1>8. Follows'  BY <1>1, RunOrder DEF ThreadInv, Follows, Leads, Behind, CopiedLast, Open
<1>. QED  BY <1>2, <1>3, <1>4, <1>5, <1>6, <1>7, <1>8 DEF ThreadInv

\* A report comes from the first open run, so every run that leads and
\* follows it in the chat is done.
LEMMA ReportThread ==
  ASSUME Inv, ThreadInv, NEW r \in Runs, NEW s \in Sessions, Report(r, s)
  PROVE  ThreadInv'
<1>1. /\ UNCHANGED <<provider, epoch, created, agent, status, recovery, bound, resumes, copied>>
      /\ status[r] = "running" /\ known'[r] # NoSession
      /\ \A q \in Runs \ {r} : known'[q] = known[q] /\ unsaved'[q] = unsaved[q]
  BY NoSessionType DEF Report, Persist, Inv, TypeOK
<1>2. Behind'  BY <1>1, RunOrder DEF ThreadInv, Behind, Open, CopiedLast
<1>3. Fresh'  BY <1>1 DEF ThreadInv, Fresh
<1>4. SendsLast'  BY <1>1 DEF ThreadInv, SendsLast, Open
<1>5. CopiedLast'  BY <1>1 DEF ThreadInv, CopiedLast
<1>6. UnsavedKnown'  BY <1>1 DEF ThreadInv, UnsavedKnown
<1>7. Thread'
  BY <1>1, RunOrder DEF ThreadInv, Thread, Leads, Behind, CopiedLast, UnsavedKnown, Open
<1>8. Follows'  BY <1>1, RunOrder DEF ThreadInv, Follows, Leads, Behind, CopiedLast, Open
<1>. QED  BY <1>2, <1>3, <1>4, <1>5, <1>6, <1>7, <1>8 DEF ThreadInv

\* A retried write repeats what was reported.
LEMMA RetryPersistThread ==
  ASSUME Inv, ThreadInv, NEW r \in Runs, RetryPersist(r)
  PROVE  ThreadInv'
<1>1. /\ UNCHANGED <<provider, epoch, created, agent, status, recovery, bound, resumes, known, copied>>
      /\ status[r] \in {"prepared", "running"} /\ unsaved[r] # NoSession
      /\ \A q \in Runs \ {r} : unsaved'[q] = unsaved[q]
  BY DEF RetryPersist, Persist, Launched, Inv, TypeOK
<1>2. Behind'  BY <1>1, RunOrder DEF ThreadInv, Behind, Open, CopiedLast
<1>3. Fresh'  BY <1>1 DEF ThreadInv, Fresh
<1>4. SendsLast'  BY <1>1 DEF ThreadInv, SendsLast, Open
<1>5. CopiedLast'  BY <1>1 DEF ThreadInv, CopiedLast
<1>6. UnsavedKnown'  BY <1>1 DEF ThreadInv, UnsavedKnown
<1>7. Thread'
  BY <1>1, RunOrder DEF ThreadInv, Thread, Leads, Behind, CopiedLast, UnsavedKnown, Open
<1>8. Follows'  BY <1>1, RunOrder DEF ThreadInv, Follows, Leads, Behind, CopiedLast, Open
<1>. QED  BY <1>2, <1>3, <1>4, <1>5, <1>6, <1>7, <1>8 DEF ThreadInv

\* The terminal commit puts the run's session in the chat if the run leads.
LEMMA FinishThread == ASSUME Inv, ThreadInv, NEW r \in Runs, Finish(r) PROVE ThreadInv'
<1>1. /\ UNCHANGED <<provider, epoch, created, agent, recovery, bound, resumes, known>>
      /\ status[r] \in {"prepared", "running"} /\ status'[r] = "finished"
      /\ unsaved'[r] = NoSession
      /\ \A q \in Runs \ {r} : status'[q] = status[q] /\ unsaved'[q] = unsaved[q]
      /\ \/ /\ session' = (IF Adoptable(r, known[r]) THEN known[r] ELSE session)
            /\ copied' = copied \cup {r}
         \/ UNCHANGED <<session, copied>>
  BY DEF Finish, FinalSession, Launched, Inv, TypeOK
<1>2. Behind'  BY <1>1, RunOrder DEF ThreadInv, Behind, Open, CopiedLast
<1>3. Fresh'  BY <1>1 DEF ThreadInv, Fresh
<1>4. SendsLast'  BY <1>1 DEF ThreadInv, SendsLast, Open
<1>5. CopiedLast'  BY <1>1 DEF ThreadInv, CopiedLast
<1>6. UnsavedKnown'  BY <1>1 DEF ThreadInv, UnsavedKnown
<1>7. Thread'
  BY <1>1, RunOrder DEF ThreadInv, Thread, Leads, Behind, CopiedLast, UnsavedKnown, Open,
     Inv, TypeOK, Adoptable, NoEpoch
<1>8. Follows'  BY <1>1, RunOrder DEF ThreadInv, Follows, Leads, Behind, CopiedLast, Open
<1>. QED  BY <1>2, <1>3, <1>4, <1>5, <1>6, <1>7, <1>8 DEF ThreadInv

\* A crash leaves no run open and keeps what finished runs were bound to.
LEMMA CrashThread == ASSUME Inv, ThreadInv, Crash PROVE ThreadInv'
<1>1. /\ UNCHANGED <<provider, session, epoch, created, agent, recovery, resumes, known, copied>>
      /\ \A q \in Runs : /\ status'[q] \notin {"queued", "prepared", "running"}
                          /\ unsaved'[q] = NoSession
                          /\ (status[q] = "finished" => status'[q] = "finished"
                             /\ bound'[q] = bound[q])
                          /\ (status'[q] = "absent" => status[q] = "absent")
  BY DEF Crash, Waiting, Launched, Unborn, Inv, TypeOK, Runs, chat
<1>2. Behind'  BY <1>1, RunOrder DEF ThreadInv, Behind, Open, CopiedLast
<1>3. Fresh'  BY <1>1 DEF ThreadInv, Fresh
<1>4. SendsLast'  BY <1>1 DEF ThreadInv, SendsLast, Open
<1>5. CopiedLast'  BY <1>1 DEF ThreadInv, CopiedLast
<1>6. UnsavedKnown'  BY <1>1 DEF ThreadInv, UnsavedKnown
<1>7. Thread'
  BY <1>1, RunOrder DEF ThreadInv, Thread, Leads, Behind, CopiedLast, UnsavedKnown, Open
<1>8. Follows'  BY <1>1, RunOrder DEF ThreadInv, Follows, Leads, Behind, CopiedLast, Open
<1>. QED  BY <1>2, <1>3, <1>4, <1>5, <1>6, <1>7, <1>8 DEF ThreadInv

\* A recovery decision starts a new epoch unless the session stays.
LEMMA ReplaceThread ==
  ASSUME Inv, ThreadInv, NEW i \in Runs, NEW s \in Tokens, Replace(i, s)
  PROVE  ThreadInv'
<1> DEFINE n == created + 1
<1>1. /\ UNCHANGED <<resumes, unsaved, copied>>
      /\ n \in Runs /\ i # n /\ status[n] = "absent" /\ n \notin recovery
         /\ recovery' = recovery \cup {n}
      /\ status[i] = "interrupted" /\ status'[i] = "resolved" /\ status'[n] = "queued"
      /\ \A q \in Runs \ {i, n} : status'[q] = status[q]
      /\ \A q \in Runs \ {n} : known'[q] = known[q] /\ bound'[q] = bound[q]
         /\ agent'[q] = agent[q]
      /\ \A q \in Runs : n < q => (status[q] = "absent" /\ known[q] = NoSession
         /\ q \notin recovery)
      /\ UNCHANGED <<provider, session, epoch>> \/ \A q \in Runs : bound[q] # epoch'
      /\ known[n] = NoSession
  BY BoundsType DEF Replace, ChooseForRecovery, SetChat, Create,
     Interrupted, Inv, TypeOK, Unborn, Timely, Runs, NoEpoch, chat, n
<1> HIDE DEF n
<1>2. Behind'  BY <1>1, RunOrder DEF ThreadInv, Behind, Open, CopiedLast
<1>3. Fresh'  BY <1>1 DEF ThreadInv, Fresh
<1>4. SendsLast'  BY <1>1 DEF ThreadInv, SendsLast, Open
<1>5. CopiedLast'  BY <1>1 DEF ThreadInv, CopiedLast
<1>6. UnsavedKnown'  BY <1>1 DEF ThreadInv, UnsavedKnown
<1>7. Thread'
  BY <1>1, RunOrder DEF ThreadInv, Thread, Leads, Behind, CopiedLast, UnsavedKnown, Open
<1>8. Follows'  BY <1>1, RunOrder DEF ThreadInv, Follows, Leads, Behind, CopiedLast, Open
<1>. QED  BY <1>2, <1>3, <1>4, <1>5, <1>6, <1>7, <1>8 DEF ThreadInv

\* Steps of a resume request leave the runs and the chat alone.
LEMMA SameThread ==
  ASSUME ThreadInv, UNCHANGED <<chat, rows, memory>>
  PROVE  ThreadInv'
BY DEF ThreadInv, Behind, Fresh, SendsLast, CopiedLast, UnsavedKnown, Thread, Follows,
   Leads,
       Open, chat, rows, memory

\* The initial states.
LEMMA InitThread == Init => ThreadInv
BY DEF Init, ThreadInv, Behind, Fresh, SendsLast, CopiedLast, UnsavedKnown, Thread, Follows,
       Leads, Open

\* Every step keeps what SendsFollowThread rests on.
LEMMA NextThread == ASSUME Inv, ThreadInv, [Next]_vars PROVE ThreadInv'
<1>1. CASE UNCHANGED vars
  BY <1>1, SameThread DEF vars
<1>2. ASSUME NEW p \in Providers, NEW s \in Tokens, Edit(p, s) PROVE ThreadInv'
  BY <1>2, EditThread
<1>3. ASSUME NEW p \in Providers, Send(p) PROVE ThreadInv'
  BY <1>3, SendThread
<1>4. ASSUME NEW r \in Runs, RunStep(r) PROVE ThreadInv'
  <2>1. CASE Retry(r) \/ Resume(r)
    <3>1. NoSession \in Tokens /\ answer \in Tokens
      BY DEF Inv, TypeOK, Tokens
    <3>. QED  BY <2>1, <3>1, ReplaceThread DEF Retry, Resume
  <2>2. CASE AskResume(r)
    BY <2>2, SameThread DEF AskResume
  <2>. QED  BY <1>4, <2>1, <2>2, PrepareThread, DeferThread, StartThread, CancelThread,
               RetryPersistThread, FinishThread, DiscardThread DEF RunStep
<1>5. ASSUME NEW r \in Runs, NEW s \in Sessions, Report(r, s) PROVE ThreadInv'
  BY <1>5, ReportThread
<1>6. CASE Crash
  BY <1>6, CrashThread
<1>7. CASE ResumeRefused
  BY <1>7, SameThread DEF ResumeRefused
<1>. QED  BY <1>1, <1>2, <1>3, <1>4, <1>5, <1>6, <1>7 DEF Next

\* A chat keeps its thread: a send resumes the session that the last run of
\* the same epoch reported when it finished.
THEOREM SendsAlwaysFollow == Spec => []SendsFollowThread
<1>1. Follows => SendsFollowThread
  <2> SUFFICES ASSUME Follows, NEW q \in Runs, NEW r \in Runs,
                      r \notin recovery /\ r \in Launched /\ bound[r] = epoch,
                      q < r /\ q \in copied /\ known[q] # NoSession,
                      bound[q] = epoch /\ agent[q] = provider /\ agent[r] = provider,
                      \A o \in (q + 1)..(r - 1) : known[o] = NoSession
               PROVE  resumes[r] = known[q]
    BY DEF SendsFollowThread
  <2>1. \A o \in Runs : q < o /\ o < r => o \in (q + 1)..(r - 1)
    BY DEF Runs
  <2>2. status[r] \in {"prepared", "running"}
    BY DEF Launched
  <2>. QED  BY <2>1, <2>2 DEF Follows, Leads
<1>2. ThreadInv => SendsFollowThread
  BY <1>1 DEF ThreadInv
<1>. QED  BY <1>2, InitThread, NextThread, InvHolds, PTL DEF Spec

\* A provider is handed its own token, and the one the thread left, for any
\* providers, sessions and numbers of runs, edits and deaths.
THEOREM SendsAlwaysResume == Spec => []SendsResumeThread
<1>. QED  BY SessionsAlwaysFit, SendsAlwaysFollow, PTL DEF SendsResumeThread
=============================================================================
