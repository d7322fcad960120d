---------------------------- MODULE ChatSession ----------------------------
(***************************************************************************)
(* What a chat promises about its native session (the rule of              *)
(* docs/out-3-execution-adapters.md): the last choice of a provider and a  *)
(* session stands until a run that was launched from that very choice      *)
(* reports how the session goes on.                                        *)
(***************************************************************************)
CONSTANTS Runs, Providers, Sessions, NoSession

VARIABLES provider, session,  \* the choice, as its runs have carried it on
          writers,            \* the runs that may carry it on
          committed           \* the runs that take up no other choice any more

vars == <<provider, session, writers, committed>>

Init ==
    /\ provider \in Providers /\ session = NoSession
    /\ writers = {} /\ committed = {}

\* A choice ends what every earlier run may say about the session.
Choose(p, s) ==
    /\ <<p, s>> # <<provider, session>>
    /\ provider' = p /\ session' = s
    /\ writers' = {}
    /\ UNCHANGED committed

\* A choice made for one new run, by a recovery decision.
ChooseFor(r, s) ==
    /\ r \notin committed /\ s # session
    /\ session' = s
    /\ writers' = {r} /\ committed' = committed \cup {r}
    /\ UNCHANGED provider

\* A run takes up the present choice, for good or until it is put off.
TakeUp(r) ==
    /\ r \notin committed
    /\ writers' = writers \cup {r}
    /\ committed' \in {committed, committed \cup {r}}
    /\ UNCHANGED <<provider, session>>

\* A run reports the session it carries on, perhaps as the last thing it does.
CarryOn(r, s) ==
    /\ r \in writers
    /\ session' = s
    /\ writers' \in {writers, writers \ {r}}
    /\ committed' \in {committed, committed \cup {r}}
    /\ UNCHANGED provider

\* Runs start, end, are put off or die with the runtime.
MoveOn ==
    /\ writers' \in SUBSET writers
    /\ committed' \in {committed \cup B : B \in SUBSET Runs}
    /\ UNCHANGED <<provider, session>>

Next ==
    \/ \E p \in Providers, s \in Sessions \cup {NoSession} : Choose(p, s)
    \/ \E r \in Runs : TakeUp(r)
    \/ \E r \in Runs, s \in Sessions \cup {NoSession} : ChooseFor(r, s)
    \/ \E r \in Runs, s \in Sessions : CarryOn(r, s)
    \/ MoveOn

Spec == Init /\ [][Next]_vars
=============================================================================
