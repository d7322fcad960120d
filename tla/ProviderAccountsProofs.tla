------------------------ MODULE ProviderAccountsProofs ------------------------
(***************************************************************************)
(* Proofs about ProviderAccounts, for any finite set of accounts, any      *)
(* requests, launches and number of moves of the user.                     *)
(*                                                                         *)
(* The invariant has four threads.  Queues: an account marked queued has a *)
(* check in the queue, one marked running is the check under way, and no   *)
(* caller waits for two checks.  Line: a request that has had its turn     *)
(* stays first among the switches until it is answered.  Reads: an         *)
(* identity was read from the directory it is an identity of, because a    *)
(* probe that read another one finds the account moved (ProbeApart) and    *)
(* does not answer.  Launches: only one launch is under way, and what it   *)
(* resolved still fits its pin and the owner of its session when it starts *)
(* a run.  Each action has a lemma that it keeps the invariant.            *)
(***************************************************************************)
EXTENDS ProviderAccounts, TLAPS, FiniteSetTheorems, NaturalsInduction, SequenceTheorems

\* The callers that wait for a check.
Waiting == {c \in Callers : call[c].at = "waiting"}

\* What the queue, the marks of the accounts and the check under way say of each other.
CheckQueue(q, marks, probe, waiters) ==
    /\ q \in Seq(Checks) /\ probe \in Probes \cup {None}
    /\ marks \in [Accounts -> {"queued", "running", None}]
    /\ \A a \in Accounts : marks[a] = "queued" => \E i \in DOMAIN q : q[i].account = a
    /\ \A a \in Accounts : marks[a] = "running" => probe # None /\ probe.account = a
    /\ \A i \in DOMAIN q : q[i].callers \subseteq waiters
    /\ \A i, j \in DOMAIN q : i # j => q[i].callers \cap q[j].callers = {}
    /\ probe # None => /\ probe.callers \subseteq waiters
                       /\ \A i \in DOMAIN q : q[i].callers \cap probe.callers = {}

\* Every caller in a check waits for it.
Queues == CheckQueue(queue, pending, running, Waiting)

\* The types, and a removed account is never the active one.
Places ==
    /\ stored \subseteq Added /\ active \in Existing
    /\ leads \in [Accounts -> Dirs] /\ login \in [Dirs -> {"in", "out"}]
    /\ identities \in [Accounts -> Evidence \cup {None}]
    /\ call \in [Callers -> Calls]
    /\ session \in Sessions \cup {None} /\ owner \in [Sessions -> Logins \cup {None}]

\* Requests that have had their turn are first in line.
Acting(k) ==
    \/ k.at = "confirmed"
    \/ k.at \in {"waiting", "answered"} /\ k.attempt > 0
Line ==
    /\ switches \in Seq(Requests)
    /\ \A c \in Requests : Acting(call[c]) => switches # <<>> /\ Head(switches) = c
    /\ \A c \in Requests : call[c].at = "turn" => \E i \in DOMAIN switches : switches[i] = c

\* A probe that read another directory than the one it was started for is noticed.
ProbeApart ==
    running # None /\ running.from # None =>
        /\ running.status # None
        /\ running.from # running.key => leads[running.account] # running.key

\* An answer from another directory is no evidence.
Read(answer) == answer \in Evidence => answer.from = answer.key
\* Every recorded identity, and every answer a caller has, was read where it says it was.
Reads ==
    /\ \A a \in Accounts : identities[a] # None => a \in Existing /\ Read(identities[a])
    /\ \A c \in Callers : Read(call[c].answer)

\* What a caller has with it at each step.
StandsAt(c, k) ==
    /\ k.at \in {"idle", "done", "refused"} => k = NoCall(k.at)
    /\ k.at \in {"waiting", "answered", "confirmed", "checked", "launching"} => k.account # None
    /\ k.at = "answered" => k.answer # None
    /\ k.at = "confirmed" => k.answer \in Evidence
    /\ k.at \in {"checked", "launching"} => k.home # None /\ c \in Runs
    /\ c \in Runs /\ k.at \in {"waiting", "answered"} => k.attempt > 0
    /\ c \in Requests /\ k.at = "turn" => k.account # None
Stands == \A c \in Callers : StandsAt(c, call[c])

\* A caller under way.
Under(k) == k.at \notin {"idle", "done", "refused"}
\* Launches take turns.
OneLaunch == \A r, s \in Runs : Under(call[r]) /\ Under(call[s]) => r = s

\* A session belongs to a login, or to nobody yet.
Fits(o, a, home) == o # None => o.account = a /\ o.home \in {Unrecorded, home}

\* A launch is for its own new session, or for one that its login owns.
LaunchAt(r, k) ==
    /\ owner[r] # None => k.at = "done"
    /\ k.session \in Runs => owner[k.session] # None \/ k.session = r
    /\ k.at = "launching" =>
         /\ k.session # None
         /\ Fits(k.pin, k.account, k.home) /\ Fits(owner[k.session], k.account, k.home)
\* The session in use, if a launch made it, belongs to somebody.
Launches ==
    /\ session \in Runs => owner[session] # None
    /\ \A r \in Runs : LaunchAt(r, call[r])

\* The inductive invariant.
Inv == Places /\ Queues /\ Line /\ ProbeApart /\ Reads /\ Stands /\ OneLaunch /\ Launches

(***************************************************************************)
(* Sequences of checks.                                                    *)
(***************************************************************************)
\* A concatenation, by its length and its items.
LEMMA Joined ==
  ASSUME NEW S, NEW a \in Seq(S), NEW b \in Seq(S)
  PROVE  /\ a \o b \in Seq(S) /\ Len(a \o b) = Len(a) + Len(b)
         /\ \A k \in 1..(Len(a) + Len(b)) : (a \o b)[k] = IF k <= Len(a) THEN a[k] ELSE b[k - Len(a)]
  OBVIOUS

\* A part of a sequence, by its length and its items.
LEMMA Part ==
  ASSUME NEW S, NEW q \in Seq(S), NEW m \in 1..(Len(q) + 1), NEW n \in 0..Len(q), m <= n + 1
  PROVE  /\ SubSeq(q, m, n) \in Seq(S) /\ Len(SubSeq(q, m, n)) = n + 1 - m
         /\ \A k \in 1..(n + 1 - m) : SubSeq(q, m, n)[k] = q[m + k - 1]
<1>1. q \in [1..Len(q) -> S] /\ Len(q) \in Nat /\ \A k \in m..n : q[k] \in S
  OBVIOUS
<1>2. m \in Int /\ n \in Int
  OBVIOUS
<1>3. /\ SubSeq(q, m, n) \in Seq(S) /\ Len(SubSeq(q, m, n)) = (IF m <= n THEN n - m + 1 ELSE 0)
      /\ \A k \in 1..(n - m + 1) : SubSeq(q, m, n)[k] = q[m + k - 1]
  BY <1>1, <1>2, SubSeqProperties
<1>. QED  BY <1>1, <1>2, <1>3

\* A sequence without its item i.
LEMMA Removed ==
  ASSUME NEW S, NEW q \in Seq(S), NEW i \in DOMAIN q
  PROVE  /\ RemoveAt(q, i) \in Seq(S) /\ Len(RemoveAt(q, i)) = Len(q) - 1
         /\ \A k \in 1..(Len(q) - 1) : RemoveAt(q, i)[k] = IF k < i THEN q[k] ELSE q[k + 1]
<1> DEFINE a == SubSeq(q, 1, i - 1)
           b == SubSeq(q, i + 1, Len(q))
<1>1. i \in 1..Len(q) /\ Len(q) \in Nat
  OBVIOUS
<1>2. a \in Seq(S) /\ Len(a) = i - 1 /\ \A k \in 1..(i - 1) : a[k] = q[k]
  BY <1>1, Part
<1>3. b \in Seq(S) /\ Len(b) = Len(q) - i /\ \A k \in 1..(Len(q) - i) : b[k] = q[i + k]
  BY <1>1, Part
<1>4. RemoveAt(q, i) = a \o b
  BY DEF RemoveAt
<1> HIDE DEF a, b
<1>5. /\ a \o b \in Seq(S) /\ Len(a \o b) = Len(a) + Len(b)
      /\ \A k \in 1..(Len(a) + Len(b)) : (a \o b)[k] = IF k <= Len(a) THEN a[k] ELSE b[k - Len(a)]
  BY <1>2, <1>3, Joined
<1>6. ASSUME NEW k \in 1..(Len(q) - 1) PROVE (a \o b)[k] = IF k < i THEN q[k] ELSE q[k + 1]
  <2>1. CASE k < i  BY <1>1, <1>2, <1>3, <1>5, <2>1
  <2>2. CASE ~(k < i)
    <3>1. k - Len(a) \in 1..(Len(q) - i) /\ i + (k - Len(a)) = k + 1  BY <1>1, <1>2, <2>2
    <3>2. b[k - Len(a)] = q[k + 1]  BY <1>3, <3>1
    <3>3. k \in 1..(Len(a) + Len(b)) /\ ~(k <= Len(a))  BY <1>1, <1>2, <1>3, <2>2
    <3>4. (a \o b)[k] = b[k - Len(a)]  BY <1>5, <3>3
    <3>. QED  BY <2>2, <3>2, <3>4
  <2>. QED  BY <2>1, <2>2
<1>7. Len(a \o b) = Len(q) - 1  BY <1>1, <1>2, <1>3, <1>5
<1>. QED  BY <1>4, <1>5, <1>6, <1>7

\* A sequence with e before its item i.
LEMMA Inserted ==
  ASSUME NEW S, NEW q \in Seq(S), NEW e \in S, NEW i \in 1..(Len(q) + 1)
  PROVE  /\ InsertAt(q, i, e) \in Seq(S) /\ Len(InsertAt(q, i, e)) = Len(q) + 1
         /\ \A k \in 1..(Len(q) + 1) :
              InsertAt(q, i, e)[k] = IF k < i THEN q[k] ELSE IF k = i THEN e ELSE q[k - 1]
<1> DEFINE a == SubSeq(q, 1, i - 1)
           b == SubSeq(q, i, Len(q))
           c == a \o <<e>>
<1>1. i \in Nat /\ Len(q) \in Nat /\ <<e>> \in Seq(S) /\ Len(<<e>>) = 1 /\ <<e>>[1] = e
  OBVIOUS
<1>2. a \in Seq(S) /\ Len(a) = i - 1 /\ \A k \in 1..(i - 1) : a[k] = q[k]
  BY <1>1, Part
<1>3. b \in Seq(S) /\ Len(b) = Len(q) + 1 - i /\ \A k \in 1..(Len(q) + 1 - i) : b[k] = q[i + k - 1]
  BY <1>1, Part
<1>4. InsertAt(q, i, e) = c \o b
  BY DEF InsertAt
<1> HIDE DEF a, b
<1>5. c \in Seq(S) /\ Len(c) = i /\ \A k \in 1..i : c[k] = IF k < i THEN q[k] ELSE e
  <2> DEFINE s == <<e>>
  <2>1. s \in Seq(S) /\ Len(s) = 1 /\ s[1] = e  BY <1>1
  <2> HIDE DEF s
  <2>2. /\ a \o s \in Seq(S) /\ Len(a \o s) = Len(a) + Len(s)
        /\ \A k \in 1..(Len(a) + Len(s)) : (a \o s)[k] = IF k <= Len(a) THEN a[k] ELSE s[k - Len(a)]
    BY <1>2, <2>1, Joined
  <2>3. ASSUME NEW k \in 1..i PROVE (a \o s)[k] = IF k < i THEN q[k] ELSE e
    BY <1>1, <1>2, <2>1, <2>2
  <2>. QED  BY <1>1, <1>2, <2>1, <2>2, <2>3 DEF s
<1> HIDE DEF c
<1>6. /\ c \o b \in Seq(S) /\ Len(c \o b) = Len(c) + Len(b)
      /\ \A k \in 1..(Len(c) + Len(b)) : (c \o b)[k] = IF k <= Len(c) THEN c[k] ELSE b[k - Len(c)]
  BY <1>3, <1>5, Joined
<1>8. Len(c \o b) = Len(q) + 1  BY <1>1, <1>3, <1>5, <1>6
<1>7. ASSUME NEW k \in 1..(Len(q) + 1)
      PROVE  (c \o b)[k] = IF k < i THEN q[k] ELSE IF k = i THEN e ELSE q[k - 1]
  <2>1. CASE k <= i  BY <1>1, <1>3, <1>5, <1>6, <2>1
  <2>2. CASE k > i
    <3>1. k - Len(c) \in 1..(Len(q) + 1 - i) /\ i + (k - Len(c)) - 1 = k - 1  BY <1>1, <1>5, <2>2
    <3>2. b[k - Len(c)] = q[k - 1]  BY <1>3, <3>1
    <3>3. k \in 1..(Len(c) + Len(b)) /\ ~(k <= Len(c))  BY <1>1, <1>3, <1>5, <2>2
    <3>4. (c \o b)[k] = b[k - Len(c)]  BY <1>6, <3>3
    <3>5. ~(k < i) /\ k # i  BY <1>1, <2>2
    <3>. QED  BY <3>2, <3>4, <3>5
  <2>3. k \in Nat /\ i \in Nat  OBVIOUS
  <2>4. k <= i \/ k > i  BY <2>3
  <2>. QED  BY <2>1, <2>2, <2>4
<1>. QED  BY <1>4, <1>6, <1>7, <1>8

\* The sequence of a finite set has each of its members once.
LEMMA Listed ==
  ASSUME NEW S, IsFiniteSet(S)
  PROVE  SetToSeq(S) \in Seq(S) /\ \A x \in S : \E i \in DOMAIN SetToSeq(S) : SetToSeq(S)[i] = x
<1> DEFINE n == Cardinality(S)
<1>1. n \in Nat /\ ExistsBijection(1..n, S)  BY FS_CardinalityType
<1>2. \E f \in [1..n -> S] : IsInjective(f)
  BY <1>1 DEF ExistsBijection, Bijection, Injection
<1>3. SetToSeq(S) \in [1..n -> S] /\ IsInjective(SetToSeq(S))  BY <1>2 DEF SetToSeq
<1>4. SetToSeq(S) \in Seq(S)  BY <1>1, <1>3, SeqDef
<1> DEFINE f == SetToSeq(S)
           T == {f[i] : i \in 1..n}
<1> HIDE DEF f, n
<1>5. f \in [1..n -> S] /\ IsInjective(f)  BY <1>3 DEF f
<1>6. f \in Bijection(1..n, T)  BY <1>5 DEF Bijection, Injection, Surjection, IsInjective
<1>7. IsFiniteSet(1..n) /\ Cardinality(1..n) = n  BY <1>1, FS_Interval
<1>8. Cardinality(T) = n  BY <1>6, <1>7, FS_Bijection DEF ExistsBijection
<1>9. T \subseteq S  BY <1>5
<1>10. T = S  BY <1>8, <1>9, FS_Subset DEF n
<1>. QED  BY <1>4, <1>5, <1>10 DEF f

\* One check more in the queue, wherever it goes.
LEMMA Enqueued ==
  ASSUME NEW S, NEW q \in Seq(S), NEW e \in S, NEW n, EnqueueCheck(q, e, n)
  PROVE  \E i \in 1..(Len(q) + 1) :
           /\ n \in Seq(S) /\ Len(n) = Len(q) + 1
           /\ \A k \in 1..(Len(q) + 1) : n[k] = IF k < i THEN q[k] ELSE IF k = i THEN e ELSE q[k - 1]
<1> DEFINE behind == {i \in DOMAIN q : ~e.background /\ q[i].background}
<1>1. CASE behind = {} /\ n = Append(q, e)
  <2>1. /\ n \in Seq(S) /\ Len(n) = Len(q) + 1 /\ Len(q) \in Nat
        /\ \A k \in 1..(Len(q) + 1) : n[k] = IF k < Len(q) + 1 THEN q[k] ELSE e
    BY <1>1
  <2>2. Len(q) + 1 \in 1..(Len(q) + 1)  BY <2>1
  <2>3. \A k \in 1..(Len(q) + 1) :
          n[k] = IF k < Len(q) + 1 THEN q[k] ELSE IF k = Len(q) + 1 THEN e ELSE q[k - 1]
    BY <2>1
  <2>. QED  BY <2>1, <2>2, <2>3
<1>2. ASSUME NEW i \in 1..Len(q), n = InsertAt(q, i, e) PROVE
         \E p \in 1..(Len(q) + 1) :
           /\ n \in Seq(S) /\ Len(n) = Len(q) + 1
           /\ \A k \in 1..(Len(q) + 1) : n[k] = IF k < p THEN q[k] ELSE IF k = p THEN e ELSE q[k - 1]
  <2>1. i \in 1..(Len(q) + 1)  OBVIOUS
  <2> HIDE DEF behind
  <2>2. /\ InsertAt(q, i, e) \in Seq(S) /\ Len(InsertAt(q, i, e)) = Len(q) + 1
        /\ \A k \in 1..(Len(q) + 1) :
             InsertAt(q, i, e)[k] = IF k < i THEN q[k] ELSE IF k = i THEN e ELSE q[k - 1]
    BY <2>1, Inserted
  <2>. QED  BY <1>2, <2>1, <2>2
<1>3. DOMAIN q = 1..Len(q)  OBVIOUS
<1>. QED  BY <1>1, <1>2, <1>3 DEF EnqueueCheck

(***************************************************************************)
(* The queue.                                                              *)
(***************************************************************************)
\* A queue n that has every account of q, and whose checks have the callers of
\* different checks of q, and one of them perhaps c.
Keeps(q, n, c) ==
    /\ n \in Seq(Checks)
    /\ \A i \in DOMAIN q : \E k \in DOMAIN n : n[k].account = q[i].account
    /\ \A k \in DOMAIN n : \A w \in n[k].callers : w = c \/ \E i \in DOMAIN q : w \in q[i].callers
    /\ \A i, j \in DOMAIN n : i # j => n[i].callers \cap n[j].callers = {}

\* No caller waits in two checks of the queue.
Apart(q) == \A i, j \in DOMAIN q : i # j => q[i].callers \cap q[j].callers = {}

\* A check in the queue for c, and for callers no other check in it has, keeps the queue.
LEMMA EnqueueKeeps ==
  ASSUME NEW q \in Seq(Checks), Apart(q), NEW e \in Checks, NEW n, EnqueueCheck(q, e, n), NEW c,
         \A w \in e.callers : w = c \/ \E i \in DOMAIN q : w \in q[i].callers,
         \A i \in DOMAIN q : e.callers \cap q[i].callers = {}
  PROVE  Keeps(q, n, c) /\ \E k \in DOMAIN n : n[k].account = e.account
<1>1. PICK p \in 1..(Len(q) + 1) :
         /\ n \in Seq(Checks) /\ Len(n) = Len(q) + 1
         /\ \A k \in 1..(Len(q) + 1) : n[k] = IF k < p THEN q[k] ELSE IF k = p THEN e ELSE q[k - 1]
  BY Enqueued
<1>2. DOMAIN q = 1..Len(q) /\ DOMAIN n = 1..(Len(q) + 1) /\ Len(q) \in Nat  BY <1>1
<1>3. n[p] = e  BY <1>1
<1>4. ASSUME NEW i \in DOMAIN q PROVE \E k \in DOMAIN n : n[k] = q[i]
  <2>1. CASE i < p
    <3>1. i \in DOMAIN n /\ n[i] = q[i]  BY <1>1, <1>2, <2>1
    <3>. QED  BY <3>1
  <2>2. CASE ~(i < p)
    <3>1. i + 1 \in DOMAIN n /\ n[i + 1] = q[i]  BY <1>1, <1>2, <2>2
    <3>. QED  BY <3>1
  <2>. QED  BY <2>1, <2>2
<1>5. ASSUME NEW k \in DOMAIN n, k # p
      PROVE  LET i == IF k < p THEN k ELSE k - 1 IN i \in DOMAIN q /\ n[k] = q[i]
  BY <1>1, <1>2, <1>5
<1>6. \A k \in DOMAIN n : \A w \in n[k].callers : w = c \/ \E i \in DOMAIN q : w \in q[i].callers
  <2>1. TAKE k \in DOMAIN n
  <2>2. CASE k = p  BY <1>3, <2>2
  <2>3. CASE k # p
    <3>1. PICK i \in DOMAIN q : n[k] = q[i]  BY <1>5, <2>3
    <3>. QED  BY <3>1
  <2>. QED  BY <2>2, <2>3
<1>7. ASSUME NEW i \in DOMAIN n, NEW j \in DOMAIN n, i # j PROVE n[i].callers \cap n[j].callers = {}
  <2>1. CASE i = p  BY <1>3, <1>5, <1>7, <2>1
  <2>2. CASE j = p  BY <1>3, <1>5, <1>7, <2>2
  <2>3. CASE i # p /\ j # p
    <3>1. PICK x \in DOMAIN q : n[i] = q[x] /\ x = IF i < p THEN i ELSE i - 1  BY <1>5, <2>3
    <3>2. PICK y \in DOMAIN q : n[j] = q[y] /\ y = IF j < p THEN j ELSE j - 1  BY <1>5, <2>3
    <3>3. x # y  BY <1>2, <1>7, <2>3, <3>1, <3>2
    <3>. QED  BY <3>1, <3>2, <3>3 DEF Apart
  <2>. QED  BY <2>1, <2>2, <2>3
<1>. QED  BY <1>1, <1>2, <1>3, <1>4, <1>6, <1>7 DEF Keeps

\* A caller that joins a check in the queue leaves the other checks as they were.
LEMMA JoinKeeps ==
  ASSUME NEW q \in Seq(Checks), Apart(q), NEW i \in DOMAIN q, NEW c \in Callers,
         \A j \in DOMAIN q : c \notin q[j].callers, NEW n, Join(q, i, c, n)
  PROVE  Keeps(q, n, c)
<1> DEFINE e == [q[i] EXCEPT !.callers = @ \cup {c}, !.background = FALSE]
<1>1. q[i] \in Checks /\ DOMAIN q = 1..Len(q) /\ Len(q) \in Nat  OBVIOUS
<1>2. e \in Checks /\ e.account = q[i].account /\ e.callers = q[i].callers \cup {c}
  BY <1>1 DEF Checks
<1>3. CASE ~q[i].background
  <2>1. n = [q EXCEPT ![i] = e]  BY <1>3 DEF Join
  <2> HIDE DEF e
  <2>2. n \in Seq(Checks) /\ DOMAIN n = DOMAIN q /\ n[i] = e /\ \A j \in DOMAIN q : j # i => n[j] = q[j]
    BY <1>2, <2>1
  <2>3. \A j \in DOMAIN q : n[j].account = q[j].account  BY <1>2, <2>2
  <2>4. \A j \in DOMAIN q : n[j].callers \subseteq q[j].callers \cup {c}  BY <1>2, <2>2
  <2>5. ASSUME NEW x \in DOMAIN q, NEW y \in DOMAIN q, x # y PROVE n[x].callers \cap n[y].callers = {}
    BY <1>2, <2>2, <2>5 DEF Apart
  <2>6. \A j \in DOMAIN n : \A w \in n[j].callers : w = c \/ \E x \in DOMAIN q : w \in q[x].callers
    BY <2>2, <2>4
  <2>7. \A j \in DOMAIN q : \E k \in DOMAIN n : n[k].account = q[j].account
    BY <2>2, <2>3
  <2>. QED  BY <2>2, <2>5, <2>6, <2>7 DEF Keeps
<1>4. CASE q[i].background
  <2> DEFINE m == RemoveAt(q, i)
  <2>1. /\ m \in Seq(Checks) /\ Len(m) = Len(q) - 1
        /\ \A k \in 1..(Len(q) - 1) : m[k] = IF k < i THEN q[k] ELSE q[k + 1]
    BY Removed
  <2>2. EnqueueCheck(m, e, n)  BY <1>4 DEF Join
  <2> HIDE DEF m, e
  <2>3. DOMAIN m = 1..(Len(q) - 1) /\ i \in 1..Len(q)  BY <1>1, <2>1
  <2>4. ASSUME NEW k \in DOMAIN m
        PROVE  LET j == IF k < i THEN k ELSE k + 1 IN j \in DOMAIN q /\ j # i /\ m[k] = q[j]
    BY <1>1, <2>1, <2>3
  <2>5. ASSUME NEW j \in DOMAIN q, j # i PROVE \E k \in DOMAIN m : m[k] = q[j]
    <3>1. CASE j < i
      <4>1. j \in DOMAIN m /\ m[j] = q[j]  BY <1>1, <2>1, <2>3, <3>1
      <4>. QED  BY <4>1
    <3>2. CASE ~(j < i)
      <4>1. j - 1 \in DOMAIN m /\ m[j - 1] = q[j]  BY <1>1, <2>1, <2>3, <2>5, <3>2
      <4>. QED  BY <4>1
    <3>. QED  BY <3>1, <3>2
  <2>6. ASSUME NEW x \in DOMAIN m, NEW y \in DOMAIN m, x # y PROVE m[x].callers \cap m[y].callers = {}
    <3>1. PICK j \in DOMAIN q : m[x] = q[j] /\ j = IF x < i THEN x ELSE x + 1  BY <2>4
    <3>2. PICK k \in DOMAIN q : m[y] = q[k] /\ k = IF y < i THEN y ELSE y + 1  BY <2>4
    <3>3. j # k  BY <2>3, <2>6, <3>1, <3>2
    <3>. QED  BY <3>1, <3>2, <3>3 DEF Apart
  <2>7. \A k \in DOMAIN m : e.callers \cap m[k].callers = {}
    <3>1. TAKE k \in DOMAIN m
    <3>2. PICK j \in DOMAIN q : j # i /\ m[k] = q[j]  BY <2>4
    <3>. QED  BY <1>2, <3>2 DEF Apart
  <2>8. PICK p \in 1..(Len(m) + 1) :
          /\ n \in Seq(Checks) /\ Len(n) = Len(m) + 1
          /\ \A k \in 1..(Len(m) + 1) : n[k] = IF k < p THEN m[k] ELSE IF k = p THEN e ELSE m[k - 1]
    BY <1>2, <2>1, <2>2, Enqueued
  <2>9. DOMAIN n = 1..(Len(m) + 1) /\ DOMAIN m = 1..Len(m) /\ Len(m) \in Nat  BY <2>1, <2>8
  <2>10. n[p] = e /\ p \in DOMAIN n  BY <2>8, <2>9
  <2>11. ASSUME NEW k \in DOMAIN n, k # p
         PROVE  LET x == IF k < p THEN k ELSE k - 1 IN x \in DOMAIN m /\ n[k] = m[x]
    BY <2>8, <2>9, <2>11
  <2>12. ASSUME NEW x \in DOMAIN m PROVE \E k \in DOMAIN n : n[k] = m[x]
    <3>1. CASE x < p
      <4>1. x \in DOMAIN n /\ n[x] = m[x]  BY <2>8, <2>9, <3>1
      <4>. QED  BY <4>1
    <3>2. CASE ~(x < p)
      <4>1. x + 1 \in DOMAIN n /\ n[x + 1] = m[x]  BY <2>8, <2>9, <3>2
      <4>. QED  BY <4>1
    <3>. QED  BY <3>1, <3>2
  <2>13. \A j \in DOMAIN q : \E k \in DOMAIN n : n[k].account = q[j].account
    <3>1. TAKE j \in DOMAIN q
    <3>2. CASE j = i  BY <1>2, <2>10, <3>2
    <3>3. CASE j # i  BY <2>5, <2>12, <3>3
    <3>. QED  BY <3>2, <3>3
  <2>14. \A k \in DOMAIN n : \A w \in n[k].callers : w = c \/ \E x \in DOMAIN q : w \in q[x].callers
    <3>1. TAKE k \in DOMAIN n
    <3>2. CASE k = p
      <4>1. n[k].callers = q[i].callers \cup {c}  BY <1>2, <2>10, <3>2
      <4>. QED  BY <4>1
    <3>3. CASE k # p
      <4>1. PICK x \in DOMAIN m : n[k] = m[x]  BY <2>11, <3>3
      <4>2. PICK j \in DOMAIN q : m[x] = q[j]  BY <2>4
      <4>. QED  BY <4>1, <4>2
    <3>. QED  BY <3>2, <3>3
  <2>15. ASSUME NEW x \in DOMAIN n, NEW y \in DOMAIN n, x # y PROVE n[x].callers \cap n[y].callers = {}
    <3>1. CASE x = p  BY <2>7, <2>10, <2>11, <2>15, <3>1
    <3>2. CASE y = p  BY <2>7, <2>10, <2>11, <2>15, <3>2
    <3>3. CASE x # p /\ y # p
      <4>1. PICK j \in DOMAIN m : n[x] = m[j] /\ j = IF x < p THEN x ELSE x - 1  BY <2>11, <3>3
      <4>2. PICK k \in DOMAIN m : n[y] = m[k] /\ k = IF y < p THEN y ELSE y - 1  BY <2>11, <3>3
      <4>3. j # k  BY <2>9, <2>15, <3>3, <4>1, <4>2
      <4>. QED  BY <2>6, <4>1, <4>2, <4>3
    <3>. QED  BY <3>1, <3>2, <3>3
  <2>. QED  BY <2>8, <2>13, <2>14, <2>15 DEF Keeps
<1>5. q[i].background \in BOOLEAN  BY <1>1 DEF Checks
<1>. QED  BY <1>3, <1>4, <1>5

\* The check under way is still the same, whoever waits for it.
SameProbe ==
    /\ running' = None <=> running = None
    /\ running # None => /\ running'.account = running.account /\ running'.key = running.key
                         /\ running'.from = running.from /\ running'.status = running.status

\* checkIdentity, for a caller that waits for no check, makes it wait for exactly one.
LEMMA CheckIdentityKeeps ==
  ASSUME NEW W \in SUBSET Callers, CheckQueue(queue, pending, running, W),
         NEW a \in Accounts, NEW c \in Callers \ W, CheckIdentity(a, c)
  PROVE  CheckQueue(queue', pending', running', W \cup {c}) /\ SameProbe
<1> USE DEF CheckQueue
<1>1. Apart(queue) /\ \A i \in DOMAIN queue : c \notin queue[i].callers  BY DEF Apart
<1>2. CASE /\ pending[a] = "queued" /\ UNCHANGED <<running, pending>>
           /\ \E i \in DOMAIN queue : queue[i].account = a /\ Join(queue, i, c, queue')
  <2> DEFINE n == queue'
  <2>1. Keeps(queue, n, c)
    <3> HIDE DEF n
    <3>1. PICK i \in DOMAIN queue : Join(queue, i, c, n)  BY <1>2 DEF n
    <3>. QED  BY <1>1, <3>1, JoinKeeps
  <2> HIDE DEF n
  <2>2. \A i \in DOMAIN n : n[i].callers \subseteq W \cup {c}  BY <2>1 DEF Keeps
  <2>3. \A b \in Accounts : pending[b] = "queued" => \E i \in DOMAIN n : n[i].account = b
    BY <2>1 DEF Keeps
  <2>4. running # None => running.callers \subseteq W \cup {c} /\ \A i \in DOMAIN n : n[i].callers \cap running.callers = {}
    BY <2>1 DEF Keeps
  <2>5. n \in Seq(Checks) /\ \A i, j \in DOMAIN n : i # j => n[i].callers \cap n[j].callers = {}
    BY <2>1 DEF Keeps
  <2>. QED  BY <1>2, <2>2, <2>3, <2>4, <2>5 DEF n, SameProbe
<1>3. CASE /\ pending[a] = "running" /\ running' = [running EXCEPT !.callers = @ \cup {c}]
           /\ UNCHANGED <<queue, pending>>
  <2>1. running # None /\ running \in Probes  BY <1>3
  <2>2. /\ running' \in Probes /\ running'.callers = running.callers \cup {c} /\ running'.account = running.account
        /\ running'.key = running.key /\ running'.from = running.from /\ running'.status = running.status
    BY <1>3, <2>1 DEF Probes
  <2>3. running' # None  BY <2>2, NoneApart
  <2>4. running'.callers \subseteq W \cup {c} /\ \A i \in DOMAIN queue : queue[i].callers \cap running'.callers = {}
    BY <1>1, <2>1, <2>2
  <2>. QED  BY <1>3, <2>1, <2>2, <2>3, <2>4 DEF SameProbe
<1>4. CASE /\ EnqueueCheck(queue, [account |-> a, background |-> FALSE, callers |-> {c}], queue')
           /\ pending' = [pending EXCEPT ![a] = "queued"] /\ UNCHANGED running
  <2> DEFINE n == queue'
             e == [account |-> a, background |-> FALSE, callers |-> {c}]
  <2>1. e \in Checks /\ e.account = a /\ e.callers = {c}  BY DEF Checks
  <2>2. EnqueueCheck(queue, e, n)  BY <1>4
  <2> HIDE DEF n, e
  <2>3. Keeps(queue, n, c) /\ \E k \in DOMAIN n : n[k].account = e.account
    BY <1>1, <2>1, <2>2, EnqueueKeeps
  <2>4. \A i \in DOMAIN n : n[i].callers \subseteq W \cup {c}  BY <2>3 DEF Keeps
  <2>5. \A b \in Accounts : pending'[b] = "queued" => \E i \in DOMAIN n : n[i].account = b
    BY <1>4, <2>1, <2>3 DEF Keeps
  <2>6. running # None => running.callers \subseteq W \cup {c} /\ \A i \in DOMAIN n : n[i].callers \cap running.callers = {}
    BY <2>3 DEF Keeps
  <2>7. n \in Seq(Checks) /\ \A i, j \in DOMAIN n : i # j => n[i].callers \cap n[j].callers = {}
    BY <2>3 DEF Keeps
  <2>8. /\ pending' \in [Accounts -> {"queued", "running", None}]
        /\ \A b \in Accounts : pending'[b] = "running" => running # None /\ running.account = b
    BY <1>4
  <2>. QED  BY <1>4, <2>4, <2>5, <2>6, <2>7, <2>8 DEF n, SameProbe
<1>. QED  BY <1>2, <1>3, <1>4 DEF CheckIdentity

\* The background checks of old identities have no caller, and mark what they queue.
LEMMA RecheckKeeps ==
  ASSUME NEW W, CheckQueue(queue, pending, running, W), NEW among \in SUBSET Accounts, RecheckIfOld(among)
  PROVE  CheckQueue(queue', pending', running', W) /\ running' = running
<1> USE DEF CheckQueue
<1>1. PICK due \in SUBSET Accounts :
        /\ queue' = queue \o InBackground(SetToSeq(due))
        /\ pending' = [a \in Accounts |-> IF a \in due THEN "queued" ELSE pending[a]]
        /\ running' = running
        /\ \A a \in due : ~JoinableCheck(a)
  BY DEF RecheckIfOld
<1> DEFINE s == SetToSeq(due)
           b == InBackground(s)
           n == queue \o b
<1>2. IsFiniteSet(due)
  <2>1. IsFiniteSet(Accounts)  BY SomeDirectory, FS_AddElement, FS_Union, FS_Singleton DEF Accounts
  <2>. QED  BY <2>1, FS_Subset
<1>3. s \in Seq(due) /\ \A a \in due : \E i \in DOMAIN s : s[i] = a  BY <1>2, Listed
<1> HIDE DEF s
<1>4. /\ b \in Seq(Checks) /\ Len(b) = Len(s)
      /\ \A i \in 1..Len(s) : b[i].callers = {} /\ b[i].account = s[i]
  <2>1. b = [i \in 1..Len(s) |-> [account |-> s[i], background |-> TRUE, callers |-> {}]] /\ Len(s) \in Nat
    BY <1>3 DEF InBackground
  <2>2. \A i \in 1..Len(s) : [account |-> s[i], background |-> TRUE, callers |-> {}] \in Checks
    BY <1>3 DEF Checks
  <2>3. b \in [1..Len(s) -> Checks]  BY <2>1, <2>2
  <2> HIDE DEF b
  <2>4. Len(s) \in Nat /\ b \in [1..Len(s) -> Checks]  BY <2>1, <2>3
  <2>5. b \in Seq(Checks)  BY <2>4, SeqDef
  <2>6. Len(b) = Len(s)  BY <2>4, <2>5
  <2>7. \A i \in 1..Len(s) : b[i] = [account |-> s[i], background |-> TRUE, callers |-> {}]  BY <2>1
  <2>8. ASSUME NEW i \in 1..Len(s) PROVE b[i].callers = {} /\ b[i].account = s[i]
    <3>1. b[i] = [account |-> s[i], background |-> TRUE, callers |-> {}]  BY <2>7
    <3>. QED  BY <3>1
  <2>. QED  BY <2>5, <2>6, <2>8
<1> HIDE DEF b
<1>5. /\ n \in Seq(Checks) /\ Len(n) = Len(queue) + Len(b)
      /\ \A k \in 1..(Len(queue) + Len(b)) : n[k] = IF k <= Len(queue) THEN queue[k] ELSE b[k - Len(queue)]
  <2>1. queue \in Seq(Checks) /\ b \in Seq(Checks)  BY <1>4
  <2> HIDE DEF CheckQueue
  <2>. QED  BY <2>1, Joined
<1> HIDE DEF n
<1>6. DOMAIN n = 1..(Len(queue) + Len(b)) /\ DOMAIN queue = 1..Len(queue) /\ Len(queue) \in Nat /\ Len(b) \in Nat
      /\ DOMAIN s = 1..Len(s) /\ DOMAIN b = 1..Len(b)
  BY <1>3, <1>4, <1>5
<1>7. \A i \in DOMAIN queue : i \in DOMAIN n /\ n[i] = queue[i]  BY <1>5, <1>6
<1>8. \A k \in DOMAIN n : n[k].callers = {} \/ (k \in DOMAIN queue /\ n[k] = queue[k])
  <2>1. TAKE k \in DOMAIN n
  <2>2. CASE k <= Len(queue)  BY <1>5, <1>6, <2>2
  <2>3. CASE ~(k <= Len(queue))
    <3>1. k - Len(queue) \in 1..Len(s) /\ n[k] = b[k - Len(queue)]  BY <1>4, <1>5, <1>6, <2>3
    <3>2. b[k - Len(queue)].callers = {}  BY <1>4, <3>1
    <3>. QED  BY <3>1, <3>2
  <2>. QED  BY <2>2, <2>3
<1>9. ASSUME NEW a \in Accounts, pending'[a] = "queued" PROVE \E i \in DOMAIN n : n[i].account = a
  <2>1. CASE a \in due
    <3>1. PICK i \in DOMAIN s : s[i] = a  BY <1>3, <2>1
    <3>2. Len(queue) + i \in DOMAIN n /\ ~(Len(queue) + i <= Len(queue)) /\ Len(queue) + i - Len(queue) = i
      BY <1>4, <1>6
    <3>3. n[Len(queue) + i] = b[i]  BY <1>5, <1>6, <3>2
    <3>. QED  BY <1>4, <1>6, <3>1, <3>2, <3>3
  <2>2. CASE a \notin due  BY <1>1, <1>7, <1>9, <2>2
  <2>. QED  BY <2>1, <2>2
<1>10. /\ pending' \in [Accounts -> {"queued", "running", None}]
       /\ \A a \in Accounts : pending'[a] = "running" => running # None /\ running.account = a
  BY <1>1
<1>11. queue' = n  BY <1>1 DEF n, b, s
<1>12. \A i \in DOMAIN n : n[i].callers \subseteq W  BY <1>8
<1>13. \A i, j \in DOMAIN n : i # j => n[i].callers \cap n[j].callers = {}  BY <1>8
<1>14. running # None => \A i \in DOMAIN n : n[i].callers \cap running.callers = {}  BY <1>8
<1>. QED  BY <1>1, <1>5, <1>9, <1>10, <1>11, <1>12, <1>13, <1>14

(***************************************************************************)
(* Steps of one caller.                                                    *)
(***************************************************************************)
\* A caller that has its answer has nothing with it.
LEMMA Ended == ASSUME NEW step \in {"idle", "done", "refused"}, NEW c \in Callers
               PROVE  NoCall(step) \in Calls /\ StandsAt(c, NoCall(step)) /\ NoCall(step).at = step
                      /\ Read(NoCall(step).answer) /\ ~Under(NoCall(step)) /\ ~Acting(NoCall(step))
                      /\ NoCall(step).session = None
BY NoneApart DEF NoCall, Calls, StandsAt, Read, Under, Acting

\* A step of one caller is a step of no other.
LEMMA Called ==
  ASSUME Places, NEW c \in Callers, NEW k \in Calls, call' = [call EXCEPT ![c] = k]
  PROVE  call' \in [Callers -> Calls] /\ call'[c] = k /\ \A d \in Callers : d # c => call'[d] = call[d]
BY DEF Places

\* A caller that neither waited nor waits now leaves the waiting callers as they were.
LEMMA WaitersStay ==
  ASSUME Places, NEW c \in Callers, NEW k \in Calls, call' = [call EXCEPT ![c] = k],
         call[c].at # "waiting", k.at # "waiting"
  PROVE  Waiting' = Waiting
BY Called DEF Waiting

\* A caller that waits now is one more of them.
LEMMA WaitersGrow ==
  ASSUME Places, NEW c \in Callers, NEW k \in Calls, call' = [call EXCEPT ![c] = k], k.at = "waiting"
  PROVE  Waiting' = Waiting \cup {c}
BY Called DEF Waiting

\* What only the user, a check, or the end of a switch or of a launch changes.
Elsewhere == UNCHANGED <<stored, active, leads, login, identities, session, owner>>

\* A step of one caller keeps what does not speak of the queue of checks or of the line of
\* switches, if what the caller has with it then is right for the step it is at.
LEMMA CallStep ==
  ASSUME Inv, NEW c \in Callers, NEW k \in Calls, call' = [call EXCEPT ![c] = k], Elsewhere, SameProbe,
         Read(k.answer), StandsAt(c, k),
         c \in Runs => LaunchAt(c, k) /\ (Under(k) => Under(call[c]) \/ Idle)
  PROVE  Places' /\ ProbeApart' /\ Reads' /\ Stands' /\ OneLaunch' /\ Launches'
<1>1. call' \in [Callers -> Calls] /\ call'[c] = k /\ \A d \in Callers : d # c => call'[d] = call[d]
  BY Called DEF Inv
<1>2. Places'  BY <1>1 DEF Inv, Places, Elsewhere, Existing
<1>3. ProbeApart'  BY DEF Inv, ProbeApart, SameProbe, Elsewhere
<1>4. Reads'  BY <1>1 DEF Inv, Reads, Read, Elsewhere, Existing
<1>5. Stands'
  <2>1. ASSUME NEW d \in Callers PROVE StandsAt(d, call'[d])
    BY <1>1 DEF Inv, Stands
  <2>. QED  BY <2>1 DEF Stands, StandsAt
<1>6. OneLaunch'
  <2>1. ASSUME NEW r \in Runs, NEW s \in Runs, Under(call'[r]), Under(call'[s]) PROVE r = s
    <3>1. r \in Callers /\ s \in Callers  BY DEF Callers
    <3>2. Idle => \A x \in Runs : ~Under(call[x])  BY DEF Idle, Under
    <3>. QED  BY <1>1, <2>1, <3>1, <3>2 DEF Inv, OneLaunch
  <2>. QED  BY <2>1 DEF OneLaunch, Under
<1>7. Launches'
  <2>1. ASSUME NEW r \in Runs PROVE LaunchAt(r, call'[r])
    <3>1. r \in Callers  BY DEF Callers
    <3>. QED  BY <1>1, <3>1 DEF Inv, Launches
  <2>2. \A r \in Runs : LaunchAt(r, call[r])'  BY <2>1 DEF LaunchAt, Elsewhere
  <2>. QED  BY <2>2 DEF Inv, Launches, Elsewhere
<1>. QED  BY <1>2, <1>3, <1>4, <1>5, <1>6, <1>7

\* The line stays, if the caller is first in it whenever it acts.
LEMMA LineStays ==
  ASSUME Inv, NEW c \in Callers, NEW k \in Calls, call' = [call EXCEPT ![c] = k], switches' = switches,
         c \in Requests =>
           /\ Acting(k) => switches # <<>> /\ Head(switches) = c
           /\ k.at = "turn" => \E i \in DOMAIN switches : switches[i] = c
  PROVE  Line'
<1>1. call'[c] = k /\ \A d \in Callers : d # c => call'[d] = call[d]  BY Called DEF Inv
<1>2. \A d \in Requests : d \in Callers  BY DEF Callers
<1>. QED  BY <1>1, <1>2 DEF Inv, Line, Acting

\* The first of the line leaves it.
LEMMA LineMoves ==
  ASSUME Inv, NEW c \in Requests, NEW k \in Calls, call' = [call EXCEPT ![c] = k],
         switches # <<>>, Head(switches) = c, switches' = Tail(switches), ~Acting(k), k.at # "turn"
  PROVE  Line'
<1>0. c \in Callers /\ \A d \in Requests : d \in Callers  BY DEF Callers
<1>1. call'[c] = k /\ \A d \in Callers : d # c => call'[d] = call[d]  BY <1>0, Called DEF Inv
<1>2. /\ switches' \in Seq(Requests) /\ Len(switches') = Len(switches) - 1
      /\ \A i \in 1..(Len(switches) - 1) : switches'[i] = switches[i + 1]
      /\ Len(switches) \in Nat /\ switches[1] = c /\ DOMAIN switches = 1..Len(switches)
      /\ DOMAIN switches' = 1..(Len(switches) - 1)
  BY DEF Inv, Line
<1>3. ASSUME NEW d \in Requests, Acting(call'[d]) PROVE FALSE
  BY <1>0, <1>1, <1>3 DEF Inv, Line
<1>4. ASSUME NEW d \in Requests, call'[d].at = "turn" PROVE \E i \in DOMAIN switches' : switches'[i] = d
  <2>1. d # c /\ call[d].at = "turn"  BY <1>0, <1>1, <1>4
  <2>2. PICK i \in DOMAIN switches : switches[i] = d  BY <2>1 DEF Inv, Line
  <2>3. i - 1 \in DOMAIN switches' /\ switches'[i - 1] = d  BY <1>2, <2>1, <2>2
  <2>. QED  BY <2>3
<1>. QED  BY <1>2, <1>3, <1>4 DEF Line, Acting

\* Nothing happened to the checks.
LEMMA QueuesStay ==
  ASSUME Inv, UNCHANGED <<queue, running, pending>>, Waiting' = Waiting
  PROVE  Queues' /\ SameProbe
BY DEF Inv, Queues, CheckQueue, SameProbe

\* Only background checks were added.
LEMMA QueuesRecheck ==
  ASSUME Inv, NEW among \in SUBSET Accounts, RecheckIfOld(among), Waiting' = Waiting
  PROVE  Queues' /\ SameProbe
<1>1. CheckQueue(queue', pending', running', Waiting) /\ running' = running
  BY RecheckKeeps DEF Inv, Queues
<1>. QED  BY <1>1 DEF Queues, CheckQueue, SameProbe

\* A caller that was not waiting waits for a check of its account.
LEMMA LookStep ==
  ASSUME Inv, NEW c \in Callers, NEW a \in Accounts, NEW n \in 0..2, Look(c, a, n), Elsewhere,
         call[c].at # "waiting", call[c].at # "done", c \in Runs => n > 0 /\ Under(call[c]),
         switches' = switches, c \in Requests /\ n > 0 => switches # <<>> /\ Head(switches) = c
  PROVE  Inv'
<1> DEFINE k == [call[c] EXCEPT !.at = "waiting", !.account = a, !.attempt = n, !.answer = None]
<1>1. call[c] \in Calls /\ a # None  BY NoneApart DEF Inv, Places
<1>2. /\ k \in Calls /\ k.at = "waiting" /\ k.account = a /\ k.attempt = n /\ k.answer = None
      /\ k.session = call[c].session
  BY <1>1 DEF Calls
<1>3. call' = [call EXCEPT ![c] = k] /\ CheckIdentity(a, c)  BY DEF Look, Goes
<1> HIDE DEF k
<1>4. Read(k.answer) /\ StandsAt(c, k) /\ (Acting(k) => n > 0)
  BY <1>1, <1>2, NoneApart DEF Read, StandsAt, Acting
<1>5. c \in Runs => LaunchAt(c, k)
  BY <1>1, <1>2 DEF Inv, Launches, LaunchAt, Under
<1>6. CheckQueue(queue', pending', running', Waiting \cup {c}) /\ SameProbe
  <2>1. Waiting \in SUBSET Callers /\ c \notin Waiting  BY DEF Waiting
  <2>. QED  BY <1>3, <2>1, CheckIdentityKeeps DEF Inv, Queues
<1>7. Queues'
  <2>1. Waiting' = Waiting \cup {c}  BY <1>2, <1>3, WaitersGrow DEF Inv
  <2>. QED  BY <1>6, <2>1 DEF Queues, CheckQueue
<1>8. Line'  BY <1>2, <1>3, <1>4, LineStays
<1>9. Places' /\ ProbeApart' /\ Reads' /\ Stands' /\ OneLaunch' /\ Launches'
  BY <1>2, <1>3, <1>4, <1>5, <1>6, CallStep
<1>. QED  BY <1>7, <1>8, <1>9 DEF Inv

\* Refresh keeps the invariant.
LEMMA RefreshInv == ASSUME Inv, NEW c \in Requests, Refresh(c) PROVE Inv'
<1>1. PICK a \in Existing : Look(c, a, 0)  BY DEF Refresh
<1>2. c \in Callers /\ c \notin Runs /\ a \in Accounts  BY NamesApart DEF Inv, Places, Existing, Accounts,
   Callers
<1>3. Elsewhere /\ switches' = switches /\ call[c].at = "idle"  BY DEF Refresh, user, Elsewhere
<1>. QED  BY <1>1, <1>2, <1>3, LookStep

\* A request ends, and the accounts are listed.
LEMMA AnsweredRequest ==
  ASSUME Inv, NEW c \in Requests, call[c].at # "waiting", Ends(c, "done"), RecheckIfOld(Existing), Elsewhere,
         switches' = switches \/ (switches # <<>> /\ Head(switches) = c /\ switches' = Tail(switches))
  PROVE  Inv'
<1> DEFINE k == NoCall("done")
<1>0. c \in Callers /\ c \notin Runs /\ Existing \in SUBSET Accounts
  BY NamesApart DEF Callers, Inv, Places, Existing, Accounts
<1>1. call' = [call EXCEPT ![c] = k]  BY DEF Ends
<1>2. /\ k \in Calls /\ StandsAt(c, k) /\ k.at = "done" /\ Read(k.answer) /\ ~Acting(k)
  BY <1>0, Ended
<1> HIDE DEF k
<1>3. Waiting' = Waiting  BY <1>0, <1>1, <1>2, WaitersStay DEF Inv
<1>4. Queues' /\ SameProbe  BY <1>0, <1>3, QueuesRecheck
<1>5. Line'  BY <1>0, <1>1, <1>2, LineStays, LineMoves
<1>6. Places' /\ ProbeApart' /\ Reads' /\ Stands' /\ OneLaunch' /\ Launches'
  BY <1>0, <1>1, <1>2, <1>4, CallStep
<1>. QED  BY <1>4, <1>5, <1>6 DEF Inv

\* Refreshed keeps the invariant.
LEMMA RefreshedInv == ASSUME Inv, NEW c \in Requests, Refreshed(c) PROVE Inv'
BY AnsweredRequest DEF Refreshed, user, Elsewhere

\* List keeps the invariant.
LEMMA ListInv == ASSUME Inv, NEW c \in Requests, List(c) PROVE Inv'
BY AnsweredRequest DEF List, user, Elsewhere

\* A caller is refused, or goes one step further, and no check is touched.
LEMMA QuietStep ==
  ASSUME Inv, NEW c \in Callers, NEW k \in Calls, call' = [call EXCEPT ![c] = k], Elsewhere,
         UNCHANGED checks, call[c].at # "waiting", k.at # "waiting", Read(k.answer), StandsAt(c, k),
         c \in Runs => LaunchAt(c, k) /\ (Under(k) => Under(call[c]) \/ Idle)
  PROVE  Queues' /\ Places' /\ ProbeApart' /\ Reads' /\ Stands' /\ OneLaunch' /\ Launches'
<1>1. Waiting' = Waiting  BY WaitersStay DEF Inv
<1>2. Queues' /\ SameProbe  BY <1>1, QueuesStay DEF checks
<1>. QED  BY <1>2, CallStep

\* A caller is refused, and the first of the line leaves it if it was the caller.
LEMMA RefusedStep ==
  ASSUME Inv, NEW c \in Callers, Refused(c), Elsewhere, UNCHANGED checks, call[c].at \notin {"waiting",
     "done"},
         switches' = switches
         \/ (c \in Requests /\ switches # <<>> /\ Head(switches) = c /\ switches' = Tail(switches))
  PROVE  Inv'
<1> DEFINE k == NoCall("refused")
<1>1. call' = [call EXCEPT ![c] = k]  BY DEF Refused, Ends
<1>2. /\ k \in Calls /\ StandsAt(c, k) /\ k.at = "refused" /\ Read(k.answer) /\ ~Acting(k) /\ ~Under(k)
      /\ k.session = None
  BY Ended
<1> HIDE DEF k
<1>3. c \in Runs => LaunchAt(c, k)
  BY <1>2, NoneApart DEF Inv, Launches, LaunchAt, Sessions
<1>4. Line'  BY <1>1, <1>2, LineStays, LineMoves
<1>5. Queues' /\ Places' /\ ProbeApart' /\ Reads' /\ Stands' /\ OneLaunch' /\ Launches'
  BY <1>1, <1>2, <1>3, QuietStep
<1>. QED  BY <1>4, <1>5 DEF Inv

\* Activate keeps the invariant.
LEMMA ActivateInv == ASSUME Inv, NEW c \in Requests, Activate(c) PROVE Inv'
<1>0. c \in Callers /\ c \notin Runs  BY NamesApart DEF Callers
<1>1. PICK a \in Existing : Goes(c, [call[c] EXCEPT !.at = "turn", !.account = a])  BY DEF Activate
<1> DEFINE k == [call[c] EXCEPT !.at = "turn", !.account = a]
<1>2. a \in Accounts /\ a # None /\ call[c] \in Calls /\ Read(call[c].answer)
  BY <1>0, NoneApart DEF Inv, Places, Existing, Accounts, Reads
<1>3. k \in Calls /\ k.at = "turn" /\ k.account = a /\ k.answer = call[c].answer
  BY <1>2 DEF Calls
<1>4. call' = [call EXCEPT ![c] = k]  BY <1>1 DEF Goes
<1> HIDE DEF k
<1>5. StandsAt(c, k) /\ ~Acting(k) /\ Read(k.answer)  BY <1>0, <1>2, <1>3 DEF StandsAt, Acting
<1>6. Queues' /\ Places' /\ ProbeApart' /\ Reads' /\ Stands' /\ OneLaunch' /\ Launches'
  <2>1. Elsewhere /\ UNCHANGED checks /\ call[c].at = "idle"  BY DEF Activate, user, checks, Elsewhere
  <2>. QED  BY <1>0, <1>3, <1>4, <1>5, <2>1, QuietStep
<1>7. Line'
  <2>0. \A d \in Requests : d \in Callers  BY DEF Callers
  <2>1. call'[c] = k /\ \A d \in Callers : d # c => call'[d] = call[d]  BY <1>0, <1>3, <1>4, Called DEF Inv
  <2>2. switches' = Append(switches, c) /\ switches \in Seq(Requests)  BY DEF Activate, Inv, Line
  <2>3. /\ switches' \in Seq(Requests) /\ Len(switches') = Len(switches) + 1 /\ Len(switches) \in Nat
        /\ DOMAIN switches = 1..Len(switches) /\ DOMAIN switches' = 1..(Len(switches) + 1)
        /\ \A i \in 1..Len(switches) : switches'[i] = switches[i]
        /\ switches'[Len(switches) + 1] = c
        /\ switches # <<>> => switches' # <<>> /\ Head(switches') = Head(switches)
    BY <2>2
  <2>4. \A d \in Requests : Acting(call'[d]) => switches' # <<>> /\ Head(switches') = d
    BY <1>5, <2>0, <2>1, <2>3 DEF Inv, Line
  <2>5. \A d \in Requests : call'[d].at = "turn" => \E i \in DOMAIN switches' : switches'[i] = d
    <3>1. TAKE d \in Requests
    <3>2. HAVE call'[d].at = "turn"
    <3>3. CASE d = c
      <4>1. Len(switches) + 1 \in DOMAIN switches'  BY <2>3
      <4>. QED  BY <2>3, <3>3, <4>1
    <3>4. CASE d # c
      <4>1. call[d].at = "turn"  BY <2>0, <2>1, <3>2, <3>4
      <4>2. PICK i \in DOMAIN switches : switches[i] = d  BY <4>1 DEF Inv, Line
      <4>3. i \in DOMAIN switches' /\ switches'[i] = d  BY <2>3, <4>2
      <4>. QED  BY <4>3
    <3>. QED  BY <3>3, <3>4
  <2>. QED  BY <2>3, <2>4, <2>5 DEF Line, Acting
<1>. QED  BY <1>6, <1>7 DEF Inv

\* SwitchTurn keeps the invariant.
LEMMA SwitchTurnInv == ASSUME Inv, NEW c \in Requests, SwitchTurn(c) PROVE Inv'
<1>0. c \in Callers /\ c \notin Runs /\ call[c] \in Calls  BY NamesApart DEF Callers, Inv, Places
<1>1. call[c].at = "turn" /\ Head(switches) = c /\ Elsewhere  BY DEF SwitchTurn, user, checks, Elsewhere
<1>2. switches # <<>>  BY <1>1 DEF Inv, Line
<1>3. call[c].account \in Accounts  BY <1>0, <1>1 DEF Inv, Stands, StandsAt, Calls
<1>4. CASE Refused(c) /\ switches' = Tail(switches) /\ UNCHANGED checks
  BY <1>0, <1>1, <1>2, <1>4, RefusedStep
<1>5. CASE Look(c, call[c].account, 1) /\ switches' = switches
  BY <1>0, <1>1, <1>2, <1>3, <1>5, LookStep
<1>. QED  BY <1>4, <1>5 DEF SwitchTurn

\* CurrentLogin keeps the invariant.
LEMMA CurrentLoginInv == ASSUME Inv, NEW c \in Callers, CurrentLogin(c) PROVE Inv'
<1>1. call[c].at = "answered" /\ call[c].attempt > 0 /\ Elsewhere  BY DEF CurrentLogin, user, checks,
   Elsewhere
<1>2. call[c] \in Calls /\ call[c].account \in Accounts /\ call[c].account # None
      /\ call[c].answer \in Evidence \cup {Changed} /\ Read(call[c].answer)
  BY <1>1 DEF Inv, Places, Stands, StandsAt, Calls, Reads
<1>3. c \in Requests => switches # <<>> /\ Head(switches) = c
  BY <1>1 DEF Inv, Line, Acting
<1>4. CASE Current(c) /\ Goes(c, [call[c] EXCEPT !.at = "confirmed", !.attempt = 0]) /\ UNCHANGED <<checks, switches>>
  <2> DEFINE k == [call[c] EXCEPT !.at = "confirmed", !.attempt = 0]
  <2>1. /\ k \in Calls /\ k.at = "confirmed" /\ k.account = call[c].account /\ k.answer = call[c].answer
        /\ k.session = call[c].session
    <3>1. call[c] \in Calls /\ 0 \in 0..2  BY <1>2
    <3>. QED  BY <3>1 DEF Calls
  <2>2. k.answer \in Evidence  BY <1>2, <1>4, <2>1 DEF Current
  <2>3. call' = [call EXCEPT ![c] = k]  BY <1>4 DEF Goes
  <2> HIDE DEF k
  <2>4. StandsAt(c, k) /\ Read(k.answer)  BY <1>2, <2>1, <2>2 DEF StandsAt
  <2>5. c \in Runs => LaunchAt(c, k) /\ Under(call[c])
    BY <1>1, <2>1 DEF Inv, Launches, LaunchAt, Under
  <2>6. Queues' /\ Places' /\ ProbeApart' /\ Reads' /\ Stands' /\ OneLaunch' /\ Launches'
    BY <1>1, <1>4, <2>1, <2>3, <2>4, <2>5, QuietStep
  <2>7. Line'  BY <1>3, <1>4, <2>1, <2>3, LineStays
  <2>. QED  BY <2>6, <2>7 DEF Inv
<1>5. CASE Look(c, call[c].account, 2) /\ switches' = switches
  <2>1. c \in Runs => Under(call[c])  BY <1>1 DEF Under
  <2>. QED  BY <1>1, <1>2, <1>3, <1>5, <2>1, LookStep
<1>6. CASE Refused(c) /\ switches' = (IF c \in Requests THEN Tail(switches) ELSE switches) /\ UNCHANGED checks
  BY <1>1, <1>3, <1>6, RefusedStep
<1>. QED  BY <1>4, <1>5, <1>6 DEF CurrentLogin

\* Select keeps the invariant.
LEMMA SelectInv == ASSUME Inv, NEW c \in Requests, Select(c) PROVE Inv'
<1>0. c \in Callers /\ c \notin Runs /\ call[c] \in Calls  BY NamesApart DEF Callers, Inv, Places
<1>1. call[c].at = "confirmed" /\ switches' = Tail(switches)
      /\ UNCHANGED <<stored, leads, login, session, identities, owner>>  BY DEF Select
<1>2. switches # <<>> /\ Head(switches) = c  BY <1>1 DEF Inv, Line, Acting
<1>3. CASE UNCHANGED <<active, queue, running, pending>> /\ Refused(c)
  BY <1>0, <1>1, <1>2, <1>3, RefusedStep DEF Elsewhere, checks
<1>4. CASE Selectable(call[c].account, call[c].answer) /\ active' = call[c].account /\ Ends(c, "done") /\ RecheckIfOld(Existing)
  <2> DEFINE k == NoCall("done")
  <2>1. call' = [call EXCEPT ![c] = k]  BY <1>4 DEF Ends
  <2>2. k \in Calls /\ StandsAt(c, k) /\ k.at = "done" /\ Read(k.answer) /\ ~Acting(k) /\ ~Under(k)
    BY <1>0, Ended
  <2> HIDE DEF k
  <2>3. Waiting' = Waiting  BY <1>0, <1>1, <2>1, <2>2, WaitersStay DEF Inv
  <2>4. Queues' /\ SameProbe
    <3>1. Existing \in SUBSET Accounts  BY DEF Inv, Places, Existing, Accounts
    <3>. QED  BY <1>4, <2>3, <3>1, QueuesRecheck
  <2>5. Line'  BY <1>0, <1>1, <1>2, <2>1, <2>2, LineMoves
  <2>6. call' \in [Callers -> Calls] /\ call'[c] = k /\ \A d \in Callers : d # c => call'[d] = call[d]
    BY <1>0, <2>1, <2>2, Called DEF Inv
  <2>7. Places'  BY <1>1, <1>4, <2>6 DEF Inv, Places, Existing, Selectable
  <2>8. ProbeApart'  BY <1>1, <2>4 DEF Inv, ProbeApart, SameProbe
  <2>9. Reads'  BY <1>0, <1>1, <2>2, <2>6 DEF Inv, Reads, Read, Existing
  <2>10. Stands'
    <3>1. ASSUME NEW d \in Callers PROVE StandsAt(d, call'[d])  BY <2>2, <2>6 DEF Inv, Stands
    <3>. QED  BY <3>1 DEF Stands, StandsAt
  <2>11. \A r \in Runs : call'[r] = call[r]  BY <1>0, <2>6 DEF Callers
  <2>12. OneLaunch' /\ Launches'
    BY <1>1, <2>11 DEF Inv, OneLaunch, Under, Launches, LaunchAt
  <2>. QED  BY <2>4, <2>5, <2>7, <2>8, <2>9, <2>10, <2>12 DEF Inv
<1>. QED  BY <1>3, <1>4 DEF Select

(***************************************************************************)
(* Launches.                                                               *)
(***************************************************************************)
\* The login a launch would use: that of its pin or of its session, if any.
LEMMA Owned ==
  ASSUME Inv, NEW r \in Runs
  PROVE  /\ r \in Callers /\ r \notin Requests /\ call[r] \in Calls
         /\ SessionOf(r) \in Sessions \cup {None}
         /\ SessionAccount(r) \in Logins \cup {None} /\ OwnerOf(r) \in Logins \cup {None}
         /\ AccountOf(r) \in Accounts /\ AccountOf(r) # None
<1>1. r \in Callers /\ r \notin Requests /\ call[r] \in Calls  BY NamesApart DEF Callers, Inv, Places
<1>2. SessionOf(r) \in Sessions \cup {None}  BY <1>1 DEF SessionOf, Calls, Inv, Places
<1>3. SessionAccount(r) \in Logins \cup {None}  BY <1>2 DEF SessionAccount, Inv, Places
<1>4. OwnerOf(r) \in Logins \cup {None}  BY <1>1, <1>3 DEF OwnerOf, Calls
<1>5. AccountOf(r) \in Accounts  BY <1>4 DEF AccountOf, Logins, Inv, Places, Existing, Accounts
<1>. QED  BY <1>1, <1>2, <1>3, <1>4, <1>5, NoneApart

\* Submit keeps the invariant.
LEMMA SubmitInv == ASSUME Inv, NEW r \in Runs, Submit(r) PROVE Inv'
<1>0. r \in Callers /\ r \notin Requests /\ call[r] \in Calls /\ call[r].at = "idle" /\ Idle
      /\ Elsewhere /\ UNCHANGED checks /\ switches' = switches
  BY Owned DEF Submit, user, checks, Elsewhere
<1>1. PICK pin \in {None, BeforeAccounts} \cup {owner[x] : x \in Sessions} :
        \E s \in {None, session} : Goes(r, [call[r] EXCEPT !.at = "turn", !.pin = pin, !.session = s])
  BY DEF Submit
<1>2. PICK s \in {None, session} : Goes(r, [call[r] EXCEPT !.at = "turn", !.pin = pin, !.session = s])
  BY <1>1
<1> DEFINE k == [call[r] EXCEPT !.at = "turn", !.pin = pin, !.session = s]
<1>3. pin \in Logins \cup {None}
  <2>1. BeforeAccounts \in Logins  BY DEF BeforeAccounts, Logins, Accounts
  <2>. QED  BY <1>1, <2>1 DEF Inv, Places
<1>4. s \in Sessions \cup {None} /\ (s \in Runs => owner[s] # None)
  BY <1>2, NoneApart DEF Inv, Places, Launches, Sessions
<1>5. k \in Calls /\ k.at = "turn" /\ k.session = s /\ k.answer = call[r].answer
  BY <1>0, <1>3, <1>4 DEF Calls
<1>6. call' = [call EXCEPT ![r] = k]  BY <1>2 DEF Goes
<1> HIDE DEF k
<1>7. StandsAt(r, k) /\ Read(k.answer)
  BY <1>0, <1>5 DEF StandsAt, Inv, Reads
<1>8. LaunchAt(r, k)  BY <1>0, <1>4, <1>5 DEF LaunchAt, Inv, Launches
<1>9. Queues' /\ Places' /\ ProbeApart' /\ Reads' /\ Stands' /\ OneLaunch' /\ Launches'
  BY <1>0, <1>5, <1>6, <1>7, <1>8, QuietStep
<1>10. Line'  BY <1>0, <1>5, <1>6, LineStays
<1>. QED  BY <1>9, <1>10 DEF Inv

\* A launch goes ahead with the login it resolved to.
LEMMA CheckedStep ==
  ASSUME Inv, NEW r \in Runs, Checked(r), call[r].at \in {"turn", "confirmed"}
  PROVE  LET k == [call[r] EXCEPT !.at = "checked", !.account = AccountOf(r),
                                  !.home = leads[AccountOf(r)], !.answer = None] IN
         /\ k \in Calls /\ call' = [call EXCEPT ![r] = k] /\ k.at = "checked"
         /\ StandsAt(r, k) /\ Read(k.answer) /\ LaunchAt(r, k)
<1> DEFINE k == [call[r] EXCEPT !.at = "checked", !.account = AccountOf(r),
                                !.home = leads[AccountOf(r)], !.answer = None]
<1>1. call[r] \in Calls /\ AccountOf(r) \in Accounts /\ AccountOf(r) # None /\ leads[AccountOf(r)] \in Dirs
  BY Owned DEF Inv, Places
<1>2. /\ k \in Calls /\ k.at = "checked" /\ k.account = AccountOf(r) /\ k.home = leads[AccountOf(r)]
      /\ k.answer = None /\ k.session = call[r].session
  BY <1>1 DEF Calls
<1>3. call' = [call EXCEPT ![r] = k]  BY DEF Checked, Goes
<1> HIDE DEF k
<1>4. StandsAt(r, k) /\ Read(k.answer)  BY <1>1, <1>2, NoneApart DEF StandsAt, Read
<1>5. LaunchAt(r, k)  BY <1>2 DEF LaunchAt, Inv, Launches
<1>. QED  BY <1>2, <1>3, <1>4, <1>5 DEF k

\* AssertLaunchable keeps the invariant.
LEMMA AssertLaunchableInv == ASSUME Inv, NEW r \in Runs, AssertLaunchable(r) PROVE Inv'
<1>0. /\ r \in Callers /\ r \notin Requests /\ call[r] \in Calls /\ call[r].at = "turn"
      /\ AccountOf(r) \in Accounts /\ Under(call[r]) /\ Elsewhere /\ switches' = switches
  BY Owned DEF AssertLaunchable, user, checks, Elsewhere, Under
<1>1. CASE Refused(r) /\ UNCHANGED checks  BY <1>0, <1>1, RefusedStep
<1>2. CASE Look(r, AccountOf(r), 1)  BY <1>0, <1>2, LookStep
<1>3. CASE Checked(r) /\ RecheckIfOld({AccountOf(r)})
  <2>1. PICK k \in Calls : call' = [call EXCEPT ![r] = k] /\ k.at = "checked"
                           /\ StandsAt(r, k) /\ Read(k.answer) /\ LaunchAt(r, k)
    BY <1>0, <1>3, CheckedStep
  <2>2. Waiting' = Waiting  BY <1>0, <2>1, WaitersStay DEF Inv
  <2>3. Queues' /\ SameProbe  BY <1>0, <1>3, <2>2, QueuesRecheck
  <2>4. Line'  BY <1>0, <2>1, LineStays
  <2>5. Places' /\ ProbeApart' /\ Reads' /\ Stands' /\ OneLaunch' /\ Launches'
    BY <1>0, <2>1, <2>3, CallStep
  <2>. QED  BY <2>3, <2>4, <2>5 DEF Inv
<1>. QED  BY <1>1, <1>2, <1>3 DEF AssertLaunchable

\* LoginConfirmed keeps the invariant.
LEMMA LoginConfirmedInv == ASSUME Inv, NEW r \in Runs, LoginConfirmed(r) PROVE Inv'
<1>0. /\ r \in Callers /\ r \notin Requests /\ call[r].at = "confirmed" /\ Under(call[r])
      /\ Elsewhere /\ UNCHANGED checks /\ switches' = switches
  BY Owned DEF LoginConfirmed, user, checks, Elsewhere, Under
<1>1. CASE Refused(r)  BY <1>0, <1>1, RefusedStep
<1>2. CASE Checked(r)
  <2>1. PICK k \in Calls : call' = [call EXCEPT ![r] = k] /\ k.at = "checked"
                           /\ StandsAt(r, k) /\ Read(k.answer) /\ LaunchAt(r, k)
    BY <1>0, <1>2, CheckedStep
  <2>2. Queues' /\ Places' /\ ProbeApart' /\ Reads' /\ Stands' /\ OneLaunch' /\ Launches'
    BY <1>0, <2>1, QuietStep
  <2>3. Line'  BY <1>0, <2>1, LineStays
  <2>. QED  BY <2>2, <2>3 DEF Inv
<1>. QED  BY <1>1, <1>2 DEF LoginConfirmed

\* What the final resolve of a launch finds still holds of its session and its pin.
LEMMA ResolvedFits ==
  ASSUME Inv, NEW r \in Runs, call[r].at = "checked", SameAccount(r)
  PROVE  /\ Fits(call[r].pin, call[r].account, call[r].home)
         /\ SessionOf(r) # None => Fits(owner[SessionOf(r)], call[r].account, call[r].home)
<1>1. /\ call[r] \in Calls /\ SessionOf(r) \in Sessions \cup {None}
      /\ SessionAccount(r) \in Logins \cup {None} /\ OwnerOf(r) \in Logins \cup {None}
  BY Owned
<1>2. AccountOf(r) = call[r].account /\ leads[AccountOf(r)] = call[r].home /\ Resolves(r)  BY DEF SameAccount
<1>3. OwnerOf(r) # None => OwnerOf(r).account = AccountOf(r) /\ OwnerOf(r).home \in {Unrecorded, leads[AccountOf(r)]}
  BY <1>2 DEF Resolves, AccountOf
<1>4. CASE Recovery(r)
  <2>1. OwnerOf(r) = call[r].pin /\ call[r].pin # None  BY <1>4 DEF OwnerOf, Recovery
  <2>2. SessionAccount(r) # None =>
          /\ SessionAccount(r).account = AccountOf(r)
          /\ KeyOf(SessionAccount(r), AccountOf(r)) = KeyOf(call[r].pin, AccountOf(r))
    BY <1>2, <1>4 DEF Resolves, PinFits
  <2>3. KeyOf(call[r].pin, AccountOf(r)) = leads[AccountOf(r)]  BY <1>3, <2>1 DEF KeyOf
  <2>4. Fits(SessionAccount(r), AccountOf(r), leads[AccountOf(r)])  BY <2>2, <2>3 DEF KeyOf, Fits
  <2>. QED  BY <1>2, <1>3, <2>1, <2>4 DEF Fits, SessionAccount
<1>5. CASE ~Recovery(r)
  <2>1. OwnerOf(r) = SessionAccount(r) /\ call[r].pin = None  BY <1>5 DEF OwnerOf, Recovery
  <2>. QED  BY <1>2, <1>3, <2>1 DEF Fits, SessionAccount
<1>. QED  BY <1>4, <1>5

\* ResolveChecked keeps the invariant.
LEMMA ResolveCheckedInv == ASSUME Inv, NEW r \in Runs, ResolveChecked(r) PROVE Inv'
<1>0. /\ r \in Callers /\ r \notin Requests /\ call[r] \in Calls /\ call[r].at = "checked" /\ Under(call[r])
      /\ AccountOf(r) \in Accounts /\ Elsewhere /\ switches' = switches /\ SessionOf(r) \in Sessions \cup {None}
  BY Owned DEF ResolveChecked, user, checks, Elsewhere, Under
<1>1. CASE Refused(r) /\ UNCHANGED checks  BY <1>0, <1>1, RefusedStep
<1>2. CASE SameAccount(r) /\ RecheckIfOld({AccountOf(r)})
           /\ Goes(r, [call[r] EXCEPT !.at = "launching", !.session = IF SessionOf(r) = None THEN r ELSE SessionOf(r)])
  <2> DEFINE s == IF SessionOf(r) = None THEN r ELSE SessionOf(r)
             k == [call[r] EXCEPT !.at = "launching", !.session = s]
  <2>1. s \in Sessions /\ s # None  BY <1>0, NoneApart DEF Sessions
  <2>2. /\ k \in Calls /\ k.at = "launching" /\ k.session = s /\ k.account = call[r].account
        /\ k.home = call[r].home /\ k.pin = call[r].pin /\ k.answer = call[r].answer
    BY <1>0, <2>1 DEF Calls
  <2>3. call' = [call EXCEPT ![r] = k]  BY <1>2 DEF Goes
  <2>4. owner[r] = None  BY <1>0 DEF Inv, Launches, LaunchAt
  <2>5. Fits(k.pin, k.account, k.home) /\ Fits(owner[s], k.account, k.home)
    BY <1>0, <1>2, <2>2, <2>4, ResolvedFits DEF Fits
  <2>6. s \in Runs => owner[s] # None \/ s = r
    BY <1>0 DEF SessionOf, Inv, Launches, LaunchAt
  <2> HIDE DEF k, s
  <2>7. StandsAt(r, k) /\ Read(k.answer) /\ LaunchAt(r, k)
    BY <1>0, <2>1, <2>2, <2>4, <2>5, <2>6 DEF StandsAt, LaunchAt, Inv, Stands, Reads
  <2>8. Waiting' = Waiting  BY <1>0, <2>2, <2>3, WaitersStay DEF Inv
  <2>9. Queues' /\ SameProbe  BY <1>0, <1>2, <2>8, QueuesRecheck
  <2>10. Line'  BY <1>0, <2>2, <2>3, LineStays
  <2>11. Places' /\ ProbeApart' /\ Reads' /\ Stands' /\ OneLaunch' /\ Launches'
    BY <1>0, <2>2, <2>3, <2>7, <2>9, CallStep
  <2>. QED  BY <2>9, <2>10, <2>11 DEF Inv
<1>. QED  BY <1>1, <1>2 DEF ResolveChecked

\* Launch keeps the invariant.
LEMMA LaunchInv == ASSUME Inv, NEW r \in Runs, Launch(r) PROVE Inv'
<1>0. /\ r \in Callers /\ r \notin Requests /\ call[r] \in Calls /\ call[r].at = "launching" /\ Under(call[r])
      /\ switches' = switches /\ UNCHANGED <<checks, stored, active, leads, login, identities, session>>
  BY Owned DEF Launch, user, checks, Under
<1>1. CASE Refused(r) /\ UNCHANGED owner  BY <1>0, <1>1, RefusedStep DEF Elsewhere
<1>2. CASE /\ Ends(r, "done")
           /\ owner' = [owner EXCEPT ![call[r].session] = [account |-> call[r].account, home |-> call[r].home]]
  <2> DEFINE k == NoCall("done")
             o == [account |-> call[r].account, home |-> call[r].home]
             s == call[r].session
  <2>1. call' = [call EXCEPT ![r] = k]  BY <1>2 DEF Ends
  <2>2. /\ k \in Calls /\ StandsAt(r, k) /\ k.at = "done" /\ Read(k.answer) /\ ~Acting(k) /\ ~Under(k)
        /\ k.session = None
    BY <1>0, Ended
  <2>3. s \in Sessions /\ (s \in Runs => owner[s] # None \/ s = r)
    BY <1>0 DEF Inv, Launches, LaunchAt, Calls
  <2>4. o \in Logins /\ o # None
    BY <1>0, NoneApart DEF Inv, Stands, StandsAt, Calls, Logins
  <2>5. owner' = [owner EXCEPT ![s] = o]  BY <1>2
  <2> HIDE DEF k, o, s
  <2>6. /\ owner' \in [Sessions -> Logins \cup {None}] /\ owner'[s] = o
        /\ \A x \in Sessions : x # s => owner'[x] = owner[x]
    BY <2>3, <2>4, <2>5 DEF Inv, Places
  <2>7. call' \in [Callers -> Calls] /\ call'[r] = k /\ \A d \in Callers : d # r => call'[d] = call[d]
    BY <1>0, <2>1, <2>2, Called DEF Inv
  <2>8. Waiting' = Waiting  BY <1>0, <2>1, <2>2, WaitersStay DEF Inv
  <2>9. Queues' /\ SameProbe  BY <1>0, <2>8, QueuesStay DEF checks
  <2>10. Line'  BY <1>0, <2>1, <2>2, LineStays
  <2>11. Places'  BY <1>0, <2>6, <2>7 DEF Inv, Places, Existing
  <2>12. ProbeApart'  BY <1>0, <2>9 DEF Inv, ProbeApart, SameProbe
  <2>13. Reads'  BY <1>0, <2>2, <2>7 DEF Inv, Reads, Read, Existing
  <2>14. Stands'
    <3>1. ASSUME NEW d \in Callers PROVE StandsAt(d, call'[d])  BY <2>2, <2>7 DEF Inv, Stands
    <3>. QED  BY <3>1 DEF Stands, StandsAt
  <2>15. \A x \in Runs : x \in Callers /\ x \in Sessions  BY DEF Callers, Sessions
  <2>16. OneLaunch'  BY <2>2, <2>7, <2>15 DEF Inv, OneLaunch, Under
  <2>17. \A x \in Runs : owner[x] # None => owner'[x] # None  BY <2>4, <2>6, <2>15
  <2>18. Launches'
    <3>1. session' \in Runs => owner'[session'] # None  BY <1>0, <2>17 DEF Inv, Launches
    <3>2. ASSUME NEW x \in Runs
          PROVE  /\ owner'[x] # None => call'[x].at = "done"
                 /\ call'[x].session \in Runs => owner'[call'[x].session] # None \/ call'[x].session = x
                 /\ call'[x].at # "launching"
      <4>1. CASE x = r
        BY <2>2, <2>7, <2>15, <4>1, NoneApart
      <4>2. CASE x # r
        <5>1. call'[x] = call[x]  BY <2>7, <2>15, <4>2
        <5>2. ~Under(call[x])  BY <1>0, <4>2 DEF Inv, OneLaunch
        <5>3. x = s => owner[x] # None  BY <2>3, <4>2
        <5>4. owner'[x] # None => owner[x] # None  BY <2>6, <2>15, <5>3
        <5>. QED  BY <2>17, <5>1, <5>2, <5>4 DEF Inv, Launches, LaunchAt, Under
      <4>. QED  BY <4>1, <4>2
    <3>. QED  BY <3>1, <3>2 DEF Launches, LaunchAt
  <2>. QED  BY <2>9, <2>10, <2>11, <2>12, <2>13, <2>14, <2>16, <2>18 DEF Inv
<1>. QED  BY <1>1, <1>2 DEF Launch

(***************************************************************************)
(* Checks, and the user.                                                   *)
(***************************************************************************)
\* The first check of the queue becomes the one under way, with its callers.
LEMMA StartCheckInv == ASSUME Inv, StartCheck PROVE Inv'
<1>1. running = None /\ queue # <<>> /\ UNCHANGED <<user, identities, call, switches, owner>>  BY DEF StartCheck
<1> DEFINE c == Head(queue)
           n == queue'
<1>2. queue \in Seq(Checks) /\ n = Tail(queue)  BY DEF StartCheck, Inv, Queues, CheckQueue
<1>3. /\ n \in Seq(Checks) /\ c \in Checks /\ Len(queue) \in Nat /\ c = queue[1]
      /\ DOMAIN queue = 1..Len(queue) /\ 1 \in DOMAIN queue /\ DOMAIN n = 1..(Len(queue) - 1)
      /\ \A i \in 1..(Len(queue) - 1) : n[i] = queue[i + 1]
  <2> HIDE DEF n, c
  <2>1. /\ n \in Seq(Checks) /\ Len(n) = Len(queue) - 1 /\ Len(queue) \in Nat /\ Len(queue) > 0
        /\ \A i \in 1..(Len(queue) - 1) : n[i] = queue[i + 1]
    BY <1>1, <1>2
  <2>2. c = queue[1] /\ c \in Checks  BY <1>1, <1>2 DEF c
  <2>. QED  BY <1>2, <2>1, <2>2
<1>4. /\ running' = [account |-> c.account, callers |-> c.callers, key |-> leads[c.account], from |-> None, status |-> None]
      /\ pending' = [pending EXCEPT ![c.account] = "running"]
  BY DEF StartCheck
<1> HIDE DEF c, n
<1>5. /\ running' \in Probes /\ running' # None /\ running'.account = c.account /\ running'.callers = c.callers
      /\ running'.from = None
  <2>1. c.account \in Accounts /\ c.callers \in SUBSET Callers  BY <1>3 DEF Checks
  <2>2. leads[c.account] \in Dirs  BY <2>1 DEF Inv, Places
  <2>3. running' \in Probes  BY <1>4, <2>1, <2>2 DEF Probes
  <2>. QED  BY <1>4, <2>3, NoneApart
<1>6. Waiting' = Waiting  BY <1>1 DEF Waiting
<1>7. Queues'
  <2> USE DEF CheckQueue
  <2>0. CheckQueue(queue, pending, running, Waiting)  BY DEF Inv, Queues
  <2>1. /\ pending' \in [Accounts -> {"queued", "running", None}]
        /\ \A a \in Accounts : pending'[a] = "running" => a = c.account
        /\ \A a \in Accounts : pending'[a] = "queued" => pending[a] = "queued" /\ a # c.account
    BY <1>1, <1>4, <2>0
  <2>2. \A i \in DOMAIN n : i + 1 \in DOMAIN queue /\ i + 1 # 1 /\ n[i] = queue[i + 1]  BY <1>3
  <2>3. ASSUME NEW a \in Accounts, pending'[a] = "queued" PROVE \E i \in DOMAIN n : n[i].account = a
    <3>1. PICK i \in DOMAIN queue : queue[i].account = a  BY <2>0, <2>1, <2>3
    <3>2. i # 1  BY <1>3, <2>1, <2>3, <3>1
    <3>3. i - 1 \in DOMAIN n /\ n[i - 1] = queue[i]  BY <1>3, <3>2
    <3>. QED  BY <3>1, <3>3
  <2>4. \A i \in DOMAIN n : n[i].callers \subseteq Waiting /\ n[i].callers \cap c.callers = {}
    BY <1>3, <2>0, <2>2
  <2>5. ASSUME NEW i \in DOMAIN n, NEW j \in DOMAIN n, i # j PROVE n[i].callers \cap n[j].callers = {}
    <3>1. i + 1 # j + 1  BY <1>3, <2>5
    <3>. QED  BY <2>0, <2>2, <3>1
  <2>6. c.callers \subseteq Waiting  BY <1>3, <2>0
  <2>7. CheckQueue(n, pending', running', Waiting)
    BY <1>3, <1>5, <2>1, <2>3, <2>4, <2>5, <2>6
  <2>. QED  BY <1>6, <2>7 DEF Queues, n
<1>8. Places' /\ Line' /\ ProbeApart' /\ Reads' /\ Stands' /\ OneLaunch' /\ Launches'
  <2>1. ProbeApart'  BY <1>5 DEF ProbeApart
  <2> USE <1>1 DEF user, Inv
  <2>2. Places' /\ Line' /\ Reads'  BY DEF Places, Existing, Line, Acting, Reads, Read
  <2>3. Stands' /\ OneLaunch' /\ Launches'  BY DEF Stands, StandsAt, OneLaunch, Under, Launches, LaunchAt
  <2>. QED  BY <2>1, <2>2, <2>3
<1>. QED  BY <1>7, <1>8 DEF Inv

\* A probe reads the directory the account leads to by then, and notices if it is another.
LEMMA ProbeInv == ASSUME Inv, ProbeIdentity PROVE Inv'
<1>1. /\ running # None /\ running.from = None
      /\ UNCHANGED <<user, identities, queue, pending, call, switches, owner>>  BY DEF ProbeIdentity
<1>2. running \in Probes  BY <1>1 DEF Inv, Queues, CheckQueue
<1>3. PICK status \in {login[leads[running.account]], "unknown"} :
        running' = [running EXCEPT !.from = leads[running.account], !.status = status]
  BY DEF ProbeIdentity
<1>4. leads[running.account] \in Dirs /\ status \in Statuses /\ status # None
  <2>1. running.account \in Accounts  BY <1>2 DEF Probes
  <2>2. leads[running.account] \in Dirs  BY <2>1 DEF Inv, Places
  <2>3. login[leads[running.account]] \in {"in", "out"}  BY <2>2 DEF Inv, Places
  <2>. QED  BY <1>3, <2>2, <2>3, NoneApart DEF Statuses
<1>5. /\ running' \in Probes /\ running'.account = running.account /\ running'.callers = running.callers
      /\ running'.key = running.key /\ running'.from = leads[running.account] /\ running'.status = status
  BY <1>2, <1>3, <1>4 DEF Probes
<1>6. running' # None  BY <1>5, NoneApart
<1>7. Waiting' = Waiting  BY <1>1 DEF Waiting
<1>8. Queues'  BY <1>1, <1>5, <1>6, <1>7 DEF Inv, Queues, CheckQueue
<1>9. ProbeApart'  BY <1>1, <1>4, <1>5 DEF ProbeApart, user
<1>10. Places' /\ Line' /\ Reads' /\ Stands' /\ OneLaunch' /\ Launches'
  <2> USE <1>1 DEF user, Inv
  <2>1. Places' /\ Line' /\ Reads'  BY DEF Places, Existing, Line, Acting, Reads, Read
  <2>2. Stands' /\ OneLaunch' /\ Launches'  BY DEF Stands, StandsAt, OneLaunch, Under, Launches, LaunchAt
  <2>. QED  BY <2>1, <2>2
<1>. QED  BY <1>8, <1>9, <1>10 DEF Inv

\* A check that ends answers its callers, and records what it read only where it read it.
LEMMA SettleCheckInv == ASSUME Inv, SettleCheck PROVE Inv'
<1> DEFINE p == running
           result == [key |-> p.key, status |-> p.status, from |-> p.from]
           settled == IF Unchanged(p) THEN result ELSE Changed
<1>1. /\ running # None /\ running.from # None /\ running' = None
      /\ UNCHANGED <<user, queue, switches, owner>>
      /\ identities' = IF p.account \in Existing /\ Unchanged(p)
                         THEN [identities EXCEPT ![p.account] = result] ELSE identities
      /\ call' = [w \in Callers |-> IF w \notin p.callers THEN call[w]
                                    ELSE [call[w] EXCEPT !.at = "answered", !.answer = settled]]
      /\ pending' = IF pending[p.account] = "running" THEN [pending EXCEPT ![p.account] = None] ELSE pending
  BY DEF SettleCheck
<1>2. p \in Probes /\ p.status # None /\ p.account \in Accounts /\ p.callers \subseteq Waiting
  BY <1>1 DEF Inv, Queues, CheckQueue, ProbeApart, Probes
<1>3. result \in Evidence /\ result.from = p.from /\ result.key = p.key
  BY <1>1, <1>2 DEF Probes, Evidence
<1>4. Unchanged(p) => p.from = p.key
  BY <1>1 DEF Unchanged, Inv, ProbeApart
<1>5. settled \in Evidence \cup {Changed} /\ settled # None /\ Read(settled)
  BY <1>3, <1>4, NoneApart DEF Read
<1> HIDE DEF settled
<1>6. ASSUME NEW w \in Callers, w \in p.callers
      PROVE  /\ call[w] \in Calls /\ call'[w] \in Calls /\ call'[w].at = "answered" /\ call'[w].answer = settled
             /\ call'[w].account = call[w].account /\ call'[w].attempt = call[w].attempt
             /\ call'[w].session = call[w].session /\ call[w].at = "waiting"
  <2>1. call[w] \in Calls /\ call[w].at = "waiting"  BY <1>2, <1>6 DEF Waiting, Inv, Places
  <2>2. call'[w] = [call[w] EXCEPT !.at = "answered", !.answer = settled]  BY <1>1, <1>6
  <2>. QED  BY <1>5, <2>1, <2>2 DEF Calls
<1>7. \A w \in Callers : w \notin p.callers => call'[w] = call[w]  BY <1>1
<1>8. Places'
  <2>1. \A w \in Callers : call'[w] \in Calls  BY <1>6, <1>7 DEF Inv, Places
  <2>2. call' = [w \in Callers |-> call'[w]]  BY <1>1
  <2>3. call' \in [Callers -> Calls]  BY <2>1, <2>2
  <2>4. identities' \in [Accounts -> Evidence \cup {None}]  BY <1>1, <1>2, <1>3 DEF Inv, Places
  <2>. QED  BY <1>1, <2>3, <2>4 DEF Inv, Places, user, Existing
<1>9. Queues'
  <2>0. CheckQueue(queue, pending, running, Waiting)  BY DEF Inv, Queues
  <2>1. Waiting' = Waiting \ p.callers  BY <1>6, <1>7 DEF Waiting
  <2>2. /\ pending' \in [Accounts -> {"queued", "running", None}]
        /\ \A a \in Accounts : pending'[a] # "running" /\ (pending'[a] = "queued" => pending[a] = "queued")
    BY <1>1, <1>2, <2>0, NoneApart DEF CheckQueue
  <2>3. \A i \in DOMAIN queue : queue[i].callers \subseteq Waiting \ p.callers
    BY <1>1, <2>0 DEF CheckQueue
  <2>. QED  BY <1>1, <2>0, <2>1, <2>2, <2>3 DEF Queues, CheckQueue
<1>10. Line'
  <2>1. \A c \in Requests : c \in Callers  BY DEF Callers
  <2>2. \A c \in Requests : Acting(call'[c]) => Acting(call[c])
    BY <1>6, <1>7, <2>1 DEF Acting
  <2>3. \A c \in Requests : call'[c].at = "turn" => call[c].at = "turn"  BY <1>6, <1>7, <2>1
  <2>. QED  BY <1>1, <2>2, <2>3 DEF Inv, Line, Acting
<1>11. ProbeApart'  BY <1>1 DEF ProbeApart
<1>12. Reads'
  <2>1. \A a \in Accounts : identities'[a] # None => a \in Existing /\ Read(identities'[a])
    BY <1>1, <1>2, <1>3, <1>4 DEF Inv, Places, Reads, Read
  <2>2. \A c \in Callers : Read(call'[c].answer)  BY <1>5, <1>6, <1>7 DEF Inv, Reads
  <2>. QED  BY <1>1, <2>1, <2>2 DEF Reads, Read, Existing, user
<1>13. Stands'
  <2>1. ASSUME NEW c \in Callers PROVE StandsAt(c, call'[c])
    <3>1. StandsAt(c, call[c])  BY DEF Inv, Stands
    <3>2. CASE c \in p.callers  BY <1>5, <1>6, <3>1, <3>2 DEF StandsAt
    <3>3. CASE c \notin p.callers  BY <1>7, <3>1, <3>3
    <3>. QED  BY <3>2, <3>3
  <2>. QED  BY <2>1 DEF Stands, StandsAt
<1>14. \A r \in Runs : r \in Callers /\ (Under(call'[r]) => Under(call[r]))
  BY <1>6, <1>7 DEF Callers, Under
<1>15. OneLaunch'  BY <1>14 DEF Inv, OneLaunch, Under
<1>16. Launches'
  <2>1. ASSUME NEW r \in Runs PROVE LaunchAt(r, call'[r])
    <3>1. LaunchAt(r, call[r]) /\ r \in Callers  BY <1>14 DEF Inv, Launches
    <3>2. CASE r \in p.callers  BY <1>6, <3>1, <3>2 DEF LaunchAt
    <3>3. CASE r \notin p.callers  BY <1>7, <3>1, <3>3
    <3>. QED  BY <3>2, <3>3
  <2>. QED  BY <1>1, <2>1 DEF Inv, Launches, LaunchAt, user
<1>. QED  BY <1>8, <1>9, <1>10, <1>11, <1>12, <1>13, <1>15, <1>16 DEF Inv

\* What the user does outside of the program keeps the invariant: it moves no caller.
LEMMA UserInv == ASSUME Inv, User PROVE Inv'
<1>0. UNCHANGED <<call, switches, owner>> /\ Waiting' = Waiting  BY DEF User, Waiting
<1>1. Line' /\ Stands' /\ OneLaunch'
  BY <1>0 DEF Inv, Line, Acting, Stands, StandsAt, OneLaunch, Under
<1>2. CASE Repoint /\ UNCHANGED checks
  <2>1. PICK a \in Accounts, d \in Dirs :
          /\ running # None => running.account # a \/ running.key # d
          /\ leads' = [leads EXCEPT ![a] = d]
    BY <1>2 DEF Repoint
  <2>2. UNCHANGED <<stored, active, login, session, identities, queue, running, pending>>  BY <1>2 DEF Repoint, checks
  <2>3. Queues'  BY <1>0, <2>2 DEF Inv, Queues, CheckQueue
  <2>4. Places' /\ Reads' /\ Launches'
    BY <1>0, <2>1, <2>2 DEF Inv, Places, Reads, Read, Existing, Launches, LaunchAt
  <2>5. ProbeApart'
    <3>1. running # None => running.account \in Accounts  BY DEF Inv, Queues, CheckQueue, Probes
    <3>. QED  BY <2>1, <2>2, <3>1 DEF Inv, ProbeApart, Places
  <2>. QED  BY <1>1, <2>3, <2>4, <2>5 DEF Inv
<1>3. CASE (SignInOrOut \/ SetSession) /\ UNCHANGED checks
  <2>1. UNCHANGED <<stored, active, leads, identities, queue, running, pending>>
    BY <1>3 DEF SignInOrOut, SetSession, checks
  <2>2. Queues' /\ ProbeApart' /\ Reads'
    BY <1>0, <2>1 DEF Inv, Queues, CheckQueue, ProbeApart, Reads, Read, Existing
  <2>3. login' \in [Dirs -> {"in", "out"}]
    BY <1>3 DEF SignInOrOut, SetSession, Inv, Places
  <2>4. session' \in Sessions \cup {None} /\ (session' \in Runs => owner[session'] # None)
    BY <1>3, NoneApart DEF SignInOrOut, SetSession, Inv, Places, Launches, Sessions
  <2>5. Places' /\ Launches'
    BY <1>0, <2>1, <2>3, <2>4 DEF Inv, Places, Existing, Launches, LaunchAt
  <2>. QED  BY <1>1, <2>2, <2>5 DEF Inv
<1>4. CASE RemoveAccount
  <2>1. PICK a \in stored \ {active} :
          /\ stored' = stored \ {a} /\ identities' = [identities EXCEPT ![a] = None]
          /\ RecheckIfOld(Existing \ {a})
    BY <1>4 DEF RemoveAccount
  <2>2. UNCHANGED <<active, leads, login, session>>  BY <1>4 DEF RemoveAccount
  <2>3. Existing \ {a} \in SUBSET Accounts /\ a \in Accounts  BY DEF Inv, Places, Existing, Accounts
  <2>4. Queues' /\ SameProbe  BY <1>0, <2>1, <2>3, QueuesRecheck
  <2>5. ProbeApart'  BY <2>2, <2>4 DEF Inv, ProbeApart, SameProbe
  <2>6. Existing' = Existing \ {a}
    BY <2>1, NamesApart DEF Existing, Inv, Places
  <2>7. Places'  BY <1>0, <2>1, <2>2, <2>3, <2>6 DEF Inv, Places
  <2>8. Reads'  BY <1>0, <2>1, <2>3, <2>6 DEF Inv, Places, Reads, Read
  <2>9. Launches'  BY <1>0, <2>2 DEF Inv, Launches, LaunchAt
  <2>. QED  BY <1>1, <2>4, <2>5, <2>7, <2>8, <2>9 DEF Inv
<1>. QED  BY <1>2, <1>3, <1>4 DEF User

\* The invariant holds at the start.
LEMMA InitInv == ASSUME Init PROVE Inv
<1> USE DEF Init
<1>1. \A c \in Callers : call[c] = NoCall("idle")  OBVIOUS
<1>2. \A c \in Callers : call[c] \in Calls /\ StandsAt(c, call[c]) /\ call[c].at = "idle" /\ Read(call[c].answer)
                         /\ ~Under(call[c]) /\ ~Acting(call[c]) /\ call[c].session = None
  BY <1>1, Ended
<1>3. Waiting = {}  BY <1>2 DEF Waiting
<1>4. owner \in [Sessions -> Logins \cup {None}] /\ \A r \in Runs : owner[r] = None
  <2>1. PICK o \in {None, BeforeAccounts} \cup {[account |-> a, home |-> leads[a]] : a \in Accounts} :
          owner = [s \in Sessions |-> IF s = Old THEN o ELSE None]
    OBVIOUS
  <2>2. BeforeAccounts \in Logins  BY DEF BeforeAccounts, Logins, Accounts
  <2>3. \A a \in Accounts : [account |-> a, home |-> leads[a]] \in Logins  BY DEF Logins
  <2>4. o \in Logins \cup {None}  BY <2>1, <2>2, <2>3
  <2>. QED  BY <2>1, <2>4, NamesApart DEF Sessions
<1>5. Places
  <2>1. leads \in [Accounts -> Dirs] /\ login \in [Dirs -> {"in", "out"}]  OBVIOUS
  <2>2. call \in [Callers -> Calls]  BY <1>2
  <2>3. session \in Sessions \cup {None}  BY DEF Sessions
  <2>. QED  BY <1>4, <2>1, <2>2, <2>3 DEF Places, Existing
<1>6. Queues  BY <1>3, NoneApart DEF Queues, CheckQueue
<1>7. Line
  <2>1. \A c \in Requests : ~Acting(call[c]) /\ call[c].at # "turn"  BY <1>2 DEF Callers
  <2>. QED  BY <2>1 DEF Line
<1>8. ProbeApart /\ Reads /\ Stands  BY <1>2 DEF ProbeApart, Reads, Stands
<1>9. OneLaunch  BY <1>2 DEF OneLaunch, Callers
<1>10. Launches
  <2>1. session \notin Runs  BY NamesApart, NoneApart DEF Sessions
  <2>2. None \notin Runs  BY NoneApart DEF Sessions
  <2>. QED  BY <1>2, <1>4, <2>1, <2>2 DEF Launches, LaunchAt, Callers
<1>. QED  BY <1>5, <1>6, <1>7, <1>8, <1>9, <1>10 DEF Inv

\* A step that changes nothing keeps the invariant.
LEMMA StutterInv == ASSUME Inv, UNCHANGED vars PROVE Inv'
<1> USE DEF vars, user, checks, Inv
<1>1. Places' /\ Queues'  BY DEF Places, Existing, Queues, CheckQueue, Waiting
<1>2. Line' /\ ProbeApart' /\ Reads'  BY DEF Line, Acting, ProbeApart, Reads, Read, Existing
<1>3. Stands' /\ OneLaunch' /\ Launches'  BY DEF Stands, StandsAt, OneLaunch, Under, Launches, LaunchAt
<1>. QED  BY <1>1, <1>2, <1>3

\* Every step keeps the invariant.
LEMMA NextInv == ASSUME Inv, [Next]_vars PROVE Inv'
<1>1. CASE UNCHANGED vars  BY <1>1, StutterInv
<1>2. CASE StartCheck  BY <1>2, StartCheckInv
<1>3. CASE ProbeIdentity  BY <1>3, ProbeInv
<1>4. CASE SettleCheck  BY <1>4, SettleCheckInv
<1>5. CASE User  BY <1>5, UserInv
<1>6. ASSUME NEW c \in Callers, CurrentLogin(c) PROVE Inv'  BY <1>6, CurrentLoginInv
<1>7. ASSUME NEW c \in Requests,
             Refresh(c) \/ Refreshed(c) \/ List(c) \/ Activate(c) \/ SwitchTurn(c) \/ Select(c)
      PROVE  Inv'
  BY <1>7, RefreshInv, RefreshedInv, ListInv, ActivateInv, SwitchTurnInv, SelectInv
<1>8. ASSUME NEW r \in Runs,
             Submit(r) \/ AssertLaunchable(r) \/ LoginConfirmed(r) \/ ResolveChecked(r) \/ Launch(r)
      PROVE  Inv'
  BY <1>8, SubmitInv, AssertLaunchableInv, LoginConfirmedInv, ResolveCheckedInv, LaunchInv
<1>. QED  BY <1>1, <1>2, <1>3, <1>4, <1>5, <1>6, <1>7, <1>8 DEF Next

\* The inductive invariant holds in every behaviour.
THEOREM Invariance == Spec => []Inv
<1>1. Init => Inv  BY InitInv
<1>2. Inv /\ [Next]_vars => Inv'  BY NextInv
<1>. QED  BY <1>1, <1>2, PTL DEF Spec

\* An identity the program has recorded for an account was read from the login directory it
\* names, for an account that exists, however often directories are repointed while probes run
\* (provider-accounts.mjs, confirm and checkIdentity).
THEOREM Evident == Spec => []EvidenceIsItsLogins
<1>1. ASSUME Inv PROVE EvidenceIsItsLogins
  <2>1. TypeOK
    BY <1>1 DEF Inv, Places, Queues, CheckQueue, Line, TypeOK, Existing, Accounts
  <2>2. \A a \in Accounts : identities[a] # None => a \in Existing /\ identities[a].from = identities[a].key
    BY <1>1 DEF Inv, Places, Reads, Read
  <2>. QED  BY <1>1, <2>1, <2>2 DEF Inv, Places, EvidenceIsItsLogins
<1>. QED  BY <1>1, Invariance, PTL

\* Only the end of a switch changes the active account.
LEMMA OnlySelect ==
  ASSUME Inv, [Next]_vars, active' # active
  PROVE  \E c \in Requests : Select(c)
BY DEF Next, vars, user, StartCheck, ProbeIdentity, SettleCheck, User, Repoint, SignInOrOut, RemoveAccount,
   SetSession, CurrentLogin, Refresh, Refreshed, List, Activate, SwitchTurn, Submit, AssertLaunchable,
   LoginConfirmed, ResolveChecked, Launch

\* The active account changes only to one that the request was for, confirmed signed in by a
\* probe of the directory the account leads to at that very step, and that is not the default
\* login under another name (provider-accounts.mjs, activate).
THEOREM Switches == Spec => SwitchedOnEvidence
<1> DEFINE Step == active' # active =>
       \E c \in Requests :
         /\ call[c].account = active' /\ call[c].at = "confirmed" /\ call'[c].at = "done"
         /\ call[c].answer.status = "in" /\ call[c].answer.from = leads[active']
         /\ ~SameAsDefault(active')
<1>1. ASSUME Inv, [Next]_vars PROVE Step
  <2>1. SUFFICES ASSUME active' # active PROVE Step  OBVIOUS
  <2>2. PICK c \in Requests : Select(c)  BY <1>1, <2>1, OnlySelect
  <2>3. c \in Callers /\ call[c].at = "confirmed"  BY <2>2 DEF Callers, Select
  <2>4. Selectable(call[c].account, call[c].answer) /\ active' = call[c].account /\ Ends(c, "done")
    BY <2>1, <2>2 DEF Select
  <2>5. call'[c].at = "done"
    <3>1. call' = [call EXCEPT ![c] = NoCall("done")]  BY <2>4 DEF Ends
    <3>. QED  BY <1>1, <2>3, <3>1, Called, Ended DEF Inv
  <2>6. call[c].answer.from = call[c].answer.key
    BY <1>1, <2>3 DEF Inv, Stands, StandsAt, Reads, Read
  <2>. QED  BY <2>3, <2>4, <2>5, <2>6 DEF Selectable
<1>2. Inv /\ [Next]_vars => [Step]_vars  BY <1>1
<1>. QED  BY <1>2, Invariance, PTL DEF Spec, SwitchedOnEvidence

\* Only Launch ends a launch that was about to start its run.
LEMMA OnlyLaunch ==
  ASSUME Inv, [Next]_vars, NEW r \in Runs, call[r].at = "launching", call'[r].at = "done"
  PROVE  Launch(r)
<1>0. r \in Callers /\ r \notin Requests /\ call \in [Callers -> Calls]  BY NamesApart DEF Callers, Inv,
   Places
<1>1. ASSUME NEW c \in Callers, NEW k, call' = [call EXCEPT ![c] = k] PROVE c = r
  BY <1>0, <1>1
<1>2. call' # call  BY <1>0
<1>3. ~SettleCheck
  <2>1. running # None => running.callers \subseteq Waiting  BY DEF Inv, Queues, CheckQueue
  <2>2. SettleCheck => call'[r] = call[r]  BY <1>0, <2>1 DEF SettleCheck, Waiting
  <2>. QED  BY <2>2
<1>4. ~(StartCheck \/ ProbeIdentity \/ User \/ UNCHANGED vars)
  BY <1>2 DEF StartCheck, ProbeIdentity, User, vars
<1>5. ASSUME NEW c \in Callers, CurrentLogin(c) PROVE FALSE
  <2>1. call[c].at = "answered" /\ \E k : call' = [call EXCEPT ![c] = k]
    BY <1>5 DEF CurrentLogin, Goes, Look, Refused, Ends
  <2>. QED  BY <1>1, <2>1
<1>6. ASSUME NEW c \in Requests,
             Refresh(c) \/ Refreshed(c) \/ List(c) \/ Activate(c) \/ SwitchTurn(c) \/ Select(c)
      PROVE  FALSE
  <2>1. c \in Callers /\ \E k : call' = [call EXCEPT ![c] = k]
    BY <1>6 DEF Callers, Refresh, Refreshed, List, Activate, SwitchTurn, Select, Goes, Look, Refused, Ends
  <2>. QED  BY <1>0, <1>1, <2>1
<1>7. ASSUME NEW s \in Runs, Submit(s) \/ AssertLaunchable(s) \/ LoginConfirmed(s) \/ ResolveChecked(s)
      PROVE  FALSE
  <2>1. s \in Callers /\ call[s].at # "launching" /\ \E k : call' = [call EXCEPT ![s] = k]
    BY <1>7 DEF Callers, Submit, AssertLaunchable, LoginConfirmed, ResolveChecked, Checked, Goes, Look,
       Refused, Ends
  <2>. QED  BY <1>1, <2>1
<1>8. ASSUME NEW s \in Runs, Launch(s) PROVE s = r
  <2>1. s \in Callers /\ \E k : call' = [call EXCEPT ![s] = k]
    BY <1>8 DEF Callers, Launch, Refused, Ends
  <2>. QED  BY <1>1, <2>1
<1>. QED  BY <1>3, <1>4, <1>5, <1>6, <1>7, <1>8 DEF Next

\* A launch that starts its run records a login that exists, that the account still leads to
\* and that is not known to be signed out, and never one that contradicts the pin of the run or
\* the owner of its session (provider-accounts.mjs, resolveForLaunch and confirmLaunch).
THEOREM LaunchesKeepLogin == Spec => LaunchKeepsLogin
<1> DEFINE Step == \A r \in Runs : call[r].at = "launching" /\ call'[r].at = "done" =>
       LET recorded == owner'[call[r].session] IN
         /\ recorded.home = leads[recorded.account] /\ recorded.account \in Existing
         /\ CheckedLogin(recorded.account, recorded.home) # "out"
         /\ \A o \in {call[r].pin, owner[call[r].session]} \ {None} :
              o.account = recorded.account /\ o.home \in {Unrecorded, recorded.home}
<1>1. ASSUME Inv, [Next]_vars PROVE Step
  <2>1. SUFFICES ASSUME NEW r \in Runs, call[r].at = "launching", call'[r].at = "done"
                 PROVE LET recorded == owner'[call[r].session] IN
         /\ recorded.home = leads[recorded.account] /\ recorded.account \in Existing
         /\ CheckedLogin(recorded.account, recorded.home) # "out"
         /\ \A o \in {call[r].pin, owner[call[r].session]} \ {None} :
              o.account = recorded.account /\ o.home \in {Unrecorded, recorded.home}
    OBVIOUS
  <2>2. Launch(r)  BY <1>1, <2>1, OnlyLaunch
  <2>3. ~Refused(r)
    <3>1. r \in Callers  BY DEF Callers
    <3>2. ASSUME Refused(r) PROVE call'[r].at = "refused"
      <4>1. call' = [call EXCEPT ![r] = NoCall("refused")]  BY <3>2 DEF Refused, Ends
      <4>. QED  BY <1>1, <3>1, <4>1, Called, Ended DEF Inv
    <3>. QED  BY <2>1, <3>2
  <2> DEFINE o == [account |-> call[r].account, home |-> call[r].home]
  <2>4. ConfirmLaunch(call[r].account, call[r].home) /\ owner' = [owner EXCEPT ![call[r].session] = o]
    BY <2>2, <2>3 DEF Launch
  <2>5. call[r] \in Calls /\ call[r].session \in Sessions /\ owner \in [Sessions -> Logins \cup {None}]
        /\ Fits(call[r].pin, call[r].account, call[r].home)
        /\ Fits(owner[call[r].session], call[r].account, call[r].home)
    BY <1>1, <2>1 DEF Inv, Places, Callers, Launches, LaunchAt, Calls
  <2>6. owner'[call[r].session] = o  BY <2>4, <2>5
  <2>7. o.account = call[r].account /\ o.home = call[r].home  OBVIOUS
  <2> HIDE DEF o
  <2>. QED  BY <2>4, <2>5, <2>6, <2>7 DEF ConfirmLaunch, Fits
<1>2. Inv /\ [Next]_vars => [Step]_vars  BY <1>1
<1>. QED  BY <1>2, Invariance, PTL DEF Spec, LaunchKeepsLogin

\* What was checked still holds when a launch or a switch acts on it, in every
\* instance.
THEOREM ChecksHold == Spec => ChecksStillHold
<1>. QED  BY LaunchesKeepLogin, Switches DEF ChecksStillHold
=============================================================================
