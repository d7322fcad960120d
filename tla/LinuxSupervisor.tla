--------------------------- MODULE LinuxSupervisor ---------------------------
(***************************************************************************)
(* The Linux supervisor (agent-supervisor.c): a child subreaper that       *)
(* records its own identity, gates the command behind a pipe, and when the *)
(* work ends or must end kills what it can see of the tree until the       *)
(* kernel says it has no children.  Then it sends the frame, removes the   *)
(* record and exits.  A later runtime reads the record, or signals the     *)
(* recorded supervisor through a descriptor bound to that process.         *)
(***************************************************************************)
EXTENDS OwnedProcess

LinuxTree == {"command", "kid"}
LinuxLive == {p \in LinuxTree : Alive(p)}

\* The subreaper's children: the command, and the kid once the command is gone.
\* A kid whose parent still runs is reaped by that parent or not yet visible.
Child(p) == (p = "command") \/ (tree["command"] \in {"zombie", "gone", "none"})
NoChildren == \A p \in LinuxTree : Child(p) => tree[p] \in {"none", "gone"}

\* Mutant: the scan alone is believed.
TreeEmptyByScan(complete) ==
  /\ tree["command"] = "gone"
  /\ complete => LinuxLive = {}
\* The provider was reaped, the kernel reports no child, and a complete look
\* at /proc found nothing alive.
TreeEmpty(complete) ==
  /\ tree["command"] = "gone"
  /\ NoChildren
  /\ complete => LinuxLive = {}

LinuxGone(code) ==
  [sup EXCEPT !.at = "gone", !.code = code]

\* Failures before the record exist only as an exit with the frame.
LinuxRecords ==
  /\ sup.at = "new"
  /\ \/ /\ disk' = disk \cup {"handshake"} /\ sup' = [sup EXCEPT !.at = "open"]
        /\ UNCHANGED <<proof, faults>>
     \/ /\ Fault /\ sup' = LinuxGone("other") /\ proof' = Frame /\ UNCHANGED disk
  /\ UNCHANGED <<platform, kind, owner, inp, sent, wrap, tree, job, rec, starts>>

\* Mutant: the command is not held back by the gate.
LinuxForksUngated ==
  /\ sup.at = "open" /\ "go" \in inp
  /\ inp' = inp \ {"go"}
  /\ tree' = [tree EXCEPT !["command"] = "run"] /\ starts' = starts + 1
  /\ sup' = [sup EXCEPT !.at = "forked"]
  /\ UNCHANGED <<platform, kind, owner, sent, wrap, job, disk, rec, proof, faults>>

LinuxForks ==
  /\ sup.at = "open" /\ "go" \in inp
  /\ inp' = inp \ {"go"}
  /\ tree' = [tree EXCEPT !["command"] = "gated"]
  /\ sup' = [sup EXCEPT !.at = "forked"]
  /\ UNCHANGED <<platform, kind, owner, sent, wrap, job, disk, rec, proof, starts, faults>>

\* The authorized record, with the command's identity, precedes the byte that
\* lets the command run.
LinuxAuthorizes ==
  /\ sup.at = "forked"
  /\ \/ /\ disk' = disk \cup {"authorized"} /\ sup' = [sup EXCEPT !.at = "named"]
        /\ UNCHANGED <<tree, proof, faults>>
     \/ /\ Fault
        /\ tree' = [tree EXCEPT !["command"] = "gone"]
        /\ disk' = {} /\ proof' = Frame /\ sup' = LinuxGone("other")
  /\ UNCHANGED <<platform, kind, owner, inp, sent, wrap, job, rec, starts>>

\* Without anybody to acknowledge to, the tree is torn down at once.
LinuxReleases ==
  /\ sup.at = "named"
  /\ tree' = [tree EXCEPT !["command"] = "run"] /\ starts' = starts + 1
  /\ sup' = [sup EXCEPT !.at = "loop", !.stopping = owner = "gone", !.asked = owner = "gone"]
  /\ UNCHANGED <<platform, kind, owner, inp, sent, wrap, job, disk, rec, proof, faults>>

\* A stop line, SIGTERM, or the end of an owner whose trees must not outlive
\* it (an agent's may: its run goes on).
LinuxMustStop ==
  \/ "stop" \in inp
  \/ sup.asked
  \/ owner = "gone" /\ (kind # "agent" \/ sup.at = "open")

LinuxStops ==
  /\ "go" \notin inp /\ LinuxMustStop
  /\ inp' = inp \ {"stop"}
  /\ \/ /\ sup.at = "open"
        /\ proof' = Frame /\ disk' = {} /\ sup' = LinuxGone("zero")
     \/ /\ sup.at = "loop" /\ ~sup.stopping
        /\ sup' = [sup EXCEPT !.stopping = TRUE, !.asked = TRUE]
        /\ UNCHANGED <<proof, disk>>
  /\ UNCHANGED <<platform, kind, owner, sent, wrap, tree, job, rec, starts, faults>>

\* The command ended by itself: what it left behind is torn down.
LinuxCommandEnded ==
  /\ sup.at = "loop" /\ ~sup.stopping /\ tree["command"] = "gone"
  /\ sup' = [sup EXCEPT !.stopping = TRUE]
  /\ UNCHANGED <<platform, kind, owner, inp, sent, wrap, tree, job, disk, rec, proof,
                 starts, faults>>

\* One pass over /proc: everything seen is killed but the command, which goes
\* when the look was complete and showed little else, or when the budget for
\* an orderly teardown is over ("late").
LinuxKills ==
  /\ sup.at = "loop" /\ sup.stopping /\ LinuxLive # {}
  /\ \E seen \in SUBSET LinuxLive, late \in BOOLEAN :
       LET last == late \/ (seen = LinuxLive /\ Cardinality(seen) <= 1)
       IN tree' = Kill((seen \ {"command"}) \cup (IF last THEN {"command"} ELSE {}))
  /\ UNCHANGED <<platform, kind, owner, inp, sent, wrap, sup, job, disk, rec, proof,
                 starts, faults>>

\* Zombies are reaped by their parent: the supervisor, the command, or init
\* once the supervisor is gone.
LinuxReaps ==
  /\ \E p \in LinuxTree :
       /\ tree[p] = "zombie"
       /\ \/ Child(p) /\ sup.at \in {"loop", "gone"}
          \/ ~Child(p) /\ tree["command"] = "run"
       /\ tree' = [tree EXCEPT ![p] = "gone"]
  /\ UNCHANGED <<platform, kind, owner, inp, sent, wrap, sup, job, disk, rec, proof,
                 starts, faults>>

LinuxProves ==
  /\ sup.at = "loop" /\ sup.stopping
  /\ \E complete \in BOOLEAN : TreeEmpty(complete)
  /\ proof' = Frame
  /\ sup' = [sup EXCEPT !.at = "framed"]
  /\ UNCHANGED <<platform, kind, owner, inp, sent, wrap, tree, job, disk, rec, starts, faults>>

LinuxLeaves ==
  /\ sup.at = "framed"
  /\ disk' = {} /\ sup' = LinuxGone("other")
  /\ UNCHANGED <<platform, kind, owner, inp, sent, wrap, tree, job, rec, proof, starts, faults>>

\* Killed from outside: a command still at its gate reads the end of the pipe,
\* everything else runs on under init, and the record stays.
LinuxDies ==
  /\ sup.at \in {"new", "open", "forked", "named", "loop", "framed"} /\ Fault
  /\ sup' = [sup EXCEPT !.at = "gone", !.fault = TRUE]
  /\ tree' = [tree EXCEPT !["command"] = IF @ = "gated" THEN "gone" ELSE @]
  /\ UNCHANGED <<platform, kind, owner, inp, sent, wrap, job, disk, rec, proof, starts>>

PidReused ==
  /\ sup.at = "gone" /\ sup.pid = "own" /\ "handshake" \in disk /\ owner = "gone"
  /\ sup' = [sup EXCEPT !.pid = "stranger"]
  /\ UNCHANGED <<platform, kind, owner, inp, sent, wrap, tree, job, disk, rec, proof,
                 starts, faults>>

--------------------------------------------------------------------------
(* A later runtime *)

\* A utility's recovery waits for the recorded supervisor to be gone, a
\* terminal's may find it at work; both take a missing record for the
\* supervisor's own word.
LinuxRecovers ==
  /\ owner = "gone" /\ proof = "none" /\ rec.at = "idle"
  /\ \/ kind = "utility" /\ sup.at = "gone"
     \/ kind = "terminal" /\ starts > 0 /\ (sup.pid = "own" \/ "handshake" \notin disk)
  /\ IF "handshake" \notin disk
     THEN proof' = "recovered" /\ UNCHANGED rec
     ELSE rec' = [rec EXCEPT !.at = "terminate"] /\ UNCHANGED proof
  /\ UNCHANGED <<platform, kind, owner, inp, sent, wrap, sup, tree, job, disk, starts, faults>>

\* --terminate-owned binds a descriptor to the process that has the pid ...
LinuxBinds ==
  /\ rec.at = "terminate"
  /\ rec' = [at |-> "bound", holds |-> IF sup.pid = "stranger" THEN "stranger"
                                       ELSE IF sup.at = "gone" THEN "none" ELSE "own"]
  /\ UNCHANGED <<platform, kind, owner, inp, sent, wrap, sup, tree, job, disk, proof,
                 starts, faults>>

\* Mutant: the command line and the birth are not compared.
IdentityAssumed == TRUE
\* ... and then compares that pid's birth and command line with the record.
IdentityMatches == sup.pid = "own" /\ sup.at # "gone"

LinuxSignals ==
  /\ rec.at = "bound"
  /\ IF rec.holds # "none" /\ IdentityMatches
     THEN /\ sup' = [sup EXCEPT !.asked = rec.holds = "own"]
          /\ rec' = [rec EXCEPT !.at = IF rec.holds = "own" THEN "wait" ELSE "harmed"]
     ELSE rec' = [rec EXCEPT !.at = "wait"] /\ UNCHANGED sup
  /\ UNCHANGED <<platform, kind, owner, inp, sent, wrap, tree, job, disk, proof, starts, faults>>

LinuxLooksAgain ==
  /\ rec.at = "wait"
  /\ rec' = NoRec
  /\ proof' = IF "handshake" \notin disk THEN "recovered" ELSE proof
  /\ UNCHANGED <<platform, kind, owner, inp, sent, wrap, sup, tree, job, disk, starts, faults>>

\* An agent's group, led by its supervisor: members of another session are not
\* in it, zombies do not count.
\* Mutant: the leader alone is looked at.
LeaderGone == sup.at = "gone"

GroupEmpty ==
  /\ sup.at = "gone"
  /\ tree["command"] # "run" /\ tree["command"] # "dying"
  /\ ~job.away => ~Alive("kid")

LinuxAgentVerdict ==
  /\ kind = "agent" /\ owner = "gone" /\ proof = "none" /\ starts > 0
  /\ sup.pid = "own" /\ GroupEmpty
  /\ proof' = "group"
  /\ UNCHANGED <<platform, kind, owner, inp, sent, wrap, sup, tree, job, disk, rec,
                 starts, faults>>

LinuxNext ==
  \/ LinuxRecords \/ LinuxForks \/ LinuxAuthorizes \/ LinuxReleases \/ LinuxStops
  \/ LinuxCommandEnded \/ LinuxKills \/ LinuxReaps \/ LinuxProves \/ LinuxLeaves
  \/ LinuxDies \/ PidReused
  \/ LinuxRecovers \/ LinuxBinds \/ LinuxSignals \/ LinuxLooksAgain \/ LinuxAgentVerdict
=============================================================================
