---------------------------- MODULE OwnedProcess ----------------------------
(***************************************************************************)
(* One command run under a native supervisor, on one platform chosen at    *)
(* the start: what the three supervisors share.  The runtime ("owner")     *)
(* writes "go" and "stop" to a control pipe and may die; a utility's       *)
(* supervisor reads that pipe itself, an agent's on macOS and Windows is   *)
(* behind a launch wrapper.  The command may fork one kid, which on Linux  *)
(* may leave the process group ("away").                                   *)
(*                                                                         *)
(* A killed process is "dying" until the kernel has ended it: it may still *)
(* be running when the call that killed it has returned.                   *)
(***************************************************************************)
EXTENDS Integers, FiniteSets

CONSTANTS Platforms, Kinds, MaxFaults

ASSUME NativeBounds ==
       /\ Platforms \subseteq {"linux", "darwin", "win32"}
       /\ Kinds \subseteq {"utility", "terminal", "agent"}
       /\ MaxFaults \in Nat

VARIABLES
  platform, kind,
  owner,    \* the runtime that launched it: "up" or "gone"
  inp,      \* the lines it wrote that nobody has read yet
  sent,     \* the lines it ever wrote
  wrap,     \* the launch wrapper of an agent (macOS, Windows)
  sup,      \* the supervisor
  tree,     \* the state of each process of the tree
  job,      \* the platform's own record of the tree
  disk,     \* what the private files hold
  rec,      \* recovery by a later runtime
  proof,    \* how the tree was declared gone, if it was
  starts,   \* how often the command was executed
  faults    \* deaths and failing system calls so far, bounded by MaxFaults

vars == <<platform, kind, owner, inp, sent, wrap, sup, tree, job, disk, rec,
          proof, starts, faults>>

Procs == {"helper", "command", "kid"}
Running == {"run", "claimed", "waiting", "dying"}
Alive(p) == tree[p] \in Running
Members == {p \in Procs : Alive(p)}

Wrapped == kind = "agent" /\ platform # "linux"
\* Who the supervisor's control pipe and parent are.
ParentGone == IF Wrapped THEN wrap = "gone" ELSE owner = "gone"

NoSup == [at |-> "off", asked |-> FALSE, stopping |-> FALSE,
          fault |-> FALSE, code |-> "none", pid |-> "own", knows |-> FALSE]
NoJob == [is |-> "none", runs |-> 0, last |-> "none", boot |-> "none",
          away |-> FALSE, late |-> FALSE]
NoRec == [at |-> "idle", holds |-> "none"]

Init ==
  /\ platform \in Platforms
  /\ kind \in Kinds
  /\ (kind = "terminal") => (platform = "linux")
  /\ owner = "up" /\ inp = {} /\ sent = {}
  /\ wrap = (IF Wrapped THEN "new" ELSE "none")
  /\ sup = [NoSup EXCEPT !.at = IF Wrapped THEN "off" ELSE "new"]
  /\ tree = [p \in Procs |-> "none"]
  /\ job = NoJob /\ disk = {} /\ rec = NoRec
  /\ proof = "none" /\ starts = 0 /\ faults = 0

Fault == faults < MaxFaults /\ faults' = faults + 1
Kill(ps) == [p \in Procs |-> IF p \in ps /\ Alive(p) THEN "dying" ELSE tree[p]]
\* The frame on the control descriptor reaches an owner that is still there.
Frame == IF kind = "utility" /\ owner = "up" THEN "frame" ELSE proof

--------------------------------------------------------------------------
(* The owner and the tree itself *)

Tell(line) ==
  /\ owner = "up" /\ line \notin sent
  /\ inp' = inp \cup {line} /\ sent' = sent \cup {line}
  /\ UNCHANGED <<platform, kind, owner, wrap, sup, tree, job, disk, rec, proof,
                 starts, faults>>

OwnerDies ==
  /\ owner = "up" /\ Fault
  /\ owner' = "gone"
  /\ UNCHANGED <<platform, kind, inp, sent, wrap, sup, tree, job, disk, rec,
                 proof, starts>>

Fork ==
  /\ tree["command"] = "run" /\ tree["kid"] = "none"
  /\ tree' = [tree EXCEPT !["kid"] = "run"]
  /\ \E away \in {FALSE, platform = "linux"} : job' = [job EXCEPT !.away = away]
  /\ UNCHANGED <<platform, kind, owner, inp, sent, wrap, sup, disk, rec, proof,
                 starts, faults>>

\* A process ends, on its own or because it was killed.  Linux keeps it for
\* the supervisor to reap; the helper's exit is the helper's own action.
Ends(p) ==
  /\ Alive(p) /\ p # "helper"
  /\ tree' = [tree EXCEPT ![p] = IF platform = "linux" THEN "zombie" ELSE "gone"]
  /\ UNCHANGED <<platform, kind, owner, inp, sent, wrap, sup, job, disk, rec,
                 proof, starts, faults>>

--------------------------------------------------------------------------
(* The launch wrapper of an agent on macOS and Windows *)

WrapperOpens ==
  /\ wrap = "new"
  /\ wrap' = "open" /\ disk' = disk \cup {"handshake"}
  /\ UNCHANGED <<platform, kind, owner, inp, sent, sup, tree, job, rec, proof,
                 starts, faults>>

\* "go": the supervisor is spawned.  On Windows the durable authorization
\* comes first, since execution begins at once; on macOS the supervisor waits
\* at a gate until its own identity is durable.
WrapperSpawns ==
  /\ wrap = "open" /\ "go" \in inp
  /\ inp' = inp \ {"go"}
  /\ \/ /\ wrap' = IF platform = "darwin" THEN "gating" ELSE "spawned"
        /\ sup' = [sup EXCEPT !.at = IF platform = "darwin" THEN "gated" ELSE "new"]
        /\ disk' = IF platform = "darwin" THEN disk ELSE disk \cup {"authorized"}
        /\ UNCHANGED faults
     \/ /\ platform = "win32" /\ Fault
        /\ wrap' = "gone" /\ disk' = disk \ {"handshake"} /\ UNCHANGED sup
  /\ UNCHANGED <<platform, kind, owner, sent, tree, job, rec, proof, starts>>

WrapperOpensGate ==
  /\ wrap = "gating"
  /\ \/ /\ wrap' = "spawned" /\ disk' = disk \cup {"identified"}
        /\ sup' = IF sup.at = "gated" THEN [sup EXCEPT !.at = "authorized"] ELSE sup
        /\ UNCHANGED faults
     \/ /\ Fault
        /\ wrap' = "gone" /\ disk' = disk \ {"handshake"}
        /\ sup' = [sup EXCEPT !.at = "gone", !.fault = TRUE]
  /\ UNCHANGED <<platform, kind, owner, inp, sent, tree, job, rec, proof, starts>>

\* A stop line or the end of the runtime: a wrapper that never spawned removes
\* its handshake and exits, another asks its supervisor to stop.
WrapperStops ==
  /\ wrap \in {"open", "spawned"} /\ "go" \notin inp
  /\ \/ "stop" \in inp
     \/ owner = "gone"
  /\ ~sup.asked
  /\ inp' = inp \ {"stop"}
  /\ IF wrap = "open"
     THEN wrap' = "gone" /\ disk' = disk \ {"handshake"} /\ UNCHANGED sup
     ELSE sup' = [sup EXCEPT !.asked = TRUE] /\ UNCHANGED <<wrap, disk>>
  /\ UNCHANGED <<platform, kind, owner, sent, tree, job, rec, proof, starts, faults>>

\* Mutant: every exit of the supervisor is kept as evidence.
KeepsEvidenceAlways == platform = "win32"
\* Only a zero exit code on Windows keeps the handshake, as evidence.
KeepsEvidence == platform = "win32" /\ sup.code = "zero"

\* The supervisor closed: the wrapper follows it.
WrapperFinishes ==
  /\ wrap = "spawned" /\ sup.at = "gone"
  /\ wrap' = "gone"
  /\ disk' = IF KeepsEvidence THEN disk \cup {"completed"} ELSE disk \ {"handshake"}
  /\ proof' = IF owner = "up" /\ ~sup.fault /\ proof = "none" THEN "closed" ELSE proof
  /\ UNCHANGED <<platform, kind, owner, inp, sent, sup, tree, job, rec, starts, faults>>

WrapperDies ==
  /\ wrap \in {"new", "open", "gating", "spawned"} /\ Fault
  /\ wrap' = "gone"
  /\ UNCHANGED <<platform, kind, owner, inp, sent, sup, tree, job, disk, rec, proof,
                 starts>>

SharedNext ==
  \/ \E line \in {"go", "stop"} : Tell(line)
  \/ OwnerDies \/ Fork
  \/ \E p \in Procs : Ends(p)
  \/ WrapperOpens \/ WrapperSpawns \/ WrapperOpensGate \/ WrapperStops
  \/ WrapperFinishes \/ WrapperDies
=============================================================================
