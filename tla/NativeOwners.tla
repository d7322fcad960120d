---------------------------- MODULE NativeOwners ----------------------------
(***************************************************************************)
(* The three supervisors, each launched for a utility, a terminal (Linux)  *)
(* or an agent, and each shown to keep the promise of OwnedTree.           *)
(***************************************************************************)
EXTENDS LinuxSupervisor, DarwinSupervisor, WindowsSupervisor

Next ==
  \/ SharedNext
  \/ platform = "linux" /\ LinuxNext
  \/ platform = "darwin" /\ DarwinNext
  \/ platform = "win32" /\ WindowsNext

Spec == Init /\ [][Next]_vars

--------------------------------------------------------------------------
TypeOK ==
  /\ platform \in Platforms /\ kind \in Kinds
  /\ owner \in {"up", "gone"} /\ inp \subseteq sent /\ sent \subseteq {"go", "stop"}
  /\ wrap \in {"none", "new", "open", "gating", "spawned", "gone"}
  /\ sup.pid \in {"own", "stranger"}
  /\ tree \in [Procs -> Running \cup {"none", "gated", "suspended", "zombie", "gone"}]
  /\ job.is \in {"none", "registered", "open", "held", "closed"} /\ job.runs \in 0..2
  /\ job.late \in BOOLEAN
  /\ disk \subseteq {"handshake", "authorized", "identified", "completed"} \cup Private
  /\ rec.at \in {"idle", "terminate", "emptied", "bound", "wait", "last", "harmed"}
  /\ proof \in {"none", "frame", "recovered", "closed", "group"}
  /\ starts \in 0..2 /\ faults \in 0..MaxFaults

Tree == INSTANCE OwnedTree WITH
  starts <- starts,
  live <- Alive("command") \/ Alive("kid"),
  unseen <- job.late /\ (Alive("command") \/ Alive("kid")),
  proved <- proof \in {"frame", "recovered", "closed"}

(***************************************************************************)
(* Whatever dies and whenever, the command is executed at most once, and   *)
(* the frame, a recovery and a normal end of the wrapper declare the tree  *)
(* gone only when nothing of it runs or will - but for one gap on macOS: a *)
(* teardown that has found the coalition empty removes the registration    *)
(* without listing it again, so a command that launchd's first start let   *)
(* run in between may outlive the tree declared gone.  No other may.       *)
(***************************************************************************)
KeepsPromise == Tree!Spec

(***************************************************************************)
(* What a later runtime needs to find a running tree was on disk before    *)
(* the command could start, and stays while any of it runs: the authorized *)
(* record on Linux, the supervisor's identity for an agent on macOS, the   *)
(* authorization for an agent on Windows.  (The types are checked too.)    *)
(***************************************************************************)
RunningIsRecorded ==
  /\ TypeOK
  /\ (platform = "linux" /\ Members # {}) => {"handshake", "authorized"} \subseteq disk
  /\ (Wrapped /\ Members # {} /\ wrap # "gone") =>
       (IF platform = "darwin" THEN "identified" ELSE "authorized") \in disk

\* Recovery never signals a process that took over the supervisor's number.
StrangersSpared == rec.at # "harmed"

(***************************************************************************)
(* What is told of a tree is true of it.  An agent's process group on Linux *)
(* may be empty while something of its tree runs in another session: only  *)
(* after its supervisor was killed.  And what a macOS supervisor reports as *)
(* its command's end is never the end of a later start of the same job,    *)
(* which ran nothing.                                                      *)
(***************************************************************************)
ReportsTrue ==
  /\ proof = "group" => (Members = {} \/ (sup.fault /\ job.away /\ Members = {"kid"}))
  /\ sup.code # "nothing"
=============================================================================
