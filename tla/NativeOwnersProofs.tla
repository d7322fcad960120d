------------------------- MODULE NativeOwnersProofs -------------------------
(***************************************************************************)
(* Proofs about NativeOwners, for any choice of platforms and kinds of     *)
(* process and any number of faults.                                       *)
(*                                                                         *)
(* The invariant has a part for each platform, which the actions of the    *)
(* others cannot disturb because the platform never changes: OfLinux,      *)
(* OfDarwin and OfWindows take the invariant apart.  Each platform's part  *)
(* has three threads: the places its supervisor can be at and what of the  *)
(* tree may exist there, what its records say by then, and what a          *)
(* declaration that the tree is gone rests on.  Each action has a lemma    *)
(* that it keeps the invariant and moves the promise of OwnedTree by one   *)
(* of its steps or not at all (Moves); its steps <1>4 to <1>10 go through  *)
(* the parts of the invariant one by one.                                  *)
(***************************************************************************)
EXTENDS NativeOwners, TLAPS

\* Some of the command runs.
Live == Alive("command") \/ Alive("kid")
\* It runs, and launchd started it behind the back of a teardown.
Unseen == job.late /\ Live
\* Its tree was declared gone, by somebody whose word the runtime takes for all of it.
Proved == proof \in {"frame", "recovered", "closed"}
\* No process of the tree was ever created.
Untouched == \A p \in Procs : tree[p] = "none"

\* The records have their fields.
Shapes ==
    /\ DOMAIN sup = {"at", "asked", "stopping", "fault", "code", "pid", "knows"}
    /\ DOMAIN job = {"is", "runs", "last", "boot", "away", "late"}
    /\ DOMAIN rec = {"at", "holds"}

\* The states of the processes.
TreeTyped == tree \in [Procs -> Running \cup {"none", "gated", "suspended", "zombie", "gone"}]

\* The types, and how often what can happen once has happened.
Typed ==
    /\ platform \in Platforms /\ kind \in Kinds
    /\ platform \in {"linux", "darwin", "win32"} /\ kind \in {"utility", "terminal", "agent"}
    /\ kind = "terminal" => platform = "linux"
    /\ owner \in {"up", "gone"} /\ inp \subseteq sent /\ sent \subseteq {"go", "stop"}
    /\ sup.pid \in {"own", "stranger"} /\ sup.code # "nothing"
    /\ job.is \in {"none", "registered", "open", "held", "closed"} /\ job.runs \in {0, 1, 2}
    /\ job.late \in BOOLEAN /\ (platform # "darwin" => ~job.late)
    /\ disk \subseteq {"handshake", "authorized", "identified", "completed"} \cup Private
    /\ proof \in {"none", "frame", "recovered", "closed", "group"}
    /\ starts \in {0, 1} /\ faults \in 0..MaxFaults

\* Where the launch wrapper and its supervisor can be at the same time.
Wrapping ==
    /\ ~Wrapped => wrap = "none" /\ sup.at \notin {"off", "gated"}
    /\ Wrapped => wrap \in {"new", "open", "gating", "spawned", "gone"}
    /\ wrap \in {"new", "open"} => sup.at = "off"
    /\ wrap = "gating" => platform = "darwin" /\ sup.at \in {"gated", "gone"} /\ job.boot = "none"
    /\ sup.at = "gated" => platform = "darwin" /\ wrap \in {"gating", "gone"}

(***************************************************************************)
(* Linux.                                                                  *)
(***************************************************************************)
\* Where the supervisor is tells which processes exist: the command is behind its gate from the
\* fork to the release and nothing runs before it.
LinuxPlaces ==
    /\ sup.at \in {"new", "open", "forked", "named", "loop", "framed", "gone"}
    /\ tree["helper"] = "none"
    /\ tree["command"] \in {"none", "gated", "run", "dying", "zombie", "gone"}
    /\ tree["kid"] \in {"none", "run", "dying", "zombie", "gone"}
    /\ sup.at \in {"new", "open"} => tree["command"] = "none"
    /\ sup.at \in {"forked", "named"} <=> tree["command"] = "gated"
    /\ sup.at \in {"new", "open", "forked", "named"} => starts = 0 /\ proof = "none" /\ rec.at = "idle"
    /\ sup.at \in {"loop", "framed"} => starts = 1
    /\ starts = 0 => tree["kid"] = "none" /\ ~Live

\* The record is complete before the command can run; only a supervisor that was killed leaves
\* a tree behind, and then the record too.
LinuxRecord ==
    /\ sup.at = "new" => disk = {}
    /\ sup.at \in {"open", "forked"} => disk = {"handshake"}
    /\ sup.at \in {"named", "loop", "framed"} => disk = {"handshake", "authorized"}
    /\ sup.at = "framed" => ~Live
    /\ sup.at = "gone" /\ Live => sup.fault /\ disk = {"handshake", "authorized"}

\* The frame is sent once the tree is gone, and recovery takes no word for it before; a process
\* group can be empty with the kid away.
LinuxProof ==
    /\ proof # "closed"
    /\ Proved => sup.at \in {"framed", "gone"} /\ ~Live
    /\ proof = "group" => sup.at = "gone" /\ ~Alive("command") /\ (Alive("kid") => job.away)
    /\ rec.at \in {"idle", "terminate", "bound", "wait"}
    /\ rec.holds \in {"none", "own", "stranger"}
    /\ rec.holds = "stranger" => sup.pid = "stranger"

\* Linux, all of it.
Linux == platform = "linux" => LinuxPlaces /\ LinuxRecord /\ LinuxProof

(***************************************************************************)
(* macOS.                                                                  *)
(***************************************************************************)
\* The places of a supervisor that has not submitted its job.
Before == {"off", "gated", "new", "authorized", "prepared"}
\* Of the tree nothing is left but what launchd started behind the back of a teardown and
\* outlived the helper.
Left == Members # {} => job.late /\ ~Alive("helper")
\* The tree is over, and launchd will start nothing of it.
DarwinOver ==
    /\ Left /\ sup.at \notin Before
    /\ Registered => job.runs # 0 /\ owner = "gone"
    /\ job.boot = "running" => "dir" \notin disk

\* Where the supervisor is tells what of the private directory exists.
DarwinPlaces ==
    /\ sup.at \in Before \cup {"submitting", "loop", "decide", "killing", "emptied", "proven",
                             "cleaning", "gone"}
    /\ sup.at \in Before => job.boot = "none" /\ rec.at = "idle"
    /\ sup.at \in Before \ {"prepared"} => disk \cap Private = {}
    /\ sup.at = "prepared" => disk \cap Private = {"dir", "env"}
    /\ sup.at \in {"off", "gated"} => "identified" \notin disk
    /\ wrap = "spawned" => "identified" \in disk
    /\ tree["helper"] \in {"none", "run", "claimed", "waiting", "dying", "gone"}
    /\ \A p \in {"command", "kid"} : tree[p] \in {"none", "run", "dying", "gone"}

\* The environment file is there until the first start of the helper has claimed it: no second
\* start runs the command.
DarwinStarts ==
    /\ job.boot \in {"none", "running"} => ~Registered /\ job.runs = 0
    /\ job.runs = 0 => Untouched /\ starts = 0
    /\ starts = 0 => tree["command"] = "none" /\ tree["kid"] = "none"
    /\ tree["helper"] = "claimed" => starts = 0
    /\ tree["helper"] = "waiting" => starts = 1
    /\ "env" \in disk => /\ starts = 0 /\ tree["helper"] \notin {"claimed", "waiting"}
                         /\ "status" \notin disk /\ "dir" \in disk
    /\ "status" \in disk => "dir" \in disk
    /\ "marker" \in disk => job.boot \in {"ok", "failed"}

\* What the first start of the helper finds, and what launchd then says of it.
DarwinFirst ==
    /\ job.is \in {"none", "registered"}
    /\ Registered /\ "dir" \notin disk => sup.at = "gone"
    /\ job.runs = 0 /\ "dir" \in disk => "env" \in disk \/ sup.at \in {"cleaning", "gone"}
    /\ job.runs = 1 /\ tree["helper"] = "run" => "env" \in disk \/ sup.at = "gone"
    /\ job.runs # 2 /\ job.last = "nothing" => sup.at = "gone"

\* Who removes the job has found nobody in the coalition, and what is there nevertheless was
\* started since; who says the tree is over has removed the job, or the job has run and cannot
\* run again.
DarwinProof ==
    /\ sup.at \in {"loop", "decide", "killing", "emptied", "proven", "cleaning"} => job.boot = "ok"
    /\ Members # {} => \/ Registered
                       \/ sup.at = "gone" /\ "dir" \in disk
                       \/ Left
    /\ "emptied" \in {sup.at, rec.at} => Members = {} \/ job.late
    /\ sup.at \in {"proven", "cleaning"} => ~Registered /\ Left
    /\ sup.at = "gone" /\ ~sup.fault => DarwinOver
    /\ Proved => DarwinOver
    /\ proof # "group" /\ rec.at \in {"idle", "terminate", "emptied", "last"}

\* macOS, all of it.
Darwin == platform = "darwin" => DarwinPlaces /\ DarwinStarts /\ DarwinFirst /\ DarwinProof

(***************************************************************************)
(* Windows.                                                                *)
(***************************************************************************)
\* Where the supervisor is tells whether the command is suspended, and nothing ran before it
\* was resumed.
WindowsPlaces ==
    /\ sup.at \in WindowsAt \cup {"off", "gone"}
    /\ sup.at # "off" /\ Wrapped => "authorized" \in disk
    /\ tree["helper"] = "none"
    /\ tree["command"] \in {"none", "suspended", "run", "dying", "gone"}
    /\ tree["kid"] \in {"none", "run", "dying", "gone"}
    /\ sup.at \in {"off", "new", "ready", "authorized"} => Untouched /\ starts = 0
    /\ sup.at \in {"suspended", "assigned"} => starts = 0
    /\ sup.at \in {"suspended", "assigned"} <=> tree["command"] = "suspended"
    /\ starts = 0 => tree["kid"] = "none" /\ ~Live

\* Each thing a later reader takes for a proof (the marker, a zero exit code, the completed
\* handshake) was written with the job empty.
WindowsProof ==
    /\ sup.at \in {"proven", "marked"} => Members = {}
    /\ "marker" \in disk => sup.at \in {"marked", "gone"} /\ Members = {}
    /\ sup.at = "gone" /\ (~sup.fault \/ sup.code = "zero") => Members = {}
    /\ "completed" \in disk => sup.at = "gone" /\ Members = {}
    /\ Proved => sup.at = "gone" /\ Members = {}
    /\ proof # "group" /\ rec.at \in {"idle", "terminate", "wait"}

\* Windows, all of it.
Windows == platform = "win32" => WindowsPlaces /\ WindowsProof

\* The inductive invariant.
Inv == Shapes /\ TreeTyped /\ Typed /\ Wrapping /\ Linux /\ Darwin /\ Windows

(***************************************************************************)
(* What a step does to the promise.                                        *)
(***************************************************************************)
\* The promise does not move.
Quiet == /\ starts' = starts /\ (Live' <=> Live) /\ (Unseen' <=> Unseen)
         /\ (Proved' <=> Proved)
\* The command starts, for the first time.
Started == starts = 0 /\ ~Proved /\ starts' = 1 /\ Live' /\ ~Proved'
\* The last of the command ends.
Ended == Live /\ ~Live' /\ starts' = starts /\ (Proved' <=> Proved)
\* The tree is declared gone, and it is, but for what nobody could see.
Proves == /\ Live => Unseen
          /\ ~Proved /\ Proved' /\ starts' = starts
          /\ (Live' <=> Live) /\ (Unseen' <=> Unseen)
\* A step of the promise, or none.
Moves == Quiet \/ Started \/ Ended \/ Proves

\* On Linux only the parts of Linux say something.
LEMMA OfLinux ==
  ASSUME platform = "linux", platform' = platform
  PROVE  /\ Inv <=> /\ Shapes /\ TreeTyped /\ Typed /\ Wrapping
                  /\ LinuxPlaces /\ LinuxRecord /\ LinuxProof
         /\ Inv' <=> /\ Shapes' /\ TreeTyped' /\ Typed' /\ Wrapping'
                   /\ LinuxPlaces' /\ LinuxRecord' /\ LinuxProof'
BY DEF Inv, Linux, Darwin, Windows

\* On macOS only the parts of macOS say something.
LEMMA OfDarwin ==
  ASSUME platform = "darwin", platform' = platform
  PROVE  /\ Inv <=> /\ Shapes /\ TreeTyped /\ Typed /\ Wrapping
                  /\ DarwinPlaces /\ DarwinStarts /\ DarwinFirst /\ DarwinProof
         /\ Inv' <=> /\ Shapes' /\ TreeTyped' /\ Typed' /\ Wrapping'
                   /\ DarwinPlaces' /\ DarwinStarts' /\ DarwinFirst' /\ DarwinProof'
BY DEF Inv, Linux, Darwin, Windows

\* On Windows only the parts of Windows say something.
LEMMA OfWindows ==
  ASSUME platform = "win32", platform' = platform
  PROVE  /\ Inv <=> /\ Shapes /\ TreeTyped /\ Typed /\ Wrapping
                  /\ WindowsPlaces /\ WindowsProof
         /\ Inv' <=> /\ Shapes' /\ TreeTyped' /\ Typed' /\ Wrapping'
                   /\ WindowsPlaces' /\ WindowsProof'
BY DEF Inv, Linux, Darwin, Windows

\* The faults stay within their bound.
LEMMA Counted == ASSUME Typed, faults' = faults \/ Fault PROVE faults' \in 0..MaxFaults
<1>1. faults \in 0..MaxFaults /\ MaxFaults \in Nat  BY NativeBounds DEF Typed
<1>. QED  BY <1>1 DEF Fault

\* What a verdict of the macOS probe means.
LEMMA Verdicts ==
  ASSUME Typed
  PROVE  /\ Verdict = "exited" => Registered /\ Members = {} /\ job.runs # 0
         /\ Verdict = "alive" => Registered \/ "marker" \in disk
         /\ Verdict = "absent" => ~Registered /\ ("dir" \notin disk \/ ("marker" \in disk /\ Members = {}))
<1>1. job.runs = 0 => job.runs < 1  OBVIOUS
<1>. QED  BY <1>1 DEF Verdict, MissingEmpty

\* The exit code a macOS supervisor reports is that of a start that ran the command, since it
\* read it while the directory was whole.
LEMMA Codes == ASSUME Typed, DarwinFirst, sup.at = "decide" PROVE ExitCode # "nothing"
<1>1. job.runs = 1 => job.runs # 2  OBVIOUS
<1>2. job.runs = 1 => job.last # "nothing"  BY <1>1 DEF DarwinFirst
<1>. QED  BY <1>2 DEF ExitCode

\* What the removal of a macOS job does: the job is unknown from then on and its own process is
\* over, and nothing else changes.
LEMMA Removal ==
  ASSUME Shapes, TreeTyped, BootedOut
  PROVE  /\ job'.is = "none" /\ job'.runs = job.runs /\ job'.last = job.last
         /\ job'.boot = job.boot /\ job'.late = job.late
         /\ \A p \in {"command", "kid"} : tree'[p] = tree[p]
         /\ \/ tree'["helper"] = tree["helper"] /\ ~Alive("helper")
            \/ tree'["helper"] = "gone" /\ Alive("helper")
<1>1. DOMAIN tree = Procs  BY DEF TreeTyped
<1>. QED  BY <1>1 DEF Shapes, BootedOut, Active, Procs

\* On Linux: a line of the runtime only waits to be read.
LEMMA TellLinuxInv ==
  ASSUME Inv, platform = "linux", NEW line \in {"go", "stop"}, Tell(line)
  PROVE  Inv' /\ Moves
<1> USE DEF Procs, Running, Alive, Members, Live, Unseen, Wrapped
<1>1. platform' = platform  BY DEF Tell
<1>2. Shapes /\ TreeTyped /\ Typed /\ Wrapping /\ LinuxPlaces /\ LinuxRecord /\ LinuxProof  BY <1>1, OfLinux
<1>3. DOMAIN tree = Procs /\ Shapes'  BY <1>2 DEF Shapes, TreeTyped, Tell
<1>4. TreeTyped'  BY <1>2, <1>3 DEF TreeTyped, Tell
<1>5. Typed'  BY <1>2, <1>3 DEF Shapes, Typed, Tell
<1>6. Wrapping'  BY <1>2, <1>3 DEF Shapes, Wrapping, Tell
<1>7. LinuxPlaces'  BY <1>2, <1>3 DEF Shapes, LinuxPlaces, Tell
<1>8. LinuxRecord'  BY <1>2, <1>3 DEF Shapes, LinuxRecord, Tell
<1>9. LinuxProof'  BY <1>2, <1>3 DEF Shapes, LinuxProof, Proved, Tell
<1>10. Moves  BY <1>2, <1>3 DEF Shapes, Moves, Quiet, Started, Ended, Proves, Proved, Tell
<1>. QED  BY <1>1, <1>3, <1>4, <1>5, <1>6, <1>7, <1>8, <1>9, <1>10, OfLinux

\* On Linux: the end of the runtime changes nothing but that.
LEMMA OwnerDiesLinuxInv ==
  ASSUME Inv, platform = "linux", OwnerDies
  PROVE  Inv' /\ Moves
<1> USE DEF Procs, Running, Alive, Members, Live, Unseen, Wrapped
<1>1. platform' = platform  BY DEF OwnerDies
<1>2. Shapes /\ TreeTyped /\ Typed /\ Wrapping /\ LinuxPlaces /\ LinuxRecord /\ LinuxProof  BY <1>1, OfLinux
<1>3. DOMAIN tree = Procs /\ Shapes'  BY <1>2 DEF Shapes, TreeTyped, OwnerDies, Fault
<1>4. TreeTyped'  BY <1>2, <1>3 DEF TreeTyped, OwnerDies, Fault
<1>5. Typed'  BY <1>2, <1>3, Counted DEF Shapes, Typed, OwnerDies
<1>6. Wrapping'  BY <1>2, <1>3 DEF Shapes, Wrapping, OwnerDies, Fault
<1>7. LinuxPlaces'  BY <1>2, <1>3 DEF Shapes, LinuxPlaces, OwnerDies, Fault
<1>8. LinuxRecord'  BY <1>2, <1>3 DEF Shapes, LinuxRecord, OwnerDies, Fault
<1>9. LinuxProof'  BY <1>2, <1>3 DEF Shapes, LinuxProof, Proved, OwnerDies, Fault
<1>10. Moves  BY <1>2, <1>3 DEF Shapes, Moves, Quiet, Started, Ended, Proves, Proved, OwnerDies, Fault
<1>. QED  BY <1>1, <1>3, <1>4, <1>5, <1>6, <1>7, <1>8, <1>9, <1>10, OfLinux

\* On Linux: a command that forks runs.
LEMMA ForkLinuxInv ==
  ASSUME Inv, platform = "linux", Fork
  PROVE  Inv' /\ Moves
<1> USE DEF Procs, Running, Alive, Members, Live, Unseen, Wrapped
<1>1. platform' = platform  BY DEF Fork
<1>2. Shapes /\ TreeTyped /\ Typed /\ Wrapping /\ LinuxPlaces /\ LinuxRecord /\ LinuxProof  BY <1>1, OfLinux
<1>3. DOMAIN tree = Procs /\ Shapes'  BY <1>2 DEF Shapes, TreeTyped, Fork
<1>4. TreeTyped'  BY <1>2, <1>3 DEF TreeTyped, Fork
<1>5. Typed'  BY <1>2, <1>3 DEF Shapes, Typed, Fork
<1>6. Wrapping'  BY <1>2, <1>3 DEF Shapes, Wrapping, Fork
<1>7. LinuxPlaces'  BY <1>2, <1>3 DEF Shapes, LinuxPlaces, Fork
<1>8. LinuxRecord'  BY <1>2, <1>3 DEF Shapes, LinuxRecord, Fork
<1>9. LinuxProof'  BY <1>2, <1>3 DEF Shapes, LinuxProof, Proved, Fork
<1>10. Moves  BY <1>2, <1>3 DEF Shapes, Moves, Quiet, Started, Ended, Proves, Proved, Fork
<1>. QED  BY <1>1, <1>3, <1>4, <1>5, <1>6, <1>7, <1>8, <1>9, <1>10, OfLinux

\* On Linux: a process that ends is one member less.
LEMMA EndsLinuxInv ==
  ASSUME Inv, platform = "linux", NEW p \in Procs, Ends(p)
  PROVE  Inv' /\ Moves
<1> USE DEF Procs, Running, Alive, Members, Live, Unseen, Wrapped
<1>1. platform' = platform  BY DEF Ends
<1>2. Shapes /\ TreeTyped /\ Typed /\ Wrapping /\ LinuxPlaces /\ LinuxRecord /\ LinuxProof  BY <1>1, OfLinux
<1>3. DOMAIN tree = Procs /\ Shapes'  BY <1>2 DEF Shapes, TreeTyped, Ends
<1>4. TreeTyped'  BY <1>2, <1>3 DEF TreeTyped, Ends
<1>5. Typed'  BY <1>2, <1>3 DEF Shapes, Typed, Ends
<1>6. Wrapping'  BY <1>2, <1>3 DEF Shapes, Wrapping, Ends
<1>7. LinuxPlaces'  BY <1>2, <1>3 DEF Shapes, LinuxPlaces, Ends
<1>8. LinuxRecord'  BY <1>2, <1>3 DEF Shapes, LinuxRecord, Ends
<1>9. LinuxProof'  BY <1>2, <1>3 DEF Shapes, LinuxProof, Proved, Ends
<1>10. Moves  BY <1>2, <1>3 DEF Shapes, Moves, Quiet, Started, Ended, Proves, Proved, Ends
<1>. QED  BY <1>1, <1>3, <1>4, <1>5, <1>6, <1>7, <1>8, <1>9, <1>10, OfLinux

\* The supervisor records itself, or leaves with nothing started.
LEMMA LinuxRecordsInv ==
  ASSUME Inv, platform = "linux", LinuxRecords
  PROVE  Inv' /\ Moves
<1> USE DEF Procs, Running, Alive, Members, Live, Unseen, Wrapped
<1>1. platform' = platform  BY DEF LinuxRecords
<1>2. Shapes /\ TreeTyped /\ Typed /\ Wrapping /\ LinuxPlaces /\ LinuxRecord /\ LinuxProof  BY <1>1, OfLinux
<1>3. DOMAIN tree = Procs /\ Shapes'  BY <1>2 DEF Shapes, TreeTyped, LinuxRecords, Fault, LinuxGone, Frame
<1>e. /\ UNCHANGED <<platform, kind, owner, inp, sent, wrap, tree, job, rec, starts>>
      /\ sup'.fault = sup.fault /\ sup'.pid = sup.pid
      /\ (sup'.code = sup.code \/ sup'.code = "zero" \/ sup'.code = "other")
      /\ sup.at = "new"
      /\ faults' = faults \/ Fault
      /\ \/ sup'.at = "open" /\ disk' = {"handshake"} /\ proof' = proof
         \/ sup'.at = "gone" /\ disk' = disk /\ proof' \in {proof, "frame"}
  BY <1>2, <1>3 DEF Shapes, LinuxPlaces, LinuxRecord, LinuxRecords, LinuxGone, Frame
<1>4. TreeTyped'  BY <1>2, <1>3 DEF TreeTyped, LinuxRecords, Fault, LinuxGone, Frame
<1>a. sup'.code # "nothing" /\ sup'.pid \in {"own", "stranger"}  BY <1>1, <1>2, <1>e DEF Typed
<1>b. faults' \in 0..MaxFaults  BY <1>1, <1>2, <1>e, Counted DEF Typed
<1>c. disk' \subseteq {"handshake", "authorized", "identified", "completed"} \cup Private  BY <1>1, <1>2,
   <1>e DEF Typed
<1>5. Typed'  BY <1>1, <1>2, <1>e, <1>a, <1>b, <1>c DEF Typed, NoRec, LinuxPlaces, LinuxRecord, LinuxProof
<1>6. Wrapping'  BY <1>1, <1>2, <1>e DEF Wrapping
<1>7. LinuxPlaces'  BY <1>1, <1>2, <1>e DEF LinuxPlaces
<1>8. LinuxRecord'  BY <1>1, <1>2, <1>e DEF LinuxRecord, LinuxPlaces
<1>9. LinuxProof'  BY <1>1, <1>2, <1>e DEF LinuxProof, LinuxPlaces, Proved
<1>10. Moves  BY <1>1, <1>2, <1>e DEF Moves, Quiet, Started, Ended, Proves, Proved, LinuxPlaces
<1>. QED  BY <1>1, <1>3, <1>4, <1>5, <1>6, <1>7, <1>8, <1>9, <1>10, OfLinux

\* The command is created behind its gate.
LEMMA LinuxForksInv ==
  ASSUME Inv, platform = "linux", LinuxForks
  PROVE  Inv' /\ Moves
<1> USE DEF Procs, Running, Alive, Members, Live, Unseen, Wrapped
<1>1. platform' = platform  BY DEF LinuxForks
<1>2. Shapes /\ TreeTyped /\ Typed /\ Wrapping /\ LinuxPlaces /\ LinuxRecord /\ LinuxProof  BY <1>1, OfLinux
<1>3. DOMAIN tree = Procs /\ Shapes'  BY <1>2 DEF Shapes, TreeTyped, LinuxForks
<1>4. TreeTyped'  BY <1>2, <1>3 DEF TreeTyped, LinuxForks
<1>5. Typed'  BY <1>2, <1>3 DEF Shapes, Typed, LinuxForks
<1>6. Wrapping'  BY <1>2, <1>3 DEF Shapes, Wrapping, LinuxForks
<1>7. LinuxPlaces'  BY <1>2, <1>3 DEF Shapes, LinuxPlaces, LinuxForks
<1>8. LinuxRecord'  BY <1>2, <1>3 DEF Shapes, LinuxRecord, LinuxForks
<1>9. LinuxProof'  BY <1>2, <1>3 DEF Shapes, LinuxProof, Proved, LinuxForks
<1>10. Moves  BY <1>2, <1>3 DEF Shapes, Moves, Quiet, Started, Ended, Proves, Proved, LinuxForks
<1>. QED  BY <1>1, <1>3, <1>4, <1>5, <1>6, <1>7, <1>8, <1>9, <1>10, OfLinux

\* The record is complete, or the command dies behind its gate.
LEMMA LinuxAuthorizesInv ==
  ASSUME Inv, platform = "linux", LinuxAuthorizes
  PROVE  Inv' /\ Moves
<1> USE DEF Procs, Running, Alive, Members, Live, Unseen, Wrapped
<1>1. platform' = platform  BY DEF LinuxAuthorizes
<1>2. Shapes /\ TreeTyped /\ Typed /\ Wrapping /\ LinuxPlaces /\ LinuxRecord /\ LinuxProof  BY <1>1, OfLinux
<1>3. DOMAIN tree = Procs /\ Shapes'
  BY <1>2 DEF Shapes, TreeTyped, LinuxAuthorizes, Fault, LinuxGone, Frame
<1>e. /\ UNCHANGED <<platform, kind, owner, inp, sent, wrap, job, rec, starts>>
      /\ sup'.fault = sup.fault /\ sup'.pid = sup.pid
      /\ (sup'.code = sup.code \/ sup'.code = "zero" \/ sup'.code = "other")
      /\ sup.at = "forked"
      /\ faults' = faults \/ Fault
      /\ \A p \in {"helper", "kid"} : tree'[p] = tree[p]
      /\ \/ sup'.at = "named" /\ disk' = disk \cup {"authorized"} /\ proof' = proof /\ tree' = tree
         \/ sup'.at = "gone" /\ disk' = {} /\ proof' \in {proof, "frame"} /\ tree'["command"] = "gone"
  BY <1>2, <1>3 DEF Shapes, LinuxAuthorizes, LinuxGone, Frame
<1>4. TreeTyped'  BY <1>2, <1>3 DEF TreeTyped, LinuxAuthorizes, Fault, LinuxGone, Frame
<1>5. Typed'  BY <1>1, <1>2, <1>e, Counted DEF Typed, NoRec, LinuxPlaces, LinuxRecord, LinuxProof
<1>6. Wrapping'  BY <1>1, <1>2, <1>e DEF Wrapping
<1>7. LinuxPlaces'  BY <1>1, <1>2, <1>e DEF LinuxPlaces
<1>8. LinuxRecord'  BY <1>1, <1>2, <1>e DEF LinuxRecord, LinuxPlaces
<1>9. LinuxProof'  BY <1>1, <1>2, <1>e DEF LinuxProof, LinuxPlaces, Proved
<1>10. Moves  BY <1>1, <1>2, <1>e DEF Moves, Quiet, Started, Ended, Proves, Proved, LinuxPlaces
<1>. QED  BY <1>1, <1>3, <1>4, <1>5, <1>6, <1>7, <1>8, <1>9, <1>10, OfLinux

\* The command starts: the one step that starts it.
LEMMA LinuxReleasesInv ==
  ASSUME Inv, platform = "linux", LinuxReleases
  PROVE  Inv' /\ Moves
<1> USE DEF Procs, Running, Alive, Members, Live, Unseen, Wrapped
<1>1. platform' = platform  BY DEF LinuxReleases
<1>2. Shapes /\ TreeTyped /\ Typed /\ Wrapping /\ LinuxPlaces /\ LinuxRecord /\ LinuxProof  BY <1>1, OfLinux
<1>3. DOMAIN tree = Procs /\ Shapes'  BY <1>2 DEF Shapes, TreeTyped, LinuxReleases
<1>e. /\ UNCHANGED <<platform, kind, owner, inp, sent, wrap, job, disk, rec, proof, faults>>
      /\ sup'.fault = sup.fault /\ sup'.pid = sup.pid
      /\ (sup'.code = sup.code \/ sup'.code = "zero" \/ sup'.code = "other")
      /\ sup.at = "named" /\ starts = 0 /\ starts' = 1 /\ starts' \in {0, 1} /\ sup'.at = "loop"
      /\ tree'["command"] = "run" /\ \A p \in {"helper", "kid"} : tree'[p] = tree[p]
  BY <1>2, <1>3 DEF Shapes, LinuxPlaces, LinuxReleases
<1>4. TreeTyped'  BY <1>2, <1>3 DEF TreeTyped, LinuxReleases
<1>5. Typed'  BY <1>1, <1>2, <1>e DEF Typed
<1>6. Wrapping'  BY <1>1, <1>2, <1>e DEF Wrapping
<1>7. LinuxPlaces'  BY <1>1, <1>2, <1>e DEF LinuxPlaces
<1>8. LinuxRecord'  BY <1>1, <1>2, <1>e DEF LinuxRecord
<1>9. LinuxProof'  BY <1>1, <1>2, <1>e DEF LinuxProof, Proved
<1>10. Moves  BY <1>1, <1>2, <1>e DEF Moves, Quiet, Started, Ended, Proves, Proved, LinuxPlaces
<1>. QED  BY <1>1, <1>3, <1>4, <1>5, <1>6, <1>7, <1>8, <1>9, <1>10, OfLinux

\* A stop before the fork ends with nothing started, a later one only marks the teardown.
LEMMA LinuxStopsInv ==
  ASSUME Inv, platform = "linux", LinuxStops
  PROVE  Inv' /\ Moves
<1> USE DEF Procs, Running, Alive, Members, Live, Unseen, Wrapped
<1>1. platform' = platform  BY DEF LinuxStops
<1>2. Shapes /\ TreeTyped /\ Typed /\ Wrapping /\ LinuxPlaces /\ LinuxRecord /\ LinuxProof  BY <1>1, OfLinux
<1>3. DOMAIN tree = Procs /\ Shapes'  BY <1>2 DEF Shapes, TreeTyped, LinuxStops, LinuxMustStop, Frame,
   LinuxGone
<1>e. /\ UNCHANGED <<platform, kind, owner, sent, wrap, tree, job, rec, starts, faults>>
      /\ sup'.fault = sup.fault /\ sup'.pid = sup.pid
      /\ (sup'.code = sup.code \/ sup'.code = "zero" \/ sup'.code = "other")
      /\ inp' \subseteq inp
      /\ \/ sup.at = "open" /\ sup'.at = "gone" /\ disk' = {} /\ proof' \in {proof, "frame"}
         \/ sup.at = "loop" /\ sup'.at = "loop" /\ disk' = disk /\ proof' = proof
  BY <1>2, <1>3 DEF Shapes, LinuxStops, LinuxMustStop, Frame, LinuxGone
<1>4. TreeTyped'  BY <1>2, <1>3 DEF TreeTyped, LinuxStops, LinuxMustStop, Frame, LinuxGone
<1>5. Typed'  BY <1>1, <1>2, <1>e DEF Typed
<1>6. Wrapping'  BY <1>1, <1>2, <1>e DEF Wrapping
<1>7. LinuxPlaces'  BY <1>1, <1>2, <1>e DEF LinuxPlaces
<1>8. LinuxRecord'  BY <1>1, <1>2, <1>e DEF LinuxRecord, LinuxPlaces
<1>9. LinuxProof'  BY <1>1, <1>2, <1>e DEF LinuxProof, LinuxPlaces, Proved
<1>10. Moves  BY <1>1, <1>2, <1>e DEF Moves, Quiet, Started, Ended, Proves, Proved, LinuxPlaces
<1>. QED  BY <1>1, <1>3, <1>4, <1>5, <1>6, <1>7, <1>8, <1>9, <1>10, OfLinux

\* The teardown begins.
LEMMA LinuxCommandEndedInv ==
  ASSUME Inv, platform = "linux", LinuxCommandEnded
  PROVE  Inv' /\ Moves
<1> USE DEF Procs, Running, Alive, Members, Live, Unseen, Wrapped
<1>1. platform' = platform  BY DEF LinuxCommandEnded
<1>2. Shapes /\ TreeTyped /\ Typed /\ Wrapping /\ LinuxPlaces /\ LinuxRecord /\ LinuxProof  BY <1>1, OfLinux
<1>3. DOMAIN tree = Procs /\ Shapes'  BY <1>2 DEF Shapes, TreeTyped, LinuxCommandEnded
<1>4. TreeTyped'  BY <1>2, <1>3 DEF TreeTyped, LinuxCommandEnded
<1>5. Typed'  BY <1>2, <1>3 DEF Shapes, Typed, LinuxCommandEnded
<1>6. Wrapping'  BY <1>2, <1>3 DEF Shapes, Wrapping, LinuxCommandEnded
<1>7. LinuxPlaces'  BY <1>2, <1>3 DEF Shapes, LinuxPlaces, LinuxCommandEnded
<1>8. LinuxRecord'  BY <1>2, <1>3 DEF Shapes, LinuxRecord, LinuxCommandEnded
<1>9. LinuxProof'  BY <1>2, <1>3 DEF Shapes, LinuxProof, Proved, LinuxCommandEnded
<1>10. Moves  BY <1>2, <1>3 DEF Shapes, Moves, Quiet, Started, Ended, Proves, Proved, LinuxCommandEnded
<1>. QED  BY <1>1, <1>3, <1>4, <1>5, <1>6, <1>7, <1>8, <1>9, <1>10, OfLinux

\* What was killed is still dying.
LEMMA LinuxKillsInv ==
  ASSUME Inv, platform = "linux", LinuxKills
  PROVE  Inv' /\ Moves
<1> USE DEF Procs, Running, Alive, Members, Live, Unseen, Wrapped
<1>1. platform' = platform  BY DEF LinuxKills
<1>2. Shapes /\ TreeTyped /\ Typed /\ Wrapping /\ LinuxPlaces /\ LinuxRecord /\ LinuxProof  BY <1>1, OfLinux
<1>3. DOMAIN tree = Procs /\ Shapes'  BY <1>2 DEF Shapes, TreeTyped, LinuxKills, Kill, LinuxLive, LinuxTree
<1>e. /\ UNCHANGED <<platform, kind, owner, inp, sent, wrap, sup, job, disk, rec, proof, starts, faults>>
      /\ sup.at = "loop"
      /\ \A p \in Procs : tree'[p] = tree[p] \/ (Alive(p) /\ tree'[p] = "dying")
  BY <1>2, <1>3 DEF Shapes, LinuxKills, Kill, LinuxLive, LinuxTree
<1>4. TreeTyped'  BY <1>2, <1>3 DEF TreeTyped, LinuxKills, Kill, LinuxLive, LinuxTree
<1>5. Typed'  BY <1>1, <1>2, <1>e DEF Typed
<1>6. Wrapping'  BY <1>1, <1>2, <1>e DEF Wrapping
<1>7. LinuxPlaces'  BY <1>1, <1>2, <1>e DEF LinuxPlaces
<1>8. LinuxRecord'  BY <1>1, <1>2, <1>e DEF LinuxRecord
<1>9. LinuxProof'  BY <1>1, <1>2, <1>e DEF LinuxProof, Proved
<1>10. Moves  BY <1>1, <1>2, <1>e DEF Moves, Quiet, Started, Ended, Proves, Proved
<1>. QED  BY <1>1, <1>3, <1>4, <1>5, <1>6, <1>7, <1>8, <1>9, <1>10, OfLinux

\* A reaped process did not run.
LEMMA LinuxReapsInv ==
  ASSUME Inv, platform = "linux", LinuxReaps
  PROVE  Inv' /\ Moves
<1> USE DEF Procs, Running, Alive, Members, Live, Unseen, Wrapped
<1>1. platform' = platform  BY DEF LinuxReaps
<1>2. Shapes /\ TreeTyped /\ Typed /\ Wrapping /\ LinuxPlaces /\ LinuxRecord /\ LinuxProof  BY <1>1, OfLinux
<1>3. DOMAIN tree = Procs /\ Shapes'  BY <1>2 DEF Shapes, TreeTyped, LinuxReaps, LinuxTree, Child
<1>4. TreeTyped'  BY <1>2, <1>3 DEF TreeTyped, LinuxReaps, LinuxTree, Child
<1>5. Typed'  BY <1>2, <1>3 DEF Shapes, Typed, LinuxReaps, LinuxTree, Child
<1>6. Wrapping'  BY <1>2, <1>3 DEF Shapes, Wrapping, LinuxReaps, LinuxTree, Child
<1>7. LinuxPlaces'  BY <1>2, <1>3 DEF Shapes, LinuxPlaces, LinuxReaps, LinuxTree, Child
<1>8. LinuxRecord'  BY <1>2, <1>3 DEF Shapes, LinuxRecord, LinuxReaps, LinuxTree, Child
<1>9. LinuxProof'  BY <1>2, <1>3 DEF Shapes, LinuxProof, Proved, LinuxReaps, LinuxTree, Child
<1>10. Moves  BY <1>2, <1>3 DEF Shapes, Moves, Quiet, Started, Ended, Proves, Proved, LinuxReaps,
   LinuxTree, Child
<1>. QED  BY <1>1, <1>3, <1>4, <1>5, <1>6, <1>7, <1>8, <1>9, <1>10, OfLinux

\* The frame is sent when the kernel knows of no child and none of the tree runs.
LEMMA LinuxProvesInv ==
  ASSUME Inv, platform = "linux", LinuxProves
  PROVE  Inv' /\ Moves
<1> USE DEF Procs, Running, Alive, Members, Live, Unseen, Wrapped
<1>1. platform' = platform  BY DEF LinuxProves
<1>2. Shapes /\ TreeTyped /\ Typed /\ Wrapping /\ LinuxPlaces /\ LinuxRecord /\ LinuxProof  BY <1>1, OfLinux
<1>3. DOMAIN tree = Procs /\ Shapes'  BY <1>2 DEF Shapes, TreeTyped, LinuxProves, TreeEmpty, NoChildren,
   LinuxTree, Child, Frame
<1>4. TreeTyped'  BY <1>2, <1>3 DEF TreeTyped, LinuxProves, TreeEmpty, NoChildren, LinuxTree, Child, Frame
<1>5. Typed'  BY <1>2, <1>3 DEF Shapes, Typed, LinuxProves, TreeEmpty, NoChildren, LinuxTree, Child, Frame
<1>6. Wrapping'  BY <1>2, <1>3 DEF Shapes, Wrapping, LinuxProves, TreeEmpty, NoChildren, LinuxTree, Child,
   Frame
<1>7. LinuxPlaces'  BY <1>2, <1>3 DEF Shapes, LinuxPlaces, LinuxProves, TreeEmpty, NoChildren, LinuxTree,
   Child, Frame
<1>8. LinuxRecord'  BY <1>2, <1>3 DEF Shapes, LinuxRecord, LinuxProves, TreeEmpty, NoChildren, LinuxTree,
   Child, Frame
<1>9. LinuxProof'  BY <1>2, <1>3 DEF Shapes, LinuxProof, Proved, LinuxProves, TreeEmpty, NoChildren,
   LinuxTree, Child, Frame
<1>10. Moves  BY <1>2, <1>3 DEF Shapes, Moves, Quiet, Started, Ended, Proves, Proved, LinuxProves,
   TreeEmpty, NoChildren, LinuxTree, Child, Frame
<1>. QED  BY <1>1, <1>3, <1>4, <1>5, <1>6, <1>7, <1>8, <1>9, <1>10, OfLinux

\* The record goes after the frame.
LEMMA LinuxLeavesInv ==
  ASSUME Inv, platform = "linux", LinuxLeaves
  PROVE  Inv' /\ Moves
<1> USE DEF Procs, Running, Alive, Members, Live, Unseen, Wrapped
<1>1. platform' = platform  BY DEF LinuxLeaves
<1>2. Shapes /\ TreeTyped /\ Typed /\ Wrapping /\ LinuxPlaces /\ LinuxRecord /\ LinuxProof  BY <1>1, OfLinux
<1>3. DOMAIN tree = Procs /\ Shapes'  BY <1>2 DEF Shapes, TreeTyped, LinuxLeaves, LinuxGone
<1>4. TreeTyped'  BY <1>2, <1>3 DEF TreeTyped, LinuxLeaves, LinuxGone
<1>5. Typed'  BY <1>2, <1>3 DEF Shapes, Typed, LinuxLeaves, LinuxGone
<1>6. Wrapping'  BY <1>2, <1>3 DEF Shapes, Wrapping, LinuxLeaves, LinuxGone
<1>7. LinuxPlaces'  BY <1>2, <1>3 DEF Shapes, LinuxPlaces, LinuxLeaves, LinuxGone
<1>8. LinuxRecord'  BY <1>2, <1>3 DEF Shapes, LinuxRecord, LinuxLeaves, LinuxGone
<1>9. LinuxProof'  BY <1>2, <1>3 DEF Shapes, LinuxProof, Proved, LinuxLeaves, LinuxGone
<1>10. Moves  BY <1>2, <1>3 DEF Shapes, Moves, Quiet, Started, Ended, Proves, Proved, LinuxLeaves, LinuxGone
<1>. QED  BY <1>1, <1>3, <1>4, <1>5, <1>6, <1>7, <1>8, <1>9, <1>10, OfLinux

\* A killed supervisor leaves its record, and a gated command ends with it.
LEMMA LinuxDiesInv ==
  ASSUME Inv, platform = "linux", LinuxDies
  PROVE  Inv' /\ Moves
<1> USE DEF Procs, Running, Alive, Members, Live, Unseen, Wrapped
<1>1. platform' = platform  BY DEF LinuxDies
<1>2. Shapes /\ TreeTyped /\ Typed /\ Wrapping /\ LinuxPlaces /\ LinuxRecord /\ LinuxProof  BY <1>1, OfLinux
<1>3. DOMAIN tree = Procs /\ Shapes'  BY <1>2 DEF Shapes, TreeTyped, LinuxDies, Fault
<1>e. /\ UNCHANGED <<platform, kind, owner, inp, sent, wrap, job, disk, rec, proof, starts>>
      /\ sup'.fault /\ sup'.pid = sup.pid /\ sup'.code = sup.code
      /\ sup.at # "gone" /\ sup'.at = "gone"
      /\ faults' = faults \/ Fault
      /\ \A p \in {"helper", "kid"} : tree'[p] = tree[p]
      /\ tree'["command"] = (IF tree["command"] = "gated" THEN "gone" ELSE tree["command"])
  BY <1>2, <1>3 DEF Shapes, LinuxDies
<1>4. TreeTyped'  BY <1>2, <1>3 DEF TreeTyped, LinuxDies, Fault
<1>5. Typed'  BY <1>1, <1>2, <1>e, Counted DEF Typed
<1>6. Wrapping'  BY <1>1, <1>2, <1>e DEF Wrapping
<1>7. LinuxPlaces'  BY <1>1, <1>2, <1>e DEF LinuxPlaces
<1>8. LinuxRecord'  BY <1>1, <1>2, <1>e DEF LinuxRecord, LinuxPlaces
<1>9. LinuxProof'  BY <1>1, <1>2, <1>e DEF LinuxProof, Proved
<1>10. Moves  BY <1>1, <1>2, <1>e DEF Moves, Quiet, Started, Ended, Proves, Proved
<1>. QED  BY <1>1, <1>3, <1>4, <1>5, <1>6, <1>7, <1>8, <1>9, <1>10, OfLinux

\* The number of a supervisor that is gone goes to a stranger.
LEMMA PidReusedInv ==
  ASSUME Inv, platform = "linux", PidReused
  PROVE  Inv' /\ Moves
<1> USE DEF Procs, Running, Alive, Members, Live, Unseen, Wrapped
<1>1. platform' = platform  BY DEF PidReused
<1>2. Shapes /\ TreeTyped /\ Typed /\ Wrapping /\ LinuxPlaces /\ LinuxRecord /\ LinuxProof  BY <1>1, OfLinux
<1>3. DOMAIN tree = Procs /\ Shapes'  BY <1>2 DEF Shapes, TreeTyped, PidReused
<1>4. TreeTyped'  BY <1>2, <1>3 DEF TreeTyped, PidReused
<1>5. Typed'  BY <1>2, <1>3 DEF Shapes, Typed, PidReused
<1>6. Wrapping'  BY <1>2, <1>3 DEF Shapes, Wrapping, PidReused
<1>7. LinuxPlaces'  BY <1>2, <1>3 DEF Shapes, LinuxPlaces, PidReused
<1>8. LinuxRecord'  BY <1>2, <1>3 DEF Shapes, LinuxRecord, PidReused
<1>9. LinuxProof'  BY <1>2, <1>3 DEF Shapes, LinuxProof, Proved, PidReused
<1>10. Moves  BY <1>2, <1>3 DEF Shapes, Moves, Quiet, Started, Ended, Proves, Proved, PidReused
<1>. QED  BY <1>1, <1>3, <1>4, <1>5, <1>6, <1>7, <1>8, <1>9, <1>10, OfLinux

\* Recovery takes a missing record for the word of the supervisor.
LEMMA LinuxRecoversInv ==
  ASSUME Inv, platform = "linux", LinuxRecovers
  PROVE  Inv' /\ Moves
<1> USE DEF Procs, Running, Alive, Members, Live, Unseen, Wrapped
<1>1. platform' = platform  BY DEF LinuxRecovers
<1>2. Shapes /\ TreeTyped /\ Typed /\ Wrapping /\ LinuxPlaces /\ LinuxRecord /\ LinuxProof  BY <1>1, OfLinux
<1>3. DOMAIN tree = Procs /\ Shapes'  BY <1>2 DEF Shapes, TreeTyped, LinuxRecovers
<1>e. /\ UNCHANGED <<platform, kind, owner, inp, sent, wrap, sup, tree, job, disk, starts, faults>>
      /\ sup.at = "gone" \/ starts # 0
      /\ \/ "handshake" \notin disk /\ proof' = "recovered" /\ rec' = rec /\ proof = "none"
         \/ proof' = proof /\ rec'.at = "terminate" /\ rec'.holds = rec.holds
  BY <1>2, <1>3 DEF Shapes, LinuxRecovers
<1>4. TreeTyped'  BY <1>2, <1>3 DEF TreeTyped, LinuxRecovers
<1>5. Typed'  BY <1>1, <1>2, <1>e DEF Typed
<1>6. Wrapping'  BY <1>1, <1>2, <1>e DEF Wrapping
<1>7. LinuxPlaces'  BY <1>1, <1>2, <1>e DEF LinuxPlaces
<1>8. LinuxRecord'  BY <1>1, <1>2, <1>e DEF LinuxRecord
<1>9. LinuxProof'  BY <1>1, <1>2, <1>e DEF LinuxProof, LinuxPlaces, LinuxRecord, Proved
<1>10. Moves  BY <1>1, <1>2, <1>e DEF Moves, Quiet, Started, Ended, Proves, Proved, LinuxPlaces,
   LinuxRecord, LinuxProof
<1>. QED  BY <1>1, <1>3, <1>4, <1>5, <1>6, <1>7, <1>8, <1>9, <1>10, OfLinux

\* The descriptor is bound to whatever has the number.
LEMMA LinuxBindsInv ==
  ASSUME Inv, platform = "linux", LinuxBinds
  PROVE  Inv' /\ Moves
<1> USE DEF Procs, Running, Alive, Members, Live, Unseen, Wrapped
<1>1. platform' = platform  BY DEF LinuxBinds
<1>2. Shapes /\ TreeTyped /\ Typed /\ Wrapping /\ LinuxPlaces /\ LinuxRecord /\ LinuxProof  BY <1>1, OfLinux
<1>3. DOMAIN tree = Procs /\ Shapes'  BY <1>2 DEF Shapes, TreeTyped, LinuxBinds
<1>e. /\ UNCHANGED <<platform, kind, owner, inp, sent, wrap, sup, tree, job, disk, proof, starts, faults>>
      /\ rec.at = "terminate" /\ rec'.at = "bound" /\ rec'.holds \in {"none", "own", "stranger"}
      /\ (rec'.holds = "stranger" => sup.pid = "stranger")
  BY <1>2, <1>3 DEF Shapes, LinuxBinds
<1>4. TreeTyped'  BY <1>2, <1>3 DEF TreeTyped, LinuxBinds
<1>5. Typed'  BY <1>1, <1>2, <1>e DEF Typed
<1>6. Wrapping'  BY <1>1, <1>2, <1>e DEF Wrapping
<1>7. LinuxPlaces'  BY <1>1, <1>2, <1>e DEF LinuxPlaces
<1>8. LinuxRecord'  BY <1>1, <1>2, <1>e DEF LinuxRecord
<1>9. LinuxProof'  BY <1>1, <1>2, <1>e DEF LinuxProof, Proved
<1>10. Moves  BY <1>1, <1>2, <1>e DEF Moves, Quiet, Started, Ended, Proves, Proved
<1>. QED  BY <1>1, <1>3, <1>4, <1>5, <1>6, <1>7, <1>8, <1>9, <1>10, OfLinux

\* A signal goes through the descriptor only to what still matches the record.
LEMMA LinuxSignalsInv ==
  ASSUME Inv, platform = "linux", LinuxSignals
  PROVE  Inv' /\ Moves
<1> USE DEF Procs, Running, Alive, Members, Live, Unseen, Wrapped
<1>1. platform' = platform  BY DEF LinuxSignals
<1>2. Shapes /\ TreeTyped /\ Typed /\ Wrapping /\ LinuxPlaces /\ LinuxRecord /\ LinuxProof  BY <1>1, OfLinux
<1>3. DOMAIN tree = Procs /\ Shapes'  BY <1>2 DEF Shapes, TreeTyped, LinuxSignals, IdentityMatches
<1>e. /\ UNCHANGED <<platform, kind, owner, inp, sent, wrap, tree, job, disk, proof, starts, faults>>
      /\ sup'.fault = sup.fault /\ sup'.pid = sup.pid
      /\ (sup'.code = sup.code \/ sup'.code = "zero" \/ sup'.code = "other")
      /\ rec.at = "bound" /\ sup'.at = sup.at /\ rec'.holds = rec.holds /\ rec'.at = "wait"
  BY <1>2, <1>3 DEF Shapes, LinuxPlaces, LinuxProof, LinuxSignals, IdentityMatches
<1>4. TreeTyped'  BY <1>2, <1>3 DEF TreeTyped, LinuxSignals, IdentityMatches
<1>5. Typed'  BY <1>1, <1>2, <1>e DEF Typed
<1>6. Wrapping'  BY <1>1, <1>2, <1>e DEF Wrapping
<1>7. LinuxPlaces'  BY <1>1, <1>2, <1>e DEF LinuxPlaces
<1>8. LinuxRecord'  BY <1>1, <1>2, <1>e DEF LinuxRecord
<1>9. LinuxProof'  BY <1>1, <1>2, <1>e DEF LinuxProof, Proved
<1>10. Moves  BY <1>1, <1>2, <1>e DEF Moves, Quiet, Started, Ended, Proves, Proved
<1>. QED  BY <1>1, <1>3, <1>4, <1>5, <1>6, <1>7, <1>8, <1>9, <1>10, OfLinux

\* Recovery looks at the record again.
LEMMA LinuxLooksAgainInv ==
  ASSUME Inv, platform = "linux", LinuxLooksAgain
  PROVE  Inv' /\ Moves
<1> USE DEF Procs, Running, Alive, Members, Live, Unseen, Wrapped
<1>1. platform' = platform  BY DEF LinuxLooksAgain
<1>2. Shapes /\ TreeTyped /\ Typed /\ Wrapping /\ LinuxPlaces /\ LinuxRecord /\ LinuxProof  BY <1>1, OfLinux
<1>3. DOMAIN tree = Procs /\ Shapes'  BY <1>2 DEF Shapes, TreeTyped, LinuxLooksAgain, NoRec
<1>e. /\ UNCHANGED <<platform, kind, owner, inp, sent, wrap, sup, tree, job, disk, starts, faults>>
      /\ rec.at = "wait" /\ rec'.at = "idle" /\ rec'.holds = "none"
      /\ \/ "handshake" \notin disk /\ proof' = "recovered"
         \/ proof' = proof
  BY <1>2, <1>3 DEF Shapes, LinuxLooksAgain, NoRec
<1>4. TreeTyped'  BY <1>2, <1>3 DEF TreeTyped, LinuxLooksAgain, NoRec
<1>5. Typed'  BY <1>1, <1>2, <1>e DEF Typed
<1>6. Wrapping'  BY <1>1, <1>2, <1>e DEF Wrapping
<1>7. LinuxPlaces'  BY <1>1, <1>2, <1>e DEF LinuxPlaces
<1>8. LinuxRecord'  BY <1>1, <1>2, <1>e DEF LinuxRecord
<1>9. LinuxProof'  BY <1>1, <1>2, <1>e DEF LinuxProof, LinuxPlaces, LinuxRecord, Proved
<1>10. Moves  BY <1>1, <1>2, <1>e DEF Moves, Quiet, Started, Ended, Proves, Proved, LinuxPlaces,
   LinuxRecord, LinuxProof
<1>. QED  BY <1>1, <1>3, <1>4, <1>5, <1>6, <1>7, <1>8, <1>9, <1>10, OfLinux

\* An agent is judged by its process group.
LEMMA LinuxAgentVerdictInv ==
  ASSUME Inv, platform = "linux", LinuxAgentVerdict
  PROVE  Inv' /\ Moves
<1> USE DEF Procs, Running, Alive, Members, Live, Unseen, Wrapped
<1>1. platform' = platform  BY DEF LinuxAgentVerdict
<1>2. Shapes /\ TreeTyped /\ Typed /\ Wrapping /\ LinuxPlaces /\ LinuxRecord /\ LinuxProof  BY <1>1, OfLinux
<1>3. DOMAIN tree = Procs /\ Shapes'  BY <1>2 DEF Shapes, TreeTyped, LinuxAgentVerdict, GroupEmpty
<1>4. TreeTyped'  BY <1>2, <1>3 DEF TreeTyped, LinuxAgentVerdict, GroupEmpty
<1>5. Typed'  BY <1>2, <1>3 DEF Shapes, Typed, LinuxAgentVerdict, GroupEmpty
<1>6. Wrapping'  BY <1>2, <1>3 DEF Shapes, Wrapping, LinuxAgentVerdict, GroupEmpty
<1>7. LinuxPlaces'  BY <1>2, <1>3 DEF Shapes, LinuxPlaces, LinuxAgentVerdict, GroupEmpty
<1>8. LinuxRecord'  BY <1>2, <1>3 DEF Shapes, LinuxRecord, LinuxAgentVerdict, GroupEmpty
<1>9. LinuxProof'  BY <1>2, <1>3 DEF Shapes, LinuxProof, LinuxPlaces, Proved, LinuxAgentVerdict, GroupEmpty
<1>10. Moves  BY <1>2, <1>3 DEF Shapes, Moves, Quiet, Started, Ended, Proves, Proved, LinuxAgentVerdict,
   GroupEmpty
<1>. QED  BY <1>1, <1>3, <1>4, <1>5, <1>6, <1>7, <1>8, <1>9, <1>10, OfLinux

\* On macOS: a line of the runtime only waits to be read.
LEMMA TellDarwinInv ==
  ASSUME Inv, platform = "darwin", NEW line \in {"go", "stop"}, Tell(line)
  PROVE  Inv' /\ Moves
<1> USE DEF Procs, Running, Alive, Members, Live, Unseen, Left, Wrapped, Private, Registered,
   Untouched
<1>1. platform' = platform  BY DEF Tell
<1>2. Shapes /\ TreeTyped /\ Typed /\ Wrapping /\ DarwinPlaces /\ DarwinStarts /\ DarwinFirst /\ DarwinProof
  BY <1>1, OfDarwin
<1>3. DOMAIN tree = Procs /\ Shapes'  BY <1>2 DEF Shapes, TreeTyped, Tell
<1>4. TreeTyped'  BY <1>2, <1>3 DEF TreeTyped, Tell
<1>5. Typed'  BY <1>2, <1>3 DEF Shapes, Typed, Tell
<1>6. Wrapping'  BY <1>2, <1>3 DEF Shapes, Wrapping, Tell
<1>7. DarwinPlaces'  BY <1>2, <1>3 DEF Shapes, DarwinPlaces, Tell, Before
<1>8. DarwinStarts'  BY <1>2, <1>3 DEF Shapes, DarwinStarts, Tell, Before
<1>9. DarwinFirst'  BY <1>2, <1>3 DEF Shapes, DarwinFirst, Tell, Before
<1>10. DarwinProof'  BY <1>2, <1>3 DEF Shapes, DarwinProof, Proved, Tell, DarwinOver, Before
<1>11. Moves  BY <1>2, <1>3 DEF Shapes, Moves, Quiet, Started, Ended, Proves, Proved, Tell
<1>. QED  BY <1>1, <1>3, <1>4, <1>5, <1>6, <1>7, <1>8, <1>9, <1>10, <1>11, OfDarwin

\* On macOS: the end of the runtime changes nothing but that.
LEMMA OwnerDiesDarwinInv ==
  ASSUME Inv, platform = "darwin", OwnerDies
  PROVE  Inv' /\ Moves
<1> USE DEF Procs, Running, Alive, Members, Live, Unseen, Left, Wrapped, Private, Registered,
   Untouched
<1>1. platform' = platform  BY DEF OwnerDies
<1>2. Shapes /\ TreeTyped /\ Typed /\ Wrapping /\ DarwinPlaces /\ DarwinStarts /\ DarwinFirst /\ DarwinProof
  BY <1>1, OfDarwin
<1>3. DOMAIN tree = Procs /\ Shapes'  BY <1>2 DEF Shapes, TreeTyped, OwnerDies, Fault
<1>4. TreeTyped'  BY <1>2, <1>3 DEF TreeTyped, OwnerDies, Fault
<1>5. Typed'  BY <1>2, <1>3, Counted DEF Shapes, Typed, OwnerDies
<1>6. Wrapping'  BY <1>2, <1>3 DEF Shapes, Wrapping, OwnerDies, Fault
<1>7. DarwinPlaces'  BY <1>2, <1>3 DEF Shapes, DarwinPlaces, OwnerDies, Fault, Before
<1>8. DarwinStarts'  BY <1>2, <1>3 DEF Shapes, DarwinStarts, OwnerDies, Fault, Before
<1>9. DarwinFirst'  BY <1>2, <1>3 DEF Shapes, DarwinFirst, OwnerDies, Fault, Before
<1>10. DarwinProof'  BY <1>2, <1>3 DEF Shapes, DarwinProof, Proved, OwnerDies, Fault, DarwinOver, Before
<1>11. Moves  BY <1>2, <1>3 DEF Shapes, Moves, Quiet, Started, Ended, Proves, Proved, OwnerDies, Fault
<1>. QED  BY <1>1, <1>3, <1>4, <1>5, <1>6, <1>7, <1>8, <1>9, <1>10, <1>11, OfDarwin

\* On macOS: a command that forks runs.
LEMMA ForkDarwinInv ==
  ASSUME Inv, platform = "darwin", Fork
  PROVE  Inv' /\ Moves
<1> USE DEF Procs, Running, Alive, Members, Live, Unseen, Left, Wrapped, Private, Registered,
   Untouched
<1>1. platform' = platform  BY DEF Fork
<1>2. Shapes /\ TreeTyped /\ Typed /\ Wrapping /\ DarwinPlaces /\ DarwinStarts /\ DarwinFirst /\ DarwinProof
  BY <1>1, OfDarwin
<1>3. DOMAIN tree = Procs /\ Shapes'  BY <1>2 DEF Shapes, TreeTyped, Fork
<1>4. TreeTyped'  BY <1>2, <1>3 DEF TreeTyped, Fork
<1>5. Typed'  BY <1>2, <1>3 DEF Shapes, Typed, Fork
<1>6. Wrapping'  BY <1>2, <1>3 DEF Shapes, Wrapping, Fork
<1>7. DarwinPlaces'  BY <1>2, <1>3 DEF Shapes, DarwinPlaces, Fork, Before
<1>8. DarwinStarts'  BY <1>2, <1>3 DEF Shapes, DarwinStarts, Fork, Before
<1>9. DarwinFirst'  BY <1>2, <1>3 DEF Shapes, DarwinFirst, Fork, Before
<1>10. DarwinProof'  BY <1>2, <1>3 DEF Shapes, DarwinProof, Proved, Fork, DarwinOver, Before
<1>11. Moves  BY <1>2, <1>3 DEF Shapes, Moves, Quiet, Started, Ended, Proves, Proved, Fork
<1>. QED  BY <1>1, <1>3, <1>4, <1>5, <1>6, <1>7, <1>8, <1>9, <1>10, <1>11, OfDarwin

\* On macOS: a process that ends is one member less.
LEMMA EndsDarwinInv ==
  ASSUME Inv, platform = "darwin", NEW p \in Procs, Ends(p)
  PROVE  Inv' /\ Moves
<1> USE DEF Procs, Running, Alive, Members, Live, Unseen, Left, Wrapped, Private, Registered,
   Untouched
<1>1. platform' = platform  BY DEF Ends
<1>2. Shapes /\ TreeTyped /\ Typed /\ Wrapping /\ DarwinPlaces /\ DarwinStarts /\ DarwinFirst /\ DarwinProof
  BY <1>1, OfDarwin
<1>3. DOMAIN tree = Procs /\ Shapes'  BY <1>2 DEF Shapes, TreeTyped, Ends
<1>4. TreeTyped'  BY <1>2, <1>3 DEF TreeTyped, Ends
<1>5. Typed'  BY <1>2, <1>3 DEF Shapes, Typed, Ends
<1>6. Wrapping'  BY <1>2, <1>3 DEF Shapes, Wrapping, Ends
<1>7. DarwinPlaces'  BY <1>2, <1>3 DEF Shapes, DarwinPlaces, Ends, Before
<1>8. DarwinStarts'  BY <1>2, <1>3 DEF Shapes, DarwinStarts, Ends, Before
<1>9. DarwinFirst'  BY <1>2, <1>3 DEF Shapes, DarwinFirst, Ends, Before
<1>10. DarwinProof'  BY <1>2, <1>3 DEF Shapes, DarwinProof, Proved, Ends, DarwinOver, Before
<1>11. Moves  BY <1>2, <1>3 DEF Shapes, Moves, Quiet, Started, Ended, Proves, Proved, Ends
<1>. QED  BY <1>1, <1>3, <1>4, <1>5, <1>6, <1>7, <1>8, <1>9, <1>10, <1>11, OfDarwin

\* On macOS: the wrapper records its handshake before it has a supervisor.
LEMMA WrapperOpensDarwinInv ==
  ASSUME Inv, platform = "darwin", WrapperOpens
  PROVE  Inv' /\ Moves
<1> USE DEF Procs, Running, Alive, Members, Live, Unseen, Left, Wrapped, Private, Registered,
   Untouched
<1>1. platform' = platform  BY DEF WrapperOpens
<1>2. Shapes /\ TreeTyped /\ Typed /\ Wrapping /\ DarwinPlaces /\ DarwinStarts /\ DarwinFirst /\ DarwinProof
  BY <1>1, OfDarwin
<1>3. DOMAIN tree = Procs /\ Shapes'  BY <1>2 DEF Shapes, TreeTyped, WrapperOpens
<1>4. TreeTyped'  BY <1>2, <1>3 DEF TreeTyped, WrapperOpens
<1>5. Typed'  BY <1>2, <1>3 DEF Shapes, Typed, WrapperOpens
<1>6. Wrapping'  BY <1>2, <1>3 DEF Shapes, Wrapping, WrapperOpens
<1>7. DarwinPlaces'  BY <1>2, <1>3 DEF Shapes, DarwinPlaces, WrapperOpens, Before
<1>8. DarwinStarts'  BY <1>2, <1>3 DEF Shapes, DarwinStarts, WrapperOpens, Before
<1>9. DarwinFirst'  BY <1>2, <1>3 DEF Shapes, DarwinFirst, WrapperOpens, Before
<1>10. DarwinProof'  BY <1>2, <1>3 DEF Shapes, DarwinProof, Proved, WrapperOpens, DarwinOver, Before
<1>11. Moves  BY <1>2, <1>3 DEF Shapes, Moves, Quiet, Started, Ended, Proves, Proved, WrapperOpens
<1>. QED  BY <1>1, <1>3, <1>4, <1>5, <1>6, <1>7, <1>8, <1>9, <1>10, <1>11, OfDarwin

\* On macOS: the wrapper brings the supervisor to its first place, on Windows with the
\* authorization on disk.
LEMMA WrapperSpawnsDarwinInv ==
  ASSUME Inv, platform = "darwin", WrapperSpawns
  PROVE  Inv' /\ Moves
<1> USE DEF Procs, Running, Alive, Members, Live, Unseen, Left, Wrapped, Private, Registered,
   Untouched
<1>1. platform' = platform  BY DEF WrapperSpawns
<1>2. Shapes /\ TreeTyped /\ Typed /\ Wrapping /\ DarwinPlaces /\ DarwinStarts /\ DarwinFirst /\ DarwinProof
  BY <1>1, OfDarwin
<1>3. DOMAIN tree = Procs /\ Shapes'  BY <1>2 DEF Shapes, TreeTyped, WrapperSpawns, Fault
<1>e. /\ UNCHANGED <<platform, kind, owner, sent, tree, job, disk, rec, proof, starts, faults>>
      /\ sup'.fault = sup.fault /\ sup'.pid = sup.pid /\ sup'.code = sup.code
      /\ inp' \subseteq inp
      /\ wrap = "open" /\ wrap' = "gating" /\ sup'.at = "gated"
  BY <1>2, <1>3 DEF Shapes, WrapperSpawns, Fault
<1>4. TreeTyped'  BY <1>2, <1>3 DEF TreeTyped, WrapperSpawns, Fault
<1>5. Typed'  BY <1>1, <1>2, <1>e, Counted DEF Typed
<1>6. Wrapping'  BY <1>1, <1>2, <1>e DEF Wrapping, DarwinPlaces
<1>7. DarwinPlaces'  BY <1>1, <1>2, <1>e DEF DarwinPlaces, DarwinStarts, DarwinFirst, DarwinProof, Typed,
   Wrapping, Before
<1>8. DarwinStarts'  BY <1>1, <1>2, <1>e DEF DarwinStarts, Before
<1>9. DarwinFirst'  BY <1>1, <1>2, <1>e DEF DarwinFirst, DarwinPlaces, DarwinStarts, DarwinProof, Typed,
   Wrapping, Before
<1>10. DarwinProof'  BY <1>1, <1>2, <1>e DEF DarwinProof, DarwinPlaces, DarwinStarts, DarwinFirst, Typed,
   Wrapping, Proved, DarwinOver, Before
<1>11. Moves  BY <1>1, <1>2, <1>e DEF Moves, Quiet, Started, Ended, Proves, Proved
<1>. QED  BY <1>1, <1>3, <1>4, <1>5, <1>6, <1>7, <1>8, <1>9, <1>10, <1>11, OfDarwin

\* On macOS: the supervisor goes on once its identity is on disk, or is killed at the gate.
LEMMA WrapperOpensGateDarwinInv ==
  ASSUME Inv, platform = "darwin", WrapperOpensGate
  PROVE  Inv' /\ Moves
<1> USE DEF Procs, Running, Alive, Members, Live, Unseen, Left, Wrapped, Private, Registered,
   Untouched
<1>1. platform' = platform  BY DEF WrapperOpensGate
<1>2. Shapes /\ TreeTyped /\ Typed /\ Wrapping /\ DarwinPlaces /\ DarwinStarts /\ DarwinFirst /\ DarwinProof
  BY <1>1, OfDarwin
<1>3. DOMAIN tree = Procs /\ Shapes'  BY <1>2 DEF Shapes, TreeTyped, WrapperOpensGate, Fault
<1>e. /\ UNCHANGED <<platform, kind, owner, inp, sent, tree, job, rec, proof, starts>>
      /\ sup'.pid = sup.pid /\ (sup'.code = sup.code \/ sup'.code = "zero" \/ sup'.code = "other")
      /\ faults' = faults \/ Fault
      /\ wrap = "gating"
      /\ \/ /\ wrap' = "spawned" /\ disk' = disk \cup {"identified"} /\ sup'.fault = sup.fault
            /\ sup'.at = (IF sup.at = "gated" THEN "authorized" ELSE sup.at)
         \/ wrap' = "gone" /\ disk' = disk \ {"handshake"} /\ sup'.at = "gone" /\ sup'.fault
  BY <1>2, <1>3 DEF Shapes, WrapperOpensGate
<1>4. TreeTyped'  BY <1>2, <1>3 DEF TreeTyped, WrapperOpensGate, Fault
<1>a. sup'.code # "nothing" /\ sup'.pid \in {"own", "stranger"}  BY <1>1, <1>2, <1>e DEF Typed
<1>b. faults' \in 0..MaxFaults  BY <1>1, <1>2, <1>e, Counted DEF Typed
<1>c. disk' \subseteq {"handshake", "authorized", "identified", "completed"} \cup Private  BY <1>1, <1>2,
   <1>e DEF Typed
<1>5. Typed'  BY <1>1, <1>2, <1>e, <1>a, <1>b, <1>c DEF Typed, NoRec, DarwinPlaces, DarwinStarts,
   DarwinFirst, DarwinProof
<1>6. Wrapping'  BY <1>1, <1>2, <1>e DEF Wrapping
<1>7. DarwinPlaces'  BY <1>1, <1>2, <1>e DEF DarwinPlaces, DarwinStarts, DarwinFirst, DarwinProof, Typed,
   Wrapping, Before
<1>8. DarwinStarts'  BY <1>1, <1>2, <1>e DEF DarwinStarts, Before
<1>9. DarwinFirst'  BY <1>1, <1>2, <1>e DEF DarwinFirst, Before
<1>10. DarwinProof'  BY <1>1, <1>2, <1>e DEF DarwinProof, Proved, DarwinOver, Before
<1>11. Moves  BY <1>1, <1>2, <1>e DEF Moves, Quiet, Started, Ended, Proves, Proved
<1>. QED  BY <1>1, <1>3, <1>4, <1>5, <1>6, <1>7, <1>8, <1>9, <1>10, <1>11, OfDarwin

\* On macOS: a wrapper without a supervisor leaves, another passes the stop on.
LEMMA WrapperStopsDarwinInv ==
  ASSUME Inv, platform = "darwin", WrapperStops
  PROVE  Inv' /\ Moves
<1> USE DEF Procs, Running, Alive, Members, Live, Unseen, Left, Wrapped, Private, Registered,
   Untouched
<1>1. platform' = platform  BY DEF WrapperStops
<1>2. Shapes /\ TreeTyped /\ Typed /\ Wrapping /\ DarwinPlaces /\ DarwinStarts /\ DarwinFirst /\ DarwinProof
  BY <1>1, OfDarwin
<1>3. DOMAIN tree = Procs /\ Shapes'  BY <1>2 DEF Shapes, TreeTyped, WrapperStops
<1>e. /\ UNCHANGED <<platform, kind, owner, sent, tree, job, rec, proof, starts, faults>>
      /\ sup'.fault = sup.fault /\ sup'.pid = sup.pid /\ sup'.code = sup.code
      /\ inp' \subseteq inp /\ sup'.at = sup.at
      /\ \/ wrap = "open" /\ wrap' = "gone" /\ disk' = disk \ {"handshake"}
         \/ wrap = "spawned" /\ UNCHANGED <<wrap, disk>>
  BY <1>2, <1>3 DEF Shapes, WrapperStops
<1>4. TreeTyped'  BY <1>2, <1>3 DEF TreeTyped, WrapperStops
<1>5. Typed'  BY <1>1, <1>2, <1>e DEF Typed
<1>6. Wrapping'  BY <1>1, <1>2, <1>e DEF Wrapping
<1>7. DarwinPlaces'  BY <1>1, <1>2, <1>e DEF DarwinPlaces, Before
<1>8. DarwinStarts'  BY <1>1, <1>2, <1>e DEF DarwinStarts, Before
<1>9. DarwinFirst'  BY <1>1, <1>2, <1>e DEF DarwinFirst, Before
<1>10. DarwinProof'  BY <1>1, <1>2, <1>e DEF DarwinProof, Proved, DarwinOver, Before
<1>11. Moves  BY <1>1, <1>2, <1>e DEF Moves, Quiet, Started, Ended, Proves, Proved
<1>. QED  BY <1>1, <1>3, <1>4, <1>5, <1>6, <1>7, <1>8, <1>9, <1>10, <1>11, OfDarwin

\* On macOS: the wrapper follows a supervisor that is gone, and says completed or closed only
\* for a tree that is over.
LEMMA WrapperFinishesDarwinInv ==
  ASSUME Inv, platform = "darwin", WrapperFinishes
  PROVE  Inv' /\ Moves
<1> USE DEF Procs, Running, Alive, Members, Live, Unseen, Left, Wrapped, Private, Registered,
   Untouched
<1>1. platform' = platform  BY DEF WrapperFinishes
<1>2. Shapes /\ TreeTyped /\ Typed /\ Wrapping /\ DarwinPlaces /\ DarwinStarts /\ DarwinFirst /\ DarwinProof
  BY <1>1, OfDarwin
<1>3. DOMAIN tree = Procs /\ Shapes'  BY <1>2 DEF Shapes, TreeTyped, WrapperFinishes, KeepsEvidence
<1>e. /\ UNCHANGED <<platform, kind, owner, inp, sent, sup, tree, job, rec, starts, faults>>
      /\ wrap = "spawned" /\ sup.at = "gone" /\ wrap' = "gone" /\ disk' = disk \ {"handshake"}
      /\ proof' = proof \/ (~sup.fault /\ proof' = "closed")
  BY <1>2, <1>3 DEF Shapes, WrapperFinishes, KeepsEvidence
<1>4. TreeTyped'  BY <1>2, <1>3 DEF TreeTyped, WrapperFinishes, KeepsEvidence
<1>5. Typed'  BY <1>1, <1>2, <1>e DEF Typed
<1>6. Wrapping'  BY <1>1, <1>2, <1>e DEF Wrapping
<1>7. DarwinPlaces'  BY <1>1, <1>2, <1>e DEF DarwinPlaces, Before
<1>8. DarwinStarts'  BY <1>1, <1>2, <1>e DEF DarwinStarts, Before
<1>9. DarwinFirst'  BY <1>1, <1>2, <1>e DEF DarwinFirst, Before
<1>10. DarwinProof'  BY <1>1, <1>2, <1>e DEF DarwinProof, Proved, DarwinOver, Before
<1>11. Moves  BY <1>1, <1>2, <1>e DEF Moves, Quiet, Started, Ended, Proves, Proved, DarwinPlaces,
   DarwinStarts, DarwinFirst, DarwinProof, Typed, DarwinOver, Before
<1>. QED  BY <1>1, <1>3, <1>4, <1>5, <1>6, <1>7, <1>8, <1>9, <1>10, <1>11, OfDarwin

\* On macOS: the end of the wrapper changes nothing of the tree.
LEMMA WrapperDiesDarwinInv ==
  ASSUME Inv, platform = "darwin", WrapperDies
  PROVE  Inv' /\ Moves
<1> USE DEF Procs, Running, Alive, Members, Live, Unseen, Left, Wrapped, Private, Registered,
   Untouched
<1>1. platform' = platform  BY DEF WrapperDies
<1>2. Shapes /\ TreeTyped /\ Typed /\ Wrapping /\ DarwinPlaces /\ DarwinStarts /\ DarwinFirst /\ DarwinProof
  BY <1>1, OfDarwin
<1>3. DOMAIN tree = Procs /\ Shapes'  BY <1>2 DEF Shapes, TreeTyped, WrapperDies, Fault
<1>4. TreeTyped'  BY <1>2, <1>3 DEF TreeTyped, WrapperDies, Fault
<1>5. Typed'  BY <1>2, <1>3, Counted DEF Shapes, Typed, WrapperDies
<1>6. Wrapping'  BY <1>2, <1>3 DEF Shapes, Wrapping, WrapperDies, Fault
<1>7. DarwinPlaces'  BY <1>2, <1>3 DEF Shapes, DarwinPlaces, WrapperDies, Fault, Before
<1>8. DarwinStarts'  BY <1>2, <1>3 DEF Shapes, DarwinStarts, WrapperDies, Fault, Before
<1>9. DarwinFirst'  BY <1>2, <1>3 DEF Shapes, DarwinFirst, WrapperDies, Fault, Before
<1>10. DarwinProof'  BY <1>2, <1>3 DEF Shapes, DarwinProof, Proved, WrapperDies, Fault, DarwinOver, Before
<1>11. Moves  BY <1>2, <1>3 DEF Shapes, Moves, Quiet, Started, Ended, Proves, Proved, WrapperDies, Fault
<1>. QED  BY <1>1, <1>3, <1>4, <1>5, <1>6, <1>7, <1>8, <1>9, <1>10, <1>11, OfDarwin

\* The supervisor reads its first line, or leaves with nothing started.
LEMMA DarwinAuthorizedInv ==
  ASSUME Inv, platform = "darwin", DarwinAuthorized
  PROVE  Inv' /\ Moves
<1> USE DEF Procs, Running, Alive, Members, Live, Unseen, Left, Wrapped, Private, Registered,
   Untouched
<1>1. platform' = platform  BY DEF DarwinAuthorized
<1>2. Shapes /\ TreeTyped /\ Typed /\ Wrapping /\ DarwinPlaces /\ DarwinStarts /\ DarwinFirst /\ DarwinProof
  BY <1>1, OfDarwin
<1>3. DOMAIN tree = Procs /\ Shapes'  BY <1>2 DEF Shapes, TreeTyped, DarwinAuthorized, DarwinEnd, Frame
<1>e. /\ UNCHANGED <<platform, kind, owner, sent, wrap, tree, job, disk, rec, starts, faults>>
      /\ sup'.fault = sup.fault /\ sup'.pid = sup.pid
      /\ (sup'.code = sup.code \/ sup'.code = "zero" \/ sup'.code = "other")
      /\ inp' \subseteq inp
      /\ \/ sup.at = "new" /\ sup'.at = "authorized" /\ proof' = proof
         \/ sup.at \in {"new", "gated"} /\ sup'.at = "gone" /\ proof' \in {proof, "frame"}
  BY <1>2, <1>3 DEF Shapes, DarwinAuthorized, DarwinEnd, Frame
<1>4. TreeTyped'  BY <1>2, <1>3 DEF TreeTyped, DarwinAuthorized, DarwinEnd, Frame
<1>5. Typed'  BY <1>1, <1>2, <1>e DEF Typed
<1>6. Wrapping'  BY <1>1, <1>2, <1>e DEF Wrapping
<1>7. DarwinPlaces'  BY <1>1, <1>2, <1>e DEF DarwinPlaces, Before
<1>8. DarwinStarts'  BY <1>1, <1>2, <1>e DEF DarwinStarts, Before
<1>9. DarwinFirst'  BY <1>1, <1>2, <1>e DEF DarwinFirst, Before
<1>10. DarwinProof'  BY <1>1, <1>2, <1>e DEF DarwinProof, DarwinPlaces, DarwinStarts, DarwinFirst, Proved,
   DarwinOver, Before
<1>11. Moves  BY <1>1, <1>2, <1>e DEF Moves, Quiet, Started, Ended, Proves, Proved, DarwinPlaces,
   DarwinStarts, DarwinFirst, DarwinProof
<1>. QED  BY <1>1, <1>3, <1>4, <1>5, <1>6, <1>7, <1>8, <1>9, <1>10, <1>11, OfDarwin

\* The private directory is there with the environment in it before the job is submitted, and
\* removed if it is not.
LEMMA DarwinPreparesInv ==
  ASSUME Inv, platform = "darwin", DarwinPrepares
  PROVE  Inv' /\ Moves
<1> USE DEF Procs, Running, Alive, Members, Live, Unseen, Left, Wrapped, Private, Registered,
   Untouched
<1>1. platform' = platform  BY DEF DarwinPrepares
<1>2. Shapes /\ TreeTyped /\ Typed /\ Wrapping /\ DarwinPlaces /\ DarwinStarts /\ DarwinFirst /\ DarwinProof
  BY <1>1, OfDarwin
<1>3. DOMAIN tree = Procs /\ Shapes'  BY <1>2 DEF Shapes, TreeTyped, DarwinPrepares, DarwinEnd, Fault,
   Frame, StopWanted, ParentGone
<1>e. /\ UNCHANGED <<platform, kind, owner, inp, sent, wrap, tree, rec, starts>>
      /\ sup'.fault = sup.fault /\ sup'.pid = sup.pid
      /\ (sup'.code = sup.code \/ sup'.code = "zero" \/ sup'.code = "other")
      /\ faults' = faults \/ Fault
      /\ job'.is = job.is /\ job'.runs = job.runs /\ job'.last = job.last /\ job'.late = job.late
      /\ \/ /\ sup.at = "authorized" /\ sup'.at = "prepared" /\ disk' = disk \cup {"dir", "env"}
            /\ UNCHANGED <<job, proof>>
         \/ /\ sup.at \in {"authorized", "prepared"} /\ sup'.at = "gone" /\ disk' = disk \ Private
            /\ proof' \in {proof, "frame"} /\ job' = job
         \/ /\ sup.at = "prepared" /\ sup'.at = "submitting" /\ UNCHANGED <<disk, proof>>
            /\ job'.boot = "running"
  BY <1>2, <1>3 DEF Shapes, DarwinPlaces, DarwinPrepares, DarwinEnd, Frame, StopWanted, ParentGone
<1>4. TreeTyped'
  BY <1>2, <1>3 DEF TreeTyped, DarwinPrepares, DarwinEnd, Fault, Frame, StopWanted, ParentGone
<1>5. Typed'  BY <1>1, <1>2, <1>e, Counted DEF Typed
<1>6. Wrapping'  BY <1>1, <1>2, <1>e DEF Wrapping
<1>7. DarwinPlaces'  BY <1>1, <1>2, <1>e DEF DarwinPlaces, Before
<1>8. DarwinStarts'  BY <1>1, <1>2, <1>e DEF DarwinStarts, DarwinPlaces, Before
<1>9. DarwinFirst'  BY <1>1, <1>2, <1>e DEF DarwinFirst, Before
<1>10. DarwinProof'  BY <1>1, <1>2, <1>e DEF DarwinProof, DarwinPlaces, DarwinStarts, DarwinFirst, Proved,
   DarwinOver, Before
<1>11. Moves  BY <1>1, <1>2, <1>e DEF Moves, Quiet, Started, Ended, Proves, Proved, DarwinPlaces,
   DarwinStarts, DarwinFirst, DarwinProof
<1>. QED  BY <1>1, <1>3, <1>4, <1>5, <1>6, <1>7, <1>8, <1>9, <1>10, <1>11, OfDarwin

\* launchctl registers the job, or fails to.
LEMMA BootstrapEndsInv ==
  ASSUME Inv, platform = "darwin", BootstrapEnds
  PROVE  Inv' /\ Moves
<1> USE DEF Procs, Running, Alive, Members, Live, Unseen, Left, Wrapped, Private, Registered,
   Untouched
<1>1. platform' = platform  BY DEF BootstrapEnds
<1>2. Shapes /\ TreeTyped /\ Typed /\ Wrapping /\ DarwinPlaces /\ DarwinStarts /\ DarwinFirst /\ DarwinProof
  BY <1>1, OfDarwin
<1>3. DOMAIN tree = Procs /\ Shapes'  BY <1>2 DEF Shapes, TreeTyped, BootstrapEnds, Fault
<1>e. /\ UNCHANGED <<platform, kind, owner, inp, sent, wrap, sup, tree, disk, rec, proof, starts>>
      /\ faults' = faults \/ Fault
      /\ job.boot = "running" /\ job'.runs = job.runs /\ job'.last = job.last
      /\ job'.late = job.late
      /\ \/ "dir" \in disk /\ job'.is = "registered" /\ job'.boot \in {"ok", "failed"}
         \/ job'.is = job.is /\ job'.boot = "failed"
  BY <1>2, <1>3 DEF Shapes, BootstrapEnds
<1>4. TreeTyped'  BY <1>2, <1>3 DEF TreeTyped, BootstrapEnds, Fault
<1>5. Typed'  BY <1>1, <1>2, <1>e, Counted DEF Typed
<1>6. Wrapping'  BY <1>1, <1>2, <1>e DEF Wrapping
<1>7. DarwinPlaces'  BY <1>1, <1>2, <1>e DEF DarwinPlaces, Before
<1>8. DarwinStarts'  BY <1>1, <1>2, <1>e DEF DarwinStarts, Before
<1>9. DarwinFirst'  BY <1>1, <1>2, <1>e DEF DarwinFirst, Before
<1>10. DarwinProof'  BY <1>1, <1>2, <1>e DEF DarwinProof, Proved, DarwinOver, Before
<1>11. Moves  BY <1>1, <1>2, <1>e DEF Moves, Quiet, Started, Ended, Proves, Proved
<1>. QED  BY <1>1, <1>3, <1>4, <1>5, <1>6, <1>7, <1>8, <1>9, <1>10, <1>11, OfDarwin

\* The supervisor has the answer of launchctl.
LEMMA DarwinSubmittedInv ==
  ASSUME Inv, platform = "darwin", DarwinSubmitted
  PROVE  Inv' /\ Moves
<1> USE DEF Procs, Running, Alive, Members, Live, Unseen, Left, Wrapped, Private, Registered,
   Untouched
<1>1. platform' = platform  BY DEF DarwinSubmitted
<1>2. Shapes /\ TreeTyped /\ Typed /\ Wrapping /\ DarwinPlaces /\ DarwinStarts /\ DarwinFirst /\ DarwinProof
  BY <1>1, OfDarwin
<1>3. DOMAIN tree = Procs /\ Shapes'  BY <1>2 DEF Shapes, TreeTyped, DarwinSubmitted, DarwinEnd
<1>e. /\ UNCHANGED <<platform, kind, owner, inp, sent, wrap, tree, job, rec, proof, starts, faults>>
      /\ sup'.pid = sup.pid /\ (sup'.code = sup.code \/ sup'.code = "zero" \/ sup'.code = "other")
      /\ sup.at = "submitting"
      /\ \/ job.boot = "ok" /\ sup'.at = "loop" /\ disk' = disk /\ sup'.fault = sup.fault
         \/ job.boot = "failed" /\ sup'.at = "gone" /\ sup'.fault /\ disk' = disk \ Private
  BY <1>2, <1>3 DEF Shapes, DarwinSubmitted, DarwinEnd
<1>4. TreeTyped'  BY <1>2, <1>3 DEF TreeTyped, DarwinSubmitted, DarwinEnd
<1>a. sup'.code # "nothing" /\ sup'.pid \in {"own", "stranger"}  BY <1>1, <1>2, <1>e DEF Typed
<1>b. faults' \in 0..MaxFaults  BY <1>1, <1>2, <1>e, Counted DEF Typed
<1>c. disk' \subseteq {"handshake", "authorized", "identified", "completed"} \cup Private  BY <1>1, <1>2,
   <1>e DEF Typed
<1>5. Typed'  BY <1>1, <1>2, <1>e, <1>a, <1>b, <1>c DEF Typed, NoRec, DarwinPlaces, DarwinStarts,
   DarwinFirst, DarwinProof
<1>6. Wrapping'  BY <1>1, <1>2, <1>e DEF Wrapping
<1>7. DarwinPlaces'  BY <1>1, <1>2, <1>e DEF DarwinPlaces, Before
<1>8. DarwinStarts'  BY <1>1, <1>2, <1>e DEF DarwinStarts, Before
<1>9. DarwinFirst'  BY <1>1, <1>2, <1>e DEF DarwinFirst, Before
<1>10. DarwinProof'  BY <1>1, <1>2, <1>e DEF DarwinProof, Proved, DarwinOver, Before
<1>11. Moves  BY <1>1, <1>2, <1>e DEF Moves, Quiet, Started, Ended, Proves, Proved
<1>. QED  BY <1>1, <1>3, <1>4, <1>5, <1>6, <1>7, <1>8, <1>9, <1>10, <1>11, OfDarwin

\* launchd starts the helper.
LEMMA LaunchdStartsInv ==
  ASSUME Inv, platform = "darwin", LaunchdStarts
  PROVE  Inv' /\ Moves
<1> USE DEF Procs, Running, Alive, Members, Live, Unseen, Left, Wrapped, Private, Registered,
   Untouched
<1>1. platform' = platform  BY DEF LaunchdStarts
<1>2. Shapes /\ TreeTyped /\ Typed /\ Wrapping /\ DarwinPlaces /\ DarwinStarts /\ DarwinFirst /\ DarwinProof
  BY <1>1, OfDarwin
<1>3. DOMAIN tree = Procs /\ Shapes'  BY <1>2 DEF Shapes, TreeTyped, LaunchdStarts, Fault, Active
<1>a. job.late \in BOOLEAN /\ job.runs \in {0, 1, 2}  BY <1>2 DEF Typed
<1>b. /\ tree'["helper"] = "run" /\ \A p \in {"command", "kid"} : tree'[p] = tree[p]
      /\ faults' = faults \/ Fault
      /\ Registered /\ ~Alive("helper")
  BY <1>3 DEF LaunchdStarts, Active
<1>c. job'.late = (job.late \/ "emptied" \in {sup.at, rec.at})  BY <1>2 DEF Shapes, LaunchdStarts
<1>d. /\ job'.is = job.is /\ job'.last = job.last /\ job'.boot = job.boot /\ job'.runs \in {0, 1, 2}
      /\ \/ job.runs = 0 /\ job'.runs = 1
         \/ job.runs = 1 /\ job'.runs = 2 /\ owner = "up"
  BY <1>2, <1>a DEF Shapes, LaunchdStarts
<1>e. /\ UNCHANGED <<platform, kind, owner, inp, sent, wrap, sup, disk, rec, proof, starts>>
      /\ faults' = faults \/ Fault
      /\ Registered /\ ~Alive("helper") /\ tree'["helper"] = "run"
      /\ \A p \in {"command", "kid"} : tree'[p] = tree[p]
      /\ job'.is = job.is /\ job'.last = job.last /\ job'.boot = job.boot /\ job'.runs \in {0, 1, 2}
      /\ job'.late \in BOOLEAN /\ (job'.late <=> job.late \/ "emptied" \in {sup.at, rec.at})
      /\ \/ job.runs = 0 /\ job'.runs = 1
         \/ job.runs = 1 /\ job'.runs = 2 /\ owner = "up"
  BY <1>a, <1>b, <1>c, <1>d DEF LaunchdStarts
<1>4. TreeTyped'  BY <1>2, <1>3 DEF TreeTyped, LaunchdStarts, Fault, Active
<1>5. Typed'  BY <1>1, <1>2, <1>e, Counted DEF Typed
<1>6. Wrapping'  BY <1>1, <1>2, <1>e DEF Wrapping
<1>7. DarwinPlaces'  BY <1>1, <1>2, <1>e DEF DarwinPlaces, Before
<1>8. DarwinStarts'  BY <1>1, <1>2, <1>e DEF DarwinStarts, Before
<1>9. DarwinFirst'  BY <1>1, <1>2, <1>e DEF DarwinFirst, DarwinPlaces, DarwinStarts, DarwinProof, Before
<1>10. DarwinProof'  BY <1>1, <1>2, <1>e DEF DarwinProof, Proved, DarwinOver, Before
<1>11. Moves  BY <1>1, <1>2, <1>e DEF Moves, Quiet, Started, Ended, Proves, Proved, DarwinProof
<1>. QED  BY <1>1, <1>3, <1>4, <1>5, <1>6, <1>7, <1>8, <1>9, <1>10, <1>11, OfDarwin

\* The helper removes the environment before it goes on: only the first start finds it.
LEMMA HelperClaimsInv ==
  ASSUME Inv, platform = "darwin", HelperClaims
  PROVE  Inv' /\ Moves
<1> USE DEF Procs, Running, Alive, Members, Live, Unseen, Left, Wrapped, Private, Registered,
   Untouched
<1>1. platform' = platform  BY DEF HelperClaims
<1>2. Shapes /\ TreeTyped /\ Typed /\ Wrapping /\ DarwinPlaces /\ DarwinStarts /\ DarwinFirst /\ DarwinProof
  BY <1>1, OfDarwin
<1>3. DOMAIN tree = Procs /\ Shapes'  BY <1>2 DEF Shapes, TreeTyped, HelperClaims, Claimed
<1>d. ("env" \in disk /\ "status" \notin disk) <=> "env" \in disk  BY <1>2 DEF DarwinStarts
<1>e. /\ UNCHANGED <<platform, kind, owner, inp, sent, wrap, sup, rec, proof, starts, faults>>
      /\ tree["helper"] = "run" /\ \A p \in {"command", "kid"} : tree'[p] = tree[p]
      /\ job'.is = job.is /\ job'.runs = job.runs /\ job'.boot = job.boot /\ job'.late = job.late
      /\ \/ /\ "env" \in disk /\ disk' = disk \ {"env"} /\ job' = job
            /\ tree'["helper"] = "claimed"
         \/ /\ "env" \notin disk /\ disk' = disk /\ tree'["helper"] = "gone"
            /\ job'.last = "nothing"
  BY <1>2, <1>3, <1>d DEF Shapes, HelperClaims, Claimed
<1>4. TreeTyped'  BY <1>2, <1>3, <1>d DEF TreeTyped, HelperClaims, Claimed
<1>5. Typed'  BY <1>1, <1>2, <1>e DEF Typed
<1>6. Wrapping'  BY <1>1, <1>2, <1>e DEF Wrapping
<1>7. DarwinPlaces'  BY <1>1, <1>2, <1>e DEF DarwinPlaces, DarwinStarts, DarwinFirst, DarwinProof, Before
<1>8. DarwinStarts'  BY <1>1, <1>2, <1>e DEF DarwinStarts, Before
<1>9. DarwinFirst'  BY <1>1, <1>2, <1>e DEF DarwinFirst, DarwinPlaces, DarwinStarts, DarwinProof, Typed,
   Before
<1>10. DarwinProof'  BY <1>1, <1>2, <1>e DEF DarwinProof, Proved, DarwinOver, Before
<1>11. Moves  BY <1>1, <1>2, <1>e DEF Moves, Quiet, Started, Ended, Proves, Proved
<1>. QED  BY <1>1, <1>3, <1>4, <1>5, <1>6, <1>7, <1>8, <1>9, <1>10, <1>11, OfDarwin

\* The helper executes the command: the one step that starts it.
LEMMA HelperRunsInv ==
  ASSUME Inv, platform = "darwin", HelperRuns
  PROVE  Inv' /\ Moves
<1> USE DEF Procs, Running, Alive, Members, Live, Unseen, Left, Wrapped, Private, Registered,
   Untouched
<1>1. platform' = platform  BY DEF HelperRuns
<1>2. Shapes /\ TreeTyped /\ Typed /\ Wrapping /\ DarwinPlaces /\ DarwinStarts /\ DarwinFirst /\ DarwinProof
  BY <1>1, OfDarwin
<1>3. DOMAIN tree = Procs /\ Shapes'  BY <1>2 DEF Shapes, TreeTyped, HelperRuns
<1>e. /\ UNCHANGED <<platform, kind, owner, inp, sent, wrap, sup, rec, proof, faults>>
      /\ job'.is = job.is /\ job'.runs = job.runs /\ job'.boot = job.boot /\ job'.late = job.late
      /\ tree'["kid"] = tree["kid"] /\ starts' \in {0, 1}
      /\ \/ /\ tree["helper"] = "claimed" /\ tree'["helper"] = "waiting" /\ tree'["command"] = "run"
            /\ UNCHANGED <<disk, job>> /\ starts = 0 /\ starts' = 1
         \/ /\ tree["helper"] = "waiting" /\ tree'["helper"] = "gone" /\ tree'["command"] = tree["command"]
            /\ disk' = disk \/ ("dir" \in disk /\ disk' = disk \cup {"status"})
            /\ job'.last = "first" /\ starts' = starts
  BY <1>2, <1>3 DEF Shapes, DarwinStarts, Typed, HelperRuns
<1>4. TreeTyped'  BY <1>2, <1>3 DEF TreeTyped, HelperRuns
<1>5. Typed'  BY <1>1, <1>2, <1>e DEF Typed
<1>6. Wrapping'  BY <1>1, <1>2, <1>e DEF Wrapping
<1>7. DarwinPlaces'  BY <1>1, <1>2, <1>e DEF DarwinPlaces, DarwinStarts, DarwinFirst, DarwinProof, Before
<1>8. DarwinStarts'  BY <1>1, <1>2, <1>e DEF DarwinStarts, Before
<1>9. DarwinFirst'  BY <1>1, <1>2, <1>e DEF DarwinFirst, Before
<1>10. DarwinProof'  BY <1>1, <1>2, <1>e DEF DarwinProof, Proved, DarwinOver, Before
<1>11. Moves  BY <1>1, <1>2, <1>e DEF Moves, Quiet, Started, Ended, Proves, Proved, DarwinPlaces,
   DarwinStarts, DarwinFirst, DarwinProof, Typed, DarwinOver, Before
<1>. QED  BY <1>1, <1>3, <1>4, <1>5, <1>6, <1>7, <1>8, <1>9, <1>10, <1>11, OfDarwin

\* The end of the helper is the end of a start of the job.
LEMMA HelperDiesInv ==
  ASSUME Inv, platform = "darwin", HelperDies
  PROVE  Inv' /\ Moves
<1> USE DEF Procs, Running, Alive, Members, Live, Unseen, Left, Wrapped, Private, Registered,
   Untouched
<1>1. platform' = platform  BY DEF HelperDies
<1>2. Shapes /\ TreeTyped /\ Typed /\ Wrapping /\ DarwinPlaces /\ DarwinStarts /\ DarwinFirst /\ DarwinProof
  BY <1>1, OfDarwin
<1>3. DOMAIN tree = Procs /\ Shapes'  BY <1>2 DEF Shapes, TreeTyped, HelperDies, Fault
<1>e. /\ UNCHANGED <<platform, kind, owner, inp, sent, wrap, sup, disk, rec, proof, starts>>
      /\ faults' = faults \/ Fault
      /\ tree["helper"] \in Running /\ tree'["helper"] = "gone"
      /\ \A p \in {"command", "kid"} : tree'[p] = tree[p]
      /\ job'.is = job.is /\ job'.runs = job.runs /\ job'.boot = job.boot /\ job'.late = job.late
      /\ job'.last = "first" \/ (job.runs = 2 /\ job'.last = "nothing")
  BY <1>2, <1>3 DEF Shapes, HelperDies
<1>4. TreeTyped'  BY <1>2, <1>3 DEF TreeTyped, HelperDies, Fault
<1>5. Typed'  BY <1>1, <1>2, <1>e, Counted DEF Typed
<1>6. Wrapping'  BY <1>1, <1>2, <1>e DEF Wrapping
<1>7. DarwinPlaces'  BY <1>1, <1>2, <1>e DEF DarwinPlaces, Before
<1>8. DarwinStarts'  BY <1>1, <1>2, <1>e DEF DarwinStarts, Before
<1>9. DarwinFirst'  BY <1>1, <1>2, <1>e DEF DarwinFirst, Before
<1>10. DarwinProof'  BY <1>1, <1>2, <1>e DEF DarwinProof, Proved, DarwinOver, Before
<1>11. Moves  BY <1>1, <1>2, <1>e DEF Moves, Quiet, Started, Ended, Proves, Proved
<1>. QED  BY <1>1, <1>3, <1>4, <1>5, <1>6, <1>7, <1>8, <1>9, <1>10, <1>11, OfDarwin

\* The supervisor reads the status the helper wrote.
LEMMA DarwinReadsInv ==
  ASSUME Inv, platform = "darwin", DarwinReads
  PROVE  Inv' /\ Moves
<1> USE DEF Procs, Running, Alive, Members, Live, Unseen, Left, Wrapped, Private, Registered,
   Untouched
<1>1. platform' = platform  BY DEF DarwinReads
<1>2. Shapes /\ TreeTyped /\ Typed /\ Wrapping /\ DarwinPlaces /\ DarwinStarts /\ DarwinFirst /\ DarwinProof
  BY <1>1, OfDarwin
<1>3. DOMAIN tree = Procs /\ Shapes'  BY <1>2 DEF Shapes, TreeTyped, DarwinReads, Fault, StopWanted,
   ParentGone
<1>e. /\ UNCHANGED <<platform, kind, owner, inp, sent, wrap, tree, job, rec, proof, starts>>
      /\ sup'.fault = sup.fault /\ sup'.pid = sup.pid /\ sup'.code = sup.code
      /\ faults' = faults \/ Fault
      /\ sup.at = "loop" /\ Registered /\ sup'.at = "decide"
      /\ disk' = disk \/ disk' = disk \cup {"marker"}
  BY <1>2, <1>3 DEF Shapes, DarwinReads, StopWanted, ParentGone
<1>4. TreeTyped'  BY <1>2, <1>3 DEF TreeTyped, DarwinReads, Fault, StopWanted, ParentGone
<1>5. Typed'  BY <1>1, <1>2, <1>e, Counted DEF Typed
<1>6. Wrapping'  BY <1>1, <1>2, <1>e DEF Wrapping
<1>7. DarwinPlaces'  BY <1>1, <1>2, <1>e DEF DarwinPlaces, Before
<1>8. DarwinStarts'  BY <1>1, <1>2, <1>e DEF DarwinStarts, DarwinPlaces, DarwinFirst, DarwinProof, Before
<1>9. DarwinFirst'  BY <1>1, <1>2, <1>e DEF DarwinFirst, Before
<1>10. DarwinProof'  BY <1>1, <1>2, <1>e DEF DarwinProof, Proved, DarwinOver, Before
<1>11. Moves  BY <1>1, <1>2, <1>e DEF Moves, Quiet, Started, Ended, Proves, Proved
<1>. QED  BY <1>1, <1>3, <1>4, <1>5, <1>6, <1>7, <1>8, <1>9, <1>10, <1>11, OfDarwin

\* A supervisor that lost its view kills what it knows of, or leaves and says that it failed.
LEMMA DarwinCannotReadInv ==
  ASSUME Inv, platform = "darwin", DarwinCannotRead
  PROVE  Inv' /\ Moves
<1> USE DEF Procs, Running, Alive, Members, Live, Unseen, Left, Wrapped, Private, Registered,
   Untouched
<1>1. platform' = platform  BY DEF DarwinCannotRead
<1>2. Shapes /\ TreeTyped /\ Typed /\ Wrapping /\ DarwinPlaces /\ DarwinStarts /\ DarwinFirst /\ DarwinProof
  BY <1>1, OfDarwin
<1>3. DOMAIN tree = Procs /\ Shapes'  BY <1>2 DEF Shapes, TreeTyped, DarwinCannotRead, DarwinEnd, Fault
<1>e. /\ UNCHANGED <<platform, kind, owner, inp, sent, wrap, tree, disk, rec, proof, starts>>
      /\ sup'.pid = sup.pid /\ (sup'.code = sup.code \/ sup'.code = "zero" \/ sup'.code = "other")
      /\ faults' = faults \/ Fault
      /\ sup.at = "loop" /\ job'.runs = job.runs /\ job'.last = job.last /\ job'.boot = job.boot
      /\ job'.late = job.late
      /\ \/ sup'.at = "killing" /\ job' = job
         \/ sup'.at = "gone" /\ sup'.fault /\ job'.is \in {job.is, "none"}
  BY <1>2, <1>3 DEF Shapes, DarwinCannotRead, DarwinEnd
<1>4. TreeTyped'  BY <1>2, <1>3 DEF TreeTyped, DarwinCannotRead, DarwinEnd, Fault
<1>5. Typed'  BY <1>1, <1>2, <1>e, Counted DEF Typed
<1>6. Wrapping'  BY <1>1, <1>2, <1>e DEF Wrapping
<1>7. DarwinPlaces'  BY <1>1, <1>2, <1>e DEF DarwinPlaces, Before
<1>8. DarwinStarts'  BY <1>1, <1>2, <1>e DEF DarwinStarts, Before
<1>9. DarwinFirst'  BY <1>1, <1>2, <1>e DEF DarwinFirst, Before
<1>10. DarwinProof'  BY <1>1, <1>2, <1>e DEF DarwinProof, DarwinPlaces, DarwinStarts, DarwinFirst, Proved,
   DarwinOver, Before
<1>11. Moves  BY <1>1, <1>2, <1>e DEF Moves, Quiet, Started, Ended, Proves, Proved
<1>. QED  BY <1>1, <1>3, <1>4, <1>5, <1>6, <1>7, <1>8, <1>9, <1>10, <1>11, OfDarwin

\* The supervisor takes the exit code of the one start that ran the command.
LEMMA DarwinDecidesInv ==
  ASSUME Inv, platform = "darwin", DarwinDecides
  PROVE  Inv' /\ Moves
<1> USE DEF Procs, Running, Alive, Members, Live, Unseen, Left, Wrapped, Private, Registered,
   Untouched
<1>1. platform' = platform  BY DEF DarwinDecides
<1>2. Shapes /\ TreeTyped /\ Typed /\ Wrapping /\ DarwinPlaces /\ DarwinStarts /\ DarwinFirst /\ DarwinProof
  BY <1>1, OfDarwin
<1>3. DOMAIN tree = Procs /\ Shapes'  BY <1>2 DEF Shapes, TreeTyped, DarwinDecides, ListedNobody, DarwinEnd, Fault
<1>d. sup.at = "decide" /\ ExitCode # "nothing"  BY <1>2, Codes DEF DarwinDecides
<1>f. sup'.code # "nothing"  BY <1>2, <1>3, <1>d DEF DarwinDecides, ListedNobody, DarwinEnd, Shapes, Active, Typed
<1>g. /\ UNCHANGED <<platform, kind, owner, inp, sent, wrap, tree, disk, rec, proof, starts>>
      /\ (faults' = faults \/ Fault)
  BY <1>3 DEF DarwinDecides
<1>h. sup'.pid = sup.pid /\ job'.runs = job.runs /\ job'.last = job.last /\ job'.boot = job.boot  BY <1>2,
   <1>3 DEF DarwinDecides, ListedNobody, DarwinEnd, Shapes
<1>i. \/ sup'.at \in {"killing", "loop"} /\ job' = job
      \/ sup'.at = "emptied" /\ Members = {} /\ job'.is = job.is /\ job'.late = FALSE
      \/ sup'.at = "gone" /\ sup'.fault /\ job'.is \in {job.is, "none"} /\ job'.late = job.late
  BY <1>2, <1>3 DEF DarwinDecides, ListedNobody, DarwinEnd, Shapes
<1>e. /\ UNCHANGED <<platform, kind, owner, inp, sent, wrap, tree, disk, rec, proof, starts>>
      /\ faults' = faults \/ Fault
      /\ sup'.pid = sup.pid /\ sup'.code # "nothing"
      /\ sup.at = "decide" /\ job'.runs = job.runs /\ job'.last = job.last /\ job'.boot = job.boot
      /\ \/ sup'.at \in {"killing", "loop"} /\ job' = job
         \/ sup'.at = "emptied" /\ Members = {} /\ job'.is = job.is /\ job'.late = FALSE
         \/ sup'.at = "gone" /\ sup'.fault /\ job'.is \in {job.is, "none"} /\ job'.late = job.late
  BY <1>d, <1>f, <1>g, <1>h, <1>i
<1>4. TreeTyped'  BY <1>2, <1>3, <1>d DEF TreeTyped, DarwinDecides, ListedNobody, DarwinEnd, Fault
<1>5. Typed'  BY <1>1, <1>2, <1>e, Counted DEF Typed
<1>6. Wrapping'  BY <1>1, <1>2, <1>e DEF Wrapping
<1>7. DarwinPlaces'  BY <1>1, <1>2, <1>e DEF DarwinPlaces, Before
<1>8. DarwinStarts'  BY <1>1, <1>2, <1>e DEF DarwinStarts, Before
<1>9. DarwinFirst'  BY <1>1, <1>2, <1>e DEF DarwinFirst, Before
<1>10. DarwinProof'  BY <1>1, <1>2, <1>e DEF DarwinProof, DarwinPlaces, DarwinStarts, DarwinFirst, Proved,
   DarwinOver, Before
<1>11. Moves  BY <1>1, <1>2, <1>e DEF Moves, Quiet, Started, Ended, Proves, Proved
<1>. QED  BY <1>1, <1>3, <1>4, <1>5, <1>6, <1>7, <1>8, <1>9, <1>10, <1>11, OfDarwin

\* The coalition is killed until a listing finds nobody.
LEMMA DarwinKillsInv ==
  ASSUME Inv, platform = "darwin", DarwinKills
  PROVE  Inv' /\ Moves
<1> USE DEF Procs, Running, Alive, Members, Live, Unseen, Left, Wrapped, Private, Registered,
   Untouched
<1>1. platform' = platform  BY DEF DarwinKills
<1>2. Shapes /\ TreeTyped /\ Typed /\ Wrapping /\ DarwinPlaces /\ DarwinStarts /\ DarwinFirst /\ DarwinProof
  BY <1>1, OfDarwin
<1>3. DOMAIN tree = Procs /\ Shapes'  BY <1>2 DEF Shapes, TreeTyped, DarwinKills, Kill, Fault, Emptied,
   ListedNobody, NotTornDown, Retries
<1>e. /\ UNCHANGED <<platform, kind, owner, inp, sent, wrap, disk, rec, proof, starts>>
      /\ sup'.pid = sup.pid /\ sup'.code \in {sup.code, "other"}
      /\ faults' = faults \/ Fault
      /\ sup.at = "killing" /\ job'.runs = job.runs /\ job'.last = job.last /\ job'.boot = job.boot
      /\ \/ UNCHANGED <<sup, job>> /\ \A p \in Procs : tree'[p] = tree[p] \/ (Alive(p) /\ tree'[p] = "dying")
         \/ /\ Members = {} /\ sup'.at = "emptied" /\ job'.is = job.is /\ job'.late = FALSE
            /\ tree' = tree
         \/ UNCHANGED <<tree, job>> /\ (sup'.at = "loop" \/ (sup'.at = "gone" /\ sup'.fault))
  BY <1>2, <1>3 DEF Shapes, DarwinKills, Kill, Emptied, ListedNobody, NotTornDown, Retries
<1>4. TreeTyped'  BY <1>2, <1>3 DEF TreeTyped, DarwinKills, Kill, Emptied
<1>5. Typed'  BY <1>1, <1>2, <1>e, Counted DEF Typed
<1>6. Wrapping'  BY <1>1, <1>2, <1>e DEF Wrapping
<1>7. DarwinPlaces'  BY <1>1, <1>2, <1>e DEF DarwinPlaces, Before
<1>8. DarwinStarts'  BY <1>1, <1>2, <1>e DEF DarwinStarts, Before
<1>9. DarwinFirst'  BY <1>1, <1>2, <1>e DEF DarwinFirst, Before
<1>10. DarwinProof'  BY <1>1, <1>2, <1>e DEF DarwinProof, Proved, DarwinOver, Before
<1>11. Moves  BY <1>1, <1>2, <1>e DEF Moves, Quiet, Started, Ended, Proves, Proved
<1>. QED  BY <1>1, <1>3, <1>4, <1>5, <1>6, <1>7, <1>8, <1>9, <1>10, <1>11, OfDarwin

\* The job is removed: its own process ends with it, and what that has started stays.
LEMMA DarwinBootsOutInv ==
  ASSUME Inv, platform = "darwin", DarwinBootsOut
  PROVE  Inv' /\ Moves
<1> USE DEF Procs, Running, Alive, Members, Live, Unseen, Left, Wrapped, Private, Registered,
   Untouched
<1>1. platform' = platform  BY DEF DarwinBootsOut
<1>2. Shapes /\ TreeTyped /\ Typed /\ Wrapping /\ DarwinPlaces /\ DarwinStarts /\ DarwinFirst /\ DarwinProof
  BY <1>1, OfDarwin
<1>3. DOMAIN tree = Procs /\ Shapes'  BY <1>2 DEF Shapes, TreeTyped, DarwinBootsOut, BootedOut, NotTornDown,
   Retries
<1>c. ASSUME sup' = NotTornDown
      PROVE  /\ sup'.pid = sup.pid /\ sup'.code = "other"
             /\ sup'.at = "loop" \/ (sup'.at = "gone" /\ sup'.fault)
  BY <1>2, <1>c DEF Shapes, NotTornDown, Retries
<1>e. /\ UNCHANGED <<platform, kind, owner, inp, sent, wrap, disk, rec, proof, starts>>
      /\ sup'.pid = sup.pid /\ sup'.code \in {sup.code, "other"}
      /\ faults' = faults \/ Fault
      /\ sup.at = "emptied" /\ job'.runs = job.runs /\ job'.last = job.last /\ job'.boot = job.boot
      /\ job'.late = job.late
      /\ \/ /\ sup'.at = "proven" /\ sup'.fault = sup.fault /\ job'.is = "none"
            /\ \A p \in {"command", "kid"} : tree'[p] = tree[p]
            /\ \/ tree'["helper"] = tree["helper"] /\ ~Alive("helper")
               \/ tree'["helper"] = "gone" /\ Alive("helper")
         \/ UNCHANGED <<tree, job>> /\ (sup'.at = "loop" \/ (sup'.at = "gone" /\ sup'.fault))
  BY <1>2, <1>c, Removal DEF Shapes, DarwinBootsOut
<1>4. TreeTyped'  BY <1>2, <1>3 DEF TreeTyped, DarwinBootsOut, BootedOut
<1>5. Typed'  BY <1>1, <1>2, <1>e, Counted DEF Typed
<1>6. Wrapping'  BY <1>1, <1>2, <1>e DEF Wrapping
<1>7. DarwinPlaces'  BY <1>1, <1>2, <1>e DEF DarwinPlaces, Before
<1>8. DarwinStarts'  BY <1>1, <1>2, <1>e DEF DarwinStarts, DarwinProof, Before
<1>9. DarwinFirst'  BY <1>1, <1>2, <1>e DEF DarwinFirst, Before
<1>10. DarwinProof'  BY <1>1, <1>2, <1>e DEF DarwinProof, Proved, DarwinOver, Before
<1>11. Moves  BY <1>1, <1>2, <1>e DEF Moves, Quiet, Started, Ended, Proves, Proved
<1>. QED  BY <1>1, <1>3, <1>4, <1>5, <1>6, <1>7, <1>8, <1>9, <1>10, <1>11, OfDarwin

\* The marker, then the frame, after the job is gone.
LEMMA DarwinProvesInv ==
  ASSUME Inv, platform = "darwin", DarwinProves
  PROVE  Inv' /\ Moves
<1> USE DEF Procs, Running, Alive, Members, Live, Unseen, Left, Wrapped, Private, Registered,
   Untouched
<1>1. platform' = platform  BY DEF DarwinProves
<1>2. Shapes /\ TreeTyped /\ Typed /\ Wrapping /\ DarwinPlaces /\ DarwinStarts /\ DarwinFirst /\ DarwinProof
  BY <1>1, OfDarwin
<1>3. DOMAIN tree = Procs /\ Shapes'  BY <1>2 DEF Shapes, TreeTyped, DarwinProves, DarwinEnd, Fault, Frame
<1>e. /\ UNCHANGED <<platform, kind, owner, inp, sent, wrap, tree, job, rec, starts>>
      /\ sup'.pid = sup.pid /\ (sup'.code = sup.code \/ sup'.code = "zero" \/ sup'.code = "other")
      /\ faults' = faults \/ Fault
      /\ \/ sup.at = "proven" /\ sup'.at = "cleaning" /\ disk' = disk \ {"env", "status"} /\ proof' = proof
         \/ sup.at = "proven" /\ sup'.at = "gone" /\ UNCHANGED <<disk, proof>>
         \/ /\ sup.at = "cleaning" /\ sup'.at = "gone" /\ disk' = disk \ Private
            /\ proof' \in {proof, "frame"}
  BY <1>2, <1>3 DEF Shapes, DarwinProves, DarwinEnd, Frame
<1>4. TreeTyped'  BY <1>2, <1>3 DEF TreeTyped, DarwinProves, DarwinEnd, Fault, Frame
<1>c. disk' \subseteq {"handshake", "authorized", "identified", "completed"} \cup Private
  BY <1>2, <1>e DEF Typed
<1>b. faults' \in 0..MaxFaults  BY <1>2, <1>e, Counted
<1>5. Typed'  BY <1>1, <1>2, <1>e, <1>b, <1>c DEF Typed
<1>6. Wrapping'  BY <1>1, <1>2, <1>e DEF Wrapping
<1>7. DarwinPlaces'  BY <1>1, <1>2, <1>e DEF DarwinPlaces, Before
<1>8. DarwinStarts'  BY <1>1, <1>2, <1>e DEF DarwinStarts, Before
<1>9. DarwinFirst'  BY <1>1, <1>2, <1>e DEF DarwinFirst, DarwinPlaces, DarwinStarts, DarwinProof, Before
<1>10. DarwinProof'  BY <1>1, <1>2, <1>e DEF DarwinProof, Proved, DarwinOver, Before
<1>11. Moves  BY <1>1, <1>2, <1>e DEF Moves, Quiet, Started, Ended, Proves, Proved, DarwinPlaces,
   DarwinStarts, DarwinFirst, DarwinProof
<1>. QED  BY <1>1, <1>3, <1>4, <1>5, <1>6, <1>7, <1>8, <1>9, <1>10, <1>11, OfDarwin

\* A killed supervisor leaves the job and the directory.
LEMMA DarwinDiesInv ==
  ASSUME Inv, platform = "darwin", DarwinDies
  PROVE  Inv' /\ Moves
<1> USE DEF Procs, Running, Alive, Members, Live, Unseen, Left, Wrapped, Private, Registered,
   Untouched
<1>1. platform' = platform  BY DEF DarwinDies
<1>2. Shapes /\ TreeTyped /\ Typed /\ Wrapping /\ DarwinPlaces /\ DarwinStarts /\ DarwinFirst /\ DarwinProof
  BY <1>1, OfDarwin
<1>3. DOMAIN tree = Procs /\ Shapes'  BY <1>2 DEF Shapes, TreeTyped, DarwinDies, DarwinEnd, Fault
<1>e. /\ UNCHANGED <<platform, kind, owner, inp, sent, wrap, tree, job, disk, rec, proof, starts>>
      /\ sup'.pid = sup.pid /\ sup'.code = "other"
      /\ faults' = faults \/ Fault
      /\ sup.at \in Before \cup {"submitting", "loop", "decide", "killing", "emptied", "proven",
                               "cleaning"}
      /\ sup.at # "off" /\ sup'.at = "gone" /\ sup'.fault
  BY <1>2, <1>3 DEF Shapes, DarwinPlaces, DarwinDies, DarwinEnd
<1>4. TreeTyped'  BY <1>2, <1>3 DEF TreeTyped, DarwinDies, DarwinEnd, Fault
<1>5. Typed'  BY <1>1, <1>2, <1>e, Counted DEF Typed
<1>6. Wrapping'  BY <1>1, <1>2, <1>e DEF Wrapping
<1>7. DarwinPlaces'  BY <1>1, <1>2, <1>e DEF DarwinPlaces, Before
<1>8. DarwinStarts'  BY <1>1, <1>2, <1>e DEF DarwinStarts, Before
<1>9. DarwinFirst'  BY <1>1, <1>2, <1>e DEF DarwinFirst, Before
<1>10. DarwinProof'  BY <1>1, <1>2, <1>e DEF DarwinProof, Proved, DarwinOver, Before
<1>11. Moves  BY <1>1, <1>2, <1>e DEF Moves, Quiet, Started, Ended, Proves, Proved
<1>. QED  BY <1>1, <1>3, <1>4, <1>5, <1>6, <1>7, <1>8, <1>9, <1>10, <1>11, OfDarwin

\* A later runtime probes twice before it believes that a job is absent.
LEMMA DarwinProbesInv ==
  ASSUME Inv, platform = "darwin", DarwinProbes
  PROVE  Inv' /\ Moves
<1> USE DEF Procs, Running, Alive, Members, Live, Unseen, Left, Wrapped, Private, Registered,
   Untouched
<1>1. platform' = platform  BY DEF DarwinProbes
<1>2. Shapes /\ TreeTyped /\ Typed /\ Wrapping /\ DarwinPlaces /\ DarwinStarts /\ DarwinFirst /\ DarwinProof
  BY <1>1, OfDarwin
<1>3. DOMAIN tree = Procs /\ Shapes'  BY <1>2 DEF Shapes, TreeTyped, DarwinProbes
<1>e. /\ UNCHANGED <<platform, kind, owner, inp, sent, wrap, sup, tree, job, starts, faults>>
      /\ sup.at = "gone" /\ proof = "none" /\ rec'.at \in {"idle", "terminate", "last"}
      /\ \/ UNCHANGED <<disk, proof>>
         \/ /\ ~Registered /\ ("dir" \notin disk \/ ("marker" \in disk /\ Members = {}))
            /\ disk' = disk \ Private /\ proof' \in {proof, "recovered"}
  BY <1>2, <1>3, Verdicts DEF Shapes, DarwinProbes
<1>4. TreeTyped'  BY <1>2, <1>3 DEF TreeTyped, DarwinProbes
<1>5. Typed'  BY <1>1, <1>2, <1>e DEF Typed
<1>6. Wrapping'  BY <1>1, <1>2, <1>e DEF Wrapping
<1>7. DarwinPlaces'  BY <1>1, <1>2, <1>e DEF DarwinPlaces, Before
<1>8. DarwinStarts'  BY <1>1, <1>2, <1>e DEF DarwinStarts, Before
<1>9. DarwinFirst'  BY <1>1, <1>2, <1>e DEF DarwinFirst, Before
<1>10. DarwinProof'  BY <1>1, <1>2, <1>e DEF DarwinProof, Proved, DarwinOver, Before
<1>11. Moves  BY <1>1, <1>2, <1>e DEF Moves, Quiet, Started, Ended, Proves, Proved, DarwinPlaces,
   DarwinStarts, DarwinFirst, DarwinProof
<1>. QED  BY <1>1, <1>3, <1>4, <1>5, <1>6, <1>7, <1>8, <1>9, <1>10, <1>11, OfDarwin

\* A later runtime kills the coalition until a listing finds nobody; of a job that launchd no
\* longer knows it removes what is left on disk.
LEMMA DarwinTerminatesInv ==
  ASSUME Inv, platform = "darwin", DarwinTerminates
  PROVE  Inv' /\ Moves
<1> USE DEF Procs, Running, Alive, Members, Live, Unseen, Left, Wrapped, Private, Registered,
   Untouched
<1>1. platform' = platform  BY DEF DarwinTerminates
<1>2. Shapes /\ TreeTyped /\ Typed /\ Wrapping /\ DarwinPlaces /\ DarwinStarts /\ DarwinFirst /\ DarwinProof
  BY <1>1, OfDarwin
<1>3. DOMAIN tree = Procs /\ Shapes'  BY <1>2 DEF Shapes, TreeTyped, DarwinTerminates, Emptied, Kill, ListedNobody,
   NoRec
<1>b. rec.at = "terminate" /\ sup.at \notin Before  BY <1>2 DEF DarwinTerminates, DarwinPlaces
<1>c. ASSUME ListedNobody
      PROVE  /\ job'.is = job.is /\ job'.runs = job.runs /\ job'.last = job.last
             /\ job'.boot = job.boot /\ job'.late = FALSE
  BY <1>2, <1>c DEF Shapes, ListedNobody
<1>d. ASSUME tree' = Kill(Members)
      PROVE  \A p \in Procs : tree'[p] = tree[p] \/ (Alive(p) /\ tree'[p] = "dying")
  BY <1>d DEF Kill
<1>f. ASSUME NEW at, rec' = [rec EXCEPT !.at = at] PROVE rec'.at = at  BY <1>2, <1>f DEF Shapes
<1>g. NoRec.at = "idle"  BY DEF NoRec
<1>e. /\ UNCHANGED <<platform, kind, owner, inp, sent, wrap, sup, proof, starts, faults>>
      /\ rec.at = "terminate" /\ sup.at \notin Before
      /\ job'.runs = job.runs /\ job'.last = job.last /\ job'.boot = job.boot
      /\ job'.late \in {job.late, FALSE}
      /\ \/ UNCHANGED <<job, disk, rec>> /\ \A p \in Procs : tree'[p] = tree[p] \/ (Alive(p) /\ tree'[p] = "dying")
         \/ /\ Members = {} /\ job'.is = job.is /\ job'.late = FALSE /\ rec'.at = "emptied"
            /\ UNCHANGED <<tree, disk>>
         \/ /\ ~Registered /\ ("dir" \notin disk \/ ("marker" \in disk /\ Members = {}))
            /\ disk' = disk \ Private /\ rec'.at = "last" /\ UNCHANGED <<tree, job>>
         \/ rec'.at = "idle" /\ UNCHANGED <<tree, job, disk>>
  BY <1>b, <1>c, <1>d, <1>f, <1>g DEF DarwinTerminates, Emptied, MissingEmpty
<1>4. TreeTyped'  BY <1>2, <1>3 DEF TreeTyped, DarwinTerminates, Emptied, Kill
<1>5. Typed'  BY <1>1, <1>2, <1>e DEF Typed
<1>6. Wrapping'  BY <1>1, <1>2, <1>e DEF Wrapping
<1>7. DarwinPlaces'  BY <1>1, <1>2, <1>e DEF DarwinPlaces, Before
<1>8. DarwinStarts'  BY <1>1, <1>2, <1>e DEF DarwinStarts, Before
<1>9. DarwinFirst'  BY <1>1, <1>2, <1>e DEF DarwinFirst, DarwinStarts, Before
<1>10. DarwinProof'  BY <1>1, <1>2, <1>e DEF DarwinProof, Proved, DarwinOver, Before
<1>11. Moves  BY <1>1, <1>2, <1>e DEF Moves, Quiet, Started, Ended, Proves, Proved
<1>. QED  BY <1>1, <1>3, <1>4, <1>5, <1>6, <1>7, <1>8, <1>9, <1>10, <1>11, OfDarwin

\* A later runtime removes the job, as the supervisor does, and what is left on disk.
LEMMA DarwinRemovesInv ==
  ASSUME Inv, platform = "darwin", DarwinRemoves
  PROVE  Inv' /\ Moves
<1> USE DEF Procs, Running, Alive, Members, Live, Unseen, Left, Wrapped, Private, Registered,
   Untouched
<1>1. platform' = platform  BY DEF DarwinRemoves
<1>2. Shapes /\ TreeTyped /\ Typed /\ Wrapping /\ DarwinPlaces /\ DarwinStarts /\ DarwinFirst /\ DarwinProof
  BY <1>1, OfDarwin
<1>3. DOMAIN tree = Procs /\ Shapes'  BY <1>2 DEF Shapes, TreeTyped, DarwinRemoves, BootedOut, NoRec
<1>b. rec.at = "emptied" /\ sup.at \notin Before  BY <1>2 DEF DarwinRemoves, DarwinPlaces
<1>e. /\ UNCHANGED <<platform, kind, owner, inp, sent, wrap, sup, proof, starts>>
      /\ faults' = faults \/ Fault
      /\ rec.at = "emptied" /\ sup.at \notin Before
      /\ job'.runs = job.runs /\ job'.last = job.last /\ job'.boot = job.boot /\ job'.late = job.late
      /\ \/ /\ rec'.at = "last" /\ job'.is = "none" /\ disk' = disk \ Private
            /\ \A p \in {"command", "kid"} : tree'[p] = tree[p]
            /\ \/ tree'["helper"] = tree["helper"] /\ ~Alive("helper")
               \/ tree'["helper"] = "gone" /\ Alive("helper")
         \/ rec'.at = "idle" /\ UNCHANGED <<tree, job, disk>>
  BY <1>2, <1>b, Removal DEF Shapes, DarwinRemoves, NoRec
<1>4. TreeTyped'  BY <1>2, <1>3 DEF TreeTyped, DarwinRemoves, BootedOut
<1>5. Typed'  BY <1>1, <1>2, <1>e, Counted DEF Typed
<1>6. Wrapping'  BY <1>1, <1>2, <1>e DEF Wrapping
<1>7. DarwinPlaces'  BY <1>1, <1>2, <1>e DEF DarwinPlaces, Before
<1>8. DarwinStarts'  BY <1>1, <1>2, <1>e DEF DarwinStarts, Before
<1>9. DarwinFirst'  BY <1>1, <1>2, <1>e DEF DarwinFirst, Before
<1>10. DarwinProof'  BY <1>1, <1>2, <1>e DEF DarwinProof, Proved, DarwinOver, Before
<1>11. Moves  BY <1>1, <1>2, <1>e DEF Moves, Quiet, Started, Ended, Proves, Proved
<1>. QED  BY <1>1, <1>3, <1>4, <1>5, <1>6, <1>7, <1>8, <1>9, <1>10, <1>11, OfDarwin

\* An absent job of an agent is believed only once nothing of the launch is left.
LEMMA DarwinAgentVerdictInv ==
  ASSUME Inv, platform = "darwin", DarwinAgentVerdict
  PROVE  Inv' /\ Moves
<1> USE DEF Procs, Running, Alive, Members, Live, Unseen, Left, Wrapped, Private, Registered,
   Untouched
<1>1. platform' = platform  BY DEF DarwinAgentVerdict
<1>2. Shapes /\ TreeTyped /\ Typed /\ Wrapping /\ DarwinPlaces /\ DarwinStarts /\ DarwinFirst /\ DarwinProof
  BY <1>1, OfDarwin
<1>3. DOMAIN tree = Procs /\ Shapes'  BY <1>2 DEF Shapes, TreeTyped, DarwinAgentVerdict, LaunchOver, NoRec
<1>e. /\ UNCHANGED <<platform, kind, owner, inp, sent, wrap, sup, tree, job, starts, faults>>
      /\ owner = "gone" /\ "identified" \in disk /\ proof = "none" /\ rec'.at \in {"idle", "terminate"}
      /\ \/ Registered /\ Members = {} /\ job.runs # 0 /\ proof' = "recovered" /\ disk' = disk /\ rec' = rec
         \/ UNCHANGED <<disk, proof>> /\ (rec'.at = "idle" \/ Registered \/ "marker" \in disk)
         \/ /\ ~Registered /\ ("dir" \notin disk \/ ("marker" \in disk /\ Members = {}))
            /\ sup.at \in {"off", "gone"} /\ job.boot # "running"
            /\ disk' = disk \ Private /\ proof' = "recovered" /\ rec' = rec
  BY <1>2, <1>3, Verdicts DEF Shapes, DarwinAgentVerdict, LaunchOver, NoRec
<1>4. TreeTyped'  BY <1>2, <1>3 DEF TreeTyped, DarwinAgentVerdict, LaunchOver, NoRec
<1>5. Typed'  BY <1>1, <1>2, <1>e DEF Typed
<1>6. Wrapping'  BY <1>1, <1>2, <1>e DEF Wrapping
<1>7. DarwinPlaces'  BY <1>1, <1>2, <1>e DEF DarwinPlaces, DarwinStarts, DarwinFirst, DarwinProof, Before
<1>8. DarwinStarts'  BY <1>1, <1>2, <1>e DEF DarwinStarts, Before
<1>9. DarwinFirst'  BY <1>1, <1>2, <1>e DEF DarwinFirst, DarwinPlaces, Before
<1>10. DarwinProof'  BY <1>1, <1>2, <1>e DEF DarwinProof, DarwinPlaces, DarwinStarts, DarwinFirst, Proved,
   DarwinOver, Before
<1>11. Moves  BY <1>1, <1>2, <1>e DEF Moves, Quiet, Started, Ended, Proves, Proved, DarwinPlaces,
   DarwinStarts, DarwinFirst, DarwinProof
<1>. QED  BY <1>1, <1>3, <1>4, <1>5, <1>6, <1>7, <1>8, <1>9, <1>10, <1>11, OfDarwin

\* On Windows: a line of the runtime only waits to be read.
LEMMA TellWindowsInv ==
  ASSUME Inv, platform = "win32", NEW line \in {"go", "stop"}, Tell(line)
  PROVE  Inv' /\ Moves
<1> USE DEF Procs, Running, Alive, Members, Live, Unseen, Wrapped, Private, Untouched
<1>1. platform' = platform  BY DEF Tell
<1>2. Shapes /\ TreeTyped /\ Typed /\ Wrapping /\ WindowsPlaces /\ WindowsProof  BY <1>1, OfWindows
<1>3. DOMAIN tree = Procs /\ Shapes'  BY <1>2 DEF Shapes, TreeTyped, Tell
<1>4. TreeTyped'  BY <1>2, <1>3 DEF TreeTyped, Tell
<1>5. Typed'  BY <1>2, <1>3 DEF Shapes, Typed, Tell
<1>6. Wrapping'  BY <1>2, <1>3 DEF Shapes, Wrapping, Tell
<1>7. WindowsPlaces'  BY <1>2, <1>3 DEF Shapes, WindowsPlaces, Tell, WindowsAt
<1>8. WindowsProof'  BY <1>2, <1>3 DEF Shapes, WindowsProof, Proved, Tell, WindowsAt
<1>9. Moves  BY <1>2, <1>3 DEF Shapes, Moves, Quiet, Started, Ended, Proves, Proved, Tell
<1>. QED  BY <1>1, <1>3, <1>4, <1>5, <1>6, <1>7, <1>8, <1>9, OfWindows

\* On Windows: the end of the runtime changes nothing but that.
LEMMA OwnerDiesWindowsInv ==
  ASSUME Inv, platform = "win32", OwnerDies
  PROVE  Inv' /\ Moves
<1> USE DEF Procs, Running, Alive, Members, Live, Unseen, Wrapped, Private, Untouched
<1>1. platform' = platform  BY DEF OwnerDies
<1>2. Shapes /\ TreeTyped /\ Typed /\ Wrapping /\ WindowsPlaces /\ WindowsProof  BY <1>1, OfWindows
<1>3. DOMAIN tree = Procs /\ Shapes'  BY <1>2 DEF Shapes, TreeTyped, OwnerDies, Fault
<1>4. TreeTyped'  BY <1>2, <1>3 DEF TreeTyped, OwnerDies, Fault
<1>5. Typed'  BY <1>2, <1>3, Counted DEF Shapes, Typed, OwnerDies
<1>6. Wrapping'  BY <1>2, <1>3 DEF Shapes, Wrapping, OwnerDies, Fault
<1>7. WindowsPlaces'  BY <1>2, <1>3 DEF Shapes, WindowsPlaces, OwnerDies, Fault, WindowsAt
<1>8. WindowsProof'  BY <1>2, <1>3 DEF Shapes, WindowsProof, Proved, OwnerDies, Fault, WindowsAt
<1>9. Moves  BY <1>2, <1>3 DEF Shapes, Moves, Quiet, Started, Ended, Proves, Proved, OwnerDies, Fault
<1>. QED  BY <1>1, <1>3, <1>4, <1>5, <1>6, <1>7, <1>8, <1>9, OfWindows

\* On Windows: a command that forks runs.
LEMMA ForkWindowsInv ==
  ASSUME Inv, platform = "win32", Fork
  PROVE  Inv' /\ Moves
<1> USE DEF Procs, Running, Alive, Members, Live, Unseen, Wrapped, Private, Untouched
<1>1. platform' = platform  BY DEF Fork
<1>2. Shapes /\ TreeTyped /\ Typed /\ Wrapping /\ WindowsPlaces /\ WindowsProof  BY <1>1, OfWindows
<1>3. DOMAIN tree = Procs /\ Shapes'  BY <1>2 DEF Shapes, TreeTyped, Fork
<1>4. TreeTyped'  BY <1>2, <1>3 DEF TreeTyped, Fork
<1>5. Typed'  BY <1>2, <1>3 DEF Shapes, Typed, Fork
<1>6. Wrapping'  BY <1>2, <1>3 DEF Shapes, Wrapping, Fork
<1>7. WindowsPlaces'  BY <1>2, <1>3 DEF Shapes, WindowsPlaces, Fork, WindowsAt
<1>8. WindowsProof'  BY <1>2, <1>3 DEF Shapes, WindowsProof, Proved, Fork, WindowsAt
<1>9. Moves  BY <1>2, <1>3 DEF Shapes, Moves, Quiet, Started, Ended, Proves, Proved, Fork
<1>. QED  BY <1>1, <1>3, <1>4, <1>5, <1>6, <1>7, <1>8, <1>9, OfWindows

\* On Windows: a process that ends is one member less.
LEMMA EndsWindowsInv ==
  ASSUME Inv, platform = "win32", NEW p \in Procs, Ends(p)
  PROVE  Inv' /\ Moves
<1> USE DEF Procs, Running, Alive, Members, Live, Unseen, Wrapped, Private, Untouched
<1>1. platform' = platform  BY DEF Ends
<1>2. Shapes /\ TreeTyped /\ Typed /\ Wrapping /\ WindowsPlaces /\ WindowsProof  BY <1>1, OfWindows
<1>3. DOMAIN tree = Procs /\ Shapes'  BY <1>2 DEF Shapes, TreeTyped, Ends
<1>4. TreeTyped'  BY <1>2, <1>3 DEF TreeTyped, Ends
<1>5. Typed'  BY <1>2, <1>3 DEF Shapes, Typed, Ends
<1>6. Wrapping'  BY <1>2, <1>3 DEF Shapes, Wrapping, Ends
<1>7. WindowsPlaces'  BY <1>2, <1>3 DEF Shapes, WindowsPlaces, Ends, WindowsAt
<1>8. WindowsProof'  BY <1>2, <1>3 DEF Shapes, WindowsProof, Proved, Ends, WindowsAt
<1>9. Moves  BY <1>2, <1>3 DEF Shapes, Moves, Quiet, Started, Ended, Proves, Proved, Ends
<1>. QED  BY <1>1, <1>3, <1>4, <1>5, <1>6, <1>7, <1>8, <1>9, OfWindows

\* On Windows: the wrapper records its handshake before it has a supervisor.
LEMMA WrapperOpensWindowsInv ==
  ASSUME Inv, platform = "win32", WrapperOpens
  PROVE  Inv' /\ Moves
<1> USE DEF Procs, Running, Alive, Members, Live, Unseen, Wrapped, Private, Untouched
<1>1. platform' = platform  BY DEF WrapperOpens
<1>2. Shapes /\ TreeTyped /\ Typed /\ Wrapping /\ WindowsPlaces /\ WindowsProof  BY <1>1, OfWindows
<1>3. DOMAIN tree = Procs /\ Shapes'  BY <1>2 DEF Shapes, TreeTyped, WrapperOpens
<1>4. TreeTyped'  BY <1>2, <1>3 DEF TreeTyped, WrapperOpens
<1>5. Typed'  BY <1>2, <1>3 DEF Shapes, Typed, WrapperOpens
<1>6. Wrapping'  BY <1>2, <1>3 DEF Shapes, Wrapping, WrapperOpens
<1>7. WindowsPlaces'  BY <1>2, <1>3 DEF Shapes, WindowsPlaces, WrapperOpens, WindowsAt
<1>8. WindowsProof'  BY <1>2, <1>3 DEF Shapes, WindowsProof, Proved, WrapperOpens, WindowsAt
<1>9. Moves  BY <1>2, <1>3 DEF Shapes, Moves, Quiet, Started, Ended, Proves, Proved, WrapperOpens
<1>. QED  BY <1>1, <1>3, <1>4, <1>5, <1>6, <1>7, <1>8, <1>9, OfWindows

\* On Windows: the wrapper brings the supervisor to its first place, on Windows with the
\* authorization on disk.
LEMMA WrapperSpawnsWindowsInv ==
  ASSUME Inv, platform = "win32", WrapperSpawns
  PROVE  Inv' /\ Moves
<1> USE DEF Procs, Running, Alive, Members, Live, Unseen, Wrapped, Private, Untouched
<1>1. platform' = platform  BY DEF WrapperSpawns
<1>2. Shapes /\ TreeTyped /\ Typed /\ Wrapping /\ WindowsPlaces /\ WindowsProof  BY <1>1, OfWindows
<1>3. DOMAIN tree = Procs /\ Shapes'  BY <1>2 DEF Shapes, TreeTyped, WrapperSpawns, Fault
<1>4. TreeTyped'  BY <1>2, <1>3 DEF TreeTyped, WrapperSpawns, Fault
<1>5. Typed'  BY <1>2, <1>3, Counted DEF Shapes, Typed, WrapperSpawns
<1>6. Wrapping'  BY <1>2, <1>3 DEF Shapes, Wrapping, WrapperSpawns, Fault
<1>7. WindowsPlaces'  BY <1>2, <1>3 DEF Shapes, WindowsPlaces, WindowsProof, Typed, Wrapping, Proved,
   WrapperSpawns, Fault, WindowsAt
<1>8. WindowsProof'  BY <1>2, <1>3 DEF Shapes, WindowsProof, WindowsPlaces, Typed, Wrapping, Proved,
   WrapperSpawns, Fault, WindowsAt
<1>9. Moves  BY <1>2, <1>3 DEF Shapes, Moves, Quiet, Started, Ended, Proves, Proved, WrapperSpawns, Fault
<1>. QED  BY <1>1, <1>3, <1>4, <1>5, <1>6, <1>7, <1>8, <1>9, OfWindows

\* On Windows: the supervisor goes on once its identity is on disk, or is killed at the gate.
LEMMA WrapperOpensGateWindowsInv ==
  ASSUME Inv, platform = "win32", WrapperOpensGate
  PROVE  Inv' /\ Moves
<1> USE DEF Procs, Running, Alive, Members, Live, Unseen, Wrapped, Private, Untouched
<1>1. platform' = platform  BY DEF WrapperOpensGate
<1>2. Shapes /\ TreeTyped /\ Typed /\ Wrapping /\ WindowsPlaces /\ WindowsProof  BY <1>1, OfWindows
<1>3. DOMAIN tree = Procs /\ Shapes'  BY <1>2 DEF Shapes, TreeTyped, WrapperOpensGate, Fault
<1>4. TreeTyped'  BY <1>2, <1>3 DEF TreeTyped, WrapperOpensGate, Fault
<1>a. sup'.code # "nothing" /\ sup'.pid \in {"own", "stranger"}  BY <1>2, <1>3 DEF Shapes, Typed,
   WrapperOpensGate
<1>b. faults' \in 0..MaxFaults  BY <1>2, <1>3, Counted DEF Shapes, Typed, WrapperOpensGate
<1>c. disk' \subseteq {"handshake", "authorized", "identified", "completed"} \cup Private  BY <1>2,
   <1>3 DEF Shapes, Typed, WrapperOpensGate
<1>5. Typed'  BY <1>2, <1>3, <1>a, <1>b, <1>c DEF Shapes, Typed, NoRec, WindowsPlaces, WindowsProof,
   WrapperOpensGate
<1>6. Wrapping'  BY <1>2, <1>3 DEF Shapes, Wrapping, WrapperOpensGate, Fault
<1>7. WindowsPlaces'  BY <1>2, <1>3 DEF Shapes, WindowsPlaces, WindowsProof, Typed, Wrapping,
   WrapperOpensGate, Fault, WindowsAt
<1>8. WindowsProof'  BY <1>2, <1>3 DEF Shapes, WindowsProof, WindowsPlaces, Typed, Wrapping, Proved,
   WrapperOpensGate, Fault, WindowsAt
<1>9. Moves  BY <1>2, <1>3 DEF Shapes, Moves, Quiet, Started, Ended, Proves, Proved, WrapperOpensGate, Fault
<1>. QED  BY <1>1, <1>3, <1>4, <1>5, <1>6, <1>7, <1>8, <1>9, OfWindows

\* On Windows: a wrapper without a supervisor leaves, another passes the stop on.
LEMMA WrapperStopsWindowsInv ==
  ASSUME Inv, platform = "win32", WrapperStops
  PROVE  Inv' /\ Moves
<1> USE DEF Procs, Running, Alive, Members, Live, Unseen, Wrapped, Private, Untouched
<1>1. platform' = platform  BY DEF WrapperStops
<1>2. Shapes /\ TreeTyped /\ Typed /\ Wrapping /\ WindowsPlaces /\ WindowsProof  BY <1>1, OfWindows
<1>3. DOMAIN tree = Procs /\ Shapes'  BY <1>2 DEF Shapes, TreeTyped, WrapperStops
<1>e. /\ UNCHANGED <<platform, kind, owner, sent, tree, job, rec, proof, starts, faults>>
      /\ sup'.fault = sup.fault /\ sup'.pid = sup.pid /\ sup'.code = sup.code
      /\ inp' \subseteq inp /\ sup'.at = sup.at
      /\ \/ wrap = "open" /\ wrap' = "gone" /\ disk' = disk \ {"handshake"}
         \/ wrap = "spawned" /\ UNCHANGED <<wrap, disk>>
  BY <1>2, <1>3 DEF Shapes, WrapperStops
<1>4. TreeTyped'  BY <1>2, <1>3 DEF TreeTyped, WrapperStops
<1>5. Typed'  BY <1>1, <1>2, <1>e DEF Typed
<1>6. Wrapping'  BY <1>1, <1>2, <1>e DEF Wrapping
<1>7. WindowsPlaces'  BY <1>1, <1>2, <1>e DEF WindowsPlaces, WindowsAt
<1>8. WindowsProof'  BY <1>1, <1>2, <1>e DEF WindowsProof, Proved, WindowsAt
<1>9. Moves  BY <1>1, <1>2, <1>e DEF Moves, Quiet, Started, Ended, Proves, Proved
<1>. QED  BY <1>1, <1>3, <1>4, <1>5, <1>6, <1>7, <1>8, <1>9, OfWindows

\* On Windows: the wrapper follows a supervisor that is gone, and says completed or closed only
\* for a tree that is over.
LEMMA WrapperFinishesWindowsInv ==
  ASSUME Inv, platform = "win32", WrapperFinishes
  PROVE  Inv' /\ Moves
<1> USE DEF Procs, Running, Alive, Members, Live, Unseen, Wrapped, Private, Untouched
<1>1. platform' = platform  BY DEF WrapperFinishes
<1>2. Shapes /\ TreeTyped /\ Typed /\ Wrapping /\ WindowsPlaces /\ WindowsProof  BY <1>1, OfWindows
<1>3. DOMAIN tree = Procs /\ Shapes'  BY <1>2 DEF Shapes, TreeTyped, WrapperFinishes, KeepsEvidence
<1>4. TreeTyped'  BY <1>2, <1>3 DEF TreeTyped, WrapperFinishes, KeepsEvidence
<1>5. Typed'  BY <1>2, <1>3 DEF Shapes, Typed, WrapperFinishes, KeepsEvidence
<1>6. Wrapping'  BY <1>2, <1>3 DEF Shapes, Wrapping, WrapperFinishes, KeepsEvidence
<1>7. WindowsPlaces'  BY <1>2, <1>3 DEF Shapes, WindowsPlaces, WrapperFinishes, KeepsEvidence, WindowsAt
<1>8. WindowsProof'
  BY <1>2, <1>3 DEF Shapes, WindowsProof, Proved, WrapperFinishes, KeepsEvidence, WindowsAt
<1>9. Moves  BY <1>2, <1>3 DEF Shapes, Moves, Quiet, Started, Ended, Proves, Proved, WindowsPlaces,
   WindowsProof, WrapperFinishes, KeepsEvidence
<1>. QED  BY <1>1, <1>3, <1>4, <1>5, <1>6, <1>7, <1>8, <1>9, OfWindows

\* On Windows: the end of the wrapper changes nothing of the tree.
LEMMA WrapperDiesWindowsInv ==
  ASSUME Inv, platform = "win32", WrapperDies
  PROVE  Inv' /\ Moves
<1> USE DEF Procs, Running, Alive, Members, Live, Unseen, Wrapped, Private, Untouched
<1>1. platform' = platform  BY DEF WrapperDies
<1>2. Shapes /\ TreeTyped /\ Typed /\ Wrapping /\ WindowsPlaces /\ WindowsProof  BY <1>1, OfWindows
<1>3. DOMAIN tree = Procs /\ Shapes'  BY <1>2 DEF Shapes, TreeTyped, WrapperDies, Fault
<1>4. TreeTyped'  BY <1>2, <1>3 DEF TreeTyped, WrapperDies, Fault
<1>5. Typed'  BY <1>2, <1>3, Counted DEF Shapes, Typed, WrapperDies
<1>6. Wrapping'  BY <1>2, <1>3 DEF Shapes, Wrapping, WrapperDies, Fault
<1>7. WindowsPlaces'  BY <1>2, <1>3 DEF Shapes, WindowsPlaces, WrapperDies, Fault, WindowsAt
<1>8. WindowsProof'  BY <1>2, <1>3 DEF Shapes, WindowsProof, Proved, WrapperDies, Fault, WindowsAt
<1>9. Moves  BY <1>2, <1>3 DEF Shapes, Moves, Quiet, Started, Ended, Proves, Proved, WrapperDies, Fault
<1>. QED  BY <1>1, <1>3, <1>4, <1>5, <1>6, <1>7, <1>8, <1>9, OfWindows

\* The job is created with nothing in it.
LEMMA WindowsCreatesJobInv ==
  ASSUME Inv, platform = "win32", WindowsCreatesJob
  PROVE  Inv' /\ Moves
<1> USE DEF Procs, Running, Alive, Members, Live, Unseen, Wrapped, Private, Untouched
<1>1. platform' = platform  BY DEF WindowsCreatesJob
<1>2. Shapes /\ TreeTyped /\ Typed /\ Wrapping /\ WindowsPlaces /\ WindowsProof  BY <1>1, OfWindows
<1>3. DOMAIN tree = Procs /\ Shapes'  BY <1>2 DEF Shapes, TreeTyped, WindowsCreatesJob, WindowsEnd, Fault
<1>4. TreeTyped'  BY <1>2, <1>3 DEF TreeTyped, WindowsCreatesJob, WindowsEnd, Fault
<1>5. Typed'  BY <1>2, <1>3, Counted DEF Shapes, Typed, WindowsCreatesJob, WindowsEnd
<1>6. Wrapping'  BY <1>2, <1>3 DEF Shapes, Wrapping, WindowsCreatesJob, WindowsEnd, Fault
<1>7. WindowsPlaces'
  BY <1>2, <1>3 DEF Shapes, WindowsPlaces, WindowsCreatesJob, WindowsEnd, Fault, WindowsAt
<1>8. WindowsProof'  BY <1>2, <1>3 DEF Shapes, WindowsProof, WindowsPlaces, Proved, WindowsCreatesJob,
   WindowsEnd, Fault, WindowsAt
<1>9. Moves  BY <1>2, <1>3 DEF Shapes, Moves, Quiet, Started, Ended, Proves, Proved, WindowsCreatesJob,
   WindowsEnd, Fault
<1>. QED  BY <1>1, <1>3, <1>4, <1>5, <1>6, <1>7, <1>8, <1>9, OfWindows

\* A utility waits for its line.
LEMMA WindowsReadsInv ==
  ASSUME Inv, platform = "win32", WindowsReads
  PROVE  Inv' /\ Moves
<1> USE DEF Procs, Running, Alive, Members, Live, Unseen, Wrapped, Private, Untouched
<1>1. platform' = platform  BY DEF WindowsReads
<1>2. Shapes /\ TreeTyped /\ Typed /\ Wrapping /\ WindowsPlaces /\ WindowsProof  BY <1>1, OfWindows
<1>3. DOMAIN tree = Procs /\ Shapes'  BY <1>2 DEF Shapes, TreeTyped, WindowsReads
<1>4. TreeTyped'  BY <1>2, <1>3 DEF TreeTyped, WindowsReads
<1>5. Typed'  BY <1>2, <1>3 DEF Shapes, Typed, WindowsReads
<1>6. Wrapping'  BY <1>2, <1>3 DEF Shapes, Wrapping, WindowsReads
<1>7. WindowsPlaces'  BY <1>2, <1>3 DEF Shapes, WindowsPlaces, WindowsReads, WindowsAt
<1>8. WindowsProof'  BY <1>2, <1>3 DEF Shapes, WindowsProof, WindowsPlaces, Proved, WindowsReads, WindowsAt
<1>9. Moves  BY <1>2, <1>3 DEF Shapes, Moves, Quiet, Started, Ended, Proves, Proved, WindowsReads
<1>. QED  BY <1>1, <1>3, <1>4, <1>5, <1>6, <1>7, <1>8, <1>9, OfWindows

\* Suspended, joined to the job, and only then resumed: the last starts the command.
LEMMA WindowsLaunchesInv ==
  ASSUME Inv, platform = "win32", WindowsLaunches
  PROVE  Inv' /\ Moves
<1> USE DEF Procs, Running, Alive, Members, Live, Unseen, Wrapped, Private, Untouched
<1>1. platform' = platform  BY DEF WindowsLaunches
<1>2. Shapes /\ TreeTyped /\ Typed /\ Wrapping /\ WindowsPlaces /\ WindowsProof  BY <1>1, OfWindows
<1>3. DOMAIN tree = Procs /\ Shapes'  BY <1>2 DEF Shapes, TreeTyped, WindowsLaunches
<1>e. /\ UNCHANGED <<platform, kind, owner, inp, sent, wrap, job, disk, rec, proof, faults>>
      /\ sup'.fault = sup.fault /\ sup'.pid = sup.pid /\ sup'.code = sup.code
      /\ \A p \in {"helper", "kid"} : tree'[p] = tree[p]
      /\ starts' \in {0, 1}
      /\ \/ /\ sup.at = "authorized" /\ sup'.at = "suspended"
            /\ tree'["command"] = "suspended" /\ starts' = starts
         \/ sup.at = "suspended" /\ sup'.at = "assigned" /\ UNCHANGED <<tree, starts>>
         \/ /\ sup.at = "assigned" /\ sup'.at = "run"
            /\ tree'["command"] = "run" /\ starts = 0 /\ starts' = 1
  BY <1>2, <1>3 DEF Shapes, WindowsPlaces, WindowsLaunches
<1>4. TreeTyped'  BY <1>2, <1>3 DEF TreeTyped, WindowsLaunches
<1>5. Typed'  BY <1>1, <1>2, <1>e DEF Typed
<1>6. Wrapping'  BY <1>1, <1>2, <1>e DEF Wrapping
<1>7. WindowsPlaces'  BY <1>1, <1>2, <1>e DEF WindowsPlaces, WindowsAt
<1>8. WindowsProof'  BY <1>1, <1>2, <1>e DEF WindowsProof, Proved, WindowsAt
<1>9. Moves
  BY <1>1, <1>2, <1>e DEF Moves, Quiet, Started, Ended, Proves, Proved, WindowsPlaces, WindowsProof
<1>. QED  BY <1>1, <1>3, <1>4, <1>5, <1>6, <1>7, <1>8, <1>9, OfWindows

\* A failed launch waits for its job to be empty.
LEMMA WindowsLaunchFailsInv ==
  ASSUME Inv, platform = "win32", WindowsLaunchFails
  PROVE  Inv' /\ Moves
<1> USE DEF Procs, Running, Alive, Members, Live, Unseen, Wrapped, Private, Untouched
<1>1. platform' = platform  BY DEF WindowsLaunchFails
<1>2. Shapes /\ TreeTyped /\ Typed /\ Wrapping /\ WindowsPlaces /\ WindowsProof  BY <1>1, OfWindows
<1>3. DOMAIN tree = Procs /\ Shapes'  BY <1>2 DEF Shapes, TreeTyped, WindowsLaunchFails, Fault, Kill
<1>4. TreeTyped'  BY <1>2, <1>3 DEF TreeTyped, WindowsLaunchFails, Fault, Kill
<1>5. Typed'  BY <1>2, <1>3, Counted DEF Shapes, Typed, WindowsLaunchFails, Kill
<1>6. Wrapping'  BY <1>2, <1>3 DEF Shapes, Wrapping, WindowsLaunchFails, Fault, Kill
<1>7. WindowsPlaces'  BY <1>2, <1>3 DEF Shapes, WindowsPlaces, WindowsLaunchFails, Fault, Kill, WindowsAt
<1>8. WindowsProof'  BY <1>2, <1>3 DEF Shapes, WindowsProof, Proved, WindowsLaunchFails, Fault, Kill,
   WindowsAt
<1>9. Moves  BY <1>2, <1>3 DEF Shapes, Moves, Quiet, Started, Ended, Proves, Proved, WindowsLaunchFails,
   Fault, Kill
<1>. QED  BY <1>1, <1>3, <1>4, <1>5, <1>6, <1>7, <1>8, <1>9, OfWindows

\* A stop ends the job.
LEMMA WindowsStopsInv ==
  ASSUME Inv, platform = "win32", WindowsStops
  PROVE  Inv' /\ Moves
<1> USE DEF Procs, Running, Alive, Members, Live, Unseen, Wrapped, Private, Untouched
<1>1. platform' = platform  BY DEF WindowsStops
<1>2. Shapes /\ TreeTyped /\ Typed /\ Wrapping /\ WindowsPlaces /\ WindowsProof  BY <1>1, OfWindows
<1>3. DOMAIN tree = Procs /\ Shapes'  BY <1>2 DEF Shapes, TreeTyped, WindowsStops, Kill, ParentGone
<1>4. TreeTyped'  BY <1>2, <1>3 DEF TreeTyped, WindowsStops, Kill, ParentGone
<1>5. Typed'  BY <1>2, <1>3 DEF Shapes, Typed, WindowsStops, Kill, ParentGone
<1>6. Wrapping'  BY <1>2, <1>3 DEF Shapes, Wrapping, WindowsStops, Kill, ParentGone
<1>7. WindowsPlaces'  BY <1>2, <1>3 DEF Shapes, WindowsPlaces, WindowsStops, Kill, ParentGone, WindowsAt
<1>8. WindowsProof'
  BY <1>2, <1>3 DEF Shapes, WindowsProof, Proved, WindowsStops, Kill, ParentGone, WindowsAt
<1>9. Moves  BY <1>2, <1>3 DEF Shapes, Moves, Quiet, Started, Ended, Proves, Proved, WindowsStops, Kill,
   ParentGone
<1>. QED  BY <1>1, <1>3, <1>4, <1>5, <1>6, <1>7, <1>8, <1>9, OfWindows

\* The supervisor waits for the job to be empty.
LEMMA WindowsCommandExitsInv ==
  ASSUME Inv, platform = "win32", WindowsCommandExits
  PROVE  Inv' /\ Moves
<1> USE DEF Procs, Running, Alive, Members, Live, Unseen, Wrapped, Private, Untouched
<1>1. platform' = platform  BY DEF WindowsCommandExits
<1>2. Shapes /\ TreeTyped /\ Typed /\ Wrapping /\ WindowsPlaces /\ WindowsProof  BY <1>1, OfWindows
<1>3. DOMAIN tree = Procs /\ Shapes'  BY <1>2 DEF Shapes, TreeTyped, WindowsCommandExits, Kill
<1>4. TreeTyped'  BY <1>2, <1>3 DEF TreeTyped, WindowsCommandExits, Kill
<1>5. Typed'  BY <1>2, <1>3 DEF Shapes, Typed, WindowsCommandExits, Kill
<1>6. Wrapping'  BY <1>2, <1>3 DEF Shapes, Wrapping, WindowsCommandExits, Kill
<1>7. WindowsPlaces'  BY <1>2, <1>3 DEF Shapes, WindowsPlaces, WindowsCommandExits, Kill, WindowsAt
<1>8. WindowsProof'  BY <1>2, <1>3 DEF Shapes, WindowsProof, Proved, WindowsCommandExits, Kill, WindowsAt
<1>9. Moves
  BY <1>2, <1>3 DEF Shapes, Moves, Quiet, Started, Ended, Proves, Proved, WindowsCommandExits, Kill
<1>. QED  BY <1>1, <1>3, <1>4, <1>5, <1>6, <1>7, <1>8, <1>9, OfWindows

\* A stop while it waits ends the job.
LEMMA WindowsStopsLateInv ==
  ASSUME Inv, platform = "win32", WindowsStopsLate
  PROVE  Inv' /\ Moves
<1> USE DEF Procs, Running, Alive, Members, Live, Unseen, Wrapped, Private, Untouched
<1>1. platform' = platform  BY DEF WindowsStopsLate
<1>2. Shapes /\ TreeTyped /\ Typed /\ Wrapping /\ WindowsPlaces /\ WindowsProof  BY <1>1, OfWindows
<1>3. DOMAIN tree = Procs /\ Shapes'  BY <1>2 DEF Shapes, TreeTyped, WindowsStopsLate, Kill, ParentGone
<1>4. TreeTyped'  BY <1>2, <1>3 DEF TreeTyped, WindowsStopsLate, Kill, ParentGone
<1>5. Typed'  BY <1>2, <1>3 DEF Shapes, Typed, WindowsStopsLate, Kill, ParentGone
<1>6. Wrapping'  BY <1>2, <1>3 DEF Shapes, Wrapping, WindowsStopsLate, Kill, ParentGone
<1>7. WindowsPlaces'  BY <1>2, <1>3 DEF Shapes, WindowsPlaces, WindowsStopsLate, Kill, ParentGone, WindowsAt
<1>8. WindowsProof'  BY <1>2, <1>3 DEF Shapes, WindowsProof, Proved, WindowsStopsLate, Kill, ParentGone,
   WindowsAt
<1>9. Moves  BY <1>2, <1>3 DEF Shapes, Moves, Quiet, Started, Ended, Proves, Proved, WindowsStopsLate,
   Kill, ParentGone
<1>. QED  BY <1>1, <1>3, <1>4, <1>5, <1>6, <1>7, <1>8, <1>9, OfWindows

\* Only an empty job leads to a proof or to an end that reports it.
LEMMA WindowsEmptyInv ==
  ASSUME Inv, platform = "win32", WindowsEmpty
  PROVE  Inv' /\ Moves
<1> USE DEF Procs, Running, Alive, Members, Live, Unseen, Wrapped, Private, Untouched
<1>1. platform' = platform  BY DEF WindowsEmpty
<1>2. Shapes /\ TreeTyped /\ Typed /\ Wrapping /\ WindowsPlaces /\ WindowsProof  BY <1>1, OfWindows
<1>3. DOMAIN tree = Procs /\ Shapes'  BY <1>2 DEF Shapes, TreeTyped, WindowsEmpty, WindowsEnd, JobEmpty
<1>e. /\ UNCHANGED <<platform, kind, owner, inp, sent, wrap, tree, disk, rec, proof, starts, faults>>
      /\ sup'.fault = sup.fault /\ sup'.pid = sup.pid /\ sup'.code = sup.code
      /\ sup.at = "emptying" /\ Members = {} /\ job'.runs = job.runs /\ job'.late = job.late
      /\ \/ sup'.at = "proven" /\ job' = job
         \/ sup'.at = "gone" /\ job'.is = "closed"
  BY <1>2, <1>3 DEF Shapes, WindowsEmpty, WindowsEnd, JobEmpty
<1>4. TreeTyped'  BY <1>2, <1>3 DEF TreeTyped, WindowsEmpty, WindowsEnd, JobEmpty
<1>5. Typed'  BY <1>1, <1>2, <1>e DEF Typed
<1>6. Wrapping'  BY <1>1, <1>2, <1>e DEF Wrapping
<1>7. WindowsPlaces'  BY <1>1, <1>2, <1>e DEF WindowsPlaces, WindowsAt
<1>8. WindowsProof'  BY <1>1, <1>2, <1>e DEF WindowsProof, Proved, WindowsAt
<1>9. Moves  BY <1>1, <1>2, <1>e DEF Moves, Quiet, Started, Ended, Proves, Proved
<1>. QED  BY <1>1, <1>3, <1>4, <1>5, <1>6, <1>7, <1>8, <1>9, OfWindows

\* The marker is written, then the frame, with the job empty.
LEMMA WindowsProvesInv ==
  ASSUME Inv, platform = "win32", WindowsProves
  PROVE  Inv' /\ Moves
<1> USE DEF Procs, Running, Alive, Members, Live, Unseen, Wrapped, Private, Untouched
<1>1. platform' = platform  BY DEF WindowsProves
<1>2. Shapes /\ TreeTyped /\ Typed /\ Wrapping /\ WindowsPlaces /\ WindowsProof  BY <1>1, OfWindows
<1>3. DOMAIN tree = Procs /\ Shapes'  BY <1>2 DEF Shapes, TreeTyped, WindowsProves, WindowsEnd, Fault, Frame
<1>4. TreeTyped'  BY <1>2, <1>3 DEF TreeTyped, WindowsProves, WindowsEnd, Fault, Frame
<1>5. Typed'  BY <1>2, <1>3, Counted DEF Shapes, Typed, WindowsProves, WindowsEnd, Frame
<1>6. Wrapping'  BY <1>2, <1>3 DEF Shapes, Wrapping, WindowsProves, WindowsEnd, Fault, Frame
<1>7. WindowsPlaces'  BY <1>2, <1>3 DEF Shapes, WindowsPlaces, WindowsProves, WindowsEnd, Fault, Frame,
   WindowsAt
<1>8. WindowsProof'  BY <1>2, <1>3 DEF Shapes, WindowsProof, Proved, WindowsProves, WindowsEnd, Fault,
   Frame, WindowsAt
<1>9. Moves  BY <1>2, <1>3 DEF Shapes, Moves, Quiet, Started, Ended, Proves, Proved, WindowsPlaces,
   WindowsProof, WindowsProves, WindowsEnd, Fault, Frame
<1>. QED  BY <1>1, <1>3, <1>4, <1>5, <1>6, <1>7, <1>8, <1>9, OfWindows

\* A killed supervisor takes the job with it, or leaves it to another reader, and proves
\* nothing.
LEMMA WindowsDiesInv ==
  ASSUME Inv, platform = "win32", WindowsDies
  PROVE  Inv' /\ Moves
<1> USE DEF Procs, Running, Alive, Members, Live, Unseen, Wrapped, Private, Untouched
<1>1. platform' = platform  BY DEF WindowsDies
<1>2. Shapes /\ TreeTyped /\ Typed /\ Wrapping /\ WindowsPlaces /\ WindowsProof  BY <1>1, OfWindows
<1>3. DOMAIN tree = Procs /\ Shapes'  BY <1>2 DEF Shapes, TreeTyped, WindowsDies, WindowsEnd, Fault,
   WindowsAt, Closes, Kill
<1>4. TreeTyped'  BY <1>2, <1>3 DEF TreeTyped, WindowsDies, WindowsEnd, Fault, WindowsAt, Closes, Kill
<1>5. Typed'  BY <1>2, <1>3, Counted DEF Shapes, Typed, WindowsDies, WindowsEnd, WindowsAt, Closes, Kill
<1>6. Wrapping'  BY <1>2, <1>3 DEF Shapes, Wrapping, WindowsDies, WindowsEnd, Fault, WindowsAt, Closes, Kill
<1>7. WindowsPlaces'  BY <1>2, <1>3 DEF Shapes, WindowsPlaces, WindowsDies, WindowsEnd, Fault, WindowsAt,
   Closes, Kill
<1>8. WindowsProof'  BY <1>2, <1>3 DEF Shapes, WindowsProof, Proved, WindowsDies, WindowsEnd, Fault,
   WindowsAt, Closes, Kill
<1>9. Moves  BY <1>2, <1>3 DEF Shapes, Moves, Quiet, Started, Ended, Proves, Proved, WindowsDies,
   WindowsEnd, Fault, WindowsAt, Closes, Kill
<1>. QED  BY <1>1, <1>3, <1>4, <1>5, <1>6, <1>7, <1>8, <1>9, OfWindows

\* The last handle closes and the job is killed.
LEMMA JobLetGoInv ==
  ASSUME Inv, platform = "win32", JobLetGo
  PROVE  Inv' /\ Moves
<1> USE DEF Procs, Running, Alive, Members, Live, Unseen, Wrapped, Private, Untouched
<1>1. platform' = platform  BY DEF JobLetGo
<1>2. Shapes /\ TreeTyped /\ Typed /\ Wrapping /\ WindowsPlaces /\ WindowsProof  BY <1>1, OfWindows
<1>3. DOMAIN tree = Procs /\ Shapes'  BY <1>2 DEF Shapes, TreeTyped, JobLetGo, Kill
<1>4. TreeTyped'  BY <1>2, <1>3 DEF TreeTyped, JobLetGo, Kill
<1>5. Typed'  BY <1>2, <1>3 DEF Shapes, Typed, JobLetGo, Kill
<1>6. Wrapping'  BY <1>2, <1>3 DEF Shapes, Wrapping, JobLetGo, Kill
<1>7. WindowsPlaces'  BY <1>2, <1>3 DEF Shapes, WindowsPlaces, JobLetGo, Kill, WindowsAt
<1>8. WindowsProof'  BY <1>2, <1>3 DEF Shapes, WindowsProof, Proved, JobLetGo, Kill, WindowsAt
<1>9. Moves  BY <1>2, <1>3 DEF Shapes, Moves, Quiet, Started, Ended, Proves, Proved, JobLetGo, Kill
<1>. QED  BY <1>1, <1>3, <1>4, <1>5, <1>6, <1>7, <1>8, <1>9, OfWindows

\* Recovery believes an empty job, or the marker.
LEMMA WindowsRecoversInv ==
  ASSUME Inv, platform = "win32", WindowsRecovers
  PROVE  Inv' /\ Moves
<1> USE DEF Procs, Running, Alive, Members, Live, Unseen, Wrapped, Private, Untouched
<1>1. platform' = platform  BY DEF WindowsRecovers
<1>2. Shapes /\ TreeTyped /\ Typed /\ Wrapping /\ WindowsPlaces /\ WindowsProof  BY <1>1, OfWindows
<1>3. DOMAIN tree = Procs /\ Shapes'  BY <1>2 DEF Shapes, TreeTyped, WindowsRecovers, FoundAlive,
   FoundEmpty, JobEmpty, MarkerMatches, NoRec, Kill
<1>4. TreeTyped'  BY <1>2, <1>3 DEF TreeTyped, WindowsRecovers, FoundAlive, FoundEmpty, JobEmpty,
   MarkerMatches, NoRec, Kill
<1>5. Typed'  BY <1>2, <1>3 DEF Shapes, Typed, WindowsRecovers, FoundAlive, FoundEmpty, JobEmpty,
   MarkerMatches, NoRec, Kill
<1>6. Wrapping'  BY <1>2, <1>3 DEF Shapes, Wrapping, WindowsRecovers, FoundAlive, FoundEmpty, JobEmpty,
   MarkerMatches, NoRec, Kill
<1>7. WindowsPlaces'  BY <1>2, <1>3 DEF Shapes, WindowsPlaces, WindowsRecovers, FoundAlive, FoundEmpty,
   JobEmpty, MarkerMatches, NoRec, Kill, WindowsAt
<1>8. WindowsProof'  BY <1>2, <1>3 DEF Shapes, WindowsProof, Proved, WindowsRecovers, FoundAlive,
   FoundEmpty, JobEmpty, MarkerMatches, NoRec, Kill, WindowsAt
<1>9. Moves  BY <1>2, <1>3 DEF Shapes, Moves, Quiet, Started, Ended, Proves, Proved, WindowsPlaces,
   WindowsProof, WindowsRecovers, FoundAlive, FoundEmpty, JobEmpty, MarkerMatches, NoRec, Kill
<1>. QED  BY <1>1, <1>3, <1>4, <1>5, <1>6, <1>7, <1>8, <1>9, OfWindows

\* An agent is gone by its completed handshake.
LEMMA WindowsAgentVerdictInv ==
  ASSUME Inv, platform = "win32", WindowsAgentVerdict
  PROVE  Inv' /\ Moves
<1> USE DEF Procs, Running, Alive, Members, Live, Unseen, Wrapped, Private, Untouched
<1>1. platform' = platform  BY DEF WindowsAgentVerdict
<1>2. Shapes /\ TreeTyped /\ Typed /\ Wrapping /\ WindowsPlaces /\ WindowsProof  BY <1>1, OfWindows
<1>3. DOMAIN tree = Procs /\ Shapes'  BY <1>2 DEF Shapes, TreeTyped, WindowsAgentVerdict
<1>4. TreeTyped'  BY <1>2, <1>3 DEF TreeTyped, WindowsAgentVerdict
<1>5. Typed'  BY <1>2, <1>3 DEF Shapes, Typed, WindowsAgentVerdict
<1>6. Wrapping'  BY <1>2, <1>3 DEF Shapes, Wrapping, WindowsAgentVerdict
<1>7. WindowsPlaces'  BY <1>2, <1>3 DEF Shapes, WindowsPlaces, WindowsAgentVerdict, WindowsAt
<1>8. WindowsProof'  BY <1>2, <1>3 DEF Shapes, WindowsProof, Proved, WindowsAgentVerdict, WindowsAt
<1>9. Moves  BY <1>2, <1>3 DEF Shapes, Moves, Quiet, Started, Ended, Proves, Proved, WindowsPlaces,
   WindowsProof, WindowsAgentVerdict
<1>. QED  BY <1>1, <1>3, <1>4, <1>5, <1>6, <1>7, <1>8, <1>9, OfWindows

\* The invariant holds at the start.
LEMMA InitInv == ASSUME Init PROVE Inv
<1> USE DEF Init, NoSup, NoJob, NoRec
<1>1. /\ platform \in Platforms /\ kind \in Kinds
      /\ platform \in {"linux", "darwin", "win32"} /\ kind \in {"utility", "terminal", "agent"}
  BY NativeBounds
<1>2. tree = [p \in Procs |-> "none"] /\ Procs = {"helper", "command", "kid"}  BY DEF Procs
<1>3. Shapes /\ TreeTyped  BY <1>2 DEF Shapes, TreeTyped
<1>4. /\ sup.at = (IF Wrapped THEN "off" ELSE "new") /\ sup.pid = "own" /\ sup.code = "none"
      /\ sup.fault = FALSE
  OBVIOUS
<1>5. Typed  BY <1>1, <1>4, NativeBounds DEF Typed
<1>6. Wrapping  BY <1>4 DEF Wrapping, Wrapped
<1>7. Members = {} /\ Untouched /\ ~Live /\ ~Registered
  BY <1>2 DEF Members, Untouched, Live, Registered, Alive, Running
<1>8. Linux  BY <1>1, <1>2, <1>4, <1>7 DEF Linux, LinuxPlaces, LinuxRecord, LinuxProof, Proved, Alive,
   Running, Wrapped
<1>9. Darwin
  <2> SUFFICES ASSUME platform = "darwin" PROVE DarwinPlaces /\ DarwinStarts /\ DarwinFirst /\ DarwinProof
    BY DEF Darwin
  <2>1. DarwinPlaces  BY <1>2, <1>4 DEF DarwinPlaces, Before, Private
  <2>2. DarwinStarts  BY <1>2, <1>4, <1>7 DEF DarwinStarts, Before, Private
  <2>3. DarwinFirst  BY <1>2, <1>4, <1>7 DEF DarwinFirst
  <2>4. DarwinProof  BY <1>2, <1>4, <1>7 DEF DarwinProof, Proved
  <2>. QED  BY <2>1, <2>2, <2>3, <2>4
<1>10. Windows  BY <1>2, <1>4, <1>7 DEF Windows, WindowsPlaces, WindowsProof, WindowsAt, Proved, Wrapped
<1>. QED  BY <1>3, <1>5, <1>6, <1>8, <1>9, <1>10 DEF Inv

\* The steps the three supervisors share keep the invariant and the promise.
LEMMA SharedInv == ASSUME Inv, SharedNext PROVE Inv' /\ Moves
<1>1. platform \in {"linux", "darwin", "win32"}  BY DEF Inv, Typed
<1>2. CASE platform = "linux"
  <2>1. wrap = "none"  BY <1>2 DEF Inv, Wrapping, Wrapped
  <2>2. ~(WrapperOpens \/ WrapperSpawns \/ WrapperOpensGate \/ WrapperStops
         \/ WrapperFinishes \/ WrapperDies)
    BY <2>1 DEF WrapperOpens, WrapperSpawns, WrapperOpensGate, WrapperStops, WrapperFinishes, WrapperDies
  <2>. QED  BY <1>2, <2>2, TellLinuxInv, OwnerDiesLinuxInv, ForkLinuxInv, EndsLinuxInv DEF SharedNext
<1>3. CASE platform = "darwin"
  BY <1>3, TellDarwinInv, OwnerDiesDarwinInv, ForkDarwinInv, EndsDarwinInv, WrapperOpensDarwinInv,
     WrapperSpawnsDarwinInv, WrapperOpensGateDarwinInv, WrapperStopsDarwinInv,
     WrapperFinishesDarwinInv, WrapperDiesDarwinInv DEF SharedNext
<1>4. CASE platform = "win32"
  BY <1>4, TellWindowsInv, OwnerDiesWindowsInv, ForkWindowsInv, EndsWindowsInv, WrapperOpensWindowsInv,
     WrapperSpawnsWindowsInv, WrapperOpensGateWindowsInv, WrapperStopsWindowsInv,
     WrapperFinishesWindowsInv, WrapperDiesWindowsInv DEF SharedNext
<1>. QED  BY <1>1, <1>2, <1>3, <1>4

\* The steps of Linux keep the invariant and the promise.
LEMMA LinuxNextInv == ASSUME Inv, platform = "linux", LinuxNext PROVE Inv' /\ Moves
BY LinuxRecordsInv, LinuxForksInv, LinuxAuthorizesInv, LinuxReleasesInv, LinuxStopsInv,
   LinuxCommandEndedInv, LinuxKillsInv, LinuxReapsInv, LinuxProvesInv, LinuxLeavesInv,
   LinuxDiesInv, PidReusedInv, LinuxRecoversInv, LinuxBindsInv, LinuxSignalsInv,
   LinuxLooksAgainInv, LinuxAgentVerdictInv DEF LinuxNext

\* The steps of macOS keep the invariant and the promise.
LEMMA DarwinNextInv == ASSUME Inv, platform = "darwin", DarwinNext PROVE Inv' /\ Moves
BY DarwinAuthorizedInv, DarwinPreparesInv, BootstrapEndsInv, DarwinSubmittedInv,
   LaunchdStartsInv, HelperClaimsInv, HelperRunsInv, HelperDiesInv, DarwinReadsInv,
   DarwinCannotReadInv, DarwinDecidesInv, DarwinKillsInv, DarwinBootsOutInv, DarwinProvesInv,
   DarwinDiesInv, DarwinProbesInv, DarwinTerminatesInv, DarwinRemovesInv,
   DarwinAgentVerdictInv DEF DarwinNext

\* The steps of Windows keep the invariant and the promise.
LEMMA WindowsNextInv == ASSUME Inv, platform = "win32", WindowsNext PROVE Inv' /\ Moves
BY WindowsCreatesJobInv, WindowsReadsInv, WindowsLaunchesInv, WindowsLaunchFailsInv,
   WindowsStopsInv, WindowsCommandExitsInv, WindowsStopsLateInv, WindowsEmptyInv,
   WindowsProvesInv, WindowsDiesInv, JobLetGoInv, WindowsRecoversInv,
   WindowsAgentVerdictInv DEF WindowsNext

\* Every step keeps the invariant and the promise.
LEMMA NextInv == ASSUME Inv, Next PROVE Inv' /\ Moves
BY SharedInv, LinuxNextInv, DarwinNextInv, WindowsNextInv DEF Next

\* A step that changes nothing keeps the invariant and the promise.
LEMMA Stutter == ASSUME Inv, UNCHANGED vars PROVE Inv' /\ Moves
<1>1. Inv'  BY DEF Inv, Shapes, TreeTyped, Typed, Wrapping, Linux, LinuxPlaces, LinuxRecord,
        LinuxProof, Darwin, DarwinPlaces, DarwinStarts, DarwinFirst, DarwinProof, DarwinOver, Left,
        Windows, WindowsPlaces, WindowsProof, Wrapped, Members, Alive, Live, Proved, Untouched,
        Registered, vars
<1>2. Moves  BY DEF Moves, Quiet, Live, Unseen, Alive, Proved, vars
<1>. QED  BY <1>1, <1>2

\* The inductive invariant holds in every behaviour.
THEOREM Invariance == Spec => []Inv
<1>1. Inv /\ [Next]_vars => Inv'  BY NextInv, Stutter
<1>. QED  BY InitInv, <1>1, PTL DEF Spec

\* The invariant gives the types.
LEMMA InvTyped == ASSUME Inv PROVE TypeOK
<1>1. job.runs \in 0..2 /\ starts \in 0..2  BY DEF Inv, Typed
<1>2. rec.at \in {"idle", "terminate", "emptied", "bound", "wait", "last", "harmed"}
  BY DEF Inv, Typed, Linux, LinuxProof, Darwin, DarwinProof, Windows, WindowsProof
<1>3. wrap \in {"none", "new", "open", "gating", "spawned", "gone"}
  BY DEF Inv, Wrapping
<1>. QED  BY <1>1, <1>2, <1>3 DEF Inv, Typed, TreeTyped, TypeOK

\* A tree that runs has passed the places before which its record was written.
LEMMA InvRecorded == ASSUME Inv PROVE RunningIsRecorded
<1>0. TypeOK /\ TreeTyped /\ Typed /\ Wrapping  BY InvTyped DEF Inv
<1>1. ASSUME platform = "linux", Members # {} PROVE {"handshake", "authorized"} \subseteq disk
  <2>1. LinuxPlaces /\ LinuxRecord  BY <1>1 DEF Inv, Linux
  <2>2. Live  BY <1>1, <2>1 DEF LinuxPlaces, Live, Members, Alive, Procs, Running
  <2>3. sup.at \in {"loop", "gone"}  BY <2>1, <2>2 DEF LinuxPlaces, LinuxRecord
  <2>. QED  BY <2>1, <2>2, <2>3 DEF LinuxRecord
<1>2. ASSUME platform = "darwin", Wrapped, Members # {}, wrap # "gone" PROVE "identified" \in disk
  <2>1. DarwinPlaces /\ DarwinStarts  BY <1>2 DEF Inv, Darwin
  <2>2. ~Untouched  BY <1>2 DEF Untouched, Members, Alive, Running
  <2>3. job.boot # "none"  BY <2>1, <2>2 DEF DarwinStarts
  <2>4. wrap = "spawned"  BY <1>0, <1>2, <2>1, <2>3 DEF Wrapping, DarwinPlaces, Before
  <2>. QED  BY <2>1, <2>4 DEF DarwinPlaces
<1>3. ASSUME platform = "win32", Wrapped, Members # {}, wrap # "gone" PROVE "authorized" \in disk
  <2>1. WindowsPlaces  BY <1>3 DEF Inv, Windows
  <2>2. ~Untouched  BY <1>3 DEF Untouched, Members, Alive, Running
  <2>3. sup.at # "off"  BY <2>1, <2>2 DEF WindowsPlaces
  <2>. QED  BY <1>3, <2>1, <2>3 DEF WindowsPlaces
<1>4. Wrapped => platform \in {"darwin", "win32"}  BY <1>0 DEF Typed, Wrapped
<1>. QED  BY <1>0, <1>1, <1>2, <1>3, <1>4 DEF RunningIsRecorded

\* No part of the invariant has recovery at the place where it harmed a stranger.
LEMMA InvSpared == ASSUME Inv PROVE StrangersSpared
BY DEF Inv, Typed, Linux, LinuxProof, Darwin, DarwinProof, Windows, WindowsProof, StrangersSpared

\* The invariant says what the reports say.
LEMMA InvReports == ASSUME Inv PROVE ReportsTrue
<1>1. sup.code # "nothing"  BY DEF Inv, Typed
<1>2. ASSUME proof = "group" PROVE Members = {} \/ (sup.fault /\ job.away /\ Members = {"kid"})
  <2>1. platform = "linux"
    BY <1>2 DEF Inv, Typed, Darwin, DarwinProof, Windows, WindowsProof
  <2>2. LinuxPlaces /\ LinuxRecord /\ LinuxProof  BY <2>1 DEF Inv, Linux
  <2>3. ~Alive("helper") /\ ~Alive("command")
    BY <1>2, <2>2 DEF LinuxPlaces, LinuxProof, Alive, Running
  <2>4. Members = {} \/ (Members = {"kid"} /\ Alive("kid"))  BY <2>3 DEF Members, Procs
  <2>5. Alive("kid") => sup.fault /\ job.away  BY <1>2, <2>2 DEF LinuxRecord, LinuxProof, Live
  <2>. QED  BY <2>4, <2>5
<1>. QED  BY <1>1, <1>2 DEF ReportsTrue

\* Whatever dies and whenever, what a later runtime needs to find a running tree was on disk
\* before the command could start and stays while any of it runs (agent-supervisor.c, the
\* authorized record before the gate; agent-wrapper.mjs, the handshake before the launch).
THEOREM Recorded == Spec => []RunningIsRecorded
BY Invariance, InvRecorded, PTL

\* A recovery on Linux never signals a process that took over the number of the recorded
\* supervisor: it binds a descriptor first and checks the record after (agent-supervisor.c,
\* --terminate-owned).
THEOREM Spares == Spec => []StrangersSpared
BY Invariance, InvSpared, PTL

\* A process group is reported empty only when the tree is gone, or a killed supervisor left a
\* process that had moved to another session; and a macOS supervisor never reports the end of a
\* start that ran nothing (agent-supervisor-darwin.c).
THEOREM TellsTrue == Spec => []ReportsTrue
BY Invariance, InvReports, PTL

\* What the lemmas call a move of the promise is a step of OwnedTree, or none.
LEMMA MovesPromise == ASSUME Moves PROVE [Tree!Next]_(Tree!vars)
<1> USE DEF Tree!Next, Tree!Start, Tree!End, Tree!Prove, Tree!vars
<1>1. CASE Started  BY <1>1 DEF Started, Live, Unseen, Proved
<1>2. CASE Ended  BY <1>2 DEF Ended, Live, Unseen, Proved
<1>3. CASE Proves  BY <1>3 DEF Proves, Live, Unseen, Proved
<1>4. CASE Quiet  BY <1>4 DEF Quiet, Live, Unseen, Proved
<1>. QED  BY <1>1, <1>2, <1>3, <1>4 DEF Moves

\* The three supervisors implement OwnedTree: the command is executed at most once, and the
\* frame, a recovery and a normal end of the wrapper declare the tree gone only when nothing of
\* it runs or will - but for a command that launchd's first start let run between a teardown's
\* last listing of the coalition and the end of the registration (agent-supervisor-darwin.c,
\* terminate_coalition and bootout_checked).
THEOREM PromiseKept == Spec => KeepsPromise
<1>1. Init => Tree!Init  BY DEF Init, Tree!Init, Alive, Procs, Running
<1>2. Inv /\ [Next]_vars => [Tree!Next]_(Tree!vars)  BY NextInv, Stutter, MovesPromise
<1>. QED  BY <1>1, <1>2, Invariance, PTL DEF Spec, KeepsPromise, Tree!Spec
=============================================================================
