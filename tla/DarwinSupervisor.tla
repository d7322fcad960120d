-------------------------- MODULE DarwinSupervisor --------------------------
(***************************************************************************)
(* The macOS supervisor (agent-supervisor-darwin.c): the command is a      *)
(* launchd job whose resource coalition holds every process of the tree.   *)
(* launchd starts the supervisor's own helper, which claims the private    *)
(* launch file by removing it, so a job started again runs nothing.  The   *)
(* coalition's number is kept in a marker: once launchd no longer knows    *)
(* the job, the marker is all a later runtime can ask the kernel about.    *)
(*                                                                         *)
(* job.is: "none", or "registered" with launchd; job.boot is the launchctl *)
(* process that registers it and may outlive the supervisor; job.late      *)
(* (history): launchd started the job while a teardown that had found its  *)
(* coalition empty was removing it.                                        *)
(***************************************************************************)
EXTENDS OwnedProcess

Registered == job.is = "registered"
Active == Alive("helper")
DarwinEnd(code) == [sup EXCEPT !.at = "gone", !.code = code]
Private == {"dir", "env", "status", "marker"}

\* Mutant: launchd's last code is taken whatever it describes.
ExitCodeLast == IF "status" \in disk THEN "first" ELSE job.last
\* What the command's end is reported as: the helper's record of its first
\* exit; launchd's code only for a job that ran once.
ExitCode == IF "status" \in disk THEN "first"
            ELSE IF job.runs = 1 THEN job.last ELSE "lost"

\* The gate of an agent, the "go" of a utility; a gate that closes unread ends
\* the supervisor before it has done anything.
DarwinAuthorized ==
  /\ \/ /\ kind = "utility" /\ sup.at = "new" /\ "go" \in inp
        /\ inp' = inp \ {"go"} /\ sup' = [sup EXCEPT !.at = "authorized"]
        /\ UNCHANGED proof
     \/ /\ kind = "utility" /\ sup.at = "new" /\ "go" \notin inp
        /\ "stop" \in inp \/ owner = "gone"
        /\ sup' = DarwinEnd("other") /\ proof' = Frame /\ UNCHANGED inp
     \/ /\ sup.at = "gated" /\ wrap = "gone"
        /\ sup' = DarwinEnd("other") /\ UNCHANGED <<inp, proof>>
  /\ UNCHANGED <<platform, kind, owner, sent, wrap, tree, job, disk, rec, starts, faults>>

StopWanted == \/ kind = "utility" /\ "stop" \in inp
              \/ sup.asked
              \/ ParentGone

\* Command, environment and directory go to a private file; a utility that is
\* already unwanted removes it again; otherwise launchctl is started.
DarwinPrepares ==
  /\ \/ /\ sup.at = "authorized"
        /\ \/ /\ disk' = disk \cup {"dir", "env"}
              /\ sup' = [sup EXCEPT !.at = "prepared"] /\ UNCHANGED <<faults, proof>>
           \/ Fault /\ sup' = DarwinEnd("other") /\ proof' = Frame /\ UNCHANGED disk
        /\ UNCHANGED job
     \/ /\ sup.at = "prepared"
        /\ IF kind = "utility" /\ StopWanted
           THEN /\ disk' = disk \ Private /\ sup' = DarwinEnd("other") /\ proof' = Frame
                /\ UNCHANGED job
           ELSE /\ job' = [job EXCEPT !.boot = "running"]
                /\ sup' = [sup EXCEPT !.at = "submitting"] /\ UNCHANGED <<disk, proof>>
        /\ UNCHANGED faults
  /\ UNCHANGED <<platform, kind, owner, inp, sent, wrap, tree, rec, starts>>

\* launchctl registers the job, or fails, or fails having registered it.
BootstrapEnds ==
  /\ job.boot = "running"
  /\ \/ /\ "dir" \in disk /\ job' = [job EXCEPT !.is = "registered", !.boot = "ok"]
        /\ UNCHANGED faults
     \/ /\ Fault /\ job' = [job EXCEPT !.boot = "failed"]
     \/ /\ Fault /\ "dir" \in disk
        /\ job' = [job EXCEPT !.is = "registered", !.boot = "failed"]
  /\ UNCHANGED <<platform, kind, owner, inp, sent, wrap, sup, tree, disk, rec, proof, starts>>

\* A failed submission ends without a frame: the job may exist.
DarwinSubmitted ==
  /\ sup.at = "submitting"
  /\ \/ job.boot = "ok" /\ sup' = [sup EXCEPT !.at = "loop"] /\ UNCHANGED disk
     \/ /\ job.boot = "failed"
        /\ disk' = disk \ Private /\ sup' = [DarwinEnd("other") EXCEPT !.fault = TRUE]
  /\ UNCHANGED <<platform, kind, owner, inp, sent, wrap, tree, job, rec, proof, starts, faults>>

--------------------------------------------------------------------------
(* launchd and the helper it starts *)

\* At load, and again when somebody kickstarts the finished job.
LaunchdStarts ==
  /\ Registered /\ ~Active
  /\ job.runs = 0 \/ (job.runs = 1 /\ owner = "up" /\ Fault)
  /\ (job.runs = 0) => UNCHANGED faults
  /\ job' = [job EXCEPT !.runs = @ + 1, !.late = @ \/ "emptied" \in {sup.at, rec.at}]
  /\ tree' = [tree EXCEPT !["helper"] = "run"]
  /\ UNCHANGED <<platform, kind, owner, inp, sent, wrap, sup, disk, rec, proof, starts>>

\* Only the start that removes the launch file goes on to run the command.
Claimed == {"env"}

HelperClaims ==
  /\ tree["helper"] = "run"
  /\ IF "env" \in disk /\ "status" \notin disk
     THEN /\ disk' = disk \ Claimed
          /\ tree' = [tree EXCEPT !["helper"] = "claimed"] /\ UNCHANGED job
     ELSE /\ tree' = [tree EXCEPT !["helper"] = "gone"]
          /\ job' = [job EXCEPT !.last = "nothing"] /\ UNCHANGED disk
  /\ UNCHANGED <<platform, kind, owner, inp, sent, wrap, sup, rec, proof, starts, faults>>

HelperRuns ==
  /\ \/ /\ tree["helper"] = "claimed"
        /\ tree' = [tree EXCEPT !["helper"] = "waiting", !["command"] = "run"]
        /\ starts' = starts + 1 /\ UNCHANGED <<disk, job>>
     \/ /\ tree["helper"] = "waiting" /\ ~Alive("command")
        /\ disk' = IF "dir" \in disk THEN disk \cup {"status"} ELSE disk
        /\ job' = [job EXCEPT !.last = "first"]
        /\ tree' = [tree EXCEPT !["helper"] = "gone"] /\ UNCHANGED starts
  /\ UNCHANGED <<platform, kind, owner, inp, sent, wrap, sup, rec, proof, faults>>

\* The helper ends unrecorded, killed by the supervisor or from outside.
HelperDies ==
  /\ \/ tree["helper"] = "dying" /\ UNCHANGED faults
     \/ tree["helper"] \in {"run", "claimed", "waiting"} /\ Fault
  /\ tree' = [tree EXCEPT !["helper"] = "gone"]
  /\ job' = [job EXCEPT !.last = IF job.runs = 2 THEN "nothing" ELSE "first"]
  /\ UNCHANGED <<platform, kind, owner, inp, sent, wrap, sup, disk, rec, proof, starts>>

--------------------------------------------------------------------------
(* The supervisor's loop *)

\* The coalition is known from the first good reading and recorded before
\* anything else is decided; without the record the job must stop now.
DarwinReads ==
  /\ sup.at = "loop" /\ Registered
  /\ \/ disk' = disk \cup {"marker"} /\ UNCHANGED faults
        /\ sup' = [sup EXCEPT !.knows = TRUE, !.at = "decide", !.stopping = @ \/ StopWanted]
     \/ Fault /\ "marker" \notin disk /\ UNCHANGED disk
        /\ sup' = [sup EXCEPT !.knows = TRUE, !.at = "decide", !.stopping = TRUE]
  /\ UNCHANGED <<platform, kind, owner, inp, sent, wrap, tree, job, rec, proof, starts>>

\* An unreadable service: what is known of it is torn down; after enough
\* failures the supervisor gives up without a proof.
DarwinCannotRead ==
  /\ sup.at = "loop" /\ Fault
  /\ \/ sup.knows /\ sup' = [sup EXCEPT !.at = "killing", !.code = "other"]
        /\ UNCHANGED job
     \/ sup' = [DarwinEnd("other") EXCEPT !.fault = TRUE]
        /\ job' \in {job, [job EXCEPT !.is = "none"]}
  /\ UNCHANGED <<platform, kind, owner, inp, sent, wrap, tree, disk, rec, proof, starts>>

\* A listing found nobody: what starts from now on was not listed.
ListedNobody == job' = [job EXCEPT !.late = FALSE]

\* Once the job ran and no process of it is active, a utility's leftovers are killed;
\* with nobody left the registration goes.
DarwinDecides ==
  /\ sup.at = "decide"
  /\ LET ended == job.runs >= 1 /\ ~Active
         left  == Members # {} /\ kind = "utility"
     IN \/ /\ sup.stopping
           /\ sup' = [sup EXCEPT !.at = "killing", !.code = "stopped"] /\ UNCHANGED <<job, faults>>
        \/ /\ ~sup.stopping /\ ended /\ left
           /\ sup' = [sup EXCEPT !.at = "killing", !.code = ExitCode] /\ UNCHANGED <<job, faults>>
        \/ /\ ~sup.stopping /\ ended /\ Members = {} /\ ListedNobody
           /\ sup' = [sup EXCEPT !.at = "emptied", !.code = ExitCode] /\ UNCHANGED faults
        \/ /\ ~sup.stopping /\ ~(ended /\ (Members = {} \/ left))
           /\ sup' = [sup EXCEPT !.at = "loop"] /\ UNCHANGED <<job, faults>>
        \/ /\ ~sup.stopping /\ Fault  \* the members cannot be listed
           /\ sup' = [DarwinEnd("other") EXCEPT !.fault = TRUE]
           /\ job' \in {job, [job EXCEPT !.is = "none"]}
  /\ UNCHANGED <<platform, kind, owner, inp, sent, wrap, tree, disk, rec, proof, starts>>

\* Kill what the coalition lists until it lists nobody; then the registration
\* goes, for a registered job may be started again.
Emptied == Members = {}
\* Who must stop, or could not read the service, tries again.
Retries == sup.stopping \/ sup.code = "other"
NotTornDown == [sup EXCEPT !.at = IF Retries THEN "loop" ELSE "gone",
                           !.code = "other", !.fault = ~Retries]

DarwinKills ==
  /\ sup.at = "killing"
  /\ \/ /\ ~Emptied /\ tree' = Kill(Members) /\ tree' # tree
        /\ UNCHANGED <<sup, job, faults>>
     \/ /\ Emptied /\ ListedNobody
        /\ sup' = [sup EXCEPT !.at = "emptied"] /\ UNCHANGED <<tree, faults>>
     \/ /\ Fault                     \* the rounds are over
        /\ sup' = NotTornDown /\ UNCHANGED <<tree, job>>
  /\ UNCHANGED <<platform, kind, owner, inp, sent, wrap, disk, rec, proof, starts>>

\* bootout_checked: launchd ends the job's own process and forgets the job.  Nobody
\* lists the coalition again: what this process had started meanwhile, and does not
\* end with it, runs on.
BootedOut == /\ job' = [job EXCEPT !.is = "none"]
             /\ tree' = [tree EXCEPT !["helper"] = IF Active THEN "gone" ELSE @]

DarwinBootsOut ==
  /\ sup.at = "emptied"
  /\ \/ BootedOut /\ sup' = [sup EXCEPT !.at = "proven"] /\ UNCHANGED faults
     \/ Fault /\ sup' = NotTornDown /\ UNCHANGED <<tree, job>>
  /\ UNCHANGED <<platform, kind, owner, inp, sent, wrap, disk, rec, proof, starts>>

\* Private files first, the marker last, then the frame.
DarwinProves ==
  /\ \/ /\ sup.at = "proven"
        /\ \/ disk' = disk \ {"env", "status"} /\ sup' = [sup EXCEPT !.at = "cleaning"]
              /\ UNCHANGED faults
           \/ Fault /\ sup' = [DarwinEnd("other") EXCEPT !.fault = TRUE] /\ UNCHANGED disk
        /\ UNCHANGED proof
     \/ /\ sup.at = "cleaning"
        /\ disk' = disk \ Private /\ proof' = Frame /\ sup' = DarwinEnd(sup.code)
        /\ UNCHANGED faults
  /\ UNCHANGED <<platform, kind, owner, inp, sent, wrap, tree, job, rec, starts>>

DarwinDies ==
  /\ sup.at \in {"gated", "new", "authorized", "prepared", "submitting", "loop",
                 "decide", "killing", "emptied", "proven", "cleaning"}
  /\ Fault
  /\ sup' = [DarwinEnd("other") EXCEPT !.fault = TRUE]
  /\ UNCHANGED <<platform, kind, owner, inp, sent, wrap, tree, job, disk, rec, proof, starts>>

--------------------------------------------------------------------------
(* A later runtime: --probe and --terminate *)

\* Mutant: no marker is taken for no members.
MissingEmptyUnmarked == "marker" \notin disk \/ Members = {}
\* Without a directory there never was a job, or its owner removed it having
\* proved the tree empty; a directory without a marker names no coalition.
MissingEmpty == "dir" \notin disk \/ ("marker" \in disk /\ Members = {})

Verdict ==
  IF Registered
  THEN IF Members # {} THEN "alive" ELSE IF job.runs < 1 THEN "unknown" ELSE "exited"
  ELSE IF MissingEmpty THEN "absent" ELSE IF "marker" \in disk THEN "alive" ELSE "unknown"

DarwinProbes ==
  /\ kind = "utility" /\ owner = "gone" /\ sup.at = "gone" /\ proof = "none"
  /\ rec.at \in {"idle", "last"}
  /\ disk' = IF Verdict = "absent" THEN disk \ Private ELSE disk
  /\ rec' = [rec EXCEPT !.at = CASE rec.at = "last" -> "idle"
                                 [] Verdict \in {"alive", "exited"} -> "terminate"
                                 [] OTHER -> "last"]
  /\ proof' = IF rec.at = "last" /\ Verdict = "absent" THEN "recovered" ELSE proof
  /\ UNCHANGED <<platform, kind, owner, inp, sent, wrap, sup, tree, job, starts, faults>>

\* A registered job as above; of one that launchd no longer knows, what the marker
\* names, and nothing can be done for a directory without a marker.
DarwinTerminates ==
  /\ rec.at = "terminate"
  /\ \/ /\ Registered \/ "marker" \in disk
        /\ ~Emptied /\ tree' = Kill(Members) /\ tree' # tree
        /\ UNCHANGED <<job, disk, rec>>
     \/ /\ Registered /\ Emptied /\ ListedNobody
        /\ rec' = [rec EXCEPT !.at = "emptied"] /\ UNCHANGED <<tree, disk>>
     \/ /\ ~Registered /\ MissingEmpty
        /\ disk' = disk \ Private
        /\ rec' = [rec EXCEPT !.at = "last"] /\ UNCHANGED <<tree, job>>
     \/ /\ ~Registered /\ "dir" \in disk /\ "marker" \notin disk
        /\ rec' = NoRec /\ UNCHANGED <<tree, job, disk>>
  /\ UNCHANGED <<platform, kind, owner, inp, sent, wrap, sup, proof, starts, faults>>

DarwinRemoves ==
  /\ rec.at = "emptied"
  /\ \/ /\ BootedOut /\ disk' = disk \ Private
        /\ rec' = [rec EXCEPT !.at = "last"] /\ UNCHANGED faults
     \/ Fault /\ rec' = NoRec /\ UNCHANGED <<tree, job, disk>>
  /\ UNCHANGED <<platform, kind, owner, inp, sent, wrap, sup, proof, starts>>

\* An agent: an absent job is believed only once wrapper, supervisor and the
\* launchctl they left behind are gone, and is then looked up again.
LaunchOver == wrap = "gone" /\ sup.at \in {"off", "gone"} /\ job.boot # "running"

DarwinAgentVerdict ==
  /\ kind = "agent" /\ owner = "gone" /\ proof = "none" /\ "identified" \in disk
  /\ \/ /\ rec.at = "idle" /\ Verdict = "exited"
        /\ proof' = "recovered" /\ UNCHANGED <<disk, rec, tree, job>>
     \/ /\ rec.at = "idle" /\ Verdict = "alive"
        /\ rec' = [rec EXCEPT !.at = "terminate"] /\ UNCHANGED <<disk, proof, tree, job>>
     \/ /\ rec.at = "last" /\ rec' = NoRec /\ UNCHANGED <<disk, proof, tree, job>>
     \/ /\ rec.at = "idle" /\ Verdict = "absent" /\ LaunchOver
        /\ disk' = disk \ Private /\ proof' = "recovered" /\ UNCHANGED <<rec, tree, job>>
  /\ UNCHANGED <<platform, kind, owner, inp, sent, wrap, sup, starts, faults>>

DarwinNext ==
  \/ DarwinAuthorized \/ DarwinPrepares \/ BootstrapEnds \/ DarwinSubmitted
  \/ LaunchdStarts \/ HelperClaims \/ HelperRuns \/ HelperDies
  \/ DarwinReads \/ DarwinCannotRead \/ DarwinDecides \/ DarwinKills \/ DarwinBootsOut
  \/ DarwinProves \/ DarwinDies \/ DarwinProbes \/ DarwinTerminates \/ DarwinRemoves
  \/ DarwinAgentVerdict
=============================================================================
