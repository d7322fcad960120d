-------------------------- MODULE WindowsSupervisor --------------------------
(***************************************************************************)
(* The Windows supervisor (agent-supervisor-windows.c): the tree lives in  *)
(* a Job Object that only this supervisor created, every member dies when  *)
(* the job's last handle closes, and the name of a job is gone before its  *)
(* members are.  A utility's supervisor writes a marker and then the frame *)
(* once the kernel has reported zero members.                              *)
(***************************************************************************)
EXTENDS OwnedProcess

WindowsAt == {"new", "ready", "authorized", "suspended", "assigned", "run",
              "emptying", "proven", "marked"}

\* The job a handle of this supervisor, or of another reader, keeps open.
JobEmpty == Members = {}

WindowsEnd(code) == [sup EXCEPT !.at = "gone", !.code = code]

\* The supervisor's exit closes its handle: the members are killed, later.
Closes(ps) ==
  /\ tree' = [p \in Procs |-> IF tree[p] = "suspended" THEN "gone" ELSE Kill(ps)[p]]
  /\ job' = [job EXCEPT !.is = "closed"]

\* Somebody else's job of that name proves nothing; no job at all means
\* nothing was launched.
WindowsCreatesJob ==
  /\ sup.at = "new"
  /\ \/ /\ job' = [job EXCEPT !.is = "open"]
        /\ sup' = [sup EXCEPT !.at = IF kind = "utility" THEN "ready" ELSE "authorized"]
        /\ UNCHANGED faults
     \/ /\ Fault /\ kind = "utility"
        /\ sup' = [sup EXCEPT !.at = "proven", !.code = "other"]
        /\ UNCHANGED job
     \/ /\ Fault
        /\ sup' = WindowsEnd("other")
        /\ UNCHANGED job
  /\ UNCHANGED <<platform, kind, owner, inp, sent, wrap, tree, disk, rec, proof, starts>>

\* A utility waits for "go"; anything else ends it before a launch.
WindowsReads ==
  /\ sup.at = "ready"
  /\ \/ "go" \in inp /\ inp' = inp \ {"go"} /\ sup' = [sup EXCEPT !.at = "authorized"]
     \/ /\ "go" \notin inp /\ ("stop" \in inp \/ owner = "gone")
        /\ inp' = {} /\ sup' = [sup EXCEPT !.at = "proven", !.code = "zero"]
  /\ UNCHANGED <<platform, kind, owner, sent, wrap, tree, job, disk, rec, proof, starts, faults>>

\* Created suspended, joined to the job, and only then resumed.
WindowsLaunches ==
  /\ \/ /\ sup.at = "authorized"
        /\ sup' = [sup EXCEPT !.at = "suspended"]
        /\ tree' = [tree EXCEPT !["command"] = "suspended"] /\ UNCHANGED starts
     \/ /\ sup.at = "suspended"
        /\ sup' = [sup EXCEPT !.at = "assigned"] /\ UNCHANGED <<tree, starts>>
     \/ /\ sup.at = "assigned"
        /\ sup' = [sup EXCEPT !.at = "run"]
        /\ tree' = [tree EXCEPT !["command"] = "run"] /\ starts' = starts + 1
  /\ UNCHANGED <<platform, kind, owner, inp, sent, wrap, job, disk, rec, proof, faults>>

\* A launch that fails is proved by the job it never filled; one that cannot
\* be watched is abandoned through its job.
WindowsLaunchFails ==
  /\ sup.at \in {"authorized", "suspended", "assigned", "run"} /\ Fault
  /\ tree' = [p \in Procs |-> IF tree[p] = "suspended" THEN "gone" ELSE Kill(Members)[p]]
  /\ sup' = [sup EXCEPT !.at = "emptying", !.code = "other"]
  /\ UNCHANGED <<platform, kind, owner, inp, sent, wrap, job, disk, rec, proof, starts>>

\* The watching thread: any input, or the end of the writer, ends the job.
WindowsStops ==
  /\ sup.at = "run" /\ ~sup.stopping
  /\ \/ kind = "utility" /\ "stop" \in inp
     \/ Wrapped /\ sup.asked
     \/ ParentGone
  /\ inp' = inp \ {"stop"}
  /\ sup' = [sup EXCEPT !.stopping = TRUE]
  /\ tree' = Kill(Members)
  /\ UNCHANGED <<platform, kind, owner, sent, wrap, job, disk, rec, proof, starts, faults>>

\* The command exited: a utility's job is ended with it, an agent's is waited
\* for.
WindowsCommandExits ==
  /\ sup.at = "run" /\ ~Alive("command")
  /\ \/ sup' = [sup EXCEPT !.at = "emptying", !.code = IF sup.stopping THEN "other" ELSE "zero"]
     \/ ~sup.stopping /\ sup' = [sup EXCEPT !.at = "emptying", !.code = "other"]
  /\ tree' = IF kind = "utility" THEN Kill(Members) ELSE tree
  /\ UNCHANGED <<platform, kind, owner, inp, sent, wrap, job, disk, rec, proof, starts, faults>>

WindowsStopsLate ==
  /\ sup.at = "emptying" /\ ~sup.stopping
  /\ Wrapped /\ (sup.asked \/ ParentGone)
  /\ sup' = [sup EXCEPT !.stopping = TRUE]
  /\ tree' = Kill(Members)
  /\ UNCHANGED <<platform, kind, owner, inp, sent, wrap, job, disk, rec, proof, starts, faults>>

WindowsEmpty ==
  /\ sup.at = "emptying" /\ JobEmpty
  /\ IF kind = "utility"
     THEN sup' = [sup EXCEPT !.at = "proven"] /\ UNCHANGED job
     ELSE sup' = WindowsEnd(sup.code) /\ job' = [job EXCEPT !.is = "closed"]
  /\ UNCHANGED <<platform, kind, owner, inp, sent, wrap, tree, disk, rec, proof, starts, faults>>

\* The marker first, which may fail, then the frame and the exit.
WindowsProves ==
  /\ \/ /\ sup.at = "proven"
        /\ sup' = [sup EXCEPT !.at = "marked"]
        /\ \/ disk' = disk \cup {"marker"} /\ UNCHANGED faults
           \/ Fault /\ UNCHANGED disk
        /\ UNCHANGED <<proof, job>>
     \/ /\ sup.at = "marked"
        /\ proof' = Frame /\ sup' = WindowsEnd(sup.code)
        /\ job' = [job EXCEPT !.is = IF @ = "open" THEN "closed" ELSE @]
        /\ UNCHANGED <<disk, faults>>
  /\ UNCHANGED <<platform, kind, owner, inp, sent, wrap, tree, rec, starts>>

\* A query that fails, or death: the handle closes and takes the members with
\* it, unless another reader still holds the job open.
WindowsDies ==
  /\ sup.at \in WindowsAt /\ Fault
  /\ sup' = [WindowsEnd("other") EXCEPT !.fault = TRUE]
  /\ \/ Closes(Members)
     \/ /\ job.is = "open" /\ job' = [job EXCEPT !.is = "held"]
        /\ tree' = [p \in Procs |-> IF tree[p] = "suspended" THEN "gone" ELSE tree[p]]
  /\ UNCHANGED <<platform, kind, owner, inp, sent, wrap, disk, rec, proof, starts>>

JobLetGo ==
  /\ job.is = "held" /\ job' = [job EXCEPT !.is = "closed"] /\ tree' = Kill(Members)
  /\ UNCHANGED <<platform, kind, owner, inp, sent, wrap, sup, disk, rec, proof, starts, faults>>

--------------------------------------------------------------------------
(* A later runtime *)

\* Mutant: an absent name is enough.
MarkerAssumed == TRUE
\* An absent name proves nothing by itself: only the marker does.
MarkerMatches == "marker" \in disk

\* The probe opens the job by its name and asks for its members.
FoundAlive == job.is = "held" /\ ~JobEmpty
FoundEmpty == job.is = "held" /\ JobEmpty

\* Probe, terminate what is alive, probe again.
WindowsRecovers ==
  /\ kind = "utility" /\ owner = "gone" /\ sup.at = "gone" /\ proof = "none"
  /\ \/ /\ rec.at = "idle"
        /\ IF FoundAlive
           THEN rec' = [rec EXCEPT !.at = "terminate"]
           ELSE rec' = [rec EXCEPT !.at = "wait"]
        /\ UNCHANGED <<tree, proof>>
     \/ /\ rec.at = "terminate"
        /\ rec' = [rec EXCEPT !.at = "wait"]
        /\ tree' = IF job.is = "held" THEN Kill(Members) ELSE tree
        /\ UNCHANGED proof
     \/ /\ rec.at = "wait"
        /\ rec' = NoRec
        /\ proof' = IF \/ FoundEmpty
                       \/ job.is # "held" /\ MarkerMatches
                    THEN "recovered" ELSE proof
        /\ UNCHANGED tree
  /\ UNCHANGED <<platform, kind, owner, inp, sent, wrap, sup, job, disk, starts, faults>>

\* An agent's tree is gone only by the wrapper's completed handshake.
WindowsAgentVerdict ==
  /\ kind = "agent" /\ owner = "gone" /\ proof = "none" /\ "completed" \in disk
  /\ proof' = "recovered"
  /\ UNCHANGED <<platform, kind, owner, inp, sent, wrap, sup, tree, job, disk, rec,
                 starts, faults>>

WindowsNext ==
  \/ WindowsCreatesJob \/ WindowsReads \/ WindowsLaunches \/ WindowsLaunchFails
  \/ WindowsStops \/ WindowsCommandExits \/ WindowsStopsLate \/ WindowsEmpty
  \/ WindowsProves \/ WindowsDies \/ JobLetGo \/ WindowsRecovers \/ WindowsAgentVerdict
=============================================================================
