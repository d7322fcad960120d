------------------------------ MODULE MCStores ------------------------------
(***************************************************************************)
(* What a runtime stores for later, for TLC: the audit log, the saved      *)
(* terminal output, a database of an older version, and the tasks with     *)
(* their threads.  They share nothing here, so that a behaviour is about   *)
(* one of them.                                                            *)
(***************************************************************************)
EXTENDS Integers, Sequences, FiniteSets, ThreadRetention, TLC

CONSTANTS Targets, Limit, PageSize, Pages, ScanPage, Batch, MaxPending, MaxRows, MaxRuns, MaxFaults,
          Ids, SegmentLimit, TotalLimit, MaxUnits, MaxHistoryRuns,
          TablePage, MaxItems, Headroom, MaxTableRows, MaxWrites

VARIABLES about,
          db, scan, cache, fenced, tick, up, live, cleaning, told, run, faults,
          files, ent, residue, total, writable, trusted, open, todo,
          attached, past, owner, warning, printed, missed, gone, mixed, used, slips, turn,
          store, jobs, usage, version, at, refused, writes, stops

audit == <<db, scan, cache, fenced, tick, up, live, cleaning, told, run, faults>>
history == <<files, ent, residue, total, writable, trusted, open, todo,
             attached, past, owner, warning, printed, missed, gone, mixed, used, slips, turn>>
upgrade == <<store, jobs, usage, version, at, refused, writes, stops>>
threading == <<tasks, threads, clock, call, after, edits, hiddenAt>>
vars == <<about, audit, history, upgrade, threading>>

OldRow(i, action, t, op) == [id |-> i, action |-> action, target |-> t, op |-> op]
MCLegacy ==
  { <<>>,
    << OldRow(1, "create.requested", "t", 1), OldRow(2, "created", "t", 1),
       OldRow(3, "cleanup.requested", "none", 3), OldRow(4, "cleanup.requested", "none", 4) >>,
    << OldRow(1, "create.requested", "t", 1), OldRow(2, "created", "t", 1), OldRow(3, "exited", "t", 0) >> }

Conv(a) == [deleting |-> FALSE, archived |-> a, updated |-> 0]
Unnumbered(c) == [conv |-> c, ordered |-> FALSE]
Numbered(c) == [conv |-> c, ordered |-> TRUE]
Run(c, s, p) == [conv |-> c, status |-> s, path |-> p]
Event(r, n) == [run |-> r, seq |-> n]
OldStore(v, cap, cs, ms, rs, es) ==
  [version |-> v, cap |-> cap, convs |-> cs, msgs |-> ms, runs |-> rs, events |-> es, kept |-> <<>>]
MCOldStores ==
  { OldStore(0, 11, <<Conv(TRUE), Conv(FALSE)>>, <<Unnumbered(1)>>,
             <<Run(1, "settled", FALSE), Run(2, "settled", TRUE)>>,
             <<Event(1, 1), Event(2, 1), Event(1, 2), Event(1, 3)>>),
    OldStore(0, 30, <<Conv(TRUE)>>, <<Unnumbered(1), Unnumbered(1)>>,
             <<Run(1, "active", TRUE)>>, <<Event(1, 1), Event(1, 2), Event(1, 3)>>),
    OldStore(1, 40, <<Conv(TRUE), Conv(FALSE), Conv(TRUE)>>, <<Unnumbered(3), Unnumbered(1), Unnumbered(2)>>,
             <<Run(3, "settled", FALSE), Run(2, "active", TRUE)>>, <<>>),
    OldStore(3, 7, <<Conv(TRUE), Conv(TRUE), Conv(FALSE)>>, <<Numbered(1), Numbered(2), Numbered(3)>>,
             <<Run(3, "active", TRUE)>>, <<>>) }

ASSUME MCBounds ==
  /\ {Limit, PageSize, Pages, ScanPage, Batch, MaxPending, TotalLimit, TablePage, MaxItems, Headroom,
      CallLimit, SweepSize} \subseteq Nat \ {0}
  /\ SegmentLimit \in Nat \ {0, 1}
  /\ {MaxRows, MaxRuns, MaxFaults, MaxUnits, MaxHistoryRuns, MaxTableRows, MaxWrites,
      Window, MaxClock, MaxEdits} \cup Tasks \cup Threads \subseteq Nat

A == INSTANCE AuditTrail WITH Legacy <- MCLegacy
H == INSTANCE TerminalHistory WITH MaxRuns <- MaxHistoryRuns, up <- open, faults <- slips, run <- turn
U == INSTANCE StoreMigration WITH db <- store, faults <- stops, Stores <- MCOldStores, PageSize <- TablePage, MaxRows <- MaxTableRows

\* A second thread costs one of the edits.
EditsLeft == Cardinality(DOMAIN hiddenAt') + edits' <= MaxEdits + 1

\* And a second terminal one of the pieces of output.
PiecesLeft == Cardinality({id \in Ids : owner'[id] # "none"}) + used' <= MaxUnits + 1

\* A record no behaviour is about stays as it is.
IdleAudit ==
  /\ db = 0 /\ scan = 0 /\ cache = 0 /\ fenced = 0 /\ tick = 0 /\ up = 0
  /\ live = 0 /\ cleaning = 0 /\ told = 0 /\ run = 0 /\ faults = 0
IdleHistory ==
  /\ files = 0 /\ ent = 0 /\ residue = 0 /\ total = 0 /\ writable = 0 /\ trusted = 0
  /\ open = 0 /\ todo = 0 /\ attached = 0 /\ past = 0 /\ owner = 0 /\ warning = 0
  /\ printed = 0 /\ missed = 0 /\ gone = 0 /\ mixed = 0 /\ used = 0 /\ slips = 0 /\ turn = 0
IdleUpgrade ==
  /\ store = 0 /\ jobs = 0 /\ usage = 0 /\ version = 0 /\ at = 0 /\ refused = 0
  /\ writes = 0 /\ stops = 0

Init ==
  \/ about = "audit" /\ A!Init /\ IdleHistory /\ IdleUpgrade /\ T!Init
  \/ about = "history" /\ H!Init /\ IdleAudit /\ IdleUpgrade /\ T!Init
  \/ about = "upgrade" /\ U!Init /\ IdleAudit /\ IdleHistory /\ T!Init
  \/ about = "threads" /\ T!Init /\ IdleAudit /\ IdleHistory /\ IdleUpgrade

Next ==
  \/ about = "audit" /\ A!Next /\ UNCHANGED <<about, history, upgrade, threading>>
  \/ about = "history" /\ H!Next /\ PiecesLeft /\ UNCHANGED <<about, audit, upgrade, threading>>
  \/ about = "upgrade" /\ U!Next /\ UNCHANGED <<about, audit, history, threading>>
  \/ about = "threads" /\ T!Next /\ EditsLeft /\ UNCHANGED <<about, audit, history, upgrade>>

Spec == Init /\ [][Next]_vars

NameSymmetry == Permutations(Ids) \cup Permutations(Calls)

\* The audit log keeps what its reader needs (AuditTrail).
TrailKept == about = "audit" => A!TrailKept

\* A start-up scan of the audit log ends with everything settled (AuditTrail).
ScanSettles == [][about = "audit" => A!Settled]_vars

\* The terminal history serves what was printed, in order, but for what a warning
\* excused, and stays within its limits (TerminalHistory).
HistoryTrue == about = "history" => H!ServedIsPrinted /\ H!WithinCaps

\* An ended session is never left in part (TerminalHistory).
EndedIsWhole == [][about = "history" => H!EndsWhole]_vars

\* What the upgrade built is what the tables say; the byte counter is true and
\* refuses no page that copies rows (StoreMigration).
UpgradeTrue == about = "upgrade" => U!UpgradeTrue /\ U!QuotaTrue
=============================================================================
