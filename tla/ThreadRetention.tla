-------------------------- MODULE ThreadRetention --------------------------
(***************************************************************************)
(* What is promised of TaskThreads, under names that do not meet those of  *)
(* the modules it stands beside: MCStores checks it, ArchiveShadowProofs   *)
(* proves it.                                                              *)
(***************************************************************************)
CONSTANTS Tasks, Threads, Window, CallLimit, SweepSize, Calls, MaxClock, MaxEdits
VARIABLES tasks, threads, clock, call, after, edits, hiddenAt

T == INSTANCE TaskThreads WITH Limit <- CallLimit, PageSize <- SweepSize

\* Retention marks only threads that have been hidden for longer than the window,
\* whoever restored and archived what meanwhile, and a call that came to the end
\* of its sweep leaves none of the tasks it owed.
RetentionTrue == T!RetentionTrue

\* A listed task whose last visible thread is archived, moved or deleted leaves
\* the list in the same transaction.
NeverListedEmpty == [][T!LeavesTheList]_(T!vars)
=============================================================================
