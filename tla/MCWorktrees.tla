---------------------------- MODULE MCWorktrees ----------------------------
(***************************************************************************)
(* One instance for two questions.  A behaviour is either about the steps  *)
(* of set-up and teardown, without restores, or about restores beside one  *)
(* attempt in a worktree whose set-up was trusted before.  The bounds of   *)
(* the other half are 0 or 1 in each; the constants are those of both.     *)
(***************************************************************************)
EXTENDS Worktrees

VARIABLE about

OfSteps ==
  /\ taken' = 0 /\ restores' = 0 /\ writes' = 0
  /\ claims' + edits' <= 3
OfRestores ==
  /\ claims' <= 1 /\ attempts' <= 1 /\ edits' = 0 /\ faults' = 0
  /\ claims' + writes' + runs' <= 2
  /\ entry'.ack <= 1
  /\ entry'.phase = "teardown" => entry'.skip

MCInit == /\ Init
          /\ about \in {"steps", "restores"}
          /\ about = "restores" => config # NoConfig /\ trusted = Configs

MCNext == /\ Next /\ UNCHANGED about
          /\ IF about = "steps" THEN OfSteps ELSE OfRestores

MCSpec == MCInit /\ [][MCNext]_<<vars, about>>
=============================================================================
