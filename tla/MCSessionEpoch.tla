--------------------------- MODULE MCSessionEpoch ---------------------------
(***************************************************************************)
(* SessionEpoch for TLC: two providers, two sessions of the first and one  *)
(* of the second.                                                          *)
(***************************************************************************)
EXTENDS SessionEpoch, TLC

CONSTANTS codex, claude, s1, s2, t1

MCProviders == {codex, claude}
MCSessions == {s1, s2, t1}
MCMaker == (s1 :> codex) @@ (s2 :> codex) @@ (t1 :> claude)

SessionSymmetry == Permutations({s1, s2})
=============================================================================
