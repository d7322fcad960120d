----------------------------- MODULE PermitPool -----------------------------
(***************************************************************************)
(* What a permit budget promises, whatever it keeps in memory and on disk: *)
(* a tree starts only under a permit, a permit is never taken back from a  *)
(* tree that runs, and no more than Limit permits are out.  A restart of   *)
(* the runtime or of the computer is a step in which trees end and permits *)
(* come back, or nothing at all.                                           *)
(***************************************************************************)
EXTENDS Integers, FiniteSets

CONSTANTS Owners, Limit

VARIABLES charged, live

Init == charged = {} /\ live = {}

Admit(o) ==
    /\ o \notin charged /\ Cardinality(charged) < Limit
    /\ charged' = charged \cup {o}
    /\ UNCHANGED live

Begin(o) ==
    /\ o \in charged \ live
    /\ live' = live \cup {o}
    /\ UNCHANGED charged

EndOrReturn ==
    /\ live' \subseteq live
    /\ charged' \subseteq charged
    /\ live' \subseteq charged'

Next == EndOrReturn \/ \E o \in Owners : Admit(o) \/ Begin(o)

Spec == Init /\ [][Next]_<<charged, live>>
=============================================================================
