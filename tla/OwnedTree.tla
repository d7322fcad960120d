------------------------------ MODULE OwnedTree ------------------------------
(***************************************************************************)
(* What every native supervisor promises about the tree of processes it    *)
(* owns, on each platform and for whoever launched it: the command is      *)
(* started at most once, never after the tree was declared gone, and the   *)
(* tree is declared gone only when none of it runs - unless what runs was  *)
(* started where no supervisor could see it any more ("unseen").           *)
(***************************************************************************)
VARIABLES starts, live, unseen, proved

vars == <<starts, live, unseen, proved>>

Init == starts = 0 /\ ~live /\ ~unseen /\ ~proved

\* Whether a supervisor can still see it is settled when it starts.
Start == /\ starts = 0 /\ ~proved
         /\ starts' = 1 /\ live' /\ unseen' \in BOOLEAN /\ UNCHANGED proved

End == live /\ ~live' /\ ~unseen' /\ UNCHANGED <<starts, proved>>

Prove == (live => unseen) /\ ~proved /\ proved' /\ UNCHANGED <<starts, live, unseen>>

Next == Start \/ End \/ Prove

Spec == Init /\ [][Next]_vars
=============================================================================
