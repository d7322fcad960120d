----------------------------- MODULE RunLedger -----------------------------
(***************************************************************************)
(* What a user is promised about a run, whatever the runtime keeps in      *)
(* memory, in SQLite and in its launch directory: a run that was accepted  *)
(* is open until its outcome is durable; an outcome, once durable, is      *)
(* final; a run cut off by the death of the runtime goes to review, where  *)
(* one decision settles it or replaces it by exactly one new run; and new  *)
(* work in a worktree waits for every review there.                        *)
(***************************************************************************)
EXTENDS Integers

CONSTANTS Runs, Worktrees

VARIABLES
    entry,  \* [Runs -> "absent", "open", "review", "replaced" or an outcome]
    place   \* [Runs -> Worktrees], meaningful for a run that is not absent

Init == /\ entry = [r \in Runs |-> "absent"]
        /\ place \in [Runs -> Worktrees]

InReview(w) == {r \in Runs : entry[r] = "review" /\ place[r] = w}

Accept(r, w) ==
    /\ entry[r] = "absent" /\ InReview(w) = {}
    /\ entry' = [entry EXCEPT ![r] = "open"]
    /\ place' = [place EXCEPT ![r] = w]

Settle(r) ==
    /\ entry[r] = "open"
    /\ \E o \in {"completed", "failed", "stopped"} :
         entry' = [entry EXCEPT ![r] = o]
    /\ UNCHANGED place

Interrupt(r) ==
    /\ entry[r] = "open"
    /\ entry' = [entry EXCEPT ![r] = "review"]
    /\ UNCHANGED place

Discard(r) ==
    /\ entry[r] = "review"
    /\ entry' = [entry EXCEPT ![r] = "failed"]
    /\ UNCHANGED place

\* The oldest run in review is replaced by a new run in its worktree.
Replace(r, new) ==
    /\ entry[r] = "review" /\ entry[new] = "absent"
    /\ \A i \in InReview(place[r]) : r <= i
    /\ entry' = [i \in Runs |-> IF i = r THEN "replaced"
                                ELSE IF i = new THEN "open" ELSE entry[i]]
    /\ place' = [place EXCEPT ![new] = place[r]]

Next == \E r \in Runs :
          \/ \E w \in Worktrees : Accept(r, w)
          \/ Settle(r) \/ Interrupt(r) \/ Discard(r)
          \/ \E new \in Runs : Replace(r, new)

Spec == Init /\ [][Next]_<<entry, place>>
=============================================================================
