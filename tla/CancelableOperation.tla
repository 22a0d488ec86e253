------------------------ MODULE CancelableOperation ------------------------
(***************************************************************************)
(* What the user of a long operation is promised: at most one is under     *)
(* way, each has exactly one outcome, a cancellation that was accepted is  *)
(* that outcome, and nothing is ever canceled that nobody canceled.        *)
(***************************************************************************)

VARIABLES
    busy,     \* an operation is under way
    asked,    \* the cancellation of the last operation was accepted
    outcome   \* of the last operation, "none" before it ends

vars == <<busy, asked, outcome>>

Init == ~busy /\ ~asked /\ outcome = "none"

Start == ~busy /\ busy' /\ ~asked' /\ outcome' = "none"

\* An operation that is refused has its outcome at once.
Refuse == ~busy /\ ~busy' /\ ~asked' /\ outcome' = "failed"

\* Cancellation is accepted; the operation ends with it or later.
Cancel ==
    /\ busy /\ ~asked /\ asked'
    /\ \/ busy' /\ UNCHANGED outcome
       \/ ~busy' /\ outcome' = "canceled"

End ==
    /\ busy /\ ~busy' /\ UNCHANGED asked
    /\ IF asked THEN outcome' = "canceled" ELSE outcome' \in {"done", "failed"}

Next == Start \/ Refuse \/ Cancel \/ End

Spec == Init /\ [][Next]_vars
=============================================================================
