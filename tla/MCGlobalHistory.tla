-------------------------- MODULE MCGlobalHistory --------------------------
(* A link that was played in private yesterday, and a title played today. *)
EXTENDS GlobalHistory
CONSTANTS k, m
Played == {[id |-> 1, title |-> k, day |-> 1, private |-> TRUE], [id |-> 2, title |-> m, day |-> 2, private |-> FALSE]}
=============================================================================
