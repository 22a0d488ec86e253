---------------------------- MODULE MCRepository ----------------------------
(***************************************************************************)
(* The two flows that live in the session repository: the saved services   *)
(* with their sessions and cards (ServiceCards), and the playback history  *)
(* (GlobalHistory, which keeps the little it needs of a service itself).   *)
(* A behaviour is one of them, as "part" says, and the other one rests.    *)
(* The history begins with a link that was played in private yesterday,    *)
(* and a title that was played today.                                      *)
(***************************************************************************)
EXTENDS GlobalHistory, ServiceCards

CONSTANTS k, m, server, dav

VARIABLE part

Played == {[id |-> 1, title |-> k, day |-> 1, private |-> TRUE], [id |-> 2, title |-> m, day |-> 2, private |-> FALSE]}
SavedServices == <<server, dav>>

ASSUME ServicesAssumption == StoreAssumption

\* The references of the keyring are interchangeable, and the properties are about safety only.
RefSymmetry == Permutations(Ref)

allVars == <<part, vars, cardsVars>>

PartsInit ==
    /\ part \in {"history", "services"}
    /\ Init /\ CardsInit
    /\ part = "history" => private = {} /\ \A service \in Service : session[service] = NoRef

PartsNext ==
    \/ part = "history" /\ Next /\ UNCHANGED <<part, cardsVars>>
    \/ part = "services" /\ CardsNext /\ UNCHANGED <<part, vars>>

PartsSpec == PartsInit /\ [][PartsNext]_allVars
=============================================================================
