----------------------------- MODULE MCTurnWays ------------------------------
(* TurnExecution with its fairness.  `way`, chosen in the initial state, says  *)
(* what a turn meets besides crashes: its deadline or the user's "stop".       *)
EXTENDS TurnExecution

CONSTANTS Ways

VARIABLE way

MCInit == way \in Ways /\ Init

Meets ==
    /\ way = "deadline" => ~row'.cancel
    /\ way = "stop" => clock' = clock

MCNext == way' = way /\ Next /\ Meets

MCSpec == MCInit /\ [][MCNext]_<<vars, way>>

(* The fairness of FairSpec: none of its actions is one that Meets forbids.    *)
MCFairSpec == MCSpec /\ Fairness
=============================================================================
