---------------------------- MODULE TurnContract ----------------------------
(***************************************************************************)
(* What an accepted assistant turn promises to the user and to the quota:  *)
(* it ends once, as DONE with its answer or as FAILED without one; its     *)
(* effects only accumulate, and only while it runs; the message it was     *)
(* charged comes back only while nothing was spent on it, and is charged   *)
(* again as soon as something was.                                         *)
(***************************************************************************)
EXTENDS Naturals

CONSTANT Effects

VARIABLES status, answered, effects, charged, cost

cvars == <<status, answered, effects, charged, cost>>

Init ==
  /\ status = "RUNNING"
  /\ answered = FALSE
  /\ effects = {}
  /\ charged = TRUE
  /\ cost = 0

AddEffect ==
  /\ status = "RUNNING"
  /\ \E e \in Effects \ effects : effects' = effects \cup {e}
  /\ UNCHANGED <<status, answered, charged, cost>>

Spend ==
  /\ cost' = cost + 1
  /\ charged' = TRUE
  /\ UNCHANGED <<status, answered, effects>>

\* The message may come back with the end of the turn, if it cost nothing.
MayGiveBack == charged' \in {charged, cost # 0}

Finish ==
  /\ status = "RUNNING"
  /\ \/ status' = "DONE" /\ answered' = TRUE
     \/ status' = "FAILED" /\ UNCHANGED answered
  /\ MayGiveBack
  /\ UNCHANGED <<effects, cost>>

GiveBack ==
  /\ status = "FAILED"
  /\ cost = 0
  /\ charged' = FALSE
  /\ UNCHANGED <<status, answered, effects, cost>>

Next == AddEffect \/ Spend \/ Finish \/ GiveBack

Spec == Init /\ [][Next]_cvars
=============================================================================
