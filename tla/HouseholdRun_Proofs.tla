------------------------- MODULE HouseholdRun_Proofs -------------------------
(***************************************************************************)
(* What TLC explores in the run of the household is what the theorems are  *)
(* about: whichever part moves, each component behaves as its own          *)
(* specification says, because the part that moves takes its steps and the *)
(* others keep still.                                                      *)
(***************************************************************************)
EXTENDS MCHousehold, HomesAndCooking_Proofs, PlanAndList_Proofs

runVars == <<part, homeVars, planVars, listVars, cookVars>>

LEMMA StartsOfParts == MCInit => HomeInit /\ PlanInit /\ ListInit /\ CookInit
  BY DEF MCInit

LEMMA StepsOfHomes == [MCNext]_runVars => [HomeNext]_homeVars
<1>1. CASE UNCHANGED runVars
  BY <1>1 DEF runVars
<1>2. CASE MCNext
  <2>1. CASE part \in {"homes", "sockets"}
    BY <1>2, <2>1 DEF MCNext, HomeNext
  <2>2. CASE part \notin {"homes", "sockets"}
    BY <1>2, <2>2 DEF MCNext
  <2> QED
    BY <2>1, <2>2
<1> QED
  BY <1>1, <1>2

LEMMA StepsOfWeek == [MCNext]_runVars => [PlanNext]_planVars
<1>1. CASE UNCHANGED runVars
  BY <1>1 DEF runVars
<1>2. CASE MCNext
  <2>1. CASE part \in {"week", "three"}
    BY <1>2, <2>1, RunAssumption DEF MCNext, PlanNext
  <2>2. CASE part \notin {"week", "three"}
    BY <1>2, <2>2 DEF MCNext
  <2> QED
    BY <2>1, <2>2
<1> QED
  BY <1>1, <1>2

LEMMA StepsOfList == [MCNext]_runVars => [ListNext]_listVars
<1>1. CASE UNCHANGED runVars
  BY <1>1 DEF runVars
<1>2. CASE MCNext
  BY <1>2 DEF MCNext
<1> QED
  BY <1>1, <1>2

LEMMA StepsOfCooking == [MCNext]_runVars => [CookNext]_cookVars
<1>1. CASE UNCHANGED runVars
  BY <1>1 DEF runVars
<1>2. CASE MCNext
  <2>1. CASE part \in {"cooking", "writing"}
    BY <1>2, <2>1 DEF MCNext, CookNext
  <2>2. CASE part \notin {"cooking", "writing"}
    BY <1>2, <2>2 DEF MCNext
  <2> QED
    BY <2>1, <2>2
<1> QED
  BY <1>1, <1>2

(* The run of the household explores behaviours of its four components, for    *)
(* any values of their constants (households.service.ts,                       *)
(* weekly-plans.service.ts, shopping-list.service.ts,                          *)
(* cook-scenarios.service.ts).                                                 *)
THEOREM HouseholdParts == MCSpec => HomeSpec /\ PlanSpec /\ ListSpec /\ CookSpec
<1> QED
  BY StartsOfParts, StepsOfHomes, StepsOfWeek, StepsOfList, StepsOfCooking, PTL
     DEF MCSpec, HomeSpec, PlanSpec, ListSpec, CookSpec, runVars

(* The types of all four components, whichever of them moves.                  *)
THEOREM HouseholdTypes == MCSpec => []TypesOK
<1>1. HomeTypeOK /\ PlanTypeOK /\ ListTypeOK /\ CookTypeOK => TypesOK
  BY DEF TypesOK
<1> QED
  BY <1>1, HouseholdParts, HomeTypes, PlanTypes, ListTypes, CookTypes, PTL
=============================================================================
