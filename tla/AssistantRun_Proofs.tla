------------------------- MODULE AssistantRun_Proofs -------------------------
(***************************************************************************)
(* What TLC explores in the run of the assistant is what the theorems are  *)
(* about: whichever part moves, the admission, the cards and the catalog   *)
(* behave as their own specifications say, because the part that moves     *)
(* takes its steps, in the index without telephones, and the others keep   *)
(* still.                                                                  *)
(***************************************************************************)
EXTENDS MCAssistant, TurnAdmission_Proofs, CardsAndCatalog_Proofs

runVars == <<part, admissionVars, cardVars, catalogVars>>

LEMMA StartsOfParts == MCInit => AdmissionInit /\ CardsInit /\ CatalogInit
  BY DEF MCInit

LEMMA StepsOfAdmission == [MCNext]_runVars => [AdmissionNext]_admissionVars
<1>1. CASE UNCHANGED runVars
  BY <1>1 DEF runVars
<1>2. CASE MCNext
  BY <1>2 DEF MCNext
<1> QED
  BY <1>1, <1>2

LEMMA StepsOfCards == [MCNext]_runVars => [CardsNext]_cardVars
<1>1. CASE UNCHANGED runVars
  BY <1>1 DEF runVars
<1>2. CASE MCNext
  BY <1>2 DEF MCNext
<1> QED
  BY <1>1, <1>2

LEMMA StepsOfCatalog == [MCNext]_runVars => [CatalogNext]_catalogVars
<1>1. CASE UNCHANGED runVars
  BY <1>1 DEF runVars
<1>2. CASE MCNext
  <2>1. CASE part \in {"sync", "index"}
    BY <1>2, <2>1 DEF MCNext, CatalogNext
  <2>2. CASE part \notin {"sync", "index"}
    BY <1>2, <2>2 DEF MCNext
  <2> QED
    BY <2>1, <2>2
<1> QED
  BY <1>1, <1>2

(* The run of the assistant explores behaviours of its three components, for   *)
(* any values of their constants (agent-turns.service.ts,                      *)
(* agent-proposals.service.ts, catalog-sync.service.ts,                        *)
(* agent-catalog.service.ts).                                                  *)
THEOREM AssistantParts == MCSpec => AdmissionSpec /\ CardsSpec /\ CatalogSpec
<1> QED
  BY StartsOfParts, StepsOfAdmission, StepsOfCards, StepsOfCatalog, PTL
     DEF MCSpec, AdmissionSpec, CardsSpec, CatalogSpec, runVars

(* The types of all three components, whichever of them moves.                 *)
THEOREM AssistantTypes == MCSpec => []TypesOK
<1>1. AdmissionTypeOK /\ ProposalsTypeOK /\ CatalogTypeOK => TypesOK
  BY DEF TypesOK
<1> QED
  BY <1>1, AssistantParts, AdmissionTypes, ProposalsTypes, CatalogTypesHold, PTL
=============================================================================
