----------------------------- MODULE MCAssistant -----------------------------
(* What surrounds a turn of the assistant, for TLC: its admission, the cards  *)
(* it leaves behind and the catalog it reads.  They share nothing in these    *)
(* modules, so one run looks at one of them at a time: `part`, chosen in the   *)
(* initial state, says which of them moves.  What is sent matters to the        *)
(* admission only.                                                            *)
EXTENDS TurnAdmission, PlanProposals, CatalogSync, TLC

VARIABLE part

CONSTANTS r1, r2, r3, m1, m2, m3, m4, m5, c1, c2, c3, c4, h1, h2, h3, k1, k2, w1, w2

SendingWays == {r1 :> m1 @@ r2 :> m1 @@ r3 :> m2,
                r1 :> m1 @@ r2 :> m2 @@ r3 :> m3,
                r1 :> m1 @@ r2 :> m3 @@ r3 :> m4,
                r1 :> m4 @@ r2 :> m5 @@ r3 :> m1}
Chats == m1 :> c1 @@ m2 :> c1 @@ m3 :> c2 @@ m4 :> c3 @@ m5 :> c4
Houses == c1 :> h1 @@ c2 :> h1 @@ c3 :> h2 @@ c4 :> h3

Symmetry == Permutations({k1, k2}) \union Permutations({w1, w2})

MCInit ==
    /\ part \in {"admission", "cards", "sync", "index"}
    /\ AdmissionInit /\ CardsInit /\ CatalogInit
    /\ part # "admission" => Mine(r2) = m2

MCNext ==
    /\ part' = part
    /\ \/ part = "admission" /\ AdmissionNext /\ UNCHANGED <<cardVars, catalogVars>>
       \/ part = "cards" /\ CardsNext /\ UNCHANGED <<admissionVars, catalogVars>>
       \/ /\ part = "sync"
          /\ WriterStep \/ ClientStep
          /\ UNCHANGED <<admissionVars, cardVars>>
       \/ /\ part = "index"
          /\ WriterStep \/ AskerStep
          /\ \A v, w \in Writers : txn'[v] # NoTxn /\ txn'[w] # NoTxn => v = w
          /\ UNCHANGED <<epoch, minRev>>
          /\ UNCHANGED <<admissionVars, cardVars>>

MCSpec == MCInit /\ [][MCNext]_<<part, admissionVars, cardVars, catalogVars>>

(* The variables of each part keep to their types, evaluated where it moves.  *)
TypesOK ==
    /\ part = "admission" => AdmissionTypeOK
    /\ part = "cards" => ProposalsTypeOK
    /\ part \in {"sync", "index"} => CatalogTypeOK
=============================================================================
