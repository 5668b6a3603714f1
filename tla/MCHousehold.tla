----------------------------- MODULE MCHousehold -----------------------------
(* The household, its week, its shopping list and the cooking scenario of a    *)
(* recipe for TLC.  They share nothing in these modules, so one run looks at   *)
(* one of them at a time: `part`, chosen                                       *)
(* in the initial state, says which of them moves.  In "sockets" one request   *)
(* at a time meets a socket, and households are created; in "homes" there are  *)
(* two requests and no socket.  In "week" the household is two people with    *)
(* their phones, in "three" it is three of which one uses a phone.             *)
(* In "cooking" people, the loader and the import publish over a version on    *)
(* the telephones and the amounts of the recipe change, the name of the recipe *)
(* and of the file of the loader do not; in "writing" the writing system works *)
(* on a recipe whose last result was rejected.                                 *)
EXTENDS Households, WeekPlan, ShoppingList, CookScenarios, TLC

VARIABLE part

CONSTANTS a, b, c, h1, h2, k1, k2, s1, p1, m1, m2

ASSUME RunAssumption == {a, b, c} \subseteq Persons

Holder == s1 :> c
Roles == a :> (h1 :> "OWNER" @@ h2 :> "none")
         @@ b :> (h1 :> "OWNER" @@ h2 :> "none")
         @@ c :> (h1 :> "none" @@ h2 :> "OWNER")
FirstHouses == {{a, b}, {a, b, c}}
OneOfEach == p1 :> 1
SameProduct == m1 :> p1 @@ m2 :> p1

Today == [amount |-> 1, name |-> 1]
OldRow(status, shown) ==
    [status |-> status, amount |-> 1, input |-> Today, text |-> [made |-> Today, draft |-> 1],
     by |-> "writer", job |-> None, shown |-> shown, withdrawn |-> FALSE]
RejectedOnly == <<OldRow("REJECTED", FALSE)>>
RejectedThenPublished == <<OldRow("REJECTED", FALSE), OldRow("PUBLISHED", TRUE)>>
Histories == {RejectedOnly, RejectedThenPublished}

Symmetry == Permutations({a, b}) \union Permutations({k1, k2})

MCInit ==
    /\ part \in {"homes", "sockets", "week", "three", "list", "cooking", "writing"}
    /\ HomeInit /\ PlanInit /\ ListInit /\ CookInit
    /\ rows = IF part = "cooking" THEN RejectedThenPublished ELSE RejectedOnly
    /\ roster = IF part = "three" THEN {a, b, c} ELSE {a, b}

MCNext ==
    /\ part' = part
    /\ \/ /\ part = "homes"
          /\ \/ \E k \in Calls : CallNext(k) /\ call'[k].op # "create"
             \/ \E i \in Links : Decline(i)
          /\ UNCHANGED <<planVars, listVars, cookVars>>
       \/ /\ part = "sockets"
          /\ \/ \E k \in Calls : (\A j \in Calls \ {k} : call[j] = NoCall) /\ CallNext(k)
             \/ \E i \in Links : Decline(i)
             \/ \E s \in Sockets : SocketNext(s)
          /\ UNCHANGED <<planVars, listVars, cookVars>>
       \/ /\ part = "week"
          /\ \E u \in {a, b} : PhoneNext(u) \/ RosterNext(u)
          /\ UNCHANGED <<homeVars, listVars, cookVars>>
       \/ /\ part = "three"
          /\ PhoneNext(c) \/ \E u \in Persons : RosterNext(u)
          /\ UNCHANGED <<homeVars, listVars, cookVars>>
       \/ part = "list" /\ ListNext /\ UNCHANGED <<homeVars, planVars, cookVars>>
       \/ /\ part = "cooking"
          /\ \/ RecipeNext \/ Rollback \/ LoaderNext \/ ImportNext \/ WithdrawNext
             \/ PanelPublish \/ \E p \in Pages : PanelNext(p)
          /\ txn'.kind = "load" => txn'.text.made.name = Today.name
          /\ UNCHANGED <<homeVars, planVars, listVars>>
       \/ /\ part = "writing"
          /\ \/ RecipeNext \/ ChangeName \/ Rollback \/ ImportNext \/ WithdrawNext
             \/ Save \/ ReleaseNext \/ \E j \in Jobs : WriterNext(j)
          /\ UNCHANGED <<homeVars, planVars, listVars>>

MCSpec == MCInit /\ [][MCNext]_<<part, homeVars, planVars, listVars, cookVars>>

TypesOK == HomeTypeOK /\ PlanTypeOK /\ ListTypeOK /\ CookTypeOK
=============================================================================
