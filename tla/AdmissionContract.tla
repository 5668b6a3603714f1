-------------------------- MODULE AdmissionContract --------------------------
(* What the admission of messages promises, without requests, transactions,   *)
(* conflicts and retries: a turn starts in one step, and this step itself      *)
(* closes what still runs in its conversation, finds room for one more turn    *)
(* and charges its message.  The counter of the quota says at every moment how *)
(* many messages have a turn that was not handed back.  The installation's     *)
(* ceiling is left out: far from it, starts do not count each other, so what   *)
(* it promises is no matter of one step (InstallationBudgetHolds).             *)
EXTENDS Integers, FiniteSets

CONSTANTS
    Messages, Homes, ConversationOf, HomeOf, Trials,
    HouseLimit, HouseBudget, TrialBudget, Reserve, QuotaLimit

VARIABLES turn, cost, overdue, used

contractVars == <<turn, cost, overdue, used>>

Home(m) == HomeOf[ConversationOf[m]]
OfHome(h) == {m \in Messages : Home(m) = h}
OfTrials == {m \in Messages : Home(m) \in Trials}

(* Of the turns of S, when the turns stand as in t: those that live, those     *)
(* whose message counts, and the units of money spent in time or held back.    *)
Living(t, S) == {m \in S : t[m] = "live"}
Charged(t, S) == {m \in S : t[m] \notin {"none", "refunded"}}
Held(t, S) ==
    {u \in S \X (1..Reserve) : /\ u[2] \notin overdue[u[1]]
                               /\ t[u[1]] = "live" \/ u[2] <= cost[u[1]]}

(* How a turn ends: its message may come back if it has cost nothing.          *)
MayEnd(m, end) == end = "done" \/ (end = "refunded" /\ cost[m] = 0)

Init ==
    /\ turn = [m \in Messages |-> "none"]
    /\ cost = [m \in Messages |-> 0]
    /\ overdue = [m \in Messages |-> {}]
    /\ used = [h \in Homes |-> 0]

(* The turns once those of the conversation c that still run are closed.       *)
Closed(c) ==
    [m \in Messages |->
       IF turn[m] \in {"live", "late"} /\ ConversationOf[m] = c
       THEN IF cost[m] = 0 THEN "refunded" ELSE "done"
       ELSE turn[m]]

Start(m) ==
    LET left == Closed(ConversationOf[m])
        house == OfHome(Home(m))
    IN  /\ turn[m] = "none"
        /\ HouseLimit > 0 => Cardinality(Living(left, house)) < HouseLimit
        /\ Cardinality(Held(left, house)) < HouseBudget
        /\ Home(m) \in Trials => Cardinality(Held(left, OfTrials)) < TrialBudget
        /\ Cardinality(Charged(left, house)) < QuotaLimit
        /\ turn' = [left EXCEPT ![m] = "live"]
        /\ UNCHANGED <<cost, overdue>>

(* A turn spends; when it no longer lives nothing was held back for that, and  *)
(* a message that had come back is charged again.                              *)
Spend(m) ==
    /\ turn[m] # "none" /\ cost[m] < Reserve
    /\ cost' = [cost EXCEPT ![m] = @ + 1]
    /\ overdue' = IF turn[m] = "live" THEN overdue
                  ELSE [overdue EXCEPT ![m] = @ \union {cost[m] + 1}]
    /\ turn' = IF turn[m] = "refunded" THEN [turn EXCEPT ![m] = "done"] ELSE turn

GrowOld(m) ==
    /\ turn[m] = "live"
    /\ turn' = [turn EXCEPT ![m] = "late"]
    /\ UNCHANGED <<cost, overdue>>

(* A turn ends, or the message of one that has ended comes back.               *)
End(m) ==
    /\ turn[m] \in {"live", "late", "done"}
    /\ \E end \in {"done", "refunded"} :
          MayEnd(m, end) /\ turn' = [turn EXCEPT ![m] = end]
    /\ UNCHANGED <<cost, overdue>>

Next ==
    /\ \E m \in Messages : Start(m) \/ Spend(m) \/ GrowOld(m) \/ End(m)
    /\ used' = [h \in Homes |-> Cardinality(Charged(turn', OfHome(h)))]

Spec == Init /\ [][Next]_contractVars
=============================================================================
