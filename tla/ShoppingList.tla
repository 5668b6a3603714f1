---------------------------- MODULE ShoppingList ----------------------------
(* The shopping list of one week of one household: a table derived from the   *)
(* plan and from the products people add, rebuilt by whoever reads it when it  *)
(* is out of date (src/src/weekly-plans/services/shopping-list.service.ts).   *)
(*                                                                           *)
(* A rebuild and a writer are transactions of several statements that meet at  *)
(* the row of the list: a rebuild updates that row before it reads the         *)
(* sources, a writer after it wrote them.  Writers of the plan and of the      *)
(* household run READ COMMITTED under the lock of the week; writers of added   *)
(* products run SERIALIZABLE, so a row changed since their snapshot refuses    *)
(* their write (`rival`), and they begin again.                               *)
(* Amounts are in one unit; archives of finished lists are left out.          *)
EXTENDS Integers, FiniteSets

CONSTANTS
    Products,
    Writers,   \* transactions that change what the list is made of
    Builds,    \* readers that find the list out of date
    Mutations, \* clientMutationId of requests to add a product
    ProductOf, \* the product each of them adds one of
    MaxAmount, \* bound: how much of a product
    MaxPlans,  \* bound: changes of the plan
    FirstPlan, \* amounts the meals need at first
    FirstList, \* whether the list exists at first
    ListOps    \* which of plan, roster, add, set, tick happen

ASSUME ListAssumption ==
    /\ ProductOf \in [Mutations -> Products]
    /\ FirstPlan \in [Products -> 0..MaxAmount]
    /\ MaxAmount \in Nat \ {0} /\ MaxPlans \in Nat /\ FirstList \in BOOLEAN
    /\ ListOps \subseteq {"plan", "roster", "add", "set", "tick"}
    /\ Writers \intersect Builds = {} /\ "unlocked" \notin Writers \union Builds

VARIABLES
    plan,   \* amounts the meals of the week need
    manual, \* ShoppingListManualItem rows, 0: no row
    done,   \* ShoppingListAddRequest rows
    list,   \* ShoppingList with its ShoppingListItem rows
    ticks,  \* ShoppingItemCheck rows that are checked
    writer, build,
    holder, \* transaction that has written the row of the list
    plans,  \* changes of the plan so far
    owed    \* history: what the requests, each counted once, amount to

listVars == <<plan, manual, done, list, ticks, writer, build, holder, plans, owed>>

Amounts == [Products -> 0..MaxAmount]
Unlocked == "unlocked"
NoAmounts == [p \in Products |-> 0]
Totals == [p \in Products |-> plan[p] + manual[p]]
OnList(amounts) == {p \in Products : amounts[p] > 0}

NoName == "none"   \* no product, no request

(* amount: of the product p, as the transaction will leave it.                *)
IdleWriter == [pc |-> "idle", kind |-> "plan", p |-> NoName, m |-> NoName,
         amount |-> 0, grows |-> FALSE, rival |-> FALSE]

NoBuild == [pc |-> "idle", amounts |-> NoAmounts, checked |-> {}]

ListTypeOK ==
    /\ plan \in Amounts /\ manual \in Amounts /\ owed \in Amounts
    /\ done \subseteq Mutations /\ ticks \subseteq Products
    /\ list.there \in BOOLEAN /\ list.stale \in BOOLEAN
    /\ OnList(list.amounts) \subseteq Products /\ list.checked \subseteq OnList(list.amounts)
    /\ holder \in Writers \union Builds \union {Unlocked}
    /\ \A w \in Writers : /\ writer[w].pc \in {"idle", "wrote", "marked"}
                          /\ writer[w].amount \in 0..MaxAmount
    /\ \A b \in Builds : /\ build[b].pc \in {"idle", "lock", "read", "keep", "write"}
                         /\ build[b].checked \subseteq Products

ListInit ==
    /\ plan = FirstPlan /\ manual = NoAmounts /\ owed = NoAmounts
    /\ done = {} /\ ticks = {}
    /\ list = [there |-> FirstList, stale |-> FALSE,
               amounts |-> IF FirstList THEN FirstPlan ELSE NoAmounts, checked |-> {}]
    /\ writer = [w \in Writers |-> IdleWriter]
    /\ build = [b \in Builds |-> NoBuild]
    /\ holder = Unlocked
    /\ plans = 0

-----------------------------------------------------------------------------
(* Writers: what they will leave, then the row of the list, then the commit.   *)

Writes(w, kind, p, m, amount, grows) ==
    /\ writer' = [writer EXCEPT ![w] = [pc |-> "wrote", kind |-> kind, p |-> p, m |-> m,
                                        amount |-> amount, grows |-> grows, rival |-> FALSE]]
    /\ UNCHANGED <<plan, manual, done, list, ticks, build, holder, owed>>

(* One writer of the plan at a time (lockWeekForWrite): a meal is added,       *)
(* changed or removed, or the household changes and with it the portions.      *)
WritePlan(w) ==
    /\ writer[w].pc = "idle"
    /\ \A v \in Writers : writer[v].pc # "idle" => writer[v].kind \notin {"plan", "roster"}
    /\ plans < MaxPlans /\ plans' = plans + 1
    /\ \E kind \in {"plan", "roster"} \intersect ListOps, p \in Products, n \in 0..MaxAmount :
          n # plan[p] /\ Writes(w, kind, p, NoName, n, FALSE)

(* writeShoppingProducts: one more of the product, unless the request is done. *)
AddProduct(w) ==
    /\ "add" \in ListOps /\ writer[w].pc = "idle"
    /\ \E m \in Mutations \ done :
          LET p == ProductOf[m]
          IN /\ manual[p] < MaxAmount
             /\ Writes(w, "add", p, m, manual[p] + 1, TRUE)
    /\ UNCHANGED plans

(* setShoppingProductAmount                                                   *)
SetAmount(w) ==
    /\ "set" \in ListOps /\ writer[w].pc = "idle"
    /\ \E p \in Products, n \in 1..MaxAmount :
          /\ manual[p] \notin {0, n}
          /\ Writes(w, "set", p, NoName, n, n > manual[p])
    /\ UNCHANGED plans

Serializable(w) == writer[w].kind \in {"add", "set"}

(* markShoppingListStale; markFutureShoppingListsStale (roster) updates only   *)
(* the rows it sees, and creates none.                                        *)
MarkStale(w) ==
    /\ writer[w].pc = "wrote"
    /\ Serializable(w) => ~writer[w].rival
    /\ IF writer[w].kind = "roster" /\ ~list.there
       THEN UNCHANGED holder
       ELSE holder = Unlocked /\ holder' = w
    /\ writer' = [writer EXCEPT ![w].pc = "marked"]
    /\ UNCHANGED <<plan, manual, done, list, ticks, build, plans, owed>>

(* Snapshots older than a commit that wrote the list or the product p.         *)
Outdated(writers, by) ==
    [v \in Writers |-> IF v # by /\ writers[v].pc = "wrote"
                       THEN [writers[v] EXCEPT !.rival = TRUE] ELSE writers[v]]

CommitWrite(w) ==
    /\ writer[w].pc = "marked"
    /\ LET r == writer[w]
           added == r.kind = "add" /\ r.m \notin done
       IN /\ plan' = IF Serializable(w) THEN plan ELSE [plan EXCEPT ![r.p] = r.amount]
          /\ manual' = IF Serializable(w) THEN [manual EXCEPT ![r.p] = r.amount] ELSE manual
          /\ done' = IF r.kind = "add" THEN done \union {r.m} ELSE done
          /\ owed' = IF r.kind = "set" THEN [owed EXCEPT ![r.p] = r.amount]
                     ELSE IF added THEN [owed EXCEPT ![r.p] = @ + 1] ELSE owed
          /\ list' = IF holder # w THEN list
                     ELSE [list EXCEPT !.there = TRUE, !.stale = TRUE,
                                       !.checked = IF r.grows THEN @ \ {r.p} ELSE @]
          /\ ticks' = IF r.grows THEN ticks \ {r.p} ELSE ticks
          /\ holder' = IF holder = w THEN Unlocked ELSE holder
    /\ writer' = Outdated([writer EXCEPT ![w] = IdleWriter], w)
    /\ UNCHANGED <<build, plans>>

(* A refused write, a failure, or the end of the retries: nothing is written.   *)
(* The phone sends the request again, with the same clientMutationId.          *)
GiveUpWrite(w) ==
    /\ writer[w].pc # "idle"
    /\ writer' = [writer EXCEPT ![w] = IdleWriter]
    /\ holder' = IF holder = w THEN Unlocked ELSE holder
    /\ UNCHANGED <<plan, manual, done, list, ticks, build, plans, owed>>

-----------------------------------------------------------------------------
(* Readers.                                                                   *)

(* readShoppingListSnapshot, and hasShoppingSourceData.                       *)
OutOfDate ==
    \/ ~list.there \/ list.stale
    \/ (OnList(list.amounts) = {}) # (OnList(Totals) = {})

Look(b) ==
    /\ build[b].pc = "idle" /\ OutOfDate
    /\ build' = [build EXCEPT ![b].pc = "lock"]
    /\ UNCHANGED <<plan, manual, done, list, ticks, writer, holder, plans, owed>>

\* Mutant: the rebuild writes the row of the list only at its end.
LockNothing(b) ==
    /\ build[b].pc = "lock" /\ holder = Unlocked
    /\ build' = [build EXCEPT ![b].pc = "read"]
    /\ UNCHANGED <<plan, manual, done, list, ticks, writer, holder, plans, owed>>

LockList(b) ==
    /\ build[b].pc = "lock" /\ holder = Unlocked
    /\ holder' = b
    /\ build' = [build EXCEPT ![b].pc = "read"]
    /\ UNCHANGED <<plan, manual, done, list, ticks, writer, plans, owed>>

(* buildShoppingListBase                                                      *)
ReadSources(b) ==
    /\ build[b].pc = "read"
    /\ build' = [build EXCEPT ![b].pc = "keep", ![b].amounts = Totals]
    /\ UNCHANGED <<plan, manual, done, list, ticks, writer, holder, plans, owed>>

\* Mutant: what was bought stays on a list it is no longer needed for.
CheckedEver(amounts) == list.checked \union ticks

(* What was bought: from the list, for a product new to it from its own row.   *)
StillChecked(amounts) ==
    {p \in OnList(amounts) : p \in IF p \in OnList(list.amounts) THEN list.checked ELSE ticks}

ReadChecks(b) ==
    /\ build[b].pc = "keep"
    /\ build' = [build EXCEPT ![b].pc = "write", ![b].checked = StillChecked(build[b].amounts)]
    /\ UNCHANGED <<plan, manual, done, list, ticks, writer, holder, plans, owed>>

FinishBuild(b) ==
    /\ build[b].pc = "write"
    /\ list' = [there |-> TRUE, stale |-> FALSE, amounts |-> build[b].amounts,
                checked |-> build[b].checked]
    /\ ticks' = ticks \intersect OnList(build[b].amounts)
    /\ holder' = Unlocked
    /\ build' = [build EXCEPT ![b] = NoBuild]
    /\ writer' = Outdated(writer, b)
    /\ UNCHANGED <<plan, manual, done, plans, owed>>

BuildFails(b) ==
    /\ build[b].pc # "idle"
    /\ build' = [build EXCEPT ![b] = NoBuild]
    /\ holder' = IF holder = b THEN Unlocked ELSE holder
    /\ UNCHANGED <<plan, manual, done, list, ticks, writer, plans, owed>>

(* setShoppingItemChecked, over a list that is up to date.                    *)
Tick(p) ==
    /\ "tick" \in ListOps
    /\ list.there /\ ~list.stale /\ p \in OnList(list.amounts)
    /\ list' = [list EXCEPT !.checked = IF p \in @ THEN @ \ {p} ELSE @ \union {p}]
    /\ ticks' = IF p \in list.checked THEN ticks \ {p} ELSE ticks \union {p}
    /\ UNCHANGED <<plan, manual, done, writer, build, holder, plans, owed>>

-----------------------------------------------------------------------------
ListNext ==
    \/ \E w \in Writers : \/ WritePlan(w) \/ AddProduct(w) \/ SetAmount(w)
                          \/ MarkStale(w) \/ CommitWrite(w) \/ GiveUpWrite(w)
    \/ \E b \in Builds : \/ Look(b) \/ LockList(b) \/ ReadSources(b)
                         \/ ReadChecks(b) \/ FinishBuild(b) \/ BuildFails(b)
    \/ \E p \in Products : Tick(p)

ListSpec == ListInit /\ [][ListNext]_listVars

-----------------------------------------------------------------------------
(* A list that does not say it is out of date holds the sums of what it is     *)
(* made of, however a rebuild and the writers interleave: no rebuild writes    *)
(* over the mark of a change it did not read.                                 *)
FreshIsCurrent == list.there /\ ~list.stale => list.amounts = Totals

(* Requests to add a product, sent again and in two copies at once, and        *)
(* changes of its amount: each request counts once, and none is lost.          *)
AmountsAddUp == manual = owed

(* Both: the list of a week is its plan and what people added
   (shopping-list.service.ts:384-593, 1664-2095).                             *)
ListHolds == FreshIsCurrent /\ AmountsAddUp

=============================================================================
