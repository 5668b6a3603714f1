---------------------------- MODULE TurnAdmission ----------------------------
(* How a message becomes a turn: AgentTurnsService.postMessage and           *)
(* editMessage (src/src/agent/agent-turns.service.ts).                        *)
(*                                                                           *)
(* A request looks its clientMessageId up, compares the installation's money  *)
(* with its ceilings outside any transaction, and then runs one SERIALIZABLE  *)
(* transaction that closes the conversation's dead turns, counts the turns    *)
(* that run, compares the ceilings again and inserts message and turn.  The   *)
(* transaction is two steps here: Begin reads one snapshot and decides, and   *)
(* Commit writes, unless a transaction that committed in between conflicts.   *)
(* PostgreSQL refuses one of two concurrent transactions when each of them    *)
(* read what the other wrote; all that is known of two starts is what each    *)
(* COUNTED, so `rival` is raised exactly for those pairs.  The life of a turn *)
(* after its start is module TurnExecution; here it spends (also late), grows  *)
(* overdue, ends and may have its message handed back.                       *)
EXTENDS Integers, FiniteSets

CONSTANTS
    Requests,       \* HTTP requests, each handled once
    Messages,       \* clientMessageIds; two requests may carry the same
    Conversations,
    Homes,
    Sendings,       \* the ways in which the requests may carry messages
    ConversationOf, \* the conversation of a message
    HomeOf,         \* the household of a conversation
    Edits,          \* the requests that edit an earlier message
    Trials,         \* the households on the free trial
    HouseLimit,     \* AI_MAX_CONCURRENT_TURNS_PER_HOUSEHOLD, 0 for none
    HouseBudget,    \* the household's ceiling of cost
    Budget,         \* the installation's daily budget
    TrialBudget,    \* the trials' share of it
    Reserve,        \* AI_TURN_COST_RESERVE_USD
    Band,           \* installationAtomicBandMicroUsd
    QuotaLimit,     \* messages of a household in a period
    Retries         \* maxRetries of runSerializable

ASSUME AdmissionAssumption ==
    /\ Sendings \subseteq [Requests -> Messages]
    /\ ConversationOf \in [Messages -> Conversations]
    /\ HomeOf \in [Conversations -> Homes]
    /\ Edits \subseteq Requests /\ Trials \subseteq Homes
    /\ HouseLimit \in Nat /\ HouseBudget \in Nat /\ Budget \in Nat
    /\ TrialBudget \in Nat /\ Band \in Nat
    /\ QuotaLimit \in Nat /\ Retries \in Nat

(* There are finitely many turns to count at any time.                        *)
ASSUME FinitelyManyMessages == IsFiniteSet(Messages)

(* Reservations are switched on (0 switches them off, and the ceilings with    *)
(* them: nothing is held back for a turn that runs).                          *)
ASSUME ReservationAssumption == Reserve \in Nat \ {0}

VARIABLES
    turn,    \* the turn of each message
    cost,    \* what each turn has spent
    overdue, \* history: the units each turn spent when its reservation was gone
    used,    \* the quota counter of each household
    hidden,  \* the edited message of each conversation: the stamp that hides it
    req

admissionVars == <<turn, cost, overdue, used, hidden, req>>

Nobody == "nobody"
TurnStates == {"none", "live", "late", "done", "refunded"}
Answered == {"accepted", "told", "refused"}
RequestSteps == {"find", "hide", "new", "check", "begin", "commit", "undo"} \union Answered

Home(m) == HomeOf[ConversationOf[m]]
OfHome(h) == {m \in Messages : Home(m) = h}
OfConversation(c) == {m \in Messages : ConversationOf[m] = c}
Running == {m \in Messages : turn[m] \in {"live", "late"}}

(* liveTurnWhere: a turn past its deadline no longer holds a reservation.     *)
Live == {m \in Messages : turn[m] = "live"}

(* Money goes in units: a turn has paid its unit i once its cost reaches i.   *)
Paid(S) == {u \in S \X (1..Reserve) : u[2] <= cost[u[1]]}
Spent(S) == Cardinality(Paid(S))

(* installationHeadroomMicroUsd, with the turns a transaction has itself      *)
(* closed left out.                                                           *)
Headroom(ceiling, closing) ==
    ceiling - Spent(Messages) - Reserve * Cardinality(Live \ closing)

Mine(p) == req[p].message
MyConversation(p) == ConversationOf[Mine(p)]
MyHome(p) == Home(Mine(p))

\* Mutant: a trial counts the installation's turns only near the ceiling.
CountsNear(p) == req[p].near

(* A start counts the installation's turns inside its transaction near the    *)
(* ceiling and, on a trial, always.                                           *)
CountsAll(p) == req[p].near \/ MyHome(p) \in Trials

\* Mutant: READ COMMITTED, only the count of the installation conflicts.
MutualFar(p, q) == CountsAll(p) /\ CountsAll(q)

(* Two concurrent starts of which each counted what the other inserts.        *)
Mutual(p, q) == MyHome(p) = MyHome(q) \/ (CountsAll(p) /\ CountsAll(q))

AdmissionInit ==
    /\ turn = [m \in Messages |-> "none"]
    /\ cost = [m \in Messages |-> 0]
    /\ overdue = [m \in Messages |-> {}]
    /\ used = [h \in Homes |-> 0]
    /\ hidden = [c \in Conversations |-> Nobody]
    /\ \E messageOf \in Sendings :
          req = [p \in Requests |->
                   [pc |-> IF p \in Edits THEN "find" ELSE "new",
                    message |-> messageOf[p], near |-> FALSE, closing |-> {},
                    rival |-> FALSE, since |-> 0, tries |-> 0]]

(* What a request forgets when its transaction or its handling is over.       *)
Over(r, step) ==
    [r EXCEPT !.pc = step, !.closing = {}, !.rival = FALSE,
              !.tries = IF step = "begin" THEN @ ELSE 0]

Goto(p, step) == req' = [req EXCEPT ![p] = Over(@, step)]

\* Mutant: the catch of editMessage is gone.
RefuseAtOnce(p) == Goto(p, "refused")

(* A refused edit still has to take its withdrawal back.                      *)
Refuse(p) == Goto(p, IF p \in Edits THEN "undo" ELSE "refused")

-----------------------------------------------------------------------------
(* Editing: withdraw the message and what followed it, then post as usual.    *)

(* The message to edit must be visible.                                       *)
FindEdited(p) ==
    /\ req[p].pc = "find"
    /\ Goto(p, IF hidden[MyConversation(p)] = Nobody THEN "hide" ELSE "refused")
    /\ UNCHANGED <<turn, cost, overdue, used, hidden>>

(* updateMany by the identifiers read before, whatever their stamp is now.    *)
HideEdited(p) ==
    /\ req[p].pc = "hide"
    /\ hidden' = [hidden EXCEPT ![MyConversation(p)] = p]
    /\ Goto(p, "new")
    /\ UNCHANGED <<turn, cost, overdue, used>>

(* The catch of editMessage: show again what carries this edit's stamp.       *)
UndoEdit(p) ==
    /\ req[p].pc = "undo"
    /\ hidden' = [hidden EXCEPT ![MyConversation(p)] = IF @ = p THEN Nobody ELSE @]
    /\ Goto(p, "refused")
    /\ UNCHANGED <<turn, cost, overdue, used>>

-----------------------------------------------------------------------------
(* Posting.                                                                   *)

(* findByClientMessageId, then the circuit breaker, which may refuse.         *)
Lookup(p) ==
    /\ req[p].pc = "new"
    /\ \/ turn[Mine(p)] # "none" /\ Goto(p, "told")
       \/ turn[Mine(p)] = "none" /\ (Goto(p, "check") \/ Refuse(p))
    /\ UNCHANGED <<turn, cost, overdue, used, hidden>>

(* The quick refusals outside the transaction, and whether the ceiling is     *)
(* near enough to be counted again inside it.                                 *)
PreCheck(p) ==
    /\ req[p].pc = "check"
    /\ IF \/ Spent(OfHome(MyHome(p))) >= HouseBudget
          \/ Headroom(Budget, {}) <= 0
          \/ MyHome(p) \in Trials /\ Headroom(TrialBudget, {}) <= 0
       THEN Refuse(p)
       ELSE req' = [req EXCEPT ![p].pc = "begin",
                               ![p].near = Headroom(Budget, {}) < Band,
                               ![p].since = 0]
    /\ UNCHANGED <<turn, cost, overdue, used, hidden>>

(* refundIfFree: of the turns that end, those which cost nothing.             *)
Free(S) == {m \in S : cost[m] = 0}

(* What the transaction decides from its snapshot, after closing the turns    *)
(* `closing` of its own conversation and handing the free ones' messages back. *)
Admits(p, closing) ==
    LET h == MyHome(p)
        live == Cardinality((Live \intersect OfHome(h)) \ closing)
    IN  /\ (Running \intersect OfConversation(MyConversation(p))) \subseteq closing
        /\ HouseLimit > 0 => live < HouseLimit
        /\ Spent(OfHome(h)) + Reserve * live < HouseBudget
        /\ req[p].near => Headroom(Budget, closing) > 0
        /\ h \in Trials => Headroom(TrialBudget, closing) > 0
        /\ used[h] - Cardinality(Free(closing)) < QuotaLimit

(* turnCloseVerdict depends on clocks, leases and attempts that live in       *)
(* TurnExecution: any running turn of the conversation may be past saving.    *)
Begin(p) ==
    /\ req[p].pc = "begin"
    /\ \E closing \in SUBSET (Running \intersect OfConversation(MyConversation(p))) :
          IF Admits(p, closing)
          THEN req' = [req EXCEPT ![p].pc = "commit", ![p].closing = closing,
                                  ![p].rival = FALSE]
          ELSE Refuse(p)
    /\ UNCHANGED <<turn, cost, overdue, used, hidden>>

(* P2002: a duplicate of a message that has its turn meanwhile runs into the  *)
(* unique clientMessageId, writes nothing and is answered with that turn.     *)
Duplicate(p) ==
    /\ req[p].pc = "commit" /\ turn[Mine(p)] # "none"
    /\ Goto(p, "told")
    /\ UNCHANGED <<turn, cost, overdue, used, hidden>>

\* Mutant: one attempt too many.
ConflictOnceMore(p) ==
    /\ req[p].pc = "commit" /\ req[p].rival
    /\ IF req[p].tries <= Retries
       THEN req' = [req EXCEPT ![p] = Over([@ EXCEPT !.tries = req[p].tries + 1], "begin")]
       ELSE Refuse(p)
    /\ UNCHANGED <<turn, cost, overdue, used, hidden>>

(* P2034: runSerializable starts over, `Retries` times, and then gives up.    *)
Conflict(p) ==
    /\ req[p].pc = "commit" /\ req[p].rival
    /\ IF req[p].tries < Retries
       THEN req' = [req EXCEPT ![p] = Over([@ EXCEPT !.tries = req[p].tries + 1], "begin")]
       ELSE Refuse(p)
    /\ UNCHANGED <<turn, cost, overdue, used, hidden>>

(* History: the starts since a request found the ceiling far.                 *)
Started(r) ==
    IF r.pc \in {"begin", "commit", "accepted"} /\ ~r.near
    THEN [r EXCEPT !.since = @ + 1] ELSE r

(* The transaction commits: the dead turns are closed, the message is charged *)
(* and its turn starts.  Every start that is still open and counted what this *)
(* one wrote is now in conflict; one that did not count it goes on unaware.   *)
Commit(p) ==
    /\ req[p].pc = "commit" /\ ~req[p].rival /\ turn[Mine(p)] = "none"
    /\ turn' = [m \in Messages |->
                  IF m = Mine(p) THEN "live"
                  ELSE IF m \in req[p].closing
                       THEN IF cost[m] = 0 THEN "refunded" ELSE "done"
                       ELSE turn[m]]
    /\ used' = [used EXCEPT ![MyHome(p)] = @ - Cardinality(Free(req[p].closing)) + 1]
    /\ req' = [q \in Requests |->
                 IF q = p THEN Started(Over(req[q], "accepted"))
                 ELSE [Started(req[q]) EXCEPT
                         !.rival = @ \/ (req[q].pc = "commit" /\ Mutual(p, q))]]
    /\ UNCHANGED <<cost, overdue, hidden>>

-----------------------------------------------------------------------------
(* The turns themselves: the worker, the ledger and the clock.                *)

\* Mutant: nobody notices that the turn to be closed has changed.
RivalsByCounter(m, counter) ==
    req' = [q \in Requests |->
              IF req[q].pc = "commit" /\ counter /\ MyHome(q) = Home(m)
              THEN [req[q] EXCEPT !.rival = TRUE] ELSE req[q]]

(* Whoever writes the row of a turn that a start is about to close, or the     *)
(* counter it is about to charge, makes that start lose (first updater wins). *)
Rivals(m, counter) ==
    req' = [q \in Requests |->
              IF req[q].pc = "commit" /\ (m \in req[q].closing
                                          \/ (counter /\ MyHome(q) = Home(m)))
              THEN [req[q] EXCEPT !.rival = TRUE] ELSE req[q]]

(* A call to the provider is paid for, even after the turn has ended; a        *)
(* message that was handed back is charged again.  A turn's calls stay within  *)
(* Reserve.  What it spends when it no longer lives was not reserved.          *)
Call(m) ==
    /\ turn[m] # "none" /\ cost[m] < Reserve
    /\ cost' = [cost EXCEPT ![m] = @ + 1]
    /\ overdue' = [overdue EXCEPT ![m] = IF turn[m] = "live" THEN @ ELSE @ \union {cost'[m]}]
    /\ IF turn[m] = "refunded"
       THEN turn' = [turn EXCEPT ![m] = "done"] /\ used' = [used EXCEPT ![Home(m)] = @ + 1]
       ELSE UNCHANGED <<turn, used>>
    /\ Rivals(m, turn[m] = "refunded")
    /\ UNCHANGED hidden

(* deadlineAt passes.                                                         *)
Expire(m) ==
    /\ turn[m] = "live"
    /\ turn' = [turn EXCEPT ![m] = "late"]
    /\ UNCHANGED <<cost, overdue, used, hidden, req>>

(* The ledger ends a turn and may hand the message of a free one back.         *)
End(m) ==
    /\ m \in Running
    /\ \E refund \in BOOLEAN :
         /\ refund => cost[m] = 0
         /\ turn' = [turn EXCEPT ![m] = IF refund THEN "refunded" ELSE "done"]
         /\ used' = [used EXCEPT ![Home(m)] = IF refund THEN @ - 1 ELSE @]
         /\ Rivals(m, refund)
    /\ UNCHANGED <<cost, overdue, hidden>>

(* The refund of a failed turn in a transaction of its own.                    *)
GiveBack(m) ==
    /\ turn[m] = "done" /\ cost[m] = 0
    /\ turn' = [turn EXCEPT ![m] = "refunded"]
    /\ used' = [used EXCEPT ![Home(m)] = @ - 1]
    /\ Rivals(m, TRUE)
    /\ UNCHANGED <<cost, overdue, hidden>>

Post(p) ==
    Lookup(p) \/ PreCheck(p) \/ Begin(p) \/ Duplicate(p) \/ Conflict(p) \/ Commit(p)
Edit(p) == FindEdited(p) \/ HideEdited(p) \/ UndoEdit(p)
Work(m) == Call(m) \/ Expire(m) \/ End(m) \/ GiveBack(m)

AdmissionNext == (\E p \in Requests : Post(p) \/ Edit(p)) \/ (\E m \in Messages : Work(m))

AdmissionSpec == AdmissionInit /\ [][AdmissionNext]_admissionVars

-----------------------------------------------------------------------------
AdmissionTypeOK ==
    /\ turn \in [Messages -> TurnStates]
    /\ cost \in [Messages -> 0..Reserve]
    /\ overdue \in [Messages -> SUBSET (1..Reserve)]
    /\ used \in [Homes -> Int]
    /\ hidden \in [Conversations -> Requests \union {Nobody}]
    /\ req \in [Requests -> [pc : RequestSteps, message : Messages, near : BOOLEAN,
                             closing : SUBSET Messages, rival : BOOLEAN,
                             since : Nat, tries : 0..Retries]]

(* Two phones, two instances or a retry never get two turns of one            *)
(* conversation going: each transaction counted zero running turns before the *)
(* other's insert (the write skew postMessage describes).                     *)
OneTurnAtATime ==
    \A c \in Conversations : Cardinality(Running \intersect OfConversation(c)) <= 1

(* The household's semaphore holds over turns that were counted at different  *)
(* times in different conversations.                                          *)
HouseSemaphore ==
    HouseLimit > 0 =>
        \A h \in Homes : Cardinality(Live \intersect OfHome(h)) <= HouseLimit

(* However starts, retries and conflicts interleave, one conversation has one  *)
(* turn at a time and a household as many as its semaphore allows              *)
(* (postMessage, agent-turns.service.ts:434-612).                             *)
TurnsAreExclusive == OneTurnAtATime /\ HouseSemaphore

(* The units the turns of S were paid or may still be paid within their        *)
(* reservations: a live turn may use all that is reserved for it.             *)
Held(S) ==
    {u \in S \X (1..Reserve) :
        /\ u[2] \notin overdue[u[1]]
        /\ turn[u[1]] = "live" \/ u[2] <= cost[u[1]]}

Committed(S) == Cardinality(Held(S))

(* A household's money: what was spent in time and what live turns may still  *)
(* spend passes the ceiling by less than the one turn that reached it.  Only  *)
(* a turn that spends past its deadline, when its reservation is gone, adds   *)
(* to that.                                                                   *)
HouseBudgetHolds ==
    \A h \in Homes : Committed(OfHome(h)) < HouseBudget + Reserve

(* The installation's money, across households.  Starts far from the ceiling  *)
(* do not count each other, so it is passed only when more starts than the    *)
(* band holds reserves follow the look one of them took from afar ("zeby go   *)
(* przelac, trzeba by tylu rownoczesnych startow, ile rezerw miesci pas").    *)
InstallationBudgetHolds ==
    \/ Committed(Messages) < Budget + Reserve
    \/ \E p \in Requests :
           req[p].pc = "accepted" /\ ~req[p].near /\ Reserve * req[p].since > Band

(* The trials' share: a trial start always counts the installation's turns,   *)
(* so trials alone never pass their ceiling, however many start at once.      *)
OfTrials == {m \in Messages : Home(m) \in Trials}
TrialBudgetHolds == Committed(OfTrials) < TrialBudget + Reserve

(* Parallel starts do not pass the ceilings of the household, the installation *)
(* and the trials by more than what is said of each of them                    *)
(* (agent-turns.service.ts:67-95, 434-612, 1015-1062).                         *)
BudgetsHold == HouseBudgetHolds /\ InstallationBudgetHolds /\ TrialBudgetHolds

(* The quota counter says how many of the household's messages have a turn    *)
(* that was not handed back, whatever was sent twice, retried after a         *)
(* conflict, closed by somebody else's start or ended by the ledger while     *)
(* that start was under way (agent-turns.service.ts:434-612).                 *)
Charged(h) == {m \in OfHome(h) : turn[m] \notin {"none", "refunded"}}
QuotaMatchesTurns == \A h \in Homes : used[h] = Cardinality(Charged(h))

(* Together the transactions, with their conflicts and retries, work as if a   *)
(* turn started, or were refused, in one step.                                 *)
Contract == INSTANCE AdmissionContract
StartsAreAtomic == Contract!Spec

(* "Gdy wysylka odmowi, cofamy ukrycie": once every edit of a conversation    *)
(* was refused, the edited message is visible again.                          *)
RefusedEditsLeaveNoTrace ==
    \A c \in Conversations :
        (\A p \in Edits : MyConversation(p) = c => req[p].pc \in {"find", "refused"})
        => hidden[c] = Nobody

(* The other side of it: what an accepted edit has withdrawn stays withdrawn. *)
EditedStaysHidden ==
    \A p \in Edits : req[p].pc = "accepted" => hidden[MyConversation(p)] # Nobody
=============================================================================
