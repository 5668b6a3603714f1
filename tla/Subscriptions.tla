--------------------------- MODULE Subscriptions ---------------------------
(***************************************************************************)
(* One App Store subscription (src/src/billing/subscriptions.service.ts):  *)
(* its row, the notifications of Apple about it, the report of a purchase  *)
(* by the telephone, the hourly sweep and the operator's hold.             *)
(*                                                                         *)
(* Apple's changes are numbered.  The notification of change v is signed   *)
(* at 2 v, and a request that begins before change v + 1 reads the clock   *)
(* 2 v + 1, so both kinds of time compare as the code compares them.       *)
(* Paid periods are numbered too: `today' is the current one.              *)
(* Limits of the plan, the owner and the product are not kept.             *)
(***************************************************************************)
EXTENDS Naturals, FiniteSets

CONSTANTS
  Errands,     \* requests and sweeps under way at the same time
  MaxChange,    \* bound: changes at Apple
  MaxReturns,   \* bound: purchases after the subscription has ended
  MaxFailures,  \* bound: crashes of the server
  Attempts,     \* bound: times a notification is taken up
  MaxOperator   \* bound: what the operator does

ASSUME PayAssumption ==
  /\ MaxChange \in Nat /\ MaxReturns \in Nat /\ MaxFailures \in Nat /\ MaxOperator \in Nat
  /\ Attempts \in Nat \ {0}

VARIABLES
  apple,     \* external: the state of the subscription at Apple
  today,     \* the current period
  changes,   \* external: number of changes so far
  notes,     \* per change: its AppleNotification
  phoneOwes, \* external: the telephone has a purchase to report
  sub,       \* the Subscription row
  handler,   \* requests and sweeps
  returns, failures, operator

payVars == <<apple, today, changes, notes, phoneOwes, sub, handler, returns, failures, operator>>

ChangeIds == 1 .. MaxChange

\* Mutant: the clock of the server runs ahead.
ClockAhead == 2 * changes + 2

Clock == 2 * changes + 1
SubStatus == {"ACTIVE", "EXPIRED", "REVOKED"}
SubState == [txn: 1 .. MaxChange + 1, until: 1 .. MaxChange + 2, status: SubStatus, auto: BOOLEAN]
Unsold == [txn |-> 1, until |-> 1, status |-> "EXPIRED", auto |-> FALSE]

NoNote == [at |-> "none", said |-> Unsold, attempts |-> 0]
NoSub == [known |-> FALSE, state |-> Unsold, stamp |-> 0, fresh |-> FALSE, held |-> FALSE]
NoErrand == [pc |-> "idle", note |-> 0, phone |-> FALSE, now |-> 0, answer |-> Unsold]

SubTypeOK ==
  /\ apple \in SubState /\ today \in 1 .. MaxChange + 1 /\ changes \in 0 .. MaxChange
  /\ notes \in [ChangeIds -> [at: {"none", "sent", "stored", "processed"}, said: SubState,
                            attempts: 0 .. Attempts]]
  /\ phoneOwes \in BOOLEAN
  /\ sub \in [known: BOOLEAN, state: SubState, stamp: 0 .. 2 * MaxChange + 1,
              fresh: BOOLEAN, held: BOOLEAN]
  /\ handler \in [Errands -> [pc: {"idle", "read", "ask", "store", "write", "mark"},
                               note: 0 .. MaxChange, phone: BOOLEAN,
                               now: 0 .. 2 * MaxChange + 1, answer: SubState]]
  /\ returns \in 0 .. MaxReturns /\ failures \in 0 .. MaxFailures /\ operator \in 0 .. MaxOperator

SubInit ==
  /\ apple = [txn |-> 1, until |-> 2, status |-> "ACTIVE", auto |-> TRUE]
  /\ today = 1 /\ changes = 0
  /\ notes = [n \in ChangeIds |-> NoNote]
  /\ phoneOwes = TRUE
  /\ sub = NoSub
  /\ handler = [h \in Errands |-> NoErrand]
  /\ returns = 0 /\ failures = 0 /\ operator = 0

(* subscriptionAlive *)
Alive(s) == s.known /\ ~s.held /\ s.state.status = "ACTIVE" /\ s.state.until > today
Paid == apple.status = "ACTIVE"

-----------------------------------------------------------------------------
(* External: Apple changes the subscription and signs a notification that
   says `said'.                                                              *)

Change(state, said) ==
  /\ changes < MaxChange
  /\ changes' = changes + 1
  /\ apple' = state
  /\ notes' = [notes EXCEPT ![changes + 1] = [at |-> "sent", said |-> said, attempts |-> 0]]

Bought(period) == [txn |-> apple.txn + 1, until |-> period + 1, status |-> "ACTIVE", auto |-> TRUE]

PeriodEnds ==
  /\ apple.status = "ACTIVE"
  /\ today' = today + 1
  /\ \/ apple.auto /\ Change(Bought(today + 1), Bought(today + 1))
     \/ LET lapsed == [apple EXCEPT !.status = "EXPIRED"] IN Change(lapsed, lapsed)
  /\ UNCHANGED <<phoneOwes, sub, handler, returns, failures, operator>>

RetryEnds ==
  /\ apple.status = "EXPIRED" /\ apple.auto
  /\ \/ Change(Bought(today), Bought(today))
     \/ LET over == [apple EXCEPT !.auto = FALSE] IN Change(over, over)
  /\ UNCHANGED <<today, phoneOwes, sub, handler, returns, failures, operator>>

SwitchRenewal ==
  /\ apple.status = "ACTIVE"
  /\ LET other == [apple EXCEPT !.auto = ~@] IN Change(other, other)
  /\ UNCHANGED <<today, phoneOwes, sub, handler, returns, failures, operator>>

Refund ==
  /\ apple.status = "ACTIVE"
  /\ LET revoked == [apple EXCEPT !.status = "REVOKED", !.auto = FALSE] IN Change(revoked, revoked)
  /\ UNCHANGED <<today, phoneOwes, sub, handler, returns, failures, operator>>

(* Money back for one earlier month: the notification carries that transaction. *)
RefundOld ==
  /\ apple.txn > 1 /\ apple.status = "ACTIVE"
  /\ Change(apple, [txn |-> apple.txn - 1, until |-> apple.until - 1,
                    status |-> "REVOKED", auto |-> apple.auto])
  /\ UNCHANGED <<today, phoneOwes, sub, handler, returns, failures, operator>>

(* The person buys again; the telephone keeps the purchase until it is
   reported (a report under way was about the earlier one).                  *)
BuyAgain ==
  /\ returns < MaxReturns
  /\ apple.status \in {"EXPIRED", "REVOKED"}
  /\ Change(Bought(today), Bought(today))
  /\ returns' = returns + 1 /\ phoneOwes' = TRUE
  /\ handler' = [h \in Errands |-> [handler[h] EXCEPT !.phone = FALSE]]
  /\ UNCHANGED <<today, sub, failures, operator>>

-----------------------------------------------------------------------------
Becomes(h, r) == handler' = [handler EXCEPT ![h] = r]
ToMark(n) == IF n = 0 THEN NoErrand ELSE [NoErrand EXCEPT !.pc = "mark", !.note = n]
Processed(n) == notes' = [notes EXCEPT ![n].at = "processed"]
world == <<apple, today, changes, returns, failures, operator>>

(* processNotification, right after recordNotification or from the sweep. *)
Receive(h, n) ==
  /\ handler[h].pc = "idle"
  /\ notes[n].at \in {"sent", "stored"}
  /\ notes[n].attempts < Attempts
  /\ notes' = [notes EXCEPT ![n].at = "stored", ![n].attempts = @ + 1]
  /\ Becomes(h, [NoErrand EXCEPT !.pc = "read", !.note = n, !.now = Clock])
  /\ UNCHANGED <<world, phoneOwes, sub>>

OlderTransaction(said) == said.txn # sub.state.txn /\ said.until < sub.state.until

Examine(h) ==
  LET n == handler[h].note
      said == notes[n].said
  IN
  /\ handler[h].pc = "read"
  /\ \/ /\ ~sub.known \/ 2 * n < sub.stamp
        /\ Processed(n) /\ Becomes(h, NoErrand)
     \/ /\ sub.known /\ 2 * n >= sub.stamp
        /\ Becomes(h, [handler[h] EXCEPT !.pc = IF OlderTransaction(said) THEN "ask" ELSE "write"])
        /\ UNCHANGED notes
  /\ UNCHANGED <<world, phoneOwes, sub>>

\* Mutant: the row is written without the condition on its stamp.
AnyNote(n) == n \in ChangeIds

NoLaterNote(n) == sub.stamp <= 2 * n

(* updateMany ... where lastNotificationAt is null or not later than the stamp. *)
WriteNote(h) ==
  LET n == handler[h].note IN
  /\ handler[h].pc = "write"
  /\ sub' = IF NoLaterNote(n)
              THEN [sub EXCEPT !.state = notes[n].said, !.stamp = 2 * n, !.fresh = TRUE]
              ELSE sub
  /\ Becomes(h, ToMark(n))
  /\ UNCHANGED <<world, notes, phoneOwes>>

CloseNote(h) ==
  /\ handler[h].pc = "mark"
  /\ Processed(handler[h].note) /\ Becomes(h, NoErrand)
  /\ UNCHANGED <<world, phoneOwes, sub>>

-----------------------------------------------------------------------------
\* Mutant: only what is active is asked about again.
StaleWhileActive == sub.known /\ ~sub.fresh /\ sub.state.status = "ACTIVE"

(* staleSubscriptionIds: the window of sixty days is not reached. *)
IsStale ==
  /\ sub.known
  /\ \/ /\ ~sub.fresh
        /\ \/ sub.state.status = "ACTIVE"
           \/ sub.state.status = "EXPIRED" /\ sub.state.auto
           \/ sub.state.status = "REVOKED" /\ ~sub.held
     \/ sub.state.status = "ACTIVE" /\ sub.state.until <= today

BeginAsk(h, phone) ==
  /\ handler[h].pc = "idle"
  /\ Becomes(h, [NoErrand EXCEPT !.pc = "ask", !.now = Clock, !.phone = phone])
  /\ UNCHANGED <<world, notes, phoneOwes, sub>>

Report(h) == phoneOwes /\ BeginAsk(h, TRUE)  \* registerAppleTransaction
Sweep(h) == IsStale /\ BeginAsk(h, FALSE)      \* reconcile from the sweep

(* subscriptionState: Apple answers with what holds at that moment. *)
AppleAnswers(h) ==
  /\ handler[h].pc = "ask"
  /\ Becomes(h, [handler[h] EXCEPT !.pc = "store", !.answer = apple])
  /\ UNCHANGED <<world, notes, phoneOwes, sub>>

(* ... or does not: nothing changes, and a notification is closed all the same. *)
AppleFails(h) ==
  LET n == handler[h].note IN
  /\ handler[h].pc = "ask"
  /\ Becomes(h, ToMark(n))
  /\ UNCHANGED <<world, notes, phoneOwes, sub>>

(* persist: no condition on the row it replaces. *)
Store(h) ==
  /\ handler[h].pc = "store"
  /\ sub' = [sub EXCEPT !.known = TRUE, !.state = handler[h].answer,
                        !.stamp = handler[h].now, !.fresh = TRUE]
  /\ phoneOwes' = (phoneOwes /\ ~handler[h].phone)
  /\ Becomes(h, ToMark(handler[h].note))
  /\ UNCHANGED <<world, notes>>

(* reconcileAfterHours pass since lastVerifiedAt. *)
GrowStale ==
  /\ sub.fresh
  /\ sub' = [sub EXCEPT !.fresh = FALSE]
  /\ UNCHANGED <<world, notes, phoneOwes, handler>>

(* The operator takes the access away, gives it back with a reconciliation,
   or only asks for one (billing-ops.controller.ts).                         *)
Revoke ==
  /\ sub.known /\ operator < MaxOperator
  /\ sub' = [sub EXCEPT !.held = TRUE, !.state.status = "REVOKED"]
  /\ operator' = operator + 1
  /\ UNCHANGED <<apple, today, changes, returns, failures, notes, phoneOwes, handler>>

OperatorAsks(h) ==
  /\ sub.known /\ operator < MaxOperator
  /\ handler[h].pc = "idle"
  /\ sub' \in {sub, [sub EXCEPT !.held = FALSE]}
  /\ Becomes(h, [NoErrand EXCEPT !.pc = "ask", !.now = Clock])
  /\ operator' = operator + 1
  /\ UNCHANGED <<apple, today, changes, returns, failures, notes, phoneOwes>>

(* The server restarts: every request under way is gone. *)
ServerFails ==
  /\ failures < MaxFailures
  /\ \E h \in Errands : handler[h].pc # "idle"
  /\ failures' = failures + 1
  /\ handler' = [h \in Errands |-> NoErrand]
  /\ UNCHANGED <<apple, today, changes, returns, operator, notes, phoneOwes, sub>>

AppleNext == PeriodEnds \/ RetryEnds \/ SwitchRenewal \/ Refund \/ RefundOld \/ BuyAgain
RequestNext(h) ==
  \/ \E n \in ChangeIds : Receive(h, n)
  \/ Examine(h) \/ WriteNote(h) \/ CloseNote(h)
  \/ Report(h) \/ Sweep(h) \/ OperatorAsks(h)
  \/ AppleAnswers(h) \/ AppleFails(h) \/ Store(h)
SubNext == AppleNext \/ (\E h \in Errands : RequestNext(h)) \/ GrowStale \/ Revoke \/ ServerFails

SubSpec == SubInit /\ [][SubNext]_payVars

(* Requests end, the sweep comes round, the telephone repeats its report, and
   Apple answers again and again; nothing is promised of notifications.      *)
Continues(h) ==
  Examine(h) \/ WriteNote(h) \/ CloseNote(h) \/ Store(h) \/ AppleAnswers(h) \/ AppleFails(h)
SubFair ==
  /\ \A h \in Errands : WF_payVars(Continues(h))
  /\ SF_payVars(\E h \in Errands : AppleAnswers(h))
  /\ SF_payVars(\E h \in Errands : Report(h))
  /\ SF_payVars(\E h \in Errands : Sweep(h))
  /\ WF_payVars(GrowStale)
SubFairSpec == SubSpec /\ SubFair

-----------------------------------------------------------------------------
(* A notification never replaces what a later signed one has stored, though
   two are handled at the same time (the check in the where, :757-790).      *)
LatestNoteWins ==
  [][\A h \in Errands, n \in ChangeIds :
       WriteNote(h) /\ handler[h].note < n /\ sub.stamp = 2 * n => sub'.state = sub.state]_payVars

(* The access of the household becomes what Apple says and stays so, even if
   every notification is lost (reconcile and staleSubscriptionIds, :898-1030).
   Left wrong for good may only be a row that says "ended, will not renew"
   of a person who has bought again.                                         *)
AccessSettles ==
  <>[](\/ sub.held
       \/ Alive(sub) <=> Paid
       \/ returns > 0 /\ sub.state.status = "EXPIRED" /\ ~sub.state.auto)

(* What the sweep is for: a live subscription is asked about again and again,
   so whoever pays ends up with access (subscriptions-reconcile.service.ts:21-26). *)
PaidIsSeen == <>[](Paid => sub.held \/ Alive(sub))
=============================================================================
