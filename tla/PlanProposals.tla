---------------------------- MODULE PlanProposals ----------------------------
(* Cards of the assistant that change the weekly plan: AgentProposalsService  *)
(* apply and undo (src/src/agent/proposals/agent-proposals.service.ts) inside *)
(* WeeklyPlansService.applyWeekPlan, over one week of one household that      *)
(* people also edit by hand.                                                  *)
(*                                                                           *)
(* A click loads the proposal, decides from that row, and runs one            *)
(* SERIALIZABLE transaction under the week's lock: OpenClick takes its snapshot,  *)
(* and Apply or Undo writes plan, card and quota together.  Every writer of   *)
(* the week updates the week's row first, and every writer of the card the    *)
(* card's row, so a snapshot older than such a write is refused (`rival`) and *)
(* taken again; the conversation's messages are under no such lock.  Marking  *)
(* a card after a refusal is a step of its own, outside the transaction.      *)
(* A week is an opaque content here; its slots are module WeekPlan.           *)
EXTENDS Integers, FiniteSets

CONSTANTS
    Clicks,     \* requests: apply, apply in spite of changes, or undo
    Proposals,
    Contents,   \* what the week may hold
    FirstWeek,  \* what it holds at first
    PlansLimit, \* plansLimit of the quota
    ClickRetries,    \* maxRetries of runSerializable
    MaxEdits,   \* bound: edits of the week by hand
    MaxStamp    \* bound: applications of each proposal

ASSUME ProposalsAssumption ==
    /\ FirstWeek \in Contents /\ PlansLimit \in Nat /\ ClickRetries \in Nat
    /\ MaxEdits \in Nat /\ MaxStamp \in Nat /\ Proposals # {}

(* The rows of a table.                                                       *)
ASSUME FinitelyManyProposals == IsFiniteSet(Proposals)

VARIABLES
    week,   \* PlanItem rows of the week
    card,   \* AgentProposal rows
    retracted, \* the proposals whose question was withdrawn (hiddenAt)
    plans,  \* the quota counter
    click,
    edits

cardVars == <<week, card, retracted, plans, click, edits>>

Unset == "unset"
Statuses == {"none", "PENDING", "APPLIED", "UNDONE", "STALE", "FAILED", "EXPIRED"}
REAPPLICABLE_STATUSES == {"PENDING", "UNDONE", "FAILED", "STALE"}
Kinds == {"apply", "force", "undo"}
ClickSteps == {"idle", "begin", "open", "mark"}

(* before: history, what the week held when the proposal was last applied.    *)
Cards == [status : Statuses, action : Contents, baseline : Contents,
          snapshot : Contents \union {Unset}, applied : Contents \union {Unset},
          stamp : Nat, charged : BOOLEAN, before : Contents \union {Unset}]

(* card: the row as the click loaded it; withdrawn: whether the question was  *)
(* already withdrawn when the snapshot was taken; knew: when the click came.  *)
ClickRecords == [pc : ClickSteps, kind : Kinds, of : Proposals, card : Cards,
                 withdrawn : BOOLEAN, knew : BOOLEAN, rival : BOOLEAN,
                 tries : Nat, mark : Statuses]

Blank == [status |-> "none", action |-> FirstWeek, baseline |-> FirstWeek,
          snapshot |-> Unset, applied |-> Unset, stamp |-> 0, charged |-> FALSE,
          before |-> Unset]

Waiting == [pc |-> "idle", kind |-> "apply", of |-> CHOOSE x \in Proposals : TRUE,
            card |-> Blank, withdrawn |-> FALSE, knew |-> FALSE, rival |-> FALSE,
            tries |-> 0, mark |-> "none"]

CardsInit ==
    /\ week = FirstWeek
    /\ card = [x \in Proposals |-> Blank]
    /\ retracted = {}
    /\ plans = 0
    /\ click = [c \in Clicks |-> Waiting]
    /\ edits = 0

(* The request is answered, and its sender may click again.                   *)
EndClick(c) == click' = [click EXCEPT ![c] = Waiting]

(* A refusal or a failure first marks the card.                               *)
ToMark(r, status) ==
    [Waiting EXCEPT !.pc = "mark", !.of = r.of, !.card.status = r.card.status, !.mark = status]

EndMarking(c, status) == click' = [click EXCEPT ![c] = ToMark(@, status)]

(* Open transactions that read the week's row or the card of x before this    *)
(* write of it are out of date.                                               *)
Overtakes(r, all, x) == r.pc = "open" /\ (all \/ r.of = x)

Outdate(clicks, all, x) ==
    [c \in Clicks |-> IF Overtakes(clicks[c], all, x)
                      THEN [clicks[c] EXCEPT !.rival = TRUE] ELSE clicks[c]]

-----------------------------------------------------------------------------
(* The rest of the house, and the assistant itself.                           *)

(* A turn proposes a new content for the week it has just read, and shows it. *)
Propose(x) ==
    /\ card[x].status = "none"
    /\ \E action \in Contents :
          card' = [card EXCEPT ![x] = [@ EXCEPT !.status = "PENDING",
                                                !.action = action, !.baseline = week]]
    /\ UNCHANGED <<week, retracted, plans, click, edits>>

(* Any other writer of the week, under the same lock.                         *)
EditByHand ==
    /\ edits < MaxEdits /\ edits' = edits + 1
    /\ week' \in Contents \ {week}
    /\ click' = [c \in Clicks |-> IF click[c].pc = "open"
                                  THEN [click[c] EXCEPT !.rival = TRUE] ELSE click[c]]
    /\ UNCHANGED <<card, retracted, plans>>

(* editMessage withdraws the question, and when its own message is accepted   *)
(* makes the pending cards stale: two statements, no transaction.             *)
Withdraw(x) ==
    /\ card[x].status # "none" /\ x \notin retracted
    /\ retracted' = retracted \union {x}
    /\ UNCHANGED <<week, card, plans, click, edits>>

StaleWithdrawn(x) ==
    /\ x \in retracted /\ card[x].status = "PENDING"
    /\ card' = [card EXCEPT ![x].status = "STALE"]
    /\ click' = Outdate(click, FALSE, x)
    /\ UNCHANGED <<week, retracted, plans, edits>>

-----------------------------------------------------------------------------
(* A click.                                                                   *)

(* loadOwned and the decisions made from the loaded row.  `expired` is the    *)
(* clock: the proposal's 72 hours, or the time in which it may be undone.  A  *)
(* click that is answered from the row alone changes nothing and is no step.  *)
Load(c) ==
    /\ click[c].pc = "idle"
    /\ \E x \in Proposals, kind \in Kinds, expired \in BOOLEAN :
          LET row == [card[x] EXCEPT !.before = Unset]
              opened == [Waiting EXCEPT !.pc = "begin", !.kind = kind, !.of = x,
                                        !.card = row, !.knew = x \in retracted]
          IN  /\ row.status # "none"
              /\ IF kind = "undo"
                 THEN /\ row.status = "APPLIED" /\ ~expired
                      /\ row.applied # Unset /\ row.snapshot # Unset
                 ELSE /\ row.status \in REAPPLICABLE_STATUSES
                      /\ row.status = "STALE" => kind = "force"
              /\ click' = [click EXCEPT ![c] =
                             IF expired
                             THEN ToMark(opened, "EXPIRED")
                             ELSE opened]
    /\ UNCHANGED <<week, card, retracted, plans, edits>>

(* The transaction starts and its snapshot is taken.                          *)
OpenClick(c) ==
    /\ click[c].pc = "begin"
    /\ click' = [click EXCEPT ![c].pc = "open", ![c].rival = FALSE,
                              ![c].withdrawn = click[c].of \in retracted]
    /\ UNCHANGED <<week, card, retracted, plans, edits>>

(* The snapshot is older than somebody's write: again, or give up.  An undo   *)
(* that gives up marks nothing.                                               *)
Retry(c) ==
    /\ click[c].pc = "open" /\ click[c].rival
    /\ IF click[c].tries < ClickRetries
       THEN click' = [click EXCEPT ![c].pc = "begin", ![c].tries = @ + 1]
       ELSE IF click[c].kind = "undo" THEN EndClick(c) ELSE EndMarking(c, "FAILED")
    /\ UNCHANGED <<week, card, retracted, plans, edits>>

(* The domain refuses (membership, allergens, a recipe that is gone), or the  *)
(* transaction breaks down: all of it is rolled back.                         *)
BreakDown(c) ==
    /\ click[c].pc = "open"
    /\ \/ EndClick(c)
       \/ click[c].kind # "undo" /\ \E how \in {"STALE", "FAILED"} : EndMarking(c, how)
    /\ UNCHANGED <<week, card, retracted, plans, edits>>

(* The card no longer has the status, or the application, the click loaded.   *)
Superseded(c) ==
    LET row == card[click[c].of]
    IN  \/ row.status # click[c].card.status
        \/ click[c].kind = "undo" /\ row.stamp # click[c].card.stamp

(* Somebody else's click won; their outcome is the answer.                    *)
LoseRace(c) ==
    /\ click[c].pc = "open" /\ ~click[c].rival /\ Superseded(c)
    /\ EndClick(c)
    /\ UNCHANGED <<week, card, retracted, plans, edits>>

\* Mutant: only the question is looked at, not the week.
OnlyWithdrawn(c) == click[c].withdrawn

(* The question was withdrawn, or the week is no longer the one the card was  *)
(* computed for.  Only the latter can be forced.                              *)
GuardRefuses(c) ==
    \/ click[c].withdrawn
    \/ click[c].kind # "force" /\ week # click[c].card.baseline

OutOfQuota(c) == week # click[c].card.action /\ plans >= PlansLimit

RefuseApply(c) ==
    /\ click[c].pc = "open" /\ ~click[c].rival /\ ~Superseded(c)
    /\ click[c].kind # "undo"
    /\ \/ GuardRefuses(c) /\ EndMarking(c, "STALE")
       \/ ~GuardRefuses(c) /\ OutOfQuota(c) /\ EndClick(c)
    /\ UNCHANGED <<week, card, retracted, plans, edits>>

(* The card after an application that turned the week `was` into `is`.         *)
Accepted(row, was, is, changed) ==
    [row EXCEPT !.status = "APPLIED", !.snapshot = was, !.applied = is, !.stamp = @ + 1,
                !.charged = changed, !.before = was]

(* Plan, card and quota in one commit.  The answer may still be lost to an    *)
(* error of the reads that follow it, which marks the card as after a failure.*)
Apply(c) ==
    LET x == click[c].of
        changed == week # click[c].card.action
    IN  /\ click[c].pc = "open" /\ ~click[c].rival /\ ~Superseded(c)
        /\ click[c].kind # "undo" /\ ~GuardRefuses(c) /\ ~OutOfQuota(c)
        /\ card[x].stamp < MaxStamp
        /\ week' = click[c].card.action
        /\ card' = [card EXCEPT ![x] = Accepted(@, week, week', changed)]
        /\ plans' = IF changed THEN plans + 1 ELSE plans
        /\ \E lost \in BOOLEAN :
              click' = Outdate([click EXCEPT ![c] =
                                  IF lost THEN ToMark(@, "FAILED")
                                  ELSE Waiting], TRUE, x)
        /\ UNCHANGED <<retracted, edits>>

Refunded(c) == IF click[c].card.charged THEN plans - 1 ELSE plans

(* Undo writes back the week the loaded row remembers, if the week is still   *)
(* what the application left, and hands the quota back.                       *)
Undo(c) ==
    LET x == click[c].of
    IN  /\ click[c].pc = "open" /\ ~click[c].rival /\ ~Superseded(c)
        /\ click[c].kind = "undo"
        /\ IF week # click[c].card.applied
           THEN EndClick(c) /\ UNCHANGED <<week, card, plans>>
           ELSE /\ week' = click[c].card.snapshot
                /\ card' = [card EXCEPT ![x].status = "UNDONE", ![x].charged = FALSE]
                /\ plans' = Refunded(c)
                /\ click' = Outdate([click EXCEPT ![c] = Waiting], TRUE, x)
        /\ UNCHANGED <<retracted, edits>>

StillAsLoaded(c) == card[click[c].of].status = click[c].card.status

(* markStatusFrom: only if the card still has the status the click loaded.    *)
Mark(c) ==
    LET x == click[c].of
    IN  /\ click[c].pc = "mark"
        /\ IF StillAsLoaded(c)
           THEN /\ card' = [card EXCEPT ![x].status = click[c].mark]
                /\ click' = Outdate([click EXCEPT ![c] = Waiting], FALSE, x)
           ELSE EndClick(c) /\ UNCHANGED card
        /\ UNCHANGED <<week, retracted, plans, edits>>

Click(c) ==
    \/ Load(c) \/ OpenClick(c) \/ Retry(c) \/ BreakDown(c) \/ LoseRace(c)
    \/ RefuseApply(c) \/ Apply(c) \/ Undo(c) \/ Mark(c)

Others(x) == Propose(x) \/ Withdraw(x) \/ StaleWithdrawn(x)

CardsNext ==
    \/ \E c \in Clicks : Click(c)
    \/ \E x \in Proposals : Others(x)
    \/ EditByHand

CardsSpec == CardsInit /\ [][CardsNext]_cardVars

-----------------------------------------------------------------------------
ProposalsTypeOK ==
    /\ week \in Contents
    /\ card \in [Proposals -> Cards]
    /\ retracted \subseteq Proposals
    /\ plans \in Int
    /\ click \in [Clicks -> ClickRecords]
    /\ edits \in 0..MaxEdits

(* The quota counts exactly the applications that stand and changed the plan, *)
(* after any sequence of double clicks, conflicts, refusals, undos and        *)
(* renewed applications ("nie ma ... kwoty bez zapisu").                      *)
QuotaMatchesPlans ==
    plans = Cardinality({x \in Proposals : card[x].status = "APPLIED" /\ card[x].charged})

(* A late refusal never takes an application away: a card leaves APPLIED only *)
(* when its plan is undone ("spozniona odmowa nadpisalaby cudzy, zatwierdzony *)
(* juz zapis").                                                               *)
OnlyUndoEndsApplied ==
    [][\A x \in Proposals : card[x].status = "APPLIED" => card'[x].status \in {"APPLIED", "UNDONE"}]_cardVars

(* An undo puts the week back to what it was at the moment of the application *)
(* it undoes, whatever happened between the click on the card and that        *)
(* application, and whatever was applied or undone since.                     *)
UndoRestoresWhatWas ==
    [][\A x \in Proposals :
          card[x].status = "APPLIED" /\ card'[x].status = "UNDONE"
          => week' = card[x].before]_cardVars

(* Work of others is not overwritten unseen: a card changes the week only     *)
(* from the content it was computed for, unless the user forces it, and an    *)
(* undo only from the content its application left.                           *)
NothingOverwrittenUnseen ==
    [][\A x \in Proposals :
          /\ card'[x].stamp > card[x].stamp =>
                week = card[x].baseline
                \/ \E c \in Clicks : click[c].kind = "force" /\ click[c].of = x
                                     /\ click[c].pc = "open"
          /\ card[x].status = "APPLIED" /\ card'[x].status = "UNDONE" =>
                week = card[x].applied]_cardVars

(* Nobody applies a card whose question had been withdrawn before they        *)
(* clicked, not even by force: the fingerprint of the plan cannot tell.       *)
WithdrawnIsNotApplied ==
    [][\A c \in Clicks :
          click[c].pc = "open" /\ click[c].knew
          /\ card'[click[c].of].stamp > card[click[c].of].stamp
          => \E d \in Clicks \ {c} : click[d].pc = "open" /\ click[d].of = click[c].of
                                     /\ ~click[d].knew]_cardVars

(* All of it, for a card from its proposal to its last undo                    *)
(* (agent-proposals.service.ts:1158-1620).                                    *)
CardsKeepFaith ==
    /\ OnlyUndoEndsApplied /\ UndoRestoresWhatWas
    /\ NothingOverwrittenUnseen /\ WithdrawnIsNotApplied
    /\ []QuotaMatchesPlans
=============================================================================
