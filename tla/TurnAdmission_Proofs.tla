------------------------ MODULE TurnAdmission_Proofs ------------------------
(***************************************************************************)
(* What the admission of messages promises for any number of requests,     *)
(* messages, conversations and households (agent-turns.service.ts:199-262, *)
(* 434-612): one turn of a conversation at a time, the semaphore, the      *)
(* ceilings, the quota, refused edits that leave no trace, and that        *)
(* together the transactions implement AdmissionContract, where a turn     *)
(* starts in one step.                                                     *)
(*                                                                         *)
(* All but the edits rest on what a start that may still commit knows.     *)
(* Every turn that runs in its conversation is one that it closes          *)
(* (SeesRunning) and the other way round (ClosingRuns); and what it        *)
(* counted - live turns, and what is held back for its household, for the  *)
(* trials or for all - still leaves room for one more turn (SlotRoom,      *)
(* HouseRoom, TrialRoom, NearRoom, QuotaRoom), because a start that        *)
(* counted less than somebody has committed since became a rival.  Only a  *)
(* start that found the installation's ceiling far has not counted:        *)
(* FarBound says how far the starts since may have taken it.  Edits rest   *)
(* on whose stamp hides a message (StampsAreOpen): one that is under way,  *)
(* was accepted or still has to take its stamp back.                       *)
(*                                                                         *)
(* Every step is one of three (StepShape): a request goes on, turns grow   *)
(* old, spend and end, or a start commits.  Of a live turn the whole       *)
(* reservation counts as held, so only a commit adds to what is held.  A   *)
(* commit is the start of the contract: what makes room in the contract's  *)
(* sense is what the start has counted, since those it closes are exactly  *)
(* those that run in its conversation and have not spent since.            *)
(***************************************************************************)
EXTENDS TurnAdmission, FiniteSetTheorems, TLAPS

ReqRecords ==
    [pc : RequestSteps, message : Messages, near : BOOLEAN, closing : SUBSET Messages,
     rival : BOOLEAN, since : Nat, tries : 0..Retries]

Types ==
    /\ turn \in [Messages -> TurnStates]
    /\ hidden \in [Conversations -> Requests \union {Nobody}]
    /\ req \in [Requests -> ReqRecords]

OnlyEditsHide == \A p \in Requests : req[p].pc \in {"find", "hide"} => p \in Edits

StampsAreOpen ==
    \A c \in Conversations : hidden[c] # Nobody =>
        /\ hidden[c] \in Edits
        /\ ConversationOf[req[hidden[c]].message] = c
        /\ req[hidden[c]].pc \notin {"find", "hide", "refused"}

RunningIn(turns, c) == {m \in Messages : turns[m] \in {"live", "late"} /\ ConversationOf[m] = c}

Sees(r, turns) ==
    r.pc = "commit" /\ ~r.rival => RunningIn(turns, ConversationOf[r.message]) \subseteq r.closing

SeesRunning == \A p \in Requests : Sees(req[p], turn)

AtMostOne ==
    \A m, n \in Messages :
        /\ turn[m] \in {"live", "late"} /\ turn[n] \in {"live", "late"}
        /\ ConversationOf[m] = ConversationOf[n]
        => m = n

AdmissionInv == Types /\ OnlyEditsHide /\ StampsAreOpen /\ SeesRunning /\ AtMostOne

(* What is held back for the turns of S, the turns `closing` counted as closed, *)
(* for any value of the three variables.                                       *)
HeldBy(turns, costs, lates, S, closing) ==
    {u \in S \X (1..Reserve) :
        /\ u[2] \notin lates[u[1]]
        /\ (turns[u[1]] = "live" /\ u[1] \notin closing) \/ u[2] <= costs[u[1]]}

LiveBy(turns, h, closing) == {m \in OfHome(h) : turns[m] = "live" /\ m \notin closing}

(* A start that commits unless somebody gets in its way.                       *)
Ready(r) == r.pc = "commit" /\ ~r.rival

(* A start that found the installation's ceiling far.                          *)
Far(r) == r.pc \in {"begin", "commit", "accepted"} /\ ~r.near

(* What a ready start has counted still holds when it commits.                 *)
ClosesRunning(r, turns) ==
    Ready(r) => \A m \in r.closing : turns[m] \in {"live", "late"}
                                     /\ ConversationOf[m] = ConversationOf[r.message]
SlotRoom(r, turns) ==
    Ready(r) /\ HouseLimit > 0 =>
        Cardinality(LiveBy(turns, Home(r.message), r.closing)) < HouseLimit
HouseRoom(r, turns, costs, lates) ==
    Ready(r) => Cardinality(HeldBy(turns, costs, lates, OfHome(Home(r.message)), r.closing))
                  < HouseBudget
TrialRoom(r, turns, costs, lates) ==
    Ready(r) /\ Home(r.message) \in Trials =>
        Cardinality(HeldBy(turns, costs, lates, OfTrials, r.closing)) < TrialBudget
QuotaRoom(r, counters, costs) ==
    Ready(r) => counters[Home(r.message)] - Cardinality({m \in r.closing : costs[m] = 0})
                  < QuotaLimit
NearRoom(r, turns, costs, lates) ==
    Ready(r) /\ r.near =>
        Cardinality(HeldBy(turns, costs, lates, Messages, r.closing)) < Budget

(* What is held passes what a far start saw by the starts since.               *)
FarBound(r, turns, costs, lates) ==
    Far(r) => Cardinality(HeldBy(turns, costs, lates, Messages, {})) + Band
                <= Budget + Reserve * r.since

MoneyTypes ==
    /\ cost \in [Messages -> 0..Reserve]
    /\ overdue \in [Messages -> SUBSET (1..Reserve)]
    /\ \A m \in Messages : turn[m] = "none" => cost[m] = 0

ClosingRuns == \A p \in Requests : ClosesRunning(req[p], turn)

SlotsInv == HouseSemaphore /\ \A p \in Requests : SlotRoom(req[p], turn)
HouseInv == HouseBudgetHolds /\ \A p \in Requests : HouseRoom(req[p], turn, cost, overdue)
TrialInv == TrialBudgetHolds /\ \A p \in Requests : TrialRoom(req[p], turn, cost, overdue)

FarAccepted == \E p \in Requests : req[p].pc = "accepted" /\ ~req[p].near

InstallationInv ==
    /\ \A p \in Requests : FarBound(req[p], turn, cost, overdue)
    /\ \/ FarAccepted
       \/ /\ Committed(Messages) < Budget + Reserve
          /\ \A p \in Requests : NearRoom(req[p], turn, cost, overdue)

-----------------------------------------------------------------------------
(* What the operators of the module do to the record of a request.            *)

LEMMA OverType ==
    ASSUME NEW r \in ReqRecords, NEW step \in RequestSteps
    PROVE  /\ Over(r, step) \in ReqRecords
           /\ Over(r, step).pc = step /\ Over(r, step).message = r.message
           /\ Over(r, step).near = r.near /\ Over(r, step).since = r.since
<1> DEFINE tries == IF step = "begin" THEN r.tries ELSE 0
<1>1. tries \in 0..Retries
  BY AdmissionAssumption DEF ReqRecords
<1>2. Over(r, step) = [r EXCEPT !.pc = step, !.closing = {}, !.rival = FALSE,
                                !.tries = tries]
  BY DEF Over
<1> HIDE DEF tries
<1> QED BY <1>1, <1>2 DEF ReqRecords

LEMMA StartedType ==
    ASSUME NEW r \in ReqRecords
    PROVE  LET s == Started(r) IN
           /\ s \in ReqRecords /\ s.pc = r.pc /\ s.message = r.message
           /\ s.closing = r.closing /\ s.rival = r.rival /\ s.near = r.near
           /\ Far(r) => s.since = r.since + 1
<1>1. r.since + 1 \in Nat
  BY DEF ReqRecords
<1> QED BY <1>1 DEF Started, ReqRecords, Far

LEMMA CheckedType ==
    ASSUME NEW r \in ReqRecords, NEW near \in BOOLEAN
    PROVE  LET s == [r EXCEPT !.pc = "begin", !.near = near, !.since = 0] IN
           /\ s \in ReqRecords /\ s.pc = "begin" /\ s.message = r.message
           /\ s.near = near /\ s.since = 0
<1>1. "begin" \in RequestSteps
  BY DEF RequestSteps
<1> QED BY <1>1 DEF ReqRecords

LEMMA BegunType ==
    ASSUME NEW r \in ReqRecords, NEW closing \in SUBSET Messages
    PROVE  LET s == [r EXCEPT !.pc = "commit", !.closing = closing, !.rival = FALSE] IN
           /\ s \in ReqRecords /\ s.pc = "commit" /\ s.message = r.message
           /\ s.closing = closing /\ s.near = r.near /\ s.since = r.since
<1>1. "commit" \in RequestSteps
  BY DEF RequestSteps
<1> QED BY <1>1 DEF ReqRecords

LEMMA RivalType ==
    ASSUME NEW r \in ReqRecords, NEW rival \in BOOLEAN
    PROVE  LET s == [r EXCEPT !.rival = rival] IN
           /\ s \in ReqRecords /\ s.pc = r.pc /\ s.message = r.message
           /\ s.closing = r.closing /\ s.rival = rival
           /\ s.near = r.near /\ s.since = r.since
BY DEF ReqRecords

LEMMA AgainType ==
    ASSUME NEW r \in ReqRecords, NEW tries \in 0..Retries
    PROVE  LET s == [r EXCEPT !.tries = tries] IN
           /\ s \in ReqRecords /\ s.message = r.message
           /\ s.near = r.near /\ s.since = r.since
BY DEF ReqRecords

-----------------------------------------------------------------------------
(* One request goes on as r; no turn and no stamp changes.                     *)
LEMMA MovesKeep ==
    ASSUME AdmissionInv, NEW p \in Requests, NEW r \in ReqRecords, r.message = req[p].message,
           req' = [req EXCEPT ![p] = r], UNCHANGED <<turn, hidden>>,
           r.pc \in {"find", "hide"} => p \in Edits,
           p # Nobody /\ hidden[ConversationOf[req[p].message]] = p =>
                r.pc \notin {"find", "hide", "refused"},
           Sees(r, turn)
    PROVE  AdmissionInv'
<1>1. req'[p] = r /\ \A q \in Requests \ {p} : req'[q] = req[q]
  BY DEF AdmissionInv, Types
<1>2. Types'
  BY DEF AdmissionInv, Types
<1>3. OnlyEditsHide'
  BY <1>1 DEF AdmissionInv, OnlyEditsHide
<1>4. StampsAreOpen'
  <2> SUFFICES ASSUME NEW c \in Conversations, hidden[c] # Nobody
               PROVE  /\ hidden[c] \in Edits
                      /\ ConversationOf[req'[hidden[c]].message] = c
                      /\ req'[hidden[c]].pc \notin {"find", "hide", "refused"}
    BY DEF StampsAreOpen
  <2>1. /\ hidden[c] \in Edits /\ hidden[c] \in Requests
        /\ ConversationOf[req[hidden[c]].message] = c
        /\ req[hidden[c]].pc \notin {"find", "hide", "refused"}
    BY DEF AdmissionInv, StampsAreOpen, Types
  <2> QED BY <1>1, <2>1
<1>5. SeesRunning'
  BY <1>1 DEF AdmissionInv, SeesRunning
<1>6. AtMostOne'
  BY DEF AdmissionInv, AtMostOne
<1> QED BY <1>2, <1>3, <1>4, <1>5, <1>6 DEF AdmissionInv

LEMMA GotoKeeps ==
    ASSUME AdmissionInv, NEW p \in Requests, NEW step \in RequestSteps, Goto(p, step),
           UNCHANGED <<turn, hidden>>,
           step \notin {"find", "commit"}, step = "hide" => p \in Edits,
           p # Nobody /\ hidden[ConversationOf[req[p].message]] = p =>
                step \notin {"hide", "refused"}
    PROVE  AdmissionInv'
<1> DEFINE r == Over(req[p], step)
<1>1. req[p] \in ReqRecords
  BY DEF AdmissionInv, Types
<1>2. r \in ReqRecords /\ r.pc = step /\ r.message = req[p].message
  BY <1>1, OverType
<1>3. req' = [req EXCEPT ![p] = r]
  BY DEF Goto, AdmissionInv, Types
<1> HIDE DEF r
<1>4. Sees(r, turn)
  BY <1>2 DEF Sees
<1> QED BY <1>2, <1>3, <1>4, MovesKeep

(* A refusal: an edit that has hidden its message goes on to take that back.   *)
LEMMA RefuseKeeps ==
    ASSUME AdmissionInv, NEW p \in Requests, Refuse(p), UNCHANGED <<turn, hidden>>
    PROVE  AdmissionInv'
<1> DEFINE step == IF p \in Edits THEN "undo" ELSE "refused"
<1>1. step \in RequestSteps
  BY DEF RequestSteps, Answered
<1>2. Goto(p, step)
  BY DEF Refuse
<1>3. p # Nobody /\ hidden[ConversationOf[req[p].message]] = p => p \in Edits
  <2>1. ConversationOf[req[p].message] \in Conversations
    BY AdmissionAssumption DEF AdmissionInv, Types, ReqRecords
  <2> QED BY <2>1 DEF AdmissionInv, StampsAreOpen
<1>4. step \in {"undo", "refused"} /\ (p \in Edits => step = "undo")
  OBVIOUS
<1> HIDE DEF step
<1> QED BY <1>1, <1>2, <1>3, <1>4, GotoKeeps

(* Turns grow old or end and starts become rivals: fewer turns run.            *)
LEMMA FewerRun ==
    ASSUME AdmissionInv, UNCHANGED hidden, turn' \in [Messages -> TurnStates],
           req' \in [Requests -> ReqRecords],
           \A m \in Messages : turn'[m] \in {"live", "late"} => turn[m] \in {"live", "late"},
           \A q \in Requests : /\ req'[q].pc = req[q].pc
                               /\ req'[q].message = req[q].message
                               /\ req'[q].closing = req[q].closing
                               /\ req[q].rival => req'[q].rival
    PROVE  AdmissionInv'
<1>1. Types'
  BY DEF AdmissionInv, Types
<1>2. OnlyEditsHide'
  BY DEF AdmissionInv, OnlyEditsHide
<1>3. StampsAreOpen'
  <2> SUFFICES ASSUME NEW c \in Conversations, hidden[c] # Nobody
               PROVE  /\ hidden[c] \in Edits
                      /\ ConversationOf[req'[hidden[c]].message] = c
                      /\ req'[hidden[c]].pc \notin {"find", "hide", "refused"}
    BY DEF StampsAreOpen
  <2> QED BY DEF AdmissionInv, StampsAreOpen, Types
<1>4. SeesRunning'
  BY DEF AdmissionInv, SeesRunning, Sees, RunningIn
<1>5. AtMostOne'
  BY DEF AdmissionInv, AtMostOne
<1> QED BY <1>1, <1>2, <1>3, <1>4, <1>5 DEF AdmissionInv

-----------------------------------------------------------------------------
(* The steps of a request.                                                     *)

LEMMA InitHolds == AdmissionInit => AdmissionInv
<1> SUFFICES ASSUME AdmissionInit PROVE AdmissionInv
  OBVIOUS
<1> PICK messageOf \in Sendings :
      req = [p \in Requests |->
               [pc |-> IF p \in Edits THEN "find" ELSE "new",
                message |-> messageOf[p], near |-> FALSE, closing |-> {},
                rival |-> FALSE, since |-> 0, tries |-> 0]]
  BY DEF AdmissionInit
<1>1. messageOf \in [Requests -> Messages]
  BY AdmissionAssumption
<1>2. {"find", "new"} \subseteq RequestSteps /\ "none" \in TurnStates
  BY DEF RequestSteps, TurnStates
<1>3. Types
  BY <1>1, <1>2, AdmissionAssumption DEF AdmissionInit, Types, ReqRecords
<1>4. OnlyEditsHide
  BY DEF OnlyEditsHide
<1>5. StampsAreOpen
  BY DEF AdmissionInit, StampsAreOpen
<1>6. SeesRunning
  BY DEF SeesRunning, Sees
<1>7. AtMostOne
  BY DEF AdmissionInit, AtMostOne
<1> QED BY <1>3, <1>4, <1>5, <1>6, <1>7 DEF AdmissionInv

LEMMA FindKeeps ==
    ASSUME AdmissionInv, NEW p \in Requests, FindEdited(p)
    PROVE  AdmissionInv'
<1>1. PICK step \in {"hide", "refused"} : Goto(p, step)
  BY DEF FindEdited
<1>2. step \in RequestSteps
  BY <1>1 DEF RequestSteps, Answered
<1>3. p \in Edits /\ req[p].pc = "find"
  BY DEF FindEdited, AdmissionInv, OnlyEditsHide
<1>4. ~(p # Nobody /\ hidden[ConversationOf[req[p].message]] = p)
  <2>1. ConversationOf[req[p].message] \in Conversations
    BY AdmissionAssumption DEF AdmissionInv, Types, ReqRecords
  <2> QED BY <1>3, <2>1 DEF AdmissionInv, StampsAreOpen
<1>5. UNCHANGED <<turn, hidden>>
  BY DEF FindEdited
<1> QED BY <1>1, <1>2, <1>3, <1>4, <1>5, GotoKeeps

(* A stamp is set or taken back by the edit p, which goes on to `step`.        *)
LEMMA StampKeeps ==
    ASSUME AdmissionInv, NEW p \in Requests, p \in Edits, NEW step \in RequestSteps,
           Goto(p, step), UNCHANGED turn, step \in {"new", "refused"},
           NEW stamp \in Requests \union {Nobody},
           hidden' = [hidden EXCEPT ![MyConversation(p)] = stamp],
           stamp = p => step = "new",
           stamp = p \/ stamp = Nobody \/ stamp = hidden[MyConversation(p)],
           step = "refused" => stamp # p
    PROVE  AdmissionInv'
<1> DEFINE r == Over(req[p], step)
           mine == MyConversation(p)
<1>1. req[p] \in ReqRecords
  BY DEF AdmissionInv, Types
<1>2. r \in ReqRecords /\ r.pc = step /\ r.message = req[p].message
  BY <1>1, OverType
<1>3. req' = [req EXCEPT ![p] = r]
  BY DEF Goto, AdmissionInv, Types
<1>4. mine \in Conversations /\ mine = ConversationOf[req[p].message]
  BY <1>1, AdmissionAssumption DEF MyConversation, Mine, ReqRecords
<1>5. hidden' = [hidden EXCEPT ![mine] = stamp]
  OBVIOUS
<1>6. stamp = hidden[mine] \/ stamp = p \/ stamp = Nobody
  OBVIOUS
<1> HIDE DEF r, mine
<1>7. req'[p] = r /\ \A q \in Requests \ {p} : req'[q] = req[q]
  BY <1>3 DEF AdmissionInv, Types
<1>8. Types'
  BY <1>2, <1>3, <1>4, <1>5 DEF AdmissionInv, Types
<1>9. OnlyEditsHide'
  BY <1>2, <1>7 DEF AdmissionInv, OnlyEditsHide
<1>10. StampsAreOpen'
  <2> SUFFICES ASSUME NEW c \in Conversations, hidden'[c] # Nobody
               PROVE  /\ hidden'[c] \in Edits
                      /\ ConversationOf[req'[hidden'[c]].message] = c
                      /\ req'[hidden'[c]].pc \notin {"find", "hide", "refused"}
    BY DEF StampsAreOpen
  <2>1. CASE c = mine /\ stamp = p
    BY <1>2, <1>4, <1>5, <1>7, <2>1 DEF AdmissionInv, Types
  <2>2. CASE c = mine /\ stamp # p
    <3>1. hidden'[c] = stamp /\ stamp = hidden[c]
      BY <1>4, <1>5, <1>6, <2>2 DEF AdmissionInv, Types
    <3>2. hidden[c] \in Requests \ {p}
      BY <2>2, <3>1 DEF AdmissionInv, Types
    <3> QED BY <1>7, <3>1, <3>2 DEF AdmissionInv, StampsAreOpen
  <2>3. CASE c # mine
    <3>1. hidden'[c] = hidden[c]
      BY <1>5, <2>3 DEF AdmissionInv, Types
    <3>2. hidden[c] # p
      BY <1>4, <2>3, <3>1 DEF AdmissionInv, StampsAreOpen
    <3>3. hidden[c] \in Requests \ {p}
      BY <3>1, <3>2 DEF AdmissionInv, Types
    <3> QED BY <1>7, <3>1, <3>3 DEF AdmissionInv, StampsAreOpen
  <2> QED BY <2>1, <2>2, <2>3
<1>11. SeesRunning'
  BY <1>2, <1>7 DEF AdmissionInv, SeesRunning, Sees
<1>12. AtMostOne'
  BY DEF AdmissionInv, AtMostOne
<1> QED BY <1>8, <1>9, <1>10, <1>11, <1>12 DEF AdmissionInv

LEMMA HideKeeps ==
    ASSUME AdmissionInv, NEW p \in Requests, HideEdited(p)
    PROVE  AdmissionInv'
<1>1. p \in Edits
  BY DEF HideEdited, AdmissionInv, OnlyEditsHide
<1>2. "new" \in RequestSteps
  BY DEF RequestSteps
<1> QED BY <1>1, <1>2, StampKeeps DEF HideEdited

LEMMA UndoKeeps ==
    ASSUME AdmissionInv, NEW p \in Requests, UndoEdit(p)
    PROVE  AdmissionInv'
<1> DEFINE held == hidden[MyConversation(p)]
           stamp == IF held = p THEN Nobody ELSE held
<1>1. MyConversation(p) \in Conversations
  BY AdmissionAssumption DEF AdmissionInv, Types, ReqRecords, MyConversation, Mine
<1>2. /\ stamp \in Requests \union {Nobody}
      /\ hidden' = [hidden EXCEPT ![MyConversation(p)] = stamp]
      /\ stamp = Nobody \/ stamp = held
  BY <1>1 DEF UndoEdit, AdmissionInv, Types
<1>3. "refused" \in RequestSteps
  BY DEF RequestSteps, Answered
<1>4. CASE p \in Edits /\ stamp # p
  <2> HIDE DEF stamp
  <2> QED BY <1>2, <1>3, <1>4, StampKeeps DEF UndoEdit
<1>5. CASE held # p /\ (p \notin Edits \/ p = Nobody)
  <2>1. hidden' = hidden
    BY <1>1, <1>2, <1>5 DEF AdmissionInv, Types
  <2>2. hidden[ConversationOf[req[p].message]] # p
    BY <1>5 DEF MyConversation, Mine
  <2> QED BY <1>3, <2>1, <2>2, GotoKeeps DEF UndoEdit
<1>6. CASE held = p /\ p = Nobody
  <2>1. hidden' = hidden
    BY <1>1, <1>2, <1>6 DEF AdmissionInv, Types
  <2> QED BY <1>3, <1>6, <2>1, GotoKeeps DEF UndoEdit
<1>7. held = p /\ p # Nobody => p \in Edits
  BY <1>1 DEF AdmissionInv, StampsAreOpen
<1> QED BY <1>4, <1>5, <1>6, <1>7

LEMMA LookupKeeps ==
    ASSUME AdmissionInv, NEW p \in Requests, Lookup(p)
    PROVE  AdmissionInv'
<1>1. {"told", "check"} \subseteq RequestSteps
  BY DEF RequestSteps, Answered
<1>2. UNCHANGED <<turn, hidden>>
  BY DEF Lookup
<1>3. CASE Goto(p, "told")
  BY <1>1, <1>2, <1>3, GotoKeeps
<1>4. CASE Goto(p, "check")
  BY <1>1, <1>2, <1>4, GotoKeeps
<1>5. CASE Refuse(p)
  BY <1>2, <1>5, RefuseKeeps
<1> QED BY <1>3, <1>4, <1>5 DEF Lookup

LEMMA PreCheckKeeps ==
    ASSUME AdmissionInv, NEW p \in Requests, PreCheck(p)
    PROVE  AdmissionInv'
<1>1. UNCHANGED <<turn, hidden>>
  BY DEF PreCheck
<1>2. CASE Refuse(p)
  BY <1>1, <1>2, RefuseKeeps
<1>3. CASE req' = [req EXCEPT ![p].pc = "begin", ![p].near = Headroom(Budget, {}) < Band,
                              ![p].since = 0]
  <2>1. PICK near \in BOOLEAN : near = (Headroom(Budget, {}) < Band)
    <3> WITNESS (Headroom(Budget, {}) < Band) \in BOOLEAN
    <3> QED OBVIOUS
  <2> DEFINE r == [req[p] EXCEPT !.pc = "begin", !.near = near, !.since = 0]
  <2>2. req[p] \in ReqRecords
    BY DEF AdmissionInv, Types
  <2>3. r \in ReqRecords /\ r.pc = "begin" /\ r.message = req[p].message
    BY <2>2, CheckedType, Zenon
  <2>4. req' = [req EXCEPT ![p] = r]
    BY <1>3, <2>1 DEF AdmissionInv, Types
  <2> HIDE DEF r
  <2>5. Sees(r, turn)
    BY <2>3 DEF Sees
  <2> QED BY <1>1, <2>3, <2>4, <2>5, MovesKeep
<1> QED BY <1>2, <1>3 DEF PreCheck

LEMMA BeginKeeps ==
    ASSUME AdmissionInv, NEW p \in Requests, Begin(p)
    PROVE  AdmissionInv'
<1>1. UNCHANGED <<turn, hidden>>
  BY DEF Begin
<1>2. CASE Refuse(p)
  BY <1>1, <1>2, RefuseKeeps
<1>3. ASSUME NEW closing \in SUBSET Messages, Admits(p, closing),
             req' = [req EXCEPT ![p].pc = "commit", ![p].closing = closing,
                                ![p].rival = FALSE]
      PROVE  AdmissionInv'
  <2> DEFINE r == [req[p] EXCEPT !.pc = "commit", !.closing = closing, !.rival = FALSE]
  <2>1. req[p] \in ReqRecords
    BY DEF AdmissionInv, Types
  <2>2. /\ r \in ReqRecords /\ r.pc = "commit" /\ r.message = req[p].message
        /\ r.closing = closing
    BY <2>1, BegunType, Zenon
  <2>3. req' = [req EXCEPT ![p] = r]
    BY <1>3 DEF AdmissionInv, Types
  <2>4. RunningIn(turn, ConversationOf[req[p].message]) \subseteq closing
    BY <1>3 DEF Admits, RunningIn, Running, OfConversation, MyConversation, Mine
  <2> HIDE DEF r
  <2>5. Sees(r, turn)
    BY <2>2, <2>4 DEF Sees
  <2> QED BY <1>1, <2>2, <2>3, <2>5, MovesKeep
<1>4. PICK closing \in SUBSET (Running \intersect OfConversation(MyConversation(p))) :
        IF Admits(p, closing)
        THEN req' = [req EXCEPT ![p].pc = "commit", ![p].closing = closing,
                                ![p].rival = FALSE]
        ELSE Refuse(p)
  BY DEF Begin
<1>5. closing \in SUBSET Messages
  BY DEF Running
<1> QED BY <1>2, <1>3, <1>4, <1>5

LEMMA DuplicateKeeps ==
    ASSUME AdmissionInv, NEW p \in Requests, Duplicate(p)
    PROVE  AdmissionInv'
<1>1. "told" \in RequestSteps
  BY DEF RequestSteps, Answered
<1> QED BY <1>1, GotoKeeps DEF Duplicate

LEMMA ConflictKeeps ==
    ASSUME AdmissionInv, NEW p \in Requests, Conflict(p)
    PROVE  AdmissionInv'
<1>1. UNCHANGED <<turn, hidden>>
  BY DEF Conflict
<1>2. CASE Refuse(p)
  BY <1>1, <1>2, RefuseKeeps
<1>3. CASE /\ req[p].tries < Retries
           /\ req' = [req EXCEPT ![p] = Over([@ EXCEPT !.tries = req[p].tries + 1], "begin")]
  <2> DEFINE tries == req[p].tries + 1
             again == [req[p] EXCEPT !.tries = tries]
             r == Over(again, "begin")
  <2>1. req[p] \in ReqRecords
    BY DEF AdmissionInv, Types
  <2>2. tries \in 0..Retries
    BY <1>3, <2>1, AdmissionAssumption DEF ReqRecords
  <2>3. req' = [req EXCEPT ![p] = r]
    BY <1>3
  <2> HIDE DEF tries
  <2>4. again \in ReqRecords /\ again.message = req[p].message
    BY <2>1, <2>2, AgainType, Zenon
  <2> HIDE DEF again
  <2>5. "begin" \in RequestSteps
    BY DEF RequestSteps
  <2>6. r \in ReqRecords /\ r.pc = "begin" /\ r.message = req[p].message
    BY <2>4, <2>5, OverType
  <2> HIDE DEF r
  <2>7. Sees(r, turn)
    BY <2>6 DEF Sees
  <2> QED BY <1>1, <2>3, <2>6, <2>7, MovesKeep
<1> QED BY <1>2, <1>3 DEF Conflict

-----------------------------------------------------------------------------
(* A start commits: its turn runs, the turns it closes do not, and whoever     *)
(* counted without it is a rival.                                              *)
LEMMA CommitReq ==
    ASSUME AdmissionInv, NEW p \in Requests, Commit(p), NEW q \in Requests
    PROVE  /\ req'[q] \in ReqRecords
           /\ req'[q].message = req[q].message /\ req'[q].near = req[q].near
           /\ Far(req'[q]) => Far(req[q]) /\ req'[q].since = req[q].since + 1
           /\ q = p => req'[q].pc = "accepted"
           /\ q # p => /\ req'[q].pc = req[q].pc /\ req'[q].closing = req[q].closing
                       /\ req'[q].rival
                            = (req[q].rival \/ (req[q].pc = "commit" /\ Mutual(p, q)))
<1>1. req[q] \in ReqRecords
  BY DEF AdmissionInv, Types
<1>2. CASE q = p
  <2> DEFINE over == Over(req[q], "accepted")
  <2>1. "accepted" \in RequestSteps
    BY DEF RequestSteps, Answered
  <2>2. /\ over \in ReqRecords /\ over.pc = "accepted" /\ over.message = req[q].message
        /\ over.near = req[q].near /\ over.since = req[q].since
    BY <1>1, <2>1, OverType
  <2>3. req'[q] = Started(over)
    BY <1>2 DEF Commit
  <2>4. req[p].pc = "commit"
    BY DEF Commit
  <2> HIDE DEF over
  <2> QED BY <1>2, <2>2, <2>3, <2>4, StartedType DEF Far
<1>3. CASE q # p
  <2>1. PICK rival \in BOOLEAN :
          rival = (req[q].rival \/ (req[q].pc = "commit" /\ Mutual(p, q)))
    <3> WITNESS (req[q].rival \/ (req[q].pc = "commit" /\ Mutual(p, q))) \in BOOLEAN
    <3> QED OBVIOUS
  <2> DEFINE s == Started(req[q])
  <2>2. /\ s \in ReqRecords /\ s.pc = req[q].pc /\ s.message = req[q].message
        /\ s.closing = req[q].closing /\ s.rival = req[q].rival /\ s.near = req[q].near
        /\ Far(req[q]) => s.since = req[q].since + 1
    BY <1>1, StartedType
  <2>3. req'[q] = [s EXCEPT !.rival = @ \/ (req[q].pc = "commit" /\ Mutual(p, q))]
    BY <1>3 DEF Commit
  <2> HIDE DEF s
  <2>4. req'[q] = [s EXCEPT !.rival = rival]
    BY <2>1, <2>2, <2>3 DEF ReqRecords
  <2>5. LET t == [s EXCEPT !.rival = rival] IN
        /\ t \in ReqRecords /\ t.pc = s.pc /\ t.message = s.message
        /\ t.closing = s.closing /\ t.rival = rival
        /\ t.near = s.near /\ t.since = s.since
    BY <2>2, RivalType, Zenon
  <2> QED BY <1>3, <2>1, <2>2, <2>4, <2>5 DEF Far
<1> QED BY <1>2, <1>3

LEMMA CommitKeeps ==
    ASSUME AdmissionInv, NEW p \in Requests, Commit(p)
    PROVE  AdmissionInv'
<1> DEFINE mine == ConversationOf[req[p].message]
<1>1. req[p] \in ReqRecords /\ Mine(p) = req[p].message /\ Mine(p) \in Messages
  BY DEF AdmissionInv, Types, ReqRecords, Mine
<1>2. \A m \in Messages :
         turn'[m] \in {"live", "late"} =>
            m = Mine(p) \/ (m \notin req[p].closing /\ turn[m] \in {"live", "late"})
  BY DEF Commit
<1>3. RunningIn(turn, mine) \subseteq req[p].closing
  BY DEF Commit, AdmissionInv, SeesRunning, Sees
<1>4. \A m \in Messages :
         turn'[m] \in {"live", "late"} /\ ConversationOf[m] = mine => m = Mine(p)
  BY <1>2, <1>3 DEF RunningIn
<1>5. Types'
  <2>1. \A m \in Messages : turn'[m] \in TurnStates
    BY DEF Commit, TurnStates, AdmissionInv, Types
  <2>2. turn' \in [Messages -> TurnStates]
    BY <2>1 DEF Commit
  <2>3. req' \in [Requests -> ReqRecords]
    <3>1. \A q \in Requests : req'[q] \in ReqRecords
      BY CommitReq
    <3>2. req' = [q \in Requests |-> req'[q]]
      BY DEF Commit
    <3> QED BY <3>1, <3>2
  <2>4. hidden' = hidden
    BY DEF Commit
  <2> QED BY <2>2, <2>3, <2>4 DEF AdmissionInv, Types
<1>6. OnlyEditsHide'
  BY CommitReq DEF AdmissionInv, OnlyEditsHide
<1>7. StampsAreOpen'
  <2>1. hidden' = hidden
    BY DEF Commit
  <2> SUFFICES ASSUME NEW c \in Conversations, hidden[c] # Nobody
               PROVE  /\ hidden[c] \in Edits
                      /\ ConversationOf[req'[hidden[c]].message] = c
                      /\ req'[hidden[c]].pc \notin {"find", "hide", "refused"}
    BY <2>1 DEF StampsAreOpen
  <2>2. /\ hidden[c] \in Edits /\ hidden[c] \in Requests
        /\ ConversationOf[req[hidden[c]].message] = c
        /\ req[hidden[c]].pc \notin {"find", "hide", "refused"}
    BY DEF AdmissionInv, StampsAreOpen, Types
  <2> QED BY <2>2, CommitReq
<1>8. SeesRunning'
  <2> SUFFICES ASSUME NEW q \in Requests, req'[q].pc = "commit", ~req'[q].rival
               PROVE  RunningIn(turn', ConversationOf[req'[q].message]) \subseteq req'[q].closing
    BY DEF SeesRunning, Sees
  <2>1. q # p
    BY CommitReq
  <2>2. /\ req[q].pc = "commit" /\ ~req[q].rival /\ ~Mutual(p, q)
        /\ req'[q].message = req[q].message /\ req'[q].closing = req[q].closing
    BY <2>1, CommitReq
  <2>3. ConversationOf[req[q].message] # mine
    BY <2>2 DEF Mutual, MyHome, Home, Mine
  <2>4. RunningIn(turn, ConversationOf[req[q].message]) \subseteq req[q].closing
    BY <2>2 DEF AdmissionInv, SeesRunning, Sees
  <2> QED BY <1>1, <1>2, <2>2, <2>3, <2>4 DEF RunningIn
<1>9. AtMostOne'
  <2> SUFFICES ASSUME NEW m \in Messages, NEW n \in Messages,
                      turn'[m] \in {"live", "late"}, turn'[n] \in {"live", "late"},
                      ConversationOf[m] = ConversationOf[n]
               PROVE  m = n
    BY DEF AtMostOne
  <2>1. CASE ConversationOf[m] = mine
    BY <1>4, <2>1
  <2>2. CASE ConversationOf[m] # mine
    <3>1. turn[m] \in {"live", "late"} /\ turn[n] \in {"live", "late"}
      BY <1>1, <1>2, <2>2
    <3> QED BY <3>1 DEF AdmissionInv, AtMostOne
  <2> QED BY <2>1, <2>2
<1> QED BY <1>5, <1>6, <1>7, <1>8, <1>9 DEF AdmissionInv

-----------------------------------------------------------------------------
(* The steps of a turn.                                                        *)

(* Whoever writes the row of a turn, or the counter, raises the starts that     *)
(* count on it: a start that is still ready does not.                          *)
LEMMA RivalsRaise ==
    ASSUME AdmissionInv, NEW m \in Messages, NEW counter \in BOOLEAN, Rivals(m, counter)
    PROVE  /\ req' \in [Requests -> ReqRecords]
           /\ \A q \in Requests :
                /\ req'[q].pc = req[q].pc /\ req'[q].message = req[q].message
                /\ req'[q].closing = req[q].closing /\ req'[q].near = req[q].near
                /\ req'[q].since = req[q].since
                /\ req[q].rival => req'[q].rival
                /\ Ready(req'[q]) => /\ Ready(req[q]) /\ m \notin req[q].closing
                                     /\ counter => Home(req[q].message) # Home(m)
<1>1. ASSUME NEW q \in Requests
      PROVE  /\ req'[q] \in ReqRecords
             /\ req'[q].pc = req[q].pc /\ req'[q].message = req[q].message
             /\ req'[q].closing = req[q].closing /\ req'[q].near = req[q].near
             /\ req'[q].since = req[q].since
             /\ req[q].rival => req'[q].rival
             /\ Ready(req'[q]) => /\ Ready(req[q]) /\ m \notin req[q].closing
                                  /\ counter => Home(req[q].message) # Home(m)
  <2> DEFINE hit == req[q].pc = "commit" /\ (m \in req[q].closing
                                             \/ (counter /\ Home(req[q].message) = Home(m)))
  <2>1. req[q] \in ReqRecords
    BY DEF AdmissionInv, Types
  <2>2. req'[q] = IF hit THEN [req[q] EXCEPT !.rival = TRUE] ELSE req[q]
    BY DEF Rivals, MyHome, Mine
  <2>3. TRUE \in BOOLEAN
    OBVIOUS
  <2>4. LET s == [req[q] EXCEPT !.rival = TRUE] IN
        /\ s \in ReqRecords /\ s.pc = req[q].pc /\ s.message = req[q].message
        /\ s.closing = req[q].closing /\ s.rival = TRUE
        /\ s.near = req[q].near /\ s.since = req[q].since
    BY <2>1, <2>3, RivalType, Zenon
  <2>5. CASE hit
    BY <2>2, <2>4, <2>5 DEF Ready
  <2>6. CASE ~hit
    <3>1. req'[q] = req[q]
      BY <2>2, <2>6
    <3>2. Ready(req[q]) => /\ m \notin req[q].closing
                           /\ counter => Home(req[q].message) # Home(m)
      BY <2>6 DEF Ready
    <3> QED BY <2>1, <3>1, <3>2
  <2> QED BY <2>5, <2>6
<1>2. req' = [q \in Requests |-> req'[q]]
  BY DEF Rivals
<1>3. req' \in [Requests -> ReqRecords]
  BY <1>1, <1>2
<1> QED BY <1>1, <1>3

LEMMA CallKeeps ==
    ASSUME AdmissionInv, NEW m \in Messages, Call(m)
    PROVE  AdmissionInv'
<1>1. Rivals(m, turn[m] = "refunded") /\ hidden' = hidden
  BY DEF Call
<1>2. turn' = turn \/ (turn[m] = "refunded" /\ turn' = [turn EXCEPT ![m] = "done"])
  BY DEF Call
<1>3. turn' \in [Messages -> TurnStates]
  BY <1>2 DEF AdmissionInv, Types, TurnStates
<1>4. \A n \in Messages : turn'[n] \in {"live", "late"} => turn[n] \in {"live", "late"}
  BY <1>2 DEF AdmissionInv, Types
<1>5. (turn[m] = "refunded") \in BOOLEAN
  OBVIOUS
<1> QED BY <1>1, <1>3, <1>4, <1>5, RivalsRaise, FewerRun

LEMMA ExpireKeeps ==
    ASSUME AdmissionInv, NEW m \in Messages, Expire(m)
    PROVE  AdmissionInv'
<1>1. turn' \in [Messages -> TurnStates]
  BY DEF Expire, AdmissionInv, Types, TurnStates
<1>2. \A n \in Messages : turn'[n] \in {"live", "late"} => turn[n] \in {"live", "late"}
  BY DEF Expire, AdmissionInv, Types
<1>3. hidden' = hidden /\ req' = req
  BY DEF Expire
<1> QED BY <1>1, <1>2, <1>3, FewerRun DEF AdmissionInv, Types

LEMMA EndKeeps ==
    ASSUME AdmissionInv, NEW m \in Messages, End(m) \/ GiveBack(m)
    PROVE  AdmissionInv'
<1>1. PICK refund \in BOOLEAN :
        /\ turn' = [turn EXCEPT ![m] = IF refund THEN "refunded" ELSE "done"]
        /\ Rivals(m, refund)
  <2>1. CASE End(m)
    BY <2>1 DEF End
  <2>2. CASE GiveBack(m)
    <3> WITNESS TRUE \in BOOLEAN
    <3> QED BY <2>2 DEF GiveBack
  <2> QED BY <2>1, <2>2
<1>2. turn' \in [Messages -> TurnStates]
  BY <1>1 DEF AdmissionInv, Types, TurnStates
<1>3. \A n \in Messages : turn'[n] \in {"live", "late"} => turn[n] \in {"live", "late"}
  BY <1>1 DEF AdmissionInv, Types
<1>4. hidden' = hidden
  BY DEF End, GiveBack
<1> QED BY <1>1, <1>2, <1>3, <1>4, RivalsRaise, FewerRun

LEMMA NextKeeps == AdmissionInv /\ [AdmissionNext]_admissionVars => AdmissionInv'
<1> SUFFICES ASSUME AdmissionInv, [AdmissionNext]_admissionVars
             PROVE  AdmissionInv'
  OBVIOUS
<1>1. ASSUME NEW p \in Requests, Post(p) PROVE AdmissionInv'
  BY <1>1, LookupKeeps, PreCheckKeeps, BeginKeeps, DuplicateKeeps, ConflictKeeps,
     CommitKeeps DEF Post
<1>2. ASSUME NEW p \in Requests, Edit(p) PROVE AdmissionInv'
  BY <1>2, FindKeeps, HideKeeps, UndoKeeps DEF Edit
<1>3. ASSUME NEW m \in Messages, Work(m) PROVE AdmissionInv'
  BY <1>3, CallKeeps, ExpireKeeps, EndKeeps DEF Work
<1>4. CASE UNCHANGED admissionVars
  <2>1. turn' = turn /\ hidden' = hidden /\ req' = req
    BY <1>4 DEF admissionVars
  <2> QED BY <2>1, FewerRun DEF AdmissionInv, Types
<1> QED BY <1>1, <1>2, <1>3, <1>4 DEF AdmissionNext

LEMMA AdmissionIsKept == AdmissionSpec => []AdmissionInv
BY InitHolds, NextKeeps, PTL DEF AdmissionSpec

-----------------------------------------------------------------------------
(* Counting what is held back.                                                 *)

LEMMA HeldIsFinite ==
    ASSUME NEW turns, NEW costs, NEW lates, NEW S \in SUBSET Messages, NEW closing
    PROVE  /\ IsFiniteSet(HeldBy(turns, costs, lates, S, closing))
           /\ Cardinality(HeldBy(turns, costs, lates, S, closing)) \in Nat
<1> DEFINE H == HeldBy(turns, costs, lates, S, closing)
           U == S \X (1..Reserve)
<1>1. IsFiniteSet(S)
  BY FinitelyManyMessages, FS_Subset
<1>2. IsFiniteSet(1..Reserve)
  BY FS_Interval, ReservationAssumption
<1>3. IsFiniteSet(U)
  BY <1>1, <1>2, FS_Product
<1>4. H \in SUBSET U
  BY DEF HeldBy
<1> HIDE DEF H, U
<1>5. IsFiniteSet(H)
  BY <1>3, <1>4, FS_Subset
<1> QED BY <1>5, FS_CardinalityType DEF H

LEMMA FewerHeld ==
    ASSUME NEW A, NEW B, IsFiniteSet(B), A \subseteq B
    PROVE  /\ IsFiniteSet(A) /\ Cardinality(A) \in Nat /\ Cardinality(B) \in Nat
           /\ Cardinality(A) <= Cardinality(B)
<1>1. IsFiniteSet(A) /\ Cardinality(A) <= Cardinality(B)
  BY FS_Subset
<1> QED BY <1>1, FS_CardinalityType

(* One more turn holds back its reservation.                                  *)
LEMMA OneMoreHeld ==
    ASSUME NEW A, NEW B, IsFiniteSet(B), NEW m, A \subseteq B \union ({m} \X (1..Reserve))
    PROVE  Cardinality(A) <= Cardinality(B) + Reserve
<1> DEFINE R == {m} \X (1..Reserve)
<1>1. IsFiniteSet(1..Reserve) /\ Cardinality(1..Reserve) = Reserve
  BY FS_Interval, ReservationAssumption
<1>2. IsFiniteSet({m}) /\ Cardinality({m}) = 1
  BY FS_Singleton
<1>3. IsFiniteSet(R) /\ Cardinality(R) = Cardinality({m}) * Cardinality(1..Reserve)
  <2> DEFINE I == 1..Reserve
             M == {m}
  <2>1. IsFiniteSet(I) /\ IsFiniteSet(M)
    BY <1>1, <1>2
  <2> HIDE DEF I, M
  <2>2. IsFiniteSet(M \X I) /\ Cardinality(M \X I) = Cardinality(M) * Cardinality(I)
    BY <2>1, FS_Product
  <2> QED BY <2>2 DEF I, M
<1>4. Cardinality(R) = Reserve
  BY <1>1, <1>2, <1>3, ReservationAssumption
<1> HIDE DEF R
<1>5. /\ IsFiniteSet(B \union R)
      /\ Cardinality(B \union R) = Cardinality(B) + Cardinality(R) - Cardinality(B \intersect R)
  BY <1>3, FS_Union
<1>6. IsFiniteSet(B \intersect R)
  BY <1>3, FS_Intersection
<1>7. Cardinality(B) \in Nat /\ Cardinality(B \intersect R) \in Nat
  BY <1>6, FS_CardinalityType
<1>8. Cardinality(B \union R) <= Cardinality(B) + Reserve /\ Cardinality(B \union R) \in Nat
  <2>1. Cardinality(B \union R) \in Nat
    BY <1>5, FS_CardinalityType
  <2> QED BY <1>4, <1>5, <1>7, <2>1, ReservationAssumption
<1>9. Cardinality(A) <= Cardinality(B \union R) /\ Cardinality(A) \in Nat
  BY <1>5, FewerHeld DEF R
<1> QED BY <1>7, <1>8, <1>9, ReservationAssumption

(* What the turns of S spent and a reservation for each of them that lives     *)
(* covers what they hold.                                                     *)
LEMMA SpentAndReserved ==
    ASSUME NEW S \in SUBSET Messages, NEW closing, NEW L \in SUBSET Messages,
           \A m \in S : turn[m] = "live" /\ m \notin closing => m \in L
    PROVE  /\ Spent(S) \in Nat /\ Cardinality(L) \in Nat
           /\ Cardinality(HeldBy(turn, cost, overdue, S, closing))
                <= Spent(S) + Reserve * Cardinality(L)
<1> DEFINE H == HeldBy(turn, cost, overdue, S, closing)
           P == Paid(S)
           R == L \X (1..Reserve)
<1>1. IsFiniteSet(S) /\ IsFiniteSet(L)
  BY FinitelyManyMessages, FS_Subset
<1>2. IsFiniteSet(1..Reserve) /\ Cardinality(1..Reserve) = Reserve
  BY FS_Interval, ReservationAssumption
<1>3. IsFiniteSet(S \X (1..Reserve))
  BY <1>1, <1>2, FS_Product
<1>4. P \in SUBSET (S \X (1..Reserve))
  BY DEF Paid
<1>5. IsFiniteSet(P)
  BY <1>3, <1>4, FS_Subset
<1>6. IsFiniteSet(R) /\ Cardinality(R) = Cardinality(L) * Reserve
  BY <1>1, <1>2, FS_Product
<1>7. H \subseteq P \union R
  BY DEF HeldBy, Paid
<1>8. Spent(S) = Cardinality(P)
  BY DEF Spent
<1>9. Cardinality(L) \in Nat /\ Cardinality(P) \in Nat
  BY <1>1, <1>5, FS_CardinalityType
<1> HIDE DEF H, P, R
<1>10. /\ IsFiniteSet(P \union R)
       /\ Cardinality(P \union R) = Cardinality(P) + Cardinality(R) - Cardinality(P \intersect R)
  BY <1>5, <1>6, FS_Union
<1>11. Cardinality(P \intersect R) \in Nat
  BY <1>6, FS_Intersection, FS_CardinalityType
<1>12. Cardinality(H) <= Cardinality(P \union R) /\ Cardinality(H) \in Nat
  BY <1>7, <1>10, FewerHeld
<1>13. Reserve * Cardinality(L) \in Nat /\ Cardinality(R) = Reserve * Cardinality(L)
  BY <1>6, <1>9, ReservationAssumption
<1>14. Cardinality(P \union R) <= Cardinality(P) + Reserve * Cardinality(L)
  BY <1>9, <1>10, <1>11, <1>13
<1>15. Cardinality(P \union R) \in Int
  BY <1>9, <1>10, <1>11, <1>13
<1>16. Cardinality(H) <= Spent(S) + Reserve * Cardinality(L)
  BY <1>8, <1>9, <1>12, <1>13, <1>14, <1>15
<1> QED BY <1>8, <1>9, <1>16 DEF H

-----------------------------------------------------------------------------
(* The three ways in which a step may change what is counted: a request goes   *)
(* on, turns grow old and end, or a start commits.                            *)

Allowed(p) ==
    /\ req[p].pc # "accepted" /\ req'[p].pc # "accepted"
    /\ req'[p].message = req[p].message
    /\ ClosesRunning(req'[p], turn) /\ SlotRoom(req'[p], turn)
    /\ HouseRoom(req'[p], turn, cost, overdue) /\ TrialRoom(req'[p], turn, cost, overdue)
    /\ NearRoom(req'[p], turn, cost, overdue) /\ QuotaRoom(req'[p], used, cost)
    /\ FarBound(req[p], turn, cost, overdue) => FarBound(req'[p], turn, cost, overdue)

Moved(p) ==
    /\ UNCHANGED <<turn, cost, overdue, used>>
    /\ \A q \in Requests \ {p} : req'[q] = req[q]
    /\ Allowed(p)

Shrunk ==
    /\ \A m \in Messages : turn'[m] = "live" => turn[m] = "live"
    /\ \A q \in Requests :
         /\ req'[q].pc = req[q].pc /\ req'[q].message = req[q].message
         /\ req'[q].closing = req[q].closing /\ req'[q].near = req[q].near
         /\ req'[q].since = req[q].since
         /\ Ready(req'[q]) =>
              /\ Ready(req[q]) /\ used'[Home(req[q].message)] = used[Home(req[q].message)]
              /\ \A n \in req[q].closing : cost'[n] = cost[n]
    /\ \A S \in SUBSET Messages :
         HeldBy(turn', cost', overdue', S, {}) \subseteq HeldBy(turn, cost, overdue, S, {})
    /\ \A S \in SUBSET Messages, q \in Requests :
         Ready(req'[q]) =>
            HeldBy(turn', cost', overdue', S, req[q].closing)
               \subseteq HeldBy(turn, cost, overdue, S, req[q].closing)

(* An idle request has counted nothing.                                        *)
LEMMA IdleAllows ==
    ASSUME AdmissionInv, NEW p \in Requests, NEW r \in ReqRecords, req'[p] = r,
           r.message = req[p].message, req[p].pc # "accepted",
           r.pc \notin {"commit", "accepted"},
           Far(r) => Far(req[p]) /\ r.since = req[p].since
    PROVE  Allowed(p)
<1>1. ~Ready(r)
  BY DEF Ready
<1>2. FarBound(req[p], turn, cost, overdue) => FarBound(r, turn, cost, overdue)
  BY DEF FarBound
<1> QED BY <1>1, <1>2
   DEF Allowed, ClosesRunning, SlotRoom, HouseRoom, TrialRoom, NearRoom, QuotaRoom

LEMMA GotoAllows ==
    ASSUME AdmissionInv, NEW p \in Requests, NEW step \in RequestSteps, Goto(p, step),
           UNCHANGED <<turn, cost, overdue, used>>, req[p].pc # "accepted",
           step \notin {"begin", "commit", "accepted"}
    PROVE  Moved(p)
<1> DEFINE r == Over(req[p], step)
<1>1. req[p] \in ReqRecords /\ req \in [Requests -> ReqRecords]
  BY DEF AdmissionInv, Types
<1>2. r \in ReqRecords /\ r.pc = step /\ r.message = req[p].message
  BY <1>1, OverType
<1>3. req'[p] = r /\ \A q \in Requests \ {p} : req'[q] = req[q]
  BY <1>1 DEF Goto
<1> HIDE DEF r
<1>4. ~Far(r)
  BY <1>2 DEF Far
<1>5. Allowed(p)
  BY <1>2, <1>3, <1>4, IdleAllows
<1> QED BY <1>3, <1>5 DEF Moved

LEMMA RefuseAllows ==
    ASSUME AdmissionInv, NEW p \in Requests, Refuse(p), req[p].pc # "accepted",
           UNCHANGED <<turn, cost, overdue, used>>
    PROVE  Moved(p)
<1> DEFINE step == IF p \in Edits THEN "undo" ELSE "refused"
<1>1. step \in RequestSteps /\ step \in {"undo", "refused"}
  BY DEF RequestSteps, Answered
<1>2. Goto(p, step)
  BY DEF Refuse
<1> HIDE DEF step
<1> QED BY <1>1, <1>2, GotoAllows

(* What a start counted in its transaction is room for its turn.               *)
LEMMA AdmittedHasRoom ==
    ASSUME AdmissionInv, MoneyTypes, NEW p \in Requests,
           NEW closing \in SUBSET (Running \intersect OfConversation(MyConversation(p))),
           Admits(p, closing),
           NEW r \in ReqRecords, r.message = req[p].message, r.near = req[p].near,
           r.closing = closing
    PROVE  /\ ClosesRunning(r, turn) /\ SlotRoom(r, turn) /\ QuotaRoom(r, used, cost)
           /\ HouseRoom(r, turn, cost, overdue) /\ TrialRoom(r, turn, cost, overdue)
           /\ NearRoom(r, turn, cost, overdue)
<1> DEFINE h == MyHome(p)
           mine == (Live \intersect OfHome(h)) \ closing
           all == Live \ closing
<1>1. h = Home(r.message) /\ MyConversation(p) = ConversationOf[r.message]
  BY DEF MyHome, MyConversation, Mine
<1>2. ClosesRunning(r, turn)
  BY <1>1 DEF ClosesRunning, Running, OfConversation
<1>3. LiveBy(turn, h, closing) = mine
  BY DEF LiveBy, Live, OfHome
<1>4. mine \in SUBSET Messages /\ all \in SUBSET Messages
  BY DEF Live
<1>5. OfHome(h) \in SUBSET Messages /\ OfTrials \in SUBSET Messages
  BY DEF OfHome, OfTrials
<1>6. SlotRoom(r, turn)
  BY <1>1, <1>3 DEF SlotRoom, Admits
<1>7. HouseRoom(r, turn, cost, overdue)
  <2> DEFINE H == HeldBy(turn, cost, overdue, OfHome(h), closing)
  <2>1. \A m \in OfHome(h) : turn[m] = "live" /\ m \notin closing => m \in mine
    BY DEF OfHome, Live
  <2>2. /\ Spent(OfHome(h)) \in Nat /\ Cardinality(mine) \in Nat
        /\ Cardinality(H) <= Spent(OfHome(h)) + Reserve * Cardinality(mine)
    BY <1>4, <1>5, <2>1, SpentAndReserved
  <2>3. Spent(OfHome(h)) + Reserve * Cardinality(mine) < HouseBudget
    BY DEF Admits
  <2>4. Cardinality(H) \in Nat
    BY <1>5, HeldIsFinite
  <2>5. Reserve * Cardinality(mine) \in Nat
    BY <2>2, ReservationAssumption
  <2> HIDE DEF H, mine, h
  <2>6. Cardinality(H) < HouseBudget
    BY <2>2, <2>3, <2>4, <2>5, AdmissionAssumption
  <2> QED BY <1>1, <2>6 DEF HouseRoom, H
<1>8. /\ Spent(Messages) \in Nat /\ Cardinality(all) \in Nat
      /\ Cardinality(HeldBy(turn, cost, overdue, Messages, closing))
           <= Spent(Messages) + Reserve * Cardinality(all)
  <2>1. \A m \in Messages : turn[m] = "live" /\ m \notin closing => m \in all
    BY DEF Live
  <2> QED BY <1>4, <2>1, SpentAndReserved
<1>9. ASSUME NEW ceiling \in Nat, Headroom(ceiling, closing) > 0
      PROVE  Cardinality(HeldBy(turn, cost, overdue, Messages, closing)) < ceiling
  <2> DEFINE H == HeldBy(turn, cost, overdue, Messages, closing)
  <2>1. ceiling - Spent(Messages) - Reserve * Cardinality(all) > 0
    BY <1>9 DEF Headroom
  <2>2. Cardinality(H) \in Nat
    BY HeldIsFinite
  <2>3. Reserve * Cardinality(all) \in Nat
    BY <1>8, ReservationAssumption
  <2> HIDE DEF H, all
  <2>4. Cardinality(H) < ceiling
    BY <1>8, <2>1, <2>2, <2>3 DEF H
  <2> QED BY <2>4 DEF H
<1>10. NearRoom(r, turn, cost, overdue)
  <2> SUFFICES ASSUME r.near
               PROVE  Cardinality(HeldBy(turn, cost, overdue, Messages, closing)) < Budget
    BY DEF NearRoom
  <2>1. Headroom(Budget, closing) > 0
    BY DEF Admits
  <2> QED BY <1>9, <2>1, AdmissionAssumption
<1>11. TrialRoom(r, turn, cost, overdue)
  <2> SUFFICES ASSUME Home(r.message) \in Trials
               PROVE  Cardinality(HeldBy(turn, cost, overdue, OfTrials, closing)) < TrialBudget
    BY DEF TrialRoom
  <2> DEFINE A == HeldBy(turn, cost, overdue, OfTrials, closing)
             B == HeldBy(turn, cost, overdue, Messages, closing)
  <2>1. Headroom(TrialBudget, closing) > 0
    BY <1>1 DEF Admits
  <2>2. Cardinality(B) < TrialBudget
    BY <1>9, <2>1, AdmissionAssumption
  <2>3. A \subseteq B
    BY DEF HeldBy, OfTrials
  <2>4. IsFiniteSet(B)
    BY HeldIsFinite
  <2> HIDE DEF A, B
  <2>5. Cardinality(A) <= Cardinality(B) /\ Cardinality(A) \in Nat /\ Cardinality(B) \in Nat
    BY <2>3, <2>4, FewerHeld
  <2>6. Cardinality(A) < TrialBudget
    BY <2>2, <2>5, AdmissionAssumption
  <2> QED BY <2>6 DEF A
<1>12. QuotaRoom(r, used, cost)
  BY <1>1 DEF QuotaRoom, Admits, Free
<1> QED BY <1>2, <1>6, <1>7, <1>10, <1>11, <1>12

(* A ceiling found far leaves the band below it.                               *)
LEMMA FarLook ==
    ASSUME AdmissionInv, MoneyTypes, NEW r \in ReqRecords, r.since = 0,
           ~r.near => Headroom(Budget, {}) >= Band
    PROVE  FarBound(r, turn, cost, overdue)
<1> SUFFICES ASSUME ~r.near
             PROVE  Cardinality(HeldBy(turn, cost, overdue, Messages, {})) + Band
                      <= Budget + Reserve * r.since
  BY DEF FarBound, Far
<1> DEFINE H == HeldBy(turn, cost, overdue, Messages, {})
           all == Live \ {}
<1>1. all \in SUBSET Messages /\ \A m \in Messages : turn[m] = "live" /\ m \notin {} => m \in all
  BY DEF Live
<1>2. /\ Spent(Messages) \in Nat /\ Cardinality(all) \in Nat
      /\ Cardinality(H) <= Spent(Messages) + Reserve * Cardinality(all)
  BY <1>1, SpentAndReserved
<1>3. Budget - Spent(Messages) - Reserve * Cardinality(all) >= Band
  BY DEF Headroom
<1>4. Cardinality(H) \in Nat
  BY HeldIsFinite
<1>5. Reserve * Cardinality(all) \in Nat /\ Reserve * r.since = 0
  BY <1>2, ReservationAssumption
<1> HIDE DEF H, all
<1>6. Cardinality(H) + Band <= Budget + Reserve * r.since
  BY <1>2, <1>3, <1>4, <1>5, AdmissionAssumption
<1> QED BY <1>6 DEF H

LEMMA RequestMoves ==
    ASSUME AdmissionInv, MoneyTypes, NEW p \in Requests, Edit(p) \/ Post(p), ~Commit(p)
    PROVE  Moved(p)
<1> USE DEF Answered
<1>1. req[p] \in ReqRecords /\ req \in [Requests -> ReqRecords]
  BY DEF AdmissionInv, Types
<1>2. CASE FindEdited(p)
  <2>1. PICK step \in {"hide", "refused"} : Goto(p, step)
    BY <1>2 DEF FindEdited
  <2>2. step \in RequestSteps /\ UNCHANGED <<turn, cost, overdue, used>> /\ req[p].pc = "find"
    BY <1>2 DEF RequestSteps, FindEdited
  <2> QED BY <2>1, <2>2, GotoAllows
<1>3. CASE HideEdited(p)
  <2>1. "new" \in RequestSteps
    BY DEF RequestSteps
  <2> QED BY <1>3, <2>1, GotoAllows DEF HideEdited
<1>4. CASE UndoEdit(p)
  <2>1. "refused" \in RequestSteps
    BY DEF RequestSteps
  <2> QED BY <1>4, <2>1, GotoAllows DEF UndoEdit
<1>5. CASE Lookup(p)
  <2>1. {"told", "check"} \subseteq RequestSteps
    BY DEF RequestSteps
  <2>2. UNCHANGED <<turn, cost, overdue, used>> /\ req[p].pc = "new"
    BY <1>5 DEF Lookup
  <2>3. Goto(p, "told") \/ Goto(p, "check") \/ Refuse(p)
    BY <1>5 DEF Lookup
  <2> QED BY <2>1, <2>2, <2>3, GotoAllows, RefuseAllows
<1>6. CASE PreCheck(p)
  <2>1. UNCHANGED <<turn, cost, overdue, used>> /\ req[p].pc = "check"
    BY <1>6 DEF PreCheck
  <2>2. CASE Refuse(p)
    BY <2>1, <2>2, RefuseAllows
  <2>3. CASE req' = [req EXCEPT ![p].pc = "begin", ![p].near = Headroom(Budget, {}) < Band,
                                ![p].since = 0]
    <3>1. PICK near \in BOOLEAN : near = (Headroom(Budget, {}) < Band)
      <4> WITNESS (Headroom(Budget, {}) < Band) \in BOOLEAN
      <4> QED OBVIOUS
    <3> DEFINE r == [req[p] EXCEPT !.pc = "begin", !.near = near, !.since = 0]
    <3>2. /\ r \in ReqRecords /\ r.pc = "begin" /\ r.message = req[p].message
          /\ r.near = near /\ r.since = 0
      BY <1>1, CheckedType, Zenon
    <3>3. req'[p] = r /\ \A q \in Requests \ {p} : req'[q] = req[q]
      BY <1>1, <2>3, <3>1
    <3> HIDE DEF r
    <3>4. Headroom(Budget, {}) \in Int
      <4> DEFINE all == Live \ {}
      <4>1. all \in SUBSET Messages /\ \A m \in Messages : turn[m] = "live" /\ m \notin {} => m \in all
        BY DEF Live
      <4>2. Spent(Messages) \in Nat /\ Cardinality(all) \in Nat
        BY <4>1, SpentAndReserved
      <4>3. Reserve * Cardinality(all) \in Nat
        BY <4>2, ReservationAssumption
      <4> HIDE DEF all
      <4>4. Budget - Spent(Messages) - Reserve * Cardinality(all) \in Int
        BY <4>2, <4>3, AdmissionAssumption
      <4> QED BY <4>4 DEF Headroom, all
    <3>5. ~r.near => Headroom(Budget, {}) >= Band
      <4>1. ~r.near => ~(Headroom(Budget, {}) < Band)
        BY <3>1, <3>2, Zenon
      <4> QED BY <3>4, <4>1, AdmissionAssumption
    <3>6. FarBound(r, turn, cost, overdue)
      BY <3>2, <3>5, FarLook
    <3>7. ~Ready(r)
      BY <3>2 DEF Ready
    <3>8. Allowed(p)
      BY <2>1, <3>2, <3>3, <3>6, <3>7
      DEF Allowed, ClosesRunning, SlotRoom, HouseRoom, TrialRoom, NearRoom, QuotaRoom
    <3> QED BY <2>1, <3>3, <3>8 DEF Moved
  <2> QED BY <1>6, <2>2, <2>3 DEF PreCheck
<1>7. CASE Begin(p)
  <2>1. UNCHANGED <<turn, cost, overdue, used>> /\ req[p].pc = "begin"
    BY <1>7 DEF Begin
  <2>2. PICK closing \in SUBSET (Running \intersect OfConversation(MyConversation(p))) :
          IF Admits(p, closing)
          THEN req' = [req EXCEPT ![p].pc = "commit", ![p].closing = closing,
                                  ![p].rival = FALSE]
          ELSE Refuse(p)
    BY <1>7 DEF Begin
  <2>3. CASE Refuse(p)
    BY <2>1, <2>3, RefuseAllows
  <2>4. ASSUME Admits(p, closing),
               req' = [req EXCEPT ![p].pc = "commit", ![p].closing = closing,
                                  ![p].rival = FALSE]
        PROVE  Moved(p)
    <3> DEFINE r == [req[p] EXCEPT !.pc = "commit", !.closing = closing, !.rival = FALSE]
    <3>1. closing \in SUBSET Messages
      BY DEF Running
    <3>2. /\ r \in ReqRecords /\ r.pc = "commit" /\ r.message = req[p].message
          /\ r.closing = closing /\ r.near = req[p].near /\ r.since = req[p].since
      <4>1. "commit" \in RequestSteps
        BY DEF RequestSteps
      <4> QED BY <1>1, <3>1, <4>1 DEF ReqRecords
    <3>3. req'[p] = r /\ \A q \in Requests \ {p} : req'[q] = req[q]
      BY <1>1, <2>4
    <3> HIDE DEF r
    <3>4. /\ ClosesRunning(r, turn) /\ SlotRoom(r, turn)
          /\ HouseRoom(r, turn, cost, overdue) /\ TrialRoom(r, turn, cost, overdue)
          /\ NearRoom(r, turn, cost, overdue) /\ QuotaRoom(r, used, cost)
      BY <2>4, <3>2, AdmittedHasRoom
    <3>5. FarBound(req[p], turn, cost, overdue) => FarBound(r, turn, cost, overdue)
      BY <2>1, <3>2 DEF FarBound, Far
    <3>6. Allowed(p)
      BY <2>1, <3>2, <3>3, <3>4, <3>5 DEF Allowed
    <3> QED BY <2>1, <3>3, <3>6 DEF Moved
  <2> QED BY <2>2, <2>3, <2>4
<1>8. CASE Duplicate(p)
  <2>1. "told" \in RequestSteps
    BY DEF RequestSteps
  <2> QED BY <1>8, <2>1, GotoAllows DEF Duplicate
<1>9. CASE Conflict(p)
  <2>1. UNCHANGED <<turn, cost, overdue, used>> /\ req[p].pc = "commit"
    BY <1>9 DEF Conflict
  <2>2. CASE Refuse(p)
    BY <2>1, <2>2, RefuseAllows
  <2>3. CASE /\ req[p].tries < Retries
             /\ req' = [req EXCEPT ![p] = Over([@ EXCEPT !.tries = req[p].tries + 1], "begin")]
    <3> DEFINE tries == req[p].tries + 1
               again == [req[p] EXCEPT !.tries = tries]
               r == Over(again, "begin")
    <3>1. tries \in 0..Retries
      BY <1>1, <2>3, AdmissionAssumption DEF ReqRecords
    <3>2. req'[p] = r /\ \A q \in Requests \ {p} : req'[q] = req[q]
      BY <1>1, <2>3
    <3> HIDE DEF tries
    <3>3. /\ again \in ReqRecords /\ again.message = req[p].message
          /\ again.near = req[p].near /\ again.since = req[p].since
      BY <1>1, <3>1, AgainType, Zenon
    <3> HIDE DEF again
    <3>4. "begin" \in RequestSteps
      BY DEF RequestSteps
    <3>5. /\ r \in ReqRecords /\ r.pc = "begin" /\ r.message = req[p].message
          /\ r.near = req[p].near /\ r.since = req[p].since
      BY <3>3, <3>4, OverType
    <3> HIDE DEF r
    <3>6. Allowed(p)
      BY <2>1, <3>2, <3>5, IdleAllows DEF Far
    <3> QED BY <2>1, <3>2, <3>6 DEF Moved
  <2> QED BY <1>9, <2>2, <2>3 DEF Conflict
<1> QED BY <1>2, <1>3, <1>4, <1>5, <1>6, <1>7, <1>8, <1>9 DEF Edit, Post

LEMMA CallShrinks ==
    ASSUME AdmissionInv, MoneyTypes, NEW m \in Messages, Call(m)
    PROVE  Shrunk /\ MoneyTypes' /\ \A q \in Requests : ClosesRunning(req[q], turn)
                                                        => ClosesRunning(req'[q], turn')
<1> DEFINE back == turn[m] = "refunded"
<1>1. /\ turn[m] # "none" /\ cost[m] < Reserve /\ cost' = [cost EXCEPT ![m] = @ + 1]
      /\ overdue' = [overdue EXCEPT ![m] = IF turn[m] = "live" THEN @ ELSE @ \union {cost'[m]}]
      /\ Rivals(m, back)
  BY DEF Call
<1>2. IF back THEN turn' = [turn EXCEPT ![m] = "done"] /\ used' = [used EXCEPT ![Home(m)] = @ + 1]
      ELSE turn' = turn /\ used' = used
  BY DEF Call
<1>3. turn \in [Messages -> TurnStates] /\ back \in BOOLEAN
  BY DEF AdmissionInv, Types
<1>4. \A n \in Messages : /\ turn'[n] = "live" <=> turn[n] = "live"
                          /\ turn'[n] = "late" <=> turn[n] = "late"
                          /\ turn'[n] = "none" <=> turn[n] = "none"
  BY <1>2, <1>3
<1>5. \A q \in Requests :
        /\ req'[q].pc = req[q].pc /\ req'[q].message = req[q].message
        /\ req'[q].closing = req[q].closing /\ req'[q].near = req[q].near
        /\ req'[q].since = req[q].since
        /\ Ready(req'[q]) => /\ Ready(req[q]) /\ m \notin req[q].closing
                             /\ back => Home(req[q].message) # Home(m)
  <2> HIDE DEF back
  <2> QED BY <1>1, <1>3, RivalsRaise
<1>6. cost[m] \in 0..Reserve /\ cost'[m] = cost[m] + 1 /\ cost'[m] \in 1..Reserve
  BY <1>1, ReservationAssumption DEF MoneyTypes
<1>7. MoneyTypes'
  <2>1. cost' \in [Messages -> 0..Reserve]
    BY <1>1, <1>6, ReservationAssumption DEF MoneyTypes
  <2>2. overdue' \in [Messages -> SUBSET (1..Reserve)]
    BY <1>1, <1>6 DEF MoneyTypes
  <2>3. \A n \in Messages : turn'[n] = "none" => cost'[n] = 0
    BY <1>1, <1>4 DEF MoneyTypes
  <2> QED BY <2>1, <2>2, <2>3 DEF MoneyTypes
<1>8. ASSUME NEW S \in SUBSET Messages, NEW closing, m \notin closing
      PROVE  HeldBy(turn', cost', overdue', S, closing)
               \subseteq HeldBy(turn, cost, overdue, S, closing)
  <2> SUFFICES ASSUME NEW n \in S, NEW i \in 1..Reserve,
                      <<n, i>> \in HeldBy(turn', cost', overdue', S, closing)
               PROVE  <<n, i>> \in HeldBy(turn, cost, overdue, S, closing)
    BY DEF HeldBy
  <2>1. /\ i \notin overdue'[n]
        /\ (turn[n] = "live" /\ n \notin closing) \/ i <= cost'[n]
    BY <1>4 DEF HeldBy
  <2>2. i \notin overdue[n]
    BY <1>1, <2>1 DEF MoneyTypes
  <2>3. CASE (turn[n] = "live" /\ n \notin closing) \/ i <= cost[n]
    BY <2>2, <2>3 DEF HeldBy
  <2>4. CASE ~(turn[n] = "live" /\ n \notin closing) /\ ~(i <= cost[n])
    <3>1. n = m
      BY <1>1, <2>1, <2>4 DEF MoneyTypes
    <3>2. i = cost'[m] /\ turn[m] # "live"
      BY <1>6, <1>8, <2>1, <2>4, <3>1
    <3>3. cost'[m] \in overdue'[m]
      BY <1>1, <3>2 DEF MoneyTypes
    <3> QED BY <2>1, <3>1, <3>2, <3>3
  <2> QED BY <2>3, <2>4
<1>9. \A q \in Requests : Ready(req'[q]) =>
        /\ used'[Home(req[q].message)] = used[Home(req[q].message)]
        /\ \A n \in req[q].closing : cost'[n] = cost[n]
  <2> SUFFICES ASSUME NEW q \in Requests, Ready(req'[q])
               PROVE  /\ used'[Home(req[q].message)] = used[Home(req[q].message)]
                      /\ \A n \in req[q].closing : cost'[n] = cost[n]
    OBVIOUS
  <2>1. req[q].closing \in SUBSET Messages
    BY DEF AdmissionInv, Types, ReqRecords
  <2>2. m \notin req[q].closing /\ (back => Home(req[q].message) # Home(m))
    BY <1>5
  <2>3. \A n \in req[q].closing : cost'[n] = cost[n]
    BY <1>1, <2>1, <2>2 DEF MoneyTypes
  <2>4. used'[Home(req[q].message)] = used[Home(req[q].message)]
    <3>1. CASE ~back
      BY <1>2, <3>1
    <3>2. CASE back
      <4>1. used' = [used EXCEPT ![Home(m)] = @ + 1] /\ Home(req[q].message) # Home(m)
        BY <1>2, <2>2, <3>2
      <4> QED BY <4>1
    <3> QED BY <3>1, <3>2
  <2> QED BY <2>3, <2>4
<1>10. Shrunk
  <2>1. \A S \in SUBSET Messages :
          HeldBy(turn', cost', overdue', S, {}) \subseteq HeldBy(turn, cost, overdue, S, {})
    BY <1>8
  <2>2. \A S \in SUBSET Messages, q \in Requests :
          Ready(req'[q]) =>
             HeldBy(turn', cost', overdue', S, req[q].closing)
               \subseteq HeldBy(turn, cost, overdue, S, req[q].closing)
    BY <1>5, <1>8
  <2> QED BY <1>4, <1>5, <1>9, <2>1, <2>2 DEF Shrunk
<1>11. \A q \in Requests : ClosesRunning(req[q], turn) => ClosesRunning(req'[q], turn')
  <2> SUFFICES ASSUME NEW q \in Requests, ClosesRunning(req[q], turn), Ready(req'[q]),
                      NEW n \in req'[q].closing
               PROVE  /\ turn'[n] \in {"live", "late"}
                      /\ ConversationOf[n] = ConversationOf[req'[q].message]
    BY DEF ClosesRunning
  <2>1. Ready(req[q]) /\ n \in req[q].closing /\ n \in Messages
    BY <1>5 DEF AdmissionInv, Types, ReqRecords
  <2> QED BY <1>4, <1>5, <2>1 DEF ClosesRunning
<1> QED BY <1>7, <1>10, <1>11

(* A turn grows old, ends or gives its message back: it holds back no more.     *)
LEMMA EndShrinks ==
    ASSUME AdmissionInv, MoneyTypes, NEW m \in Messages, End(m) \/ GiveBack(m)
    PROVE  Shrunk /\ MoneyTypes' /\ \A q \in Requests : ClosesRunning(req[q], turn)
                                                        => ClosesRunning(req'[q], turn')
<1>1. PICK refund \in BOOLEAN :
        /\ turn' = [turn EXCEPT ![m] = IF refund THEN "refunded" ELSE "done"]
        /\ used' = [used EXCEPT ![Home(m)] = IF refund THEN @ - 1 ELSE @]
        /\ Rivals(m, refund)
  <2>1. CASE End(m)
    BY <2>1 DEF End
  <2>2. CASE GiveBack(m)
    <3> WITNESS TRUE \in BOOLEAN
    <3> QED BY <2>2 DEF GiveBack
  <2> QED BY <2>1, <2>2
<1>2. cost' = cost /\ overdue' = overdue /\ turn[m] # "none"
  BY DEF End, GiveBack, Running
<1>3. turn \in [Messages -> TurnStates]
  BY DEF AdmissionInv, Types
<1>4. \A n \in Messages : /\ turn'[n] = "live" => turn[n] = "live"
                          /\ turn'[n] = "none" => turn[n] = "none"
                          /\ n # m => turn'[n] = turn[n]
  BY <1>1, <1>3
<1>5. MoneyTypes'
  BY <1>2, <1>4 DEF MoneyTypes
<1>6. \A S \in SUBSET Messages : \A closing :
         HeldBy(turn', cost', overdue', S, closing) \subseteq HeldBy(turn, cost, overdue, S, closing)
  BY <1>2, <1>4 DEF HeldBy
<1>7. \A q \in Requests :
        /\ req'[q].pc = req[q].pc /\ req'[q].message = req[q].message
        /\ req'[q].closing = req[q].closing /\ req'[q].near = req[q].near
        /\ req'[q].since = req[q].since
        /\ Ready(req'[q]) => /\ Ready(req[q]) /\ m \notin req[q].closing
                             /\ refund => Home(req[q].message) # Home(m)
  BY <1>1, RivalsRaise
<1>8. \A q \in Requests : Ready(req'[q]) =>
         used'[Home(req[q].message)] = used[Home(req[q].message)]
  BY <1>1, <1>7
<1>9. Shrunk
  BY <1>2, <1>4, <1>6, <1>7, <1>8 DEF Shrunk
<1>10. \A q \in Requests : ClosesRunning(req[q], turn) => ClosesRunning(req'[q], turn')
  <2> SUFFICES ASSUME NEW q \in Requests, ClosesRunning(req[q], turn), Ready(req'[q]),
                      NEW n \in req'[q].closing
               PROVE  /\ turn'[n] \in {"live", "late"}
                      /\ ConversationOf[n] = ConversationOf[req'[q].message]
    BY DEF ClosesRunning
  <2>1. Ready(req[q]) /\ n \in req[q].closing /\ n # m /\ n \in Messages
    BY <1>7 DEF AdmissionInv, Types, ReqRecords
  <2> QED BY <1>4, <1>7, <2>1 DEF ClosesRunning
<1> QED BY <1>5, <1>9, <1>10

LEMMA WorkShrinks ==
    ASSUME AdmissionInv, MoneyTypes, NEW m \in Messages, Work(m)
    PROVE  Shrunk /\ MoneyTypes' /\ \A q \in Requests : ClosesRunning(req[q], turn)
                                                        => ClosesRunning(req'[q], turn')
<1>1. CASE Expire(m)
  <2>1. /\ turn[m] = "live" /\ turn' = [turn EXCEPT ![m] = "late"]
        /\ cost' = cost /\ overdue' = overdue /\ req' = req /\ used' = used
    BY <1>1 DEF Expire
  <2>2. turn \in [Messages -> TurnStates]
    BY DEF AdmissionInv, Types
  <2>3. \A n \in Messages : /\ turn'[n] = "live" => turn[n] = "live"
                            /\ turn'[n] = "none" => turn[n] = "none"
                            /\ turn[n] \in {"live", "late"} => turn'[n] \in {"live", "late"}
    BY <2>1, <2>2
  <2>4. MoneyTypes'
    BY <2>1, <2>3 DEF MoneyTypes
  <2>5. \A S \in SUBSET Messages : \A closing :
           HeldBy(turn', cost', overdue', S, closing) \subseteq HeldBy(turn, cost, overdue, S, closing)
    BY <2>1, <2>3 DEF HeldBy
  <2>6. Shrunk
    BY <2>1, <2>3, <2>5 DEF Shrunk
  <2>7. \A q \in Requests : req[q].closing \in SUBSET Messages
    BY DEF AdmissionInv, Types, ReqRecords
  <2> QED BY <2>1, <2>3, <2>4, <2>6, <2>7 DEF ClosesRunning
<1> QED BY <1>1, CallShrinks, EndShrinks DEF Work

(* A start adds its own turn and takes away what it closes.                     *)
LEMMA CommitGrows ==
    ASSUME AdmissionInv, MoneyTypes, NEW p \in Requests, Commit(p)
    PROVE  /\ Ready(req[p]) /\ Mine(p) \in Messages /\ turn[Mine(p)] = "none"
           /\ cost' = cost /\ overdue' = overdue
           /\ \A m \in Messages \ {Mine(p)} :
                 turn'[m] = IF m \in req[p].closing
                            THEN IF cost[m] = 0 THEN "refunded" ELSE "done" ELSE turn[m]
           /\ turn'[Mine(p)] = "live"
           /\ MoneyTypes'
           /\ \A S \in SUBSET Messages :
                 /\ HeldBy(turn', cost', overdue', S, {})
                      \subseteq HeldBy(turn, cost, overdue, S, req[p].closing)
                                \union ({Mine(p)} \X (1..Reserve))
                 /\ \A closing : HeldBy(turn', cost', overdue', S, closing)
                      \subseteq HeldBy(turn, cost, overdue, S, closing)
                                \union ({Mine(p)} \X (1..Reserve))
                 /\ \A closing : Mine(p) \notin S =>
                      HeldBy(turn', cost', overdue', S, closing)
                        \subseteq HeldBy(turn, cost, overdue, S, closing)
<1> DEFINE m == Mine(p)
<1>1. req[p] \in ReqRecords
  BY DEF AdmissionInv, Types
<1>2. m \in Messages /\ m = req[p].message
  BY <1>1 DEF Mine, ReqRecords
<1>3. Ready(req[p]) /\ turn[m] = "none" /\ cost' = cost /\ overdue' = overdue
  BY DEF Commit, Ready
<1>4. turn'[m] = "live" /\ \A n \in Messages \ {m} :
         turn'[n] = IF n \in req[p].closing
                    THEN IF cost[n] = 0 THEN "refunded" ELSE "done" ELSE turn[n]
  BY <1>2 DEF Commit
<1> HIDE DEF m
<1>5. MoneyTypes'
  BY <1>3, <1>4 DEF MoneyTypes
<1>6. \A n \in Messages \ {m} : turn'[n] = "live" => turn[n] = "live" /\ n \notin req[p].closing
  BY <1>4
<1>7. ASSUME NEW S \in SUBSET Messages
      PROVE  /\ HeldBy(turn', cost', overdue', S, {})
                  \subseteq HeldBy(turn, cost, overdue, S, req[p].closing)
                            \union ({m} \X (1..Reserve))
             /\ \A closing : HeldBy(turn', cost', overdue', S, closing)
                  \subseteq HeldBy(turn, cost, overdue, S, closing) \union ({m} \X (1..Reserve))
             /\ \A closing : m \notin S =>
                  HeldBy(turn', cost', overdue', S, closing)
                    \subseteq HeldBy(turn, cost, overdue, S, closing)
  BY <1>3, <1>6 DEF HeldBy
<1> QED BY <1>2, <1>3, <1>4, <1>5, <1>7 DEF m

-----------------------------------------------------------------------------
(* The three shapes cover every step.                                          *)

BaseInv == AdmissionInv /\ MoneyTypes /\ ClosingRuns

LEMMA StepShape ==
    ASSUME BaseInv, [AdmissionNext]_admissionVars
    PROVE  (\E p \in Requests : Moved(p)) \/ Shrunk \/ (\E p \in Requests : Commit(p))
<1>1. CASE UNCHANGED admissionVars
  BY <1>1 DEF admissionVars, Shrunk
<1>2. ASSUME NEW p \in Requests, Post(p) \/ Edit(p)
      PROVE  (\E q \in Requests : Moved(q)) \/ (\E q \in Requests : Commit(q))
  BY <1>2, RequestMoves DEF BaseInv
<1>3. ASSUME NEW m \in Messages, Work(m) PROVE Shrunk
  BY <1>3, WorkShrinks DEF BaseInv
<1> QED BY <1>1, <1>2, <1>3 DEF AdmissionNext

LEMMA BaseInit == AdmissionInit => BaseInv
<1> SUFFICES ASSUME AdmissionInit PROVE BaseInv
  OBVIOUS
<1>1. AdmissionInv
  BY InitHolds
<1>2. MoneyTypes
  BY ReservationAssumption DEF AdmissionInit, MoneyTypes
<1>3. ClosingRuns
  BY DEF AdmissionInit, ClosingRuns, ClosesRunning, Ready
<1> QED BY <1>1, <1>2, <1>3 DEF BaseInv

LEMMA BaseKept == BaseInv /\ [AdmissionNext]_admissionVars => BaseInv'
<1> SUFFICES ASSUME BaseInv, [AdmissionNext]_admissionVars PROVE BaseInv'
  OBVIOUS
<1>1. AdmissionInv /\ AdmissionInv' /\ MoneyTypes
  BY NextKeeps DEF BaseInv
<1>2. ASSUME NEW p \in Requests, Moved(p) PROVE BaseInv'
  <2>1. MoneyTypes'
    BY <1>1, <1>2 DEF Moved, MoneyTypes
  <2>2. ClosingRuns'
    BY <1>2 DEF BaseInv, ClosingRuns, Moved, Allowed
  <2> QED BY <1>1, <2>1, <2>2 DEF BaseInv
<1>3. ASSUME NEW m \in Messages, Work(m) PROVE BaseInv'
  <2>1. MoneyTypes' /\ \A q \in Requests : ClosesRunning(req'[q], turn')
    BY <1>1, <1>3, WorkShrinks DEF BaseInv, ClosingRuns
  <2> QED BY <1>1, <2>1 DEF BaseInv, ClosingRuns
<1>4. ASSUME NEW p \in Requests, Commit(p) PROVE BaseInv'
  <2>1. MoneyTypes'
    BY <1>1, <1>4, CommitGrows
  <2>2. ClosingRuns'
    <3> SUFFICES ASSUME NEW q \in Requests, Ready(req'[q]), NEW n \in req'[q].closing
                 PROVE  /\ turn'[n] \in {"live", "late"}
                        /\ ConversationOf[n] = ConversationOf[req'[q].message]
      BY DEF ClosingRuns, ClosesRunning
    <3>1. q # p
      BY <1>1, <1>4, CommitReq DEF Ready
    <3>2. /\ Ready(req[q]) /\ req'[q].closing = req[q].closing /\ ~Mutual(p, q)
          /\ req'[q].message = req[q].message
      BY <1>1, <1>4, <3>1, CommitReq DEF Ready
    <3>3. /\ turn[n] \in {"live", "late"} /\ n \in Messages
          /\ ConversationOf[n] = ConversationOf[req[q].message]
      BY <3>2 DEF BaseInv, ClosingRuns, ClosesRunning, AdmissionInv, Types, ReqRecords
    <3>4. ConversationOf[req[p].message] # ConversationOf[n]
      BY <3>2, <3>3 DEF Mutual, MyHome, Home, Mine
    <3>5. n \notin req[p].closing /\ n # Mine(p)
      BY <1>1, <1>4, <3>4, CommitGrows DEF BaseInv, ClosingRuns, ClosesRunning, Mine
    <3>6. turn'[n] = turn[n]
      BY <1>1, <1>4, <3>3, <3>5, CommitGrows
    <3> QED BY <3>2, <3>3, <3>6
  <2> QED BY <1>1, <2>1, <2>2 DEF BaseInv
<1>5. CASE UNCHANGED admissionVars
  BY <1>1, <1>5 DEF admissionVars, BaseInv, MoneyTypes, ClosingRuns
<1>6. ASSUME NEW p \in Requests, Post(p) \/ Edit(p), ~Commit(p) PROVE Moved(p)
  BY <1>1, <1>6, RequestMoves
<1> QED BY <1>2, <1>3, <1>4, <1>5, <1>6 DEF AdmissionNext

LEMMA CommittedIs ==
    ASSUME NEW S
    PROVE  /\ Committed(S) = Cardinality(HeldBy(turn, cost, overdue, S, {}))
           /\ Committed(S)' = Cardinality(HeldBy(turn', cost', overdue', S, {}))
<1>1. Held(S) = HeldBy(turn, cost, overdue, S, {})
  BY DEF Held, HeldBy
<1>2. Held(S)' = HeldBy(turn', cost', overdue', S, {})
  BY DEF Held, HeldBy
<1> QED BY <1>1, <1>2 DEF Committed

(* A start that is still ready after another commits counted nothing of it.     *)
LEMMA OthersReady ==
    ASSUME BaseInv, NEW p \in Requests, Commit(p), NEW q \in Requests, Ready(req'[q])
    PROVE  /\ q # p /\ Ready(req[q]) /\ ~Mutual(p, q)
           /\ req'[q].message = req[q].message /\ req'[q].closing = req[q].closing
           /\ req'[q].near = req[q].near
<1>1. q # p
  BY CommitReq DEF Ready, BaseInv
<1> QED BY <1>1, CommitReq DEF Ready, BaseInv

LEMMA SetsOfMessages ==
    /\ \A h : OfHome(h) \in SUBSET Messages
    /\ OfTrials \in SUBSET Messages
    /\ Messages \in SUBSET Messages
BY DEF OfHome, OfTrials

(* A home in which no turn starts holds no more than before, and one in which   *)
(* a turn starts at most its reservation more than the start had counted.       *)
LEMMA CommitCounts ==
    ASSUME BaseInv, NEW p \in Requests, Commit(p), NEW S \in SUBSET Messages
    PROVE  /\ Cardinality(HeldBy(turn', cost', overdue', S, {}))
                <= Cardinality(HeldBy(turn, cost, overdue, S, req[p].closing)) + Reserve
           /\ Cardinality(HeldBy(turn', cost', overdue', S, {}))
                <= Cardinality(HeldBy(turn, cost, overdue, S, {})) + Reserve
           /\ Mine(p) \notin S => \A closing :
                Cardinality(HeldBy(turn', cost', overdue', S, closing))
                  <= Cardinality(HeldBy(turn, cost, overdue, S, closing))
<1>1. /\ HeldBy(turn', cost', overdue', S, {})
           \subseteq HeldBy(turn, cost, overdue, S, req[p].closing)
                     \union ({Mine(p)} \X (1..Reserve))
      /\ HeldBy(turn', cost', overdue', S, {})
           \subseteq HeldBy(turn, cost, overdue, S, {}) \union ({Mine(p)} \X (1..Reserve))
      /\ \A closing : Mine(p) \notin S =>
           HeldBy(turn', cost', overdue', S, closing) \subseteq HeldBy(turn, cost, overdue, S, closing)
  BY CommitGrows DEF BaseInv
<1>2. \A closing : IsFiniteSet(HeldBy(turn, cost, overdue, S, closing))
  BY HeldIsFinite
<1>3. /\ Cardinality(HeldBy(turn', cost', overdue', S, {}))
           <= Cardinality(HeldBy(turn, cost, overdue, S, req[p].closing)) + Reserve
      /\ Cardinality(HeldBy(turn', cost', overdue', S, {}))
           <= Cardinality(HeldBy(turn, cost, overdue, S, {})) + Reserve
  BY <1>1, <1>2, OneMoreHeld
<1>4. ASSUME Mine(p) \notin S, NEW closing
      PROVE  Cardinality(HeldBy(turn', cost', overdue', S, closing))
               <= Cardinality(HeldBy(turn, cost, overdue, S, closing))
  BY <1>1, <1>2, <1>4, FewerHeld
<1> QED BY <1>3, <1>4

LEMMA ShrunkCounts ==
    ASSUME Shrunk, NEW S \in SUBSET Messages
    PROVE  /\ Cardinality(HeldBy(turn', cost', overdue', S, {}))
                <= Cardinality(HeldBy(turn, cost, overdue, S, {}))
           /\ \A q \in Requests : Ready(req'[q]) =>
                Cardinality(HeldBy(turn', cost', overdue', S, req[q].closing))
                  <= Cardinality(HeldBy(turn, cost, overdue, S, req[q].closing))
<1>1. \A closing : IsFiniteSet(HeldBy(turn, cost, overdue, S, closing))
  BY HeldIsFinite
<1>2. Cardinality(HeldBy(turn', cost', overdue', S, {}))
        <= Cardinality(HeldBy(turn, cost, overdue, S, {}))
  BY <1>1, FewerHeld DEF Shrunk
<1>3. ASSUME NEW q \in Requests, Ready(req'[q])
      PROVE  Cardinality(HeldBy(turn', cost', overdue', S, req[q].closing))
               <= Cardinality(HeldBy(turn, cost, overdue, S, req[q].closing))
  BY <1>1, <1>3, FewerHeld DEF Shrunk
<1> QED BY <1>2, <1>3

(* At first nothing is held back.                                              *)
LEMMA NothingHeld ==
    ASSUME AdmissionInit, NEW S \in SUBSET Messages
    PROVE  Committed(S) = 0 /\ \A p \in Requests : ~Ready(req[p]) /\ ~Far(req[p])
<1>1. Held(S) = {}
  BY ReservationAssumption DEF AdmissionInit, Held
<1>2. \A p \in Requests : ~Ready(req[p]) /\ ~Far(req[p])
  BY DEF AdmissionInit, Ready, Far
<1> QED BY <1>1, <1>2, FS_EmptySet DEF Committed

-----------------------------------------------------------------------------
(* The household's money.                                                      *)

LEMMA HouseInit == AdmissionInit => HouseInv
<1> SUFFICES ASSUME AdmissionInit PROVE HouseInv
  OBVIOUS
<1>1. \A h \in Homes : Committed(OfHome(h)) = 0
  BY NothingHeld, SetsOfMessages
<1>2. HouseBudgetHolds
  BY <1>1, AdmissionAssumption, ReservationAssumption DEF HouseBudgetHolds
<1>3. \A p \in Requests : HouseRoom(req[p], turn, cost, overdue)
  BY NothingHeld DEF HouseRoom
<1> QED BY <1>2, <1>3 DEF HouseInv

LEMMA HouseKept == BaseInv /\ HouseInv /\ [AdmissionNext]_admissionVars => HouseInv'
<1> SUFFICES ASSUME BaseInv, HouseInv, [AdmissionNext]_admissionVars PROVE HouseInv'
  OBVIOUS
<1>1. HouseBudget \in Nat /\ Reserve \in Nat
  BY AdmissionAssumption, ReservationAssumption
<1>2. \A S \in SUBSET Messages : \A closing :
         /\ Cardinality(HeldBy(turn, cost, overdue, S, closing)) \in Nat
         /\ Cardinality(HeldBy(turn', cost', overdue', S, closing)) \in Nat
  BY HeldIsFinite
<1>3. ASSUME NEW p \in Requests, Moved(p) PROVE HouseInv'
  <2>1. HouseBudgetHolds'
    BY <1>3, CommittedIs DEF HouseInv, HouseBudgetHolds, Moved
  <2>2. \A q \in Requests : HouseRoom(req'[q], turn', cost', overdue')
    BY <1>3 DEF HouseInv, Moved, Allowed
  <2> QED BY <2>1, <2>2 DEF HouseInv
<1>4. CASE Shrunk
  <2>1. ASSUME NEW h \in Homes PROVE Committed(OfHome(h))' < HouseBudget + Reserve
    <3>1. Committed(OfHome(h)) < HouseBudget + Reserve
      BY DEF HouseInv, HouseBudgetHolds
    <3> QED BY <1>1, <1>2, <1>4, <3>1, ShrunkCounts, CommittedIs, SetsOfMessages
  <2>2. ASSUME NEW q \in Requests PROVE HouseRoom(req'[q], turn', cost', overdue')
    <3> SUFFICES ASSUME Ready(req'[q])
                 PROVE  Cardinality(HeldBy(turn', cost', overdue', OfHome(Home(req'[q].message)),
                                           req'[q].closing)) < HouseBudget
      BY DEF HouseRoom
    <3>1. /\ Ready(req[q]) /\ req'[q].message = req[q].message
          /\ req'[q].closing = req[q].closing
      BY <1>4 DEF Shrunk
    <3>2. Cardinality(HeldBy(turn, cost, overdue, OfHome(Home(req[q].message)), req[q].closing))
            < HouseBudget
      BY <3>1 DEF HouseInv, HouseRoom
    <3>3. Cardinality(HeldBy(turn', cost', overdue', OfHome(Home(req[q].message)),
                             req[q].closing))
            <= Cardinality(HeldBy(turn, cost, overdue, OfHome(Home(req[q].message)),
                                  req[q].closing))
      BY <1>4, <3>1, ShrunkCounts, SetsOfMessages
    <3>4. OfHome(Home(req[q].message)) \in SUBSET Messages
      BY SetsOfMessages
    <3>5. Cardinality(HeldBy(turn', cost', overdue', OfHome(Home(req[q].message)),
                             req[q].closing)) < HouseBudget
      BY <1>1, <1>2, <3>2, <3>3, <3>4
    <3> QED BY <3>1, <3>5
  <2> QED BY <2>1, <2>2 DEF HouseInv, HouseBudgetHolds, OfHome, Home
<1>5. ASSUME NEW p \in Requests, Commit(p) PROVE HouseInv'
  <2>1. ASSUME NEW h \in Homes PROVE Committed(OfHome(h))' < HouseBudget + Reserve
    <3>1. CASE h = MyHome(p)
      <4>1. Cardinality(HeldBy(turn, cost, overdue, OfHome(h), req[p].closing)) < HouseBudget
        BY <1>5, <3>1, CommitGrows DEF HouseInv, HouseRoom, MyHome, Mine, BaseInv
      <4>2. Cardinality(HeldBy(turn', cost', overdue', OfHome(h), {}))
              <= Cardinality(HeldBy(turn, cost, overdue, OfHome(h), req[p].closing)) + Reserve
        BY <1>5, CommitCounts, SetsOfMessages
      <4> QED BY <1>1, <1>2, <4>1, <4>2, CommittedIs, SetsOfMessages
    <3>2. CASE h # MyHome(p)
      <4>1. Mine(p) \notin OfHome(h)
        BY <3>2 DEF MyHome, OfHome
      <4>2. Cardinality(HeldBy(turn', cost', overdue', OfHome(h), {}))
              <= Cardinality(HeldBy(turn, cost, overdue, OfHome(h), {}))
        BY <1>5, <4>1, CommitCounts, SetsOfMessages
      <4>3. Committed(OfHome(h)) < HouseBudget + Reserve
        BY DEF HouseInv, HouseBudgetHolds
      <4> QED BY <1>1, <1>2, <4>2, <4>3, CommittedIs, SetsOfMessages
    <3> QED BY <3>1, <3>2
  <2>2. ASSUME NEW q \in Requests PROVE HouseRoom(req'[q], turn', cost', overdue')
    <3> SUFFICES ASSUME Ready(req'[q])
                 PROVE  Cardinality(HeldBy(turn', cost', overdue', OfHome(Home(req'[q].message)),
                                           req'[q].closing)) < HouseBudget
      BY DEF HouseRoom
    <3> DEFINE h == Home(req[q].message)
    <3>1. /\ Ready(req[q]) /\ ~Mutual(p, q) /\ req'[q].message = req[q].message
          /\ req'[q].closing = req[q].closing
      BY <1>5, OthersReady
    <3>2. Cardinality(HeldBy(turn, cost, overdue, OfHome(h), req[q].closing)) < HouseBudget
      BY <3>1 DEF HouseInv, HouseRoom
    <3>3. Mine(p) \notin OfHome(h)
      BY <3>1 DEF Mutual, MyHome, Mine, OfHome
    <3>4. Cardinality(HeldBy(turn', cost', overdue', OfHome(h), req[q].closing))
            <= Cardinality(HeldBy(turn, cost, overdue, OfHome(h), req[q].closing))
      BY <1>5, <3>3, CommitCounts, SetsOfMessages
    <3> HIDE DEF h
    <3>5. Cardinality(HeldBy(turn', cost', overdue', OfHome(h), req[q].closing)) < HouseBudget
      BY <1>1, <1>2, <3>2, <3>4, SetsOfMessages
    <3> QED BY <3>1, <3>5 DEF h
  <2> QED BY <2>1, <2>2 DEF HouseInv, HouseBudgetHolds
<1> QED BY <1>3, <1>4, <1>5, StepShape

-----------------------------------------------------------------------------
(* The trials' share.                                                          *)

LEMMA TrialInit == AdmissionInit => TrialInv
<1> SUFFICES ASSUME AdmissionInit PROVE TrialInv
  OBVIOUS
<1>1. Committed(OfTrials) = 0
  BY NothingHeld, SetsOfMessages
<1>2. TrialBudgetHolds
  BY <1>1, AdmissionAssumption, ReservationAssumption DEF TrialBudgetHolds
<1>3. \A p \in Requests : TrialRoom(req[p], turn, cost, overdue)
  BY NothingHeld DEF TrialRoom
<1> QED BY <1>2, <1>3 DEF TrialInv

LEMMA TrialKept == BaseInv /\ TrialInv /\ [AdmissionNext]_admissionVars => TrialInv'
<1> SUFFICES ASSUME BaseInv, TrialInv, [AdmissionNext]_admissionVars PROVE TrialInv'
  OBVIOUS
<1>1. TrialBudget \in Nat /\ Reserve \in Nat
  BY AdmissionAssumption, ReservationAssumption
<1>2. \A closing :
         /\ Cardinality(HeldBy(turn, cost, overdue, OfTrials, closing)) \in Nat
         /\ Cardinality(HeldBy(turn', cost', overdue', OfTrials, closing)) \in Nat
  BY HeldIsFinite, SetsOfMessages
<1>3. Committed(OfTrials) < TrialBudget + Reserve
  BY DEF TrialInv, TrialBudgetHolds
<1>4. Committed(OfTrials)' < TrialBudget + Reserve => TrialBudgetHolds'
  BY DEF TrialBudgetHolds
<1>5. ASSUME NEW p \in Requests, Moved(p) PROVE TrialInv'
  <2>1. Committed(OfTrials)' < TrialBudget + Reserve
    BY <1>3, <1>5, CommittedIs DEF Moved
  <2>2. \A q \in Requests : TrialRoom(req'[q], turn', cost', overdue')
    BY <1>5 DEF TrialInv, Moved, Allowed
  <2> QED BY <1>4, <2>1, <2>2 DEF TrialInv
<1>6. CASE Shrunk
  <2>1. Committed(OfTrials)' < TrialBudget + Reserve
    BY <1>1, <1>2, <1>3, <1>6, ShrunkCounts, CommittedIs, SetsOfMessages
  <2>2. ASSUME NEW q \in Requests PROVE TrialRoom(req'[q], turn', cost', overdue')
    <3> SUFFICES ASSUME Ready(req'[q]), Home(req'[q].message) \in Trials
                 PROVE  Cardinality(HeldBy(turn', cost', overdue', OfTrials, req'[q].closing))
                          < TrialBudget
      BY DEF TrialRoom
    <3>1. /\ Ready(req[q]) /\ req'[q].message = req[q].message
          /\ req'[q].closing = req[q].closing
      BY <1>6 DEF Shrunk
    <3>2. Cardinality(HeldBy(turn, cost, overdue, OfTrials, req[q].closing)) < TrialBudget
      BY <3>1 DEF TrialInv, TrialRoom
    <3> QED BY <1>1, <1>2, <1>6, <3>1, <3>2, ShrunkCounts, SetsOfMessages
  <2> QED BY <1>4, <2>1, <2>2 DEF TrialInv
<1>7. ASSUME NEW p \in Requests, Commit(p) PROVE TrialInv'
  <2>1. Committed(OfTrials)' < TrialBudget + Reserve
    <3>1. CASE MyHome(p) \in Trials
      <4>1. Cardinality(HeldBy(turn, cost, overdue, OfTrials, req[p].closing)) < TrialBudget
        BY <1>7, <3>1, CommitGrows DEF TrialInv, TrialRoom, MyHome, Mine, BaseInv
      <4>2. Cardinality(HeldBy(turn', cost', overdue', OfTrials, {}))
              <= Cardinality(HeldBy(turn, cost, overdue, OfTrials, req[p].closing)) + Reserve
        BY <1>7, CommitCounts, SetsOfMessages
      <4> QED BY <1>1, <1>2, <4>1, <4>2, CommittedIs
    <3>2. CASE MyHome(p) \notin Trials
      <4>1. Mine(p) \notin OfTrials
        BY <3>2 DEF MyHome, OfTrials
      <4>2. Cardinality(HeldBy(turn', cost', overdue', OfTrials, {}))
              <= Cardinality(HeldBy(turn, cost, overdue, OfTrials, {}))
        BY <1>7, <4>1, CommitCounts, SetsOfMessages
      <4> QED BY <1>1, <1>2, <1>3, <4>2, CommittedIs
    <3> QED BY <3>1, <3>2
  <2>2. ASSUME NEW q \in Requests PROVE TrialRoom(req'[q], turn', cost', overdue')
    <3> SUFFICES ASSUME Ready(req'[q]), Home(req'[q].message) \in Trials
                 PROVE  Cardinality(HeldBy(turn', cost', overdue', OfTrials, req'[q].closing))
                          < TrialBudget
      BY DEF TrialRoom
    <3>1. /\ Ready(req[q]) /\ ~Mutual(p, q) /\ req'[q].message = req[q].message
          /\ req'[q].closing = req[q].closing
      BY <1>7, OthersReady
    <3>2. Cardinality(HeldBy(turn, cost, overdue, OfTrials, req[q].closing)) < TrialBudget
      BY <3>1 DEF TrialInv, TrialRoom
    <3>3. Mine(p) \notin OfTrials
      BY <3>1 DEF Mutual, CountsAll, MyHome, Mine, OfTrials
    <3>4. Cardinality(HeldBy(turn', cost', overdue', OfTrials, req[q].closing))
            <= Cardinality(HeldBy(turn, cost, overdue, OfTrials, req[q].closing))
      BY <1>7, <3>3, CommitCounts, SetsOfMessages
    <3> QED BY <1>1, <1>2, <3>1, <3>2, <3>4
  <2> QED BY <1>4, <2>1, <2>2 DEF TrialInv
<1> QED BY <1>5, <1>6, <1>7, StepShape

-----------------------------------------------------------------------------
(* The installation's money.                                                   *)

LEMMA InstallationInit == AdmissionInit => InstallationInv
<1> SUFFICES ASSUME AdmissionInit PROVE InstallationInv
  OBVIOUS
<1>1. Committed(Messages) = 0
  BY NothingHeld, SetsOfMessages
<1>2. Committed(Messages) < Budget + Reserve
  BY <1>1, AdmissionAssumption, ReservationAssumption
<1>3. \A p \in Requests : /\ NearRoom(req[p], turn, cost, overdue)
                          /\ FarBound(req[p], turn, cost, overdue)
  BY NothingHeld DEF NearRoom, FarBound
<1> QED BY <1>2, <1>3 DEF InstallationInv

LEMMA InstallationKept ==
    BaseInv /\ InstallationInv /\ [AdmissionNext]_admissionVars => InstallationInv'
<1> SUFFICES ASSUME BaseInv, InstallationInv, [AdmissionNext]_admissionVars
             PROVE  InstallationInv'
  OBVIOUS
<1> DEFINE now == Cardinality(HeldBy(turn, cost, overdue, Messages, {}))
           next == Cardinality(HeldBy(turn', cost', overdue', Messages, {}))
<1>1. Budget \in Nat /\ Reserve \in Nat /\ Band \in Nat
  BY AdmissionAssumption, ReservationAssumption
<1>2. \A closing :
         /\ Cardinality(HeldBy(turn, cost, overdue, Messages, closing)) \in Nat
         /\ Cardinality(HeldBy(turn', cost', overdue', Messages, closing)) \in Nat
  BY HeldIsFinite, SetsOfMessages
<1>3. now \in Nat /\ next \in Nat
  BY <1>2
<1>4. \A q \in Requests : FarBound(req[q], turn, cost, overdue)
  BY DEF InstallationInv
<1>5. \A q \in Requests : req[q] \in ReqRecords /\ req'[q] \in ReqRecords
  <2>1. AdmissionInv /\ AdmissionInv'
    BY NextKeeps DEF BaseInv
  <2> QED BY <2>1 DEF AdmissionInv, Types
<1>6. ASSUME NEW p \in Requests, Moved(p) PROVE InstallationInv'
  <2>1. \A q \in Requests : FarBound(req'[q], turn', cost', overdue')
    BY <1>4, <1>6 DEF Moved, Allowed
  <2>2. CASE FarAccepted
    <3>1. FarAccepted'
      BY <1>6, <2>2 DEF FarAccepted, Moved, Allowed
    <3> QED BY <2>1, <3>1 DEF InstallationInv
  <2>3. CASE ~FarAccepted
    <3>1. /\ Committed(Messages) < Budget + Reserve
          /\ \A q \in Requests : NearRoom(req[q], turn, cost, overdue)
      BY <2>3 DEF InstallationInv
    <3>2. Committed(Messages)' < Budget + Reserve
      BY <1>6, <3>1, CommittedIs DEF Moved
    <3>3. \A q \in Requests : NearRoom(req'[q], turn', cost', overdue')
      BY <1>6, <3>1 DEF Moved, Allowed
    <3> QED BY <2>1, <3>2, <3>3 DEF InstallationInv
  <2> QED BY <2>2, <2>3
<1>7. CASE Shrunk
  <2>1. next <= now
    BY <1>7, ShrunkCounts, SetsOfMessages
  <2>2. ASSUME NEW q \in Requests PROVE FarBound(req'[q], turn', cost', overdue')
    <3> SUFFICES ASSUME Far(req'[q]) PROVE next + Band <= Budget + Reserve * req'[q].since
      BY DEF FarBound
    <3>1. Far(req[q]) /\ req'[q].since = req[q].since
      BY <1>7 DEF Shrunk, Far
    <3>2. now + Band <= Budget + Reserve * req[q].since
      BY <1>4, <3>1 DEF FarBound
    <3>3. Reserve * req[q].since \in Nat
      BY <1>1, <1>5 DEF ReqRecords
    <3> HIDE DEF now, next
    <3> QED BY <1>1, <1>3, <2>1, <3>1, <3>2, <3>3
  <2>3. CASE FarAccepted
    <3>1. FarAccepted'
      BY <1>7, <2>3 DEF FarAccepted, Shrunk
    <3> QED BY <2>2, <3>1 DEF InstallationInv
  <2>4. CASE ~FarAccepted
    <3>1. /\ Committed(Messages) < Budget + Reserve
          /\ \A q \in Requests : NearRoom(req[q], turn, cost, overdue)
      BY <2>4 DEF InstallationInv
    <3>2. Committed(Messages)' < Budget + Reserve
      BY <1>1, <1>3, <2>1, <3>1, CommittedIs
    <3>3. ASSUME NEW q \in Requests PROVE NearRoom(req'[q], turn', cost', overdue')
      <4> SUFFICES ASSUME Ready(req'[q]), req'[q].near
                   PROVE  Cardinality(HeldBy(turn', cost', overdue', Messages, req'[q].closing))
                            < Budget
        BY DEF NearRoom
      <4>1. Ready(req[q]) /\ req[q].near /\ req'[q].closing = req[q].closing
        BY <1>7 DEF Shrunk
      <4>2. Cardinality(HeldBy(turn, cost, overdue, Messages, req[q].closing)) < Budget
        BY <3>1, <4>1 DEF NearRoom
      <4> QED BY <1>1, <1>2, <1>7, <4>1, <4>2, ShrunkCounts, SetsOfMessages
    <3> QED BY <2>2, <3>2, <3>3 DEF InstallationInv
  <2> QED BY <2>3, <2>4
<1>8. ASSUME NEW p \in Requests, Commit(p) PROVE InstallationInv'
  <2>1. next <= now + Reserve
    BY <1>8, CommitCounts, SetsOfMessages
  <2>2. ASSUME NEW q \in Requests PROVE FarBound(req'[q], turn', cost', overdue')
    <3> SUFFICES ASSUME Far(req'[q]) PROVE next + Band <= Budget + Reserve * req'[q].since
      BY DEF FarBound
    <3>1. Far(req[q]) /\ req'[q].since = req[q].since + 1
      BY <1>8, CommitReq DEF BaseInv
    <3>2. now + Band <= Budget + Reserve * req[q].since
      BY <1>4, <3>1 DEF FarBound
    <3>3. req[q].since \in Nat
      BY <1>5 DEF ReqRecords
    <3>4. /\ Reserve * req[q].since \in Nat
          /\ Reserve * (req[q].since + 1) = Reserve * req[q].since + Reserve
      BY <1>1, <3>3
    <3> HIDE DEF now, next
    <3> QED BY <1>1, <1>3, <2>1, <3>1, <3>2, <3>4
  <2>3. CASE FarAccepted \/ ~req[p].near
    <3>1. FarAccepted'
      <4>1. CASE ~req[p].near
        BY <1>8, <4>1, CommitReq DEF FarAccepted, BaseInv
      <4>2. CASE FarAccepted
        <5>1. PICK q \in Requests : req[q].pc = "accepted" /\ ~req[q].near
          BY <4>2 DEF FarAccepted
        <5>2. req[p].pc = "commit"
          BY <1>8 DEF Commit
        <5> QED BY <1>8, <5>1, <5>2, CommitReq DEF FarAccepted, BaseInv
      <4> QED BY <2>3, <4>1, <4>2
    <3> QED BY <2>2, <3>1 DEF InstallationInv
  <2>4. CASE ~FarAccepted /\ req[p].near
    <3>1. \A q \in Requests : NearRoom(req[q], turn, cost, overdue)
      BY <2>4 DEF InstallationInv
    <3>2. Cardinality(HeldBy(turn, cost, overdue, Messages, req[p].closing)) < Budget
      BY <1>8, <2>4, <3>1, CommitGrows DEF NearRoom, BaseInv
    <3>3. next <= Cardinality(HeldBy(turn, cost, overdue, Messages, req[p].closing)) + Reserve
      BY <1>8, CommitCounts, SetsOfMessages
    <3>4. Committed(Messages)' < Budget + Reserve
      BY <1>1, <1>2, <1>3, <3>2, <3>3, CommittedIs
    <3>5. ASSUME NEW q \in Requests PROVE NearRoom(req'[q], turn', cost', overdue')
      <4>1. Ready(req'[q]) => ~req'[q].near
        BY <1>8, <2>4, OthersReady DEF Mutual, CountsAll
      <4> QED BY <4>1 DEF NearRoom
    <3> QED BY <2>2, <3>4, <3>5 DEF InstallationInv
  <2> QED BY <2>3, <2>4
<1> QED BY <1>6, <1>7, <1>8, StepShape

LEMMA InstallationIsBound == BaseInv /\ InstallationInv => InstallationBudgetHolds
<1> SUFFICES ASSUME BaseInv, InstallationInv, ~(Committed(Messages) < Budget + Reserve)
             PROVE  \E p \in Requests :
                      req[p].pc = "accepted" /\ ~req[p].near /\ Reserve * req[p].since > Band
  BY DEF InstallationBudgetHolds
<1>1. PICK p \in Requests : req[p].pc = "accepted" /\ ~req[p].near
  BY DEF InstallationInv, FarAccepted
<1>2. Committed(Messages) + Band <= Budget + Reserve * req[p].since
  BY <1>1, CommittedIs DEF InstallationInv, FarBound, Far
<1>3. Committed(Messages) \in Nat
  BY CommittedIs, HeldIsFinite, SetsOfMessages
<1>4. Reserve \in Nat \ {0} /\ Budget \in Nat /\ Band \in Nat /\ Reserve * req[p].since \in Nat
  BY AdmissionAssumption, ReservationAssumption
  DEF BaseInv, AdmissionInv, Types, ReqRecords
<1>5. Reserve * req[p].since > Band
  BY <1>2, <1>3, <1>4
<1> QED BY <1>1, <1>5

-----------------------------------------------------------------------------
(* The semaphore.                                                              *)

LEMMA LiveIsFinite ==
    ASSUME NEW turns, NEW h, NEW closing
    PROVE  /\ IsFiniteSet(LiveBy(turns, h, closing))
           /\ Cardinality(LiveBy(turns, h, closing)) \in Nat
<1>1. LiveBy(turns, h, closing) \in SUBSET Messages
  BY DEF LiveBy, OfHome
<1> QED BY <1>1, FinitelyManyMessages, FS_Subset, FS_CardinalityType

LEMMA LiveIs ==
    ASSUME NEW h
    PROVE  /\ Live \intersect OfHome(h) = LiveBy(turn, h, {})
           /\ (Live \intersect OfHome(h))' = LiveBy(turn', h, {})
BY DEF LiveBy, Live, OfHome, Home

LEMMA SlotsInit == AdmissionInit => SlotsInv
<1> SUFFICES ASSUME AdmissionInit PROVE SlotsInv
  OBVIOUS
<1>1. HouseSemaphore
  <2> SUFFICES ASSUME NEW h \in Homes, HouseLimit > 0
               PROVE  Cardinality(Live \intersect OfHome(h)) <= HouseLimit
    BY DEF HouseSemaphore
  <2>1. Live \intersect OfHome(h) = {}
    BY DEF AdmissionInit, Live
  <2>2. Cardinality(Live \intersect OfHome(h)) = 0
    BY <2>1, FS_EmptySet
  <2> QED BY <2>2, AdmissionAssumption
<1>2. \A p \in Requests : SlotRoom(req[p], turn)
  BY NothingHeld, SetsOfMessages DEF SlotRoom
<1> QED BY <1>1, <1>2 DEF SlotsInv

LEMMA OneMore ==
    ASSUME NEW S, IsFiniteSet(S), NEW x
    PROVE  IsFiniteSet(S \union {x}) /\ Cardinality(S \union {x}) <= Cardinality(S) + 1
<1>1. Cardinality(S) \in Nat
  BY FS_CardinalityType
<1>2. /\ IsFiniteSet(S \union {x})
      /\ Cardinality(S \union {x}) = Cardinality(S) \/ Cardinality(S \union {x}) = Cardinality(S) + 1
  BY FS_AddElement
<1> QED BY <1>1, <1>2

LEMMA SlotsKept == BaseInv /\ SlotsInv /\ [AdmissionNext]_admissionVars => SlotsInv'
<1> SUFFICES ASSUME BaseInv, SlotsInv, [AdmissionNext]_admissionVars PROVE SlotsInv'
  OBVIOUS
<1> DEFINE Within(turns) ==
             HouseLimit > 0 => \A h \in Homes : Cardinality(LiveBy(turns, h, {})) <= HouseLimit
<1>1. HouseLimit \in Nat
  BY AdmissionAssumption
<1>2. Within(turn) /\ (Within(turn') => HouseSemaphore')
  BY LiveIs DEF SlotsInv, HouseSemaphore
<1>3. ASSUME NEW p \in Requests, Moved(p) PROVE SlotsInv'
  <2>1. HouseSemaphore'
    BY <1>2, <1>3 DEF Moved
  <2>2. \A q \in Requests : SlotRoom(req'[q], turn')
    BY <1>3 DEF SlotsInv, Moved, Allowed
  <2> QED BY <2>1, <2>2 DEF SlotsInv
<1>4. CASE Shrunk
  <2>1. ASSUME NEW h, NEW closing
        PROVE  Cardinality(LiveBy(turn', h, closing)) <= Cardinality(LiveBy(turn, h, closing))
    <3>1. LiveBy(turn', h, closing) \subseteq LiveBy(turn, h, closing)
      BY <1>4 DEF LiveBy, OfHome, Shrunk
    <3> QED BY <3>1, LiveIsFinite, FewerHeld
  <2>2. Within(turn')
    <3> SUFFICES ASSUME HouseLimit > 0, NEW h \in Homes
                 PROVE  Cardinality(LiveBy(turn', h, {})) <= HouseLimit
      OBVIOUS
    <3> HIDE DEF Within
    <3>1. Cardinality(LiveBy(turn, h, {})) <= HouseLimit
      BY <1>2 DEF Within
    <3> QED BY <1>1, <2>1, <3>1, LiveIsFinite
  <2>3. ASSUME NEW q \in Requests PROVE SlotRoom(req'[q], turn')
    <3> SUFFICES ASSUME Ready(req'[q]), HouseLimit > 0
                 PROVE  Cardinality(LiveBy(turn', Home(req'[q].message), req'[q].closing))
                          < HouseLimit
      BY DEF SlotRoom
    <3>1. /\ Ready(req[q]) /\ req'[q].message = req[q].message
          /\ req'[q].closing = req[q].closing
      BY <1>4 DEF Shrunk
    <3>2. Cardinality(LiveBy(turn, Home(req[q].message), req[q].closing)) < HouseLimit
      BY <3>1 DEF SlotsInv, SlotRoom
    <3> QED BY <1>1, <2>1, <3>1, <3>2, LiveIsFinite
  <2> HIDE DEF Within
  <2> QED BY <1>2, <2>2, <2>3 DEF SlotsInv
<1>5. ASSUME NEW p \in Requests, Commit(p) PROVE SlotsInv'
  <2>1. /\ Mine(p) \in Messages /\ Ready(req[p])
        /\ \A m \in Messages \ {Mine(p)} :
             turn'[m] = "live" => turn[m] = "live" /\ m \notin req[p].closing
    BY <1>5, CommitGrows DEF BaseInv
  <2>2. ASSUME NEW h, h # MyHome(p), NEW closing
        PROVE  Cardinality(LiveBy(turn', h, closing)) <= Cardinality(LiveBy(turn, h, closing))
    <3>1. LiveBy(turn', h, closing) \subseteq LiveBy(turn, h, closing)
      BY <2>1, <2>2 DEF LiveBy, OfHome, MyHome
    <3> QED BY <3>1, LiveIsFinite, FewerHeld
  <2>3. ASSUME HouseLimit > 0
        PROVE  Cardinality(LiveBy(turn', MyHome(p), {})) <= HouseLimit
    <3> DEFINE A == LiveBy(turn', MyHome(p), {})
               B == LiveBy(turn, MyHome(p), req[p].closing)
    <3>1. A \subseteq B \union {Mine(p)}
      BY <2>1 DEF LiveBy, OfHome
    <3>2. Cardinality(B) < HouseLimit
      BY <2>1, <2>3 DEF SlotsInv, SlotRoom, MyHome, Mine
    <3>3. IsFiniteSet(B) /\ Cardinality(B) \in Nat
      BY LiveIsFinite
    <3> HIDE DEF A, B
    <3>4. /\ IsFiniteSet(B \union {Mine(p)})
          /\ Cardinality(B \union {Mine(p)}) <= Cardinality(B) + 1
      BY <3>3, OneMore
    <3>5. /\ Cardinality(A) <= Cardinality(B \union {Mine(p)})
          /\ Cardinality(A) \in Nat /\ Cardinality(B \union {Mine(p)}) \in Nat
      BY <3>1, <3>4, FewerHeld
    <3>6. Cardinality(A) <= HouseLimit
      BY <1>1, <3>2, <3>3, <3>4, <3>5
    <3> QED BY <3>6 DEF A
  <2>4. Within(turn')
    <3> SUFFICES ASSUME HouseLimit > 0, NEW h \in Homes
                 PROVE  Cardinality(LiveBy(turn', h, {})) <= HouseLimit
      OBVIOUS
    <3> HIDE DEF Within
    <3>1. Cardinality(LiveBy(turn, h, {})) <= HouseLimit
      BY <1>2 DEF Within
    <3> QED BY <1>1, <2>2, <2>3, <3>1, LiveIsFinite
  <2>5. ASSUME NEW q \in Requests PROVE SlotRoom(req'[q], turn')
    <3> SUFFICES ASSUME Ready(req'[q]), HouseLimit > 0
                 PROVE  Cardinality(LiveBy(turn', Home(req'[q].message), req'[q].closing))
                          < HouseLimit
      BY DEF SlotRoom
    <3>1. /\ Ready(req[q]) /\ ~Mutual(p, q) /\ req'[q].message = req[q].message
          /\ req'[q].closing = req[q].closing
      BY <1>5, OthersReady
    <3>2. Cardinality(LiveBy(turn, Home(req[q].message), req[q].closing)) < HouseLimit
      BY <3>1 DEF SlotsInv, SlotRoom
    <3>3. Home(req[q].message) # MyHome(p)
      BY <3>1 DEF Mutual, MyHome, Mine
    <3> QED BY <1>1, <2>2, <3>1, <3>2, <3>3, LiveIsFinite
  <2> HIDE DEF Within
  <2> QED BY <1>2, <2>4, <2>5 DEF SlotsInv
<1> QED BY <1>3, <1>4, <1>5, StepShape

-----------------------------------------------------------------------------
(* The quota.                                                                  *)

ChargedBy(turns, h) == {m \in OfHome(h) : turns[m] \notin {"none", "refunded"}}

QuotaInv == used \in [Homes -> Int] /\ QuotaMatchesTurns

LEMMA ChargedIs ==
    ASSUME NEW h
    PROVE  /\ Charged(h) = ChargedBy(turn, h) /\ Charged(h)' = ChargedBy(turn', h)
           /\ IsFiniteSet(ChargedBy(turn, h)) /\ Cardinality(ChargedBy(turn, h)) \in Nat
<1>1. ChargedBy(turn, h) \in SUBSET Messages
  BY DEF ChargedBy, OfHome
<1>2. IsFiniteSet(ChargedBy(turn, h)) /\ Cardinality(ChargedBy(turn, h)) \in Nat
  BY <1>1, FinitelyManyMessages, FS_Subset, FS_CardinalityType
<1> QED BY <1>2 DEF Charged, ChargedBy, OfHome, Home

LEMMA QuotaInit == AdmissionInit => QuotaInv
<1> SUFFICES ASSUME AdmissionInit PROVE QuotaInv
  OBVIOUS
<1>1. \A h \in Homes : Charged(h) = {}
  BY DEF AdmissionInit, Charged, OfHome
<1>2. \A h \in Homes : used[h] = 0
  BY DEF AdmissionInit
<1>3. QuotaMatchesTurns
  BY <1>1, <1>2, FS_EmptySet DEF QuotaMatchesTurns
<1>4. used \in [Homes -> Int]
  BY DEF AdmissionInit
<1> QED BY <1>3, <1>4 DEF QuotaInv

LEMMA QuotaSame ==
    ASSUME QuotaInv, used' = used, \A h \in Homes : ChargedBy(turn', h) = ChargedBy(turn, h)
    PROVE  QuotaInv'
BY ChargedIs DEF QuotaInv, QuotaMatchesTurns

LEMMA HomesOfMessages == \A m \in Messages : Home(m) \in Homes
BY AdmissionAssumption DEF Home

(* One message counts no longer, or counts again.                              *)
LEMMA OneComesBack ==
    ASSUME QuotaInv, NEW m \in Messages, turn \in [Messages -> TurnStates],
           \/ /\ turn[m] \notin {"none", "refunded"}
              /\ turn' = [turn EXCEPT ![m] = "refunded"]
              /\ used' = [used EXCEPT ![Home(m)] = @ - 1]
           \/ /\ turn[m] = "refunded"
              /\ turn' = [turn EXCEPT ![m] = "done"]
              /\ used' = [used EXCEPT ![Home(m)] = @ + 1]
    PROVE  QuotaInv'
<1>1. Home(m) \in Homes /\ used \in [Homes -> Int]
  BY HomesOfMessages DEF QuotaInv
<1>2. used' \in [Homes -> Int]
  BY <1>1
<1> SUFFICES ASSUME NEW h \in Homes PROVE used'[h] = Cardinality(ChargedBy(turn', h))
  BY <1>2, ChargedIs DEF QuotaInv, QuotaMatchesTurns
<1>3. used[h] = Cardinality(ChargedBy(turn, h))
  BY ChargedIs DEF QuotaInv, QuotaMatchesTurns
<1>4. CASE h # Home(m)
  <2>1. ChargedBy(turn', h) = ChargedBy(turn, h)
    BY <1>4 DEF ChargedBy, OfHome
  <2>2. used'[h] = used[h]
    BY <1>1, <1>4
  <2> QED BY <1>3, <2>1, <2>2
<1>5. CASE h = Home(m) /\ turn[m] # "refunded"
  <2>1. ChargedBy(turn', h) = ChargedBy(turn, h) \ {m} /\ m \in ChargedBy(turn, h)
    BY <1>5 DEF ChargedBy, OfHome
  <2>2. Cardinality(ChargedBy(turn', h)) = Cardinality(ChargedBy(turn, h)) - 1
    <3> DEFINE A == ChargedBy(turn, h)
               B == ChargedBy(turn', h)
    <3>1. IsFiniteSet(A) /\ m \in A /\ B = A \ {m}
      BY <2>1, ChargedIs
    <3> HIDE DEF A, B
    <3> QED BY <3>1, FS_RemoveElement DEF A, B
  <2>3. used'[h] = used[h] - 1
    BY <1>1, <1>5
  <2> QED BY <1>3, <2>2, <2>3
<1>6. CASE h = Home(m) /\ turn[m] = "refunded"
  <2>1. ChargedBy(turn', h) = ChargedBy(turn, h) \union {m} /\ m \notin ChargedBy(turn, h)
    BY <1>6 DEF ChargedBy, OfHome
  <2>2. Cardinality(ChargedBy(turn', h)) = Cardinality(ChargedBy(turn, h)) + 1
    BY <2>1, ChargedIs, FS_AddElement
  <2>3. used'[h] = used[h] + 1
    BY <1>1, <1>6
  <2> QED BY <1>3, <2>2, <2>3
<1> QED BY <1>4, <1>5, <1>6

(* A turn that ends gives its message back or stays charged, and a later call   *)
(* charges it again.                                                           *)
LEMMA EndCharges ==
    ASSUME BaseInv, QuotaInv, NEW m \in Messages, End(m) \/ GiveBack(m) \/ Call(m)
    PROVE  QuotaInv'
<1>1. turn \in [Messages -> TurnStates] /\ Home(m) \in Homes /\ used \in [Homes -> Int]
  BY HomesOfMessages DEF BaseInv, AdmissionInv, Types, QuotaInv
<1>2. CASE End(m)
  <2>1. PICK refund \in BOOLEAN :
          /\ turn' = [turn EXCEPT ![m] = IF refund THEN "refunded" ELSE "done"]
          /\ used' = [used EXCEPT ![Home(m)] = IF refund THEN @ - 1 ELSE @]
    BY <1>2 DEF End
  <2>2. turn[m] \in {"live", "late"}
    BY <1>2 DEF End, Running
  <2>3. CASE refund
    BY <1>1, <2>1, <2>2, <2>3, OneComesBack
  <2>4. CASE ~refund
    <3>1. used' = used
      BY <1>1, <2>1, <2>4
    <3>2. \A h \in Homes : ChargedBy(turn', h) = ChargedBy(turn, h)
      BY <1>1, <2>1, <2>2, <2>4 DEF ChargedBy, OfHome
    <3> QED BY <3>1, <3>2, QuotaSame
  <2> QED BY <2>3, <2>4
<1>3. CASE GiveBack(m)
  BY <1>1, <1>3, OneComesBack DEF GiveBack
<1>4. CASE Call(m)
  <2>1. CASE turn[m] = "refunded"
    BY <1>1, <1>4, <2>1, OneComesBack DEF Call
  <2>2. CASE turn[m] # "refunded"
    BY <1>4, <2>2, QuotaSame DEF Call
  <2> QED BY <2>1, <2>2
<1> QED BY <1>2, <1>3, <1>4

(* A start is charged once and hands back what it closes for a refund: all of   *)
(* that was still running, and charged.                                        *)
LEMMA CommitCharges ==
    ASSUME BaseInv, QuotaInv, NEW p \in Requests, Commit(p)
    PROVE  QuotaInv'
<1> DEFINE m == Mine(p)
           closing == req[p].closing
           gone == Free(closing)
<1>1. /\ Ready(req[p]) /\ m \in Messages /\ turn[m] = "none" /\ turn'[m] = "live"
      /\ \A n \in Messages \ {m} :
            turn'[n] = IF n \in closing THEN IF cost[n] = 0 THEN "refunded" ELSE "done"
                       ELSE turn[n]
  BY CommitGrows DEF BaseInv
<1>2. closing \in SUBSET Messages
  BY DEF BaseInv, AdmissionInv, Types, ReqRecords
<1>3. \A n \in closing : /\ turn[n] \in {"live", "late"} /\ Home(n) = MyHome(p)
  BY <1>1 DEF BaseInv, ClosingRuns, ClosesRunning, MyHome, Home, Mine
<1>4. gone \in SUBSET ChargedBy(turn, MyHome(p))
  BY <1>2, <1>3 DEF ChargedBy, OfHome, Free
<1>5. used' = [used EXCEPT ![MyHome(p)] = @ - Cardinality(gone) + 1]
  BY DEF Commit
<1>6. MyHome(p) \in Homes /\ used \in [Homes -> Int] /\ MyHome(p) = Home(m)
  BY <1>1, HomesOfMessages DEF QuotaInv, MyHome
<1>7. \A n \in Messages \ {m} :
         /\ n \notin closing => turn'[n] = turn[n]
         /\ n \in closing => turn'[n] = IF n \in gone THEN "refunded" ELSE "done"
  BY <1>1, <1>2 DEF Free
<1>8. IsFiniteSet(gone) /\ Cardinality(gone) \in Nat
  <2>1. IsFiniteSet(ChargedBy(turn, MyHome(p)))
    BY ChargedIs
  <2> HIDE DEF gone
  <2> QED BY <1>4, <2>1, FS_Subset, FS_CardinalityType
<1> SUFFICES ASSUME NEW h \in Homes
             PROVE  used'[h] \in Int /\ used'[h] = Cardinality(ChargedBy(turn', h))
  BY <1>5, <1>6, ChargedIs DEF QuotaInv, QuotaMatchesTurns
<1>9. used[h] = Cardinality(ChargedBy(turn, h))
  BY ChargedIs DEF QuotaInv, QuotaMatchesTurns
<1>10. CASE h = MyHome(p)
  <2> DEFINE A == ChargedBy(turn, h)
             B == A \ gone
  <2>1. ChargedBy(turn', h) = B \union {m}
    <3>1. ASSUME NEW n \in ChargedBy(turn', h) PROVE n \in B \union {m}
      <4>1. /\ n \in Messages /\ Home(n) = h /\ turn'[n] \notin {"none", "refunded"}
        BY <3>1 DEF ChargedBy, OfHome, Home
      <4>2. CASE n \in closing /\ n # m
        <5>1. n \notin gone
          BY <1>7, <4>1, <4>2
        <5>2. turn[n] \in {"live", "late"}
          BY <1>3, <4>2
        <5> QED BY <4>1, <5>1, <5>2 DEF ChargedBy, OfHome
      <4>3. CASE n \notin closing /\ n # m
        BY <1>7, <4>1, <4>3 DEF ChargedBy, OfHome, Free
      <4> QED BY <4>2, <4>3
    <3>2. ASSUME NEW n \in B \union {m} PROVE n \in ChargedBy(turn', h)
      <4>1. CASE n = m
        BY <1>1, <1>6, <1>10, <4>1 DEF ChargedBy, OfHome
      <4>2. CASE n # m
        <5>1. n \in Messages /\ Home(n) = h /\ turn[n] \notin {"none", "refunded"} /\ n \notin gone
          BY <3>2, <4>2 DEF ChargedBy, OfHome
        <5>2. turn'[n] \notin {"none", "refunded"}
          BY <1>2, <1>7, <4>2, <5>1
        <5> QED BY <5>1, <5>2 DEF ChargedBy, OfHome
      <4> QED BY <4>1, <4>2
    <3> QED BY <3>1, <3>2
  <2>2. m \notin A
    BY <1>1 DEF ChargedBy
  <2>3. IsFiniteSet(A) /\ Cardinality(A) \in Nat
    BY ChargedIs
  <2>4. A \intersect gone = gone
    BY <1>4, <1>10
  <2> HIDE DEF A, gone
  <2>5. IsFiniteSet(B) /\ Cardinality(B) = Cardinality(A) - Cardinality(gone)
    BY <2>3, <2>4, FS_Difference
  <2>6. m \notin B
    BY <2>2
  <2> HIDE DEF B, m
  <2>7. Cardinality(B \union {m}) = Cardinality(B) + 1
    BY <2>5, <2>6, FS_AddElement
  <2>8. used'[h] = used[h] - Cardinality(gone) + 1
    BY <1>5, <1>6, <1>10
  <2> QED BY <1>8, <1>9, <2>1, <2>3, <2>5, <2>7, <2>8 DEF A
<1>11. CASE h # MyHome(p)
  <2>1. ASSUME NEW n \in OfHome(h) PROVE turn'[n] = turn[n]
    BY <1>3, <1>6, <1>7, <1>11 DEF OfHome
  <2>2. ChargedBy(turn', h) = ChargedBy(turn, h)
    BY <2>1 DEF ChargedBy
  <2>3. used'[h] = used[h]
    BY <1>5, <1>6, <1>11
  <2> QED BY <1>6, <1>9, <2>2, <2>3
<1> QED BY <1>10, <1>11

LEMMA QuotaKept == BaseInv /\ QuotaInv /\ [AdmissionNext]_admissionVars => QuotaInv'
<1> SUFFICES ASSUME BaseInv, QuotaInv, [AdmissionNext]_admissionVars PROVE QuotaInv'
  OBVIOUS
<1>1. ASSUME NEW p \in Requests, Post(p) \/ Edit(p), ~Commit(p) PROVE QuotaInv'
  <2>1. turn' = turn /\ used' = used
    BY <1>1, RequestMoves DEF BaseInv, Moved
  <2> QED BY <2>1, QuotaSame
<1>3. ASSUME NEW m \in Messages, Expire(m) PROVE QuotaInv'
  <2>1. used' = used /\ turn[m] = "live" /\ turn' = [turn EXCEPT ![m] = "late"]
    BY <1>3 DEF Expire
  <2>2. turn \in [Messages -> TurnStates]
    BY DEF BaseInv, AdmissionInv, Types
  <2>3. \A h \in Homes : ChargedBy(turn', h) = ChargedBy(turn, h)
    BY <2>1, <2>2 DEF ChargedBy, OfHome
  <2> QED BY <2>1, <2>3, QuotaSame
<1>4. CASE UNCHANGED admissionVars
  BY <1>4, QuotaSame DEF admissionVars
<1> QED BY <1>1, <1>3, <1>4, EndCharges, CommitCharges DEF AdmissionNext, Work

-----------------------------------------------------------------------------
(* What a ready start has seen of the quota.                                   *)

QuotaRoomInv == \A p \in Requests : QuotaRoom(req[p], used, cost)

LEMMA QuotaRoomInit == AdmissionInit => QuotaRoomInv
BY NothingHeld, SetsOfMessages DEF QuotaRoomInv, QuotaRoom

LEMMA QuotaRoomKept == BaseInv /\ QuotaRoomInv /\ [AdmissionNext]_admissionVars => QuotaRoomInv'
<1> SUFFICES ASSUME BaseInv, QuotaRoomInv, [AdmissionNext]_admissionVars PROVE QuotaRoomInv'
  OBVIOUS
<1>1. ASSUME NEW p \in Requests, Moved(p) PROVE QuotaRoomInv'
  BY <1>1 DEF QuotaRoomInv, Moved, Allowed
<1>2. CASE Shrunk
  <2> SUFFICES ASSUME NEW q \in Requests, Ready(req'[q])
               PROVE  used'[Home(req'[q].message)]
                        - Cardinality({m \in req'[q].closing : cost'[m] = 0}) < QuotaLimit
    BY DEF QuotaRoomInv, QuotaRoom
  <2>1. /\ Ready(req[q]) /\ req'[q].message = req[q].message /\ req'[q].closing = req[q].closing
        /\ used'[Home(req[q].message)] = used[Home(req[q].message)]
        /\ \A n \in req[q].closing : cost'[n] = cost[n]
    BY <1>2 DEF Shrunk
  <2>2. {m \in req'[q].closing : cost'[m] = 0} = {m \in req[q].closing : cost[m] = 0}
    BY <2>1
  <2> QED BY <2>1, <2>2 DEF QuotaRoomInv, QuotaRoom
<1>3. ASSUME NEW p \in Requests, Commit(p) PROVE QuotaRoomInv'
  <2> SUFFICES ASSUME NEW q \in Requests, Ready(req'[q])
               PROVE  used'[Home(req'[q].message)]
                        - Cardinality({m \in req'[q].closing : cost'[m] = 0}) < QuotaLimit
    BY DEF QuotaRoomInv, QuotaRoom
  <2>1. /\ Ready(req[q]) /\ ~Mutual(p, q) /\ req'[q].message = req[q].message
        /\ req'[q].closing = req[q].closing
    BY <1>3, OthersReady
  <2>2. Home(req[q].message) # MyHome(p)
    BY <2>1 DEF Mutual, MyHome, Mine
  <2>3. used'[Home(req[q].message)] = used[Home(req[q].message)] /\ cost' = cost
    BY <1>3, <2>2 DEF Commit
  <2> QED BY <2>1, <2>3 DEF QuotaRoomInv, QuotaRoom
<1> QED BY <1>1, <1>2, <1>3, StepShape

-----------------------------------------------------------------------------
(* Every step is one of the contract, or none of it.                           *)

ContractInv == BaseInv /\ SlotsInv /\ HouseInv /\ TrialInv /\ QuotaInv /\ QuotaRoomInv

LEMMA SameWords ==
    /\ \A m : Contract!Home(m) = Home(m)
    /\ \A h : Contract!OfHome(h) = OfHome(h)
    /\ Contract!OfTrials = OfTrials
    /\ \A t, h : Contract!Charged(t, OfHome(h)) = ChargedBy(t, h)
BY DEF Contract!Home, Contract!OfHome, Contract!OfTrials, Contract!Charged,
       Home, OfHome, OfTrials, ChargedBy

LEMMA SameCount == \A S : Contract!Cardinality(S) = Cardinality(S)
BY DEF Contract!Cardinality, Cardinality

LEMMA InitOfContract == AdmissionInit => Contract!Init
BY DEF AdmissionInit, Contract!Init

(* The counter is what the turns say, before the step and after it.            *)
LEMMA CounterOfContract ==
    ASSUME QuotaInv'
    PROVE  used' = [h \in Homes |-> Cardinality(Contract!Charged(turn', Contract!OfHome(h)))]
<1>1. \A h \in Homes : used'[h] = Cardinality(ChargedBy(turn', h))
  BY ChargedIs DEF QuotaInv, QuotaMatchesTurns
<1>2. used' \in [Homes -> Int]
  BY DEF QuotaInv
<1>3. \A h \in Homes : used'[h] = Cardinality(Contract!Charged(turn', Contract!OfHome(h)))
  BY <1>1, SameWords
<1> QED BY <1>2, <1>3

(* A commit is a start: what it closes is all that runs in its conversation,    *)
(* and the room it has counted is still there.                                 *)
LEMMA CommitStarts ==
    ASSUME ContractInv, NEW p \in Requests, Commit(p)
    PROVE  Mine(p) \in Messages /\ Contract!Start(Mine(p))
<1> DEFINE m == Mine(p)
           c == ConversationOf[m]
           h == Home(m)
           closing == req[p].closing
           left == Contract!Closed(c)
<1>1. /\ Ready(req[p]) /\ m \in Messages /\ turn[m] = "none" /\ turn'[m] = "live"
      /\ cost' = cost /\ overdue' = overdue
      /\ \A n \in Messages \ {m} :
            turn'[n] = IF n \in closing THEN IF cost[n] = 0 THEN "refunded" ELSE "done"
                       ELSE turn[n]
  BY CommitGrows DEF ContractInv, BaseInv
<1>2. m = req[p].message /\ closing \in SUBSET Messages /\ turn \in [Messages -> TurnStates]
  BY DEF Mine, ContractInv, BaseInv, AdmissionInv, Types, ReqRecords
<1>3. \A n \in Messages : n \in closing <=> turn[n] \in {"live", "late"} /\ ConversationOf[n] = c
  <2>1. \A n \in closing : turn[n] \in {"live", "late"} /\ ConversationOf[n] = c
    BY <1>1, <1>2 DEF ContractInv, BaseInv, ClosingRuns, ClosesRunning
  <2>2. RunningIn(turn, c) \subseteq closing
    BY <1>1, <1>2 DEF ContractInv, BaseInv, AdmissionInv, SeesRunning, Sees, Ready
  <2> QED BY <1>2, <2>1, <2>2 DEF RunningIn
<1>4. left = [n \in Messages |-> IF n \in closing THEN IF cost[n] = 0 THEN "refunded" ELSE "done"
                                 ELSE turn[n]]
  BY <1>3 DEF Contract!Closed
<1> HIDE DEF left
<1>5. HouseLimit > 0 => Cardinality(Contract!Living(left, OfHome(h))) < HouseLimit
  <2>1. Contract!Living(left, OfHome(h)) = LiveBy(turn, h, closing)
    BY <1>4 DEF Contract!Living, LiveBy, OfHome
  <2> QED BY <1>1, <1>2, <2>1 DEF ContractInv, SlotsInv, SlotRoom
<1>6. ASSUME NEW S \in SUBSET Messages
      PROVE  Contract!Held(left, S) = HeldBy(turn, cost, overdue, S, closing)
  BY <1>4 DEF Contract!Held, HeldBy
<1>7. Cardinality(Contract!Held(left, OfHome(h))) < HouseBudget
  BY <1>1, <1>2, <1>6, SetsOfMessages DEF ContractInv, HouseInv, HouseRoom
<1>8. h \in Trials => Cardinality(Contract!Held(left, OfTrials)) < TrialBudget
  BY <1>1, <1>2, <1>6, SetsOfMessages DEF ContractInv, TrialInv, TrialRoom
<1>9. Cardinality(Contract!Charged(left, OfHome(h))) < QuotaLimit
  <2> DEFINE A == ChargedBy(turn, h)
             gone == Free(closing)
             B == A \ gone
  <2>1. Contract!Charged(left, OfHome(h)) = B
    <3>1. \A n \in OfHome(h) : n \in closing => (left[n] = "refunded" <=> n \in gone)
      BY <1>2, <1>4 DEF Free
    <3>2. \A n \in OfHome(h) : left[n] \notin {"none", "refunded"}
                              <=> turn[n] \notin {"none", "refunded"} /\ n \notin gone
      BY <1>3, <1>4 DEF Free, OfHome
    <3> QED BY <3>2 DEF Contract!Charged, ChargedBy
  <2>2. gone \subseteq A
    BY <1>2, <1>3 DEF Free, ChargedBy, OfHome, Home
  <2>3. IsFiniteSet(A) /\ Cardinality(A) \in Nat
    BY ChargedIs
  <2>4. h \in Homes /\ used[h] = Cardinality(A)
    BY <1>1, HomesOfMessages, ChargedIs DEF ContractInv, QuotaInv, QuotaMatchesTurns
  <2>5. used[h] - Cardinality(gone) < QuotaLimit
    BY <1>1, <1>2 DEF ContractInv, QuotaRoomInv, QuotaRoom, Free
  <2> HIDE DEF A, gone
  <2>6. A \intersect gone = gone
    BY <2>2
  <2>7. Cardinality(B) = Cardinality(A) - Cardinality(gone)
    BY <2>3, <2>6, FS_Difference
  <2> QED BY <2>1, <2>4, <2>5, <2>7
<1>10. turn' = [left EXCEPT ![m] = "live"]
  <2>1. turn' = [n \in Messages |-> turn'[n]]
    BY DEF Commit
  <2> QED BY <1>1, <1>4, <2>1
<1>11. Contract!OfHome(Contract!Home(m)) = OfHome(h) /\ Contract!OfTrials = OfTrials
       /\ Contract!Home(m) = h
  BY SameWords
<1>12. /\ HouseLimit > 0 =>
             Cardinality(Contract!Living(left, Contract!OfHome(Contract!Home(m)))) < HouseLimit
       /\ Cardinality(Contract!Held(left, Contract!OfHome(Contract!Home(m)))) < HouseBudget
       /\ Contract!Home(m) \in Trials =>
             Cardinality(Contract!Held(left, Contract!OfTrials)) < TrialBudget
       /\ Cardinality(Contract!Charged(left, Contract!OfHome(Contract!Home(m)))) < QuotaLimit
  BY <1>5, <1>7, <1>8, <1>9, <1>11
<1> QED BY <1>1, <1>10, <1>12, SameCount DEF Contract!Start, left

(* The steps of a turn are those of the contract.                              *)
LEMMA WorkWorks ==
    ASSUME ContractInv, NEW m \in Messages, Work(m)
    PROVE  Contract!Spend(m) \/ Contract!GrowOld(m) \/ Contract!End(m)
<1>1. /\ turn \in [Messages -> TurnStates] /\ cost \in [Messages -> 0..Reserve]
      /\ overdue \in [Messages -> SUBSET (1..Reserve)]
  BY DEF ContractInv, BaseInv, AdmissionInv, Types, MoneyTypes
<1>2. CASE Call(m)
  <2>1. cost'[m] = cost[m] + 1
    BY <1>1, <1>2 DEF Call
  <2>2. overdue' = IF turn[m] = "live" THEN overdue
                   ELSE [overdue EXCEPT ![m] = @ \union {cost[m] + 1}]
    BY <1>1, <1>2, <2>1 DEF Call
  <2> QED BY <1>2, <2>2 DEF Call, Contract!Spend
<1>3. CASE Expire(m)
  BY <1>3 DEF Expire, Contract!GrowOld
<1>4. CASE End(m)
  BY <1>4 DEF End, Running, Contract!End, Contract!MayEnd
<1>5. CASE GiveBack(m)
  BY <1>5 DEF GiveBack, Contract!End, Contract!MayEnd
<1> QED BY <1>2, <1>3, <1>4, <1>5 DEF Work

LEMMA StepOfContract ==
    ContractInv /\ QuotaInv' /\ [AdmissionNext]_admissionVars
        => [Contract!Next]_(Contract!contractVars)
<1> SUFFICES ASSUME ContractInv, QuotaInv', [AdmissionNext]_admissionVars
             PROVE  Contract!Next \/ UNCHANGED <<turn, cost, overdue, used>>
  BY DEF Contract!contractVars
<1>1. ASSUME NEW p \in Requests, Post(p) \/ Edit(p), ~Commit(p)
      PROVE  UNCHANGED <<turn, cost, overdue, used>>
  BY <1>1, RequestMoves DEF ContractInv, BaseInv, Moved
<1>5. used' = [h \in Homes |-> Cardinality(Contract!Charged(turn', Contract!OfHome(h)))]
  BY CounterOfContract
<1>2. ASSUME NEW p \in Requests, Commit(p) PROVE Contract!Next
  <2>1. Mine(p) \in Messages /\ Contract!Start(Mine(p))
    BY <1>2, CommitStarts
  <2> QED BY <1>5, <2>1, SameCount DEF Contract!Next
<1>3. ASSUME NEW m \in Messages, Work(m) PROVE Contract!Next
  <2>1. Contract!Spend(m) \/ Contract!GrowOld(m) \/ Contract!End(m)
    BY <1>3, WorkWorks
  <2> QED BY <1>5, <2>1, SameCount DEF Contract!Next
<1>4. CASE UNCHANGED admissionVars
  BY <1>4 DEF admissionVars
<1> QED BY <1>1, <1>2, <1>3, <1>4 DEF AdmissionNext

-----------------------------------------------------------------------------
LEMMA BaseIsKept == AdmissionSpec => []BaseInv
BY BaseInit, BaseKept, PTL DEF AdmissionSpec

(* The types of the module: a request is tried again at most Retries times      *)
(* (runSerializable).                                                          *)
THEOREM AdmissionTypes == AdmissionSpec => []AdmissionTypeOK
<1>1. AdmissionInit => QuotaInv
  BY QuotaInit
<1>2. BaseInv /\ QuotaInv => AdmissionTypeOK
  BY DEF BaseInv, AdmissionInv, Types, MoneyTypes, QuotaInv, AdmissionTypeOK, ReqRecords
<1>3. AdmissionSpec => []QuotaInv
  BY QuotaInit, QuotaKept, BaseIsKept, PTL DEF AdmissionSpec
<1> QED BY <1>2, <1>3, BaseIsKept, PTL

(* However many requests start turns at once, in however many conversations    *)
(* and households: a conversation has one running turn and a household no more  *)
(* live ones than its semaphore allows (postMessage's transaction, in which a   *)
(* start that counted less than there is has become a rival).                   *)
THEOREM ExclusiveTurns == AdmissionSpec => []TurnsAreExclusive
<1>1. AdmissionInv => OneTurnAtATime
  <2> SUFFICES ASSUME AdmissionInv, NEW c \in Conversations
               PROVE  Cardinality(Running \intersect OfConversation(c)) <= 1
    BY DEF OneTurnAtATime
  <2> DEFINE S == Running \intersect OfConversation(c)
  <2>1. \A m, n \in S : m = n
    BY DEF AdmissionInv, AtMostOne, Running, OfConversation
  <2> HIDE DEF S
  <2>2. CASE S = {}
    BY <2>2, FS_EmptySet DEF S
  <2>3. CASE S # {}
    <3>1. PICK m : m \in S
      BY <2>3
    <3>2. S = {m}
      BY <2>1, <3>1
    <3>3. Cardinality(S) = 1
      BY <3>2, FS_Singleton
    <3> QED BY <3>3 DEF S
  <2> QED BY <2>2, <2>3
<1>2. AdmissionSpec => []SlotsInv
  BY SlotsInit, SlotsKept, BaseIsKept, PTL DEF AdmissionSpec
<1>3. AdmissionInv /\ SlotsInv => TurnsAreExclusive
  BY <1>1 DEF SlotsInv, TurnsAreExclusive
<1> QED BY <1>2, <1>3, AdmissionIsKept, PTL

(* However many turns start at once: a household and the trials pass their      *)
(* ceilings by less than one reservation, and so does the installation unless   *)
(* more starts than its band holds reserves followed a look from afar           *)
(* (assertHouseholdBudget, installationHeadroomMicroUsd).                      *)
THEOREM BudgetsAreKept == AdmissionSpec => []BudgetsHold
<1>1. AdmissionSpec => []HouseInv
  BY HouseInit, HouseKept, BaseIsKept, PTL DEF AdmissionSpec
<1>2. AdmissionSpec => []TrialInv
  BY TrialInit, TrialKept, BaseIsKept, PTL DEF AdmissionSpec
<1>3. AdmissionSpec => []InstallationInv
  BY InstallationInit, InstallationKept, BaseIsKept, PTL DEF AdmissionSpec
<1>4. BaseInv /\ HouseInv /\ TrialInv /\ InstallationInv => BudgetsHold
  BY InstallationIsBound DEF HouseInv, TrialInv, BudgetsHold
<1> QED BY <1>1, <1>2, <1>3, <1>4, BaseIsKept, PTL

(* The counter of the quota is the number of the household's messages whose      *)
(* turn was not handed back, whoever ends a turn while another start is about    *)
(* to close it (tryConsume, closeTurn).                                        *)
THEOREM QuotaIsRight == AdmissionSpec => []QuotaMatchesTurns
<1>1. AdmissionSpec => []QuotaInv
  BY QuotaInit, QuotaKept, BaseIsKept, PTL DEF AdmissionSpec
<1> QED BY <1>1, PTL DEF QuotaInv

(* For any number of requests, messages and households: transactions that      *)
(* decide on what they have read, fail against each other, are taken again and  *)
(* meet the ledger in between add up to starts of one step each, which close,    *)
(* count and charge at once (postMessage, runSerializable, AgentUsageLedger).    *)
THEOREM StartsAreOneStep == AdmissionSpec => StartsAreAtomic
<1>1. AdmissionSpec => []QuotaInv
  BY QuotaInit, QuotaKept, BaseIsKept, PTL DEF AdmissionSpec
<1>2. AdmissionSpec => []SlotsInv
  BY SlotsInit, SlotsKept, BaseIsKept, PTL DEF AdmissionSpec
<1>3. AdmissionSpec => []HouseInv
  BY HouseInit, HouseKept, BaseIsKept, PTL DEF AdmissionSpec
<1>4. AdmissionSpec => []TrialInv
  BY TrialInit, TrialKept, BaseIsKept, PTL DEF AdmissionSpec
<1>5. AdmissionSpec => []QuotaRoomInv
  BY QuotaRoomInit, QuotaRoomKept, BaseIsKept, PTL DEF AdmissionSpec
<1>6. BaseInv /\ SlotsInv /\ HouseInv /\ TrialInv /\ QuotaInv /\ QuotaRoomInv => ContractInv
  BY DEF ContractInv
<1>7. AdmissionSpec => []ContractInv
  BY <1>1, <1>2, <1>3, <1>4, <1>5, <1>6, BaseIsKept, PTL
<1>8. AdmissionSpec => [][Contract!Next]_(Contract!contractVars)
  BY <1>1, <1>7, StepOfContract, PTL DEF AdmissionSpec
<1>9. AdmissionSpec => Contract!Init
  BY InitOfContract DEF AdmissionSpec
<1> QED BY <1>8, <1>9 DEF StartsAreAtomic, Contract!Spec

(* Once every edit of a conversation was refused, or has not begun, the        *)
(* message they edited is visible (the catch of editMessage, whoever's edit     *)
(* hid it last).                                                               *)
THEOREM RefusalsUndone == AdmissionSpec => []RefusedEditsLeaveNoTrace
<1>1. ASSUME AdmissionInv PROVE RefusedEditsLeaveNoTrace
  <2> SUFFICES ASSUME NEW c \in Conversations, hidden[c] # Nobody
               PROVE  \E p \in Edits : /\ MyConversation(p) = c
                                       /\ req[p].pc \notin {"find", "refused"}
    BY DEF RefusedEditsLeaveNoTrace
  <2> QED BY <1>1 DEF AdmissionInv, StampsAreOpen, MyConversation, Mine
<1> QED BY <1>1, AdmissionIsKept, PTL
=============================================================================
