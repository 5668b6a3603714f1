------------------------ MODULE CardsAndCatalog_Proofs ------------------------
(***************************************************************************)
(* What a turn reads and leaves behind: CardsKeepFaith for any number of   *)
(* clicks, cards and contents (agent-proposals.service.ts:1158-1620), and  *)
(* CatalogKeepsFaith for any recipes, writers and telephones               *)
(* (catalog-sync.service.ts).                                              *)
(*                                                                         *)
(* A click works from the row it loaded. The invariant says what that row  *)
(* still is worth (ClickOK): the plan and the baseline of a card never     *)
(* change, what it remembers changes only with a new stamp, only a card    *)
(* that may be applied is ever marked, a click that came after its         *)
(* question was withdrawn has seen so in its snapshot, and an undo that    *)
(* still finds its application knows whether it was charged. On that       *)
(* rests the quota (QuotaStep), one case per way a step may change a card  *)
(* (CardsShape).                                                           *)
(*                                                                         *)
(* The one block of numbers of the catalog that is out lies above all      *)
(* that is visible, and a run of pages holds, of the recipes it has        *)
(* passed, every change up to the revision it leads to.                    *)
(***************************************************************************)
EXTENDS PlanProposals, CatalogSync, Integers, FiniteSetTheorems,
        WellFoundedInduction, TLAPS


CardTypes ==
    /\ week \in Contents
    /\ card \in [Proposals -> Cards]
    /\ retracted \subseteq Proposals
    /\ click \in [Clicks -> ClickRecords]

Undone == {"STALE", "FAILED", "EXPIRED"}

ClickOK(r, cards, gone) ==
    /\ r.pc \in {"begin", "open"} =>
          /\ cards[r.of].status # "none"
          /\ cards[r.of].baseline = r.card.baseline /\ cards[r.of].action = r.card.action
          /\ r.kind = "undo" => r.card.status = "APPLIED" /\ r.card.snapshot # Unset
          /\ r.kind # "undo" => r.card.status \in REAPPLICABLE_STATUSES
          /\ r.card.stamp <= cards[r.of].stamp
          /\ r.card.stamp = cards[r.of].stamp =>
                r.card.snapshot = cards[r.of].snapshot /\ r.card.applied = cards[r.of].applied
          /\ r.kind = "undo" /\ r.card.stamp = cards[r.of].stamp
             /\ cards[r.of].status = "APPLIED" => r.card.charged = cards[r.of].charged
          /\ r.knew => r.of \in gone
    /\ r.pc = "open" /\ r.knew => r.withdrawn
    /\ r.pc = "mark" => r.card.status \in REAPPLICABLE_STATUSES /\ r.mark \in Undone

ClicksOK == \A c \in Clicks : ClickOK(click[c], card, retracted)

Remembers == \A x \in Proposals : card[x].snapshot = card[x].before

CardsInv == CardTypes /\ ClicksOK /\ Remembers

(* What every step leaves of every card.                                      *)
Continues ==
    /\ retracted \subseteq retracted'
    /\ \A x \in Proposals :
          /\ card[x].status # "none" =>
                /\ card'[x].status # "none"
                /\ card'[x].baseline = card[x].baseline /\ card'[x].action = card[x].action
          /\ card[x].stamp <= card'[x].stamp
          /\ card[x].stamp = card'[x].stamp =>
                /\ card'[x].snapshot = card[x].snapshot /\ card'[x].applied = card[x].applied
                /\ card'[x].status = "APPLIED" => /\ card[x].status = "APPLIED"
                                                  /\ card'[x].charged = card[x].charged

Alike(r, s) ==
    /\ r.pc = s.pc /\ r.kind = s.kind /\ r.of = s.of /\ r.card = s.card
    /\ r.withdrawn = s.withdrawn /\ r.knew = s.knew /\ r.mark = s.mark

LEMMA WaitingOK == Waiting \in ClickRecords /\ Waiting.pc = "idle" /\ Blank \in Cards
<1> USE ProposalsAssumption
<1>1. Blank \in Cards
  BY DEF Blank, Cards, Statuses
<1>2. (CHOOSE x \in Proposals : TRUE) \in Proposals
  OBVIOUS
<1>3. "idle" \in ClickSteps /\ "apply" \in Kinds /\ "none" \in Statuses
  BY DEF ClickSteps, Kinds, Statuses
<1> QED BY <1>1, <1>2, <1>3 DEF Waiting, ClickRecords

LEMMA ToMarkOK ==
    ASSUME NEW r \in ClickRecords, NEW status \in Undone,
           r.card.status \in REAPPLICABLE_STATUSES
    PROVE  /\ ToMark(r, status) \in ClickRecords
           /\ ToMark(r, status).pc = "mark" /\ ToMark(r, status).mark = status
           /\ ToMark(r, status).of = r.of
           /\ ToMark(r, status).card.status = r.card.status
<1>1. r.card.status \in Statuses /\ r.of \in Proposals /\ status \in Statuses
  BY DEF ClickRecords, Cards, Undone, Statuses
<1>2. "mark" \in ClickSteps
  BY DEF ClickSteps
<1>3. [Waiting.card EXCEPT !.status = r.card.status] \in Cards
      /\ [Waiting.card EXCEPT !.status = r.card.status].status = r.card.status
  BY <1>1, WaitingOK DEF Waiting, Cards
<1>4. ToMark(r, status) = [Waiting EXCEPT !.pc = "mark", !.of = r.of,
                              !.card = [Waiting.card EXCEPT !.status = r.card.status],
                              !.mark = status]
  BY WaitingOK DEF ToMark, ClickRecords, Cards
<1> HIDE DEF Waiting
<1> QED BY <1>1, <1>2, <1>3, <1>4, WaitingOK DEF ClickRecords

LEMMA OutdateOK ==
    ASSUME NEW clicks \in [Clicks -> ClickRecords], NEW all \in BOOLEAN, NEW x
    PROVE  /\ Outdate(clicks, all, x) \in [Clicks -> ClickRecords]
           /\ \A c \in Clicks : Alike(clicks[c], Outdate(clicks, all, x)[c])
<1>1. \A c \in Clicks : /\ [clicks[c] EXCEPT !.rival = TRUE] \in ClickRecords
                        /\ Alike(clicks[c], [clicks[c] EXCEPT !.rival = TRUE])
  BY DEF ClickRecords, Alike
<1>2. \A c \in Clicks : Alike(clicks[c], clicks[c])
  BY DEF Alike
<1> QED BY <1>1, <1>2 DEF Outdate

LEMMA ClickAgainType ==
    ASSUME NEW r \in ClickRecords, NEW pc \in ClickSteps, NEW tries \in Nat
    PROVE  [r EXCEPT !.pc = pc, !.tries = tries] \in ClickRecords
BY DEF ClickRecords

LEMMA OpenType ==
    ASSUME NEW r \in ClickRecords, NEW pc \in ClickSteps, NEW withdrawn \in BOOLEAN
    PROVE  [r EXCEPT !.pc = pc, !.rival = FALSE, !.withdrawn = withdrawn] \in ClickRecords
BY DEF ClickRecords

LEMMA LoadType ==
    ASSUME NEW r \in ClickRecords, NEW pc \in ClickSteps, NEW kind \in Kinds,
           NEW of \in Proposals, NEW row \in Cards, NEW knew \in BOOLEAN
    PROVE  [r EXCEPT !.pc = pc, !.kind = kind, !.of = of, !.card = row, !.knew = knew]
                 \in ClickRecords
BY DEF ClickRecords

(* A click that is no further than it was, or waits, is as right as it was.     *)
LEMMA StaysOK ==
    ASSUME CardTypes, CardTypes', Continues, NEW r \in ClickRecords, ClickOK(r, card, retracted),
           NEW s \in ClickRecords, Alike(r, s)
    PROVE  ClickOK(s, card', retracted')
<1>1. r.of \in Proposals /\ r.card.stamp \in Nat
  BY DEF ClickRecords, Cards
<1>2. card[r.of].stamp \in Nat /\ card'[r.of].stamp \in Nat
  BY <1>1 DEF CardTypes, Cards
<1> QED BY <1>1, <1>2 DEF ClickOK, Continues, Alike

LEMMA IdleOK ==
    ASSUME NEW s, s.pc = "idle" PROVE ClickOK(s, card', retracted')
BY DEF ClickOK

(* One click moves on to r, the others at most learn that they are outdated.    *)
LEMMA MovesOn ==
    ASSUME CardsInv, CardTypes', Continues, Remembers',
           NEW c \in Clicks, NEW r \in ClickRecords, ClickOK(r, card', retracted'),
           Alike(r, click'[c]),
           \A d \in Clicks \ {c} : Alike(click[d], click'[d])
    PROVE  CardsInv'
<1>1. ASSUME NEW d \in Clicks PROVE ClickOK(click'[d], card', retracted')
  <2>1. CASE d = c
    BY <2>1 DEF ClickOK, Alike
  <2>2. CASE d # c
    <3>1. click[d] \in ClickRecords /\ click'[d] \in ClickRecords
      BY DEF CardsInv, CardTypes
    <3> QED BY <2>2, <3>1, StaysOK DEF CardsInv, ClicksOK
  <2> QED BY <2>1, <2>2
<1>2. ClicksOK'
  BY <1>1 DEF ClicksOK
<1> QED BY <1>2 DEF CardsInv

(* A step of the others: no click moves.                                      *)
LEMMA OthersMove ==
    ASSUME CardsInv, CardTypes', Continues, Remembers',
           \A d \in Clicks : Alike(click[d], click'[d])
    PROVE  CardsInv'
<1>1. ASSUME NEW d \in Clicks PROVE ClickOK(click'[d], card', retracted')
  <2>1. click[d] \in ClickRecords /\ click'[d] \in ClickRecords
    BY DEF CardsInv, CardTypes
  <2> QED BY <2>1, StaysOK DEF CardsInv, ClicksOK
<1>2. ClicksOK'
  BY <1>1 DEF ClicksOK
<1> QED BY <1>2 DEF CardsInv

(* A click that changes neither week nor card.                                *)
LEMMA OnlyClick ==
    ASSUME CardsInv, UNCHANGED <<week, card, retracted>>,
           NEW c \in Clicks, NEW r \in ClickRecords, ClickOK(r, card, retracted),
           click' = [click EXCEPT ![c] = r]
    PROVE  CardsInv'
<1>1. CardTypes' /\ Remembers'
  BY DEF CardsInv, CardTypes, Remembers
<1>2. Continues
  BY DEF Continues, CardsInv, CardTypes, Cards
<1>3. ClickOK(r, card', retracted')
  BY DEF ClickOK
<1>4. click'[c] = r /\ \A d \in Clicks \ {c} : click'[d] = click[d]
  BY DEF CardsInv, CardTypes
<1>5. Alike(r, click'[c]) /\ \A d \in Clicks \ {c} : Alike(click[d], click'[d])
  BY <1>4 DEF Alike
<1> QED BY <1>1, <1>2, <1>3, <1>5, MovesOn

(* A refusal that marks the card later.                                        *)
LEMMA TurnsToMark ==
    ASSUME CardsInv, UNCHANGED <<week, card, retracted>>, NEW c \in Clicks,
           NEW status \in Undone,
           click[c].pc \in {"begin", "open"}, click[c].kind # "undo",
           click' = [click EXCEPT ![c] = ToMark(click[c], status)]
    PROVE  CardsInv'
<1>1. click[c] \in ClickRecords /\ ClickOK(click[c], card, retracted)
  BY DEF CardsInv, CardTypes, ClicksOK
<1>2. click[c].card.status \in REAPPLICABLE_STATUSES
  BY <1>1 DEF ClickOK
<1> DEFINE r == ToMark(click[c], status)
<1>3. r \in ClickRecords /\ r.pc = "mark" /\ r.mark = status
      /\ r.card.status = click[c].card.status
  BY <1>1, <1>2, ToMarkOK
<1> HIDE DEF r
<1>4. ClickOK(r, card, retracted)
  BY <1>2, <1>3 DEF ClickOK
<1> QED BY <1>3, <1>4, OnlyClick DEF r

LEMMA EndsKeep ==
    ASSUME CardsInv, UNCHANGED <<week, card, retracted>>, NEW c \in Clicks, EndClick(c)
    PROVE  CardsInv'
<1>1. ClickOK(Waiting, card, retracted)
  BY WaitingOK DEF ClickOK
<1> QED BY <1>1, WaitingOK, OnlyClick DEF EndClick

LEMMA MarkingKeeps ==
    ASSUME CardsInv, UNCHANGED <<week, card, retracted>>, NEW c \in Clicks,
           NEW status \in Undone,
           click[c].pc \in {"begin", "open"}, click[c].kind # "undo",
           EndMarking(c, status)
    PROVE  CardsInv'
<1>1. click' = [click EXCEPT ![c] = ToMark(click[c], status)]
  BY DEF EndMarking, CardsInv, CardTypes
<1> QED BY <1>1, TurnsToMark

LEMMA LoadKeeps == ASSUME CardsInv, NEW c \in Clicks, Load(c) PROVE CardsInv'
<1>1. PICK x \in Proposals, kind \in Kinds, expired \in BOOLEAN :
         LET row == [card[x] EXCEPT !.before = Unset]
             opened == [Waiting EXCEPT !.pc = "begin", !.kind = kind, !.of = x,
                                       !.card = row, !.knew = x \in retracted]
         IN  /\ row.status # "none"
             /\ IF kind = "undo"
                THEN /\ row.status = "APPLIED" /\ ~expired
                     /\ row.applied # Unset /\ row.snapshot # Unset
                ELSE /\ row.status \in REAPPLICABLE_STATUSES
                     /\ row.status = "STALE" => kind = "force"
             /\ click' = [click EXCEPT ![c] =
                            IF expired THEN ToMark(opened, "EXPIRED") ELSE opened]
  BY DEF Load
<1>10. PICK knew \in BOOLEAN : knew = (x \in retracted)
  <2> WITNESS (x \in retracted) \in BOOLEAN
  <2> QED OBVIOUS
<1> DEFINE row == [card[x] EXCEPT !.before = Unset]
           opened == [Waiting EXCEPT !.pc = "begin", !.kind = kind, !.of = x,
                                     !.card = row, !.knew = knew]
<1>2. UNCHANGED <<week, card, retracted>>
  BY DEF Load
<1>3. /\ row \in Cards /\ row.status = card[x].status /\ row.action = card[x].action
      /\ row.baseline = card[x].baseline /\ row.stamp = card[x].stamp
      /\ row.snapshot = card[x].snapshot /\ row.applied = card[x].applied
      /\ row.charged = card[x].charged
      /\ card[x].stamp \in Nat
  <2>1. card[x] \in Cards
    BY DEF CardsInv, CardTypes
  <2> QED BY <2>1 DEF Cards
<1>4. /\ row.status # "none"
      /\ kind = "undo" => row.status = "APPLIED" /\ ~expired /\ row.snapshot # Unset
      /\ kind # "undo" => row.status \in REAPPLICABLE_STATUSES
      /\ click' = [click EXCEPT ![c] = IF expired THEN ToMark(opened, "EXPIRED") ELSE opened]
  BY <1>1, <1>10
<1> HIDE DEF row
<1>5. "begin" \in ClickSteps /\ "EXPIRED" \in Undone
  BY DEF ClickSteps, Undone
<1>6. opened \in ClickRecords
  BY <1>3, <1>5, WaitingOK, LoadType, Zenon
<1>7. /\ opened.pc = "begin" /\ opened.kind = kind /\ opened.of = x
      /\ opened.card = row /\ opened.knew = knew
  BY WaitingOK DEF ClickRecords
<1> HIDE DEF opened
<1>8. CASE ~expired
  <2>1. opened.knew => opened.of \in retracted
    <3>1. opened.knew = knew
      BY <1>7
    <3> QED BY <1>7, <1>10, <3>1, Zenon
  <2>2. opened.card.stamp <= card[opened.of].stamp
    BY <1>3, <1>7
  <2>3. ClickOK(opened, card, retracted)
    BY <1>3, <1>4, <1>7, <2>1, <2>2 DEF ClickOK
  <2> QED BY <1>2, <1>4, <1>6, <1>8, <2>3, OnlyClick
<1>9. CASE expired
  <2> DEFINE r == ToMark(opened, "EXPIRED")
  <2>1. opened.card.status \in REAPPLICABLE_STATUSES
    BY <1>4, <1>7, <1>9
  <2>2. r \in ClickRecords /\ r.pc = "mark" /\ r.mark = "EXPIRED"
        /\ r.card.status = opened.card.status
    BY <1>5, <1>6, <2>1, ToMarkOK
  <2> HIDE DEF r
  <2>3. ClickOK(r, card, retracted)
    BY <1>5, <2>1, <2>2 DEF ClickOK
  <2>4. click' = [click EXCEPT ![c] = r]
    BY <1>4, <1>9 DEF r
  <2> QED BY <1>2, <2>2, <2>3, <2>4, OnlyClick
<1> QED BY <1>8, <1>9

LEMMA OpenKeeps == ASSUME CardsInv, NEW c \in Clicks, OpenClick(c) PROVE CardsInv'
<1>0. PICK withdrawn \in BOOLEAN : withdrawn = (click[c].of \in retracted)
  <2> WITNESS (click[c].of \in retracted) \in BOOLEAN
  <2> QED OBVIOUS
<1> DEFINE r == [click[c] EXCEPT !.pc = "open", !.rival = FALSE, !.withdrawn = withdrawn]
<1>1. click[c] \in ClickRecords /\ ClickOK(click[c], card, retracted) /\ click[c].pc = "begin"
  BY DEF CardsInv, CardTypes, ClicksOK, OpenClick
<1>2. "open" \in ClickSteps
  BY DEF ClickSteps
<1>3. r \in ClickRecords
  BY <1>1, <1>2, OpenType, Zenon
<1>4. /\ r.pc = "open" /\ r.kind = click[c].kind /\ r.of = click[c].of
      /\ r.card = click[c].card /\ r.knew = click[c].knew
      /\ r.withdrawn = withdrawn
  BY <1>1 DEF ClickRecords
<1>5. click' = [click EXCEPT ![c] = r] /\ UNCHANGED <<week, card, retracted>>
  BY <1>0 DEF OpenClick, CardsInv, CardTypes
<1> HIDE DEF r
<1>6. ClickOK(r, card, retracted)
  BY <1>0, <1>1, <1>4 DEF ClickOK
<1> QED BY <1>3, <1>5, <1>6, OnlyClick

LEMMA RetryKeeps == ASSUME CardsInv, NEW c \in Clicks, Retry(c) PROVE CardsInv'
<1>1. UNCHANGED <<week, card, retracted>> /\ click[c].pc = "open"
  BY DEF Retry
<1>2. CASE click[c].tries < ClickRetries
  <2> DEFINE r == [click[c] EXCEPT !.pc = "begin", !.tries = @ + 1]
  <2>1. click[c] \in ClickRecords /\ ClickOK(click[c], card, retracted)
    BY DEF CardsInv, CardTypes, ClicksOK
  <2>2. "begin" \in ClickSteps
    BY DEF ClickSteps
  <2>3. click[c].tries + 1 \in Nat
    BY <2>1 DEF ClickRecords
  <2>7. r \in ClickRecords
    BY <2>1, <2>2, <2>3, ClickAgainType, Zenon
  <2>4. r.pc = "begin" /\ r.kind = click[c].kind /\ r.of = click[c].of
        /\ r.card = click[c].card /\ r.knew = click[c].knew
    BY <2>1 DEF ClickRecords
  <2>5. click' = [click EXCEPT ![c] = r]
    BY <1>2 DEF Retry, CardsInv, CardTypes
  <2> HIDE DEF r
  <2>6. ClickOK(r, card, retracted)
    BY <1>1, <2>1, <2>4 DEF ClickOK
  <2> QED BY <1>1, <2>7, <2>5, <2>6, OnlyClick
<1>3. CASE ~(click[c].tries < ClickRetries) /\ click[c].kind = "undo"
  BY <1>1, <1>3, EndsKeep DEF Retry
<1>4. CASE ~(click[c].tries < ClickRetries) /\ click[c].kind # "undo"
  <2>1. "FAILED" \in Undone
    BY DEF Undone
  <2>2. EndMarking(c, "FAILED")
    BY <1>4 DEF Retry
  <2> QED BY <1>1, <1>4, <2>1, <2>2, MarkingKeeps
<1> QED BY <1>2, <1>3, <1>4

LEMMA RefusalsKeep ==
    ASSUME CardsInv, NEW c \in Clicks, BreakDown(c) \/ LoseRace(c) \/ RefuseApply(c)
    PROVE  CardsInv'
<1>1. UNCHANGED <<week, card, retracted>> /\ click[c].pc = "open"
  BY DEF BreakDown, LoseRace, RefuseApply
<1>2. CASE EndClick(c)
  BY <1>1, <1>2, EndsKeep
<1>3. CASE ~EndClick(c)
  <2>1. PICK how \in {"STALE", "FAILED"} : EndMarking(c, how) /\ click[c].kind # "undo"
    BY <1>3 DEF BreakDown, LoseRace, RefuseApply
  <2>2. how \in Undone
    BY DEF Undone
  <2> QED BY <1>1, <2>1, <2>2, MarkingKeeps
<1> QED BY <1>2, <1>3

-----------------------------------------------------------------------------
(* Steps that write a card, the week or a withdrawal.                         *)

(* A card becomes k, and everything else about the cards stays.               *)
LEMMA CardBecomes ==
    ASSUME CardsInv, NEW x \in Proposals, NEW k \in Cards,
           card' = [card EXCEPT ![x] = k], retracted' = retracted,
           week' \in Contents, click' \in [Clicks -> ClickRecords],
           k.snapshot = k.before, card[x].stamp <= k.stamp,
           card[x].status # "none" => /\ k.status # "none" /\ k.baseline = card[x].baseline
                                      /\ k.action = card[x].action,
           card[x].stamp = k.stamp => /\ k.snapshot = card[x].snapshot
                                      /\ k.applied = card[x].applied /\ k.status # "APPLIED"
    PROVE  /\ CardTypes' /\ Continues /\ Remembers'
           /\ card'[x] = k /\ \A y \in Proposals \ {x} : card'[y] = card[y]
<1>1. card'[x] = k /\ \A y \in Proposals \ {x} : card'[y] = card[y]
  BY DEF CardsInv, CardTypes
<1>2. CardTypes'
  BY DEF CardsInv, CardTypes
<1>3. Remembers'
  BY <1>1 DEF CardsInv, Remembers
<1>4. \A y \in Proposals : card[y].stamp \in Nat
  BY DEF CardsInv, CardTypes, Cards
<1>5. Continues
  BY <1>1, <1>4 DEF Continues
<1> QED BY <1>1, <1>2, <1>3, <1>5

LEMMA ProposeKeeps == ASSUME CardsInv, NEW x \in Proposals, Propose(x) PROVE CardsInv'
<1>1. PICK action \in Contents :
         card' = [card EXCEPT ![x] = [@ EXCEPT !.status = "PENDING", !.action = action,
                                                !.baseline = week]]
  BY DEF Propose
<1> DEFINE k == [card[x] EXCEPT !.status = "PENDING", !.action = action, !.baseline = week]
<1>2. card[x] \in Cards /\ week \in Contents /\ "PENDING" \in Statuses
  BY DEF CardsInv, CardTypes, Statuses
<1>3. k \in Cards
  BY <1>2 DEF Cards
<1>4. /\ k.stamp = card[x].stamp /\ k.snapshot = card[x].snapshot
      /\ k.applied = card[x].applied /\ k.before = card[x].before /\ k.stamp \in Nat
      /\ k.status = "PENDING"
  BY <1>2 DEF Cards
<1>5. card' = [card EXCEPT ![x] = k] /\ card[x].status = "none"
      /\ UNCHANGED <<week, retracted, click>>
  BY <1>1 DEF Propose, CardsInv, CardTypes
<1> HIDE DEF k
<1>6. CardTypes' /\ Continues /\ Remembers'
  <2>1. click' \in [Clicks -> ClickRecords] /\ week' \in Contents /\ k.snapshot = k.before
    BY <1>4, <1>5 DEF CardsInv, CardTypes, Remembers
  <2>2. card[x].stamp <= k.stamp /\ card[x].status = "none"
    BY <1>4, <1>5
  <2>3. retracted' = retracted /\ card' = [card EXCEPT ![x] = k]
    BY <1>5
  <2> QED BY <1>3, <1>4, <2>1, <2>2, <2>3, CardBecomes
<1>7. \A d \in Clicks : Alike(click[d], click'[d])
  BY <1>5 DEF Alike
<1> QED BY <1>6, <1>7, OthersMove

LEMMA EditKeeps == ASSUME CardsInv, EditByHand PROVE CardsInv'
<1>1. /\ week' \in Contents /\ UNCHANGED <<card, retracted>>
      /\ click' = [c \in Clicks |-> IF click[c].pc = "open"
                                     THEN [click[c] EXCEPT !.rival = TRUE] ELSE click[c]]
  BY DEF EditByHand
<1>2. \A c \in Clicks : click[c] \in ClickRecords
  BY DEF CardsInv, CardTypes
<1>3. \A c \in Clicks : [click[c] EXCEPT !.rival = TRUE] \in ClickRecords
                         /\ Alike(click[c], [click[c] EXCEPT !.rival = TRUE])
  BY <1>2 DEF ClickRecords, Alike
<1>4. click' \in [Clicks -> ClickRecords] /\ \A c \in Clicks : Alike(click[c], click'[c])
  <2>1. \A c \in Clicks : Alike(click[c], click[c])
    BY DEF Alike
  <2> QED BY <1>1, <1>2, <1>3, <2>1
<1>5. CardTypes' /\ Remembers'
  BY <1>1, <1>4 DEF CardsInv, CardTypes, Remembers
<1>6. Continues
  BY <1>1 DEF Continues, CardsInv, CardTypes, Cards
<1> QED BY <1>4, <1>5, <1>6, OthersMove

LEMMA WithdrawKeeps == ASSUME CardsInv, NEW x \in Proposals, Withdraw(x) PROVE CardsInv'
<1>1. retracted' = retracted \union {x} /\ UNCHANGED <<week, card, click>>
  BY DEF Withdraw
<1>2. CardTypes' /\ Remembers'
  BY <1>1 DEF CardsInv, CardTypes, Remembers
<1>3. Continues
  BY <1>1 DEF Continues, CardsInv, CardTypes, Cards
<1>4. \A d \in Clicks : Alike(click[d], click'[d])
  BY <1>1 DEF Alike
<1> QED BY <1>2, <1>3, <1>4, OthersMove

LEMMA StatusChanges ==
    ASSUME CardsInv, NEW x \in Proposals, NEW status \in Statuses, status \notin {"none", "APPLIED"},
           card' = [card EXCEPT ![x].status = status], UNCHANGED <<week, retracted>>,
           click' \in [Clicks -> ClickRecords]
    PROVE  /\ CardTypes' /\ Continues /\ Remembers'
           /\ card'[x] = [card[x] EXCEPT !.status = status]
           /\ \A y \in Proposals \ {x} : card'[y] = card[y]
<1> DEFINE k == [card[x] EXCEPT !.status = status]
<1>1. card[x] \in Cards /\ week \in Contents
  BY DEF CardsInv, CardTypes
<1>2. k \in Cards
  BY <1>1 DEF Cards
<1>3. /\ k.status = status /\ k.stamp = card[x].stamp /\ k.snapshot = card[x].snapshot
      /\ k.applied = card[x].applied /\ k.before = card[x].before
      /\ k.baseline = card[x].baseline /\ k.action = card[x].action /\ k.stamp \in Nat
  BY <1>1 DEF Cards
<1>4. card' = [card EXCEPT ![x] = k]
  BY DEF CardsInv, CardTypes
<1> HIDE DEF k
<1>5. k.snapshot = k.before /\ card[x].stamp <= k.stamp /\ week' \in Contents
  BY <1>1, <1>3 DEF CardsInv, Remembers
<1> QED BY <1>2, <1>3, <1>4, <1>5, CardBecomes DEF k

LEMMA StaleKeeps == ASSUME CardsInv, NEW x \in Proposals, StaleWithdrawn(x) PROVE CardsInv'
<1>1. click' \in [Clicks -> ClickRecords] /\ \A d \in Clicks : Alike(click[d], click'[d])
  BY OutdateOK DEF StaleWithdrawn, CardsInv, CardTypes
<1>2. "STALE" \in Statuses /\ "STALE" \notin {"none", "APPLIED"}
  BY DEF Statuses
<1>3. CardTypes' /\ Continues /\ Remembers'
  BY <1>1, <1>2, StatusChanges DEF StaleWithdrawn
<1> QED BY <1>1, <1>3, OthersMove

(* A click ends, or turns to marking, and outdates others.                    *)
LEMMA AfterWrite ==
    ASSUME CardsInv, NEW c \in Clicks, NEW r \in ClickRecords, NEW all \in BOOLEAN, NEW x,
           click' = Outdate([click EXCEPT ![c] = r], all, x)
    PROVE  /\ click' \in [Clicks -> ClickRecords] /\ Alike(r, click'[c])
           /\ \A d \in Clicks \ {c} : Alike(click[d], click'[d])
<1> DEFINE clicks == [click EXCEPT ![c] = r]
<1>1. clicks \in [Clicks -> ClickRecords] /\ clicks[c] = r
      /\ \A d \in Clicks \ {c} : clicks[d] = click[d]
  BY DEF CardsInv, CardTypes
<1> HIDE DEF clicks
<1>2. click' = Outdate(clicks, all, x)
  BY DEF clicks
<1>3. click' \in [Clicks -> ClickRecords] /\ \A d \in Clicks : Alike(clicks[d], click'[d])
  BY <1>1, <1>2, OutdateOK
<1> QED BY <1>1, <1>3

LEMMA MarkKeeps == ASSUME CardsInv, NEW c \in Clicks, Mark(c) PROVE CardsInv'
<1> DEFINE x == click[c].of
<1>1. click[c] \in ClickRecords /\ ClickOK(click[c], card, retracted) /\ click[c].pc = "mark"
  BY DEF CardsInv, CardTypes, ClicksOK, Mark
<1>2. x \in Proposals /\ click[c].mark \in Statuses /\ click[c].mark \notin {"none", "APPLIED"}
  BY <1>1 DEF ClickRecords, ClickOK, Undone
<1>3. UNCHANGED <<week, retracted>>
  BY DEF Mark
<1>4. CASE StillAsLoaded(c)
  <2>1. card' = [card EXCEPT ![x].status = click[c].mark]
        /\ click' = Outdate([click EXCEPT ![c] = Waiting], FALSE, x)
    BY <1>4 DEF Mark
  <2>2. /\ click' \in [Clicks -> ClickRecords] /\ Alike(Waiting, click'[c])
        /\ \A d \in Clicks \ {c} : Alike(click[d], click'[d])
    BY <2>1, AfterWrite, WaitingOK
  <2>3. CardTypes' /\ Continues /\ Remembers'
    BY <1>2, <1>3, <2>1, <2>2, StatusChanges
  <2>4. ClickOK(Waiting, card', retracted')
    BY WaitingOK DEF ClickOK
  <2> QED BY <2>2, <2>3, <2>4, WaitingOK, MovesOn
<1>5. CASE ~StillAsLoaded(c)
  BY <1>3, <1>5, EndsKeep DEF Mark
<1> QED BY <1>4, <1>5

LEMMA Applies ==
    ASSUME CardsInv, NEW c \in Clicks, Apply(c)
    PROVE  LET x == click[c].of IN
           /\ x \in Proposals /\ click[c].card.status \in REAPPLICABLE_STATUSES
           /\ card[x].status = click[c].card.status
           /\ card[x].baseline = click[c].card.baseline
           /\ week' = click[c].card.action /\ week' \in Contents
           /\ click[c].pc = "open" /\ ~click[c].knew
           /\ click[c].kind # "force" => week = card[x].baseline
           /\ \E charged \in BOOLEAN :
                 /\ card' = [card EXCEPT ![x] = Accepted(card[x], week, week', charged)]
                 /\ plans' = IF charged THEN plans + 1 ELSE plans
           /\ \E r \in ClickRecords : /\ click' = Outdate([click EXCEPT ![c] = r], TRUE, x)
                                      /\ ClickOK(r, card', retracted')
           /\ retracted' = retracted
<1> DEFINE x == click[c].of
<1>1. click[c] \in ClickRecords /\ ClickOK(click[c], card, retracted) /\ click[c].pc = "open"
  BY DEF CardsInv, CardTypes, ClicksOK, Apply
<1>2. x \in Proposals /\ click[c].card.action \in Contents
  BY <1>1 DEF ClickRecords, Cards
<1>3. click[c].card.status \in REAPPLICABLE_STATUSES
  BY <1>1 DEF Apply, ClickOK
<1>4. card[x].status = click[c].card.status /\ card[x].baseline = click[c].card.baseline
  BY <1>1 DEF Apply, Superseded, ClickOK
<1>5. week' = click[c].card.action /\ week' \in Contents /\ retracted' = retracted
  BY <1>2 DEF Apply
<1>6. ~click[c].knew /\ (click[c].kind # "force" => week = card[x].baseline)
  BY <1>1, <1>4 DEF Apply, GuardRefuses, ClickOK
<1>7. \E charged \in BOOLEAN :
         /\ card' = [card EXCEPT ![x] = Accepted(card[x], week, week', charged)]
         /\ plans' = IF charged THEN plans + 1 ELSE plans
  <2> WITNESS (week # click[c].card.action) \in BOOLEAN
  <2> QED BY Zenon DEF Apply
<1>8. \E r \in ClickRecords : /\ click' = Outdate([click EXCEPT ![c] = r], TRUE, x)
                              /\ ClickOK(r, card', retracted')
  <2>1. PICK lost \in BOOLEAN :
          click' = Outdate([click EXCEPT ![c] = IF lost THEN ToMark(@, "FAILED") ELSE Waiting],
                           TRUE, x)
    BY DEF Apply
  <2>2. CASE lost
    <3> DEFINE r == ToMark(click[c], "FAILED")
    <3>1. "FAILED" \in Undone
      BY DEF Undone
    <3>2. r \in ClickRecords /\ r.pc = "mark" /\ r.mark = "FAILED"
          /\ r.card.status = click[c].card.status
      BY <1>1, <1>3, <3>1, ToMarkOK
    <3>3. click' = Outdate([click EXCEPT ![c] = r], TRUE, x)
      BY <2>1, <2>2 DEF CardsInv, CardTypes
    <3> HIDE DEF r
    <3>4. ClickOK(r, card', retracted')
      BY <1>3, <3>1, <3>2 DEF ClickOK
    <3> QED BY <3>2, <3>3, <3>4
  <2>3. CASE ~lost
    <3>1. ClickOK(Waiting, card', retracted')
      BY WaitingOK DEF ClickOK
    <3> QED BY <2>1, <2>3, <3>1, WaitingOK
  <2> QED BY <2>2, <2>3
<1> QED BY <1>1, <1>2, <1>3, <1>4, <1>5, <1>6, <1>7, <1>8

LEMMA AcceptedType ==
    ASSUME NEW k \in Cards, NEW was \in Contents, NEW is \in Contents, NEW charged \in BOOLEAN
    PROVE  LET n == Accepted(k, was, is, charged) IN
           /\ n \in Cards /\ n.status = "APPLIED" /\ n.snapshot = was /\ n.before = was
           /\ n.stamp = k.stamp + 1 /\ n.baseline = k.baseline /\ n.action = k.action
           /\ n.charged = charged
<1>1. "APPLIED" \in Statuses
  BY DEF Statuses
<1>2. k.stamp + 1 \in Nat
  BY DEF Cards
<1> QED BY <1>1, <1>2 DEF Accepted, Cards

LEMMA ApplyStep ==
    ASSUME CardsInv, NEW c \in Clicks, Apply(c)
    PROVE  /\ CardsInv'
           /\ click[c].of \in Proposals
           /\ card'[click[c].of].status = "APPLIED"
           /\ plans' = IF card'[click[c].of].charged THEN plans + 1 ELSE plans
           /\ \A y \in Proposals \ {click[c].of} : card'[y] = card[y]
<1> DEFINE x == click[c].of
<1>1. /\ x \in Proposals /\ week' \in Contents /\ retracted' = retracted
      /\ card[x].status = click[c].card.status
      /\ click[c].card.status \in REAPPLICABLE_STATUSES
  BY Applies
<1>2. PICK charged \in BOOLEAN :
         /\ card' = [card EXCEPT ![x] = Accepted(card[x], week, week', charged)]
         /\ plans' = IF charged THEN plans + 1 ELSE plans
  BY Applies
<1>3. PICK r \in ClickRecords : /\ click' = Outdate([click EXCEPT ![c] = r], TRUE, x)
                               /\ ClickOK(r, card', retracted')
  BY Applies
<1>4. /\ click' \in [Clicks -> ClickRecords] /\ Alike(r, click'[c])
      /\ \A d \in Clicks \ {c} : Alike(click[d], click'[d])
  BY <1>3, AfterWrite
<1> DEFINE k == Accepted(card[x], week, week', charged)
<1>5. card[x] \in Cards /\ week \in Contents /\ card[x].stamp \in Nat
  BY <1>1 DEF CardsInv, CardTypes, Cards
<1>6. /\ k \in Cards /\ k.status = "APPLIED" /\ k.snapshot = week /\ k.before = week
      /\ k.stamp = card[x].stamp + 1 /\ k.baseline = card[x].baseline
      /\ k.action = card[x].action /\ k.charged = charged
  BY <1>1, <1>5, AcceptedType
<1> HIDE DEF k
<1>7. card' = [card EXCEPT ![x] = k]
  BY <1>2 DEF k
<1>8. /\ card[x].stamp <= k.stamp /\ card[x].stamp # k.stamp
      /\ k.snapshot = k.before /\ k.status # "none"
  BY <1>5, <1>6
<1>9. /\ CardTypes' /\ Continues /\ Remembers'
      /\ card'[x] = k /\ \A y \in Proposals \ {x} : card'[y] = card[y]
  <2>1. x \in Proposals /\ k \in Cards /\ week' \in Contents /\ retracted' = retracted
        /\ click' \in [Clicks -> ClickRecords] /\ k.baseline = card[x].baseline
        /\ k.action = card[x].action
    BY <1>1, <1>4, <1>6
  <2> HIDE DEF x
  <2> QED BY <1>7, <1>8, <2>1, CardBecomes
<1>10. CardsInv'
  BY <1>3, <1>4, <1>9, MovesOn
<1>11. plans' = IF card'[x].charged THEN plans + 1 ELSE plans
  BY <1>2, <1>6, <1>9
<1> QED BY <1>1, <1>6, <1>9, <1>10, <1>11

LEMMA UndoStep ==
    ASSUME CardsInv, NEW c \in Clicks, Undo(c)
    PROVE  /\ CardsInv'
           /\ \/ UNCHANGED <<week, card, plans>>
              \/ /\ click[c].of \in Proposals /\ card[click[c].of].status = "APPLIED"
                 /\ plans' = IF card[click[c].of].charged THEN plans - 1 ELSE plans
                 /\ card'[click[c].of] =
                       [card[click[c].of] EXCEPT !.status = "UNDONE", !.charged = FALSE]
                 /\ \A y \in Proposals \ {click[c].of} : card'[y] = card[y]
                 /\ week = card[click[c].of].applied /\ week' = card[click[c].of].before
<1> DEFINE x == click[c].of
<1>1. /\ click[c] \in ClickRecords /\ ClickOK(click[c], card, retracted)
      /\ click[c].pc = "open" /\ click[c].kind = "undo" /\ ~Superseded(c)
      /\ retracted' = retracted
  BY DEF CardsInv, CardTypes, ClicksOK, Undo
<1>2. x \in Proposals
  BY <1>1 DEF ClickRecords
<1>3. CASE week # click[c].card.applied
  BY <1>1, <1>3, EndsKeep DEF Undo
<1>4. CASE week = click[c].card.applied
  <2> DEFINE k == [card[x] EXCEPT !.status = "UNDONE", !.charged = FALSE]
  <2>1. /\ week' = click[c].card.snapshot
        /\ click' = Outdate([click EXCEPT ![c] = Waiting], TRUE, x)
    BY <1>4 DEF Undo
  <2>2. card' = [card EXCEPT ![x] = k]
    BY <1>4 DEF Undo, CardsInv, CardTypes
  <2>3. card[x].snapshot = click[c].card.snapshot /\ card[x].applied = click[c].card.applied
        /\ card[x].status = "APPLIED" /\ card[x].charged = click[c].card.charged
    BY <1>1 DEF ClickOK, Superseded
  <2>4. card[x] \in Cards /\ "UNDONE" \in Statuses
    BY <1>2 DEF CardsInv, CardTypes, Statuses
  <2>5. k \in Cards
    BY <2>4 DEF Cards
  <2>6. /\ k.status = "UNDONE" /\ k.stamp = card[x].stamp /\ k.snapshot = card[x].snapshot
        /\ k.applied = card[x].applied /\ k.before = card[x].before /\ k.stamp \in Nat
        /\ k.baseline = card[x].baseline /\ k.action = card[x].action
    BY <2>4 DEF Cards
  <2>7. k.snapshot = k.before /\ card[x].stamp <= k.stamp
    BY <1>2, <2>6 DEF CardsInv, Remembers
  <2>8. /\ click' \in [Clicks -> ClickRecords] /\ Alike(Waiting, click'[c])
        /\ \A d \in Clicks \ {c} : Alike(click[d], click'[d])
    BY <2>1, AfterWrite, WaitingOK
  <2>9. week' = card[x].before /\ week = card[x].applied
    BY <1>2, <1>4, <2>1, <2>3 DEF CardsInv, Remembers
  <2>10. week' \in Contents
    <3>1. click[c].card.snapshot \in Contents \union {Unset}
      BY <1>1 DEF ClickRecords, Cards
    <3>2. click[c].card.snapshot # Unset
      BY <1>1 DEF ClickOK
    <3> QED BY <2>1, <3>1, <3>2
  <2> HIDE DEF k
  <2>11. /\ CardTypes' /\ Continues /\ Remembers'
         /\ card'[x] = k /\ \A y \in Proposals \ {x} : card'[y] = card[y]
    BY <1>1, <1>2, <2>2, <2>5, <2>6, <2>7, <2>8, <2>10, CardBecomes
  <2>12. ClickOK(Waiting, card', retracted')
    BY WaitingOK DEF ClickOK
  <2>13. CardsInv'
    BY <2>8, <2>11, <2>12, WaitingOK, MovesOn
  <2>14. plans' = IF card[x].charged THEN plans - 1 ELSE plans
    BY <1>4, <2>3 DEF Undo, Refunded
  <2> QED BY <1>2, <2>3, <2>9, <2>11, <2>13, <2>14 DEF k
<1> QED BY <1>3, <1>4

-----------------------------------------------------------------------------

LEMMA CardsStart == ASSUME CardsInit PROVE CardsInv
<1> USE ProposalsAssumption
<1>1. CardTypes
  BY WaitingOK DEF CardsInit, CardTypes
<1>2. ClicksOK
  <2> HIDE DEF Waiting
  <2> QED BY WaitingOK DEF CardsInit, ClicksOK, ClickOK
<1>3. Remembers
  BY DEF CardsInit, Remembers, Blank
<1> QED BY <1>1, <1>2, <1>3 DEF CardsInv

(* How a step may change the cards.                                           *)
Kept == card' = card /\ plans' = plans

Remarked ==
    \E x \in Proposals :
        /\ card[x].status # "APPLIED" /\ card'[x].status \notin {"APPLIED", "UNDONE"}
        /\ card'[x].stamp = card[x].stamp /\ plans' = plans
        /\ \A y \in Proposals \ {x} : card'[y] = card[y]

AppliedBy(c) ==
    LET x == click[c].of IN
    /\ x \in Proposals /\ click[c].pc = "open" /\ ~click[c].knew
    /\ card[x].status # "APPLIED" /\ card'[x].status = "APPLIED"
    /\ click[c].kind # "force" => week = card[x].baseline
    /\ plans' = IF card'[x].charged THEN plans + 1 ELSE plans
    /\ \A y \in Proposals \ {x} : card'[y] = card[y]

UndoneFor(x) ==
    /\ card[x].status = "APPLIED"
    /\ plans' = IF card[x].charged THEN plans - 1 ELSE plans
    /\ card'[x].status = "UNDONE" /\ card'[x].stamp = card[x].stamp
    /\ week = card[x].applied /\ week' = card[x].before
    /\ \A y \in Proposals \ {x} : card'[y] = card[y]

CardsShape ==
    Kept \/ Remarked \/ (\E c \in Clicks : AppliedBy(c)) \/ (\E x \in Proposals : UndoneFor(x))

LEMMA CardsStep == ASSUME CardsInv, [CardsNext]_cardVars PROVE CardsInv' /\ CardsShape
<1>1. ASSUME NEW c \in Clicks,
             Load(c) \/ OpenClick(c) \/ Retry(c) \/ BreakDown(c) \/ LoseRace(c) \/ RefuseApply(c)
      PROVE  CardsInv' /\ Kept
  <2>1. card' = card /\ plans' = plans
    BY <1>1 DEF Load, OpenClick, Retry, BreakDown, LoseRace, RefuseApply
  <2>2. CardsInv'
    BY <1>1, LoadKeeps, OpenKeeps, RetryKeeps, RefusalsKeep
  <2> QED BY <2>1, <2>2 DEF Kept
<1>2. ASSUME NEW c \in Clicks, Apply(c) PROVE CardsInv' /\ AppliedBy(c)
  <2> DEFINE x == click[c].of
  <2>1. /\ CardsInv' /\ x \in Proposals /\ card'[x].status = "APPLIED"
        /\ plans' = IF card'[x].charged THEN plans + 1 ELSE plans
        /\ \A y \in Proposals \ {x} : card'[y] = card[y]
    BY <1>2, ApplyStep
  <2>2. /\ click[c].card.status \in REAPPLICABLE_STATUSES
        /\ card[x].status = click[c].card.status /\ click[c].pc = "open" /\ ~click[c].knew
        /\ click[c].kind # "force" => week = card[x].baseline
    BY <1>2, Applies
  <2>3. card[x].status # "APPLIED"
    BY <2>2 DEF REAPPLICABLE_STATUSES
  <2> QED BY <2>1, <2>2, <2>3 DEF AppliedBy
<1>3. ASSUME NEW c \in Clicks, Undo(c)
      PROVE  CardsInv' /\ (Kept \/ \E x \in Proposals : UndoneFor(x))
  <2> DEFINE x == click[c].of
  <2>1. CardsInv'
    BY <1>3, UndoStep
  <2>2. CASE UNCHANGED <<card, plans>>
    BY <2>1, <2>2 DEF Kept
  <2>3. CASE ~(UNCHANGED <<card, plans>>)
    <3>1. /\ x \in Proposals /\ card[x].status = "APPLIED"
          /\ plans' = IF card[x].charged THEN plans - 1 ELSE plans
          /\ week = card[x].applied /\ week' = card[x].before
          /\ card'[x] = [card[x] EXCEPT !.status = "UNDONE", !.charged = FALSE]
          /\ \A y \in Proposals \ {x} : card'[y] = card[y]
      BY <1>3, <2>3, UndoStep
    <3>2. card[x] \in Cards
      BY <3>1 DEF CardsInv, CardTypes
    <3>3. card'[x].status = "UNDONE" /\ card'[x].stamp = card[x].stamp
      BY <3>1, <3>2 DEF Cards
    <3> QED BY <2>1, <3>1, <3>3 DEF UndoneFor
  <2> QED BY <2>2, <2>3
<1>4. ASSUME NEW c \in Clicks, Mark(c) PROVE CardsInv' /\ (Kept \/ Remarked)
  <2> DEFINE x == click[c].of
  <2>1. CardsInv'
    BY <1>4, MarkKeeps
  <2>2. CASE ~StillAsLoaded(c)
    BY <1>4, <2>1, <2>2 DEF Mark, Kept
  <2>3. CASE StillAsLoaded(c)
    <3>1. click[c] \in ClickRecords /\ ClickOK(click[c], card, retracted) /\ click[c].pc = "mark"
      BY <1>4 DEF CardsInv, CardTypes, ClicksOK, Mark
    <3>2. x \in Proposals /\ click[c].card.status \in REAPPLICABLE_STATUSES
      BY <3>1 DEF ClickRecords, ClickOK
    <3>3. card[x].status = click[c].card.status
      BY <2>3 DEF StillAsLoaded
    <3>4. card' = [card EXCEPT ![x].status = click[c].mark] /\ card \in [Proposals -> Cards]
      BY <1>4, <2>3 DEF Mark, CardsInv, CardTypes
    <3>5. card'[x] = [card[x] EXCEPT !.status = click[c].mark]
          /\ \A y \in Proposals \ {x} : card'[y] = card[y]
      BY <3>2, <3>4
    <3>6. card'[x].stamp = card[x].stamp /\ card'[x].status = click[c].mark
      BY <3>2, <3>4, <3>5 DEF Cards
    <3>7. click[c].mark \notin {"APPLIED", "UNDONE"} /\ plans' = plans
      BY <1>4, <3>1 DEF ClickOK, Undone, Mark
    <3> QED BY <2>1, <3>2, <3>3, <3>5, <3>6, <3>7 DEF Remarked, REAPPLICABLE_STATUSES
  <2> QED BY <2>2, <2>3
<1>5. ASSUME NEW x \in Proposals, Propose(x) PROVE CardsInv' /\ Remarked
  <2>1. CardsInv'
    BY <1>5, ProposeKeeps
  <2>2. PICK action \in Contents :
           card' = [card EXCEPT ![x] = [@ EXCEPT !.status = "PENDING", !.action = action,
                                                  !.baseline = week]]
    BY <1>5 DEF Propose
  <2>3. card[x].status = "none" /\ plans' = plans /\ card \in [Proposals -> Cards]
    BY <1>5 DEF Propose, CardsInv, CardTypes
  <2>4. /\ card'[x] = [card[x] EXCEPT !.status = "PENDING", !.action = action,
                                       !.baseline = week]
        /\ \A y \in Proposals \ {x} : card'[y] = card[y]
    BY <2>2, <2>3
  <2>5. card'[x].status = "PENDING" /\ card'[x].stamp = card[x].stamp
    BY <2>3, <2>4 DEF Cards
  <2> QED BY <2>1, <2>3, <2>4, <2>5 DEF Remarked
<1>6. ASSUME NEW x \in Proposals, StaleWithdrawn(x) PROVE CardsInv' /\ Remarked
  <2>1. CardsInv' /\ card[x].status = "PENDING" /\ plans' = plans /\ card \in [Proposals -> Cards]
        /\ card' = [card EXCEPT ![x].status = "STALE"]
    BY <1>6, StaleKeeps DEF StaleWithdrawn, CardsInv, CardTypes
  <2>2. card'[x] = [card[x] EXCEPT !.status = "STALE"]
        /\ \A y \in Proposals \ {x} : card'[y] = card[y]
    BY <2>1
  <2>3. card'[x].status = "STALE" /\ card'[x].stamp = card[x].stamp
    BY <2>1, <2>2 DEF Cards
  <2> QED BY <2>1, <2>2, <2>3 DEF Remarked
<1>7. ASSUME NEW x \in Proposals, Withdraw(x) PROVE CardsInv' /\ Kept
  BY <1>7, WithdrawKeeps DEF Withdraw, Kept
<1>8. ASSUME EditByHand PROVE CardsInv' /\ Kept
  BY <1>8, EditKeeps DEF EditByHand, Kept
<1>9. ASSUME UNCHANGED cardVars PROVE CardsInv' /\ Kept
  BY <1>9 DEF cardVars, Kept, CardsInv, CardTypes, ClicksOK, ClickOK, Remembers
<1> QED BY <1>1, <1>2, <1>3, <1>4, <1>5, <1>6, <1>7, <1>8, <1>9
        DEF CardsNext, Click, Others, CardsShape

-----------------------------------------------------------------------------
(* The quota counts the applications that stand and were charged.              *)

Standing(k) == k.status = "APPLIED" /\ k.charged

StandingCards(cards) == {x \in Proposals : Standing(cards[x])}

LEMMA ChargedIsFinite ==
    ASSUME NEW cards
    PROVE  IsFiniteSet(StandingCards(cards)) /\ Cardinality(StandingCards(cards)) \in Nat
<1>1. StandingCards(cards) \subseteq Proposals
  BY DEF StandingCards
<1>2. IsFiniteSet(StandingCards(cards))
  BY <1>1, FinitelyManyProposals, FS_Subset
<1> QED BY <1>2, FS_CardinalityType

LEMMA OneMoreCharged ==
    ASSUME NEW cards, NEW after, NEW x \in Proposals,
           ~Standing(cards[x]), Standing(after[x]),
           \A y \in Proposals \ {x} : after[y] = cards[y]
    PROVE  Cardinality(StandingCards(after)) = Cardinality(StandingCards(cards)) + 1
<1>1. StandingCards(after) = StandingCards(cards) \union {x} /\ x \notin StandingCards(cards)
  BY DEF StandingCards
<1> QED BY <1>1, ChargedIsFinite, FS_AddElement

LEMMA SameCharged ==
    ASSUME NEW cards, NEW after, NEW x \in Proposals,
           Standing(cards[x]) <=> Standing(after[x]),
           \A y \in Proposals \ {x} : after[y] = cards[y]
    PROVE  StandingCards(after) = StandingCards(cards)
BY DEF StandingCards

LEMMA QuotaStep ==
    ASSUME CardsShape, QuotaMatchesPlans PROVE QuotaMatchesPlans'
<1>1. plans = Cardinality(StandingCards(card)) /\ plans \in Nat
  BY ChargedIsFinite DEF QuotaMatchesPlans, StandingCards, Standing
<1>2. SUFFICES plans' = Cardinality(StandingCards(card'))
  BY DEF QuotaMatchesPlans, StandingCards, Standing
<1>3. CASE Kept
  BY <1>1, <1>3 DEF Kept
<1>4. CASE Remarked
  <2>1. PICK x \in Proposals :
           /\ card[x].status # "APPLIED" /\ card'[x].status # "APPLIED" /\ plans' = plans
           /\ \A y \in Proposals \ {x} : card'[y] = card[y]
    BY <1>4 DEF Remarked
  <2>2. ~Standing(card[x]) /\ ~Standing(card'[x])
    BY <2>1 DEF Standing
  <2>3. StandingCards(card') = StandingCards(card)
    BY <2>1, <2>2, SameCharged
  <2> QED BY <1>1, <2>1, <2>3
<1>5. ASSUME NEW c \in Clicks, AppliedBy(c) PROVE plans' = Cardinality(StandingCards(card'))
  <2> DEFINE x == click[c].of
  <2>1. /\ x \in Proposals /\ card[x].status # "APPLIED" /\ card'[x].status = "APPLIED"
        /\ plans' = IF card'[x].charged THEN plans + 1 ELSE plans
        /\ \A y \in Proposals \ {x} : card'[y] = card[y]
    BY <1>5 DEF AppliedBy
  <2> HIDE DEF x
  <2>2. ~Standing(card[x])
    BY <2>1 DEF Standing
  <2>3. CASE card'[x].charged
    <3>1. Standing(card'[x])
      BY <2>1, <2>3 DEF Standing
    <3>2. Cardinality(StandingCards(card')) = Cardinality(StandingCards(card)) + 1
      BY <2>1, <2>2, <3>1, OneMoreCharged
    <3> QED BY <1>1, <2>1, <2>3, <3>2
  <2>4. CASE ~card'[x].charged
    <3>1. ~Standing(card'[x])
      BY <2>4 DEF Standing
    <3>2. StandingCards(card') = StandingCards(card)
      BY <2>1, <2>2, <3>1, SameCharged
    <3> QED BY <1>1, <2>1, <2>4, <3>2
  <2> QED BY <2>3, <2>4
<1>6. ASSUME NEW x \in Proposals, UndoneFor(x) PROVE plans' = Cardinality(StandingCards(card'))
  <2>1. /\ card[x].status = "APPLIED" /\ card'[x].status = "UNDONE"
        /\ plans' = IF card[x].charged THEN plans - 1 ELSE plans
        /\ \A y \in Proposals \ {x} : card'[y] = card[y]
    BY <1>6 DEF UndoneFor
  <2>2. ~Standing(card'[x])
    BY <2>1 DEF Standing
  <2>3. CASE card[x].charged
    <3>1. Standing(card[x])
      BY <2>1, <2>3 DEF Standing
    <3>2. Cardinality(StandingCards(card)) = Cardinality(StandingCards(card')) + 1
      BY <2>1, <2>2, <3>1, OneMoreCharged
    <3>3. Cardinality(StandingCards(card')) \in Nat
      BY ChargedIsFinite
    <3> QED BY <1>1, <2>1, <2>3, <3>2, <3>3
  <2>4. CASE ~card[x].charged
    <3>1. ~Standing(card[x])
      BY <2>4 DEF Standing
    <3>2. StandingCards(card') = StandingCards(card)
      BY <2>1, <2>2, <3>1, SameCharged
    <3> QED BY <1>1, <2>1, <2>4, <3>2
  <2> QED BY <2>3, <2>4
<1> QED BY <1>3, <1>4, <1>5, <1>6 DEF CardsShape

LEMMA QuotaStart == ASSUME CardsInit PROVE QuotaMatchesPlans
<1>1. StandingCards(card) = {}
  BY DEF CardsInit, StandingCards, Standing, Blank
<1> QED BY <1>1, FS_EmptySet DEF CardsInit, QuotaMatchesPlans, StandingCards, Standing

-----------------------------------------------------------------------------

LEMMA StampGrowsByApply ==
    ASSUME CardsInv, CardsShape, NEW x \in Proposals, card'[x].stamp > card[x].stamp
    PROVE  \E c \in Clicks : AppliedBy(c) /\ click[c].of = x
<1>1. card[x].stamp \in Nat
  BY DEF CardsInv, CardTypes, Cards
<1>2. card'[x].stamp # card[x].stamp
  BY <1>1
<1> QED BY <1>2 DEF CardsShape, Kept, Remarked, UndoneFor, AppliedBy

LEMMA EndsByUndo ==
    ASSUME CardsShape, NEW x \in Proposals,
           card[x].status = "APPLIED", card'[x].status # "APPLIED"
    PROVE  UndoneFor(x)
BY DEF CardsShape, Kept, Remarked, UndoneFor, AppliedBy

LEMMA CardsInvariance == CardsSpec => [](CardsInv)
<1>1. CardsInit => CardsInv
  BY CardsStart
<1>2. CardsInv /\ [CardsNext]_cardVars => CardsInv'
  BY CardsStep
<1> QED BY <1>1, <1>2, PTL DEF CardsSpec

LEMMA QuotaInvariance == CardsSpec => []QuotaMatchesPlans
<1>1. CardsInit => QuotaMatchesPlans
  BY QuotaStart
<1>2. CardsInv /\ QuotaMatchesPlans /\ [CardsNext]_cardVars => QuotaMatchesPlans'
  BY CardsStep, QuotaStep
<1> QED BY <1>1, <1>2, CardsInvariance, PTL DEF CardsSpec

(* The types of the cards, the clicks and the counters                         *)
(* (agent-proposals.service.ts:1158-1620).                                     *)
THEOREM ProposalsTypes == CardsSpec => []ProposalsTypeOK
<1>1. CardsInit => edits \in 0..MaxEdits
  BY ProposalsAssumption DEF CardsInit
<1>2. edits \in 0..MaxEdits /\ [CardsNext]_cardVars => (edits \in 0..MaxEdits)'
  <2> SUFFICES ASSUME edits \in 0..MaxEdits, [CardsNext]_cardVars
               PROVE  edits' \in 0..MaxEdits
    OBVIOUS
  <2>1. edits' = edits \/ (edits < MaxEdits /\ edits' = edits + 1)
    BY DEF CardsNext, Click, Others, cardVars, Load, OpenClick, Retry, BreakDown, LoseRace,
           RefuseApply, Apply, Undo, Mark, Propose, Withdraw, StaleWithdrawn, EditByHand
  <2> QED BY <2>1, ProposalsAssumption
<1>3. CardsInv /\ QuotaMatchesPlans /\ edits \in 0..MaxEdits => ProposalsTypeOK
  <2>1. QuotaMatchesPlans => plans \in Int
    BY ChargedIsFinite DEF QuotaMatchesPlans, StandingCards, Standing
  <2> QED BY <2>1 DEF ProposalsTypeOK, CardsInv, CardTypes
<1> QED BY <1>1, <1>2, <1>3, CardsInvariance, QuotaInvariance, PTL DEF CardsSpec

(* A card leaves APPLIED only by its undo, an undo restores the week of its    *)
(* application, nobody's work is overwritten unseen, no withdrawn card is      *)
(* applied by who came later, and the quota is the number of applications that *)
(* stand and changed the plan, for any number of clicks and cards              *)
(* (agent-proposals.service.ts:1158-1620).                                    *)
THEOREM FaithIsKept == CardsSpec => CardsKeepFaith
<1>1. CardsInv /\ [CardsNext]_cardVars =>
        [\A x \in Proposals : card[x].status = "APPLIED"
                             => card'[x].status \in {"APPLIED", "UNDONE"}]_cardVars
  BY CardsStep, EndsByUndo DEF UndoneFor
<1>2. CardsInv /\ [CardsNext]_cardVars =>
        [\A x \in Proposals :
           card[x].status = "APPLIED" /\ card'[x].status = "UNDONE"
           => week' = card[x].before]_cardVars
  BY CardsStep, EndsByUndo DEF UndoneFor
<1>3. CardsInv /\ [CardsNext]_cardVars =>
        [\A x \in Proposals :
           /\ card'[x].stamp > card[x].stamp =>
                 week = card[x].baseline
                 \/ \E c \in Clicks : click[c].kind = "force" /\ click[c].of = x
                                      /\ click[c].pc = "open"
           /\ card[x].status = "APPLIED" /\ card'[x].status = "UNDONE" =>
                 week = card[x].applied]_cardVars
  <2> SUFFICES ASSUME CardsInv, [CardsNext]_cardVars, NEW x \in Proposals
               PROVE  /\ card'[x].stamp > card[x].stamp =>
                           week = card[x].baseline
                           \/ \E c \in Clicks : click[c].kind = "force" /\ click[c].of = x
                                                /\ click[c].pc = "open"
                      /\ card[x].status = "APPLIED" /\ card'[x].status = "UNDONE" =>
                           week = card[x].applied
    OBVIOUS
  <2>1. CardsShape
    BY CardsStep
  <2>2. ASSUME card'[x].stamp > card[x].stamp
        PROVE  week = card[x].baseline
               \/ \E c \in Clicks : click[c].kind = "force" /\ click[c].of = x
                                    /\ click[c].pc = "open"
    BY <2>1, <2>2, StampGrowsByApply DEF AppliedBy
  <2>3. ASSUME card[x].status = "APPLIED", card'[x].status = "UNDONE"
        PROVE  week = card[x].applied
    BY <2>1, <2>3, EndsByUndo DEF UndoneFor
  <2> QED BY <2>2, <2>3
<1>4. CardsInv /\ [CardsNext]_cardVars =>
        [\A c \in Clicks :
           click[c].pc = "open" /\ click[c].knew
           /\ card'[click[c].of].stamp > card[click[c].of].stamp
           => \E d \in Clicks \ {c} : click[d].pc = "open" /\ click[d].of = click[c].of
                                      /\ ~click[d].knew]_cardVars
  <2> SUFFICES ASSUME CardsInv, [CardsNext]_cardVars, NEW c \in Clicks,
                      click[c].pc = "open", click[c].knew,
                      card'[click[c].of].stamp > card[click[c].of].stamp
               PROVE  \E d \in Clicks \ {c} : click[d].pc = "open" /\ click[d].of = click[c].of
                                              /\ ~click[d].knew
    OBVIOUS
  <2>1. CardsShape /\ click[c].of \in Proposals
    BY CardsStep DEF CardsInv, CardTypes, ClickRecords
  <2>2. PICK d \in Clicks : AppliedBy(d) /\ click[d].of = click[c].of
    BY <2>1, StampGrowsByApply
  <2> QED BY <2>2 DEF AppliedBy
<1> QED
  BY <1>1, <1>2, <1>3, <1>4, CardsInvariance, QuotaInvariance, PTL
  DEF CardsSpec, CardsKeepFaith, OnlyUndoEndsApplied, UndoRestoresWhatWas,
      NothingOverwrittenUnseen, WithdrawnIsNotApplied

-----------------------------------------------------------------------------
(* The catalog: the greatest of a set                                      *)

LEMMA HasLeast ==
  ASSUME NEW S \in SUBSET Nat, S # {}
  PROVE  \E x \in S : \A y \in S : x <= y
<1> DEFINE R == OpToRel(<, Nat)
<1>1. IsWellFoundedOn(R, Nat)
  BY NatLessThanWellFounded, Zenon
<1> HIDE DEF R
<1>2. PICK x \in S : \A y \in S : ~(<<y, x>> \in R)
  BY <1>1, WFMin
<1>3. ASSUME NEW y \in S PROVE x <= y
  <2>1. <<y, x>> \notin R
    BY <1>2
  <2>2. y < x => <<y, x>> \in R
    BY DEF R, OpToRel
  <2> QED
    BY <2>1, <2>2
<1> QED
  BY <1>3

LEMMA HasGreatest ==
  ASSUME NEW n \in Nat, NEW S \in SUBSET (0 .. n), S # {}
  PROVE  \E x \in S : \A y \in S : y <= x
<1> DEFINE T == {n - x : x \in S}
<1>1. T \in SUBSET Nat /\ T # {}
  OBVIOUS
<1>2. PICK t \in T : \A u \in T : t <= u
  <2> HIDE DEF T
  <2> QED
    BY <1>1, HasLeast
<1>3. PICK x \in S : t = n - x
  OBVIOUS
<1>4. ASSUME NEW y \in S PROVE y <= x
  <2>1. n - y \in T
    OBVIOUS
  <2>2. x \in Int /\ y \in Int
    OBVIOUS
  <2> HIDE DEF T
  <2>3. n - x <= n - y
    BY <1>2, <1>3, <2>1
  <2> QED
    BY <2>2, <2>3
<1> QED
  BY <1>4

LEMMA GreatestIs ==
  ASSUME NEW n \in Nat, NEW S \in SUBSET (0 .. n)
  PROVE  /\ S = {} => Greatest(S) = 0
         /\ S # {} => Greatest(S) \in S
         /\ \A y \in S : y <= Greatest(S)
         /\ Greatest(S) \in 0 .. n
<1>1. CASE S = {}
  BY <1>1 DEF Greatest
<1>2. CASE S # {}
  <2>1. \E x \in S : \A y \in S : y <= x
    BY <1>2, HasGreatest
  <2>2. Greatest(S) = CHOOSE x \in S : \A y \in S : y <= x
    BY <1>2 DEF Greatest
  <2> QED
    BY <1>2, <2>1, <2>2
<1> QED
  BY <1>1, <1>2

-----------------------------------------------------------------------------
(* The catalog: what holds of it between any two steps                     *)

Writings == UNION {[D -> BOOLEAN] : D \in SUBSET Recipes}
Txns == [pc: {"idle", "open", "numbered"}, writes: Writings, base: Revisions]
MarksOrNone == Marks \cup {NoMark}
Phones == [pc: {"idle", "page", "ids", "rows"}, mode: {"none", "snapshot", "delta"},
           until: MarksOrNone, cursor: 0 .. NumRecipes, ids: SUBSET Recipes, more: BOOLEAN]
Rows == [Recipes -> Content]

CatalogShapes == CatalogTypeOK /\ txn \in [Writers -> Txns]

\* One block of numbers is out at a time, and it lies above everything visible.
BlocksInOrder(cat, lg) ==
  /\ \A e \in lg : e.rev <= sequence /\ e.rev <= cat[e.recipe].rev
  /\ \A r \in Recipes : cat[r].rev # 0 => [rev |-> cat[r].rev, recipe |-> r] \in lg
  /\ \A w \in Writers : txn[w].pc = "numbered" =>
       /\ numbering = w
       /\ txn[w].base + Cardinality(DOMAIN txn[w].writes) <= sequence
       /\ \A e \in lg : e.rev <= txn[w].base

HeadOf(lg) == Greatest({e.rev : e \in lg})

\* A revision that a client was given was once the head of the log.
Behind(lg, ep, mark) ==
  /\ mark # NoMark => mark.epoch <= ep
  /\ mark.epoch = ep => mark.rev <= HeadOf(lg)

\* What a client stores of recipe r is no older than the changes up to rev, and
\* no other than the catalog has or had.
UpTo(cat, lg, row, r, rev) ==
  /\ row.rev <= cat[r].rev
  /\ row.rev = cat[r].rev => row.live = cat[r].live
  /\ \A e \in lg : e.recipe = r /\ e.rev <= rev => e.rev <= row.rev

\* The recipes a run has passed are up to the revision it leads to; of those a
\* page of changes skips, too.
Fits(cat, lg, ep, p, rows, mark) ==
  /\ Behind(lg, ep, mark) /\ Behind(lg, ep, p.until)
  /\ mark.epoch = ep => \A r \in Recipes : UpTo(cat, lg, rows[r], r, mark.rev)
  /\ p.until.epoch = ep =>
       \A r \in Recipes : r <= p.cursor => UpTo(cat, lg, rows[r], r, p.until.rev)
  /\ p.pc = "ids" => p.mode = "delta"
  /\ p.mode = "snapshot" => mark = NoMark
  /\ p.mode = "delta" => mark.epoch = p.until.epoch
  /\ p.pc = "rows" /\ p.mode = "delta" /\ p.until.epoch = ep =>
       \A r \in Recipes \ p.ids : r > p.cursor =>
         \/ p.more /\ \A i \in p.ids : i < r
         \/ UpTo(cat, lg, rows[r], r, p.until.rev)

CatalogInv ==
  /\ CatalogShapes
  /\ BlocksInOrder(catalog, log)
  /\ \A c \in Clients : Fits(catalog, log, epoch, phone[c], copy[c], at[c])

-----------------------------------------------------------------------------
(* The catalog: sets of recipes and of changes                             *)

LEMMA WritingsAre ==
  /\ <<>> \in Writings
  /\ \A f \in Writings : DOMAIN f \subseteq Recipes /\ \A r \in DOMAIN f : f[r] \in BOOLEAN
  /\ \A f \in Writings, r \in Recipes, live \in BOOLEAN :
       [q \in DOMAIN f \cup {r} |-> IF q = r THEN live ELSE f[q]] \in Writings
<1>1. <<>> \in [{} -> BOOLEAN]
  OBVIOUS
<1>2. <<>> \in Writings
  BY <1>1 DEF Writings
<1>3. ASSUME NEW f \in Writings
      PROVE  DOMAIN f \subseteq Recipes /\ \A r \in DOMAIN f : f[r] \in BOOLEAN
  BY DEF Writings
<1>4. ASSUME NEW f \in Writings, NEW r \in Recipes, NEW live \in BOOLEAN
      PROVE  [q \in DOMAIN f \cup {r} |-> IF q = r THEN live ELSE f[q]] \in Writings
  <2> DEFINE D == DOMAIN f \cup {r}
  <2>1. D \in SUBSET Recipes
    BY <1>3
  <2>2. [q \in D |-> IF q = r THEN live ELSE f[q]] \in [D -> BOOLEAN]
    BY <1>3
  <2> QED
    BY <2>1, <2>2 DEF Writings
<1> QED
  BY <1>2, <1>3, <1>4

LEMMA SomeRecipes ==
  ASSUME NEW D \in SUBSET Recipes
  PROVE  /\ IsFiniteSet(D) /\ Cardinality(D) \in Nat
         /\ \A E \in SUBSET D : IsFiniteSet(E) /\ Cardinality(E) \in Nat
                                /\ Cardinality(E) <= Cardinality(D)
<1>1. IsFiniteSet(Recipes)
  BY CatalogAssumption, FS_Interval DEF Recipes
<1>2. IsFiniteSet(D)
  BY <1>1, FS_Subset
<1> QED
  BY <1>2, FS_Subset, FS_CardinalityType

LEMMA PlaceInBlock ==
  ASSUME NEW D \in SUBSET Recipes, NEW r \in D
  PROVE  /\ Cardinality({q \in D : q <= r}) \in Nat
         /\ 1 <= Cardinality({q \in D : q <= r})
         /\ Cardinality({q \in D : q <= r}) <= Cardinality(D)
<1> DEFINE E == {q \in D : q <= r}
<1>1. E \in SUBSET D /\ r \in E
  BY CatalogAssumption DEF Recipes
<1>2. IsFiniteSet(E) /\ Cardinality(E) \in Nat /\ Cardinality(E) <= Cardinality(D)
  BY <1>1, SomeRecipes
<1>3. Cardinality(E) # 0
  BY <1>1, <1>2, FS_EmptySet
<1> QED
  BY <1>2, <1>3

LEMMA GreatestRecipe ==
  ASSUME NEW S \in SUBSET Recipes
  PROVE  /\ S = {} => Greatest(S) = 0
         /\ S # {} => Greatest(S) \in S
         /\ Greatest(S) \in Nat /\ Greatest(S) \in 0 .. NumRecipes
<1>1. S \in SUBSET (0 .. NumRecipes) /\ NumRecipes \in Nat
  BY CatalogAssumption DEF Recipes
<1> QED
  BY <1>1, GreatestIs

\* A page goes as far as it reaches without a gap.
LEMMA PageCovers ==
  ASSUME NEW S \in SUBSET Recipes, NEW cursor \in Nat, NEW q \in S, q > cursor
  PROVE  \/ q \in Page(S, cursor)
         \/ More(S, cursor) /\ \A p \in Page(S, cursor) : p < q
<1> DEFINE upto(r) == {x \in S : cursor < x /\ x <= r}
           rest == {x \in S : x > cursor}
<1>1. \A x \in S : x \in Nat
  BY CatalogAssumption DEF Recipes
<1>2. Limit \in Nat
  BY CatalogAssumption
<1>3. \A r \in S : upto(r) \in SUBSET rest
  BY <1>1
<1>4. rest \in SUBSET Recipes
  OBVIOUS
<1>5. \A r \in S : Cardinality(upto(r)) \in Nat /\ Cardinality(upto(r)) <= Cardinality(rest)
                   /\ Cardinality(rest) \in Nat
  <2> HIDE DEF upto, rest
  <2> QED
    BY <1>3, <1>4, SomeRecipes
<1>6. CASE ~More(S, cursor)
  <2>1. Cardinality(rest) <= Limit
    <3>1. ~(Cardinality(rest) > Limit)
      BY <1>6 DEF More
    <3> HIDE DEF upto, rest
    <3> QED
      BY <1>2, <1>5, <3>1
  <2>2. Cardinality(upto(q)) <= Limit
    <3> HIDE DEF upto, rest
    <3> QED
      BY <1>2, <1>5, <2>1
  <2> QED
    BY <2>2 DEF Page
<1>7. CASE q \notin Page(S, cursor)
  <2>1. ~(Cardinality(upto(q)) <= Limit)
    BY <1>7 DEF Page
  <2>2. ASSUME NEW p \in Page(S, cursor) PROVE p < q
    <3>1. p \in S /\ Cardinality(upto(p)) <= Limit
      BY DEF Page
    <3>2. ASSUME q <= p PROVE FALSE
      <4>1. upto(q) \in SUBSET upto(p)
        BY <1>1, <3>1, <3>2
      <4>2. upto(p) \in SUBSET Recipes
        OBVIOUS
      <4> HIDE DEF upto, rest
      <4>3. Cardinality(upto(q)) <= Cardinality(upto(p))
        BY <4>1, <4>2, SomeRecipes
      <4> QED
        BY <1>2, <1>5, <2>1, <3>1, <4>3
    <3> QED
      BY <1>1, <3>1, <3>2
  <2> QED
    BY <1>6, <1>7, <2>2
<1> QED
  BY <1>6, <1>7

LEMMA PageOf ==
  ASSUME NEW S \in SUBSET Recipes, NEW cursor
  PROVE  Page(S, cursor) \in SUBSET Recipes /\ More(S, cursor) \in BOOLEAN
BY DEF Page, More

\* The head of a log is its greatest revision and grows with it.
LEMMA HeadIs ==
  ASSUME NEW lg \in SUBSET [rev: Revisions, recipe: Recipes]
  PROVE  /\ HeadOf(lg) \in Revisions
         /\ \A e \in lg : e.rev \in Revisions /\ e.recipe \in Recipes /\ e.rev <= HeadOf(lg)
         /\ \A n \in Nat : (\A e \in lg : e.rev <= n) => HeadOf(lg) <= n
<1> DEFINE S == {e.rev : e \in lg}
<1>1. S \in SUBSET (0 .. MaxRevision) /\ MaxRevision \in Nat
  BY CatalogAssumption DEF Revisions
<1>2. HeadOf(lg) = Greatest(S)
  BY DEF HeadOf
<1>3. /\ S = {} => Greatest(S) = 0
      /\ S # {} => Greatest(S) \in S
      /\ \A y \in S : y <= Greatest(S)
      /\ Greatest(S) \in 0 .. MaxRevision
  <2> HIDE DEF S
  <2> QED
    BY <1>1, GreatestIs
<1>4. \A e \in lg : e.rev \in S /\ e.rev \in Revisions /\ e.recipe \in Recipes
  OBVIOUS
<1>5. ASSUME NEW n \in Nat, \A e \in lg : e.rev <= n PROVE HeadOf(lg) <= n
  <2>1. \A y \in S : y <= n
    BY <1>5
  <2> HIDE DEF S
  <2> QED
    BY <1>2, <1>3, <2>1
<1> QED
  <2> HIDE DEF S
  <2> QED
    BY <1>2, <1>3, <1>4, <1>5 DEF Revisions

LEMMA HeadGrows ==
  ASSUME NEW lg \in SUBSET [rev: Revisions, recipe: Recipes],
         NEW more \in SUBSET [rev: Revisions, recipe: Recipes], lg \subseteq more
  PROVE  HeadOf(lg) <= HeadOf(more)
<1>1. HeadOf(more) \in Nat /\ \A e \in lg : e.rev <= HeadOf(more)
  BY HeadIs, CatalogAssumption DEF Revisions
<1> QED
  BY <1>1, HeadIs

LEMMA CatalogStarts ==
  /\ 0 \in Revisions /\ 0 \in 0 .. MaxEpoch /\ 0 \in 0 .. NumRecipes
  /\ NoMark \in MarksOrNone /\ Rest \in Phones /\ NoRows \in Rows
  /\ NoTxn \in Txns /\ NoMark.epoch = MaxEpoch + 1
<1>1. 0 \in Revisions /\ 0 \in 0 .. MaxEpoch /\ 0 \in 0 .. NumRecipes
  BY CatalogAssumption DEF Revisions
<1>2. NoMark \in MarksOrNone /\ NoMark.epoch = MaxEpoch + 1
  BY DEF MarksOrNone, NoMark
<1>3. Rest \in Phones
  BY <1>1, <1>2 DEF Rest, Phones
<1>4. NoRows \in Rows
  BY <1>1 DEF NoRows, Rows, Content
<1>5. NoTxn \in Txns
  BY <1>1, WritingsAre DEF NoTxn, Txns
<1> QED
  BY <1>1, <1>2, <1>3, <1>4, <1>5

LEMMA CatalogTypes ==
  ASSUME CatalogInv
  PROVE  /\ catalog \in [Recipes -> Content] /\ log \in SUBSET [rev: Revisions, recipe: Recipes]
         /\ sequence \in Revisions /\ epoch \in 0 .. MaxEpoch /\ epoch \in Nat
         /\ minRev \in Revisions /\ numbering \in Writers \cup {NoWriter}
         /\ txn \in [Writers -> Txns]
         /\ phone \in [Clients -> Phones] /\ copy \in [Clients -> Rows]
         /\ at \in [Clients -> MarksOrNone]
         /\ MaxEpoch \in Nat /\ MaxRevision \in Nat /\ NumRecipes \in Nat
         /\ NoMark.epoch # epoch
BY CatalogStarts, CatalogAssumption
   DEF CatalogInv, CatalogShapes, CatalogTypeOK, Phones, Rows, MarksOrNone

LEMMA MarkTypes ==
  ASSUME NEW mark \in MarksOrNone
  PROVE  mark.epoch \in Nat /\ mark.rev \in Revisions /\ mark.rev \in Nat
BY CatalogAssumption DEF MarksOrNone, Marks, NoMark, Revisions

LEMMA NowType ==
  ASSUME CatalogInv
  PROVE  /\ Now \in MarksOrNone /\ Now.epoch = epoch /\ Now.rev = HeadOf(log)
         /\ Behind(log, epoch, Now) /\ Behind(log, epoch, NoMark)
<1>1. HeadOf(log) \in Revisions /\ HeadOf(log) \in Nat
  BY CatalogTypes, HeadIs DEF Revisions
<1>2. Now = [epoch |-> epoch, rev |-> HeadOf(log)]
  BY DEF Now, Head, HeadOf
<1>3. Now \in MarksOrNone
  BY <1>1, <1>2, CatalogTypes DEF MarksOrNone, Marks
<1> QED
  BY <1>1, <1>2, <1>3, CatalogTypes DEF Behind

-----------------------------------------------------------------------------
(* The catalog: the telephones                                             *)

\* One client takes a step; the catalog is as it was.
LEMMA ClientMoves ==
  ASSUME CatalogInv, NEW c \in Clients, NEW p \in Phones, NEW rows \in Rows,
         NEW mark \in MarksOrNone, Fits(catalog, log, epoch, p, rows, mark),
         phone' = [phone EXCEPT ![c] = p], copy' = [copy EXCEPT ![c] = rows],
         at' = [at EXCEPT ![c] = mark], UNCHANGED <<database, index>>
  PROVE  CatalogInv'
<1>1. /\ phone \in [Clients -> Phones] /\ copy \in [Clients -> Rows]
      /\ at \in [Clients -> MarksOrNone]
  BY CatalogTypes
<1>2. phone' \in [Clients -> Phones] /\ copy' \in [Clients -> Rows]
      /\ at' \in [Clients -> MarksOrNone]
  BY <1>1
<1>3. CatalogShapes'
  BY <1>2 DEF CatalogInv, CatalogShapes, CatalogTypeOK, Phones, Rows, MarksOrNone, database, index
<1>4. ASSUME NEW d \in Clients
      PROVE  Fits(catalog, log, epoch, phone'[d], copy'[d], at'[d])
  <2>1. CASE d = c
    BY <1>1, <2>1
  <2>2. CASE d # c
    BY <1>1, <2>2 DEF CatalogInv
  <2> QED
    BY <2>1, <2>2
<1>5. catalog' = catalog /\ log' = log /\ epoch' = epoch
  BY DEF database
<1>6. BlocksInOrder(catalog, log)'
  BY DEF CatalogInv, BlocksInOrder, database
<1> QED
  BY <1>3, <1>4, <1>5, <1>6 DEF CatalogInv

LEMMA ClientSets ==
  ASSUME CatalogInv, NEW c \in Clients, NEW p \in Phones, NEW mark \in MarksOrNone,
         Fits(catalog, log, epoch, p, copy[c], mark), Sets(c, p, mark)
  PROVE  CatalogInv'
<1>1. copy \in [Clients -> Rows] /\ copy[c] \in Rows
  BY CatalogTypes
<1>2. copy' = [copy EXCEPT ![c] = copy[c]] /\ UNCHANGED <<database, index>>
  BY <1>1 DEF Sets
<1> QED
  BY <1>1, <1>2, ClientMoves DEF Sets

\* What holds of a client before it takes a step.
LEMMA ClientHas ==
  ASSUME CatalogInv, NEW c \in Clients
  PROVE  /\ phone[c] \in Phones /\ copy[c] \in Rows /\ at[c] \in MarksOrNone
         /\ phone[c].until \in MarksOrNone /\ phone[c].ids \in SUBSET Recipes
         /\ phone[c].cursor \in Nat /\ phone[c].more \in BOOLEAN
         /\ Fits(catalog, log, epoch, phone[c], copy[c], at[c])
<1>1. phone[c] \in Phones /\ copy[c] \in Rows /\ at[c] \in MarksOrNone
  BY CatalogTypes
<1>2. Fits(catalog, log, epoch, phone[c], copy[c], at[c])
  BY DEF CatalogInv
<1> QED
  BY <1>1, <1>2, CatalogAssumption DEF Phones

LEMMA RestFits ==
  ASSUME CatalogInv, NEW c \in Clients, NEW mark, mark = at[c] \/ mark = NoMark
  PROVE  Fits(catalog, log, epoch, Rest, copy[c], mark)
<1>1. Rest.pc = "idle" /\ Rest.mode = "none" /\ Rest.until = NoMark
  BY DEF Rest
<1>2. NoMark.epoch # epoch /\ Behind(log, epoch, NoMark)
  BY CatalogTypes, NowType
<1>3. Fits(catalog, log, epoch, phone[c], copy[c], at[c])
  BY ClientHas
<1> QED
  BY <1>1, <1>2, <1>3 DEF Fits

LEMMA ClientBegins ==
  ASSUME CatalogInv, NEW c \in Clients, AskSnapshot(c) \/ AskChanges(c)
  PROVE  CatalogInv'
<1>1. /\ Now \in MarksOrNone /\ Now.epoch = epoch /\ Behind(log, epoch, Now)
      /\ Behind(log, epoch, NoMark) /\ NoMark.epoch # epoch /\ NoMark \in MarksOrNone
  BY NowType, CatalogTypes, CatalogStarts
<1>2. /\ at[c] \in MarksOrNone /\ Fits(catalog, log, epoch, phone[c], copy[c], at[c])
  BY ClientHas
<1>3. \A r \in Recipes : ~(r <= 0)
  BY CatalogAssumption DEF Recipes
<1> DEFINE now == Now
<1> HIDE DEF now
<1>4. now = Now
  BY DEF now
<1>5. CASE AskSnapshot(c)
  <2> DEFINE p == [Rest EXCEPT !.pc = "rows", !.mode = "snapshot", !.until = now]
  <2>1. /\ p \in Phones /\ p.pc = "rows" /\ p.mode = "snapshot" /\ p.until = now /\ p.cursor = 0
    BY <1>1, <1>4, CatalogStarts DEF Rest, Phones
  <2>2. Sets(c, p, NoMark)
    BY <1>4, <1>5 DEF AskSnapshot
  <2> HIDE DEF p
  <2>3. Fits(catalog, log, epoch, p, copy[c], NoMark)
    BY <1>1, <1>3, <1>4, <2>1 DEF Fits
  <2> QED
    BY <1>1, <2>1, <2>2, <2>3, ClientSets
<1>6. CASE AskChanges(c)
  <2> DEFINE p == [Rest EXCEPT !.pc = "ids", !.mode = "delta", !.until = now]
  <2>1. /\ p \in Phones /\ p.pc = "ids" /\ p.mode = "delta" /\ p.until = now /\ p.cursor = 0
    BY <1>1, <1>4, CatalogStarts DEF Rest, Phones
  <2>2. Sets(c, p, at[c]) /\ at[c].epoch = epoch
    BY <1>4, <1>6 DEF AskChanges, Problem
  <2> HIDE DEF p
  <2>3. Fits(catalog, log, epoch, p, copy[c], at[c])
    BY <1>1, <1>2, <1>3, <1>4, <2>1, <2>2 DEF Fits
  <2> QED
    BY <1>2, <2>1, <2>2, <2>3, ClientSets
<1> QED
  BY <1>5, <1>6

LEMMA ClientGoesOn ==
  ASSUME CatalogInv, NEW c \in Clients, AskPage(c) \/ AskAgain(c) \/ Reset(c) \/ GiveUp(c)
  PROVE  CatalogInv'
<1>1. /\ phone[c] \in Phones /\ at[c] \in MarksOrNone
      /\ Fits(catalog, log, epoch, phone[c], copy[c], at[c])
  BY ClientHas
<1>2. CASE AskPage(c)
  <2> DEFINE next == IF phone[c].mode = "delta" THEN "ids" ELSE "rows"
             p == [phone[c] EXCEPT !.pc = next]
  <2>1. next \in {"ids", "rows"} /\ (next = "ids" <=> phone[c].mode = "delta")
    OBVIOUS
  <2> HIDE DEF next
  <2>2. /\ p \in Phones /\ p.pc = next /\ p.mode = phone[c].mode /\ p.until = phone[c].until
        /\ p.cursor = phone[c].cursor
    BY <1>1, <2>1 DEF Phones
  <2>3. Sets(c, p, at[c])
    BY <1>2 DEF AskPage, next
  <2> HIDE DEF p
  <2>4. Fits(catalog, log, epoch, p, copy[c], at[c])
    BY <1>1, <2>1, <2>2 DEF Fits
  <2> QED
    BY <1>1, <2>2, <2>3, <2>4, ClientSets
<1>3. CASE AskAgain(c)
  <2> DEFINE p == [phone[c] EXCEPT !.pc = "page", !.ids = {}, !.more = FALSE]
  <2>1. /\ p \in Phones /\ p.pc = "page" /\ p.mode = phone[c].mode /\ p.until = phone[c].until
        /\ p.cursor = phone[c].cursor
    BY <1>1 DEF Phones
  <2>2. Sets(c, p, at[c])
    BY <1>3 DEF AskAgain
  <2> HIDE DEF p
  <2>3. Fits(catalog, log, epoch, p, copy[c], at[c])
    BY <1>1, <2>1 DEF Fits
  <2> QED
    BY <1>1, <2>1, <2>2, <2>3, ClientSets
<1>4. CASE Reset(c) \/ GiveUp(c)
  <2>1. PICK mark \in MarksOrNone : (mark = at[c] \/ mark = NoMark) /\ Sets(c, Rest, mark)
    BY <1>1, <1>4, CatalogStarts DEF Reset, GiveUp
  <2> QED
    BY <2>1, RestFits, CatalogStarts, ClientSets
<1> QED
  BY <1>2, <1>3, <1>4

\* What is read of the changes leaves out only what comes later or is held.
LEMMA ClientReadsIds ==
  ASSUME CatalogInv, NEW c \in Clients, ReadIds(c)
  PROVE  CatalogInv'
<1> DEFINE changed == {e.recipe : e \in {f \in log : at[c].rev < f.rev /\ f.rev <= phone[c].until.rev}}
           ids == Page(changed, phone[c].cursor)
           more == More(changed, phone[c].cursor)
           p == [phone[c] EXCEPT !.pc = "rows", !.ids = ids, !.more = more]
<1>1. /\ phone[c] \in Phones /\ at[c] \in MarksOrNone /\ phone[c].cursor \in Nat
      /\ Fits(catalog, log, epoch, phone[c], copy[c], at[c])
      /\ phone[c].until \in MarksOrNone
  BY ClientHas
<1>2. changed \in SUBSET Recipes
  BY CatalogTypes, HeadIs
<1>3. phone[c].pc = "ids" /\ Sets(c, p, at[c])
  BY DEF ReadIds
<1>4. ASSUME NEW r \in Recipes, r \notin changed, NEW e \in log, e.recipe = r,
             e.rev <= phone[c].until.rev
      PROVE  e.rev <= at[c].rev
  <2>1. ~(at[c].rev < e.rev)
    BY <1>4
  <2>2. at[c].rev \in Nat /\ e.rev \in Nat
    BY <1>1, CatalogTypes, HeadIs, MarkTypes DEF Revisions
  <2> QED
    BY <2>1, <2>2
<1> HIDE DEF changed
<1>5. ids \in SUBSET Recipes /\ more \in BOOLEAN
  BY <1>2, PageOf
<1>6. \A r \in changed : r > phone[c].cursor => r \in ids \/ (more /\ \A i \in ids : i < r)
  BY <1>1, <1>2, PageCovers
<1> HIDE DEF ids, more
<1>7. /\ p \in Phones /\ p.pc = "rows" /\ p.mode = phone[c].mode /\ p.until = phone[c].until
      /\ p.cursor = phone[c].cursor /\ p.ids = ids /\ p.more = more
  BY <1>1, <1>5 DEF Phones
<1> HIDE DEF p
<1>8. ASSUME p.mode = "delta", p.until.epoch = epoch, NEW r \in Recipes \ ids, r > p.cursor
      PROVE  \/ more /\ \A i \in ids : i < r
             \/ UpTo(catalog, log, copy[c][r], r, p.until.rev)
  <2>1. CASE r \in changed
    BY <1>6, <1>7, <1>8, <2>1
  <2>2. CASE r \notin changed
    <3>1. UpTo(catalog, log, copy[c][r], r, at[c].rev)
      BY <1>1, <1>7, <1>8 DEF Fits
    <3> QED
      BY <1>4, <1>7, <2>2, <3>1 DEF UpTo
  <2> QED
    BY <2>1, <2>2
<1>9. Fits(catalog, log, epoch, p, copy[c], at[c])
  BY <1>1, <1>7, <1>8 DEF Fits
<1> QED
  BY <1>1, <1>3, <1>7, <1>9, ClientSets

-----------------------------------------------------------------------------
(* The catalog: a page is applied                                          *)

\* The recipe as it is in the catalog is up to every revision.
LEMMA CatalogIsUpTo ==
  ASSUME CatalogInv, NEW r \in Recipes, NEW rev
  PROVE  UpTo(catalog, log, catalog[r], r, rev)
<1>1. catalog[r].rev \in Nat
  BY CatalogTypes, CatalogAssumption DEF Content, Revisions
<1> QED
  BY <1>1 DEF CatalogInv, BlocksInOrder, UpTo

LEMMA ClientApplies ==
  ASSUME CatalogInv, NEW c \in Clients, NEW ids \in SUBSET Recipes, NEW more \in BOOLEAN,
         phone[c].pc = "rows", phone[c].mode \in {"snapshot", "delta"},
         ApplyPage(c, ids, more),
         phone[c].until.epoch = epoch => \A r \in Recipes \ ids : r > phone[c].cursor =>
           \/ more /\ r > Greatest(ids)
           \/ UpTo(catalog, log, copy[c][r], r, phone[c].until.rev)
  PROVE  CatalogInv'
<1> DEFINE rows == [r \in Recipes |-> IF r \in ids THEN catalog[r] ELSE copy[c][r]]
           last == Greatest(ids)
           p == IF more THEN [phone[c] EXCEPT !.pc = "page", !.cursor = last, !.ids = {}, !.more = FALSE]
                        ELSE Rest
           mark == IF more THEN at[c] ELSE phone[c].until
<1>1. /\ phone[c] \in Phones /\ at[c] \in MarksOrNone /\ phone[c].cursor \in Nat
      /\ Fits(catalog, log, epoch, phone[c], copy[c], at[c])
      /\ phone[c].until \in MarksOrNone /\ copy[c] \in Rows
  BY ClientHas
<1>2. /\ phone \in [Clients -> Phones] /\ copy \in [Clients -> Rows]
      /\ at \in [Clients -> MarksOrNone] /\ catalog \in [Recipes -> Content]
  BY CatalogTypes
<1>3. rows \in Rows
  BY <1>1, <1>2 DEF Rows
<1>4. last \in 0 .. NumRecipes
  BY GreatestRecipe
<1>5. /\ phone' = [phone EXCEPT ![c] = p] /\ copy' = [copy EXCEPT ![c] = rows]
      /\ at' = [at EXCEPT ![c] = mark] /\ UNCHANGED <<database, index>>
  BY <1>2 DEF ApplyPage
<1>6. ASSUME NEW r \in Recipes, NEW rev,
             r \in ids \/ UpTo(catalog, log, copy[c][r], r, rev)
      PROVE  UpTo(catalog, log, rows[r], r, rev)
  BY <1>6, CatalogIsUpTo
<1>7. \A r \in Recipes : r \in Nat
  BY CatalogAssumption DEF Recipes
<1>8. last \in Nat
  BY <1>4, CatalogAssumption
<1> HIDE DEF rows, last
<1>9. CASE more
  <2>1. /\ p \in Phones /\ p.pc = "page" /\ p.mode = phone[c].mode /\ p.until = phone[c].until
        /\ p.cursor = last /\ mark = at[c]
    BY <1>1, <1>4, <1>9 DEF Phones
  <2> HIDE DEF p, mark
  <2>2. ASSUME phone[c].until.epoch = epoch, NEW r \in Recipes, r <= last
        PROVE  UpTo(catalog, log, rows[r], r, phone[c].until.rev)
    <3>1. ASSUME r <= phone[c].cursor PROVE UpTo(catalog, log, copy[c][r], r, phone[c].until.rev)
      BY <1>1, <2>2, <3>1 DEF Fits
    <3>2. ~(r > last)
      BY <1>7, <1>8, <2>2
    <3>3. r <= phone[c].cursor \/ r > phone[c].cursor
      BY <1>1, <1>7
    <3>4. r \in ids \/ UpTo(catalog, log, copy[c][r], r, phone[c].until.rev)
      BY <2>2, <3>1, <3>2, <3>3 DEF last
    <3> QED
      BY <1>6, <3>4
  <2>3. ASSUME at[c].epoch = epoch, NEW r \in Recipes
        PROVE  UpTo(catalog, log, rows[r], r, at[c].rev)
    BY <1>1, <1>6, <2>3 DEF Fits
  <2>4. Fits(catalog, log, epoch, p, rows, mark)
    BY <1>1, <2>1, <2>2, <2>3 DEF Fits
  <2>5. mark \in MarksOrNone
    BY <1>1, <2>1
  <2> QED
    BY <1>3, <1>5, <2>1, <2>4, <2>5, ClientMoves
<1>10. CASE ~more
  <2>1. p = Rest /\ mark = phone[c].until
    BY <1>10
  <2> HIDE DEF p, mark
  <2>2. ASSUME phone[c].until.epoch = epoch, NEW r \in Recipes
        PROVE  UpTo(catalog, log, rows[r], r, phone[c].until.rev)
    <3>1. ASSUME r <= phone[c].cursor PROVE UpTo(catalog, log, copy[c][r], r, phone[c].until.rev)
      BY <1>1, <2>2, <3>1 DEF Fits
    <3>2. r <= phone[c].cursor \/ r > phone[c].cursor
      BY <1>1, <1>7
    <3>3. r \in ids \/ UpTo(catalog, log, copy[c][r], r, phone[c].until.rev)
      BY <1>10, <2>2, <3>1, <3>2
    <3> QED
      BY <1>6, <3>3
  <2>3. Rest.pc = "idle" /\ Rest.mode = "none" /\ Rest.until = NoMark
    BY DEF Rest
  <2>4. Behind(log, epoch, NoMark) /\ NoMark.epoch # epoch /\ Rest \in Phones
    BY NowType, CatalogTypes, CatalogStarts
  <2>5. Fits(catalog, log, epoch, Rest, rows, phone[c].until)
    BY <1>1, <2>2, <2>3, <2>4 DEF Fits
  <2> QED
    BY <1>1, <1>3, <1>5, <2>1, <2>4, <2>5, ClientMoves
<1> QED
  BY <1>9, <1>10

LEMMA ClientAppliesDelta ==
  ASSUME CatalogInv, NEW c \in Clients, DeltaRows(c)
  PROVE  CatalogInv'
<1>1. /\ phone[c].ids \in SUBSET Recipes /\ phone[c].more \in BOOLEAN
      /\ Fits(catalog, log, epoch, phone[c], copy[c], at[c])
  BY ClientHas
<1>2. phone[c].pc = "rows" /\ phone[c].mode = "delta" /\ ApplyPage(c, phone[c].ids, phone[c].more)
  BY DEF DeltaRows
<1> DEFINE ids == phone[c].ids
<1>3. ASSUME NEW r \in Recipes, phone[c].more, \A i \in ids : i < r
      PROVE  r > Greatest(ids)
  <2>1. /\ ids = {} => Greatest(ids) = 0
        /\ ids # {} => Greatest(ids) \in ids
    BY <1>1, GreatestRecipe
  <2>2. r \in Nat /\ r > 0 /\ \A i \in ids : i \in Nat
    BY <1>1, CatalogAssumption DEF Recipes
  <2> QED
    BY <1>3, <2>1, <2>2
<1>4. phone[c].until.epoch = epoch => \A r \in Recipes \ ids : r > phone[c].cursor =>
        \/ phone[c].more /\ r > Greatest(ids)
        \/ UpTo(catalog, log, copy[c][r], r, phone[c].until.rev)
  BY <1>1, <1>2, <1>3 DEF Fits
<1> QED
  BY <1>1, <1>2, <1>4, ClientApplies

LEMMA ClientAppliesSnapshot ==
  ASSUME CatalogInv, NEW c \in Clients, SnapshotRows(c)
  PROVE  CatalogInv'
<1> DEFINE live == {r \in Recipes : catalog[r].live}
           page == Page(live, phone[c].cursor)
           more == More(live, phone[c].cursor)
           covered == {r \in Recipes : phone[c].cursor < r /\ (more => r <= Greatest(page))}
<1>1. phone[c].pc = "rows" /\ phone[c].mode = "snapshot" /\ ApplyPage(c, covered, more)
  BY DEF SnapshotRows
<1>2. covered \in SUBSET Recipes /\ page \in SUBSET Recipes /\ more \in BOOLEAN
      /\ phone[c].cursor \in Nat
  BY ClientHas, PageOf
<1>3. ASSUME NEW r \in Recipes \ covered, r > phone[c].cursor
      PROVE  more /\ r > Greatest(covered)
  <2>1. \A q \in Recipes : q \in Nat /\ q > 0
    BY CatalogAssumption DEF Recipes
  <2>2. Greatest(page) \in Nat
    BY <1>2, GreatestRecipe
  <2>3. more /\ ~(r <= Greatest(page))
    BY <1>2, <1>3, <2>1
  <2>4. /\ covered = {} => Greatest(covered) = 0
        /\ covered # {} => Greatest(covered) \in covered
    BY <1>2, GreatestRecipe
  <2>5. \A q \in covered : q <= Greatest(page) /\ q \in Nat
    BY <2>1, <2>3
  <2> HIDE DEF covered, page, more
  <2> QED
    BY <2>1, <2>2, <2>3, <2>4, <2>5
<1> HIDE DEF covered, more
<1> QED
  BY <1>1, <1>2, <1>3, ClientApplies

-----------------------------------------------------------------------------
(* The catalog: the writers                                                *)

LEMMA TxnTypes ==
  ASSUME CatalogInv, NEW w \in Writers
  PROVE  /\ txn[w] \in Txns /\ txn[w].writes \in Writings /\ txn[w].base \in Nat
         /\ DOMAIN txn[w].writes \in SUBSET Recipes
         /\ \A r \in DOMAIN txn[w].writes : txn[w].writes[r] \in BOOLEAN
         /\ Cardinality(DOMAIN txn[w].writes) \in Nat
<1>1. txn[w] \in Txns /\ txn[w].writes \in Writings /\ txn[w].base \in Nat
  BY CatalogTypes, CatalogAssumption DEF Txns, Revisions
<1>2. /\ DOMAIN txn[w].writes \in SUBSET Recipes
      /\ \A r \in DOMAIN txn[w].writes : txn[w].writes[r] \in BOOLEAN
  BY <1>1, WritingsAre
<1> QED
  BY <1>1, <1>2, SomeRecipes

\* A writer takes a step that nobody sees.
LEMMA WriterMoves ==
  ASSUME CatalogInv, NEW w \in Writers, NEW x \in Txns, txn' = [txn EXCEPT ![w] = x],
         sequence' \in Revisions, sequence <= sequence',
         numbering' \in Writers \cup {NoWriter},
         \A v \in Writers \ {w} : txn[v].pc = "numbered" => numbering' = numbering,
         x.pc = "numbered" =>
           /\ numbering' = w
           /\ x.base + Cardinality(DOMAIN x.writes) <= sequence'
           /\ \A e \in log : e.rev <= x.base,
         UNCHANGED <<catalog, log, epoch, minRev, clients, index>>
  PROVE  CatalogInv'
<1>1. /\ txn \in [Writers -> Txns] /\ txn' \in [Writers -> Txns]
      /\ sequence \in Nat /\ sequence' \in Nat
  BY CatalogTypes, CatalogAssumption DEF Revisions
<1>2. CatalogShapes'
  BY <1>1, WritingsAre
     DEF CatalogInv, CatalogShapes, CatalogTypeOK, clients, index, Txns
<1>3. ASSUME NEW e \in log PROVE e.rev <= sequence'
  <2>1. e.rev \in Nat /\ e.rev <= sequence
    BY CatalogTypes, HeadIs DEF CatalogInv, BlocksInOrder, Revisions
  <2> QED
    BY <1>1, <2>1
<1>4. ASSUME NEW v \in Writers, txn'[v].pc = "numbered"
      PROVE  /\ numbering' = v
             /\ txn'[v].base + Cardinality(DOMAIN txn'[v].writes) <= sequence'
             /\ \A e \in log : e.rev <= txn'[v].base
  <2>1. CASE v = w
    BY <1>1, <1>4, <2>1
  <2>2. CASE v # w
    <3>1. txn'[v] = txn[v]
      BY <1>1, <2>2
    <3>2. /\ numbering = v
          /\ txn[v].base + Cardinality(DOMAIN txn[v].writes) <= sequence
          /\ \A e \in log : e.rev <= txn[v].base
      BY <1>4, <3>1 DEF CatalogInv, BlocksInOrder
    <3>3. txn[v].base \in Nat /\ Cardinality(DOMAIN txn[v].writes) \in Nat
      BY TxnTypes
    <3>4. numbering' = v
      BY <1>4, <2>2, <3>1, <3>2
    <3>5. txn[v].base + Cardinality(DOMAIN txn[v].writes) <= sequence'
      <4> DEFINE end == txn[v].base + Cardinality(DOMAIN txn[v].writes)
      <4>1. end \in Nat /\ end <= sequence
        BY <3>2, <3>3
      <4> HIDE DEF end
      <4>2. end <= sequence'
        BY <1>1, <4>1
      <4> QED
        BY <4>2 DEF end
    <3> QED
      BY <3>1, <3>2, <3>4, <3>5
  <2> QED
    BY <2>1, <2>2
<1>5. BlocksInOrder(catalog, log)'
  BY <1>3, <1>4 DEF CatalogInv, BlocksInOrder
<1>6. \A c \in Clients : Fits(catalog, log, epoch, phone[c], copy[c], at[c])
  BY DEF CatalogInv
<1>7. (\A c \in Clients : Fits(catalog, log, epoch, phone[c], copy[c], at[c]))'
  BY <1>6 DEF clients
<1> QED
  BY <1>2, <1>5, <1>7 DEF CatalogInv

LEMMA WriterWorks ==
  ASSUME CatalogInv, NEW w \in Writers,
         \/ \E r \in Recipes, live \in BOOLEAN : Write(w, r, live)
         \/ Number(w) \/ Rollback(w)
  PROVE  CatalogInv'
<1>1. /\ txn[w] \in Txns /\ txn[w].writes \in Writings /\ txn[w].base \in Nat
      /\ DOMAIN txn[w].writes \in SUBSET Recipes
      /\ Cardinality(DOMAIN txn[w].writes) \in Nat
  BY TxnTypes
<1>2. /\ sequence \in Revisions /\ sequence \in Nat /\ numbering \in Writers \cup {NoWriter}
      /\ 0 \in Revisions /\ NoTxn \in Txns /\ NoTxn.pc = "idle" /\ epoch \in Nat
      /\ txn \in [Writers -> Txns]
  BY CatalogTypes, CatalogStarts, CatalogAssumption DEF Revisions, NoTxn
<1>3. \A v \in Writers : txn[v].pc = "numbered" => numbering = v
  BY DEF CatalogInv, BlocksInOrder
<1>4. ASSUME NEW r \in Recipes, NEW live \in BOOLEAN, Write(w, r, live)
      PROVE  CatalogInv'
  <2> DEFINE writes == [q \in DOMAIN txn[w].writes \cup {r} |->
                          IF q = r THEN live ELSE txn[w].writes[q]]
             x == [pc |-> "open", base |-> 0, writes |-> writes]
  <2>1. writes \in Writings
    BY <1>1, WritingsAre
  <2>2. txn' = [txn EXCEPT ![w] = x]
        /\ UNCHANGED <<catalog, log, sequence, epoch, minRev, numbering, clients, index>>
    BY <1>4 DEF Write
  <2> HIDE DEF writes
  <2>3. x \in Txns /\ x.pc = "open"
    BY <1>2, <2>1 DEF Txns
  <2> HIDE DEF x
  <2>4. /\ sequence' \in Revisions /\ sequence <= sequence'
        /\ numbering' \in Writers \cup {NoWriter}
    BY <1>2, <2>2
  <2> QED
    BY <2>2, <2>3, <2>4, WriterMoves
<1>5. CASE Number(w)
  <2> DEFINE count == Cardinality(DOMAIN txn[w].writes)
             x == [txn[w] EXCEPT !.pc = "numbered", !.base = sequence]
  <2>1. /\ sequence + count + epoch <= MaxRevision /\ sequence' = sequence + count
        /\ numbering' = w /\ numbering = NoWriter /\ txn' = [txn EXCEPT ![w] = x]
        /\ UNCHANGED <<catalog, log, epoch, minRev, clients, index>>
    BY <1>2, <1>5 DEF Number, MayNumber
  <2>2. x \in Txns /\ x.pc = "numbered" /\ x.base = sequence /\ x.writes = txn[w].writes
    BY <1>1, <1>2 DEF Txns
  <2>3. \A v \in Writers : txn[v].pc # "numbered"
    BY <1>3, <2>1, CatalogAssumption
  <2>4. \A e \in log : e.rev <= sequence
    BY DEF CatalogInv, BlocksInOrder
  <2>5. x.base + Cardinality(DOMAIN x.writes) = sequence'
    BY <2>1, <2>2
  <2>6. count \in Nat
    BY <1>1
  <2> HIDE DEF count, x
  <2>7. /\ sequence' \in Nat /\ sequence' <= MaxRevision /\ sequence <= sequence'
        /\ sequence' <= sequence'
    BY <1>2, <2>1, <2>6, CatalogAssumption
  <2>8. sequence' \in Revisions
    BY <2>7, CatalogAssumption DEF Revisions
  <2> QED
    BY <2>1, <2>2, <2>3, <2>4, <2>5, <2>7, <2>8, WriterMoves
<1>6. CASE Rollback(w)
  <2>1. /\ txn' = [txn EXCEPT ![w] = NoTxn]
        /\ numbering' = IF numbering = w THEN NoWriter ELSE numbering
        /\ UNCHANGED <<catalog, log, sequence, epoch, minRev, clients, index>>
    BY <1>6 DEF Rollback
  <2>2. \A v \in Writers \ {w} : txn[v].pc = "numbered" => numbering' = numbering
    BY <1>3, <2>1
  <2>3. numbering' \in Writers \cup {NoWriter}
    BY <1>2, <2>1
  <2>4. sequence' \in Revisions /\ sequence <= sequence'
    BY <1>2, <2>1
  <2> QED
    BY <1>2, <2>1, <2>2, <2>3, <2>4, WriterMoves
<1> QED
  BY <1>4, <1>5, <1>6

LEMMA PruneKeeps ==
  ASSUME CatalogInv, NEW m \in Revisions, Prune(m)
  PROVE  CatalogInv'
<1>1. UNCHANGED <<catalog, log, sequence, epoch, numbering, txn, clients, index>> /\ minRev' = m
  BY DEF Prune
<1>2. CatalogShapes'
  BY <1>1 DEF CatalogInv, CatalogShapes, CatalogTypeOK, clients, index
<1>3. BlocksInOrder(catalog, log)'
  BY <1>1 DEF CatalogInv, BlocksInOrder
<1>4. (\A c \in Clients : Fits(catalog, log, epoch, phone[c], copy[c], at[c]))'
  BY <1>1 DEF CatalogInv, clients
<1> QED
  BY <1>2, <1>3, <1>4 DEF CatalogInv

\* What the log is added by one commit.
LEMMA CommitAdds ==
  ASSUME CatalogInv, NEW w \in Writers, CommitChange(w)
  PROVE  /\ log \subseteq log' /\ log' \in SUBSET [rev: Revisions, recipe: Recipes]
         /\ epoch' = epoch
         /\ \A e \in log' \ log : e.rev > HeadOf(log)
<1> DEFINE D == DOMAIN txn[w].writes
           place(r) == Cardinality({q \in D : q <= r})
<1>1. /\ D \in SUBSET Recipes /\ txn[w].base \in Nat /\ Cardinality(D) \in Nat
  BY TxnTypes
<1>2. /\ txn[w].base + Cardinality(D) <= sequence /\ \A e \in log : e.rev <= txn[w].base
  BY DEF CommitChange, CatalogInv, BlocksInOrder
<1>3. sequence \in Nat /\ sequence <= MaxRevision /\ MaxRevision \in Nat
      /\ log \in SUBSET [rev: Revisions, recipe: Recipes]
  BY CatalogTypes, CatalogAssumption DEF Revisions
<1>4. HeadOf(log) \in Nat /\ HeadOf(log) <= txn[w].base
  BY <1>1, <1>2, <1>3, HeadIs DEF Revisions
<1>5. \A r : RevisionOf(w, r) = txn[w].base + place(r)
  BY DEF RevisionOf
<1>6. \A r \in D : place(r) \in Nat /\ 1 <= place(r) /\ place(r) <= Cardinality(D)
  <2> HIDE DEF D
  <2> QED
    BY <1>1, PlaceInBlock
<1>7. log' = log \cup {[rev |-> RevisionOf(w, r), recipe |-> r] : r \in D}
  BY DEF CommitChange
<1> HIDE DEF place
<1>8. ASSUME NEW r \in D
      PROVE  RevisionOf(w, r) \in Revisions /\ RevisionOf(w, r) > HeadOf(log) /\ r \in Recipes
  <2> DEFINE count == Cardinality(D)
  <2>1. count \in Nat /\ place(r) \in Nat /\ 1 <= place(r) /\ place(r) <= count
        /\ txn[w].base + count <= sequence
    BY <1>1, <1>2, <1>6
  <2> HIDE DEF count
  <2>2. /\ txn[w].base + place(r) \in Nat /\ txn[w].base + place(r) <= MaxRevision
        /\ txn[w].base + place(r) > HeadOf(log)
    BY <1>1, <1>3, <1>4, <2>1
  <2> QED
    BY <1>1, <1>5, <2>2, <1>3 DEF Revisions
<1> HIDE DEF D
<1> QED
  BY <1>3, <1>7, <1>8 DEF CommitChange

LEMMA CatalogCommitKeeps ==
  ASSUME CatalogInv, NEW w \in Writers, CommitChange(w)
  PROVE  CatalogInv'
<1> DEFINE D == DOMAIN txn[w].writes
           head == HeadOf(log)
<1>1. /\ log \subseteq log' /\ log' \in SUBSET [rev: Revisions, recipe: Recipes]
      /\ epoch' = epoch /\ \A e \in log' \ log : e.rev > head
      /\ log' = log \cup {[rev |-> RevisionOf(w, r), recipe |-> r] : r \in D}
  BY CommitAdds DEF CommitChange
<1>2. /\ D \in SUBSET Recipes /\ \A r \in D : txn[w].writes[r] \in BOOLEAN
      /\ txn[w].base \in Nat /\ Cardinality(D) \in Nat
  BY TxnTypes
<1>3. /\ catalog \in [Recipes -> Content] /\ log \in SUBSET [rev: Revisions, recipe: Recipes]
      /\ numbering \in Writers \cup {NoWriter} /\ txn \in [Writers -> Txns]
      /\ NoTxn \in Txns /\ NoTxn.pc = "idle" /\ sequence \in Nat /\ epoch \in Nat
  BY CatalogTypes, CatalogStarts, CatalogAssumption DEF NoTxn, Revisions
<1>4. /\ numbering = w /\ txn[w].base + Cardinality(D) <= sequence
      /\ \A e \in log : e.rev <= txn[w].base
      /\ \A v \in Writers : txn[v].pc = "numbered" => numbering = v
  BY DEF CommitChange, CatalogInv, BlocksInOrder
<1>5. head \in Nat /\ head <= txn[w].base /\ HeadOf(log') \in Nat /\ head <= HeadOf(log')
  BY <1>1, <1>2, <1>3, <1>4, HeadIs, HeadGrows, CatalogAssumption DEF Revisions
<1>6. ASSUME NEW r \in D
      PROVE  /\ RevisionOf(w, r) \in Revisions /\ RevisionOf(w, r) \in Nat
             /\ RevisionOf(w, r) > txn[w].base /\ RevisionOf(w, r) <= sequence
  <2> DEFINE place == Cardinality({q \in D : q <= r})
             count == Cardinality(D)
  <2>1. RevisionOf(w, r) = txn[w].base + place
    BY DEF RevisionOf
  <2>2. place \in Nat /\ 1 <= place /\ place <= count
    <3> HIDE DEF D
    <3> QED
      BY <1>2, PlaceInBlock
  <2>3. count \in Nat /\ txn[w].base + count <= sequence
    BY <1>2, <1>4
  <2> HIDE DEF place, count
  <2>4. /\ RevisionOf(w, r) \in Nat /\ RevisionOf(w, r) > txn[w].base
        /\ RevisionOf(w, r) <= sequence
    BY <1>2, <1>3, <2>1, <2>2, <2>3
  <2>5. sequence \in 0 .. MaxRevision /\ MaxRevision \in Nat
    BY CatalogTypes DEF Revisions
  <2> QED
    BY <2>4, <2>5 DEF Revisions
<1> DEFINE number == [r \in D |-> RevisionOf(w, r)]
<1> HIDE DEF D
<1>7. /\ \A r \in D : /\ catalog'[r] = [rev |-> number[r], live |-> txn[w].writes[r]]
                    /\ catalog'[r].rev = number[r]
      /\ \A r \in Recipes \ D : catalog'[r] = catalog[r]
  BY <1>2 DEF CommitChange, D
<1> HIDE DEF number
<1>8. \A r \in D : number[r] \in Revisions /\ number[r] \in Nat /\ number[r] > txn[w].base /\ number[r] <= sequence
  BY <1>6 DEF number
<1>9. log' = log \cup {[rev |-> number[r], recipe |-> r] : r \in D}
  BY <1>1 DEF number
<1>10. catalog' \in [Recipes -> Content]
  <2>1. ASSUME NEW r \in Recipes PROVE catalog'[r] \in Content
    <3>1. CASE r \in D
      <4>1. ASSUME NEW n \in Revisions, NEW live \in BOOLEAN
            PROVE  [rev |-> n, live |-> live] \in Content
        BY DEF Content
      <4>2. number[r] \in Revisions /\ txn[w].writes[r] \in BOOLEAN
            /\ catalog'[r] = [rev |-> number[r], live |-> txn[w].writes[r]]
        BY <1>2, <1>7, <1>8, <3>1
      <4> QED
        BY <4>1, <4>2, Zenon
    <3>2. CASE r \notin D
      BY <1>3, <1>7, <3>2
    <3> QED
      BY <3>1, <3>2
  <2>2. catalog' = [r \in Recipes |-> catalog'[r]]
    BY DEF CommitChange
  <2> QED
    BY <2>1, <2>2
<1>11. /\ txn' = [txn EXCEPT ![w] = NoTxn] /\ numbering' = NoWriter
       /\ UNCHANGED <<sequence, epoch, minRev, clients, index>>
  BY <1>4 DEF CommitChange
<1>12. \A v \in Writers : txn'[v].pc # "numbered"
  BY <1>3, <1>4, <1>11
<1>13. CatalogShapes'
  BY <1>1, <1>3, <1>10, <1>11, WritingsAre
     DEF CatalogInv, CatalogShapes, CatalogTypeOK, clients, index, Txns
<1>14. \A r \in Recipes : catalog[r].rev \in Nat /\ catalog[r].rev <= txn[w].base
  <2> SUFFICES ASSUME NEW r \in Recipes
               PROVE  catalog[r].rev \in Nat /\ catalog[r].rev <= txn[w].base
    OBVIOUS
  <2>1. catalog[r].rev \in Nat
    BY <1>3, CatalogAssumption DEF Content, Revisions
  <2>2. CASE catalog[r].rev = 0
    BY <1>2, <2>2
  <2>3. CASE catalog[r].rev # 0
    <3> DEFINE e == [rev |-> catalog[r].rev, recipe |-> r]
    <3>1. e \in log /\ e.rev = catalog[r].rev
      BY <2>3 DEF CatalogInv, BlocksInOrder
    <3> QED
      BY <1>4, <2>1, <3>1
  <2> QED
    BY <2>1, <2>2, <2>3
<1>15. BlocksInOrder(catalog, log)'
  <2>1. ASSUME NEW e \in log' PROVE e.rev <= sequence' /\ e.rev <= catalog'[e.recipe].rev
    <3>1. CASE e \in log
      <4>1. /\ e.rev \in Nat /\ e.recipe \in Recipes /\ e.rev <= sequence
            /\ e.rev <= catalog[e.recipe].rev /\ e.rev <= txn[w].base
        BY <1>3, <1>4, <3>1, HeadIs, CatalogAssumption DEF CatalogInv, BlocksInOrder, Revisions
      <4>2. CASE e.recipe \in D
        <5>1. catalog'[e.recipe].rev = number[e.recipe]
          BY <1>7, <4>2
        <5> QED
          BY <1>2, <1>8, <1>11, <4>1, <4>2, <5>1
      <4>3. CASE e.recipe \notin D
        BY <1>7, <1>11, <4>1, <4>3
      <4> QED
        BY <4>2, <4>3
    <3>2. ASSUME NEW r \in D, e = [rev |-> number[r], recipe |-> r]
          PROVE  e.rev <= sequence' /\ e.rev <= catalog'[e.recipe].rev
      <4>1. e.rev = number[r] /\ catalog'[e.recipe].rev = number[r]
        BY <1>7, <3>2
      <4> QED
        BY <1>8, <1>11, <4>1
    <3> QED
      BY <1>9, <3>1, <3>2
  <2>2. ASSUME NEW r \in Recipes, catalog'[r].rev # 0
        PROVE  [rev |-> catalog'[r].rev, recipe |-> r] \in log'
    <3>1. CASE r \in D
      BY <1>7, <1>9, <3>1
    <3>2. CASE r \notin D
      BY <1>1, <1>7, <2>2, <3>2 DEF CatalogInv, BlocksInOrder
    <3> QED
      BY <3>1, <3>2
  <2> QED
    BY <1>12, <2>1, <2>2 DEF BlocksInOrder
<1>16. ASSUME NEW r \in Recipes, NEW row \in Content, NEW upto \in Nat, upto <= head,
              UpTo(catalog, log, row, r, upto)
       PROVE  UpTo(catalog', log', row, r, upto)
  <2>1. row.rev \in Nat /\ row.rev <= catalog[r].rev
    BY <1>16, CatalogAssumption DEF UpTo, Content, Revisions
  <2>2. ASSUME NEW e \in log', e.recipe = r, e.rev <= upto PROVE e.rev <= row.rev
    <3>1. e.rev \in Nat
      BY <1>1, HeadIs, CatalogAssumption DEF Revisions
    <3>2. ~(e.rev > head)
      BY <1>5, <1>16, <2>2, <3>1
    <3>3. e \in log
      BY <1>1, <3>2
    <3> QED
      BY <1>16, <2>2, <3>3 DEF UpTo
  <2>3. CASE r \in D
    <3>1. catalog'[r].rev = number[r] /\ number[r] \in Nat /\ number[r] > txn[w].base
      BY <1>7, <1>8, <2>3
    <3>2. row.rev < catalog'[r].rev
      BY <1>2, <1>14, <2>1, <3>1
    <3>3. catalog'[r].rev \in Nat
      BY <3>1
    <3> HIDE DEF UpTo
    <3>4. row.rev <= catalog'[r].rev /\ row.rev # catalog'[r].rev
      BY <2>1, <3>2, <3>3
    <3> QED
      BY <2>2, <3>4 DEF UpTo
  <2>4. CASE r \notin D
    BY <1>7, <1>16, <2>2, <2>4 DEF UpTo
  <2> QED
    BY <2>3, <2>4
<1>17. ASSUME NEW mark \in MarksOrNone, Behind(log, epoch, mark)
       PROVE  /\ Behind(log', epoch, mark) /\ mark.rev \in Nat
              /\ mark.epoch = epoch => mark.rev <= head
  <2>1. mark.rev \in Nat
    BY MarkTypes
  <2> QED
    BY <1>5, <1>17, <2>1 DEF Behind
<1>18. ASSUME NEW c \in Clients
       PROVE  Fits(catalog', log', epoch, phone[c], copy[c], at[c])
  <2>1. /\ Fits(catalog, log, epoch, phone[c], copy[c], at[c])
        /\ at[c] \in MarksOrNone /\ phone[c].until \in MarksOrNone
        /\ \A r \in Recipes : copy[c][r] \in Content
    BY ClientHas DEF Rows
  <2>2. /\ Behind(log', epoch, at[c]) /\ Behind(log', epoch, phone[c].until)
        /\ at[c].rev \in Nat /\ phone[c].until.rev \in Nat
        /\ at[c].epoch = epoch => at[c].rev <= head
        /\ phone[c].until.epoch = epoch => phone[c].until.rev <= head
    BY <1>17, <2>1 DEF Fits
  <2>3. ASSUME at[c].epoch = epoch, NEW r \in Recipes
        PROVE  UpTo(catalog', log', copy[c][r], r, at[c].rev)
    BY <1>16, <2>1, <2>2, <2>3 DEF Fits
  <2>4. ASSUME phone[c].until.epoch = epoch, NEW r \in Recipes,
               UpTo(catalog, log, copy[c][r], r, phone[c].until.rev)
        PROVE  UpTo(catalog', log', copy[c][r], r, phone[c].until.rev)
    BY <1>16, <2>1, <2>2, <2>4
  <2> QED
    BY <2>1, <2>2, <2>3, <2>4 DEF Fits
<1>19. (\A c \in Clients : Fits(catalog, log, epoch, phone[c], copy[c], at[c]))'
  BY <1>1, <1>11, <1>18 DEF clients
<1> QED
  BY <1>13, <1>15, <1>19 DEF CatalogInv

LEMMA StartsAnew ==
  ASSUME CatalogInv, StartAnew
  PROVE  CatalogInv'
<1>1. /\ epoch < MaxEpoch /\ epoch' = epoch + 1 /\ log' = {} /\ sequence' = 0 /\ minRev' = 0
      /\ catalog' = [r \in Recipes |-> [rev |-> 0, live |-> catalog[r].live]]
      /\ \A w \in Writers : txn[w] = NoTxn
      /\ UNCHANGED <<numbering, txn, clients, index>>
  BY DEF StartAnew
<1>2. epoch' \in 0 .. MaxEpoch /\ 0 \in Revisions /\ epoch \in Nat /\ MaxEpoch \in Nat
  BY <1>1, CatalogTypes, CatalogStarts, CatalogAssumption
<1>3. catalog' \in [Recipes -> Content]
  BY <1>1, <1>2, CatalogTypes DEF Content
<1>4. CatalogShapes'
  BY <1>1, <1>2, <1>3 DEF CatalogInv, CatalogShapes, CatalogTypeOK, clients, index
<1>5. BlocksInOrder(catalog, log)'
  <2>1. \A w \in Writers : txn'[w].pc = "idle"
    BY <1>1 DEF NoTxn
  <2>2. \A r \in Recipes : catalog'[r].rev = 0
    BY <1>1
  <2> QED
    BY <1>1, <2>1, <2>2 DEF BlocksInOrder
<1>6. ASSUME NEW c \in Clients
      PROVE  Fits(catalog', log', epoch', phone[c], copy[c], at[c])
  <2>1. /\ Fits(catalog, log, epoch, phone[c], copy[c], at[c])
        /\ at[c] \in MarksOrNone /\ phone[c].until \in MarksOrNone
    BY ClientHas
  <2>2. ASSUME NEW mark \in MarksOrNone, Behind(log, epoch, mark)
        PROVE  mark.epoch # epoch' /\ Behind(log', epoch', mark)
    <3>1. mark.epoch \in Nat /\ NoMark.epoch = MaxEpoch + 1
      BY MarkTypes, CatalogStarts
    <3>2. CASE mark = NoMark
      <4>1. mark.epoch # epoch'
        BY <1>1, <1>2, <3>1, <3>2
      <4> QED
        BY <3>2, <4>1 DEF Behind
    <3>3. CASE mark # NoMark
      <4>1. mark.epoch <= epoch
        BY <2>2, <3>3 DEF Behind
      <4>2. mark.epoch # epoch' /\ mark.epoch <= epoch'
        BY <1>1, <1>2, <3>1, <4>1
      <4> QED
        BY <4>2 DEF Behind
    <3> QED
      BY <3>2, <3>3
  <2> QED
    BY <2>1, <2>2 DEF Fits
<1>7. (\A c \in Clients : Fits(catalog, log, epoch, phone[c], copy[c], at[c]))'
  BY <1>1, <1>6 DEF clients
<1> QED
  BY <1>4, <1>5, <1>7 DEF CatalogInv

-----------------------------------------------------------------------------
(* The catalog: the index of the assistant, and the theorems               *)

LEMMA IndexSteps ==
  ASSUME CatalogInv, AskerStep
  PROVE  CatalogInv'
<1>1. /\ catalog \in [Recipes -> Content] /\ Now \in MarksOrNone /\ NoMark \in MarksOrNone
      /\ NoRows \in Rows
  BY CatalogTypes, NowType, CatalogStarts
<1> DEFINE Indexes == [key: MarksOrNone, rows: Rows]
           Builds == [pc: {"none", "begun", "read"}, rows: Rows]
           Turns == [pc: {"idle", "keyed", "waits"}, key: MarksOrNone]
<1>2. /\ cached \in Indexes /\ building \in Builds /\ asker \in [Askers -> Turns]
  BY DEF CatalogInv, CatalogShapes, CatalogTypeOK, MarksOrNone, Rows
<1>3. NoIndex \in Indexes /\ NoBuild \in Builds /\ NoAsker \in Turns
  BY <1>1 DEF NoIndex, NoBuild, NoAsker
<1>4. UNCHANGED <<database, clients>>
  BY DEF AskerStep, ReadKey, UseCached, JoinBuild, BuildReads, BuildEnds, BuildFails, IndexAges
<1>5. cached' \in Indexes /\ building' \in Builds /\ asker' \in [Askers -> Turns]
  <2>1. ASSUME NEW t \in Askers, ReadKey(t, Now) \/ ReadKey(t, NoMark)
        PROVE  cached' \in Indexes /\ building' \in Builds /\ asker' \in [Askers -> Turns]
    BY <1>1, <1>2, <2>1 DEF ReadKey
  <2>2. ASSUME NEW t \in Askers, UseCached(t)
        PROVE  cached' \in Indexes /\ building' \in Builds /\ asker' \in [Askers -> Turns]
    BY <1>2, <1>3, <2>2 DEF UseCached
  <2>3. ASSUME NEW t \in Askers, JoinBuild(t)
        PROVE  cached' \in Indexes /\ building' \in Builds /\ asker' \in [Askers -> Turns]
    <3>1. [NoBuild EXCEPT !.pc = "begun"] \in Builds
      BY <1>3
    <3>2. building' \in Builds /\ cached' = cached
      BY <1>2, <2>3, <3>1 DEF JoinBuild
    <3>3. [asker[t] EXCEPT !.pc = "waits"] \in Turns
      BY <1>2
    <3>4. asker' \in [Askers -> Turns]
      BY <1>2, <2>3, <3>3 DEF JoinBuild
    <3> QED
      BY <1>2, <3>2, <3>4
  <2>4. CASE BuildReads
    BY <1>1, <1>2, <2>4 DEF BuildReads, Rows
  <2>5. CASE BuildEnds \/ BuildFails
    <3>1. building' = NoBuild /\ asker' = [t \in Askers |-> IF asker[t].pc = "waits" THEN NoAsker ELSE asker[t]]
      BY <2>5 DEF BuildEnds, BuildFails
    <3>2. cached' = cached \/ \E t \in Askers : cached' = [key |-> asker[t].key, rows |-> building.rows]
      BY <2>5 DEF BuildEnds, BuildFails
    <3>3. cached' \in Indexes
      BY <1>2, <3>2
    <3> QED
      BY <1>2, <1>3, <3>1, <3>3
  <2>6. CASE IndexAges
    BY <1>2, <1>3, <2>6 DEF IndexAges
  <2> QED
    BY <2>1, <2>2, <2>3, <2>4, <2>5, <2>6 DEF AskerStep
<1>6. CatalogShapes'
  BY <1>4, <1>5 DEF CatalogInv, CatalogShapes, CatalogTypeOK, MarksOrNone, Rows, database, clients
<1>7. BlocksInOrder(catalog, log)'
  BY <1>4 DEF CatalogInv, BlocksInOrder, database
<1>8. (\A c \in Clients : Fits(catalog, log, epoch, phone[c], copy[c], at[c]))'
  BY <1>4 DEF CatalogInv, clients, database
<1> QED
  BY <1>6, <1>7, <1>8 DEF CatalogInv

LEMMA CatalogBegins == CatalogInit => CatalogInv
<1> SUFFICES ASSUME CatalogInit PROVE CatalogInv
  OBVIOUS
<1>1. /\ catalog = [r \in Recipes |-> [rev |-> 0, live |-> TRUE]]
      /\ log = {} /\ sequence = 0 /\ epoch = 0 /\ minRev = 0 /\ numbering = NoWriter
      /\ txn = [w \in Writers |-> NoTxn] /\ phone = [c \in Clients |-> Rest]
      /\ copy = [c \in Clients |-> NoRows] /\ at = [c \in Clients |-> NoMark]
      /\ cached = NoIndex /\ building = NoBuild /\ asker = [t \in Askers |-> NoAsker]
  BY DEF CatalogInit
<1>2. /\ 0 \in Revisions /\ 0 \in 0 .. MaxEpoch /\ NoMark \in MarksOrNone /\ Rest \in Phones
      /\ NoRows \in Rows /\ NoTxn \in Txns /\ NoMark.epoch = MaxEpoch + 1
  BY CatalogStarts
<1>3. catalog \in [Recipes -> Content]
  BY <1>1, <1>2 DEF Content
<1>4. /\ NoIndex \in [key: MarksOrNone, rows: Rows]
      /\ NoBuild \in [pc: {"none", "begun", "read"}, rows: Rows]
      /\ NoAsker \in [pc: {"idle", "keyed", "waits"}, key: MarksOrNone]
  BY <1>2 DEF NoIndex, NoBuild, NoAsker
<1>5. txn \in [Writers -> Txns] /\ \A w \in Writers : txn[w].pc = "idle"
  BY <1>1, <1>2 DEF NoTxn
<1>6. CatalogShapes
  BY <1>1, <1>2, <1>3, <1>4, <1>5, WritingsAre
     DEF CatalogShapes, CatalogTypeOK, MarksOrNone, Rows, Phones, Txns
<1>7. BlocksInOrder(catalog, log)
  <2>1. \A r \in Recipes : catalog[r].rev = 0
    BY <1>1
  <2> QED
    BY <1>1, <1>5, <2>1 DEF BlocksInOrder
<1>8. NoMark.epoch # epoch
  BY <1>1, <1>2, CatalogAssumption
<1>9. \A c \in Clients : Fits(catalog, log, epoch, phone[c], copy[c], at[c])
  BY <1>1, <1>8 DEF Fits, Behind, Rest
<1> QED
  BY <1>6, <1>7, <1>9 DEF CatalogInv

LEMMA CatalogKept == CatalogInv /\ [CatalogNext]_catalogVars => CatalogInv'
<1> SUFFICES ASSUME CatalogInv, [CatalogNext]_catalogVars PROVE CatalogInv'
  OBVIOUS
<1>1. CASE WriterStep
  BY <1>1, WriterWorks, CatalogCommitKeeps, PruneKeeps, StartsAnew DEF WriterStep
<1>2. CASE ClientStep
  BY <1>2, ClientBegins, ClientGoesOn, ClientReadsIds, ClientAppliesDelta, ClientAppliesSnapshot
     DEF ClientStep
<1>3. CASE AskerStep
  BY <1>3, IndexSteps
<1>4. CASE UNCHANGED catalogVars
  BY <1>4 DEF CatalogInv, CatalogShapes, CatalogTypeOK, BlocksInOrder, catalogVars, database,
              clients, index
<1> QED
  BY <1>1, <1>2, <1>3, <1>4 DEF CatalogNext

LEMMA CatalogHolds == CatalogSpec => []CatalogInv
BY CatalogBegins, CatalogKept, PTL DEF CatalogSpec

(* Every row, transaction, page and mark keeps its shape, and no block of
   numbers goes beyond the sequence.                                         *)
THEOREM CatalogTypesHold == CatalogSpec => []CatalogTypeOK
<1>1. CatalogInv => CatalogTypeOK
  BY DEF CatalogInv, CatalogShapes
<1> QED
  BY CatalogHolds, <1>1, PTL

LEMMA NothingIsMissed == CatalogInv => HoldsItsRevision /\ UpToDateIsEqual
<1> SUFFICES ASSUME CatalogInv PROVE HoldsItsRevision /\ UpToDateIsEqual
  OBVIOUS
<1>1. log \in SUBSET [rev: Revisions, recipe: Recipes]
  BY CatalogTypes
<1>2. ASSUME NEW c \in Clients, at[c].epoch = epoch, NEW r \in Recipes
      PROVE  UpTo(catalog, log, copy[c][r], r, at[c].rev)
  BY <1>2, ClientHas DEF Fits
<1>3. HoldsItsRevision
  <2> SUFFICES ASSUME NEW c \in Clients, at[c].epoch = epoch, NEW e \in log, e.rev <= at[c].rev
               PROVE  copy[c][e.recipe].rev >= e.rev
    BY DEF HoldsItsRevision
  <2>1. e.recipe \in Recipes /\ e.rev \in Nat
    BY <1>1, CatalogAssumption DEF Revisions
  <2>2. e.rev <= copy[c][e.recipe].rev
    BY <1>2, <2>1 DEF UpTo
  <2>3. copy[c][e.recipe].rev \in Nat
    BY <2>1, ClientHas, CatalogAssumption DEF Rows, Content, Revisions
  <2> QED
    BY <2>1, <2>2, <2>3
<1>4. UpToDateIsEqual
  <2> SUFFICES ASSUME NEW c \in Clients, at[c] = Now, NEW r \in Recipes
               PROVE  copy[c][r].live = catalog[r].live /\ copy[c][r].rev = catalog[r].rev
    BY DEF UpToDateIsEqual
  <2>1. at[c].epoch = epoch /\ at[c].rev = HeadOf(log)
    BY NowType
  <2>2. UpTo(catalog, log, copy[c][r], r, HeadOf(log))
    BY <1>2, <2>1
  <2>3. copy[c][r].rev \in Nat /\ catalog[r].rev \in Nat
    BY ClientHas, CatalogTypes, CatalogAssumption DEF Rows, Content, Revisions
  <2>4. copy[c][r].rev = catalog[r].rev
    <3>1. CASE catalog[r].rev = 0
      BY <2>2, <2>3, <3>1 DEF UpTo
    <3>2. CASE catalog[r].rev # 0
      <4>1. PICK e \in log : e.recipe = r /\ e.rev = catalog[r].rev
        BY <3>2 DEF CatalogInv, BlocksInOrder
      <4>2. e.rev <= copy[c][r].rev /\ copy[c][r].rev <= catalog[r].rev
        BY <1>1, <2>2, <4>1, HeadIs DEF UpTo
      <4> QED
        BY <2>3, <4>1, <4>2
    <3> QED
      BY <3>1, <3>2
  <2> QED
    BY <2>2, <2>4 DEF UpTo
<1> QED
  BY <1>3, <1>4

LEMMA VisibleInOrderStep ==
  CatalogInv /\ [CatalogNext]_catalogVars =>
    [epoch' = epoch => \A e \in log' \ log : e.rev > Head]_catalogVars
<1> SUFFICES ASSUME CatalogInv, CatalogNext, epoch' = epoch, NEW e \in log' \ log
             PROVE  e.rev > Head
  OBVIOUS
<1>1. Head = HeadOf(log)
  BY DEF Head, HeadOf
<1>2. CASE \E w \in Writers : CommitChange(w)
  BY <1>1, <1>2, CommitAdds
<1>3. CASE StartAnew
  BY <1>3, CatalogTypes DEF StartAnew
<1>4. CASE UNCHANGED log
  BY <1>4
<1>5. (\E w \in Writers : CommitChange(w)) \/ StartAnew \/ UNCHANGED log
  BY DEF CatalogNext, WriterStep, ClientStep, AskerStep, Write, Number, Rollback, Prune,
         AskSnapshot, AskChanges, AskPage, Reset, ReadIds, DeltaRows, SnapshotRows, AskAgain,
         GiveUp, Sets, ApplyPage, ReadKey, UseCached, JoinBuild, BuildReads, BuildEnds,
         BuildFails, IndexAges, database
<1> QED
  BY <1>2, <1>3, <1>4, <1>5

(* Whoever follows the catalog by revisions misses nothing: a client that
   stores a revision holds every change up to it, one with nothing left to
   fetch shows the catalog, and what becomes visible is numbered after all a
   reader could have seen.                                                   *)
THEOREM ClientsMissNothing == CatalogSpec => CatalogKeepsFaith
<1>1. CatalogSpec => []HoldsItsRevision /\ []UpToDateIsEqual
  BY CatalogHolds, NothingIsMissed, PTL
<1>2. CatalogSpec => VisibleInOrder
  BY CatalogHolds, VisibleInOrderStep, PTL DEF CatalogSpec, VisibleInOrder
<1> QED
  BY <1>1, <1>2 DEF CatalogKeepsFaith
=============================================================================
