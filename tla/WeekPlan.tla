------------------------------ MODULE WeekPlan ------------------------------
(* The meals of one week of one household: WeeklyPlansService                 *)
(* (src/src/weekly-plans/weekly-plans.service.ts), the portions of each person *)
(* (utils/plan-portions.util.ts), the stamps that protect an edit against      *)
(* another (utils/week-write-lock.util.ts), and what a change of the household *)
(* does to its plan (utils/plan-roster.util.ts).                              *)
(*                                                                           *)
(* Every writer updates the week's row first, so a transaction is one step;    *)
(* but upsertWeekSlot and applyWeekPlan read the members of the household      *)
(* before it, and whatever a phone sends rests on the week it last read.       *)
(* The recipes are those of one slot, and the week's row is there already.     *)
EXTENDS Integers, FiniteSets

CONSTANTS
    Persons,      \* people who may belong to the household; each has a phone
    FirstRosters, \* the households to begin with
    Recipes,
    FirstMeals,   \* shared meals, a portion for each, from before the stamps
    MaxUnits,     \* bound: a person's portion
    AskedServings,\* numbers of servings a request may name
    MaxRevision,  \* bound: revision of the week
    PlanOps       \* which of upsert, apply, portion, remove, roster happen

ASSUME PlanAssumption ==
    /\ IsFiniteSet(Persons) /\ FirstRosters \subseteq (SUBSET Persons) \ {{}}
    /\ FirstMeals \subseteq Recipes
    /\ MaxUnits \in Nat \ {0} /\ MaxRevision \in Nat
    /\ AskedServings \subseteq Nat \ {0}
    /\ PlanOps \subseteq {"upsert", "apply", "portion", "remove", "roster"}

VARIABLES
    roster,   \* Membership rows
    revision, \* WeeklyPlan.revision
    item,     \* PlanItem rows with their participants and portions
    view,     \* the week as each phone holds it
    gate      \* member list an open request has read, {} without a request

planVars == <<roster, revision, item, view, gate>>

Units == 0..MaxUnits                  \* 0: no portion
Nothing == [m \in Persons |-> 0]
People(portions) == {m \in Persons : portions[m] > 0}
Allocated(row) == People(row.portions) # {}
Allocations == [S \in SUBSET Persons |-> {f \in [Persons -> Units] : People(f) = S}]

NoItem == [there |-> FALSE, id |-> 0, rev |-> 0, who |-> {}, servings |-> 0,
           portions |-> Nothing, stamps |-> Nothing]

SharedMeal(S) == [there |-> TRUE, id |-> 0, rev |-> 0, who |-> {},
                  servings |-> Cardinality(S), stamps |-> Nothing,
                  portions |-> [m \in Persons |-> IF m \in S THEN 1 ELSE 0]]

(* What a person sees of a meal, without its stamps; {} eats: everybody.       *)
Meal(row) == <<row.there, row.who, row.servings, row.portions>>

PlanTypeOK ==
    /\ roster \in (SUBSET Persons) \ {{}}
    /\ revision \in 0..MaxRevision
    /\ \A r \in Recipes :
          /\ item[r].id \in 0..item[r].rev /\ item[r].rev \in 0..revision
          /\ item[r].who \subseteq Persons /\ item[r].portions \in [Persons -> Units]
          /\ item[r].there = (item[r].servings > 0)
          /\ \A m \in Persons : item[r].stamps[m] \in 0..item[r].rev
    /\ \A u \in Persons : view[u].revision \in 0..revision /\ gate[u] \subseteq Persons

PlanInit ==
    /\ roster \in FirstRosters
    /\ revision = 0
    /\ item = [r \in Recipes |-> IF r \in FirstMeals THEN SharedMeal(roster) ELSE NoItem]
    /\ view = [u \in Persons |-> [revision |-> 0, item |-> item]]
    /\ gate = [u \in Persons |-> {}]

-----------------------------------------------------------------------------
(* Rules of plan-portions.util.ts and planned-servings.util.ts.               *)

(* The sum of all portions, unit by unit.                                     *)
derivedPlannedServings ==
    [portions \in [Persons -> Units] |->
        Cardinality({u \in Persons \X (1..MaxUnits) : u[2] <= portions[u[1]]})]

autoPlannedServings(who, count) == IF who = {} THEN count ELSE Cardinality(who)

(* servings = 0: the request names no number.                                 *)
Planned(who, count, servings) == IF servings > 0 THEN servings ELSE autoPlannedServings(who, count)

Updated(row, who, count, servings) ==
    IF servings = 0 /\ (row.who = who \/ row.servings # autoPlannedServings(row.who, count))
    THEN row.servings ELSE Planned(who, count, servings)

Normal(asked, members) == IF asked = members THEN {} ELSE asked
Audience(who, members) == IF who = {} THEN members ELSE who

remapPortions(portions, audience) ==
    [m \in Persons |-> IF m \notin audience THEN 0
                       ELSE IF portions[m] > 0 THEN portions[m] ELSE 1]

(* w: the audience, servings, portions and intent that a write asks for.       *)
portionsWriteDecision(row, w, policy) ==
    IF ~Allocated(row) \/ policy = "authoritative" THEN "write"
    ELSE IF w.portions # Nothing
         THEN IF w.portions = row.portions \/ policy = "verified" THEN "write" ELSE "refuse"
         ELSE IF w.who = row.who /\ w.servings \in {0, row.servings} THEN "keep" ELSE "refuse"

\* Mutant: portions are removed for anybody.
removalAlways(policy) == "write"

portionsRemovalDecision(policy) ==
    IF policy \in {"verified", "authoritative"} THEN "write" ELSE "refuse"

Preserved(row, w) == IF Allocated(row) THEN remapPortions(row.portions, w.audience) ELSE Nothing

preserveDecision(row, w, policy) ==
    LET kept == Preserved(row, w)
    IN IF \/ kept = Nothing
          \/ /\ w.servings \in {0, derivedPlannedServings[kept]}
             /\ policy = "strict" => kept = row.portions /\ w.who = row.who
             /\ policy = "forced" => kept = row.portions
       THEN "write" ELSE "refuse"

(* planPortionsForExisting: the decision, and the portions it leaves.          *)
Decision(row, w, policy) ==
    CASE w.intent \in {"legacy", "replace"} -> portionsWriteDecision(row, w, policy)
      [] w.intent = "reset" -> IF Allocated(row) THEN portionsRemovalDecision(policy) ELSE "write"
      [] w.intent = "preserve" -> preserveDecision(row, w, policy)

Left(row, w) == IF w.intent = "preserve" THEN Preserved(row, w) ELSE w.portions

(* The row after a write that is let through; every stamp is new.             *)
Stamped(portions, stamp) == [m \in Persons |-> IF portions[m] > 0 THEN stamp ELSE 0]

Written(row, w, policy, count, stamp) ==
    LET portions == Left(row, w)
        servings == IF portions # Nothing THEN derivedPlannedServings[portions]
                    ELSE Updated(row, w.who, count, w.servings)
        new == [row EXCEPT !.who = w.who, !.servings = servings, !.portions = portions]
    IN IF Decision(row, w, policy) = "keep" \/ Meal(new) = Meal(row) THEN row
       ELSE [new EXCEPT !.rev = stamp, !.stamps = Stamped(portions, stamp)]

Created(like, w, count, stamp) ==
    [there |-> TRUE, id |-> stamp, rev |-> stamp, who |-> w.who, portions |-> w.portions,
     servings |-> IF w.portions # Nothing THEN derivedPlannedServings[w.portions]
                  ELSE IF like.there THEN Updated(like, w.who, count, w.servings)
                  ELSE Planned(w.who, count, w.servings),
     stamps |-> Stamped(w.portions, stamp)]

-----------------------------------------------------------------------------
(* A phone reads the week in one snapshot, and starts requests.               *)

ReadWeek(u) ==
    /\ u \in roster /\ gate[u] = {}
    /\ view[u].revision # revision
    /\ view' = [view EXCEPT ![u] = [revision |-> revision, item |-> item]]
    /\ UNCHANGED <<roster, revision, item, gate>>

(* loadHouseholdMembersForGate, before the transaction.                       *)
Ask(u) ==
    /\ PlanOps \intersect {"upsert", "apply"} # {}
    /\ u \in roster /\ gate[u] = {}
    /\ gate' = [gate EXCEPT ![u] = roster]
    /\ UNCHANGED <<roster, revision, item, view>>

(* Any refusal, a lost database connection: nothing is written.               *)
Refused(u) ==
    /\ gate[u] # {}
    /\ gate' = [gate EXCEPT ![u] = {}]
    /\ UNCHANGED <<roster, revision, item, view>>

(* The week as written, and the answer, which carries the meal but never the  *)
(* revision of the week; it may be lost.                                      *)
Write(u, new, answered) ==
    /\ item' = new
    /\ revision' = IF new = item THEN revision ELSE revision + 1
    /\ \E got \in BOOLEAN :
          view' = IF got THEN [view EXCEPT ![u].item = [r \in Recipes |->
                                  IF r \in answered THEN new[r] ELSE @[r]]]
                  ELSE view
    /\ gate' = [gate EXCEPT ![u] = {}]
    /\ UNCHANGED roster

Wants(who, servings, portions, intent, members) ==
    [who |-> who, servings |-> servings, portions |-> portions, intent |-> intent,
     audience |-> Audience(who, members)]

Portions(intent, audience) == IF intent = "replace" THEN Allocations[audience] ELSE {Nothing}

Intents == {"legacy", "preserve", "reset", "replace"}

-----------------------------------------------------------------------------
(* upsertWeekSlot: add or change the meal r; with from # r, in its place.      *)

(* What the tokens of a request must find under the lock.                     *)
SourceFound(u, r, from) ==
    /\ view[u].item[from].there /\ item[from].there
    /\ item[from].rev = view[u].item[from].rev
    /\ view[u].item[r].there = item[r].there /\ view[u].item[r].rev = item[r].rev

(* What the source of a replacement, with portions of its own, allows.         *)
SourceAllows(source, w, token) ==
    /\ w.intent = "preserve" => token
    /\ Allocated(source) =>
          /\ w.intent # "legacy"
          /\ w.intent = "reset" => token
          /\ w.intent = "replace" /\ w.portions # source.portions => token

(* Someone named nobody: a replacement keeps the audience of what it replaces. *)
CarriedWho(source, members) ==
    LET still == source.who \intersect members IN Normal(still, members)

(* Over a meal that is there: the decision for it, or nothing to change.       *)
Over(u, r, w, policy, stale, new) ==
    LET decision == Decision(item[r], w, policy)
    IN \/ decision = "keep"
       \/ decision = "write" /\ (stale => new = item[r])

UpsertSlot(u, r, from, asked, carry, servings, intent, token) ==
    LET members == gate[u]
        stamp == revision + 1
        replaces == from # r
        source == IF replaces THEN item[from] ELSE NoItem
        target == item[r]
        who == IF source.there /\ carry THEN CarriedWho(source, members)
               ELSE Normal(asked, members)
        carried == source.there /\ intent = "preserve" /\ Allocated(source)
        verified == token /\ (replaces => view[u].item[r].there)
        policy == IF verified THEN "verified" ELSE "strict"
        stale == token /\ ~replaces /\ view[u].item[r].rev # target.rev
    IN \E portions \in (IF carried THEN {remapPortions(source.portions, Audience(who, members))}
                        ELSE Portions(intent, Audience(who, members))) :
          LET w == Wants(who, servings, portions, IF carried THEN "replace" ELSE intent, members)
              new == IF target.there THEN Written(target, w, policy, Cardinality(members), stamp)
                     ELSE Created(source, w, Cardinality(members), stamp)
          IN /\ token => IF replaces THEN SourceFound(u, r, from)
                         ELSE view[u].item[r].there /\ target.there
             /\ replaces => SourceAllows(source, [w EXCEPT !.intent = intent], token)
             /\ carried => servings \in {0, derivedPlannedServings[portions]}
             /\ target.there => Over(u, r, w, policy, stale, new)
             /\ Write(u, [item EXCEPT ![from] = NoItem, ![r] = new], {r, from})

Upsert(u) ==
    /\ "upsert" \in PlanOps
    /\ gate[u] # {} /\ revision < MaxRevision
    /\ u \in roster
    /\ \E r, from \in Recipes, asked \in SUBSET gate[u], carry \in BOOLEAN,
          servings \in AskedServings \union {0}, intent \in Intents, token \in BOOLEAN :
          /\ carry => from # r /\ asked = {}
          /\ Normal(asked, gate[u]) \subseteq roster
          /\ UpsertSlot(u, r, from, asked, carry, servings, intent, token)

-----------------------------------------------------------------------------
(* applyWeekPlan: the week becomes `desired`, or nothing changes.             *)

(* The stored audience, when the request names the same.   *)
settleParticipants(r, asked, members) ==
    IF item[r].there /\ item[r].who = asked THEN asked ELSE Normal(asked, members)

(* The slots a request may hold for r: the meal as the sender saw it, with or  *)
(* without its portions, or any other.                                        *)
Slots(u, r) ==
    UNION {LET who == settleParticipants(r, asked, gate[u])
           IN {Wants(who, servings, portions, intent, gate[u]) :
                  portions \in Portions(intent, Audience(who, gate[u]))} :
           asked \in SUBSET gate[u], servings \in {0, view[u].item[r].servings},
           intent \in Intents}

Absent == Wants({}, 0, Nothing, "absent", {})

SlotAllowed(r, w, policy) ==
    IF w = Absent THEN Allocated(item[r]) => portionsRemovalDecision(policy) = "write"
    ELSE item[r].there => Decision(item[r], w, policy) # "refuse"

After(r, w, policy, count, stamp) ==
    IF w = Absent THEN NoItem
    ELSE IF item[r].there THEN Written(item[r], w, policy, count, stamp)
    ELSE Created(NoItem, w, count, stamp)

(* forced: a card applied in spite of changes; guarded: a card applied over    *)
(* the very meals it was computed for; undone: taken back over the very meals  *)
(* it left.                                                                   *)
Policy(mode, token) ==
    CASE mode = "forced" -> "forced"
      [] mode = "undone" -> "authoritative"
      [] mode = "guarded" \/ token -> "verified"
      [] OTHER -> "strict"

(* The meal r is sent as anything, the rest as it was seen or not at all.       *)
AsSeen(u, q) ==
    LET seen == view[u].item[q]
        who == settleParticipants(q, seen.who, gate[u])
    IN {Absent} \union
       (IF ~seen.there THEN {}
        ELSE {Wants(who, seen.servings, Nothing, "legacy", gate[u])} \union
             {Wants(who, seen.servings, portions, "replace", gate[u]) :
                 portions \in {seen.portions} \intersect Allocations[Audience(who, gate[u])]})

ApplyWeekPlan(u) ==
    /\ "apply" \in PlanOps
    /\ gate[u] # {} /\ revision < MaxRevision
    /\ u \in roster
    /\ \E r \in Recipes, mode \in {"plain", "forced", "guarded", "undone"}, token \in BOOLEAN :
          /\ token => mode = "plain" /\ view[u].revision = revision
          /\ mode \in {"guarded", "undone"} => \A q \in Recipes : Meal(item[q]) = Meal(view[u].item[q])
          /\ \E slot \in Slots(u, r) \union {Absent},
                rest \in UNION {AsSeen(u, q) : q \in Recipes \ {r}} \union {Absent} :
                LET desired == [q \in Recipes |-> IF q = r THEN slot ELSE rest]
                IN /\ \A q \in Recipes \ {r} : rest \in AsSeen(u, q)
                   /\ \A q \in Recipes : /\ desired[q].who \subseteq roster
                                         /\ SlotAllowed(q, desired[q], Policy(mode, token))
                   /\ Write(u, [q \in Recipes |-> After(q, desired[q], Policy(mode, token),
                                                        Cardinality(gate[u]), revision + 1)], {})

-----------------------------------------------------------------------------
(* removeWeekSlot (one meal, or the whole slot), clearWeekPlan.               *)
Remove(u) ==
    /\ "remove" \in PlanOps /\ revision < MaxRevision
    /\ u \in roster /\ gate[u] = {}
    /\ \E S \in {{r} : r \in Recipes} \union {Recipes} :
          /\ \E r \in S : item[r].there
          /\ Write(u, [r \in Recipes |-> IF r \in S THEN NoItem ELSE item[r]], {})

(* setPortion: one person's portion, protected by the stamp of that portion.   *)
SetPortion(u, r, m, units) ==
    /\ "portion" \in PlanOps /\ revision < MaxRevision
    /\ u \in roster /\ gate[u] = {}
    /\ view[u].item[r].there /\ view[u].item[r].portions[m] > 0
    /\ item[r].there /\ item[r].id = view[u].item[r].id
    /\ item[r].portions[m] \notin {0, units}
    /\ item[r].stamps[m] = view[u].item[r].stamps[m]
    /\ LET portions == [item[r].portions EXCEPT ![m] = units]
       IN Write(u, [item EXCEPT ![r] = [@ EXCEPT !.portions = portions,
                                                 !.servings = derivedPlannedServings[portions],
                                                 !.rev = revision + 1,
                                                 !.stamps[m] = revision + 1]], {r})

-----------------------------------------------------------------------------
(* The household changes (plan-roster.util.ts), under the lock of the week.    *)

reDeriveSharedServings(row, old, new) ==
    IF row.there /\ row.who = {} /\ ~Allocated(row) /\ row.servings = old
    THEN [row EXCEPT !.servings = new] ELSE row

addJoinedPortions(row, u) ==
    IF row.who = {} /\ Allocated(row) /\ row.portions[u] = 0
    THEN LET portions == [row.portions EXCEPT ![u] = 1]
         IN [row EXCEPT !.portions = portions, !.servings = derivedPlannedServings[portions]]
    ELSE row

\* Mutant: only the week takes the new revision.
NotRestamped(row, stamp) == row

(* bumpWeeksRevisionFrom: every meal and portion of the week is stamped anew.  *)
Restamped(row, stamp) ==
    IF row.there THEN [row EXCEPT !.rev = stamp, !.stamps = Stamped(row.portions, stamp)] ELSE row

(* onRosterChanged *)
Join(u) ==
    /\ "roster" \in PlanOps /\ revision < MaxRevision
    /\ u \notin roster
    /\ LET old == Cardinality(roster)
           new == [r \in Recipes |->
                      addJoinedPortions(reDeriveSharedServings(item[r], old, old + 1), u)]
       IN /\ item' = IF new = item THEN item
                     ELSE [r \in Recipes |-> Restamped(new[r], revision + 1)]
          /\ revision' = IF new = item THEN revision ELSE revision + 1
    /\ roster' = roster \union {u}
    /\ UNCHANGED <<view, gate>>

(* What one meal becomes when u goes: participants, then portions.             *)
WithoutParticipant(row, u) ==
    IF u \notin row.who THEN row
    ELSE [row EXCEPT !.who = @ \ {u},
                     !.servings = IF ~Allocated(row) /\ @ = Cardinality(row.who) THEN @ - 1 ELSE @]

removeLeavingPortions(row, u) ==
    LET portions == [row.portions EXCEPT ![u] = 0]
    IN [row EXCEPT !.portions = portions,
                   !.servings = IF row.portions[u] > 0 /\ portions # Nothing
                                THEN derivedPlannedServings[portions] ELSE @]

(* onMemberLeft *)
Leave(u) ==
    /\ "roster" \in PlanOps /\ revision < MaxRevision
    /\ u \in roster /\ roster # {u}
    /\ LET count == Cardinality(roster)
           Without(row) == IF row.who = {u} THEN NoItem
                           ELSE reDeriveSharedServings(
                                   removeLeavingPortions(WithoutParticipant(row, u), u),
                                   count, count - 1)
       IN item' = [r \in Recipes |-> Restamped(Without(item[r]), revision + 1)]
    /\ revision' = revision + 1
    /\ roster' = roster \ {u}
    /\ UNCHANGED <<view, gate>>

-----------------------------------------------------------------------------
PhoneNext(u) ==
    \/ ReadWeek(u) \/ Ask(u) \/ Refused(u) \/ Upsert(u) \/ ApplyWeekPlan(u) \/ Remove(u)
    \/ \E r \in Recipes, m \in Persons, units \in 1..MaxUnits : SetPortion(u, r, m, units)
RosterNext(u) == Join(u) \/ Leave(u)
PlanNext == \E u \in Persons : PhoneNext(u) \/ RosterNext(u)

PlanSpec == PlanInit /\ [][PlanNext]_planVars

-----------------------------------------------------------------------------
(* A stamp names one state of what it stamps: a phone whose stamp of the week, *)
(* of a meal or of a person's portion is the current one holds exactly what is *)
(* stored, whatever was removed, added again or restamped in between.          *)
StampMeansContent ==
    \A u \in Persons :
        /\ view[u].revision = revision => \A r \in Recipes : Meal(view[u].item[r]) = Meal(item[r])
        /\ \A r \in Recipes :
              LET seen == view[u].item[r]
              IN seen.there /\ item[r].there =>
                 /\ seen.rev = item[r].rev => Meal(seen) = Meal(item[r])
                 /\ seen.id = item[r].id =>
                       \A m \in People(seen.portions) \intersect People(item[r].portions) :
                          seen.stamps[m] = item[r].stamps[m]
                             => seen.portions[m] = item[r].portions[m]

(* The portions that people set for each other are never lost to a request    *)
(* that did not know them: when writing a slot or a week changes or removes    *)
(* the portions of a meal, its sender had seen that very meal, or the portions *)
(* move on as they are.                                                       *)
Wrote(u) == gate[u] # {} /\ gate'[u] = {}

NothingLostUnseen ==
    [][\A u \in Persons, r \in Recipes :
          Wrote(u) /\ Allocated(item[r]) /\ item'[r].portions # item[r].portions =>
             \/ Meal(view[u].item[r]) = Meal(item[r])
             \/ \E q \in Recipes : item'[q].portions = item[r].portions]_planVars

(* A meal with a list of eaters names members of the household only, and its   *)
(* portions, if any, are theirs: whatever was read before somebody left.       *)
EatersAreMembers ==
    \A r \in Recipes :
        /\ item[r].who \subseteq roster
        /\ item[r].who # {} /\ Allocated(item[r]) => People(item[r].portions) = item[r].who

(* Both: the week is what its stamps and its eaters say
   (week-write-lock.util.ts, plan-roster.util.ts).                            *)
WeekHolds == StampMeansContent /\ EatersAreMembers

(* The comment of portionsProblem (plan-portions.util.ts): the people of an    *)
(* allocation are the audience of its meal, for a shared meal all members.      *)
SharedPortionsAreEverybodys ==
    \A r \in Recipes :
        item[r].there /\ item[r].who = {} /\ Allocated(item[r])
            => People(item[r].portions) = roster

=============================================================================
