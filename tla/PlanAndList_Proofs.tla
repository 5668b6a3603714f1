------------------------- MODULE PlanAndList_Proofs --------------------------
(***************************************************************************)
(* The shopping list: for any number of writers, readers, requests and     *)
(* products, ListTypeOK; AmountsAddUp whether or not there is a list yet;  *)
(* and ListHolds once the list exists, or where the household stays        *)
(* (shopping-list.service.ts:384-593, 1664-2095).                          *)
(*                                                                         *)
(* The argument is the row of the list as a lock: a rebuild holds it from  *)
(* before it reads its sources until it has written the list, a writer     *)
(* from after its writes until its commit.  So what a rebuild has read     *)
(* still is what the list is made of (ReadIsCurrent), and a request to add *)
(* that may still commit still adds one to the amount it read (AddIsFresh).*)
(*                                                                         *)
(* The week: PlanTypeOK, WeekHolds and NothingLostUnseen for any household,*)
(* recipes, portions and number of steps (weekly-plans.service.ts,         *)
(* plan-portions.util.ts, plan-roster.util.ts).                            *)
(*                                                                         *)
(* The argument is that every writer leaves each meal as it was, takes it  *)
(* away, or stamps it with a revision no phone has seen yet (Follows): a   *)
(* meal, or a portion, that still has the stamp a phone holds has not      *)
(* changed since (Agrees), whatever was removed and added in between.      *)
(***************************************************************************)
EXTENDS ShoppingList, WeekPlan, FiniteSetTheorems, TLAPS

-----------------------------------------------------------------------------
(* The shopping list                                                       *)

Sums == [Products -> Nat]

WriterRecords ==
    [pc : {"idle", "wrote", "marked"}, kind : {"plan", "roster", "add", "set"},
     p : Products \union {NoName}, m : Mutations \union {NoName},
     amount : Nat, grows : BOOLEAN, rival : BOOLEAN]

BuildRecords ==
    [pc : {"idle", "lock", "read", "keep", "write"}, amounts : Sums,
     checked : SUBSET Products]

Lists == [there : BOOLEAN, stale : BOOLEAN, amounts : Sums,
          checked : SUBSET Products]

Types ==
    /\ plan \in Sums /\ manual \in Sums
    /\ list \in Lists
    /\ writer \in [Writers -> WriterRecords]
    /\ build \in [Builds -> BuildRecords]

(* Whatever changes what the list is made of finds its row, or creates it.     *)
AllMarked == FirstList \/ "roster" \notin ListOps

(* The row of the list is held by one writer that has marked it, by one        *)
(* rebuild, or by nobody.  Of the writers that have marked it only a change of  *)
(* the household may hold no row, because there was none.                      *)
RowIsLock ==
    /\ FirstList => list.there
    /\ \A w \in Writers : writer[w].kind = "roster" => "roster" \in ListOps
    /\ \A w \in Writers :
          /\ holder = w => writer[w].pc = "marked"
          /\ writer[w].pc = "marked" => holder = w \/ (~AllMarked /\ ~Serializable(w))
    /\ \A b \in Builds : build[b].pc \in {"read", "keep", "write"} <=> holder = b

ReadIsCurrent ==
    AllMarked => \A b \in Builds : build[b].pc \in {"keep", "write"} => build[b].amounts = Totals

MayCommit(r) == r.kind = "add" /\ (r.pc = "marked" \/ (r.pc = "wrote" /\ ~r.rival))

AddIsFresh ==
    \A w \in Writers : MayCommit(writer[w]) =>
        writer[w].amount = manual[writer[w].p] + 1 /\ writer[w].m \notin done

ListInv ==
    /\ Types /\ RowIsLock /\ ReadIsCurrent /\ AddIsFresh /\ AmountsAddUp
    /\ AllMarked => FreshIsCurrent

LEMMA TotalsType ==
    ASSUME plan \in Sums, manual \in Sums PROVE Totals \in Sums
BY DEF Totals, Sums

LEMMA StartsRight == ASSUME ListInit PROVE ListInv
<1> USE ListAssumption
<1>1. FirstPlan \in Sums /\ NoAmounts \in Sums
  BY DEF Sums, NoAmounts
<1>2. IdleWriter \in WriterRecords /\ NoBuild \in BuildRecords
  BY <1>1 DEF IdleWriter, NoBuild, WriterRecords, BuildRecords, NoName
<1>3. /\ list = [there |-> FirstList, stale |-> FALSE, checked |-> {},
                  amounts |-> IF FirstList THEN FirstPlan ELSE NoAmounts]
  BY DEF ListInit
<1>4. Types
  BY <1>1, <1>2, <1>3 DEF Types, ListInit, Lists
<1>5. RowIsLock
  BY <1>3 DEF RowIsLock, ListInit, IdleWriter, NoBuild, Unlocked
<1>6. ReadIsCurrent /\ AddIsFresh
  BY DEF ReadIsCurrent, AddIsFresh, MayCommit, ListInit, IdleWriter, NoBuild
<1>7. Totals = FirstPlan
  BY <1>1 DEF Totals, ListInit, NoAmounts, Sums
<1>8. AmountsAddUp /\ (AllMarked => FreshIsCurrent)
  BY <1>3, <1>7 DEF FreshIsCurrent, AmountsAddUp, ListInit
<1> QED BY <1>4, <1>5, <1>6, <1>8 DEF ListInv

-----------------------------------------------------------------------------
(* Steps of a writer.                                                          *)

(* A transaction begins: it holds no row, and an addition has just read.       *)
LEMMA BeginKeeps ==
    ASSUME ListInv, NEW w \in Writers, writer[w].pc = "idle",
           NEW r \in WriterRecords, r.pc = "wrote",
           r.kind = "add" => r.amount = manual[r.p] + 1 /\ r.m \notin done,
           r.kind = "roster" => "roster" \in ListOps,
           writer' = [writer EXCEPT ![w] = r],
           UNCHANGED <<plan, manual, done, list, build, holder, owed>>
    PROVE  ListInv'
<1>3. writer \in [Writers -> WriterRecords]
  BY DEF ListInv, Types
<1>4. writer'[w] = r /\ \A v \in Writers \ {w} : writer'[v] = writer[v]
  BY <1>3
<1>5. Types'
  BY <1>3 DEF ListInv, Types
<1>6. RowIsLock'
  BY <1>4 DEF ListInv, RowIsLock, Serializable
<1>7. ReadIsCurrent' /\ AmountsAddUp' /\ (AllMarked => FreshIsCurrent')
  BY DEF ListInv, ReadIsCurrent, FreshIsCurrent, AmountsAddUp, Totals
<1>8. AddIsFresh'
  BY <1>4 DEF ListInv, AddIsFresh, MayCommit
<1> QED BY <1>5, <1>6, <1>7, <1>8 DEF ListInv

LEMMA MarkStaleKeeps ==
    ASSUME ListInv, NEW w \in Writers, MarkStale(w) PROVE ListInv'
<1> USE ListAssumption DEF ListInv
<1>1. /\ writer[w].pc = "wrote"
      /\ \/ holder = Unlocked /\ holder' = w
         \/ holder' = holder /\ writer[w].kind = "roster" /\ ~list.there
      /\ writer[w].kind = "add" => ~writer[w].rival
      /\ writer' = [writer EXCEPT ![w].pc = "marked"]
      /\ UNCHANGED <<plan, manual, done, list, build, owed>>
  BY DEF MarkStale, Serializable
<1>2. writer \in [Writers -> WriterRecords]
  BY DEF Types
<1>3. writer'[w] = [writer[w] EXCEPT !.pc = "marked"]
  BY <1>1, <1>2
<1>4. \A v \in Writers \ {w} : writer'[v] = writer[v]
  BY <1>1, <1>2
<1>5. writer'[w] \in WriterRecords /\ writer'[w].pc = "marked"
      /\ writer'[w].kind = writer[w].kind /\ writer'[w].p = writer[w].p
      /\ writer'[w].m = writer[w].m /\ writer'[w].amount = writer[w].amount
  BY <1>2, <1>3 DEF WriterRecords
<1>6. Types'
  <2>1. writer' \in [Writers -> WriterRecords]
    BY <1>1, <1>2, <1>4, <1>5
  <2> QED BY <1>1, <2>1 DEF Types
<1>7. RowIsLock'
  <2>1. \A v \in Writers : writer'[v].kind = writer[v].kind
    BY <1>4, <1>5
  <2>2. holder' = w \/ (~AllMarked /\ writer'[w].kind = "roster")
    <3>1. /\ FirstList => list.there
          /\ writer[w].kind = "roster" => "roster" \in ListOps
      BY DEF RowIsLock
    <3>2. CASE writer[w].kind = "roster" /\ ~list.there
      BY <1>5, <3>1, <3>2 DEF AllMarked
    <3> QED BY <1>1, <3>2
  <2>3. \A v \in Writers : /\ holder' = v => writer'[v].pc = "marked"
                           /\ writer'[v].pc = "marked" =>
                                 holder' = v \/ (~AllMarked /\ ~Serializable(v)')
    BY <1>1, <1>4, <1>5, <2>1, <2>2 DEF RowIsLock, Unlocked, Serializable
  <2>4. \A b \in Builds : build'[b].pc \in {"read", "keep", "write"} <=> holder' = b
    BY <1>1 DEF RowIsLock, Unlocked
  <2>5. /\ FirstList => list'.there
        /\ \A v \in Writers : writer'[v].kind = "roster" => "roster" \in ListOps
    BY <1>1, <2>1 DEF RowIsLock
  <2> QED BY <2>3, <2>4, <2>5 DEF RowIsLock
<1>8. ReadIsCurrent' /\ AmountsAddUp' /\ (AllMarked => FreshIsCurrent')
  BY <1>1 DEF ReadIsCurrent, FreshIsCurrent, AmountsAddUp, Totals
<1>9. AddIsFresh'
  BY <1>1, <1>4, <1>5 DEF AddIsFresh, MayCommit
<1> QED BY <1>6, <1>7, <1>8, <1>9

LEMMA OutdatedLemma ==
    ASSUME NEW writers \in [Writers -> WriterRecords], NEW by
    PROVE  /\ Outdated(writers, by) \in [Writers -> WriterRecords]
           /\ \A v \in Writers :
                LET o == Outdated(writers, by)[v] IN
                /\ o.pc = writers[v].pc /\ o.kind = writers[v].kind
                /\ o.p = writers[v].p /\ o.m = writers[v].m
                /\ o.amount = writers[v].amount
                /\ o.pc = "wrote" /\ v # by => o.rival
                /\ writers[v].rival => o.rival
<1>1. \A v \in Writers : [writers[v] EXCEPT !.rival = TRUE] \in WriterRecords
  BY DEF WriterRecords
<1>2. Outdated(writers, by) \in [Writers -> WriterRecords]
  BY <1>1 DEF Outdated
<1>3. ASSUME NEW v \in Writers
      PROVE LET o == Outdated(writers, by)[v] IN
                /\ o.pc = writers[v].pc /\ o.kind = writers[v].kind
                /\ o.p = writers[v].p /\ o.m = writers[v].m
                /\ o.amount = writers[v].amount
                /\ o.pc = "wrote" /\ v # by => o.rival
                /\ writers[v].rival => o.rival
  <2>1. writers[v] \in WriterRecords
    OBVIOUS
  <2>2. CASE v # by /\ writers[v].pc = "wrote"
    <3>1. Outdated(writers, by)[v] = [writers[v] EXCEPT !.rival = TRUE]
      BY <2>2 DEF Outdated
    <3> QED BY <2>1, <3>1 DEF WriterRecords
  <2>3. CASE ~(v # by /\ writers[v].pc = "wrote")
    <3>1. Outdated(writers, by)[v] = writers[v]
      BY <2>3 DEF Outdated
    <3> QED BY <2>3, <3>1
  <2> QED BY <2>2, <2>3
<1> QED BY <1>2, <1>3

LEMMA CommitKeeps ==
    ASSUME ListInv, NEW w \in Writers, CommitWrite(w) PROVE ListInv'
<1> USE ListAssumption DEF ListInv
<1> DEFINE r == writer[w]
           rest == [writer EXCEPT ![w] = IdleWriter]
           marked == [list EXCEPT !.there = TRUE, !.stale = TRUE,
                                  !.checked = IF r.grows THEN @ \ {r.p} ELSE @]
<1>1. /\ r.pc = "marked" /\ (holder = w \/ (~AllMarked /\ ~Serializable(w)))
      /\ Serializable(w) <=> r.kind \in {"add", "set"}
  BY DEF CommitWrite, RowIsLock, Serializable
<1>2. /\ plan' = IF Serializable(w) THEN plan ELSE [plan EXCEPT ![r.p] = r.amount]
      /\ manual' = IF Serializable(w) THEN [manual EXCEPT ![r.p] = r.amount] ELSE manual
      /\ done' = IF r.kind = "add" THEN done \union {r.m} ELSE done
      /\ list' = IF holder = w THEN marked ELSE list
      /\ holder' = IF holder = w THEN Unlocked ELSE holder
      /\ writer' = Outdated(rest, w) /\ build' = build
  BY DEF CommitWrite
<1>3. r \in WriterRecords /\ IdleWriter \in WriterRecords
  BY DEF Types, IdleWriter, WriterRecords, NoName
<1>4. rest \in [Writers -> WriterRecords] /\ rest[w] = IdleWriter
      /\ \A v \in Writers \ {w} : rest[v] = writer[v]
  BY <1>3 DEF Types
<1> HIDE DEF rest
<1>5. /\ writer' \in [Writers -> WriterRecords]
      /\ \A v \in Writers :
           /\ writer'[v].pc = rest[v].pc /\ writer'[v].kind = rest[v].kind
           /\ writer'[v].p = rest[v].p /\ writer'[v].m = rest[v].m
           /\ writer'[v].amount = rest[v].amount
           /\ rest[v].rival => writer'[v].rival
      /\ \A v \in Writers : writer'[v].pc = "wrote" /\ v # w => writer'[v].rival
  BY <1>2, <1>4, OutdatedLemma
<1>7. list' \in Lists /\ (AllMarked => list'.there /\ list'.stale)
  <2>1. list \in Lists
    BY DEF Types
  <2>2. marked \in Lists /\ marked.there /\ marked.stale
    BY <2>1 DEF Lists
  <2> HIDE DEF marked
  <2> QED BY <1>1, <1>2, <2>1, <2>2
<1>8. Types'
  <2>1. r.amount \in Nat
    BY <1>3 DEF WriterRecords
  <2>2. plan' \in Sums /\ manual' \in Sums
    BY <1>2, <2>1 DEF Types, Sums
  <2> QED BY <1>2, <1>5, <1>7, <2>2 DEF Types
<1>9. \A b \in Builds : holder = w => build[b].pc \notin {"read", "keep", "write"}
  BY DEF RowIsLock
<1>10. RowIsLock' /\ ReadIsCurrent'
  <2>1. \A v \in Writers : /\ holder' = v => writer'[v].pc = "marked"
                           /\ writer'[v].pc = "marked" =>
                                 holder' = v \/ (~AllMarked /\ ~Serializable(v)')
    <3> SUFFICES ASSUME NEW v \in Writers
                 PROVE  /\ holder' = v => writer'[v].pc = "marked"
                        /\ writer'[v].pc = "marked" =>
                              holder' = v \/ (~AllMarked /\ ~Serializable(v)')
      OBVIOUS
    <3>1. CASE v = w
      BY <1>2, <1>4, <1>5, <3>1 DEF IdleWriter, Unlocked
    <3>2. CASE v # w
      <4>1. writer'[v].pc = writer[v].pc /\ writer'[v].kind = writer[v].kind
        BY <1>4, <1>5, <3>2
      <4>2. CASE holder = w
        BY <1>2, <3>2, <4>1, <4>2 DEF RowIsLock, Unlocked, Serializable
      <4>3. CASE holder # w
        BY <1>2, <3>2, <4>1, <4>3 DEF RowIsLock, Serializable
      <4> QED BY <4>2, <4>3
    <3> QED BY <3>1, <3>2
  <2>2. \A b \in Builds : build'[b].pc \in {"read", "keep", "write"} <=> holder' = b
    BY <1>2, <1>9 DEF RowIsLock, Unlocked
  <2>3. ReadIsCurrent'
    BY <1>1, <1>2, <1>9 DEF ReadIsCurrent
  <2>4. /\ FirstList => list'.there
        /\ \A v \in Writers : writer'[v].kind = "roster" => "roster" \in ListOps
    BY <1>4, <1>5, <1>7 DEF RowIsLock, AllMarked, IdleWriter
  <2> QED BY <2>1, <2>2, <2>3, <2>4 DEF RowIsLock
<1>11. AddIsFresh'
  <2> SUFFICES ASSUME NEW v \in Writers, MayCommit(writer[v])'
               PROVE  writer'[v].amount = manual'[writer'[v].p] + 1 /\ writer'[v].m \notin done'
    BY DEF AddIsFresh
  <2>1. v # w /\ writer'[v].pc = "marked" /\ writer'[v].kind = "add"
    BY <1>4, <1>5 DEF MayCommit, IdleWriter
  <2>2. /\ writer[v].pc = "marked" /\ writer[v].kind = "add"
        /\ writer'[v].amount = writer[v].amount /\ writer'[v].p = writer[v].p
        /\ writer'[v].m = writer[v].m
    BY <1>4, <1>5, <2>1
  <2>3. holder = v
    BY <2>2 DEF RowIsLock, Serializable
  <2>4. ~Serializable(w)
    BY <1>1, <2>1, <2>3
  <2>5. manual' = manual /\ done' = done
    BY <1>1, <1>2, <2>4
  <2> QED BY <2>2, <2>5 DEF AddIsFresh, MayCommit
<1>12. AllMarked => FreshIsCurrent'
  BY <1>7 DEF FreshIsCurrent
<1>13. manual' = owed'
  <2>1. manual = owed
    BY DEF AmountsAddUp
  <2>2. CASE r.kind = "add"
    <3>1. r.amount = manual[r.p] + 1 /\ r.m \notin done
      BY <1>1, <2>2 DEF AddIsFresh, MayCommit
    <3>2. owed' = [owed EXCEPT ![r.p] = @ + 1]
      BY <2>2, <3>1 DEF CommitWrite
    <3> QED BY <1>2, <2>1, <2>2, <3>1, <3>2 DEF Serializable
  <2>3. CASE r.kind = "set"
    <3>1. owed' = [owed EXCEPT ![r.p] = r.amount]
      BY <2>3 DEF CommitWrite
    <3> QED BY <1>2, <2>1, <2>3, <3>1 DEF Serializable
  <2>4. CASE r.kind \notin {"add", "set"}
    <3>1. owed' = owed
      BY <2>4 DEF CommitWrite
    <3> QED BY <1>2, <2>1, <2>4, <3>1 DEF Serializable
  <2> QED BY <2>2, <2>3, <2>4
<1> QED BY <1>8, <1>10, <1>11, <1>12, <1>13 DEF AmountsAddUp

LEMMA GiveUpKeeps ==
    ASSUME ListInv, NEW w \in Writers, GiveUpWrite(w) PROVE ListInv'
<1> USE ListAssumption DEF ListInv
<1>1. /\ writer' = [writer EXCEPT ![w] = IdleWriter]
      /\ holder' = IF holder = w THEN Unlocked ELSE holder
      /\ UNCHANGED <<plan, manual, done, list, build, owed>>
  BY DEF GiveUpWrite
<1>2. IdleWriter \in WriterRecords
  BY DEF IdleWriter, WriterRecords, NoName
<1>3. writer'[w] = IdleWriter /\ \A v \in Writers \ {w} : writer'[v] = writer[v]
  BY <1>1 DEF Types
<1>4. Types'
  BY <1>1, <1>2 DEF Types
<1>5. RowIsLock'
  BY <1>1, <1>3 DEF RowIsLock, IdleWriter, Unlocked, Serializable
<1>6. ReadIsCurrent' /\ AmountsAddUp' /\ (AllMarked => FreshIsCurrent')
  BY <1>1 DEF ReadIsCurrent, FreshIsCurrent, AmountsAddUp, Totals
<1>7. AddIsFresh'
  BY <1>1, <1>3 DEF AddIsFresh, MayCommit, IdleWriter
<1> QED BY <1>4, <1>5, <1>6, <1>7

-----------------------------------------------------------------------------
(* Steps of a reader.                                                          *)

(* A step of a rebuild that touches neither the list nor its sources.          *)
LEMMA BuildMovesOn ==
    ASSUME ListInv, NEW b \in Builds, NEW r \in BuildRecords,
           build' = [build EXCEPT ![b] = r],
           UNCHANGED <<plan, manual, done, list, writer, owed>>,
           \/ holder' = holder /\ (holder = b <=> r.pc \in {"read", "keep", "write"})
           \/ /\ holder \in {Unlocked, b} /\ holder' \in {Unlocked, b}
              /\ holder' = b <=> r.pc \in {"read", "keep", "write"},
           AllMarked /\ r.pc \in {"keep", "write"} => r.amounts = Totals
    PROVE  ListInv'
<1> USE ListAssumption DEF ListInv
<1>1. build'[b] = r /\ \A d \in Builds \ {b} : build'[d] = build[d]
  BY DEF Types
<1>2. Types'
  BY DEF Types
<1>3. RowIsLock'
  BY <1>1 DEF RowIsLock, Unlocked, Serializable
<1>4. Totals' = Totals
  BY DEF Totals
<1>5. ReadIsCurrent'
  BY <1>1, <1>4 DEF ReadIsCurrent
<1>6. AmountsAddUp' /\ (AllMarked => FreshIsCurrent') /\ AddIsFresh'
  BY <1>4 DEF FreshIsCurrent, AmountsAddUp, AddIsFresh, MayCommit
<1> QED BY <1>2, <1>3, <1>5, <1>6

LEMMA ReaderKeeps ==
    ASSUME ListInv, NEW b \in Builds,
           Look(b) \/ LockList(b) \/ ReadSources(b) \/ ReadChecks(b) \/ BuildFails(b)
    PROVE  ListInv'
<1> USE ListAssumption
<1> DEFINE r == build[b]
<1>1. r \in BuildRecords /\ NoBuild \in BuildRecords /\ Unlocked # b
  BY DEF ListInv, Types, NoBuild, BuildRecords, NoAmounts, Sums, Unlocked
<1>2. r.pc \in {"read", "keep", "write"} <=> holder = b
  BY DEF ListInv, RowIsLock
<1>3. AllMarked /\ r.pc \in {"keep", "write"} => r.amounts = Totals
  BY DEF ListInv, ReadIsCurrent
<1>4. CASE Look(b)
  <2>1. [r EXCEPT !.pc = "lock"] \in BuildRecords /\ [r EXCEPT !.pc = "lock"].pc = "lock"
    BY <1>1 DEF BuildRecords
  <2>2. r.pc = "idle" /\ build' = [build EXCEPT ![b] = [r EXCEPT !.pc = "lock"]]
    BY <1>4 DEF Look, ListInv, Types
  <2> QED BY <1>2, <1>4, <2>1, <2>2, BuildMovesOn DEF Look
<1>5. CASE LockList(b)
  <2>1. [r EXCEPT !.pc = "read"] \in BuildRecords /\ [r EXCEPT !.pc = "read"].pc = "read"
    BY <1>1 DEF BuildRecords
  <2>2. build' = [build EXCEPT ![b] = [r EXCEPT !.pc = "read"]]
    BY <1>5 DEF LockList, ListInv, Types
  <2> QED BY <1>5, <2>1, <2>2, BuildMovesOn DEF LockList, ListInv
<1>6. CASE ReadSources(b)
  <2> DEFINE s == [r EXCEPT !.pc = "keep", !.amounts = Totals]
  <2>1. Totals \in Sums
    BY TotalsType DEF ListInv, Types
  <2>2. s \in BuildRecords /\ s.pc = "keep" /\ s.amounts = Totals
    BY <1>1, <2>1 DEF BuildRecords
  <2>3. build' = [build EXCEPT ![b] = s] /\ r.pc = "read"
    BY <1>6 DEF ReadSources, ListInv, Types
  <2> HIDE DEF s
  <2> QED BY <1>2, <1>6, <2>2, <2>3, BuildMovesOn DEF ReadSources
<1>7. CASE ReadChecks(b)
  <2> DEFINE s == [r EXCEPT !.pc = "write", !.checked = StillChecked(r.amounts)]
  <2>1. StillChecked(r.amounts) \in SUBSET Products
    BY DEF StillChecked, OnList
  <2>2. s \in BuildRecords /\ s.pc = "write" /\ s.amounts = r.amounts
    BY <1>1, <2>1 DEF BuildRecords
  <2>3. build' = [build EXCEPT ![b] = s] /\ r.pc = "keep"
    BY <1>7 DEF ReadChecks, ListInv, Types
  <2> HIDE DEF s
  <2> QED BY <1>2, <1>3, <1>7, <2>2, <2>3, BuildMovesOn DEF ReadChecks
<1>8. CASE BuildFails(b)
  <2>1. build' = [build EXCEPT ![b] = NoBuild] /\ NoBuild.pc = "idle"
    BY <1>8 DEF BuildFails, NoBuild
  <2>2. CASE holder = b
    BY <1>1, <1>8, <2>1, <2>2, BuildMovesOn DEF BuildFails
  <2>3. CASE holder # b
    BY <1>1, <1>8, <2>1, <2>3, BuildMovesOn DEF BuildFails
  <2> QED BY <2>2, <2>3
<1> QED BY <1>4, <1>5, <1>6, <1>7, <1>8

LEMMA FinishKeeps ==
    ASSUME ListInv, NEW b \in Builds, FinishBuild(b) PROVE ListInv'
<1> USE ListAssumption DEF ListInv
<1>1. /\ list' = [there |-> TRUE, stale |-> FALSE, amounts |-> build[b].amounts,
                  checked |-> build[b].checked]
      /\ holder' = Unlocked /\ build' = [build EXCEPT ![b] = NoBuild]
      /\ writer' = Outdated(writer, b)
      /\ UNCHANGED <<plan, manual, done, owed>>
  BY DEF FinishBuild
<1>2. build[b].pc = "write" /\ holder = b /\ (AllMarked => build[b].amounts = Totals)
  BY DEF FinishBuild, RowIsLock, ReadIsCurrent
<1>3. /\ writer' \in [Writers -> WriterRecords]
      /\ \A v \in Writers :
           /\ writer'[v].pc = writer[v].pc /\ writer'[v].kind = writer[v].kind
           /\ writer'[v].p = writer[v].p /\ writer'[v].m = writer[v].m
           /\ writer'[v].amount = writer[v].amount
           /\ writer[v].rival => writer'[v].rival
  BY <1>1, OutdatedLemma DEF Types
<1>4. build[b] \in BuildRecords /\ NoBuild \in BuildRecords
  BY DEF Types, NoBuild, BuildRecords, NoAmounts, Sums
<1>5. build'[b] = NoBuild /\ \A d \in Builds \ {b} : build'[d] = build[d]
  BY <1>1 DEF Types
<1>6. Types'
  <2>1. list' \in Lists
    BY <1>1, <1>4 DEF BuildRecords, Lists
  <2> QED BY <1>1, <1>3, <1>4, <2>1 DEF Types
<1>7. RowIsLock'
  <2>1. \A w \in Writers : writer'[w].pc = "marked" => ~AllMarked /\ ~Serializable(w)'
    BY <1>2, <1>3 DEF RowIsLock, Serializable
  <2>2. \A d \in Builds : build'[d].pc \notin {"read", "keep", "write"}
    BY <1>2, <1>5 DEF RowIsLock, NoBuild
  <2>3. \A w \in Writers : writer'[w].kind = "roster" => "roster" \in ListOps
    BY <1>3 DEF RowIsLock
  <2> QED BY <1>1, <2>1, <2>2, <2>3 DEF RowIsLock, Unlocked
<1>8. Totals' = Totals
  BY <1>1 DEF Totals
<1>9. ReadIsCurrent'
  BY <1>5, <1>8 DEF ReadIsCurrent, NoBuild
<1>10. AmountsAddUp' /\ (AllMarked => FreshIsCurrent')
  BY <1>1, <1>2, <1>8 DEF FreshIsCurrent, AmountsAddUp
<1>11. AddIsFresh'
  BY <1>1, <1>3 DEF AddIsFresh, MayCommit
<1> QED BY <1>6, <1>7, <1>9, <1>10, <1>11

LEMMA TickKeeps ==
    ASSUME ListInv, NEW p \in Products, Tick(p) PROVE ListInv'
<1> USE DEF ListInv
<1> DEFINE checked == IF p \in list.checked THEN list.checked \ {p}
                      ELSE list.checked \union {p}
<1>1. list' = [list EXCEPT !.checked = checked]
      /\ UNCHANGED <<plan, manual, done, writer, build, holder, owed>>
  BY DEF Tick
<1>2. list \in Lists
  BY DEF Types
<1>3. checked \in SUBSET Products
  BY <1>2 DEF Lists
<1> HIDE DEF checked
<1>4. list' \in Lists /\ list'.there = list.there /\ list'.stale = list.stale
      /\ list'.amounts = list.amounts
  BY <1>1, <1>2, <1>3 DEF Lists
<1>5. Types' /\ RowIsLock'
  BY <1>1, <1>4 DEF Types, RowIsLock, Serializable
<1>6. ReadIsCurrent' /\ AddIsFresh' /\ AmountsAddUp' /\ (AllMarked => FreshIsCurrent')
  BY <1>1, <1>4 DEF ReadIsCurrent, AddIsFresh, MayCommit, FreshIsCurrent, AmountsAddUp, Totals
<1> QED BY <1>5, <1>6

-----------------------------------------------------------------------------

LEMMA NextKeeps == ASSUME ListInv, [ListNext]_listVars PROVE ListInv'
<1> USE ListAssumption
<1>1. ASSUME NEW w \in Writers, WritePlan(w) PROVE ListInv'
  <2>1. PICK kind \in {"plan", "roster"} \intersect ListOps, p \in Products, n \in 0..MaxAmount :
          Writes(w, kind, p, NoName, n, FALSE)
    BY <1>1 DEF WritePlan
  <2> DEFINE r == [pc |-> "wrote", kind |-> kind, p |-> p, m |-> NoName, amount |-> n,
                   grows |-> FALSE, rival |-> FALSE]
  <2>2. r \in WriterRecords /\ r.pc = "wrote" /\ r.kind # "add" /\ r.kind \in ListOps
    BY DEF WriterRecords
  <2>3. writer[w].pc = "idle" /\ writer' = [writer EXCEPT ![w] = r]
        /\ UNCHANGED <<plan, manual, done, list, build, holder, owed>>
    BY <1>1, <2>1 DEF WritePlan, Writes
  <2> QED BY <2>2, <2>3, BeginKeeps
<1>2. ASSUME NEW w \in Writers, AddProduct(w) PROVE ListInv'
  <2>1. PICK m \in Mutations \ done :
          Writes(w, "add", ProductOf[m], m, manual[ProductOf[m]] + 1, TRUE)
    BY <1>2 DEF AddProduct
  <2> DEFINE p == ProductOf[m]
             r == [pc |-> "wrote", kind |-> "add", p |-> p, m |-> m, amount |-> manual[p] + 1,
                   grows |-> TRUE, rival |-> FALSE]
  <2>2. p \in Products /\ manual[p] + 1 \in Nat
    BY DEF ListInv, Types, Sums
  <2>3. /\ r \in WriterRecords /\ r.pc = "wrote"
        /\ r.amount = manual[r.p] + 1 /\ r.m \notin done /\ r.kind # "roster"
    BY <2>2 DEF WriterRecords
  <2>4. writer[w].pc = "idle" /\ writer' = [writer EXCEPT ![w] = r]
        /\ UNCHANGED <<plan, manual, done, list, build, holder, owed>>
    BY <1>2, <2>1 DEF AddProduct, Writes
  <2> QED BY <2>3, <2>4, BeginKeeps
<1>3. ASSUME NEW w \in Writers, SetAmount(w) PROVE ListInv'
  <2>1. PICK p \in Products, n \in 1..MaxAmount : Writes(w, "set", p, NoName, n, n > manual[p])
    BY <1>3 DEF SetAmount
  <2> DEFINE r == [pc |-> "wrote", kind |-> "set", p |-> p, m |-> NoName, amount |-> n,
                   grows |-> n > manual[p], rival |-> FALSE]
  <2>2. r \in WriterRecords /\ r.pc = "wrote" /\ r.kind \notin {"add", "roster"}
    BY DEF WriterRecords
  <2>3. writer[w].pc = "idle" /\ writer' = [writer EXCEPT ![w] = r]
        /\ UNCHANGED <<plan, manual, done, list, build, holder, owed>>
    BY <1>3, <2>1 DEF SetAmount, Writes
  <2> HIDE DEF r
  <2> QED BY <2>2, <2>3, BeginKeeps
<1>4. CASE UNCHANGED listVars
  <2>1. Types' /\ RowIsLock'
    BY <1>4 DEF listVars, ListInv, Types, RowIsLock, Serializable
  <2>2. ReadIsCurrent' /\ AddIsFresh'
    BY <1>4 DEF listVars, ListInv, ReadIsCurrent, AddIsFresh, MayCommit, Totals
  <2>3. AmountsAddUp' /\ (AllMarked => FreshIsCurrent')
    BY <1>4 DEF listVars, ListInv, FreshIsCurrent, AmountsAddUp, Totals
  <2> QED BY <2>1, <2>2, <2>3 DEF ListInv
<1> QED BY <1>1, <1>2, <1>3, <1>4, MarkStaleKeeps, CommitKeeps, GiveUpKeeps, ReaderKeeps,
           FinishKeeps, TickKeeps DEF ListNext

LEMMA ListInvariant == ListSpec => []ListInv
BY StartsRight, NextKeeps, PTL DEF ListSpec

(* A list that says it is up to date is the sum of its sources, and every       *)
(* request to add counts once, for any number of writers and readers, if the     *)
(* list exists or the household does not change meanwhile: the one writer       *)
(* that marks only rows it sees (shopping-list.service.ts:384-593, 1664-2095;   *)
(* plan-roster.util.ts:52-56).                                                  *)
THEOREM ListIsRight ==
    ASSUME FirstList \/ "roster" \notin ListOps PROVE ListSpec => []ListHolds
<1>1. ListInv => ListHolds
  BY DEF ListInv, ListHolds, AllMarked
<1> QED BY <1>1, ListInvariant, PTL

(* Every request to add counts once, also while the list does not exist yet    *)
(* (writeShoppingProducts, shopping-list.service.ts:1664-2095).                *)
THEOREM RequestsCountOnce == ListSpec => []AmountsAddUp
<1>1. ListInv => AmountsAddUp
  BY DEF ListInv
<1> QED BY <1>1, ListInvariant, PTL

-----------------------------------------------------------------------------
(* The shopping list: its types, within the bounds of the model            *)

ListMore ==
    /\ plan \in Amounts /\ manual \in Amounts
    /\ done \subseteq Mutations /\ ticks \subseteq Products
    /\ list.checked \subseteq OnList(list.amounts)
    /\ holder \in Writers \union Builds \union {Unlocked}
    /\ \A w \in Writers : /\ writer[w].amount \in 0..MaxAmount
                          /\ writer[w].kind = "add" => writer[w].m \in Mutations
    /\ \A b \in Builds : build[b].pc = "write" => build[b].checked \subseteq OnList(build[b].amounts)

LEMMA ListMoreInit == ListInit => ListMore
<1> SUFFICES ASSUME ListInit PROVE ListMore
  OBVIOUS
<1> USE ListAssumption
<1>1. NoAmounts \in Amounts /\ FirstPlan \in Amounts
  BY DEF Amounts, NoAmounts
<1>2. /\ plan \in Amounts /\ manual \in Amounts /\ done = {} /\ ticks = {}
      /\ list.checked = {} /\ holder = Unlocked
  BY <1>1 DEF ListInit
<1>3. \A w \in Writers : writer[w].amount = 0 /\ writer[w].kind = "plan"
  BY DEF ListInit, IdleWriter
<1>4. \A b \in Builds : build[b].pc = "idle"
  BY DEF ListInit, NoBuild
<1> QED BY <1>2, <1>3, <1>4 DEF ListMore

(* A writer goes on; its sources, the list and the rebuilds stay.              *)
LEMMA WriterFits ==
    ASSUME ListMore, ListInv, NEW w \in Writers, NEW r,
           writer' = [writer EXCEPT ![w] = r],
           r.amount \in 0..MaxAmount, r.kind = "add" => r.m \in Mutations,
           holder' \in {holder, w, Unlocked},
           UNCHANGED <<plan, manual, done, list, ticks, build>>
    PROVE  ListMore'
<1>1. \A v \in Writers : writer'[v] = r \/ writer'[v] = writer[v]
  BY DEF ListInv, Types
<1> QED BY <1>1 DEF ListMore

LEMMA ListMoreKept == ListMore /\ ListInv /\ [ListNext]_listVars => ListMore'
<1> SUFFICES ASSUME ListMore, ListInv, [ListNext]_listVars PROVE ListMore'
  OBVIOUS
<1> USE ListAssumption
<1>1. ASSUME NEW w \in Writers, WritePlan(w) \/ AddProduct(w) \/ SetAmount(w) PROVE ListMore'
  <2>1. PICK kind, p, m, amount, grows :
          /\ Writes(w, kind, p, m, amount, grows)
          /\ amount \in 0..MaxAmount /\ (kind = "add" => m \in Mutations)
    <3>1. CASE WritePlan(w)
      <4>1. PICK kind \in {"plan", "roster"} \intersect ListOps, p \in Products, n \in 0..MaxAmount :
              Writes(w, kind, p, NoName, n, FALSE)
        BY <3>1 DEF WritePlan
      <4> QED BY <4>1
    <3>2. CASE AddProduct(w)
      <4>1. PICK m \in Mutations \ done :
              /\ manual[ProductOf[m]] < MaxAmount
              /\ Writes(w, "add", ProductOf[m], m, manual[ProductOf[m]] + 1, TRUE)
        BY <3>2 DEF AddProduct
      <4>2. manual[ProductOf[m]] \in 0..MaxAmount
        BY DEF ListMore, Amounts
      <4>3. manual[ProductOf[m]] + 1 \in 0..MaxAmount
        BY <4>1, <4>2
      <4> QED BY <4>1, <4>3
    <3>3. CASE SetAmount(w)
      <4>1. PICK p \in Products, n \in 1..MaxAmount : Writes(w, "set", p, NoName, n, n > manual[p])
        BY <3>3 DEF SetAmount
      <4> QED BY <4>1
    <3> QED BY <1>1, <3>1, <3>2, <3>3
  <2> DEFINE r == [pc |-> "wrote", kind |-> kind, p |-> p, m |-> m, amount |-> amount,
                   grows |-> grows, rival |-> FALSE]
  <2>2. /\ r.amount = amount /\ r.kind = kind /\ r.m = m
        /\ writer' = [writer EXCEPT ![w] = r]
        /\ UNCHANGED <<plan, manual, done, list, ticks, build, holder>>
    BY <2>1 DEF Writes
  <2> HIDE DEF r
  <2> QED BY <2>1, <2>2, WriterFits
<1>2. ASSUME NEW w \in Writers, MarkStale(w) PROVE ListMore'
  <2> DEFINE r == [writer[w] EXCEPT !.pc = "marked"]
  <2>1. writer[w] \in WriterRecords
    BY DEF ListInv, Types
  <2>2. r.amount = writer[w].amount /\ r.kind = writer[w].kind /\ r.m = writer[w].m
    BY <2>1 DEF WriterRecords
  <2>3. writer' = [writer EXCEPT ![w] = r]
    BY <1>2 DEF MarkStale, ListInv, Types
  <2> HIDE DEF r
  <2>4. r.amount \in 0..MaxAmount /\ (r.kind = "add" => r.m \in Mutations)
    BY <2>2 DEF ListMore
  <2> QED BY <1>2, <2>3, <2>4, WriterFits DEF MarkStale
<1>3. ASSUME NEW w \in Writers, GiveUpWrite(w) PROVE ListMore'
  <2>1. IdleWriter.amount \in 0..MaxAmount /\ IdleWriter.kind # "add"
    BY DEF IdleWriter
  <2>2. /\ writer' = [writer EXCEPT ![w] = IdleWriter]
        /\ holder' \in {holder, w, Unlocked}
        /\ UNCHANGED <<plan, manual, done, list, ticks, build>>
    BY <1>3 DEF GiveUpWrite
  <2> QED BY <2>1, <2>2, WriterFits
<1>4. ASSUME NEW w \in Writers, CommitWrite(w) PROVE ListMore'
  <2> DEFINE r == writer[w]
             rest == [writer EXCEPT ![w] = IdleWriter]
  <2>1. r.amount \in 0..MaxAmount /\ (r.kind = "add" => r.m \in Mutations)
    BY DEF ListMore
  <2>2. plan' \in Amounts /\ manual' \in Amounts
    BY <1>4, <2>1 DEF CommitWrite, ListMore, Amounts
  <2>3. done' \subseteq Mutations /\ ticks' \subseteq Products
    BY <1>4, <2>1 DEF CommitWrite, ListMore
  <2>4. list'.checked \subseteq OnList(list'.amounts)
    <3>1. list \in Lists /\ list.checked \subseteq OnList(list.amounts)
      BY DEF ListInv, Types, ListMore
    <3> DEFINE checked == IF r.grows THEN list.checked \ {r.p} ELSE list.checked
    <3>2. \/ list' = list
          \/ list' = [list EXCEPT !.there = TRUE, !.stale = TRUE, !.checked = checked]
      BY <1>4, <3>1 DEF CommitWrite, Lists
    <3>3. checked \subseteq list.checked
      OBVIOUS
    <3> HIDE DEF checked
    <3> QED BY <3>1, <3>2, <3>3 DEF Lists
  <2>5. holder' \in Writers \union Builds \union {Unlocked} /\ build' = build
    BY <1>4 DEF CommitWrite, ListMore
  <2>6. rest \in [Writers -> WriterRecords] /\ writer' = Outdated(rest, w)
    <3>1. IdleWriter \in WriterRecords
      BY DEF IdleWriter, WriterRecords, NoName
    <3> QED BY <1>4, <3>1 DEF CommitWrite, ListInv, Types
  <2>7. \A v \in Writers : rest[v] = writer[v] \/ rest[v] = IdleWriter
    BY DEF ListInv, Types
  <2> HIDE DEF rest
  <2>8. \A v \in Writers : /\ writer'[v].amount = rest[v].amount
                           /\ writer'[v].kind = rest[v].kind /\ writer'[v].m = rest[v].m
    BY <2>6, OutdatedLemma
  <2>9. IdleWriter.amount = 0 /\ IdleWriter.kind = "plan"
    BY DEF IdleWriter
  <2>10. \A v \in Writers : /\ writer'[v].amount \in 0..MaxAmount
                            /\ writer'[v].kind = "add" => writer'[v].m \in Mutations
    BY <2>7, <2>8, <2>9 DEF ListMore
  <2>11. \A b \in Builds :
            build'[b].pc = "write" => build'[b].checked \subseteq OnList(build'[b].amounts)
    BY <2>5 DEF ListMore
  <2> HIDE DEF r
  <2> QED BY <2>2, <2>3, <2>4, <2>5, <2>10, <2>11 DEF ListMore
<1>5. ASSUME NEW b \in Builds, Look(b) \/ LockList(b) \/ ReadSources(b) \/ ReadChecks(b)
                               \/ BuildFails(b)
      PROVE  ListMore'
  <2>1. build[b] \in BuildRecords /\ build \in [Builds -> BuildRecords]
    BY DEF ListInv, Types
  <2>2. /\ UNCHANGED <<plan, manual, done, list, ticks, writer>>
        /\ holder' \in {holder, b, Unlocked}
    BY <1>5 DEF Look, LockList, ReadSources, ReadChecks, BuildFails
  <2>3. \A d \in Builds \ {b} : build'[d] = build[d]
    BY <1>5, <2>1 DEF Look, LockList, ReadSources, ReadChecks, BuildFails
  <2>4. build'[b].pc = "write" => build'[b].checked \subseteq OnList(build'[b].amounts)
    <3>1. CASE ReadChecks(b)
      <4>1. build'[b] = [build[b] EXCEPT !.pc = "write", !.checked = StillChecked(build[b].amounts)]
        BY <2>1, <3>1 DEF ReadChecks
      <4>2. /\ build'[b].checked = StillChecked(build[b].amounts)
            /\ build'[b].amounts = build[b].amounts
        BY <2>1, <4>1 DEF BuildRecords
      <4> QED BY <4>2 DEF StillChecked
    <3>2. CASE ~ReadChecks(b)
      <4>1. build'[b].pc # "write"
        BY <1>5, <2>1, <3>2 DEF Look, LockList, ReadSources, BuildFails, NoBuild, BuildRecords
      <4> QED BY <4>1
    <3> QED BY <3>1, <3>2
  <2> QED BY <2>2, <2>3, <2>4 DEF ListMore
<1>6. ASSUME NEW b \in Builds, FinishBuild(b) PROVE ListMore'
  <2>1. writer \in [Writers -> WriterRecords] /\ build \in [Builds -> BuildRecords]
    BY DEF ListInv, Types
  <2>2. \A v \in Writers : /\ writer'[v].amount = writer[v].amount
                           /\ writer'[v].kind = writer[v].kind /\ writer'[v].m = writer[v].m
    BY <1>6, <2>1, OutdatedLemma DEF FinishBuild
  <2>3. list'.checked \subseteq OnList(list'.amounts)
    BY <1>6 DEF FinishBuild, ListMore
  <2>4. \A d \in Builds : build'[d] = NoBuild \/ build'[d] = build[d]
    BY <1>6, <2>1 DEF FinishBuild
  <2>5. ticks' \subseteq Products /\ holder' = Unlocked /\ UNCHANGED <<plan, manual, done>>
    BY <1>6 DEF FinishBuild, ListMore
  <2>6. NoBuild.pc # "write"
    BY DEF NoBuild
  <2> QED BY <2>2, <2>3, <2>4, <2>5, <2>6 DEF ListMore
<1>7. ASSUME NEW p \in Products, Tick(p) PROVE ListMore'
  <2> DEFINE checked == IF p \in list.checked THEN list.checked \ {p} ELSE list.checked \union {p}
  <2>1. list \in Lists /\ list.checked \subseteq OnList(list.amounts)
    BY DEF ListInv, Types, ListMore
  <2>2. p \in OnList(list.amounts) /\ list' = [list EXCEPT !.checked = checked]
    BY <1>7 DEF Tick
  <2>3. checked \subseteq OnList(list.amounts)
    BY <2>1, <2>2
  <2> HIDE DEF checked
  <2>4. list'.checked \subseteq OnList(list'.amounts)
    BY <2>1, <2>2, <2>3 DEF Lists
  <2>5. ticks' \subseteq Products /\ UNCHANGED <<plan, manual, done, writer, build, holder>>
    BY <1>7 DEF Tick, ListMore
  <2> QED BY <2>4, <2>5 DEF ListMore
<1>8. CASE UNCHANGED listVars
  BY <1>8 DEF listVars, ListMore
<1> QED BY <1>1, <1>2, <1>3, <1>4, <1>5, <1>6, <1>7, <1>8 DEF ListNext

(* The types of the module: amounts, of the list and of what is owed to those   *)
(* who asked, stay in their range, nothing is ticked that is not on the list    *)
(* (shopping-list.service.ts:384-593).                                         *)
THEOREM ListTypes == ListSpec => []ListTypeOK
<1>1. ListInv /\ ListMore => ListTypeOK
  <2> SUFFICES ASSUME ListInv, ListMore PROVE ListTypeOK
    OBVIOUS
  <2>1. owed \in Amounts
    BY DEF ListInv, AmountsAddUp, ListMore
  <2>2. list \in Lists /\ OnList(list.amounts) \subseteq Products
    BY DEF ListInv, Types, OnList
  <2>3. \A w \in Writers : writer[w].pc \in {"idle", "wrote", "marked"}
    BY DEF ListInv, Types, WriterRecords
  <2>4. \A b \in Builds : /\ build[b].pc \in {"idle", "lock", "read", "keep", "write"}
                          /\ build[b].checked \subseteq Products
    BY DEF ListInv, Types, BuildRecords
  <2> QED BY <2>1, <2>2, <2>3, <2>4 DEF ListTypeOK, ListMore, Lists
<1>2. ListSpec => []ListMore
  BY ListMoreInit, ListMoreKept, ListInvariant, PTL DEF ListSpec
<1> QED BY <1>1, <1>2, ListInvariant, PTL

-----------------------------------------------------------------------------
(* The week: rows and what a write makes of them                           *)

Servings == Nat

Rows == [there : BOOLEAN, id : Nat, rev : Nat, who : SUBSET Persons, servings : Servings,
         portions : [Persons -> Units], stamps : [Persons -> Nat]]

Dated(row, rev) ==
    row.id <= row.rev /\ row.rev <= rev /\ \A m \in Persons : row.stamps[m] <= row.rev

\* A meal is for somebody; what is gone has neither servings nor portions.
Whole(row) == (row.there <=> row.servings > 0) /\ (~row.there => ~Allocated(row))

EatersFit(row, people) ==
    /\ row.who \subseteq people
    /\ row.who # {} /\ Allocated(row) => People(row.portions) = row.who

Agrees(seen, row) ==
    seen.there /\ row.there =>
        /\ seen.rev = row.rev => Meal(seen) = Meal(row)
        /\ seen.id = row.id =>
              \A m \in People(seen.portions) \intersect People(row.portions) :
                  seen.stamps[m] = row.stamps[m] => seen.portions[m] = row.portions[m]

\* A row a write leaves: the old one, none, or one that tells by its stamps
\* what is new in it.
Marked(old, new, stamp) ==
    /\ new.rev = stamp
    /\ \/ new.id = stamp
       \/ /\ new.id = old.id /\ old.there
          /\ \A m \in People(new.portions) :
                \/ new.stamps[m] = stamp
                \/ /\ m \in People(old.portions)
                   /\ new.stamps[m] = old.stamps[m] /\ new.portions[m] = old.portions[m]

Later(old, new, stamp) == new = old \/ ~new.there \/ Marked(old, new, stamp)

\* One row after a write under the stamp.
Follows(old, new, stamp, people) ==
    /\ new \in Rows /\ Dated(new, stamp) /\ Whole(new) /\ EatersFit(new, people)
    /\ Later(old, new, stamp)

WeekTypes ==
    /\ roster \in SUBSET Persons /\ revision \in Nat
    /\ item \in [Recipes -> Rows]
    /\ view \in [Persons -> [revision : Nat, item : [Recipes -> Rows]]]
    /\ gate \in [Persons -> SUBSET Persons]

WeekInv ==
    /\ WeekTypes
    /\ \A r \in Recipes : Dated(item[r], revision) /\ Whole(item[r]) /\ EatersFit(item[r], roster)
    /\ \A u \in Persons : view[u].revision <= revision
    /\ \A u \in Persons, r \in Recipes :
          /\ Dated(view[u].item[r], revision)
          /\ view[u].revision = revision => Meal(view[u].item[r]) = Meal(item[r])
          /\ Agrees(view[u].item[r], item[r])

LEMMA UnitsHere == 0 \in Units /\ 1 \in Units /\ Units \subseteq Nat /\ Nothing \in [Persons -> Units]
  BY PlanAssumption DEF Nothing, Units

LEMMA NoItemFollows ==
  ASSUME NEW old, NEW stamp \in Nat, NEW people
  PROVE  Follows(old, NoItem, stamp, people)
<1>1. NoItem \in Rows
  BY UnitsHere DEF NoItem, Rows, Servings, Nothing
<1>2. /\ ~NoItem.there /\ NoItem.who = {} /\ NoItem.portions = Nothing /\ ~Allocated(NoItem)
      /\ NoItem.servings = 0
  BY DEF NoItem, Allocated, People, Nothing
<1>3. Dated(NoItem, stamp)
  BY DEF NoItem, Dated, Nothing
<1> QED
  BY <1>1, <1>2, <1>3 DEF Follows, Whole, EatersFit, Later

\* The people of an allocation.
LEMMA PeopleOf ==
  ASSUME NEW p \in [Persons -> Units]
  PROVE  /\ People(p) \subseteq Persons
         /\ p = Nothing <=> People(p) = {}
         /\ \A m \in Persons : p[m] \in Nat /\ (m \in People(p) <=> p[m] # 0)
<1>1. \A m \in Persons : p[m] \in Nat
  BY UnitsHere
<1>2. \A m \in Persons : m \in People(p) <=> p[m] # 0
  BY <1>1 DEF People
<1>3. People(p) \subseteq Persons
  BY DEF People
<1>4. People(p) = {} => p = Nothing
  BY <1>2 DEF Nothing
<1>5. p = Nothing => People(p) = {}
  BY <1>2, <1>3 DEF Nothing
<1> QED
  BY <1>1, <1>2, <1>3, <1>4, <1>5

\* The sum of portions is a number, above zero when somebody has one.
LEMMA SumOf ==
  ASSUME NEW p \in [Persons -> Units]
  PROVE  /\ derivedPlannedServings[p] \in Servings
         /\ p # Nothing => derivedPlannedServings[p] > 0
<1> DEFINE S == {u \in Persons \X (1..MaxUnits) : u[2] <= p[u[1]]}
<1>1. derivedPlannedServings[p] = Cardinality(S)
  BY DEF derivedPlannedServings
<1>2. IsFiniteSet(Persons \X (1..MaxUnits))
  <2>1. IsFiniteSet(1..MaxUnits)
    BY PlanAssumption, FS_Interval
  <2> QED
    BY <2>1, PlanAssumption, FS_Product
<1>3. IsFiniteSet(S)
  BY <1>2, FS_Subset
<1>4. Cardinality(S) \in Nat /\ (Cardinality(S) = 0 <=> S = {})
  BY <1>3, FS_CardinalityType, FS_EmptySet
<1>5. p # Nothing => S # {}
  <2> SUFFICES ASSUME p # Nothing PROVE S # {}
    OBVIOUS
  <2>1. PICK m \in Persons : p[m] # 0
    BY PeopleOf DEF People
  <2>2. p[m] \in Units /\ 1 \in 1..MaxUnits
    BY PlanAssumption
  <2>3. 1 <= p[m]
    BY <2>1, <2>2, PlanAssumption DEF Units
  <2>4. <<m, 1>> \in S
    BY <2>2, <2>3
  <2> QED
    BY <2>4
<1> HIDE DEF S
<1> QED
  BY <1>1, <1>4, <1>5 DEF Servings

LEMMA Remapped ==
  ASSUME NEW p \in [Persons -> Units], NEW audience \in SUBSET Persons
  PROVE  /\ remapPortions(p, audience) \in [Persons -> Units]
         /\ People(remapPortions(p, audience)) = audience
<1> DEFINE q == remapPortions(p, audience)
<1>1. q \in [Persons -> Units]
  BY UnitsHere DEF remapPortions
<1>2. \A m \in Persons : q[m] # 0 <=> m \in audience
  BY PeopleOf DEF remapPortions, People
<1> HIDE DEF q
<1>3. People(q) = audience
  BY <1>1, <1>2, PeopleOf
<1> QED
  BY <1>1, <1>3 DEF q

LEMMA Stamps ==
  ASSUME NEW p \in [Persons -> Units], NEW stamp \in Nat
  PROVE  /\ Stamped(p, stamp) \in [Persons -> Nat]
         /\ \A m \in Persons : Stamped(p, stamp)[m] <= stamp
         /\ \A m \in People(p) : Stamped(p, stamp)[m] = stamp
BY DEF Stamped, People

-----------------------------------------------------------------------------
(* The week: what a request may ask for a meal                             *)

Wanted(w, members) ==
    /\ w.who \in SUBSET Persons /\ w.servings \in Servings
    /\ w.portions \in [Persons -> Units]
    /\ w.audience = Audience(w.who, members) /\ w.audience \in SUBSET Persons
    /\ w.portions = Nothing \/ People(w.portions) = w.audience

LEMMA WantsFits ==
  ASSUME NEW members \in SUBSET Persons, NEW who \in SUBSET Persons, NEW servings \in Servings,
         NEW portions \in [Persons -> Units], NEW intent,
         portions = Nothing \/ People(portions) = Audience(who, members)
  PROVE  LET w == Wants(who, servings, portions, intent, members)
         IN  /\ Wanted(w, members) /\ w.who = who /\ w.servings = servings
             /\ w.portions = portions /\ w.intent = intent
BY DEF Wants, Wanted, Audience

\* The portions a request may name are those of its audience.
LEMMA PortionsFit ==
  ASSUME NEW intent, NEW audience \in SUBSET Persons, NEW p \in Portions(intent, audience)
  PROVE  /\ p \in [Persons -> Units]
         /\ intent # "replace" => p = Nothing
         /\ p = Nothing \/ People(p) = audience
<1>1. CASE intent = "replace"
  BY <1>1 DEF Portions, Allocations
<1>2. CASE intent # "replace"
  BY <1>2, UnitsHere DEF Portions
<1> QED
  BY <1>1, <1>2

LEMMA AudienceIs ==
  ASSUME NEW members \in SUBSET Persons, NEW who \in SUBSET Persons, members # {}
  PROVE  /\ Audience(who, members) \in SUBSET Persons /\ Audience(who, members) # {}
         /\ who # {} => Audience(who, members) = who
BY DEF Audience

LEMMA Counted ==
  ASSUME NEW S \in SUBSET Persons
  PROVE  /\ Cardinality(S) \in Nat /\ Cardinality(S) \in Servings /\ IsFiniteSet(S)
         /\ S # {} => Cardinality(S) > 0
<1>1. IsFiniteSet(S)
  BY PlanAssumption, FS_Subset
<1>2. Cardinality(S) \in Nat /\ (Cardinality(S) = 0 <=> S = {})
  BY <1>1, FS_CardinalityType, FS_EmptySet
<1> QED
  BY <1>1, <1>2 DEF Servings

LEMMA ServingsFit ==
  ASSUME NEW row \in Rows, NEW who \in SUBSET Persons, NEW servings \in Servings, NEW count \in Nat
  PROVE  /\ Planned(who, count, servings) \in Servings
         /\ Updated(row, who, count, servings) \in Servings
         /\ count > 0 => Planned(who, count, servings) > 0
         /\ count > 0 /\ row.servings > 0 => Updated(row, who, count, servings) > 0
<1>1. /\ count \in Servings /\ Cardinality(who) \in Servings
      /\ who # {} => Cardinality(who) > 0
  BY Counted DEF Servings
<1>2. /\ Planned(who, count, servings) \in Servings
      /\ count > 0 => Planned(who, count, servings) > 0
  <2>1. /\ autoPlannedServings(who, count) \in Servings
        /\ count > 0 => autoPlannedServings(who, count) > 0
    BY <1>1 DEF autoPlannedServings
  <2>2. CASE servings > 0
    BY <2>2 DEF Planned
  <2>3. CASE ~(servings > 0)
    BY <2>1, <2>3 DEF Planned
  <2> QED
    BY <2>2, <2>3
<1>3. row.servings \in Servings
  BY DEF Rows
<1>4. Updated(row, who, count, servings) \in {row.servings, Planned(who, count, servings)}
  BY DEF Updated
<1> QED
  BY <1>2, <1>3, <1>4

LEMMA LeftFits ==
  ASSUME NEW row \in Rows, NEW w, NEW members \in SUBSET Persons, Wanted(w, members)
  PROVE  /\ Left(row, w) \in [Persons -> Units]
         /\ Left(row, w) = Nothing \/ People(Left(row, w)) = w.audience
<1>1. /\ w.portions \in [Persons -> Units] /\ w.audience \in SUBSET Persons
      /\ w.portions = Nothing \/ People(w.portions) = w.audience
      /\ row.portions \in [Persons -> Units]
  BY DEF Wanted, Rows
<1>2. CASE Left(row, w) = w.portions
  BY <1>1, <1>2
<1>3. CASE Left(row, w) = Nothing
  BY <1>3, UnitsHere
<1>4. CASE Left(row, w) = remapPortions(row.portions, w.audience)
  BY <1>1, <1>4, Remapped
<1> QED
  BY <1>2, <1>3, <1>4 DEF Left, Preserved

LEMMA WrittenFollows ==
  ASSUME NEW row \in Rows, NEW rev \in Nat, NEW people \in SUBSET Persons,
         Dated(row, rev), row.there, Whole(row), EatersFit(row, people),
         NEW w, NEW members \in SUBSET Persons, Wanted(w, members), w.who \subseteq people,
         NEW count \in Nat, count > 0, NEW policy
  PROVE  LET new == Written(row, w, policy, count, rev + 1)
         IN  /\ Follows(row, new, rev + 1, people)
             /\ Decision(row, w, policy) = "keep" => new = row
             /\ Decision(row, w, policy) # "keep" => new.portions = Left(row, w)
<1> DEFINE stamp == rev + 1
           portions == Left(row, w)
           servings == IF portions # Nothing THEN derivedPlannedServings[portions]
                       ELSE Updated(row, w.who, count, w.servings)
           who == w.who
           bare == [row EXCEPT !.who = who, !.servings = servings, !.portions = portions]
           stamps == Stamped(portions, stamp)
           new == [bare EXCEPT !.rev = stamp, !.stamps = stamps]
           res == Written(row, w, policy, count, stamp)
<1>1. res = IF Decision(row, w, policy) = "keep" \/ Meal(bare) = Meal(row) THEN row ELSE new
  BY DEF Written
<1>2. portions \in [Persons -> Units] /\ (portions = Nothing \/ People(portions) = w.audience)
  BY LeftFits
<1>3. who \in SUBSET Persons /\ w.servings \in Servings /\ who \subseteq people
      /\ w.audience = Audience(who, members)
  BY DEF Wanted
<1>4. servings \in Servings /\ servings > 0
  BY <1>2, <1>3, ServingsFit, SumOf DEF Whole
<1>5. stamp \in Nat /\ stamp > rev /\ rev <= stamp
  OBVIOUS
<1>6. /\ stamps \in [Persons -> Nat] /\ \A m \in Persons : stamps[m] <= stamp
      /\ \A m \in People(portions) : stamps[m] = stamp
  BY <1>2, <1>5, Stamps
<1> HIDE DEF portions, servings, stamps, stamp, who
<1>6a. bare = [row EXCEPT !.who = who, !.servings = servings, !.portions = portions]
  OBVIOUS
<1> HIDE DEF bare
<1>6b. new = [bare EXCEPT !.rev = stamp, !.stamps = stamps]
  OBVIOUS
<1> HIDE DEF new, res
<1>7. /\ bare \in Rows /\ bare.there = row.there /\ bare.id = row.id
      /\ bare.who = who /\ bare.portions = portions /\ bare.servings = servings
  BY <1>2, <1>3, <1>4, <1>6a DEF Rows
<1>8. /\ new \in Rows /\ new.there = row.there /\ new.id = row.id /\ new.rev = stamp
      /\ new.who = who /\ new.portions = portions /\ new.stamps = stamps
      /\ new.servings = servings
  BY <1>5, <1>6, <1>7, <1>6b DEF Rows
<1>9. Follows(row, row, stamp, people)
  <2>1. Dated(row, stamp)
    BY <1>5 DEF Dated, Rows
  <2> QED
    BY <2>1 DEF Follows, Later
<1>10. Follows(row, new, stamp, people)
  <2>1. Dated(new, stamp)
    <3>1. row.id \in Nat /\ row.id <= rev
      BY DEF Dated, Rows
    <3> QED
      BY <1>5, <1>6, <1>8, <3>1 DEF Dated, Rows
  <2>2. EatersFit(new, people)
    BY <1>2, <1>3, <1>8 DEF EatersFit, Audience, Allocated, People, Nothing
  <2>3. Marked(row, new, stamp)
    BY <1>6, <1>8 DEF Marked
  <2> QED
    BY <1>4, <1>8, <2>1, <2>2, <2>3 DEF Follows, Whole, Later
<1>11. /\ res = row \/ (res = new /\ Decision(row, w, policy) # "keep")
       /\ Decision(row, w, policy) # "keep" => res = new \/ Meal(bare) = Meal(row)
  BY <1>1
<1>12. new.portions = Left(row, w)
  BY <1>8 DEF portions
<1>13. Meal(bare) = Meal(row) => row.portions = Left(row, w)
  BY <1>7 DEF portions, Meal
<1> QED
  BY <1>9, <1>10, <1>11, <1>12, <1>13 DEF res, stamp

LEMMA CreatedFollows ==
  ASSUME NEW old, NEW like \in Rows, Whole(like), NEW rev \in Nat,
         NEW people \in SUBSET Persons,
         NEW w, NEW members \in SUBSET Persons, Wanted(w, members), w.who \subseteq people,
         NEW count \in Nat, count > 0
  PROVE  LET new == Created(like, w, count, rev + 1)
         IN  Follows(old, new, rev + 1, people) /\ new.portions = w.portions
<1> DEFINE stamp == rev + 1
           portions == w.portions
           who == w.who
           servings == IF portions # Nothing THEN derivedPlannedServings[portions]
                       ELSE IF like.there THEN Updated(like, who, count, w.servings)
                       ELSE Planned(who, count, w.servings)
           stamps == Stamped(portions, stamp)
           new == [there |-> TRUE, id |-> stamp, rev |-> stamp, who |-> who, portions |-> portions,
                   servings |-> servings, stamps |-> stamps]
<1>1. Created(like, w, count, stamp) = new
  BY DEF Created
<1>2. /\ portions \in [Persons -> Units] /\ (portions = Nothing \/ People(portions) = w.audience)
      /\ who \in SUBSET Persons /\ w.servings \in Servings /\ who \subseteq people
      /\ w.audience = Audience(who, members)
  BY DEF Wanted
<1>3. servings \in Servings /\ servings > 0
  BY <1>2, ServingsFit, SumOf DEF Whole
<1>4. stamp \in Nat
  OBVIOUS
<1>5. stamps \in [Persons -> Nat] /\ \A m \in Persons : stamps[m] <= stamp
  BY <1>2, <1>4, Stamps
<1> HIDE DEF portions, who, servings, stamps, stamp
<1>6. new \in Rows /\ new.there /\ new.id = stamp /\ new.rev = stamp /\ new.who = who
      /\ new.portions = portions /\ new.stamps = stamps /\ new.servings = servings
  BY <1>2, <1>3, <1>4, <1>5 DEF Rows
<1> HIDE DEF new
<1>7. EatersFit(new, people)
  BY <1>2, <1>6 DEF EatersFit, Audience, Allocated, People, Nothing
<1>8. Dated(new, stamp) /\ Whole(new) /\ Later(old, new, stamp)
  BY <1>3, <1>4, <1>5, <1>6 DEF Dated, Whole, Later, Marked
<1>9. Follows(old, new, stamp, people) /\ new.portions = portions
  BY <1>6, <1>7, <1>8 DEF Follows
<1> QED
  BY <1>1, <1>9 DEF stamp, portions

-----------------------------------------------------------------------------
(* The week: a step                                                        *)

LEMMA DatedOn ==
  ASSUME NEW row \in Rows, NEW rev \in Nat, Dated(row, rev)
  PROVE  Dated(row, rev + 1)
BY DEF Dated, Rows

\* What a phone holds of a meal goes with what a later write leaves of it.
LEMMA StillAgrees ==
  ASSUME NEW rev \in Nat, NEW seen \in Rows, NEW old \in Rows, NEW new \in Rows,
         Dated(seen, rev), Agrees(seen, old), Later(old, new, rev + 1)
  PROVE  Agrees(seen, new)
<1>1. CASE new = old \/ ~new.there
  BY <1>1 DEF Agrees
<1>2. CASE Marked(old, new, rev + 1)
  <2> SUFFICES ASSUME seen.there, new.there
               PROVE  /\ seen.rev = new.rev => Meal(seen) = Meal(new)
                      /\ seen.id = new.id =>
                            \A m \in People(seen.portions) \intersect People(new.portions) :
                               seen.stamps[m] = new.stamps[m] => seen.portions[m] = new.portions[m]
    BY DEF Agrees
  <2>1. /\ seen.rev \in Nat /\ seen.rev <= rev /\ seen.id \in Nat /\ seen.id <= rev
        /\ \A m \in Persons : seen.stamps[m] \in Nat /\ seen.stamps[m] <= rev
    BY DEF Rows, Dated
  <2>2. seen.rev # new.rev
    BY <1>2, <2>1 DEF Marked
  <2>3. ASSUME seen.id = new.id,
               NEW m \in People(seen.portions) \intersect People(new.portions),
               seen.stamps[m] = new.stamps[m]
        PROVE  seen.portions[m] = new.portions[m]
    <3>1. m \in Persons
      BY DEF People
    <3>2. new.stamps[m] # rev + 1 /\ new.id # rev + 1
      BY <2>1, <2>3, <3>1
    <3>3. /\ new.id = old.id /\ old.there
          /\ m \in People(old.portions)
          /\ new.stamps[m] = old.stamps[m] /\ new.portions[m] = old.portions[m]
      BY <1>2, <3>2 DEF Marked
    <3> QED
      BY <2>3, <3>3 DEF Agrees
  <2> QED
    BY <2>2, <2>3
<1> QED
  BY <1>1, <1>2 DEF Later

LEMMA WeekHas ==
  ASSUME WeekInv
  PROVE  /\ roster \in SUBSET Persons /\ revision \in Nat /\ item \in [Recipes -> Rows]
         /\ view \in [Persons -> [revision : Nat, item : [Recipes -> Rows]]]
         /\ gate \in [Persons -> SUBSET Persons]
         /\ \A r \in Recipes : /\ item[r] \in Rows /\ Dated(item[r], revision)
                               /\ Whole(item[r]) /\ EatersFit(item[r], roster)
         /\ \A u \in Persons : /\ view[u].revision \in Nat /\ view[u].revision <= revision
                               /\ view[u].item \in [Recipes -> Rows] /\ gate[u] \in SUBSET Persons
         /\ \A u \in Persons, r \in Recipes :
              view[u].item[r] \in Rows /\ Dated(view[u].item[r], revision)
BY DEF WeekInv, WeekTypes

LEMMA WeekMoves ==
  ASSUME WeekInv, roster' \in SUBSET Persons, revision' \in {revision, revision + 1},
         revision' = revision => item' = item, item' \in [Recipes -> Rows],
         \A r \in Recipes : Follows(item[r], item'[r], revision + 1, roster'),
         view' \in [Persons -> [revision : Nat, item : [Recipes -> Rows]]],
         \A v \in Persons : view'[v].revision = view[v].revision,
         \A v \in Persons, r \in Recipes : view'[v].item[r] \in {view[v].item[r], item'[r]},
         gate' \in [Persons -> SUBSET Persons]
  PROVE  WeekInv'
<1>1. revision \in Nat /\ revision' \in Nat /\ revision <= revision'
  BY WeekHas
<1>2. ASSUME NEW r \in Recipes
      PROVE  /\ item'[r] \in Rows /\ Dated(item'[r], revision') /\ Whole(item'[r])
             /\ EatersFit(item'[r], roster') /\ Later(item[r], item'[r], revision + 1)
  <2>1. Follows(item[r], item'[r], revision + 1, roster')
    OBVIOUS
  <2>2. CASE revision' = revision
    BY <2>1, <2>2, WeekHas DEF Follows
  <2>3. CASE revision' = revision + 1
    BY <2>1, <2>3 DEF Follows
  <2> QED
    BY <2>2, <2>3
<1>3. ASSUME NEW v \in Persons
      PROVE  view'[v].revision <= revision'
  <2>1. view[v].revision \in Nat /\ view[v].revision <= revision
    BY WeekHas
  <2> QED
    BY <1>1, <2>1
<1>4. ASSUME NEW v \in Persons, NEW r \in Recipes
      PROVE  /\ Dated(view'[v].item[r], revision')
             /\ view'[v].revision = revision' => Meal(view'[v].item[r]) = Meal(item'[r])
             /\ Agrees(view'[v].item[r], item'[r])
  <2>1. /\ view[v].item[r] \in Rows /\ Dated(view[v].item[r], revision)
        /\ view[v].revision \in Nat /\ view[v].revision <= revision
        /\ view[v].revision = revision => Meal(view[v].item[r]) = Meal(item[r])
        /\ Agrees(view[v].item[r], item[r])
    BY WeekHas DEF WeekInv
  <2>2. CASE view'[v].item[r] = item'[r]
    BY <1>2, <2>2 DEF Agrees
  <2>3. CASE view'[v].item[r] = view[v].item[r]
    <3>1. Dated(view[v].item[r], revision')
      BY <1>1, <2>1, DatedOn
    <3>2. view[v].revision = revision' => item' = item /\ view[v].revision = revision
      BY <1>1, <2>1
    <3>3. Agrees(view[v].item[r], item'[r])
      BY <1>1, <1>2, <2>1, StillAgrees, WeekHas
    <3> QED
      BY <2>1, <2>3, <3>1, <3>2, <3>3
  <2> QED
    BY <2>2, <2>3
<1>5. WeekTypes'
  BY <1>1 DEF WeekTypes
<1> QED
  BY <1>2, <1>3, <1>4, <1>5 DEF WeekInv

LEMMA WriteKeeps ==
  ASSUME WeekInv, NEW u \in Persons, NEW new \in [Recipes -> Rows], NEW answered,
         Write(u, new, answered),
         \A r \in Recipes : Follows(item[r], new[r], revision + 1, roster)
  PROVE  WeekInv'
<1>1. /\ item' = new /\ revision' = (IF new = item THEN revision ELSE revision + 1)
      /\ gate' = [gate EXCEPT ![u] = {}] /\ roster' = roster
  BY DEF Write
<1>2. PICK got \in BOOLEAN :
        view' = IF got THEN [view EXCEPT ![u].item = [r \in Recipes |->
                                IF r \in answered THEN new[r] ELSE @[r]]]
                ELSE view
  BY DEF Write
<1>3. view \in [Persons -> [revision : Nat, item : [Recipes -> Rows]]]
      /\ gate \in [Persons -> SUBSET Persons] /\ roster \in SUBSET Persons
  BY WeekHas
<1> DEFINE held == [r \in Recipes |-> IF r \in answered THEN new[r] ELSE view[u].item[r]]
<1>4. held \in [Recipes -> Rows]
  BY <1>3
<1>5. \A r \in Recipes : held[r] \in {view[u].item[r], new[r]}
  OBVIOUS
<1>6. view' = view \/ view' = [view EXCEPT ![u].item = held]
  BY <1>2, <1>3
<1> HIDE DEF held
<1>7. view' \in [Persons -> [revision : Nat, item : [Recipes -> Rows]]]
  BY <1>3, <1>4, <1>6
<1>8. ASSUME NEW v \in Persons
      PROVE  /\ view'[v].revision = view[v].revision
             /\ \A r \in Recipes : view'[v].item[r] \in {view[v].item[r], new[r]}
  <2>1. CASE view' = view \/ v # u
    BY <1>3, <1>6, <2>1
  <2>2. CASE view' = [view EXCEPT ![u].item = held] /\ v = u
    BY <1>3, <1>5, <2>2
  <2> QED
    BY <1>6, <2>1, <2>2
<1>9. gate' \in [Persons -> SUBSET Persons]
  BY <1>1, <1>3
<1>10. \A r \in Recipes : Follows(item[r], item'[r], revision + 1, roster')
  BY <1>1
<1>11. revision' \in {revision, revision + 1} /\ (revision' = revision => item' = item)
  BY <1>1, WeekHas
<1> QED
  BY <1>1, <1>3, <1>7, <1>8, <1>9, <1>10, <1>11, WeekMoves

LEMMA RowStays ==
  ASSUME WeekInv, NEW r \in Recipes
  PROVE  Follows(item[r], item[r], revision + 1, roster)
BY WeekHas, DatedOn DEF Follows, Later

LEMMA PhoneReads ==
  ASSUME WeekInv, NEW u \in Persons, ReadWeek(u) \/ Ask(u) \/ Refused(u)
  PROVE  WeekInv'
<1>1. /\ view \in [Persons -> [revision : Nat, item : [Recipes -> Rows]]]
      /\ gate \in [Persons -> SUBSET Persons] /\ roster \in SUBSET Persons
      /\ item \in [Recipes -> Rows] /\ revision \in Nat
  BY WeekHas
<1>2. UNCHANGED <<roster, revision, item>>
  BY DEF ReadWeek, Ask, Refused
<1>3. /\ gate' \in [Persons -> SUBSET Persons]
      /\ view' = view \/ view' = [view EXCEPT ![u] = [revision |-> revision, item |-> item]]
  BY <1>1 DEF ReadWeek, Ask, Refused
<1>4. view' \in [Persons -> [revision : Nat, item : [Recipes -> Rows]]]
  BY <1>1, <1>3
<1>5. WeekTypes'
  BY <1>1, <1>2, <1>3, <1>4 DEF WeekTypes
<1>6. ASSUME NEW v \in Persons
      PROVE  view'[v] = view[v] \/ view'[v] = [revision |-> revision, item |-> item]
  BY <1>1, <1>3
<1>7. ASSUME NEW v \in Persons
      PROVE  /\ view'[v].revision <= revision
             /\ \A r \in Recipes :
                  /\ Dated(view'[v].item[r], revision)
                  /\ view'[v].revision = revision => Meal(view'[v].item[r]) = Meal(item[r])
                  /\ Agrees(view'[v].item[r], item[r])
  <2>1. CASE view'[v] = view[v]
    BY <2>1 DEF WeekInv
  <2>2. CASE view'[v] = [revision |-> revision, item |-> item]
    <3>1. view'[v].revision = revision /\ view'[v].item = item /\ revision <= revision
      BY <1>1, <2>2
    <3> QED
      BY <3>1, WeekHas DEF Agrees
  <2> QED
    BY <1>6, <2>1, <2>2
<1> QED
  BY <1>2, <1>5, <1>7, WeekHas DEF WeekInv

LEMMA RemoveKeeps ==
  ASSUME WeekInv, NEW u \in Persons, Remove(u)
  PROVE  WeekInv'
<1>1. PICK S \in SUBSET Recipes :
        Write(u, [r \in Recipes |-> IF r \in S THEN NoItem ELSE item[r]], {})
  BY DEF Remove
<1> DEFINE new == [r \in Recipes |-> IF r \in S THEN NoItem ELSE item[r]]
<1>2. NoItem \in Rows
  BY NoItemFollows DEF Follows
<1>3. new \in [Recipes -> Rows]
  BY <1>2, WeekHas
<1>4. ASSUME NEW r \in Recipes PROVE Follows(item[r], new[r], revision + 1, roster)
  <2>1. revision + 1 \in Nat
    BY WeekHas
  <2> QED
    BY <2>1, NoItemFollows, RowStays
<1> HIDE DEF new
<1> QED
  BY <1>1, <1>3, <1>4, WriteKeeps DEF new

LEMMA SetPortionKeeps ==
  ASSUME WeekInv, NEW u \in Persons, NEW r \in Recipes, NEW m \in Persons,
         NEW units \in 1 .. MaxUnits, SetPortion(u, r, m, units)
  PROVE  WeekInv'
<1> DEFINE old == item[r]
           stamp == revision + 1
           portions == [item[r].portions EXCEPT ![m] = units]
           servings == derivedPlannedServings[portions]
           stamps == [item[r].stamps EXCEPT ![m] = revision + 1]
           row == [item[r] EXCEPT !.portions = portions, !.servings = servings,
                                  !.rev = stamp, !.stamps = stamps]
           new == [item EXCEPT ![r] = row]
<1>1. /\ old \in Rows /\ Dated(old, revision) /\ EatersFit(old, roster) /\ revision \in Nat
      /\ item \in [Recipes -> Rows]
  BY WeekHas
<1>2. old.there /\ old.portions[m] # 0
  BY DEF SetPortion
<1>3. units \in Units /\ units # 0 /\ stamp \in Nat /\ revision < stamp
  BY <1>1, PlanAssumption DEF Units
<1>4. /\ portions \in [Persons -> Units] /\ portions[m] = units
      /\ \A n \in Persons \ {m} : portions[n] = old.portions[n]
  BY <1>1, <1>3 DEF Rows
<1>5. /\ stamps \in [Persons -> Nat] /\ stamps[m] = stamp
      /\ \A n \in Persons \ {m} : stamps[n] = old.stamps[n]
  BY <1>1, <1>3 DEF Rows
<1>6. servings \in Servings /\ servings > 0
  <2>1. portions # Nothing
    BY <1>3, <1>4 DEF Nothing
  <2> QED
    BY <1>4, <2>1, SumOf
<1>7. Write(u, new, {r})
  <2>1. [item[r] EXCEPT !.portions = portions, !.servings = servings,
                        !.rev = revision + 1, !.stamps[m] = revision + 1] = row
    BY <1>1 DEF Rows
  <2> QED
    BY <1>1, <2>1 DEF SetPortion
<1> HIDE DEF portions, servings, stamps, stamp
<1>8. /\ row \in Rows /\ row.there = old.there /\ row.id = old.id /\ row.rev = stamp
      /\ row.who = old.who /\ row.portions = portions /\ row.stamps = stamps
      /\ row.servings = servings
  BY <1>1, <1>3, <1>4, <1>5, <1>6 DEF Rows
<1> HIDE DEF row
<1>9. new \in [Recipes -> Rows] /\ new[r] = row /\ \A q \in Recipes \ {r} : new[q] = item[q]
  BY <1>1, <1>8
<1> HIDE DEF new
<1>10. People(portions) = People(old.portions)
  <2>1. old.portions \in [Persons -> Units]
    BY <1>1 DEF Rows
  <2>2. ASSUME NEW n \in Persons
        PROVE  n \in People(portions) <=> n \in People(old.portions)
    <3>1. portions[n] # 0 <=> old.portions[n] # 0
      BY <1>2, <1>3, <1>4
    <3> QED
      BY <1>4, <2>1, <3>1, PeopleOf
  <2> QED
    BY <1>4, <2>1, <2>2, PeopleOf
<1>11. Follows(old, row, stamp, roster)
  <2>1. Dated(row, stamp)
    <3>1. /\ old.id \in Nat /\ old.id <= revision
          /\ \A n \in Persons : old.stamps[n] \in Nat /\ old.stamps[n] <= revision
      BY <1>1 DEF Dated, Rows
    <3>2. old.id <= stamp /\ \A n \in Persons : old.stamps[n] <= stamp
      BY <1>1, <1>3, <3>1
    <3> QED
      BY <1>1, <1>3, <1>5, <1>8, <3>2 DEF Dated, Rows
  <2>2. EatersFit(row, roster)
    BY <1>1, <1>8, <1>10 DEF EatersFit, Allocated
  <2>3. Marked(old, row, stamp)
    <3>1. ASSUME NEW n \in People(row.portions)
          PROVE  \/ row.stamps[n] = stamp
                 \/ /\ n \in People(old.portions)
                    /\ row.stamps[n] = old.stamps[n] /\ row.portions[n] = old.portions[n]
      <4>1. n \in Persons
        BY DEF People
      <4> QED
        BY <1>4, <1>5, <1>8, <1>10, <4>1
    <3> QED
      BY <1>2, <1>8, <3>1 DEF Marked
  <2> QED
    BY <1>2, <1>6, <1>8, <2>1, <2>2, <2>3 DEF Follows, Whole, Later
<1>12. ASSUME NEW q \in Recipes PROVE Follows(item[q], new[q], stamp, roster)
  BY <1>9, <1>11, RowStays DEF stamp
<1> QED
  BY <1>7, <1>9, <1>12, WriteKeeps DEF stamp

-----------------------------------------------------------------------------
(* The week: the household changes                                         *)

\* A row stamped anew, its eaters and portions as they have become.
LEMMA RestampedFollows ==
  ASSUME NEW rev \in Nat, NEW old \in Rows, Dated(old, rev), NEW row \in Rows,
         row.id = old.id, row.there = old.there, row.rev = old.rev, row.stamps = old.stamps,
         Whole(row), NEW people, EatersFit(row, people)
  PROVE  Follows(old, Restamped(row, rev + 1), rev + 1, people)
<1> DEFINE stamp == rev + 1
           stamps == Stamped(row.portions, stamp)
           new == [row EXCEPT !.rev = stamp, !.stamps = stamps]
<1>1. stamp \in Nat /\ rev <= stamp
  OBVIOUS
<1>2. /\ stamps \in [Persons -> Nat] /\ \A m \in Persons : stamps[m] <= stamp
      /\ \A m \in People(row.portions) : stamps[m] = stamp
  BY <1>1, Stamps DEF Rows
<1>3. Restamped(row, stamp) = IF row.there THEN new ELSE row
  BY DEF Restamped
<1>4. Dated(row, stamp)
  <2>1. Dated(old, stamp)
    BY DatedOn
  <2> QED
    BY <2>1 DEF Dated
<1> HIDE DEF stamps, stamp
<1>5. /\ new \in Rows /\ new.there = row.there /\ new.id = row.id /\ new.rev = stamp
      /\ new.who = row.who /\ new.portions = row.portions /\ new.stamps = stamps
      /\ new.servings = row.servings
  BY <1>1, <1>2 DEF Rows
<1> HIDE DEF new
<1>6. CASE row.there
  <2>1. Dated(new, stamp)
    BY <1>1, <1>2, <1>4, <1>5 DEF Dated, Rows
  <2>2. EatersFit(new, people) /\ Whole(new)
    BY <1>5 DEF EatersFit, Whole, Allocated
  <2>3. Marked(old, new, stamp)
    BY <1>2, <1>5, <1>6 DEF Marked
  <2>4. Follows(old, new, stamp, people)
    BY <1>5, <2>1, <2>2, <2>3 DEF Follows, Later
  <2> QED
    BY <1>3, <1>6, <2>4 DEF stamp
<1>7. CASE ~row.there
  <2>1. Follows(old, row, stamp, people)
    BY <1>4, <1>7 DEF Follows, Later
  <2> QED
    BY <1>3, <1>7, <2>1 DEF stamp
<1> QED
  BY <1>6, <1>7

LEMMA SharedServings ==
  ASSUME NEW row \in Rows, Whole(row), NEW before, NEW after \in Nat, after > 0
  PROVE  LET new == reDeriveSharedServings(row, before, after)
         IN  /\ new \in Rows /\ new.there = row.there /\ new.id = row.id /\ new.rev = row.rev
             /\ new.stamps = row.stamps /\ new.who = row.who /\ new.portions = row.portions
             /\ Whole(new)
<1>1. after \in Servings
  BY DEF Servings
<1> DEFINE new == [row EXCEPT !.servings = after]
<1>2. /\ new \in Rows /\ new.there = row.there /\ new.id = row.id /\ new.rev = row.rev
      /\ new.stamps = row.stamps /\ new.who = row.who /\ new.portions = row.portions
      /\ new.servings = after
  BY <1>1 DEF Rows
<1>3. \/ reDeriveSharedServings(row, before, after) = row
      \/ reDeriveSharedServings(row, before, after) = new /\ row.there
  BY DEF reDeriveSharedServings
<1> HIDE DEF new
<1>4. row.there => Whole(new)
  BY <1>2 DEF Whole
<1> QED
  BY <1>2, <1>3, <1>4

LEMMA JoinedRow ==
  ASSUME NEW row \in Rows, NEW u \in Persons, Whole(row)
  PROVE  LET new == addJoinedPortions(row, u)
         IN  /\ new \in Rows /\ new.there = row.there /\ new.id = row.id /\ new.rev = row.rev
             /\ new.stamps = row.stamps /\ new.who = row.who /\ Whole(new)
             /\ new.who # {} => new.portions = row.portions
<1> DEFINE portions == [row.portions EXCEPT ![u] = 1]
           servings == derivedPlannedServings[portions]
           new == [row EXCEPT !.portions = portions, !.servings = servings]
<1>1. portions \in [Persons -> Units]
  BY UnitsHere DEF Rows
<1>2. servings \in Servings /\ servings > 0
  <2>1. portions[u] = 1 /\ Nothing[u] = 0
    BY DEF Rows, Nothing
  <2> QED
    BY <1>1, <2>1, SumOf
<1>3. \/ addJoinedPortions(row, u) = row
      \/ row.who = {} /\ row.there /\ addJoinedPortions(row, u) = new
  BY DEF addJoinedPortions, Whole
<1> HIDE DEF portions, servings
<1>4. /\ new \in Rows /\ new.there = row.there /\ new.id = row.id /\ new.rev = row.rev
      /\ new.stamps = row.stamps /\ new.who = row.who /\ new.servings = servings
  BY <1>1, <1>2 DEF Rows
<1> HIDE DEF new
<1>5. CASE addJoinedPortions(row, u) = row
  BY <1>5
<1>6. CASE row.who = {} /\ row.there /\ addJoinedPortions(row, u) = new
  BY <1>2, <1>4, <1>6 DEF Whole
<1> QED
  BY <1>3, <1>5, <1>6

\* The household changes; phones and requests know nothing of it.
LEMMA RosterMoves ==
  ASSUME WeekInv, roster' \in SUBSET Persons, revision' \in {revision, revision + 1},
         revision' = revision => item' = item, item' \in [Recipes -> Rows],
         \A r \in Recipes : Follows(item[r], item'[r], revision + 1, roster'),
         UNCHANGED <<view, gate>>
  PROVE  WeekInv'
BY WeekHas, WeekMoves

LEMMA JoinKeeps ==
  ASSUME WeekInv, NEW u \in Persons, Join(u)
  PROVE  WeekInv'
<1> DEFINE count == Cardinality(roster)
           people == roster \union {u}
           Joined(r) == addJoinedPortions(reDeriveSharedServings(item[r], count, count + 1), u)
           new == [r \in Recipes |-> Joined(r)]
           stamped == [r \in Recipes |-> Restamped(new[r], revision + 1)]
<1>1. roster \in SUBSET Persons /\ revision \in Nat /\ item \in [Recipes -> Rows]
  BY WeekHas
<1>2. count \in Nat /\ count + 1 \in Nat /\ count + 1 > 0
  BY <1>1, Counted
<1>3. /\ item' = IF new = item THEN item ELSE stamped
      /\ revision' = IF new = item THEN revision ELSE revision + 1
      /\ roster' = people /\ UNCHANGED <<view, gate>>
  BY DEF Join
<1> HIDE DEF count
<1>4. ASSUME NEW r \in Recipes
      PROVE  /\ Follows(item[r], item[r], revision + 1, people)
             /\ Follows(item[r], Restamped(Joined(r), revision + 1), revision + 1, people)
  <2> DEFINE row == reDeriveSharedServings(item[r], count, count + 1)
             last == addJoinedPortions(row, u)
  <2>1. item[r] \in Rows /\ Dated(item[r], revision) /\ Whole(item[r]) /\ EatersFit(item[r], roster)
    BY WeekHas
  <2>2. /\ row \in Rows /\ row.there = item[r].there /\ row.id = item[r].id /\ row.rev = item[r].rev
        /\ row.stamps = item[r].stamps /\ row.who = item[r].who /\ row.portions = item[r].portions
    BY <1>2, <2>1, SharedServings
  <2>3. Whole(row)
    BY <1>2, <2>1, SharedServings
  <2> HIDE DEF row
  <2>4. /\ last \in Rows /\ last.there = row.there /\ last.id = row.id /\ last.rev = row.rev
        /\ last.stamps = row.stamps /\ last.who = row.who /\ Whole(last)
        /\ last.who # {} => last.portions = row.portions
    BY <2>2, <2>3, JoinedRow
  <2> HIDE DEF last
  <2>5. EatersFit(last, people) /\ EatersFit(item[r], people)
    BY <2>1, <2>2, <2>4 DEF EatersFit, Allocated
  <2>6. Follows(item[r], Restamped(last, revision + 1), revision + 1, people)
    BY <1>1, <2>1, <2>2, <2>4, <2>5, RestampedFollows
  <2>7. Follows(item[r], item[r], revision + 1, people)
    BY <1>1, <2>1, <2>5, DatedOn DEF Follows, Later
  <2> QED
    BY <2>6, <2>7 DEF last, row
<1>5. \A r \in Recipes : stamped[r] = Restamped(Joined(r), revision + 1)
  OBVIOUS
<1> HIDE DEF Joined, new
<1>6. \A r \in Recipes : Follows(item[r], stamped[r], revision + 1, people) /\ stamped[r] \in Rows
  BY <1>4, <1>5 DEF Follows
<1>7. stamped \in [Recipes -> Rows]
  <2> SUFFICES \A r \in Recipes : Restamped(new[r], revision + 1) \in Rows
    OBVIOUS
  <2> QED
    BY <1>6
<1> HIDE DEF stamped
<1>8. people \in SUBSET Persons
  BY <1>1
<1>9. CASE new = item
  BY <1>1, <1>3, <1>4, <1>8, <1>9, RosterMoves
<1>10. CASE new # item
  BY <1>1, <1>3, <1>6, <1>7, <1>8, <1>10, RosterMoves
<1> QED
  BY <1>9, <1>10

\* One meal without somebody who leaves.
LEMMA ParticipantGone ==
  ASSUME NEW row \in Rows, NEW u \in Persons, Whole(row), row.who # {u}
  PROVE  LET new == WithoutParticipant(row, u)
         IN  /\ new \in Rows /\ new.there = row.there /\ new.id = row.id /\ new.rev = row.rev
             /\ new.stamps = row.stamps /\ new.who = row.who \ {u} /\ new.portions = row.portions
             /\ Whole(new)
<1> DEFINE who == row.who \ {u}
           servings == IF ~Allocated(row) /\ row.servings = Cardinality(row.who)
                       THEN row.servings - 1 ELSE row.servings
           new == [row EXCEPT !.who = who, !.servings = servings]
<1>1. row.who \in SUBSET Persons /\ row.servings \in Servings
  BY DEF Rows
<1>2. CASE u \notin row.who
  <2>1. WithoutParticipant(row, u) = row /\ row.who = row.who \ {u}
    BY <1>2 DEF WithoutParticipant
  <2> QED
    BY <2>1
<1>3. CASE u \in row.who
  <2>1. WithoutParticipant(row, u) = new
    BY <1>3 DEF WithoutParticipant, Rows
  <2>2. IsFiniteSet(row.who)
    BY <1>1, Counted
  <2>3. Cardinality(row.who) - 1 = Cardinality(row.who \ {u})
    BY <1>3, <2>2, FS_RemoveElement
  <2>4. Cardinality(row.who) - 1 \in Nat /\ Cardinality(row.who) - 1 > 0
    <3>1. row.who \ {u} # {} /\ row.who \ {u} \in SUBSET Persons
      BY <1>1, <1>3
    <3> QED
      BY <2>3, <3>1, Counted
  <2>5. servings \in Servings /\ (servings > 0 <=> row.servings > 0)
    BY <1>1, <2>4 DEF Servings
  <2>6. who \in SUBSET Persons
    BY <1>1
  <2> HIDE DEF servings, who
  <2>7. /\ new \in Rows /\ new.there = row.there /\ new.id = row.id /\ new.rev = row.rev
        /\ new.stamps = row.stamps /\ new.who = who /\ new.portions = row.portions
        /\ new.servings = servings
    BY <2>5, <2>6 DEF Rows
  <2> HIDE DEF new
  <2>8. Whole(new)
    BY <2>5, <2>7 DEF Whole, Allocated
  <2> QED
    BY <2>1, <2>7, <2>8 DEF who
<1> QED
  BY <1>2, <1>3

LEMMA PortionsGone ==
  ASSUME NEW row \in Rows, NEW u \in Persons, Whole(row)
  PROVE  LET new == removeLeavingPortions(row, u)
         IN  /\ new \in Rows /\ new.there = row.there /\ new.id = row.id /\ new.rev = row.rev
             /\ new.stamps = row.stamps /\ new.who = row.who
             /\ People(new.portions) = People(row.portions) \ {u} /\ Whole(new)
<1> DEFINE portions == [row.portions EXCEPT ![u] = 0]
           servings == IF row.portions[u] > 0 /\ portions # Nothing
                       THEN derivedPlannedServings[portions] ELSE row.servings
           new == [row EXCEPT !.portions = portions, !.servings = servings]
<1>1. row.portions \in [Persons -> Units] /\ row.servings \in Servings
  BY DEF Rows
<1>2. portions \in [Persons -> Units]
  BY <1>1, UnitsHere
<1>3. servings \in Servings /\ (servings > 0 <=> row.servings > 0)
  <2>1. row.portions[u] > 0 => row.servings > 0
    BY DEF Whole, Allocated, People
  <2> QED
    BY <1>1, <1>2, <2>1, SumOf
<1>4. People(portions) = People(row.portions) \ {u}
  <2>1. portions[u] = 0 /\ \A m \in Persons \ {u} : portions[m] = row.portions[m]
    BY <1>1
  <2> HIDE DEF portions
  <2> QED
    BY <1>1, <1>2, <2>1, PeopleOf
<1>5. removeLeavingPortions(row, u) = new
  BY DEF removeLeavingPortions, Rows
<1> HIDE DEF portions, servings
<1>6. /\ new \in Rows /\ new.there = row.there /\ new.id = row.id /\ new.rev = row.rev
      /\ new.stamps = row.stamps /\ new.who = row.who /\ new.portions = portions
      /\ new.servings = servings
  BY <1>2, <1>3 DEF Rows
<1> HIDE DEF new
<1>7. Whole(new)
  BY <1>3, <1>4, <1>6 DEF Whole, Allocated
<1> QED
  BY <1>4, <1>5, <1>6, <1>7

LEMMA LeaveKeeps ==
  ASSUME WeekInv, NEW u \in Persons, Leave(u)
  PROVE  WeekInv'
<1> DEFINE count == Cardinality(roster)
           people == roster \ {u}
           Left1(row) == reDeriveSharedServings(
                            removeLeavingPortions(WithoutParticipant(row, u), u), count, count - 1)
           Without(row) == IF row.who = {u} THEN NoItem ELSE Left1(row)
           new == [r \in Recipes |-> Restamped(Without(item[r]), revision + 1)]
<1>1. /\ roster \in SUBSET Persons /\ revision \in Nat /\ item \in [Recipes -> Rows]
      /\ revision + 1 \in Nat
  BY WeekHas
<1>2. count - 1 \in Nat /\ count - 1 > 0
  <2>1. IsFiniteSet(roster) /\ people \in SUBSET Persons
    BY <1>1, Counted
  <2>2. u \in roster /\ people # {}
    BY DEF Leave
  <2>3. count - 1 = Cardinality(people)
    BY <2>1, <2>2, FS_RemoveElement
  <2> QED
    BY <2>1, <2>2, <2>3, Counted
<1>3. item' = new /\ revision' = revision + 1 /\ roster' = people /\ UNCHANGED <<view, gate>>
  BY DEF Leave
<1> HIDE DEF count
<1>4. ASSUME NEW r \in Recipes
      PROVE  Follows(item[r], Restamped(Without(item[r]), revision + 1), revision + 1, people)
  <2> DEFINE old == item[r]
  <2>1. old \in Rows /\ Dated(old, revision) /\ Whole(old) /\ EatersFit(old, roster)
    BY WeekHas
  <2>2. CASE old.who = {u}
    <3>1. Without(old) = NoItem /\ Restamped(NoItem, revision + 1) = NoItem
      BY <2>2 DEF Restamped, NoItem
    <3> QED
      BY <1>1, <3>1, NoItemFollows
  <2>3. CASE old.who # {u}
    <3> DEFINE bare == WithoutParticipant(old, u)
               less == removeLeavingPortions(bare, u)
               last == reDeriveSharedServings(less, count, count - 1)
    <3>1. /\ bare \in Rows /\ bare.there = old.there /\ bare.id = old.id /\ bare.rev = old.rev
          /\ bare.stamps = old.stamps /\ bare.who = old.who \ {u} /\ bare.portions = old.portions
          /\ Whole(bare)
      BY <2>1, <2>3, ParticipantGone
    <3>2. Without(old) = last
      BY <2>3
    <3> HIDE DEF bare
    <3>3. /\ less \in Rows /\ less.there = bare.there /\ less.id = bare.id /\ less.rev = bare.rev
          /\ less.stamps = bare.stamps /\ less.who = bare.who
          /\ People(less.portions) = People(bare.portions) \ {u} /\ Whole(less)
      BY <3>1, PortionsGone
    <3> HIDE DEF less
    <3>4. /\ last \in Rows /\ last.there = less.there /\ last.id = less.id /\ last.rev = less.rev
          /\ last.stamps = less.stamps /\ last.who = less.who /\ last.portions = less.portions
          /\ Whole(last)
      BY <1>2, <3>3, SharedServings
    <3> HIDE DEF last
    <3>5. last.who = old.who \ {u} /\ People(last.portions) = People(old.portions) \ {u}
      BY <3>1, <3>3, <3>4
    <3>7. EatersFit(last, people)
      BY <2>1, <3>5 DEF EatersFit, Allocated
    <3>8. Follows(old, Restamped(last, revision + 1), revision + 1, people)
      BY <1>1, <2>1, <3>1, <3>3, <3>4, <3>7, RestampedFollows
    <3> QED
      BY <3>2, <3>8
  <2> QED
    BY <2>2, <2>3
<1>5. \A r \in Recipes : new[r] = Restamped(Without(item[r]), revision + 1)
  OBVIOUS
<1>6. \A r \in Recipes : Restamped(Without(item[r]), revision + 1) \in Rows
  BY <1>4 DEF Follows
<1> HIDE DEF Without
<1>7. new \in [Recipes -> Rows] /\ \A r \in Recipes : Follows(item[r], new[r], revision + 1, people)
  BY <1>4, <1>6
<1> HIDE DEF new
<1> QED
  BY <1>1, <1>3, <1>7, RosterMoves

-----------------------------------------------------------------------------
(* The week: a slot is written                                             *)

LEMMA NormalFits ==
  ASSUME NEW members \in SUBSET Persons, NEW asked \in SUBSET Persons
  PROVE  /\ Normal(asked, members) \in SUBSET Persons
         /\ Normal(asked, members) \subseteq asked
BY DEF Normal

LEMMA AskedIsNumber ==
  ASSUME NEW servings \in AskedServings \union {0}
  PROVE  servings \in Servings
BY PlanAssumption DEF Servings

LEMMA SourceIsRow ==
  ASSUME WeekInv, NEW r \in Recipes, NEW from \in Recipes
  PROVE  LET source == IF from # r THEN item[from] ELSE NoItem
         IN  /\ source \in Rows /\ Whole(source) /\ source.who \subseteq roster
             /\ source.there => from # r /\ source = item[from]
<1>1. NoItem \in Rows /\ Whole(NoItem) /\ NoItem.who = {} /\ ~NoItem.there
  <2>1. NoItem \in Rows /\ Whole(NoItem)
    BY NoItemFollows DEF Follows
  <2> QED
    BY <2>1 DEF NoItem
<1>2. item[from] \in Rows /\ Whole(item[from]) /\ item[from].who \subseteq roster
  BY WeekHas DEF EatersFit
<1> QED
  BY <1>1, <1>2

\* What an upsert asks for, and what it leaves in the slot.
Upserts(u, r, from, w, new, token) ==
    LET members == gate[u]
        source == IF from # r THEN item[from] ELSE NoItem
        policy == IF token /\ (from # r => view[u].item[r].there) THEN "verified" ELSE "strict"
    IN  /\ members # {} /\ Wanted(w, members) /\ w.who \subseteq roster
        /\ w.intent \in Intents
        /\ new = IF item[r].there THEN Written(item[r], w, policy, Cardinality(members), revision + 1)
                 ELSE Created(source, w, Cardinality(members), revision + 1)
        /\ token => IF from # r THEN SourceFound(u, r, from)
                    ELSE view[u].item[r].there /\ item[r].there
        /\ item[r].there => Decision(item[r], w, policy) # "refuse"
        /\ item[r].there /\ token /\ from = r /\ view[u].item[r].rev # item[r].rev => new = item[r]
        /\ from # r /\ ~token /\ Allocated(item[from]) /\ item[from].there =>
              w.intent = "replace" /\ w.portions = item[from].portions
        /\ Write(u, [item EXCEPT ![from] = NoItem, ![r] = new], {r, from})

LEMMA UpsertIs ==
  ASSUME WeekInv, NEW u \in Persons, Upsert(u)
  PROVE  \E r, from \in Recipes, token \in BOOLEAN : \E w, new : Upserts(u, r, from, w, new, token)
<1> DEFINE members == gate[u]
           count == Cardinality(members)
           stamp == revision + 1
<1>1. PICK r \in Recipes, from \in Recipes, asked \in SUBSET gate[u], carry \in BOOLEAN,
           servings \in AskedServings \union {0}, intent \in Intents, token \in BOOLEAN :
        /\ carry => from # r /\ asked = {}
        /\ Normal(asked, gate[u]) \subseteq roster
        /\ UpsertSlot(u, r, from, asked, carry, servings, intent, token)
  BY DEF Upsert
<1> DEFINE source == IF from # r THEN item[from] ELSE NoItem
           who == IF source.there /\ carry THEN CarriedWho(source, members)
                  ELSE Normal(asked, members)
           carried == source.there /\ intent = "preserve" /\ Allocated(source)
           policy == IF token /\ (from # r => view[u].item[r].there) THEN "verified" ELSE "strict"
           audience == Audience(who, members)
           wish == IF carried THEN "replace" ELSE intent
<1>2. members \in SUBSET Persons /\ asked \in SUBSET Persons /\ roster \in SUBSET Persons
  BY WeekHas
<1>3. source \in Rows /\ source.who \subseteq roster /\ (source.there => from # r /\ source = item[from])
  BY SourceIsRow
<1>4. who \in SUBSET Persons /\ who \subseteq roster
  <2>1. CarriedWho(source, members) \in SUBSET Persons /\ CarriedWho(source, members) \subseteq roster
    <3>1. source.who \intersect members \in SUBSET Persons
      BY <1>2
    <3> QED
      BY <1>2, <1>3, <3>1, NormalFits DEF CarriedWho
  <2>2. Normal(asked, members) \in SUBSET Persons /\ Normal(asked, members) \subseteq roster
    BY <1>1, <1>2, NormalFits
  <2> QED
    BY <2>1, <2>2
<1>5. servings \in Servings
  BY AskedIsNumber
<1>6. PICK portions \in (IF carried THEN {remapPortions(source.portions, audience)}
                         ELSE Portions(intent, audience)) :
        LET w == Wants(who, servings, portions, wish, members)
            new == IF item[r].there THEN Written(item[r], w, policy, count, stamp)
                   ELSE Created(source, w, count, stamp)
        IN /\ token => IF from # r THEN SourceFound(u, r, from)
                       ELSE view[u].item[r].there /\ item[r].there
           /\ from # r => SourceAllows(source, [w EXCEPT !.intent = intent], token)
           /\ item[r].there => Over(u, r, w, policy,
                                    token /\ from = r /\ view[u].item[r].rev # item[r].rev, new)
           /\ Write(u, [item EXCEPT ![from] = NoItem, ![r] = new], {r, from})
  BY <1>1 DEF UpsertSlot
<1> DEFINE w == Wants(who, servings, portions, wish, members)
           new == IF item[r].there THEN Written(item[r], w, policy, count, stamp)
                  ELSE Created(source, w, count, stamp)
<1>7. audience \in SUBSET Persons
  BY <1>2, <1>4 DEF Audience
<1>8. /\ portions \in [Persons -> Units] /\ (portions = Nothing \/ People(portions) = audience)
      /\ ~carried => (intent # "replace" => portions = Nothing)
  <2>1. CASE carried
    <3>1. source.portions \in [Persons -> Units]
      BY <1>3 DEF Rows
    <3> QED
      BY <1>7, <2>1, <3>1, Remapped
  <2>2. CASE ~carried
    BY <1>7, <2>2, PortionsFit
  <2> QED
    BY <2>1, <2>2
<1>9. /\ Wanted(w, members) /\ w.who = who /\ w.portions = portions /\ w.intent = wish
      /\ w.servings = servings
  BY <1>2, <1>4, <1>5, <1>8, WantsFits
<1>10. /\ [w EXCEPT !.intent = intent].intent = intent
       /\ [w EXCEPT !.intent = intent].portions = portions
  BY DEF Wants
<1>11. wish \in Intents
  BY DEF Intents
<1>12. from # r /\ ~token /\ Allocated(item[from]) /\ item[from].there =>
          w.intent = "replace" /\ w.portions = item[from].portions
  <2> SUFFICES ASSUME from # r, ~token, Allocated(item[from]), item[from].there
               PROVE  w.intent = "replace" /\ w.portions = item[from].portions
    OBVIOUS
  <2>1. source = item[from]
    OBVIOUS
  <2>2. SourceAllows(source, [w EXCEPT !.intent = intent], token)
    BY <1>6
  <2>3. /\ intent \notin {"preserve", "legacy", "reset"}
        /\ intent = "replace" => portions = item[from].portions
    BY <1>10, <2>1, <2>2 DEF SourceAllows
  <2>4. intent = "replace"
    BY <2>3 DEF Intents
  <2> QED
    BY <1>9, <2>3, <2>4
<1>13. item[r].there => Over(u, r, w, policy, token /\ from = r /\ view[u].item[r].rev # item[r].rev, new)
  BY <1>6
<1>14. item[r].there =>
         /\ Decision(item[r], w, policy) # "refuse"
         /\ token /\ from = r /\ view[u].item[r].rev # item[r].rev => new = item[r]
  <2> SUFFICES ASSUME item[r].there
               PROVE  /\ Decision(item[r], w, policy) # "refuse"
                      /\ token /\ from = r /\ view[u].item[r].rev # item[r].rev => new = item[r]
    OBVIOUS
  <2>1. CASE Decision(item[r], w, policy) = "keep"
    <3>1. new = item[r]
      BY <2>1 DEF Written
    <3> QED
      BY <2>1, <3>1
  <2>2. CASE Decision(item[r], w, policy) # "keep"
    BY <1>13, <2>2 DEF Over
  <2> QED
    BY <2>1, <2>2
<1>15. Write(u, [item EXCEPT ![from] = NoItem, ![r] = new], {r, from})
  BY <1>6
<1>16. token => IF from # r THEN SourceFound(u, r, from)
                ELSE view[u].item[r].there /\ item[r].there
  BY <1>6
<1>17. Upserts(u, r, from, w, new, token)
  <2>1. members # {}
    BY DEF Upsert
  <2> HIDE DEF w, who, wish
  <2> QED
    BY <2>1, <1>4, <1>9, <1>11, <1>12, <1>14, <1>15, <1>16 DEF Upserts
<1> QED
  BY <1>17

LEMMA UpsertRows ==
  ASSUME WeekInv, NEW u \in Persons, NEW r \in Recipes, NEW from \in Recipes, NEW w, NEW new,
         NEW token, Upserts(u, r, from, w, new, token)
  PROVE  Follows(item[r], new, revision + 1, roster)
<1> DEFINE members == gate[u]
           source == IF from # r THEN item[from] ELSE NoItem
           policy == IF token /\ (from # r => view[u].item[r].there) THEN "verified" ELSE "strict"
<1>1. /\ members # {} /\ Wanted(w, members) /\ w.who \subseteq roster
      /\ new = IF item[r].there THEN Written(item[r], w, policy, Cardinality(members), revision + 1)
               ELSE Created(source, w, Cardinality(members), revision + 1)
  BY DEF Upserts
<1>2. /\ members \in SUBSET Persons /\ roster \in SUBSET Persons /\ revision \in Nat
      /\ item[r] \in Rows /\ Dated(item[r], revision) /\ Whole(item[r])
      /\ EatersFit(item[r], roster)
  BY WeekHas
<1>3. /\ Cardinality(members) \in Nat /\ Cardinality(members) > 0
      /\ source \in Rows /\ Whole(source)
  BY <1>1, <1>2, Counted, SourceIsRow
<1> HIDE DEF members, source, policy
<1>4. CASE item[r].there
  BY <1>1, <1>2, <1>3, <1>4, WrittenFollows
<1>5. CASE ~item[r].there
  BY <1>1, <1>2, <1>3, <1>5, CreatedFollows
<1> QED
  BY <1>4, <1>5

LEMMA UpsertKeeps ==
  ASSUME WeekInv, NEW u \in Persons, Upsert(u)
  PROVE  WeekInv'
<1>1. PICK r \in Recipes, from \in Recipes, token \in BOOLEAN :
        \E w, new : Upserts(u, r, from, w, new, token)
  BY UpsertIs
<1>0. PICK w, new : Upserts(u, r, from, w, new, token)
  BY <1>1
<1> DEFINE rows == [item EXCEPT ![from] = NoItem, ![r] = new]
<1>2. Write(u, rows, {r, from})
  BY <1>0 DEF Upserts
<1>3. Follows(item[r], new, revision + 1, roster)
  BY <1>0, UpsertRows
<1>4. item \in [Recipes -> Rows] /\ revision + 1 \in Nat /\ NoItem \in Rows /\ new \in Rows
  <2>1. item \in [Recipes -> Rows] /\ revision + 1 \in Nat
    BY WeekHas
  <2>2. NoItem \in Rows
    BY NoItemFollows DEF Follows
  <2>3. new \in Rows
    BY <1>3 DEF Follows
  <2> QED
    BY <2>1, <2>2, <2>3
<1>5. rows \in [Recipes -> Rows]
  BY <1>4
<1>6. \A q \in Recipes : rows[q] = IF q = r THEN new ELSE IF q = from THEN NoItem ELSE item[q]
  BY <1>4
<1> HIDE DEF rows
<1>7. ASSUME NEW q \in Recipes PROVE Follows(item[q], rows[q], revision + 1, roster)
  BY <1>3, <1>4, <1>6, NoItemFollows, RowStays
<1> QED
  BY <1>2, <1>5, <1>7, WriteKeeps

-----------------------------------------------------------------------------
(* The week: the whole of it is written                                    *)

LEMMA SettledFits ==
  ASSUME NEW q \in Recipes, NEW asked \in SUBSET Persons, NEW members \in SUBSET Persons
  PROVE  settleParticipants(q, asked, members) \in SUBSET Persons
BY NormalFits DEF settleParticipants

\* Every slot a request may hold is a wish of its members.
LEMMA SlotsFit ==
  ASSUME WeekInv, NEW u \in Persons, NEW r \in Recipes, NEW w \in Slots(u, r)
  PROVE  Wanted(w, gate[u]) /\ w.intent \in Intents
<1> DEFINE members == gate[u]
<1>1. members \in SUBSET Persons
  BY WeekHas
<1>2. PICK asked \in SUBSET members, servings \in {0, view[u].item[r].servings}, intent \in Intents :
        w \in LET who == settleParticipants(r, asked, members)
              IN {Wants(who, servings, portions, intent, members) :
                     portions \in Portions(intent, Audience(who, members))}
  BY DEF Slots
<1> DEFINE who == settleParticipants(r, asked, members)
<1>3. PICK portions \in Portions(intent, Audience(who, members)) :
        w = Wants(who, servings, portions, intent, members)
  BY <1>2
<1>4. who \in SUBSET Persons
  BY <1>1, SettledFits
<1>5. servings \in Servings
  <2>1. view[u].item[r].servings \in Servings /\ 0 \in Servings
    <3>1. view[u].item[r] \in Rows
      BY WeekHas
    <3> QED
      BY <3>1 DEF Rows, Servings
  <2> QED
    BY <2>1
<1> HIDE DEF who
<1>6. Audience(who, members) \in SUBSET Persons
  BY <1>1, <1>4 DEF Audience
<1>7. portions \in [Persons -> Units] /\ (portions = Nothing \/ People(portions) = Audience(who, members))
  BY <1>6, PortionsFit
<1>8. Wanted(Wants(who, servings, portions, intent, members), members)
      /\ Wants(who, servings, portions, intent, members).intent = intent
  BY <1>1, <1>4, <1>5, <1>7, WantsFits
<1> QED
  BY <1>3, <1>8

LEMMA SeenFits ==
  ASSUME WeekInv, NEW u \in Persons, NEW q \in Recipes, NEW w \in AsSeen(u, q), w # Absent
  PROVE  Wanted(w, gate[u]) /\ w.intent \in Intents
<1> DEFINE members == gate[u]
           seen == view[u].item[q]
           who == settleParticipants(q, seen.who, members)
<1>1. members \in SUBSET Persons /\ seen \in Rows
  BY WeekHas
<1>2. who \in SUBSET Persons /\ seen.servings \in Servings
  BY <1>1, SettledFits DEF Rows
<1>3. Audience(who, members) \in SUBSET Persons
  BY <1>1, <1>2 DEF Audience
<1>4. \/ w = Wants(who, seen.servings, Nothing, "legacy", members)
      \/ \E portions \in {seen.portions} \intersect Allocations[Audience(who, members)] :
            w = Wants(who, seen.servings, portions, "replace", members)
  BY DEF AsSeen
<1> HIDE DEF who
<1>5. CASE w = Wants(who, seen.servings, Nothing, "legacy", members)
  <2>1. Wanted(Wants(who, seen.servings, Nothing, "legacy", members), members)
        /\ Wants(who, seen.servings, Nothing, "legacy", members).intent = "legacy"
    BY <1>1, <1>2, UnitsHere, WantsFits
  <2> QED
    BY <1>5, <2>1 DEF Intents
<1>6. ASSUME NEW portions \in {seen.portions} \intersect Allocations[Audience(who, members)],
             w = Wants(who, seen.servings, portions, "replace", members)
      PROVE  Wanted(w, members) /\ w.intent \in Intents
  <2>1. portions \in [Persons -> Units] /\ People(portions) = Audience(who, members)
    BY <1>3 DEF Allocations
  <2>2. Wanted(Wants(who, seen.servings, portions, "replace", members), members)
        /\ Wants(who, seen.servings, portions, "replace", members).intent = "replace"
    BY <1>1, <1>2, <2>1, WantsFits
  <2> QED
    BY <1>6, <2>2 DEF Intents
<1> QED
  BY <1>4, <1>5, <1>6

\* What an applied week asks for, and under which rule.
Applies(u, desired, mode, token) ==
    LET policy == Policy(mode, token)
        new == [q \in Recipes |-> After(q, desired[q], policy, Cardinality(gate[u]), revision + 1)]
    IN  /\ gate[u] # {} /\ mode \in {"plain", "forced", "guarded", "undone"}
        /\ token => mode = "plain" /\ view[u].revision = revision
        /\ mode \in {"guarded", "undone"} => \A q \in Recipes : Meal(item[q]) = Meal(view[u].item[q])
        /\ \A q \in Recipes :
              /\ desired[q] # Absent => Wanted(desired[q], gate[u]) /\ desired[q].intent \in Intents
              /\ desired[q].who \subseteq roster
              /\ SlotAllowed(q, desired[q], policy)
        /\ Write(u, new, {})

LEMMA ApplyIs ==
  ASSUME WeekInv, NEW u \in Persons, ApplyWeekPlan(u)
  PROVE  \E mode \in {"plain", "forced", "guarded", "undone"}, token \in BOOLEAN :
            \E desired : Applies(u, desired, mode, token)
<1>1. PICK r \in Recipes, mode \in {"plain", "forced", "guarded", "undone"}, token \in BOOLEAN :
        /\ token => mode = "plain" /\ view[u].revision = revision
        /\ mode \in {"guarded", "undone"} => \A q \in Recipes : Meal(item[q]) = Meal(view[u].item[q])
        /\ \E slot \in Slots(u, r) \union {Absent},
              rest \in UNION {AsSeen(u, q) : q \in Recipes \ {r}} \union {Absent} :
              LET desired == [q \in Recipes |-> IF q = r THEN slot ELSE rest]
              IN /\ \A q \in Recipes \ {r} : rest \in AsSeen(u, q)
                 /\ \A q \in Recipes : /\ desired[q].who \subseteq roster
                                       /\ SlotAllowed(q, desired[q], Policy(mode, token))
                 /\ Write(u, [q \in Recipes |-> After(q, desired[q], Policy(mode, token),
                                                      Cardinality(gate[u]), revision + 1)], {})
  BY DEF ApplyWeekPlan
<1>2. PICK slot \in Slots(u, r) \union {Absent},
           rest \in UNION {AsSeen(u, q) : q \in Recipes \ {r}} \union {Absent} :
        LET desired == [q \in Recipes |-> IF q = r THEN slot ELSE rest]
        IN /\ \A q \in Recipes \ {r} : rest \in AsSeen(u, q)
           /\ \A q \in Recipes : /\ desired[q].who \subseteq roster
                                 /\ SlotAllowed(q, desired[q], Policy(mode, token))
           /\ Write(u, [q \in Recipes |-> After(q, desired[q], Policy(mode, token),
                                                Cardinality(gate[u]), revision + 1)], {})
  BY <1>1
<1> DEFINE desired == [q \in Recipes |-> IF q = r THEN slot ELSE rest]
<1>3. ASSUME NEW q \in Recipes, desired[q] # Absent
      PROVE  Wanted(desired[q], gate[u]) /\ desired[q].intent \in Intents
  <2>1. CASE q = r
    <3>1. desired[q] = slot /\ slot \in Slots(u, r)
      BY <1>3, <2>1
    <3> QED
      BY <3>1, SlotsFit
  <2>2. CASE q # r
    <3>1. desired[q] = rest /\ rest \in AsSeen(u, q)
      BY <1>2, <2>2
    <3> QED
      BY <1>3, <3>1, SeenFits
  <2> QED
    BY <2>1, <2>2
<1>4. Applies(u, desired, mode, token)
  <2> HIDE DEF desired
  <2>1. /\ \A q \in Recipes : desired[q].who \subseteq roster
                              /\ SlotAllowed(q, desired[q], Policy(mode, token))
        /\ Write(u, [q \in Recipes |-> After(q, desired[q], Policy(mode, token),
                                             Cardinality(gate[u]), revision + 1)], {})
    BY <1>2 DEF desired
  <2>2. gate[u] # {}
    BY DEF ApplyWeekPlan
  <2> QED
    BY <1>1, <1>3, <2>1, <2>2 DEF Applies
<1> QED
  BY <1>4

LEMMA AfterFollows ==
  ASSUME WeekInv, NEW u \in Persons, NEW desired, NEW mode, NEW token,
         Applies(u, desired, mode, token), NEW q \in Recipes
  PROVE  Follows(item[q], After(q, desired[q], Policy(mode, token), Cardinality(gate[u]), revision + 1),
                 revision + 1, roster)
<1> DEFINE members == gate[u]
           policy == Policy(mode, token)
           w == desired[q]
           count == Cardinality(members)
<1>1. (w # Absent => Wanted(w, members)) /\ w.who \subseteq roster /\ members # {}
  BY DEF Applies
<1>2. /\ members \in SUBSET Persons /\ roster \in SUBSET Persons /\ revision \in Nat
      /\ item[q] \in Rows /\ Dated(item[q], revision) /\ EatersFit(item[q], roster)
      /\ Whole(item[q]) /\ revision + 1 \in Nat
  BY WeekHas
<1>3. count \in Nat /\ count > 0
  BY <1>1, <1>2, Counted
<1>4. NoItem \in Rows /\ Whole(NoItem)
  BY NoItemFollows DEF Follows
<1> HIDE DEF members, policy, w, count
<1>5. CASE w = Absent
  BY <1>2, <1>5, NoItemFollows DEF After, w
<1>6. CASE w # Absent /\ item[q].there
  <2>1. Follows(item[q], Written(item[q], w, policy, count, revision + 1), revision + 1, roster)
    BY <1>1, <1>2, <1>3, <1>6, WrittenFollows
  <2> QED
    BY <1>6, <2>1 DEF After, w, policy, count, members
<1>7. CASE w # Absent /\ ~item[q].there
  <2>1. Follows(item[q], Created(NoItem, w, count, revision + 1), revision + 1, roster)
    BY <1>1, <1>2, <1>3, <1>4, <1>7, CreatedFollows
  <2> QED
    BY <1>7, <2>1 DEF After, w, count, members
<1> QED
  BY <1>5, <1>6, <1>7

LEMMA ApplyKeeps ==
  ASSUME WeekInv, NEW u \in Persons, ApplyWeekPlan(u)
  PROVE  WeekInv'
<1>1. PICK mode \in {"plain", "forced", "guarded", "undone"}, token \in BOOLEAN :
        \E desired : Applies(u, desired, mode, token)
  BY ApplyIs
<1>2. PICK desired : Applies(u, desired, mode, token)
  BY <1>1
<1> DEFINE new == [q \in Recipes |-> After(q, desired[q], Policy(mode, token),
                                           Cardinality(gate[u]), revision + 1)]
<1>3. Write(u, new, {})
  BY <1>2 DEF Applies
<1>4. ASSUME NEW q \in Recipes PROVE Follows(item[q], new[q], revision + 1, roster)
  BY <1>2, AfterFollows
<1>5. \A q \in Recipes : new[q] \in Rows
  BY <1>4 DEF Follows
<1>6. new \in [Recipes -> Rows]
  BY <1>5
<1> HIDE DEF new
<1> QED
  BY <1>3, <1>4, <1>6, WriteKeeps

-----------------------------------------------------------------------------
(* The week: every step                                                    *)

LEMMA InitWeek ==
  PlanInit => WeekInv
<1> SUFFICES ASSUME PlanInit PROVE WeekInv
  OBVIOUS
<1>1. /\ roster \in SUBSET Persons /\ roster # {} /\ revision = 0
      /\ item = [r \in Recipes |-> IF r \in FirstMeals THEN SharedMeal(roster) ELSE NoItem]
      /\ view = [u \in Persons |-> [revision |-> 0, item |-> item]]
      /\ gate = [u \in Persons |-> {}]
  BY PlanAssumption DEF PlanInit
<1>2. NoItem \in Rows /\ Dated(NoItem, 0) /\ Whole(NoItem) /\ EatersFit(NoItem, roster)
  BY NoItemFollows DEF Follows
<1>3. /\ SharedMeal(roster) \in Rows /\ Dated(SharedMeal(roster), 0) /\ Whole(SharedMeal(roster))
      /\ EatersFit(SharedMeal(roster), roster)
  <2> DEFINE portions == [m \in Persons |-> IF m \in roster THEN 1 ELSE 0]
             servings == Cardinality(roster)
             row == [there |-> TRUE, id |-> 0, rev |-> 0, who |-> {},
                     servings |-> servings, stamps |-> Nothing, portions |-> portions]
  <2>1. portions \in [Persons -> Units]
    BY UnitsHere
  <2>2. servings \in Servings /\ servings > 0
    BY <1>1, Counted
  <2>3. Nothing \in [Persons -> Nat] /\ \A m \in Persons : Nothing[m] = 0
    BY DEF Nothing
  <2>4. SharedMeal(roster) = row
    BY DEF SharedMeal
  <2> HIDE DEF portions, servings
  <2>5. row \in Rows /\ row.there /\ row.id = 0 /\ row.rev = 0 /\ row.who = {} /\ row.stamps = Nothing
        /\ row.servings = servings
    BY <2>1, <2>2, <2>3 DEF Rows
  <2> HIDE DEF row
  <2>6. Dated(row, 0) /\ Whole(row) /\ EatersFit(row, roster)
    BY <2>2, <2>3, <2>5 DEF Dated, Whole, EatersFit
  <2> QED
    BY <2>4, <2>5, <2>6
<1> HIDE DEF SharedMeal
<1>4. \A r \in Recipes : item[r] = SharedMeal(roster) \/ item[r] = NoItem
  BY <1>1
<1>5. item \in [Recipes -> Rows]
  BY <1>1, <1>2, <1>3
<1>6. \A r \in Recipes : /\ item[r] \in Rows /\ Dated(item[r], 0) /\ Whole(item[r])
                         /\ EatersFit(item[r], roster)
  BY <1>2, <1>3, <1>4
<1>7. view \in [Persons -> [revision : Nat, item : [Recipes -> Rows]]]
      /\ gate \in [Persons -> SUBSET Persons]
  BY <1>1, <1>5
<1>8. \A u \in Persons : view[u].revision = 0 /\ view[u].item = item
  BY <1>1
<1>9. WeekTypes
  BY <1>1, <1>5, <1>7 DEF WeekTypes
<1>10. \A u \in Persons, r \in Recipes :
          /\ Dated(view[u].item[r], revision)
          /\ Meal(view[u].item[r]) = Meal(item[r])
          /\ Agrees(view[u].item[r], item[r])
  BY <1>1, <1>6, <1>8 DEF Agrees
<1>11. \A u \in Persons : view[u].revision <= revision
  BY <1>1, <1>8
<1> QED
  BY <1>1, <1>6, <1>9, <1>10, <1>11 DEF WeekInv

LEMMA WeekStep ==
  WeekInv /\ [PlanNext]_planVars => WeekInv'
<1> SUFFICES ASSUME WeekInv, [PlanNext]_planVars PROVE WeekInv'
  OBVIOUS
<1>1. CASE UNCHANGED planVars
  BY <1>1 DEF planVars, WeekInv, WeekTypes
<1>2. ASSUME NEW u \in Persons, PhoneNext(u) \/ RosterNext(u) PROVE WeekInv'
  <2>1. CASE ReadWeek(u) \/ Ask(u) \/ Refused(u)
    BY <2>1, PhoneReads
  <2>2. CASE Upsert(u)
    BY <2>2, UpsertKeeps
  <2>3. CASE ApplyWeekPlan(u)
    BY <2>3, ApplyKeeps
  <2>4. CASE Remove(u)
    BY <2>4, RemoveKeeps
  <2>5. ASSUME NEW r \in Recipes, NEW m \in Persons, NEW units \in 1 .. MaxUnits,
               SetPortion(u, r, m, units)
        PROVE  WeekInv'
    BY <2>5, SetPortionKeeps
  <2>6. CASE Join(u)
    BY <2>6, JoinKeeps
  <2>7. CASE Leave(u)
    BY <2>7, LeaveKeeps
  <2> QED
    BY <1>2, <2>1, <2>2, <2>3, <2>4, <2>5, <2>6, <2>7 DEF PhoneNext, RosterNext
<1> QED
  BY <1>1, <1>2 DEF PlanNext

LEMMA WeekInvariant == PlanSpec => []WeekInv
<1> QED
  BY InitWeek, WeekStep, PTL DEF PlanSpec

(* The household is somebody's, and the week stops at its bound.              *)
LEMMA WeekStops ==
  PlanSpec => [](roster # {} /\ revision <= MaxRevision)
<1> DEFINE Stops == roster # {} /\ revision <= MaxRevision
<1>1. PlanInit => Stops
  BY PlanAssumption DEF PlanInit
<1>2. WeekInv /\ Stops /\ [PlanNext]_planVars => Stops'
  <2> SUFFICES ASSUME WeekInv, Stops, [PlanNext]_planVars PROVE Stops'
    OBVIOUS
  <2>0. revision \in Nat /\ MaxRevision \in Nat
    BY PlanAssumption, WeekHas
  <2>1. ASSUME NEW u \in Persons, NEW new, NEW answered, Write(u, new, answered),
               revision < MaxRevision
        PROVE  Stops'
    BY <2>0, <2>1 DEF Write
  <2>2. ASSUME NEW u \in Persons, PhoneNext(u)
        PROVE  Stops'
    <3>1. CASE ReadWeek(u) \/ Ask(u) \/ Refused(u)
      BY <3>1 DEF ReadWeek, Ask, Refused
    <3>2. CASE Upsert(u)
      <4>1. revision < MaxRevision /\ \E new, answered : Write(u, new, answered)
        <5>1. PICK r, from \in Recipes, token \in BOOLEAN :
                 \E w, new : Upserts(u, r, from, w, new, token)
          BY <3>2, UpsertIs
        <5>2. PICK w, new : Upserts(u, r, from, w, new, token)
          BY <5>1
        <5>3. Write(u, [item EXCEPT ![from] = NoItem, ![r] = new], {r, from})
          BY <5>2 DEF Upserts
        <5>4. revision < MaxRevision
          BY <3>2 DEF Upsert
        <5> QED
          BY <5>3, <5>4
      <4> QED
        BY <2>1, <4>1
    <3>3. CASE ApplyWeekPlan(u)
      <4>1. revision < MaxRevision /\ \E new, answered : Write(u, new, answered)
        BY <3>3, ApplyIs DEF Applies, ApplyWeekPlan
      <4> QED
        BY <2>1, <4>1
    <3>4. CASE Remove(u)
      BY <2>1, <3>4 DEF Remove
    <3>5. ASSUME NEW r \in Recipes, NEW m \in Persons, NEW units \in 1..MaxUnits,
                 SetPortion(u, r, m, units)
          PROVE  Stops'
      BY <2>1, <3>5 DEF SetPortion
    <3> QED
      BY <2>2, <3>1, <3>2, <3>3, <3>4, <3>5 DEF PhoneNext
  <2>3. ASSUME NEW u \in Persons, Join(u) \/ Leave(u)
        PROVE  Stops'
    <3>1. revision' \in {revision, revision + 1} /\ revision < MaxRevision
      BY <2>3 DEF Join, Leave
    <3>2. roster' # {}
      BY <2>3 DEF Join, Leave
    <3> QED
      BY <2>0, <3>1, <3>2
  <2>4. CASE UNCHANGED planVars
    BY <2>4 DEF planVars
  <2> QED
    BY <2>2, <2>3, <2>4 DEF PlanNext, RosterNext
<1> QED
  BY <1>1, <1>2, WeekInvariant, PTL DEF PlanSpec

(* The types of the module: portions are those of people, a meal that is there *)
(* is for somebody and one that is not for nobody, and no stamp is younger than *)
(* what it stamps (weekly-plans.service.ts, planned-servings.util.ts).          *)
THEOREM PlanTypes == PlanSpec => []PlanTypeOK
<1>1. WeekInv /\ roster # {} /\ revision <= MaxRevision => PlanTypeOK
  <2> SUFFICES ASSUME WeekInv, roster # {}, revision <= MaxRevision PROVE PlanTypeOK
    OBVIOUS
  <2>1. /\ roster \in SUBSET Persons /\ revision \in 0..MaxRevision
        /\ \A u \in Persons : view[u].revision \in 0..revision /\ gate[u] \subseteq Persons
    BY PlanAssumption, WeekHas
  <2>2. ASSUME NEW r \in Recipes
        PROVE  /\ item[r].id \in 0..item[r].rev /\ item[r].rev \in 0..revision
               /\ item[r].who \subseteq Persons /\ item[r].portions \in [Persons -> Units]
               /\ item[r].there = (item[r].servings > 0)
               /\ \A m \in Persons : item[r].stamps[m] \in 0..item[r].rev
    BY WeekHas DEF Rows, Dated, Whole
  <2> QED
    BY <2>1, <2>2 DEF PlanTypeOK
<1> QED
  BY <1>1, WeekInvariant, WeekStops, PTL

LEMMA WeekTold == WeekInv => WeekHolds
<1> SUFFICES ASSUME WeekInv PROVE StampMeansContent /\ EatersAreMembers
  BY DEF WeekHolds
<1>1. EatersAreMembers
  BY DEF WeekInv, EatersAreMembers, EatersFit
<1>2. StampMeansContent
  BY DEF WeekInv, StampMeansContent, Agrees
<1> QED
  BY <1>1, <1>2

\* A stamp names one state of what it stamps, and eaters are members: in every
\* week, for every household, whatever its people, phones and requests do.
THEOREM WeekIsTrue == PlanSpec => []WeekHolds
<1> QED
  BY WeekInvariant, WeekTold, PTL

-----------------------------------------------------------------------------
(* The week: portions nobody has seen                                      *)

\* Without a token that was checked, a write leaves the portions of a meal.
LEMMA BlindWritesKeep ==
  ASSUME NEW row \in Rows, Allocated(row), NEW members \in SUBSET Persons, members # {},
         NEW w, Wanted(w, members), w.intent \in Intents,
         NEW policy \in {"strict", "forced"}, Decision(row, w, policy) # "refuse",
         Decision(row, w, policy) # "keep"
  PROVE  Left(row, w) = row.portions
<1>1. CASE w.intent \in {"legacy", "replace"}
  <2>1. Decision(row, w, policy) = portionsWriteDecision(row, w, policy) /\ Left(row, w) = w.portions
    BY <1>1 DEF Decision, Left
  <2>2. w.portions = row.portions
    BY <2>1 DEF portionsWriteDecision
  <2> QED
    BY <2>1, <2>2
<1>2. CASE w.intent = "reset"
  BY <1>2 DEF Decision, portionsRemovalDecision
<1>3. CASE w.intent = "preserve"
  <2> DEFINE kept == Preserved(row, w)
  <2>1. kept = remapPortions(row.portions, w.audience) /\ row.portions \in [Persons -> Units]
    BY DEF Preserved, Rows
  <2>2. w.audience \in SUBSET Persons /\ w.audience # {}
    BY DEF Wanted, Audience
  <2>3. kept # Nothing
    <3>1. kept \in [Persons -> Units] /\ People(kept) = w.audience
      BY <2>1, <2>2, Remapped
    <3> QED
      BY <2>2, <3>1, PeopleOf
  <2>4. Decision(row, w, policy) = preserveDecision(row, w, policy) /\ Left(row, w) = kept
    BY <1>3 DEF Decision, Left
  <2> HIDE DEF kept
  <2>5. preserveDecision(row, w, policy) # "refuse" => kept = row.portions
    BY <2>3 DEF preserveDecision, kept
  <2> QED
    BY <2>4, <2>5
<1> QED
  BY <1>1, <1>2, <1>3 DEF Intents

\* The meals of a week the phone has seen, by its stamps.
LEMMA SeenByStamp ==
  ASSUME WeekInv, NEW u \in Persons, NEW r \in Recipes, item[r].there, view[u].item[r].there,
         view[u].item[r].rev = item[r].rev
  PROVE  Meal(view[u].item[r]) = Meal(item[r])
BY DEF WeekInv, Agrees

LEMMA AllocatedIsThere ==
  ASSUME WeekInv, NEW r \in Recipes, Allocated(item[r])
  PROVE  item[r].there
BY DEF WeekInv, Whole

LEMMA UpsertLosesNothing ==
  ASSUME WeekInv, NEW u \in Persons, gate[u] # {}, Upsert(u), NEW p \in Recipes,
         Allocated(item[p]), item'[p].portions # item[p].portions
  PROVE  \/ Meal(view[u].item[p]) = Meal(item[p])
         \/ \E q \in Recipes : item'[q].portions = item[p].portions
<1>1. PICK r \in Recipes, from \in Recipes, token \in BOOLEAN :
        \E w, new : Upserts(u, r, from, w, new, token)
  BY UpsertIs
<1>2. PICK w, new : Upserts(u, r, from, w, new, token)
  BY <1>1
<1> DEFINE members == gate[u]
           source == IF from # r THEN item[from] ELSE NoItem
           policy == IF token /\ (from # r => view[u].item[r].there) THEN "verified" ELSE "strict"
           count == Cardinality(members)
<1>3. /\ Wanted(w, members) /\ w.who \subseteq roster
      /\ w.intent \in Intents
      /\ new = IF item[r].there THEN Written(item[r], w, policy, count, revision + 1)
               ELSE Created(source, w, count, revision + 1)
      /\ token => IF from # r THEN SourceFound(u, r, from)
                  ELSE view[u].item[r].there /\ item[r].there
      /\ item[r].there => Decision(item[r], w, policy) # "refuse"
      /\ item[r].there /\ token /\ from = r /\ view[u].item[r].rev # item[r].rev => new = item[r]
      /\ from # r /\ ~token /\ Allocated(item[from]) /\ item[from].there =>
            w.intent = "replace" /\ w.portions = item[from].portions
      /\ Write(u, [item EXCEPT ![from] = NoItem, ![r] = new], {r, from})
  BY <1>2 DEF Upserts
<1>4. /\ members \in SUBSET Persons /\ roster \in SUBSET Persons /\ revision \in Nat
      /\ item \in [Recipes -> Rows] /\ item[r] \in Rows /\ Dated(item[r], revision)
      /\ EatersFit(item[r], roster) /\ Whole(item[r])
  BY WeekHas
<1>5. \A q \in Recipes : item'[q] = IF q = r THEN new ELSE IF q = from THEN NoItem ELSE item[q]
  BY <1>3, <1>4 DEF Write
<1>6. count \in Nat /\ count > 0 /\ source \in Rows
  BY <1>4, Counted, SourceIsRow
<1>7. item[p].there
  BY AllocatedIsThere
<1>8. item[r].there => /\ Decision(item[r], w, policy) = "keep" => new = item[r]
                       /\ Decision(item[r], w, policy) # "keep" => new.portions = Left(item[r], w)
  <2> HIDE DEF members, source, policy, count
  <2> QED
    BY <1>3, <1>4, <1>6, WrittenFollows
<1>9. CASE p = r
  <2>1. new # item[r] /\ new.portions # item[r].portions
    BY <1>5, <1>9
  <2>2. CASE policy = "verified"
    <3>1. token
      BY <2>2
    <3>2. CASE from = r
      <4>1. view[u].item[r].there /\ view[u].item[r].rev = item[r].rev
        BY <1>3, <1>7, <1>9, <2>1, <3>1, <3>2
      <4> QED
        BY <1>7, <1>9, <4>1, SeenByStamp
    <3>3. CASE from # r
      <4>1. view[u].item[r].there /\ view[u].item[r].rev = item[r].rev
        BY <1>3, <2>2, <3>1, <3>3 DEF SourceFound
      <4> QED
        BY <1>7, <1>9, <4>1, SeenByStamp
    <3> QED
      BY <3>2, <3>3
  <2>3. CASE policy = "strict"
    <3> HIDE DEF members, source, policy, count
    <3>1. Decision(item[r], w, policy) # "keep" /\ Decision(item[r], w, policy) # "refuse"
      BY <1>3, <1>7, <1>8, <1>9, <2>1
    <3>2. Left(item[r], w) = item[r].portions
      BY <1>3, <1>4, <1>9, <2>3, <3>1, BlindWritesKeep DEF members
    <3> QED
      BY <1>7, <1>8, <1>9, <2>1, <3>1, <3>2
  <2> QED
    BY <2>2, <2>3
<1>10. CASE p # r /\ p = from
  <2>1. CASE token
    <3>1. view[u].item[from].there /\ item[from].rev = view[u].item[from].rev
      BY <1>3, <1>10, <2>1 DEF SourceFound
    <3> QED
      BY <1>7, <1>10, <3>1, SeenByStamp
  <2>2. CASE ~token
    <3>1. w.intent = "replace" /\ w.portions = item[p].portions
      BY <1>3, <1>7, <1>10, <2>2
    <3>2. w.portions # Nothing
      <4>1. item[p].portions \in [Persons -> Units]
        BY <1>4 DEF Rows
      <4> QED
        BY <3>1, <4>1, PeopleOf DEF Allocated
    <3>3. new.portions = w.portions
      <4>1. CASE item[r].there
        <5>1. Decision(item[r], w, policy) # "keep"
          BY <3>1, <3>2 DEF Decision, portionsWriteDecision
        <5>2. Left(item[r], w) = w.portions
          BY <3>1 DEF Left
        <5> QED
          BY <1>8, <4>1, <5>1, <5>2
      <4>2. CASE ~item[r].there
        BY <1>3, <4>2 DEF Created
      <4> QED
        BY <4>1, <4>2
    <3> QED
      BY <1>5, <3>1, <3>3
  <2> QED
    BY <2>1, <2>2
<1>11. p = r \/ p = from
  BY <1>5
<1> QED
  BY <1>9, <1>10, <1>11

LEMMA ApplyLosesNothing ==
  ASSUME WeekInv, NEW u \in Persons, gate[u] # {}, ApplyWeekPlan(u), NEW p \in Recipes,
         Allocated(item[p]), item'[p].portions # item[p].portions
  PROVE  Meal(view[u].item[p]) = Meal(item[p])
<1>1. PICK mode \in {"plain", "forced", "guarded", "undone"}, token \in BOOLEAN :
        \E desired : Applies(u, desired, mode, token)
  BY ApplyIs
<1>2. PICK desired : Applies(u, desired, mode, token)
  BY <1>1
<1> DEFINE members == gate[u]
           policy == Policy(mode, token)
           w == desired[p]
           count == Cardinality(members)
           new == [q \in Recipes |-> After(q, desired[q], policy, count, revision + 1)]
<1>3. /\ token => mode = "plain" /\ view[u].revision = revision
      /\ mode \in {"guarded", "undone"} => \A q \in Recipes : Meal(item[q]) = Meal(view[u].item[q])
      /\ w # Absent => Wanted(w, members) /\ w.intent \in Intents
      /\ w.who \subseteq roster /\ SlotAllowed(p, w, policy)
      /\ Write(u, new, {})
  BY <1>2 DEF Applies
<1>4. /\ members \in SUBSET Persons /\ members # {} /\ roster \in SUBSET Persons /\ revision \in Nat
      /\ item[p] \in Rows /\ Dated(item[p], revision) /\ EatersFit(item[p], roster)
      /\ Whole(item[p])
  BY WeekHas
<1>5. item'[p] = After(p, w, policy, count, revision + 1)
  BY <1>3 DEF Write
<1>6. CASE mode \in {"guarded", "undone"}
  BY <1>3, <1>6
<1>7. CASE token
  BY <1>3, <1>7 DEF WeekInv
<1>8. CASE mode \notin {"guarded", "undone"} /\ ~token
  <2>1. policy \in {"strict", "forced"}
    BY <1>8 DEF Policy
  <2>2. item[p].there /\ count \in Nat /\ count > 0
    BY <1>4, AllocatedIsThere, Counted
  <2> HIDE DEF members, policy, w, count
  <2>3. w # Absent
    BY <1>3, <2>1 DEF SlotAllowed, portionsRemovalDecision
  <2>4. Decision(item[p], w, policy) # "refuse"
    BY <1>3, <2>2, <2>3 DEF SlotAllowed
  <2>5. item'[p] = Written(item[p], w, policy, count, revision + 1)
    BY <1>5, <2>2, <2>3 DEF After
  <2>6. /\ Decision(item[p], w, policy) = "keep" => item'[p] = item[p]
        /\ Decision(item[p], w, policy) # "keep" => item'[p].portions = Left(item[p], w)
    BY <1>3, <1>4, <2>2, <2>3, <2>5, WrittenFollows
  <2>7. Left(item[p], w) = item[p].portions
    BY <1>3, <1>4, <2>1, <2>3, <2>4, <2>6, BlindWritesKeep
  <2> QED
    BY <2>6, <2>7
<1> QED
  BY <1>6, <1>7, <1>8

\* Only a write that rests on a gate clears it, and that of its own phone.
LEMMA WhoWrote ==
  ASSUME WeekInv, [PlanNext]_planVars, NEW u \in Persons, Wrote(u)
  PROVE  Upsert(u) \/ ApplyWeekPlan(u) \/ item' = item
<1>1. CASE UNCHANGED planVars
  BY <1>1 DEF planVars
<1>2. ASSUME NEW v \in Persons, PhoneNext(v) \/ RosterNext(v)
      PROVE  Upsert(u) \/ ApplyWeekPlan(u) \/ item' = item
  <2>1. gate \in [Persons -> SUBSET Persons]
    BY WeekHas
  <2>2. CASE ReadWeek(v) \/ Ask(v) \/ Refused(v)
    BY <2>2 DEF ReadWeek, Ask, Refused
  <2>3. CASE Upsert(v) \/ ApplyWeekPlan(v)
    <3>1. gate' = [gate EXCEPT ![v] = {}]
      <4>1. CASE Upsert(v)
        <5>1. \E r, from \in Recipes, token \in BOOLEAN : \E w, new : Upserts(v, r, from, w, new, token)
          BY <4>1, UpsertIs
        <5> QED
          BY <5>1 DEF Upserts, Write
      <4>2. CASE ApplyWeekPlan(v)
        <5>1. \E mode \in {"plain", "forced", "guarded", "undone"}, token \in BOOLEAN :
                 \E desired : Applies(v, desired, mode, token)
          BY <4>2, ApplyIs
        <5> QED
          BY <5>1 DEF Applies, Write
      <4> QED
        BY <2>3, <4>1, <4>2
    <3>2. u = v
      BY <2>1, <3>1 DEF Wrote
    <3> QED
      BY <2>3, <3>2
  <2>4. ASSUME gate[v] = {}, gate' = [gate EXCEPT ![v] = {}] PROVE FALSE
    BY <2>1, <2>4 DEF Wrote
  <2>5. CASE Remove(v)
    BY <2>4, <2>5 DEF Remove, Write
  <2>6. ASSUME NEW r \in Recipes, NEW m \in Persons, NEW units \in 1 .. MaxUnits,
               SetPortion(v, r, m, units)
        PROVE  FALSE
    BY <2>4, <2>6 DEF SetPortion, Write
  <2>7. CASE Join(v) \/ Leave(v)
    BY <2>7 DEF Join, Leave, Wrote
  <2> QED
    BY <1>2, <2>2, <2>3, <2>5, <2>6, <2>7 DEF PhoneNext, RosterNext
<1> QED
  BY <1>1, <1>2 DEF PlanNext

\* No request that did not know them loses the portions people set for each other.
THEOREM PortionsAreNotLost == PlanSpec => NothingLostUnseen
<1> DEFINE Keeps ==
       \A u \in Persons, r \in Recipes :
          Wrote(u) /\ Allocated(item[r]) /\ item'[r].portions # item[r].portions =>
             \/ Meal(view[u].item[r]) = Meal(item[r])
             \/ \E q \in Recipes : item'[q].portions = item[r].portions
<1>1. WeekInv /\ [PlanNext]_planVars => Keeps
  <2> SUFFICES ASSUME WeekInv, [PlanNext]_planVars, NEW u \in Persons, NEW r \in Recipes,
                      Wrote(u), Allocated(item[r]), item'[r].portions # item[r].portions
               PROVE  \/ Meal(view[u].item[r]) = Meal(item[r])
                      \/ \E q \in Recipes : item'[q].portions = item[r].portions
    OBVIOUS
  <2>1. gate[u] # {}
    BY DEF Wrote
  <2>2. Upsert(u) \/ ApplyWeekPlan(u)
    BY WhoWrote
  <2> QED
    BY <2>1, <2>2, UpsertLosesNothing, ApplyLosesNothing
<1>2. WeekInv /\ [PlanNext]_planVars => [Keeps]_planVars
  BY <1>1
<1> HIDE DEF Keeps
<1>3. PlanSpec => [][Keeps]_planVars
  BY <1>2, WeekInvariant, PTL DEF PlanSpec
<1> QED
  BY <1>3 DEF Keeps, NothingLostUnseen

=============================================================================
