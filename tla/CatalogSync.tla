---------------------------- MODULE CatalogSync -----------------------------
(***************************************************************************)
(* The public catalog of recipes and its two readers: telephones that      *)
(* follow it by revisions (src/src/recipes/catalog-sync.service.ts) and    *)
(* the index of the assistant, kept in memory by revision                  *)
(* (src/src/agent/search/agent-catalog.service.ts).                        *)
(*                                                                         *)
(* A transaction changes rows, which it locks; its triggers are deferred   *)
(* to the commit, where they take one advisory lock, number the changes    *)
(* from a sequence and add them to the log.  Readers run statements of     *)
(* their own snapshot each, so anything may commit between two of them.    *)
(*                                                                         *)
(* The content of a recipe is named by the revision of its last change.    *)
(***************************************************************************)
EXTENDS Naturals, FiniteSets

CONSTANTS
  Writers,      \* transactions that change the catalog
  NoWriter,     \* holder of the free lock
  Clients,      \* telephones
  Askers,        \* turns of the assistant in one process
  NumRecipes,   \* recipes, ordered by id
  Limit,        \* size of a page
  MaxRevision,  \* bound: numbers taken from the sequence (one less in each later epoch)
  MaxEpoch      \* bound: times the log was started anew

ASSUME CatalogAssumption ==
  /\ NoWriter \notin Writers
  /\ NumRecipes \in Nat
  /\ Limit \in Nat \ {0}
  /\ MaxRevision \in Nat
  /\ MaxEpoch \in Nat

VARIABLES
  catalog,   \* the committed Recipe rows
  log,       \* the committed CatalogChange rows
  sequence,  \* last number given by the sequence of CatalogChange.revision
  epoch,     \* CatalogSyncState.epoch
  minRev,    \* CatalogSyncState.minRevision
  numbering, \* who holds the lock of catalog_change_revision_lock
  txn,       \* the transactions of the writers
  phone,     \* per client: the run of pages it is in
  copy,      \* per client: what it stores of each recipe
  at,        \* per client: the revision it stores
  cached,    \* the index in memory
  building,  \* the one build under way
  asker       \* the turns that ask for the index

database == <<catalog, log, sequence, epoch, minRev, numbering, txn>>
clients == <<phone, copy, at>>
index == <<cached, building, asker>>
catalogVars == <<database, clients, index>>

Recipes == 1 .. NumRecipes
Revisions == 0 .. MaxRevision
Content == [rev: Revisions, live: BOOLEAN]
Marks == [epoch: 0 .. MaxEpoch, rev: Revisions]
NoMark == [epoch |-> MaxEpoch + 1, rev |-> 0]

Greatest(S) == IF S = {} THEN 0 ELSE CHOOSE x \in S : \A y \in S : y <= x
Head == Greatest({e.rev : e \in log})

NoTxn == [pc |-> "idle", writes |-> <<>>, base |-> 0]
Rest == [pc |-> "idle", mode |-> "none", until |-> NoMark, cursor |-> 0, ids |-> {}, more |-> FALSE]
NoRows == [r \in Recipes |-> [rev |-> 0, live |-> FALSE]]
NoIndex == [key |-> NoMark, rows |-> NoRows]
NoBuild == [pc |-> "none", rows |-> NoRows]
NoAsker == [pc |-> "idle", key |-> NoMark]

(* What the writes of a transaction are numbered: a block in the order of its statements. *)
RevisionOf(w, r) == txn[w].base + Cardinality({q \in DOMAIN txn[w].writes : q <= r})

CatalogTypeOK ==
  /\ catalog \in [Recipes -> Content]
  /\ log \subseteq [rev: Revisions, recipe: Recipes]
  /\ sequence \in Revisions
  /\ epoch \in 0 .. MaxEpoch
  /\ minRev \in Revisions
  /\ numbering \in Writers \cup {NoWriter}
  /\ \A w \in Writers :
       /\ txn[w].pc \in {"idle", "open", "numbered"}
       /\ txn[w].base \in Revisions
       /\ DOMAIN txn[w].writes \subseteq Recipes
  /\ phone \in [Clients -> [pc: {"idle", "page", "ids", "rows"},
                            mode: {"none", "snapshot", "delta"},
                            until: Marks \cup {NoMark}, cursor: 0 .. NumRecipes,
                            ids: SUBSET Recipes, more: BOOLEAN]]
  /\ copy \in [Clients -> [Recipes -> Content]]
  /\ at \in [Clients -> Marks \cup {NoMark}]
  /\ cached \in [key: Marks \cup {NoMark}, rows: [Recipes -> Content]]
  /\ building \in [pc: {"none", "begun", "read"}, rows: [Recipes -> Content]]
  /\ asker \in [Askers -> [pc: {"idle", "keyed", "waits"}, key: Marks \cup {NoMark}]]

CatalogInit ==
  /\ catalog = [r \in Recipes |-> [rev |-> 0, live |-> TRUE]]
  /\ log = {} /\ sequence = 0 /\ epoch = 0 /\ minRev = 0
  /\ numbering = NoWriter
  /\ txn = [w \in Writers |-> NoTxn]
  /\ phone = [c \in Clients |-> Rest]
  /\ copy = [c \in Clients |-> NoRows]
  /\ at = [c \in Clients |-> NoMark]
  /\ cached = NoIndex /\ building = NoBuild
  /\ asker = [t \in Askers |-> NoAsker]

-----------------------------------------------------------------------------
(* Writers: the panel, imports, scripts.  The rows a transaction has written
   stay locked until it ends.                                                *)

RowLocked(r) == \E w \in Writers : r \in DOMAIN txn[w].writes

Write(w, r, live) ==
  /\ txn[w].pc \in {"idle", "open"}
  /\ ~RowLocked(r)
  /\ txn' = [txn EXCEPT ![w] = [pc |-> "open", base |-> 0,
       writes |-> [q \in DOMAIN txn[w].writes \cup {r} |->
                     IF q = r THEN live ELSE txn[w].writes[q]]]]
  /\ UNCHANGED <<catalog, log, sequence, epoch, minRev, numbering, clients, index>>

\* Mutant: numbers are taken without the lock.
NumberAtOnce(w) == txn[w].pc = "open"

MayNumber(w) == txn[w].pc = "open" /\ numbering = NoWriter

(* COMMIT begins: the deferred triggers take the lock and number the rows. *)
Number(w) ==
  /\ MayNumber(w)
  /\ sequence + Cardinality(DOMAIN txn[w].writes) + epoch <= MaxRevision
  /\ txn' = [txn EXCEPT ![w].pc = "numbered", ![w].base = sequence]
  /\ sequence' = sequence + Cardinality(DOMAIN txn[w].writes)
  /\ numbering' = w
  /\ UNCHANGED <<catalog, log, epoch, minRev, clients, index>>

(* The transaction becomes visible, and its lock is freed after that. *)
CommitChange(w) ==
  /\ txn[w].pc = "numbered"
  /\ catalog' = [r \in Recipes |->
       IF r \in DOMAIN txn[w].writes
         THEN [rev |-> RevisionOf(w, r), live |-> txn[w].writes[r]]
         ELSE catalog[r]]
  /\ log' = log \cup {[rev |-> RevisionOf(w, r), recipe |-> r] : r \in DOMAIN txn[w].writes}
  /\ numbering' = IF numbering = w THEN NoWriter ELSE numbering
  /\ txn' = [txn EXCEPT ![w] = NoTxn]
  /\ UNCHANGED <<sequence, epoch, minRev, clients, index>>

(* It fails at any point; numbers already taken become holes. *)
Rollback(w) ==
  /\ txn[w].pc # "idle"
  /\ numbering' = IF numbering = w THEN NoWriter ELSE numbering
  /\ txn' = [txn EXCEPT ![w] = NoTxn]
  /\ UNCHANGED <<catalog, log, sequence, epoch, minRev, clients, index>>

(* Deltas from before m are refused from now on (nothing in the repository
   deletes the rows themselves).                                             *)
Prune(m) ==
  /\ minRev < m /\ m <= Head
  /\ minRev' = m
  /\ UNCHANGED <<catalog, log, sequence, epoch, numbering, txn, clients, index>>

(* The tables are cleared and filled again: another epoch, numbers from the start. *)
StartAnew ==
  /\ epoch < MaxEpoch /\ sequence < MaxRevision
  /\ \A w \in Writers : txn[w] = NoTxn
  /\ epoch' = epoch + 1
  /\ catalog' = [r \in Recipes |-> [rev |-> 0, live |-> catalog[r].live]]
  /\ log' = {} /\ sequence' = 0 /\ minRev' = 0
  /\ UNCHANGED <<numbering, txn, clients, index>>

-----------------------------------------------------------------------------
(* Telephones. *)

(* head(): the revision of the newest committed change. *)
Now == [epoch |-> epoch, rev |-> Head]

(* problemOf, for a revision a client sends back. *)
Problem(mark) ==
  \/ mark.epoch # epoch
  \/ mark.rev < minRev
  \/ mark.rev > Head

Sets(c, next, mark) ==
  /\ phone' = [phone EXCEPT ![c] = next]
  /\ at' = [at EXCEPT ![c] = mark]
  /\ UNCHANGED <<database, copy, index>>

(* The first page of a run pins the revision the run leads to. *)
AskSnapshot(c) ==
  /\ phone[c].pc = "idle" /\ at[c] = NoMark
  /\ Sets(c, [Rest EXCEPT !.pc = "rows", !.mode = "snapshot", !.until = Now], NoMark)

AskChanges(c) ==
  /\ phone[c].pc = "idle" /\ at[c] # NoMark
  /\ ~Problem(at[c]) /\ at[c] # Now
  /\ Sets(c, [Rest EXCEPT !.pc = "ids", !.mode = "delta", !.until = Now], at[c])

(* A later page sends it back. *)
AskPage(c) ==
  /\ phone[c].pc = "page"
  /\ ~Problem(phone[c].until)
  /\ phone[c].mode = "delta" => ~Problem(at[c])
  /\ Sets(c, [phone[c] EXCEPT !.pc = IF phone[c].mode = "delta" THEN "ids" ELSE "rows"], at[c])

(* RESET_REQUIRED, on any request: the client forgets its revision. *)
Reset(c) ==
  /\ \/ phone[c].pc = "idle" /\ at[c] # NoMark /\ Problem(at[c])
     \/ phone[c].pc = "page" /\ Problem(phone[c].until)
     \/ phone[c].pc = "page" /\ phone[c].mode = "delta" /\ Problem(at[c])
  /\ Sets(c, Rest, NoMark)

(* The next Limit members of S after the cursor. *)
Page(S, cursor) ==
  {r \in S : r > cursor /\ Cardinality({q \in S : cursor < q /\ q <= r}) <= Limit}
More(S, cursor) == Cardinality({r \in S : r > cursor}) > Limit

(* Recipes changed in (since, until], each once. *)
ReadIds(c) ==
  LET changed == {e.recipe : e \in {f \in log : at[c].rev < f.rev /\ f.rev <= phone[c].until.rev}}
  IN /\ phone[c].pc = "ids"
     /\ Sets(c, [phone[c] EXCEPT !.pc = "rows", !.ids = Page(changed, phone[c].cursor),
                                 !.more = More(changed, phone[c].cursor)], at[c])

(* The client applies a page; after the last it stores the revision of the run. *)
ApplyPage(c, ids, more) ==
  /\ copy' = [copy EXCEPT ![c] = [r \in Recipes |-> IF r \in ids THEN catalog[r] ELSE @[r]]]
  /\ phone' = [phone EXCEPT ![c] =
       IF more THEN [@ EXCEPT !.pc = "page", !.cursor = Greatest(ids), !.ids = {}, !.more = FALSE]
               ELSE Rest]
  /\ at' = [at EXCEPT ![c] = IF more THEN @ ELSE phone[c].until]
  /\ UNCHANGED <<database, index>>

(* Upserts and tombstones, by the current state of the recipes. *)
DeltaRows(c) ==
  /\ phone[c].pc = "rows" /\ phone[c].mode = "delta"
  /\ ApplyPage(c, phone[c].ids, phone[c].more)

(* A page of the whole catalog: what it skips is not in the catalog. *)
SnapshotRows(c) ==
  LET live == {r \in Recipes : catalog[r].live}
      page == Page(live, phone[c].cursor)
      more == More(live, phone[c].cursor)
      covered == {r \in Recipes : phone[c].cursor < r /\ (more => r <= Greatest(page))}
  IN /\ phone[c].pc = "rows" /\ phone[c].mode = "snapshot"
     /\ ApplyPage(c, covered, more)

(* A request or its answer is lost: the page is asked for again, or the run is given up. *)
AskAgain(c) ==
  /\ phone[c].pc \in {"ids", "rows"} /\ phone[c].cursor > 0
  /\ Sets(c, [phone[c] EXCEPT !.pc = "page", !.ids = {}, !.more = FALSE], at[c])

GiveUp(c) ==
  /\ phone[c].pc # "idle"
  /\ Sets(c, Rest, at[c])

-----------------------------------------------------------------------------
(* The index of the assistant. *)

(* versionKey: a failed query gives none. *)
ReadKey(t, key) ==
  /\ asker[t].pc = "idle"
  /\ key \in {Now, NoMark}
  /\ asker' = [asker EXCEPT ![t] = [pc |-> "keyed", key |-> key]]
  /\ UNCHANGED <<database, clients, cached, building>>

UseCached(t) ==
  /\ asker[t].pc = "keyed" /\ asker[t].key # NoMark
  /\ cached.key = asker[t].key
  /\ asker' = [asker EXCEPT ![t] = NoAsker]
  /\ UNCHANGED <<database, clients, cached, building>>

(* One build at a time: whoever comes meanwhile waits for the one under way. *)
JoinBuild(t) ==
  /\ asker[t].pc = "keyed"
  /\ asker[t].key = NoMark \/ cached.key # asker[t].key
  /\ asker' = [asker EXCEPT ![t].pc = "waits"]
  /\ building' = IF building.pc = "none" THEN [NoBuild EXCEPT !.pc = "begun"] ELSE building
  /\ UNCHANGED <<database, clients, cached>>

BuildReads ==
  /\ building.pc = "begun"
  /\ building' = [pc |-> "read", rows |-> catalog]
  /\ UNCHANGED <<database, clients, cached, asker>>

(* Everybody who waits goes on; the last with a key keeps the index under its own. *)
BuildEnds ==
  LET keyed == {t \in Askers : asker[t].pc = "waits" /\ asker[t].key # NoMark} IN
  /\ building.pc = "read"
  /\ IF keyed = {} THEN cached' = cached
     ELSE \E t \in keyed : cached' = [key |-> asker[t].key, rows |-> building.rows]
  /\ building' = NoBuild
  /\ asker' = [t \in Askers |-> IF asker[t].pc = "waits" THEN NoAsker ELSE asker[t]]
  /\ UNCHANGED <<database, clients>>

BuildFails ==
  /\ building.pc # "none"
  /\ building' = NoBuild
  /\ asker' = [t \in Askers |-> IF asker[t].pc = "waits" THEN NoAsker ELSE asker[t]]
  /\ UNCHANGED <<database, clients, cached>>

(* SNAPSHOT_MAX_AGE_MS passes, or the process is replaced. *)
IndexAges ==
  /\ cached # NoIndex
  /\ cached' = NoIndex
  /\ UNCHANGED <<database, clients, building, asker>>

-----------------------------------------------------------------------------
WriterStep ==
  \/ \E w \in Writers :
       \/ \E r \in Recipes, live \in BOOLEAN : Write(w, r, live)
       \/ Number(w) \/ CommitChange(w) \/ Rollback(w)
  \/ \E m \in Revisions : Prune(m)
  \/ StartAnew

ClientStep ==
  \E c \in Clients :
    \/ AskSnapshot(c) \/ AskChanges(c) \/ AskPage(c) \/ Reset(c)
    \/ ReadIds(c) \/ DeltaRows(c) \/ SnapshotRows(c) \/ AskAgain(c) \/ GiveUp(c)

AskerStep ==
  \/ \E t \in Askers : ReadKey(t, Now) \/ ReadKey(t, NoMark) \/ UseCached(t) \/ JoinBuild(t)
  \/ BuildReads \/ BuildEnds \/ BuildFails \/ IndexAges

CatalogNext == WriterStep \/ ClientStep \/ AskerStep

CatalogSpec == CatalogInit /\ [][CatalogNext]_catalogVars

-----------------------------------------------------------------------------
(* A client that stores a revision of this epoch holds, of every recipe, a
   content at least as new as the last change up to that revision: no delta
   will ever bring that change again.                                         *)
HoldsItsRevision ==
  \A c \in Clients : at[c].epoch = epoch =>
    \A e \in log : e.rev <= at[c].rev => copy[c][e.recipe].rev >= e.rev

(* With nothing left to fetch, what it shows is the catalog. *)
UpToDateIsEqual ==
  \A c \in Clients : at[c] = Now =>
    \A r \in Recipes : copy[c][r].live = catalog[r].live /\ copy[c][r].rev = catalog[r].rev

(* Whatever becomes visible is numbered after everything a reader could have seen. *)
VisibleInOrder ==
  [][epoch' = epoch => \A e \in log' \ log : e.rev > Head]_catalogVars

(* The three of them: what lets a client trust the revision it stores
   (catalog-sync.service.ts:125-229, catalog_change_commit_order/migration.sql). *)
CatalogKeepsFaith == []HoldsItsRevision /\ []UpToDateIsEqual /\ VisibleInOrder

(* The index kept under a revision has every change up to it (what the
   assistant takes for granted when it asks for the revision alone).          *)
IndexMatchesItsKey ==
  cached.key.epoch = epoch =>
    \A e \in log : e.rev <= cached.key.rev => cached.rows[e.recipe].rev >= e.rev
=============================================================================
