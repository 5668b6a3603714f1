--------------------------- MODULE CookScenarios ----------------------------
(***************************************************************************)
(* The cooking scenario of one catalog recipe: numbered versions, of which *)
(* the telephones read the published one, kept offline until the number in *)
(* Recipe.cookScenarioVersion changes                                      *)
(* (src/src/recipes/cook-scenario/ and the triggers of                     *)
(* src/prisma/migrations/20260930120000_scenariusze_gotowania).            *)
(*                                                                         *)
(* Five hands write versions: the writing system, which saves what its     *)
(* models answered to an earlier reading of the recipe and may publish it, *)
(* the panel, the loader of hand-written scenarios, the import of a file,  *)
(* and the trigger that takes a scenario off when the recipe changes.      *)
(* Whoever writes holds the row of the recipe from its first statement to  *)
(* the commit (`txn`); a change of the ingredients writes first and then   *)
(* waits for that row (`edit`), a change outside the signature never does. *)
(*                                                                         *)
(* Contents are abstract: `amount` is what recipe_content_signature        *)
(* covers, `name` what only the writing system sees.  A text is known by   *)
(* the contents it was made for and by its draft.  There is one version of *)
(* the rules.  A refused validation is a transaction rolled back.          *)
(***************************************************************************)
EXTENDS Naturals, Sequences, FiniteSets

CONSTANTS
  Jobs,        \* tasks of the writing system, each with its jobId
  Pages,       \* administrators with a page of the panel
  Quantities,  \* values of the fields under the signature
  Names,       \* values of the fields outside it
  Drafts,      \* texts one author may give for the same recipe
  FirstRecipe, \* the recipe at the start
  FirstRows,   \* sequences of versions it may have then
  None,        \* no value
  MaxVersion,  \* bound: versions of the recipe
  MaxChanges   \* bound: changes of the recipe

VARIABLES
  recipe,   \* the committed Recipe with its ingredients
  cook,     \* Recipe.cookScenarioVersion, 0 for NULL
  rows,     \* the committed RecipeCookScenario rows, by version
  edit,     \* the open transaction that changes the ingredients
  txn,      \* the open transaction that took the recipe FOR UPDATE
  jobs,     \* what each task of the writing system holds in its journal
  pages,    \* what each page of the panel shows
  banned,   \* history: the contents whose scenario was withdrawn last
  changes   \* bound: how often the recipe has changed

cookVars == <<recipe, cook, rows, edit, txn, jobs, pages, banned, changes>>

Contents == [amount: Quantities, name: Names]
Scenarios == [made: Contents, draft: Drafts]
Statuses == {"VALIDATED", "REJECTED", "SKIPPED", "STALE", "PUBLISHED", "RETIRED"}
CookRows == [status: Statuses, amount: Quantities, input: Contents \cup {None},
             text: Scenarios \cup {None}, by: {"writer", "panel", "golden"},
             job: Jobs \cup {None}, shown: BOOLEAN, withdrawn: BOOLEAN]

NoChange == [amount |-> None, locked |-> FALSE]
NoHold == [kind |-> "none", who |-> None, text |-> None, seen |-> None]
NoJob == [pc |-> "idle", seen |-> None, from |-> 0, status |-> "none", text |-> None]
NoPage == [pc |-> "idle", saw |-> None, based |-> 0, amount |-> None]

Versions == 1 .. Len(rows)
Published == {v \in Versions : rows[v].status = "PUBLISHED"}
LatestOf(S) == IF S = {} THEN 0 ELSE CHOOSE v \in S : \A w \in S : w <= v

(* The newest result of the writing system for these very contents, 0 when there is none. *)
CurrentWrite(seen) ==
    LatestOf({v \in Versions : /\ rows[v].status \in {"VALIDATED", "REJECTED", "SKIPPED", "PUBLISHED"}
                               /\ rows[v].amount = seen.amount
                               /\ rows[v].input = seen})

(* What every list of versions keeps.  A validated version is a text of the writing system  *)
(* as it was written; a task has one version that it did not come to by a publication.      *)
ListFits(list, now) ==
    /\ list \in Seq(CookRows)
    /\ Len(list) <= MaxVersion
    /\ \A v, w \in 1 .. Len(list) :
         list[v].status = "PUBLISHED" /\ list[w].status = "PUBLISHED" => v = w
    /\ \A v \in 1 .. Len(list) : list[v].status = "PUBLISHED" =>
         /\ list[v].amount = now.amount
         /\ list[v].text \in Scenarios
         /\ list[v].by = "writer" => list[v].text.made.amount = now.amount
    /\ \A v \in 1 .. Len(list) : list[v].status = "VALIDATED" =>
         list[v].by = "writer" /\ list[v].text \in Scenarios /\ list[v].text.made = list[v].input
    /\ \A v, w \in 1 .. Len(list) :
         ~list[v].shown /\ ~list[w].shown /\ list[v].job \in Jobs /\ list[v].job = list[w].job => v = w

(* Nothing that reached the telephones comes after the published version, what is withdrawn *)
(* was on them, and a row is signed with the contents its writer saw.                        *)
ShownInOrder(list) ==
    /\ \A v \in 1 .. Len(list) : list[v].withdrawn \/ list[v].status = "PUBLISHED" => list[v].shown
    /\ \A v, w \in 1 .. Len(list) : list[v].status = "PUBLISHED" /\ v < w => ~list[w].shown
    /\ \A v \in 1 .. Len(list) : list[v].input # None => list[v].amount = list[v].input.amount

ASSUME CookAssumption ==
    /\ None \notin Quantities \cup Contents
    /\ MaxVersion \in Nat
    /\ MaxChanges \in Nat
    /\ Drafts # {}
    /\ FirstRecipe \in Contents
    /\ \A list \in FirstRows : ListFits(list, FirstRecipe) /\ ShownInOrder(list)

CookTypeOK ==
    /\ recipe \in Contents
    /\ cook \in 0 .. MaxVersion
    /\ rows \in Seq(CookRows) /\ Len(rows) <= MaxVersion
    /\ edit \in [amount: Quantities \cup {None}, locked: BOOLEAN]
    /\ txn \in [kind: {"none", "load", "import", "panel", "withdraw", "save", "release"},
                who: Jobs \cup Pages \cup 1 .. MaxVersion \cup {None},
                text: Scenarios \cup {None}, seen: Contents \cup {None}]
    /\ jobs \in [Jobs -> [pc: {"idle", "ready"}, seen: Contents \cup {None}, from: 0 .. MaxVersion,
                          status: {"none", "VALIDATED", "REJECTED", "SKIPPED"},
                          text: Scenarios \cup {None}]]
    /\ pages \in [Pages -> [pc: {"idle", "rows", "signature", "open"}, saw: Contents \cup {None},
                            based: 0 .. MaxVersion, amount: Quantities \cup {None}]]
    /\ banned \in Quantities \cup {None}
    /\ changes \in 0 .. MaxChanges

CookInit ==
    /\ recipe = FirstRecipe
    /\ rows \in FirstRows
    /\ cook = LatestOf(Published)
    /\ edit = NoChange
    /\ txn = NoHold
    /\ jobs = [j \in Jobs |-> NoJob]
    /\ pages = [p \in Pages |-> NoPage]
    /\ banned = None
    /\ changes = 0

-----------------------------------------------------------------------------
(* Changes of the recipe.                                                  *)

(* The statement has written the rows of the ingredients; the row of the recipe comes next. *)
ChangeIngredients ==
    /\ edit = NoChange
    /\ changes < MaxChanges
    /\ \E x \in Quantities \ {recipe.amount} : edit' = [amount |-> x, locked |-> FALSE]
    /\ changes' = changes + 1
    /\ UNCHANGED <<recipe, cook, rows, txn, jobs, pages, banned>>

\* Mutant: the statement does not wait for the row of the recipe.
LockNoRecipe ==
    /\ edit # NoChange /\ ~edit.locked
    /\ edit' = [edit EXCEPT !.locked = TRUE]
    /\ UNCHANGED <<recipe, cook, rows, txn, jobs, pages, banned, changes>>

(* The trigger of the statement takes the recipe FOR NO KEY UPDATE. *)
LockForChange ==
    /\ edit # NoChange /\ ~edit.locked
    /\ txn = NoHold
    /\ edit' = [edit EXCEPT !.locked = TRUE]
    /\ UNCHANGED <<recipe, cook, rows, txn, jobs, pages, banned, changes>>

(* The deferred trigger: a published scenario of another signature is taken off. *)
CommitChange ==
    /\ edit.locked
    /\ recipe' = [recipe EXCEPT !.amount = edit.amount]
    /\ LET outdated == {v \in Published : rows[v].amount # edit.amount}
       IN  /\ rows' = [v \in Versions |-> IF v \in outdated THEN [rows[v] EXCEPT !.status = "STALE"]
                                                             ELSE rows[v]]
           /\ cook' = IF outdated = {} THEN cook ELSE 0
    /\ edit' = NoChange
    /\ UNCHANGED <<txn, jobs, pages, banned, changes>>

AbortChange ==
    /\ edit # NoChange
    /\ edit' = NoChange
    /\ UNCHANGED <<recipe, cook, rows, txn, jobs, pages, banned, changes>>

(* A field outside the signature, as the name of an ingredient: no lock, no check. *)
ChangeName ==
    /\ changes < MaxChanges
    /\ \E x \in Names \ {recipe.name} : recipe' = [recipe EXCEPT !.name = x]
    /\ changes' = changes + 1
    /\ UNCHANGED <<cook, rows, edit, txn, jobs, pages, banned>>

-----------------------------------------------------------------------------
(* Transactions that write versions: the row of the recipe is locked, the   *)
(* recipe read, and the rest happens at the commit.                         *)

Hold(kind, who, text) ==
    /\ txn = NoHold /\ ~edit.locked
    /\ txn' = [kind |-> kind, who |-> who, text |-> text, seen |-> recipe]
    /\ UNCHANGED <<recipe, cook, rows, edit, jobs, pages, banned, changes>>

(* A crash, a lost connection, a refused validation. *)
Rollback ==
    /\ txn # NoHold
    /\ txn' = NoHold
    /\ pages' = IF txn.kind = "panel" THEN [pages EXCEPT ![txn.who] = NoPage] ELSE pages
    /\ UNCHANGED <<recipe, cook, rows, edit, jobs, banned, changes>>

Add(row) == Len(rows) < MaxVersion /\ rows' = Append(rows, row)

(* publishCookScenario in the caller's transaction: nothing when the same text is already  *)
(* published for the same signature, else the published version retires for a new one.     *)
Publish(text, by, input, job) ==
    IF \E v \in Published : rows[v].amount = txn.seen.amount /\ rows[v].text = text
    THEN UNCHANGED <<rows, cook, banned>>
    ELSE /\ Len(rows) < MaxVersion
         /\ rows' = Append([v \in Versions |-> IF v \in Published THEN [rows[v] EXCEPT !.status = "RETIRED"]
                                                                  ELSE rows[v]],
                           [status |-> "PUBLISHED", amount |-> txn.seen.amount, input |-> input,
                            text |-> text, by |-> by, job |-> job, shown |-> TRUE, withdrawn |-> FALSE])
         /\ cook' = Len(rows) + 1
         /\ banned' = None

(* The loader of hand-written scenarios: its file was written earlier, and what is compared *)
(* with the recipe, its amounts and servings, is less than what is signed with it.          *)
StartLoad == \E c \in Contents, d \in Drafts : Hold("load", None, [made |-> c, draft |-> d])

Load ==
    /\ txn.kind = "load"
    /\ Publish(txn.text, "golden", None, None)
    /\ txn' = NoHold
    /\ UNCHANGED <<recipe, edit, jobs, pages, changes>>

(* One entry of an exported file. *)
StartImport == \E c \in Contents : Hold("import", None, [made |-> c, draft |-> CHOOSE d \in Drafts : TRUE])

\* Mutant: only the newest version is asked whether it was withdrawn.
NewestIsWithdrawn(seen) ==
    /\ rows # <<>>
    /\ rows[Len(rows)].status = "REJECTED" /\ rows[Len(rows)].withdrawn
    /\ rows[Len(rows)].amount = seen.amount

(* The last withdrawal, unless something reached the telephones since or the recipe is another. *)
WithdrawnInPanel(seen) ==
    LET w == LatestOf({v \in Versions : rows[v].status = "REJECTED" /\ rows[v].withdrawn})
    IN  /\ w # 0
        /\ \A v \in Versions : v > w => ~rows[v].shown \/ rows[v].status = "REJECTED"
        /\ rows[w].amount = seen.amount

MayImport ==
    /\ txn.text.made = txn.seen
    /\ \A v \in Published : rows[v].by = "writer"
    /\ Published = {} => ~WithdrawnInPanel(txn.seen)

Import ==
    /\ txn.kind = "import"
    /\ IF MayImport THEN Publish(txn.text, "writer", txn.seen, None)
                    ELSE UNCHANGED <<rows, cook, banned>>
    /\ txn' = NoHold
    /\ UNCHANGED <<recipe, edit, jobs, pages, changes>>

-----------------------------------------------------------------------------
(* The panel.  The page is read in statements of their own snapshots.       *)

ReadRecipe(p) ==
    /\ pages[p].pc = "idle"
    /\ pages' = [pages EXCEPT ![p] = [pc |-> "rows", saw |-> recipe, based |-> 0, amount |-> None]]
    /\ UNCHANGED <<recipe, cook, rows, edit, txn, jobs, banned, changes>>

ReadVersions(p) ==
    /\ pages[p].pc = "rows"
    /\ pages' = [pages EXCEPT ![p] = [@ EXCEPT !.pc = "signature", !.based = Len(rows)]]
    /\ UNCHANGED <<recipe, cook, rows, edit, txn, jobs, banned, changes>>

ReadSignature(p) ==
    /\ pages[p].pc = "signature"
    /\ pages' = [pages EXCEPT ![p] = [@ EXCEPT !.pc = "open", !.amount = recipe.amount]]
    /\ UNCHANGED <<recipe, cook, rows, edit, txn, jobs, banned, changes>>

(* The administrator publishes the text as shown or after an edit. *)
StartPanel(p) ==
    /\ pages[p].pc = "open"
    /\ \E d \in Drafts : Hold("panel", p, [made |-> pages[p].saw, draft |-> d])

(* Both tokens of the page hold under the lock; otherwise 409 and nothing is written. *)
TokensHold(page) == page.based = Len(rows) /\ page.amount = txn.seen.amount

PanelPublish ==
    /\ txn.kind = "panel"
    /\ IF TokensHold(pages[txn.who])
       THEN Publish(txn.text, "panel", txn.seen, None)
       ELSE UNCHANGED <<rows, cook, banned>>
    /\ pages' = [pages EXCEPT ![txn.who] = NoPage]
    /\ txn' = NoHold
    /\ UNCHANGED <<recipe, edit, jobs, changes>>

StartWithdraw == Hold("withdraw", None, None)

(* CONFLICT when nothing is published. *)
Withdraw ==
    /\ txn.kind = "withdraw"
    /\ IF Published = {} THEN UNCHANGED <<rows, cook, banned>>
       ELSE /\ rows' = [v \in Versions |-> IF v \in Published
                                           THEN [rows[v] EXCEPT !.status = "REJECTED", !.withdrawn = TRUE]
                                           ELSE rows[v]]
            /\ cook' = 0
            /\ banned' = recipe.amount
    /\ txn' = NoHold
    /\ UNCHANGED <<recipe, edit, jobs, pages, changes>>

-----------------------------------------------------------------------------
(* The writing system.  A task reads the recipe in one snapshot, the models  *)
(* answer, the journal keeps the task, and the answer is saved; what they    *)
(* will answer is drawn when the task starts.                                *)

Answers(seen) == {[status |-> s, text |-> IF s = "SKIPPED" THEN None ELSE [made |-> seen, draft |-> d]] :
                    s \in {"VALIDATED", "REJECTED", "SKIPPED"}, d \in Drafts}

(* A recipe with a current result is passed over, unless the operator asks for it anew; *)
(* a revision starts from a current result that was rejected.                           *)
StartJob(j) ==
    /\ jobs[j] = NoJob
    /\ LET rejected == {v \in Versions : v = CurrentWrite(recipe) /\ rows[v].status = "REJECTED"}
       IN  \E from \in {0} \cup rejected, x \in Answers(recipe) :
             jobs' = [jobs EXCEPT ![j] = [pc |-> "ready", seen |-> recipe, from |-> from,
                                          status |-> x.status, text |-> x.text]]
    /\ UNCHANGED <<recipe, cook, rows, edit, txn, pages, banned, changes>>

StartSave(j) == jobs[j].pc = "ready" /\ Hold("save", j, None)

Superseded(job) ==
    job.from # 0 /\ (CurrentWrite(job.seen) # job.from \/ rows[job.from].status # "REJECTED")

(* The journal still holds the task: after a crash or a lost answer it is saved again. *)
Save ==
    /\ txn.kind = "save"
    /\ LET job == jobs[txn.who]
           changed == txn.seen # job.seen
       IN  IF \/ \E v \in Versions : rows[v].job = txn.who
              \/ ~changed /\ Superseded(job)
           THEN UNCHANGED rows
           ELSE Add([status |-> IF changed THEN "STALE" ELSE job.status, amount |-> job.seen.amount,
                       input |-> job.seen, text |-> job.text, by |-> "writer", job |-> txn.who,
                       shown |-> FALSE, withdrawn |-> FALSE])
    /\ txn' = NoHold
    /\ UNCHANGED <<recipe, cook, edit, jobs, pages, banned, changes>>

(* publishWrittenScenario: a validated version, published as it was written. *)
StartRelease == \E v \in Versions : rows[v].status = "VALIDATED" /\ Hold("release", v, None)

Release ==
    /\ txn.kind = "release"
    /\ LET row == rows[txn.who]
       IN  IF row.input = txn.seen /\ row.amount = txn.seen.amount
           THEN Publish(row.text, row.by, row.input, row.job)
           ELSE /\ rows' = [rows EXCEPT ![txn.who] = [@ EXCEPT !.status = "STALE"]]
                /\ UNCHANGED <<cook, banned>>
    /\ txn' = NoHold
    /\ UNCHANGED <<recipe, edit, jobs, pages, changes>>

-----------------------------------------------------------------------------
RecipeNext == ChangeIngredients \/ LockForChange \/ CommitChange \/ AbortChange
LoaderNext == StartLoad \/ Load
ImportNext == StartImport \/ Import
PanelNext(p) == ReadRecipe(p) \/ ReadVersions(p) \/ ReadSignature(p) \/ StartPanel(p)
WithdrawNext == StartWithdraw \/ Withdraw
WriterNext(j) == StartJob(j) \/ StartSave(j)
ReleaseNext == StartRelease \/ Release

CookNext ==
    \/ RecipeNext \/ ChangeName \/ Rollback
    \/ LoaderNext \/ ImportNext \/ WithdrawNext \/ ReleaseNext
    \/ PanelPublish \/ \E p \in Pages : PanelNext(p)
    \/ Save \/ \E j \in Jobs : WriterNext(j)

CookSpec == CookInit /\ [][CookNext]_cookVars

-----------------------------------------------------------------------------
(* What is on the telephones is one version, the one whose number the catalog gives them,   *)
(* written for the amounts the recipe has now: an ingredient changed beside a first          *)
(* publication never leaves them cooking by old amounts.                                     *)
PhonesCookThis ==
    /\ Cardinality(Published) <= 1
    /\ cook = LatestOf(Published)
    /\ \A v \in Published : rows[v].amount = recipe.amount

(* A text of the writing system that is on the telephones was made for this recipe, not      *)
(* only signed with its signature.                                                           *)
TextFitsRecipe ==
    \A v \in Published : rows[v].by = "writer" => rows[v].text.made.amount = recipe.amount

(* A task pays its models once and leaves at most one result, however often it is saved      *)
(* again; the versions published from that result are copies of it.                          *)
OneResultPerTask ==
    \A j \in Jobs : Cardinality({v \in Versions : rows[v].job = j /\ ~rows[v].shown}) <= 1

ScenariosFit == PhonesCookThis /\ TextFitsRecipe /\ OneResultPerTask

(* What was decided meanwhile prevails over what is brought in late: the import neither      *)
(* replaces a text of the panel or of the loader nor brings back what was withdrawn last for *)
(* this recipe; a revision is not saved over a result that came after the one it revises;    *)
(* and the panel never covers a version its administrator has not seen.  The loader and a    *)
(* release may publish over a version of the panel: nothing is said of them here.            *)
PeoplePrevail ==
    [][ /\ txn.kind = "import" /\ rows' # rows =>
             /\ banned # recipe.amount
             /\ \A v \in Published : rows[v].by = "writer"
        /\ txn.kind = "save" /\ rows' # rows /\ rows'[Len(rows')].status # "STALE" =>
             \A v \in Versions : v > jobs[txn.who].from /\ jobs[txn.who].from # 0
                                  /\ rows[v].status \in {"VALIDATED", "SKIPPED", "PUBLISHED"}
                => rows[v].input # jobs[txn.who].seen
        /\ txn.kind = "panel" /\ rows' # rows =>
             \A v \in Published : v <= pages[txn.who].based
      ]_cookVars

(* Refuted: an administrator who is not told 409 published over the recipe the page showed.  *)
(* The page reads the recipe before its signature, in a snapshot of its own, so its second   *)
(* token can be fresher than what is shown (admin-cook-scenarios.service.ts:341-368).        *)
PanelKnewTheRecipe ==
    \A v \in Published : rows[v].by = "panel" => rows[v].text.made.amount = recipe.amount
=============================================================================
