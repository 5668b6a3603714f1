# Verification of the Scoffie backend

This directory holds TLA+ models of the backend under `src/`: a NestJS
application over PostgreSQL (Prisma), serving an iOS client by HTTP and
websockets, with an LLM assistant that works in the background. The models are
checked with TLC on small instances; their safety is proved for every value of the
constants with TLAPS (section 16), their liveness is checked only.

`PROJECT.json` maps each definition to the lines it stands for and lists the
runs, the mutants (plausible bugs that each property must notice), the findings,
the hazards and the theorems. Run one check with
`tlc -workers 2 -config MCTurnMoney.cfg MCTurnExecution.tla`, one proof with
`tlapm TurnExecution_Proofs.tla`.

| Part of the system | Model | TLC run | Proved for every value of the constants |
|---|---|---|---|
| one turn of the assistant | `TurnExecution`, `TurnContract` | `turn_effects`, `turn_money`, `turn_liveness`, `free_failure` | all of its safety, and that it keeps the contract |
| how a message becomes a turn | `TurnAdmission`, `AdmissionContract` | `assistant` | all, and that it keeps the contract |
| the cards a turn leaves | `PlanProposals` | `assistant` | all |
| the catalog and who follows it | `CatalogSync` | `assistant` | all |
| households, links, sockets | `Households` | `household` | all |
| the week of a household | `WeekPlan` | `household` | all |
| its shopping list | `ShoppingList` | `household` | all |
| the cooking scenario of a recipe | `CookScenarios` | `household` | all |
| sign-in sessions | `AuthSessions` | `auth_race`, `auth_patient`, `auth_answered`, `auth_closed_access` | all of its safety |
| mail | `MailOutbox` | `mail` | all of its safety |
| an App Store subscription | `Subscriptions` | `subscriptions` | all of its safety |

## 1. Inventory

Every process of the backend runs the same code. State that outlives a request is
in PostgreSQL; what a process keeps in memory (running turns, timers, sockets,
rate counters, the index of the catalog) is lost with it. Requests of one user
overlap, instances overlap during a deployment, and every call to the database may
fail before or after its commit.

### Durable assistant turns (`src/src/agent`, `durable/`) - partly

*State.* `AgentTurn` (status, lease token and expiry, attempt, stop request,
deadline, cost, refund mark), `AgentTurnEffect` (one row per effect key),
`AgentMessage`; per process a map of running turns to their `AbortController`.
*Operations.* Claim (poll or kick), renewal of the lease, the loop of model calls
and tools, the journal of effects, settling the ledger, answer, failure, stop,
sweep, drain at shutdown.
*Interactions.* The worker claims through the queue and calls the runner; the
runner calls the provider, the tools and the ledger; the sweeper, a polling client,
a new message and "stop" close turns from outside.
*Hard.* Crashes at any step, leases expiring under a worker that is only slow,
database calls that fail before or after their commit, two attempts in one
process, the order of effects in a recovered attempt.
*Correct when* an accepted turn is closed once and in the end, DONE means one
answer, effects are neither lost, repeated nor mixed up, and the message it was
charged comes back exactly when nothing was spent.

### Usage ledger and turn quota (`agent-usage-ledger.service.ts`) - partly

*State.* `AiUsage` (one row per model call), `AgentTurn.costMicroUsd` and
`quotaRefundedAt`, `AiUsageCounter`. *Operations.* `record`, `refundIfFree`,
`closeTurn`. *Hard.* Retried bookings, a paid call that arrives after the refund,
budgets that parallel starts look at before they spend.
*Correct when* cost, refund mark and counter always agree (`TurnExecution`) and no
ceiling is passed by more than the code says it may be (`TurnAdmission`).

### Turn admission (`agent-turns.service.ts`) - partly

*State.* turns, counters, conversations, the withdrawal stamps of messages.
*Operations.* `postMessage` (a serializable transaction with retries),
`editMessage`, `cancelTurn`. *Hard.* Write skew between parallel messages, retried
client requests (`clientMessageId`), the semaphore of running turns, an edit that
hides the old message before the new one is refused. *Correct when* no more turns
run, and no more is charged, than the plan allows, a retried message starts one
turn, and a refused edit leaves no trace.

### Proposals (`proposals/agent-proposals.service.ts`) - partly

*State.* `AgentProposal` (status, snapshots of the week before and after), the
quota of plans. *Operations.* propose, `apply`, `apply` in spite of changes, `undo`,
withdrawal by `editMessage`. *Hard.* Apply against apply, undo against an edit of
the same week, refusals that are written late. *Correct when* an application counts
once, undo restores what its application replaced and never destroys what somebody
changed since.

### Assistant search, tools and cards (`search/`, `planner/`, `cards/`) - partly

The index of recipes a process keeps in memory, keyed by the revision of the
catalog, is part of `CatalogSync`. Scoring and texts are not modelled.

### Sign-in sessions (`src/src/auth`) - partly

*State.* `RefreshToken` (revocation and its reason, successor, dates),
`User.tokenVersion`; on the device the stored pair. *Operations.* sign-in, refresh
(rotation, rescue of a lost answer, detection of reuse), logout, logout everywhere,
purge. *Interactions.* The guard of every endpoint and the websocket handshake
compare the version in the access token with the row. *Hard.* Parallel refreshes of
one token, answers that are lost, requests handled late, retirement racing with
issue. *Correct when* a retired session is dead whatever raced with it, and a
device that plays by the rules is never signed out.

### Households, invitations and their sockets (`src/src/households`, `src/src/common`) - partly

*State.* `Household`, `Membership` (role), `Invitation`; sockets and their rooms.
*Operations.* create, invite, accept, decline, leave, remove, change of role,
clean-up after somebody left; the handshake of a socket. *Hard.* The last owner:
leave, removal and demotion race, and roles are read before the roster lock; a
handshake reads memberships while they change. *Correct when* a household that
exists has an owner, a link lets in one person, and for an owner, and nobody listens
to a household they have left.

### Weekly plans (`src/src/weekly-plans`) - partly

*State.* `WeeklyPlan` (revision), `PlanItem` (revision, participants, servings),
portions of each person with their stamps. *Operations.* upsert, replace and remove
a slot, apply or clear a week, set a portion, and what a change of the household
does to its plans. *Hard.* Stale edits against stamps, members read before the lock,
portions that one person set and another overwrites. *Correct when* a stamp names
one content, portions belong to the eaters of their meal, and nothing is
overwritten by somebody who had not seen it.

### Shopping list (`services/shopping-list.service.ts`) - partly

*State.* the derived list with its stale mark, ticks, added products, replay keys.
*Operations.* rebuild by a reader, stale marks by writers, add and change a
product, tick. *Hard.* A rebuild reads the sources while a writer changes them; a
request is sent again. *Correct when* a list that does not say it is out of date is
the sum of its sources, and each request counts once.

### Recipes catalog and its sync cursor (`recipes/catalog-sync.service.ts`) - modelled

*State.* `CatalogChange`, `CatalogSyncState`, per client a revision. *Operations.*
writes with triggers deferred to the commit, prune, new epoch; snapshots and deltas
page by page. *Hard.* The order of commits against the order of revisions; pages
read in different snapshots. *Correct when* a client that stores a revision holds
every change up to it.

### Cooking scenarios (`recipes/cook-scenario`, its admin pages and triggers) - partly

*State.* `RecipeCookScenario` versions, `Recipe.cookScenarioVersion`, the journal of
the writing system. *Operations.* save, publish and withdraw a version, import a
file, load hand-written ones, edit in the panel; the triggers of a changed recipe.
*Hard.* Hours pass between reading a recipe and saving what was written about it;
ingredients change beside a publication. *Correct when* what telephones cook by is
signed for the amounts the recipe has, and an import, a saved revision or a page of the
panel does not pass over what came since it was exported, begun or read.

### Billing (`src/src/billing`) - partly

*State.* `Subscription`, `AppleNotification`. *Operations.* report of a purchase,
notification, reconciliation, the holds of an operator. *Hard.* Late, repeated and
reordered notifications beside a reconciliation. *Correct when* a later fact is
never replaced by an earlier notification, and access becomes what Apple says.

### Mail (`src/src/mail`) - partly

*State.* `MailMessage` (status, attempts), `MailSuppression`. *Operations.* enqueue,
claim, deliver, retry, recover what is stuck, reports of the provider, the panel's
"send again", retention, removal of an account. *Hard.* A slow sender taken for a
dead one; a provider that remembers what it accepted for a day only. *Correct when* a
message settles, nobody gets it twice unless the panel asked for it or sending was held
up for a day, and mail of a removed account stays silent.

### Not modelled

| Part | Why |
|---|---|
| Model providers and prompts | text, tokens and streaming; the loop of rounds is in `TurnExecution` |
| Recipes, sharing | records under ownership checks; the one protocol, the copy of a shared recipe, is a check and an insert under one advisory lock, which a model could only restate |
| Meal-plan engine, scoring | a sequential search over scored candidates, a matter of numbers |
| Throttling | rate counters of one process, no interleaving |
| Admin panel | contracts, reports and CRUD with a sign-in of its own |
| Notifications, Cookidoo and health integrations | external I/O |
| Users, consents, data export | account data; the removal of an account appears in `MailOutbox` |
| Runtime settings, feature flags, announcements, app version, observability | reads of configuration, reports |

The modelled part is small beside the repository: most of its 155 000 lines are
contracts of the admin panel, scripts and benchmarks, the writing and checking of
texts, CRUD with its DTOs, and scoring. They hold no protocol that a state machine
would say more about than the code does, so the map covers the services with one.

## 2. How it was planned

First the turn and its money, because everything else of the assistant rests on it;
then the sessions; then the protocols around a turn (admission, cards, catalog), the
shared state of a household (members, week, list, recipe), and what goes on between
the backend and others (mail, store). Each module stands alone, is written without
recursive operators and with one action per operation, so that it can be proved
about; it is checked with two or three actors, one or two objects and bounds that
let every failure happen twice where a second one matters.

What is left, in the order it would be done: the companions of the week (meals
eaten, the clearing of a week together with its list, archives); card-memory
effects and the parallel lanes of tools; contracts, like those of the turn and of its
admission, for the sessions and for the mails.

## 3. TurnExecution

One turn from its acceptance (`postMessage` has inserted the row and charged the
message) to its end, executed by `Procs` processes in at most `MaxAttempts` attempts.

| Model | Code |
|---|---|
| `row`, `clock` | `AgentTurn`; the deadline is open, due, or past its grace |
| `messages` | the quota counter the turn was charged to |
| `journal`, `booked`, `answer` | `AgentTurnEffect`, `AiUsage`, the final message |
| `proc`, `abort` | the running map of a process and the reasons of its controllers |
| `run[a]` | the worker routine of attempt `a` with its locals |
| `paidFor`, `gone` | history only: what was really spent, what memory lost |
| `Claim`, `TakeClaim` | `AgentTurnQueue.claim`, `AgentTurnWorker.claimAndRun` |
| `Start` .. `FirstCheck` | `AgentTurnRunner.run` up to the prompt |
| `Round` .. `Decide`, `EndTools` | `AnthropicAgentProvider.run` and its callbacks |
| `CallTool`, `Commit` | `AgentToolExecutor.executeDurable`, `TurnEffects.commitFor` |
| `Settle`, `Answer`, `Fail`, `FailRefund`, `GiveUp` | settle, `finishDone`, `finishFailed`, the exits |
| `Renew`, `RenewGivesUp`, `DeadlineTimer` | timers of a routine |
| `Sweep`, `StopRequest`, `StopFollowUp` | sweeper and lazy close, `cancelTurn` |
| `Drain`, `DrainAbort`, `Crash`, `Restart` | process life |

*Steps.* One step is one database transaction, or the code between two awaits.
A call that may fail takes an outcome: `rejected` (not committed) or
`unacknowledged` (committed, the caller sees an error).

*Abstractions.*

- The random lease token of a claim is the number of the attempt: every claim
  increments it in the same statement, so both are equally fresh.
- A lease is none, live or expired, and the deadline open, due or over; there is one
  clock (the code compares dates of the database server or of one process; skew between
  processes is not modelled).
- The sweeper's read and its close are one step: what makes the verdict true stays
  true until the turn is closed, except a lease taken meanwhile, which the
  conditional update rechecks. So are the reads of the journal and of the lease in
  `CallTool`: the transaction that follows repeats both.
- Tools of one round run one after another. Effects are keyed writes and the one
  card; effects with natural keys, cards kept only in memory, progress and drafts,
  turns without a lease (legacy) and deletion of the conversation are left out. One
  cursor finds the keys of all keyed calls (`KeyFor`); the code counts per tool
  (turn-effects.ts:164-174), so the keys here are those of calls to one tool.
- The nightly job, which closes RUNNING turns long past their timeout directly
  (agent-retention.service.ts:157-167), neither clearing the lease nor giving a free
  message back, is left out; the sweeps of every minute normally come before it.
- A message costs or does not (`Costs`); the amount is not modelled, so `row.cost`
  counts paid calls.

*Bounds.* Two processes, two attempts, two model calls per attempt, two keys: a
crashed attempt can leave none, one or two effects, and a recovered one can replay
one and write the next. `Faults`, `Costs` and `Events` switch on what an instance is
about; each run names what it leaves out by what its cfg does not list. Two
constraints keep apart what would be too large together. `Apart` (`turn_effects`): a
turn with keyed effects meets no second card, no "stop" and no drain, a turn with two
cards no drain, none both a "stop" and a drain; crashes, expiring leases and sweeps
meet all of them. `EarlyDeadline` (`turn_money`): the deadline comes during the first
model call of the first attempt or not at all. Processes, and operations where they are
listed, are symmetric (not in the run of liveness).

*Fairness.* `FairSpec` assumes that a dead process is restarted (the platform does
that), strong fairness of the sweep (every process sweeps at boot and once a minute,
so one that keeps crashing and coming back gets to it), that an unrenewed lease runs
out, and that the event loop of a living process gets on with a routine. It
does not assume that anybody claims the turn, that heartbeats fire, or that the
deadline comes: of the two ways of `turn_liveness`, "deadline" is about turns past
their deadline and "stop" about turns that have none.

*The contract* (`TurnContract`) says in five variables what a user may rely on: one
end, DONE with an answer or FAILED without one; effects only accumulate and only
before the end; the message comes back only while nothing was spent, and is charged
again once something was. The refinement mapping is at the end of `TurnExecution`.

## 4. TurnAdmission

How a message, or an edit of a message, becomes a turn, for `Requests` handled at the
same time by any number of instances.

| Model | Code |
|---|---|
| `turn`, `cost` | the turn of each message: running (live, or late when past its deadline), done, refunded; its cost |
| `used`, `hidden` | the quota counter of a household; whose edit hides the message of a conversation |
| `req[p]` | a request: its step, and what its open transaction has decided from its snapshot |
| `FindEdited`, `HideEdited`, `UndoEdit` | `editMessage` before and, in its catch, after posting |
| `Lookup`, `PreCheck` | `postMessage` up to the transaction: duplicate, breaker, ceilings |
| `Begin`, `Commit`, `Duplicate`, `Conflict` | the serializable transaction of `runSerializable`, P2002, P2034 |
| `Call`, `End`, `GiveBack` | the ledger: a booking (also one that comes after the end), the closing of a turn, the refund of a failed turn in a transaction of its own |
| `Expire` | the clock: the deadline passes |

*Serializable transactions* are two steps. `Begin` reads one snapshot and decides;
`Commit` writes. PostgreSQL refuses one of two concurrent transactions when each read
what the other wrote; for two starts, what each read of the other is what it
*counted*, so a commit makes `rival` of every open start that counted the same turns
(`Mutual`), and a rival can only retry. The ledger's own transactions
are shorter than that and are one step each; one that writes the row of a turn which an
open start is about to close, or the counter which it is about to charge, makes that
start lose too (`Rivals`). Starts that did not count each other go on:
that is the hole the reserve band is for, and `InstallationBudgetHolds` states how far
it reaches: `since` counts the starts after a look from afar.

*Abstractions.* Which of a conversation's running turns are past saving depends on
leases and clocks in `TurnExecution`; here `Begin` may find any of them so. Money is in
units of which a turn spends at most `Reserve`, one after another: the units spent when
the reservation of a turn was gone already (`overdue`) count for no ceiling, as nobody
could have held them back. `ReservationAssumption` says that reservations are switched
on; with `AI_TURN_COST_RESERVE_USD = 0` nothing is held back, and no ceiling is
promised. `FinitelyManyMessages`: a table is finite, which the sums need. The rate
limits, the trial cycle, attachments and the title of a conversation are left out.

*The contract* (`AdmissionContract`) has neither requests nor transactions: four of the
variables, and five things that can happen to a turn. A turn starts in one step, which
closes what still runs in its conversation and finds room, in the household's semaphore
and money, in the money of the trials and in the quota, at that very moment; it spends,
grows old, ends, and its message may come back. After each step the counter of the quota
is the number of messages whose turn was not handed back (`QuotaMatchesTurns`).
`StartsAreAtomic` says that `TurnAdmission` implements this, with the identity as its mapping. So whoever reasons
about starts may forget that they interleave, but for the installation's ceiling, which
starts far from it do not count, and which the contract therefore leaves out.

*Bounds.* Three requests carry messages in four ways (`SendingWays`): the same
message twice, two messages of one conversation, two of one household, a household on
trial beside others. Two
of them may be edits. One retry; ceilings of one or two units, so that the ceilings
of the household and of the trials are met and the band is both entered and overrun. At
these constants the installation's part of `BudgetsHold` follows from the other
ceilings; it is the theorem `BudgetsAreKept` that covers it.

## 5. PlanProposals

Cards that change a week, clicked by `Clicks` requests while people edit the week by
hand.

| Model | Code |
|---|---|
| `week`, `plans` | the plan of the week, an opaque content; the quota of applied plans |
| `card[x]` | `AgentProposal`: status, the week it was made for, snapshots of its last application, stamp |
| `retracted` | proposals whose question was withdrawn (`hiddenAt`) |
| `click[c]` | a request: the row as loaded, the open transaction, the mark it owes |
| `Load`, `OpenClick` | `loadOwned` and the decisions from the row; the transaction's snapshot |
| `Apply`, `RefuseApply`, `LoseRace` | `apply`, `applyWeekPlan`, `claimApply` |
| `Undo` | `undo` |
| `Retry`, `BreakDown`, `Mark` | P2034, an error, `markStatusFrom` after a refusal |
| `Propose`, `Withdraw`, `StaleWithdrawn`, `EditByHand` | the assistant, `editMessage`, any other writer of the week |

A transaction's snapshot is outdated by whoever commits a write of the week or of the
card before it (`Outdate`): it must be taken again. The messages of the conversation are
under no such lock, so a question may be withdrawn beside an application that no longer
looks; `WithdrawnIsNotApplied` therefore speaks of clicks made after the withdrawal.
`CardsKeepFaith` is what a card owes its user, with the quota of plans
(`QuotaMatchesPlans`: the applications that stand and have changed the week). Left out:
what is in the cards, allergens and memberships (any refusal, `BreakDown`), other kinds
of proposals; and that a withdrawn question comes back when the edit that hid it is
refused (agent-turns.service.ts:283-286; `TurnAdmission` has it): here `Withdraw` is for
good. *Bounds.* Two clicks on one card, two contents, one edit by hand, two
applications, one retry.

## 6. CatalogSync

| Model | Code |
|---|---|
| `catalog`, `log`, `sequence`, `epoch`, `minRev` | `Recipe`, `CatalogChange` and its sequence, `CatalogSyncState` |
| `txn`, `numbering` | open transactions of writers; the advisory lock of `catalog_change_revision_lock` |
| `Write`, `Number`, `CommitChange`, `Rollback` | statements, deferred triggers, the end of a transaction |
| `Prune`, `StartAnew` | `minRevision` moves; the log is started over |
| `AskSnapshot` .. `SnapshotRows`, `Reset` | one page of `CatalogSyncService`, statement by statement, and what a client does with it |
| `AskAgain`, `GiveUp` | a lost answer, an abandoned run |
| `ReadKey`, `UseCached`, `JoinBuild`, `Build*`, `IndexAges` | `AgentCatalogService`: the index by revision |

The content of a recipe is the revision of its last change, so "the client holds every
change up to its revision" is a comparison of numbers. *Bounds.* Two writers, two
recipes, pages of one, two revisions, one new epoch; one client, or one turn that asks
for the index. A page boundary, a change on either side of it, two transactions that
number and commit in either order, and a log that was pruned or started over between
two pages all happen.

## 7. Households

| Model | Code |
|---|---|
| `role`, `standing`, `link` | `Membership`, `Household`, `Invitation` |
| `call[c]` | a request: checked, holding its locks, departed (own membership deleted), about to move sockets |
| `socket[s]` | a handshake and the household rooms the socket is in |
| `StartPromote`, `Promote`; `StartLocked`, `Lock`, `CommitLocked` | `updateMemberRole`, `removeMember`: check outside, check again under `lockHouseholdRoster` |
| `StartLeave`, `Depart`, `CommitLeave`; `Settled` | `leave`; `settleHouseholdAfterMemberLeft` |
| `StartInvite`, `Invite`, `Decline`, `StartAccept`, `CommitAccept` | invitations; accepting one leaves the households the person was in |
| `StartCreate`, `Create` | `create` |
| `JoinRooms`, `LeaveRooms` | `joinHousehold`, `leaveHousehold` after the commit |
| `Connect` .. `LeaveStale`, `Disconnect` | `AuthIoAdapter.authenticate` with its second reading of the memberships |

What a transaction writes is seen at its commit; the rows it has written stay locked
until then (`MemberLocked`, `LinkLocked`). A transaction that waits in a circle is
rolled back (`Abort`), as PostgreSQL does. The heir is any member left, not the oldest.

`guests`, `beside` and `astray` of a link are history: whom it has let in; whether it
was inserted while its issuer was losing the household (by a request checked before);
whether somebody came in for an issuer who was no owner any more. `GuestsOfOwners` says
that there is at most one guest and, but for links opened `beside`, none astray. Those
links are the hole that the check of an acceptance (households.service.ts:297-308) does
not close, as it runs before the transaction: `NoStrayGuest`, see §15.

Left out: preferences, colours, the preview of a link, its age (so a link that expires
between check and redemption), the two statements of `declineInvitation` (one step
here), the token version of a socket (a logout everywhere beside the handshake is in no
module), household data kept for the catalog, what the week and the list make of a change (`WeekPlan.Join`, `Leave`,
`ShoppingList`). *Bounds.* Three people, two households, of which one has two owners,
one link, two requests; or one request at a time and a socket of the person who owns
the second household.

## 8. WeekPlan

| Model | Code |
|---|---|
| `roster`, `revision` | `Membership` rows; `WeeklyPlan.revision` |
| `item[r]` | `PlanItem` of recipe `r`: revision, participants (none: everybody), servings, portions and their stamps |
| `view[u]`, `gate[u]` | the week a phone holds; the members an open request read before its transaction |
| `ReadWeek`, `Ask`, `Refused` | a read of the week; `loadHouseholdMembersForGate`; any refusal |
| `Upsert` | `upsertWeekSlot`, also in the place of another meal |
| `ApplyWeekPlan` | `applyWeekPlan`, plain, by a card, forced, or as the undo of a card |
| `Remove`, `SetPortion` | `removeWeekSlot`, `clearWeekPlan`, `setPortion` |
| `Join`, `Leave` | `onRosterChanged`, `onMemberLeft` |
| `portionsWriteDecision` and the operators around it | `plan-portions.util.ts`, `planned-servings.util.ts` |

Every writer updates the row of the week first, so its transaction is one step; the
reading before it is a step of its own. Requests may ask for anything: any audience,
any portions, with or without a token of what the phone last saw. An answer carries the
meal it wrote and may be lost. Left out: meals eaten and the log of cooking, allergens
and other checks that only refuse, notifications, weeks that do not exist yet; `Join`
knows the number of members exactly, where the code reads it outside the lock of the
week (households.service.ts:400, 419); several slots (the recipes are those of one slot). *Bounds.* Two people with phones, or three
of which one has a phone; two recipes, portions up to two units, two revisions: one
write, and one more over what the first has left.

## 9. ShoppingList

| Model | Code |
|---|---|
| `plan`, `manual` | what the meals need; `ShoppingListManualItem` |
| `list`, `ticks`, `done` | `ShoppingList` with items and its stale mark; `ShoppingItemCheck`; `ShoppingListAddRequest` |
| `writer[w]`, `build[b]`, `holder` | open transactions; who has written the row of the list |
| `WritePlan`, `AddProduct`, `SetAmount`, `MarkStale`, `CommitWrite`, `GiveUpWrite` | writers of the plan and of products, `markShoppingListStale` |
| `Look`, `LockList`, `ReadSources`, `ReadChecks`, `FinishBuild`, `BuildFails` | `readShoppingListSnapshot` and the rebuild |
| `Tick` | `setShoppingItemChecked` |
| `owed` | history: what the requests, each counted once, amount to |

Left out: units and names, extras and archives, the deletion of a list with its week,
and the deletion of `ShoppingListAddRequest` rows after two days
(shopping-list.service.ts:1860-1865): `done` keeps them, so that a request counts once is
about copies that come within that time.
`FirstList` says whether the list exists at first; where it does not, a change of the
household marks nothing (`FreshIsCurrent` fails, see §15), so the run is about a week
whose list exists. The theorem also covers a week without one whose household stays as
it is (which TLC confirms with `FirstList = FALSE` and `ListOps` without `"roster"`).
*Bounds.* Two writers, two readers,
two requests for one product, one change of the plan.

## 10. CookScenarios

| Model | Code |
|---|---|
| `recipe` | amounts under `recipe_content_signature`, and what is outside it |
| `rows`, `cook` | `RecipeCookScenario` versions; `Recipe.cookScenarioVersion` |
| `edit`, `txn` | a transaction that changes the ingredients; the one that holds the recipe FOR UPDATE |
| `jobs`, `pages` | the journal of the writing system; open pages of the panel |
| `ChangeIngredients`, `LockForChange`, `CommitChange`, `ChangeName` | changes of a recipe with their immediate and deferred triggers |
| `Load`, `Import`, `PanelPublish`, `Withdraw`, `Save`, `Release` | the loader, the import of a file, the panel, the writing system; each begins with a `Start` step that takes the lock and reads |
| `ReadRecipe`, `ReadVersions`, `ReadSignature` | the statements of a page of the panel |

A text is the contents it was made for and a draft number. The first rows a recipe may
have (`FirstRows`) are histories the code can have left: `ListFits`, and `ShownInOrder`,
what reached the telephones comes before or at the published version. The file of the
loader was written earlier, for any contents: what `publishCookScenario` compares with the
recipe are amounts and servings, the signature covers more; so `TextFitsRecipe` is about
texts of the writing system. `PeoplePrevail` restricts the import, the saving of a revision
and the panel; the loader and a release publish over a version of the panel, in the code
as here. Left out: prompts,
rounds of review and the checks of a text (a refused one is a rollback), changes of the
rules, reports from telephones, deletion. `Release` (`publishWrittenScenario`) is
exported and only its tests call it so far. *Bounds.* Two amounts, two names, one draft,
one task, one page, four versions, two changes of the recipe: it changes and changes
back, which is when an old signature fits again. The file of the loader is for either
amount.

## 11. AuthSessions

All refresh tokens of one user, handled by `Requests` concurrent handlers for
`Devices` devices.

| Model | Code |
|---|---|
| `tokens[n]` | the n-th `RefreshToken` row: its revocation reason or "live", successor, session, dates as marks |
| `version`, `access` | `User.tokenVersion`; the version signed into the access token of each pair |
| `lock` | the row lock of `lockUserSessions` |
| `run[h]` | the request a handler serves; `seen` is what the dates said when it read the row |
| `store` | the keychain of a device (external) |
| `closed` | history only: sessions retired with all the others, and why |
| `Send`, `Read`, `Rotate*`, `Cleanup`, `Reread` | `refreshAccessToken`, `rotateRefreshToken` |
| `Recover*` | `recoverLostRotation` |
| `AskEverywhere`, `EverywhereBegin`, `RetireCommit` | `logoutEverywhere`, `retireAllUserTokens` |
| `SignIn`, `LoginReads`, `LoginInserts` | `buildAuthResult`: a `Promise.all` without lock |
| `Logout` | `logout`, one conditional update |
| `Grant`, `Refuse`, `Throttle` | the answers, which may be lost |
| `Dies` | a crash or a failed call: an open transaction is rolled back |

*Steps.* A transaction under the lock is a `Begin` step, which takes the lock and
reads, and a `Commit` step, which writes; the dates were read before it, by the
first query of the request, and the model keeps that difference. Statements that
take no session lock wait for row locks (`RowLocked`).

*Abstractions.* Dates become marks that time puts on a row: issued in the last
minute, past the grace period, expired, session past its absolute age; they come
in an order the code allows. A purged row keeps its mark that it expired, nothing else.
A session is named by its first token. The throttler of the endpoint, identity
providers and deletion of the account are left out. A device sends whatever it stores,
repeats requests, and takes an answer or never gets it; with `Patient` it goes on only
when none of its requests is in flight.

*Purges.* Rows expire and are purged in `auth_patient` only. That `ChainIntact` and
`RetirementIsFinal` hold beside purges, too, is proved, not checked by a run.

*Bounds.* `MaxTokens` rows; a request starts only if there is a row left for it, so
no step is ever blocked by the bound. Four or five rows let one session rotate,
be rescued, fork and be retired, and another be started after it. `MaxVersion` bounds
only requests to log out everywhere, not detections of reuse. `Limit` is 2 where the
limit is the question, else out of reach.

*Fairness.* `auth_answered` assumes strong fairness of each handler: PostgreSQL
queues the waiters of a row lock, so a waiter that could often take it does, and a
living process continues its requests. Crashes are off in that run, since a dead
request is answered by nobody.

## 12. MailOutbox

| Model | Code |
|---|---|
| `mail[m]` | `MailMessage`: status, attempts, whether it is due, stuck, cleared by retention; `id`, which of the provider's copies `providerMessageId` names |
| `suppressed`, `accounts` | `MailSuppression`; users that exist |
| `phase[w]`, `job[w]` | where the sweep of a process is, and the attempt it makes for each row |
| `accepted`, `delivered`, `reported`, `lapses` | external: keys the provider remembers, copies it sent, which it reported as failed, how often it forgot a key |
| `Enqueue` | `enqueue`, once per `dedupeKey` |
| `RecoverStuck`, `ListDue`, `ClaimRow`, `ReadClaimed`, `SendMail`, `SuppressAddress`, `Settle`, `EndSweep` | `sweep`, `recoverStuck`, `claim`, `deliver` |
| `BecomesDue`, `Hangs`, `Scrub` | backoff, `STUCK_SENDING_MS`, retention |
| `KeyLapses` | a day has passed since the provider accepted the message (mail-client.ts:16-21, resend.client.ts:19) |
| `Bounced`, `ReportedFailed`, `AskRetry`, `QueueAgain`, `RemoveAccount` | webhook of the provider, the panel, `deleteAccount` |
| `WorkerDies` | a crash, or a failed statement that ends the sweep |

Attempts are counted as the code does, `row.attempts + 1` without a cap. The panel's
"send again" leaves the count as it is, so a message that had used up its budget gets one
attempt more; `WithinBudget`, a part of the type invariant, is that bound.

The key under which the provider is called is the same for all attempts, but the provider
remembers it for a day. The backoff of the worker (1 minute to 6 hours, five attempts) stays
within that day; what does not is "send again" long after, and a message held up under way:
no process swept, mail was switched off, a call hung. `late` marks the second kind.
`OneCopyPerKey` says that there is no other cause of a second copy, and no more copies than
keys forgotten. That a second copy happens, against the comment at
mail-worker.service.ts:25-28, is `NeverTwice` in §15.

*Bounds.* One message, two workers, two attempts, one crash, one "send again", one key
forgotten: a second copy can come from either cause. *Fairness.* A living
process sweeps once in every interval and goes on with what it has begun; time passes.
Reports, the panel and crashes are owed to nobody. The provider's answer is any of four,
and no fairness is assumed between them.

## 13. Subscriptions

| Model | Code |
|---|---|
| `apple`, `today`, `changes`, `notes[n].said` | external: the subscription at Apple, its periods, what each notification says |
| `notes[n].at`, `attempts` | `AppleNotification` |
| `sub` | `Subscription`: state, `lastNotificationAt`, freshness of `lastVerifiedAt`, the operator's hold |
| `handler[h]` | a notification, a report of the telephone, a sweep or an operator's request under way |
| `Receive`, `Examine`, `WriteNote`, `CloseNote` | `recordNotification`, `processNotification` |
| `Report`, `Sweep`, `AppleAnswers`, `AppleFails`, `Store` | `registerAppleTransaction`, `reconcile`, `persist` |
| `Revoke`, `OperatorAsks` | `billing-ops.controller.ts` |
| `PeriodEnds` .. `BuyAgain` | external: renewals, lapses, refunds, a new purchase |
| `ServerFails` | a restart: all requests under way are gone |

Apple's changes are numbered; a notification of change v is signed at 2v, a request
that begins before change v + 1 reads the clock 2v + 1, so stamps compare as they do in
the code. *Bounds.* Two changes, one new purchase, one restart, one act of the operator,
two handlers. *Fairness.* Requests end; the hourly sweep comes round and Apple answers
again and again (strong fairness, since both recur and either may fail for a while); a
telephone keeps an unreported transaction and repeats its report, as StoreKit does; a
verified row grows stale. No notification need ever arrive.

## 14. Runs

| Run | Shows |
|---|---|
| `turn_effects` | types; effects fill their keys in order, what an attempt told its model is in the journal, a commit finds its key free, only the holder of the lease writes; one verdict, one answer, from the last attempt, carrying the saved card |
| `turn_money` | every call may fail either way: cost, ledger, counter and refund agree, no paid call vanishes from ledger and memory without being known to be lost; the contract of a turn |
| `turn_liveness` | a turn past its deadline is closed even if nobody claims it; "stop" closes a turn without its deadline |
| `auth_race` | types; nothing issued to a session that was retired survives, neither refresh nor access tokens of rotations and rescues; an old copy raises the alarm once; each rotated token keeps its one successor and no revocation is undone |
| `auth_patient` | a patient device keeps a working token whatever is lost or crashes, while rows age, expire and are purged between the steps |
| `auth_answered` | every refresh is answered, and racing requests stay within the limit of the account |
| `assistant` | *admission:* one turn of a conversation and the semaphore (`TurnsAreExclusive`), the ceilings (`BudgetsHold`; that of the installation by its theorem, see §4), starts that are as good as one step, and the quota with them (`StartsAreAtomic`), no trace of refused edits; *cards:* faith kept with users over applications and undos, and the quota of plans; *sync, index:* a stored revision means every change up to it |
| `household` | *homes, sockets:* an owner remains, a link lets in one person, and for an owner, nobody listens who has left; *week, three:* stamps name contents, eaters are members, nothing is lost unseen; *list:* up to date means the sum, each request counts once; *cooking, writing:* telephones cook by what fits the recipe, no import, saved revision or page of the panel passes over what came since |
| `mail` | one copy for each time its key is remembered, a second one only for the panel or after a day under way; attempts within the budget and the panel's; silent once skipped, settled in the end |
| `subscriptions` | later notifications are not replaced by earlier ones; access becomes what Apple says |
| `free_failure`, `auth_closed_access` | the two findings below, by a counterexample |

Deadlock is not checked in any of them: a turn ends, a session uses up its rows, and
every other instance stops at its bounds. That systems do not stop too early is what
the liveness properties are for.

### Modules that share a run

`MCHousehold` and `MCAssistant` hold several components that share no variable. Their
`part`, chosen in the initial state, says which of them moves; the others keep
still. So one run explores the sum and not the product of their states.

| `part` | Moves | States |
|---|---|---|
| `homes` | `Households`: two requests, no socket, no creation | 117 000 |
| `sockets` | `Households`: one request at a time and a socket | 67 000 |
| `week` | `WeekPlan`: two people, both with phones | 155 000 |
| `three` | `WeekPlan`: three people, one with a phone | 85 000 |
| `list` | `ShoppingList` | 223 000 |
| `cooking` | `CookScenarios`: loader, import, panel, withdrawal, changes of the recipe | 132 000 |
| `writing` | `CookScenarios`: a task of the writing system, releases, import, withdrawal, changes | 48 000 |
| `admission`, `cards`, `sync`, `index` | `TurnAdmission`, `PlanProposals`, the two readers of `CatalogSync` | 420 000 together |

`MCTurnWays` does the same for liveness: `way` says whether the turn meets its
deadline or "stop".

## 15. Findings

Disagreements between the code and what its comments say of it. Two have a run:

1. `free_failure`: `finishFailed` closes a turn and refunds it in two transactions; a
   crash between them leaves a free failure charged, and nobody looks at it again.
2. `auth_closed_access`: sign-in takes no session lock, so beside "logout everywhere"
   it can return a working access token of a session that was just closed.

The others are kept as definitions beside the properties they would strengthen; TLC
refutes each when it is added to the cfg named here, unchanged unless a constant is
given.

| Definition | Says | Refuted in |
|---|---|---|
| `TurnExecution.RejectedTwiceStaysCharged` | a call whose booking was rejected twice keeps the message charged (agent-turn.runner.ts:1351-1353, 1406). Only the attempt that made the call knows; if it dies, the message is given back | `MCTurnMoney`, with `Events = {"deadline", "crash"}` |
| `TurnExecution.DropMeansLost` | an attempt drops a turn only if it has lost it (:307, 555). A process that claims again a turn it stalled on shares one controller between both attempts, and the lost lease of the old one drops the new one. (The old one's `finally` also deletes the entry of the running map of the new one; `End` does so too.) | `MCTurnEffects` |
| `TurnAdmission.EditedStaysHidden` | an accepted edit leaves the old message hidden (agent-turns.service.ts:209-211). A second edit restamps what the first has hidden, and shows it again when it is refused | `MCAssistant` |
| `CatalogSync.IndexMatchesItsKey` | the index kept under a revision has every change up to it (agent-catalog.service.ts:217-218). Whoever joins a build under way may bring a newer key than what it has read | `MCAssistant`, two `Askers` |
| `Households.PromotedByOwner` | roles are changed by owners only (households.service.ts:110-113). A promotion is checked outside the lock | `MCHousehold` |
| `Households.OneHome` | one household at a time (:316-321). Two creations of one person both pass the check | `Households` alone, `HomeOps = {"create"}`, two requests, nobody in a household at first |
| `Households.NoStrayGuest` | whoever comes in is let in for somebody who owns the household (:297-308). The check is made before the transaction; a link inserted beside the removal or demotion of its issuer is not put out by it, and an acceptance that has checked before that commits redeems it after | `MCHousehold` |
| `WeekPlan.SharedPortionsAreEverybodys` | the portions of a shared meal are of all members (portionsProblem, plan-portions.util.ts). Members are read before the lock | `MCHousehold` |
| `ShoppingList.FreshIsCurrent` with `FirstList = FALSE` | a change of the household marks the lists of coming weeks (plan-roster.util.ts:52-56). It marks the rows it sees; a first rebuild that has read the plan before creates one that says it is up to date | `MCHousehold` |
| `CookScenarios.PanelKnewTheRecipe` | a publication that is not refused was made over the recipe the page showed (admin-cook-scenarios.service.ts:341-368). The page reads the recipe before its signature, in another snapshot | `MCHousehold` |
| `MailOutbox.NeverTwice` | the provider's key protects from every second sending of a row put back (mail-worker.service.ts:25-28). The key is valid for a day: a row put back, or sent again by the panel, later than that leaves twice | `MCMail` |
| `MailOutbox.NoAttemptAfterRemoval` | nothing is attempted for a removed account. A row in SENDING is left as it is | `MCMail` |
| `Subscriptions.PaidIsSeen` | whoever pays ends up with access (subscriptions-reconcile.service.ts:22-26). A row that says "ended, will not renew" is not asked about again, and one lost notification of a new purchase leaves it so until the telephone reports | `MCSubscriptions`, `MaxChange = 3`, `MaxFailures = 0`, `MaxOperator = 0` |

Worth knowing, without a definition: a device whose duplicate request is handled after
it has moved on looks like two holders of a token and is signed out everywhere (so
`StoredTokenWorks` asks for devices that wait, `Patient`). Comments at
subscriptions.service.ts:612-614 and in the reconciliation say that a notification of a
subscription not yet known waits for its row; :747-751 marks it processed. Withdrawing a
scenario changes neither token of an open page of the panel, so a publication from that
page may bring back what another administrator has just taken off.

## 16. Proofs

All theorems hold for every value of the constants, under the named assumptions of the
module alone (TLC evaluates them in every run that uses it) and what is said in the
table. Eight modules of proofs EXTEND the modules they are about.

| Theorem | States | In |
|---|---|---|
| `TypeCorrect` | `TurnExecution`: `Spec => []TypeOK` | `TurnExecution_Proofs` |
| `QuotaCorrect`, `AnswerCorrect`, `JournalCorrect` | its invariants `QuotaMatchesRefund`, `DoneHasItsAnswer`, `JournalHolds` | |
| `ClosedForGood`, `WritesAreFenced` | its action properties `ClosedIsFinal`, `FencedWrites` | |
| `ContractKept` | `KeepsContract`: it implements `TurnContract` | |
| `MoneyIsAccounted` | `NoPaidCallVanishes` | |
| `AdmissionTypes`, `ExclusiveTurns`, `BudgetsAreKept`, `QuotaIsRight`, `RefusalsUndone` | `TurnAdmission`: `AdmissionTypeOK`, `TurnsAreExclusive`, `BudgetsHold`, `QuotaMatchesTurns`, `RefusedEditsLeaveNoTrace` | `TurnAdmission_Proofs` |
| `StartsAreOneStep` | `StartsAreAtomic`: it implements `AdmissionContract` | |
| `ProposalsTypes`, `FaithIsKept` | `PlanProposals`: `ProposalsTypeOK`, `CardsKeepFaith` | `CardsAndCatalog_Proofs` |
| `HomeTypes`, `AlwaysOwned`, `ListenersBelong`, `LinksAdmitGuestsOfOwners` | `Households`: `HomeTypeOK`, `OwnerRemains`, `NoStrayListener`, `GuestsOfOwners` | `HomesAndCooking_Proofs` |
| `PlanTypes`, `WeekIsTrue`, `PortionsAreNotLost` | `WeekPlan`: `PlanTypeOK`, `WeekHolds`, `NothingLostUnseen` | `PlanAndList_Proofs` |
| `ListTypes`, `RequestsCountOnce` | `ShoppingList`: `ListTypeOK`, `AmountsAddUp` | |
| `ListIsRight` | `ListHolds`, if the list exists or the household does not change (`FirstList`, or no `"roster"`) | |
| `CookTypes`, `ScenariosAlwaysFit`, `PeopleHaveTheirWay` | `CookScenarios`: `CookTypeOK`, `ScenariosFit`, `PeoplePrevail` | `HomesAndCooking_Proofs` |
| `AuthTypeCorrect`, `ChainStaysIntact`, `RetiredStaysDead`, `RevokedOnce`, `RotationsAreLimited` | `AuthSessions`: `TypeOK`, `ChainIntact`, `RetiredIsDead`, `RetirementIsFinal`, `RotationsWithinLimit` | `Accounts_Proofs` |
| `KeychainWorks` | `StoredTokenWorks`, for devices that wait (`Patient`) and with the rescue of lost rotations not bound to its time (`~Strict`) | |
| `MailTypes`, `CopiesHaveCauses`, `SkippedIsSilent` | `MailOutbox`: `MailTypeOK`, `OneCopyPerKey`, `SilencedStaysSilent` | `Accounts_Proofs` |
| `SubscriptionTypes`, `LaterNoteStays` | `Subscriptions`: `SubTypeOK`, `LatestNoteWins` | |
| `CatalogTypesHold`, `ClientsMissNothing` | `CatalogSync`: `CatalogTypeOK`, `CatalogKeepsFaith` | `CardsAndCatalog_Proofs` |
| `HouseholdParts`, `HouseholdTypes` | `MCHousehold`: its behaviours are behaviours of `HomeSpec`, `PlanSpec`, `ListSpec` and `CookSpec`; `TypesOK` | `HouseholdRun_Proofs` |
| `AssistantParts`, `AssistantTypes` | `MCAssistant`: its behaviours are behaviours of `AdmissionSpec`, `CardsSpec` and `CatalogSpec`; `TypesOK` | `AssistantRun_Proofs` |

Where a type invariant or a property is not inductive, this is what was added and why.

*TurnExecution.* `TypeOK` is strengthened to `TypeInv`: each routine is not only of its
record type but `Sound`: a claimed one has its process, one that waits for the model
or books a call has made one, and one about to commit an effect holds the key its
operation was given; and the card's key holds only cards. Without this the step that
books would not be known to book a call, nor an answer to carry a card. The
invariants are then proved together with two facts about the row:

    Inv == TypeInv /\ TokenIsLast /\ RefundAfterClose /\ <the invariants>

`TokenIsLast` (the token of the row is that of the last attempt, or none) is why a
fence on the token keeps older attempts out; `RefundAfterClose` is why the separate
refund of a failed turn never touches a running one. Steps are first
classified: for the shared state a step is one of seven shapes (`Quiet`, `Claims`,
`Books`, `GivesBack`, `Fails`, `Answers`, `Writes`), for a routine one of four
(`Moves`, `StartsEffect`, `Learns`, `Refunds`). Each conjunct is then preserved by
cases over shapes instead of over three dozen actions. The three parts of `JournalHolds`
need one another: a writer's key is the one after what it was told, which is free
because the journal has no gaps. The ledger has an invariant of its own, `MoneyInv`,
which follows each model call from its answer to its row: a call has a number of its
own (`Numbered`), two calls never share a key of the ledger (`Keyed`), what an attempt
still has to book are its own calls (`OwnCalls`), and a routine that begins or leaves
owes nothing (`NothingOwed`). So `skipDuplicates` skips only a booking that was made.

*TurnAdmission.* All but the edits rest on what a start that may still commit knows.
`SeesRunning`: it closes every turn that runs in its conversation, and (`ClosingRuns`)
what it closes still runs. `SlotRoom`, `HouseRoom`, `TrialRoom`, `NearRoom`: what it has
counted, live turns or what is held back of a ceiling, still leaves room for one more.
They survive other commits because a start that has counted less than somebody has
committed since became a rival. A start that found the installation's ceiling far has
not counted: `FarBound` limits how far the starts since may have taken it. Of a live turn
the whole reservation counts as held, so a call to the provider moves no sum, and a step
is one of three: a request goes on, turns grow old, spend and end, or a start commits.
`QuotaRoom` is the same for the counter. For the contract, a commit has to be its `Start`
(`CommitStarts`): what the start closes is, by `SeesRunning` and `ClosingRuns`, exactly
what the contract closes, and the room it counted is the room there is. The ledger's steps
are the contract's others (`WorkWorks`), and a step of a request changes none of its four
variables.
`StampsAreOpen`: whoever's stamp hides a message is an edit that is under way, was
accepted or still has to take its stamp back.

*PlanProposals.* `ClickOK` says what the row a click has loaded is still worth: what the
card proposes never changes, what it remembers changes only with its stamp, a click
that came after the withdrawal has it in its snapshot, and an undo that still finds its
application knows whether it was charged; `Remembers` ties the snapshot of
an applied card to the week it has replaced.

*Households.* A demotion counts owners under the lock of the roster. `OwnerCounted`: the
other owner it has counted is still one when it commits, because only holders of that
lock, or departures that settle afterwards, end an ownership. `SocketFits`: a room that
the first reading of a handshake has led to is among those it looks at again. `CallKills`:
whoever is about to end somebody's ownership holds every link that person has open to the
household, but for those inserted beside it, until it commits and puts them out; so an open
link that was not inserted so is of an owner (`GuestFits`).

*WeekPlan.* Stamps say something only if no writer ever puts other content under an old
one. `Follows` is what each writer does to each meal: it leaves it as it was, takes it
away, or marks it with a revision no phone has been shown, the meal as a whole and each
portion that is new (`Marked`). From it follows `Agrees`, between every phone and every
meal: an unchanged stamp is unchanged content, whatever was removed, added again or put
in another's place between. `EatersFit`, eaters are members and portions are theirs, is kept
by every step because members are read again under the lock of the week. For
`NothingLostUnseen` each branch that drops portions is shown to have compared stamps first.
For the types, `Whole` says that a meal is there exactly when it has servings, which the
sum of its portions decides. That sum is counted unit by unit (`SumOf`: portions of a
person who eats leave a unit to count), so its facts are facts about cardinalities and
need no induction over people.

*ShoppingList.* The row of the list as a lock: `ReadIsCurrent` (what a rebuild has read
is still what the list is made of) and `AddIsFresh` (a request that may still commit
still adds one to the amount it read). Neither needs the list to exist for the requests
to count once, because their writers hold or create its row in any case. Up to date also
means current from the first rebuild on (`AllMarked`) unless the household changes before
there is a list: that one writer marks only rows it sees, and §15 shows what follows. The
types rest on `ListMore`: what a writer will leave is in range already when it begins.

*CookScenarios.* `HoldFits`: whoever holds the recipe excludes a change of its amounts, so
what it has read still holds when it publishes; `CookPoints`: the number in the recipe is
that of the published version; `JobFits`: a task's answer is about what it read. For
`PeoplePrevail`, `ShownInOrder`, what reached the telephones comes before or at the
published version, and `BanFits`: what was withdrawn last is the newest version that
reached the telephones, which is the one the import looks at.

*AuthSessions.* The row of the user as a lock. `HandlerFits`: what a rotation, a rescue or
a retirement has read of the sessions is true until it commits, save for sessions begun
since. `RowFits`: a row expires only after the one it succeeds, so a successor is not
purged before the token that points to it; that no request runs out of rows is a
count of those that may still need one (`RoomLeft`). `LimitHolds`: who rotates has found
room under the lock, and nobody else rotates until it commits. `KeychainWorks` rests on
`PatientInv`: the requests of a device under way all present one token (`Patience`), no
two devices touch tokens of one session (`Apart`), and every token that is touched gets a
pair, was purged, or is of a session its user has closed (`AllGood`). Both hypotheses are
needed. Without `Patient` a duplicate handled late looks like two holders of a token; with
`Strict` an answer that is lost for longer than the grace period signs the device out,
which is what that switch is for.

*MailOutbox.* `BudgetKept`: a row in the queue or in hand has a count below its budget and
what the panel has added. `DeliveryKnown`: no more copies have left than keys were
forgotten, but for one whose key the provider still has. `RestedOn`: a message that was
neither late nor sent again has left once, and is at rest once its key was forgotten, so
nobody sends it under that key anew. `Untouched`, of a mail that no sender was too slow with: one worker
has it, and only while it is being sent; what the provider has answered is SENT until a
failure is reported; what was skipped stays so.

*Subscriptions.* `HasNote` and `InStep`: a handler of a notification has one, and periods
and transactions do not run ahead of Apple's changes, so no stamp leaves its range.

*CatalogSync.* `BlocksInOrder`: the one block of numbers that is out lies above all that
is visible, because the lock under which numbers are drawn is kept until the commit.
`Fits`: a run of pages holds, of the recipes it has passed, every change up to the revision
it leads to, of those that a page of changes skips, too; a page that is read in a later
snapshot than the one before it only knows more.

*Assumptions added for the proofs* are of three kinds: a table is finite
(`FinitelyManyMessages`, `FinitelyManyProposals`); reservations are switched on
(`ReservationAssumption`); and the first rows of a recipe are a history the code can have
left (`CookAssumption`, evaluated by TLC for the histories of the run).

*Only model-checked.* Liveness (`OverdueIsClosed`, `StopEndsTurn`, `Answered`,
`EveryMailSettles`, `AccessSettles`): with `ENABLED` it is outside what the provers can
do.

That the instances TLC explores are instances of what the theorems are about is itself a
theorem for the two runs that hold several components (`HouseholdParts`,
`AssistantParts`), so everything else these runs check follows from the theorems of the
parts, under their hypotheses, for any values of the constants that meet the assumptions
(`RunAssumption`: the people a run names are among its `Persons`).
