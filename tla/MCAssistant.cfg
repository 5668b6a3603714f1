SPECIFICATION MCSpec
CONSTANTS
  r1 = r1
  r2 = r2
  r3 = r3
  m1 = m1
  m2 = m2
  m3 = m3
  m4 = m4
  m5 = m5
  c1 = c1
  c2 = c2
  c3 = c3
  c4 = c4
  h1 = h1
  h2 = h2
  h3 = h3
  k1 = k1
  k2 = k2
  w1 = w1
  w2 = w2
  Requests = {r1, r2, r3}
  Messages = {m1, m2, m3, m4, m5}
  Conversations = {c1, c2, c3, c4}
  Homes = {h1, h2, h3}
  Sendings <- SendingWays
  ConversationOf <- Chats
  HomeOf <- Houses
  Edits = {r2, r3}
  Trials = {h2, h3}
  HouseLimit = 1
  HouseBudget = 1
  Budget = 2
  TrialBudget = 1
  Reserve = 1
  Band = 2
  QuotaLimit = 2
  Retries = 1
  Clicks = {k1, k2}
  Proposals = {x1}
  Contents = {u0, u1}
  FirstWeek = u0
  PlansLimit = 1
  ClickRetries = 1
  MaxEdits = 1
  MaxStamp = 2
  Writers = {w1, w2}
  NoWriter = NoWriter
  Clients = {t1}
  Askers = {q1}
  NumRecipes = 2
  Limit = 1
  MaxRevision = 2
  MaxEpoch = 1
SYMMETRY Symmetry
INVARIANTS TypesOK TurnsAreExclusive BudgetsHold RefusedEditsLeaveNoTrace
PROPERTIES StartsAreAtomic CardsKeepFaith CatalogKeepsFaith
CHECK_DEADLOCK FALSE
