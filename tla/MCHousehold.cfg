SPECIFICATION MCSpec
CONSTANTS
  a = a
  b = b
  c = c
  h1 = h1
  h2 = h2
  k1 = k1
  k2 = k2
  s1 = s1
  p1 = p1
  m1 = m1
  m2 = m2
  Users = {a, b, c}
  Homes = {h1, h2}
  Links = {i1}
  Calls = {k1, k2}
  Sockets = {s1}
  HolderOf <- Holder
  FirstRoles <- Roles
  HomeOps = {"promote", "demote", "remove", "leave", "invite", "accept", "create"}
  Persons = {a, b, c}
  FirstRosters <- FirstHouses
  Recipes = {r1, r2}
  FirstMeals = {r1}
  MaxUnits = 2
  AskedServings = {}
  MaxRevision = 2
  PlanOps = {"upsert", "apply", "portion", "remove", "roster"}
  Products = {p1}
  Writers = {w1, w2}
  Builds = {d1, d2}
  Mutations = {m1, m2}
  ProductOf <- SameProduct
  MaxAmount = 2
  MaxPlans = 1
  FirstPlan <- OneOfEach
  FirstList = TRUE
  ListOps = {"plan", "roster", "add", "set", "tick"}
  Jobs = {j1}
  Pages = {g1}
  Quantities = {1, 2}
  Names = {1, 2}
  Drafts = {1}
  FirstRecipe <- Today
  FirstRows <- Histories
  None = None
  MaxVersion = 4
  MaxChanges = 2
INVARIANTS TypesOK OwnerRemains GuestsOfOwners NoStrayListener WeekHolds ListHolds ScenariosFit
PROPERTIES NothingLostUnseen PeoplePrevail
SYMMETRY Symmetry
CHECK_DEADLOCK FALSE
