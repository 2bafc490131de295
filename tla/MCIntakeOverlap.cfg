CONSTANTS
    s1 = s1
    s2 = s2
    u1 = u1
    u2 = u2
    p1 = p1
    free = free
    pro = pro
    NoRow = NoRow
    NoPlan = NoPlan
    NoUser = NoUser
    NoProduct = NoProduct
    Nothing = Nothing
    Subs = {s1, s2}
    Users = {u1}
    Owner <- TwoOfOneUser
    Products = {p1, NoProduct}
    Statuses = {"cancelled", "unpaid"}
    PlanIds <- MCPlanIds
    PlanFor <- MCPlanFor
    DefaultPlan = free
    Endpoints <- MCEndpoints
    Handlers = {h1, h2}
    Shapes = {"ok", "malformed"}
    Overlap = TRUE
    InOrder = FALSE
    Ticks = {0, 1}
    MaxEvents = 2
    MaxFaults = 1

SPECIFICATION Spec
SYMMETRY AnyHandler

INVARIANT OneGrantingSubscription
PROPERTY RestartLoadsTheShown
