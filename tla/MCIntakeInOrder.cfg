CONSTANTS
    s1 = s1
    s2 = s2
    u1 = u1
    u2 = u2
    p1 = p1
    free = free
    pro = pro
    NoRow = NoRow
    NoPlan = NoPlan
    NoUser = NoUser
    NoProduct = NoProduct
    Nothing = Nothing
    Subs = {s1}
    Users = {u1}
    Owner <- OneSubscription
    Products = {p1, p2}
    Statuses = {"past_due", "expired"}
    PlanIds <- MCPlanIds
    PlanFor <- MCPlanFor
    DefaultPlan = free
    Endpoints <- MCEndpoints
    Handlers = {h1}
    Shapes = {"ok"}
    Overlap = FALSE
    InOrder = TRUE
    Ticks = {1}
    MaxEvents = 3
    MaxFaults = 2

SPECIFICATION FairSpec

INVARIANT EntitlementsFollowProvider
PROPERTY EveryEventSettles
