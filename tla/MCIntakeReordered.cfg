CONSTANTS
    s1 = s1
    s2 = s2
    u1 = u1
    u2 = u2
    p1 = p1
    free = free
    pro = pro
    NoRow = NoRow
    NoPlan = NoPlan
    NoUser = NoUser
    NoProduct = NoProduct
    Nothing = Nothing
    Subs = {s1}
    Users = {u1}
    Owner <- OneSubscription
    Products = {p1}
    Statuses = {"active", "expired"}
    PlanIds <- MCPlanIds
    PlanFor <- MCPlanFor
    DefaultPlan = free
    Endpoints <- MCEndpoints
    Handlers = {h1}
    Shapes = {"ok"}
    Overlap = FALSE
    InOrder = FALSE
    Ticks = {1}
    MaxEvents = 2
    MaxFaults = 1

SPECIFICATION Spec

INVARIANT EntitlementsFollowProvider
