CONSTANTS
    s1 = s1
    u1 = u1
    p1 = p1
    free = free
    pro = pro
    f1 = f1
    f2 = f2
    f3 = f3
    Subs = {s1}
    Users = {u1}
    Products = {p1, p2}
    Statuses = {"past_due", "expired"}
    NoRow = NoRow
    PlanIds <- MCPlanIds
    NoPlan = NoPlan
    NoUser = NoUser
    NoProduct = NoProduct
    Owner <- MCOwner
    PlanFor <- MCPlanFor
    DefaultPlan = free
    Endpoints <- MCEndpoints
    Handlers = {h1}
    Shapes = {"ok"}
    Overlap = FALSE
    InOrder = TRUE
    Ticks = {1}
    MaxEvents = 2
    MaxFaults = 1
    Nothing = Nothing
    MetricsOn = TRUE
    MetricsPath <- MCMetricsPath
    Features = {f1, f2, f3}
    Conf <- MCConf
    Defined = {f1, f2}
    Clients = {c1}
    Requests <- MCRequests
    MaxAnswers = 2

SPECIFICATION ApiSpec

INVARIANT ApiTypeOK
INVARIANT ReadsGoForward
INVARIANT ExpansionExplainsVerdict
INVARIANT KeyRequired
