CONSTANTS
    free = free
    pro = pro
    f1 = f1
    f2 = f2
    p1 = p1
    p2 = p2
    NoPlan = NoPlan
    NoUser = NoUser
    Nothing = Nothing
    PlanIds <- MCPlanIds
    Features = {f1, f2}
    Products = {p1, p2}
    Users = {u1, NoUser}
    Clients = {c1, c2}
    Configs <- MCConfigs

SPECIFICATION Spec

INVARIANT GaugeIsExact
