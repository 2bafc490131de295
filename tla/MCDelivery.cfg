CONSTANTS
    m1 = m1
    m2 = m2
    m3 = m3
    works = works
    leaves = leaves
    dead = dead
    NoMessage = NoMessage
    Messages = {m1, m2, m3}
    To <- MCTo
    Configs <- MCConfigs
    Down = {dead}
    Runners = {r1, r2}
    MaxReceive = 2
    MaxFaults = 2

SPECIFICATION FairSpec

INVARIANT TypeOK
INVARIANT GivenUpOnlyAfterFaults
PROPERTY ImplementsOutbox
PROPERTY MessagesArrive
