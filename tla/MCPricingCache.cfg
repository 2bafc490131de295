CONSTANTS
    a = a
    b = b
    c = c
    other = other
    Plans <- MCPlans
    ProductToPlan <- MCProductToPlan
    Variants <- MCVariants
    Offers <- MCOffers
    Periodic = TRUE
    Clients = {c1}
    MaxChanges = 2
    MaxFaults = 2

SPECIFICATION FairSpec

INVARIANT TypeOK
INVARIANT AnswersGoForward
PROPERTY EventuallyFresh
