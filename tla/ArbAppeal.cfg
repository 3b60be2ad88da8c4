SPECIFICATION MCFairSpec
CONSTANTS
    o1 = o1
    o2 = o2
    seller = seller
    alice = alice
    bob = bob
    l1 = l1
    a1 = a1
    a2 = a2
    a3 = a3
    x1 = x1
    x2 = x2
    Orders = {o1}
    Listings = {l1}
    Subjects = {seller, alice}
    Owner <- MCOwner
    Mode <- MCMode
    Price <- MCPrice
    Endowment <- MCEndowment
    FundingTimeout = 1
    DeliveryTimeout = 1
    Faults = {}
    Limit = 1
    MaxQuantity = 1
    Horizon = 5
    Candidates = {a1, a2}
    PanelSize = 1
    Quorum = 1
    AllowAppeal = TRUE
    CaseTimeout = 1
    DecisionLifetime = 2
    AppealSeconds = 1
    Rationales = {x1}
    MaxEpoch = 2
    MaxKey = 0
    MaxConflicts = 0
INVARIANTS
    CasesSound PaidAsDecided
PROPERTIES
    ExecutedUnderAuthority CaseConcludes
