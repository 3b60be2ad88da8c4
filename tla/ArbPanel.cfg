SPECIFICATION Spec
CONSTANTS
    o1 = o1
    o2 = o2
    seller = seller
    alice = alice
    bob = bob
    l1 = l1
    a1 = a1
    a2 = a2
    a3 = a3
    x1 = x1
    x2 = x2
    Orders = {o1}
    Listings = {l1}
    Subjects = {seller, alice}
    Owner <- MCOwner
    Mode <- MCMode
    Price <- MCPrice
    Endowment <- MCEndowment
    FundingTimeout = 1
    DeliveryTimeout = 1
    Faults = {}
    Limit = 1
    MaxQuantity = 1
    Horizon = 4
    Candidates = {a1, a2, a3, alice}
    PanelSize = 3
    Quorum = 2
    AllowAppeal = FALSE
    CaseTimeout = 1
    DecisionLifetime = 1
    AppealSeconds = 1
    Rationales = {x1}
    MaxEpoch = 1
    MaxKey = 1
    MaxConflicts = 0
SYMMETRY MCSymmetry
INVARIANTS
    PanelSound
