SPECIFICATION Spec
CONSTANTS
    o1 = o1
    o2 = o2
    managed = managed
    sealed = sealed
    offer = offer
    seller = seller
    root = root
    alice = alice
    bob = bob
    Orders = {o1, o2}
    Listings = {managed, sealed}
    Subjects = {seller, alice, bob}
    Owner <- MCOwner
    Mode <- MCMode
    Price <- MCPrice
    Endowment <- MCEndowment
    FundingTimeout = 1
    DeliveryTimeout = 1
    Faults = {"package_missing"}
    Limit = 1
    MaxQuantity = 1
    Horizon = 3
SYMMETRY MCSymmetry
INVARIANTS
    OrdersSound NoOverdraft
PROPERTIES
    SettledOnce PromiseKept
