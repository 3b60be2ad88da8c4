SPECIFICATION MCFairSpec
CONSTANTS
    o1 = o1
    o2 = o2
    managed = managed
    sealed = sealed
    offer = offer
    seller = seller
    root = root
    alice = alice
    bob = bob
    Orders = {o1, o2}
    Listings = {sealed, offer}
    Subjects = {seller, alice}
    Owner <- MCOwner
    Mode <- MCMode
    Price <- MCPrice
    Endowment <- MCEndowment
    FundingTimeout = 1
    DeliveryTimeout = 2
    Faults = {"package_missing"}
    Limit = 1
    MaxQuantity = 2
    Horizon = 3
INVARIANTS
    OrdersConsistent
PROPERTIES
    OrdersProgress OverdueOnlyRefunds StockNeverOversold
