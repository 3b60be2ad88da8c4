SPECIFICATION MCSpec
CONSTANTS
  a1 = a1
  b1 = b1
  b2 = b2
  ind = ind
  ind2 = ind2
  take = take
  atom = atom
  ka = ka
  kb = kb
  ki = ki
  kt = kt
  s1 = s1
  s2 = s2
  None = None
  Payload <- MCPayload
  Id <- MCId
  IdOf <- MCIdOf
  Kind <- MCKind
  Children <- MCChildren
  Server <- MCServer
  Guarded <- MCGuarded
  MaxUses = 2
  MaxResults = 3
  ann = ann
  ben = ben
  cat = cat
  eve = eve
  w1 = w1
  w2 = w2
  p1 = p1
  p2 = p2
  Persons = {ann, ben, cat}
  Founder = ann
  Overriders = {cat}
  Members = {ann, ben}
  Creator = ann
  Root = eve
  LastHour = 1
  Owners = {ann, ben}
  Keeper = ann
  Sites = {w1, w2}
  Purchases = {p1, p2}
  Base = 1
  MaxCapacity = 2
  Sizes = {0, 2}
  Quantities = {1}
  Quotes <- MCQuotes
  Budget = 2
  PurchaseTTL = 1
  LastDate = 1
  Sources = {w1, w2}
  MaxVersion = 2
  MaxRenewals = 2
  MaxMoves = 1
  Things = {"note", "file"}
  Own = {"note"}
  MaxSeen = 1
  MaxKept = 2
  MaxScan = 2
  Limits = {2}
  MaxEvents = 2
  MaxEpoch = 1
  MaxPages = 1
  MaxAcks = 2
SYMMETRY MCSymmetry
INVARIANTS
    ExecutorSound UsesCounted
    GroupsSound TopicsSound SyncSound
PROPERTIES
    ReplayNeedsAccess KeysBoundOnce
    HostingSound CustodySound
