SPECIFICATION MCSpec
CONSTANTS
    t1 = t1  t2 = t2  t3 = t3  j1 = j1  b1 = b1  d1 = d1  c1 = c1
    p1 = p1  p2 = p2  k1 = k1  k2 = k2  ann = ann  ben = ben  cat = cat  pub = pub
    Transfers = {t1, t2, t3}
    Jobs = {j1}
    Parts <- MCParts
    Payloads <- MCPayloads
    Outputs <- MCOutputs
    Media <- MCMedia
    Interruptions = {"rollback", "crash", "lost"}
    MaxInterruptions = 1
    Browsers = {b1}
    Devices = {d1}
    Codes = {c1}
    PendingTTL = 1
    CodeTTL = 1
    AccessTTL = 2
    SessionTTL = 2
    KeyExpiry = 3
    MaxRenewals = 2
    MaxVersion = 1
    LastTick = 3
    Aliases = {"root.crt", "root.json"}
    MaxRoot = 2
    MaxSeal = 1
    MaxRotations = 5
    Procs = {p1, p2}
    MaxRestores = 2
    MaxProofs = 2
    MaxData = 1
    Calls = {k1, k2}
    TokenTTL = 2
    Window = 1
    Patience = 1
    MaxRequests = 2
    LastMoment = 2
    Claimants = {ann, ben}
    Publisher = pub
    Terms <- MCTerms
    Sums = {1, 3}
    MaxMinor = 5
    Means = 4
    ChallengeTTL = 1
    MaxChallenges = 2
    MaxKeys = 1
    LastDay = 1
    Editors = {ann, ben}
    FirstText <- MCText
    Edits <- MCEdits
    MaxTokens = 4
    MaxEdits = 2
    Persons = {ann, ben}
    Helpers = {cat}
    Signers = {"ann1", "ann2", "ben1", "cat1"}
    Holder <- MCHolder
    Firsts = {"ann1", "ben1"}
    Objects = {"page"}
    FirstOwner = ann
    Ceilings = {{"page"}}
    Grantees = {"ben1", "cat1"}
    Requesters = {"ann2"}
    Spans = {1}
    Depths = {0, 1}
    MaxCerts = 2
    MaxChanges = 2
    LastMonth = 1
INVARIANTS
    ServicesTyped
    GrantsSound
    RotationSound RecoverySound
    DeliverySound BountySound
PROPERTIES
    ContentsSound DocumentsSound AuthoritySound
    GrantsKeepPromise PauseStands ContentReclaimed
CHECK_DEADLOCK FALSE
