SPECIFICATION MCFairSpec
CONSTANTS
    m1 = m1  t1 = t1  t2 = t2  g1 = g1  h1 = h1  h2 = h2  h3 = h3  s1 = s1
    w1 = w1  w2 = w2
    Jobs = {h1, h2, t1, t2}
    Workers = {w1}
    Kind <- MCKind
    MaxAttempts = 1
    Concurrency = 1
    MaxQueuedWebhooks = 1
    MaxWebhookRows = 1
INVARIANT ToolSlots
PROPERTY EveryJobEnds VerdictsStand
CHECK_DEADLOCK FALSE
