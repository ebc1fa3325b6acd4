\* Two calls for one pair of resources; timers late by less than the margin; fn may hang.
CONSTANTS
    c1 = c1
    c2 = c2
    Calls = {c1, c2}
    Resources = {1, 2}
    Wants <- SamePair
    TTL = 4
    Timeout = 3
    Interval = 1
    Slack = 1
    MaxFaults = 1
    None = None
SPECIFICATION FairSpec
INVARIANTS Exclusion SomebodyGetsIn
PROPERTIES NobodyIsRobbed EveryCallReturns EveryKeyIsFreed
