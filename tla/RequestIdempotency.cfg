\* Three requests of one key over records that run out.
CONSTANTS
    r1 = r1  r2 = r2  r3 = r3  k1 = k1  None = None
    Requests = {r1, r2, r3}
    Keys = {k1}
    Inputs <- HeaderOrBody
    ProcessingTtl = 2
    ResultTtl = 3
    WaitTicks = 1
    MaxFaults = 1
SPECIFICATION FairSpec
INVARIANT OneRunsAtATime
PROPERTIES ImplementsOneExecution NobodyWaitsForEver ReservationsEnd
