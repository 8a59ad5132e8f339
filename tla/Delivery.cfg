SPECIFICATION DeliverySpec
CONSTANTS
    Jobs = {j1}
    SmartJobs = {}
    Runs = {r1, r2}
    Workers = {w1}
    MCRows = 2
    Execs <- MCExecs
    Texts = {t1, t2}
    None = None
    MaxStalled = 0
    MaxFaults = 1
    MaxCrashes = 1
    MaxExpiries = 0
    MaxKept = 1
    MaxAttempts = 1
    Ties = FALSE
    MaxTrouble = 1
SYMMETRY Symmetry
INVARIANTS
    InboxTellsTheTruth
    OutcomesAreNoted
PROPERTIES
    InboxShowsNewest
