SPECIFICATION FairSpec
CONSTANTS
    Jobs = {j1}
    SmartJobs = {j1}
    Runs = {r1, r2}
    Workers = {w1}
    MCRows = 5
    Execs <- MCExecs
    Texts = {t1}
    None = None
    MaxStalled = 1
    MaxFaults = 0
    MaxCrashes = 1
    MaxExpiries = 1
PROPERTIES
    EveryRunSettles
