SPECIFICATION Spec
CONSTANTS
    Jobs = {j1}
    SmartJobs = {j1}
    Runs = {r1, r2}
    Workers = {w1, w2}
    MCRows = 4
    Execs <- MCExecs
    Texts = {t1, t2}
    None = None
    MaxStalled = 1
    MaxFaults = 1
    MaxCrashes = 0
    MaxExpiries = 1
SYMMETRY Symmetry
INVARIANTS
    EventsTellTheTruth
    OutcomeHasEvidence
    CompletedRunWasDone
PROPERTIES
    OutcomeIsFinal
    ReportsOnce
