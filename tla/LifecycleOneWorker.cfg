SPECIFICATION Spec
CONSTANTS
    Jobs = {j1}
    SmartJobs = {j1}
    Runs = {r1, r2, r3}
    Workers = {w1}
    MCRows = 5
    Execs <- MCExecs
    Texts = {t1, t2}
    None = None
    MaxStalled = 1
    MaxFaults = 1
    MaxCrashes = 1
    MaxExpiries = 0
SYMMETRY Symmetry
INVARIANTS
    TypeOK
    DiffVerdictCorrect
    StuckOnlyByFailure
    NoChangeMissed
    ViewAgreesWithDiff
    FalseDoneCorrected
