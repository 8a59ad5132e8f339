SPECIFICATION Spec
CONSTANTS
    Jobs = {j1}
    Reqs = {r1, r2}
    Patterns = {c1, c2}
    BadPatterns = {b1}
    Starts = {d1}
    None = None
    Unborn = Unborn
    Gone = Gone
    MaxCalls = 3
    MaxFaults = 1
    MaxCascades = 1
    MaxRuns = 1
SYMMETRY Symmetry
INVARIANTS
    TypeOK
    CronFollowsRow
    OnceFollowsRow
PROPERTIES
    PausedStaysQuiet
