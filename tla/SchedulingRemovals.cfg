SPECIFICATION Spec
CONSTANTS
    Jobs = {j1, j2}
    Reqs = {r1, r2}
    Patterns = {c1}
    BadPatterns = {}
    Starts = {}
    None = None
    Unborn = Unborn
    Gone = Gone
    MaxCalls = 4
    MaxFaults = 1
    MaxCascades = 1
    MaxRuns = 1
SYMMETRY Symmetry
INVARIANTS
    OrphansExplained
