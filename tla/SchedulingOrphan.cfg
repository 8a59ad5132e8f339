SPECIFICATION Spec
CONSTANTS
    Jobs = {j1}
    Reqs = {r1}
    Patterns = {c1}
    BadPatterns = {}
    Starts = {}
    None = None
    Unborn = Unborn
    Gone = Gone
    MaxCalls = 2
    MaxFaults = 0
    MaxCascades = 1
    MaxRuns = 1
SYMMETRY Symmetry
INVARIANTS
    NoOrphan
