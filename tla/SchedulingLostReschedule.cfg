SPECIFICATION Spec
CONSTANTS
    Jobs = {j1}
    Reqs = {r1}
    Patterns = {c1}
    BadPatterns = {}
    Starts = {d1}
    None = None
    Unborn = Unborn
    Gone = Gone
    MaxCalls = 2
    MaxFaults = 0
    MaxCascades = 0
    MaxRuns = 1
SYMMETRY Symmetry
INVARIANTS
    UpdateReschedulesOnce
