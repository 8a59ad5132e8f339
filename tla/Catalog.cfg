SPECIFICATION Spec
CONSTANTS
    Absolute = {u1, u2}
    Urls = {u1, u2, bare}
    Targets = {t1, t2}
    Points = {p1}
    Slots = {s1, s2}
    None = None
    Unborn = Unborn
    Gone = Gone
    MaxCalls = 4
    MaxFaults = 1
SYMMETRY Symmetry
INVARIANTS
    TypeOK
    ActiveWasReached
    AnswersAgree
PROPERTIES
    RefusedOnlyIfBeaten
