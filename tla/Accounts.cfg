SPECIFICATION Spec
CONSTANTS
    Reqs = {r1, r2}
    Passwords = {p1, p2}
    None = None
    MaxCalls = 5
    MaxFaults = 1
SYMMETRY Symmetry
INVARIANTS
    TypeOK
    OneSecretOfAKind
    VerifiedByMail
    PasswordAsAcknowledged
PROPERTIES
    TokenSpentOnce
    PasswordSetByOwner
