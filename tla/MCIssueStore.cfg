SPECIFICATION Spec
CONSTANTS
    tA = tA  tB = tB  ENG = ENG  OPS = OPS  WEB = WEB
    Teams = {tA, tB}
    Prefixes = {ENG, OPS, WEB}
    ProviderKeys <- ProviderENG2
    Callers = {c1, c2}
    ScanBound = 1
    MaxNumber = 3
    MaxIssues = 2
SYMMETRY StoreSymmetry
INVARIANTS
    AllocationUsable
    CompletedIsDelivered
PROPERTIES
    IdentityIsPermanent
