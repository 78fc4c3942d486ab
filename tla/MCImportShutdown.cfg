SPECIFICATION Spec
CONSTANTS
    j1 = j1  j2 = j2  tA = tA  tB = tB  p = p
    Keyless = Keyless  Malformed = Malformed  None = None  Human = Human
    Jobs = {j1, j2}
    FileJobs = {j1}
    Teams = {tA, tB}
    TeamOf <- Teams2
    Identifiers = {p}
    Source <- Source2
    Runners = {r1, r2}
    MaxFaults = 0
INVARIANTS
    ShutdownStrandsNothing
