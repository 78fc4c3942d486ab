SPECIFICATION RolesSpec
CONSTANTS
    m1 = m1  m2 = m2  m3 = m3  m4 = m4  m5 = m5
    alice = alice  bob = bob  dana = dana  erin = erin  None = None
    Members = {m1, m2}
    Founder = m1
    Address <- Addresses
    Clients = {c1, c2}
    Seated = TRUE
    SeatLimit = 2
INVARIANTS
    OwnerRemains
