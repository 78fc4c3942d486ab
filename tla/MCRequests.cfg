SPECIFICATION SpecAll
CONSTANTS
    a1 = a1  a2 = a2  b1 = b1  b2 = b2  b3 = b3
    i1 = i1  i2 = i2  r1 = r1
    e1 = e1  e2 = e2  f = f
    Empty = Empty  NoIssue = NoIssue  Unposted = Unposted
    Workspaces = {1}
    Issues = {i1, i2}
    Labels = {Empty, f, e1}
    Features = {Empty, f}
    WorkspaceOf <- WebhookIssueWs
    Identifier <- WebhookIdentifier
    Requests = {}
    Bodies = {b1, b2, b3}
    Alerts = {a1, a2}
    AlertOf <- WebhookAlertOf
    Identified = {a1}
    AlertFeature <- WebhookFeature
    AlertWorkspace <- WebhookWorkspace
    Assigned = {i1}
    Handlers = {h1, h2}
    LensWorkspaces = {}
    Readable = {}
    RequestLens <- NoFunction
    RequestFeature <- NoFunction
    RequestIssue <- NoFunction
    Syncers = {}
    MaxDeliveries <- WebhookDeliveries
    MaxFaults = 1
    m1 = m1  m2 = m2  m3 = m3  m4 = m4  m5 = m5
    alice = alice  bob = bob  dana = dana  erin = erin  None = None
    Members = {m1, m2, m3, m4, m5}
    Founder = m1
    Address <- Addresses
    Clients = {c1, c2}
    Seated = TRUE
    SeatLimit = 3
    Entries = {t1, t2, t3}
    Starters = {q1, q2}
    Nobody = Nobody
SYMMETRY Symmetry
CHECK_DEADLOCK FALSE
INVARIANTS
    LedgerMatchesCost
    ClaimedAlertChargedOnce
    OneMemberPerAddress
    WithinSeats
    RunningTogetherStartedTogether
PROPERTIES
    CountedWriteLeavesOwner
