SPECIFICATION SpecAll
CONSTANTS
    a1 = a1  a2 = a2  b1 = b1  b2 = b2  b3 = b3
    i1 = i1  i2 = i2  r1 = r1
    e1 = e1  e2 = e2  f = f
    Empty = Empty  NoIssue = NoIssue  Unposted = Unposted
    Workspaces = {1, 2}
    Issues = {i1, i2}
    Labels = {Empty, e1, e2}
    Features = {Empty}
    WorkspaceOf <- SyncIssueWs
    Identifier <- SyncIdentifier
    Requests = {r1}
    Bodies = {}
    Alerts = {}
    AlertOf <- NoFunction
    Identified = {}
    AlertFeature <- NoFunction
    AlertWorkspace <- NoFunction
    Assigned = {}
    Handlers = {}
    LensWorkspaces = {9}
    Readable = {9}
    RequestLens <- SyncLens
    RequestFeature <- SyncFeature
    RequestIssue <- SyncIssue
    Syncers = {s1, s2}
    MaxDeliveries <- NoFunction
    MaxFaults = 1
    Spaces = {w1, w2}
    First = w1
    Instances = {track}
    Background = {"automation_logs", "ai_spend_events"}
    RestoreWindow = 1
    None = None
    MaxTime = 1
    MaxWrites = 1
    MaxFailures = 1
    MaxRequests = 2
CHECK_DEADLOCK FALSE
INVARIANTS
    RequestLandsOnce
    LoginsConverge
PROPERTIES
    NeverGuessed
    RequestEventuallyRecorded
    ImplementsAccount
    ImplementsLedger
    WindowIsKept
    AllOrNothing
    ExpiredIsPurged
