SPECIFICATION Spec
CONSTANTS
    c1 = c1  c2 = c2  m1 = m1  m2 = m2  w = w  i = i
    Conns = {c1, c2}
    Rooms = {w}
    HomeRoom <- Home
    Allowed <- MayJoinHome
    Member <- MemberOf
    Members = {m1, m2}
    Handled <- OfEachMember
    QueueCap = 1
    BroadcastCap = 1
    SendCap = 1
INVARIANTS
    GoneIsForgotten
