SPECIFICATION SerialChat
CONSTANTS
    Server = {s1, s2}
    User = {u1, u2}
    Conn = {c1, c2}
    Group = {g1}
    Msg = {m1}
    Faults = {"kill", "gbk"}
    Offline = Offline
    Lost = Lost
    NoServer = NoServer
    NoUser = NoUser
    NoConn = NoConn
    Nobody = Nobody
    Main = Main
    NoMsg = NoMsg
    NoTarget = NoTarget
    s1 = s1
    s2 = s2
    u1 = u1
    u2 = u2
    c1 = c1
    c2 = c2
    g1 = g1
    m1 = m1
SYMMETRY Symmetry
INVARIANT AtMostOnce
INVARIANT Addressed
INVARIANT MessageKept
INVARIANT AckedIsRouted
INVARIANT NoGhostRoute
PROPERTY SessionSpec
