SPECIFICATION FairChat
CONSTANTS
    Server = {s1}
    User = {u1, u2}
    Conn = {c1, c2}
    Group = {g1}
    Msg = {m1}
    Faults = {"gbk"}
    Offline = Offline
    Lost = Lost
    NoServer = NoServer
    NoUser = NoUser
    NoConn = NoConn
    Nobody = Nobody
    Main = Main
    NoMsg = NoMsg
    NoTarget = NoTarget
    s1 = s1
    u1 = u1
    u2 = u2
    c1 = c1
    c2 = c2
    g1 = g1
    m1 = m1
PROPERTY LoginEnds
PROPERTY RequestAnswered
PROPERTY SessionReleased
INVARIANT NoStuckUser
