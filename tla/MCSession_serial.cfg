SPECIFICATION SerialSpec
CONSTANTS
    Server = {s1, s2}
    User = {u1, u2}
    Conn = {c1, c2}
    Group = {}
    Msg = {}
    Faults = {"redis", "kill", "sigint", "gbk"}
    Offline = Offline
    Lost = Lost
    NoServer = NoServer
    NoUser = NoUser
    NoConn = NoConn
    Nobody = Nobody
    Main = Main
    s1 = s1
    s2 = s2
    u1 = u1
    u2 = u2
    c1 = c1
    c2 = c2
SYMMETRY Symmetry
INVARIANT AtMostOneSession
PROPERTY PresenceSpec
