SPECIFICATION SerialChat
CONSTANTS
    Server = {s1}
    User = {u1, u2}
    Conn = {c1, c2}
    Group = {}
    Msg = {m1}
    Faults = {}
    Offline = Offline
    Lost = Lost
    NoServer = NoServer
    NoUser = NoUser
    NoConn = NoConn
    Nobody = Nobody
    Main = Main
    NoMsg = NoMsg
    NoTarget = NoTarget
    s1 = s1
    u1 = u1
    u2 = u2
    c1 = c1
    c2 = c2
    m1 = m1
SYMMETRY Symmetry
PROPERTY OfflineForwarded
