SPECIFICATION Spec
CONSTANTS
    Server = {s1}
    User = {u1}
    Conn = {c1, c2}
    Group = {}
    Msg = {}
    Faults = {}
    Offline = Offline
    Lost = Lost
    NoServer = NoServer
    NoUser = NoUser
    NoConn = NoConn
    Nobody = Nobody
    Main = Main
    s1 = s1
    u1 = u1
    c1 = c1
    c2 = c2
SYMMETRY Symmetry
INVARIANT AtMostOneSession
