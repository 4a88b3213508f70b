------------------------- MODULE SessionProperties --------------------------
(***************************************************************************)
(* What the session handling of Session.tla must guarantee.  The first     *)
(* group holds whatever the clients and the environment do; the second     *)
(* needs an environment in which no store command is lost or no process    *)
(* dies, as each property says, and, NoStuckUser apart, one in which       *)
(* logins of one user do not race (see SerialLogins).                      *)
(***************************************************************************)
EXTENDS Session

\* Connection c is inside a logged-in stretch of user u in which no handler
\* has begun to give the session up.
InSession(c, u) ==
    \/ /\ session[c] = u
       /\ pc[c] \in {"idle", "unanswered", "close_erase"} \cup OtherPc
    \/ /\ arg[c] = u
       /\ pc[c] \in {"login_hset", "login_groups", "login_sadd",
                     "login_offline", "login_remove", "login_ack"}

\* Connection c has to see to it that the row of u says offline in the end:
\* from the update of login to the update of logout or of the close callback.
MustRelease(c, u) ==
    \/ InSession(c, u)
    \/ /\ arg[c] = u
       /\ pc[c] \in {"login_insert", "out_hdel", "out_update",
                     "close_hdel", "close_update"}

\* ServerOffline has done it in c's place.
SweptAway(c, u) ==
    \E s \in Server :
        /\ home[c] = s
        /\ proc[s] = "stopping"
        /\ userConnMap[s][u] = c
        /\ u \notin sweep[s]

\* Connection c holds the one session that user u may have.
Holder(c, u) == MustRelease(c, u) /\ ~SweptAway(c, u)

-----------------------------------------------------------------------------
\* Whatever happens

\* An entry of a connection table belongs to a connection of that server
\* that has a key and is inside a session of the entry's user.  Erasing by user in
\* userLoginout and by connection in closeException, in whatever order their
\* critical sections come, leaves no entry behind for a connection whose close
\* callback has passed its loop, so oneChat and groupChat never send to a
\* destroyed connection or encrypt with a removed key.
EntryOwned ==
    \A s \in Server, u \in User :
        LET c == userConnMap[s][u] IN
        c # NoConn => home[c] = s /\ c \in keyed /\ InSession(c, u)

\* A connection has at most one entry, over all tables: closeException may
\* stop at the first match (chatservice.cpp:261).
OneEntryPerConn ==
    \A s, t \in Server : \A u, v \in User :
        /\ userConnMap[s][u] # NoConn
        /\ userConnMap[s][u] = userConnMap[t][v]
        => s = t /\ u = v

\* The mutex of a server is held between two steps by exactly the callback
\* that is inside closeException's or groupChat's critical section, or by
\* ServerOffline: the sections that span store commands exclude each other.
LockOwned ==
    \A s \in Server :
        /\ \A c \in Conn : lock[s] = c <=>
               home[c] = s /\ pc[c] \in {"close_hdel", "other_locked"}
        /\ lock[s] = Main <=> proc[s] = "stopping"

\* While somebody keeps ConnMapMutex_, in particular while ServerOffline walks
\* the table between its store commands, the table of that process changes only
\* by the death of the process: the iterators stay valid.
IterationStable ==
    [][\A s \in Server :
          lock[s] # Nobody /\ proc'[s] # "down"
              => userConnMap'[s] = userConnMap[s]]_vars

\* ServerOffline reaches every user of the table once and in its two parts: what
\* is still to sweep or between the two commands has an entry, and the process
\* does not exit before the loop is through.
SweepInTable ==
    \A s \in Server :
        /\ sweep[s] \cup ({swept[s]} \ {NoUser})
               \subseteq {u \in User : userConnMap[s][u] # NoConn}
        /\ swept[s] \notin sweep[s]
        /\ proc[s] # "stopping" => sweep[s] = {} /\ swept[s] = NoUser

\* What the callbacks and ServerOffline rely on, taken together: the inductive
\* invariant behind the properties above.  A connection in use is at a living
\* server, a login runs with a key and on a user, and
\* only a login past its store commands leaves its connection logged in.
ConnOK ==
    \A c \in Conn :
        /\ pc[c] = "free" <=> home[c] = NoServer
        /\ home[c] # NoServer => proc[home[c]] # "down"
        /\ pc[c] \in LoginPc => c \in keyed /\ arg[c] \in User
        /\ pc[c] \in {"free"} \cup LoginPc \cup LogoutPc => session[c] = NoUser
        /\ pc[c] \in {"free", "idle", "unanswered", "close_erase"} \cup OtherPc =>
               arg[c] = NoUser

SessionInv == TypeOK /\ ConnOK /\ EntryOwned /\ LockOwned /\ SweepInTable

-----------------------------------------------------------------------------
\* When logins of the same user do not race

\* The holder of a session has the row of the user online: nobody else's logout, close or
\* sweep resets it under the holder's feet.  Needs every MySQL update to succeed.
HolderIsOnline ==
    \A c \in Conn, u \in User : Holder(c, u) => user[u] = "online"

\* A user has at most one session in the whole cluster: two connections never
\* both hold one (chatservice.cpp:65-72).
AtMostOneSession ==
    \A c, d \in Conn : \A u \in User :
        Holder(c, u) /\ Holder(d, u) => c = d

\* A login that has found the user offline acts on what is still true: the row
\* says offline when the update comes, so only a free user is taken.
WindowIsValid ==
    \A c \in Conn : pc[c] = "login_update" => user[arg[c]] = "offline"

\* The inductive invariant of the three.
SerialInv ==
    SessionInv /\ SerialLogins /\ HolderIsOnline /\ AtMostOneSession /\ WindowIsValid

\* Between callbacks, a client that has been told errno 0 is where everybody looks:
\* in its server's table for oneChat, in the hash onlineUser for the other servers and
\* online in the table User for the friend lists.  Needs every
\* command to succeed and no server that shuts down.
AckedIsRouted ==
    \A c \in Conn :
        LET u == session[c] IN
        u # NoUser /\ pc[c] \in {"idle"} \cup OtherPc =>
            /\ userConnMap[home[c]][u] = c
            /\ onlineUser[u] = home[c]
            /\ user[u] = "online"

\* A user the table says is online has a connection that will log it off: nobody is
\* locked out by "can not login again".  Holds even when logins race; needs updates
\* that succeed and processes that do not die or stop.
NoStuckUser ==
    \A u \in User : user[u] = "online" => \E c \in Conn : Holder(c, u)

\* A field of onlineUser leads to a server at which the user holds a session,
\* so that a message published there has somebody to take it; only a session that
\* died with its process leaves a field behind.  Needs every command to succeed and
\* no server that shuts down.
NoGhostRoute ==
    \A u \in User :
        onlineUser[u] # NoServer =>
            \/ \E c \in Conn : MustRelease(c, u) /\ home[c] = onlineUser[u]
            \/ user[u] = "online" /\ \A c \in Conn : ~Holder(c, u)

\* The handler of a login comes to its end: store commands, the wait for ConnMapMutex_
\* and the loop of SADDs do not hold it up for ever.  The client has its answer, or
\* its connection is gone, or, where the tables have names that are not UTF-8, an
\* exception has left it without an answer; only such a name can.
LoginEnds ==
    \A c \in Conn :
        pc[c] \in LoginPc ~>
            pc[c] \in {"idle", "free"} \/ ("gbk" \in Faults /\ pc[c] = "unanswered")

\* A session whose connection is closed, or that is logged out, ends in a row
\* that says offline: the user can come back.  When logins of the user raced and
\* another connection has a session too, that one has taken over.
SessionReleased ==
    \A c \in Conn, u \in User :
        Holder(c, u) /\ pc[c] \in LogoutPc \cup ClosePc
            ~> \/ user[u] = "offline"
               \/ \E d \in Conn \ {c} : Holder(d, u)

-----------------------------------------------------------------------------
\* The abstract view

CONSTANTS
    Offline,    \* see Presence
    Lost

ASSUME ViewAssumption ==
    /\ Offline \notin Conn
    /\ Lost \notin Conn
    /\ Offline # Lost

\* What Presence sees of user u.
PresenceOf(u) ==
    IF \E c \in Conn : Holder(c, u) THEN CHOOSE c \in Conn : Holder(c, u)
    ELSE IF user[u] = "online" THEN Lost ELSE Offline

P == INSTANCE Presence WITH presence <- [u \in User |-> PresenceOf(u)]

\* Session handling implements Presence: at every moment a user has one session
\* at most, it is taken only when the last one was given up with the row set to
\* offline, and a session that dies with its process blocks the user for good.
PresenceSpec == P!Spec
=============================================================================
