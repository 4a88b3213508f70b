------------------------------ MODULE Session -------------------------------
(***************************************************************************)
(* Sessions of a cluster of chat servers: registration, key exchange,      *)
(* login, logout, the close callback of a connection, Ctrl-C and the death *)
(* and restart of a server process (chatservice.cpp, chatserver.cpp).      *)
(*                                                                         *)
(* A connection is served by one IO thread, so the callbacks of one        *)
(* connection never overlap; callbacks of different connections interleave *)
(* at every store command and every critical section.  pc[c] is the next   *)
(* step of the callback that connection c is in, "idle" between callbacks  *)
(* and "unanswered" once an exception has ended the login of c.            *)
(* A request is read when its handler starts; what the client may request  *)
(* then follows the menu of the chat client: it registers or logs in only  *)
(* while logged out, it logs out only while logged in, and it may go away  *)
(* at any time.  Nothing stops two connections from naming the same user.  *)
(*                                                                         *)
(* The chat, friend and group requests appear here only by what they do to *)
(* the state of this module: they hold ConnMapMutex_ for a while and they  *)
(* insert rows of tables that login reads.                                 *)
(***************************************************************************)
EXTENDS Store

CONSTANTS
    Conn,       \* connection objects; one is reused after its close callback
    NoConn,     \* no entry in a connection table
    Nobody,     \* the owner of a free mutex
    Main        \* the main thread of a server, which runs the signal handler

ASSUME SessionAssumption ==
    /\ NoConn \notin Conn
    /\ Nobody \notin Conn \cup {Main}
    /\ Main \notin Conn

VARIABLES
    \* per connection
    pc,             \* where its callback is
    home,           \* the server that accepted it
    keyed,          \* the connections with a key in ConntoAESkeyMap_
    arg,            \* the user id the running callback works on
    todo,           \* login: the SADD commands still to issue
    session,        \* the user the server has logged the connection in as
    \* per server process
    proc,           \* "up", "stopping" (in ServerOffline) or "down"
    userConnMap,    \* userConnMap_: user id -> connection
    lock,           \* who holds ConnMapMutex_ between two steps
    sweep,          \* ServerOffline: ids the loop has not reached yet
    swept           \* ServerOffline: the id between its two commands

connVars == <<pc, home, keyed, arg, todo, session>>
procVars == <<proc, userConnMap, lock, sweep, swept>>
vars == <<storeVars, connVars, procVars>>

LoginPc == {"login_failed", "login_online", "login_update", "login_insert",
            "login_hset", "login_groups", "login_sadd", "login_offline",
            "login_remove", "login_ack"}
LogoutPc == {"out_hdel", "out_update"}
OtherPc == {"other", "other_locked", "other_done"}
ClosePc == {"close_erase", "close_hdel", "close_update", "close_key"}

TypeOK ==
    /\ StoreTypeOK
    /\ pc \in [Conn -> {"free", "idle", "unanswered"} \cup LoginPc \cup LogoutPc
                               \cup OtherPc \cup ClosePc]
    /\ home \in [Conn -> Server \cup {NoServer}]
    /\ keyed \in SUBSET Conn
    /\ arg \in [Conn -> User \cup {NoUser}]
    /\ todo \in [Conn -> SUBSET (Group \X User)]
    /\ session \in [Conn -> User \cup {NoUser}]
    /\ proc \in [Server -> {"up", "stopping", "down"}]
    /\ userConnMap \in [Server -> [User -> Conn \cup {NoConn}]]
    /\ lock \in [Server -> Conn \cup {Main, Nobody}]
    /\ sweep \in [Server -> SUBSET User]
    /\ swept \in [Server -> User \cup {NoUser}]

Init ==
    /\ StoreInit
    /\ pc = [c \in Conn |-> "free"]
    /\ home = [c \in Conn |-> NoServer]
    /\ keyed = {}
    /\ arg = [c \in Conn |-> NoUser]
    /\ todo = [c \in Conn |-> {}]
    /\ session = [c \in Conn |-> NoUser]
    /\ proc = [s \in Server |-> "up"]
    /\ userConnMap = [s \in Server |-> [u \in User |-> NoConn]]
    /\ lock = [s \in Server |-> Nobody]
    /\ sweep = [s \in Server |-> {}]
    /\ swept = [s \in Server |-> NoUser]

-----------------------------------------------------------------------------
\* Shared pieces of the steps

Goto(c, from, to) ==
    /\ pc[c] = from
    /\ pc' = [pc EXCEPT ![c] = to]

\* ConnMapMutex_ of c's server can be taken now.
CanLock(c) == lock[home[c]] = Nobody

\* userConnMap_ of server s once the entry of u is x.
SetEntry(s, u, x) == userConnMap' = [userConnMap EXCEPT ![s][u] = x]

-----------------------------------------------------------------------------
\* Connections, keys and registration

\* The main thread accepts a connection; ServerConnFunc sends the RSA key.
Accept(c, s) ==
    /\ Goto(c, "free", "idle")
    /\ proc[s] = "up"
    /\ home' = [home EXCEPT ![c] = s]
    /\ UNCHANGED <<storeVars, keyed, arg, todo, session, procVars>>

\* clientAESkey: the client answers the RSA key with its AES key, once.
ClientAESkey(c) ==
    /\ pc[c] = "idle"
    /\ c \notin keyed
    /\ keyed' = keyed \cup {c}
    /\ UNCHANGED <<storeVars, pc, home, arg, todo, session, procVars>>

\* Any other request reaches its handler only if ServerMessFunc can decrypt
\* it with the AES key of the connection.
Receives(c) == pc[c] = "idle" /\ c \in keyed

\* reg, for a fresh name; a name already taken changes nothing.
Reg(c, u) ==
    /\ Receives(c)
    /\ session[c] = NoUser
    /\ InsertUser(u)
    /\ UNCHANGED <<offlineMessage, groupUser, redisVars, connVars, procVars>>

-----------------------------------------------------------------------------
\* login
\* Mutation of LoginQuery: the state of the row is not looked at.
LoginQuery_NoStateCheck(c, u) ==
    /\ Receives(c)
    /\ session[c] = NoUser
    /\ user[u] # "absent"
    /\ arg' = [arg EXCEPT ![c] = u]
    /\ Goto(c, "idle", "login_update")
    /\ UNCHANGED <<storeVars, home, keyed, todo, session, procVars>>

\* query(id) and the tests on its result: a wrong password, a missing row or
\* a failed query is refused with errno 1, an online user with errno 2.
LoginQuery(c, u) ==
    /\ Receives(c)
    /\ session[c] = NoUser
    /\ arg' = [arg EXCEPT ![c] = u]
    /\ \/ Goto(c, "idle", "login_failed")
       \/ user[u] = "online" /\ Goto(c, "idle", "login_online")
       \/ user[u] = "offline" /\ Goto(c, "idle", "login_update")
    /\ UNCHANGED <<storeVars, home, keyed, todo, session, procVars>>

\* The refusal is sent; the client stays in its login menu.
LoginRefused(c) ==
    /\ pc[c] \in {"login_failed", "login_online"}
    /\ pc' = [pc EXCEPT ![c] = "idle"]
    /\ arg' = [arg EXCEPT ![c] = NoUser]
    /\ UNCHANGED <<storeVars, home, keyed, todo, session, procVars>>

LoginUpdate(c) ==
    /\ Goto(c, "login_update", "login_insert")
    /\ UpdateState(arg[c], "online")
    /\ UNCHANGED <<offlineMessage, groupUser, redisVars>>
    /\ UNCHANGED <<home, keyed, arg, todo, session, procVars>>
\* Mutation of LoginInsert: the connection is not entered.
LoginInsert_Dropped(c) ==
    /\ Goto(c, "login_insert", "login_hset")
    /\ CanLock(c)
    /\ UNCHANGED <<storeVars, home, keyed, arg, todo, session, procVars>>

\* unordered_map::insert keeps an entry that is already there.
LoginInsert(c) ==
    /\ Goto(c, "login_insert", "login_hset")
    /\ CanLock(c)
    /\ IF userConnMap[home[c]][arg[c]] = NoConn
       THEN SetEntry(home[c], arg[c], c)
       ELSE UNCHANGED userConnMap
    /\ UNCHANGED <<storeVars, home, keyed, arg, todo, session>>
    /\ UNCHANGED <<proc, lock, sweep, swept>>

LoginHset(c) ==
    /\ Goto(c, "login_hset", "login_groups")
    /\ HSet(arg[c], home[c])
    /\ UNCHANGED <<mysqlVars, groupCache>>
    /\ UNCHANGED <<home, keyed, arg, todo, session, procVars>>

\* queryFriend only reads; queryGroup yields the members to cache, fewer when
\* one of its queries fails.
LoginGroups(c) ==
    /\ Goto(c, "login_groups", "login_sadd")
    /\ \E found \in SUBSET QueryGroup(arg[c]) :
          /\ found = QueryGroup(arg[c]) \/ "mysql" \in Faults
          /\ todo' = [todo EXCEPT ![c] = found]
    /\ UNCHANGED <<storeVars, home, keyed, arg, session, procVars>>

LoginSadd(c) ==
    /\ pc[c] = "login_sadd"
    /\ \E gm \in todo[c] :
          /\ SAdd(gm[1], gm[2])
          /\ todo' = [todo EXCEPT ![c] = @ \ {gm}]
    /\ UNCHANGED <<mysqlVars, onlineUser>>
    /\ UNCHANGED <<pc, home, keyed, arg, session, procVars>>

\* queryOfflineMsg: the messages found are only counted, never put into the
\* reply (chatservice.cpp:145).
LoginOffline(c) ==
    /\ pc[c] = "login_sadd"
    /\ todo[c] = {}
    /\ \/ /\ offlineMessage[arg[c]] # {}
          /\ pc' = [pc EXCEPT ![c] = "login_remove"]
       \/ /\ offlineMessage[arg[c]] = {} \/ "mysql" \in Faults
          /\ pc' = [pc EXCEPT ![c] = "login_ack"]
    /\ UNCHANGED <<storeVars, home, keyed, arg, todo, session, procVars>>

LoginRemove(c) ==
    /\ Goto(c, "login_remove", "login_ack")
    /\ RemoveOfflineMsg(arg[c])
    /\ UNCHANGED <<user, groupUser, redisVars>>
    /\ UNCHANGED <<home, keyed, arg, todo, session, procVars>>

\* dump() throws at a name that is no UTF-8: of a friend before queryGroup is called,
\* of a member or a group inside the loop, of the user when the answer is encrypted.
\* ServerMessFunc catches the exception and that is all: row, entry, Redis field and
\* cached members stay, no answer is sent and the client waits for it, so nothing
\* more comes from this connection but its end.
LoginThrow(c) ==
    /\ "gbk" \in Faults
    /\ pc[c] \in {"login_groups", "login_sadd", "login_ack"}
    /\ pc' = [pc EXCEPT ![c] = "unanswered"]
    /\ session' = [session EXCEPT ![c] = arg[c]]
    /\ arg' = [arg EXCEPT ![c] = NoUser]
    /\ todo' = [todo EXCEPT ![c] = {}]
    /\ UNCHANGED <<storeVars, home, keyed, procVars>>

\* errno 0 is sent and the client takes itself for logged in.
LoginAck(c) ==
    /\ Goto(c, "login_ack", "idle")
    /\ session' = [session EXCEPT ![c] = arg[c]]
    /\ arg' = [arg EXCEPT ![c] = NoUser]
    /\ UNCHANGED <<storeVars, home, keyed, todo, procVars>>

-----------------------------------------------------------------------------
\* userLoginout
\* Mutation of LogoutErase: the mutex is not taken.
LogoutErase_Unlocked(c) ==
    /\ Receives(c)
    /\ session[c] # NoUser
    /\ Goto(c, "idle", "out_hdel")
    /\ arg' = [arg EXCEPT ![c] = session[c]]
    /\ session' = [session EXCEPT ![c] = NoUser]
    /\ SetEntry(home[c], session[c], NoConn)
    /\ UNCHANGED <<storeVars, home, keyed, todo, proc, lock, sweep, swept>>

\* Mutation of LogoutErase: the entry is left in the table.
LogoutErase_KeepsEntry(c) ==
    /\ Receives(c)
    /\ session[c] # NoUser
    /\ CanLock(c)
    /\ Goto(c, "idle", "out_hdel")
    /\ arg' = [arg EXCEPT ![c] = session[c]]
    /\ session' = [session EXCEPT ![c] = NoUser]
    /\ UNCHANGED <<storeVars, home, keyed, todo, procVars>>

\* Mutation of LogoutErase: the row is updated before the Redis field is gone.
LogoutErase_UpdateFirst(c) ==
    /\ Receives(c)
    /\ session[c] # NoUser
    /\ CanLock(c)
    /\ Goto(c, "idle", "out_hdel")
    /\ arg' = [arg EXCEPT ![c] = session[c]]
    /\ session' = [session EXCEPT ![c] = NoUser]
    /\ SetEntry(home[c], session[c], NoConn)
    /\ UpdateState(session[c], "offline")
    /\ UNCHANGED <<offlineMessage, groupUser, redisVars>>
    /\ UNCHANGED <<home, keyed, todo, proc, lock, sweep, swept>>

\* The entry of the user is erased, whichever connection it points to.
LogoutErase(c) ==
    /\ Receives(c)
    /\ session[c] # NoUser
    /\ CanLock(c)
    /\ Goto(c, "idle", "out_hdel")
    /\ arg' = [arg EXCEPT ![c] = session[c]]
    /\ session' = [session EXCEPT ![c] = NoUser]
    /\ SetEntry(home[c], session[c], NoConn)
    /\ UNCHANGED <<storeVars, home, keyed, todo, proc, lock, sweep, swept>>
\* Mutation of LogoutHdel: the Redis field stays.
LogoutHdel_Dropped(c) ==
    /\ Goto(c, "out_hdel", "out_update")
    /\ UNCHANGED <<storeVars, home, keyed, arg, todo, session, procVars>>

LogoutHdel(c) ==
    /\ Goto(c, "out_hdel", "out_update")
    /\ HDel(arg[c])
    /\ UNCHANGED <<mysqlVars, groupCache>>
    /\ UNCHANGED <<home, keyed, arg, todo, session, procVars>>
\* Mutation of LogoutUpdate: a default-constructed User is not offline.
LogoutUpdate_NotOffline(c) ==
    /\ Goto(c, "out_update", "idle")
    /\ UpdateState(arg[c], "online")
    /\ arg' = [arg EXCEPT ![c] = NoUser]
    /\ UNCHANGED <<offlineMessage, groupUser, redisVars>>
    /\ UNCHANGED <<home, keyed, todo, session, procVars>>

LogoutUpdate(c) ==
    /\ Goto(c, "out_update", "idle")
    /\ UpdateState(arg[c], "offline")
    /\ arg' = [arg EXCEPT ![c] = NoUser]
    /\ UNCHANGED <<offlineMessage, groupUser, redisVars>>
    /\ UNCHANGED <<home, keyed, todo, session, procVars>>

-----------------------------------------------------------------------------
\* ServerConnFunc for a connection that is gone, and closeException

Disconnect(c) ==
    /\ pc[c] \in {"idle", "unanswered"}
    /\ pc' = [pc EXCEPT ![c] = "close_erase"]
    /\ UNCHANGED <<storeVars, home, keyed, arg, todo, session, procVars>>
\* Mutation of CloseErase: the entry found is not erased.
CloseErase_KeepsEntry(c) ==
    /\ pc[c] = "close_erase"
    /\ CanLock(c)
    /\ \/ \E u \in User :
             /\ userConnMap[home[c]][u] = c
             /\ arg' = [arg EXCEPT ![c] = u]
             /\ lock' = [lock EXCEPT ![home[c]] = c]
             /\ pc' = [pc EXCEPT ![c] = "close_hdel"]
       \/ /\ \A u \in User : userConnMap[home[c]][u] # c
          /\ pc' = [pc EXCEPT ![c] = "close_update"]
          /\ UNCHANGED <<arg, lock>>
    /\ UNCHANGED <<storeVars, home, keyed, todo, session, proc, userConnMap, sweep, swept>>

\* Mutation of CloseErase: the mutex is released after the loop, before the
\* Redis command.
CloseErase_EarlyUnlock(c) ==
    /\ pc[c] = "close_erase"
    /\ CanLock(c)
    /\ \/ \E u \in User :
             /\ userConnMap[home[c]][u] = c
             /\ SetEntry(home[c], u, NoConn)
             /\ arg' = [arg EXCEPT ![c] = u]
             /\ pc' = [pc EXCEPT ![c] = "close_hdel"]
       \/ /\ \A u \in User : userConnMap[home[c]][u] # c
          /\ pc' = [pc EXCEPT ![c] = "close_update"]
          /\ UNCHANGED <<userConnMap, arg>>
    /\ UNCHANGED <<storeVars, home, keyed, todo, session, proc, lock, sweep, swept>>

\* The search stops at the first entry of this connection.  The mutex is kept
\* until the Redis field is gone too; without an entry the user id stays -1.
CloseErase(c) ==
    /\ pc[c] = "close_erase"
    /\ CanLock(c)
    /\ \/ \E u \in User :
             /\ userConnMap[home[c]][u] = c
             /\ SetEntry(home[c], u, NoConn)
             /\ arg' = [arg EXCEPT ![c] = u]
             /\ lock' = [lock EXCEPT ![home[c]] = c]
             /\ pc' = [pc EXCEPT ![c] = "close_hdel"]
       \/ /\ \A u \in User : userConnMap[home[c]][u] # c
          /\ pc' = [pc EXCEPT ![c] = "close_update"]
          /\ UNCHANGED <<userConnMap, arg, lock>>
    /\ UNCHANGED <<storeVars, home, keyed, todo, session, proc, sweep, swept>>
\* Mutation of CloseHdel: the mutex is not released.
CloseHdel_KeepsLock(c) ==
    /\ Goto(c, "close_hdel", "close_update")
    /\ HDel(arg[c])
    /\ UNCHANGED <<mysqlVars, groupCache, home, keyed, arg, todo, session, procVars>>

CloseHdel(c) ==
    /\ Goto(c, "close_hdel", "close_update")
    /\ HDel(arg[c])
    /\ lock' = [lock EXCEPT ![home[c]] = Nobody]
    /\ UNCHANGED <<mysqlVars, groupCache, home, keyed, arg, todo, session>>
    /\ UNCHANGED <<proc, userConnMap, sweep, swept>>

CloseUpdate(c) ==
    /\ Goto(c, "close_update", "close_key")
    /\ UpdateState(arg[c], "offline")
    /\ UNCHANGED <<offlineMessage, groupUser, redisVars>>
    /\ UNCHANGED <<home, keyed, arg, todo, session, procVars>>

\* removekey; the connection object is destroyed after the callback.
CloseKey(c) ==
    /\ Goto(c, "close_key", "free")
    /\ keyed' = keyed \ {c}
    /\ home' = [home EXCEPT ![c] = NoServer]
    /\ arg' = [arg EXCEPT ![c] = NoUser]
    /\ session' = [session EXCEPT ![c] = NoUser]
    /\ UNCHANGED <<storeVars, todo, procVars>>

-----------------------------------------------------------------------------
\* oneChat, addFriend, createGroup, addGroup and groupChat

OtherRequest(c) ==
    /\ Receives(c)
    /\ session[c] # NoUser
    /\ Goto(c, "idle", "other")
    /\ UNCHANGED <<storeVars, home, keyed, arg, todo, session, procVars>>

\* groupChat keeps the mutex over its Redis and MySQL commands.
OtherLock(c) ==
    /\ Goto(c, "other", "other_locked")
    /\ CanLock(c)
    /\ lock' = [lock EXCEPT ![home[c]] = c]
    /\ UNCHANGED <<storeVars, home, keyed, arg, todo, session>>
    /\ UNCHANGED <<proc, userConnMap, sweep, swept>>

OtherUnlock(c) ==
    /\ Goto(c, "other_locked", "other_done")
    /\ lock' = [lock EXCEPT ![home[c]] = Nobody]
    /\ UNCHANGED <<storeVars, home, keyed, arg, todo, session>>
    /\ UNCHANGED <<proc, userConnMap, sweep, swept>>

\* insertOfflineMsg for anybody, or addGroup for the user of the session.
OtherInsert(c) ==
    /\ pc[c] \in OtherPc
    /\ \/ /\ \E u \in User, m \in Msg :
                offlineMessage' = [offlineMessage EXCEPT ![u] = @ \cup {m}]
          /\ UNCHANGED groupUser
       \/ /\ \E u \in User, g \in Group :
                /\ u = session[c]
                /\ groupUser' = [groupUser EXCEPT ![g] = @ \cup {u}]
          /\ UNCHANGED offlineMessage
    /\ UNCHANGED <<user, redisVars, connVars, procVars>>

OtherDone(c) ==
    /\ pc[c] \in {"other", "other_done"}
    /\ pc' = [pc EXCEPT ![c] = "idle"]
    /\ UNCHANGED <<storeVars, home, keyed, arg, todo, session, procVars>>

-----------------------------------------------------------------------------
\* Ctrl-C: ServerOver and ServerOffline, on the main thread

\* The mutex is taken for good: exit() runs inside its scope.
StopLock(s) ==
    /\ "sigint" \in Faults
    /\ proc[s] = "up"
    /\ lock[s] = Nobody
    /\ proc' = [proc EXCEPT ![s] = "stopping"]
    /\ lock' = [lock EXCEPT ![s] = Main]
    /\ sweep' = [sweep EXCEPT ![s] = {u \in User : userConnMap[s][u] # NoConn}]
    /\ UNCHANGED <<storeVars, connVars, userConnMap, swept>>

\* resetUserState(id) for the next entry of the loop.
StopReset(s, u) ==
    /\ proc[s] = "stopping"
    /\ swept[s] = NoUser
    /\ u \in sweep[s]
    /\ UpdateState(u, "offline")
    /\ sweep' = [sweep EXCEPT ![s] = @ \ {u}]
    /\ swept' = [swept EXCEPT ![s] = u]
    /\ UNCHANGED <<offlineMessage, groupUser, redisVars, connVars>>
    /\ UNCHANGED <<proc, userConnMap, lock>>

StopHdel(s) ==
    /\ swept[s] # NoUser
    /\ HDel(swept[s])
    /\ swept' = [swept EXCEPT ![s] = NoUser]
    /\ UNCHANGED <<mysqlVars, groupCache, connVars>>
    /\ UNCHANGED <<proc, userConnMap, lock, sweep>>

\* The process ends: its memory and its connections are gone, the stores and
\* what its handlers had done to them so far remain.
Die(s) ==
    /\ pc' = [c \in Conn |-> IF home[c] = s THEN "free" ELSE pc[c]]
    /\ home' = [c \in Conn |-> IF home[c] = s THEN NoServer ELSE home[c]]
    /\ keyed' = {c \in keyed : home[c] # s}
    /\ arg' = [c \in Conn |-> IF home[c] = s THEN NoUser ELSE arg[c]]
    /\ todo' = [c \in Conn |-> IF home[c] = s THEN {} ELSE todo[c]]
    /\ session' = [c \in Conn |-> IF home[c] = s THEN NoUser ELSE session[c]]
    /\ proc' = [proc EXCEPT ![s] = "down"]
    /\ userConnMap' = [userConnMap EXCEPT ![s] = [u \in User |-> NoConn]]
    /\ lock' = [lock EXCEPT ![s] = Nobody]
    /\ sweep' = [sweep EXCEPT ![s] = {}]
    /\ swept' = [swept EXCEPT ![s] = NoUser]
    /\ UNCHANGED storeVars

\* exit(0) at the end of the loop.
StopExit(s) ==
    /\ proc[s] = "stopping"
    /\ sweep[s] = {}
    /\ swept[s] = NoUser
    /\ Die(s)

\* Any other death of the process: a crash, SIGKILL, a lost machine.
Kill(s) ==
    /\ "kill" \in Faults
    /\ proc[s] # "down"
    /\ Die(s)
\* Mutation of Restart: the constructor resets every row, as the line it has
\* commented out (chatservice.cpp:32) would.
Restart_ResetsAll(s) ==
    /\ proc[s] = "down"
    /\ proc' = [proc EXCEPT ![s] = "up"]
    /\ user' = [u \in User |-> IF user[u] = "absent" THEN "absent" ELSE "offline"]
    /\ UNCHANGED <<offlineMessage, groupUser, redisVars, connVars>>
    /\ UNCHANGED <<userConnMap, lock, sweep, swept>>

\* A new process under the same name; resetUserState() in the constructor is
\* commented out (chatservice.cpp:31-32), so the stores stay as they are.
Restart(s) ==
    /\ proc[s] = "down"
    /\ proc' = [proc EXCEPT ![s] = "up"]
    /\ UNCHANGED <<storeVars, connVars, userConnMap, lock, sweep, swept>>

-----------------------------------------------------------------------------
\* The specifications

LoginStep(c) ==
    \/ LoginRefused(c)
    \/ LoginUpdate(c)
    \/ LoginInsert(c)
    \/ LoginHset(c)
    \/ LoginGroups(c)
    \/ LoginSadd(c)
    \/ LoginOffline(c)
    \/ LoginRemove(c)
    \/ LoginThrow(c)
    \/ LoginAck(c)

LogoutStep(c) == LogoutHdel(c) \/ LogoutUpdate(c)

CloseStep(c) == CloseErase(c) \/ CloseHdel(c) \/ CloseUpdate(c) \/ CloseKey(c)

OtherStep(c) == OtherLock(c) \/ OtherUnlock(c) \/ OtherInsert(c) \/ OtherDone(c)

\* What the clients start
Request(c) ==
    \/ \E s \in Server : Accept(c, s)
    \/ ClientAESkey(c)
    \/ \E u \in User : Reg(c, u) \/ LoginQuery(c, u)
    \/ LogoutErase(c)
    \/ OtherRequest(c)
    \/ Disconnect(c)

ProcessStep(s) ==
    \/ StopLock(s)
    \/ \E u \in User : StopReset(s, u)
    \/ StopHdel(s)
    \/ StopExit(s)
    \/ Kill(s)
    \/ Restart(s)

Next ==
    \/ \E c \in Conn :
          Request(c) \/ LoginStep(c) \/ LogoutStep(c) \/ CloseStep(c) \/ OtherStep(c)
    \/ \E s \in Server : ProcessStep(s)

Spec == Init /\ [][Next]_vars

\* An environment in which no two logins of the same user are between the
\* query and the update at the same time: what login's check-then-act needs.
SerialLogins ==
    \A c, d \in Conn :
        pc[c] = "login_update" /\ pc[d] = "login_update" /\ c # d
            => arg[c] # arg[d]

SerialSpec == Init /\ [][Next /\ SerialLogins']_vars

\* An IO thread runs a callback to its end, the main thread runs the signal
\* handler to its end, and a mutex that is free again and again is granted:
\* weak fairness for a step that only needs its thread, strong fairness for one
\* that takes ConnMapMutex_.  Nothing is assumed of clients and of failures.
Fairness ==
    /\ \A c \in Conn :
          /\ WF_vars(LoginStep(c) \/ LogoutStep(c) \/ CloseStep(c)
                      \/ OtherUnlock(c) \/ OtherDone(c))
          /\ SF_vars(LoginInsert(c) \/ CloseErase(c))
    /\ \A s \in Server :
          WF_vars((\E u \in User : StopReset(s, u)) \/ StopHdel(s) \/ StopExit(s))

FairSpec == Spec /\ Fairness

FairSerialSpec == SerialSpec /\ Fairness
=============================================================================
