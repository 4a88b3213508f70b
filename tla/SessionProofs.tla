--------------------------- MODULE SessionProofs ----------------------------
(***************************************************************************)
(* Proofs that every instance of Session keeps the properties of           *)
(* SessionProperties: any number of servers, users, connections, groups    *)
(* and messages, and any combination of faults.                            *)
(***************************************************************************)
EXTENDS SessionProperties, TLAPS

USE StoreAssumption, SessionAssumption

LEMMA TypeInit == Init => TypeOK
  BY DEF Init, TypeOK, StoreInit, StoreTypeOK

LEMMA TypeStore ==
  ASSUME StoreTypeOK, NEW u \in User \cup {NoUser}
  PROVE  /\ \A x \in {"offline", "online"} :
              UpdateState(u, x) => user' \in [User -> {"absent", "offline", "online"}]
         /\ InsertUser(u) => user' \in [User -> {"absent", "offline", "online"}]
         /\ RemoveOfflineMsg(u) => offlineMessage' \in [User -> SUBSET Msg]
         /\ \A s \in Server : HSet(u, s) => onlineUser' \in [User -> Server \cup {NoServer}]
         /\ HDel(u) => onlineUser' \in [User -> Server \cup {NoServer}]
  BY DEF StoreTypeOK, UpdateState, InsertUser, RemoveOfflineMsg, HSet, HDel

LEMMA TypeSAdd ==
  ASSUME StoreTypeOK, NEW g \in Group, NEW u \in User, SAdd(g, u)
  PROVE  groupCache' \in [Group -> SUBSET User]
  BY DEF SAdd, StoreTypeOK

LEMMA TypeEntry ==
  ASSUME TypeOK, NEW s, NEW u, NEW x \in Conn \cup {NoConn}, SetEntry(s, u, x)
  PROVE  userConnMap' \in [Server -> [User -> Conn \cup {NoConn}]]
<1>1. [userConnMap[s] EXCEPT ![u] = x] \in [User -> Conn \cup {NoConn}] \/ s \notin Server
  BY DEF TypeOK
<1> QED  BY <1>1 DEF SetEntry, TypeOK

LEMMA TypeRequest ==
  ASSUME TypeOK, NEW c \in Conn, Request(c) PROVE TypeOK'
<1> USE DEF TypeOK, Goto
<1>1. ASSUME NEW s \in Server, Accept(c, s) PROVE TypeOK'
  BY <1>1 DEF Accept, storeVars, procVars, StoreTypeOK
<1>2. CASE ClientAESkey(c)
  BY <1>2 DEF ClientAESkey, storeVars, procVars, StoreTypeOK
<1>3. ASSUME NEW u \in User, Reg(c, u) PROVE TypeOK'
  BY <1>3, TypeStore DEF Reg, redisVars, connVars, procVars, StoreTypeOK
<1>4. ASSUME NEW u \in User, LoginQuery(c, u) PROVE TypeOK'
  BY <1>4 DEF LoginQuery, storeVars, procVars, StoreTypeOK, LoginPc
<1>5. CASE LogoutErase(c)
  BY <1>5 DEF LogoutErase, SetEntry, LogoutPc, storeVars, StoreTypeOK
<1>6. CASE OtherRequest(c)
  BY <1>6 DEF OtherRequest, OtherPc, storeVars, procVars, StoreTypeOK
<1>7. CASE Disconnect(c)
  BY <1>7 DEF Disconnect, ClosePc, storeVars, procVars, StoreTypeOK
<1> QED  BY <1>1, <1>2, <1>3, <1>4, <1>5, <1>6, <1>7 DEF Request

LEMMA TypeLogin ==
  ASSUME TypeOK, NEW c \in Conn, LoginStep(c) PROVE TypeOK'
<1> USE DEF TypeOK, Goto, LoginPc
<1>1. CASE LoginRefused(c)
  BY <1>1 DEF LoginRefused, storeVars, procVars, StoreTypeOK
<1>2. CASE LoginUpdate(c)
  BY <1>2, TypeStore DEF LoginUpdate, redisVars, procVars, StoreTypeOK
<1>3. CASE LoginInsert(c)
  <2>1. userConnMap' \in [Server -> [User -> Conn \cup {NoConn}]]
    <3>1. SetEntry(home[c], arg[c], c) \/ userConnMap' = userConnMap
      BY <1>3 DEF LoginInsert
    <3> QED  BY <3>1, TypeEntry
  <2> QED  BY <1>3, <2>1 DEF LoginInsert, storeVars, StoreTypeOK
<1>4. CASE LoginHset(c)
  <2>1. home[c] \in Server => onlineUser' \in [User -> Server \cup {NoServer}]
    BY <1>4, TypeStore DEF LoginHset
  <2>2. home[c] \notin Server => onlineUser' \in [User -> Server \cup {NoServer}]
    BY <1>4 DEF LoginHset, HSet, StoreTypeOK
  <2> QED  BY <1>4, <2>1, <2>2 DEF LoginHset, mysqlVars, procVars, StoreTypeOK
<1>5. CASE LoginGroups(c)
  <2>1. QueryGroup(arg[c]) \subseteq Group \X User
    BY DEF QueryGroup
  <2>2. todo' \in [Conn -> SUBSET (Group \X User)]
    BY <1>5, <2>1 DEF LoginGroups
  <2> QED  BY <1>5, <2>2 DEF LoginGroups, storeVars, procVars, StoreTypeOK
<1>6. CASE LoginSadd(c)
  <2>1. PICK gm \in todo[c] : SAdd(gm[1], gm[2])
    BY <1>6 DEF LoginSadd
  <2>2. gm[1] \in Group /\ gm[2] \in User
    OBVIOUS
  <2>3. groupCache' \in [Group -> SUBSET User]
    BY <2>1, <2>2, TypeSAdd
  <2> QED  BY <1>6, <2>3 DEF LoginSadd, mysqlVars, procVars, StoreTypeOK
<1>7. CASE LoginOffline(c)
  BY <1>7 DEF LoginOffline, storeVars, procVars, StoreTypeOK
<1>8. CASE LoginRemove(c)
  BY <1>8, TypeStore DEF LoginRemove, redisVars, procVars, StoreTypeOK
<1>9. CASE LoginAck(c)
  BY <1>9 DEF LoginAck, storeVars, procVars, StoreTypeOK
<1>10. CASE LoginThrow(c)
  BY <1>10 DEF LoginThrow, storeVars, procVars, StoreTypeOK
<1> QED
  BY <1>1, <1>2, <1>3, <1>4, <1>5, <1>6, <1>7, <1>8, <1>9, <1>10 DEF LoginStep

LEMMA TypeLeave ==
  ASSUME TypeOK, NEW c \in Conn, LogoutStep(c) \/ CloseStep(c) PROVE TypeOK'
<1> USE DEF TypeOK, Goto, LogoutPc, ClosePc
<1>1. CASE LogoutHdel(c)
  BY <1>1, TypeStore DEF LogoutHdel, mysqlVars, procVars, StoreTypeOK
<1>2. CASE LogoutUpdate(c)
  BY <1>2, TypeStore DEF LogoutUpdate, redisVars, procVars, StoreTypeOK
<1>3. CASE CloseErase(c)
  <2>1. userConnMap' \in [Server -> [User -> Conn \cup {NoConn}]]
    <3>1. (\E u \in User : SetEntry(home[c], u, NoConn)) \/ userConnMap' = userConnMap
      BY <1>3 DEF CloseErase
    <3> QED  BY <3>1, TypeEntry
  <2>2. lock' \in [Server -> Conn \cup {Main, Nobody}]
    BY <1>3 DEF CloseErase
  <2>3. arg' \in [Conn -> User \cup {NoUser}]
    BY <1>3 DEF CloseErase
  <2> QED  BY <1>3, <2>1, <2>2, <2>3 DEF CloseErase, storeVars, StoreTypeOK
<1>4. CASE CloseHdel(c)
  BY <1>4, TypeStore DEF CloseHdel, mysqlVars, StoreTypeOK
<1>5. CASE CloseUpdate(c)
  BY <1>5, TypeStore DEF CloseUpdate, redisVars, procVars, StoreTypeOK
<1>6. CASE CloseKey(c)
  BY <1>6 DEF CloseKey, storeVars, procVars, StoreTypeOK
<1> QED  BY <1>1, <1>2, <1>3, <1>4, <1>5, <1>6 DEF LogoutStep, CloseStep

LEMMA TypeOther ==
  ASSUME TypeOK, NEW c \in Conn, OtherStep(c) PROVE TypeOK'
<1> USE DEF TypeOK, Goto, OtherPc
<1>1. CASE OtherLock(c)
  BY <1>1 DEF OtherLock, storeVars, StoreTypeOK
<1>2. CASE OtherUnlock(c)
  BY <1>2 DEF OtherUnlock, storeVars, StoreTypeOK
<1>3. CASE OtherInsert(c)
  <2>1. offlineMessage' \in [User -> SUBSET Msg] /\ groupUser' \in [Group -> SUBSET User]
    <3>1. ASSUME NEW u \in User, NEW m \in Msg,
                 offlineMessage' = [offlineMessage EXCEPT ![u] = @ \cup {m}]
          PROVE  offlineMessage' \in [User -> SUBSET Msg]
      BY <3>1 DEF StoreTypeOK
    <3>2. ASSUME NEW u \in User, NEW g \in Group,
                 groupUser' = [groupUser EXCEPT ![g] = @ \cup {u}]
          PROVE  groupUser' \in [Group -> SUBSET User]
      BY <3>2 DEF StoreTypeOK
    <3> QED  BY <1>3, <3>1, <3>2 DEF OtherInsert, StoreTypeOK
  <2> QED  BY <1>3, <2>1 DEF OtherInsert, redisVars, connVars, procVars, StoreTypeOK
<1>4. CASE OtherDone(c)
  BY <1>4 DEF OtherDone, storeVars, procVars, StoreTypeOK
<1> QED  BY <1>1, <1>2, <1>3, <1>4 DEF OtherStep

LEMMA TypeProcess ==
  ASSUME TypeOK, NEW s \in Server, ProcessStep(s) PROVE TypeOK'
<1> USE DEF TypeOK
<1>1. CASE StopLock(s)
  BY <1>1 DEF StopLock, storeVars, connVars, StoreTypeOK
<1>2. ASSUME NEW u \in User, StopReset(s, u) PROVE TypeOK'
  BY <1>2, TypeStore DEF StopReset, redisVars, connVars, StoreTypeOK
<1>3. CASE StopHdel(s)
  BY <1>3, TypeStore DEF StopHdel, mysqlVars, connVars, StoreTypeOK
<1>4. CASE Die(s)
  BY <1>4 DEF Die, storeVars, StoreTypeOK
<1>5. CASE Restart(s)
  BY <1>5 DEF Restart, storeVars, connVars, StoreTypeOK
<1> QED  BY <1>1, <1>2, <1>3, <1>4, <1>5 DEF ProcessStep, StopExit, Kill

LEMMA TypeStep == TypeOK /\ [Next]_vars => TypeOK'
<1>1. TypeOK /\ UNCHANGED vars => TypeOK'
  BY DEF vars, storeVars, connVars, procVars, TypeOK, StoreTypeOK
<1> QED
  BY <1>1, TypeRequest, TypeLogin, TypeLeave, TypeOther, TypeProcess DEF Next

\* Type correctness: in particular userConnMap_ only ever maps users to connections
\* and every store keeps its shape under failing commands.
THEOREM TypeCorrect == Spec => []TypeOK
  BY TypeInit, TypeStep, PTL DEF Spec

LEMMA EntrySet ==
  ASSUME TypeOK, NEW s \in Server, NEW u, NEW x, SetEntry(s, u, x)
  PROVE  \A t \in Server, v \in User :
            userConnMap'[t][v] = IF t = s /\ v = u THEN x ELSE userConnMap[t][v]
  BY DEF TypeOK, SetEntry

LEMMA EntrySession ==
  ASSUME SessionInv, NEW c \in Conn, NEW s \in Server, NEW u \in User, userConnMap[s][u] = c
  PROVE  /\ home[c] = s
         /\ InSession(c, u)
         /\ u = IF pc[c] \in {"idle", "unanswered", "close_erase"} \cup OtherPc
                THEN session[c] ELSE arg[c]
  BY DEF SessionInv, EntryOwned, InSession, OtherPc

LEMMA InvRequest ==
  ASSUME SessionInv, TypeOK', NEW c \in Conn, Request(c) PROVE SessionInv'
<1> USE DEF SessionInv, TypeOK, InSession, Goto, CanLock, LoginPc, LogoutPc, OtherPc, ClosePc
<1> SUFFICES ConnOK' /\ EntryOwned' /\ LockOwned' /\ SweepInTable'
  OBVIOUS
<1>1. ASSUME NEW s \in Server, Accept(c, s)
      PROVE  ConnOK' /\ EntryOwned' /\ LockOwned' /\ SweepInTable'
  BY <1>1 DEF Accept, ConnOK, EntryOwned, LockOwned, SweepInTable, procVars
<1>2. CASE ClientAESkey(c)
  BY <1>2 DEF ClientAESkey, ConnOK, EntryOwned, LockOwned, SweepInTable, procVars
<1>3. ASSUME NEW u \in User, Reg(c, u)
      PROVE  ConnOK' /\ EntryOwned' /\ LockOwned' /\ SweepInTable'
  BY <1>3 DEF Reg, ConnOK, EntryOwned, LockOwned, SweepInTable, connVars, procVars, Receives
<1>4. ASSUME NEW u \in User, LoginQuery(c, u)
      PROVE  ConnOK' /\ EntryOwned' /\ LockOwned' /\ SweepInTable'
  <2>1. ConnOK'
    BY <1>4 DEF LoginQuery, ConnOK, procVars, Receives
  <2>2. EntryOwned' /\ LockOwned' /\ SweepInTable'
    BY <1>4 DEF LoginQuery, EntryOwned, LockOwned, SweepInTable, procVars, Receives
  <2> QED  BY <2>1, <2>2
<1>5. CASE LogoutErase(c)
  <2>1. home[c] \in Server /\ proc[home[c]] # "stopping"
    BY <1>5 DEF LogoutErase, Receives, ConnOK, LockOwned
  <2>2. \A s \in Server, u \in User :
          userConnMap'[s][u] = IF s = home[c] /\ u = session[c] THEN NoConn
                                                            ELSE userConnMap[s][u]
    BY <1>5, <2>1, EntrySet DEF LogoutErase
  <2>3. ConnOK'
    BY <1>5 DEF LogoutErase, ConnOK, Receives
  <2>4. EntryOwned'
    BY <1>5, <2>2 DEF LogoutErase, EntryOwned
  <2>5. LockOwned'
    BY <1>5 DEF LogoutErase, LockOwned
  <2>6. SweepInTable'
    BY <1>5, <2>1, <2>2 DEF LogoutErase, SweepInTable
  <2> QED  BY <2>3, <2>4, <2>5, <2>6
<1>6. CASE OtherRequest(c)
  BY <1>6 DEF OtherRequest, ConnOK, EntryOwned, LockOwned, SweepInTable, procVars, Receives
<1>7. CASE Disconnect(c)
  BY <1>7 DEF Disconnect, ConnOK, EntryOwned, LockOwned, SweepInTable, procVars
<1> QED  BY <1>1, <1>2, <1>3, <1>4, <1>5, <1>6, <1>7 DEF Request

LEMMA InvLogin ==
  ASSUME SessionInv, TypeOK', NEW c \in Conn, LoginStep(c) PROVE SessionInv'
<1> USE DEF SessionInv, TypeOK, InSession, Goto, CanLock, LoginPc, LogoutPc, OtherPc, ClosePc
<1> SUFFICES ConnOK' /\ EntryOwned' /\ LockOwned' /\ SweepInTable'
  OBVIOUS
<1>1. CASE LoginRefused(c)
  BY <1>1 DEF LoginRefused, ConnOK, EntryOwned, LockOwned, SweepInTable, procVars
<1>2. CASE LoginUpdate(c)
  BY <1>2 DEF LoginUpdate, ConnOK, EntryOwned, LockOwned, SweepInTable, procVars
<1>3. CASE LoginInsert(c)
  <2>1. home[c] \in Server /\ proc[home[c]] # "stopping"
    BY <1>3 DEF LoginInsert, ConnOK, LockOwned
  <2>2. \A s \in Server, u \in User :
          \/ userConnMap'[s][u] = userConnMap[s][u]
          \/ s = home[c] /\ u = arg[c] /\ userConnMap'[s][u] = c
    <3>1. CASE SetEntry(home[c], arg[c], c)
      BY <3>1, <2>1, EntrySet
    <3>2. CASE userConnMap' = userConnMap
      BY <3>2
    <3> QED  BY <1>3, <3>1, <3>2 DEF LoginInsert
  <2>3. ConnOK'
    BY <1>3 DEF LoginInsert, ConnOK
  <2>4. EntryOwned'
    BY <1>3, <2>2 DEF LoginInsert, EntryOwned, ConnOK
  <2>5. LockOwned'
    BY <1>3 DEF LoginInsert, LockOwned
  <2>6. SweepInTable'
    BY <1>3, <2>1, <2>2 DEF LoginInsert, SweepInTable
  <2> QED  BY <2>3, <2>4, <2>5, <2>6
<1>4. CASE LoginHset(c)
  BY <1>4 DEF LoginHset, ConnOK, EntryOwned, LockOwned, SweepInTable, procVars
<1>5. CASE LoginGroups(c)
  BY <1>5 DEF LoginGroups, ConnOK, EntryOwned, LockOwned, SweepInTable, procVars
<1>6. CASE LoginSadd(c)
  BY <1>6 DEF LoginSadd, ConnOK, EntryOwned, LockOwned, SweepInTable, procVars
<1>7. CASE LoginOffline(c)
  <2>1. /\ pc[c] = "login_sadd"
        /\ \E x \in {"login_remove", "login_ack"} : pc' = [pc EXCEPT ![c] = x]
        /\ UNCHANGED <<home, keyed, arg, session, procVars>>
    BY <1>7 DEF LoginOffline
  <2> QED  BY <2>1 DEF ConnOK, EntryOwned, LockOwned, SweepInTable, procVars
<1>8. CASE LoginRemove(c)
  BY <1>8 DEF LoginRemove, ConnOK, EntryOwned, LockOwned, SweepInTable, procVars
<1>9. CASE LoginAck(c)
  BY <1>9 DEF LoginAck, ConnOK, EntryOwned, LockOwned, SweepInTable, procVars
<1>10. CASE LoginThrow(c)
  <2>1. ConnOK'
    BY <1>10 DEF LoginThrow, ConnOK, procVars
  <2>2. EntryOwned' /\ LockOwned' /\ SweepInTable'
    BY <1>10 DEF LoginThrow, EntryOwned, LockOwned, SweepInTable, procVars
  <2> QED  BY <2>1, <2>2
<1> QED
  BY <1>1, <1>2, <1>3, <1>4, <1>5, <1>6, <1>7, <1>8, <1>9, <1>10 DEF LoginStep

LEMMA InvLeave ==
  ASSUME SessionInv, TypeOK', NEW c \in Conn, LogoutStep(c) \/ CloseStep(c) PROVE SessionInv'
<1> USE DEF SessionInv, TypeOK, InSession, Goto, CanLock, LoginPc, LogoutPc, OtherPc, ClosePc
<1> SUFFICES ConnOK' /\ EntryOwned' /\ LockOwned' /\ SweepInTable'
  OBVIOUS
<1>1. CASE LogoutHdel(c)
  BY <1>1 DEF LogoutHdel, ConnOK, EntryOwned, LockOwned, SweepInTable, procVars
<1>2. CASE LogoutUpdate(c)
  BY <1>2 DEF LogoutUpdate, ConnOK, EntryOwned, LockOwned, SweepInTable, procVars
<1>3. CASE CloseErase(c)
  <2>1. home[c] \in Server /\ proc[home[c]] # "stopping"
    BY <1>3 DEF CloseErase, ConnOK, LockOwned
  <2>2. CASE \A u \in User : userConnMap[home[c]][u] # c
    <3>1. /\ pc[c] = "close_erase"
          /\ pc' = [pc EXCEPT ![c] = "close_update"]
          /\ UNCHANGED <<home, keyed, arg, session, proc, userConnMap, lock, sweep, swept>>
      BY <1>3, <2>2 DEF CloseErase
    <3> QED  BY <2>2, <3>1 DEF ConnOK, EntryOwned, LockOwned, SweepInTable
  <2>3. ASSUME NEW u \in User, userConnMap[home[c]][u] = c,
               SetEntry(home[c], u, NoConn),
               arg' = [arg EXCEPT ![c] = u],
               lock' = [lock EXCEPT ![home[c]] = c],
               pc' = [pc EXCEPT ![c] = "close_hdel"]
        PROVE  ConnOK' /\ EntryOwned' /\ LockOwned' /\ SweepInTable'
    <3>1. \A s \in Server, v \in User :
             userConnMap'[s][v] = IF s = home[c] /\ v = u THEN NoConn
                                                        ELSE userConnMap[s][v]
      BY <2>1, <2>3, EntrySet
    <3>2. UNCHANGED <<home, keyed, session, proc, sweep, swept>>
      BY <1>3 DEF CloseErase
    <3>3. \A s \in Server, v \in User :
             userConnMap[s][v] = c => s = home[c] /\ v = u
      BY <1>3, <2>1, <2>3, EntrySession DEF CloseErase
    <3>4. ConnOK'
      BY <1>3, <2>3, <3>2 DEF ConnOK, CloseErase
    <3>5. EntryOwned'
      BY <2>3, <3>1, <3>2, <3>3 DEF EntryOwned
    <3>6. LockOwned'
      BY <1>3, <2>1, <2>3, <3>2 DEF LockOwned, CloseErase
    <3>7. SweepInTable'
      <4>1. sweep[home[c]] = {} /\ swept[home[c]] = NoUser
        BY <2>1 DEF SweepInTable
      <4>2. \A s \in Server \ {home[c]}, v \in User : userConnMap'[s][v] = userConnMap[s][v]
        BY <3>1
      <4>3. ASSUME NEW s \in Server
            PROVE  /\ sweep'[s] \cup ({swept'[s]} \ {NoUser})
                          \subseteq {v \in User : userConnMap'[s][v] # NoConn}
                   /\ swept'[s] \notin sweep'[s]
                   /\ proc'[s] # "stopping" => sweep'[s] = {} /\ swept'[s] = NoUser
        <5>1. CASE s = home[c]
          BY <3>2, <4>1, <5>1
        <5>2. CASE s # home[c]
          BY <3>2, <4>2, <5>2 DEF SweepInTable
        <5> QED  BY <5>1, <5>2
      <4> QED  BY <4>3 DEF SweepInTable
    <3> QED  BY <3>4, <3>5, <3>6, <3>7
  <2> QED  BY <1>3, <2>2, <2>3 DEF CloseErase
<1>4. CASE CloseHdel(c)
  BY <1>4 DEF CloseHdel, ConnOK, EntryOwned, LockOwned, SweepInTable
<1>5. CASE CloseUpdate(c)
  BY <1>5 DEF CloseUpdate, ConnOK, EntryOwned, LockOwned, SweepInTable, procVars
<1>6. CASE CloseKey(c)
  BY <1>6 DEF CloseKey, ConnOK, EntryOwned, LockOwned, SweepInTable, procVars
<1> QED  BY <1>1, <1>2, <1>3, <1>4, <1>5, <1>6 DEF LogoutStep, CloseStep

LEMMA InvOther ==
  ASSUME SessionInv, TypeOK', NEW c \in Conn, OtherStep(c) PROVE SessionInv'
<1> USE DEF SessionInv, TypeOK, InSession, Goto, CanLock, LoginPc, LogoutPc, OtherPc, ClosePc
<1> SUFFICES ConnOK' /\ EntryOwned' /\ LockOwned' /\ SweepInTable'
  OBVIOUS
<1>1. CASE OtherLock(c)
  BY <1>1 DEF OtherLock, ConnOK, EntryOwned, LockOwned, SweepInTable
<1>2. CASE OtherUnlock(c)
  BY <1>2 DEF OtherUnlock, ConnOK, EntryOwned, LockOwned, SweepInTable
<1>3. CASE OtherInsert(c)
  BY <1>3 DEF OtherInsert, ConnOK, EntryOwned, LockOwned, SweepInTable, connVars, procVars
<1>4. CASE OtherDone(c)
  BY <1>4 DEF OtherDone, ConnOK, EntryOwned, LockOwned, SweepInTable, procVars
<1> QED  BY <1>1, <1>2, <1>3, <1>4 DEF OtherStep

LEMMA InvProcess ==
  ASSUME SessionInv, TypeOK', NEW s \in Server, ProcessStep(s) PROVE SessionInv'
<1> USE DEF SessionInv, TypeOK, InSession, LoginPc
<1> SUFFICES ConnOK' /\ EntryOwned' /\ LockOwned' /\ SweepInTable'
  OBVIOUS
<1>1. CASE StopLock(s)
  BY <1>1 DEF StopLock, ConnOK, EntryOwned, LockOwned, SweepInTable, connVars
<1>2. ASSUME NEW u \in User, StopReset(s, u)
      PROVE  ConnOK' /\ EntryOwned' /\ LockOwned' /\ SweepInTable'
  BY <1>2 DEF StopReset, ConnOK, EntryOwned, LockOwned, SweepInTable, connVars
<1>3. CASE StopHdel(s)
  BY <1>3 DEF StopHdel, ConnOK, EntryOwned, LockOwned, SweepInTable, connVars
<1>4. CASE Die(s)
  <2>1. ConnOK'
    BY <1>4 DEF Die, ConnOK
  <2>2. EntryOwned'
    BY <1>4 DEF Die, EntryOwned
  <2>3. LockOwned'
    BY <1>4 DEF Die, LockOwned
  <2>4. SweepInTable'
    BY <1>4 DEF Die, SweepInTable
  <2> QED  BY <2>1, <2>2, <2>3, <2>4
<1>5. CASE Restart(s)
  BY <1>5 DEF Restart, ConnOK, EntryOwned, LockOwned, SweepInTable, connVars
<1> QED  BY <1>1, <1>2, <1>3, <1>4, <1>5 DEF ProcessStep, StopExit, Kill

LEMMA InvInit == Init => SessionInv
  BY TypeInit DEF Init, SessionInv, ConnOK, EntryOwned, LockOwned, SweepInTable, LoginPc

LEMMA InvStep == SessionInv /\ [Next]_vars => SessionInv'
<1>1. SessionInv /\ UNCHANGED vars => SessionInv'
  BY TypeStep DEF vars, connVars, procVars, SessionInv, ConnOK, EntryOwned, LockOwned,
                  SweepInTable, InSession
<1>2. SessionInv /\ [Next]_vars => TypeOK'
  BY TypeStep DEF SessionInv
<1> QED
  BY <1>1, <1>2, InvRequest, InvLogin, InvLeave, InvOther, InvProcess DEF Next

\* Under every interleaving and every fault, an entry of a connection table belongs to
\* a live, keyed connection of that server inside a session of the entry's user, and
\* the critical sections exclude each other.
THEOREM SessionInvariant == Spec => []SessionInv
  BY InvInit, InvStep, PTL DEF Spec

\* oneChat, groupChat and redisMessageHandler never reach a connection that is
\* closed or has no key.
THEOREM EntriesAreOwned == Spec => []EntryOwned
  BY SessionInvariant, PTL DEF SessionInv

\* closeException may stop at the first entry of its connection: there is no other.
THEOREM OneEntry == Spec => []OneEntryPerConn
<1>1. ASSUME SessionInv, NEW s \in Server, NEW t \in Server, NEW u \in User, NEW v \in User,
             userConnMap[s][u] # NoConn, userConnMap[s][u] = userConnMap[t][v]
      PROVE  s = t /\ u = v
  <2>1. PICK c \in Conn : c = userConnMap[s][u]
    BY <1>1 DEF SessionInv, TypeOK
  <2> QED  BY <1>1, <2>1, EntrySession DEF OtherPc
<1>2. SessionInv => OneEntryPerConn
  BY <1>1 DEF OneEntryPerConn
<1> QED  BY <1>2, SessionInvariant, PTL

\* Nobody changes a connection table under ServerOffline's loop or under another
\* handler's critical section.
THEOREM IterationIsSafe == Spec => IterationStable
<1>1. ASSUME SessionInv, Next, NEW s \in Server, lock[s] # Nobody, proc'[s] # "down"
      PROVE  userConnMap'[s] = userConnMap[s]
  <2> USE DEF SessionInv, TypeOK
  <2>1. ASSUME NEW c \in Conn, LoginInsert(c) \/ LogoutErase(c) \/ CloseErase(c)
        PROVE  userConnMap'[s] = userConnMap[s]
    <3>1. home[c] # s
      BY <1>1, <2>1 DEF LoginInsert, LogoutErase, CloseErase, CanLock
    <3>2. ASSUME NEW u, NEW x, SetEntry(home[c], u, x) PROVE userConnMap'[s] = userConnMap[s]
      BY <3>1, <3>2 DEF SetEntry
    <3>3. (\E u, x : SetEntry(home[c], u, x)) \/ UNCHANGED userConnMap
      BY <2>1 DEF LoginInsert, LogoutErase, CloseErase
    <3> QED  BY <3>2, <3>3
  <2>2. ASSUME NEW t \in Server, Die(t)  PROVE userConnMap'[s] = userConnMap[s]
    BY <1>1, <2>2 DEF Die
  <2>3. CASE UNCHANGED userConnMap
    BY <2>3
  <2> QED
    BY <1>1, <2>1, <2>2, <2>3
       DEF Next, Request, LoginStep, LogoutStep, CloseStep, OtherStep, ProcessStep, procVars,
           Accept, ClientAESkey, Reg, LoginQuery, OtherRequest, Disconnect, LoginRefused,
           LoginUpdate, LoginHset, LoginGroups, LoginSadd, LoginOffline, LoginRemove,
           LoginThrow, LoginAck, LogoutHdel, LogoutUpdate, CloseHdel, CloseUpdate, CloseKey, OtherLock,
           OtherUnlock, OtherInsert, OtherDone, StopLock, StopReset, StopHdel, StopExit,
           Kill, Restart
<1>2. SessionInv /\ [Next]_vars
        => [\A s \in Server : lock[s] # Nobody /\ proc'[s] # "down"
                                 => userConnMap'[s] = userConnMap[s]]_vars
  BY <1>1
<1> QED  BY <1>2, SessionInvariant, PTL DEF Spec, IterationStable
=============================================================================
