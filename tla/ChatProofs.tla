----------------------------- MODULE ChatProofs -----------------------------
(***************************************************************************)
(* Proofs about Chat for any number of servers, users, connections, groups *)
(* and messages and any combination of faults: chat implements the         *)
(* abstract requests of Session, a message reaches only users it is for,   *)
(* nobody is sent one twice, and a message is lost only as MessageKept     *)
(* allows.                                                                 *)
(***************************************************************************)
EXTENDS Chat, SessionProofs

USE StoreAssumption, SessionAssumption, ChatAssumption

-----------------------------------------------------------------------------
\* Sequences as sets

LEMMA AppendSet ==
  ASSUME NEW S, NEW q \in Seq(S), NEW x \in S
  PROVE  Append(q, x) \in Seq(S) /\ ToSet(Append(q, x)) = ToSet(q) \cup {x}
<1>1. /\ Append(q, x) \in Seq(S)
      /\ Len(Append(q, x)) = Len(q) + 1
      /\ \A i \in 1..Len(q) : Append(q, x)[i] = q[i]
      /\ Append(q, x)[Len(q) + 1] = x
  OBVIOUS
<1>2. /\ DOMAIN q = 1..Len(q)
      /\ DOMAIN Append(q, x) = (1..Len(q)) \cup {Len(q) + 1}
  OBVIOUS
<1> QED  BY <1>1, <1>2 DEF ToSet

LEMMA RangeSet ==
  ASSUME NEW S, NEW q \in Seq(S)
  PROVE  ToSet(q) \subseteq S
<1>1. DOMAIN q = 1..Len(q) /\ \A i \in 1..Len(q) : q[i] \in S
  OBVIOUS
<1> QED  BY <1>1 DEF ToSet

LEMMA TailSet ==
  ASSUME NEW S, NEW q \in Seq(S), q # <<>>
  PROVE  /\ Tail(q) \in Seq(S)
         /\ ToSet(Tail(q)) \subseteq ToSet(q)
         /\ ToSet(q) \subseteq ToSet(Tail(q)) \cup {Head(q)}
         /\ Head(q) \in ToSet(q) /\ Head(q) \in S
<1>1. /\ Tail(q) \in Seq(S)
      /\ Len(q) \in Nat \ {0}
      /\ Len(Tail(q)) = Len(q) - 1
      /\ \A i \in 1..(Len(q) - 1) : Tail(q)[i] = q[i + 1]
      /\ Head(q) = q[1]
      /\ \A i \in 1..Len(q) : q[i] \in S
  OBVIOUS
<1>2. DOMAIN q = 1..Len(q) /\ DOMAIN Tail(q) = 1..(Len(q) - 1)
  BY <1>1
<1>3. \A i \in 1..Len(q) : i = 1 \/ (i - 1 \in 1..(Len(q) - 1) /\ (i - 1) + 1 = i)
  BY <1>1
<1>4. ASSUME NEW x \in ToSet(q) PROVE x \in ToSet(Tail(q)) \cup {Head(q)}
  <2>1. PICK i \in 1..Len(q) : q[i] = x
    BY <1>2 DEF ToSet
  <2>2. CASE i = 1
    BY <1>1, <2>1, <2>2
  <2>3. CASE i # 1
    <3>1. i - 1 \in DOMAIN Tail(q) /\ Tail(q)[i - 1] = x
      BY <1>1, <1>2, <1>3, <2>1, <2>3
    <3> QED  BY <3>1 DEF ToSet
  <2> QED  BY <2>2, <2>3
<1>5. ToSet(Tail(q)) \subseteq ToSet(q) /\ Head(q) \in ToSet(q) /\ Head(q) \in S
  BY <1>1, <1>2 DEF ToSet
<1> QED  BY <1>1, <1>4, <1>5

-----------------------------------------------------------------------------
\* What the steps of Session leave alone of a request in flight

RequestFrame ==
  /\ groupUser' = groupUser
  /\ \A u \in User : offlineMessage'[u] \subseteq offlineMessage[u]
  /\ \A c \in Conn : pc'[c] # "free" =>
        /\ pc'[c] \in OtherPc <=> pc[c] \in OtherPc
        /\ pc[c] \in OtherPc => pc'[c] = pc[c] /\ session'[c] = session[c]

LEMMA FrameRequest ==
  ASSUME TypeOK, NEW c \in Conn,
         \/ \E s \in Server : Accept(c, s)
         \/ ClientAESkey(c)
         \/ \E u \in User : Reg(c, u) \/ LoginQuery(c, u)
         \/ LogoutErase(c)
         \/ Disconnect(c)
  PROVE  RequestFrame /\ UNCHANGED <<groupCache, todo>>
<1> USE DEF TypeOK, StoreTypeOK, RequestFrame, Goto, OtherPc, storeVars, procVars, connVars,
            redisVars, mysqlVars
<1>1. CASE \E s \in Server : Accept(c, s)
  BY <1>1 DEF Accept
<1>2. CASE ClientAESkey(c)
  BY <1>2 DEF ClientAESkey
<1>3. CASE \E u \in User : Reg(c, u)
  BY <1>3 DEF Reg
<1>4. CASE \E u \in User : LoginQuery(c, u)
  BY <1>4 DEF LoginQuery
<1>5. CASE LogoutErase(c)
  BY <1>5 DEF LogoutErase
<1>6. CASE Disconnect(c)
  BY <1>6 DEF Disconnect
<1> QED  BY <1>1, <1>2, <1>3, <1>4, <1>5, <1>6

LEMMA FrameLogin ==
  ASSUME TypeOK, NEW c \in Conn, LoginStep(c)
  PROVE  RequestFrame
<1> USE DEF TypeOK, StoreTypeOK, RequestFrame, Goto, OtherPc, storeVars, procVars, connVars,
            redisVars, mysqlVars
<1>1. CASE LoginRefused(c)
  BY <1>1 DEF LoginRefused
<1>2. CASE LoginUpdate(c)
  BY <1>2 DEF LoginUpdate
<1>3. CASE LoginInsert(c)
  BY <1>3 DEF LoginInsert
<1>4. CASE LoginHset(c)
  BY <1>4 DEF LoginHset
<1>5. CASE LoginGroups(c)
  BY <1>5 DEF LoginGroups
<1>6. CASE LoginSadd(c)
  BY <1>6 DEF LoginSadd
<1>7. CASE LoginOffline(c)
  BY <1>7 DEF LoginOffline
<1>8. CASE LoginRemove(c)
  BY <1>8 DEF LoginRemove, RemoveOfflineMsg
<1>9. CASE LoginAck(c)
  BY <1>9 DEF LoginAck
<1>10. CASE LoginThrow(c)
  BY <1>10 DEF LoginThrow
<1> QED
  BY <1>1, <1>2, <1>3, <1>4, <1>5, <1>6, <1>7, <1>8, <1>9, <1>10 DEF LoginStep

LEMMA FrameLeave ==
  ASSUME TypeOK, NEW c \in Conn, LogoutStep(c) \/ CloseStep(c)
  PROVE  RequestFrame /\ UNCHANGED <<groupCache, todo>>
<1> USE DEF TypeOK, StoreTypeOK, RequestFrame, Goto, OtherPc, storeVars, procVars, connVars,
            redisVars, mysqlVars
<1>1. CASE LogoutHdel(c)
  BY <1>1 DEF LogoutHdel
<1>2. CASE LogoutUpdate(c)
  BY <1>2 DEF LogoutUpdate
<1>3. CASE CloseErase(c)
  BY <1>3 DEF CloseErase
<1>4. CASE CloseHdel(c)
  BY <1>4 DEF CloseHdel
<1>5. CASE CloseUpdate(c)
  BY <1>5 DEF CloseUpdate
<1>6. CASE CloseKey(c)
  BY <1>6 DEF CloseKey
<1> QED  BY <1>1, <1>2, <1>3, <1>4, <1>5, <1>6 DEF LogoutStep, CloseStep

LEMMA FrameProcess ==
  ASSUME TypeOK, NEW s \in Server, ProcessStep(s)
  PROVE  /\ RequestFrame /\ UNCHANGED groupCache
         /\ \A c \in Conn : todo'[c] \subseteq todo[c]
<1> USE DEF TypeOK, StoreTypeOK, RequestFrame, OtherPc, storeVars, connVars, redisVars, mysqlVars
<1>1. CASE StopLock(s)
  BY <1>1 DEF StopLock
<1>2. CASE \E u \in User : StopReset(s, u)
  BY <1>2 DEF StopReset
<1>3. CASE StopHdel(s)
  BY <1>3 DEF StopHdel
<1>4. CASE Die(s)
  BY <1>4 DEF Die
<1>5. CASE Restart(s)
  BY <1>5 DEF Restart
<1> QED  BY <1>1, <1>2, <1>3, <1>4, <1>5 DEF ProcessStep, StopExit, Kill

\* A login caches members of the groups that MySQL returned, nobody else.
LEMMA CacheLogin ==
  ASSUME TypeOK, CacheOK, NEW c \in Conn, LoginStep(c)
  PROVE  CacheOK'
<1> USE DEF TypeOK, StoreTypeOK, CacheOK, Goto, storeVars, redisVars, mysqlVars
<1>1. CASE LoginGroups(c)
  <2>1. \A gm \in QueryGroup(arg[c]) : gm[2] \in groupUser[gm[1]]
    BY DEF QueryGroup
  <2> QED  BY <1>1, <2>1 DEF LoginGroups
<1>2. CASE LoginSadd(c)
  <2>1. PICK gm \in todo[c] : SAdd(gm[1], gm[2]) /\ todo' = [todo EXCEPT ![c] = @ \ {gm}]
    BY <1>2 DEF LoginSadd
  <2>2. gm[1] \in Group /\ gm[2] \in groupUser[gm[1]]
    OBVIOUS
  <2>3. \A g \in Group : groupCache'[g] \subseteq groupUser[g]
    <3>1. ASSUME groupCache' = [groupCache EXCEPT ![gm[1]] = @ \cup {gm[2]}],
                 NEW g \in Group
          PROVE  groupCache'[g] \subseteq groupUser[g]
      BY <2>2, <3>1
    <3> QED  BY <2>1, <3>1 DEF SAdd
  <2> QED  BY <1>2, <2>1, <2>3 DEF LoginSadd
<1>3. CASE LoginRefused(c) \/ LoginUpdate(c) \/ LoginInsert(c) \/ LoginHset(c)
              \/ LoginOffline(c) \/ LoginRemove(c) \/ LoginAck(c)
  BY <1>3 DEF LoginRefused, LoginUpdate, LoginInsert, LoginHset, LoginOffline, LoginRemove, LoginAck
<1>4. CASE LoginThrow(c)
  BY <1>4 DEF LoginThrow
<1> QED  BY <1>1, <1>2, <1>3, <1>4 DEF LoginStep

LEMMA SessionFrame ==
  ASSUME TypeOK, SessionStep
  PROVE  RequestFrame /\ (CacheOK => CacheOK')
<1>1. CASE \E c \in Conn : LoginStep(c)
  BY <1>1, FrameLogin, CacheLogin
<1>2. CASE \E s \in Server : ProcessStep(s)
  BY <1>2, FrameProcess DEF CacheOK, RequestFrame
<1>3. ASSUME RequestFrame, UNCHANGED <<groupCache, todo>> PROVE CacheOK => CacheOK'
  BY <1>3 DEF CacheOK, RequestFrame
<1> QED  BY <1>1, <1>2, <1>3, FrameRequest, FrameLeave DEF SessionStep

-----------------------------------------------------------------------------
\* Refinement of Session

LEMMA ChatIsOther ==
  ASSUME ChatInv, NEW c \in Conn, ChatRequest(c) \/ ChatStep(c)
  PROVE  Request(c) \/ OtherStep(c) \/ UNCHANGED vars
<1> USE DEF ChatInv, HandlerOK, RequestOK
<1>1. CASE ChatRequest(c)
  BY <1>1 DEF ChatRequest, OneChat, GroupChat, AddGroup, Request
<1>2. CASE OneChatLocal(c) \/ OneChatRemote(c) \/ Hget(c) \/ Publish(c) \/ Smembers(c)
             \/ QueryNumber(c) \/ \E v \in User : Each(c, v)
  BY <1>2 DEF OneChatLocal, OneChatRemote, Hget, Publish, Smembers, QueryNumber, Each
<1>3. CASE GroupLock(c) \/ GroupUnlock(c) \/ Return(c)
  BY <1>3 DEF GroupLock, GroupUnlock, Return, OtherStep
<1>4. CASE InsertOfflineMsg(c)
  <2>1. step[c] = "store" /\ text[c] \in Msg /\ peer[c] \in User /\ pc[c] \in OtherPc
    BY <1>4 DEF InsertOfflineMsg, Step, OtherPc
  <2>2. CASE offlineMessage' = [offlineMessage EXCEPT ![peer[c]] = @ \cup {text[c]}]
    BY <1>4, <2>1, <2>2 DEF InsertOfflineMsg, OtherStep, OtherInsert
  <2>3. CASE UNCHANGED offlineMessage
    BY <1>4, <2>3 DEF InsertOfflineMsg, vars, storeVars, redisVars
  <2> QED  BY <1>4, <2>2, <2>3 DEF InsertOfflineMsg
<1>5. ASSUME NEW g \in Group, Join(c, g) PROVE OtherStep(c) \/ UNCHANGED vars
  <2>1. pc[c] \in OtherPc /\ session[c] \in User
    BY <1>5 DEF Join, Step, OtherPc
  <2>2. CASE groupUser' = [groupUser EXCEPT ![g] = @ \cup {session[c]}]
    BY <1>5, <2>1, <2>2 DEF Join, OtherStep, OtherInsert
  <2>3. CASE UNCHANGED groupUser
    BY <1>5, <2>3 DEF Join, vars, storeVars, redisVars
  <2> QED  BY <1>5, <2>2, <2>3 DEF Join
<1> QED  BY <1>1, <1>2, <1>3, <1>4, <1>5 DEF ChatStep

LEMMA ChatStepsRefine == ChatInv /\ [ChatNext]_allVars => [Next]_vars
<1>1. SessionStep => Next
  BY DEF SessionStep, Next, Request
<1>2. ASSUME NEW s \in Server, RedisMessage(s) PROVE UNCHANGED vars
  BY <1>2 DEF RedisMessage
<1>3. UNCHANGED allVars => UNCHANGED vars
  BY DEF allVars
<1> QED  BY <1>1, <1>2, <1>3, ChatIsOther DEF ChatNext, Next

-----------------------------------------------------------------------------
\* Types

LEMMA TypeChat ==
  ASSUME ChatInv, ChatNext PROVE ChatTypeOK'
<1> USE DEF ChatInv, ChatTypeOK, HandlerOK, RequestOK
<1>1. ASSUME NEW c \in Conn, NEW u \in User, NEW m \in Msg, OneChat(c, u, m) PROVE ChatTypeOK'
  BY <1>1 DEF OneChat, Step
<1>2. ASSUME NEW c \in Conn, NEW g \in Group, NEW m \in Msg, GroupChat(c, g, m) PROVE ChatTypeOK'
  BY <1>2 DEF GroupChat, Step
<1>3. ASSUME NEW c \in Conn, AddGroup(c) PROVE ChatTypeOK'
  BY <1>3 DEF AddGroup, Step, historyVars
<1>4. ASSUME NEW c \in Conn, OneChatLocal(c) PROVE ChatTypeOK'
  <2>1. text[c] \in Msg /\ peer[c] \in User
    BY <1>4 DEF OneChatLocal, Step
  <2>2. Append(inbox[peer[c]], text[c]) \in Seq(Msg)
    BY <2>1, AppendSet
  <2>3. inbox' \in [User -> Seq(Msg)]
    BY <1>4, <2>1, <2>2 DEF OneChatLocal, Deliver
  <2> QED  BY <1>4, <2>1, <2>3 DEF OneChatLocal, Step
<1>5. ASSUME NEW c \in Conn, OneChatRemote(c) \/ GroupLock(c) \/ Return(c)
      PROVE  ChatTypeOK'
  BY <1>5 DEF OneChatRemote, GroupLock, Return, Step, historyVars
<1>6. ASSUME NEW c \in Conn, Hget(c) PROVE ChatTypeOK'
  <2>1. onlineUser[peer[c]] \in Server \cup {NoServer}
    BY <1>6 DEF Hget, TypeOK, StoreTypeOK
  <2> QED  BY <1>6, <2>1 DEF Hget, historyVars
<1>7. ASSUME NEW c \in Conn, Publish(c) PROVE ChatTypeOK'
  <2>1. via[c] \in Server /\ <<text[c], peer[c]>> \in Msg \X User
    BY <1>7 DEF Publish, Step
  <2>2. Append(channel[via[c]], <<text[c], peer[c]>>) \in Seq(Msg \X User)
    BY <2>1, AppendSet
  <2>3. channel' \in [Server -> Seq(Msg \X User)]
    BY <1>7, <2>2 DEF Publish
  <2>4. dropped' \in SUBSET (Msg \X User)
    BY <1>7, <2>1 DEF Publish
  <2> QED  BY <1>7, <2>3, <2>4 DEF Publish, Step
<1>8. ASSUME NEW c \in Conn, InsertOfflineMsg(c) PROVE ChatTypeOK'
  <2>1. <<text[c], peer[c]>> \in Msg \X User
    BY <1>8 DEF InsertOfflineMsg, Step
  <2> QED  BY <1>8, <2>1 DEF InsertOfflineMsg, Step
<1>9. ASSUME NEW c \in Conn, Smembers(c) \/ QueryNumber(c) PROVE ChatTypeOK'
  <2>1. target[text[c]] \in Group
    BY <1>9 DEF Smembers, QueryNumber, Step
  <2>2. groupCache[target[text[c]]] \in SUBSET User /\ groupUser[target[text[c]]] \in SUBSET User
    BY <2>1 DEF TypeOK, StoreTypeOK
  <2>3. rest' \in [Conn -> SUBSET User]
    BY <1>9, <2>2 DEF Smembers, QueryNumber
  <2>4. members' \in [Conn -> SUBSET User]
    BY <1>9, <2>2 DEF Smembers, QueryNumber
  <2>5. step' \in [Conn -> {"none", "local", "hget", "publish", "store", "members",
                            "query", "lock", "each", "join", "end"}]
    BY <1>9 DEF Smembers, QueryNumber, Step
  <2>6. UNCHANGED <<text, peer, via, channel, target, inbox, accepted, lost, dropped>>
    BY <1>9 DEF Smembers, QueryNumber, historyVars
  <2> QED  BY <2>3, <2>4, <2>5, <2>6
<1>10. ASSUME NEW c \in Conn, NEW v \in User, Each(c, v) PROVE ChatTypeOK'
  <2>1. text[c] \in Msg
    BY <1>10 DEF Each
  <2>2. Append(inbox[v], text[c]) \in Seq(Msg)
    BY <2>1, AppendSet
  <2>3. inbox' \in [User -> Seq(Msg)]
    BY <1>10, <2>2 DEF Each, Deliver
  <2>4. /\ step' = step \/ step' = [step EXCEPT ![c] = "hget"]
        /\ peer' = peer \/ peer' = [peer EXCEPT ![c] = v]
        /\ rest' = [rest EXCEPT ![c] = @ \ {v}]
        /\ UNCHANGED <<text, members, via, channel, target, accepted, lost, dropped>>
    BY <1>10 DEF Each
  <2>5. /\ DOMAIN step' = Conn
        /\ \A d \in Conn : step'[d] = step[d] \/ step'[d] = "hget"
        /\ step' = [d \in Conn |-> step'[d]]
    BY <2>4
  <2>6. step' \in [Conn -> {"none", "local", "hget", "publish", "store", "members",
                            "query", "lock", "each", "join", "end"}]
    BY <2>5
  <2>7. peer' \in [Conn -> User \cup {NoUser}]
    BY <2>4
  <2>8. rest' \in [Conn -> SUBSET User]
    BY <2>4
  <2> QED  BY <2>3, <2>4, <2>6, <2>7, <2>8
<1>11. ASSUME NEW c \in Conn, NEW g \in Group, Join(c, g) PROVE ChatTypeOK'
  BY <1>11 DEF Join, Step, historyVars
<1>12. ASSUME NEW s \in Server, RedisMessage(s) PROVE ChatTypeOK'
  <2>1. Tail(channel[s]) \in Seq(Msg \X User) /\ Head(channel[s]) \in Msg \X User
    BY <1>12, TailSet DEF RedisMessage
  <2>2. PICK m \in Msg, u \in User : m = Head(channel[s])[1] /\ u = Head(channel[s])[2]
    BY <2>1
  <2>3. Append(inbox[u], m) \in Seq(Msg)
    BY AppendSet
  <2>4. inbox' = inbox \/ Deliver(Head(channel[s])[2], Head(channel[s])[1])
    BY <1>12 DEF RedisMessage
  <2>5. inbox' = inbox \/ Deliver(u, m)
    BY <2>2, <2>4
  <2>6. ASSUME Deliver(u, m) PROVE inbox' \in [User -> Seq(Msg)]
    BY <2>3, <2>6 DEF Deliver
  <2>7. ASSUME inbox' = inbox PROVE inbox' \in [User -> Seq(Msg)]
    BY <2>7
  <2>8. dropped' \in SUBSET (Msg \X User)
    <3>1. dropped' = dropped \/ dropped' = dropped \cup {<<Head(channel[s])[1], Head(channel[s])[2]>>}
      BY <1>12 DEF RedisMessage
    <3> QED  BY <2>2, <3>1
  <2> QED  BY <1>12, <2>1, <2>5, <2>6, <2>7, <2>8 DEF RedisMessage, handlerVars
<1>13. CASE Follow
  <2>1. \A s \in Server : <<>> \in Seq(Msg \X User)
    OBVIOUS
  <2>2. \A s \in Server : ToSet(channel[s]) \subseteq Msg \X User
    BY RangeSet
  <2>3. dropped' \in SUBSET (Msg \X User)
    BY <1>13, <2>2 DEF Follow
  <2> QED  BY <1>13, <2>1, <2>3 DEF Follow
<1>14. ASSUME NEW c \in Conn, GroupUnlock(c) PROVE ChatTypeOK'
  <2>1. text[c] \in Msg /\ members[c] \subseteq User
    BY <1>14 DEF GroupUnlock, Step, OtherUnlock, Goto
  <2>2. accepted' \in SUBSET (Msg \X User)
    BY <1>14, <2>1 DEF GroupUnlock
  <2> QED  BY <1>14, <2>2 DEF GroupUnlock, Step
<1> QED  BY <1>1, <1>2, <1>3, <1>4, <1>5, <1>6, <1>7, <1>8, <1>9, <1>10, <1>11, <1>12, <1>13, <1>14
         DEF ChatNext, ChatRequest, ChatStep

-----------------------------------------------------------------------------
\* Requests

\* Members stay members and a message keeps its target.
Grows ==
  /\ \A g \in Group : groupUser[g] \subseteq groupUser'[g]
  /\ \A m \in Msg : target[m] # NoTarget => target'[m] = target[m]

\* A step concerns the request of c only.
OnlyOf(c) ==
  \A d \in Conn \ {c} :
     /\ pc'[d] = pc[d] /\ session'[d] = session[d]
     /\ step'[d] = step[d] /\ text'[d] = text[d] /\ peer'[d] = peer[d]
     /\ members'[d] = members[d] /\ rest'[d] = rest[d] /\ via'[d] = via[d]

LEMMA MayGetGrows ==
  ASSUME Grows, NEW m \in Msg, NEW u \in User, MayGet(m, u)
  PROVE  MayGet(m, u)'
BY DEF Grows, MayGet

LEMMA RequestKept ==
  ASSUME ChatTypeOK, Grows, NEW d \in Conn, RequestOK(d),
         pc'[d] = pc[d], session'[d] = session[d],
         step'[d] = step[d], text'[d] = text[d], peer'[d] = peer[d],
         rest'[d] = rest[d], via'[d] = via[d]
  PROVE  RequestOK(d)'
<1>1. \A v \in rest[d] : v \in User /\ text[d] \in Msg
  BY DEF ChatTypeOK, RequestOK
<1>2. \A v \in rest[d] : MayGet(text[d], v)'
  BY <1>1, MayGetGrows DEF RequestOK
<1>3. step[d] \in {"local", "hget", "publish", "store"} => MayGet(text[d], peer[d])'
  BY MayGetGrows DEF RequestOK
<1>4. text[d] \in Msg /\ target[text[d]] \in Group => target'[text[d]] \in Group
  BY DEF Grows
<1>5. (\A v \in rest[d] : MayGet(text[d], v)') => \A v \in rest'[d] : MayGet(text[d], v)'
  OBVIOUS
<1> QED  BY <1>2, <1>3, <1>4, <1>5 DEF RequestOK, MayGet

LEMMA HandlerByOne ==
  ASSUME ChatTypeOK, HandlerOK, Grows, NEW c \in Conn, OnlyOf(c), RequestOK(c)'
  PROVE  HandlerOK'
BY RequestKept DEF HandlerOK, OnlyOf

LEMMA RequestStarts ==
  ASSUME ChatInv, NEW c \in Conn, ChatRequest(c)
  PROVE  Grows /\ OnlyOf(c) /\ RequestOK(c)'
<1> USE DEF ChatInv, TypeOK, StoreTypeOK, ChatTypeOK, HandlerOK, RequestOK, OtherPc,
            OtherRequest, Receives, Goto, Step, storeVars, mysqlVars, procVars
<1>1. ASSUME NEW u \in User, NEW m \in Msg, OneChat(c, u, m)
      PROVE  Grows /\ OnlyOf(c) /\ RequestOK(c)'
  BY <1>1 DEF OneChat, Grows, OnlyOf, MayGet
<1>2. ASSUME NEW g \in Group, NEW m \in Msg, GroupChat(c, g, m)
      PROVE  Grows /\ OnlyOf(c) /\ RequestOK(c)'
  BY <1>2 DEF GroupChat, Grows, OnlyOf, MayGet
<1>3. ASSUME AddGroup(c) PROVE Grows /\ OnlyOf(c) /\ RequestOK(c)'
  BY <1>3 DEF AddGroup, Grows, OnlyOf, MayGet, historyVars
<1> QED  BY <1>1, <1>2, <1>3 DEF ChatRequest

LEMMA RequestMoves ==
  ASSUME ChatInv, NEW c \in Conn, ChatStep(c)
  PROVE  Grows /\ OnlyOf(c) /\ RequestOK(c)'
<1> USE DEF ChatInv, TypeOK, StoreTypeOK, ChatTypeOK, HandlerOK, RequestOK, OtherPc,
            Goto, Step, InLoop, vars, storeVars, mysqlVars, redisVars, connVars, procVars,
            historyVars
<1>1. CASE OneChatLocal(c) \/ OneChatRemote(c)
  BY <1>1 DEF OneChatLocal, OneChatRemote, Grows, OnlyOf, MayGet
<1>2. CASE Hget(c)
  BY <1>2 DEF Hget, Grows, OnlyOf, MayGet
<1>3. CASE Publish(c)
  BY <1>3 DEF Publish, Grows, OnlyOf, MayGet
<1>4. CASE InsertOfflineMsg(c)
  BY <1>4 DEF InsertOfflineMsg, Grows, OnlyOf, MayGet
<1>5. CASE Smembers(c) \/ QueryNumber(c)
  BY <1>5 DEF Smembers, QueryNumber, Grows, OnlyOf, MayGet, CacheOK
<1>6. CASE GroupLock(c)
  BY <1>6 DEF GroupLock, OtherLock, Grows, OnlyOf, MayGet
<1>7. ASSUME NEW v \in User, Each(c, v) PROVE Grows /\ OnlyOf(c) /\ RequestOK(c)'
  BY <1>7 DEF Each, Grows, OnlyOf, MayGet
<1>8. CASE GroupUnlock(c)
  BY <1>8 DEF GroupUnlock, OtherUnlock, Grows, OnlyOf, MayGet
<1>9. ASSUME NEW g \in Group, Join(c, g) PROVE Grows /\ OnlyOf(c) /\ RequestOK(c)'
  <2>1. /\ step[c] = "join" /\ pc[c] = "other" /\ session[c] \in User /\ rest[c] = {}
        /\ step' = [step EXCEPT ![c] = "end"]
        /\ UNCHANGED <<text, peer, members, rest, via, target>>
    BY <1>9 DEF Join
  <2>2. UNCHANGED <<pc, session>>
    BY <1>9 DEF Join
  <2>3. /\ groupUser \in [Group -> SUBSET User]
        /\ \/ groupUser' = [groupUser EXCEPT ![g] = groupUser[g] \cup {session[c]}]
           \/ groupUser' = groupUser
    BY <1>9 DEF Join
  <2>4. ASSUME NEW h \in Group PROVE groupUser[h] \subseteq groupUser'[h]
    <3> HIDE DEF ChatInv, TypeOK, ChatTypeOK, HandlerOK
    <3> QED  BY <2>3
  <2>5. Grows /\ OnlyOf(c)
    BY <2>1, <2>4, <2>2 DEF Grows, OnlyOf
  <2>6. RequestOK(c)'
    BY <2>1, <2>2
  <2> QED  BY <2>5, <2>6
<1>10. CASE Return(c)
  <2>1. /\ step[c] = "end" /\ pc[c] # "other_locked" /\ rest[c] = {}
        /\ step' = [step EXCEPT ![c] = "none"]
        /\ text' = [text EXCEPT ![c] = NoMsg]
        /\ peer' = [peer EXCEPT ![c] = NoUser]
        /\ members' = [members EXCEPT ![c] = {}]
        /\ via' = [via EXCEPT ![c] = NoServer]
        /\ pc' = [pc EXCEPT ![c] = "idle"]
        /\ UNCHANGED <<session, rest, target, groupUser>>
    BY <1>10 DEF Return, OtherDone
  <2>2. Grows /\ OnlyOf(c)
    BY <2>1 DEF Grows, OnlyOf
  <2>3. step'[c] = "none" /\ pc'[c] = "idle" /\ rest'[c] = {}
    BY <2>1
  <2>4. RequestOK(c)'
    BY <2>3
  <2> QED  BY <2>2, <2>4
<1> QED  BY <1>1, <1>2, <1>3, <1>4, <1>5, <1>6, <1>7, <1>8, <1>9, <1>10 DEF ChatStep

-----------------------------------------------------------------------------
\* Caches, channels, tables and inboxes

LEMMA CacheMoves ==
  ASSUME ChatInv, NEW c \in Conn, ChatRequest(c) \/ ChatStep(c)
  PROVE  CacheOK'
<1>1. Grows
  BY RequestStarts, RequestMoves
<1>2. UNCHANGED <<groupCache, todo>>
  <2> USE DEF vars, storeVars, redisVars, connVars
  <2>1. CASE ChatRequest(c)
    BY <2>1 DEF ChatRequest, OneChat, GroupChat, AddGroup, OtherRequest
  <2>2. CASE OneChatLocal(c) \/ OneChatRemote(c) \/ Hget(c) \/ Publish(c) \/ InsertOfflineMsg(c)
               \/ Smembers(c) \/ QueryNumber(c) \/ GroupLock(c)
    BY <2>2 DEF OneChatLocal, OneChatRemote, Hget, Publish, InsertOfflineMsg,
                Smembers, QueryNumber, GroupLock, OtherLock
  <2>3. CASE (\E v \in User : Each(c, v)) \/ GroupUnlock(c) \/ (\E g \in Group : Join(c, g))
               \/ Return(c)
    BY <2>3 DEF Each, GroupUnlock, OtherUnlock, Join, Return, OtherDone
  <2> QED  BY <2>1, <2>2, <2>3 DEF ChatStep
<1>3. \A gm \in Group \X User : gm[1] \in Group
  OBVIOUS
<1>4. \A d \in Conn : todo[d] \subseteq Group \X User
  BY DEF ChatInv, TypeOK
<1> QED  BY <1>1, <1>2, <1>3, <1>4 DEF Grows, CacheOK, ChatInv

\* What a step adds to channels and to inboxes must be for the users it names.
LEMMA ChannelGrows ==
  ASSUME ChatTypeOK, ChannelOK, Grows,
         \A s \in Server : \A mu \in ToSet(channel'[s]) :
            mu \in ToSet(channel[s]) \/ MayGet(mu[1], mu[2])'
  PROVE  ChannelOK'
<1>1. ASSUME NEW s \in Server, NEW mu \in ToSet(channel[s])
      PROVE  MayGet(mu[1], mu[2])'
  <2>1. mu \in Msg \X User
    BY RangeSet DEF ChatTypeOK
  <2>2. mu[1] \in Msg /\ mu[2] \in User /\ MayGet(mu[1], mu[2])
    BY <2>1 DEF ChannelOK
  <2> QED  BY <2>2, MayGetGrows
<1> QED  BY <1>1 DEF ChannelOK

LEMMA AddressedGrows ==
  ASSUME TypeOK, ChatTypeOK, Addressed, Grows,
         \A u \in User : \A m \in ToSet(inbox'[u]) \cup offlineMessage'[u] :
            m \in ToSet(inbox[u]) \cup offlineMessage[u] \/ MayGet(m, u)'
  PROVE  Addressed'
<1>1. ASSUME NEW u \in User, NEW m \in ToSet(inbox[u]) \cup offlineMessage[u]
      PROVE  MayGet(m, u)'
  <2>1. m \in Msg
    BY RangeSet DEF TypeOK, StoreTypeOK, ChatTypeOK
  <2> QED  BY <2>1, MayGetGrows DEF Addressed
<1> QED  BY <1>1 DEF Addressed

LEMMA ChannelMoves ==
  ASSUME ChatInv, NEW c \in Conn, ChatRequest(c) \/ ChatStep(c)
  PROVE  ChannelOK'
<1>1. Grows /\ ChatTypeOK /\ ChannelOK
  BY RequestStarts, RequestMoves DEF ChatInv
<1>2. ASSUME UNCHANGED channel PROVE ChannelOK'
  BY <1>1, <1>2, ChannelGrows
<1>3. CASE ChatRequest(c)
  BY <1>2, <1>3 DEF ChatRequest, OneChat, GroupChat, AddGroup
<1>4. CASE OneChatLocal(c) \/ OneChatRemote(c) \/ Hget(c) \/ InsertOfflineMsg(c)
             \/ Smembers(c) \/ QueryNumber(c) \/ GroupLock(c)
  BY <1>2, <1>4 DEF OneChatLocal, OneChatRemote, Hget, InsertOfflineMsg,
                    Smembers, QueryNumber, GroupLock
<1>5. CASE (\E v \in User : Each(c, v)) \/ GroupUnlock(c) \/ (\E g \in Group : Join(c, g))
             \/ Return(c)
  BY <1>2, <1>5 DEF Each, GroupUnlock, Join, Return
<1>6. CASE Publish(c)
  <2>1. PICK s \in Server, m \in Msg, u \in User :
           s = via[c] /\ m = text[c] /\ u = peer[c] /\ MayGet(m, u)
    BY <1>6 DEF Publish, Step, ChatInv, HandlerOK, RequestOK
  <2>2. MayGet(m, u)'
    BY <1>1, <2>1, MayGetGrows
  <2>3. CASE channel' = [channel EXCEPT ![s] = Append(@, <<m, u>>)]
    <3>1. /\ channel[s] \in Seq(Msg \X User)
          /\ channel'[s] = Append(channel[s], <<m, u>>)
          /\ \A t \in Server : t # s => channel'[t] = channel[t]
      BY <1>1, <2>3 DEF ChatTypeOK
    <3>2. <<m, u>> \in Msg \X User
      OBVIOUS
    <3>3. ToSet(Append(channel[s], <<m, u>>)) = ToSet(channel[s]) \cup {<<m, u>>}
      BY <3>1, <3>2, AppendSet
    <3>4. <<m, u>>[1] = m /\ <<m, u>>[2] = u
      OBVIOUS
    <3>5. \A t \in Server : \A mu \in ToSet(channel'[t]) :
             mu \in ToSet(channel[t]) \/ MayGet(mu[1], mu[2])'
      BY <2>2, <3>1, <3>3, <3>4 DEF MayGet
    <3> QED  BY <1>1, <3>5, ChannelGrows
  <2> QED  BY <1>2, <1>6, <2>1, <2>3 DEF Publish
<1> QED  BY <1>3, <1>4, <1>5, <1>6 DEF ChatStep

\* Sending m to v is all right when m is for v.
LEMMA InboxMoves ==
  ASSUME TypeOK, ChatTypeOK, Addressed, Grows, NEW v \in User, NEW m \in Msg, MayGet(m, v),
         Deliver(v, m) \/ UNCHANGED inbox,
         UNCHANGED offlineMessage
  PROVE  Addressed'
<1>1. CASE UNCHANGED inbox
  BY <1>1, AddressedGrows
<1>2. CASE Deliver(v, m)
  <2>1. /\ inbox[v] \in Seq(Msg)
        /\ inbox'[v] = Append(inbox[v], m)
        /\ \A u \in User : u # v => inbox'[u] = inbox[u]
    BY <1>2 DEF Deliver, ChatTypeOK
  <2>2. ToSet(inbox'[v]) = ToSet(inbox[v]) \cup {m}
    BY <2>1, AppendSet
  <2>3. MayGet(m, v)'
    BY MayGetGrows
  <2>4. ASSUME NEW u \in User, NEW x \in ToSet(inbox'[u]) \cup offlineMessage'[u]
        PROVE  x \in ToSet(inbox[u]) \cup offlineMessage[u] \/ MayGet(x, u)'
    <3>1. CASE u = v
      BY <2>2, <2>3, <2>4, <3>1 DEF MayGet
    <3>2. CASE u # v
      BY <2>1, <2>4, <3>2
    <3> QED  BY <3>1, <3>2
  <2> QED  BY <2>4, AddressedGrows
<1> QED  BY <1>1, <1>2

LEMMA AddressedMoves ==
  ASSUME ChatInv, NEW c \in Conn, ChatRequest(c) \/ ChatStep(c)
  PROVE  Addressed'
<1>1. Grows /\ TypeOK /\ ChatTypeOK /\ Addressed
  BY RequestStarts, RequestMoves DEF ChatInv
<1>2. ASSUME UNCHANGED <<inbox, offlineMessage>> PROVE Addressed'
  BY <1>1, <1>2, AddressedGrows
<1> USE DEF vars, storeVars, mysqlVars, historyVars
<1>3. CASE ChatRequest(c)
  BY <1>2, <1>3 DEF ChatRequest, OneChat, GroupChat, AddGroup, OtherRequest
<1>4. CASE OneChatRemote(c) \/ Hget(c) \/ Publish(c) \/ Smembers(c) \/ QueryNumber(c)
             \/ GroupLock(c) \/ GroupUnlock(c) \/ (\E g \in Group : Join(c, g)) \/ Return(c)
  BY <1>2, <1>4 DEF OneChatRemote, Hget, Publish, Smembers, QueryNumber, GroupLock, OtherLock,
                    GroupUnlock, OtherUnlock, Join, Return, OtherDone
<1>5. CASE OneChatLocal(c)
  <2>1. PICK m \in Msg, v \in User : m = text[c] /\ v = peer[c] /\ MayGet(m, v)
    BY <1>5 DEF OneChatLocal, Step, ChatInv, HandlerOK, RequestOK
  <2>2. Deliver(v, m) /\ UNCHANGED offlineMessage
    BY <1>5, <2>1 DEF OneChatLocal
  <2> QED  BY <1>1, <2>1, <2>2, InboxMoves
<1>6. ASSUME NEW v \in User, Each(c, v) PROVE Addressed'
  <2>1. PICK m \in Msg : m = text[c] /\ MayGet(m, v)
    BY <1>6 DEF Each, ChatInv, HandlerOK, RequestOK
  <2>2. (Deliver(v, m) \/ UNCHANGED inbox) /\ UNCHANGED offlineMessage
    BY <1>6, <2>1 DEF Each
  <2> QED  BY <1>1, <2>1, <2>2, InboxMoves
<1>7. CASE InsertOfflineMsg(c)
  <2>1. PICK m \in Msg, v \in User : m = text[c] /\ v = peer[c] /\ MayGet(m, v)
    BY <1>7 DEF InsertOfflineMsg, Step, ChatInv, HandlerOK, RequestOK
  <2>2. MayGet(m, v)'
    BY <1>1, <2>1, MayGetGrows
  <2>3. /\ UNCHANGED inbox
        /\ \/ UNCHANGED offlineMessage
           \/ offlineMessage' = [offlineMessage EXCEPT ![v] = offlineMessage[v] \cup {m}]
    BY <1>7, <2>1 DEF InsertOfflineMsg
  <2>4. ASSUME offlineMessage' = [offlineMessage EXCEPT ![v] = offlineMessage[v] \cup {m}],
               NEW u \in User, NEW x \in offlineMessage'[u]
        PROVE  x \in offlineMessage[u] \/ (x = m /\ u = v)
    <3>1. offlineMessage \in [User -> SUBSET Msg]
      BY <1>1 DEF TypeOK, StoreTypeOK
    <3> QED  BY <2>4, <3>1
  <2>5. \A u \in User : \A x \in ToSet(inbox'[u]) \cup offlineMessage'[u] :
           x \in ToSet(inbox[u]) \cup offlineMessage[u] \/ MayGet(x, u)'
    BY <2>2, <2>3, <2>4 DEF MayGet
  <2> QED  BY <1>1, <2>5, AddressedGrows
<1> QED  BY <1>3, <1>4, <1>5, <1>6, <1>7 DEF ChatStep

-----------------------------------------------------------------------------
\* The steps of Session and of the listener

LEMMA SessionMoves ==
  ASSUME ChatInv, SessionStep, Follow
  PROVE  HandlerOK' /\ CacheOK' /\ ChannelOK' /\ Addressed'
<1>1. RequestFrame /\ CacheOK'
  BY SessionFrame DEF ChatInv
<1>2. Grows
  BY <1>1 DEF RequestFrame, Follow, Grows
<1>3. ASSUME NEW c \in Conn PROVE RequestOK(c)'
  <2>1. CASE pc'[c] = "free"
    <3>1. step'[c] = "none" /\ rest'[c] = {}
      BY <2>1 DEF Follow
    <3> QED  BY <2>1, <3>1 DEF RequestOK, OtherPc
  <2>2. CASE pc'[c] # "free"
    <3>1. /\ step'[c] = step[c] /\ text'[c] = text[c] /\ peer'[c] = peer[c]
          /\ rest'[c] = rest[c] /\ via'[c] = via[c]
      BY <2>2 DEF Follow
    <3>2. /\ pc'[c] \in OtherPc <=> pc[c] \in OtherPc
          /\ pc[c] \in OtherPc => pc'[c] = pc[c] /\ session'[c] = session[c]
      BY <1>1, <2>2 DEF RequestFrame
    <3>3. RequestOK(c)
      BY DEF ChatInv, HandlerOK
    <3>4. CASE pc[c] \in OtherPc
      BY <1>2, <3>1, <3>2, <3>3, <3>4, RequestKept DEF ChatInv
    <3>5. CASE pc[c] \notin OtherPc
      <4>1. step[c] = "none" /\ rest[c] = {} /\ pc'[c] \notin OtherPc
        BY <3>2, <3>3, <3>5 DEF RequestOK, OtherPc
      <4> QED  BY <3>1, <4>1 DEF RequestOK, OtherPc
    <3> QED  BY <3>4, <3>5
  <2> QED  BY <2>1, <2>2
<1>4. ChannelOK'
  <2>1. ASSUME NEW s \in Server
        PROVE  \A mu \in ToSet(channel'[s]) : mu \in ToSet(channel[s])
    <3>1. channel'[s] = <<>> \/ channel'[s] = channel[s]
      BY DEF Follow
    <3>2. ToSet(<<>>) = {}
      BY DEF ToSet
    <3> QED  BY <3>1, <3>2
  <2> QED  BY <1>2, <2>1, ChannelGrows DEF ChatInv
<1>5. Addressed'
  <2>1. UNCHANGED inbox /\ \A u \in User : offlineMessage'[u] \subseteq offlineMessage[u]
    BY <1>1 DEF Follow, RequestFrame
  <2> QED  BY <1>2, <2>1, AddressedGrows DEF ChatInv
<1> QED  BY <1>1, <1>3, <1>4, <1>5 DEF HandlerOK

LEMMA ListenerMoves ==
  ASSUME ChatInv, NEW s \in Server, RedisMessage(s)
  PROVE  HandlerOK' /\ CacheOK' /\ ChannelOK' /\ Addressed'
<1> USE DEF ChatInv, vars, storeVars, mysqlVars, redisVars, connVars, handlerVars
<1>1. Grows
  BY DEF RedisMessage, Grows
<1>2. HandlerOK'
  <2>1. UNCHANGED <<pc, session, step, text, peer, rest, via>>
    BY DEF RedisMessage
  <2> QED  BY <1>1, <2>1, RequestKept DEF HandlerOK
<1>3. CacheOK'
  BY DEF RedisMessage, CacheOK
<1>4. /\ channel[s] \in Seq(Msg \X User) /\ channel[s] # <<>>
      /\ channel' = [channel EXCEPT ![s] = Tail(channel[s])]
  BY DEF RedisMessage, ChatTypeOK
<1>5. /\ ToSet(Tail(channel[s])) \subseteq ToSet(channel[s])
      /\ Head(channel[s]) \in ToSet(channel[s])
      /\ Head(channel[s]) \in Msg \X User
  BY <1>4, TailSet
<1>6. ChannelOK'
  <2>1. \A t \in Server : channel'[t] = IF t = s THEN Tail(channel[s]) ELSE channel[t]
    BY <1>4 DEF ChatTypeOK
  <2>2. \A t \in Server : \A mu \in ToSet(channel'[t]) : mu \in ToSet(channel[t])
    BY <1>5, <2>1
  <2> QED  BY <1>1, <2>2, ChannelGrows
<1>7. Addressed'
  <2>1. PICK m \in Msg, u \in User :
           m = Head(channel[s])[1] /\ u = Head(channel[s])[2] /\ MayGet(m, u)
    BY <1>5 DEF ChannelOK
  <2>2. inbox' = inbox \/ Deliver(Head(channel[s])[2], Head(channel[s])[1])
    BY DEF RedisMessage
  <2>3. inbox' = inbox \/ Deliver(u, m)
    BY <2>1, <2>2
  <2>4. UNCHANGED offlineMessage
    BY DEF RedisMessage
  <2> QED  BY <1>1, <2>1, <2>3, <2>4, InboxMoves
<1> QED  BY <1>2, <1>3, <1>6, <1>7

-----------------------------------------------------------------------------
\* The inductive invariant

LEMMA ChatStarts == ChatInit => ChatInv
<1> SUFFICES ASSUME ChatInit PROVE ChatInv
  OBVIOUS
<1>1. TypeOK
  BY TypeInit DEF ChatInit
<1>2. <<>> \in Seq(Msg) /\ <<>> \in Seq(Msg \X User) /\ ToSet(<<>>) = {}
  BY DEF ToSet
<1>3. ChatTypeOK
  BY <1>2 DEF ChatInit, ChatTypeOK
<1>4. HandlerOK
  BY DEF ChatInit, Init, HandlerOK, RequestOK, OtherPc
<1>5. CacheOK
  BY DEF ChatInit, Init, StoreInit, CacheOK
<1>6. ChannelOK /\ Addressed
  BY <1>2 DEF ChatInit, ChannelOK, Addressed
<1> QED  BY <1>1, <1>3, <1>4, <1>5, <1>6 DEF ChatInv

LEMMA ChatInductive == ChatInv /\ [ChatNext]_allVars => ChatInv'
<1> SUFFICES ASSUME ChatInv, [ChatNext]_allVars PROVE ChatInv'
  OBVIOUS
<1>1. TypeOK'
  BY ChatStepsRefine, TypeStep DEF ChatInv
<1>2. ASSUME NEW c \in Conn, ChatRequest(c) \/ ChatStep(c) PROVE ChatInv'
  <2>1. ChatTypeOK'
    BY <1>2, TypeChat DEF ChatNext
  <2>2. HandlerOK'
    BY <1>2, RequestStarts, RequestMoves, HandlerByOne DEF ChatInv
  <2> QED  BY <1>1, <1>2, <2>1, <2>2, CacheMoves, ChannelMoves, AddressedMoves DEF ChatInv
<1>3. CASE SessionStep /\ Follow
  <2>1. ChatTypeOK'
    BY <1>3, TypeChat DEF ChatNext
  <2> QED  BY <1>1, <1>3, <2>1, SessionMoves DEF ChatInv
<1>4. ASSUME NEW s \in Server, RedisMessage(s) PROVE ChatInv'
  <2>1. ChatTypeOK'
    BY <1>4, TypeChat DEF ChatNext
  <2> QED  BY <1>1, <1>4, <2>1, ListenerMoves DEF ChatInv
<1>5. CASE UNCHANGED allVars
  <2> USE DEF ChatInv, allVars, vars, storeVars, connVars, procVars, chatVars, handlerVars, historyVars
  <2>1. ChatTypeOK'
    BY <1>5 DEF ChatTypeOK
  <2>2. HandlerOK'
    BY <1>5 DEF HandlerOK, RequestOK, MayGet
  <2>3. CacheOK' /\ ChannelOK' /\ Addressed'
    BY <1>5 DEF CacheOK, ChannelOK, Addressed, MayGet
  <2> QED  BY <1>1, <2>1, <2>2, <2>3
<1> QED  BY <1>2, <1>3, <1>4, <1>5 DEF ChatNext

-----------------------------------------------------------------------------
\* Messages the handlers are done with

LEMMA DeliverKeeps ==
  ASSUME ChatTypeOK, NEW v \in User, NEW m \in Msg, Deliver(v, m)
  PROVE  /\ m \in ToSet(inbox'[v])
         /\ \A u \in User : ToSet(inbox[u]) \subseteq ToSet(inbox'[u])
<1>1. /\ inbox[v] \in Seq(Msg)
      /\ inbox'[v] = Append(inbox[v], m)
      /\ \A u \in User : u # v => inbox'[u] = inbox[u]
  BY DEF Deliver, ChatTypeOK
<1>2. ToSet(inbox'[v]) = ToSet(inbox[v]) \cup {m}
  BY <1>1, AppendSet
<1> QED  BY <1>1, <1>2

\* insertOfflineMsg stores the copy, or MySQL loses it.
LEMMA InsertKeeps ==
  ASSUME ChatInv, NEW c \in Conn, InsertOfflineMsg(c)
  PROVE  /\ Kept(text[c], peer[c])'
         /\ \A m \in Msg, u \in User : Kept(m, u) => Kept(m, u)'
<1>1. text[c] \in Msg /\ peer[c] \in User
  BY DEF InsertOfflineMsg, Step, ChatInv, HandlerOK, RequestOK
<1>2. UNCHANGED <<inbox, text, peer>>
  BY DEF InsertOfflineMsg
<1>3. CASE offlineMessage' = [offlineMessage EXCEPT ![peer[c]] = @ \cup {text[c]}] /\ UNCHANGED lost
  <2>1. offlineMessage \in [User -> SUBSET Msg]
    BY DEF ChatInv, TypeOK, StoreTypeOK
  <2>2. /\ text[c] \in offlineMessage'[peer[c]]
        /\ \A u \in User : offlineMessage[u] \subseteq offlineMessage'[u]
    BY <1>1, <1>3, <2>1
  <2> QED  BY <1>1, <1>2, <1>3, <2>2 DEF Kept
<1>4. CASE UNCHANGED offlineMessage /\ lost' = lost \cup {<<text[c], peer[c]>>}
  BY <1>1, <1>2, <1>4 DEF Kept
<1> QED  BY <1>3, <1>4 DEF InsertOfflineMsg

\* What is kept stays kept.
LEMMA KeptMoves ==
  ASSUME ChatInv, [ChatNext]_allVars, NEW m \in Msg, NEW u \in User, Kept(m, u)
  PROVE  Kept(m, u)'
<1> USE DEF ChatInv, vars, storeVars, mysqlVars, redisVars, connVars, handlerVars, historyVars
<1>1. ASSUME UNCHANGED <<offlineMessage, inbox, lost>> PROVE Kept(m, u)'
  BY <1>1 DEF Kept
<1>2. CASE SessionStep /\ Follow
  BY <1>2 DEF Follow, Kept
<1>3. ASSUME NEW c \in Conn, ChatRequest(c) PROVE Kept(m, u)'
  BY <1>1, <1>3 DEF ChatRequest, OneChat, GroupChat, AddGroup, OtherRequest
<1>4. ASSUME NEW c \in Conn, OneChatLocal(c) PROVE Kept(m, u)'
  <2>1. text[c] \in Msg /\ peer[c] \in User
    BY <1>4 DEF OneChatLocal, Step, HandlerOK, RequestOK
  <2>2. Deliver(peer[c], text[c]) /\ UNCHANGED <<offlineMessage, lost>>
    BY <1>4 DEF OneChatLocal
  <2>3. ToSet(inbox[u]) \subseteq ToSet(inbox'[u])
    BY <2>1, <2>2, DeliverKeeps
  <2> QED  BY <2>2, <2>3 DEF Kept
<1>5. ASSUME NEW c \in Conn,
             OneChatRemote(c) \/ Hget(c) \/ Publish(c) \/ Smembers(c) \/ QueryNumber(c)
             \/ GroupLock(c) \/ GroupUnlock(c) \/ (\E g \in Group : Join(c, g)) \/ Return(c)
      PROVE  Kept(m, u)'
  BY <1>1, <1>5 DEF OneChatRemote, Hget, Publish, Smembers, QueryNumber, GroupLock, OtherLock,
                    GroupUnlock, OtherUnlock, Join, Return, OtherDone
<1>6. ASSUME NEW c \in Conn, InsertOfflineMsg(c) PROVE Kept(m, u)'
  BY <1>6, InsertKeeps
<1>7. ASSUME NEW c \in Conn, NEW v \in User, Each(c, v) PROVE Kept(m, u)'
  <2>1. PICK x \in Msg : x = text[c]
    BY <1>7 DEF Each, HandlerOK, RequestOK
  <2>2. /\ Deliver(v, x) \/ UNCHANGED inbox
        /\ UNCHANGED <<offlineMessage, lost>>
    BY <1>7, <2>1 DEF Each
  <2> QED  BY <1>1, <2>2, DeliverKeeps DEF Kept
<1>8. ASSUME NEW s \in Server, RedisMessage(s) PROVE Kept(m, u)'
  <2>1. PICK x \in Msg, v \in User : x = Head(channel[s])[1] /\ v = Head(channel[s])[2]
    BY <1>8, TailSet DEF RedisMessage, ChatTypeOK
  <2>2. inbox' = inbox \/ Deliver(Head(channel[s])[2], Head(channel[s])[1])
    BY <1>8 DEF RedisMessage
  <2>3. inbox' = inbox \/ Deliver(v, x)
    BY <2>1, <2>2
  <2>4. UNCHANGED <<offlineMessage, lost>>
    BY <1>8 DEF RedisMessage
  <2> QED  BY <1>1, <2>3, <2>4, DeliverKeeps DEF Kept
<1>9. CASE UNCHANGED allVars
  BY <1>1, <1>9 DEF allVars, chatVars
<1> QED  BY <1>2, <1>3, <1>4, <1>5, <1>6, <1>7, <1>8, <1>9 DEF ChatNext, ChatStep

\* The copy of m for u is kept, or was handed to Redis: this is for ever, as a channel
\* hands it to an inbox or loses it where dropped records it.
Accounted(m, u) == Kept(m, u) \/ Published(m, u)

LEMMA PublishAccounts ==
  ASSUME ChatInv, NEW c \in Conn, Publish(c)
  PROVE  /\ dropped \subseteq dropped'
         /\ \A s \in Server : ToSet(channel[s]) \subseteq ToSet(channel'[s])
         /\ Published(text[c], peer[c])'
<1>1. PICK s \in Server : s = via[c]
  BY DEF Publish, Step, ChatInv, HandlerOK, RequestOK
<1>2. text[c] \in Msg /\ peer[c] \in User
  BY DEF Publish, Step, ChatInv, HandlerOK, RequestOK
<1> DEFINE x == <<text[c], peer[c]>>
<1>3. x \in Msg \X User /\ <<text'[c], peer'[c]>> = x
  BY <1>2 DEF Publish
<1>4. CASE channel' = [channel EXCEPT ![via[c]] = Append(@, x)] /\ UNCHANGED dropped
  <2>1. /\ channel[s] \in Seq(Msg \X User)
        /\ channel'[s] = Append(channel[s], x)
        /\ \A t \in Server : t # s => channel'[t] = channel[t]
    BY <1>1, <1>4 DEF ChatInv, ChatTypeOK
  <2> HIDE DEF x
  <2>2. ToSet(channel'[s]) = ToSet(channel[s]) \cup {x}
    BY <1>3, <2>1, AppendSet
  <2> QED  BY <1>3, <1>4, <2>1, <2>2 DEF Published
<1>5. CASE dropped' = dropped \cup {x} /\ UNCHANGED channel
  <2> HIDE DEF x
  <2> QED  BY <1>3, <1>5 DEF Published
<1> QED  BY <1>4, <1>5 DEF Publish

\* redisMessageHandler sends the copy it takes, or finds no entry.
LEMMA MessageAccounts ==
  ASSUME ChatInv, NEW s \in Server, RedisMessage(s),
         NEW m \in Msg, NEW u \in User, Published(m, u)
  PROVE  Kept(m, u)' \/ Published(m, u)'
<1> DEFINE x == Head(channel[s])
<1>1. /\ channel[s] \in Seq(Msg \X User) /\ channel[s] # <<>>
      /\ channel'[s] = Tail(channel[s])
      /\ \A t \in Server : t # s => channel'[t] = channel[t]
  BY DEF RedisMessage, ChatInv, ChatTypeOK
<1>2. x \in Msg \X User /\ ToSet(channel[s]) \subseteq ToSet(channel'[s]) \cup {x}
  BY <1>1, TailSet
<1>3. CASE <<m, u>> = x
  <2>1. x[1] = m /\ x[2] = u
    BY <1>3
  <2>2. Deliver(u, m) \/ dropped' = dropped \cup {<<m, u>>}
    BY <2>1 DEF RedisMessage
  <2>3. Deliver(u, m) => m \in ToSet(inbox'[u])
    BY DeliverKeeps DEF ChatInv
  <2> QED  BY <2>2, <2>3 DEF Kept, Published
<1>4. CASE <<m, u>> # x
  <2>1. dropped \subseteq dropped'
    BY DEF RedisMessage
  <2> HIDE DEF x
  <2>2. \A t \in Server : <<m, u>> \in ToSet(channel[t]) => <<m, u>> \in ToSet(channel'[t])
    BY <1>1, <1>2, <1>4
  <2> QED  BY <2>1, <2>2 DEF Published
<1> QED  BY <1>3, <1>4

LEMMA AccountedMoves ==
  ASSUME ChatInv, [ChatNext]_allVars, NEW m \in Msg, NEW u \in User, Accounted(m, u)
  PROVE  Accounted(m, u)'
<1> USE DEF ChatInv, vars, handlerVars, historyVars
<1>1. Kept(m, u) => Kept(m, u)'
  BY KeptMoves
<1>2. ASSUME UNCHANGED <<channel, dropped>> PROVE Accounted(m, u)'
  BY <1>1, <1>2 DEF Accounted, Published
<1>3. ASSUME dropped \subseteq dropped',
             \A s \in Server : <<m, u>> \in ToSet(channel[s]) =>
                <<m, u>> \in ToSet(channel'[s]) \/ Accounted(m, u)'
      PROVE  Accounted(m, u)'
  BY <1>1, <1>3 DEF Accounted, Published
<1>4. CASE SessionStep /\ Follow
  <2>1. \A s \in Server : IF proc'[s] = "down" THEN ToSet(channel[s]) \subseteq dropped'
                                               ELSE channel'[s] = channel[s]
    BY <1>4 DEF Follow
  <2>2. dropped \subseteq dropped'
    BY <1>4 DEF Follow
  <2> QED  BY <1>3, <2>1, <2>2 DEF Accounted, Published
<1>5. ASSUME NEW c \in Conn, ChatRequest(c) PROVE Accounted(m, u)'
  BY <1>2, <1>5 DEF ChatRequest, OneChat, GroupChat, AddGroup
<1>6. ASSUME NEW c \in Conn,
             OneChatLocal(c) \/ OneChatRemote(c) \/ Hget(c) \/ InsertOfflineMsg(c) \/ Smembers(c)
             \/ QueryNumber(c) \/ GroupLock(c) \/ (\E v \in User : Each(c, v)) \/ GroupUnlock(c)
             \/ (\E g \in Group : Join(c, g)) \/ Return(c)
      PROVE  Accounted(m, u)'
  BY <1>2, <1>6 DEF OneChatLocal, OneChatRemote, Hget, InsertOfflineMsg, Smembers, QueryNumber,
                    GroupLock, Each, GroupUnlock, Join, Return
<1>7. ASSUME NEW c \in Conn, Publish(c) PROVE Accounted(m, u)'
  <2>1. /\ dropped \subseteq dropped'
        /\ \A s \in Server : ToSet(channel[s]) \subseteq ToSet(channel'[s])
    BY <1>7, PublishAccounts
  <2> QED  BY <1>3, <2>1
<1>8. ASSUME NEW s \in Server, RedisMessage(s) PROVE Accounted(m, u)'
  BY <1>1, <1>8, MessageAccounts DEF Accounted
<1>9. CASE UNCHANGED allVars
  BY <1>2, <1>9 DEF allVars, chatVars
<1> QED  BY <1>4, <1>5, <1>6, <1>7, <1>8, <1>9 DEF ChatNext, ChatStep

\* The loop of groupChat stands for everybody on the list: who is not ahead of it and is
\* not the member it is with now is the sender, or the copy is accounted for.
LoopOK(c) ==
    /\ step[c] = "lock" => rest[c] = members[c]
    /\ pc[c] = "other_locked" =>
           \A v \in members[c] \ {session[c]} :
               v \in rest[c] \/ (v = peer[c] /\ step[c] # "each") \/ Accounted(text[c], v)

KeptInv == MessageKept /\ \A c \in Conn : LoopOK(c)

LEMMA KeptStarts == ChatInit => KeptInv
  BY DEF ChatInit, Init, KeptInv, MessageKept, LoopOK

\* The step of one handler leaves the loop of any other where it is.
LEMMA LoopKept ==
  ASSUME ChatInv, [ChatNext]_allVars, NEW d \in Conn, LoopOK(d),
         pc'[d] = pc[d], session'[d] = session[d],
         step'[d] = step[d], text'[d] = text[d], peer'[d] = peer[d],
         members'[d] = members[d], rest'[d] = rest[d]
  PROVE  LoopOK(d)'
<1>1. members[d] \subseteq User
  BY DEF ChatInv, ChatTypeOK
<1>2. pc[d] = "other_locked" => text[d] \in Msg
  BY DEF ChatInv, HandlerOK, RequestOK
<1>3. \A v \in members[d] :
         pc[d] = "other_locked" /\ Accounted(text[d], v) => Accounted(text[d], v)'
  BY <1>1, <1>2, AccountedMoves
<1>4. ASSUME pc[d] = "other_locked", NEW v \in members[d] \ {session[d]}
      PROVE  v \in rest[d] \/ (v = peer[d] /\ step[d] # "each") \/ Accounted(text[d], v)'
  BY <1>3, <1>4 DEF LoopOK
<1> QED  BY <1>4 DEF LoopOK

LEMMA LoopRequest ==
  ASSUME ChatInv, NEW c \in Conn, ChatRequest(c) PROVE LoopOK(c)'
<1>1. pc'[c] = "other" /\ step'[c] \in {"local", "members", "join"}
  BY DEF ChatRequest, OneChat, GroupChat, AddGroup, OtherRequest, Receives, Goto, Step,
         ChatInv, TypeOK, ChatTypeOK
<1> QED  BY <1>1 DEF LoopOK

\* Outside of the loop there is nothing to account for ...
LEMMA LoopAway ==
  ASSUME ChatInv, NEW c \in Conn, ChatStep(c), pc'[c] # "other_locked" PROVE LoopOK(c)'
<1> USE DEF ChatInv, ChatTypeOK, Step
<1>1. CASE Smembers(c) \/ QueryNumber(c)
  <2>1. rest'[c] = members'[c]
    BY <1>1 DEF Smembers, QueryNumber
  <2> QED  BY <2>1 DEF LoopOK
<1>2. CASE OneChatLocal(c) \/ OneChatRemote(c) \/ Hget(c) \/ Publish(c) \/ InsertOfflineMsg(c)
             \/ GroupLock(c) \/ (\E v \in User : Each(c, v)) \/ GroupUnlock(c)
             \/ (\E g \in Group : Join(c, g)) \/ Return(c)
  <2>1. step'[c] # "lock"
    BY <1>2 DEF OneChatLocal, OneChatRemote, Hget, Publish, InsertOfflineMsg, GroupLock, Each,
                GroupUnlock, Join, Return
  <2> QED  BY <2>1 DEF LoopOK
<1> QED  BY <1>1, <1>2 DEF ChatStep

\* ... and in it every member it leaves behind has been sent the message, or has a row,
\* or was published to.
LEMMA LoopTurns ==
  ASSUME ChatInv, NEW c \in Conn, LoopOK(c), ChatStep(c), pc'[c] = "other_locked"
  PROVE  LoopOK(c)'
<1> USE DEF ChatInv, vars, connVars, historyVars, Step
<1>1. RequestOK(c) /\ members[c] \subseteq User
  BY DEF HandlerOK, ChatTypeOK
<1>2. ASSUME pc[c] = "other_locked", step'[c] # "lock",
             UNCHANGED <<session, text>>, members'[c] = members[c],
             \A v \in members[c] \ {session[c]} :
                v \in rest[c] \/ (v = peer[c] /\ step[c] # "each") =>
                \/ v \in rest'[c]
                \/ v = peer'[c] /\ step'[c] # "each"
                \/ Accounted(text[c], v)'
      PROVE  LoopOK(c)'
  <2>1. \A v \in members[c] : Accounted(text[c], v) => Accounted(text[c], v)'
    <3>1. text[c] \in Msg /\ text'[c] = text[c]
      BY <1>1, <1>2 DEF RequestOK
    <3>2. [ChatNext]_allVars
      BY DEF ChatNext
    <3> QED  BY <1>1, <3>1, <3>2, AccountedMoves
  <2>2. \A v \in members[c] \ {session[c]} :
           v \in rest[c] \/ (v = peer[c] /\ step[c] # "each") \/ Accounted(text[c], v)
    BY <1>2 DEF LoopOK
  <2>3. \A v \in members[c] \ {session[c]} :
           v \in rest'[c] \/ (v = peer'[c] /\ step'[c] # "each") \/ Accounted(text[c], v)'
    BY <1>2, <2>1, <2>2
  <2> QED  BY <1>2, <2>3 DEF LoopOK, Accounted, Kept, Published
<1>3. CASE GroupLock(c)
  <2>1. step'[c] = "each" /\ rest'[c] = members'[c]
    BY <1>3 DEF GroupLock, LoopOK, ChatTypeOK
  <2> QED  BY <2>1 DEF LoopOK
<1>4. CASE Hget(c)
  <2>1. /\ step[c] = "hget" /\ step'[c] \in {"store", "publish"}
        /\ UNCHANGED <<pc, session, text, peer, members, rest>>
    BY <1>4 DEF Hget, ChatTypeOK
  <2> QED  BY <1>2, <2>1
<1>5. CASE Publish(c)
  <2>1. /\ step'[c] # "lock" /\ UNCHANGED <<pc, session, text, peer, members, rest>>
        /\ Published(text[c], peer[c])'
    BY <1>5, PublishAccounts DEF Publish, ChatTypeOK
  <2> QED  BY <1>2, <2>1 DEF Accounted, Published
<1>6. CASE InsertOfflineMsg(c)
  <2>1. /\ step'[c] # "lock" /\ UNCHANGED <<pc, session, text, peer, members, rest>>
        /\ Kept(text[c], peer[c])'
    BY <1>6, InsertKeeps DEF InsertOfflineMsg, ChatTypeOK
  <2> QED  BY <1>2, <2>1 DEF Accounted, Kept
<1>7. ASSUME NEW v \in User, Each(c, v) PROVE LoopOK(c)'
  <2>1. /\ step[c] = "each" /\ rest'[c] = rest[c] \ {v}
        /\ UNCHANGED <<pc, session, text, members>>
    BY <1>7 DEF Each, ChatTypeOK
  <2>2. CASE v = session[c] /\ UNCHANGED <<step, peer>>
    BY <1>2, <2>1, <2>2
  <2>3. CASE Deliver(v, text[c]) /\ UNCHANGED <<step, peer>>
    <3>1. text[c] \in Msg
      BY <1>1, <2>1 DEF RequestOK
    <3>2. Accounted(text[c], v)'
      BY <2>1, <2>3, <3>1, DeliverKeeps DEF Accounted, Kept
    <3>3. \A w \in members[c] \ {session[c]} :
             w \in rest[c] => w \in rest'[c] \/ Accounted(text[c], w)'
      BY <2>1, <3>2
    <3> QED  BY <1>2, <2>1, <2>3, <3>3
  <2>4. CASE peer' = [peer EXCEPT ![c] = v] /\ step' = [step EXCEPT ![c] = "hget"]
    <3>1. peer'[c] = v /\ step'[c] = "hget"
      BY <2>4 DEF ChatTypeOK
    <3> QED  BY <1>2, <2>1, <3>1
  <2> QED  BY <1>7, <2>2, <2>3, <2>4 DEF Each
<1>8. CASE OneChatLocal(c) \/ OneChatRemote(c) \/ Smembers(c) \/ QueryNumber(c)
             \/ \E g \in Group : Join(c, g)
  BY <1>1, <1>8 DEF OneChatLocal, OneChatRemote, Smembers, QueryNumber, Join, RequestOK
<1>9. CASE GroupUnlock(c) \/ Return(c)
  BY <1>9 DEF GroupUnlock, OtherUnlock, Return, OtherDone, Goto, TypeOK
<1> QED  BY <1>3, <1>4, <1>5, <1>6, <1>7, <1>8, <1>9 DEF ChatStep

\* A step of Session ends the loop or leaves it alone.
LEMMA LoopSession ==
  ASSUME ChatInv, SessionStep, Follow, NEW c \in Conn, LoopOK(c) PROVE LoopOK(c)'
<1>1. RequestFrame /\ RequestOK(c)
  BY SessionFrame DEF ChatInv, HandlerOK
<1>2. CASE pc'[c] = "free"
  BY <1>2 DEF Follow, LoopOK
<1>3. CASE pc'[c] # "free"
  <2>1. /\ step'[c] = step[c] /\ text'[c] = text[c] /\ peer'[c] = peer[c]
        /\ members'[c] = members[c] /\ rest'[c] = rest[c]
    BY <1>3 DEF Follow
  <2>2. CASE pc[c] \in OtherPc
    <3>1. pc'[c] = pc[c] /\ session'[c] = session[c]
      BY <1>1, <1>3, <2>2 DEF RequestFrame
    <3> QED  BY <2>1, <3>1, LoopKept DEF ChatNext
  <2>3. CASE pc[c] \notin OtherPc
    <3>1. pc'[c] \notin OtherPc /\ step'[c] = "none"
      BY <1>1, <1>3, <2>1, <2>3 DEF RequestFrame, RequestOK
    <3> QED  BY <3>1 DEF LoopOK, OtherPc
  <2> QED  BY <2>2, <2>3
<1> QED  BY <1>2, <1>3

\* A handler that is done with a message has kept it, or is at the end of the loop.
LEMMA AcceptedIsKept ==
  ASSUME ChatInv, NEW c \in Conn, LoopOK(c), ChatStep(c),
         NEW m \in Msg, NEW u \in User, <<m, u>> \in accepted' \ accepted
  PROVE  Kept(m, u)' \/ (target[m] \in Group /\ Accounted(m, u))
<1>1. RequestOK(c)
  BY DEF ChatInv, HandlerOK
<1>2. CASE OneChatLocal(c)
  <2>1. /\ text[c] = m /\ peer[c] = u /\ Deliver(u, m)
    BY <1>2 DEF OneChatLocal
  <2> QED  BY <2>1, DeliverKeeps DEF Kept, ChatInv
<1>3. CASE InsertOfflineMsg(c)
  <2>1. text[c] = m /\ peer[c] = u /\ UNCHANGED <<text, peer>>
    BY <1>3 DEF InsertOfflineMsg
  <2> QED  BY <1>3, <2>1, InsertKeeps DEF Kept
<1>4. CASE GroupUnlock(c)
  <2>1. text[c] = m /\ u \in members[c] \ {session[c]} /\ rest[c] = {} /\ step[c] = "each"
    BY <1>4 DEF GroupUnlock, Step
  <2>2. pc[c] = "other_locked" /\ target[m] \in Group
    BY <1>1, <2>1 DEF RequestOK
  <2> QED  BY <2>1, <2>2 DEF LoopOK
<1>5. CASE OneChatRemote(c) \/ Hget(c) \/ Publish(c) \/ Smembers(c) \/ QueryNumber(c)
             \/ GroupLock(c) \/ (\E v \in User : Each(c, v)) \/ (\E g \in Group : Join(c, g))
             \/ Return(c)
  BY <1>5 DEF OneChatRemote, Hget, Publish, Smembers, QueryNumber, GroupLock, Each, Join, Return,
              historyVars
<1> QED  BY <1>2, <1>3, <1>4, <1>5 DEF ChatStep

LEMMA MessageKeptMoves ==
  ASSUME ChatInv, KeptInv, [ChatNext]_allVars PROVE MessageKept'
<1> USE DEF vars, handlerVars, historyVars
<1>1. \A m \in Msg : target[m] \in Group => target'[m] \in Group
  <2>1. \A m \in Msg : target[m] # NoTarget => target'[m] = target[m]
    <3>1. CASE \E c \in Conn : ChatRequest(c) \/ ChatStep(c)
      BY <3>1, RequestStarts, RequestMoves DEF Grows
    <3>2. CASE SessionStep /\ Follow
      BY <3>2 DEF Follow
    <3>3. CASE \E s \in Server : RedisMessage(s)
      BY <3>3 DEF RedisMessage
    <3>4. CASE UNCHANGED allVars
      BY <3>4 DEF allVars, chatVars
    <3> QED  BY <3>1, <3>2, <3>3, <3>4 DEF ChatNext
  <2> QED  BY <2>1
<1>2. \A m \in Msg, u \in User : Accounted(m, u) => Accounted(m, u)'
  BY AccountedMoves
<1>3. \A m \in Msg, u \in User : Kept(m, u) => Kept(m, u)'
  BY KeptMoves
<1>4. ASSUME NEW m \in Msg, NEW u \in User, <<m, u>> \in accepted' \ accepted
      PROVE  Kept(m, u)' \/ (target[m] \in Group /\ Accounted(m, u))
  <2>1. CASE \E c \in Conn : ChatStep(c)
    BY <1>4, <2>1, AcceptedIsKept DEF KeptInv
  <2>2. CASE \E c \in Conn : ChatRequest(c)
    BY <1>4, <2>2 DEF ChatRequest, OneChat, GroupChat, AddGroup
  <2>3. CASE SessionStep /\ Follow
    BY <1>4, <2>3 DEF Follow
  <2>4. CASE \E s \in Server : RedisMessage(s)
    BY <1>4, <2>4 DEF RedisMessage
  <2>5. CASE UNCHANGED allVars
    BY <1>4, <2>5 DEF allVars, chatVars
  <2> QED  BY <2>1, <2>2, <2>3, <2>4, <2>5 DEF ChatNext
<1>5. ASSUME NEW m \in Msg, NEW u \in User, <<m, u>> \in accepted'
      PROVE  Kept(m, u)' \/ (target'[m] \in Group /\ Published(m, u)')
  <2>1. \/ Kept(m, u) \/ Kept(m, u)'
        \/ target[m] \in Group /\ Accounted(m, u)
    BY <1>4, <1>5 DEF KeptInv, MessageKept, Accounted
  <2>2. CASE target[m] \in Group /\ Accounted(m, u)
    BY <1>1, <1>2, <2>2 DEF Accounted
  <2> QED  BY <1>3, <2>1, <2>2
<1> QED  BY <1>5 DEF MessageKept

LEMMA KeptInductive == ChatInv /\ KeptInv /\ [ChatNext]_allVars => KeptInv'
<1> SUFFICES ASSUME ChatInv, KeptInv, [ChatNext]_allVars PROVE KeptInv'
  OBVIOUS
<1>1. \A d \in Conn : LoopOK(d)
  BY DEF KeptInv
<1>2. ASSUME NEW c \in Conn, ChatRequest(c) \/ ChatStep(c), NEW d \in Conn PROVE LoopOK(d)'
  <2>1. CASE d = c
    BY <1>1, <1>2, <2>1, LoopRequest, LoopAway, LoopTurns
  <2>2. CASE d # c
    <3>1. OnlyOf(c)
      BY <1>2, RequestStarts, RequestMoves
    <3> QED  BY <1>1, <2>2, <3>1, LoopKept DEF OnlyOf
  <2> QED  BY <2>1, <2>2
<1>3. CASE SessionStep /\ Follow
  BY <1>1, <1>3, LoopSession, MessageKeptMoves DEF KeptInv
<1>4. ASSUME (\E s \in Server : RedisMessage(s)) \/ UNCHANGED allVars, NEW d \in Conn
      PROVE  LoopOK(d)'
  <2>1. UNCHANGED <<pc, session, step, text, peer, members, rest>>
    BY <1>4 DEF RedisMessage, allVars, chatVars, handlerVars, vars, connVars
  <2> QED  BY <1>1, <2>1, LoopKept
<1> QED  BY <1>2, <1>3, <1>4, MessageKeptMoves DEF KeptInv, ChatNext

-----------------------------------------------------------------------------
\* The theorems

\* The requests in flight, the group cache and the channels name for every message only
\* users it is for, at every interleaving with logins, closes and failures.
THEOREM ChatInvariant == ChatSpec => []ChatInv
  BY ChatStarts, ChatInductive, PTL DEF ChatSpec

\* Whatever is sent over a connection or stored for a user was written to
\* that user or to a group the user is in.
THEOREM OnlyAddressees == ChatSpec => []Addressed
<1>1. ChatInv => Addressed
  BY DEF ChatInv
<1> QED  BY <1>1, ChatInvariant, PTL

\* oneChat, groupChat and addGroup, command by command, implement the abstract
\* requests of Session.
THEOREM ChatRefinesSession == ChatSpec => SessionSpec
<1>1. ChatInit => Init
  BY DEF ChatInit
<1>2. ChatInv /\ [ChatNext]_allVars => [Next]_vars
  BY ChatStepsRefine
<1> QED  BY <1>1, <1>2, ChatInvariant, PTL DEF ChatSpec, SessionSpec, Spec

\* oneChat and groupChat, which send through userConnMap_ without any look at the
\* connection, find only connections with a key that are inside a session of the user.
THEOREM SendersFindSessions == ChatSpec => []EntryOwned
  BY ChatRefinesSession, EntriesAreOwned, PTL DEF SessionSpec

\* A handler is done only with messages that are kept, groupChat with some that were
\* published at least: the loop passes over nobody on the list it has read.
THEOREM MessagesAreKept == ChatSpec => []MessageKept
<1>1. KeptInv => MessageKept
  BY DEF KeptInv
<1> QED  BY <1>1, KeptStarts, KeptInductive, ChatInvariant, PTL DEF ChatSpec

-----------------------------------------------------------------------------
\* No user is sent a message twice.  Until it is sent, the copy of a message for a user is
\* at one place only: ahead of the handler that brings it, or once in one channel; and
\* one handler works on a message.

LEMMA InjectiveAppend ==
  ASSUME NEW S, NEW q \in Seq(S), NEW x \in S, IsInjective(q), x \notin ToSet(q)
  PROVE  IsInjective(Append(q, x))
<1>1. /\ \A i \in 1..Len(q) : Append(q, x)[i] = q[i]
      /\ Append(q, x)[Len(q) + 1] = x
      /\ DOMAIN Append(q, x) = (1..Len(q)) \cup {Len(q) + 1}
      /\ DOMAIN q = 1..Len(q)
  OBVIOUS
<1>2. \A i \in 1..Len(q) : q[i] # x
  BY <1>1 DEF ToSet
<1> QED  BY <1>1, <1>2 DEF IsInjective

LEMMA InjectiveTail ==
  ASSUME NEW S, NEW q \in Seq(S), q # <<>>, IsInjective(q)
  PROVE  IsInjective(Tail(q)) /\ Head(q) \notin ToSet(Tail(q))
<1>1. /\ Len(q) \in Nat \ {0}
      /\ Len(Tail(q)) = Len(q) - 1
      /\ \A i \in 1..(Len(q) - 1) : Tail(q)[i] = q[i + 1]
      /\ Head(q) = q[1]
      /\ DOMAIN q = 1..Len(q)
      /\ DOMAIN Tail(q) = 1..(Len(q) - 1)
  OBVIOUS
<1>2. \A i, j \in 1..Len(q) : q[i] = q[j] => i = j
  BY <1>1 DEF IsInjective
<1>3. \A i, j \in 1..(Len(q) - 1) : q[i + 1] = q[j + 1] => i = j
  BY <1>1, <1>2
<1>4. \A i \in 1..(Len(q) - 1) : q[i + 1] # q[1]
  BY <1>1, <1>2
<1> QED  BY <1>1, <1>3, <1>4 DEF IsInjective, ToSet

-----------------------------------------------------------------------------
\* The inductive invariant

\* Message m has not been sent to u, and is not on its way to u in a channel.
Unsent(m, u) ==
    /\ m \notin ToSet(inbox[u])
    /\ \A s \in Server : <<m, u>> \notin ToSet(channel[s])

\* The handler of c may still send its message to u.
Ahead(c, u) ==
    /\ text[c] \in Msg
    /\ \/ step[c] \in {"members", "query"}
       \/ step[c] \in {"local", "hget", "publish"} /\ peer[c] = u
       \/ u \in rest[c]

ChannelsOnce ==
    /\ \A s \in Server : IsInjective(channel[s])
    /\ \A s, t \in Server : s # t => ToSet(channel[s]) \cap ToSet(channel[t]) = {}

HandlersOnce ==
    /\ \A c, d \in Conn : text[c] \in Msg /\ text[c] = text[d] => c = d
    /\ \A c \in Conn : step[c] \in {"hget", "publish"} => peer[c] \notin rest[c]

OnceInv ==
    /\ AtMostOnce
    /\ ChannelsOnce
    /\ HandlersOnce
    /\ \A s \in Server, m \in Msg, u \in User :
          <<m, u>> \in ToSet(channel[s]) => m \notin ToSet(inbox[u])
    /\ \A c \in Conn, u \in User : Ahead(c, u) => Unsent(text[c], u)
    /\ \A m \in Msg : target[m] = NoTarget =>
          (\A c \in Conn : text[c] # m) /\ \A u \in User : Unsent(m, u)

LEMMA OnceStarts == ChatInit => OnceInv
<1> SUFFICES ASSUME ChatInit PROVE OnceInv
  OBVIOUS
<1>1. (\A s \in Server : ToSet(channel[s]) = {}) /\ \A u \in User : ToSet(inbox[u]) = {}
  BY DEF ChatInit, ToSet
<1>2. AtMostOnce /\ \A s \in Server : IsInjective(channel[s])
  BY DEF ChatInit, AtMostOnce, IsInjective
<1> QED  BY <1>1, <1>2 DEF ChatInit, OnceInv, ChannelsOnce, HandlersOnce, Ahead, Unsent

\* A step that sends nothing: what is ahead of a handler was ahead of it before.
LEMMA NothingSent ==
  ASSUME OnceInv, UNCHANGED <<inbox, target>>,
         \A s \in Server : channel'[s] = channel[s] \/ channel'[s] = <<>>,
         \A c \in Conn : text'[c] = text[c] \/ text'[c] = NoMsg,
         \A c \in Conn, u \in User : Ahead(c, u)' => Ahead(c, u),
         \A c \in Conn : step'[c] \in {"hget", "publish"} => peer'[c] \notin rest'[c]
  PROVE  OnceInv'
<1>1. \A s \in Server : ToSet(channel'[s]) \subseteq ToSet(channel[s])
  BY DEF ToSet
<1>2. ChannelsOnce'
  <2>1. \A s \in Server : IsInjective(channel[s]) => IsInjective(channel'[s])
    BY DEF IsInjective
  <2> QED  BY <1>1, <2>1 DEF OnceInv, ChannelsOnce
<1>3. HandlersOnce'
  BY DEF OnceInv, HandlersOnce
<1>4. \A m \in Msg, u \in User : Unsent(m, u) => Unsent(m, u)'
  BY <1>1 DEF Unsent
<1>5. \A c \in Conn, u \in User : Ahead(c, u)' => Unsent(text[c], u)' /\ text'[c] = text[c]
  BY <1>4 DEF OnceInv, Ahead
<1> QED  BY <1>1, <1>2, <1>3, <1>4, <1>5 DEF OnceInv, AtMostOnce

\* Message m is sent to u: neither a handler nor a channel has the copy any more.
LEMMA SentOnce ==
  ASSUME ChatTypeOK, OnceInv, NEW u \in User, NEW m \in Msg, m \notin ToSet(inbox[u]),
         target[m] # NoTarget, Deliver(u, m), UNCHANGED <<target, text>>,
         ChannelsOnce',
         \A s \in Server : ToSet(channel'[s]) \subseteq ToSet(channel[s]) \ {<<m, u>>},
         \A c \in Conn, v \in User :
             Ahead(c, v)' => Ahead(c, v) /\ (text[c] # m \/ v # u),
         \A c \in Conn : step'[c] \in {"hget", "publish"} => peer'[c] \notin rest'[c]
  PROVE  OnceInv'
<1>1. /\ IsInjective(inbox'[u])
      /\ ToSet(inbox'[u]) = ToSet(inbox[u]) \cup {m}
      /\ \A v \in User \ {u} : inbox'[v] = inbox[v]
  <2>1. inbox[u] \in Seq(Msg) /\ inbox'[u] = Append(inbox[u], m)
    BY DEF Deliver, ChatTypeOK
  <2>2. IsInjective(inbox[u])
    BY DEF OnceInv, AtMostOnce
  <2>3. \A v \in User \ {u} : inbox'[v] = inbox[v]
    BY DEF Deliver, ChatTypeOK
  <2> QED  BY <2>1, <2>2, <2>3, InjectiveAppend, AppendSet
<1>2. AtMostOnce'
  BY <1>1 DEF OnceInv, AtMostOnce
<1>3. HandlersOnce'
  BY DEF OnceInv, HandlersOnce
<1>4. \A n \in Msg, v \in User : Unsent(n, v) /\ (n # m \/ v # u) => Unsent(n, v)'
  BY <1>1 DEF Unsent
<1>5. \A s \in Server, n \in Msg, v \in User :
         <<n, v>> \in ToSet(channel'[s]) => n \notin ToSet(inbox'[v])
  <2>1. ASSUME NEW s \in Server, NEW n \in Msg, NEW v \in User,
               <<n, v>> \in ToSet(channel'[s])
        PROVE  n \notin ToSet(inbox'[v])
    <3>1. <<n, v>> \in ToSet(channel[s]) /\ (n # m \/ v # u)
      BY <2>1
    <3>2. n \notin ToSet(inbox[v])
      BY <3>1 DEF OnceInv
    <3> QED  BY <1>1, <3>1, <3>2
  <2> QED  BY <2>1
<1>6. \A c \in Conn, v \in User : Ahead(c, v)' => Unsent(text[c], v)'
  <2>1. ASSUME NEW c \in Conn, NEW v \in User, Ahead(c, v)' PROVE Unsent(text[c], v)'
    <3>1. Ahead(c, v) /\ (text[c] # m \/ v # u)
      BY <2>1
    <3>2. text[c] \in Msg /\ Unsent(text[c], v)
      BY <3>1 DEF OnceInv, Ahead
    <3>3. Unsent(text[c], v)'
      BY <1>1, <3>1, <3>2 DEF Unsent
    <3> QED  BY <3>3
  <2> QED  BY <2>1
<1>7. \A n \in Msg : target[n] = NoTarget =>
         (\A c \in Conn : text[c] # n) /\ \A v \in User : Unsent(n, v)'
  BY <1>4 DEF OnceInv
<1> QED  BY <1>2, <1>3, <1>5, <1>6, <1>7 DEF OnceInv

\* A message that nobody had written is given to the handler of c.
LEMMA FreshText ==
  ASSUME ChatTypeOK, OnceInv, NEW c \in Conn, NEW m \in Msg, NEW x, x # NoTarget,
         target[m] = NoTarget, target' = [target EXCEPT ![m] = x],
         text' = [text EXCEPT ![c] = m], UNCHANGED <<channel, inbox>>,
         step'[c] \notin {"hget", "publish"},
         \A d \in Conn \ {c} :
             step'[d] = step[d] /\ peer'[d] = peer[d] /\ rest'[d] = rest[d]
  PROVE  OnceInv'
<1>1. (\A d \in Conn : text[d] # m) /\ \A v \in User : Unsent(m, v)
  BY DEF OnceInv
<1>2. text'[c] = m /\ \A d \in Conn \ {c} : text'[d] = text[d]
  BY DEF ChatTypeOK
<1>3. \A n \in Msg, v \in User : Unsent(n, v) <=> Unsent(n, v)'
  BY DEF Unsent
<1>4. HandlersOnce'
  BY <1>1, <1>2 DEF OnceInv, HandlersOnce
<1>5. ASSUME NEW d \in Conn, NEW v \in User, Ahead(d, v)' PROVE Unsent(text[d], v)'
  <2>1. CASE d = c
    BY <1>1, <1>2, <2>1 DEF Unsent
  <2>2. CASE d # c
    <3>1. text'[d] = text[d] /\ Ahead(d, v)
      BY <1>2, <1>5, <2>2 DEF Ahead
    <3> QED  BY <3>1 DEF OnceInv, Unsent
  <2> QED  BY <2>1, <2>2
<1>6. \A n \in Msg : target'[n] = NoTarget => n # m /\ target[n] = NoTarget
  BY DEF ChatTypeOK
<1>7. \A n \in Msg : target'[n] = NoTarget =>
         (\A d \in Conn : text'[d] # n) /\ \A v \in User : Unsent(n, v)'
  BY <1>2, <1>3, <1>6 DEF OnceInv
<1>8. AtMostOnce' /\ ChannelsOnce'
  BY DEF OnceInv, AtMostOnce, ChannelsOnce
<1>9. \A t \in Server, n \in Msg, v \in User :
         <<n, v>> \in ToSet(channel'[t]) => n \notin ToSet(inbox'[v])
  BY DEF OnceInv
<1>10. (\A d \in Conn, v \in User : Ahead(d, v) => Unsent(text[d], v))'
  BY <1>5
<1> QED  BY <1>4, <1>7, <1>8, <1>9, <1>10 DEF OnceInv

-----------------------------------------------------------------------------
\* The steps

LEMMA OnceRequest ==
  ASSUME ChatInv, OnceInv, NEW c \in Conn, ChatRequest(c) PROVE OnceInv'
<1> USE DEF ChatInv
<1>1. ASSUME NEW u \in User, NEW m \in Msg, OneChat(c, u, m) PROVE OnceInv'
  <2>1. u # NoTarget
    OBVIOUS
  <2>2. /\ step'[c] = "local"
        /\ \A d \in Conn \ {c} :
              step'[d] = step[d] /\ peer'[d] = peer[d] /\ rest'[d] = rest[d]
    BY <1>1 DEF OneChat, Step, ChatTypeOK
  <2>3. /\ target[m] = NoTarget
        /\ target' = [target EXCEPT ![m] = u]
        /\ text' = [text EXCEPT ![c] = m]
        /\ UNCHANGED <<channel, inbox>>
    BY <1>1 DEF OneChat
  <2> QED  BY <2>1, <2>2, <2>3, FreshText
<1>2. ASSUME NEW g \in Group, NEW m \in Msg, GroupChat(c, g, m) PROVE OnceInv'
  <2>1. g # NoTarget
    OBVIOUS
  <2>2. /\ step'[c] = "members"
        /\ \A d \in Conn \ {c} :
              step'[d] = step[d] /\ peer'[d] = peer[d] /\ rest'[d] = rest[d]
    BY <1>2 DEF GroupChat, Step, ChatTypeOK
  <2>3. /\ target[m] = NoTarget
        /\ target' = [target EXCEPT ![m] = g]
        /\ text' = [text EXCEPT ![c] = m]
        /\ UNCHANGED <<channel, inbox>>
    BY <1>2 DEF GroupChat
  <2> QED  BY <2>1, <2>2, <2>3, FreshText
<1>3. CASE AddGroup(c)
  <2>1. UNCHANGED <<text, peer, rest, channel, inbox, target>>
    BY <1>3 DEF AddGroup, historyVars
  <2>2. step'[c] = "join" /\ \A d \in Conn \ {c} : step'[d] = step[d]
    BY <1>3 DEF AddGroup, Step, ChatTypeOK
  <2>3. \A d \in Conn, v \in User : Ahead(d, v)' => Ahead(d, v)
    BY <2>1, <2>2 DEF Ahead
  <2>4. \A d \in Conn : step'[d] \in {"hget", "publish"} => peer'[d] \notin rest'[d]
    BY <2>1, <2>2 DEF OnceInv, HandlersOnce
  <2> QED  BY <2>1, <2>3, <2>4, NothingSent
<1> QED  BY <1>1, <1>2, <1>3 DEF ChatRequest

\* A step of the handler of c alone that sends nothing.
LEMMA QuietHandler ==
  ASSUME ChatTypeOK, OnceInv, NEW c \in Conn, UNCHANGED <<inbox, target, channel>>,
         \A d \in Conn \ {c} :
             /\ step'[d] = step[d]
             /\ text'[d] = text[d]
             /\ peer'[d] = peer[d]
             /\ rest'[d] = rest[d],
         text'[c] = text[c] \/ text'[c] = NoMsg,
         \A v \in User : Ahead(c, v)' => Ahead(c, v),
         step'[c] \in {"hget", "publish"} => peer'[c] \notin rest'[c]
  PROVE  OnceInv'
<1>1. \A d \in Conn, v \in User : Ahead(d, v)' => Ahead(d, v)
  BY DEF Ahead
<1>2. \A d \in Conn : step'[d] \in {"hget", "publish"} => peer'[d] \notin rest'[d]
  BY DEF OnceInv, HandlersOnce
<1> QED  BY <1>1, <1>2, NothingSent

\* What c brings was written by somebody.
LEMMA Written ==
  ASSUME OnceInv, NEW m \in Msg, NEW u \in User,
         (\E c \in Conn : text[c] = m) \/ ~Unsent(m, u)
  PROVE  target[m] # NoTarget
  BY DEF OnceInv

LEMMA OnceHandler ==
  ASSUME ChatInv, OnceInv, NEW c \in Conn, ChatStep(c) PROVE OnceInv'
<1> USE DEF ChatInv, ChatTypeOK, Step
<1>0. RequestOK(c)
  BY DEF HandlerOK
<1>1. CASE OneChatLocal(c)
  <2>1. /\ text[c] \in Msg /\ peer[c] \in User /\ rest[c] = {} /\ step[c] = "local"
        /\ step' = [step EXCEPT ![c] = "end"]
        /\ UNCHANGED <<text, peer, rest, channel, target>>
        /\ Deliver(peer[c], text[c])
    BY <1>0, <1>1 DEF OneChatLocal, RequestOK
  <2>2. Unsent(text[c], peer[c])
    BY <2>1 DEF OnceInv, Ahead
  <2>3. \A d \in Conn, v \in User :
          Ahead(d, v)' => Ahead(d, v) /\ (text[d] # text[c] \/ v # peer[c])
    BY <2>1 DEF Ahead, OnceInv, HandlersOnce
  <2>4. \A d \in Conn : step'[d] \in {"hget", "publish"} => peer'[d] \notin rest'[d]
    BY <2>1 DEF OnceInv, HandlersOnce
  <2>5. ChannelsOnce' /\ \A s \in Server :
          ToSet(channel'[s]) \subseteq ToSet(channel[s]) \ {<<text[c], peer[c]>>}
    BY <2>1, <2>2 DEF OnceInv, ChannelsOnce, Unsent
  <2>6. target[text[c]] # NoTarget
    BY <2>1, Written
  <2>7. text[c] \notin ToSet(inbox[peer[c]])
    BY <2>2 DEF Unsent
  <2> HIDE DEF ChatInv, ChatTypeOK
  <2>8. ChatTypeOK
    BY DEF ChatInv
  <2> QED  BY <2>1, <2>3, <2>4, <2>5, <2>6, <2>7, <2>8, SentOnce
<1>2. CASE OneChatRemote(c)
  BY <1>0, <1>2, QuietHandler DEF OneChatRemote, RequestOK, Ahead, historyVars
<1>3. CASE Hget(c)
  BY <1>3, QuietHandler DEF Hget, Ahead, historyVars, OnceInv, HandlersOnce
<1>4. CASE Publish(c)
  <2>1. /\ text[c] \in Msg /\ peer[c] \in User /\ via[c] \in Server /\ step[c] = "publish"
        /\ step'[c] \in {"each", "store"} /\ \A d \in Conn \ {c} : step'[d] = step[d]
        /\ UNCHANGED <<text, peer, rest, target, inbox>>
    BY <1>0, <1>4 DEF Publish, RequestOK
  <2>2. Unsent(text[c], peer[c]) /\ peer[c] \notin rest[c]
    BY <2>1 DEF OnceInv, HandlersOnce, Ahead
  <2>3. \A d \in Conn, v \in User :
          Ahead(d, v)' => Ahead(d, v) /\ (text[d] # text[c] \/ v # peer[c])
    BY <2>1, <2>2 DEF Ahead, OnceInv, HandlersOnce
  <2>4. HandlersOnce'
    BY <2>1 DEF OnceInv, HandlersOnce
  <2>5. CASE UNCHANGED channel
    <3>1. \A d \in Conn : step'[d] \in {"hget", "publish"} => peer'[d] \notin rest'[d]
      BY <2>4 DEF HandlersOnce
    <3> QED  BY <2>1, <2>3, <2>5, <3>1, NothingSent
  <2>6. CASE channel' = [channel EXCEPT ![via[c]] = Append(@, <<text[c], peer[c]>>)]
    <3> DEFINE x == <<text[c], peer[c]>>
    <3>0. PICK s \in Server : s = via[c]
      BY <2>1
    <3>1. channel'[s] = Append(channel[s], x) /\ \A t \in Server \ {s} : channel'[t] = channel[t]
      BY <2>6, <3>0
    <3>2. channel[s] \in Seq(Msg \X User) /\ x \in Msg \X User
      BY <2>1
    <3>3. \A t \in Server : x \notin ToSet(channel[t])
      BY <2>2 DEF Unsent
    <3> HIDE DEF x
    <3>4. IsInjective(channel'[s]) /\ ToSet(channel'[s]) = ToSet(channel[s]) \cup {x}
      <4>1. IsInjective(channel[s])
        BY DEF OnceInv, ChannelsOnce
      <4> QED  BY <3>1, <3>2, <3>3, <4>1, InjectiveAppend, AppendSet
    <3>5. ChannelsOnce'
      <4>1. \A t \in Server : IsInjective(channel'[t])
        BY <3>1, <3>4 DEF OnceInv, ChannelsOnce
      <4>2. ASSUME NEW t \in Server, NEW w \in Server, t # w
            PROVE  ToSet(channel'[t]) \cap ToSet(channel'[w]) = {}
        <5>1. ToSet(channel[t]) \cap ToSet(channel[w]) = {}
          BY <4>2 DEF OnceInv, ChannelsOnce
        <5>2. t # s => ToSet(channel'[t]) = ToSet(channel[t])
          BY <3>1
        <5>3. w # s => ToSet(channel'[w]) = ToSet(channel[w])
          BY <3>1
        <5> HIDE DEF ChatInv, ChatTypeOK
        <5> QED  BY <3>3, <3>4, <4>2, <5>1, <5>2, <5>3
      <4> QED  BY <4>1, <4>2 DEF ChannelsOnce
    <3>6. \A t \in Server : ToSet(channel'[t]) \subseteq ToSet(channel[t]) \cup {x}
      BY <3>1, <3>4
    <3>7. \A n \in Msg, v \in User : Unsent(n, v) /\ <<n, v>> # x => Unsent(n, v)'
      BY <2>1, <3>6 DEF Unsent
    <3>8. \A t \in Server, n \in Msg, v \in User :
            <<n, v>> \in ToSet(channel'[t]) => n \notin ToSet(inbox[v])
      BY <2>1, <2>2, <3>6 DEF OnceInv, Unsent, x
    <3>9. \A d \in Conn, v \in User : Ahead(d, v)' => Unsent(text[d], v)'
      <4>1. ASSUME NEW d \in Conn, NEW v \in User, Ahead(d, v)' PROVE Unsent(text[d], v)'
        <5>1. text[d] \in Msg /\ Unsent(text[d], v) /\ <<text[d], v>> # x
          BY <2>3, <4>1 DEF OnceInv, Ahead, x
        <5>2. \A t \in Server : <<text[d], v>> \notin ToSet(channel'[t])
          BY <3>6, <5>1 DEF Unsent
        <5> QED  BY <2>1, <5>1, <5>2 DEF Unsent
      <4> QED  BY <4>1
    <3>10. \A n \in Msg : target[n] = NoTarget =>
             (\A d \in Conn : text[d] # n) /\ \A v \in User : Unsent(n, v)'
      <4>1. target[text[c]] # NoTarget
        BY <2>1, Written
      <4>2. \A n \in Msg, v \in User : target[n] = NoTarget => <<n, v>> # x
        BY <4>1 DEF x
      <4> QED  BY <3>7, <4>2 DEF OnceInv
    <3> QED  BY <2>1, <2>4, <3>5, <3>8, <3>9, <3>10 DEF OnceInv, AtMostOnce
  <2> QED  BY <1>4, <2>5, <2>6 DEF Publish
<1>5. CASE InsertOfflineMsg(c)
  BY <1>5, QuietHandler DEF InsertOfflineMsg, Ahead
<1>6. CASE Smembers(c)
  BY <1>6, QuietHandler DEF Smembers, Ahead, historyVars
<1>7. CASE QueryNumber(c)
  BY <1>7, QuietHandler DEF QueryNumber, Ahead, historyVars
<1>8. CASE GroupLock(c)
  BY <1>8, QuietHandler DEF GroupLock, Ahead, historyVars
<1>9. ASSUME NEW u \in User, Each(c, u) PROVE OnceInv'
  <2>1. /\ text[c] \in Msg /\ step[c] = "each" /\ u \in rest[c]
        /\ rest'[c] = rest[c] \ {u} /\ \A d \in Conn \ {c} : rest'[d] = rest[d]
        /\ UNCHANGED <<text, channel, target>>
    BY <1>0, <1>9 DEF Each, RequestOK
  <2>2. CASE UNCHANGED inbox
    <3>1. \A v \in User : Ahead(c, v)' => Ahead(c, v)
      BY <1>9, <2>1 DEF Each, Ahead
    <3>2. step'[c] \in {"hget", "publish"} => peer'[c] \notin rest'[c]
      BY <1>9, <2>1 DEF Each
    <3>3. \A d \in Conn \ {c} : step'[d] = step[d] /\ peer'[d] = peer[d]
      BY <1>9 DEF Each
    <3> QED  BY <2>1, <2>2, <3>1, <3>2, <3>3, QuietHandler
  <2>3. CASE Deliver(u, text[c]) /\ UNCHANGED <<step, peer>>
    <3>1. Unsent(text[c], u)
      BY <2>1 DEF OnceInv, Ahead
    <3>2. \A d \in Conn, v \in User :
            Ahead(d, v)' => Ahead(d, v) /\ (text[d] # text[c] \/ v # u)
      BY <2>1, <2>3 DEF Ahead, OnceInv, HandlersOnce
    <3>3. \A d \in Conn : step'[d] \in {"hget", "publish"} => peer'[d] \notin rest'[d]
      BY <2>1, <2>3 DEF OnceInv, HandlersOnce
    <3>4. ChannelsOnce' /\ \A s \in Server :
            ToSet(channel'[s]) \subseteq ToSet(channel[s]) \ {<<text[c], u>>}
      BY <2>1, <3>1 DEF OnceInv, ChannelsOnce, Unsent
    <3>5. target[text[c]] # NoTarget
      BY <2>1, Written
    <3>6. text[c] \notin ToSet(inbox[u])
      BY <3>1 DEF Unsent
    <3> HIDE DEF ChatInv, ChatTypeOK
    <3>7. ChatTypeOK
      BY DEF ChatInv
    <3> QED  BY <2>1, <2>3, <3>2, <3>3, <3>4, <3>5, <3>6, <3>7, SentOnce
  <2> QED  BY <1>9, <2>2, <2>3 DEF Each
<1>10. CASE GroupUnlock(c)
  BY <1>10, QuietHandler DEF GroupUnlock, Ahead, historyVars
<1>11. ASSUME NEW g \in Group, Join(c, g) PROVE OnceInv'
  BY <1>11, QuietHandler DEF Join, Ahead, historyVars
<1>12. CASE Return(c)
  BY <1>12, QuietHandler DEF Return, Ahead, historyVars
<1> QED
  BY <1>1, <1>2, <1>3, <1>4, <1>5, <1>6, <1>7, <1>8, <1>9, <1>10, <1>11, <1>12 DEF ChatStep

LEMMA OnceListener ==
  ASSUME ChatInv, OnceInv, NEW s \in Server, RedisMessage(s) PROVE OnceInv'
<1> DEFINE x == Head(channel[s])
<1>0. ChatTypeOK
  BY DEF ChatInv
<1>1. /\ channel[s] \in Seq(Msg \X User) /\ channel[s] # <<>>
      /\ channel'[s] = Tail(channel[s]) /\ \A t \in Server \ {s} : channel'[t] = channel[t]
      /\ UNCHANGED <<step, text, peer, rest, target>>
  BY <1>0 DEF RedisMessage, handlerVars, ChatTypeOK
<1>2. IsInjective(channel[s])
  BY DEF OnceInv, ChannelsOnce
<1>3. /\ x \in Msg \X User /\ x \in ToSet(channel[s]) /\ x \notin ToSet(channel'[s])
      /\ ToSet(channel'[s]) \subseteq ToSet(channel[s])
      /\ IsInjective(channel'[s])
  BY <1>1, <1>2, TailSet, InjectiveTail
<1>4. PICK m \in Msg, u \in User : x = <<m, u>> /\ x[1] = m /\ x[2] = u
  BY <1>3
<1>5. Deliver(u, m) \/ UNCHANGED inbox
  BY <1>4 DEF RedisMessage
<1> HIDE DEF x
<1>6. \A t \in Server \ {s} : x \notin ToSet(channel[t])
  BY <1>3 DEF OnceInv, ChannelsOnce
<1>7. ChannelsOnce'
  BY <1>1, <1>3 DEF OnceInv, ChannelsOnce
<1>8. \A t \in Server : ToSet(channel'[t]) \subseteq ToSet(channel[t]) \ {<<m, u>>}
  BY <1>1, <1>3, <1>4, <1>6, SMTT(60)
<1>9. ~Unsent(m, u)
  BY <1>3, <1>4 DEF Unsent
<1>10. \A d \in Conn, v \in User :
         Ahead(d, v)' => Ahead(d, v) /\ (text[d] # m \/ v # u)
  BY <1>1, <1>9 DEF Ahead, OnceInv
<1>11. HandlersOnce'
  BY <1>1 DEF OnceInv, HandlersOnce
<1>12. CASE Deliver(u, m)
  <2>1. m \notin ToSet(inbox[u]) /\ target[m] # NoTarget
    BY <1>3, <1>4, <1>9, Written DEF OnceInv
  <2>2. \A d \in Conn : step'[d] \in {"hget", "publish"} => peer'[d] \notin rest'[d]
    BY <1>11 DEF HandlersOnce
  <2> QED  BY <1>0, <1>1, <1>7, <1>8, <1>10, <1>12, <2>1, <2>2, SentOnce
<1>13. CASE UNCHANGED inbox
  <2>1. \A n \in Msg, v \in User : Unsent(n, v) => Unsent(n, v)'
    BY <1>8, <1>13 DEF Unsent
  <2>2. \A d \in Conn, v \in User : Ahead(d, v)' => Unsent(text[d], v)'
    <3>1. ASSUME NEW d \in Conn, NEW v \in User, Ahead(d, v)' PROVE Unsent(text[d], v)'
      <4>1. Unsent(text[d], v)
        BY <1>10, <3>1 DEF OnceInv
      <4>2. \A t \in Server : <<text[d], v>> \notin ToSet(channel'[t])
        BY <1>8, <4>1 DEF Unsent
      <4> QED  BY <1>1, <1>13, <4>1, <4>2 DEF Unsent
    <3> QED  BY <3>1
  <2>3. \A t \in Server, n \in Msg, v \in User :
          <<n, v>> \in ToSet(channel'[t]) => n \notin ToSet(inbox[v])
    BY <1>8 DEF OnceInv
  <2> QED  BY <1>1, <1>7, <1>11, <1>13, <2>1, <2>2, <2>3 DEF OnceInv, AtMostOnce
<1> QED  BY <1>5, <1>12, <1>13

LEMMA OnceSession ==
  ASSUME OnceInv, SessionStep, Follow PROVE OnceInv'
<1>1. /\ UNCHANGED <<inbox, target>>
      /\ \A s \in Server : channel'[s] = channel[s] \/ channel'[s] = <<>>
  BY DEF Follow
<1>2. \A c \in Conn :
         \/ step'[c] = "none" /\ text'[c] = NoMsg
         \/ /\ step'[c] = step[c] /\ text'[c] = text[c]
            /\ peer'[c] = peer[c] /\ rest'[c] = rest[c]
  BY DEF Follow
<1>3. \A c \in Conn, u \in User : Ahead(c, u)' => Ahead(c, u)
  BY <1>2 DEF Ahead
<1>4. \A c \in Conn : step'[c] \in {"hget", "publish"} => peer'[c] \notin rest'[c]
  BY <1>2 DEF OnceInv, HandlersOnce
<1> QED  BY <1>1, <1>2, <1>3, <1>4, NothingSent

\* Over the table, over a channel and through OfflineMessage as it may be routed, and
\* wherever its addressee goes meanwhile: nobody is sent a message twice.
THEOREM NoMessageTwice == ChatSpec => []AtMostOnce
<1>1. ChatInv /\ OnceInv /\ [ChatNext]_allVars => OnceInv'
  <2> SUFFICES ASSUME ChatInv, OnceInv, [ChatNext]_allVars PROVE OnceInv'
    OBVIOUS
  <2>1. CASE UNCHANGED allVars
    <3>1. UNCHANGED <<step, text, peer, rest, channel, target, inbox>>
      BY <2>1 DEF allVars, chatVars, handlerVars, historyVars
    <3> QED
      BY <3>1 DEF OnceInv, AtMostOnce, ChannelsOnce, HandlersOnce, Ahead, Unsent
  <2>2. CASE ChatNext
    BY <2>2, OnceSession, OnceRequest, OnceHandler, OnceListener DEF ChatNext
  <2> QED  BY <2>1, <2>2
<1>2. OnceInv => AtMostOnce
  BY DEF OnceInv
<1> QED  BY OnceStarts, <1>1, <1>2, ChatInvariant, PTL DEF ChatSpec
=============================================================================
