------------------------ MODULE SessionSerialProofs -------------------------
(***************************************************************************)
(* Proofs of what needs an environment in which logins of one user do not  *)
(* race and MySQL updates do not get lost: a user has one session at most. *)
(* A step is the beginning of a session only if it is login's update;      *)
(* every other step keeps or shrinks the set of holders (NoNewHolder), so  *)
(* mutual exclusion can only break where the check of login was made.      *)
(*                                                                         *)
(* Then proofs of what relates the three places that say where a user is:  *)
(* a row that says online has somebody to reset it, and while no command   *)
(* fails the table, the Redis hash and the row agree about every session,  *)
(* whichever processes die.                                                *)
(***************************************************************************)
EXTENDS SessionProofs

USE StoreAssumption, SessionAssumption

NoNewHolder == \A c \in Conn, u \in User : Holder(c, u)' => Holder(c, u)

\* What a step may do to the sessions, seen from outside: at most end some and leave
\* their rows online, begin that of one free user, or end that of one user with the row
\* set to offline.
EndsOnly ==
    NoNewHolder /\ \A u \in User : user'[u] = "online" <=> user[u] = "online"

SparesOthers(u) ==
    \A v \in User \ {u} :
        /\ user'[v] = user[v]
        /\ \A d \in Conn : Holder(d, v)' <=> Holder(d, v)

Begins(c, u) ==
    /\ user[u] # "online"
    /\ \A d \in Conn : ~Holder(d, u)
    /\ \A v \in User : ~Holder(c, v)
    /\ Holder(c, u)'
    /\ SparesOthers(u)

GivesUp(u) ==
    /\ \E d \in Conn : Holder(d, u)
    /\ \A d \in Conn : ~Holder(d, u)'
    /\ user'[u] # "online"
    /\ SparesOthers(u)

Change == EndsOnly \/ \E u \in User : GivesUp(u) \/ \E c \in Conn : Begins(c, u)

LEMMA Shrink ==
  ASSUME SerialInv, NoNewHolder, user' = user, WindowIsValid'
  PROVE  HolderIsOnline' /\ AtMostOneSession' /\ WindowIsValid' /\ Change
<1>1. HolderIsOnline' /\ AtMostOneSession'
  BY DEF SerialInv, NoNewHolder, HolderIsOnline, AtMostOneSession
<1>2. EndsOnly
  BY DEF EndsOnly
<1> QED  BY <1>1, <1>2 DEF Change

\* What a connection has to release does not depend on the others.
LEMMA Frame ==
  ASSUME NEW d \in Conn, pc'[d] = pc[d], session'[d] = session[d], arg'[d] = arg[d]
  PROVE  \A v \in User : MustRelease(d, v)' <=> MustRelease(d, v)
  BY DEF MustRelease, InSession

\* Only ServerOffline sweeps: while it does not run on a connection's server, or
\* the tables stay as they are, what is swept away stays swept away.
LEMMA SweptFrame ==
  ASSUME NEW d \in Conn, NEW v \in User, SweptAway(d, v), home'[d] = home[d],
         proc' = proc, sweep' = sweep, userConnMap'[home[d]] = userConnMap[home[d]]
  PROVE  SweptAway(d, v)'
  BY DEF SweptAway

\* A step that moves one connection only, between callbacks that nobody sweeps.
LEMMA Others ==
  ASSUME NEW c \in Conn, NEW u \in User,
         \A d \in Conn \ {c}, v \in User : MustRelease(d, v)' <=> MustRelease(d, v),
         \A v \in User \ {u} : ~MustRelease(c, v) /\ ~MustRelease(c, v)',
         \A d \in Conn, v \in User \ {u} : SweptAway(d, v) <=> SweptAway(d, v)',
         \A v \in User \ {u} : user'[v] = user[v]
  PROVE  SparesOthers(u)
<1>1. ASSUME NEW v \in User \ {u}, NEW d \in Conn PROVE Holder(d, v)' <=> Holder(d, v)
  <2>1. CASE d = c
    BY <2>1, Zenon DEF Holder
  <2>2. CASE d # c
    <3>1. d \in Conn \ {c}
      BY <2>2
    <3>2. MustRelease(d, v)' <=> MustRelease(d, v)
      BY <3>1
    <3>3. SweptAway(d, v) <=> SweptAway(d, v)'
      OBVIOUS
    <3> QED  BY <3>2, <3>3, Zenon DEF Holder
  <2> QED  BY <2>1, <2>2
<1> QED  BY <1>1, Zenon DEF SparesOthers

LEMMA Combine ==
  ASSUME NEW c \in Conn,
         \A d \in Conn \ {c}, v \in User : MustRelease(d, v)' => MustRelease(d, v),
         \A v \in User : MustRelease(c, v)' => MustRelease(c, v),
         \A d \in Conn, v \in User : SweptAway(d, v) => SweptAway(d, v)'
  PROVE  NoNewHolder
  BY Zenon DEF NoNewHolder, Holder

LEMMA CombineOne ==
  ASSUME NEW c \in Conn, NEW u,
         \A d \in Conn \ {c}, v \in User : MustRelease(d, v)' => MustRelease(d, v),
         \A v \in User : MustRelease(c, v)' => v = u,
         \A d \in Conn, v \in User : SweptAway(d, v) => SweptAway(d, v)'
  PROVE  \A d \in Conn, v \in User : Holder(d, v)' => Holder(d, v) \/ (d = c /\ v = u)
<1>1. ASSUME NEW d \in Conn, NEW v \in User, Holder(d, v)'
      PROVE  Holder(d, v) \/ (d = c /\ v = u)
  <2>1. CASE d = c
    BY <1>1, <2>1 DEF Holder
  <2>2. CASE d # c
    <3>1. d \in Conn \ {c}
      BY <2>2
    <3>2. MustRelease(d, v)' /\ ~SweptAway(d, v)'
      BY <1>1 DEF Holder
    <3>3. MustRelease(d, v)
      BY <3>1, <3>2
    <3>4. ~SweptAway(d, v)
      BY <3>2
    <3>5. Holder(d, v)
      BY <3>3, <3>4, Zenon DEF Holder
    <3> QED  BY <3>5
  <2> QED  BY <2>1, <2>2
<1> QED  BY <1>1

LEMMA SerialRequest ==
  ASSUME "mysql" \notin Faults, SerialInv, SessionInv', SerialLogins',
         NEW c \in Conn, Request(c)
  PROVE  HolderIsOnline' /\ AtMostOneSession' /\ WindowIsValid' /\ Change
<1> USE DEF SessionInv, SerialInv, TypeOK, Goto
<1> DEFINE Goal == HolderIsOnline' /\ AtMostOneSession' /\ WindowIsValid' /\ Change
<1>1. ASSUME NEW s \in Server, Accept(c, s) PROVE Goal
  <2>1. NoNewHolder
    BY <1>1
       DEF Accept, NoNewHolder, Holder, MustRelease, InSession, SweptAway, OtherPc,
           ConnOK, LoginPc, storeVars, procVars
  <2>2. user' = user /\ WindowIsValid'
    BY <1>1 DEF Accept, WindowIsValid, storeVars, procVars
  <2> QED  BY <2>1, <2>2, Shrink
<1>2. CASE ClientAESkey(c)
  <2>1. NoNewHolder
    BY <1>2
       DEF ClientAESkey, NoNewHolder, Holder, MustRelease, InSession, SweptAway, OtherPc,
           storeVars, procVars
  <2>2. user' = user /\ WindowIsValid'
    BY <1>2 DEF ClientAESkey, WindowIsValid, storeVars, procVars
  <2> QED  BY <2>1, <2>2, Shrink
<1>3. ASSUME NEW u \in User, Reg(c, u) PROVE Goal
  <2>1. HolderIsOnline' /\ AtMostOneSession' /\ WindowIsValid'
    BY <1>3
       DEF Reg, HolderIsOnline, AtMostOneSession, WindowIsValid, InsertUser, Holder,
           MustRelease, InSession, SweptAway, OtherPc, connVars, procVars
  <2>2. NoNewHolder
    BY <1>3
       DEF Reg, NoNewHolder, Holder, MustRelease, InSession, SweptAway, OtherPc,
           connVars, procVars
  <2>3. \A v \in User : user'[v] = "online" <=> user[v] = "online"
    BY <1>3 DEF Reg, InsertUser, StoreTypeOK
  <2> QED  BY <2>1, <2>2, <2>3 DEF EndsOnly, Change
<1>4. ASSUME NEW u \in User, LoginQuery(c, u) PROVE Goal
  <2>1. NoNewHolder
    BY <1>4
       DEF LoginQuery, NoNewHolder, Holder, MustRelease, InSession, SweptAway, OtherPc,
           ConnOK, LoginPc, storeVars, procVars
  <2>2. user' = user /\ WindowIsValid'
    BY <1>4 DEF LoginQuery, WindowIsValid, storeVars, procVars
  <2> QED  BY <2>1, <2>2, Shrink
<1>5. CASE LogoutErase(c)
  <2>1. proc[home[c]] # "stopping"
    BY <1>5 DEF LogoutErase, Receives, CanLock, ConnOK, LockOwned
  <2>2. \A s \in Server : s # home[c] => userConnMap'[s] = userConnMap[s]
    <3>1. (\E u, x : SetEntry(home[c], u, x)) \/ UNCHANGED userConnMap
      BY <1>5 DEF LogoutErase
    <3> QED  BY <3>1 DEF SetEntry
  <2>3. \A d \in Conn, v \in User : SweptAway(d, v) => SweptAway(d, v)'
    <3>1. ASSUME NEW d \in Conn, NEW v \in User, SweptAway(d, v) PROVE SweptAway(d, v)'
      <4>1. home[d] \in Server /\ home[d] # home[c]
        BY <2>1, <3>1 DEF SweptAway
      <4> QED  BY <1>5, <2>2, <3>1, <4>1, SweptFrame DEF LogoutErase
    <3> QED  BY <3>1
  <2>4. \A d \in Conn \ {c}, v \in User : MustRelease(d, v)' => MustRelease(d, v)
    BY <1>5, Frame DEF LogoutErase
  <2>5. \A v \in User : MustRelease(c, v)' => MustRelease(c, v)
    BY <1>5 DEF LogoutErase, MustRelease, InSession, OtherPc
  <2>6. NoNewHolder
    BY <2>3, <2>4, <2>5, Combine, Zenon
  <2>7. user' = user /\ WindowIsValid'
    BY <1>5 DEF LogoutErase, WindowIsValid, storeVars
  <2> QED  BY <2>6, <2>7, Shrink
<1>6. CASE OtherRequest(c)
  <2>1. NoNewHolder
    BY <1>6
       DEF OtherRequest, NoNewHolder, Holder, MustRelease, InSession, SweptAway, OtherPc,
           storeVars, procVars
  <2>2. user' = user /\ WindowIsValid'
    BY <1>6 DEF OtherRequest, WindowIsValid, storeVars, procVars
  <2> QED  BY <2>1, <2>2, Shrink
<1>7. CASE Disconnect(c)
  <2>1. NoNewHolder
    BY <1>7
       DEF Disconnect, NoNewHolder, Holder, MustRelease, InSession, SweptAway, OtherPc,
           storeVars, procVars
  <2>2. user' = user /\ WindowIsValid'
    BY <1>7 DEF Disconnect, WindowIsValid, storeVars, procVars
  <2> QED  BY <2>1, <2>2, Shrink
<1> QED  BY <1>1, <1>2, <1>3, <1>4, <1>5, <1>6, <1>7 DEF Request

LEMMA SerialLogin ==
  ASSUME "mysql" \notin Faults, SerialInv, SessionInv', SerialLogins',
         NEW c \in Conn, LoginStep(c)
  PROVE  HolderIsOnline' /\ AtMostOneSession' /\ WindowIsValid' /\ Change
<1> USE DEF SessionInv, SerialInv, TypeOK, Goto
<1> DEFINE Goal == HolderIsOnline' /\ AtMostOneSession' /\ WindowIsValid' /\ Change
<1>1. CASE LoginRefused(c)
  <2>1. NoNewHolder
    BY <1>1
       DEF LoginRefused, NoNewHolder, Holder, MustRelease, InSession, SweptAway, OtherPc,
           ConnOK, LoginPc, storeVars, procVars
  <2>2. user' = user /\ WindowIsValid'
    BY <1>1 DEF LoginRefused, WindowIsValid, storeVars, procVars
  <2> QED  BY <2>1, <2>2, Shrink
<1>2. CASE LoginUpdate(c)
  <2>1. /\ arg[c] \in User
        /\ user[arg[c]] = "offline"
        /\ user' = [user EXCEPT ![arg[c]] = "online"]
    BY <1>2 DEF LoginUpdate, UpdateState, ConnOK, WindowIsValid, LoginPc, StoreTypeOK
  <2>2. \A d \in Conn : ~Holder(d, arg[c])
    BY <2>1 DEF HolderIsOnline
  <2>3. \A d \in Conn, v \in User :
          Holder(d, v)' => Holder(d, v) \/ (d = c /\ v = arg[c])
    <3>1. \A d \in Conn \ {c}, v \in User : MustRelease(d, v)' => MustRelease(d, v)
      BY <1>2, Frame DEF LoginUpdate
    <3>2. \A v \in User : MustRelease(c, v)' => v = arg[c]
      BY <1>2 DEF LoginUpdate, MustRelease, InSession, OtherPc
    <3>3. \A d \in Conn, v \in User : SweptAway(d, v) => SweptAway(d, v)'
      BY <1>2, SweptFrame DEF LoginUpdate, procVars
    <3> QED  BY <3>1, <3>2, <3>3, CombineOne, Zenon
  <2>4. HolderIsOnline' /\ AtMostOneSession'
    <3>1. user'[arg[c]] = "online" /\ \A v \in User \ {arg[c]} : user'[v] = user[v]
      BY <2>1 DEF StoreTypeOK
    <3>2. ASSUME NEW d \in Conn, NEW v \in User, Holder(d, v)' PROVE user'[v] = "online"
      BY <2>3, <3>1, <3>2 DEF HolderIsOnline
    <3>3. ASSUME NEW d \in Conn, NEW e \in Conn, NEW v \in User, Holder(d, v)', Holder(e, v)'
          PROVE  d = e
      <4>1. CASE v = arg[c]
        BY <2>2, <2>3, <3>3, <4>1
      <4>2. CASE v # arg[c]
        BY <2>3, <3>3, <4>2 DEF AtMostOneSession
      <4> QED  BY <4>1, <4>2
    <3> QED  BY <3>2, <3>3, Zenon DEF HolderIsOnline, AtMostOneSession
  <2>5. WindowIsValid'
    BY <1>2, <2>1 DEF LoginUpdate, WindowIsValid, SerialLogins, ConnOK, LoginPc, StoreTypeOK
  <2>6. SparesOthers(arg[c])
    <3>1. \A d \in Conn \ {c}, v \in User : MustRelease(d, v)' <=> MustRelease(d, v)
      BY <1>2, Frame DEF LoginUpdate
    <3>2. \A v \in User \ {arg[c]} : ~MustRelease(c, v) /\ ~MustRelease(c, v)'
      BY <1>2 DEF LoginUpdate, MustRelease, InSession, OtherPc
    <3>3. \A d \in Conn, v \in User \ {arg[c]} : SweptAway(d, v) <=> SweptAway(d, v)'
      BY <1>2 DEF LoginUpdate, SweptAway, procVars
    <3>4. \A v \in User \ {arg[c]} : user'[v] = user[v]
      BY <2>1 DEF StoreTypeOK
    <3> QED  BY <2>1, <3>1, <3>2, <3>3, <3>4, Others
  <2>7. Holder(c, arg[c])'
    <3>1. MustRelease(c, arg[c])'
      BY <1>2 DEF LoginUpdate, MustRelease
    <3>2. ASSUME NEW s \in Server, userConnMap[s][arg[c]] = c PROVE FALSE
      <4>1. InSession(c, arg[c])
        BY <2>1, <3>2, EntrySession
      <4> QED  BY <1>2, <4>1 DEF LoginUpdate, InSession, OtherPc
    <3>3. ~SweptAway(c, arg[c])'
      BY <1>2, <3>2 DEF LoginUpdate, SweptAway, procVars
    <3> QED  BY <3>1, <3>3 DEF Holder
  <2>8. \A v \in User : ~Holder(c, v)
    BY <1>2 DEF LoginUpdate, Holder, MustRelease, InSession, OtherPc
  <2>9. Begins(c, arg[c])
    BY <2>1, <2>2, <2>6, <2>7, <2>8 DEF Begins
  <2> QED  BY <2>1, <2>4, <2>5, <2>9 DEF Change
<1>3. CASE LoginInsert(c)
  <2>1. proc[home[c]] # "stopping"
    BY <1>3 DEF LoginInsert, CanLock, ConnOK, LockOwned
  <2>2. \A s \in Server : s # home[c] => userConnMap'[s] = userConnMap[s]
    <3>1. (\E u, x : SetEntry(home[c], u, x)) \/ UNCHANGED userConnMap
      BY <1>3 DEF LoginInsert
    <3> QED  BY <3>1 DEF SetEntry
  <2>3. \A d \in Conn, v \in User : SweptAway(d, v) => SweptAway(d, v)'
    <3>1. ASSUME NEW d \in Conn, NEW v \in User, SweptAway(d, v) PROVE SweptAway(d, v)'
      <4>1. home[d] \in Server /\ home[d] # home[c]
        BY <2>1, <3>1 DEF SweptAway
      <4> QED  BY <1>3, <2>2, <3>1, <4>1, SweptFrame DEF LoginInsert
    <3> QED  BY <3>1
  <2>4. \A d \in Conn \ {c}, v \in User : MustRelease(d, v)' => MustRelease(d, v)
    BY <1>3, Frame DEF LoginInsert
  <2>5. \A v \in User : MustRelease(c, v)' => MustRelease(c, v)
    BY <1>3 DEF LoginInsert, MustRelease, InSession, OtherPc
  <2>6. NoNewHolder
    BY <2>3, <2>4, <2>5, Combine, Zenon
  <2>7. user' = user /\ WindowIsValid'
    BY <1>3 DEF LoginInsert, WindowIsValid, storeVars
  <2> QED  BY <2>6, <2>7, Shrink
<1>4. CASE LoginHset(c)
  <2>1. NoNewHolder
    BY <1>4
       DEF LoginHset, NoNewHolder, Holder, MustRelease, InSession, SweptAway, OtherPc,
           mysqlVars, procVars
  <2>2. user' = user /\ WindowIsValid'
    BY <1>4 DEF LoginHset, WindowIsValid, mysqlVars, procVars
  <2> QED  BY <2>1, <2>2, Shrink
<1>5. CASE LoginGroups(c)
  <2>1. NoNewHolder
    BY <1>5
       DEF LoginGroups, NoNewHolder, Holder, MustRelease, InSession, SweptAway, OtherPc,
           storeVars, procVars
  <2>2. user' = user /\ WindowIsValid'
    BY <1>5 DEF LoginGroups, WindowIsValid, storeVars, procVars
  <2> QED  BY <2>1, <2>2, Shrink
<1>6. CASE LoginSadd(c)
  <2>1. NoNewHolder
    BY <1>6
       DEF LoginSadd, NoNewHolder, Holder, MustRelease, InSession, SweptAway, OtherPc,
           mysqlVars, procVars
  <2>2. user' = user /\ WindowIsValid'
    BY <1>6 DEF LoginSadd, WindowIsValid, mysqlVars, procVars
  <2> QED  BY <2>1, <2>2, Shrink
<1>7. CASE LoginOffline(c)
  <2>1. NoNewHolder
    BY <1>7
       DEF LoginOffline, NoNewHolder, Holder, MustRelease, InSession, SweptAway, OtherPc,
           storeVars, procVars
  <2>2. user' = user /\ WindowIsValid'
    BY <1>7 DEF LoginOffline, WindowIsValid, storeVars, procVars
  <2> QED  BY <2>1, <2>2, Shrink
<1>8. CASE LoginRemove(c)
  <2>1. NoNewHolder
    BY <1>8
       DEF LoginRemove, NoNewHolder, Holder, MustRelease, InSession, SweptAway, OtherPc,
           procVars
  <2>2. user' = user /\ WindowIsValid'
    BY <1>8 DEF LoginRemove, WindowIsValid, procVars
  <2> QED  BY <2>1, <2>2, Shrink
<1>9. CASE LoginAck(c)
  <2>1. NoNewHolder
    BY <1>9
       DEF LoginAck, NoNewHolder, Holder, MustRelease, InSession, SweptAway, OtherPc,
           storeVars, procVars
  <2>2. user' = user /\ WindowIsValid'
    BY <1>9 DEF LoginAck, WindowIsValid, storeVars, procVars
  <2> QED  BY <2>1, <2>2, Shrink
<1>10. CASE LoginThrow(c)
  <2>1. NoNewHolder
    BY <1>10
       DEF LoginThrow, NoNewHolder, Holder, MustRelease, InSession, SweptAway, OtherPc,
           storeVars, procVars
  <2>2. user' = user /\ WindowIsValid'
    BY <1>10 DEF LoginThrow, WindowIsValid, storeVars, procVars
  <2> QED  BY <2>1, <2>2, Shrink
<1> QED
  BY <1>1, <1>2, <1>3, <1>4, <1>5, <1>6, <1>7, <1>8, <1>9, <1>10 DEF LoginStep

LEMMA SerialLeave ==
  ASSUME "mysql" \notin Faults, SerialInv, SessionInv', SerialLogins',
         NEW c \in Conn, LogoutStep(c) \/ CloseStep(c)
  PROVE  HolderIsOnline' /\ AtMostOneSession' /\ WindowIsValid' /\ Change
<1> USE DEF SessionInv, SerialInv, TypeOK, Goto
<1> DEFINE Goal == HolderIsOnline' /\ AtMostOneSession' /\ WindowIsValid' /\ Change
<1>1. CASE LogoutHdel(c)
  <2>1. NoNewHolder
    BY <1>1
       DEF LogoutHdel, NoNewHolder, Holder, MustRelease, InSession, SweptAway, OtherPc,
           mysqlVars, procVars
  <2>2. user' = user /\ WindowIsValid'
    BY <1>1 DEF LogoutHdel, WindowIsValid, mysqlVars, procVars
  <2> QED  BY <2>1, <2>2, Shrink
<1>2. CASE LogoutUpdate(c)
  <2>1. \A v \in User : v # arg[c] => user'[v] = user[v]
    BY <1>2 DEF LogoutUpdate, UpdateState
  <2>2. arg[c] \in User => Holder(c, arg[c])
    <3>1. ASSUME arg[c] \in User PROVE MustRelease(c, arg[c])
      BY <1>2, <3>1 DEF LogoutUpdate, MustRelease
    <3>2. ASSUME arg[c] \in User PROVE ~SweptAway(c, arg[c])
      <4>1. ASSUME NEW s \in Server, userConnMap[s][arg[c]] = c PROVE InSession(c, arg[c])
        BY <3>2, <4>1, EntrySession
      <4>2. ~InSession(c, arg[c])
        BY <1>2 DEF LogoutUpdate, InSession, OtherPc
      <4> QED  BY <4>1, <4>2 DEF SweptAway
    <3> QED  BY <3>1, <3>2 DEF Holder
  <2>3. /\ NoNewHolder
        /\ \A v \in User : ~Holder(c, v)'
    BY <1>2
       DEF LogoutUpdate, NoNewHolder, Holder, MustRelease, InSession, SweptAway, OtherPc,
                ConnOK, LogoutPc, procVars
  <2>4. \A d \in Conn, v \in User : Holder(d, v)' => Holder(d, v) /\ v # arg[c]
    BY <2>2, <2>3 DEF AtMostOneSession, NoNewHolder
  <2>5. HolderIsOnline' /\ AtMostOneSession'
    BY <2>1, <2>4 DEF HolderIsOnline, AtMostOneSession
  <2>6. WindowIsValid'
    BY <1>2 DEF LogoutUpdate, WindowIsValid, UpdateState, ConnOK, LoginPc, procVars
  <2>7. ASSUME NEW u \in User, u = arg[c] PROVE Goal
    <3>1. \A d \in Conn \ {c}, v \in User : MustRelease(d, v)' <=> MustRelease(d, v)
      BY <1>2, Frame DEF LogoutUpdate
    <3>2. \A v \in User \ {u} : ~MustRelease(c, v) /\ ~MustRelease(c, v)'
      BY <1>2, <2>7 DEF LogoutUpdate, MustRelease, InSession, OtherPc, ConnOK, LogoutPc
    <3>3. \A d \in Conn, v \in User \ {u} : SweptAway(d, v) <=> SweptAway(d, v)'
      BY <1>2 DEF LogoutUpdate, SweptAway, procVars
    <3>4. SparesOthers(u)
      BY <2>1, <2>7, <3>1, <3>2, <3>3, Others
    <3>5. user'[u] # "online"
      BY <1>2, <2>2, <2>7 DEF LogoutUpdate, UpdateState, HolderIsOnline
    <3>6. \A d \in Conn : ~Holder(d, u)'
      BY <2>4, <2>7
    <3>7. GivesUp(u)
      BY <2>2, <2>7, <3>4, <3>5, <3>6, Zenon DEF GivesUp
    <3> QED  BY <2>5, <2>6, <2>7, <3>7 DEF Change
  <2>8. CASE arg[c] \notin User
    <3>1. \A v \in User : user'[v] = "online" <=> user[v] = "online"
      BY <2>1, <2>8
    <3> QED  BY <2>3, <2>5, <2>6, <3>1 DEF EndsOnly, Change
  <2> QED  BY <2>7, <2>8
<1>3. CASE CloseErase(c)
  <2>1. proc[home[c]] # "stopping"
    BY <1>3 DEF CloseErase, CanLock, ConnOK, LockOwned
  <2>2. \A s \in Server : s # home[c] => userConnMap'[s] = userConnMap[s]
    <3>1. (\E u, x : SetEntry(home[c], u, x)) \/ UNCHANGED userConnMap
      BY <1>3 DEF CloseErase
    <3> QED  BY <3>1 DEF SetEntry
  <2>3. \A d \in Conn, v \in User : SweptAway(d, v) => SweptAway(d, v)'
    <3>1. ASSUME NEW d \in Conn, NEW v \in User, SweptAway(d, v) PROVE SweptAway(d, v)'
      <4>1. home[d] \in Server /\ home[d] # home[c]
        BY <2>1, <3>1 DEF SweptAway
      <4> QED  BY <1>3, <2>2, <3>1, <4>1, SweptFrame DEF CloseErase
    <3> QED  BY <3>1
  <2>4. \A d \in Conn \ {c}, v \in User : MustRelease(d, v)' => MustRelease(d, v)
    BY <1>3, Frame DEF CloseErase
  <2>5. \A v \in User : MustRelease(c, v)' => MustRelease(c, v)
    <3>1. CASE \A u \in User : userConnMap[home[c]][u] # c
      <4>1. pc'[c] = "close_update" /\ arg'[c] = arg[c]
        BY <1>3, <3>1 DEF CloseErase
      <4> QED  BY <1>3, <4>1 DEF CloseErase, MustRelease, InSession, OtherPc, ConnOK
    <3>2. ASSUME NEW u \in User, userConnMap[home[c]][u] = c,
                 arg' = [arg EXCEPT ![c] = u],
                 pc' = [pc EXCEPT ![c] = "close_hdel"]
          PROVE  \A v \in User : MustRelease(c, v)' => MustRelease(c, v)
      <4>1. home[c] \in Server
        BY <1>3 DEF CloseErase, ConnOK
      <4>2. session[c] = u
        BY <1>3, <3>2, <4>1, EntrySession DEF CloseErase
      <4>3. pc'[c] = "close_hdel" /\ arg'[c] = u
        BY <3>2
      <4> QED  BY <1>3, <4>2, <4>3 DEF CloseErase, MustRelease, InSession, OtherPc
    <3> QED  BY <1>3, <3>1, <3>2 DEF CloseErase
  <2>6. NoNewHolder
    BY <2>3, <2>4, <2>5, Combine, Zenon
  <2>7. user' = user /\ WindowIsValid'
    BY <1>3 DEF CloseErase, WindowIsValid, storeVars
  <2> QED  BY <2>6, <2>7, Shrink
<1>4. CASE CloseHdel(c)
  <2>1. NoNewHolder
    BY <1>4
       DEF CloseHdel, NoNewHolder, Holder, MustRelease, InSession, SweptAway, OtherPc,
           mysqlVars
  <2>2. user' = user /\ WindowIsValid'
    BY <1>4 DEF CloseHdel, WindowIsValid, mysqlVars
  <2> QED  BY <2>1, <2>2, Shrink
<1>5. CASE CloseUpdate(c)
  <2>1. \A v \in User : v # arg[c] => user'[v] = user[v]
    BY <1>5 DEF CloseUpdate, UpdateState
  <2>2. arg[c] \in User => Holder(c, arg[c])
    <3>1. ASSUME arg[c] \in User PROVE MustRelease(c, arg[c])
      BY <1>5, <3>1 DEF CloseUpdate, MustRelease
    <3>2. ASSUME arg[c] \in User PROVE ~SweptAway(c, arg[c])
      <4>1. ASSUME NEW s \in Server, userConnMap[s][arg[c]] = c PROVE InSession(c, arg[c])
        BY <3>2, <4>1, EntrySession
      <4>2. ~InSession(c, arg[c])
        BY <1>5 DEF CloseUpdate, InSession, OtherPc
      <4> QED  BY <4>1, <4>2 DEF SweptAway
    <3> QED  BY <3>1, <3>2 DEF Holder
  <2>3. /\ NoNewHolder
        /\ \A v \in User : ~Holder(c, v)'
    BY <1>5
       DEF CloseUpdate, NoNewHolder, Holder, MustRelease, InSession, SweptAway, OtherPc,
                ConnOK, LogoutPc, procVars
  <2>4. \A d \in Conn, v \in User : Holder(d, v)' => Holder(d, v) /\ v # arg[c]
    BY <2>2, <2>3 DEF AtMostOneSession, NoNewHolder
  <2>5. HolderIsOnline' /\ AtMostOneSession'
    BY <2>1, <2>4 DEF HolderIsOnline, AtMostOneSession
  <2>6. WindowIsValid'
    BY <1>5 DEF CloseUpdate, WindowIsValid, UpdateState, ConnOK, LoginPc, procVars
  <2>7. ASSUME NEW u \in User, u = arg[c] PROVE Goal
    <3>1. \A d \in Conn \ {c}, v \in User : MustRelease(d, v)' <=> MustRelease(d, v)
      BY <1>5, Frame DEF CloseUpdate
    <3>2. \A v \in User \ {u} : ~MustRelease(c, v) /\ ~MustRelease(c, v)'
      BY <1>5, <2>7 DEF CloseUpdate, MustRelease, InSession, OtherPc, ConnOK, LogoutPc
    <3>3. \A d \in Conn, v \in User \ {u} : SweptAway(d, v) <=> SweptAway(d, v)'
      BY <1>5 DEF CloseUpdate, SweptAway, procVars
    <3>4. SparesOthers(u)
      BY <2>1, <2>7, <3>1, <3>2, <3>3, Others
    <3>5. user'[u] # "online"
      BY <1>5, <2>2, <2>7 DEF CloseUpdate, UpdateState, HolderIsOnline
    <3>6. \A d \in Conn : ~Holder(d, u)'
      BY <2>4, <2>7
    <3>7. GivesUp(u)
      BY <2>2, <2>7, <3>4, <3>5, <3>6, Zenon DEF GivesUp
    <3> QED  BY <2>5, <2>6, <2>7, <3>7 DEF Change
  <2>8. CASE arg[c] \notin User
    <3>1. \A v \in User : user'[v] = "online" <=> user[v] = "online"
      BY <2>1, <2>8
    <3> QED  BY <2>3, <2>5, <2>6, <3>1 DEF EndsOnly, Change
  <2> QED  BY <2>7, <2>8
<1>6. CASE CloseKey(c)
  <2>1. NoNewHolder
    BY <1>6
       DEF CloseKey, NoNewHolder, Holder, MustRelease, InSession, SweptAway, OtherPc,
           storeVars, procVars
  <2>2. user' = user /\ WindowIsValid'
    BY <1>6 DEF CloseKey, WindowIsValid, storeVars, procVars
  <2> QED  BY <2>1, <2>2, Shrink
<1> QED  BY <1>1, <1>2, <1>3, <1>4, <1>5, <1>6 DEF LogoutStep, CloseStep

LEMMA SerialOther ==
  ASSUME "mysql" \notin Faults, SerialInv, SessionInv', SerialLogins',
         NEW c \in Conn, OtherStep(c)
  PROVE  HolderIsOnline' /\ AtMostOneSession' /\ WindowIsValid' /\ Change
<1> USE DEF SessionInv, SerialInv, TypeOK, Goto
<1> DEFINE Goal == HolderIsOnline' /\ AtMostOneSession' /\ WindowIsValid' /\ Change
<1>1. CASE OtherLock(c)
  <2>1. NoNewHolder
    BY <1>1
       DEF OtherLock, NoNewHolder, Holder, MustRelease, InSession, SweptAway, OtherPc,
           storeVars
  <2>2. user' = user /\ WindowIsValid'
    BY <1>1 DEF OtherLock, WindowIsValid, storeVars
  <2> QED  BY <2>1, <2>2, Shrink
<1>2. CASE OtherUnlock(c)
  <2>1. NoNewHolder
    BY <1>2
       DEF OtherUnlock, NoNewHolder, Holder, MustRelease, InSession, SweptAway, OtherPc,
           storeVars
  <2>2. user' = user /\ WindowIsValid'
    BY <1>2 DEF OtherUnlock, WindowIsValid, storeVars
  <2> QED  BY <2>1, <2>2, Shrink
<1>3. CASE OtherInsert(c)
  <2>1. NoNewHolder
    BY <1>3
       DEF OtherInsert, NoNewHolder, Holder, MustRelease, InSession, SweptAway, OtherPc,
           connVars, procVars
  <2>2. user' = user /\ WindowIsValid'
    BY <1>3 DEF OtherInsert, WindowIsValid, connVars, procVars
  <2> QED  BY <2>1, <2>2, Shrink
<1>4. CASE OtherDone(c)
  <2>1. NoNewHolder
    BY <1>4
       DEF OtherDone, NoNewHolder, Holder, MustRelease, InSession, SweptAway, OtherPc,
           storeVars, procVars
  <2>2. user' = user /\ WindowIsValid'
    BY <1>4 DEF OtherDone, WindowIsValid, storeVars, procVars
  <2> QED  BY <2>1, <2>2, Shrink
<1> QED  BY <1>1, <1>2, <1>3, <1>4 DEF OtherStep

LEMMA SerialProcess ==
  ASSUME "mysql" \notin Faults, SerialInv, SessionInv', SerialLogins',
         NEW s \in Server, ProcessStep(s)
  PROVE  HolderIsOnline' /\ AtMostOneSession' /\ WindowIsValid' /\ Change
<1> USE DEF SessionInv, SerialInv, TypeOK
<1> DEFINE Goal == HolderIsOnline' /\ AtMostOneSession' /\ WindowIsValid' /\ Change
<1>1. CASE StopLock(s)
  <2>1. proc[s] # "stopping" /\ UNCHANGED <<user, home, pc, arg, session, userConnMap>>
    BY <1>1 DEF StopLock, storeVars, connVars
  <2>2. \A c \in Conn, u \in User : SweptAway(c, u) => SweptAway(c, u)'
    BY <1>1, <2>1 DEF StopLock, SweptAway
  <2>3. \A c \in Conn, u \in User : MustRelease(c, u)' => MustRelease(c, u)
    BY <2>1, Frame
  <2>4. NoNewHolder
    BY <2>2, <2>3, Zenon DEF NoNewHolder, Holder
  <2>5. WindowIsValid'
    BY <2>1 DEF WindowIsValid
  <2> QED  BY <2>1, <2>4, <2>5, Shrink
<1>2. ASSUME NEW u \in User, StopReset(s, u) PROVE Goal
  <2>1. PICK c \in Conn : userConnMap[s][u] = c
    BY <1>2 DEF StopReset, SweepInTable
  <2>2. home[c] = s /\ InSession(c, u)
    BY <2>1, EntrySession
  <2>3. Holder(c, u)
    <3>1. ~SweptAway(c, u)
      BY <1>2, <2>2 DEF StopReset, SweptAway
    <3> QED  BY <2>2, <3>1 DEF Holder, MustRelease
  <2>4. SweptAway(c, u)'
    BY <1>2, <2>1, <2>2 DEF StopReset, SweptAway, connVars
  <2>5. NoNewHolder
    <3>1. \A d \in Conn, v \in User : SweptAway(d, v) => SweptAway(d, v)'
      BY <1>2 DEF StopReset, SweptAway, connVars
    <3>2. \A d \in Conn, v \in User : MustRelease(d, v)' => MustRelease(d, v)
      BY <1>2, Frame DEF StopReset, connVars
    <3> QED  BY <3>1, <3>2, Zenon DEF NoNewHolder, Holder
  <2>6. \A d \in Conn, v \in User : Holder(d, v)' => Holder(d, v) /\ v # u
    <3>1. ~Holder(c, u)'
      BY <2>4 DEF Holder
    <3>2. \A d \in Conn : Holder(d, u) => d = c
      BY <2>3 DEF AtMostOneSession
    <3> QED  BY <2>5, <3>1, <3>2 DEF NoNewHolder
  <2>7. \A v \in User : v # u => user'[v] = user[v]
    BY <1>2 DEF StopReset, UpdateState
  <2>8. HolderIsOnline' /\ AtMostOneSession'
    BY <2>6, <2>7 DEF HolderIsOnline, AtMostOneSession
  <2>9. WindowIsValid'
    BY <1>2 DEF StopReset, WindowIsValid, UpdateState, ConnOK, LoginPc, connVars
  <2>10. SparesOthers(u)
    <3>1. \A d \in Conn, v \in User : MustRelease(d, v)' <=> MustRelease(d, v)
      BY <1>2, Frame DEF StopReset, connVars
    <3>2. \A d \in Conn, v \in User \ {u} : SweptAway(d, v) <=> SweptAway(d, v)'
      BY <1>2 DEF StopReset, SweptAway, connVars
    <3> QED  BY <2>7, <3>1, <3>2, Zenon DEF SparesOthers, Holder
  <2>11. user'[u] # "online"
    BY <1>2, <2>3 DEF StopReset, UpdateState, HolderIsOnline
  <2>12. GivesUp(u)
    BY <2>3, <2>6, <2>10, <2>11 DEF GivesUp
  <2> QED  BY <2>8, <2>9, <2>12 DEF Change
<1>3. ASSUME UNCHANGED <<user, pc, home, arg, session, userConnMap, sweep>>,
             proc' = proc \/ (proc[s] = "down" /\ proc' = [proc EXCEPT ![s] = "up"])
      PROVE  Goal
  <2>1. \A d \in Conn, v \in User : SweptAway(d, v) => SweptAway(d, v)'
    BY <1>3 DEF SweptAway
  <2>2. \A d \in Conn, v \in User : MustRelease(d, v)' => MustRelease(d, v)
    BY <1>3, Frame
  <2>3. NoNewHolder
    BY <2>1, <2>2, Zenon DEF NoNewHolder, Holder
  <2>4. WindowIsValid'
    BY <1>3 DEF WindowIsValid
  <2> QED  BY <1>3, <2>3, <2>4, Shrink
<1>4. CASE StopHdel(s) \/ Restart(s)
  BY <1>3, <1>4 DEF StopHdel, Restart, mysqlVars, storeVars, connVars
<1>5. CASE Die(s)
  <2>1. \A d \in Conn : home[d] = s => pc'[d] = "free"
    BY <1>5 DEF Die
  <2>2. \A d \in Conn : home[d] # s =>
           /\ pc'[d] = pc[d]
           /\ session'[d] = session[d]
           /\ arg'[d] = arg[d]
           /\ home'[d] = home[d]
    BY <1>5 DEF Die
  <2>3. ASSUME NEW d \in Conn, NEW v \in User, Holder(d, v)' PROVE Holder(d, v)
    <3>1. home[d] # s
      BY <2>1, <2>3 DEF Holder, MustRelease, InSession, OtherPc
    <3>2. MustRelease(d, v)
      BY <2>2, <2>3, <3>1, Frame DEF Holder
    <3>3. SweptAway(d, v) => SweptAway(d, v)'
      BY <1>5, <2>2, <3>1 DEF SweptAway, Die
    <3> QED  BY <2>3, <3>2, <3>3 DEF Holder
  <2>4. NoNewHolder
    BY <2>3, Zenon DEF NoNewHolder
  <2>5. user' = user /\ WindowIsValid'
    BY <1>5, <2>1, <2>2 DEF Die, WindowIsValid, storeVars
  <2> QED  BY <2>4, <2>5, Shrink
<1> QED  BY <1>1, <1>2, <1>4, <1>5 DEF ProcessStep, StopExit, Kill

LEMMA SerialInit == Init => SerialInv
  BY InvInit DEF Init, SerialInv, SerialLogins, HolderIsOnline, AtMostOneSession,
                 WindowIsValid, Holder, MustRelease, InSession, OtherPc

LEMMA SerialStep ==
  "mysql" \notin Faults /\ SerialInv /\ [Next /\ SerialLogins']_vars => SerialInv'
<1> SUFFICES ASSUME "mysql" \notin Faults, SerialInv, [Next /\ SerialLogins']_vars
             PROVE  SerialInv'
  OBVIOUS
<1>1. SessionInv'
  BY InvStep DEF SerialInv
<1>2. CASE UNCHANGED vars
  <2>1. UNCHANGED <<user, pc, home, arg, session, proc, userConnMap, sweep>>
    BY <1>2 DEF vars, storeVars, connVars, procVars
  <2>2. NoNewHolder
    BY <2>1 DEF NoNewHolder, Holder, MustRelease, InSession, SweptAway
  <2>3. WindowIsValid' /\ SerialLogins'
    BY <2>1 DEF SerialInv, WindowIsValid, SerialLogins
  <2> QED  BY <1>1, <2>1, <2>2, <2>3, Shrink DEF SerialInv
<1>3. CASE Next /\ SerialLogins'
  BY <1>1, <1>3, SerialRequest, SerialLogin, SerialLeave, SerialOther, SerialProcess
     DEF Next, SerialInv
<1> QED  BY <1>2, <1>3

\* As long as MySQL commands succeed and logins of one user do not race, whatever
\* else happens (lost Redis commands, dying processes, Ctrl-C), the row of a user in a
\* session says online and the user has no second session anywhere in the cluster.
THEOREM SerialInvariant ==
  ASSUME "mysql" \notin Faults
  PROVE  SerialSpec => []SerialInv
<1>1. SerialInv /\ [Next /\ SerialLogins']_vars => SerialInv'
  BY SerialStep
<1> QED  BY SerialInit, <1>1, PTL DEF SerialSpec

\* "the user is online can not login again" (chatservice.cpp:71) is kept: one session
\* per user.
THEOREM MutualExclusion ==
  ASSUME "mysql" \notin Faults
  PROVE  SerialSpec => []AtMostOneSession
  BY SerialInvariant, PTL DEF SerialInv

-----------------------------------------------------------------------------
\* The refinement of Presence

view == [u \in User |-> PresenceOf(u)]

ViewIs(u) ==
    /\ \A c \in Conn : Holder(c, u) => view[u] = c
    /\ (\A c \in Conn : ~Holder(c, u)) /\ user[u] = "online" => view[u] = Lost
    /\ (\A c \in Conn : ~Holder(c, u)) /\ user[u] # "online" => view[u] = Offline

\* A user has one session at most, so PresenceOf chooses nothing.
LEMMA View == AtMostOneSession => \A u \in User : ViewIs(u)
<1> SUFFICES ASSUME AtMostOneSession, NEW u \in User PROVE ViewIs(u)
  OBVIOUS
<1>1. ASSUME NEW c \in Conn, Holder(c, u) PROVE PresenceOf(u) = c
  <2>1. \A d \in Conn : Holder(d, u) <=> d = c
    BY <1>1 DEF AtMostOneSession
  <2>2. (CHOOSE d \in Conn : Holder(d, u)) = c
    BY <2>1
  <2> QED  BY <1>1, <2>2, Zenon DEF PresenceOf
<1>2. ASSUME \A c \in Conn : ~Holder(c, u)
      PROVE  PresenceOf(u) = IF user[u] = "online" THEN Lost ELSE Offline
  BY <1>2, Zenon DEF PresenceOf
<1>3. view[u] = PresenceOf(u)
  BY Zenon DEF view
<1> QED  BY <1>1, <1>2, <1>3 DEF ViewIs

LEMMA ViewInConn ==
  ASSUME AtMostOneSession, NEW u \in User
  PROVE  view[u] \in Conn <=> \E c \in Conn : Holder(c, u)
  BY View, ViewAssumption DEF ViewIs

LEMMA ViewNext == AtMostOneSession' => \A u \in User : ViewIs(u)'
<1>1. (AtMostOneSession => \A u \in User : ViewIs(u))'
  BY View, PTL
<1> QED  BY <1>1

\* A user whose holders stay and whose row stays is seen the same.
LEMMA Spared ==
  ASSUME AtMostOneSession, AtMostOneSession', NEW u \in User,
         user'[u] = "online" <=> user[u] = "online",
         \A d \in Conn : Holder(d, u)' <=> Holder(d, u)
  PROVE  view'[u] = view[u]
<1>1. ViewIs(u) /\ ViewIs(u)'
  BY View, ViewNext
<1>2. CASE \E d \in Conn : Holder(d, u)
  BY <1>1, <1>2 DEF ViewIs
<1>3. CASE \A d \in Conn : ~Holder(d, u)
  BY <1>1, <1>3 DEF ViewIs
<1> QED  BY <1>2, <1>3

LEMMA EndsOnlyLoses ==
  ASSUME SerialInv, SerialInv', EndsOnly
  PROVE  \E D \in SUBSET User : P!Lose(D)
<1>1. AtMostOneSession /\ AtMostOneSession' /\ HolderIsOnline
  BY DEF SerialInv
<1> DEFINE D == {u \in User : \E c \in Conn : Holder(c, u) /\ ~Holder(c, u)'}
<1>2. \A u \in D : view[u] \in Conn
  BY <1>1, ViewInConn
<1>3. ASSUME NEW u \in User, u \in D PROVE view'[u] = Lost
  <2>1. PICK c \in Conn : Holder(c, u) /\ ~Holder(c, u)'
    BY <1>3
  <2>2. \A d \in Conn : ~Holder(d, u)'
    BY <1>1, <2>1 DEF EndsOnly, NoNewHolder, AtMostOneSession
  <2>3. user'[u] = "online"
    BY <1>1, <2>1 DEF EndsOnly, HolderIsOnline
  <2> QED  BY <1>1, <2>2, <2>3, ViewNext DEF ViewIs
<1>4. ASSUME NEW u \in User, u \notin D PROVE view'[u] = view[u]
  <2>1. \A c \in Conn : Holder(c, u)' <=> Holder(c, u)
    BY <1>4 DEF EndsOnly, NoNewHolder
  <2> QED  BY <1>1, <2>1, Spared DEF EndsOnly
<1>5. view' = [u \in User |-> IF u \in D THEN Lost ELSE view[u]]
  <2>1. view' = [u \in User |-> view'[u]]
    BY Zenon DEF view
  <2> QED  BY <1>3, <1>4, <2>1, Zenon
<1>6. P!Lose(D)
  BY <1>2, <1>5 DEF P!Lose, view
<1> QED  BY <1>6

\* presence' when only u is seen otherwise.
LEMMA OneMoves ==
  ASSUME AtMostOneSession, AtMostOneSession', NEW u \in User, SparesOthers(u), NEW x,
         view'[u] = x
  PROVE  view' = [view EXCEPT ![u] = x]
<1>1. \A v \in User \ {u} : view'[v] = view[v]
  BY Spared DEF SparesOthers
<1>2. /\ view = [v \in User |-> view[v]]
      /\ view' = [v \in User |-> view'[v]]
  BY Zenon DEF view
<1> HIDE DEF view
<1> QED  BY <1>1, <1>2

LEMMA BeginsAcquires ==
  ASSUME SerialInv, SerialInv', NEW u \in User, NEW c \in Conn, Begins(c, u)
  PROVE  P!Acquire(u, c)
<1>1. AtMostOneSession /\ AtMostOneSession'
  BY DEF SerialInv
<1>2. view[u] = Offline
  BY <1>1, View DEF Begins, ViewIs
<1>3. \A v \in User : view[v] # c
  <2>1. ASSUME NEW v \in User, view[v] = c PROVE FALSE
    <3>1. PICK d \in Conn : Holder(d, v)
      BY <1>1, <2>1, ViewInConn
    <3>2. d = c
      BY <1>1, <2>1, <3>1, View DEF ViewIs
    <3> QED  BY <3>1, <3>2 DEF Begins
  <2> QED  BY <2>1
<1>4. view'[u] = c
  BY <1>1, ViewNext DEF Begins, ViewIs
<1>5. view' = [view EXCEPT ![u] = c]
  BY <1>1, <1>4, OneMoves DEF Begins
<1> QED  BY <1>2, <1>3, <1>5 DEF P!Acquire, view

LEMMA GivesUpReleases ==
  ASSUME SerialInv, SerialInv', NEW u \in User, GivesUp(u)
  PROVE  P!Release(u)
<1>1. AtMostOneSession /\ AtMostOneSession'
  BY DEF SerialInv
<1>2. view[u] \in Conn
  BY <1>1, ViewInConn DEF GivesUp
<1>3. view'[u] = Offline
  BY <1>1, ViewNext DEF GivesUp, ViewIs
<1>4. view' = [view EXCEPT ![u] = Offline]
  BY <1>1, <1>3, OneMoves DEF GivesUp
<1> QED  BY <1>2, <1>4 DEF P!Release, view

\* The sessions of the cluster, as long as MySQL updates succeed and logins of one user do
\* not race, behave like the abstract presence: a user is taken only when free, and is free
\* again only when the row was set to offline.
THEOREM SessionsRefinePresence ==
  ASSUME "mysql" \notin Faults
  PROVE  SerialSpec => PresenceSpec
<1>1. Init => P!Init
  <2> SUFFICES ASSUME Init PROVE P!Init
    OBVIOUS
  <2>1. AtMostOneSession /\ \A u \in User, c \in Conn : ~Holder(c, u)
    BY SerialInit DEF SerialInv, Init, Holder, MustRelease, InSession, OtherPc
  <2>2. \A u \in User : user[u] # "online"
    BY DEF Init, StoreInit
  <2>3. \A u \in User : view[u] = Offline
    BY <2>1, <2>2, View DEF ViewIs
  <2> QED  BY <2>3 DEF P!Init, view
<1>2. SerialInv /\ SerialInv' /\ [Next /\ SerialLogins']_vars
         => [P!Next]_view
  <2> SUFFICES ASSUME SerialInv, SerialInv', [Next /\ SerialLogins']_vars
               PROVE  P!Next \/ UNCHANGED view
    OBVIOUS
  <2>1. CASE UNCHANGED vars
    <3>1. UNCHANGED <<user, pc, home, arg, session, proc, userConnMap, sweep>>
      BY <2>1 DEF vars, storeVars, connVars, procVars
    <3> QED
      BY <3>1 DEF view, PresenceOf, Holder, MustRelease, InSession, SweptAway
  <2>2. CASE Next /\ SerialLogins'
    <3>1. Change
      BY <2>2, SerialRequest, SerialLogin, SerialLeave, SerialOther, SerialProcess
         DEF Next, SerialInv
    <3> QED  BY <3>1, EndsOnlyLoses, BeginsAcquires, GivesUpReleases DEF Change, P!Next
  <2> QED  BY <2>1, <2>2
<1>3. SerialSpec => []SerialInv
  BY SerialInvariant
<1>4. P!Init /\ [][P!Next]_view => PresenceSpec
  BY DEF PresenceSpec, P!Spec, view
<1> QED  BY <1>1, <1>2, <1>3, <1>4, PTL DEF SerialSpec

-----------------------------------------------------------------------------
\* Rows, routes and sessions.

\* No Ctrl-C: no process is in ServerOffline, and nothing is swept away.
Running == \A s \in Server : proc[s] # "stopping"

LEMMA RunningInit == Init => Running
  BY DEF Init, Running

LEMMA RunningStep ==
  ASSUME "sigint" \notin Faults, TypeOK, Running, [Next]_vars PROVE Running'
<1>1. ASSUME NEW s \in Server, ProcessStep(s) PROVE Running'
  BY <1>1
     DEF ProcessStep, Running, TypeOK, StopLock, StopReset, StopHdel, StopExit, Kill, Die,
         Restart, connVars
<1>2. ASSUME NEW c \in Conn,
             Request(c) \/ LoginStep(c) \/ LogoutStep(c) \/ CloseStep(c) \/ OtherStep(c)
      PROVE  proc' = proc
  <2>1. CASE Request(c)
    BY <2>1
       DEF Request, Accept, ClientAESkey, Reg, LoginQuery, LogoutErase, OtherRequest,
           Disconnect, procVars
  <2>2. CASE LoginStep(c)
    BY <2>2
       DEF LoginStep, LoginRefused, LoginUpdate, LoginInsert, LoginHset, LoginGroups,
           LoginSadd, LoginOffline, LoginRemove, LoginThrow, LoginAck, procVars
  <2>3. CASE LogoutStep(c) \/ CloseStep(c)
    BY <2>3
       DEF LogoutStep, LogoutHdel, LogoutUpdate, CloseStep, CloseErase, CloseHdel,
           CloseUpdate, CloseKey, procVars
  <2>4. CASE OtherStep(c)
    BY <2>4 DEF OtherStep, OtherLock, OtherUnlock, OtherInsert, OtherDone, procVars
  <2> QED  BY <1>2, <2>1, <2>2, <2>3, <2>4
<1>3. CASE UNCHANGED vars
  BY <1>3 DEF vars, procVars, Running
<1>4. CASE Next
  BY <1>1, <1>2, <1>4 DEF Next, Running
<1> QED  BY <1>3, <1>4

LEMMA NobodySwept ==
  ASSUME Running, NEW c \in Conn, NEW u \in User
  PROVE  ~SweptAway(c, u) /\ (Holder(c, u) <=> MustRelease(c, u))
  BY DEF Running, SweptAway, Holder

-----------------------------------------------------------------------------
\* Nobody is locked out

\* Who will set the row of u to offline: an entry, which a logout or a close callback
\* finds, or a handler that has the user in hand.
InHand == {"login_insert", "out_hdel", "out_update", "close_hdel", "close_update"}

Entered(u) == \E s \in Server : userConnMap[s][u] # NoConn

Handled(u) == \E c \in Conn : arg[c] = u /\ pc[c] \in InHand

RowsReleased == \A u \in User : user[u] = "online" => Entered(u) \/ Handled(u)

\* The step of c leaves the tables alone and does not drop what c has in hand.
LEMMA StillReleased ==
  ASSUME RowsReleased, NEW c \in Conn, userConnMap' = userConnMap,
         \A u \in User : user'[u] = "online" => user[u] = "online",
         \A d \in Conn \ {c} : arg'[d] = arg[d] /\ pc'[d] = pc[d],
         pc[c] \in InHand /\ arg[c] \in User
             => \/ user'[arg[c]] # "online"
                \/ pc'[c] \in InHand /\ arg'[c] = arg[c]
  PROVE  RowsReleased'
<1> SUFFICES ASSUME NEW u \in User, user'[u] = "online"
             PROVE  (Entered(u) \/ Handled(u))'
  BY DEF RowsReleased
<1>1. CASE Entered(u)
  BY <1>1 DEF Entered
<1>2. ASSUME NEW d \in Conn, arg[d] = u, pc[d] \in InHand PROVE Handled(u)'
  <2>1. CASE d = c
    BY <1>2, <2>1 DEF Handled
  <2>2. CASE d # c
    BY <1>2, <2>2 DEF Handled
  <2> QED  BY <2>1, <2>2
<1> QED  BY <1>1, <1>2 DEF RowsReleased, Handled

LEMMA ReleasedRequest ==
  ASSUME SessionInv, RowsReleased, NEW c \in Conn, Request(c) PROVE RowsReleased'
<1> USE DEF SessionInv, TypeOK, Goto
<1>1. ASSUME NEW s \in Server, Accept(c, s) PROVE RowsReleased'
  BY <1>1, StillReleased DEF Accept, InHand, storeVars, procVars
<1>2. CASE ClientAESkey(c)
  BY <1>2, StillReleased DEF ClientAESkey, InHand, storeVars, procVars
<1>3. ASSUME NEW u \in User, Reg(c, u) PROVE RowsReleased'
  BY <1>3, StillReleased DEF Reg, InsertUser, StoreTypeOK, InHand, connVars, procVars
<1>4. ASSUME NEW u \in User, LoginQuery(c, u) PROVE RowsReleased'
  BY <1>4, StillReleased DEF LoginQuery, InHand, storeVars, procVars
<1>5. CASE LogoutErase(c)
  <2> SUFFICES ASSUME NEW u \in User, user[u] = "online"
               PROVE  (Entered(u) \/ Handled(u))'
    BY <1>5 DEF LogoutErase, RowsReleased, storeVars
  <2>1. CASE u = session[c]
    BY <1>5, <2>1 DEF LogoutErase, Handled, InHand
  <2>2. ASSUME u # session[c], NEW s \in Server, userConnMap[s][u] # NoConn
        PROVE  Entered(u)'
    BY <1>5, <2>2 DEF LogoutErase, SetEntry, Entered
  <2>3. ASSUME NEW d \in Conn, arg[d] = u, pc[d] \in InHand PROVE Handled(u)'
    BY <1>5, <2>3 DEF LogoutErase, Receives, Handled, InHand
  <2> QED  BY <2>1, <2>2, <2>3 DEF RowsReleased, Entered, Handled
<1>6. CASE OtherRequest(c)
  BY <1>6, StillReleased DEF OtherRequest, Receives, InHand, storeVars, procVars
<1>7. CASE Disconnect(c)
  BY <1>7, StillReleased DEF Disconnect, InHand, storeVars, procVars
<1> QED  BY <1>1, <1>2, <1>3, <1>4, <1>5, <1>6, <1>7 DEF Request

LEMMA ReleasedLogin ==
  ASSUME "mysql" \notin Faults, SessionInv, RowsReleased, NEW c \in Conn, LoginStep(c)
  PROVE  RowsReleased'
<1> USE DEF SessionInv, TypeOK, Goto
<1>1. CASE LoginRefused(c)
  BY <1>1, StillReleased DEF LoginRefused, InHand, storeVars, procVars
<1>2. CASE LoginUpdate(c)
  <2> SUFFICES ASSUME NEW u \in User, user'[u] = "online"
               PROVE  (Entered(u) \/ Handled(u))'
    BY DEF RowsReleased
  <2>1. CASE u = arg[c]
    <3>1. arg'[c] = u /\ pc'[c] \in InHand
      BY <1>2, <2>1 DEF LoginUpdate, InHand
    <3> QED  BY <3>1 DEF Handled
  <2>2. CASE u # arg[c]
    <3>1. user[u] = "online"
      BY <1>2, <2>2 DEF LoginUpdate, UpdateState
    <3>2. ASSUME NEW d \in Conn, arg[d] = u, pc[d] \in InHand PROVE Handled(u)'
      BY <1>2, <3>2 DEF LoginUpdate, Handled, InHand
    <3>3. Entered(u) => Entered(u)'
      BY <1>2 DEF LoginUpdate, Entered, procVars
    <3> QED  BY <3>1, <3>2, <3>3 DEF RowsReleased, Handled
  <2> QED  BY <2>1, <2>2
<1>3. CASE LoginInsert(c)
  <2> SUFFICES ASSUME NEW u \in User, user[u] = "online"
               PROVE  (Entered(u) \/ Handled(u))'
    BY <1>3 DEF LoginInsert, RowsReleased, storeVars
  <2>1. home[c] \in Server /\ arg[c] \in User /\ c # NoConn
    <3>1. pc[c] = "login_insert"
      BY <1>3 DEF LoginInsert
    <3>2. pc[c] # "free" /\ pc[c] \in LoginPc
      BY <3>1 DEF LoginPc
    <3> QED  BY <3>2 DEF ConnOK
  <2>2. CASE u = arg[c]
    <3>1. userConnMap'[home[c]][u] # NoConn
      BY <1>3, <2>1, <2>2 DEF LoginInsert, SetEntry
    <3> QED  BY <2>1, <3>1 DEF Entered
  <2>3. ASSUME NEW s \in Server, userConnMap[s][u] # NoConn PROVE Entered(u)'
    <3>1. CASE userConnMap' = userConnMap
      BY <2>3, <3>1 DEF Entered
    <3>2. CASE SetEntry(home[c], arg[c], c)
      <4>1. userConnMap'[s][u] # NoConn
        BY <2>1, <2>3, <3>2, EntrySet
      <4> QED  BY <4>1 DEF Entered
    <3> QED  BY <1>3, <3>1, <3>2 DEF LoginInsert
  <2>4. ASSUME u # arg[c], NEW d \in Conn, arg[d] = u, pc[d] \in InHand
        PROVE  Handled(u)'
    BY <1>3, <2>4 DEF LoginInsert, Handled, InHand
  <2> QED  BY <2>2, <2>3, <2>4 DEF RowsReleased, Entered, Handled
<1>4. CASE LoginHset(c)
  BY <1>4, StillReleased DEF LoginHset, InHand, mysqlVars, procVars
<1>5. CASE LoginGroups(c)
  BY <1>5, StillReleased DEF LoginGroups, InHand, storeVars, procVars
<1>6. CASE LoginSadd(c)
  BY <1>6, StillReleased DEF LoginSadd, InHand, mysqlVars, procVars
<1>7. CASE LoginOffline(c)
  BY <1>7, StillReleased DEF LoginOffline, InHand, storeVars, procVars
<1>8. CASE LoginRemove(c)
  BY <1>8, StillReleased DEF LoginRemove, InHand, procVars
<1>9. CASE LoginAck(c)
  BY <1>9, StillReleased DEF LoginAck, InHand, storeVars, procVars
<1>10. CASE LoginThrow(c)
  BY <1>10, StillReleased DEF LoginThrow, InHand, storeVars, procVars
<1> QED
  BY <1>1, <1>2, <1>3, <1>4, <1>5, <1>6, <1>7, <1>8, <1>9, <1>10 DEF LoginStep

LEMMA ReleasedLeave ==
  ASSUME "mysql" \notin Faults, SessionInv, RowsReleased, NEW c \in Conn,
         LogoutStep(c) \/ CloseStep(c)
  PROVE  RowsReleased'
<1> USE DEF SessionInv, TypeOK, Goto
<1>1. CASE LogoutHdel(c)
  BY <1>1, StillReleased DEF LogoutHdel, InHand, mysqlVars, procVars
<1>2. CASE LogoutUpdate(c)
  BY <1>2, StillReleased
     DEF LogoutUpdate, UpdateState, StoreTypeOK, InHand, procVars
<1>3. CASE CloseErase(c)
  <2> SUFFICES ASSUME NEW u \in User, user[u] = "online"
               PROVE  (Entered(u) \/ Handled(u))'
    BY <1>3 DEF CloseErase, RowsReleased, storeVars
  <2>1. ASSUME NEW d \in Conn, arg[d] = u, pc[d] \in InHand PROVE Handled(u)'
    <3>1. d # c
      BY <1>3, <2>1 DEF CloseErase, InHand
    <3>2. arg'[d] = arg[d] /\ pc'[d] = pc[d]
      BY <1>3, <3>1 DEF CloseErase
    <3> QED  BY <2>1, <3>2 DEF Handled
  <2>2. ASSUME NEW s \in Server, userConnMap[s][u] # NoConn PROVE (Entered(u) \/ Handled(u))'
    <3>1. CASE userConnMap' = userConnMap
      BY <2>2, <3>1 DEF Entered
    <3>2. ASSUME NEW v \in User, userConnMap[home[c]][v] = c, SetEntry(home[c], v, NoConn),
                 arg' = [arg EXCEPT ![c] = v], pc' = [pc EXCEPT ![c] = "close_hdel"]
          PROVE  (Entered(u) \/ Handled(u))'
      <4>1. CASE u = v
        BY <3>2, <4>1 DEF Handled, InHand
      <4>2. CASE u # v
        <5>1. userConnMap'[s][u] = userConnMap[s][u]
          BY <3>2, <4>2 DEF SetEntry
        <5> QED  BY <2>2, <5>1 DEF Entered
      <4> QED  BY <4>1, <4>2
    <3> QED  BY <1>3, <3>1, <3>2 DEF CloseErase
  <2> QED  BY <2>1, <2>2 DEF RowsReleased, Entered, Handled
<1>4. CASE CloseHdel(c)
  BY <1>4, StillReleased DEF CloseHdel, InHand, mysqlVars
<1>5. CASE CloseUpdate(c)
  BY <1>5, StillReleased
     DEF CloseUpdate, UpdateState, StoreTypeOK, InHand, procVars
<1>6. CASE CloseKey(c)
  BY <1>6, StillReleased DEF CloseKey, InHand, storeVars, procVars
<1> QED  BY <1>1, <1>2, <1>3, <1>4, <1>5, <1>6 DEF LogoutStep, CloseStep

LEMMA ReleasedOther ==
  ASSUME SessionInv, RowsReleased, NEW c \in Conn, OtherStep(c) PROVE RowsReleased'
<1> USE DEF SessionInv, TypeOK, Goto
<1>1. CASE OtherLock(c)
  BY <1>1, StillReleased DEF OtherLock, InHand, storeVars
<1>2. CASE OtherUnlock(c)
  BY <1>2, StillReleased DEF OtherUnlock, InHand, storeVars
<1>3. CASE OtherInsert(c)
  BY <1>3, StillReleased DEF OtherInsert, InHand, connVars, procVars
<1>4. CASE OtherDone(c)
  BY <1>4, StillReleased DEF OtherDone, InHand, storeVars, procVars
<1> QED  BY <1>1, <1>2, <1>3, <1>4 DEF OtherStep

\* A user whose row says online has a connection that will log the user off, even when
\* logins of one user race, as long as updates succeed and processes neither die nor stop:
\* nobody is refused by login for ever.
THEOREM NobodyIsLockedOut ==
  ASSUME Faults \subseteq {"redis", "gbk"}
  PROVE  Spec => []NoStuckUser
<1> DEFINE I == SessionInv /\ Running /\ RowsReleased
<1>1. Init => I
  <2>1. Init => RowsReleased
    BY DEF Init, StoreInit, RowsReleased
  <2> QED  BY <2>1, InvInit, RunningInit
<1>2. I /\ [Next]_vars => I'
  <2> SUFFICES ASSUME I, [Next]_vars PROVE I'
    OBVIOUS
  <2>1. SessionInv' /\ Running'
    BY InvStep, RunningStep DEF SessionInv
  <2>2. ASSUME UNCHANGED <<user, pc, arg, userConnMap>> PROVE RowsReleased'
    BY <2>2 DEF RowsReleased, Entered, Handled
  <2>3. ASSUME NEW s \in Server, ProcessStep(s) PROVE RowsReleased'
    <3>1. UNCHANGED <<user, pc, arg, userConnMap>>
      BY <2>3
         DEF ProcessStep, StopLock, StopReset, StopHdel, StopExit, Kill, Restart, Running,
             SessionInv, SweepInTable, storeVars, mysqlVars, connVars
    <3> QED  BY <2>2, <3>1
  <2>4. ASSUME UNCHANGED vars PROVE RowsReleased'
    BY <2>2, <2>4 DEF vars, storeVars, connVars, procVars
  <2>5. "mysql" \notin Faults /\ SessionInv /\ RowsReleased
    OBVIOUS
  <2> HIDE DEF I
  <2>6. ASSUME Next PROVE RowsReleased'
    BY <2>3, <2>5, <2>6, ReleasedRequest, ReleasedLogin, ReleasedLeave, ReleasedOther, Zenon
       DEF Next
  <2>7. RowsReleased'
    BY <2>4, <2>6
  <2> QED  BY <2>1, <2>7 DEF I
<1>3. I => NoStuckUser
  <2> SUFFICES ASSUME I, NEW u \in User, user[u] = "online"
               PROVE  \E c \in Conn : Holder(c, u)
    BY DEF NoStuckUser
  <2>1. ASSUME NEW c \in Conn, arg[c] = u, pc[c] \in InHand PROVE Holder(c, u)
    <3>1. MustRelease(c, u)
      BY <2>1 DEF InHand, MustRelease
    <3>2. Holder(c, u) <=> MustRelease(c, u)
      BY NobodySwept, Zenon
    <3> QED  BY <3>1, <3>2
  <2>2. ASSUME NEW s \in Server, userConnMap[s][u] # NoConn
        PROVE  \E c \in Conn : Holder(c, u)
    <3>1. PICK c \in Conn : userConnMap[s][u] = c
      BY <2>2 DEF SessionInv, TypeOK
    <3>2. InSession(c, u)
      BY <3>1, EntrySession DEF SessionInv
    <3>3. MustRelease(c, u)
      BY <3>2 DEF MustRelease
    <3>4. Holder(c, u) <=> MustRelease(c, u)
      BY NobodySwept, Zenon
    <3> QED  BY <3>3, <3>4
  <2> QED  BY <2>1, <2>2 DEF RowsReleased, Entered, Handled
<1> QED  BY <1>1, <1>2, <1>3, PTL DEF Spec

-----------------------------------------------------------------------------
\* The three places agree

Clean == Faults \subseteq {"kill", "gbk"}

\* Where the Redis field of a user in a session is empty: before login's hset and after the
\* hdel of the handler that gives the session up.
FieldEmpty == {"login_insert", "login_hset", "out_update", "close_update"}

Routed(c, u) ==
    /\ InSession(c, u) => userConnMap[home[c]][u] = c
    /\ MustRelease(c, u) => onlineUser[u] = IF pc[c] \in FieldEmpty THEN NoServer ELSE home[c]

RouteInv ==
    /\ \A c \in Conn, u \in User : Routed(c, u)
    /\ \A u \in User : user[u] # "online" => onlineUser[u] = NoServer

LEMMA Sole ==
  ASSUME SerialInv, Running, NEW c \in Conn, NEW d \in Conn, NEW u \in User,
         MustRelease(c, u)
  PROVE  user[u] = "online" /\ (MustRelease(d, u) => d = c)
<1>1. Holder(c, u) /\ (Holder(d, u) <=> MustRelease(d, u))
  BY NobodySwept
<1> QED  BY <1>1 DEF SerialInv, HolderIsOnline, AtMostOneSession

\* The other connections at a step of c.
LEMMA OthersRouted ==
  ASSUME RouteInv, NEW c \in Conn, NEW d \in Conn, NEW v \in User, d # c,
         pc'[d] = pc[d], session'[d] = session[d], arg'[d] = arg[d], home'[d] = home[d],
         userConnMap[home[d]][v] = d => userConnMap'[home[d]][v] = d,
         MustRelease(d, v) => onlineUser'[v] = onlineUser[v]
  PROVE  Routed(d, v)'
<1>1. MustRelease(d, v)' <=> MustRelease(d, v)
  BY Frame
<1>2. InSession(d, v)' <=> InSession(d, v)
  BY DEF InSession
<1> QED  BY <1>1, <1>2 DEF RouteInv, Routed

\* A step of c that leaves the table, the hash and the rows alone.
LEMMA QuietStep ==
  ASSUME RouteInv, NEW c \in Conn,
         UNCHANGED <<userConnMap, onlineUser>>,
         \A u \in User : user'[u] = "online" <=> user[u] = "online",
         \A d \in Conn \ {c} : /\ pc'[d] = pc[d]
                               /\ session'[d] = session[d]
                               /\ arg'[d] = arg[d]
                               /\ home'[d] = home[d],
         home'[c] = home[c] \/ \A u \in User : ~MustRelease(c, u)',
         \A u \in User : InSession(c, u)' => InSession(c, u),
         \A u \in User : MustRelease(c, u)' =>
             MustRelease(c, u) /\ (pc'[c] \in FieldEmpty <=> pc[c] \in FieldEmpty)
  PROVE  RouteInv'
<1>1. ASSUME NEW d \in Conn, NEW v \in User PROVE Routed(d, v)'
  <2>1. CASE d = c
    <3>1. CASE MustRelease(c, v)'
      BY <2>1, <3>1 DEF RouteInv, Routed
    <3>2. CASE ~MustRelease(c, v)'
      BY <2>1, <3>2 DEF Routed, MustRelease
    <3> QED  BY <3>1, <3>2
  <2>2. CASE d # c
    BY <2>2, OthersRouted
  <2> QED  BY <2>1, <2>2
<1> QED  BY <1>1 DEF RouteInv

\* A step of c, which has u in hand, on the entry, the field or the row of u.
LEMMA RestRouted ==
  ASSUME SerialInv, Running, RouteInv, NEW c \in Conn, NEW u,
         u \in User => MustRelease(c, u),
         \A d \in Conn \ {c} : /\ pc'[d] = pc[d]
                               /\ session'[d] = session[d]
                               /\ arg'[d] = arg[d]
                               /\ home'[d] = home[d],
         \A v \in User \ {u} :
             /\ onlineUser'[v] = onlineUser[v]
             /\ \A s \in Server : userConnMap'[s][v] = userConnMap[s][v]
  PROVE  \A d \in Conn \ {c}, v \in User : Routed(d, v)'
<1> SUFFICES ASSUME NEW d \in Conn \ {c}, NEW v \in User PROVE Routed(d, v)'
  OBVIOUS
<1>1. MustRelease(d, v)' <=> MustRelease(d, v)
  BY Frame
<1>2. CASE ~MustRelease(d, v)
  BY <1>1, <1>2 DEF Routed, MustRelease
<1>3. CASE MustRelease(d, v)
  <2>1. v # u
    BY <1>3, Sole
  <2>2. home[d] \in Server
    <3>1. pc[d] # "free"
      BY <1>3 DEF MustRelease, InSession, OtherPc
    <3> QED  BY <3>1 DEF SerialInv, SessionInv, ConnOK, TypeOK
  <2> QED  BY <2>1, <2>2, OthersRouted
<1> QED  BY <1>2, <1>3

\* Nobody else has an entry of the user that c has in hand.
LEMMA EntryIsMine ==
  ASSUME SerialInv, Running, NEW c \in Conn, NEW u \in User, MustRelease(c, u),
         NEW s \in Server, userConnMap[s][u] # NoConn
  PROVE  userConnMap[s][u] = c /\ InSession(c, u)
<1>1. PICK d \in Conn : userConnMap[s][u] = d
  BY DEF SerialInv, SessionInv, TypeOK
<1>2. InSession(d, u)
  BY <1>1, EntrySession DEF SerialInv
<1>3. d = c
  BY <1>2, Sole DEF MustRelease
<1> QED  BY <1>1, <1>2, <1>3

LEMMA RouteRequest ==
  ASSUME Clean, SerialInv, Running, RouteInv, NEW c \in Conn, Request(c) PROVE RouteInv'
<1> USE DEF SerialInv, SessionInv, TypeOK, Goto
<1>1. ASSUME NEW s \in Server, Accept(c, s) PROVE RouteInv'
  <2>1. \A u \in User : ~MustRelease(c, u)'
    BY <1>1 DEF Accept, MustRelease, InSession, OtherPc, ConnOK
  <2> QED  BY <1>1, <2>1, QuietStep DEF Accept, MustRelease, storeVars, procVars
<1>2. CASE ClientAESkey(c)
  BY <1>2, QuietStep DEF ClientAESkey, MustRelease, InSession, storeVars, procVars
<1>3. ASSUME NEW u \in User, Reg(c, u) PROVE RouteInv'
  BY <1>3, QuietStep
     DEF Reg, InsertUser, StoreTypeOK, MustRelease, InSession, redisVars, connVars, procVars
<1>4. ASSUME NEW u \in User, LoginQuery(c, u) PROVE RouteInv'
  <2>1. \A v \in User : ~MustRelease(c, v)'
    BY <1>4 DEF LoginQuery, MustRelease, InSession, OtherPc
  <2> QED  BY <1>4, <2>1, QuietStep DEF LoginQuery, MustRelease, storeVars, procVars
<1>5. CASE LogoutErase(c)
  <2> DEFINE u == session[c]
  <2>1. u \in User /\ home[c] \in Server
    BY <1>5 DEF LogoutErase, Receives, ConnOK
  <2>2. InSession(c, u) /\ MustRelease(c, u)
    BY <1>5 DEF LogoutErase, Receives, MustRelease, InSession
  <2>3. \A d \in Conn \ {c}, v \in User : Routed(d, v)'
    <3>1. \A s \in Server, v \in User \ {u} : userConnMap'[s][v] = userConnMap[s][v]
      BY <1>5, <2>1, EntrySet DEF LogoutErase
    <3> QED  BY <1>5, <2>2, <3>1, RestRouted DEF LogoutErase, storeVars
  <2>4. \A v \in User : Routed(c, v)'
    <3>1. onlineUser[u] = home[c]
      BY <1>5, <2>1, <2>2 DEF RouteInv, Routed, LogoutErase, Receives, FieldEmpty
    <3> QED
      BY <1>5, <3>1
         DEF LogoutErase, Routed, MustRelease, InSession, OtherPc, FieldEmpty, storeVars
  <2> QED  BY <1>5, <2>3, <2>4 DEF RouteInv, LogoutErase, storeVars
<1>6. CASE OtherRequest(c)
  BY <1>6, QuietStep
     DEF OtherRequest, Receives, MustRelease, InSession, OtherPc, FieldEmpty, storeVars,
         procVars
<1>7. CASE Disconnect(c)
  BY <1>7, QuietStep
     DEF Disconnect, MustRelease, InSession, OtherPc, FieldEmpty, storeVars, procVars
<1> QED  BY <1>1, <1>2, <1>3, <1>4, <1>5, <1>6, <1>7 DEF Request

LEMMA RouteLogin ==
  ASSUME Clean, SerialInv, Running, RouteInv, NEW c \in Conn, LoginStep(c) PROVE RouteInv'
<1> USE DEF SerialInv, SessionInv, TypeOK, Goto
<1> DEFINE u == arg[c]
<1>0. pc[c] \in LoginPc \ {"login_failed", "login_online"}
        => u \in User /\ home[c] \in Server /\ session[c] = NoUser
  BY DEF ConnOK, LoginPc
<1>1. CASE LoginRefused(c)
  <2>1. \A v \in User : ~MustRelease(c, v)'
    BY <1>1 DEF LoginRefused, MustRelease, InSession, OtherPc, ConnOK, LoginPc
  <2> QED  BY <1>1, <2>1, QuietStep DEF LoginRefused, MustRelease, storeVars, procVars
<1>2. CASE LoginUpdate(c)
  <2>1. u \in User /\ user[u] = "offline"
    BY <1>0, <1>2 DEF LoginUpdate, LoginPc, WindowIsValid
  <2>2. onlineUser[u] = NoServer
    BY <2>1 DEF RouteInv
  <2>3. \A d \in Conn \ {c}, v \in User : Routed(d, v)'
    BY <1>2, OthersRouted DEF LoginUpdate, redisVars, procVars
  <2>4. \A v \in User : Routed(c, v)'
    BY <1>2, <2>2
       DEF LoginUpdate, Routed, MustRelease, InSession, OtherPc, FieldEmpty, redisVars,
           procVars
  <2>5. \A v \in User : user'[v] # "online" => user[v] # "online"
    BY <1>2, <2>1 DEF LoginUpdate, UpdateState, Clean
  <2> QED  BY <1>2, <2>3, <2>4, <2>5 DEF RouteInv, LoginUpdate, redisVars
<1>3. CASE LoginInsert(c)
  <2>1. u \in User /\ home[c] \in Server /\ session[c] = NoUser
    BY <1>0, <1>3 DEF LoginInsert, LoginPc
  <2>2. MustRelease(c, u) /\ ~InSession(c, u)
    BY <1>3 DEF LoginInsert, MustRelease, InSession, OtherPc
  <2>3. userConnMap[home[c]][u] = NoConn
    BY <2>1, <2>2, EntryIsMine
  <2>4. userConnMap'[home[c]][u] = c
    BY <1>3, <2>1, <2>3 DEF LoginInsert, SetEntry
  <2>5. \A d \in Conn \ {c}, v \in User : Routed(d, v)'
    <3>1. \A s \in Server, v \in User \ {u} : userConnMap'[s][v] = userConnMap[s][v]
      BY <1>3, <2>1, EntrySet DEF LoginInsert
    <3> QED  BY <1>3, <2>2, <3>1, RestRouted DEF LoginInsert, storeVars
  <2>6. onlineUser[u] = NoServer
    BY <1>3, <2>1, <2>2 DEF RouteInv, Routed, LoginInsert, FieldEmpty
  <2>7. \A v \in User : Routed(c, v)'
    BY <1>3, <2>4, <2>6
       DEF LoginInsert, Routed, MustRelease, InSession, OtherPc, FieldEmpty, storeVars
  <2> QED  BY <1>3, <2>5, <2>7 DEF RouteInv, LoginInsert, storeVars
<1>4. CASE LoginHset(c)
  <2>1. u \in User /\ home[c] \in Server /\ session[c] = NoUser
    BY <1>0, <1>4 DEF LoginHset, LoginPc
  <2>2. MustRelease(c, u) /\ InSession(c, u)
    BY <1>4 DEF LoginHset, MustRelease, InSession
  <2>3. onlineUser' = [onlineUser EXCEPT ![u] = home[c]]
    BY <1>4 DEF LoginHset, HSet, Clean
  <2>4. \A d \in Conn \ {c}, v \in User : Routed(d, v)'
    BY <1>4, <2>1, <2>2, <2>3, RestRouted DEF LoginHset, StoreTypeOK, procVars
  <2>5. \A v \in User : Routed(c, v)'
    <3>1. userConnMap[home[c]][u] = c
      BY <2>1, <2>2 DEF RouteInv, Routed
    <3> QED
      BY <1>4, <2>1, <2>3, <3>1
         DEF LoginHset, Routed, MustRelease, InSession, OtherPc, FieldEmpty, StoreTypeOK,
             procVars
  <2>6. user[u] = "online"
    BY <2>1, <2>2, Sole
  <2>7. \A d \in Conn, v \in User : Routed(d, v)'
    BY <2>4, <2>5
  <2>8. \A v \in User : user'[v] # "online" => onlineUser'[v] = NoServer
    BY <1>4, <2>3, <2>6 DEF RouteInv, LoginHset, mysqlVars
  <2> QED  BY <2>7, <2>8, Zenon DEF RouteInv
<1>5. CASE LoginGroups(c)
  BY <1>5, QuietStep
     DEF LoginGroups, MustRelease, InSession, OtherPc, FieldEmpty, storeVars, procVars
<1>6. CASE LoginSadd(c)
  BY <1>6, QuietStep
     DEF LoginSadd, MustRelease, InSession, OtherPc, FieldEmpty, mysqlVars, procVars
<1>7. CASE LoginOffline(c)
  BY <1>7, QuietStep
     DEF LoginOffline, MustRelease, InSession, OtherPc, FieldEmpty, storeVars, procVars
<1>8. CASE LoginRemove(c)
  BY <1>8, QuietStep
     DEF LoginRemove, MustRelease, InSession, OtherPc, FieldEmpty, redisVars, procVars
<1>9. CASE LoginAck(c)
  BY <1>9, QuietStep
     DEF LoginAck, MustRelease, InSession, OtherPc, FieldEmpty, storeVars, procVars
<1>10. CASE LoginThrow(c)
  BY <1>10, QuietStep
     DEF LoginThrow, MustRelease, InSession, OtherPc, FieldEmpty, storeVars, procVars
<1> QED
  BY <1>1, <1>2, <1>3, <1>4, <1>5, <1>6, <1>7, <1>8, <1>9, <1>10 DEF LoginStep

\* HDEL for a user that c has in hand, or for none.
LEMMA FieldDeleted ==
  ASSUME Clean, SerialInv, Running, RouteInv, NEW c \in Conn,
         pc[c] \in {"out_hdel", "close_hdel"}, HDel(arg[c]),
         pc' = [pc EXCEPT ![c] = IF pc[c] = "out_hdel" THEN "out_update" ELSE "close_update"],
         UNCHANGED <<user, home, arg, session, userConnMap>>
  PROVE  RouteInv'
<1> USE DEF SerialInv, SessionInv, TypeOK
<1> DEFINE u == arg[c]
<1>1. u \in User => MustRelease(c, u)
  BY DEF MustRelease
<1>2. onlineUser' = [onlineUser EXCEPT ![u] = NoServer]
  BY DEF HDel, Clean
<1>3. \A v \in User : onlineUser'[v] = IF v = u THEN NoServer ELSE onlineUser[v]
  BY <1>2 DEF StoreTypeOK
<1>4. \A d \in Conn \ {c}, v \in User : Routed(d, v)'
  BY <1>1, <1>3, RestRouted
<1>5. \A v \in User : Routed(c, v)'
  BY <1>3 DEF Routed, MustRelease, InSession, OtherPc, FieldEmpty
<1>6. \A d \in Conn, v \in User : Routed(d, v)'
  BY <1>4, <1>5
<1>7. \A v \in User : user'[v] # "online" => onlineUser'[v] = NoServer
  BY <1>3 DEF RouteInv
<1> QED  BY <1>6, <1>7, Zenon DEF RouteInv

\* The row of a user that c has in hand, or of none, goes offline; c is then in no session.
LEMMA RowReset ==
  ASSUME Clean, SerialInv, Running, RouteInv, NEW c \in Conn,
         pc[c] \in {"out_update", "close_update"}, UpdateState(arg[c], "offline"),
         \A u \in User : ~MustRelease(c, u)',
         \A d \in Conn \ {c} : /\ pc'[d] = pc[d]
                               /\ session'[d] = session[d]
                               /\ arg'[d] = arg[d]
                               /\ home'[d] = home[d],
         UNCHANGED <<onlineUser, userConnMap>>
  PROVE  RouteInv'
<1>1. arg[c] \in User => MustRelease(c, arg[c])
  BY DEF MustRelease
<1>2. arg[c] \in User => onlineUser[arg[c]] = NoServer
  BY <1>1 DEF RouteInv, Routed, FieldEmpty
<1>3. \A d \in Conn \ {c}, v \in User : Routed(d, v)'
  BY <1>1, RestRouted
<1>4. \A v \in User : Routed(c, v)'
  BY DEF Routed, MustRelease
<1>5. \A v \in User \ {arg[c]} : user'[v] = user[v]
  BY DEF UpdateState
<1> QED  BY <1>2, <1>3, <1>4, <1>5 DEF RouteInv

LEMMA RouteLeave ==
  ASSUME Clean, SerialInv, Running, RouteInv, NEW c \in Conn, LogoutStep(c) \/ CloseStep(c)
  PROVE  RouteInv'
<1> USE DEF SerialInv, SessionInv, TypeOK, Goto
<1>1. CASE LogoutHdel(c) \/ CloseHdel(c)
  BY <1>1, FieldDeleted DEF LogoutHdel, CloseHdel, mysqlVars, procVars
<1>2. CASE LogoutUpdate(c)
  <2>1. \A u \in User : ~MustRelease(c, u)'
    BY <1>2 DEF LogoutUpdate, MustRelease, InSession, OtherPc, ConnOK, LogoutPc
  <2> QED  BY <1>2, <2>1, RowReset DEF LogoutUpdate, redisVars, procVars
<1>3. CASE CloseUpdate(c)
  <2>1. \A u \in User : ~MustRelease(c, u)'
    BY <1>3 DEF CloseUpdate, MustRelease, InSession, OtherPc
  <2> QED  BY <1>3, <2>1, RowReset DEF CloseUpdate, redisVars, procVars
<1>4. CASE CloseErase(c)
  <2>1. home[c] \in Server /\ arg[c] = NoUser /\ pc[c] = "close_erase"
    BY <1>4 DEF CloseErase, ConnOK
  <2>2. CASE \A u \in User : userConnMap[home[c]][u] # c
    <3>1. \A v \in User : ~MustRelease(c, v)'
      BY <1>4, <2>1, <2>2 DEF CloseErase, MustRelease, InSession, OtherPc
    <3> QED  BY <1>4, <2>2, <3>1, QuietStep DEF CloseErase, MustRelease, storeVars
  <2>3. ASSUME NEW u \in User, userConnMap[home[c]][u] = c,
               SetEntry(home[c], u, NoConn), arg' = [arg EXCEPT ![c] = u],
               pc' = [pc EXCEPT ![c] = "close_hdel"]
        PROVE  RouteInv'
    <3>1. InSession(c, u) /\ MustRelease(c, u)
      BY <2>1, <2>3, EntrySession DEF MustRelease
    <3>2. onlineUser[u] = home[c]
      <4>1. Routed(c, u) /\ pc[c] \notin FieldEmpty
        BY <2>1 DEF RouteInv, FieldEmpty
      <4> QED  BY <3>1, <4>1 DEF Routed
    <3>3. \A v \in User \ {u}, s \in Server : userConnMap'[s][v] = userConnMap[s][v]
      BY <2>1, <2>3, EntrySet
    <3>4. \A d \in Conn \ {c}, v \in User : Routed(d, v)'
      <4>1. \A d \in Conn \ {c} : /\ pc'[d] = pc[d]
                                  /\ session'[d] = session[d]
                                  /\ arg'[d] = arg[d]
                                  /\ home'[d] = home[d]
        BY <1>4, <2>3 DEF CloseErase
      <4>2. onlineUser' = onlineUser
        BY <1>4 DEF CloseErase, storeVars
      <4> HIDE DEF SerialInv
      <4> QED  BY <3>1, <3>3, <4>1, <4>2, RestRouted
    <3>5. \A v \in User : Routed(c, v)'
      BY <1>4, <2>3, <3>2
         DEF CloseErase, Routed, MustRelease, InSession, OtherPc, FieldEmpty, storeVars
    <3>6. \A d \in Conn, v \in User : Routed(d, v)'
      BY <3>4, <3>5
    <3>7. \A v \in User : user'[v] # "online" => onlineUser'[v] = NoServer
      BY <1>4 DEF RouteInv, CloseErase, storeVars
    <3> QED  BY <3>6, <3>7, Zenon DEF RouteInv
  <2> QED  BY <1>4, <2>2, <2>3 DEF CloseErase
<1>5. CASE CloseKey(c)
  <2>1. \A u \in User : ~MustRelease(c, u)'
    BY <1>5 DEF CloseKey, MustRelease, InSession, OtherPc
  <2> QED  BY <1>5, <2>1, QuietStep DEF CloseKey, MustRelease, storeVars, procVars
<1> QED  BY <1>1, <1>2, <1>3, <1>4, <1>5 DEF LogoutStep, CloseStep

LEMMA RouteOther ==
  ASSUME Clean, SerialInv, Running, RouteInv, NEW c \in Conn, OtherStep(c) PROVE RouteInv'
<1> USE DEF SerialInv, SessionInv, TypeOK, Goto
<1>1. CASE OtherLock(c)
  BY <1>1, QuietStep
     DEF OtherLock, MustRelease, InSession, OtherPc, FieldEmpty, storeVars
<1>2. CASE OtherUnlock(c)
  BY <1>2, QuietStep
     DEF OtherUnlock, MustRelease, InSession, OtherPc, FieldEmpty, storeVars
<1>3. CASE OtherInsert(c)
  BY <1>3, QuietStep
     DEF OtherInsert, MustRelease, InSession, redisVars, connVars, procVars
<1>4. CASE OtherDone(c)
  BY <1>4, QuietStep
     DEF OtherDone, MustRelease, InSession, OtherPc, FieldEmpty, storeVars, procVars
<1> QED  BY <1>1, <1>2, <1>3, <1>4 DEF OtherStep

LEMMA RouteDie ==
  ASSUME SerialInv, RouteInv, NEW s \in Server, Die(s) PROVE RouteInv'
<1> USE DEF SerialInv, SessionInv, TypeOK
<1>1. ASSUME NEW d \in Conn, NEW v \in User PROVE Routed(d, v)'
  <2>1. CASE home[d] = s
    <3>1. pc'[d] = "free"
      BY <2>1 DEF Die
    <3> QED  BY <3>1 DEF Routed, MustRelease, InSession, OtherPc
  <2>2. CASE home[d] # s
    <3>1. /\ pc'[d] = pc[d]
          /\ session'[d] = session[d]
          /\ arg'[d] = arg[d]
          /\ home'[d] = home[d]
      BY <2>2 DEF Die
    <3>2. userConnMap'[home[d]][v] = userConnMap[home[d]][v] \/ home[d] \notin Server
      BY <2>2 DEF Die
    <3>3. onlineUser' = onlineUser
      BY DEF Die, storeVars
    <3>4. (MustRelease(d, v)' <=> MustRelease(d, v)) /\ (InSession(d, v)' <=> InSession(d, v))
      BY <3>1, Frame DEF InSession
    <3>5. MustRelease(d, v) => home[d] \in Server
      BY DEF MustRelease, InSession, OtherPc, ConnOK
    <3>6. Routed(d, v)
      BY DEF RouteInv
    <3> HIDE DEF TypeOK, SerialInv, SessionInv
    <3> QED  BY <3>1, <3>2, <3>3, <3>4, <3>5, <3>6 DEF Routed, MustRelease
  <2> QED  BY <2>1, <2>2
<1> QED  BY <1>1 DEF RouteInv, Die, storeVars

LEMMA RouteInvariant ==
  ASSUME Clean PROVE SerialSpec => [](SerialInv /\ Running /\ RouteInv)
<1>0. "mysql" \notin Faults /\ "sigint" \notin Faults
  BY DEF Clean
<1>1. Init => Running /\ RouteInv
  <2>1. Init => RouteInv
    BY DEF Init, StoreInit, RouteInv, Routed, InSession, MustRelease, OtherPc
  <2> QED  BY <2>1, RunningInit
<1>2. SerialInv /\ Running /\ RouteInv /\ [Next /\ SerialLogins']_vars
         => Running' /\ RouteInv'
  <2> SUFFICES ASSUME SerialInv, Running, RouteInv, [Next /\ SerialLogins']_vars
               PROVE  Running' /\ RouteInv'
    OBVIOUS
  <2>1. Running'
    BY <1>0, RunningStep DEF SerialInv, SessionInv
  <2>2. ASSUME UNCHANGED <<user, onlineUser, pc, arg, session, home, userConnMap>>
        PROVE  RouteInv'
    BY <2>2 DEF RouteInv, Routed, InSession, MustRelease
  <2>3. ASSUME NEW s \in Server, ProcessStep(s) PROVE RouteInv'
    <3>1. CASE StopLock(s) \/ Restart(s)
      BY <2>2, <3>1 DEF StopLock, Restart, storeVars, connVars
    <3>2. CASE (\E u \in User : StopReset(s, u)) \/ StopHdel(s) \/ StopExit(s)
      BY <3>2
         DEF StopReset, StopHdel, StopExit, Running, SerialInv, SessionInv, SweepInTable
    <3>3. CASE Kill(s)
      BY <3>3, RouteDie DEF Kill
    <3> QED  BY <2>3, <3>1, <3>2, <3>3 DEF ProcessStep
  <2>4. ASSUME UNCHANGED vars PROVE RouteInv'
    BY <2>2, <2>4 DEF vars, storeVars, connVars, procVars
  <2>5. ASSUME Next PROVE RouteInv'
    BY <2>3, <2>5, RouteRequest, RouteLogin, RouteLeave, RouteOther, Zenon DEF Next
  <2>6. RouteInv'
    BY <2>4, <2>5
  <2> QED  BY <2>1, <2>6
<1>3. SerialSpec => []SerialInv
  BY <1>0, SerialInvariant
<1> QED  BY <1>1, <1>2, <1>3, PTL DEF SerialSpec

\* A client that has been told errno 0 is found by everybody who looks for it: by oneChat in
\* the table, by the other servers in the hash, by the friend lists in the row.  Processes
\* may die at any point.
THEOREM AckedAreRouted ==
  ASSUME Clean PROVE SerialSpec => []AckedIsRouted
<1>1. SerialInv /\ Running /\ RouteInv => AckedIsRouted
  <2> SUFFICES ASSUME SerialInv, Running, RouteInv, NEW c \in Conn, session[c] # NoUser,
                      pc[c] \in {"idle"} \cup OtherPc
               PROVE  /\ userConnMap[home[c]][session[c]] = c
                      /\ onlineUser[session[c]] = home[c]
                      /\ user[session[c]] = "online"
    BY DEF AckedIsRouted
  <2>1. session[c] \in User
    BY DEF SerialInv, SessionInv, TypeOK
  <2>2. InSession(c, session[c]) /\ MustRelease(c, session[c])
    BY DEF InSession, MustRelease
  <2>3. pc[c] \notin FieldEmpty
    BY DEF FieldEmpty, OtherPc
  <2>4. Routed(c, session[c])
    BY <2>1 DEF RouteInv
  <2>5. user[session[c]] = "online"
    BY <2>1, <2>2, Sole
  <2> QED  BY <2>2, <2>3, <2>4, <2>5 DEF Routed
<1> QED  BY <1>1, RouteInvariant, PTL

\* A field of the hash leads to a server with a session of the user, or to the process that
\* has died with it.
THEOREM NoGhosts ==
  ASSUME Clean PROVE SerialSpec => []NoGhostRoute
<1>1. SerialInv /\ Running /\ RouteInv => NoGhostRoute
  <2> SUFFICES ASSUME SerialInv, Running, RouteInv, NEW u \in User, onlineUser[u] # NoServer
               PROVE  \/ \E c \in Conn : MustRelease(c, u) /\ home[c] = onlineUser[u]
                      \/ user[u] = "online" /\ \A c \in Conn : ~Holder(c, u)
    BY DEF NoGhostRoute
  <2>1. user[u] = "online"
    BY DEF RouteInv
  <2>2. ASSUME NEW c \in Conn, Holder(c, u) PROVE MustRelease(c, u) /\ home[c] = onlineUser[u]
    BY <2>2 DEF Holder, RouteInv, Routed
  <2> QED  BY <2>1, <2>2
<1> QED  BY <1>1, RouteInvariant, PTL
=============================================================================
