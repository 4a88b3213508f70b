---------------------------- MODULE RecordsProofs ----------------------------
(***************************************************************************)
(* Theorems about Records.tla, for any users, clients and number of        *)
(* groups, under every fault.                                              *)
(***************************************************************************)
EXTENDS Records, TLAPS

-----------------------------------------------------------------------------
\* The kinds of handlers

FriendJob == [step : {"friend1", "friend2"}, id : User, with : User]
AskJob == [step : {"group1", "query_groups"}, id : User]
GroupJob == [step : {"creator", "join"}, id : User, group : GroupId]
LoginJob ==
    [step : {"query_members", "sadd", "ack"}, id : User,
     todo : SUBSET GroupId, lists : [GroupId -> SUBSET User],
     rest : SUBSET (GroupId \X User), cached : BOOLEAN]
ChatJob == [step : {"smembers", "query_number"}, id : User, group : GroupId]
SendJob == [step : {"send"}, id : User, group : GroupId, to : SUBSET User]

\* What a handler keeps follows from its step.
LEMMA JobOfStep ==
    ASSUME TypeOK, NEW c \in Client
    PROVE  /\ At(c, "friend1") \/ At(c, "friend2") => job[c] \in FriendJob
           /\ At(c, "group1") \/ At(c, "query_groups") => job[c] \in AskJob
           /\ At(c, "creator") \/ At(c, "join") => job[c] \in GroupJob
           /\ At(c, "query_members") \/ At(c, "sadd") \/ At(c, "ack") => job[c] \in LoginJob
           /\ At(c, "smembers") \/ At(c, "query_number") => job[c] \in ChatJob
           /\ At(c, "send") => job[c] \in SendJob
<1>1. job[c] \in Job
  BY DEF TypeOK
<1>2. \/ job[c] = Idle
      \/ job[c] \in FriendJob
      \/ job[c] \in AskJob
      \/ job[c] \in GroupJob
      \/ job[c] \in LoginJob
      \/ job[c] \in ChatJob
      \/ job[c] \in SendJob
  BY <1>1 DEF Job, FriendJob, AskJob, GroupJob, LoginJob, ChatJob, SendJob
<1>3. CASE job[c] = Idle
  BY <1>3 DEF Idle, At
<1>4. CASE job[c] \in FriendJob
  <2>1. job[c].step \in {"friend1", "friend2"}
    BY <1>4 DEF FriendJob
  <2> QED  BY <1>4, <2>1 DEF At
<1>5. CASE job[c] \in AskJob
  <2>1. job[c].step \in {"group1", "query_groups"}
    BY <1>5 DEF AskJob
  <2> QED  BY <1>5, <2>1 DEF At
<1>6. CASE job[c] \in GroupJob
  <2>1. job[c].step \in {"creator", "join"}
    BY <1>6 DEF GroupJob
  <2> QED  BY <1>6, <2>1 DEF At
<1>7. CASE job[c] \in LoginJob
  <2>1. job[c].step \in {"query_members", "sadd", "ack"}
    BY <1>7 DEF LoginJob
  <2> QED  BY <1>7, <2>1 DEF At
<1>8. CASE job[c] \in ChatJob
  <2>1. job[c].step \in {"smembers", "query_number"}
    BY <1>8 DEF ChatJob
  <2> QED  BY <1>8, <2>1 DEF At
<1>9. CASE job[c] \in SendJob
  <2>1. job[c].step = "send"
    BY <1>9 DEF SendJob
  <2> QED  BY <1>9, <2>1 DEF At
<1> QED  BY <1>2, <1>3, <1>4, <1>5, <1>6, <1>7, <1>8, <1>9

\* A handler of one of these kinds is a handler.
LEMMA AnyJob ==
    ASSUME NEW j,
           \/ j = Idle \/ j \in FriendJob \/ j \in AskJob \/ j \in GroupJob
           \/ j \in LoginJob \/ j \in ChatJob \/ j \in SendJob
    PROVE  j \in Job
BY DEF Job, FriendJob, AskJob, GroupJob, LoginJob, ChatJob, SendJob

\* queryGroup stays a login.
LEMMA QueryMembersJob ==
    ASSUME TypeOK, NEW c \in Client, QueryMembers(c)
    PROVE  \E j \in LoginJob : Goto(c, j)
<1>1. job[c] \in LoginJob
  BY JobOfStep DEF QueryMembers
<1>2. ASSUME NEW g \in GroupId, NEW ms \in SUBSET User
      PROVE  [job[c] EXCEPT !.todo = @ \ {g},
                            !.lists[g] = ms,
                            !.rest = @ \cup ({g} \X ms)] \in LoginJob
  BY <1>1 DEF LoginJob
<1>3. [job[c] EXCEPT !.step = "sadd"] \in LoginJob
  BY <1>1 DEF LoginJob
<1>4. job[c].todo \subseteq GroupId
  BY <1>1 DEF LoginJob
<1> QED  BY <1>2, <1>3, <1>4 DEF QueryMembers

\* A step that only moves one handler keeps the types.
LEMMA MoveKeepsType ==
    ASSUME TypeOK, NEW c \in Client, NEW j \in Job, Goto(c, j),
           UNCHANGED <<tables, currentUser, history>>
    PROVE  TypeOK'
BY DEF TypeOK, Goto, tables, history

\* The next group id is one while there is room.
LEMMA NextGroup ==
    ASSUME TypeOK, allGroup < MaxGroup
    PROVE  allGroup + 1 \in GroupId
BY RecordsAssumption, SMT DEF TypeOK, GroupId

LEMMA InsertKeepsType ==
    ASSUME TypeOK, NEW g \in GroupId, NEW u \in User, NEW role \in {"normal", "creator"},
           InsertMember(g, u, role)
    PROVE  groupUser' \in [GroupId \X User -> {"none", "normal", "creator"}]
BY DEF TypeOK, InsertMember

-----------------------------------------------------------------------------
\* Types

LEMMA TypeInit == Init => TypeOK
<1> SUFFICES ASSUME Init PROVE TypeOK
  OBVIOUS
<1>1. Idle \in Job
  BY AnyJob
<1>2. NoLists \in [GroupId -> SUBSET User]
  BY DEF NoLists
<1>3. allGroup \in 0 .. MaxGroup
  BY RecordsAssumption, SMT DEF Init
<1> QED  BY <1>1, <1>2, <1>3 DEF Init, TypeOK

LEMMA TypeStep ==
    ASSUME TypeOK, NEW c \in Client, Step(c)
    PROVE  TypeOK'
<1> USE JobOfStep
<1>0. Idle \in Job
  BY AnyJob
<1>1. ASSUME NEW j \in Job, Ask(c, j) PROVE TypeOK'
  BY <1>1, MoveKeepsType DEF Ask
<1>2. CASE AddFriend(c)
  <2>1. PICK f \in User : Ask(c, [step |-> "friend1", id |-> currentUser[c], with |-> f])
    BY <1>2 DEF AddFriend
  <2>2. currentUser[c] \in User
    BY <2>1 DEF Ask, TypeOK
  <2>3. [step |-> "friend1", id |-> currentUser[c], with |-> f] \in FriendJob
    BY <2>2 DEF FriendJob
  <2> QED  BY <1>1, <2>1, <2>3, AnyJob
<1>3. CASE CreateGroup(c)
  <2>1. Ask(c, [step |-> "group1", id |-> currentUser[c]])
    BY <1>3 DEF CreateGroup
  <2>2. currentUser[c] \in User
    BY <2>1 DEF Ask, TypeOK
  <2>3. [step |-> "group1", id |-> currentUser[c]] \in AskJob
    BY <2>2 DEF AskJob
  <2> QED  BY <1>1, <2>1, <2>3, AnyJob
<1>4. CASE AddGroup(c)
  <2>1. PICK g \in GroupId : Ask(c, [step |-> "join", id |-> currentUser[c], group |-> g])
    BY <1>4 DEF AddGroup
  <2>2. currentUser[c] \in User
    BY <2>1 DEF Ask, TypeOK
  <2>3. [step |-> "join", id |-> currentUser[c], group |-> g] \in GroupJob
    BY <2>2 DEF GroupJob
  <2> QED  BY <1>1, <2>1, <2>3, AnyJob
<1>5. CASE GroupChat(c)
  <2>1. PICK g \in GroupId : Ask(c, [step |-> "smembers", id |-> currentUser[c], group |-> g])
    BY <1>5 DEF GroupChat
  <2>2. currentUser[c] \in User
    BY <2>1 DEF Ask, TypeOK
  <2>3. [step |-> "smembers", id |-> currentUser[c], group |-> g] \in ChatJob
    BY <2>2 DEF ChatJob
  <2> QED  BY <1>1, <2>1, <2>3, AnyJob
<1>6. CASE Login(c)
  <2>1. PICK u \in User : Goto(c, [step |-> "query_groups", id |-> u])
    BY <1>6 DEF Login
  <2>2. [step |-> "query_groups", id |-> u] \in AskJob
    BY DEF AskJob
  <2> QED  BY <1>6, <2>1, <2>2, AnyJob, MoveKeepsType DEF Login
<1>7. CASE Loginout(c)
  BY <1>7 DEF Loginout, TypeOK, tables, history
<1>8. CASE FriendFirst(c)
  <2>1. job[c] \in FriendJob
    BY <1>8 DEF FriendFirst
  <2>2. [job[c] EXCEPT !.step = "friend2"] \in Job
    BY <2>1, AnyJob DEF FriendJob
  <2>3. PICK j \in Job : Goto(c, j)
    BY <1>0, <1>8, <2>2 DEF FriendFirst
  <2>4. friend' \subseteq User \X User
    BY <1>8, <2>1 DEF FriendFirst, FriendJob, TypeOK
  <2> QED  BY <1>8, <2>3, <2>4 DEF FriendFirst, Goto, TypeOK, history
<1>9. CASE FriendSecond(c)
  <2>1. job[c] \in FriendJob
    BY <1>9 DEF FriendSecond
  <2>2. friend' \subseteq User \X User /\ half' \subseteq SUBSET User
    BY <1>9, <2>1 DEF FriendSecond, FriendJob, TypeOK
  <2> QED  BY <1>0, <1>9, <2>2 DEF FriendSecond, Goto, TypeOK
<1>10. CASE GroupInsert(c)
  <2>1. job[c] \in AskJob
    BY <1>10 DEF GroupInsert
  <2>2. job[c].id \in User
    BY <2>1 DEF AskJob
  <2>3. CASE allGroup' = allGroup
    <3>1. Goto(c, Idle) /\ UNCHANGED made
      <4>1. allGroup' # allGroup + 1
        BY <2>3, RecordsAssumption, SMT DEF TypeOK
      <4> QED  BY <1>10, <4>1 DEF GroupInsert
    <3> QED  BY <1>0, <1>10, <2>3, <3>1 DEF GroupInsert, Goto, TypeOK
  <2>4. CASE allGroup' # allGroup
    <3>1. /\ allGroup < MaxGroup
          /\ allGroup' = allGroup + 1
          /\ made' = [made EXCEPT ![allGroup + 1] = job[c].id]
          /\ Goto(c, [step |-> "creator", id |-> job[c].id, group |-> allGroup + 1])
      BY <1>10, <2>4 DEF GroupInsert
    <3>2. allGroup + 1 \in GroupId
      BY <3>1, NextGroup
    <3>3. allGroup' \in 0 .. MaxGroup
      BY <3>1, RecordsAssumption, SMT DEF TypeOK
    <3>4. [step |-> "creator", id |-> job[c].id, group |-> allGroup + 1] \in Job
      BY <2>2, <3>2, AnyJob DEF GroupJob
    <3>5. made' \in [GroupId -> User \cup {NoUser}]
      BY <2>2, <3>1, <3>2 DEF TypeOK
    <3>6. job' \in [Client -> Job]
      BY <3>1, <3>4 DEF TypeOK, Goto
    <3> QED  BY <1>10, <3>3, <3>5, <3>6 DEF GroupInsert, TypeOK
  <2> QED  BY <2>3, <2>4
<1>11. CASE CreatorInsert(c)
  <2>1. job[c].id \in User /\ job[c].group \in GroupId
    BY <1>11 DEF CreatorInsert, GroupJob
  <2>2. groupUser' \in [GroupId \X User -> {"none", "normal", "creator"}]
    BY <1>11, <2>1, InsertKeepsType DEF CreatorInsert
  <2> QED  BY <1>0, <1>11, <2>2 DEF CreatorInsert, Goto, TypeOK, history
<1>12. CASE JoinInsert(c)
  <2>1. job[c].id \in User /\ job[c].group \in GroupId
    BY <1>12 DEF JoinInsert, GroupJob
  <2>2. groupUser' \in [GroupId \X User -> {"none", "normal", "creator"}]
    BY <1>12, <2>1, InsertKeepsType DEF JoinInsert
  <2> QED  BY <1>0, <1>12, <2>2 DEF JoinInsert, Goto, TypeOK, history
<1>13. CASE QueryGroups(c)
  <2>1. job[c].id \in User
    BY <1>13 DEF QueryGroups, AskJob
  <2>2. PICK gs \in SUBSET GroupId :
           Goto(c, [step |-> "query_members", id |-> job[c].id,
                    todo |-> gs, lists |-> NoLists, rest |-> {}, cached |-> TRUE])
    BY <1>13 DEF QueryGroups
  <2>3. [step |-> "query_members", id |-> job[c].id,
         todo |-> gs, lists |-> NoLists, rest |-> {}, cached |-> TRUE] \in LoginJob
    BY <2>1 DEF LoginJob, NoLists
  <2> QED  BY <1>13, <2>2, <2>3, AnyJob, MoveKeepsType DEF QueryGroups
<1>14. CASE QueryMembers(c)
  <2>1. PICK j \in LoginJob : Goto(c, j)
    BY <1>14, QueryMembersJob
  <2> QED  BY <1>14, <2>1, AnyJob, MoveKeepsType DEF QueryMembers
<1>15. CASE LoginSadd(c)
  <2>1. job[c] \in LoginJob
    BY <1>15 DEF LoginSadd
  <2>2. PICK j \in LoginJob : Goto(c, j)
    BY <1>15, <2>1 DEF LoginSadd, LoginJob
  <2>3. groupCache' \in [GroupId -> SUBSET User]
    <3>1. CASE groupCache' = groupCache
      BY <3>1 DEF TypeOK
    <3>2. CASE groupCache' # groupCache
      <4>1. PICK g \in GroupId, u \in User :
               groupCache' = [groupCache EXCEPT ![g] = @ \cup {u}]
        BY <1>15, <3>2 DEF LoginSadd
      <4>2. groupCache[g] \cup {u} \in SUBSET User
        BY DEF TypeOK
      <4> QED  BY <4>1, <4>2 DEF TypeOK
    <3> QED  BY <3>1, <3>2
  <2> QED  BY <1>15, <2>2, <2>3, AnyJob DEF LoginSadd, Goto, TypeOK, history
<1>16. CASE LoginAck(c)
  <2>1. job[c] \in LoginJob
    BY <1>16 DEF LoginAck
  <2>2. job[c].id \in User /\ job[c].lists \in [GroupId -> SUBSET User]
    BY <2>1 DEF LoginJob
  <2>3. settled' \in [GroupId -> SUBSET User]
    BY <1>16, <2>2 DEF LoginAck, TypeOK
  <2>4. currentUser' \in [Client -> User \cup {NoUser}]
    BY <1>16, <2>2 DEF LoginAck, TypeOK
  <2>5. job' \in [Client -> Job]
    BY <1>0, <1>16 DEF LoginAck, Goto, TypeOK
  <2> QED  BY <1>16, <2>3, <2>4, <2>5 DEF LoginAck, TypeOK, tables
<1>17. CASE Smembers(c)
  <2>1. job[c] \in ChatJob
    BY <1>17 DEF Smembers
  <2>2. groupCache[job[c].group] \subseteq User
    BY <2>1 DEF ChatJob, TypeOK
  <2>3. [step |-> "send", id |-> job[c].id, group |-> job[c].group,
         to |-> groupCache[job[c].group]] \in SendJob
    BY <2>1, <2>2 DEF ChatJob, SendJob
  <2>4. [job[c] EXCEPT !.step = "query_number"] \in ChatJob
    BY <2>1 DEF ChatJob
  <2>5. PICK j \in SendJob \cup ChatJob : Goto(c, j)
    BY <1>17, <2>3, <2>4 DEF Smembers
  <2> QED  BY <1>17, <2>5, AnyJob, MoveKeepsType DEF Smembers
<1>18. CASE QueryNumber(c)
  <2>1. job[c] \in ChatJob
    BY <1>18 DEF QueryNumber
  <2>2. PICK ms \in SUBSET User :
           Goto(c, [step |-> "send", id |-> job[c].id, group |-> job[c].group, to |-> ms])
    BY <1>18 DEF QueryNumber
  <2>3. [step |-> "send", id |-> job[c].id, group |-> job[c].group, to |-> ms] \in SendJob
    BY <2>1 DEF ChatJob, SendJob
  <2> QED  BY <1>18, <2>2, <2>3, AnyJob, MoveKeepsType DEF QueryNumber
<1>19. CASE Send(c)
  BY <1>0, <1>19, MoveKeepsType DEF Send
<1>20. CASE Die(c)
  <2>1. half' \subseteq SUBSET User
    BY <1>20 DEF Die, FriendJob, TypeOK
  <2> QED  BY <1>0, <1>20, <2>1 DEF Die, Goto, TypeOK, tables
<1> QED
  BY <1>2, <1>3, <1>4, <1>5, <1>6, <1>7, <1>8, <1>9, <1>10, <1>11, <1>12, <1>13, <1>14,
     <1>15, <1>16, <1>17, <1>18, <1>19, <1>20 DEF Step

\* Every variable of Records keeps its type, the local variables of a handler included: they
\* are those of its step.
THEOREM RecordsTyped == Spec => []TypeOK
<1>1. TypeOK /\ [Next]_vars => TypeOK'
  <2>1. ASSUME TypeOK, UNCHANGED vars PROVE TypeOK'
    BY <2>1 DEF TypeOK, vars, tables, history
  <2> QED  BY <2>1, TypeStep DEF Next
<1> QED  BY <1>1, TypeInit, PTL DEF Spec

-----------------------------------------------------------------------------
\* What every step leaves alone

\* The other handlers stay where they are.
LEMMA OthersStay ==
    ASSUME NEW c \in Client, NEW j, Goto(c, j), TypeOK
    PROVE  /\ job'[c] = j
           /\ \A d \in Client \ {c} : job'[d] = job[d]
BY DEF Goto, TypeOK

\* A step that moves a handler moves it somewhere.
LEMMA Moves ==
    ASSUME TypeOK, NEW c \in Client, Step(c)
    PROVE  \A d \in Client \ {c} : job'[d] = job[d]
<1>1. ASSUME NEW j, Goto(c, j) PROVE \A d \in Client \ {c} : job'[d] = job[d]
  BY <1>1, OthersStay
<1>2. ASSUME NEW j, Ask(c, j) PROVE \A d \in Client \ {c} : job'[d] = job[d]
  BY <1>1, <1>2 DEF Ask
<1>3. CASE AddFriend(c) \/ CreateGroup(c) \/ AddGroup(c) \/ GroupChat(c)
  BY <1>2, <1>3 DEF AddFriend, CreateGroup, AddGroup, GroupChat
<1>4. CASE Login(c)
  BY <1>1, <1>4 DEF Login
<1>5. CASE Loginout(c)
  BY <1>5 DEF Loginout
<1>6. CASE FriendFirst(c) \/ FriendSecond(c)
  BY <1>1, <1>6 DEF FriendFirst, FriendSecond
<1>7. CASE GroupInsert(c) \/ CreatorInsert(c) \/ JoinInsert(c)
  BY <1>1, <1>7 DEF GroupInsert, CreatorInsert, JoinInsert
<1>8. CASE QueryGroups(c)
  BY <1>1, <1>8 DEF QueryGroups
<1>9. CASE QueryMembers(c)
  BY <1>1, <1>9 DEF QueryMembers
<1>10. CASE LoginSadd(c)
  BY <1>1, <1>10 DEF LoginSadd
<1>11. CASE LoginAck(c)
  BY <1>1, <1>11 DEF LoginAck
<1>12. CASE Smembers(c) \/ QueryNumber(c)
  BY <1>1, <1>12 DEF Smembers, QueryNumber
<1>13. CASE Send(c) \/ Die(c)
  BY <1>1, <1>13 DEF Send, Die
<1> QED
  BY <1>3, <1>4, <1>5, <1>6, <1>7, <1>8, <1>9, <1>10, <1>11, <1>12, <1>13 DEF Step

-----------------------------------------------------------------------------
\* Friends

\* A handler at its second insert has made the first one.
FirstMade ==
    \A c \in Client : At(c, "friend2") => <<job[c].id, job[c].with>> \in friend

\* A step of c that touches no row and does not come from or go to the second insert.
LEMMA FriendsElsewhere ==
    ASSUME TypeOK, FirstMade, FriendsMutual,
           NEW c \in Client, ~At(c, "friend2"), ~At(c, "friend2")',
           \A d \in Client \ {c} : job'[d] = job[d],
           UNCHANGED friend, UNCHANGED half
    PROVE  FirstMade' /\ FriendsMutual'
<1>1. \A d \in Client : At(d, "friend2")' <=> At(d, "friend2")
  BY DEF At
<1>2. \A d \in Client : At(d, "friend2") => job'[d] = job[d]
  OBVIOUS
<1>3. FirstMade'
  BY <1>1, <1>2 DEF FirstMade
<1>4. FriendsMutual'
  BY <1>1, <1>2 DEF FriendsMutual
<1> QED  BY <1>3, <1>4

LEMMA FriendsStep ==
    ASSUME TypeOK, FirstMade, FriendsMutual, NEW c \in Client, Step(c)
    PROVE  FirstMade' /\ FriendsMutual'
<1>0. \A d \in Client \ {c} : job'[d] = job[d]
  BY Moves
<1>1. ASSUME NEW j, Goto(c, j), j.step # "friend2", ~At(c, "friend2"),
             UNCHANGED friend, UNCHANGED half
      PROVE  FirstMade' /\ FriendsMutual'
  <2>1. ~At(c, "friend2")'
    BY <1>1, OthersStay DEF At
  <2> QED  BY <1>0, <1>1, <2>1, FriendsElsewhere
<1>2. CASE AddFriend(c) \/ CreateGroup(c) \/ AddGroup(c) \/ GroupChat(c)
  <2>1. ASSUME NEW j, Ask(c, j), j.step # "friend2" PROVE FirstMade' /\ FriendsMutual'
    BY <1>1, <2>1 DEF Ask, At, tables, history
  <2>2. CASE AddFriend(c)
    <3>1. PICK f \in User : Ask(c, [step |-> "friend1", id |-> currentUser[c], with |-> f])
      BY <2>2 DEF AddFriend
    <3> QED  BY <2>1, <3>1
  <2>3. CASE CreateGroup(c)
    <3>1. Ask(c, [step |-> "group1", id |-> currentUser[c]])
      BY <2>3 DEF CreateGroup
    <3> QED  BY <2>1, <3>1
  <2>4. CASE AddGroup(c)
    <3>1. PICK g \in GroupId : Ask(c, [step |-> "join", id |-> currentUser[c], group |-> g])
      BY <2>4 DEF AddGroup
    <3> QED  BY <2>1, <3>1
  <2>5. CASE GroupChat(c)
    <3>1. PICK g \in GroupId : Ask(c, [step |-> "smembers", id |-> currentUser[c], group |-> g])
      BY <2>5 DEF GroupChat
    <3> QED  BY <2>1, <3>1
  <2> QED  BY <1>2, <2>2, <2>3, <2>4, <2>5
<1>3. CASE Login(c)
  <2>1. PICK j : Goto(c, j) /\ j.step # "friend2"
    BY <1>3 DEF Login
  <2> QED  BY <1>1, <1>3, <2>1 DEF Login, At, tables, history
<1>4. CASE Loginout(c)
  BY <1>4, FriendsElsewhere DEF Loginout, At, tables, history
<1>5. CASE FriendFirst(c)
  <2>1. /\ job[c] \in FriendJob
        /\ ~At(c, "friend2")
    BY <1>5, JobOfStep DEF FriendFirst, At
  <2>2. CASE UNCHANGED friend
    <3>1. Goto(c, Idle)
      BY <1>5, <2>2 DEF FriendFirst
    <3> QED  BY <1>1, <1>5, <2>1, <2>2, <3>1 DEF FriendFirst, Idle, history
  <2>3. CASE friend' # friend
    <3> DEFINE u == job[c].id
               f == job[c].with
    <3>1. friend' = friend \cup {<<u, f>>} /\ UNCHANGED half
      BY <1>5, <2>3 DEF FriendFirst, history
    <3>2. Goto(c, [job[c] EXCEPT !.step = "friend2"])
      BY <1>5, <2>3 DEF FriendFirst
    <3>3. job'[c].step = "friend2" /\ job'[c].id = u /\ job'[c].with = f
      BY <2>1, <3>2, OthersStay DEF FriendJob
    <3>4. FirstMade'
      BY <1>0, <3>1, <3>3 DEF FirstMade, At
    <3>5. ASSUME NEW x \in User, NEW y \in User, <<x, y>> \in friend', <<y, x>> \notin friend'
          PROVE  \/ {x, y} \in half'
                 \/ \E d \in Client : At(d, "friend2")' /\ job'[d].id = x /\ job'[d].with = y
      <4>1. CASE <<x, y>> = <<u, f>>
        BY <3>3, <4>1 DEF At
      <4>2. CASE <<x, y>> # <<u, f>>
        <5>1. <<x, y>> \in friend /\ <<y, x>> \notin friend
          BY <3>1, <3>5, <4>2
        <5>2. \/ {x, y} \in half
              \/ \E d \in Client : At(d, "friend2") /\ job[d].id = x /\ job[d].with = y
          BY <5>1 DEF FriendsMutual
        <5>3. ASSUME NEW d \in Client, At(d, "friend2")
              PROVE  job'[d] = job[d] /\ At(d, "friend2")'
          BY <1>0, <2>1, <5>3 DEF At
        <5> QED  BY <3>1, <5>2, <5>3
      <4> QED  BY <4>1, <4>2
    <3>6. FriendsMutual'
      BY <3>5 DEF FriendsMutual
    <3> QED  BY <3>4, <3>6
  <2> QED  BY <2>2, <2>3
<1>6. ASSUME At(c, "friend2"), Goto(c, Idle), friend \subseteq friend', half \subseteq half',
             \/ friend' = friend \cup {<<job[c].with, job[c].id>>}
             \/ friend' = friend /\ {job[c].id, job[c].with} \in half'
      PROVE  FirstMade' /\ FriendsMutual'
  <2> DEFINE u == job[c].id
             f == job[c].with
  <2>1. ~At(c, "friend2")'
    BY <1>6, OthersStay DEF At, Idle
  <2>2. <<u, f>> \in friend
    BY <1>6 DEF FirstMade
  <2>3. FirstMade'
    BY <1>0, <1>6, <2>1 DEF FirstMade, At
  <2>4. ASSUME NEW x \in User, NEW y \in User, <<x, y>> \in friend', <<y, x>> \notin friend'
        PROVE  \/ {x, y} \in half'
               \/ \E d \in Client : At(d, "friend2")' /\ job'[d].id = x /\ job'[d].with = y
    <3>1. <<x, y>> # <<f, u>>
      BY <1>6, <2>2, <2>4
    <3>2. <<x, y>> \in friend /\ <<y, x>> \notin friend
      BY <1>6, <2>4, <3>1
    <3>3. \/ {x, y} \in half
          \/ \E d \in Client : At(d, "friend2") /\ job[d].id = x /\ job[d].with = y
      BY <3>2 DEF FriendsMutual
    <3>4. CASE {x, y} \in half
      BY <1>6, <3>4
    <3>5. ASSUME NEW d \in Client, At(d, "friend2"), job[d].id = x, job[d].with = y
          PROVE  \/ {x, y} \in half'
                 \/ At(d, "friend2")' /\ job'[d].id = x /\ job'[d].with = y
      <4>1. CASE d # c
        BY <1>0, <3>5, <4>1 DEF At
      <4>2. CASE d = c
        <5>1. x = u /\ y = f
          BY <3>5, <4>2
        <5>2. friend' = friend /\ {u, f} \in half'
          BY <1>6, <2>4, <5>1
        <5> QED  BY <5>1, <5>2
      <4> QED  BY <4>1, <4>2
    <3> QED  BY <3>3, <3>4, <3>5
  <2>5. FriendsMutual'
    BY <2>4 DEF FriendsMutual
  <2> QED  BY <2>3, <2>5
<1>7. CASE FriendSecond(c)
  BY <1>6, <1>7 DEF FriendSecond
<1>8. CASE GroupInsert(c)
  <2>1. PICK j : Goto(c, j) /\ j.step # "friend2"
    BY <1>8 DEF GroupInsert, Idle
  <2> QED  BY <1>1, <1>8, <2>1 DEF GroupInsert, At
<1>9. CASE CreatorInsert(c) \/ JoinInsert(c)
  <2>1. Goto(c, Idle) /\ Idle.step # "friend2"
    BY <1>9 DEF CreatorInsert, JoinInsert, Idle
  <2> QED  BY <1>1, <1>9, <2>1 DEF CreatorInsert, JoinInsert, At, history
<1>10. CASE QueryGroups(c)
  <2>1. PICK j : Goto(c, j) /\ j.step # "friend2"
    BY <1>10 DEF QueryGroups
  <2> QED  BY <1>1, <1>10, <2>1 DEF QueryGroups, At, tables, history
<1>11. ASSUME At(c, "query_members") \/ At(c, "sadd"), NEW j,
              Goto(c, j), j.step \in {"query_members", "sadd", "ack"},
              UNCHANGED friend, UNCHANGED half
       PROVE  FirstMade' /\ FriendsMutual'
  BY <1>1, <1>11 DEF At
<1>12. CASE QueryMembers(c)
  <2>1. PICK j \in LoginJob : Goto(c, j)
    BY <1>12, QueryMembersJob
  <2>2. j.step \in {"query_members", "sadd", "ack"}
    BY DEF LoginJob
  <2> QED  BY <1>11, <1>12, <2>1, <2>2 DEF QueryMembers, tables, history
<1>13. CASE LoginSadd(c)
  <2>1. job[c] \in LoginJob
    BY <1>13, JobOfStep DEF LoginSadd
  <2>2. PICK j \in LoginJob : Goto(c, j)
    BY <1>13, <2>1 DEF LoginSadd, LoginJob
  <2>3. j.step \in {"query_members", "sadd", "ack"}
    BY DEF LoginJob
  <2> QED  BY <1>11, <1>13, <2>2, <2>3 DEF LoginSadd, history
<1>14. CASE LoginAck(c)
  <2>1. Goto(c, Idle) /\ Idle.step # "friend2"
    BY <1>14 DEF LoginAck, Idle
  <2> QED  BY <1>1, <1>14, <2>1 DEF LoginAck, At, tables
<1>15. CASE Smembers(c) \/ QueryNumber(c)
  <2>1. job[c] \in ChatJob
    BY <1>15, JobOfStep DEF Smembers, QueryNumber
  <2>2. ASSUME NEW j, Goto(c, j), j.step # "friend2" PROVE FirstMade' /\ FriendsMutual'
    BY <1>1, <1>15, <2>2 DEF Smembers, QueryNumber, At, tables, history
  <2>3. [job[c] EXCEPT !.step = "query_number"].step # "friend2"
    BY <2>1 DEF ChatJob
  <2>4. CASE Smembers(c)
    BY <2>2, <2>3, <2>4 DEF Smembers
  <2>5. CASE QueryNumber(c)
    BY <2>2, <2>5 DEF QueryNumber
  <2> QED  BY <1>15, <2>4, <2>5
<1>16. CASE Send(c)
  <2>1. Goto(c, Idle) /\ Idle.step # "friend2"
    BY <1>16 DEF Send, Idle
  <2> QED  BY <1>1, <1>16, <2>1 DEF Send, At, tables, history
<1>17. CASE Die(c)
  <2>1. Goto(c, Idle) /\ Idle.step # "friend2" /\ UNCHANGED friend
    BY <1>17 DEF Die, Idle, tables
  <2>2. CASE At(c, "friend2")
    BY <1>6, <1>17, <2>1, <2>2 DEF Die
  <2>3. CASE ~At(c, "friend2")
    BY <1>1, <1>17, <2>1, <2>3 DEF Die
  <2> QED  BY <2>2, <2>3
<1> QED
  BY <1>2, <1>3, <1>4, <1>5, <1>7, <1>8, <1>9, <1>10, <1>12, <1>13, <1>14, <1>15, <1>16,
     <1>17 DEF Step

\* addFriend makes friends of both or of none, unless its second insert fails or is not reached.
THEOREM FriendsAreMutual == Spec => []FriendsMutual
<1>1. Init => FirstMade /\ FriendsMutual
  BY DEF Init, FirstMade, FriendsMutual, At, Idle
<1>2. TypeOK /\ FirstMade /\ FriendsMutual /\ [Next]_vars => FirstMade' /\ FriendsMutual'
  <2>1. ASSUME FirstMade, FriendsMutual, UNCHANGED vars PROVE FirstMade' /\ FriendsMutual'
    BY <2>1 DEF FirstMade, FriendsMutual, At, vars, tables, history
  <2> QED  BY <2>1, FriendsStep DEF Next
<1> QED  BY <1>1, <1>2, RecordsTyped, PTL DEF Spec

-----------------------------------------------------------------------------
\* Groups

\* Who is the creator of a group, or about to be, has created it.
CreatorExists ==
    /\ \A g \in GroupId, u \in User : groupUser[<<g, u>>] = "creator" => g <= allGroup
    /\ \A c \in Client : At(c, "creator") =>
           job[c].group <= allGroup /\ made[job[c].group] = job[c].id

\* A step that leaves the groups alone, of a handler that does not come to insert a creator.
LEMMA GroupsElsewhere ==
    ASSUME TypeOK, CreatorExists, CreatorIsMaker,
           NEW c \in Client, ~At(c, "creator")',
           \A d \in Client \ {c} : job'[d] = job[d],
           UNCHANGED allGroup, UNCHANGED groupUser, UNCHANGED made
    PROVE  CreatorExists' /\ CreatorIsMaker'
<1>1. \A d \in Client : At(d, "creator")' => At(d, "creator") /\ job'[d] = job[d]
  BY DEF At
<1>2. CreatorExists'
  BY <1>1 DEF CreatorExists
<1>3. CreatorIsMaker'
  BY DEF CreatorIsMaker
<1> QED  BY <1>2, <1>3

\* Where a step other than GroupInsert takes its handler.
LEMMA NotToCreator ==
    ASSUME TypeOK, NEW c \in Client, Step(c), ~GroupInsert(c)
    PROVE  At(c, "creator")' => Loginout(c)
<1>1. ASSUME NEW j, Goto(c, j), j.step # "creator" PROVE ~At(c, "creator")'
  BY <1>1, OthersStay DEF At
<1>2. ASSUME NEW j, Ask(c, j), j.step # "creator" PROVE ~At(c, "creator")'
  BY <1>1, <1>2 DEF Ask
<1>3. Idle.step # "creator"
  BY DEF Idle
<1>4. CASE AddFriend(c)
  <2>1. PICK f \in User : Ask(c, [step |-> "friend1", id |-> currentUser[c], with |-> f])
    BY <1>4 DEF AddFriend
  <2> QED  BY <1>2, <2>1
<1>5. CASE CreateGroup(c)
  <2>1. Ask(c, [step |-> "group1", id |-> currentUser[c]])
    BY <1>5 DEF CreateGroup
  <2> QED  BY <1>2, <2>1
<1>6. CASE AddGroup(c)
  <2>1. PICK g \in GroupId : Ask(c, [step |-> "join", id |-> currentUser[c], group |-> g])
    BY <1>6 DEF AddGroup
  <2> QED  BY <1>2, <2>1
<1>7. CASE GroupChat(c)
  <2>1. PICK g \in GroupId : Ask(c, [step |-> "smembers", id |-> currentUser[c], group |-> g])
    BY <1>7 DEF GroupChat
  <2> QED  BY <1>2, <2>1
<1>8. CASE Login(c)
  <2>1. PICK u \in User : Goto(c, [step |-> "query_groups", id |-> u])
    BY <1>8 DEF Login
  <2> QED  BY <1>1, <2>1
<1>9. CASE FriendFirst(c)
  <2>1. job[c] \in FriendJob
    BY <1>9, JobOfStep DEF FriendFirst
  <2>2. [job[c] EXCEPT !.step = "friend2"].step # "creator"
    BY <2>1 DEF FriendJob
  <2> QED  BY <1>1, <1>3, <1>9, <2>2 DEF FriendFirst
<1>10. CASE FriendSecond(c) \/ CreatorInsert(c) \/ JoinInsert(c) \/ LoginAck(c) \/ Send(c) \/ Die(c)
  <2>1. Goto(c, Idle)
    BY <1>10 DEF FriendSecond, CreatorInsert, JoinInsert, LoginAck, Send, Die
  <2> QED  BY <1>1, <1>3, <2>1
<1>11. CASE QueryGroups(c)
  <2>1. PICK gs \in SUBSET GroupId :
           Goto(c, [step |-> "query_members", id |-> job[c].id,
                    todo |-> gs, lists |-> NoLists, rest |-> {}, cached |-> TRUE])
    BY <1>11 DEF QueryGroups
  <2> QED  BY <1>1, <2>1
<1>12. CASE QueryMembers(c) \/ LoginSadd(c)
  <2>1. job[c] \in LoginJob
    BY <1>12, JobOfStep DEF QueryMembers, LoginSadd
  <2>2. PICK j \in LoginJob : Goto(c, j)
    BY <1>12, <2>1, QueryMembersJob DEF LoginSadd, LoginJob
  <2>3. j.step # "creator"
    BY DEF LoginJob
  <2> QED  BY <1>1, <2>2, <2>3
<1>13. CASE Smembers(c)
  <2>1. job[c] \in ChatJob
    BY <1>13, JobOfStep DEF Smembers
  <2>2. [job[c] EXCEPT !.step = "query_number"].step # "creator"
    BY <2>1 DEF ChatJob
  <2> QED  BY <1>1, <1>13, <2>2 DEF Smembers
<1>14. CASE QueryNumber(c)
  BY <1>1, <1>14 DEF QueryNumber
<1> QED
  BY <1>4, <1>5, <1>6, <1>7, <1>8, <1>9, <1>10, <1>11, <1>12, <1>13, <1>14 DEF Step

\* An insert into GroupUser makes a creator only if its role is that.
LEMMA InsertedCreator ==
    ASSUME TypeOK, NEW g \in GroupId, NEW u \in User, NEW role \in {"normal", "creator"},
           InsertMember(g, u, role), NEW h \in GroupId, NEW v \in User,
           groupUser'[<<h, v>>] = "creator"
    PROVE  groupUser[<<h, v>>] = "creator" \/ (h = g /\ v = u /\ role = "creator")
BY DEF TypeOK, InsertMember

LEMMA GroupsStep ==
    ASSUME TypeOK, CreatorExists, CreatorIsMaker, NEW c \in Client, Step(c)
    PROVE  CreatorExists' /\ CreatorIsMaker'
<1>0. \A d \in Client \ {c} : job'[d] = job[d]
  BY Moves
<1>1. CASE GroupInsert(c)
  <2>1. UNCHANGED groupUser
    BY <1>1 DEF GroupInsert
  <2>2. CASE allGroup' = allGroup
    <3>1. Goto(c, Idle) /\ UNCHANGED made
      <4>1. allGroup' # allGroup + 1
        BY <2>2, RecordsAssumption, SMT DEF TypeOK
      <4> QED  BY <1>1, <4>1 DEF GroupInsert
    <3>2. ~At(c, "creator")'
      BY <3>1, OthersStay DEF At, Idle
    <3> QED  BY <1>0, <2>1, <2>2, <3>1, <3>2, GroupsElsewhere
  <2>3. CASE allGroup' # allGroup
    <3> DEFINE new == allGroup + 1
    <3>1. /\ allGroup < MaxGroup
          /\ allGroup' = new
          /\ made' = [made EXCEPT ![new] = job[c].id]
          /\ Goto(c, [step |-> "creator", id |-> job[c].id, group |-> new])
      BY <1>1, <2>3 DEF GroupInsert
    <3>2. new \in GroupId
      BY <3>1, NextGroup
    <3>3. \A g \in GroupId : g <= allGroup => g <= allGroup' /\ g # new
      BY <3>1, RecordsAssumption, SMT DEF TypeOK, GroupId
    <3>4. \A g \in GroupId : g # new => made'[g] = made[g]
      BY <3>1 DEF TypeOK
    <3>5. CreatorIsMaker'
      BY <2>1, <3>3, <3>4 DEF CreatorIsMaker, CreatorExists
    <3>6. job'[c].group = new /\ made'[new] = job'[c].id /\ new <= allGroup'
      <4>1. new <= allGroup'
        BY <3>1, RecordsAssumption, SMT DEF TypeOK
      <4> QED  BY <3>1, <3>2, <4>1, OthersStay DEF TypeOK
    <3>7. ASSUME NEW d \in Client, At(d, "creator")'
          PROVE  job'[d].group <= allGroup' /\ made'[job'[d].group] = job'[d].id
      <4>1. CASE d = c
        BY <3>6, <4>1
      <4>2. CASE d # c
        <5>1. At(d, "creator") /\ job'[d] = job[d]
          BY <1>0, <3>7, <4>2 DEF At
        <5>2. job[d].group \in GroupId
          BY <5>1, JobOfStep DEF GroupJob
        <5> QED  BY <3>3, <3>4, <5>1, <5>2 DEF CreatorExists
      <4> QED  BY <4>1, <4>2
    <3>8. CreatorExists'
      BY <2>1, <3>3, <3>7 DEF CreatorExists
    <3> QED  BY <3>5, <3>8
  <2> QED  BY <2>2, <2>3
<1>2. ASSUME NEW g \in GroupId, NEW u \in User, NEW role \in {"normal", "creator"},
             InsertMember(g, u, role), Goto(c, Idle), UNCHANGED allGroup, UNCHANGED made,
             role = "creator" => g <= allGroup /\ made[g] = u
      PROVE  CreatorExists' /\ CreatorIsMaker'
  <2>1. ~At(c, "creator")'
    BY <1>2, OthersStay DEF At, Idle
  <2>2. \A h \in GroupId, v \in User : groupUser'[<<h, v>>] = "creator" =>
           groupUser[<<h, v>>] = "creator" \/ (h = g /\ v = u /\ role = "creator")
    BY <1>2, InsertedCreator
  <2>3. CreatorIsMaker'
    BY <1>2, <2>2 DEF CreatorIsMaker
  <2>4. \A d \in Client : At(d, "creator")' => At(d, "creator") /\ job'[d] = job[d]
    BY <1>0, <2>1 DEF At
  <2>5. CreatorExists'
    BY <1>2, <2>2, <2>4 DEF CreatorExists
  <2> QED  BY <2>3, <2>5
<1>3. CASE CreatorInsert(c)
  <2>1. job[c].id \in User /\ job[c].group \in GroupId
    BY <1>3, JobOfStep DEF CreatorInsert, GroupJob
  <2>2. job[c].group <= allGroup /\ made[job[c].group] = job[c].id
    BY <1>3 DEF CreatorInsert, CreatorExists
  <2> QED  BY <1>2, <1>3, <2>1, <2>2 DEF CreatorInsert, history
<1>4. CASE JoinInsert(c)
  <2>1. job[c].id \in User /\ job[c].group \in GroupId
    BY <1>4, JobOfStep DEF JoinInsert, GroupJob
  <2> QED  BY <1>2, <1>4, <2>1 DEF JoinInsert, history
<1>5. CASE ~GroupInsert(c) /\ ~CreatorInsert(c) /\ ~JoinInsert(c)
  <2>1. UNCHANGED <<allGroup, groupUser, made>>
    BY <1>5 DEF Step, AddFriend, CreateGroup, AddGroup, GroupChat, Ask, Login, Loginout,
       FriendFirst, FriendSecond, QueryGroups, QueryMembers, LoginSadd, LoginAck,
       Smembers, QueryNumber, Send, Die, tables, history
  <2>2. CASE Loginout(c)
    BY <2>1, <2>2 DEF Loginout, CreatorExists, CreatorIsMaker, At
  <2>3. CASE ~Loginout(c)
    <3>1. ~At(c, "creator")'
      BY <1>5, <2>3, NotToCreator
    <3> QED  BY <1>0, <2>1, <3>1, GroupsElsewhere
  <2> QED  BY <2>2, <2>3
<1> QED  BY <1>1, <1>3, <1>4, <1>5

\* The id that createGroup gets back is that of its own group: nobody else becomes its creator.
THEOREM CreatorIsTheMaker == Spec => []CreatorIsMaker
<1>1. Init => CreatorExists /\ CreatorIsMaker
  BY DEF Init, CreatorExists, CreatorIsMaker, At, Idle
<1>2. TypeOK /\ CreatorExists /\ CreatorIsMaker /\ [Next]_vars
          => CreatorExists' /\ CreatorIsMaker'
  <2>1. ASSUME CreatorExists, CreatorIsMaker, UNCHANGED vars
        PROVE  CreatorExists' /\ CreatorIsMaker'
    BY <2>1 DEF CreatorExists, CreatorIsMaker, At, vars, tables, history
  <2> QED  BY <2>1, GroupsStep DEF Next
<1> QED  BY <1>1, <1>2, RecordsTyped, PTL DEF Spec

-----------------------------------------------------------------------------
\* Addressees

\* What finished logins have read is cached, and only members are.
SettledCached ==
    \A g \in GroupId : settled[g] \subseteq groupCache[g] /\ groupCache[g] \subseteq Member(g)

\* A login has read members, has them left to cache, and what it has not is cached, unless
\* an SADD has failed.
ListsOK(j) ==
    /\ \A g \in GroupId : j.lists[g] \subseteq Member(g)
    /\ \A g \in GroupId, u \in User : <<g, u>> \in j.rest => u \in Member(g)
    /\ j.cached => \A g \in GroupId : \A u \in j.lists[g] : <<g, u>> \in j.rest \/ u \in groupCache[g]
    /\ j.step = "ack" => j.rest = {}

Reading(c) == At(c, "query_members") \/ At(c, "sadd") \/ At(c, "ack")
ReadersOK == \A c \in Client : Reading(c) => ListsOK(job[c])

\* Nobody leaves a group.
LEMMA MembersStay ==
    ASSUME TypeOK, NEW c \in Client, Step(c), NEW g \in GroupId
    PROVE  Member(g) \subseteq Member(g)'
<1>1. ASSUME NEW h \in GroupId, NEW u \in User, NEW role \in {"normal", "creator"},
             InsertMember(h, u, role)
      PROVE  \A v \in User : groupUser[<<g, v>>] # "none" => groupUser'[<<g, v>>] # "none"
  BY <1>1 DEF TypeOK, InsertMember
<1>2. CASE CreatorInsert(c) \/ JoinInsert(c)
  <2>1. job[c].id \in User /\ job[c].group \in GroupId
    BY <1>2, JobOfStep DEF CreatorInsert, JoinInsert, GroupJob
  <2> QED  BY <1>1, <1>2, <2>1 DEF CreatorInsert, JoinInsert, Member
<1>3. CASE ~CreatorInsert(c) /\ ~JoinInsert(c)
  <2>1. UNCHANGED groupUser
    BY <1>3 DEF Step, AddFriend, CreateGroup, AddGroup, GroupChat, Ask, Login, Loginout,
       FriendFirst, FriendSecond, GroupInsert, QueryGroups, QueryMembers, LoginSadd, LoginAck,
       Smembers, QueryNumber, Send, Die, tables, history
  <2> QED  BY <2>1 DEF Member
<1> QED  BY <1>2, <1>3

\* What a login has read stays right while others change the tables.
LEMMA ListsStay ==
    ASSUME NEW j, ListsOK(j),
           \A g \in GroupId : Member(g) \subseteq Member(g)',
           \A g \in GroupId : groupCache[g] \subseteq groupCache'[g]
    PROVE  /\ \A g \in GroupId : j.lists[g] \subseteq Member(g)'
           /\ \A g \in GroupId, u \in User : <<g, u>> \in j.rest => u \in Member(g)'
           /\ j.cached => \A g \in GroupId : \A u \in j.lists[g] :
                              <<g, u>> \in j.rest \/ u \in groupCache'[g]
           /\ j.step = "ack" => j.rest = {}
BY DEF ListsOK

\* A step that changes no cache and takes no handler to the lists of login.
LEMMA CacheElsewhere ==
    ASSUME TypeOK, SettledCached, ReadersOK, NEW c \in Client,
           \A d \in Client \ {c} : job'[d] = job[d],
           \A g \in GroupId : Member(g) \subseteq Member(g)',
           UNCHANGED groupCache, UNCHANGED settled,
           Reading(c)' => ListsOK(job[c])'
    PROVE  SettledCached' /\ ReadersOK'
<1>1. SettledCached'
  BY DEF SettledCached
<1>2. ASSUME NEW d \in Client, Reading(d)' PROVE ListsOK(job[d])'
  <2>1. CASE d = c
    BY <1>2, <2>1
  <2>2. CASE d # c
    <3>1. job'[d] = job[d] /\ ListsOK(job[d])
      BY <1>2, <2>2 DEF Reading, At, ReadersOK
    <3> QED  BY <3>1, ListsStay DEF ListsOK
  <2> QED  BY <2>1, <2>2
<1> QED  BY <1>1, <1>2 DEF ReadersOK

\* Where the steps outside of login take their handler.
LEMMA NotToLists ==
    ASSUME TypeOK, NEW c \in Client, Step(c),
           ~QueryGroups(c), ~QueryMembers(c), ~LoginSadd(c)
    PROVE  Reading(c)' => Loginout(c)
<1>1. ASSUME NEW j, Goto(c, j), j.step \notin {"query_members", "sadd", "ack"}
      PROVE  ~Reading(c)'
  BY <1>1, OthersStay DEF Reading, At
<1>2. ASSUME NEW j, Ask(c, j), j.step \notin {"query_members", "sadd", "ack"}
      PROVE  ~Reading(c)'
  BY <1>1, <1>2 DEF Ask
<1>3. Idle.step \notin {"query_members", "sadd", "ack"}
  BY DEF Idle
<1>4. CASE AddFriend(c)
  <2>1. PICK f \in User : Ask(c, [step |-> "friend1", id |-> currentUser[c], with |-> f])
    BY <1>4 DEF AddFriend
  <2> QED  BY <1>2, <2>1
<1>5. CASE CreateGroup(c)
  <2>1. Ask(c, [step |-> "group1", id |-> currentUser[c]])
    BY <1>5 DEF CreateGroup
  <2> QED  BY <1>2, <2>1
<1>6. CASE AddGroup(c)
  <2>1. PICK g \in GroupId : Ask(c, [step |-> "join", id |-> currentUser[c], group |-> g])
    BY <1>6 DEF AddGroup
  <2> QED  BY <1>2, <2>1
<1>7. CASE GroupChat(c)
  <2>1. PICK g \in GroupId : Ask(c, [step |-> "smembers", id |-> currentUser[c], group |-> g])
    BY <1>7 DEF GroupChat
  <2> QED  BY <1>2, <2>1
<1>8. CASE Login(c)
  <2>1. PICK u \in User : Goto(c, [step |-> "query_groups", id |-> u])
    BY <1>8 DEF Login
  <2> QED  BY <1>1, <2>1
<1>9. CASE FriendFirst(c)
  <2>1. job[c] \in FriendJob
    BY <1>9, JobOfStep DEF FriendFirst
  <2>2. [job[c] EXCEPT !.step = "friend2"].step = "friend2"
    BY <2>1 DEF FriendJob
  <2> QED  BY <1>1, <1>3, <1>9, <2>2 DEF FriendFirst
<1>10. CASE FriendSecond(c) \/ CreatorInsert(c) \/ JoinInsert(c) \/ LoginAck(c) \/ Send(c) \/ Die(c)
  <2>1. Goto(c, Idle)
    BY <1>10 DEF FriendSecond, CreatorInsert, JoinInsert, LoginAck, Send, Die
  <2> QED  BY <1>1, <1>3, <2>1
<1>11. CASE GroupInsert(c)
  BY <1>1, <1>3, <1>11 DEF GroupInsert
<1>12. CASE Smembers(c)
  <2>1. job[c] \in ChatJob
    BY <1>12, JobOfStep DEF Smembers
  <2>2. [job[c] EXCEPT !.step = "query_number"].step = "query_number"
    BY <2>1 DEF ChatJob
  <2> QED  BY <1>1, <1>12, <2>2 DEF Smembers
<1>13. CASE QueryNumber(c)
  BY <1>1, <1>13 DEF QueryNumber
<1> QED
  BY <1>4, <1>5, <1>6, <1>7, <1>8, <1>9, <1>10, <1>11, <1>12, <1>13 DEF Step

LEMMA CacheStep ==
    ASSUME TypeOK, SettledCached, ReadersOK, NEW c \in Client, Step(c)
    PROVE  SettledCached' /\ ReadersOK'
<1>0. /\ \A d \in Client \ {c} : job'[d] = job[d]
      /\ \A g \in GroupId : Member(g) \subseteq Member(g)'
  BY Moves, MembersStay
<1>1. CASE QueryGroups(c)
  <2>1. PICK gs \in SUBSET GroupId :
           Goto(c, [step |-> "query_members", id |-> job[c].id,
                    todo |-> gs, lists |-> NoLists, rest |-> {}, cached |-> TRUE])
    BY <1>1 DEF QueryGroups
  <2>2. ListsOK(job[c])'
    BY <2>1, OthersStay DEF ListsOK, NoLists
  <2> QED  BY <1>0, <1>1, <2>2, CacheElsewhere DEF QueryGroups, tables, history
<1>2. CASE QueryMembers(c)
  <2>1. job[c] \in LoginJob /\ ListsOK(job[c])
    BY <1>2, JobOfStep DEF QueryMembers, ReadersOK, Reading
  <2>2. UNCHANGED groupUser /\ UNCHANGED groupCache
    BY <1>2 DEF QueryMembers, tables
  <2>3. ASSUME NEW g \in GroupId, NEW ms \in SUBSET User, ms \subseteq Member(g),
               Goto(c, [job[c] EXCEPT !.todo = @ \ {g},
                                      !.lists[g] = ms,
                                      !.rest = @ \cup ({g} \X ms)])
        PROVE  ListsOK(job[c])'
    <3>1. /\ job'[c].lists = [job[c].lists EXCEPT ![g] = ms]
          /\ job'[c].rest = job[c].rest \cup ({g} \X ms)
          /\ job'[c].cached = job[c].cached
          /\ job'[c].step = job[c].step
      <4> DEFINE j == [job[c] EXCEPT !.todo = @ \ {g},
                                     !.lists[g] = ms,
                                     !.rest = @ \cup ({g} \X ms)]
      <4>1. job'[c] = j
        BY <2>3, OthersStay
      <4>2. /\ j.lists = [job[c].lists EXCEPT ![g] = ms]
            /\ j.rest = job[c].rest \cup ({g} \X ms)
        BY <2>1 DEF LoginJob
      <4>3. j.cached = job[c].cached /\ j.step = job[c].step
        BY <2>1 DEF LoginJob
      <4> HIDE DEF j
      <4> QED  BY <4>1, <4>2, <4>3
    <3>2. \A h \in GroupId : job'[c].lists[h] = IF h = g THEN ms ELSE job[c].lists[h]
      BY <2>1, <3>1 DEF LoginJob
    <3>3. job'[c].step # "ack"
      BY <1>2, <3>1 DEF QueryMembers, At
    <3>4. \A h \in GroupId : job'[c].lists[h] \subseteq Member(h)
      BY <2>1, <2>3, <3>2 DEF ListsOK
    <3>5. \A h \in GroupId, u \in User : <<h, u>> \in job'[c].rest => u \in Member(h)
      BY <2>1, <2>3, <3>1 DEF ListsOK
    <3>6. job'[c].cached => \A h \in GroupId : \A u \in job'[c].lists[h] :
                                <<h, u>> \in job'[c].rest \/ u \in groupCache[h]
      BY <2>1, <3>1, <3>2 DEF ListsOK
    <3> QED  BY <2>2, <3>3, <3>4, <3>5, <3>6 DEF ListsOK, Member
  <2>4. ASSUME Goto(c, [job[c] EXCEPT !.step = "sadd"]) PROVE ListsOK(job[c])'
    <3>1. /\ job'[c].lists = job[c].lists
          /\ job'[c].rest = job[c].rest
          /\ job'[c].cached = job[c].cached
          /\ job'[c].step = "sadd"
      BY <2>1, <2>4, OthersStay DEF LoginJob
    <3> QED  BY <2>1, <2>2, <3>1 DEF ListsOK, Member
  <2>5. ListsOK(job[c])'
    <3>1. CASE job[c].todo = {} /\ Goto(c, [job[c] EXCEPT !.step = "sadd"])
      BY <2>4, <3>1
    <3>2. CASE \E g \in job[c].todo, ms \in SUBSET User :
                  /\ Select(ms, Member(g))
                  /\ Goto(c, [job[c] EXCEPT !.todo = @ \ {g},
                                            !.lists[g] = ms,
                                            !.rest = @ \cup ({g} \X ms)])
      <4>1. job[c].todo \subseteq GroupId
        BY <2>1 DEF LoginJob
      <4> QED  BY <2>3, <3>2, <4>1 DEF Select
    <3> QED  BY <1>2, <3>1, <3>2 DEF QueryMembers
  <2> QED  BY <1>0, <1>2, <2>5, CacheElsewhere DEF QueryMembers, tables, history
<1>3. CASE LoginSadd(c)
  <2>1. job[c] \in LoginJob /\ ListsOK(job[c]) /\ job[c].step = "sadd"
    BY <1>3, JobOfStep DEF LoginSadd, ReadersOK, Reading, At
  <2>2. UNCHANGED groupUser /\ UNCHANGED settled
    BY <1>3 DEF LoginSadd, history
  <2>3. ASSUME NEW g \in GroupId, NEW u \in User, <<g, u>> \in job[c].rest,
               groupCache' = [groupCache EXCEPT ![g] = @ \cup {u}],
               Goto(c, [job[c] EXCEPT !.rest = @ \ {<<g, u>>}])
        PROVE  SettledCached' /\ ReadersOK'
    <3>1. \A h \in GroupId : groupCache'[h] = IF h = g THEN groupCache[h] \cup {u} ELSE groupCache[h]
      BY <2>3 DEF TypeOK
    <3>2. u \in Member(g)
      BY <2>1, <2>3 DEF ListsOK
    <3>3. SettledCached'
      BY <2>2, <3>1, <3>2 DEF SettledCached, Member
    <3>4. /\ job'[c].lists = job[c].lists
          /\ job'[c].rest = job[c].rest \ {<<g, u>>}
          /\ job'[c].cached = job[c].cached
          /\ job'[c].step = "sadd"
      BY <2>1, <2>3, OthersStay DEF LoginJob
    <3>5. job'[c].cached => \A h \in GroupId : \A v \in job'[c].lists[h] :
                                <<h, v>> \in job'[c].rest \/ v \in groupCache'[h]
      <4>1. ASSUME job[c].cached, NEW h \in GroupId, NEW v \in job[c].lists[h],
                   <<h, v>> \notin job'[c].rest
            PROVE  v \in groupCache'[h]
        <5>1. CASE <<h, v>> = <<g, u>>
          BY <3>1, <5>1
        <5>2. CASE <<h, v>> # <<g, u>>
          BY <2>1, <3>1, <3>4, <4>1, <5>2 DEF ListsOK
        <5> QED  BY <5>1, <5>2
      <4> QED  BY <3>4, <4>1
    <3>6. ListsOK(job[c])'
      BY <2>1, <2>2, <3>4, <3>5 DEF ListsOK, Member
    <3>7. ASSUME NEW d \in Client, Reading(d)' PROVE ListsOK(job[d])'
      <4>1. CASE d = c
        BY <3>6, <4>1
      <4>2. CASE d # c
        <5>1. job'[d] = job[d] /\ ListsOK(job[d])
          BY <1>0, <3>7, <4>2 DEF Reading, At, ReadersOK
        <5>2. \A h \in GroupId : groupCache[h] \subseteq groupCache'[h]
          BY <3>1
        <5> QED  BY <1>0, <5>1, <5>2, ListsStay DEF ListsOK
      <4> QED  BY <4>1, <4>2
    <3> QED  BY <3>3, <3>7 DEF ReadersOK
  <2>4. ASSUME NEW g, NEW u, UNCHANGED groupCache,
               Goto(c, [job[c] EXCEPT !.rest = @ \ {<<g, u>>}, !.cached = FALSE])
        PROVE  SettledCached' /\ ReadersOK'
    <3>1. /\ job'[c].lists = job[c].lists
          /\ job'[c].rest \subseteq job[c].rest
          /\ ~job'[c].cached
          /\ job'[c].step = "sadd"
      <4> DEFINE j == [job[c] EXCEPT !.rest = @ \ {<<g, u>>}, !.cached = FALSE]
      <4>1. job'[c] = j
        BY <2>4, OthersStay
      <4>2. j.lists = job[c].lists /\ j.step = "sadd"
        BY <2>1 DEF LoginJob
      <4>3. j.rest = job[c].rest \ {<<g, u>>}
        BY <2>1 DEF LoginJob
      <4>4. j.cached = FALSE
        BY <2>1 DEF LoginJob
      <4> HIDE DEF j
      <4> QED  BY <4>1, <4>2, <4>3, <4>4
    <3>2. ListsOK(job[c])'
      BY <2>1, <2>2, <3>1 DEF ListsOK, Member
    <3> QED  BY <1>0, <2>2, <2>4, <3>2, CacheElsewhere
  <2>5. ASSUME job[c].rest = {}, UNCHANGED groupCache, Goto(c, [job[c] EXCEPT !.step = "ack"])
        PROVE  SettledCached' /\ ReadersOK'
    <3>1. /\ job'[c].lists = job[c].lists
          /\ job'[c].rest = {}
          /\ job[c].rest = {}
          /\ job'[c].cached = job[c].cached
      BY <2>1, <2>5, OthersStay DEF LoginJob
    <3>2. ListsOK(job[c])'
      BY <2>1, <2>2, <2>5, <3>1 DEF ListsOK, Member
    <3> QED  BY <1>0, <2>2, <2>5, <3>2, CacheElsewhere
  <2> QED  BY <1>3, <2>3, <2>4, <2>5 DEF LoginSadd
<1>4. CASE LoginAck(c)
  <2>1. job[c] \in LoginJob /\ ListsOK(job[c]) /\ job[c].step = "ack"
    BY <1>4, JobOfStep DEF LoginAck, ReadersOK, Reading, At
  <2>2. UNCHANGED groupUser /\ UNCHANGED groupCache /\ ~Reading(c)'
    BY <1>4, NotToLists DEF LoginAck, tables, Reading, At, Goto, Idle, TypeOK
  <2>3. \A g \in GroupId :
           settled'[g] = settled[g] \cup (IF job[c].cached THEN job[c].lists[g] ELSE {})
    BY <1>4 DEF LoginAck
  <2>4. job[c].cached => \A g \in GroupId : job[c].lists[g] \subseteq groupCache[g]
    BY <2>1 DEF ListsOK
  <2>5. SettledCached'
    BY <2>2, <2>3, <2>4 DEF SettledCached, Member
  <2>6. ASSUME NEW d \in Client, Reading(d)' PROVE ListsOK(job[d])'
    <3>1. job'[d] = job[d] /\ ListsOK(job[d])
      BY <1>0, <2>2, <2>6 DEF Reading, At, ReadersOK
    <3> QED  BY <1>0, <2>2, <3>1, ListsStay DEF ListsOK
  <2> QED  BY <2>5, <2>6 DEF ReadersOK
<1>5. CASE ~QueryGroups(c) /\ ~QueryMembers(c) /\ ~LoginSadd(c) /\ ~LoginAck(c)
  <2>1. UNCHANGED groupCache /\ UNCHANGED settled
    BY <1>5 DEF Step, AddFriend, CreateGroup, AddGroup, GroupChat, Ask, Login, Loginout,
       FriendFirst, FriendSecond, GroupInsert, CreatorInsert, JoinInsert,
       Smembers, QueryNumber, Send, Die, tables, history
  <2>2. CASE Loginout(c)
    <3>1. UNCHANGED <<job, groupUser>>
      BY <2>2 DEF Loginout, tables
    <3> QED  BY <2>1, <3>1 DEF SettledCached, ReadersOK, Reading, At, ListsOK, Member
  <2>3. CASE ~Loginout(c)
    <3>1. ~Reading(c)'
      BY <1>5, <2>3, NotToLists
    <3> QED  BY <1>0, <2>1, <3>1, CacheElsewhere
  <2> QED  BY <2>2, <2>3
<1> QED  BY <1>1, <1>2, <1>3, <1>4, <1>5

\* The addressees of groupChat come from one of its two queries.
LEMMA AddresseesStep ==
    ASSUME TypeOK, SettledCached, NEW c \in Client, Step(c),
           NEW d \in Client, At(d, "send")', ~At(d, "send")
    PROVE  LET to == job'[d].to
               g == job'[d].group
           IN /\ to \subseteq Member(g)
              /\ to # {} => settled[g] \subseteq to
<1>1. d = c
  BY Moves DEF At
<1>2. \A g \in GroupId : settled[g] \subseteq Member(g)
  BY DEF SettledCached
<1>3. ASSUME NEW j, Goto(c, j), j.step # "send" PROVE FALSE
  BY <1>1, <1>3, OthersStay DEF At
<1>4. ASSUME NEW j, Ask(c, j), j.step # "send" PROVE FALSE
  BY <1>3, <1>4 DEF Ask
<1>5. Idle.step # "send"
  BY DEF Idle
<1>6. CASE Smembers(c)
  <2>1. job[c] \in ChatJob
    BY <1>6, JobOfStep DEF Smembers
  <2>2. [job[c] EXCEPT !.step = "query_number"].step # "send"
    BY <2>1 DEF ChatJob
  <2>3. Goto(c, [step |-> "send", id |-> job[c].id, group |-> job[c].group,
                 to |-> groupCache[job[c].group]])
    BY <1>3, <1>6, <2>2 DEF Smembers
  <2>4. job'[d].group = job[c].group /\ job'[d].to = groupCache[job[c].group]
    BY <1>1, <2>3, OthersStay
  <2> QED  BY <2>1, <2>4 DEF SettledCached, ChatJob
<1>7. CASE QueryNumber(c)
  <2>1. job[c] \in ChatJob
    BY <1>7, JobOfStep DEF QueryNumber
  <2>2. PICK ms \in SUBSET User :
           /\ Select(ms, Member(job[c].group))
           /\ Goto(c, [step |-> "send", id |-> job[c].id, group |-> job[c].group, to |-> ms])
    BY <1>7 DEF QueryNumber
  <2>3. job'[d].group = job[c].group /\ job'[d].to = ms
    BY <1>1, <2>2, OthersStay
  <2>4. ms = Member(job[c].group) \/ ms = {}
    BY <2>2 DEF Select
  <2> QED  BY <1>2, <2>1, <2>3, <2>4 DEF ChatJob
<1>8. CASE AddFriend(c)
  <2>1. PICK f \in User : Ask(c, [step |-> "friend1", id |-> currentUser[c], with |-> f])
    BY <1>8 DEF AddFriend
  <2> QED  BY <1>4, <2>1
<1>9. CASE CreateGroup(c)
  <2>1. Ask(c, [step |-> "group1", id |-> currentUser[c]])
    BY <1>9 DEF CreateGroup
  <2> QED  BY <1>4, <2>1
<1>10. CASE AddGroup(c)
  <2>1. PICK g \in GroupId : Ask(c, [step |-> "join", id |-> currentUser[c], group |-> g])
    BY <1>10 DEF AddGroup
  <2> QED  BY <1>4, <2>1
<1>11. CASE GroupChat(c)
  <2>1. PICK g \in GroupId : Ask(c, [step |-> "smembers", id |-> currentUser[c], group |-> g])
    BY <1>11 DEF GroupChat
  <2> QED  BY <1>4, <2>1
<1>12. CASE Login(c)
  <2>1. PICK u \in User : Goto(c, [step |-> "query_groups", id |-> u])
    BY <1>12 DEF Login
  <2> QED  BY <1>3, <2>1
<1>13. CASE Loginout(c)
  BY <1>13 DEF Loginout, At
<1>14. CASE FriendFirst(c)
  <2>1. job[c] \in FriendJob
    BY <1>14, JobOfStep DEF FriendFirst
  <2>2. [job[c] EXCEPT !.step = "friend2"].step # "send"
    BY <2>1 DEF FriendJob
  <2> QED  BY <1>3, <1>5, <1>14, <2>2 DEF FriendFirst
<1>15. CASE FriendSecond(c) \/ CreatorInsert(c) \/ JoinInsert(c) \/ LoginAck(c) \/ Send(c) \/ Die(c)
  <2>1. Goto(c, Idle)
    BY <1>15 DEF FriendSecond, CreatorInsert, JoinInsert, LoginAck, Send, Die
  <2> QED  BY <1>3, <1>5, <2>1
<1>16. CASE GroupInsert(c)
  BY <1>3, <1>5, <1>16 DEF GroupInsert
<1>17. CASE QueryGroups(c)
  <2>1. PICK gs \in SUBSET GroupId :
           Goto(c, [step |-> "query_members", id |-> job[c].id,
                    todo |-> gs, lists |-> NoLists, rest |-> {}, cached |-> TRUE])
    BY <1>17 DEF QueryGroups
  <2> QED  BY <1>3, <2>1
<1>18. CASE QueryMembers(c) \/ LoginSadd(c)
  <2>1. job[c] \in LoginJob
    BY <1>18, JobOfStep DEF QueryMembers, LoginSadd
  <2>2. PICK j \in LoginJob : Goto(c, j)
    BY <1>18, <2>1, QueryMembersJob DEF LoginSadd, LoginJob
  <2>3. j.step # "send"
    BY DEF LoginJob
  <2> QED  BY <1>3, <2>2, <2>3
<1> QED
  BY <1>6, <1>7, <1>8, <1>9, <1>10, <1>11, <1>12, <1>13, <1>14, <1>15, <1>16, <1>17, <1>18
     DEF Step

\* groupChat sends to members only, and to every member that a finished login has read and
\* cached, unless it has no addressees at all because a SELECT failed.
THEOREM AddresseesAreSettled == Spec => AddresseesSettled
<1>1. Init => SettledCached /\ ReadersOK
  BY DEF Init, SettledCached, ReadersOK, Reading, At, Idle, NoLists
<1>2. TypeOK /\ SettledCached /\ ReadersOK /\ [Next]_vars => SettledCached' /\ ReadersOK'
  <2>1. ASSUME SettledCached, ReadersOK, UNCHANGED vars PROVE SettledCached' /\ ReadersOK'
    BY <2>1 DEF SettledCached, ReadersOK, Reading, At, ListsOK, Member, vars, tables, history
  <2> QED  BY <2>1, CacheStep DEF Next
<1>3. TypeOK /\ SettledCached /\ [Next]_vars =>
          [\A c \in Client :
              At(c, "send")' /\ ~At(c, "send") =>
                  LET to == job'[c].to
                      g == job'[c].group
                  IN /\ to \subseteq Member(g)
                     /\ to # {} => settled[g] \subseteq to]_vars
  BY AddresseesStep DEF Next
<1> QED  BY <1>1, <1>2, <1>3, RecordsTyped, PTL DEF Spec, AddresseesSettled
=============================================================================
