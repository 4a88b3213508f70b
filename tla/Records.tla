------------------------------ MODULE Records -------------------------------
(***************************************************************************)
(* What users have on record and what they are shown of it: the tables     *)
(* Friend, AllGroup and GroupUser and the group members cached in Redis,   *)
(* the handlers addFriend, createGroup, addGroup, the lists that login     *)
(* reads, and the member list that groupChat sends to.  Handlers of        *)
(* different connections interleave between any two statements.  Sessions  *)
(* are in Session.tla: here a user is logged in at one client at most.     *)
(***************************************************************************)
EXTENDS Integers, FiniteSets

CONSTANTS
    User,       \* user ids with a row in the table User
    Client,     \* client processes, each with one connection
    MaxGroup,   \* bound: group ids 1 .. MaxGroup
    NoUser,     \* currentUser of a client that has not logged in
    Faults      \* what may fail: a subset of {"mysql", "redis", "kill"}

ASSUME RecordsAssumption ==
    /\ NoUser \notin User
    /\ MaxGroup \in Nat
    /\ Faults \subseteq {"mysql", "redis", "kill"}

VARIABLES
    friend,       \* table Friend: rows <<userid, friendid>>, the primary key
    allGroup,     \* table AllGroup: its ids are 1 .. allGroup
    groupUser,    \* table GroupUser: <<groupid, userid>> -> grouprole
    groupCache,   \* Redis set <groupid>
    job,          \* the handler that runs for a client, and its local variables
    currentUser,  \* of the client
    \* history
    made,         \* who created a group
    half,         \* {user, friend} of the second inserts that failed or were not reached
    settled       \* group -> members that a finished login has read and cached

tables == <<friend, allGroup, groupUser, groupCache>>
history == <<made, half, settled>>
vars == <<tables, job, currentUser, history>>

GroupId == 1 .. MaxGroup
Member(g) == {u \in User : groupUser[<<g, u>>] # "none"}

\* What a handler keeps between two statements.
Idle == [step |-> "idle"]
Job ==
    {Idle}
    \cup [step : {"friend1", "friend2"}, id : User, with : User]
    \cup [step : {"group1", "query_groups"}, id : User]
    \cup [step : {"creator", "join"}, id : User, group : GroupId]
    \cup [step : {"query_members", "sadd", "ack"}, id : User,
          todo : SUBSET GroupId, lists : [GroupId -> SUBSET User],
          rest : SUBSET (GroupId \X User), cached : BOOLEAN]
    \cup [step : {"smembers", "query_number"}, id : User, group : GroupId]
    \cup [step : {"send"}, id : User, group : GroupId, to : SUBSET User]

TypeOK ==
    /\ friend \subseteq User \X User
    /\ allGroup \in 0 .. MaxGroup
    /\ groupUser \in [GroupId \X User -> {"none", "normal", "creator"}]
    /\ groupCache \in [GroupId -> SUBSET User]
    /\ job \in [Client -> Job]
    /\ currentUser \in [Client -> User \cup {NoUser}]
    /\ made \in [GroupId -> User \cup {NoUser}]
    /\ half \subseteq SUBSET User
    /\ settled \in [GroupId -> SUBSET User]

NoLists == [g \in GroupId |-> {}]

Init ==
    /\ friend = {} /\ allGroup = 0
    /\ groupUser = [gu \in GroupId \X User |-> "none"]
    /\ groupCache = NoLists
    /\ job = [c \in Client |-> Idle]
    /\ currentUser = [c \in Client |-> NoUser]
    /\ made = [g \in GroupId |-> NoUser]
    /\ half = {}
    /\ settled = NoLists

At(c, step) == job[c].step = step
Goto(c, j) == job' = [job EXCEPT ![c] = j]

-----------------------------------------------------------------------------
\* A client in its menu asks for something; one request of a client runs at a time.

Ask(c, j) ==
    /\ currentUser[c] # NoUser /\ At(c, "idle")
    /\ Goto(c, j)
    /\ UNCHANGED <<tables, currentUser, history>>

AddFriend(c) ==
    \E f \in User : Ask(c, [step |-> "friend1", id |-> currentUser[c], with |-> f])
CreateGroup(c) ==
    allGroup < MaxGroup /\ Ask(c, [step |-> "group1", id |-> currentUser[c]])
AddGroup(c) ==
    \E g \in GroupId : Ask(c, [step |-> "join", id |-> currentUser[c], group |-> g])
GroupChat(c) ==
    \E g \in GroupId : Ask(c, [step |-> "smembers", id |-> currentUser[c], group |-> g])

\* login past its session part; the row of a user who is logged in says online.
Login(c) ==
    /\ currentUser[c] = NoUser /\ At(c, "idle")
    /\ \E u \in User :
        /\ \A d \in Client : currentUser[d] # u /\ (~At(d, "idle") => job[d].id # u)
        /\ Goto(c, [step |-> "query_groups", id |-> u])
    /\ UNCHANGED <<tables, currentUser, history>>

\* loginout: the client is back in its first menu.
Loginout(c) ==
    /\ currentUser[c] # NoUser /\ At(c, "idle")
    /\ currentUser' = [currentUser EXCEPT ![c] = NoUser]
    /\ UNCHANGED <<tables, job, history>>

-----------------------------------------------------------------------------
\* addFriend

\* insert into friend: fails on a row that is there, or for a reason of its own.
\* The second insert is made only if the first one succeeded.
FriendFirst(c) ==
    LET row == <<job[c].id, job[c].with>> IN
    /\ At(c, "friend1")
    /\ \/ /\ row \notin friend
          /\ friend' = friend \cup {row}
          /\ Goto(c, [job[c] EXCEPT !.step = "friend2"])
       \/ /\ row \in friend \/ "mysql" \in Faults
          /\ UNCHANGED friend
          /\ Goto(c, Idle)
    /\ UNCHANGED <<allGroup, groupUser, groupCache, currentUser, history>>

\* Mutation of FriendSecond: the friend's side is the user's side again.
FriendSecond_SameRow(c) ==
    /\ At(c, "friend2")
    /\ friend' = friend \cup {<<job[c].id, job[c].with>>}
    /\ Goto(c, Idle)
    /\ UNCHANGED <<allGroup, groupUser, groupCache, currentUser, history>>

FriendSecond(c) ==
    /\ At(c, "friend2")
    /\ \/ friend' = friend \cup {<<job[c].with, job[c].id>>} /\ UNCHANGED half
       \/ /\ "mysql" \in Faults
          /\ half' = half \cup {{job[c].id, job[c].with}}
          /\ UNCHANGED friend
    /\ Goto(c, Idle)
    /\ UNCHANGED <<allGroup, groupUser, groupCache, currentUser, made, settled>>

-----------------------------------------------------------------------------
\* createGroup and addGroup

\* insert into AllGroup: the id is the next one, mysql_insert_id asks the same connection
\* for it.  Without the row there is no answer.
GroupInsert(c) ==
    /\ At(c, "group1")
    /\ \/ /\ allGroup < MaxGroup
          /\ allGroup' = allGroup + 1
          /\ made' = [made EXCEPT ![allGroup + 1] = job[c].id]
          /\ Goto(c, [step |-> "creator", id |-> job[c].id, group |-> allGroup + 1])
       \/ /\ "mysql" \in Faults \/ allGroup = MaxGroup
          /\ UNCHANGED <<allGroup, made>>
          /\ Goto(c, Idle)
    /\ UNCHANGED <<friend, groupUser, groupCache, currentUser, half, settled>>

\* insert into GroupUser: fails on a member of the group, whatever the role.
InsertMember(g, u, role) ==
    \/ groupUser' = [groupUser EXCEPT ![<<g, u>>] = IF @ = "none" THEN role ELSE @]
    \/ "mysql" \in Faults /\ UNCHANGED groupUser

\* Mutation of CreatorInsert: the creator joins the last group there is.
CreatorInsert_LastId(c) ==
    /\ At(c, "creator")
    /\ InsertMember(allGroup, job[c].id, "creator")
    /\ Goto(c, Idle)
    /\ UNCHANGED <<friend, allGroup, groupCache, currentUser, history>>

\* The creator joins; the result of the insert is not looked at and the answer is errno 0.
CreatorInsert(c) ==
    /\ At(c, "creator")
    /\ InsertMember(job[c].group, job[c].id, "creator")
    /\ Goto(c, Idle)
    /\ UNCHANGED <<friend, allGroup, groupCache, currentUser, history>>

\* addGroup does not ask whether there is such a group; its answer is errno 0 too.
JoinInsert(c) ==
    /\ At(c, "join")
    /\ InsertMember(job[c].group, job[c].id, "normal")
    /\ Goto(c, Idle)
    /\ UNCHANGED <<friend, allGroup, groupCache, currentUser, history>>

-----------------------------------------------------------------------------
\* The lists of login

\* A SELECT: what it asks for, or nothing when it fails.
Select(result, S) ==
    \/ result = S
    \/ "mysql" \in Faults /\ result = {}

\* The first statement of queryGroup: the groups of the user that have a row in AllGroup.
QueryGroups(c) ==
    LET u == job[c].id IN
    /\ At(c, "query_groups")
    /\ \E gs \in SUBSET GroupId :
        /\ Select(gs, {g \in 1 .. allGroup : u \in Member(g)})
        /\ Goto(c, [step |-> "query_members", id |-> u,
                    todo |-> gs, lists |-> NoLists, rest |-> {}, cached |-> TRUE])
    /\ UNCHANGED <<tables, currentUser, history>>

\* One statement for the members of each group, then the loop over all of them.
QueryMembers(c) ==
    /\ At(c, "query_members")
    /\ \/ \E g \in job[c].todo, ms \in SUBSET User :
            /\ Select(ms, Member(g))
            /\ Goto(c, [job[c] EXCEPT !.todo = @ \ {g},
                                      !.lists[g] = ms,
                                      !.rest = @ \cup ({g} \X ms)])
       \/ job[c].todo = {} /\ Goto(c, [job[c] EXCEPT !.step = "sadd"])
    /\ UNCHANGED <<tables, currentUser, history>>

\* Mutation of LoginSadd: only the user's own membership is cached.
LoginSadd_Own(c) ==
    /\ At(c, "sadd")
    /\ groupCache' = [g \in GroupId |->
           groupCache[g] \cup ({job[c].id} \cap job[c].lists[g])]
    /\ Goto(c, [job[c] EXCEPT !.step = "ack"])
    /\ UNCHANGED <<friend, allGroup, groupUser, currentUser, history>>

\* SADD of one member after the other.
LoginSadd(c) ==
    /\ At(c, "sadd")
    /\ \/ \E g \in GroupId, u \in User :
            /\ <<g, u>> \in job[c].rest
            /\ \/ /\ groupCache' = [groupCache EXCEPT ![g] = @ \cup {u}]
                  /\ Goto(c, [job[c] EXCEPT !.rest = @ \ {<<g, u>>}])
               \/ /\ "redis" \in Faults
                  /\ UNCHANGED groupCache
                  /\ Goto(c, [job[c] EXCEPT !.rest = @ \ {<<g, u>>}, !.cached = FALSE])
       \/ /\ job[c].rest = {}
          /\ UNCHANGED groupCache
          /\ Goto(c, [job[c] EXCEPT !.step = "ack"])
    /\ UNCHANGED <<friend, allGroup, groupUser, currentUser, history>>

\* The answer reaches the client.
LoginAck(c) ==
    LET j == job[c] IN
    /\ At(c, "ack")
    /\ Goto(c, Idle)
    /\ currentUser' = [currentUser EXCEPT ![c] = j.id]
    /\ settled' = [g \in GroupId |->
           settled[g] \cup (IF j.cached THEN j.lists[g] ELSE {})]
    /\ UNCHANGED <<tables, made, half>>

-----------------------------------------------------------------------------
\* The addressees of groupChat

\* SMEMBERS; an empty set, or none because the command failed, sends it to MySQL.
Smembers(c) ==
    LET g == job[c].group IN
    /\ At(c, "smembers")
    /\ \/ /\ groupCache[g] # {}
          /\ Goto(c, [step |-> "send", id |-> job[c].id, group |-> g, to |-> groupCache[g]])
       \/ /\ groupCache[g] = {} \/ "redis" \in Faults
          /\ Goto(c, [job[c] EXCEPT !.step = "query_number"])
    /\ UNCHANGED <<tables, currentUser, history>>

QueryNumber(c) ==
    LET g == job[c].group IN
    /\ At(c, "query_number")
    /\ \E ms \in SUBSET User :
        /\ Select(ms, Member(g))
        /\ Goto(c, [step |-> "send", id |-> job[c].id, group |-> g, to |-> ms])
    /\ UNCHANGED <<tables, currentUser, history>>

\* The loop over the addressees is in Chat.tla.
Send(c) ==
    /\ At(c, "send")
    /\ Goto(c, Idle)
    /\ UNCHANGED <<tables, currentUser, history>>

\* The server process of the client dies; so does the client, and a new one starts.  A login that
\* an exception ends at a name that is not UTF-8 leaves the tables in the same way: its
\* client waits without an answer until it is closed.
Die(c) ==
    /\ "kill" \in Faults
    /\ Goto(c, Idle)
    /\ half' = IF At(c, "friend2") THEN half \cup {{job[c].id, job[c].with}} ELSE half
    /\ currentUser' = [currentUser EXCEPT ![c] = NoUser]
    /\ UNCHANGED <<tables, made, settled>>

-----------------------------------------------------------------------------
Step(c) ==
    \/ AddFriend(c) \/ CreateGroup(c) \/ AddGroup(c) \/ GroupChat(c)
    \/ Login(c) \/ Loginout(c)
    \/ FriendFirst(c) \/ FriendSecond(c)
    \/ GroupInsert(c) \/ CreatorInsert(c) \/ JoinInsert(c)
    \/ QueryGroups(c) \/ QueryMembers(c) \/ LoginSadd(c) \/ LoginAck(c)
    \/ Smembers(c) \/ QueryNumber(c) \/ Send(c)
    \/ Die(c)

Next == \E c \in Client : Step(c)

Spec == Init /\ [][Next]_vars

-----------------------------------------------------------------------------
\* Properties

\* Friendship is mutual: a row without its counterpart is being completed, or its
\* second insert failed or was never reached.  A counterpart that the friend inserts at
\* the same time makes one insert fail and leaves none out.
FriendsMutual ==
    \A u, f \in User :
        <<u, f>> \in friend /\ <<f, u>> \notin friend =>
            \/ {u, f} \in half
            \/ \E c \in Client : At(c, "friend2") /\ job[c].id = u /\ job[c].with = f

\* The creator of a group is the user who created it, whoever creates groups or joins at
\* the same time, even under an id that does not exist yet.
CreatorIsMaker ==
    \A g \in GroupId, u \in User : groupUser[<<g, u>>] = "creator" => made[g] = u

\* The list of addressees that groupChat is about to use has only members in it, and it
\* has every member that a finished login has read: a new member is left out at
\* most until the next login of a member has come to its end.
AddresseesSettled ==
    [][\A c \in Client :
          At(c, "send")' /\ ~At(c, "send") =>
              LET to == job'[c].to
                  g == job'[c].group
              IN /\ to \subseteq Member(g)
                 /\ to # {} => settled[g] \subseteq to]_vars
=============================================================================
