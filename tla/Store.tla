------------------------------- MODULE Store --------------------------------
(***************************************************************************)
(* The two stores every chat server of the cluster shares: the MySQL       *)
(* tables behind dataoperate/ and the Redis keys behind redis/.  A store   *)
(* executes one command at a time, so each command is one atomic step of   *)
(* the handler that issues it; what happens between two commands of one    *)
(* handler is left to the modules that use them.                           *)
(*                                                                         *)
(* A command that fails returns false and its callers in chatservice.cpp   *)
(* never look at the result: the command simply has no effect.  "mysql"    *)
(* and "redis" in Faults say that this may happen.  The one failure that   *)
(* is not silent is an exhausted Redis pool: the null pointer is used and  *)
(* the process dies, which is what "kill" stands for.  "gbk" says that the *)
(* tables may hold a name that is not UTF-8: the MySQL connections speak   *)
(* gbk, and dump() throws at what it cannot take for UTF-8.                *)
(***************************************************************************)
CONSTANTS
    Server,     \* chat server processes, named by the channel they subscribe to
    User,       \* user ids
    Group,      \* group ids
    Msg,        \* chat messages, abstracted to identities
    NoServer,   \* "no such field": the empty string hget returns
    NoUser,     \* the id -1 of a default-constructed User
    Faults      \* what the environment may do: a subset of FaultKind

FaultKind == {"mysql", "redis", "kill", "sigint", "gbk"}

ASSUME StoreAssumption ==
    /\ NoServer \notin Server
    /\ NoUser \notin User
    /\ Faults \subseteq FaultKind

VARIABLES
    user,            \* table User: id -> row's state, "absent" when there is no row
    offlineMessage,  \* table OfflineMessage: user id -> stored messages
    groupUser,       \* table GroupUser: group id -> member ids
    onlineUser,      \* Redis hash onlineUser: user id -> server name
    groupCache       \* Redis set <groupid>: member ids cached at login

mysqlVars == <<user, offlineMessage, groupUser>>
redisVars == <<onlineUser, groupCache>>
storeVars == <<user, offlineMessage, groupUser, onlineUser, groupCache>>

StoreTypeOK ==
    /\ user \in [User -> {"absent", "offline", "online"}]
    /\ offlineMessage \in [User -> SUBSET Msg]
    /\ groupUser \in [Group -> SUBSET User]
    /\ onlineUser \in [User -> Server \cup {NoServer}]
    /\ groupCache \in [Group -> SUBSET User]

(***************************************************************************)
(* The tables outlive every server, so a cluster may start on any content  *)
(* whose users are logged off; the Redis keys start out empty.             *)
(***************************************************************************)
StoreInit ==
    /\ user \in [User -> {"absent", "offline"}]
    /\ offlineMessage \in [User -> SUBSET Msg]
    /\ groupUser \in [Group -> SUBSET User]
    /\ onlineUser = [u \in User |-> NoServer]
    /\ groupCache = [g \in Group |-> {}]

-----------------------------------------------------------------------------
\* MySQL commands

\* update user set state=... where id=u: without such a row (in particular
\* for the id -1) it changes nothing.
UpdateState(u, s) ==
    \/ user' = [v \in User |-> IF v = u /\ user[v] # "absent" THEN s ELSE user[v]]
    \/ "mysql" \in Faults /\ user' = user

\* insert into user(...): name is UNIQUE, the new row is offline.
InsertUser(u) ==
    /\ user[u] = "absent"
    /\ user' = [user EXCEPT ![u] = "offline"]

\* delete from OfflineMessage where userid=u
RemoveOfflineMsg(u) ==
    \/ offlineMessage' = [offlineMessage EXCEPT ![u] = {}]
    \/ "mysql" \in Faults /\ offlineMessage' = offlineMessage

\* The (group, member) pairs queryGroup returns for u: every member, with a row
\* of its own in the table User, of every group u belongs to.
QueryGroup(u) ==
    {gm \in Group \X User :
        {u, gm[2]} \subseteq groupUser[gm[1]] /\ user[gm[2]] # "absent"}

-----------------------------------------------------------------------------
\* Redis commands

\* HSET onlineUser u s
HSet(u, s) ==
    \/ onlineUser' = [onlineUser EXCEPT ![u] = s]
    \/ "redis" \in Faults /\ onlineUser' = onlineUser

\* HDEL onlineUser u
HDel(u) ==
    \/ onlineUser' = [onlineUser EXCEPT ![u] = NoServer]
    \/ "redis" \in Faults /\ onlineUser' = onlineUser

\* SADD g u
SAdd(g, u) ==
    \/ groupCache' = [groupCache EXCEPT ![g] = @ \cup {u}]
    \/ "redis" \in Faults /\ groupCache' = groupCache
=============================================================================
