-------------------------------- MODULE Chat --------------------------------
(***************************************************************************)
(* How a chat message travels: oneChat, groupChat and addGroup of          *)
(* chatservice.cpp with their store commands, the Redis channel every      *)
(* server subscribes to, and the listener thread that hands what arrives   *)
(* there to redisMessageHandler.                                           *)
(*                                                                         *)
(* The module refines the abstract requests of Session: pc[c] and          *)
(* the mutex move as OtherRequest, OtherLock, OtherInsert, OtherUnlock and *)
(* OtherDone say, and step[c] tells which command of which handler comes   *)
(* next.  A handler names the user or the group it writes to through       *)
(* target, and text[c] is the message.  A message is written once.         *)
(***************************************************************************)
EXTENDS SessionProperties, Sequences, SequencesExt

CONSTANTS
    NoMsg,
    NoTarget    \* of a message that nobody has written yet

ASSUME ChatAssumption ==
    /\ NoMsg \notin Msg
    /\ NoTarget \notin User \cup Group

VARIABLES
    \* per connection, of the request its handler works on
    step,       \* the next command
    text,       \* the message
    peer,       \* the user the message is to be brought to now
    members,    \* groupChat: the list it has read
    rest,       \* ... and those of it the loop has not reached yet
    via,        \* the server name that hget returned
    \* shared
    channel,    \* what was published to a server and its listener has not read
    \* history
    target,     \* the user or the group a message was written to
    inbox,      \* what was sent over the connections of a user, in order
    accepted,   \* pairs (message, user) that oneChat or groupChat is done with
    lost,       \* pairs whose row a login deleted or whose insert failed
    dropped     \* pairs published in vain: nobody listened, or the user had left

handlerVars == <<step, text, peer, members, rest, via>>
historyVars == <<target, inbox, accepted, lost, dropped>>
chatVars == <<handlerVars, channel, historyVars>>
allVars == <<vars, chatVars>>

ChatTypeOK ==
    /\ step \in [Conn -> {"none", "local", "hget", "publish", "store", "members",
                          "query", "lock", "each", "join", "end"}]
    /\ text \in [Conn -> Msg \cup {NoMsg}]
    /\ peer \in [Conn -> User \cup {NoUser}]
    /\ members \in [Conn -> SUBSET User]
    /\ rest \in [Conn -> SUBSET User]
    /\ via \in [Conn -> Server \cup {NoServer}]
    /\ channel \in [Server -> Seq(Msg \X User)]
    /\ target \in [Msg -> User \cup Group \cup {NoTarget}]
    /\ inbox \in [User -> Seq(Msg)]
    /\ accepted \in SUBSET (Msg \X User)
    /\ lost \in SUBSET (Msg \X User)
    /\ dropped \in SUBSET (Msg \X User)

\* The messages of Msg are the ones still to be written.
ChatInit ==
    /\ Init
    /\ offlineMessage = [u \in User |-> {}]
    /\ step = [c \in Conn |-> "none"]
    /\ text = [c \in Conn |-> NoMsg]
    /\ peer = [c \in Conn |-> NoUser]
    /\ members = [c \in Conn |-> {}]
    /\ rest = [c \in Conn |-> {}]
    /\ via = [c \in Conn |-> NoServer]
    /\ channel = [s \in Server |-> <<>>]
    /\ target = [m \in Msg |-> NoTarget]
    /\ inbox = [u \in User |-> <<>>]
    /\ accepted = {}
    /\ lost = {}
    /\ dropped = {}

-----------------------------------------------------------------------------
\* Shared pieces

Step(c, from, to) ==
    /\ step[c] = from
    /\ step' = [step EXCEPT ![c] = to]

\* The entry that the handler of c finds for u.
Entry(c, u) == userConnMap[home[c]][u]

\* Message m is sent over the connection of u.
Deliver(u, m) == inbox' = [inbox EXCEPT ![u] = Append(@, m)]

InLoop(c) == pc[c] = "other_locked"

-----------------------------------------------------------------------------
\* oneChat

OneChat(c, u, m) ==
    /\ OtherRequest(c)
    /\ target[m] = NoTarget
    /\ target' = [target EXCEPT ![m] = u]
    /\ Step(c, "none", "local")
    /\ text' = [text EXCEPT ![c] = m]
    /\ peer' = [peer EXCEPT ![c] = u]
    /\ UNCHANGED <<members, rest, via, channel, inbox, accepted, lost, dropped>>

\* Mutation of OneChatLocal: the return at the end of the branch is missing.
OneChatLocal_NoReturn(c) ==
    /\ Step(c, "local", "hget")
    /\ CanLock(c)
    /\ Entry(c, peer[c]) # NoConn
    /\ Deliver(peer[c], text[c])
    /\ UNCHANGED <<vars, text, peer, members, rest, via, channel, target, accepted, lost, dropped>>

\* The addressee is at this server: sent under the mutex, and that is all.
OneChatLocal(c) ==
    /\ Step(c, "local", "end")
    /\ CanLock(c)
    /\ Entry(c, peer[c]) # NoConn
    /\ Deliver(peer[c], text[c])
    /\ accepted' = accepted \cup {<<text[c], peer[c]>>}
    /\ UNCHANGED <<vars, text, peer, members, rest, via, channel, target, lost, dropped>>

OneChatRemote(c) ==
    /\ Step(c, "local", "hget")
    /\ CanLock(c)
    /\ Entry(c, peer[c]) = NoConn
    /\ UNCHANGED <<vars, text, peer, members, rest, via, channel, historyVars>>

-----------------------------------------------------------------------------
\* What oneChat and the loop of groupChat do for a user who is not at this server

\* hget onlineUser: the server name, or "" for no field and for a failure.
Hget(c) ==
    /\ step[c] = "hget"
    /\ \E s \in {onlineUser[peer[c]]} \cup (IF "redis" \in Faults THEN {NoServer} ELSE {}) :
          /\ via' = [via EXCEPT ![c] = s]
          /\ step' = [step EXCEPT ![c] = IF s = NoServer THEN "store" ELSE "publish"]
    /\ UNCHANGED <<vars, text, peer, members, rest, channel, historyVars>>

\* Mutation of Publish: the addressee of the copy is the sender.
Publish_ToSender(c) ==
    /\ Step(c, "publish", IF InLoop(c) THEN "each" ELSE "store")
    /\ proc[via[c]] # "down"
    /\ channel' = [channel EXCEPT ![via[c]] = Append(@, <<text[c], session[c]>>)]
    /\ UNCHANGED <<vars, text, peer, members, rest, via, historyVars>>

\* Mutation of Publish: oneChat returns after it, as groupChat skips the store.
Publish_IsEnough(c) ==
    /\ Step(c, "publish", IF InLoop(c) THEN "each" ELSE "end")
    /\ \/ /\ proc[via[c]] # "down"
          /\ channel' = [channel EXCEPT ![via[c]] = Append(@, <<text[c], peer[c]>>)]
          /\ UNCHANGED dropped
       \/ /\ proc[via[c]] = "down" \/ "redis" \in Faults
          /\ dropped' = dropped \cup {<<text[c], peer[c]>>}
          /\ UNCHANGED channel
    /\ accepted' = IF InLoop(c) THEN accepted ELSE accepted \cup {<<text[c], peer[c]>>}
    /\ UNCHANGED <<vars, text, peer, members, rest, via, target, inbox, lost>>

\* PUBLISH reaches the listener if that server runs.  groupChat has an else
\* branch for the store, oneChat has not: it stores the message as well.
Publish(c) ==
    /\ Step(c, "publish", IF InLoop(c) THEN "each" ELSE "store")
    /\ \/ /\ proc[via[c]] # "down"
          /\ channel' = [channel EXCEPT ![via[c]] = Append(@, <<text[c], peer[c]>>)]
          /\ UNCHANGED dropped
       \/ /\ proc[via[c]] = "down" \/ "redis" \in Faults
          /\ dropped' = dropped \cup {<<text[c], peer[c]>>}
          /\ UNCHANGED channel
    /\ UNCHANGED <<vars, text, peer, members, rest, via, target, inbox, accepted, lost>>

\* insertOfflineMsg
InsertOfflineMsg(c) ==
    LET copy == <<text[c], peer[c]>> IN
    /\ Step(c, "store", IF InLoop(c) THEN "each" ELSE "end")
    /\ \/ /\ offlineMessage' = [offlineMessage EXCEPT ![peer[c]] = @ \cup {text[c]}]
          /\ UNCHANGED lost
       \/ /\ "mysql" \in Faults
          /\ lost' = lost \cup {copy}
          /\ UNCHANGED offlineMessage
    /\ accepted' = IF InLoop(c) THEN accepted ELSE accepted \cup {copy}
    /\ UNCHANGED <<user, groupUser, redisVars, connVars, procVars>>
    /\ UNCHANGED <<text, peer, members, rest, via, channel, target, inbox, dropped>>

-----------------------------------------------------------------------------
\* groupChat

GroupChat(c, g, m) ==
    /\ OtherRequest(c)
    /\ target[m] = NoTarget
    /\ target' = [target EXCEPT ![m] = g]
    /\ Step(c, "none", "members")
    /\ text' = [text EXCEPT ![c] = m]
    /\ UNCHANGED <<peer, members, rest, via, channel, inbox, accepted, lost, dropped>>

\* smembers: an empty reply, or none, sends the handler to MySQL.
Smembers(c) ==
    /\ step[c] = "members"
    /\ \E found \in {groupCache[target[text[c]]]} \cup (IF "redis" \in Faults THEN {{}} ELSE {}) :
          /\ members' = [members EXCEPT ![c] = found]
          /\ rest' = [rest EXCEPT ![c] = found]
          /\ step' = [step EXCEPT ![c] = IF found = {} THEN "query" ELSE "lock"]
    /\ UNCHANGED <<vars, text, peer, via, channel, historyVars>>

QueryNumber(c) ==
    /\ Step(c, "query", "lock")
    /\ \E found \in {groupUser[target[text[c]]]} \cup (IF "mysql" \in Faults THEN {{}} ELSE {}) :
          /\ members' = [members EXCEPT ![c] = found]
          /\ rest' = [rest EXCEPT ![c] = found]
    /\ UNCHANGED <<vars, text, peer, via, channel, historyVars>>

\* Mutation of GroupLock: the loop runs without the mutex.
GroupLock_Unlocked(c) ==
    /\ Step(c, "lock", "each")
    /\ Goto(c, "other", "other_locked")
    /\ UNCHANGED <<storeVars, home, keyed, arg, todo, session, procVars>>
    /\ UNCHANGED <<text, peer, members, rest, via, channel, historyVars>>

\* The mutex is taken for the whole loop.
GroupLock(c) ==
    /\ Step(c, "lock", "each")
    /\ OtherLock(c)
    /\ UNCHANGED <<text, peer, members, rest, via, channel, historyVars>>

\* The loop comes to member v: the sender is skipped, who is at this server
\* gets the message, for anybody else the hash onlineUser is asked.
Each(c, v) ==
    /\ step[c] = "each"
    /\ v \in rest[c]
    /\ rest' = [rest EXCEPT ![c] = @ \ {v}]
    /\ \/ /\ v = session[c]
          /\ UNCHANGED <<step, peer, inbox>>
       \/ /\ v # session[c]
          /\ Entry(c, v) # NoConn
          /\ Deliver(v, text[c])
          /\ UNCHANGED <<step, peer>>
       \/ /\ v # session[c]
          /\ Entry(c, v) = NoConn
          /\ peer' = [peer EXCEPT ![c] = v]
          /\ step' = [step EXCEPT ![c] = "hget"]
          /\ UNCHANGED inbox
    /\ UNCHANGED <<vars, text, members, via, channel, target, accepted, lost, dropped>>

\* Mutation of GroupUnlock: the mutex is not released.
GroupUnlock_KeepsLock(c) ==
    /\ Step(c, "each", "end")
    /\ rest[c] = {}
    /\ Goto(c, "other_locked", "other_done")
    /\ UNCHANGED <<storeVars, home, keyed, arg, todo, session, procVars>>
    /\ UNCHANGED <<text, peer, members, rest, via, channel, historyVars>>

GroupUnlock(c) ==
    /\ Step(c, "each", "end")
    /\ rest[c] = {}
    /\ OtherUnlock(c)
    /\ accepted' = accepted \cup ({text[c]} \X (members[c] \ {session[c]}))
    /\ UNCHANGED <<text, peer, members, rest, via, channel, target, inbox, lost, dropped>>

-----------------------------------------------------------------------------
\* addGroup, and createGroup for a group without members

AddGroup(c) ==
    /\ OtherRequest(c)
    /\ Step(c, "none", "join")
    /\ UNCHANGED <<text, peer, members, rest, via, channel, historyVars>>

\* A failed insert is acknowledged with errno 0 like any other.
Join(c, g) ==
    /\ Step(c, "join", "end")
    /\ \/ groupUser' = [groupUser EXCEPT ![g] = @ \cup {session[c]}]
       \/ "mysql" \in Faults /\ UNCHANGED groupUser
    /\ UNCHANGED <<user, offlineMessage, redisVars, connVars, procVars>>
    /\ UNCHANGED <<text, peer, members, rest, via, channel, historyVars>>

\* The handler returns.
Return(c) ==
    /\ Step(c, "end", "none")
    /\ OtherDone(c)
    /\ text' = [text EXCEPT ![c] = NoMsg]
    /\ peer' = [peer EXCEPT ![c] = NoUser]
    /\ members' = [members EXCEPT ![c] = {}]
    /\ via' = [via EXCEPT ![c] = NoServer]
    /\ UNCHANGED <<rest, channel, historyVars>>

-----------------------------------------------------------------------------
\* The listener thread of a server: redisMessageHandler sends the message under the
\* mutex if the user is here, and drops it otherwise.
RedisMessage(s) ==
    /\ channel[s] # <<>>
    /\ lock[s] = Nobody
    /\ channel' = [channel EXCEPT ![s] = Tail(@)]
    /\ LET m == Head(channel[s])[1]
           u == Head(channel[s])[2]
       IN  \/ /\ userConnMap[s][u] # NoConn
              /\ Deliver(u, m)
              /\ UNCHANGED dropped
           \/ /\ userConnMap[s][u] = NoConn
              /\ dropped' = dropped \cup {<<m, u>>}
              /\ UNCHANGED inbox
    /\ UNCHANGED <<vars, handlerVars, target, accepted, lost>>

-----------------------------------------------------------------------------
\* What a step of Session does to a request in flight: the handlers and the channel
\* of a process that dies die with it, and login deletes rows it only counted.
Follow ==
    LET clear(f, empty) == [c \in Conn |-> IF pc'[c] = "free" THEN empty ELSE f[c]] IN
    /\ step' = clear(step, "none")
    /\ text' = clear(text, NoMsg)
    /\ peer' = clear(peer, NoUser)
    /\ members' = clear(members, {})
    /\ rest' = clear(rest, {})
    /\ via' = clear(via, NoServer)
    /\ channel' = [s \in Server |-> IF proc'[s] = "down" THEN <<>> ELSE channel[s]]
    /\ lost' = lost \cup {mu \in Msg \X User :
                            mu[1] \in offlineMessage[mu[2]] \ offlineMessage'[mu[2]]}
    /\ dropped' = dropped \cup UNION {ToSet(channel[s]) : s \in {s \in Server : proc'[s] = "down"}}
    /\ UNCHANGED <<target, inbox, accepted>>

\* Everything else is a step of Session.
SessionStep ==
    \/ \E c \in Conn :
          \/ \E s \in Server : Accept(c, s)
          \/ ClientAESkey(c)
          \/ \E u \in User : Reg(c, u) \/ LoginQuery(c, u)
          \/ LogoutErase(c)
          \/ Disconnect(c)
          \/ LoginStep(c) \/ LogoutStep(c) \/ CloseStep(c)
    \/ \E s \in Server : ProcessStep(s)

ChatRequest(c) ==
    \/ \E u \in User, m \in Msg : OneChat(c, u, m)
    \/ \E g \in Group, m \in Msg : GroupChat(c, g, m)
    \/ Group # {} /\ AddGroup(c)

ChatStep(c) ==
    \/ OneChatLocal(c)
    \/ OneChatRemote(c)
    \/ Hget(c)
    \/ Publish(c)
    \/ InsertOfflineMsg(c)
    \/ Smembers(c)
    \/ QueryNumber(c)
    \/ GroupLock(c)
    \/ \E v \in User : Each(c, v)
    \/ GroupUnlock(c)
    \/ \E g \in Group : Join(c, g)
    \/ Return(c)

ChatNext ==
    \/ SessionStep /\ Follow
    \/ \E c \in Conn : ChatRequest(c) \/ ChatStep(c)
    \/ \E s \in Server : RedisMessage(s)

ChatSpec == ChatInit /\ [][ChatNext]_allVars

\* The fairness of Session for the same threads, the steps of the chat handlers
\* included.  Nothing is assumed of the listener.
HandlerStep(c) ==
    \/ (LoginStep(c) \/ LogoutStep(c) \/ CloseStep(c)) /\ Follow
    \/ ChatStep(c)

LockingStep(c) ==
    \/ (LoginInsert(c) \/ CloseErase(c)) /\ Follow
    \/ OneChatLocal(c) \/ OneChatRemote(c) \/ GroupLock(c)

ChatFairness ==
    /\ \A c \in Conn : WF_allVars(HandlerStep(c)) /\ SF_allVars(LockingStep(c))
    /\ \A s \in Server :
          WF_allVars(((\E u \in User : StopReset(s, u)) \/ StopHdel(s) \/ StopExit(s))
                      /\ Follow)

-----------------------------------------------------------------------------
\* Properties

\* However a message is routed (over the table, over the channel, to the table
\* OfflineMessage as well), no user is sent it twice, even when the user
\* moves between servers while it travels.  A row of OfflineMessage is no second copy,
\* because login does not send the rows it deletes (chatservice.cpp:145).
AtMostOnce == \A u \in User : IsInjective(inbox[u])

\* Message m is for u: it was written to u or to a group u is in.
MayGet(m, u) ==
    \/ target[m] = u
    \/ target[m] \in Group /\ u \in groupUser[target[m]]

\* A user gets only what was written to that user or to a group the user is in:
\* the member list may come from a cache filled by somebody else's login.
Addressed ==
    \A u \in User : \A m \in ToSet(inbox[u]) \cup offlineMessage[u] : MayGet(m, u)

\* Message m was sent to u or is a row of OfflineMessage, unless MySQL lost it or a login
\* deleted the row.
Kept(m, u) == m \in ToSet(inbox[u]) \/ m \in offlineMessage[u] \/ <<m, u>> \in lost

\* It is on its way to a server, or came there too late.
Published(m, u) == <<m, u>> \in dropped \/ \E s \in Server : <<m, u>> \in ToSet(channel[s])

\* What a handler is done with is kept for every addressee.  In oneChat, neither a
\* stale field of onlineUser nor a server that dies with its channel costs a message;
\* groupChat may lose it for a member in these two ways, and in no other: nobody on the
\* list is passed over.
MessageKept ==
    \A m \in Msg, u \in User :
        <<m, u>> \in accepted => Kept(m, u) \/ (target[m] \in Group /\ Published(m, u))

\* What the handlers rely on, taken together: the inductive invariant behind Addressed.
\* A request runs for a logged-in user, at the place of Session's request its
\* command belongs to, and brings its message to users it is for ...
RequestOK(c) ==
    /\ step[c] = "none" <=> pc[c] \notin OtherPc
    /\ step[c] # "none" => session[c] \in User
    /\ step[c] \in {"local", "members", "query", "lock", "join"} => pc[c] = "other"
    /\ step[c] = "each" => pc[c] = "other_locked"
    /\ pc[c] = "other_locked" => step[c] \in {"each", "hget", "publish", "store"}
    /\ step[c] \in {"local", "hget", "publish", "store"} =>
           /\ pc[c] \in {"other", "other_locked"}
           /\ text[c] \in Msg /\ peer[c] \in User /\ MayGet(text[c], peer[c])
    /\ step[c] = "publish" => via[c] \in Server
    /\ step[c] \in {"members", "query", "lock"} \/ pc[c] = "other_locked" =>
           text[c] \in Msg /\ target[text[c]] \in Group
    /\ rest[c] # {} => step[c] = "lock" \/ pc[c] = "other_locked"
    /\ \A v \in rest[c] : MayGet(text[c], v)

HandlerOK == \A c \in Conn : RequestOK(c)

\* ... and neither the cache, nor a login about to fill it, nor a channel names anybody else.
CacheOK ==
    /\ \A g \in Group : groupCache[g] \subseteq groupUser[g]
    /\ \A c \in Conn : \A gm \in todo[c] : gm[2] \in groupUser[gm[1]]

ChannelOK == \A s \in Server : \A mu \in ToSet(channel[s]) : MayGet(mu[1], mu[2])

ChatInv == TypeOK /\ ChatTypeOK /\ HandlerOK /\ CacheOK /\ ChannelOK /\ Addressed

\* The three handlers touch users, tables and mutex only as the abstract requests
\* of Session say: what holds for every behaviour of Session holds here.
SessionSpec == Spec

\* Every chat or group request comes to an end or its connection is gone: the loop
\* of groupChat, which keeps the mutex over its store commands, holds up the
\* other handlers of its server for a while and not for good.
RequestAnswered == \A c \in Conn : step[c] # "none" ~> step[c] = "none"

-----------------------------------------------------------------------------
\* "offline message storage and forwarding" (README.md:23): a row
\* leaves OfflineMessage only when its user has been sent the message.
OfflineForwarded ==
    [][\A u \in User : \A m \in offlineMessage[u] \ offlineMessage'[u] :
          m \in ToSet(inbox'[u])]_allVars
=============================================================================
