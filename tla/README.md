# A formal model of ChatserverBaseofMuduo

TLA+ modules for the chat server cluster of this repository, its client and the
parts of its JSON library that carry every message, the TLC configurations that
check them on small instances, and TLAPS proofs of theorems about them. Paths below
are relative to the repository; `chatservice.cpp` is `src/server/chatservice.cpp`,
`connectionpool.hpp` is `include/server/db/connectionpool.hpp`, `json.hpp` is
`thridparty/json.hpp`, and so on.

- [The system](#the-system)
- [Modules](#modules)
- [Runs](#runs)
- [Fairness](#fairness)
- [Proofs](#proofs)
- [What the code does not do](#what-the-code-does-not-do)
- [Not modelled](#not-modelled)
- [Plan](#plan)

## The system

Several server processes, behind a load balancer, share one MySQL database and
one Redis. A client keeps one TCP connection to one server.

| Component | State | Operations |
|---|---|---|
| `ChatServer` (`chatserver.cpp`) | the input buffer of a connection; muduo's main loop and 16 IO threads | connection callback (RSA key out, or close), message callback (length-prefixed frames, decryption, dispatch) |
| `ChatService` (`chatservice.cpp`) | `userConnMap_` under `ConnMapMutex_`, the server's name | `login`, `reg`, `userLoginout`, `oneChat`, `groupChat`, `addFriend`, `createGroup`, `addGroup`, `clientAESkey`, `closeException`, `ServerOffline`, `redisMessageHandler` |
| Data access (`dataoperate/`, `mysqlconnection.cpp`) | tables User, Friend, AllGroup, GroupUser, OfflineMessage | one SQL statement per operation, each with a connection of its own from the pool |
| `Redis` (`redis.cpp`) | hash `onlineUser` (user -> server), one set per group, one channel per server | `hset`, `hdel`, `hget`, `sadd`, `smembers`, `publish`, the listener thread |
| `ConnectionPool<T>` (`connectionpool.hpp`) | queue of idle connections, `curSize_`, `isRunning_`, mutex, three condition variables | `getConnection`, the deleter that returns a connection, producer thread, monitor thread, destructor |
| `KeyGuard` (`keyguard.cpp`) | RSA keys, table connection -> AES key | `addkey`, `removekey`, `findAESkey`, encryption, base64 |
| Client (`client.cpp`) | `userIsLogin`, semaphore `acksem`, AES key | menu thread and receiving thread, both of which send |
| JSON library (`json.hpp`) | the values themselves | `parse`, `dump`, four binary formats, pointers, `flatten`, `patch`, `diff`, `merge_patch` |
| `main.cpp` | - | start, Ctrl-C handler |

How they interact. The IO thread of a connection runs its handler from
beginning to end; a handler takes `ConnMapMutex_` for the table and asks MySQL
and Redis in between. Handlers of different connections, of the same or of
different servers, interleave at each of these points. `closeException`,
`groupChat` and `ServerOffline` keep the mutex *over* their store commands.
The listener thread receives what other servers publish. Ctrl-C runs
`ServerOffline` on the main thread. Whatever client and server send each other is
dumped by one process and parsed by the next, and a chat message is parsed and
dumped again by every server it passes.

What is hard:

- the same fact, "user u is online at server s", is kept in three places
  (`userConnMap_`, Redis, MySQL) that no transaction updates together;
- `login` reads the row, then acts on it; `logout` and `closeException`
  undo the three in an order of their own; any of them may be cut short by the
  death of the process;
- a message is routed by the state of a moment ago: the table of this server, the
  Redis hash, a cached member list;
- a friendship is two rows and a group is a row, a member and a cache, written
  by several statements while other handlers write theirs;
- the failure of a store command is not noticed by any handler;
- the pool's producer and deleter do half of their work outside the mutex;
- the byte stream has no boundaries, both threads of the client write to it, and the
  key exchange runs beside the menu;
- `dump` throws at a string that it takes for no UTF-8, by a decoder that shares no
  line with the scanner that has accepted the string.

What makes each component correct: for sessions, that an entry never
outlives its session, that a user has one session and can come back, that the three
places agree once the client is told so; for messages, that only addressees get
them, once, and that they are not lost without a reason; for records, that friends are
mutual, a creator is who created the group, and `groupChat` knows the members; for the pool,
that no connection is lost, shared or deleted in use, that the counter is right, that
sleeping borrowers are woken and the destructor returns; for the client, that
frames are found again, that a login waits for its own answer and does not wait for
ever, and that menu and server agree on who is logged in; for the library, that what is
written is read back and that nothing that was parsed makes `dump` throw. The hazards with
their lines, and the property that covers each, are in `PROJECT.json`.

## Modules

| Module | Models |
|---|---|
| `Store` | the tables and Redis keys that several servers share; one operator per command; which command may fail |
| `Session` | connections, keys, registration, login, logout, close, Ctrl-C, death and restart of servers; chat and group requests only by their effect on this state |
| `SessionProperties` | what sessions must guarantee, and the mapping to `Presence` |
| `Presence` | the abstract view: a user is offline, in one session, or lost with a dead process |
| `Chat` | `oneChat`, `groupChat`, the caching of a group's members and the listener, command by command; refines the chat requests of `Session` |
| `Records` | `addFriend`, `createGroup`, `addGroup`, the lists that `login` reads and caches, the addressees of `groupChat`: statement by statement |
| `ConnectionPool` | the pool's queue, threads and condition variables |
| `Link` | one client and its connection: menu thread, receiving thread, the byte stream, the server's buffer, the handshake, the answers |
| `Base64` | `base64_encode` in the client and `base64_decode` in the server, a group of a key at a time |
| `JsonString` | the scanner of a string and `dump_escaped`, byte by byte, side by side |
| `JsonText` | the scanner of numbers, the parser with its stack, with and without a callback, integers and containers as `dump` writes them; the grammar of JSON as the reference |
| `JsonBytes`, `JsonWriter`, `JsonReader` | values and their numbers; CBOR, MessagePack, UBJSON, BSON written and read |
| `JsonPatch` | pointers, `flatten`, `unflatten`, `patch`, `diff`, `merge_patch` |
| `MCSession`, `MCChat`, `MCRecords`, `MCConnectionPool`, `MCLink`, `MCJson` | symmetry sets, bounds, initial states and samples for TLC |
| `SessionProofs`, `SessionSerialProofs`, `ChatProofs`, `RecordsProofs`, `ConnectionPoolProofs`, `LinkProofs`, `JsonStringProofs`, `Base64Proofs` | theorems and proofs |

`Chat` EXTENDS `SessionProperties`, that EXTENDS `Session`, that EXTENDS
`Store`; `Presence` is instantiated under the refinement mapping
`PresenceOf`. `Records`, `ConnectionPool` and `Link` stand alone, and `MCJson`
puts the modules about JSON and base64 together.

**Session.** `pc[c]` says at which command or critical section the callback of
connection `c` is, with one action per such point: `login` is `LoginQuery`,
`LoginUpdate`, `LoginInsert` (mutex), `LoginHset`, `LoginGroups`, `LoginSadd`,
`LoginOffline`, `LoginRemove`, `LoginAck`. `LoginThrow` is the exception that `dump` throws
at a name that is not UTF-8, of a friend, a member, a group or the user: `ServerMessFunc` catches it,
what the login has written stays and no answer is sent (`pc` is `unanswered` until the connection ends). A critical section
that issues no command is one step; one that does is several, and `lock[s]` says
who is inside. `closeException` is `CloseErase`, `CloseHdel` (under the mutex),
`CloseUpdate`, `CloseKey`. `ServerOffline` is `StopLock`, `StopReset` and `StopHdel` for each entry,
`StopExit`. Requests follow the client's menu: one registers or logs in when logged
out, and logs out when logged in; that clients keep to it is `MenuRespected`, a
property of `Link`. A user's password, name and friend list are
not in the state; a wrong password is the always possible `login_failed`.

**Failures.** `Faults` says which may happen: `"mysql"` and `"redis"` commands that have
no effect and are not noticed (the handlers ignore every result), `"kill"` the
death of a process at any point (it also stands for the null pointer that an
exhausted pool hands out), `"sigint"` Ctrl-C, `"gbk"` names in the tables that are not UTF-8, so
that a login may end by an exception.

**Chat.** `step[c]` is the next command of the handler of `c`, `text`, `peer`, `members`,
`rest` and `via` its local variables. `channel[s]` is what was published and the
listener of `s` has not handled. A message is an identity that is written once;
`target` remembers to whom, `inbox[u]` what was sent over connections of `u`. Rows of
OfflineMessage are never sent (`chatservice.cpp:145`), so a message in a row has no second way to
its addressee.
`accepted` (what a handler is done with: for `groupChat` everybody on the list but the
sender), `lost` and `dropped` are history for `MessageKept`. `Follow` says what a step
of `Session` does to requests in flight (a dead process takes its handlers and
its channel along).

**Records.** `job[c]` is the handler that runs for client `c` with its local
variables: `FriendFirst` and `FriendSecond` are the two inserts of `addFriend`;
`GroupInsert`, `QueryGroups` and `CreatorInsert` are `createGroup`, which reads the id of
its group back by a query; `JoinInsert` is `addGroup`; `QueryMembers`, `LoginSadd` and
`LoginAck` are the lists of `login`; `Smembers`, `QueryNumber` and `Send` are
`groupChat`. Primary keys reject a row that exists, as in the SQL schema. Sessions are
left to `Session`: a user is logged in at one client at most. The client of this
repository has one request under way at a time. `half`, `made` and `settled` are history.

**ConnectionPool.** One action per critical section, one for each part outside the
mutex (`UpdateTime` and `NotifyAll` of the deleter, `connect` of the producer).
A wait may end by notification, by timeout or spuriously. `stale` holds the
connections whose idle time is over the limit. An address may be reused after `delete`.

**Link.** `main` and `reader` are the places of the two threads; each sends a frame
by two calls, `MainHead` and `MainBody`, `ReaderHead` and `ReaderBody`. `stream` is
every byte sent, each a pair of a frame and a place in it; `got` and `retrieved` are the
writer and the reader index of muduo's `Buffer`. `TakeFrame` is one round of the
loop of `ServerMessFunc`. Where the buffer begins with a head, `len` is the
length; where it does not, `len` is any `int32_t`, negative and too large ones
included (`Break`, `NegativeLength`); the comparison wraps as in C++. What is in the head
is `HeadSize` bytes and the widths are constants. A body decrypts under the key it
was encrypted with and under no other: `cipher` is `rsa`, `aes` or, for a key not
yet generated, `garbled`. Server to client there are no frames: `down` is what was sent,
and `Recv` may find one message (the client parses it) or end the client (`RecvFails`: two
messages, half of one, or one that does not decrypt). `session` says that the server has
logged the connection in, `entry` that `userConnMap_` leads to it, and `rival` is history: another
connection had a session of the same user at some time (`RivalLogin`, `RivalLogout`). `insert`
keeps the other connection's entry, and a logout over the other connection erases by user id, so a
client that was told `errno 0` may have no entry. `LoggedInIsReal` says that this is the only
reason; `MenuRespected` and `SessionIsKnown` are about `session`.

**JSON.** A character and the bytes for it are the state of `JsonString`: `todo` are the ranges that
`next_byte_in_range` has still to see, `state` is that of the decoder of
`dump_escaped`, one step per byte. After a dump the text may be scanned again, as
the next process does. The state of `Base64` is a key, the characters for it and what is decoded
of them; `EncodeThree` and `DecodeFour` are one round of a loop with a full group,
`EncodeLast` and `DecodeLast` the rest behind it. The other modules are functions. In `JsonText` a text is a sequence of symbols, where a
string counts as one, and `Parse` is the loop of `sax_parse_internal` with its stack of bits;
the callback parser keeps the two stacks of `json_sax_dom_callback_parser`. In the binary
formats a number is the eight bytes it has in memory, so the widths of the
code are the widths of the model. `MCJson` takes every input of these functions as one state.

## Runs

| Run | Instance | Shows |
|---|---|---|
| `faults` | 1 server, 2 users, 2 connections, 1 group, 1 message, all faults, logins race | `EntryOwned`, `OneEntryPerConn`, `SessionInv`, `IterationStable` |
| `serial` | 2 servers, 2 users, 2 connections, `redis`, `kill`, `sigint`, `gbk`; logins of one user do not race | `AtMostOneSession`, the refinement `PresenceSpec` |
| `chat` | 2 servers, 2 users, 2 connections, 1 group, 1 message, `kill`, `gbk`, serial logins | `AtMostOnce`, `Addressed`, `MessageKept`, `AckedIsRouted`, `NoGhostRoute`, the refinement `SessionSpec` |
| `answer` | 1 server, 2 users, 2 connections (one of them for one user only), 1 group with both as members, 1 message, `gbk`, logins race | `NoStuckUser`; `LoginEnds`, `RequestAnswered`, `SessionReleased` under fairness |
| `records` | 2 users, 2 clients, 2 groups, `mysql`, `redis`, `kill` | `FriendsMutual`, `CreatorIsMaker`, `AddresseesSettled` |
| `pool` | 2 threads, 3 addresses, minimum 1, maximum 1 | `Placed`, `SizeAccounted`, `SizeBounded`, `NoMissedReturn`; `ShutdownJoins` under fairness |
| `client` | heads of 2 bytes, bodies of 1, lengths -6 .. 5, 5 frames, 2 answers on their way; the user may log in and out over another connection | `Aligned`, `AckIsAwaited`, `LoggedInIsReal`, `SessionIsKnown`, `MenuRespected`; `LoginReturns` under fairness |
| `codec` | boundary bytes; texts of 9 symbols of the grammar, any 5 symbols; integers to 11000; keys of 4 bytes; values at the limits of each width, any 5 bytes of each format; pairs of documents; pointers of 2 tokens | `DumpAccepts`, `CodepointIsMeant`, `ScansUtf8`, `RoundTrip`, `ParseIsGrammar`, `DumpParses`, `KeyIsKept`, `BinaryRoundTrip`, `PatchReaches`, `FlattenReturns` |
| `double`, `freed`, `offline`, `writers` | smallest that shows it | violations, see below |

Why the bounds are enough.

- *Sessions and chat.* Two servers are needed for a user to move between
  them and for a message to be published; a third plays the part of the second
  again. The run `faults` is about the table and the mutex of one process: entries,
  lock and loop of `Session` belong to one server each, and `SessionInvariant` is
  proved for any number. Two users and two connections allow a login to race another
  and a sender with an addressee that comes and goes; connections are reused, so
  the number of sessions in a behaviour is not bounded. In the run
  `chat` every user has a row, one message is written, and no store command fails:
  more would outgrow a run, and the theorems about `Chat` have none of these
  restrictions. `AckedIsRouted` and `NoGhostRoute` are checked there because
  processes that die are their hazard, and `redis` commands that fail break them
  by design. In the run `answer` both users are members of the group, so the loop of `groupChat`
  queries, publishes or inserts for the absent one under the mutex, with another handler
  waiting for it. `OwnConn` gives one connection to one user, to keep the run small: their logins
  race still, since the other connection is anybody's. The liveness runs have no symmetry, which would not be sound there.
- *Records.* The rows of a friendship concern two users and the id of a group is mistaken
  for another with two groups. The constraint `OnePart` keeps friends and groups apart (they share
  no row), and `OneLarge` lets one group at a time have everybody; the theorems have neither.
- *Client.* Five frames are a key, a login, a request, a logout and a second login.
  The stream is cut anywhere, between any two bytes; two bytes for the head and a body of
  one are the smallest with an inner boundary in the head. Lengths up to 5 wrap
  as those of 32 bits do.
- *JSON.* The bytes are the first and last of each range that the code tells
  apart. Nine symbols hold an object in an array with a member and a comma, or two brackets
  too many. Strings, arrays and objects are as long as the limits of
  the formats (23, 24, 31, 32, 127, 255, 256, 32767, 65535, 65536) and one more.

`SerialLogins` excludes two logins of *one user* that are both between
query and update. It is an assumption about the environment the code needs and does not
enforce; the run `double` shows what happens without it.

`WholeFrames` in `Link` is such an assumption too: the server finds frames as long as the
two sends of one thread are not parted by the other thread. The run `writers` shows that
the client does not ensure it. `LoginReturns` is about a login that was sent in one
piece, encrypted, after the key; one sent before waits for ever.

`CHECK_DEADLOCK` is off in `client` and `writers` only: the client may have quit and the
server may be down.

## Fairness

Weak fairness for each callback: an IO thread goes on with what it is doing, and a store
command or a wait inside `getConnection` ends, by an answer or by a timeout. Strong fairness for the steps that
take `ConnMapMutex_` (`LoginInsert`, `CloseErase`, `OneChatLocal`, `OneChatRemote`,
`GroupLock`): the mutex is free again and again and a waiting thread gets it. Weak
fairness for `ServerOffline` on the main thread. Fairness of a login needs no
bound on the group's size: `todo` is fixed when it is read. In the pool, strong fairness for the
producer, which competes for the mutex, and for the monitor's exit, weak fairness for the
work the monitor does while it keeps the mutex; no notification is assumed to come
and no wait to end by itself. In `Link`, weak fairness for each thread that is
not waiting for its user, for the delivery of bytes, for the loop of the server, for the end
of a `recv` once the server is down. Nothing is
assumed about users, failures, restarts, pushes or the listener.

## Proofs

Proved by TLAPS for any sets of servers, users, connections, groups and
messages and, unless said, any faults:

- `SessionProofs`. `SessionInvariant` is the inductive invariant `SessionInv`:
  types; `ConnOK` (which `pc` goes with which session, key and
  process); `EntryOwned`; `LockOwned` (the mutex is held exactly inside the
  sections that span commands); `SweepInTable`. `EntryOwned` alone is not
  inductive: an erase under the mutex is safe only because nobody else is in
  such a section, and a removed key only because the close callback has passed
  its loop. `EntriesAreOwned`, `OneEntry` and the action property
  `IterationIsSafe` follow.
- `SessionSerialProofs`. With MySQL updates that succeed and serial logins,
  `SerialInvariant`, of which `MutualExclusion` (one session per user) is a part.
  The strengthening is that a holder's row is online and that a login past its
  query still finds the row offline. `SessionsRefinePresence` builds on it: a step of
  `Session` ends sessions and leaves their rows online (`EndsOnly`, a `Lose` or a
  stutter), begins that of one free user (`Begins`, an `Acquire`), or ends that of one user with
  the row reset (`GivesUp`, a `Release`).
  `NobodyIsLockedOut`, when only Redis may fail and logins may
  race or throw: a row becomes online only by the step that makes a holder, and no holder goes away
  before its update. `AckedAreRouted` and `NoGhosts`, when processes may die and logins
  throw, nothing else fails and logins are serial: the invariant `RouteInv` says, for every point of `login`, `logout` and
  `closeException`, which of entry, field and row are already or still
  there, and that a row that is not online has no field. The order of the two commands of a
  logout is what makes it inductive: in the other order the late `hdel` would hit the
  field of the next session.
- `ChatProofs`. `ChatRefinesSession`: the chat handlers implement the abstract
  requests of `Session` (every step maps to a step or a stutter), so what is proved
  there holds here, for instance `SendersFindSessions`. `ChatInvariant` is the
  inductive invariant `ChatInv`: where each command may occur, and that whatever
  carries a message or a member list (a handler's loop, the Redis set, a
  login about to fill it, a channel) names only users it is for. It gives
  `OnlyAddressees`. `MessagesAreKept`: what a handler is done with was sent to its
  addressee or is a row, unless MySQL lost it or a login deleted it; `groupChat` may
  besides have published it in vain. The invariant `KeptInv` stands for the loop of
  `groupChat` (`LoopOK`): each member on the list is ahead of the loop, is the one it is with,
  is the sender, or has a copy that is accounted for, and `AccountedMoves` says that a copy stays
  so on its way through a channel, an inbox or a table, deaths included. They hold
  with racing logins and dying processes. `NoMessageTwice`: the copy of a message for a
  user is at one place until it is sent, ahead of its handler or once in one channel
  (`OnceInv`). That one handler works on a message is part of the invariant, and so is
  that the loop of `groupChat` has left behind whom it is sending to.
- `RecordsProofs`. `RecordsTyped`, `FriendsAreMutual`, `CreatorIsTheMaker`,
  `AddresseesAreSettled`. Each is inductive with the types and with what handlers carry: an
  id that `createGroup` got back is one it has made; what a login has read
  but not cached is ahead of its `sadd`, and a cache that has a settled group's members never
  shrinks.
- `ConnectionPoolProofs`. `PoolInvariant` is inductive; what it adds to the
  properties is that the producer sets up one connection at a time and the room it saw
  before it released the mutex is still there. `NoConnectionLost`,
  `CounterIsExact`, `CounterIsBounded`, `ReturnIsAnnounced` follow.
- `LinkProofs`, for frames and heads of any length, integers of any width, any number of
  requests and pushes and a stream cut anywhere. `LinkInvariant` is the inductive `LinkInv`.
  None of the properties is inductive alone, since each is decided by bytes that the
  server has not read: `LoginAhead` says that a login ahead of the server is the one the menu
  thread waits for, with no answer under way (`LinkAckIsAwaited`); `WelcomeIsReal` that a client which
  knows of its session, or is about to be told, has no logout ahead, and `Entered` that a session
  has its entry unless another connection of the user had one too (`LinkLoggedInIsReal`). That
  connection's logins and logouts are steps of the proof like any other;
  `CommandsAhead` that commands ahead find a session and nothing follows a logout
  (`LinkMenuRespected`). Under `WholeFrames`, `AtBoundary` says that what was retrieved
  ends with a frame and that a length which was peeked is that of the next
  (`LinkAligned`), and `Known` that a session is known to the client, is about to be left,
  or had an answer that could not be dumped (`LinkSessionIsKnown`). That the frame of a
  thread is in the stream in order, its head before its body (`Ordered`, `Sending`), is
  what whole frames rest on.
- `JsonStringProofs`, for any set of bytes and any text. `DumpNeverThrows`: `dump`
  accepts what the scanner has accepted. The invariant relates the
  ranges that the scanner still expects to the state of the decoder (`Pending`), and
  bounds the code point that four hex digits and a pair of surrogates have made so
  far. `DumpMeansText` and `OnlyUtf8` rest on a second invariant, `ReadInv`, which
  says for each place of the scanner what the text is so far and what number the decoder
  has of it: one to three bytes of a character (`AtBytes`), digits of the first or the second
  unit (`AtHex`), a unit that waits for the other (`AtLow`). Their lemmas are the arithmetic of
  UTF-8: which second bytes keep a character in its shortest form and out of the
  surrogates (`FitsTwo`, `FitsThree`, `FitsFour`), and that `Utf8` and the table of
  the decoder are inverse (`Utf8Point`). `RoundTripKept` adds `Replay`: what was dumped has one of
  four forms (a character as it is, bytes above 7F, a short escape, a control character in
  hex), the scanner has read a prefix of it, and each form is read to its end and no further.
- `Base64Proofs`, for keys of any bytes and any length. `CodecInvariant` is the inductive
  `CodecInv`: of the part that was encoded, full groups of four are the bits of full groups of
  three; in the end the last group has its padding; and what was decoded is the
  beginning of the key. Decoding is the inverse of encoding by the arithmetic of one group, full or
  filled up with zeros. `KeysAreKept` follows: the server has the key of the client, and what
  travelled is Base64.

The only assumptions are those of the modules (null values differ from real
ones, `Faults` is a subset of the fault kinds, the pool's sizes are naturals, bytes are
bytes) and those that the theorems state.

Every safety and action property of the passing runs is proved, except those about the recursive
functions of the JSON modules. Only model-checked are:

- all liveness (`LoginEnds`, `RequestAnswered`, `SessionReleased`, `ShutdownJoins`,
  `LoginReturns`), which is out of the prover's reach;
- `ParseIsGrammar`, `DumpParses`, `BinaryRoundTrip`, `PatchReaches` and
  `FlattenReturns`: the parser, the formats and the patches are recursive over data, which
  asks for induction that the installed provers cannot instantiate.

## What the code does not do

- `double`: two logins of one user at the same time both succeed
  (`chatservice.cpp:66`, `:80`), against "the user is online can not login again" (`:71`).
- `freed`: the deleter touches a connection that the monitor may already have
  deleted (`connectionpool.hpp:148-150`), against `:27`.
- `offline`: stored messages are deleted at login and never sent
  (`chatservice.cpp:145-146`), against `README.md:23`.
- `writers`: the receiving thread sends the AES key between the two sends of the menu
  thread (`client.cpp:506`), against `client.cpp:109`, which names the main thread as the
  one that writes.

By reading the code for the models, with no run of their own:

- A login that throws at a name which is not UTF-8 leaves the client waiting for ever, with the
  row online, the entry and the Redis field set (`chatservice.cpp:104-148`, `chatserver.cpp:105`); the
  close of the connection undoes them. After two racing logins, one of the clients that were told
  `errno 0` has no entry and gets no messages (`chatservice.cpp:85`, `:171-175`).
- Ctrl-C between the update and the insert of a login leaves the user
  online for ever (`chatservice.cpp:80`, `:85`). The pool grows to `minSize_ + maxSize_`
  connections, because `init_pool` does not count its own (`connectionpool.hpp:98`);
  a request to its producer is lost when the producer is not waiting.
- `groupChat` loses a message published to a server that the member has left or that is dead
  (and in no other way, says `MessageKept`); a new
  member is missing from a cached group until somebody of the group logs in.
- The client does not clear its lists of friends and groups before another login
  (`client.cpp:188`).
- `json.hpp` documents `j == j.flatten().unflatten()` but for empty containers; an object with
  a key `0` comes back as an array or throws. It documents that values a callback discards are
  skipped in containers "as if the discarded value was never read" (`json.hpp:13996`); a value or an
  array discarded in an object, and an object discarded at its end in an array, stay there as
  discarded values. The chat system passes no callback.
- `patch`: an `add` below the first token creates containers that are missing; an `add` to a
  parent that is no container meets `assert(false)`; a `remove` below such a
  parent does nothing and says nothing; an index with leading zeros or a sign is taken by `add`
  and refused by `at`. A BSON string that is cut off gives a discarded value.

`MCJson` states its properties for the inputs on which the code does what it documents:
`Solid` excludes the key `0`, `Filtered` the containers in which a discarded value stays. On the
others the models follow the code and nothing is claimed.

## Not modelled

- *Stress test client, performance thread and counters, build files, the unused
  test.* The first is a load generator, the second prints.
- *Start-up.* Argument parsing and the order of construction before the loop runs.
- *RSA and AES.* OpenSSL; a text decrypts under its own key only.
- *Redis.* `hexists`, `sismember`, `del`, `unsubscribe`: never called.
- *SQL text,* names and descriptions of users and groups, what the client prints and reads.
- *JSON.* Conversion of floats (`strtod`, Grisu2) and of doubles to half precision, iterators,
  conversions from and to other types, indentation, the byte order mark. They compute values
  that no property here tells apart, or are template machinery.
- Waits inside `getConnection` are not in `Session` and `Chat`: a borrowed connection is
  always there or the process dies.
- TCP is taken as reliable and in order.

## Plan

Done, in this order: `Store`, `Session`, `SessionProperties`, `Presence`;
`ConnectionPool`; `Chat` on top of `Session`; `Link` with framing and handshake; `Base64`;
`Records`; the JSON modules; the theorems above.

Next:

1. `PoolLocks`: the pool of Redis connections and `ConnMapMutex_` together.
   `groupChat` takes the connection first and the mutex second, `closeException` the
   other way round. Property: everybody gets on, by timeout at the latest. Three threads,
   one connection.
2. `Chat`: two messages, for the order of messages of one sender.
3. The refinement of a counting abstraction by `ConnectionPool`.
