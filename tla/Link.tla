-------------------------------- MODULE Link --------------------------------
(***************************************************************************)
(* One connection between the command line client and a chat server: the   *)
(* client's menu thread and its receiving thread (client.cpp), the byte    *)
(* stream between them, and on the server the buffer that ServerMessFunc   *)
(* cuts into frames, the key table and the answers.                        *)
(*                                                                         *)
(* A frame is HeadSize bytes that carry its length and then its body; both *)
(* threads of the client send frames, each in two calls of send.  The      *)
(* server keeps how much of the stream has arrived (the writer index of    *)
(* muduo's Buffer) and how much it has retrieved (the reader index).  The  *)
(* server's own messages have no frame: the client takes what one recv     *)
(* returns for a message.                                                  *)
(***************************************************************************)
EXTENDS Integers, Sequences, FiniteSets

CONSTANTS
    HeadSize,   \* bytes of the length in front of a body (4)
    IntMax,     \* the largest int32_t
    BodySize,   \* lengths of the encrypted requests
    MaxFrame,   \* bound: frames the client composes
    MaxDown     \* bound: server messages on their way

ASSUME LinkAssumption ==
    /\ HeadSize \in Nat \ {0}
    /\ IntMax \in Nat
    /\ BodySize \subseteq Nat \ {0}
    /\ \A n \in BodySize : HeadSize + n <= IntMax
    /\ MaxFrame \in Nat
    /\ MaxDown \in Nat

VARIABLES
    main,         \* where the menu thread is
    reader,       \* where the receiving thread is
    sending,      \* thread -> number of the frame it is sending
    frames,       \* the requests composed so far: what, encrypted how, how long
    aeskey,       \* aeskey_ of the client has been generated
    keyflag,      \* local of readTaskHandler: decrypt what comes
    userIsLogin,
    acksem,       \* value of the semaphore
    stream,       \* the bytes sent so far: <<frame, place in it>>
    got,          \* how many of them have reached the server's Buffer
    retrieved,    \* how many of them the server has retrieved
    len,          \* the length peekInt32 reads in the next four bytes
    server,       \* the IO thread: "idle", in the "loop", or "down"
    hasKey,       \* the connection has a row in ConntoAESkeyMap_
    session,      \* the server has logged the connection in (session of Session.tla)
    entry,        \* userConnMap_ has an entry that points to the connection
    down,         \* server messages the client has not received
    threw,        \* history: the answer to a login could not be put together
    rival         \* history: another connection here has had a session of the same user

clientVars == <<main, reader, sending, frames, aeskey, keyflag, userIsLogin, acksem, stream>>
serverVars == <<got, retrieved, len, server, hasKey, session, entry, threw, rival>>
vars == <<clientVars, serverVars, down>>

NoLen == IntMax + 1
Int32 == -(IntMax + 1) .. IntMax
Op == {"aeskey", "login", "reg", "other", "logout"}
Message == {"rsa", "aes_ack", "login_ok", "login_failed", "note"}

TypeOK ==
    /\ main \in {"menu", "chat", "head", "body", "wait", "gone"}
    /\ reader \in {"recv", "head", "body", "post", "gone"}
    /\ frames \in Seq([op : Op, cipher : {"rsa", "aes", "garbled"}, size : BodySize])
    /\ sending \in [{"main", "reader"} -> Nat]
    /\ main \in {"head", "body", "wait"} => sending["main"] \in DOMAIN frames
    /\ reader \in {"head", "body"} => sending["reader"] \in DOMAIN frames
    /\ aeskey \in BOOLEAN /\ keyflag \in BOOLEAN /\ userIsLogin \in BOOLEAN
    /\ acksem \in Nat
    /\ stream \in Seq(Nat \X (Nat \ {0}))
    /\ \A i \in DOMAIN stream :
           /\ stream[i][1] \in DOMAIN frames
           /\ stream[i][2] <= HeadSize + frames[stream[i][1]].size
    /\ got \in 0 .. Len(stream)
    /\ retrieved \in 0 .. got
    /\ len \in Int32 \cup {NoLen}
    /\ server \in {"idle", "loop", "down"}
    /\ hasKey \in BOOLEAN /\ threw \in BOOLEAN
    /\ session \in BOOLEAN /\ entry \in BOOLEAN /\ rival \in BOOLEAN
    /\ down \in Seq(Message)

(***************************************************************************)
(* The server has accepted the connection and sent its RSA key, the client *)
(* has started its receiving thread and shows its first menu.              *)
(***************************************************************************)
Init ==
    /\ main = "menu" /\ reader = "recv"
    /\ sending = [t \in {"main", "reader"} |-> 0]
    /\ frames = <<>>
    /\ aeskey = FALSE /\ keyflag = FALSE /\ userIsLogin = FALSE
    /\ acksem = 0
    /\ stream = <<>> /\ got = 0 /\ retrieved = 0 /\ len = NoLen
    /\ server = "idle" /\ hasKey = FALSE /\ session = FALSE /\ entry = FALSE
    /\ down = <<"rsa">> /\ threw = FALSE /\ rival = FALSE

-----------------------------------------------------------------------------
\* The client's threads

Bytes(f, from, to) == [k \in 1 .. to - from + 1 |-> <<f, from + k - 1>>]

\* MsgAESEncrypt reads 32 bytes of key, whatever key is there; MsgAESDecrypt opens what
\* was encrypted with the key the server has, and makes anything else unreadable.
MsgAESEncrypt(op, n) ==
    [op |-> op, cipher |-> IF aeskey THEN "aes" ELSE "garbled", size |-> n]
MsgAESDecrypt(f) == frames[f].cipher = "aes"

\* RsaEncrypt uses the key that came from the server, RsaDecrypt the key of the
\* server, which fails on what is not a block of its own.
RsaEncrypt(op, n) == [op |-> op, cipher |-> "rsa", size |-> n]
RsaDecrypt(f) == frames[f].cipher = "rsa"

\* Thread t has encrypted request r: a frame of its own, not yet sent.
Compose(t, r) ==
    /\ Len(frames) < MaxFrame
    /\ frames' = Append(frames, r)
    /\ sending' = [sending EXCEPT ![t] = Len(frames) + 1]

\* The first send of thread t: four bytes of length.
SendHead(t) == stream' = stream \o Bytes(sending[t], 1, HeadSize)

\* The second send of thread t: the body.
SendBody(t) ==
    stream' = stream \o Bytes(sending[t], HeadSize + 1,
                              HeadSize + frames[sending[t]].size)

\* Mutation of ClearFlag: loginout leaves userIsLogin as it is.
ClearFlag_Never(op) == UNCHANGED userIsLogin

\* loginout clears userIsLogin before it sends.
ClearFlag(op) == userIsLogin' = (userIsLogin /\ op # "logout")

\* login, reg and the commands of mainMenu: msgEncryption takes the key as it is,
\* also when there is none yet.  (One frame within the
\* bound is kept for the key.)
MenuRequest(op) ==
    /\ \/ main = "menu" /\ op \in {"login", "reg"}
       \/ main = "chat" /\ op \in {"other", "logout"}
    /\ Len(frames) + 1 < MaxFrame \/ aeskey
    /\ \E n \in BodySize : Compose("main", MsgAESEncrypt(op, n))
    /\ main' = "head"
    /\ ClearFlag(op)
    /\ UNCHANGED <<reader, aeskey, keyflag, acksem, stream, serverVars, down>>

MainHead ==
    /\ main = "head"
    /\ SendHead("main")
    /\ main' = "body"
    /\ UNCHANGED <<reader, sending, frames, aeskey, keyflag, userIsLogin, acksem,
                   serverVars, down>>

\* Mutation of AfterSend: login does not wait for the answer.
AfterSend_NoWait(op) == IF userIsLogin THEN "chat" ELSE "menu"

\* Mutation of AfterSend: mainMenu goes on without a look at userIsLogin.
AfterSend_Loops(op) ==
    CASE op = "login" -> "wait" [] op = "reg" -> "menu" [] OTHER -> "chat"

\* login goes on to sem_wait, reg to the first menu, a command to the loop of mainMenu,
\* which ends when userIsLogin is cleared.
AfterSend(op) ==
    CASE op = "login" -> "wait"
      [] op = "reg" -> "menu"
      [] OTHER -> IF userIsLogin THEN "chat" ELSE "menu"

MainBody ==
    /\ main = "body"
    /\ SendBody("main")
    /\ main' = AfterSend(frames[sending["main"]].op)
    /\ UNCHANGED <<reader, sending, frames, aeskey, keyflag, userIsLogin, acksem,
                   serverVars, down>>

\* Mutation of SemWait: login returns to the first menu in any case.
SemWait_NoMenu ==
    /\ main = "wait" /\ acksem > 0
    /\ acksem' = acksem - 1
    /\ main' = "menu"
    /\ UNCHANGED <<reader, sending, frames, aeskey, keyflag, userIsLogin, stream,
                   serverVars, down>>

\* sem_wait returns; userIsLogin decides which menu comes next.
SemWait ==
    /\ main = "wait" /\ acksem > 0
    /\ acksem' = acksem - 1
    /\ main' = IF userIsLogin THEN "chat" ELSE "menu"
    /\ UNCHANGED <<reader, sending, frames, aeskey, keyflag, userIsLogin, stream,
                   serverVars, down>>

\* The process ends and its socket is closed.
ClientGone ==
    /\ main' = "gone" /\ reader' = "gone"
    /\ userIsLogin' = FALSE /\ down' = <<>>
    /\ UNCHANGED <<sending, frames, aeskey, keyflag, acksem, stream, serverVars>>

\* Choice 3 of the first menu.
Quit == main = "menu" /\ ClientGone

\* What readTaskHandler can make of one recv: a message of its own, in clear before
\* the key exchange and encrypted after.
Readable(m) == (m = "rsa") # keyflag

\* One recv returns one message.  keyHandler generates the key and composes its
\* frame; loginReaction sets userIsLogin; the others only print.
Recv ==
    /\ reader = "recv" /\ down # <<>> /\ Readable(Head(down))
    /\ down' = Tail(down)
    /\ CASE Head(down) = "rsa" ->
              /\ aeskey' = TRUE
              /\ \E n \in BodySize :
                     Compose("reader", RsaEncrypt("aeskey", n))
              /\ reader' = "head"
              /\ UNCHANGED userIsLogin
         [] Head(down) \in {"login_ok", "login_failed"} ->
              /\ userIsLogin' = (Head(down) = "login_ok")
              /\ reader' = "post"
              /\ UNCHANGED <<aeskey, frames, sending>>
         [] OTHER -> UNCHANGED <<aeskey, frames, sending, reader, userIsLogin>>
    /\ UNCHANGED <<main, keyflag, acksem, stream, serverVars>>

\* One recv returns a piece of a message, or two of them in one piece, and json::parse
\* throws; or the connection is over and recv returns 0: the process ends.
RecvFails ==
    /\ reader = "recv"
    /\ down # <<>> \/ server = "down"
    /\ ClientGone

ReaderHead ==
    /\ reader = "head"
    /\ SendHead("reader")
    /\ reader' = "body"
    /\ UNCHANGED <<main, sending, frames, aeskey, keyflag, userIsLogin, acksem,
                   serverVars, down>>

ReaderBody ==
    /\ reader = "body"
    /\ SendBody("reader")
    /\ reader' = "recv"
    /\ keyflag' = TRUE
    /\ UNCHANGED <<main, sending, frames, aeskey, userIsLogin, acksem, serverVars, down>>

\* Mutation of SemPost: only a login that succeeded is announced.
SemPost_OnSuccess ==
    /\ reader = "post"
    /\ acksem' = acksem + (IF userIsLogin THEN 1 ELSE 0)
    /\ reader' = "recv"
    /\ UNCHANGED <<main, sending, frames, aeskey, keyflag, userIsLogin, stream,
                   serverVars, down>>

SemPost ==
    /\ reader = "post"
    /\ acksem' = acksem + 1
    /\ reader' = "recv"
    /\ UNCHANGED <<main, sending, frames, aeskey, keyflag, userIsLogin, stream,
                   serverVars, down>>

-----------------------------------------------------------------------------
\* The server's IO thread

ReadableBytes == got - retrieved

\* 4 + len in 32 bits, as the unsigned size it is compared with: a sum that is
\* negative or has wrapped is larger than any buffer.
Complete(n) ==
    /\ HeadSize + n \in 0 .. IntMax
    /\ ReadableBytes >= HeadSize + n

\* What peekInt32 may read: the length of a frame where its head begins, anything
\* where the bytes are not a head.  The bytes read the same until they are retrieved.
PeekInt32(n) ==
    IF len # NoLen THEN n = len
    ELSE LET head == SubSeq(stream, retrieved + 1, retrieved + HeadSize)
             f == head[1][1]
         IN IF head = Bytes(f, 1, HeadSize) THEN n = frames[f].size ELSE n \in Int32

\* TCP delivers some of what was sent and muduo calls ServerMessFunc.
Receive ==
    /\ server = "idle"
    /\ got' \in got + 1 .. Len(stream)
    /\ server' = "loop"
    /\ UNCHANGED <<clientVars, retrieved, len, hasKey, session, entry, threw, rival, down>>

\* Too little for a head, or for the body it announces: wait for more.
Break ==
    /\ server = "loop"
    /\ \/ ReadableBytes < HeadSize /\ UNCHANGED len
       \/ ReadableBytes >= HeadSize /\ PeekInt32(len') /\ ~Complete(len')
    /\ server' = "idle"
    /\ UNCHANGED <<clientVars, got, retrieved, hasKey, session, entry, threw, rival, down>>

\* Nothing is left of the connection at the server.
Down ==
    server' = "down" /\ hasKey' = FALSE /\ session' = FALSE /\ entry' = FALSE

\* A length below zero that passes the comparison: retrieveAsString throws outside
\* the try block and the process ends.
NegativeLength ==
    /\ server = "loop" /\ ReadableBytes >= HeadSize
    /\ \E n \in Int32 : PeekInt32(n) /\ Complete(n) /\ n < 0
    /\ Down
    /\ UNCHANGED <<clientVars, got, retrieved, len, threw, rival, down>>

\* The frame that text decrypts to: the body of a frame and nothing else, under the
\* RSA key as long as the connection has no AES key, under the AES key afterwards.
Decrypts(text, f) ==
    /\ f \in DOMAIN frames
    /\ text = Bytes(f, HeadSize + 1, HeadSize + frames[f].size)
    /\ IF hasKey THEN MsgAESDecrypt(f) ELSE RsaDecrypt(f)

Answer(m) == down' = IF reader = "gone" THEN down ELSE Append(down, m)

\* unordered_map::insert: an entry that another connection has for the user stays.
Insert == entry' = TRUE \/ (rival /\ UNCHANGED entry)

\* The handler that request op is dispatched to, as far as this connection sees it.
\* The names a login's answer contains come from MySQL, whose connection speaks gbk:
\* one that is not UTF-8 makes dump throw, after the session has begun.
Handle(op) ==
    \/ /\ op = "aeskey" /\ hasKey' = TRUE /\ Answer("aes_ack")
       /\ UNCHANGED <<session, entry, threw>>
    \/ /\ op = "login" /\ session' = TRUE /\ Insert /\ Answer("login_ok")
       /\ UNCHANGED <<hasKey, threw>>
    \/ /\ op = "login" /\ Answer("login_failed")
       /\ UNCHANGED <<hasKey, session, entry, threw>>
    \/ /\ op = "login" /\ session' = TRUE /\ Insert /\ threw' = TRUE
       /\ UNCHANGED <<hasKey, down>>
    \/ /\ op \in {"reg", "other"} /\ Answer("note")
       /\ UNCHANGED <<hasKey, session, entry, threw>>
    \/ op = "other" /\ UNCHANGED <<hasKey, session, entry, threw, down>>
    \/ /\ op = "logout" /\ session' = FALSE /\ entry' = FALSE
       /\ UNCHANGED <<hasKey, threw, down>>

\* Mutation of Retrieve: the head stays in the buffer.
Retrieve_NoHead(n) == retrieved' = retrieved + n /\ len' = NoLen

\* The head and the n bytes behind it leave the buffer.
Retrieve(n) == retrieved' = retrieved + HeadSize + n /\ len' = NoLen

\* One round of the loop: retrieve a head and what it announces, decrypt and
\* dispatch; what does not decrypt is dropped.
TakeFrame ==
    /\ server = "loop" /\ ReadableBytes >= HeadSize
    /\ \E n \in Int32 :
        /\ PeekInt32(n) /\ Complete(n) /\ n >= 0
        /\ Retrieve(n)
        /\ LET text == SubSeq(stream, retrieved + HeadSize + 1, retrieved + HeadSize + n)
           IN \/ \E f \in DOMAIN frames : Decrypts(text, f) /\ Handle(frames[f].op)
              \/ /\ ~\E f \in DOMAIN frames : Decrypts(text, f)
                 /\ UNCHANGED <<hasKey, session, entry, threw, down>>
    /\ UNCHANGED <<clientVars, got, server, rival>>

\* A chat message of somebody else is sent to this connection.
Push ==
    /\ entry /\ server # "down" /\ Len(down) < MaxDown
    /\ Answer("note")
    /\ UNCHANGED <<clientVars, serverVars>>

\* Another connection of this server gets a session of the user this client is, or will
\* be: the logins raced, or the update of the row was lost.
RivalLogin ==
    /\ server # "down"
    /\ rival' = TRUE
    /\ UNCHANGED <<clientVars, got, retrieved, len, server, hasKey, session, entry, threw, down>>

\* It logs out: userLoginout erases the entry of the user, whichever connection it
\* points to.
RivalLogout ==
    /\ rival /\ server # "down"
    /\ entry' = FALSE
    /\ UNCHANGED <<clientVars, got, retrieved, len, server, hasKey, session, threw, rival, down>>

\* The end of the stream arrives after what was sent: closeException drops the key
\* and the entry.
Close ==
    /\ main = "gone" /\ server = "idle" /\ got = Len(stream)
    /\ Down
    /\ UNCHANGED <<clientVars, got, retrieved, len, threw, rival, down>>

\* The process of the server ends.
ServerDown ==
    /\ server # "down"
    /\ Down
    /\ UNCHANGED <<clientVars, got, retrieved, len, threw, rival, down>>

-----------------------------------------------------------------------------
ClientStep ==
    \/ \E op \in Op : MenuRequest(op)
    \/ MainHead \/ MainBody \/ SemWait \/ Quit
    \/ Recv \/ RecvFails \/ ReaderHead \/ ReaderBody \/ SemPost

ServerStep ==
    \/ Receive \/ Break \/ TakeFrame \/ NegativeLength \/ Push
    \/ RivalLogin \/ RivalLogout
    \/ Close \/ ServerDown

Next == ClientStep \/ ServerStep

\* Each thread goes on with what it is doing and TCP delivers; nobody has to use
\* the menu, nothing has to fail.
Fairness ==
    /\ WF_vars(MainHead) /\ WF_vars(MainBody) /\ WF_vars(SemWait)
    /\ WF_vars(Recv) /\ WF_vars(RecvFails /\ server = "down")
    /\ WF_vars(ReaderHead) /\ WF_vars(ReaderBody) /\ WF_vars(SemPost)
    /\ WF_vars(Receive) /\ WF_vars(Break) /\ WF_vars(TakeFrame)

Spec == Init /\ [][Next]_vars
FairSpec == Spec /\ Fairness

-----------------------------------------------------------------------------
\* Properties

\* Whatever is on the wire of a frame lies in one piece, head first: the two sends
\* of one thread are not parted by a send of the other (client.cpp:109 names one
\* thread as the writer).
WholeFrames ==
    \A i \in DOMAIN stream :
        LET f == stream[i][1]
            before == i - stream[i][2]
        IN \A k \in 1 .. HeadSize + frames[f].size :
               before + k <= Len(stream) =>
                   before + k > 0 /\ stream[before + k] = <<f, k>>

\* As long as the frames are whole, ServerMessFunc retrieves exactly what was sent as one
\* frame, however TCP cuts the stream: its buffer always begins with a head.
Aligned ==
    WholeFrames /\ retrieved < Len(stream) => stream[retrieved + 1][2] = 1

\* What the client has received, or will, of an answer to a login.
Ack == {"login_ok", "login_failed"}
AcksUnderway ==
    acksem + (IF reader = "post" THEN 1 ELSE 0) + Cardinality({i \in DOMAIN down : down[i] \in Ack})

\* sem_wait is never released by the answer to an earlier login: an answer that is on
\* its way is the only one and the menu thread waits for it.
AckIsAwaited ==
    /\ AcksUnderway <= 1
    /\ AcksUnderway = 1 => main \in {"wait", "gone"}

\* A client that takes itself for logged in is, and userConnMap_ has its entry: it can be
\* sent to.  The entry needs what AckedIsRouted of Session needs of the environment: no
\* other connection that has a session of the user too.
LoggedInIsReal ==
    userIsLogin /\ server # "down" => session /\ (entry \/ rival)

\* A request op that the server has not retrieved yet.
Unread(op) ==
    \/ main \in {"head", "body"} /\ frames[sending["main"]].op = op
    \/ \E i \in retrieved + 1 .. Len(stream) : frames[stream[i][1]].op = op

\* No session is left that the user does not know of: if the server has logged a client in
\* that shows the first menu, its logout is on the way.
SessionIsKnown ==
    WholeFrames /\ session /\ main = "menu" => Unread("logout")

\* The server gets what the menu allows: a login only from a connection without a
\* session, a chat command or a logout only from one with a session.  This is
\* what Session.tla assumes of its clients, and its session is meant: whether the entry
\* is there when logins race is for Session to say.
Dispatched(op) ==
    /\ retrieved' # retrieved
    /\ \E f \in DOMAIN frames :
           /\ frames[f].op = op
           /\ Decrypts(SubSeq(stream, retrieved + HeadSize + 1, retrieved'), f)

MenuRespected ==
    [][WholeFrames =>
           /\ Dispatched("login") => ~session
           /\ Dispatched("other") \/ Dispatched("logout") => session]_vars

\* The login the menu thread waits for was encrypted with the key and sent in one
\* piece after the key was.
LoginInTime ==
    /\ main = "wait" /\ WholeFrames
    /\ frames[sending["main"]].cipher = "aes"
    /\ \E i, j \in DOMAIN stream :
           i < j /\ frames[stream[i][1]].op = "aeskey" /\ stream[j][1] = sending["main"]

\* login comes back from sem_wait, with an answer or with the end of the process, when
\* its request was sent in time and the answer could be dumped.
LoginReturns == LoginInTime ~> main # "wait" \/ threw
=============================================================================
