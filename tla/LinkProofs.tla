----------------------------- MODULE LinkProofs ------------------------------
(***************************************************************************)
(* Proofs about Link for frames of any length, a stream cut anywhere and   *)
(* any number of requests: the server finds the frames again, a login      *)
(* waits for its own answer, and client and server agree on who is logged  *)
(* in.  What the server will still read decides: the login, the commands   *)
(* and the logout that are Ahead of it.                                    *)
(***************************************************************************)
EXTENDS Link, SequenceTheorems, FiniteSetTheorems, TLAPS

USE LinkAssumption

-----------------------------------------------------------------------------
\* The inductive invariant

OpOf(i) == frames[stream[i][1]].op
Current == sending["main"]

\* Place i of the stream has not been retrieved.
Ahead(i) == i \in retrieved + 1 .. Len(stream)

\* The bytes of a frame are sent in order, and those of the menu thread frame by frame.
Ordered ==
    /\ \A i, j \in DOMAIN stream :
           i < j /\ stream[i][1] = stream[j][1] => stream[i][2] < stream[j][2]
    /\ \A i, j \in DOMAIN stream :
           i < j /\ stream[i][1] = Current => stream[j][1] = Current \/ OpOf(j) = "aeskey"

\* What a thread has sent of the frame it is sending.
SentSoFar(place, t) ==
    \A i \in DOMAIN stream :
        stream[i][1] = sending[t] =>
            /\ place # "head"
            /\ place = "body" => stream[i][2] <= HeadSize

Sending ==
    /\ SentSoFar(main, "main")
    /\ SentSoFar(reader, "reader")
    /\ main \in {"head", "body", "wait"} => frames[Current].op # "aeskey"
    /\ main = "wait" => frames[Current].op = "login"
    /\ reader \in {"head", "body"} => frames[sending["reader"]].op = "aeskey"

\* userIsLogin goes with the menu.
Menus ==
    /\ (main = "gone") = (reader = "gone")
    /\ main = "gone" => ~userIsLogin /\ down = <<>>
    /\ main = "chat" => userIsLogin
    /\ main = "menu" => ~userIsLogin
    /\ main = "wait" /\ userIsLogin => reader = "post" \/ acksem = 1
    /\ main \in {"head", "body"} => (userIsLogin <=> frames[Current].op = "other")

\* Answers to a login.
NoAckDown == \A i \in DOMAIN down : down[i] \notin Ack
NoAck == acksem = 0 /\ reader # "post" /\ NoAckDown

Answers ==
    /\ \A i, j \in DOMAIN down : down[i] \in Ack /\ down[j] \in Ack => i = j
    /\ acksem \in {0, 1}
    /\ reader = "post" => acksem = 0 /\ NoAckDown
    /\ acksem = 1 \/ userIsLogin => NoAckDown
    /\ main \notin {"wait", "gone"} => NoAck

\* The client knows, or is about to be told, that it is logged in.
Welcome == userIsLogin \/ \E i \in DOMAIN down : down[i] = "login_ok"

\* A login is read with the key the client has, and commands are encrypted with it.
Keys ==
    /\ hasKey => aeskey
    /\ session => hasKey
    /\ Welcome => aeskey
    /\ \A f \in DOMAIN frames :
           /\ frames[f].op = "aeskey" => aeskey
           /\ frames[f].op # "aeskey" => frames[f].cipher # "rsa"
           /\ frames[f].op \in {"other", "logout"} => frames[f].cipher = "aes"

\* The login ahead of the server is the one the menu thread waits for.
LoginAhead ==
    \A i \in DOMAIN stream :
        Ahead(i) /\ OpOf(i) = "login" =>
            stream[i][1] = Current /\ main \in {"body", "wait", "gone"} /\ NoAck

\* A client that knows of its session has it, and has not begun to leave it.
WelcomeIsReal ==
    Welcome => /\ session \/ server = "down"
               /\ \A i \in DOMAIN stream : Ahead(i) => OpOf(i) # "logout"

\* Commands and the logout find the session; nothing is sent after the logout.
InSession == session \/ server = "down"
CommandsAhead ==
    /\ main \in {"head", "body"} /\ frames[Current].op \in {"other", "logout"} => InSession
    /\ main \in {"head", "body"} /\ frames[Current].op = "logout" =>
           \A i \in DOMAIN stream : Ahead(i) /\ OpOf(i) = "logout" => stream[i][1] = Current
    /\ \A i \in DOMAIN stream : Ahead(i) /\ OpOf(i) \in {"other", "logout"} => InSession
    /\ \A i, j \in DOMAIN stream :
           i < j /\ Ahead(i) /\ OpOf(i) = "logout" /\ OpOf(j) \in {"other", "logout"} =>
               stream[j][1] = stream[i][1]

\* The server has retrieved whole frames, and what it has peeked is the length of the next.
AtBoundary ==
    /\ retrieved > 0 => stream[retrieved][2] = HeadSize + frames[stream[retrieved][1]].size
    /\ len # NoLen => /\ retrieved < Len(stream)
                      /\ len = frames[stream[retrieved + 1][1]].size

\* The menu thread waits for an answer that could not be dumped.
Stuck ==
    /\ main = "wait" /\ NoAck
    /\ \A i \in DOMAIN stream : Ahead(i) => OpOf(i) # "login"

\* A session is known to the client, or is left, or its login was never answered.
Known ==
    /\ session /\ main # "gone" => Welcome \/ Unread("logout") \/ Stuck
    /\ \A i \in DOMAIN stream :
           Ahead(i) /\ OpOf(i) = "login" /\ session =>
               \E j \in retrieved + 1 .. i : OpOf(j) = "logout"

\* A session has its entry as long as no other connection has one of the same user.
Entered == session => entry \/ rival

LinkInv ==
    /\ TypeOK /\ Ordered /\ Sending /\ Menus /\ Answers /\ Keys
    /\ LoginAhead /\ WelcomeIsReal /\ CommandsAhead /\ Entered
    /\ WholeFrames => AtBoundary /\ Known

-----------------------------------------------------------------------------
\* Types

Frame == [op : Op, cipher : {"rsa", "aes", "garbled"}, size : BodySize]
Place == Nat \X (Nat \ {0})
Thread == {"main", "reader"}

LEMMA Sequences ==
  ASSUME TypeOK
  PROVE  /\ Len(frames) \in Nat /\ DOMAIN frames = 1 .. Len(frames)
         /\ \A f \in DOMAIN frames :
                /\ frames[f] \in Frame
                /\ frames[f].op \in Op
                /\ frames[f].size \in Nat \ {0}
                /\ HeadSize + frames[f].size <= IntMax
         /\ Len(stream) \in Nat /\ DOMAIN stream = 1 .. Len(stream)
         /\ \A i \in DOMAIN stream :
                /\ stream[i] \in Place
                /\ stream[i][1] \in DOMAIN frames
                /\ stream[i][2] \in Nat \ {0}
                /\ stream[i][2] <= HeadSize + frames[stream[i][1]].size
                /\ OpOf(i) \in Op
         /\ Len(down) \in Nat /\ DOMAIN down = 1 .. Len(down)
         /\ got \in Nat /\ retrieved \in Nat
<1>1. /\ Len(frames) \in Nat /\ DOMAIN frames = 1 .. Len(frames)
      /\ \A f \in DOMAIN frames : frames[f] \in Frame
  <2>1. frames \in Seq(Frame)
    BY DEF TypeOK, Frame
  <2> QED  BY <2>1
<1>2. \A f \in DOMAIN frames :
          /\ frames[f].op \in Op
          /\ frames[f].size \in Nat \ {0}
          /\ HeadSize + frames[f].size <= IntMax
  BY <1>1 DEF Frame
<1>3. /\ Len(stream) \in Nat /\ DOMAIN stream = 1 .. Len(stream)
      /\ \A i \in DOMAIN stream : stream[i] \in Place
  BY DEF TypeOK, Place
<1>4. \A i \in DOMAIN stream :
          /\ stream[i][1] \in DOMAIN frames
          /\ stream[i][2] \in Nat \ {0}
          /\ stream[i][2] <= HeadSize + frames[stream[i][1]].size
  BY <1>3 DEF TypeOK, Place
<1>5. Len(down) \in Nat /\ DOMAIN down = 1 .. Len(down)
  BY DEF TypeOK
<1>6. got \in Nat /\ retrieved \in Nat
  BY <1>3 DEF TypeOK
<1> QED  BY <1>1, <1>2, <1>3, <1>4, <1>5, <1>6 DEF OpOf

\* What a send does to the stream, and what composing a frame does.
Sends(t, from, to) ==
    /\ stream' \in Seq(Place)
    /\ Len(stream') = Len(stream) + (to - from + 1)
    /\ \A i \in 1 .. Len(stream) : stream'[i] = stream[i]
    /\ \A i \in Len(stream) + 1 .. Len(stream') :
           stream'[i] = <<sending[t], from + (i - Len(stream)) - 1>>

LEMMA SendIs ==
  ASSUME TypeOK, NEW t \in Thread, NEW from \in Nat \ {0}, NEW to \in Nat, from <= to,
         stream' = stream \o Bytes(sending[t], from, to)
  PROVE  Sends(t, from, to)
<1> DEFINE b == Bytes(sending[t], from, to)
<1>1. b = [k \in 1 .. to - from + 1 |-> <<sending[t], from + k - 1>>]
  BY DEF Bytes
<1>2. to - from + 1 \in Nat /\ sending[t] \in Nat
  BY DEF TypeOK, Thread
<1>3. b \in Seq(Place) /\ Len(b) = to - from + 1
  <2>1. \A k \in 1 .. to - from + 1 : <<sending[t], from + k - 1>> \in Place
    BY <1>2 DEF Place
  <2>2. b \in [1 .. to - from + 1 -> Place]
    BY <1>1, <2>1
  <2>3. b \in Seq(Place)
    BY <1>2, <2>2, SeqDef
  <2>4. Len(b) \in Nat /\ 1 .. Len(b) = 1 .. to - from + 1
    BY <2>2, <2>3, LenProperties
  <2>5. Len(b) = to - from + 1
    BY <1>2, <2>4
  <2> QED  BY <2>3, <2>5
<1>4. stream \in Seq(Place)
  BY DEF TypeOK, Place
<1>5. /\ stream \o b \in Seq(Place)
      /\ Len(stream \o b) = Len(stream) + Len(b)
      /\ \A i \in 1 .. Len(stream) + Len(b) :
             (stream \o b)[i] = IF i <= Len(stream) THEN stream[i] ELSE b[i - Len(stream)]
  BY <1>3, <1>4, ConcatProperties
<1>6. Len(stream) \in Nat
  BY <1>4
<1>7. \A i \in 1 .. Len(stream) : stream'[i] = stream[i]
  BY <1>3, <1>5, <1>6, <1>2
<1>8. stream' \in Seq(Place) /\ Len(stream') = Len(stream) + (to - from + 1)
  BY <1>3, <1>5
<1>9. \A i \in Len(stream) + 1 .. Len(stream') :
          stream'[i] = <<sending[t], from + (i - Len(stream)) - 1>>
  <2> TAKE i \in Len(stream) + 1 .. Len(stream')
  <2>1. i - Len(stream) \in 1 .. to - from + 1 /\ ~(i <= Len(stream))
    BY <1>2, <1>6, <1>8
  <2>2. stream'[i] = b[i - Len(stream)]
    BY <1>2, <1>3, <1>5, <1>6, <1>8, <2>1
  <2> QED  BY <1>1, <2>1, <2>2
<1> HIDE DEF b
<1> QED  BY <1>7, <1>8, <1>9 DEF Sends

LEMMA HeadSent ==
  ASSUME TypeOK, NEW t \in Thread, SendHead(t)
  PROVE  Sends(t, 1, HeadSize)
  BY SendIs DEF SendHead

LEMMA BodySent ==
  ASSUME TypeOK, NEW t \in Thread, sending[t] \in DOMAIN frames, SendBody(t)
  PROVE  Sends(t, HeadSize + 1, HeadSize + frames[sending[t]].size)
<1>1. frames[sending[t]].size \in Nat \ {0}
  BY Sequences
<1>2. /\ HeadSize + 1 \in Nat \ {0}
      /\ HeadSize + frames[sending[t]].size \in Nat
      /\ HeadSize + 1 <= HeadSize + frames[sending[t]].size
  BY <1>1
<1> QED  BY <1>2, SendIs DEF SendBody

Composes(t, r) ==
    /\ frames' \in Seq(Frame)
    /\ Len(frames') = Len(frames) + 1
    /\ DOMAIN frames' = 1 .. Len(frames) + 1
    /\ \A f \in DOMAIN frames : frames'[f] = frames[f]
    /\ frames'[Len(frames) + 1] = r
    /\ sending' \in [Thread -> Nat]
    /\ sending'[t] = Len(frames) + 1
    /\ \A o \in Thread \ {t} : sending'[o] = sending[o]

LEMMA ComposeIs ==
  ASSUME TypeOK, NEW t \in Thread, NEW r \in Frame, Compose(t, r)
  PROVE  Composes(t, r)
<1>1. frames \in Seq(Frame)
  BY DEF TypeOK, Frame
<1>2. /\ frames' \in Seq(Frame)
      /\ Len(frames') = Len(frames) + 1
      /\ \A f \in 1 .. Len(frames) : frames'[f] = frames[f]
      /\ frames'[Len(frames) + 1] = r
  BY <1>1, AppendProperties DEF Compose
<1>3. /\ sending' \in [Thread -> Nat]
      /\ sending'[t] = Len(frames) + 1
      /\ \A o \in Thread \ {t} : sending'[o] = sending[o]
  BY Sequences DEF Compose, TypeOK, Thread
<1>4. DOMAIN frames = 1 .. Len(frames) /\ DOMAIN frames' = 1 .. Len(frames')
  BY <1>1, <1>2
<1> QED  BY <1>2, <1>3, <1>4 DEF Composes

LEMMA RequestIsFrame ==
  ASSUME NEW op \in Op, NEW n \in BodySize
  PROVE  MsgAESEncrypt(op, n) \in Frame /\ RsaEncrypt(op, n) \in Frame
  BY DEF MsgAESEncrypt, RsaEncrypt, Frame

\* The part of the types that sends and new frames change.
WireOK ==
    /\ frames \in Seq(Frame)
    /\ stream \in Seq(Place)
    /\ \A i \in DOMAIN stream :
           /\ stream[i][1] \in DOMAIN frames
           /\ stream[i][2] <= HeadSize + frames[stream[i][1]].size

Typed ==
    /\ main \in {"menu", "chat", "head", "body", "wait", "gone"}
    /\ reader \in {"recv", "head", "body", "post", "gone"}
    /\ WireOK
    /\ sending \in [Thread -> Nat]
    /\ main \in {"head", "body", "wait"} => sending["main"] \in DOMAIN frames
    /\ reader \in {"head", "body"} => sending["reader"] \in DOMAIN frames
    /\ aeskey \in BOOLEAN /\ keyflag \in BOOLEAN /\ userIsLogin \in BOOLEAN
    /\ acksem \in Nat
    /\ got \in 0 .. Len(stream)
    /\ retrieved \in 0 .. got
    /\ len \in Int32 \cup {NoLen}
    /\ server \in {"idle", "loop", "down"}
    /\ hasKey \in BOOLEAN /\ threw \in BOOLEAN
    /\ session \in BOOLEAN /\ entry \in BOOLEAN /\ rival \in BOOLEAN
    /\ down \in Seq(Message)

LEMMA TypeIs == (TypeOK <=> Typed) /\ (TypeOK' <=> Typed')
  BY Zenon DEF TypeOK, Typed, WireOK, Frame, Place, Thread

LEMMA TypeComposed ==
  ASSUME TypeOK, NEW t \in Thread, NEW r \in Frame, Composes(t, r), stream' = stream
  PROVE  /\ WireOK' /\ sending' \in [Thread -> Nat] /\ sending'[t] \in DOMAIN frames'
         /\ \A o \in Thread \ {t} :
                sending[o] \in DOMAIN frames => sending'[o] \in DOMAIN frames'
<1>1. \A f \in DOMAIN frames : f \in DOMAIN frames' /\ frames'[f] = frames[f]
  BY Sequences DEF Composes
<1>2. frames' \in Seq(Frame) /\ stream' \in Seq(Place)
  BY DEF Composes, TypeOK, Place
<1>3. \A i \in DOMAIN stream' :
          /\ stream'[i][1] \in DOMAIN frames'
          /\ stream'[i][2] <= HeadSize + frames'[stream'[i][1]].size
  BY <1>1, Sequences
<1>4. Len(frames) + 1 \in 1 .. Len(frames) + 1
  BY Sequences
<1> QED  BY <1>1, <1>2, <1>3, <1>4 DEF WireOK, Composes

LEMMA TypeSent ==
  ASSUME TypeOK, NEW t \in Thread, NEW from \in Nat \ {0}, NEW to \in Nat, from <= to,
         sending[t] \in DOMAIN frames, to <= HeadSize + frames[sending[t]].size,
         frames' = frames, Sends(t, from, to)
  PROVE  /\ WireOK'
         /\ \A n \in 0 .. Len(stream) : n \in 0 .. Len(stream')
<1>1. frames' \in Seq(Frame) /\ stream' \in Seq(Place)
  BY DEF Sends, TypeOK, Frame
<1>2. /\ Len(stream) \in Nat /\ DOMAIN stream = 1 .. Len(stream)
      /\ Len(stream') = Len(stream) + (to - from + 1) /\ DOMAIN stream' = 1 .. Len(stream')
  BY <1>1, Sequences DEF Sends
<1>3. frames[sending[t]].size \in Nat
  BY Sequences
<1>4. ASSUME NEW i \in DOMAIN stream'
      PROVE  /\ stream'[i][1] \in DOMAIN frames'
             /\ stream'[i][2] <= HeadSize + frames'[stream'[i][1]].size
  <2>1. CASE i \in 1 .. Len(stream)
    <3>1. stream'[i] = stream[i]
      BY <2>1 DEF Sends
    <3>2. /\ stream[i][1] \in DOMAIN frames
          /\ stream[i][2] <= HeadSize + frames[stream[i][1]].size
      BY <1>2, <2>1, Sequences
    <3> QED  BY <3>1, <3>2
  <2>2. CASE i \in Len(stream) + 1 .. Len(stream')
    <3>1. stream'[i] = <<sending[t], from + (i - Len(stream)) - 1>>
      BY <2>2 DEF Sends
    <3>2. from + (i - Len(stream)) - 1 <= to
      BY <1>2, <2>2
    <3>3. from + (i - Len(stream)) - 1 <= HeadSize + frames[sending[t]].size
      BY <1>2, <1>3, <2>2, <3>2
    <3>4. stream'[i][1] = sending[t] /\ stream'[i][2] = from + (i - Len(stream)) - 1
      BY <3>1
    <3> QED  BY <3>3, <3>4
  <2> QED  BY <1>2, <2>1, <2>2
<1> QED  BY <1>1, <1>2, <1>4 DEF WireOK

LEMMA TypeAnswer ==
  ASSUME TypeOK, NEW m \in Message, Answer(m)
  PROVE  down' \in Seq(Message)
<1>1. down \in Seq(Message)
  BY DEF TypeOK
<1> QED  BY <1>1 DEF Answer

LEMMA TypeInit == Init => TypeOK
<1> SUFFICES ASSUME Init PROVE TypeOK
  OBVIOUS
<1>1. WireOK
  BY DEF Init, WireOK
<1>2. sending \in [Thread -> Nat] /\ down \in Seq(Message) /\ len \in Int32 \cup {NoLen}
  BY DEF Init, Thread, Message, NoLen
<1>3. got \in 0 .. Len(stream) /\ retrieved \in 0 .. got
  BY DEF Init
<1> QED  BY <1>1, <1>2, <1>3, TypeIs DEF Typed, Init

LEMMA TypeGone ==
  ASSUME TypeOK, ClientGone
  PROVE  TypeOK'
<1>1. WireOK'
  BY TypeIs DEF Typed, ClientGone, serverVars, WireOK
<1>2. down' \in Seq(Message)
  BY DEF ClientGone
<1> QED  BY <1>1, <1>2, TypeIs, Zenon DEF Typed, ClientGone, serverVars

LEMMA TypeMenu ==
  ASSUME TypeOK, NEW op \in Op, MenuRequest(op)
  PROVE  TypeOK' /\ \E n \in BodySize : Composes("main", MsgAESEncrypt(op, n))
<1>1. PICK n \in BodySize : Compose("main", MsgAESEncrypt(op, n))
  BY DEF MenuRequest
<1>2. Composes("main", MsgAESEncrypt(op, n)) /\ stream' = stream
  BY <1>1, RequestIsFrame, ComposeIs DEF MenuRequest, Thread
<1>3. /\ WireOK' /\ sending' \in [Thread -> Nat] /\ sending'["main"] \in DOMAIN frames'
      /\ sending["reader"] \in DOMAIN frames => sending'["reader"] \in DOMAIN frames'
  BY <1>2, RequestIsFrame, TypeComposed DEF Thread
<1>4. userIsLogin' \in BOOLEAN
  BY DEF MenuRequest, ClearFlag
<1>5. TypeOK'
  BY <1>3, <1>4, TypeIs, ZenonT(60) DEF Typed, MenuRequest, serverVars
<1> QED  BY <1>2, <1>5

LEMMA TypeRecv ==
  ASSUME TypeOK, Recv
  PROVE  /\ TypeOK'
         /\ Head(down) = "rsa" =>
                \E n \in BodySize : Composes("reader", RsaEncrypt("aeskey", n))
<1>1. down' \in Seq(Message)
  BY HeadTailProperties DEF Recv, TypeOK
<1>2. CASE Head(down) = "rsa"
  <2>1. PICK n \in BodySize : Compose("reader", RsaEncrypt("aeskey", n))
    BY <1>2 DEF Recv
  <2>2. "aeskey" \in Op /\ "reader" \in Thread
    BY DEF Op, Thread
  <2>3. Composes("reader", RsaEncrypt("aeskey", n)) /\ stream' = stream
    BY <2>1, <2>2, RequestIsFrame, ComposeIs DEF Recv
  <2>4. /\ WireOK' /\ sending' \in [Thread -> Nat] /\ sending'["reader"] \in DOMAIN frames'
        /\ sending["main"] \in DOMAIN frames => sending'["main"] \in DOMAIN frames'
    BY <2>2, <2>3, RequestIsFrame, TypeComposed DEF Thread
  <2>5. TypeOK'
    BY <1>1, <1>2, <2>4, TypeIs, ZenonT(60) DEF Typed, Recv, serverVars
  <2> QED  BY <2>3, <2>5
<1>3. CASE Head(down) # "rsa"
  <2>1. WireOK'
    BY <1>3, TypeIs DEF Typed, Recv, WireOK, Ack
  <2>2. /\ reader' \in {"recv", "post"} /\ userIsLogin' \in BOOLEAN
        /\ aeskey' = aeskey /\ frames' = frames /\ sending' = sending
    BY <1>3, TypeIs DEF Typed, Recv
  <2> QED  BY <1>1, <1>3, <2>1, <2>2, TypeIs DEF Typed, Recv, serverVars
<1> QED  BY <1>2, <1>3

LEMMA TypeSend ==
  ASSUME TypeOK, MainHead \/ MainBody \/ ReaderHead \/ ReaderBody
  PROVE  TypeOK'
<1>1. /\ HeadSize \in Nat \ {0} /\ HeadSize + 1 \in Nat \ {0}
      /\ \A f \in DOMAIN frames : /\ frames[f].size \in Nat \ {0}
                                  /\ HeadSize + frames[f].size \in Nat
                                  /\ HeadSize <= HeadSize + frames[f].size
                                  /\ HeadSize + 1 <= HeadSize + frames[f].size
  BY Sequences
<1>2. WireOK' /\ \A n \in 0 .. Len(stream) : n \in 0 .. Len(stream')
  <2>1. CASE MainHead
    <3>1. sending["main"] \in DOMAIN frames /\ "main" \in Thread /\ frames' = frames
      BY <2>1 DEF MainHead, TypeOK, Thread
    <3>2. Sends("main", 1, HeadSize)
      BY <2>1, <3>1, HeadSent DEF MainHead
    <3>3. /\ 1 \in Nat \ {0} /\ HeadSize \in Nat /\ 1 <= HeadSize
          /\ HeadSize <= HeadSize + frames[sending["main"]].size
      BY <1>1, <3>1
    <3> QED  BY <3>1, <3>2, <3>3, TypeSent, Zenon
  <2>2. CASE MainBody
    <3>1. sending["main"] \in DOMAIN frames /\ "main" \in Thread /\ frames' = frames
      BY <2>2 DEF MainBody, TypeOK, Thread
    <3>2. Sends("main", HeadSize + 1, HeadSize + frames[sending["main"]].size)
      BY <2>2, <3>1, BodySent DEF MainBody
    <3> DEFINE end == HeadSize + frames[sending["main"]].size
    <3>3. HeadSize + 1 \in Nat \ {0} /\ end \in Nat /\ HeadSize + 1 <= end /\ end <= end
      BY <1>1, <3>1
    <3> QED  BY <3>1, <3>2, <3>3, TypeSent, Zenon
  <2>3. CASE ReaderHead
    <3>1. sending["reader"] \in DOMAIN frames /\ "reader" \in Thread /\ frames' = frames
      BY <2>3 DEF ReaderHead, TypeOK, Thread
    <3>2. Sends("reader", 1, HeadSize)
      BY <2>3, <3>1, HeadSent DEF ReaderHead
    <3>3. /\ 1 \in Nat \ {0} /\ HeadSize \in Nat /\ 1 <= HeadSize
          /\ HeadSize <= HeadSize + frames[sending["reader"]].size
      BY <1>1, <3>1
    <3> QED  BY <3>1, <3>2, <3>3, TypeSent, Zenon
  <2>4. CASE ReaderBody
    <3>1. sending["reader"] \in DOMAIN frames /\ "reader" \in Thread /\ frames' = frames
      BY <2>4 DEF ReaderBody, TypeOK, Thread
    <3>2. Sends("reader", HeadSize + 1, HeadSize + frames[sending["reader"]].size)
      BY <2>4, <3>1, BodySent DEF ReaderBody
    <3> DEFINE end == HeadSize + frames[sending["reader"]].size
    <3>3. HeadSize + 1 \in Nat \ {0} /\ end \in Nat /\ HeadSize + 1 <= end /\ end <= end
      BY <1>1, <3>1
    <3> QED  BY <3>1, <3>2, <3>3, TypeSent, Zenon
  <2> QED  BY <2>1, <2>2, <2>3, <2>4
<1>3. got' \in 0 .. Len(stream')
  BY <1>2, TypeIs DEF Typed, MainHead, MainBody, ReaderHead, ReaderBody, serverVars
<1>4. MainBody => main' \in {"menu", "chat", "wait"} /\ main = "body"
  BY Zenon DEF MainBody, AfterSend
<1>5. CASE MainHead
  BY <1>2, <1>3, <1>5, TypeIs, ZenonT(60) DEF Typed, MainHead, serverVars
<1>6. CASE MainBody
  BY <1>2, <1>3, <1>4, <1>6, TypeIs DEF Typed, MainBody, serverVars
<1>7. CASE ReaderHead
  BY <1>2, <1>3, <1>7, TypeIs, ZenonT(60) DEF Typed, ReaderHead, serverVars
<1>8. CASE ReaderBody
  BY <1>2, <1>3, <1>8, TypeIs DEF Typed, ReaderBody, serverVars
<1> QED  BY <1>5, <1>6, <1>7, <1>8

LEMMA TypeServer ==
  ASSUME TypeOK, ServerStep
  PROVE  TypeOK'
<1>1. WireOK' /\ main' = main /\ reader' = reader /\ sending' = sending /\ frames' = frames
      /\ stream' = stream /\ aeskey' = aeskey /\ keyflag' = keyflag
      /\ userIsLogin' = userIsLogin /\ acksem' = acksem
  BY TypeIs
     DEF Typed, WireOK, ServerStep, Receive, Break, TakeFrame, NegativeLength, Push, Close,
         ServerDown, Down, RivalLogin, RivalLogout, clientVars, serverVars
<1>2. CASE Receive
  BY <1>1, <1>2, TypeIs, Sequences DEF Typed, Receive
<1>3. CASE Break
  <2>1. len' \in Int32 \cup {NoLen}
    <3>1. CASE UNCHANGED len
      BY <3>1 DEF TypeOK
    <3>2. CASE PeekInt32(len') /\ ReadableBytes >= HeadSize
      <4>1. ASSUME NEW head, head = SubSeq(stream, retrieved + 1, retrieved + HeadSize),
                   head = Bytes(head[1][1], 1, HeadSize)
            PROVE  frames[head[1][1]].size \in Int32
        <5>1. HeadSize \in Nat \ {0} /\ retrieved + HeadSize <= Len(stream)
          BY <3>2, Sequences DEF ReadableBytes, TypeOK
        <5>2. stream \in Seq(Place) /\ \A i \in 1 .. Len(stream) : stream[i] \in Place
          BY DEF TypeOK, Place
        <5>3. head[1] = stream[retrieved + 1] /\ retrieved + 1 \in DOMAIN stream
          BY <4>1, <5>1, <5>2, Sequences, SubSeqProperties
        <5>4. frames[head[1][1]].size \in Nat /\ frames[head[1][1]].size <= IntMax
          BY <5>1, <5>3, Sequences
        <5> QED  BY <5>4 DEF Int32
      <4> QED  BY <3>2, <4>1 DEF PeekInt32, TypeOK
    <3> QED  BY <1>3, <3>1, <3>2 DEF Break
  <2> QED  BY <1>1, <1>3, <2>1, TypeIs DEF Typed, Break
<1>4. CASE TakeFrame
  <2>1. /\ hasKey' \in BOOLEAN /\ threw' \in BOOLEAN
        /\ session' \in BOOLEAN /\ entry' \in BOOLEAN
        /\ down' \in Seq(Message)
    <3>1. ASSUME NEW m \in Message, Answer(m) PROVE down' \in Seq(Message)
      BY <3>1, TypeAnswer
    <3>2. {"aes_ack", "login_ok", "login_failed", "note"} \subseteq Message
      BY DEF Message
    <3>3. ASSUME NEW op, Handle(op)
          PROVE  /\ hasKey' \in BOOLEAN /\ threw' \in BOOLEAN
                 /\ session' \in BOOLEAN /\ entry' \in BOOLEAN
                 /\ down' \in Seq(Message)
      BY <3>1, <3>2, <3>3, TypeIs DEF Handle, Insert, Typed
    <3> QED  BY <1>4, <3>3, TypeIs DEF TakeFrame, Typed
  <2>2. retrieved' \in 0 .. got' /\ len' = NoLen /\ got' = got
    BY <1>4, Sequences DEF TakeFrame, Retrieve, Complete, ReadableBytes, Int32, TypeOK
  <2> QED  BY <1>1, <1>4, <2>1, <2>2, TypeIs DEF Typed, TakeFrame
<1> DEFINE Kind ==
        /\ got \in 0 .. Len(stream) /\ retrieved \in 0 .. got /\ len \in Int32 \cup {NoLen}
        /\ server \in {"idle", "loop", "down"} /\ hasKey \in BOOLEAN /\ threw \in BOOLEAN
        /\ session \in BOOLEAN /\ entry \in BOOLEAN /\ rival \in BOOLEAN
        /\ down \in Seq(Message)
<1>5. Kind /\ (Kind' => TypeOK')
  <2>1. Kind
    BY TypeIs, Zenon DEF Typed
  <2>2. ASSUME Kind' PROVE Typed'
    BY <1>1, <2>2, TypeIs, ZenonT(60) DEF Typed
  <2> QED  BY <2>1, <2>2, TypeIs
<1>6. CASE Push
  <2>1. down' \in Seq(Message)
    BY <1>6, TypeAnswer DEF Push, Message
  <2>2. UNCHANGED <<stream, got, retrieved, len, server, hasKey, threw, session, entry, rival>>
    BY <1>1, <1>6 DEF Push, serverVars
  <2> QED  BY <1>5, <2>1, <2>2, Zenon
<1>7. CASE NegativeLength \/ Close \/ ServerDown
  <2>1. /\ UNCHANGED <<stream, got, retrieved, len, threw, rival, down>>
        /\ server' = "down" /\ hasKey' = FALSE /\ session' = FALSE /\ entry' = FALSE
    BY <1>1, <1>7 DEF NegativeLength, Close, ServerDown, Down
  <2> QED  BY <1>5, <2>1
<1>8. CASE RivalLogin \/ RivalLogout
  <2>1. /\ UNCHANGED <<stream, got, retrieved, len, server, hasKey, threw, session, down>>
        /\ (entry' = FALSE /\ rival' = rival) \/ (entry' = entry /\ rival' = TRUE)
    BY <1>1, <1>8 DEF RivalLogin, RivalLogout
  <2> QED  BY <1>5, <2>1
<1> QED  BY <1>2, <1>3, <1>4, <1>6, <1>7, <1>8 DEF ServerStep

LEMMA TypeStep == TypeOK /\ [Next]_vars => TypeOK'
<1> SUFFICES ASSUME TypeOK, [Next]_vars PROVE TypeOK'
  OBVIOUS
<1>1. CASE UNCHANGED vars
  BY <1>1 DEF TypeOK, vars, clientVars, serverVars
<1>2. CASE SemWait \/ SemPost
  BY <1>2, TypeIs DEF Typed, WireOK, SemWait, SemPost, serverVars
<1>3. CASE Quit \/ RecvFails
  BY <1>3, TypeGone DEF Quit, RecvFails
<1> QED
  BY <1>1, <1>2, <1>3, TypeMenu, TypeRecv, TypeSend, TypeServer DEF Next, ClientStep

\* Every variable keeps its type: the bytes on the wire are bytes of frames, and a thread that
\* sends has a frame.
THEOREM LinkTyped == Spec => []TypeOK
  BY TypeInit, TypeStep, PTL DEF Spec

-----------------------------------------------------------------------------
\* The order of the bytes

\* A place of the stream after a send is an old one or one of the frame being sent.
LEMMA PlaceSent ==
  ASSUME TypeOK, NEW t \in Thread, NEW from \in Nat \ {0}, NEW to \in Nat, from <= to,
         Sends(t, from, to)
  PROVE  /\ Len(stream') > Len(stream)
         /\ DOMAIN stream' = 1 .. Len(stream')
         /\ \A i \in DOMAIN stream : i \in DOMAIN stream' /\ stream'[i] = stream[i]
         /\ \A i \in DOMAIN stream' \ DOMAIN stream :
                /\ i > Len(stream)
                /\ stream'[i][1] = sending[t]
                /\ stream'[i][2] = from + (i - Len(stream)) - 1
<1>1. stream' \in Seq(Place) /\ Len(stream') = Len(stream) + (to - from + 1)
  BY DEF Sends
<1>2. Len(stream) \in Nat /\ DOMAIN stream = 1 .. Len(stream)
  BY Sequences
<1>3. Len(stream') > Len(stream) /\ DOMAIN stream' = 1 .. Len(stream')
  BY <1>1, <1>2
<1>4. \A i \in DOMAIN stream : i \in DOMAIN stream' /\ stream'[i] = stream[i]
  BY <1>2, <1>3 DEF Sends
<1>5. ASSUME NEW i \in DOMAIN stream' \ DOMAIN stream
      PROVE  /\ i > Len(stream)
             /\ stream'[i][1] = sending[t]
             /\ stream'[i][2] = from + (i - Len(stream)) - 1
  <2>1. i \in Len(stream) + 1 .. Len(stream')
    BY <1>2, <1>3
  <2>2. stream'[i] = <<sending[t], from + (i - Len(stream)) - 1>>
    BY <2>1 DEF Sends
  <2> QED  BY <1>2, <2>1, <2>2
<1> QED  BY <1>3, <1>4, <1>5

LEMMA OrderedSent ==
  ASSUME TypeOK, Ordered, NEW t \in Thread, NEW from \in Nat \ {0}, NEW to \in Nat, from <= to,
         Sends(t, from, to), frames' = frames, sending' = sending,
         \A i \in DOMAIN stream : stream[i][1] = sending[t] => stream[i][2] < from,
         t = "main" \/ frames[sending[t]].op = "aeskey"
  PROVE  Ordered'
<1>1. /\ Len(stream) \in Nat /\ Len(stream') > Len(stream)
      /\ DOMAIN stream' = 1 .. Len(stream') /\ DOMAIN stream = 1 .. Len(stream)
      /\ \A i \in DOMAIN stream : i \in DOMAIN stream' /\ stream'[i] = stream[i]
      /\ \A i \in DOMAIN stream' \ DOMAIN stream :
             /\ i > Len(stream)
             /\ stream'[i][1] = sending[t]
             /\ stream'[i][2] = from + (i - Len(stream)) - 1
  BY PlaceSent, Sequences
<1>2. ASSUME NEW i \in DOMAIN stream', NEW j \in DOMAIN stream', i < j,
             stream'[i][1] = stream'[j][1]
      PROVE  stream'[i][2] < stream'[j][2]
  <2>1. CASE j \in DOMAIN stream
    <3>1. i \in DOMAIN stream
      BY <1>1, <1>2, <2>1
    <3> QED  BY <1>1, <1>2, <2>1, <3>1 DEF Ordered
  <2>2. CASE i \in DOMAIN stream /\ j \notin DOMAIN stream
    <3>1. stream[i][2] \in Nat /\ stream'[i] = stream[i] /\ stream[i][2] < from
      BY <1>1, <1>2, <2>2, Sequences
    <3> QED  BY <1>1, <1>2, <2>2, <3>1
  <2>3. CASE i \notin DOMAIN stream /\ j \notin DOMAIN stream
    BY <1>1, <1>2, <2>3
  <2> QED  BY <2>1, <2>2, <2>3
<1>3. ASSUME NEW i \in DOMAIN stream', NEW j \in DOMAIN stream', i < j,
             stream'[i][1] = Current
      PROVE  stream'[j][1] = Current \/ frames[stream'[j][1]].op = "aeskey"
  <2>1. CASE j \in DOMAIN stream
    <3>1. i \in DOMAIN stream
      BY <1>1, <1>3, <2>1
    <3> QED  BY <1>1, <1>3, <2>1, <3>1 DEF Ordered, OpOf
  <2>2. CASE j \notin DOMAIN stream
    BY <1>1, <2>2 DEF Current
  <2> QED  BY <2>1, <2>2
<1> QED  BY <1>2, <1>3 DEF Ordered, OpOf, Current

\* Sends of one thread do not touch the frame of the other.
LEMMA OtherSends ==
  ASSUME TypeOK, NEW t \in Thread, NEW o \in Thread, NEW from \in Nat \ {0}, NEW to \in Nat,
         from <= to, Sends(t, from, to), sending' = sending, NEW place,
         SentSoFar(place, o), place \in {"head", "body"} => sending[o] # sending[t]
  PROVE  \A i \in DOMAIN stream' :
             stream'[i][1] = sending'[o] =>
                 place # "head" /\ (place = "body" => stream'[i][2] <= HeadSize)
<1> SUFFICES ASSUME NEW i \in DOMAIN stream', stream'[i][1] = sending[o],
                    place \in {"head", "body"}
             PROVE  place # "head" /\ (place = "body" => stream'[i][2] <= HeadSize)
  OBVIOUS
<1>1. i \in DOMAIN stream /\ stream'[i] = stream[i]
  BY PlaceSent
<1> QED  BY <1>1 DEF SentSoFar

LEMMA OrderStarts == Init => Ordered /\ Sending
  BY DEF Init, Ordered, Sending, SentSoFar

LEMMA OrderComposed ==
  ASSUME TypeOK, Ordered, NEW t \in Thread, NEW r \in Frame, Composes(t, r), stream' = stream
  PROVE  /\ Ordered'
         /\ \A i \in DOMAIN stream' : stream'[i][1] # sending'[t]
         /\ \A o \in Thread \ {t} : sending'[o] = sending[o]
<1>1. \A i \in DOMAIN stream : stream[i][1] # Len(frames) + 1 /\ OpOf(i)' = OpOf(i)
  BY Sequences DEF Composes, OpOf
<1>2. \A i \in DOMAIN stream' : stream'[i][1] # sending'[t]
  BY <1>1 DEF Composes
<1>3. Current' = Current \/ \A i \in DOMAIN stream' : stream'[i][1] # Current'
  BY <1>2 DEF Composes, Thread, Current
<1> QED  BY <1>1, <1>2, <1>3 DEF Ordered, Composes

\* What the four sends have in common.
Span(t, place) ==
    IF place = "head" THEN Sends(t, 1, HeadSize)
    ELSE Sends(t, HeadSize + 1, HeadSize + frames[sending[t]].size)

LEMMA SpanOf ==
  ASSUME TypeOK, MainHead \/ MainBody \/ ReaderHead \/ ReaderBody
  PROVE  /\ MainHead \/ MainBody => Span("main", main) /\ main \in {"head", "body"}
                                    /\ Current \in DOMAIN frames
         /\ ReaderHead \/ ReaderBody => Span("reader", reader) /\ reader \in {"head", "body"}
                                        /\ sending["reader"] \in DOMAIN frames
<1>1. main \in {"head", "body"} => Current \in DOMAIN frames
  BY DEF TypeOK, Current
<1>2. reader \in {"head", "body"} => sending["reader"] \in DOMAIN frames
  BY DEF TypeOK
<1>3. MainHead => Span("main", main) /\ main = "head"
  BY HeadSent DEF MainHead, Span, Thread
<1>4. MainBody => Span("main", main) /\ main = "body"
  BY <1>1, BodySent DEF MainBody, Span, Thread, Current
<1>5. ReaderHead => Span("reader", reader) /\ reader = "head"
  BY HeadSent DEF ReaderHead, Span, Thread
<1>6. ReaderBody => Span("reader", reader) /\ reader = "body"
  BY <1>2, BodySent DEF ReaderBody, Span, Thread
<1> QED  BY <1>1, <1>2, <1>3, <1>4, <1>5, <1>6

LEMMA SpanBounds ==
  ASSUME TypeOK, NEW t \in Thread, NEW place \in {"head", "body"}, Span(t, place),
         sending[t] \in DOMAIN frames
  PROVE  \E from \in Nat \ {0}, to \in Nat :
             /\ from <= to /\ Sends(t, from, to)
             /\ place = "head" => from = 1 /\ to = HeadSize
             /\ place = "body" => from = HeadSize + 1 /\ to = HeadSize + frames[sending[t]].size
<1>1. frames[sending[t]].size \in Nat \ {0}
  BY Sequences
<1>2. CASE place = "head"
  BY <1>2 DEF Span
<1>3. CASE place = "body"
  <2>1. /\ HeadSize + 1 \in Nat \ {0} /\ HeadSize + frames[sending[t]].size \in Nat
        /\ HeadSize + 1 <= HeadSize + frames[sending[t]].size
    BY <1>1
  <2> QED  BY <1>3, <2>1 DEF Span
<1> QED  BY <1>2, <1>3

LEMMA OrderSpan ==
  ASSUME TypeOK, Ordered, NEW t \in Thread, NEW place \in {"head", "body"}, Span(t, place),
         sending[t] \in DOMAIN frames, SentSoFar(place, t), frames' = frames, sending' = sending,
         t = "main" \/ frames[sending[t]].op = "aeskey"
  PROVE  /\ Ordered'
         /\ place = "head" =>
                \A i \in DOMAIN stream' : stream'[i][1] = sending[t] => stream'[i][2] <= HeadSize
<1>1. PICK from \in Nat \ {0}, to \in Nat :
          /\ from <= to /\ Sends(t, from, to)
          /\ place = "head" => from = 1 /\ to = HeadSize
          /\ place = "body" => from = HeadSize + 1 /\ to = HeadSize + frames[sending[t]].size
  BY SpanBounds
<1>2. \A i \in DOMAIN stream : stream[i][1] = sending[t] => stream[i][2] < from
  BY <1>1, Sequences DEF SentSoFar
<1>3. Ordered'
  BY <1>1, <1>2, OrderedSent
<1>4. ASSUME place = "head", NEW i \in DOMAIN stream', stream'[i][1] = sending[t]
      PROVE  stream'[i][2] <= HeadSize
  <2>1. i \notin DOMAIN stream
    BY <1>1, <1>4, PlaceSent DEF SentSoFar
  <2>2. stream'[i][2] = i - Len(stream) /\ i <= Len(stream')
    BY <1>1, <1>4, <2>1, PlaceSent, Sequences
  <2>3. Len(stream') = Len(stream) + HeadSize /\ i \in Nat /\ Len(stream) \in Nat
    BY <1>1, <1>4, Sequences, PlaceSent DEF Sends
  <2> QED  BY <2>2, <2>3
<1> QED  BY <1>3, <1>4

LEMMA OrderStep == TypeOK /\ Ordered /\ Sending /\ [Next]_vars => Ordered' /\ Sending'
<1> SUFFICES ASSUME TypeOK, Ordered, Sending, [Next]_vars PROVE Ordered' /\ Sending'
  OBVIOUS
<1>1. CASE UNCHANGED <<stream, frames, sending>> /\ main' \in {main, "gone", "menu", "chat"}
           /\ reader' \in {reader, "gone", "post", "recv"}
  BY <1>1 DEF Ordered, OpOf, Current, Sending, SentSoFar
<1>2. ASSUME NEW op \in Op, MenuRequest(op) PROVE Ordered' /\ Sending'
  <2>1. PICK n \in BodySize : Composes("main", MsgAESEncrypt(op, n))
    BY <1>2, TypeMenu
  <2>2. stream' = stream /\ reader' = reader /\ main' = "head" /\ "main" \in Thread
        /\ MsgAESEncrypt(op, n) \in Frame
    BY <1>2, RequestIsFrame DEF MenuRequest, Thread
  <2>3. /\ Ordered' /\ sending'["reader"] = sending["reader"]
        /\ \A i \in DOMAIN stream' : stream'[i][1] # sending'["main"]
    BY <2>1, <2>2, OrderComposed DEF Thread
  <2>4. frames'[Current'].op # "aeskey"
    BY <1>2, <2>1 DEF Composes, MsgAESEncrypt, MenuRequest, Current
  <2>5. reader \in {"head", "body"} =>
            frames'[sending["reader"]] = frames[sending["reader"]]
    BY <2>1 DEF TypeOK, Composes
  <2> QED  BY <2>2, <2>3, <2>4, <2>5 DEF Sending, SentSoFar
<1>3. CASE Recv /\ Head(down) = "rsa"
  <2>1. PICK n \in BodySize : Composes("reader", RsaEncrypt("aeskey", n))
    BY <1>3, TypeRecv
  <2>2. stream' = stream /\ main' = main /\ reader' = "head" /\ "reader" \in Thread
        /\ RsaEncrypt("aeskey", n) \in Frame
    BY <1>3, RequestIsFrame DEF Recv, Thread, Op
  <2>3. /\ Ordered' /\ sending'["main"] = sending["main"]
        /\ \A i \in DOMAIN stream' : stream'[i][1] # sending'["reader"]
    BY <2>1, <2>2, OrderComposed DEF Thread
  <2>4. frames'[sending'["reader"]].op = "aeskey"
    BY <2>1 DEF Composes, RsaEncrypt
  <2>5. main \in {"head", "body", "wait"} => frames'[Current] = frames[Current]
    BY <2>1 DEF TypeOK, Composes, Current
  <2> QED  BY <2>2, <2>3, <2>4, <2>5 DEF Sending, SentSoFar, Current
<1>4. CASE MainHead \/ MainBody
  <2>1. /\ Span("main", main) /\ main \in {"head", "body"} /\ Current \in DOMAIN frames
        /\ frames' = frames /\ sending' = sending /\ reader' = reader /\ "main" \in Thread
    BY <1>4, SpanOf DEF MainHead, MainBody, Thread
  <2>2. /\ Ordered'
        /\ main = "head" =>
               \A i \in DOMAIN stream' : stream'[i][1] = Current => stream'[i][2] <= HeadSize
    BY <2>1, OrderSpan DEF Sending, Current
  <2>3. reader \in {"head", "body"} => sending["reader"] # Current
    BY <2>1 DEF Sending
  <2>4. SentSoFar(reader, "reader")'
    <3>1. PICK from \in Nat \ {0}, to \in Nat : from <= to /\ Sends("main", from, to)
      BY <2>1, SpanBounds DEF Current
    <3> QED  BY <2>1, <2>3, <3>1, OtherSends DEF SentSoFar, Sending, Thread, Current
  <2>5. /\ main = "head" => main' = "body"
        /\ main = "body" => main' \in {"menu", "chat", "wait"}
                            /\ (main' = "wait" => frames[Current].op = "login")
    BY <1>4, Zenon DEF MainHead, MainBody, AfterSend, Current
  <2> QED  BY <2>1, <2>2, <2>4, <2>5 DEF Sending, SentSoFar, Current
<1>5. CASE ReaderHead \/ ReaderBody
  <2>1. /\ Span("reader", reader) /\ reader \in {"head", "body"}
        /\ sending["reader"] \in DOMAIN frames
        /\ frames' = frames /\ sending' = sending /\ main' = main /\ "reader" \in Thread
    BY <1>5, SpanOf DEF ReaderHead, ReaderBody, Thread
  <2>2. /\ Ordered'
        /\ reader = "head" =>
               \A i \in DOMAIN stream' :
                   stream'[i][1] = sending["reader"] => stream'[i][2] <= HeadSize
    BY <2>1, OrderSpan DEF Sending
  <2>3. main \in {"head", "body"} => sending["reader"] # Current
    BY <2>1 DEF Sending
  <2>4. SentSoFar(main, "main")'
    <3>1. PICK from \in Nat \ {0}, to \in Nat : from <= to /\ Sends("reader", from, to)
      BY <2>1, SpanBounds
    <3> QED  BY <2>1, <2>3, <3>1, OtherSends DEF SentSoFar, Sending, Thread, Current
  <2>5. (reader = "head" => reader' = "body") /\ (reader = "body" => reader' = "recv")
    BY <1>5 DEF ReaderHead, ReaderBody
  <2> QED  BY <2>1, <2>2, <2>4, <2>5 DEF Sending, SentSoFar, Current
<1>6. ASSUME \/ UNCHANGED vars \/ ServerStep \/ SemWait \/ SemPost \/ Quit \/ RecvFails
             \/ Recv /\ Head(down) # "rsa"
      PROVE  UNCHANGED <<stream, frames, sending>> /\ main' \in {main, "gone", "menu", "chat"}
             /\ reader' \in {reader, "gone", "post", "recv"}
  BY <1>6
     DEF vars, clientVars, serverVars, ServerStep, Receive, Break, TakeFrame, NegativeLength,
         Push, Close, ServerDown, Down, RivalLogin, RivalLogout, SemWait, SemPost, Quit, RecvFails, ClientGone, Recv
<1> QED  BY <1>1, <1>2, <1>3, <1>4, <1>5, <1>6 DEF Next, ClientStep

-----------------------------------------------------------------------------
\* What a step leaves as it was

\* Bytes are only added to the stream, frames only to the frames.
Grows ==
    /\ DOMAIN stream' = 1 .. Len(stream')
    /\ Len(stream') \in Nat /\ Len(stream') >= Len(stream)
    /\ \A i \in DOMAIN stream : i \in DOMAIN stream' /\ stream'[i] = stream[i]
    /\ \A f \in DOMAIN frames : f \in DOMAIN frames' /\ frames'[f] = frames[f]
    /\ \A i \in DOMAIN stream : OpOf(i)' = OpOf(i)

LEMMA GrowsStep == TypeOK /\ [Next]_vars => Grows
<1> SUFFICES ASSUME TypeOK, [Next]_vars
             PROVE  /\ DOMAIN stream' = 1 .. Len(stream')
                    /\ Len(stream') \in Nat /\ Len(stream') >= Len(stream)
                    /\ \A i \in DOMAIN stream : i \in DOMAIN stream' /\ stream'[i] = stream[i]
                    /\ \A f \in DOMAIN frames : f \in DOMAIN frames' /\ frames'[f] = frames[f]
  BY Sequences DEF Grows, OpOf
<1>1. CASE UNCHANGED <<stream, frames>>
  BY <1>1, Sequences
<1>2. ASSUME NEW op \in Op, MenuRequest(op) PROVE stream' = stream
  BY <1>2 DEF MenuRequest
<1>3. CASE stream' = stream
           /\ \E t \in Thread, r \in Frame : Composes(t, r)
  BY <1>3, Sequences DEF Composes
<1>4. CASE MainHead \/ MainBody \/ ReaderHead \/ ReaderBody
  <2>1. PICK t \in Thread, place \in {"head", "body"} :
            Span(t, place) /\ sending[t] \in DOMAIN frames
    BY <1>4, SpanOf DEF Thread, Current
  <2>2. PICK from \in Nat \ {0}, to \in Nat : from <= to /\ Sends(t, from, to)
    BY <2>1, SpanBounds
  <2>3. frames' = frames
    BY <1>4 DEF MainHead, MainBody, ReaderHead, ReaderBody
  <2> QED  BY <2>2, <2>3, PlaceSent, Sequences DEF Sends
<1>5. ASSUME NEW op \in Op, MenuRequest(op)
      PROVE  stream' = stream /\ \E t \in Thread, r \in Frame : Composes(t, r)
  BY <1>2, <1>5, TypeMenu, RequestIsFrame DEF Thread
<1>6. ASSUME Recv, Head(down) = "rsa"
      PROVE  stream' = stream /\ \E t \in Thread, r \in Frame : Composes(t, r)
  BY <1>6, TypeRecv, RequestIsFrame DEF Thread, Recv, Op
<1>7. ASSUME \/ UNCHANGED vars \/ ServerStep \/ SemWait \/ SemPost \/ Quit \/ RecvFails
             \/ Recv /\ Head(down) # "rsa"
      PROVE  UNCHANGED <<stream, frames>>
  BY <1>7
     DEF vars, clientVars, serverVars, ServerStep, Receive, Break, TakeFrame, NegativeLength,
         Push, Close, ServerDown, Down, RivalLogin, RivalLogout, SemWait, SemPost, Quit, RecvFails, ClientGone, Recv
<1> QED  BY <1>1, <1>3, <1>4, <1>5, <1>6, <1>7 DEF Next, ClientStep

LEMMA BoundaryKept ==
  ASSUME TypeOK, Grows, retrieved' = retrieved, len' = len, WholeFrames => AtBoundary, WholeFrames'
  PROVE  WholeFrames /\ AtBoundary'
<1>1. WholeFrames
  <2> SUFFICES ASSUME NEW i \in DOMAIN stream,
                      NEW k \in 1 .. HeadSize + frames[stream[i][1]].size,
                      i - stream[i][2] + k <= Len(stream)
               PROVE  /\ i - stream[i][2] + k > 0
                      /\ stream[i - stream[i][2] + k] = <<stream[i][1], k>>
    BY Zenon DEF WholeFrames
  <2>1. /\ i \in DOMAIN stream' /\ stream'[i] = stream[i]
        /\ stream[i][1] \in DOMAIN frames
        /\ frames'[stream[i][1]] = frames[stream[i][1]]
        /\ Len(stream') >= Len(stream) /\ Len(stream') \in Nat
    BY Sequences DEF Grows
  <2>2. i - stream[i][2] + k \in Int /\ Len(stream) \in Nat
    BY Sequences
  <2>3. /\ i - stream[i][2] + k > 0
        /\ stream'[i - stream[i][2] + k] = <<stream[i][1], k>>
    <3>1. i - stream'[i][2] + k <= Len(stream')
      BY <2>1, <2>2
    <3> QED  BY <2>1, <3>1 DEF WholeFrames
  <2>4. i - stream[i][2] + k \in DOMAIN stream
    BY <2>2, <2>3, Sequences
  <2> QED  BY <2>3, <2>4 DEF Grows
<1>2. retrieved \in 0 .. Len(stream)
  BY Sequences DEF TypeOK
<1>3. retrieved > 0 => retrieved \in DOMAIN stream /\ stream[retrieved][1] \in DOMAIN frames
  BY <1>2, Sequences
<1>4. retrieved < Len(stream) => /\ retrieved + 1 \in DOMAIN stream
                                 /\ stream[retrieved + 1][1] \in DOMAIN frames
  BY <1>2, Sequences
<1>5. AtBoundary'
  BY <1>1, <1>2, <1>3, <1>4, Sequences DEF Grows, AtBoundary
<1> QED  BY <1>1, <1>5

-----------------------------------------------------------------------------
\* The client's steps

\* Known, said of the places ahead.
OnTheWay(op) ==
    \/ main \in {"head", "body"} /\ frames[Current].op = op
    \/ \E i \in DOMAIN stream : Ahead(i) /\ OpOf(i) = op

KnownHere ==
    /\ session /\ main # "gone" => Welcome \/ OnTheWay("logout") \/ Stuck
    /\ \A i \in DOMAIN stream :
           Ahead(i) /\ OpOf(i) = "login" /\ session =>
               \E j \in DOMAIN stream : Ahead(j) /\ j <= i /\ OpOf(j) = "logout"

LEMMA KnownIs ==
  /\ TypeOK => (Known <=> KnownHere) /\ \A op : Unread(op) <=> OnTheWay(op)
  /\ TypeOK' => (Known' <=> KnownHere')
<1>1. ASSUME TypeOK PROVE (Known <=> KnownHere) /\ \A op : Unread(op) <=> OnTheWay(op)
  <2>1. /\ DOMAIN stream = 1 .. Len(stream) /\ Len(stream) \in Nat /\ retrieved \in Nat
    BY <1>1, Sequences
  <2>2. \A i : i \in retrieved + 1 .. Len(stream) <=> i \in DOMAIN stream /\ Ahead(i)
    BY <2>1 DEF Ahead
  <2>3. \A i \in DOMAIN stream : \A j :
            j \in retrieved + 1 .. i <=> j \in DOMAIN stream /\ Ahead(j) /\ j <= i
    BY <2>1 DEF Ahead
  <2>4. \A op : Unread(op) <=> OnTheWay(op)
    BY <2>2, Zenon DEF Unread, OnTheWay, OpOf, Current
  <2> QED  BY <2>3, <2>4, Zenon DEF Known, KnownHere
<1>2. ASSUME TypeOK' PROVE Known' <=> KnownHere'
  <2>1. /\ DOMAIN stream' = 1 .. Len(stream') /\ Len(stream') \in Nat /\ retrieved' \in Nat
    BY <1>2, TypeIs DEF Typed, WireOK
  <2>2. \A i : i \in retrieved' + 1 .. Len(stream') <=> i \in DOMAIN stream' /\ Ahead(i)'
    BY <2>1 DEF Ahead
  <2>3. \A i \in DOMAIN stream' : \A j :
            j \in retrieved' + 1 .. i <=> j \in DOMAIN stream' /\ Ahead(j)' /\ j <= i
    BY <2>1 DEF Ahead
  <2>4. Unread("logout")' <=> OnTheWay("logout")'
    BY <2>2, Zenon DEF Unread, OnTheWay, OpOf, Current
  <2> QED  BY <2>3, <2>4, Zenon DEF Known, KnownHere
<1> QED  BY <1>1, <1>2

Agreed == Menus /\ Answers /\ Keys /\ LoginAhead /\ WelcomeIsReal /\ CommandsAhead
Kept == WholeFrames => AtBoundary /\ Known

LEMMA MenuAgrees ==
  ASSUME TypeOK, Sending, Agreed, Kept, Grows, NEW op \in Op, MenuRequest(op)
  PROVE  Agreed' /\ Kept'
<1>1. PICK n \in BodySize : Composes("main", MsgAESEncrypt(op, n))
  BY TypeMenu
<1>2. /\ main' = "head" /\ userIsLogin' = (userIsLogin /\ op # "logout")
      /\ UNCHANGED <<reader, aeskey, keyflag, acksem, stream, serverVars, down>>
      /\ \/ main = "menu" /\ op \in {"login", "reg"}
         \/ main = "chat" /\ op \in {"other", "logout"}
  BY DEF MenuRequest, ClearFlag
<1>3. /\ Current' = Len(frames) + 1 /\ Len(frames) \in Nat
      /\ frames'[Current'].op = op
      /\ frames'[Current'].cipher = IF aeskey THEN "aes" ELSE "garbled"
      /\ DOMAIN frames' = DOMAIN frames \cup {Current'}
  BY <1>1, Sequences DEF Composes, Current, MsgAESEncrypt
<1>4. /\ DOMAIN stream' = DOMAIN stream /\ retrieved' = retrieved
      /\ \A i \in DOMAIN stream : OpOf(i)' = OpOf(i) /\ (Ahead(i)' <=> Ahead(i))
  BY <1>2 DEF Grows, Ahead, serverVars
<1>5. NoAck /\ NoAck' /\ (NoAckDown' <=> NoAckDown)
  BY <1>2 DEF Agreed, Answers, NoAck, NoAckDown
<1>6. \A i \in DOMAIN stream : Ahead(i) => OpOf(i) # "login"
  BY <1>2 DEF Agreed, LoginAhead
<1>7. /\ Welcome' => Welcome
      /\ op \in {"other", "logout"} => userIsLogin /\ Welcome
      /\ op # "logout" /\ Welcome => Welcome'
  BY <1>2 DEF Welcome, Agreed, Menus
<1>8. Menus' /\ Answers'
  <2>1. Menus'
    BY <1>2, <1>3 DEF Agreed, Menus
  <2>2. Answers'
    BY <1>2, <1>5 DEF Agreed, Answers
  <2> QED  BY <2>1, <2>2
<1>9. Keys'
  BY <1>2, <1>3, <1>7 DEF Agreed, Keys, Grows, serverVars
<1>10. LoginAhead' /\ WelcomeIsReal' /\ CommandsAhead'
  <2>1. LoginAhead'
    BY <1>4, <1>6 DEF LoginAhead
  <2>2. WelcomeIsReal'
    BY <1>2, <1>4, <1>7 DEF Agreed, WelcomeIsReal, serverVars
  <2>3. InSession' <=> InSession
    BY <1>2 DEF InSession, serverVars
  <2>4. \A i \in DOMAIN stream : stream'[i] = stream[i]
    BY <1>2
  <2>5. op \in {"other", "logout"} =>
            InSession /\ \A i \in DOMAIN stream : Ahead(i) => OpOf(i) # "logout"
    BY <1>7 DEF Agreed, WelcomeIsReal, InSession
  <2>6. CommandsAhead'
    BY <1>2, <1>3, <1>4, <2>3, <2>4, <2>5 DEF Agreed, CommandsAhead
  <2> QED  BY <2>1, <2>2, <2>6
<1>11. Kept'
  <2> SUFFICES ASSUME WholeFrames' PROVE AtBoundary' /\ Known'
    BY DEF Kept
  <2>1. WholeFrames /\ AtBoundary'
    BY <1>2, BoundaryKept DEF Kept, serverVars
  <2>2. KnownHere
    BY <2>1, KnownIs DEF Kept
  <2>3. OnTheWay("logout") => OnTheWay("logout")'
    BY <1>2, <1>4 DEF OnTheWay
  <2>4. op = "logout" => OnTheWay("logout")'
    BY <1>2, <1>3 DEF OnTheWay
  <2>5. session' /\ main' # "gone" => Welcome' \/ OnTheWay("logout")' \/ Stuck'
    BY <1>2, <1>7, <2>2, <2>3, <2>4 DEF KnownHere, Stuck, serverVars
  <2>6. KnownHere'
    BY <1>4, <1>6, <2>5 DEF KnownHere
  <2>7. TypeOK'
    BY TypeMenu
  <2> QED  BY <2>1, <2>6, <2>7, KnownIs
<1> QED  BY <1>8, <1>9, <1>10, <1>11 DEF Agreed

\* What a send of thread t adds is of its frame and ahead of the server.
LEMMA AddedIs ==
  ASSUME TypeOK, Grows, NEW t \in Thread, NEW place \in {"head", "body"}, Span(t, place),
         sending[t] \in DOMAIN frames, UNCHANGED <<frames, retrieved>>
  PROVE  /\ \A i \in DOMAIN stream : stream'[i] = stream[i] /\ (Ahead(i)' <=> Ahead(i))
         /\ \A i \in DOMAIN stream' \ DOMAIN stream :
                /\ stream'[i][1] = sending[t]
                /\ OpOf(i)' = frames[sending[t]].op
                /\ Ahead(i)'
                /\ \A j \in DOMAIN stream : j < i
         /\ DOMAIN stream \subseteq DOMAIN stream'
         /\ DOMAIN stream' \subseteq Nat
         /\ \E i \in DOMAIN stream' : i \notin DOMAIN stream
<1>1. PICK from \in Nat \ {0}, to \in Nat : from <= to /\ Sends(t, from, to)
  BY SpanBounds
<1>2. /\ Len(stream') > Len(stream) /\ DOMAIN stream' = 1 .. Len(stream')
      /\ \A i \in DOMAIN stream : i \in DOMAIN stream' /\ stream'[i] = stream[i]
      /\ \A i \in DOMAIN stream' \ DOMAIN stream :
             i > Len(stream) /\ stream'[i][1] = sending[t]
  BY <1>1, PlaceSent
<1>3. /\ DOMAIN stream = 1 .. Len(stream) /\ Len(stream) \in Nat
      /\ retrieved \in 0 .. Len(stream) /\ Len(stream') \in Nat
  BY Sequences DEF Grows, TypeOK
<1>4. Len(stream') \in DOMAIN stream' /\ Len(stream') \notin DOMAIN stream
  BY <1>2, <1>3
<1> QED  BY <1>2, <1>3, <1>4 DEF Ahead, OpOf

LEMMA MainAgrees ==
  ASSUME TypeOK, Sending, Agreed, Kept, Grows, MainHead \/ MainBody
  PROVE  Agreed' /\ Kept'
<1>1. /\ Span("main", main) /\ main \in {"head", "body"} /\ Current \in DOMAIN frames
      /\ "main" \in Thread
  BY SpanOf DEF Thread
<1>2. /\ UNCHANGED <<reader, sending, frames, aeskey, keyflag, userIsLogin, acksem,
                     serverVars, down>>
      /\ Current' = Current
      /\ main = "head" => main' = "body"
      /\ main = "body" => main' = AfterSend(frames[Current].op)
  BY DEF MainHead, MainBody, Current
<1> DEFINE op == frames[Current].op
<1>3. op \in Op /\ op # "aeskey" /\ (userIsLogin <=> op = "other")
  BY <1>1, Sequences DEF Sending, Agreed, Menus
<1>4. main = "body" => CASE op = "login" -> main' = "wait"
                         [] op \in {"reg", "logout"} -> main' = "menu"
                         [] op = "other" -> main' = "chat"
  BY <1>2, <1>3 DEF AfterSend, Op
<1>5. main' \in {"body", "wait", "menu", "chat"}
  BY <1>1, <1>2, <1>3, <1>4 DEF Op
<1>6. /\ \A i \in DOMAIN stream : stream'[i] = stream[i] /\ (Ahead(i)' <=> Ahead(i))
      /\ \A i \in DOMAIN stream' \ DOMAIN stream :
             /\ stream'[i][1] = Current /\ OpOf(i)' = op /\ Ahead(i)'
             /\ \A j \in DOMAIN stream : j < i
      /\ DOMAIN stream \subseteq DOMAIN stream' /\ DOMAIN stream' \subseteq Nat
      /\ \E i \in DOMAIN stream' : i \notin DOMAIN stream
  BY <1>1, <1>2, AddedIs DEF Current, serverVars
<1>7. \A i \in DOMAIN stream : OpOf(i)' = OpOf(i)
  BY DEF Grows
<1>8. NoAck /\ NoAck' /\ NoAckDown /\ NoAckDown'
  BY <1>1, <1>2 DEF Agreed, Answers, NoAck, NoAckDown
<1>9. (Welcome <=> op = "other") /\ (Welcome' <=> Welcome)
  BY <1>2, <1>3, <1>8 DEF Welcome, NoAckDown, Ack
<1>10. Menus' /\ Answers'
  <2>1. Menus'
    BY <1>1, <1>2, <1>3, <1>4, <1>5 DEF Agreed, Menus, Op
  <2>2. Answers'
    BY <1>2, <1>8 DEF Agreed, Answers
  <2> QED  BY <2>1, <2>2
<1>11. Keys'
  BY <1>2, <1>9 DEF Agreed, Keys, serverVars
<1>12. LoginAhead'
  <2> SUFFICES ASSUME NEW i \in DOMAIN stream', Ahead(i)', OpOf(i)' = "login"
               PROVE  stream'[i][1] = Current /\ main' \in {"body", "wait"}
    BY <1>2, <1>8 DEF LoginAhead
  <2>1. stream'[i][1] = Current
    BY <1>1, <1>6, <1>7 DEF Agreed, LoginAhead
  <2>2. op = "login"
    BY <1>2, <2>1 DEF OpOf
  <2> QED  BY <1>1, <1>2, <1>4, <2>1, <2>2
<1>13. WelcomeIsReal'
  BY <1>2, <1>6, <1>7, <1>9 DEF Agreed, WelcomeIsReal, serverVars
<1>14. CommandsAhead'
  <2>1. InSession' <=> InSession
    BY <1>2 DEF InSession, serverVars
  <2>2. op \in {"other", "logout"} => InSession
    BY <1>1 DEF Agreed, CommandsAhead
  <2>3. op = "logout" =>
            \A i \in DOMAIN stream : Ahead(i) /\ OpOf(i) = "logout" => stream[i][1] = Current
    BY <1>1 DEF Agreed, CommandsAhead
  <2>4. op = "other" => \A i \in DOMAIN stream : Ahead(i) => OpOf(i) # "logout"
    BY <1>9 DEF Agreed, WelcomeIsReal
  <2>5. ASSUME NEW i \in DOMAIN stream', Ahead(i)', OpOf(i)' \in {"other", "logout"}
        PROVE  InSession
    BY <1>6, <1>7, <2>2, <2>5 DEF Agreed, CommandsAhead
  <2>6. ASSUME op = "logout", NEW i \in DOMAIN stream', Ahead(i)', OpOf(i)' = "logout"
        PROVE  stream'[i][1] = Current
    BY <1>6, <1>7, <2>3, <2>6
  <2>7. ASSUME NEW i \in DOMAIN stream', NEW j \in DOMAIN stream', i < j,
               Ahead(i)', OpOf(i)' = "logout", OpOf(j)' \in {"other", "logout"}
        PROVE  stream'[j][1] = stream'[i][1]
    <3>1. CASE j \in DOMAIN stream
      <4>1. i \in DOMAIN stream
        BY <1>6, <2>7, <3>1
      <4> QED  BY <1>6, <1>7, <2>7, <3>1, <4>1 DEF Agreed, CommandsAhead
    <3>2. CASE j \notin DOMAIN stream
      <4>1. stream'[j][1] = Current /\ op \in {"other", "logout"}
        BY <1>6, <2>7, <3>2
      <4> QED  BY <1>6, <1>7, <2>4, <2>6, <2>7, <4>1
    <3> QED  BY <3>1, <3>2
  <2> QED  BY <1>2, <2>1, <2>2, <2>5, <2>6, <2>7 DEF CommandsAhead
<1>15. Kept'
  <2> SUFFICES ASSUME WholeFrames' PROVE AtBoundary' /\ Known'
    BY DEF Kept
  <2>1. WholeFrames /\ AtBoundary'
    BY <1>2, BoundaryKept DEF Kept, serverVars
  <2>2. KnownHere
    BY <2>1, KnownIs DEF Kept
  <2>3. OnTheWay("logout") => \E i \in DOMAIN stream' : Ahead(i)' /\ OpOf(i)' = "logout"
    BY <1>6, <1>7 DEF OnTheWay
  <2>4. session' /\ main' # "gone" => Welcome' \/ OnTheWay("logout")'
    BY <1>1, <1>2, <1>9, <2>2, <2>3 DEF KnownHere, OnTheWay, Stuck, serverVars
  <2>5. ASSUME NEW i \in DOMAIN stream', Ahead(i)', OpOf(i)' = "login", session'
        PROVE  \E j \in DOMAIN stream' : Ahead(j)' /\ j <= i /\ OpOf(j)' = "logout"
    <3>1. CASE i \in DOMAIN stream
      BY <1>2, <1>6, <1>7, <2>2, <2>5, <3>1 DEF KnownHere, serverVars
    <3>2. CASE i \notin DOMAIN stream
      <4>1. op = "login" /\ session
        BY <1>2, <1>6, <2>5, <3>2 DEF serverVars
      <4>2. OnTheWay("logout")
        BY <1>1, <1>9, <2>2, <4>1 DEF KnownHere, Stuck
      <4>3. PICK j \in DOMAIN stream : Ahead(j) /\ OpOf(j) = "logout"
        BY <4>1, <4>2 DEF OnTheWay
      <4> QED  BY <1>6, <1>7, <3>2, <4>3
    <3> QED  BY <3>1, <3>2
  <2>6. KnownHere' /\ TypeOK'
    BY <2>4, <2>5, TypeSend DEF KnownHere
  <2> QED  BY <2>1, <2>6, KnownIs
<1> QED  BY <1>10, <1>11, <1>12, <1>13, <1>14, <1>15 DEF Agreed

LEMMA ReaderAgrees ==
  ASSUME TypeOK, Sending, Agreed, Kept, Grows, ReaderHead \/ ReaderBody
  PROVE  Agreed' /\ Kept'
<1>1. /\ Span("reader", reader) /\ reader \in {"head", "body"}
      /\ sending["reader"] \in DOMAIN frames /\ "reader" \in Thread
  BY SpanOf DEF Thread
<1>2. /\ UNCHANGED <<main, sending, frames, aeskey, userIsLogin, acksem, serverVars, down>>
      /\ Current' = Current /\ reader' \in {"body", "recv"}
  BY DEF ReaderHead, ReaderBody, Current
<1>3. /\ \A i \in DOMAIN stream : stream'[i] = stream[i] /\ (Ahead(i)' <=> Ahead(i))
      /\ \A i \in DOMAIN stream' \ DOMAIN stream : OpOf(i)' = "aeskey"
      /\ DOMAIN stream \subseteq DOMAIN stream'
      /\ \A i \in DOMAIN stream : OpOf(i)' = OpOf(i)
  BY <1>1, <1>2, AddedIs DEF Sending, Grows, serverVars
<1>4. /\ NoAck' <=> NoAck
      /\ NoAckDown' <=> NoAckDown
      /\ Welcome' <=> Welcome
      /\ InSession' <=> InSession
  BY <1>1, <1>2 DEF NoAck, NoAckDown, Welcome, InSession, serverVars
<1>5. Menus'
  BY <1>1, <1>2 DEF Agreed, Menus
<1>6. Answers'
  BY <1>1, <1>2, <1>4 DEF Agreed, Answers
<1>7. Keys'
  BY <1>2, <1>4 DEF Agreed, Keys, serverVars
<1>8. LoginAhead'
  BY <1>2, <1>3, <1>4 DEF Agreed, LoginAhead
<1>9. WelcomeIsReal'
  BY <1>2, <1>3, <1>4 DEF Agreed, WelcomeIsReal, serverVars
<1>10. CommandsAhead'
  BY <1>2, <1>3, <1>4 DEF Agreed, CommandsAhead
<1>11. Kept'
  <2> SUFFICES ASSUME WholeFrames' PROVE AtBoundary' /\ Known'
    BY DEF Kept
  <2>1. WholeFrames /\ AtBoundary'
    BY <1>2, BoundaryKept DEF Kept, serverVars
  <2>2. KnownHere
    BY <2>1, KnownIs DEF Kept
  <2>3. /\ OnTheWay("logout") => OnTheWay("logout")'
        /\ Stuck => Stuck'
    BY <1>2, <1>3, <1>4 DEF OnTheWay, Stuck
  <2>4. KnownHere'
    BY <1>2, <1>3, <1>4, <2>2, <2>3 DEF KnownHere, serverVars
  <2> QED  BY <2>1, <2>4, TypeSend, KnownIs
<1> QED  BY <1>5, <1>6, <1>7, <1>8, <1>9, <1>10, <1>11 DEF Agreed

\* Steps that send and retrieve nothing and leave the session of the server alone.
Local == UNCHANGED <<sending, frames, stream, serverVars>>

LEMMA LocalKeeps ==
  ASSUME TypeOK, Grows, Local
  PROVE  /\ \A i \in DOMAIN stream : (Ahead(i)' <=> Ahead(i)) /\ OpOf(i)' = OpOf(i)
         /\ Current' = Current /\ (InSession' <=> InSession)
         /\ Kept /\ WholeFrames' => WholeFrames /\ AtBoundary' /\ KnownHere
  BY BoundaryKept, KnownIs
     DEF Local, Ahead, OpOf, Current, InSession, serverVars, Kept

LEMMA SemAgrees ==
  ASSUME TypeOK, Agreed, Kept, Grows, SemWait \/ SemPost
  PROVE  Agreed' /\ Kept'
<1>1. Local /\ UNCHANGED <<aeskey, userIsLogin, down>>
  BY DEF SemWait, SemPost, Local
<1>2. /\ \A i \in DOMAIN stream : (Ahead(i)' <=> Ahead(i)) /\ OpOf(i)' = OpOf(i)
      /\ Current' = Current /\ (InSession' <=> InSession)
      /\ WholeFrames' => WholeFrames /\ AtBoundary' /\ KnownHere
  BY <1>1, LocalKeeps
<1>3. /\ main = "wait" /\ NoAckDown /\ ~NoAck
      /\ acksem \in {0, 1} /\ acksem' \in {0, 1}
      /\ SemWait => reader \notin {"post", "gone"} /\ acksem = 1 /\ acksem' = 0
                    /\ main' = IF userIsLogin THEN "chat" ELSE "menu"
      /\ SemPost => reader = "post" /\ acksem' = 1 /\ main' = "wait"
      /\ SemWait => reader' = reader
      /\ SemPost => reader' = "recv"
  BY DEF SemWait, SemPost, Agreed, Answers, Menus, NoAck
<1>4. /\ NoAckDown' <=> NoAckDown
      /\ Welcome' <=> Welcome
      /\ SemWait => NoAck'
  BY <1>1, <1>3 DEF NoAck, NoAckDown, Welcome
<1>5. Menus'
  BY <1>1, <1>3 DEF Agreed, Menus
<1>6. Answers'
  BY <1>1, <1>3, <1>4 DEF Agreed, Answers
<1>7. Keys'
  BY <1>1, <1>4 DEF Agreed, Keys, Local, serverVars
<1>8. LoginAhead'
  BY <1>1, <1>2, <1>3 DEF Agreed, LoginAhead, Local
<1>9. WelcomeIsReal'
  BY <1>1, <1>2, <1>4 DEF Agreed, WelcomeIsReal, Local, serverVars
<1>10. CommandsAhead'
  BY <1>1, <1>2, <1>3 DEF Agreed, CommandsAhead, Local
<1>11. Kept'
  <2> SUFFICES ASSUME WholeFrames' PROVE KnownHere'
    BY <1>2, TypeStep, KnownIs DEF Kept, Next, ClientStep
  <2>1. KnownHere /\ ~Stuck
    BY <1>2, <1>3 DEF Stuck
  <2>2. OnTheWay("logout") => OnTheWay("logout")'
    BY <1>1, <1>2, <1>3 DEF OnTheWay, Local
  <2> QED  BY <1>1, <1>2, <1>3, <1>4, <2>1, <2>2 DEF KnownHere, Local, serverVars
<1> QED  BY <1>5, <1>6, <1>7, <1>8, <1>9, <1>10, <1>11 DEF Agreed

LEMMA GoneAgrees ==
  ASSUME TypeOK, Agreed, Kept, Grows, ClientGone
  PROVE  Agreed' /\ Kept'
<1>1. /\ Local /\ UNCHANGED <<aeskey, acksem>>
      /\ main' = "gone" /\ reader' = "gone" /\ userIsLogin' = FALSE /\ down' = <<>>
      /\ DOMAIN down' = {}
  BY DEF ClientGone, Local
<1>2. /\ \A i \in DOMAIN stream : (Ahead(i)' <=> Ahead(i)) /\ OpOf(i)' = OpOf(i)
      /\ Current' = Current /\ (InSession' <=> InSession)
      /\ WholeFrames' => WholeFrames /\ AtBoundary' /\ KnownHere
  BY <1>1, LocalKeeps
<1>3. NoAckDown' /\ ~Welcome' /\ (NoAck => NoAck')
  BY <1>1 DEF NoAck, NoAckDown, Welcome
<1>4. Menus'
  BY <1>1 DEF Menus
<1>5. Answers'
  BY <1>1, <1>3 DEF Agreed, Answers
<1>6. Keys'
  BY <1>1, <1>3 DEF Agreed, Keys, Local, serverVars
<1>7. LoginAhead'
  BY <1>1, <1>2, <1>3 DEF Agreed, LoginAhead, Local
<1>8. WelcomeIsReal'
  BY <1>3 DEF WelcomeIsReal
<1>9. CommandsAhead'
  BY <1>1, <1>2 DEF Agreed, CommandsAhead, Local
<1>10. Kept'
  <2> SUFFICES ASSUME WholeFrames' PROVE KnownHere'
    BY <1>2, TypeGone, KnownIs DEF Kept
  <2> QED  BY <1>1, <1>2 DEF KnownHere, Local, serverVars
<1> QED  BY <1>4, <1>5, <1>6, <1>7, <1>8, <1>9, <1>10 DEF Agreed

LEMMA TailIs ==
  ASSUME TypeOK, down # <<>>, down' = Tail(down)
  PROVE  /\ 1 \in DOMAIN down /\ down[1] = Head(down)
         /\ \A i \in DOMAIN down' :
                i \in Nat \ {0} /\ i + 1 \in DOMAIN down /\ down'[i] = down[i + 1]
         /\ \A i \in DOMAIN down : i = 1 \/ (i - 1 \in DOMAIN down' /\ down'[i - 1] = down[i])
<1>1. down \in Seq(Message) /\ down' \in Seq(Message) /\ Len(down) \in Nat \ {0}
  BY HeadTailProperties, EmptySeq, LenProperties DEF TypeOK
<1>2. /\ Len(down') = Len(down) - 1 /\ Head(down) = down[1]
      /\ \A i \in 1 .. Len(down') : down'[i] = down[i + 1]
  BY <1>1, HeadTailProperties
<1>3. DOMAIN down = 1 .. Len(down) /\ DOMAIN down' = 1 .. Len(down')
  BY <1>1
<1> QED  BY <1>1, <1>2, <1>3

\* A message that is no answer to a login: the server's key, or something to print.
LEMMA RecvOtherAgrees ==
  ASSUME TypeOK, Sending, Agreed, Kept, Grows, Recv, Head(down) \notin Ack
  PROVE  Agreed' /\ Kept'
<1>1. /\ down # <<>> /\ down' = Tail(down) /\ reader = "recv" /\ reader' \in {"head", "recv"}
      /\ UNCHANGED <<main, userIsLogin, acksem, stream, serverVars>>
  BY DEF Recv, Ack
<1>2. /\ aeskey => aeskey'
      /\ Head(down) = "rsa" =>
             aeskey' /\ \E n \in BodySize : Composes("reader", RsaEncrypt("aeskey", n))
      /\ Head(down) # "rsa" => UNCHANGED <<aeskey, frames, sending>>
  BY TypeRecv DEF Recv, Ack
<1>3. /\ 1 \in DOMAIN down /\ down[1] = Head(down)
      /\ \A i \in DOMAIN down' :
             i \in Nat \ {0} /\ i + 1 \in DOMAIN down /\ down'[i] = down[i + 1]
      /\ \A i \in DOMAIN down : i = 1 \/ (i - 1 \in DOMAIN down' /\ down'[i - 1] = down[i])
  BY <1>1, TailIs
<1>4. /\ NoAckDown' <=> NoAckDown
      /\ Welcome' <=> Welcome
  <2>1. NoAckDown' <=> NoAckDown
    BY <1>3 DEF NoAckDown
  <2>2. Welcome' <=> Welcome
    BY <1>1, <1>3 DEF Welcome, Ack
  <2> QED  BY <2>1, <2>2
<1>5. NoAck' <=> NoAck
  BY <1>1, <1>4 DEF NoAck
<1>6. /\ Current' = Current
      /\ \A f \in DOMAIN frames' \ DOMAIN frames :
             frames'[f].op = "aeskey" /\ frames'[f].cipher = "rsa" /\ aeskey'
  <2>1. CASE Head(down) = "rsa"
    <3>1. PICK n \in BodySize : Composes("reader", RsaEncrypt("aeskey", n))
      BY <1>2, <2>1
    <3>2. \A f \in DOMAIN frames' \ DOMAIN frames : frames'[f] = RsaEncrypt("aeskey", n)
      BY <3>1, Sequences DEF Composes
    <3> QED  BY <1>2, <2>1, <3>1, <3>2 DEF Composes, RsaEncrypt, Current, Thread
  <2>2. CASE Head(down) # "rsa"
    BY <1>2, <2>2 DEF Current
  <2> QED  BY <2>1, <2>2
<1>7. /\ \A i \in DOMAIN stream : (Ahead(i)' <=> Ahead(i)) /\ OpOf(i)' = OpOf(i)
      /\ DOMAIN stream' = DOMAIN stream /\ (InSession' <=> InSession)
      /\ main \in {"head", "body", "wait"} => frames'[Current] = frames[Current]
  BY <1>1 DEF Grows, Ahead, InSession, serverVars, TypeOK, Current
<1>8. Menus'
  BY <1>1, <1>6, <1>7 DEF Agreed, Menus
<1>9. Answers'
  <2>1. \A i, j \in DOMAIN down' : down'[i] \in Ack /\ down'[j] \in Ack => i = j
    <3> SUFFICES ASSUME NEW i \in DOMAIN down', NEW j \in DOMAIN down',
                        down'[i] \in Ack, down'[j] \in Ack
                 PROVE  i = j
      OBVIOUS
    <3>1. i + 1 = j + 1
      BY <1>3 DEF Agreed, Answers
    <3> QED  BY <1>3, <3>1
  <2> QED  BY <1>1, <1>4, <1>5, <2>1 DEF Agreed, Answers
<1>10. Keys'
  BY <1>1, <1>2, <1>4, <1>6 DEF Agreed, Keys, Grows, serverVars
<1>11. LoginAhead'
  BY <1>1, <1>5, <1>6, <1>7 DEF Agreed, LoginAhead
<1>12. WelcomeIsReal'
  BY <1>1, <1>4, <1>7 DEF Agreed, WelcomeIsReal, serverVars
<1>13. CommandsAhead'
  BY <1>1, <1>6, <1>7 DEF Agreed, CommandsAhead
<1>14. Kept'
  <2> SUFFICES ASSUME WholeFrames' PROVE AtBoundary' /\ Known'
    BY DEF Kept
  <2>1. WholeFrames /\ AtBoundary'
    BY <1>1, BoundaryKept DEF Kept, serverVars
  <2>2. KnownHere
    BY <2>1, KnownIs DEF Kept
  <2>3. (OnTheWay("logout") => OnTheWay("logout")') /\ (Stuck => Stuck')
    BY <1>1, <1>5, <1>6, <1>7 DEF OnTheWay, Stuck
  <2>4. KnownHere'
    BY <1>1, <1>4, <1>7, <2>2, <2>3 DEF KnownHere, serverVars
  <2> QED  BY <2>1, <2>4, TypeRecv, KnownIs
<1> QED  BY <1>8, <1>9, <1>10, <1>11, <1>12, <1>13, <1>14 DEF Agreed

\* The answer to the login the menu thread waits for.
LEMMA RecvAckAgrees ==
  ASSUME TypeOK, Agreed, Kept, Grows, Recv, Head(down) \in Ack
  PROVE  Agreed' /\ Kept'
<1>1. /\ down # <<>> /\ down' = Tail(down) /\ reader = "recv" /\ reader' = "post"
      /\ userIsLogin' = (Head(down) = "login_ok")
      /\ UNCHANGED <<main, acksem, aeskey>> /\ Local
  BY DEF Recv, Ack, Local
<1>2. /\ 1 \in DOMAIN down /\ down[1] = Head(down)
      /\ \A i \in DOMAIN down' :
             i \in Nat \ {0} /\ i + 1 \in DOMAIN down /\ down'[i] = down[i + 1]
  BY <1>1, TailIs
<1>3. ~NoAck /\ ~NoAckDown /\ main = "wait" /\ acksem = 0 /\ ~userIsLogin
  BY <1>1, <1>2 DEF NoAck, NoAckDown, Agreed, Answers, Menus
<1>4. NoAckDown'
  <2> SUFFICES ASSUME NEW i \in DOMAIN down', down'[i] \in Ack PROVE FALSE
    BY DEF NoAckDown
  <2>1. i + 1 = 1
    BY <1>2 DEF Agreed, Answers
  <2> QED  BY <1>2, <2>1
<1>5. /\ \A i \in DOMAIN stream : (Ahead(i)' <=> Ahead(i)) /\ OpOf(i)' = OpOf(i)
      /\ Current' = Current /\ (InSession' <=> InSession)
      /\ WholeFrames' => WholeFrames /\ AtBoundary' /\ KnownHere
  BY <1>1, LocalKeeps
<1>6. Welcome' <=> Welcome
  <2>1. Welcome' <=> Head(down) = "login_ok"
    BY <1>1, <1>4 DEF Welcome, NoAckDown, Ack
  <2>2. Welcome => Head(down) = "login_ok"
    <3> SUFFICES ASSUME NEW i \in DOMAIN down, down[i] = "login_ok"
                 PROVE  Head(down) = "login_ok"
      BY <1>3 DEF Welcome
    <3>1. i = 1
      BY <1>2 DEF Agreed, Answers, Ack
    <3> QED  BY <1>2, <3>1
  <2>3. Head(down) = "login_ok" => Welcome
    BY <1>2 DEF Welcome
  <2> QED  BY <2>1, <2>2, <2>3
<1>7. Menus'
  BY <1>1, <1>3 DEF Menus
<1>8. Answers'
  BY <1>1, <1>3, <1>4 DEF Answers, NoAckDown
<1>9. Keys'
  BY <1>1, <1>6 DEF Agreed, Keys, Local, serverVars
<1>10. LoginAhead'
  BY <1>1, <1>3, <1>5 DEF Agreed, LoginAhead, Local
<1>11. WelcomeIsReal'
  BY <1>1, <1>5, <1>6 DEF Agreed, WelcomeIsReal, Local, serverVars
<1>12. CommandsAhead'
  BY <1>1, <1>3, <1>5 DEF Agreed, CommandsAhead, Local
<1>13. Kept'
  <2> SUFFICES ASSUME WholeFrames' PROVE KnownHere'
    BY <1>5, TypeRecv, KnownIs DEF Kept
  <2>1. KnownHere /\ ~Stuck
    BY <1>3, <1>5 DEF Stuck
  <2>2. OnTheWay("logout") => OnTheWay("logout")'
    BY <1>1, <1>3, <1>5 DEF OnTheWay, Local
  <2> QED  BY <1>1, <1>5, <1>6, <2>1, <2>2 DEF KnownHere, Local, serverVars
<1> QED  BY <1>7, <1>8, <1>9, <1>10, <1>11, <1>12, <1>13 DEF Agreed

-----------------------------------------------------------------------------
\* The server's steps

\* What the server retrieves next begins with a head.
LEMMA HeadIsNext ==
  ASSUME TypeOK, WholeFrames, AtBoundary, retrieved < Len(stream)
  PROVE  /\ retrieved + 1 \in DOMAIN stream /\ stream[retrieved + 1][1] \in DOMAIN frames
         /\ stream[retrieved + 1][2] = 1
         /\ \A k \in 1 .. HeadSize + frames[stream[retrieved + 1][1]].size :
                retrieved + k <= Len(stream) =>
                    /\ retrieved + k \in DOMAIN stream
                    /\ stream[retrieved + k] = <<stream[retrieved + 1][1], k>>
<1> DEFINE i == retrieved + 1
           f == stream[i][1]
           p == stream[i][2]
           size == HeadSize + frames[f].size
<1>1. /\ i \in DOMAIN stream /\ f \in DOMAIN frames /\ p \in Nat \ {0} /\ p <= size
      /\ retrieved \in Nat /\ size \in Nat /\ Len(stream) \in Nat
      /\ DOMAIN stream = 1 .. Len(stream) /\ i = retrieved + 1
  BY Sequences
<1>2. \A k \in 1 .. size : i - p + k <= Len(stream) =>
          i - p + k > 0 /\ stream[i - p + k] = <<f, k>>
  BY <1>1, Zenon DEF WholeFrames
<1>3. p = 1
  <2> SUFFICES ASSUME p # 1 PROVE FALSE
    OBVIOUS
  <2> HIDE DEF i, p, f, size
  <2>1. p - 1 \in 1 .. size /\ i - p + (p - 1) = retrieved /\ p # size + 1
    BY <1>1
  <2>2. retrieved > 0 /\ stream[retrieved] = <<f, p - 1>>
    <3>1. i - p + (p - 1) <= Len(stream)
      BY <1>1, <2>1
    <3>2. i - p + (p - 1) > 0 /\ stream[i - p + (p - 1)] = <<f, p - 1>>
      BY <1>2, <2>1, <3>1, Zenon
    <3> QED  BY <2>1, <3>2
  <2>3. p - 1 = size
    BY <2>2 DEF AtBoundary, size
  <2> QED  BY <1>1, <2>1, <2>3
<1>4. \A k \in 1 .. size : i - p + k = retrieved + k
  BY <1>1, <1>3
<1>5. \A k \in 1 .. size : retrieved + k <= Len(stream) =>
          retrieved + k \in DOMAIN stream /\ stream[retrieved + k] = <<f, k>>
  <2> HIDE DEF i, p, f, size
  <2> SUFFICES ASSUME NEW k \in 1 .. size, retrieved + k <= Len(stream)
               PROVE  retrieved + k \in DOMAIN stream /\ stream[retrieved + k] = <<f, k>>
    OBVIOUS
  <2>1. i - p + k = retrieved + k
    BY <1>4, Zenon
  <2>2. retrieved + k > 0 /\ stream[retrieved + k] = <<f, k>>
    BY <1>2, <2>1, Zenon
  <2>3. retrieved + k \in DOMAIN stream
    BY <1>1, <2>2, SMT
  <2> QED  BY <2>2, <2>3
<1> QED  BY <1>1, <1>3, <1>5

\* The h bytes behind place m.
LEMMA PieceIs ==
  ASSUME TypeOK, NEW m \in Nat, NEW h \in Nat, m + h <= Len(stream)
  PROVE  /\ SubSeq(stream, m + 1, m + h) \in Seq(Place)
         /\ Len(SubSeq(stream, m + 1, m + h)) = h
         /\ \A k \in 1 .. h : SubSeq(stream, m + 1, m + h)[k] = stream[m + k]
<1> DEFINE a == m + 1
           b == m + h
<1>1. \A k \in a .. b : stream[k] \in Place
  BY Sequences
<1>2. /\ a \in Int /\ b \in Int
      /\ (IF a <= b THEN b - a + 1 ELSE 0) = h
      /\ 1 .. b - a + 1 = 1 .. h
      /\ \A k \in 1 .. h : a + k - 1 = m + k
  OBVIOUS
<1> HIDE DEF a, b
<1>3. /\ SubSeq(stream, a, b) \in Seq(Place)
      /\ Len(SubSeq(stream, a, b)) = IF a <= b THEN b - a + 1 ELSE 0
      /\ \A k \in 1 .. b - a + 1 : SubSeq(stream, a, b)[k] = stream[a + k - 1]
  BY <1>1, <1>2, SubSeqProperties
<1> QED  BY <1>2, <1>3 DEF a, b

\* peekInt32 reads the length of the frame that is next.
LEMMA PeekIs ==
  ASSUME TypeOK, WholeFrames, AtBoundary, ReadableBytes >= HeadSize, NEW n, PeekInt32(n)
  PROVE  retrieved < Len(stream) /\ n = frames[stream[retrieved + 1][1]].size
<1>1. /\ Len(stream) \in Nat /\ retrieved \in Nat /\ HeadSize \in Nat \ {0}
      /\ retrieved + HeadSize <= Len(stream)
  BY Sequences DEF ReadableBytes, TypeOK
<1>2. retrieved < Len(stream)
  BY <1>1
<1>3. CASE len # NoLen
  BY <1>2, <1>3 DEF PeekInt32, AtBoundary
<1>4. CASE len = NoLen
  <2> DEFINE head == SubSeq(stream, retrieved + 1, retrieved + HeadSize)
             f == stream[retrieved + 1][1]
  <2>2. /\ head \in Seq(Place) /\ Len(head) = HeadSize
        /\ \A k \in 1 .. HeadSize : head[k] = stream[retrieved + k]
    BY <1>1, PieceIs
  <2>3. \A k \in 1 .. HeadSize : head[k] = <<f, k>>
    <3>1. \A k \in 1 .. HeadSize : /\ k \in 1 .. HeadSize + frames[f].size
                                   /\ retrieved + k <= Len(stream)
      BY <1>1, <1>2, HeadIsNext, Sequences
    <3> QED  BY <1>2, <2>2, <3>1, HeadIsNext
  <2>4. head[1][1] = f
    BY <1>1, <2>3
  <2>5. head = Bytes(f, 1, HeadSize)
    <3>1. head = [k \in 1 .. HeadSize |-> head[k]]
      BY <2>2, SMTT(60)
    <3>2. Bytes(f, 1, HeadSize) = [k \in 1 .. HeadSize |-> <<f, k>>]
      <4>1. HeadSize - 1 + 1 = HeadSize /\ \A k \in 1 .. HeadSize : 1 + k - 1 = k
        OBVIOUS
      <4> QED  BY <4>1 DEF Bytes
    <3> QED  BY <2>3, <3>1, <3>2
  <2>6. PeekInt32(n) <=> IF head = Bytes(head[1][1], 1, HeadSize)
                         THEN n = frames[head[1][1]].size ELSE n \in Int32
    BY <1>4 DEF PeekInt32
  <2> QED  BY <1>2, <2>4, <2>5, <2>6
<1> QED  BY <1>3, <1>4

LEMMA AnswerIs ==
  ASSUME TypeOK, NEW m \in Message, Answer(m), userIsLogin' = userIsLogin
  PROVE  /\ m \notin Ack => (NoAckDown' <=> NoAckDown)
         /\ (m \notin Ack /\ \A i, j \in DOMAIN down : down[i] \in Ack /\ down[j] \in Ack => i = j)
                \/ NoAckDown =>
            \A i, j \in DOMAIN down' : down'[i] \in Ack /\ down'[j] \in Ack => i = j
         /\ Welcome => Welcome'
         /\ m # "login_ok" => (Welcome' => Welcome)
         /\ m = "login_ok" /\ reader # "gone" => Welcome'
         /\ reader = "gone" => down' = down
<1>1. CASE reader = "gone"
  BY <1>1 DEF Answer, Welcome, NoAckDown
<1>2. CASE reader # "gone"
  <2> DEFINE l == Len(down) + 1
  <2>1. /\ DOMAIN down' = DOMAIN down \cup {l} /\ l \notin DOMAIN down
        /\ down'[l] = m /\ \A i \in DOMAIN down : down'[i] = down[i]
    <3>1. down \in Seq(Message) /\ Len(down) \in Nat
      BY DEF TypeOK
    <3>2. down' = Append(down, m)
      BY <1>2 DEF Answer
    <3>3. /\ down' \in Seq(Message) /\ Len(down') = l /\ down'[l] = m
          /\ \A i \in 1 .. Len(down) : down'[i] = down[i]
      BY <3>1, <3>2, AppendProperties
    <3>4. DOMAIN down = 1 .. Len(down) /\ DOMAIN down' = 1 .. Len(down')
      BY <3>1, <3>3
    <3> QED  BY <3>1, <3>3, <3>4
  <2> HIDE DEF l
  <2> QED  BY <1>2, <2>1 DEF Welcome, NoAckDown, Ack
<1> QED  BY <1>1, <1>2

\* Steps of the server that retrieve nothing.
LEMMA ServerAgrees ==
  ASSUME TypeOK, Agreed, Kept, Grows,
         Receive \/ Break \/ Push \/ NegativeLength \/ Close \/ ServerDown
             \/ RivalLogin \/ RivalLogout
  PROVE  Agreed' /\ Kept'
<1>1. /\ UNCHANGED <<clientVars, retrieved>> /\ Current' = Current
      /\ \/ UNCHANGED <<session, hasKey>> /\ (server' = "down" <=> server = "down")
         \/ server' = "down" /\ hasKey' = FALSE /\ session' = FALSE
      /\ down' = down \/ Answer("note")
  BY DEF Receive, Break, Push, NegativeLength, Close, ServerDown, Down, RivalLogin, RivalLogout, serverVars, clientVars, Current
<1>2. /\ \A i \in DOMAIN stream : (Ahead(i)' <=> Ahead(i)) /\ OpOf(i)' = OpOf(i)
      /\ main' = main /\ reader' = reader /\ acksem' = acksem /\ userIsLogin' = userIsLogin
      /\ aeskey' = aeskey /\ stream' = stream /\ frames' = frames
      /\ InSession => InSession'
  BY <1>1 DEF clientVars, Ahead, OpOf, InSession
<1>3. /\ NoAckDown' <=> NoAckDown
      /\ \A i, j \in DOMAIN down' : down'[i] \in Ack /\ down'[j] \in Ack => i = j
      /\ Welcome' <=> Welcome
      /\ reader = "gone" => down' = down
  <2>1. CASE down' = down
    BY <1>2, <2>1 DEF NoAckDown, Welcome, Agreed, Answers
  <2>2. CASE Answer("note")
    BY <1>2, <2>2, AnswerIs DEF Message, Ack, Agreed, Answers
  <2> QED  BY <1>1, <2>1, <2>2
<1>4. NoAck' <=> NoAck
  BY <1>2, <1>3 DEF NoAck
<1>5. Menus'
  BY <1>1, <1>2, <1>3 DEF Agreed, Menus
<1>6. Answers'
  BY <1>2, <1>3, <1>4 DEF Agreed, Answers
<1>7. Keys'
  BY <1>1, <1>2, <1>3 DEF Agreed, Keys
<1>8. LoginAhead'
  BY <1>1, <1>2, <1>4 DEF Agreed, LoginAhead
<1>9. WelcomeIsReal'
  BY <1>1, <1>2, <1>3 DEF Agreed, WelcomeIsReal
<1>10. CommandsAhead'
  BY <1>1, <1>2 DEF Agreed, CommandsAhead
<1>11. Kept'
  <2> SUFFICES ASSUME WholeFrames' PROVE AtBoundary' /\ Known'
    BY DEF Kept
  <2>1. WholeFrames
    BY <1>2 DEF WholeFrames
  <2>2. AtBoundary /\ KnownHere
    BY <2>1, KnownIs DEF Kept
  <2>3. AtBoundary'
    <3>1. CASE len' = len
      BY <1>1, <1>2, <2>2, <3>1 DEF AtBoundary
    <3>2. CASE len' # len
      <4>1. ReadableBytes >= HeadSize /\ PeekInt32(len')
        BY <3>2 DEF Receive, Break, Push, NegativeLength, Close, ServerDown, Down, RivalLogin, RivalLogout, serverVars
      <4> QED  BY <1>1, <1>2, <2>1, <2>2, <4>1, PeekIs DEF AtBoundary
    <3> QED  BY <3>1, <3>2
  <2>4. (OnTheWay("logout") <=> OnTheWay("logout")') /\ (Stuck <=> Stuck')
    BY <1>1, <1>2, <1>4 DEF OnTheWay, Stuck
  <2>5. KnownHere'
    BY <1>1, <1>2, <1>3, <2>2, <2>4 DEF KnownHere
  <2> QED  BY <2>3, <2>5, TypeServer, KnownIs DEF ServerStep
<1> QED  BY <1>5, <1>6, <1>7, <1>8, <1>9, <1>10, <1>11 DEF Agreed

\* The body of a frame.
LEMMA BytesIs ==
  ASSUME NEW f, NEW s \in Nat
  PROVE  Bytes(f, HeadSize + 1, HeadSize + s) = [k \in 1 .. s |-> <<f, HeadSize + k>>]
<1>1. /\ (HeadSize + s) - (HeadSize + 1) + 1 = s
      /\ \A k \in 1 .. s : HeadSize + 1 + k - 1 = HeadSize + k
  OBVIOUS
<1>2. Bytes(f, HeadSize + 1, HeadSize + s) =
          [k \in 1 .. (HeadSize + s) - (HeadSize + 1) + 1 |-> <<f, HeadSize + 1 + k - 1>>]
  BY DEF Bytes
<1> QED  BY <1>1, <1>2

\* A text that decrypts as frame f: all of f is behind the server when it has retrieved it.
LEMMA TakenIs ==
  ASSUME TypeOK, Ordered, NEW n \in Int32, Complete(n), n >= 0,
         retrieved' = retrieved + HeadSize + n, stream' = stream,
         NEW f, Decrypts(SubSeq(stream, retrieved + HeadSize + 1, retrieved + HeadSize + n), f)
  PROVE  /\ f \in DOMAIN frames
         /\ \E i \in DOMAIN stream :
                /\ Ahead(i) /\ stream[i] = <<f, HeadSize + 1>>
                /\ \A j \in DOMAIN stream : Ahead(j)' => i < j
         /\ \A i \in DOMAIN stream : Ahead(i)' => Ahead(i) /\ stream[i][1] # f
<1> DEFINE m == retrieved + HeadSize
           text == SubSeq(stream, m + 1, m + n)
<1>1. /\ f \in DOMAIN frames /\ frames[f].size \in Nat \ {0}
      /\ Len(stream) \in Nat /\ DOMAIN stream = 1 .. Len(stream)
      /\ retrieved \in Nat /\ n \in Nat /\ m \in Nat /\ m + n <= Len(stream)
      /\ retrieved' = m + n
  BY Sequences DEF Decrypts, Complete, ReadableBytes, TypeOK, Int32
<1>2. Len(text) = n /\ \A k \in 1 .. n : text[k] = stream[m + k]
  BY <1>1, PieceIs
<1>3. text = Bytes(f, HeadSize + 1, HeadSize + frames[f].size)
  BY DEF Decrypts
<1>4. n = frames[f].size /\ \A k \in 1 .. n : text[k] = <<f, HeadSize + k>>
  <2> DEFINE s == frames[f].size
  <2>1. text = [k \in 1 .. s |-> <<f, HeadSize + k>>]
    BY <1>1, <1>3, BytesIs
  <2>2. text \in Seq(Place)
    BY <1>1, PieceIs
  <2>3. DOMAIN text = 1 .. n /\ DOMAIN text = 1 .. s
    BY <1>2, <2>1, <2>2
  <2>4. n = s
    BY <1>1, <2>3
  <2> HIDE DEF s, text
  <2>5. \A k \in 1 .. n : text[k] = <<f, HeadSize + k>>
    BY <2>1, <2>4
  <2> QED  BY <2>4, <2>5 DEF s
<1> HIDE DEF text
<1> HIDE DEF m
<1>5. \A k \in 1 .. n : m + k \in DOMAIN stream /\ stream[m + k] = <<f, HeadSize + k>>
  <2> TAKE k \in 1 .. n
  <2>1. m + k \in 1 .. Len(stream)
    BY <1>1
  <2>2. text[k] = stream[m + k] /\ text[k] = <<f, HeadSize + k>>
    BY <1>2, <1>4
  <2> QED  BY <1>1, <2>1, <2>2
<1>6. m + 1 \in DOMAIN stream /\ stream[m + 1] = <<f, HeadSize + 1>>
  BY <1>1, <1>4, <1>5
<1>7. m + n \in DOMAIN stream /\ stream[m + n] = <<f, HeadSize + n>>
  BY <1>1, <1>4, <1>5
<1>8. Ahead(m + 1) /\ \A j \in DOMAIN stream : Ahead(j)' => m + 1 < j /\ m + n < j /\ Ahead(j)
  BY <1>1, <1>4, SMTT(60) DEF Ahead, m
<1>9. ASSUME NEW j \in DOMAIN stream, Ahead(j)' PROVE stream[j][1] # f
  <2> SUFFICES ASSUME stream[j][1] = f PROVE FALSE
    OBVIOUS
  <2>1. stream[m + n][1] = f /\ stream[m + n][2] = HeadSize + n /\ m + n < j
    BY <1>7, <1>8, <1>9
  <2>2. HeadSize + n < stream[j][2]
    BY <1>7, <2>1 DEF Ordered
  <2>3. stream[j][2] <= HeadSize + n /\ stream[j][2] \in Nat
    BY <1>4, Sequences
  <2> QED  BY <1>1, <2>2, <2>3
<1> QED  BY <1>1, <1>6, <1>8, <1>9

\* What the dispatch of a request means to the client and to what follows it.
LEMMA DispatchIs ==
  ASSUME TypeOK, Ordered, Sending, Agreed, NEW f \in DOMAIN frames, stream' = stream,
         IF hasKey THEN MsgAESDecrypt(f) ELSE RsaDecrypt(f),
         server = "loop",
         NEW i \in DOMAIN stream, Ahead(i), stream[i] = <<f, HeadSize + 1>>,
         \A j \in DOMAIN stream : Ahead(j)' => i < j /\ Ahead(j) /\ stream[j][1] # f
  PROVE  /\ frames[f].op = "aeskey" => aeskey
         /\ frames[f].op = "login" =>
                /\ main \in {"wait", "gone"} /\ NoAck /\ hasKey
                /\ \A j \in DOMAIN stream : Ahead(j)' => OpOf(j) = "aeskey"
         /\ frames[f].op = "other" => session
         /\ frames[f].op = "logout" =>
                /\ session /\ ~Welcome
                /\ ~(main \in {"head", "body"} /\ frames[Current].op \in {"other", "logout"})
                /\ \A j \in DOMAIN stream : Ahead(j)' => OpOf(j) \notin {"other", "logout"}

<1>1. OpOf(i) = frames[f].op /\ stream[i][1] = f /\ stream[i][2] = HeadSize + 1
  BY DEF OpOf
<1>2. frames[f].op = "aeskey" => aeskey
  BY DEF Agreed, Keys
<1>3. CASE frames[f].op = "login"
  <2>1. f = Current /\ main \in {"body", "wait", "gone"} /\ NoAck
    BY <1>1, <1>3 DEF Agreed, LoginAhead
  <2>2. main # "body"
    BY <1>1, <2>1 DEF Sending, SentSoFar, Current
  <2>3. hasKey
    BY <1>3 DEF RsaDecrypt, Agreed, Keys
  <2>4. \A j \in DOMAIN stream : Ahead(j)' => OpOf(j) = "aeskey"
    BY <1>1, <2>1 DEF Ordered
  <2> QED  BY <1>3, <2>1, <2>2, <2>3, <2>4
<1>4. frames[f].op \in {"other", "logout"} => session
  BY <1>1 DEF Agreed, CommandsAhead, InSession
<1>5. CASE frames[f].op = "logout"
  <2>1. ~Welcome
    BY <1>1, <1>5 DEF Agreed, WelcomeIsReal
  <2>2. ASSUME main \in {"head", "body"} PROVE frames[Current].op \notin {"other", "logout"}
    <3>1. frames[Current].op # "other"
      BY <2>1, <2>2 DEF Agreed, Menus, Welcome
    <3>2. ASSUME frames[Current].op = "logout" PROVE FALSE
      <4>1. f = Current
        BY <1>1, <1>5, <2>2, <3>2 DEF Agreed, CommandsAhead
      <4> QED  BY <1>1, <2>2, <4>1 DEF Sending, SentSoFar, Current
    <3> QED  BY <3>1, <3>2
  <2>3. \A j \in DOMAIN stream : Ahead(j)' => OpOf(j) \notin {"other", "logout"}
    BY <1>1, <1>5 DEF Agreed, CommandsAhead
  <2> QED  BY <1>4, <1>5, <2>1, <2>2, <2>3
<1> QED  BY <1>2, <1>3, <1>4, <1>5

\* What a round of the loop does, dispatched or dropped.
Round(f) ==
    /\ f \in DOMAIN frames
    /\ IF hasKey THEN MsgAESDecrypt(f) ELSE RsaDecrypt(f)
    /\ Handle(frames[f].op)
    /\ \E i \in DOMAIN stream :
           /\ Ahead(i) /\ stream[i] = <<f, HeadSize + 1>>
           /\ \A j \in DOMAIN stream : Ahead(j)' => i < j /\ Ahead(j) /\ stream[j][1] # f

LEMMA RoundIs ==
  ASSUME TypeOK, Ordered, TakeFrame
  PROVE  /\ UNCHANGED <<clientVars, got, server>> /\ server = "loop" /\ len' = NoLen
         /\ \A i \in DOMAIN stream : Ahead(i)' => Ahead(i)
         /\ (\E f : Round(f)) \/ UNCHANGED <<hasKey, session, entry, threw, down>>
<1>1. PICK n \in Int32 :
          /\ PeekInt32(n) /\ Complete(n) /\ n >= 0
          /\ Retrieve(n)
          /\ LET text == SubSeq(stream, retrieved + HeadSize + 1, retrieved + HeadSize + n)
             IN \/ \E f \in DOMAIN frames : Decrypts(text, f) /\ Handle(frames[f].op)
                \/ /\ ~\E f \in DOMAIN frames : Decrypts(text, f)
                   /\ UNCHANGED <<hasKey, session, entry, threw, down>>
  BY Zenon DEF TakeFrame
<1>2. /\ UNCHANGED <<clientVars, got, server>> /\ server = "loop"
      /\ stream' = stream /\ retrieved' = retrieved + HeadSize + n /\ len' = NoLen
  BY <1>1 DEF TakeFrame, Retrieve, clientVars
<1>3. \A i \in DOMAIN stream : Ahead(i)' => Ahead(i)
  BY <1>1, <1>2, Sequences DEF Ahead, Int32
<1>4. ASSUME NEW f \in DOMAIN frames, Handle(frames[f].op),
             Decrypts(SubSeq(stream, retrieved + HeadSize + 1, retrieved + HeadSize + n), f)
      PROVE  Round(f)
  <2>1. IF hasKey THEN MsgAESDecrypt(f) ELSE RsaDecrypt(f)
    BY <1>4 DEF Decrypts
  <2>2. \E i \in DOMAIN stream :
            /\ Ahead(i) /\ stream[i] = <<f, HeadSize + 1>>
            /\ \A j \in DOMAIN stream : Ahead(j)' => i < j /\ Ahead(j) /\ stream[j][1] # f
    BY <1>1, <1>2, <1>3, <1>4, TakenIs
  <2> QED  BY <1>4, <2>1, <2>2 DEF Round
<1> QED  BY <1>1, <1>2, <1>3, <1>4

LEMMA TakeAgrees ==
  ASSUME TypeOK, Ordered, Sending, Agreed, Grows, TakeFrame
  PROVE  Agreed'
<1>1. /\ UNCHANGED <<clientVars, got, server>> /\ server = "loop" /\ Current' = Current
      /\ main' = main /\ reader' = reader /\ acksem' = acksem /\ userIsLogin' = userIsLogin
      /\ aeskey' = aeskey /\ stream' = stream /\ frames' = frames
      /\ \A i \in DOMAIN stream : OpOf(i)' = OpOf(i) /\ (Ahead(i)' => Ahead(i))
  BY RoundIs DEF clientVars, Current, OpOf
<1>2. CASE UNCHANGED <<hasKey, session, down>>
  <2>1. /\ NoAckDown' <=> NoAckDown
        /\ NoAck' <=> NoAck
        /\ Welcome' <=> Welcome
        /\ InSession' <=> InSession
    BY <1>1, <1>2 DEF NoAckDown, NoAck, Welcome, InSession
  <2>2. Menus' /\ Answers' /\ Keys'
    BY <1>1, <1>2, <2>1 DEF Agreed, Menus, Answers, Keys
  <2>3. LoginAhead' /\ WelcomeIsReal' /\ CommandsAhead'
    BY <1>1, <1>2, <2>1 DEF Agreed, LoginAhead, WelcomeIsReal, CommandsAhead
  <2> QED  BY <2>2, <2>3 DEF Agreed
<1>3. ASSUME NEW f, Round(f) PROVE Agreed'
  <2>1. PICK i \in DOMAIN stream :
            /\ Ahead(i) /\ stream[i] = <<f, HeadSize + 1>>
            /\ \A j \in DOMAIN stream : Ahead(j)' => i < j /\ Ahead(j) /\ stream[j][1] # f
    BY <1>3 DEF Round
  <2>2. /\ frames[f].op = "aeskey" => aeskey
        /\ frames[f].op = "login" =>
               /\ main \in {"wait", "gone"} /\ NoAck /\ hasKey
               /\ \A j \in DOMAIN stream : Ahead(j)' => OpOf(j) = "aeskey"
        /\ frames[f].op = "other" => session
        /\ frames[f].op = "logout" =>
               /\ session /\ ~Welcome
               /\ ~(main \in {"head", "body"} /\ frames[Current].op \in {"other", "logout"})
               /\ \A j \in DOMAIN stream : Ahead(j)' => OpOf(j) \notin {"other", "logout"}
    BY <1>1, <1>3, <2>1, DispatchIs DEF Round
  <2>3. ASSUME NEW m \in Message, Answer(m)
        PROVE  /\ m \notin Ack => (NoAckDown' <=> NoAckDown)
               /\ m \notin Ack \/ NoAckDown =>
                      \A j, k \in DOMAIN down' : down'[j] \in Ack /\ down'[k] \in Ack => j = k
               /\ Welcome => Welcome'
               /\ m # "login_ok" => (Welcome' => Welcome)
               /\ reader = "gone" => down' = down
    BY <1>1, <2>3, AnswerIs DEF Agreed, Answers
  <2>4. \/ down' = down
        \/ \E m \in Message : Answer(m) /\ (m \in Ack => frames[f].op = "login")
    BY <1>3 DEF Round, Handle, Message, Ack
  <2>5. CASE frames[f].op # "login"
    <3>1. /\ NoAckDown' <=> NoAckDown
          /\ \A j, k \in DOMAIN down' : down'[j] \in Ack /\ down'[k] \in Ack => j = k
          /\ Welcome' <=> Welcome
          /\ reader = "gone" => down' = down
      <4>1. CASE down' = down
        BY <1>1, <4>1 DEF NoAckDown, Welcome, Agreed, Answers
      <4>2. CASE \E m \in Message : Answer(m) /\ m \notin Ack
        BY <2>3, <4>2, Zenon DEF Ack
      <4> QED  BY <2>4, <2>5, <4>1, <4>2
    <3>2. NoAck' <=> NoAck
      BY <1>1, <3>1 DEF NoAck
    <3>3. /\ session' = IF frames[f].op = "logout" THEN FALSE ELSE session
          /\ hasKey' = IF frames[f].op = "aeskey" THEN TRUE ELSE hasKey
      BY <1>3, <2>5, Sequences DEF Round, Handle, Op
    <3>4. Menus' /\ Answers'
      BY <1>1, <3>1, <3>2 DEF Agreed, Menus, Answers
    <3>5. Keys'
      BY <1>1, <2>2, <3>1, <3>3, TypeIs DEF Agreed, Keys, Typed
    <3>6. LoginAhead'
      BY <1>1, <3>2 DEF Agreed, LoginAhead
    <3>7. WelcomeIsReal'
      BY <1>1, <2>2, <3>1, <3>3 DEF Agreed, WelcomeIsReal
    <3>8. CommandsAhead'
      <4>1. CASE frames[f].op # "logout"
        <5>1. InSession' <=> InSession
          BY <1>1, <3>3, <4>1 DEF InSession
        <5> QED  BY <1>1, <5>1 DEF Agreed, CommandsAhead
      <4>2. CASE frames[f].op = "logout"
        BY <1>1, <2>2, <4>2 DEF CommandsAhead
      <4> QED  BY <4>1, <4>2
    <3> QED  BY <3>4, <3>5, <3>6, <3>7, <3>8 DEF Agreed
  <2>6. CASE frames[f].op = "login"
    <3>1. /\ \A j, k \in DOMAIN down' : down'[j] \in Ack /\ down'[k] \in Ack => j = k
          /\ reader = "gone" => down' = down
      <4>1. CASE down' = down
        BY <4>1 DEF Agreed, Answers
      <4>2. CASE \E m \in Message : Answer(m)
        BY <2>2, <2>3, <2>6, <4>2 DEF NoAck
      <4> QED  BY <2>4, <4>1, <4>2
    <3>2. /\ main \in {"wait", "gone"} /\ reader # "post" /\ acksem = 0
          /\ ~userIsLogin
      BY <2>2, <2>6 DEF NoAck, Agreed, Menus
    <3>3. main = "gone" => NoAckDown' /\ NoAck'
      BY <1>1, <2>2, <2>6, <3>1 DEF Agreed, Menus, NoAck, NoAckDown
    <3>4. hasKey' = hasKey /\ hasKey
      BY <1>3, <2>2, <2>6 DEF Round, Handle
    <3>5. Welcome' => session'
      <4>1. CASE session'
        BY <4>1
      <4>2. CASE ~session'
        <5>1. session' = session /\ Answer("login_failed")
          BY <1>3, <2>6, <4>2 DEF Round, Handle
        <5> QED  BY <1>1, <2>3, <4>2, <5>1 DEF Agreed, WelcomeIsReal, Message
      <4> QED  BY <4>1, <4>2
    <3>6. Menus'
      BY <1>1, <3>1, <3>2 DEF Agreed, Menus
    <3>7. Answers'
      BY <1>1, <3>1, <3>2, <3>3 DEF Answers
    <3>8. Keys'
      BY <1>1, <3>4 DEF Agreed, Keys
    <3>9. LoginAhead' /\ WelcomeIsReal' /\ CommandsAhead'
      BY <1>1, <2>2, <2>6, <3>2, <3>5 DEF LoginAhead, WelcomeIsReal, CommandsAhead
    <3> QED  BY <3>6, <3>7, <3>8, <3>9 DEF Agreed
  <2> QED  BY <2>5, <2>6
<1> QED  BY <1>2, <1>3, RoundIs

\* With whole frames a round takes exactly the next one, and dispatches it if it decrypts.
LEMMA WholeRound ==
  ASSUME TypeOK, Ordered, WholeFrames, AtBoundary, TakeFrame
  PROVE  /\ AtBoundary'
         /\ \E f \in DOMAIN frames :
                /\ retrieved + 1 \in DOMAIN stream /\ stream[retrieved + 1][1] = f
                /\ \A j \in DOMAIN stream : Ahead(j) => (Ahead(j)' <=> stream[j][1] # f)
                /\ \/ Round(f)
                   \/ /\ ~(IF hasKey THEN MsgAESDecrypt(f) ELSE RsaDecrypt(f))
                      /\ UNCHANGED <<hasKey, session, entry, threw, down>>
<1>1. PICK n \in Int32 :
          /\ PeekInt32(n) /\ Complete(n) /\ n >= 0
          /\ Retrieve(n)
          /\ LET text == SubSeq(stream, retrieved + HeadSize + 1, retrieved + HeadSize + n)
             IN \/ \E f \in DOMAIN frames : Decrypts(text, f) /\ Handle(frames[f].op)
                \/ /\ ~\E f \in DOMAIN frames : Decrypts(text, f)
                   /\ UNCHANGED <<hasKey, session, entry, threw, down>>
  BY Zenon DEF TakeFrame
<1> DEFINE m == retrieved + HeadSize
           text == SubSeq(stream, m + 1, m + n)
           f == stream[retrieved + 1][1]
<1>2. /\ stream' = stream /\ frames' = frames /\ retrieved' = m + n /\ len' = NoLen
      /\ ReadableBytes >= HeadSize
  BY <1>1 DEF TakeFrame, Retrieve, clientVars
<1>3. retrieved < Len(stream) /\ n = frames[f].size
  BY <1>1, <1>2, PeekIs
<1>4. /\ retrieved + 1 \in DOMAIN stream /\ f \in DOMAIN frames
      /\ \A k \in 1 .. HeadSize + n : retrieved + k <= Len(stream) =>
             retrieved + k \in DOMAIN stream /\ stream[retrieved + k] = <<f, k>>
  BY <1>3, HeadIsNext
<1>5. /\ n \in Nat \ {0} /\ retrieved \in Nat /\ m \in Nat /\ m + n <= Len(stream)
      /\ Len(stream) \in Nat /\ DOMAIN stream = 1 .. Len(stream) /\ HeadSize \in Nat \ {0}
  <2>1. /\ n \in Nat \ {0} /\ retrieved \in Nat /\ HeadSize \in Nat \ {0}
        /\ Len(stream) \in Nat /\ DOMAIN stream = 1 .. Len(stream)
    BY <1>3, <1>4, Sequences
  <2>2. got - retrieved >= HeadSize + n /\ got \in Nat /\ got <= Len(stream)
    BY <1>1, <2>1 DEF Complete, ReadableBytes, TypeOK
  <2> QED  BY <2>1, <2>2
<1> HIDE DEF f
<1>6. \A k \in 1 .. HeadSize + n :
          retrieved + k \in DOMAIN stream /\ stream[retrieved + k] = <<f, k>>
  BY <1>4, <1>5
<1>7. m + n \in DOMAIN stream /\ stream[m + n] = <<f, HeadSize + n>>
  <2>1. HeadSize + n \in 1 .. HeadSize + n /\ retrieved + (HeadSize + n) = m + n
    BY <1>5
  <2>2. /\ retrieved + (HeadSize + n) \in DOMAIN stream
        /\ stream[retrieved + (HeadSize + n)] = <<f, HeadSize + n>>
    BY <1>6, <2>1, Zenon
  <2> QED  BY <2>1, <2>2
<1>8. AtBoundary'
  BY <1>2, <1>3, <1>7 DEF AtBoundary
<1>9. ASSUME NEW j \in DOMAIN stream, Ahead(j) PROVE Ahead(j)' <=> stream[j][1] # f
  <2>1. CASE j <= m + n
    <3>1. j - retrieved \in 1 .. HeadSize + n /\ retrieved + (j - retrieved) = j
      BY <1>5, <1>9, <2>1 DEF Ahead
    <3>2. stream[retrieved + (j - retrieved)] = <<f, j - retrieved>>
      BY <1>6, <3>1, Zenon
    <3> QED  BY <1>2, <1>5, <2>1, <3>1, <3>2 DEF Ahead
  <2>2. CASE j > m + n
    <3>1. Ahead(j)'
      BY <1>2, <1>5, <1>9, <2>2 DEF Ahead
    <3>2. ASSUME stream[j][1] = f PROVE FALSE
      <4>1. HeadSize + n < stream[j][2]
        BY <1>7, <2>2, <3>2 DEF Ordered
      <4>2. stream[j][2] <= HeadSize + n /\ stream[j][2] \in Nat
        BY <1>3, <3>2, Sequences DEF f
      <4> QED  BY <1>5, <4>1, <4>2
    <3> QED  BY <3>1, <3>2
  <2> QED  BY <1>5, <2>1, <2>2
<1>10. text = Bytes(f, HeadSize + 1, HeadSize + n)
  <2>1. /\ text \in Seq(Place) /\ Len(text) = n
        /\ \A k \in 1 .. n : text[k] = stream[m + k]
    BY <1>5, PieceIs
  <2> HIDE DEF text
  <2>2. \A k \in 1 .. n : text[k] = <<f, HeadSize + k>>
    <3> TAKE k \in 1 .. n
    <3>1. HeadSize + k \in 1 .. HeadSize + n /\ retrieved + (HeadSize + k) = m + k
      BY <1>5
    <3>2. stream[retrieved + (HeadSize + k)] = <<f, HeadSize + k>>
      BY <1>6, <3>1, Zenon
    <3> QED  BY <2>1, <3>1, <3>2
  <2>3. text = [k \in 1 .. n |-> <<f, HeadSize + k>>]
    <3>1. text = [k \in 1 .. n |-> text[k]]
      BY <2>1
    <3> QED  BY <2>2, <3>1
  <2> QED  BY <1>5, <2>3, BytesIs
<1>11. ASSUME NEW g \in DOMAIN frames, Decrypts(text, g) PROVE g = f
  <2>1. PICK i \in DOMAIN stream : Ahead(i) /\ stream[i] = <<g, HeadSize + 1>> /\ ~Ahead(i)'
    <3>1. PICK i \in DOMAIN stream :
              /\ Ahead(i) /\ stream[i] = <<g, HeadSize + 1>>
              /\ \A j \in DOMAIN stream : Ahead(j)' => i < j
      BY <1>1, <1>2, <1>11, TakenIs
    <3>2. ~Ahead(i)'
      BY <1>5, <3>1
    <3> QED  BY <3>1, <3>2
  <2> QED  BY <1>9, <2>1
<1>12. (IF hasKey THEN MsgAESDecrypt(f) ELSE RsaDecrypt(f)) => Decrypts(text, f)
  BY <1>3, <1>4, <1>10 DEF Decrypts, f
<1>13. CASE \E g \in DOMAIN frames : Decrypts(text, g) /\ Handle(frames[g].op)
  <2>1. Decrypts(text, f) /\ Handle(frames[f].op)
    BY <1>11, <1>13
  <2>2. IF hasKey THEN MsgAESDecrypt(f) ELSE RsaDecrypt(f)
    BY <2>1 DEF Decrypts
  <2>3. \A j \in DOMAIN stream : Ahead(j)' => Ahead(j)
    BY RoundIs
  <2>4. PICK i \in DOMAIN stream :
            /\ Ahead(i) /\ stream[i] = <<f, HeadSize + 1>>
            /\ \A j \in DOMAIN stream : Ahead(j)' => i < j
    BY <1>1, <1>2, <2>1, TakenIs
  <2> QED  BY <1>4, <1>8, <1>9, <2>1, <2>2, <2>3, <2>4 DEF Round, f
<1>14. CASE /\ ~\E g \in DOMAIN frames : Decrypts(text, g)
            /\ UNCHANGED <<hasKey, session, entry, threw, down>>
  BY <1>4, <1>8, <1>9, <1>12, <1>14 DEF f
<1> QED  BY <1>1, <1>13, <1>14

LEMMA TakeKeeps ==
  ASSUME TypeOK, Ordered, Sending, Agreed, Kept, Grows, TakeFrame
  PROVE  Kept'
<1> SUFFICES ASSUME WholeFrames' PROVE AtBoundary' /\ KnownHere'
  BY TypeServer, KnownIs DEF Kept, ServerStep
<1>1. /\ UNCHANGED <<clientVars, got, server>> /\ server = "loop" /\ Current' = Current
      /\ main' = main /\ reader' = reader /\ acksem' = acksem /\ userIsLogin' = userIsLogin
      /\ stream' = stream /\ frames' = frames
      /\ \A i \in DOMAIN stream : OpOf(i)' = OpOf(i) /\ (Ahead(i)' => Ahead(i))
  BY RoundIs DEF clientVars, Current, OpOf
<1>2. WholeFrames
  BY <1>1 DEF WholeFrames
<1>3. AtBoundary /\ KnownHere
  BY <1>2, KnownIs DEF Kept
<1>4. AtBoundary'
  BY <1>2, <1>3, WholeRound
<1>5. PICK f \in DOMAIN frames :
          /\ retrieved + 1 \in DOMAIN stream /\ stream[retrieved + 1][1] = f
          /\ \A j \in DOMAIN stream : Ahead(j) => (Ahead(j)' <=> stream[j][1] # f)
          /\ \/ Round(f)
             \/ /\ ~(IF hasKey THEN MsgAESDecrypt(f) ELSE RsaDecrypt(f))
                /\ UNCHANGED <<hasKey, session, entry, threw, down>>
  BY <1>2, <1>3, WholeRound
<1>6. PICK next \in DOMAIN stream : Ahead(next) /\ stream[next][1] = f /\ OpOf(next) = frames[f].op
  BY <1>5, Sequences DEF Ahead, OpOf
<1>7. CASE frames[f].op = "logout"
  <2>1. session
    BY <1>1, <1>6, <1>7 DEF Agreed, CommandsAhead, InSession
  <2>2. IF hasKey THEN MsgAESDecrypt(f) ELSE RsaDecrypt(f)
    BY <1>5, <1>7, <2>1 DEF Agreed, Keys, MsgAESDecrypt
  <2>3. ~session'
    BY <1>5, <1>7, <2>2 DEF Round, Handle
  <2> QED  BY <1>4, <2>3 DEF KnownHere
<1>8. CASE frames[f].op # "logout"
  <2>1. OnTheWay("logout") => OnTheWay("logout")'
    BY <1>1, <1>5, <1>8 DEF OnTheWay, OpOf
  <2>2. CASE frames[f].op = "login"
    <3>1. \A j \in DOMAIN stream : Ahead(j)' => OpOf(j) # "login"
      BY <1>1, <1>5, <1>6, <2>2 DEF Agreed, LoginAhead
    <3>2. ~Stuck
      BY <1>6, <2>2 DEF Stuck
    <3>3. ASSUME session', main # "gone" PROVE Welcome' \/ OnTheWay("logout")' \/ Stuck'
      <4>1. CASE UNCHANGED <<session, down>>
        <5>1. Welcome => Welcome'
          BY <1>1, <4>1 DEF Welcome
        <5> QED  BY <1>3, <2>1, <3>2, <3>3, <4>1, <5>1 DEF KnownHere
      <4>2. CASE Answer("login_ok")
        BY <1>1, <3>3, <4>2, AnswerIs DEF Message, Agreed, Menus
      <4>3. CASE session' = session /\ Answer("login_failed")
        <5>1. Welcome => Welcome'
          BY <1>1, <4>3, AnswerIs DEF Message
        <5> QED  BY <1>3, <2>1, <3>2, <3>3, <4>3, <5>1 DEF KnownHere
      <4>4. CASE Round(f) /\ down' = down
        <5>1. PICK i \in DOMAIN stream :
                  /\ Ahead(i) /\ stream[i] = <<f, HeadSize + 1>>
                  /\ \A j \in DOMAIN stream : Ahead(j)' => i < j /\ Ahead(j) /\ stream[j][1] # f
          BY <4>4 DEF Round
        <5>2. main \in {"wait", "gone"} /\ NoAck
          BY <1>1, <2>2, <4>4, <5>1, DispatchIs DEF Round
        <5> QED  BY <1>1, <3>1, <3>3, <4>4, <5>2 DEF Stuck, NoAck, NoAckDown
      <4> QED  BY <1>5, <2>2, <4>1, <4>2, <4>3, <4>4 DEF Round, Handle
    <3> QED  BY <1>1, <1>4, <3>1, <3>3 DEF KnownHere
  <2>3. CASE frames[f].op # "login"
    <3>1. session' = session
      BY <1>5, <1>8, <2>3 DEF Round, Handle
    <3>2. (Welcome => Welcome') /\ (NoAck => NoAck')
      <4>1. CASE down' = down
        BY <1>1, <4>1 DEF Welcome, NoAck, NoAckDown
      <4>2. CASE \E m \in {"aes_ack", "note"} : Answer(m)
        BY <1>1, <4>2, AnswerIs DEF Message, Ack, NoAck
      <4> QED  BY <1>5, <1>8, <2>3, <4>1, <4>2 DEF Round, Handle
    <3>3. Stuck => Stuck'
      BY <1>1, <3>2 DEF Stuck
    <3>4. ASSUME NEW i \in DOMAIN stream, Ahead(i)', OpOf(i) = "login", session'
          PROVE  \E j \in DOMAIN stream : Ahead(j)' /\ j <= i /\ OpOf(j) = "logout"
      <4>1. PICK j \in DOMAIN stream : Ahead(j) /\ j <= i /\ OpOf(j) = "logout"
        BY <1>1, <1>3, <3>1, <3>4 DEF KnownHere
      <4> QED  BY <1>5, <1>8, <4>1 DEF OpOf
    <3> QED  BY <1>1, <1>3, <1>4, <2>1, <3>1, <3>2, <3>3, <3>4 DEF KnownHere
  <2> QED  BY <2>2, <2>3
<1> QED  BY <1>7, <1>8

LEMMA AgreedInit == Init => Agreed /\ Kept
<1> SUFFICES ASSUME Init PROVE Agreed /\ Kept
  OBVIOUS
<1>1. DOMAIN down = {1} /\ down[1] = "rsa" /\ DOMAIN frames = {} /\ DOMAIN stream = {}
  BY DEF Init
<1> QED
  BY <1>1
     DEF Init, Agreed, Menus, Answers, NoAck, NoAckDown, Ack, Welcome, Keys, LoginAhead,
         WelcomeIsReal, CommandsAhead, Kept, AtBoundary, Known, InSession

\* login enters the connection, unless an entry of another connection is kept; an entry
\* goes with its session, or with the logout of another connection.
LEMMA EnteredStep == Entered /\ [Next]_vars => Entered'
<1> SUFFICES ASSUME Entered, [Next]_vars PROVE Entered'
  OBVIOUS
<1>1. CASE UNCHANGED <<session, entry, rival>>
  BY <1>1 DEF Entered
<1>2. CASE UNCHANGED vars \/ ClientStep \/ Receive \/ Break \/ Push
  <2>1. UNCHANGED <<session, entry, rival>>
    BY <1>2 DEF vars, serverVars, ClientStep, MenuRequest, MainHead, MainBody, SemWait, Quit,
                Recv, RecvFails, ReaderHead, ReaderBody, SemPost, ClientGone, Receive, Break, Push
  <2> QED  BY <1>1, <2>1
<1>3. CASE TakeFrame
  <2>1. rival' = rival /\ (UNCHANGED <<session, entry>> \/ \E op : Handle(op))
    BY <1>3 DEF TakeFrame
  <2>2. ASSUME NEW op, Handle(op) PROVE Entered'
    BY <2>1, <2>2 DEF Handle, Insert, Entered
  <2> QED  BY <1>1, <2>1, <2>2
<1>4. CASE NegativeLength \/ Close \/ ServerDown
  BY <1>4 DEF NegativeLength, Close, ServerDown, Down, Entered
<1>5. CASE RivalLogin \/ RivalLogout
  BY <1>5 DEF RivalLogin, RivalLogout, Entered
<1> QED  BY <1>2, <1>3, <1>4, <1>5 DEF Next, ServerStep

LEMMA LinkStep == LinkInv /\ [Next]_vars => LinkInv'
<1> SUFFICES ASSUME TypeOK, Ordered, Sending, Agreed, Kept, [Next]_vars
             PROVE  Agreed' /\ Kept'
  BY TypeStep, OrderStep, EnteredStep DEF LinkInv, Agreed, Kept
<1>1. Grows
  BY GrowsStep
<1>2. CASE UNCHANGED vars
  <2>1. Agreed'
    BY <1>2
       DEF vars, clientVars, serverVars, Agreed, Menus, Answers, NoAck, NoAckDown, Welcome, Keys,
           LoginAhead, WelcomeIsReal, CommandsAhead, InSession, Ahead, OpOf, Current
  <2>2. Kept'
    BY <1>2
       DEF vars, clientVars, serverVars, Kept, WholeFrames, AtBoundary, Known, Welcome, Unread,
           Stuck, NoAck, NoAckDown, Ahead, OpOf
  <2> QED  BY <2>1, <2>2
<1>3. ASSUME NEW op \in Op, MenuRequest(op) PROVE Agreed' /\ Kept'
  BY <1>1, <1>3, MenuAgrees
<1>4. CASE MainHead \/ MainBody
  BY <1>1, <1>4, MainAgrees
<1>5. CASE SemWait \/ SemPost
  BY <1>1, <1>5, SemAgrees
<1>6. CASE Quit \/ RecvFails
  BY <1>1, <1>6, GoneAgrees DEF Quit, RecvFails
<1>7. CASE Recv
  BY <1>1, <1>7, RecvOtherAgrees, RecvAckAgrees
<1>8. CASE ReaderHead \/ ReaderBody
  BY <1>1, <1>8, ReaderAgrees
<1>9. CASE TakeFrame
  BY <1>1, <1>9, TakeAgrees, TakeKeeps
<1>10. CASE \/ Receive \/ Break \/ Push \/ NegativeLength \/ Close \/ ServerDown
             \/ RivalLogin \/ RivalLogout
  BY <1>1, <1>10, ServerAgrees
<1> QED
  BY <1>2, <1>3, <1>4, <1>5, <1>6, <1>7, <1>8, <1>9, <1>10 DEF Next, ClientStep, ServerStep

\* The inductive invariant: what the server has still to read, the answers on their way and the
\* menu agree on who is logged in.
THEOREM LinkInvariant == Spec => []LinkInv
<1>1. Init => LinkInv
  BY TypeInit, OrderStarts, AgreedInit DEF LinkInv, Agreed, Kept, Entered, Init
<1> QED  BY <1>1, LinkStep, PTL DEF Spec

-----------------------------------------------------------------------------
\* The properties

\* As long as the frames are whole, the buffer of ServerMessFunc always begins with a head,
\* wherever TCP cuts the stream and however long the frames are.
THEOREM LinkAligned == Spec => []Aligned
<1>1. LinkInv => Aligned
  BY HeadIsNext, Sequences DEF LinkInv, Aligned
<1> QED  BY <1>1, LinkInvariant, PTL

LEMMA AcksCounted ==
  ASSUME TypeOK, Answers, Menus
  PROVE  AckIsAwaited
<1> DEFINE acks == {i \in DOMAIN down : down[i] \in Ack}
<1>1. Cardinality(acks) \in {0, 1} /\ (NoAckDown => Cardinality(acks) = 0)
  <2>1. CASE acks = {}
    BY <2>1, FS_EmptySet
  <2>2. CASE acks # {}
    <3>1. PICK i \in acks : TRUE
      BY <2>2
    <3>2. acks = {i}
      BY <3>1 DEF Answers
    <3>3. Cardinality({i}) = 1
      BY FS_Singleton
    <3> QED  BY <2>2, <3>2, <3>3 DEF NoAckDown
  <2> QED  BY <2>1, <2>2
<1>2. AcksUnderway = acksem + (IF reader = "post" THEN 1 ELSE 0) + Cardinality(acks)
  BY DEF AcksUnderway
<1> HIDE DEF acks
<1>3. AcksUnderway \in {0, 1}
  <2>1. CASE reader = "post"
    BY <1>1, <1>2, <2>1 DEF Answers
  <2>2. CASE reader # "post"
    BY <1>1, <1>2, <2>2 DEF Answers
  <2> QED  BY <2>1, <2>2
<1>4. NoAck => AcksUnderway = 0
  BY <1>1, <1>2 DEF NoAck
<1> QED  BY <1>3, <1>4 DEF AckIsAwaited, Answers

\* sem_wait is only released by the answer to the login that waits: there is never a second
\* answer on its way, nor one that nobody waits for.
THEOREM LinkAckIsAwaited == Spec => []AckIsAwaited
<1>1. LinkInv => AckIsAwaited
  BY AcksCounted DEF LinkInv
<1> QED  BY <1>1, LinkInvariant, PTL

\* A client that takes itself for logged in has its session as long as the server lives, and
\* its entry in userConnMap_ as long as no other connection has a session of the same user.
THEOREM LinkLoggedInIsReal == Spec => []LoggedInIsReal
<1>1. LinkInv => LoggedInIsReal
  BY DEF LinkInv, WelcomeIsReal, Welcome, Entered, LoggedInIsReal
<1> QED  BY <1>1, LinkInvariant, PTL

\* A session whose user is back in the first menu is about to be closed: its logout has not
\* been read yet.
THEOREM LinkSessionIsKnown == Spec => []SessionIsKnown
<1>1. LinkInv => SessionIsKnown
  <2> SUFFICES ASSUME LinkInv, WholeFrames, session, main = "menu" PROVE Unread("logout")
    BY DEF SessionIsKnown
  <2>1. ~Welcome /\ ~Stuck
    BY DEF LinkInv, Menus, Answers, Welcome, NoAck, NoAckDown, Ack, Stuck
  <2> QED  BY <2>1 DEF LinkInv, Known
<1> QED  BY <1>1, LinkInvariant, PTL

LEMMA DispatchRespectsMenu ==
  ASSUME LinkInv, [Next]_vars, WholeFrames
  PROVE  /\ Dispatched("login") => ~session
         /\ Dispatched("other") \/ Dispatched("logout") => session
<1> SUFFICES ASSUME NEW op \in {"login", "other", "logout"}, Dispatched(op)
             PROVE  (op = "login" => ~session) /\ (op # "login" => session)
  OBVIOUS
<1>1. TypeOK /\ Ordered /\ CommandsAhead /\ AtBoundary /\ KnownHere
  BY KnownIs DEF LinkInv
<1>2. TakeFrame
  BY DEF Dispatched, vars, clientVars, serverVars, Next, ClientStep, ServerStep, Receive, Break,
         NegativeLength, Push, Close, ServerDown, Down, RivalLogin, RivalLogout, MenuRequest, MainHead, MainBody, SemWait, Quit,
         Recv, RecvFails, ReaderHead, ReaderBody, SemPost, ClientGone
<1>3. PICK n \in Int32 : /\ Complete(n) /\ n >= 0
                         /\ retrieved' = retrieved + HeadSize + n /\ stream' = stream
                         /\ server = "loop"
  BY <1>2 DEF TakeFrame, Retrieve, clientVars
<1>4. PICK f \in DOMAIN frames :
          /\ frames[f].op = op
          /\ Decrypts(SubSeq(stream, retrieved + HeadSize + 1, retrieved + HeadSize + n), f)
  BY <1>3 DEF Dispatched
<1>5. PICK i \in DOMAIN stream :
          /\ Ahead(i) /\ stream[i] = <<f, HeadSize + 1>>
          /\ \A j \in DOMAIN stream : Ahead(j)' => i < j
  BY <1>1, <1>3, <1>4, TakenIs
<1>6. OpOf(i) = op /\ stream[i][1] = f
  BY <1>4, <1>5 DEF OpOf
<1>7. op # "login" => session
  BY <1>1, <1>3, <1>5, <1>6 DEF CommandsAhead, InSession
<1>8. ASSUME op = "login", session PROVE FALSE
  <2>1. i \in Nat /\ retrieved \in Nat
    BY <1>1, Sequences
  <2>2. ~Ahead(i)'
    BY <1>5, <2>1
  <2>3. retrieved + 1 \in DOMAIN stream /\ stream[retrieved + 1][1] = f
    BY <1>1, <1>2, <1>5, <1>6, <2>2, WholeRound
  <2>4. Ahead(retrieved + 1) /\ OpOf(retrieved + 1) = "login"
    BY <1>1, <1>4, <1>8, <2>1, <2>3, Sequences DEF Ahead, OpOf
  <2>5. PICK j \in DOMAIN stream : Ahead(j) /\ j <= retrieved + 1 /\ OpOf(j) = "logout"
    BY <1>1, <1>8, <2>3, <2>4 DEF KnownHere
  <2>6. j = retrieved + 1
    BY <1>1, <2>1, <2>5, Sequences DEF Ahead
  <2> QED  BY <2>4, <2>5, <2>6
<1> QED  BY <1>7, <1>8

\* What the dispatcher gets is what the menus allow: no login on a connection with a session,
\* no chat command and no logout on one without.
THEOREM LinkMenuRespected == Spec => MenuRespected
<1>1. LinkInv /\ [Next]_vars =>
          [WholeFrames => /\ Dispatched("login") => ~session
                          /\ Dispatched("other") \/ Dispatched("logout") => session]_vars
  BY DispatchRespectsMenu
<1> QED  BY <1>1, LinkInvariant, PTL DEF Spec, MenuRespected
=============================================================================
