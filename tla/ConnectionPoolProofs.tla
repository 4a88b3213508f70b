------------------------ MODULE ConnectionPoolProofs ------------------------
(***************************************************************************)
(* Proofs that ConnectionPool keeps its invariants for any number of       *)
(* threads and connections and any MinSize and MaxSize, one and zero       *)
(* included.                                                               *)
(***************************************************************************)
EXTENDS ConnectionPool, FiniteSetTheorems, TLAPS

USE PoolAssumption

-----------------------------------------------------------------------------
\* Sequences without repetition

Items(q) == {q[i] : i \in 1..Len(q)}

Injective(q) == \A i, j \in 1..Len(q) : q[i] = q[j] => i = j

LEMMA ItemsAppend ==
  ASSUME NEW S, NEW q \in Seq(S), NEW x \in S
  PROVE  /\ Append(q, x) \in Seq(S)
         /\ Items(Append(q, x)) = Items(q) \cup {x}
         /\ Injective(q) /\ x \notin Items(q) => Injective(Append(q, x))
<1>1. /\ Append(q, x) \in Seq(S)
      /\ Len(Append(q, x)) = Len(q) + 1
      /\ \A i \in 1..Len(q) : Append(q, x)[i] = q[i]
      /\ Append(q, x)[Len(q) + 1] = x
  OBVIOUS
<1>2. 1..(Len(q) + 1) = (1..Len(q)) \cup {Len(q) + 1}
  OBVIOUS
<1> QED  BY <1>1, <1>2 DEF Items, Injective

LEMMA ItemsTail ==
  ASSUME NEW S, NEW q \in Seq(S), q # <<>>
  PROVE  /\ Tail(q) \in Seq(S)
         /\ Head(q) \in Items(q)
         /\ Items(q) \subseteq S
         /\ Injective(q) => Items(Tail(q)) = Items(q) \ {Head(q)} /\ Injective(Tail(q))
<1>1. /\ Tail(q) \in Seq(S)
      /\ Len(q) \in Nat \ {0}
      /\ Len(Tail(q)) = Len(q) - 1
      /\ \A i \in 1..(Len(q) - 1) : Tail(q)[i] = q[i + 1]
      /\ Head(q) = q[1]
      /\ \A i \in 1..Len(q) : q[i] \in S
  OBVIOUS
<1>2. ASSUME Injective(q) PROVE Injective(Tail(q))
  BY <1>1, <1>2 DEF Injective
<1>3. ASSUME Injective(q) PROVE Items(Tail(q)) \subseteq Items(q) \ {Head(q)}
  BY <1>1, <1>3 DEF Injective, Items
<1>4. ASSUME NEW x \in Items(q) \ {Head(q)} PROVE x \in Items(Tail(q))
  <2>1. PICK i \in 1..Len(q) : x = q[i] /\ i # 1
    BY <1>1, <1>4 DEF Items
  <2>2. i - 1 \in 1..(Len(q) - 1) /\ Tail(q)[i - 1] = x
    BY <1>1, <2>1
  <2> QED  BY <1>1, <2>2 DEF Items
<1> QED  BY <1>1, <1>2, <1>3, <1>4 DEF Items

LEMMA ItemsCount ==
  ASSUME NEW S, NEW q \in Seq(S), Injective(q)
  PROVE  IsFiniteSet(Items(q)) /\ Cardinality(Items(q)) = Len(q)
<1>1. Len(q) \in Nat /\ q \in [1..Len(q) -> S]
  OBVIOUS
<1>2. IsFiniteSet(1..Len(q)) /\ Cardinality(1..Len(q)) = Len(q)
  BY <1>1, FS_Interval
<1>3. q \in Bijection(1..Len(q), Items(q))
  BY <1>1 DEF Bijection, Injection, Surjection, Injective, Items, IsInjective
<1> QED  BY <1>2, <1>3, FS_Bijection DEF ExistsBijection

-----------------------------------------------------------------------------
\* Types

LEMMA TypeBorrower ==
  ASSUME TypeOK, Placed, NEW t \in Thread, Borrower(t) PROVE TypeOK'
<1> USE DEF TypeOK
<1>1. CASE GetConnection(t)
  <2>1. connQue' \in Seq(Handle) /\ held' \in [Thread -> Handle \cup {NoHandle}]
    <3>1. CASE Take(t)
      <4>1. Head(connQue) \in Handle /\ Tail(connQue) \in Seq(Handle)
        BY <3>1, ItemsTail DEF Take
      <4> QED  BY <3>1, <4>1 DEF Take
    <3> QED  BY <1>1, <3>1 DEF GetConnection, Wait, GiveUp
  <2>2. /\ pc' \in [Thread -> {"idle", "waiting", "woken", "using", "returning", "notifying"}]
        /\ producer' \in {"start", "waiting", "woken", "connecting", "done"}
    BY <1>1 DEF GetConnection, Take, Wait, GiveUp, WakeProducer
  <2> QED  BY <1>1, <2>1, <2>2 DEF GetConnection
<1>2. CASE Timeout(t)
  BY <1>2 DEF Timeout
<1>3. CASE SpuriousWakeup(t)
  BY <1>3 DEF SpuriousWakeup
<1>4. CASE Push(t)
  <2>1. held[t] \in Handle
    BY <1>4 DEF Push, Placed
  <2>2. connQue' \in Seq(Handle)
    BY <1>4, <2>1, ItemsAppend DEF Push
  <2> QED  BY <1>4, <2>2 DEF Push
<1>5. CASE UpdateTime(t)
  BY <1>5 DEF UpdateTime
<1>6. CASE NotifyAll(t)
  BY <1>6 DEF NotifyAll, WakeThreads
<1> QED  BY <1>1, <1>2, <1>3, <1>4, <1>5, <1>6 DEF Borrower

LEMMA TypeProducer ==
  ASSUME TypeOK, SizeBounded, Producer PROVE TypeOK'
<1> USE DEF TypeOK
<1>1. CASE ProducerWait
  BY <1>1 DEF ProducerWait
<1>2. CASE ProducerSpurious
  BY <1>2 DEF ProducerSpurious
<1>3. CASE ProducerNew
  BY <1>3 DEF ProducerNew
<1>4. CASE ProducerSkip
  BY <1>4 DEF ProducerSkip
<1>5. CASE ProducerPush
  <2>1. connQue' \in Seq(Handle)
    BY <1>5, ItemsAppend DEF ProducerPush
  <2> QED  BY <1>5, <2>1 DEF ProducerPush, WakeThreads
<1>6. CASE ProducerFail
  BY <1>6 DEF ProducerFail
<1> QED  BY <1>1, <1>2, <1>3, <1>4, <1>5, <1>6 DEF Producer

LEMMA TypeRest ==
  ASSUME TypeOK, Monitor \/ Shutdown \/ \E h \in Handle : Age(h) PROVE TypeOK'
<1> USE DEF TypeOK
<1>1. CASE MonitorWake \/ MonitorRest \/ MonitorExit
  BY <1>1 DEF MonitorWake, MonitorRest, MonitorExit
<1>2. CASE MonitorClose
  <2>1. connQue # <<>>
    BY <1>2 DEF MonitorClose, CanClose
  <2>2. connQue' \in Seq(Handle)
    BY <1>2, <2>1, ItemsTail DEF MonitorClose
  <2> QED  BY <1>2, <2>2 DEF MonitorClose
<1>3. CASE Shutdown
  BY <1>3 DEF Shutdown, WakeThreads, WakeProducer
<1>4. CASE \E h \in Handle : Age(h)
  BY <1>4 DEF Age
<1> QED  BY <1>1, <1>2, <1>3, <1>4 DEF Monitor

-----------------------------------------------------------------------------
\* The steps that move no connection

Still ==
    /\ UNCHANGED <<connQue, live, fresh, curSize>>
    /\ producer' = "connecting" <=> producer = "connecting"
    /\ \A t \in Thread :
          /\ pc'[t] = "using" <=> pc[t] = "using"
          /\ pc[t] = "using" => held'[t] = held[t]

LEMMA StillStep ==
  ASSUME PoolInv, TypeOK', NoMissedReturn', Still PROVE PoolInv'
<1>1. {held'[t] : t \in {u \in Thread : pc'[u] = "using"}} =
          {held[t] : t \in {u \in Thread : pc[u] = "using"}}
  BY DEF Still
<1>2. Placed'
  BY <1>1 DEF PoolInv, Placed, Queued, Still
<1> QED  BY <1>2 DEF PoolInv, SizeAccounted, SizeBounded, Still

LEMMA StillBorrower ==
  ASSUME PoolInv, NEW t \in Thread,
         \/ GetConnection(t) /\ (Wait(t) \/ GiveUp(t))
         \/ Timeout(t) \/ SpuriousWakeup(t) \/ UpdateTime(t) \/ NotifyAll(t)
  PROVE  PoolInv'
<1> USE DEF PoolInv, TypeOK
<1>1. TypeOK'
  BY TypeBorrower DEF Borrower
<1>2. CASE GetConnection(t) /\ (Wait(t) \/ GiveUp(t))
  <2>1. Still
    BY <1>2 DEF Still, GetConnection, Wait, GiveUp, WakeProducer
  <2>2. NoMissedReturn'
    BY <1>2, <2>1 DEF NoMissedReturn, Still, GetConnection, Wait, GiveUp
  <2> QED  BY <1>1, <2>1, <2>2, StillStep
<1>3. CASE Timeout(t)
  BY <1>1, <1>3, StillStep DEF Timeout, Still, NoMissedReturn
<1>4. CASE SpuriousWakeup(t)
  BY <1>1, <1>4, StillStep DEF SpuriousWakeup, Still, NoMissedReturn
<1>5. CASE UpdateTime(t)
  BY <1>1, <1>5, StillStep DEF UpdateTime, Still, NoMissedReturn
<1>6. CASE NotifyAll(t)
  BY <1>1, <1>6, StillStep DEF NotifyAll, WakeThreads, Still, NoMissedReturn
<1> QED  BY <1>2, <1>3, <1>4, <1>5, <1>6

LEMMA StillOther ==
  ASSUME PoolInv,
         \/ ProducerWait \/ ProducerSpurious \/ ProducerSkip
         \/ MonitorWake \/ MonitorRest \/ MonitorExit
         \/ Shutdown \/ \E h \in Handle : Age(h)
  PROVE  PoolInv'
<1> USE DEF PoolInv, TypeOK
<1>1. TypeOK'
  BY TypeProducer, TypeRest DEF Producer, Monitor
<1>2. CASE ProducerWait \/ ProducerSpurious \/ ProducerSkip
  BY <1>1, <1>2, StillStep
     DEF ProducerWait, ProducerSpurious, ProducerSkip, Still, NoMissedReturn
<1>3. CASE MonitorWake \/ MonitorRest \/ MonitorExit
  BY <1>1, <1>3, StillStep DEF MonitorWake, MonitorRest, MonitorExit, Still, NoMissedReturn
<1>4. CASE Shutdown
  BY <1>1, <1>4, StillStep DEF Shutdown, WakeThreads, WakeProducer, Still, NoMissedReturn
<1>5. CASE \E h \in Handle : Age(h)
  BY <1>1, <1>5, StillStep DEF Age, Still, NoMissedReturn
<1> QED  BY <1>2, <1>3, <1>4, <1>5

-----------------------------------------------------------------------------
\* The steps that move one

Borrowed == {held[t] : t \in {u \in Thread : pc[u] = "using"}}

\* Placed in the words of the lemmas about sequences.
PlacedItems ==
    /\ Injective(connQue)
    /\ \A t, u \in Thread :
          pc[t] = "using" /\ pc[u] = "using" /\ held[t] = held[u] => t = u
    /\ \A t \in Thread : pc[t] = "using" => held[t] \notin Items(connQue) \cup fresh
    /\ Items(connQue) \cap fresh = {}
    /\ live = Items(connQue) \cup fresh \cup Borrowed
    /\ fresh = {} <=> producer # "connecting"

LEMMA PlacedForm == (Placed <=> PlacedItems) /\ (Placed' <=> PlacedItems')
<1>1. Queued = Items(connQue) /\ Queued' = Items(connQue')
  BY DEF Queued, Items
<1> QED  BY <1>1 DEF Placed, PlacedItems, Injective, Borrowed

LEMMA TakeStep ==
  ASSUME PoolInv, NEW t \in Thread, GetConnection(t), Take(t) PROVE PoolInv'
<1> DEFINE h == Head(connQue)
<1> USE DEF PoolInv, TypeOK
<1>1. TypeOK'
  BY TypeBorrower DEF Borrower
<1>2. /\ Items(connQue') = Items(connQue) \ {h} /\ Injective(connQue')
      /\ h \in Items(connQue) /\ h \in Handle
  BY ItemsTail DEF Take, Placed, Injective
<1>3. /\ pc[t] # "using"
      /\ held' = [held EXCEPT ![t] = h] /\ pc' = [pc EXCEPT ![t] = "using"]
      /\ UNCHANGED <<live, fresh, producer, curSize>>
  BY DEF GetConnection, Take
<1>4. Borrowed' = Borrowed \cup {h}
  BY <1>3 DEF Borrowed
<1>5. PlacedItems'
  BY <1>2, <1>3, <1>4, PlacedForm DEF PlacedItems
<1>6. Placed'
  BY <1>5, PlacedForm
<1>7. NoMissedReturn'
  BY <1>3 DEF NoMissedReturn, GetConnection, Take
<1> QED  BY <1>1, <1>3, <1>6, <1>7 DEF SizeAccounted, SizeBounded

LEMMA PushStep ==
  ASSUME PoolInv, NEW t \in Thread, Push(t) PROVE PoolInv'
<1> DEFINE h == held[t]
<1> USE DEF PoolInv, TypeOK
<1>1. TypeOK'
  BY TypeBorrower DEF Borrower
<1>2. h \in Handle /\ h \notin Items(connQue) /\ h \notin fresh
  BY DEF Placed, Push, Queued, Items
<1>3. Items(connQue') = Items(connQue) \cup {h} /\ Injective(connQue')
  BY <1>2, ItemsAppend DEF Push, Placed, Injective
<1>4. pc[t] = "using" /\ pc' = [pc EXCEPT ![t] = "returning"]
      /\ UNCHANGED <<held, live, fresh, producer, curSize>>
  BY DEF Push
<1>5. Borrowed' = Borrowed \ {h} /\ h \in Borrowed
  BY <1>4 DEF Borrowed, Placed
<1>6. Placed'
  BY <1>2, <1>3, <1>4, <1>5, PlacedForm DEF PlacedItems
<1>7. NoMissedReturn'
  BY <1>4 DEF NoMissedReturn
<1> QED  BY <1>1, <1>4, <1>6, <1>7 DEF SizeAccounted, SizeBounded

LEMMA NewStep ==
  ASSUME PoolInv, ProducerNew PROVE PoolInv'
<1> USE DEF PoolInv, TypeOK
<1>1. TypeOK'
  BY TypeProducer DEF Producer
<1>2. PICK h \in Handle \ live : live' = live \cup {h} /\ fresh' = {h}
  BY DEF ProducerNew
<1>3. fresh = {} /\ UNCHANGED <<connQue, held, pc, curSize>> /\ producer' = "connecting"
      /\ curSize < MaxSize
  BY DEF ProducerNew, Placed
<1>4. Placed'
  BY <1>2, <1>3 DEF Placed, Queued
<1>5. IsFiniteSet(live') /\ live' \ fresh' = live \ fresh
  BY <1>2, <1>3, FS_AddElement
<1>6. NoMissedReturn'
  BY <1>3 DEF NoMissedReturn
<1> QED  BY <1>1, <1>2, <1>3, <1>4, <1>5, <1>6 DEF SizeAccounted, SizeBounded

LEMMA ProducerPushStep ==
  ASSUME PoolInv, ProducerPush PROVE PoolInv'
<1> USE DEF PoolInv, TypeOK
<1>1. TypeOK'
  BY TypeProducer DEF Producer
<1>2. PICK h \in Handle : fresh = {h} /\ connQue' = Append(connQue, h)
  BY DEF ProducerPush
<1>3. /\ fresh' = {} /\ curSize' = curSize + 1 /\ producer' = "start"
      /\ curSize < MaxSize
      /\ UNCHANGED <<held, live>> /\ pc' = WakeThreads
  BY DEF ProducerPush
<1>4. h \in live /\ h \notin Items(connQue) /\ \A t \in Thread : pc[t] = "using" => held[t] # h
  BY <1>2 DEF Placed, Items, Queued
<1>5. Items(connQue') = Items(connQue) \cup {h} /\ Injective(connQue')
  BY <1>2, <1>4, ItemsAppend DEF Placed, Injective
<1>6. \A t \in Thread : (pc'[t] = "using" <=> pc[t] = "using") /\ pc'[t] # "waiting"
  BY <1>3 DEF WakeThreads
<1>7. Borrowed' = Borrowed
  BY <1>3, <1>6 DEF Borrowed
<1>8. Placed'
  BY <1>2, <1>3, <1>4, <1>5, <1>6, <1>7 DEF Placed, Items, Queued, Injective, Borrowed
<1>9. SizeAccounted'
  <2>1. live' \ fresh' = (live \ fresh) \cup {h} /\ h \notin live \ fresh
    BY <1>2, <1>3, <1>4
  <2>2. IsFiniteSet(live \ fresh)
    BY <1>2, FS_RemoveElement
  <2>3. Cardinality((live \ fresh) \cup {h}) = Cardinality(live \ fresh) + 1
    BY <2>1, <2>2, FS_AddElement
  <2>4. Cardinality(live \ fresh) = MinSize + curSize
    BY DEF SizeAccounted
  <2>5. Cardinality(live' \ fresh') = Cardinality((live \ fresh) \cup {h})
    BY <2>1, Zenon
  <2> QED  BY <1>3, <2>3, <2>4, <2>5 DEF SizeAccounted
<1>10. SizeBounded' /\ NoMissedReturn'
  BY <1>3, <1>6 DEF SizeBounded, NoMissedReturn
<1> QED  BY <1>1, <1>3, <1>8, <1>9, <1>10

LEMMA FailStep ==
  ASSUME PoolInv, ProducerFail PROVE PoolInv'
<1> USE DEF PoolInv, TypeOK
<1>1. TypeOK'
  BY TypeProducer DEF Producer
<1>2. PICK h \in Handle : fresh = {h}
  BY DEF ProducerFail, Placed
<1>3. /\ fresh' = {} /\ live' = live \ {h} /\ producer' = "start"
      /\ UNCHANGED <<connQue, held, pc, curSize>>
  BY <1>2 DEF ProducerFail
<1>4. Placed'
  BY <1>2, <1>3 DEF Placed, Queued
<1>5. IsFiniteSet(live') /\ live' \ fresh' = live \ fresh
  BY <1>2, <1>3, FS_RemoveElement
<1>6. NoMissedReturn'
  BY <1>3 DEF NoMissedReturn
<1> QED  BY <1>1, <1>3, <1>4, <1>5, <1>6 DEF SizeAccounted, SizeBounded

\* The queue alone is longer than MinSize, so the counter is positive.
LEMMA CloseStep ==
  ASSUME PoolInv, MonitorClose PROVE PoolInv'
<1> DEFINE h == Head(connQue)
<1> USE DEF PoolInv, TypeOK
<1>1. TypeOK'
  BY TypeRest DEF Monitor
<1>2. /\ Len(connQue) > MinSize /\ connQue # <<>>
      /\ connQue' = Tail(connQue) /\ curSize' = curSize - 1 /\ live' = live \ {h}
      /\ UNCHANGED <<held, pc, fresh, producer>>
  BY DEF MonitorClose, CanClose
<1>3. /\ Items(connQue') = Items(connQue) \ {h} /\ Injective(connQue')
      /\ h \in Items(connQue)
  BY <1>2, ItemsTail DEF Placed, Injective
<1>4. h \in live \ fresh /\ \A t \in Thread : pc[t] = "using" => held[t] # h
  BY <1>3 DEF Placed, Items, Queued
<1>5. Placed'
  BY <1>2, <1>3, <1>4, PlacedForm DEF PlacedItems, Borrowed
<1>6. IsFiniteSet(live \ fresh) /\ IsFiniteSet(live')
  BY <1>2, FS_RemoveElement, FS_Subset
<1>7. SizeAccounted'
  <2>1. live' \ fresh' = (live \ fresh) \ {h}
    BY <1>2
  <2>2. Cardinality((live \ fresh) \ {h}) = Cardinality(live \ fresh) - 1
    BY <1>4, <1>6, FS_RemoveElement
  <2>3. Cardinality(live \ fresh) = MinSize + curSize
    BY DEF SizeAccounted
  <2>4. Cardinality(live' \ fresh') = Cardinality((live \ fresh) \ {h})
    BY <2>1, Zenon
  <2> QED  BY <1>2, <2>2, <2>3, <2>4 DEF SizeAccounted
<1>8. curSize > 0
  <2>1. Items(connQue) \subseteq live \ fresh
    BY DEF Placed, Items, Queued
  <2>2. Cardinality(Items(connQue)) = Len(connQue)
    BY ItemsCount DEF Placed, Injective
  <2>3. Cardinality(Items(connQue)) <= Cardinality(live \ fresh)
    BY <1>6, <2>1, FS_Subset
  <2>4. Len(connQue) \in Nat /\ Cardinality(live \ fresh) = MinSize + curSize
    BY DEF SizeAccounted
  <2> QED  BY <1>2, <2>2, <2>3, <2>4
<1>9. SizeBounded' /\ NoMissedReturn'
  BY <1>2, <1>8 DEF SizeBounded, NoMissedReturn
<1> QED  BY <1>1, <1>2, <1>5, <1>6, <1>7, <1>9

-----------------------------------------------------------------------------
\* The theorems

LEMMA PoolInit == Init => PoolInv
<1> SUFFICES ASSUME Init PROVE PoolInv
  OBVIOUS
<1>1. connQue \in [1..MinSize -> Handle] /\ MinSize \in Nat
  BY DEF Init
<1>2. connQue \in Seq(Handle) /\ Len(connQue) = MinSize
  BY <1>1
<1>3. TypeOK
  BY <1>2 DEF Init, TypeOK, Queued
<1>4. Injective(connQue)
  BY <1>2 DEF Init, Injective
<1>5. IsFiniteSet(Items(connQue)) /\ Cardinality(Items(connQue)) = MinSize
  BY <1>2, <1>4, ItemsCount
<1>6. live = Items(connQue) /\ live \ fresh = Items(connQue)
  BY DEF Init, Queued, Items
<1>7. Placed
  BY <1>4, <1>6, PlacedForm DEF Init, PlacedItems, Borrowed
<1>8. SizeAccounted
  <2>1. Cardinality(live \ fresh) = Cardinality(Items(connQue))
    BY <1>6, Zenon
  <2> QED  BY <1>5, <2>1 DEF SizeAccounted, Init
<1> QED  BY <1>3, <1>5, <1>6, <1>7, <1>8 DEF PoolInv, Init, SizeBounded, NoMissedReturn

LEMMA PoolStep == PoolInv /\ [Next]_vars => PoolInv'
<1> SUFFICES ASSUME PoolInv, [Next]_vars PROVE PoolInv'
  OBVIOUS
<1>1. ASSUME NEW t \in Thread, Borrower(t) PROVE PoolInv'
  BY <1>1, StillBorrower, TakeStep, PushStep DEF Borrower, GetConnection
<1>2. CASE Producer
  BY <1>2, StillOther, NewStep, ProducerPushStep, FailStep DEF Producer
<1>3. CASE Monitor
  BY <1>3, StillOther, CloseStep DEF Monitor
<1>4. CASE Shutdown \/ \E h \in Handle : Age(h)
  BY <1>4, StillOther
<1>5. CASE UNCHANGED vars
  <2>1. Still /\ TypeOK' /\ NoMissedReturn'
    BY <1>5 DEF vars, Still, PoolInv, TypeOK, NoMissedReturn
  <2> QED  BY <2>1, StillStep
<1> QED  BY <1>1, <1>2, <1>3, <1>4, <1>5 DEF Next

\* The pool keeps its inductive invariant.
THEOREM PoolInvariant == Spec => []PoolInv
  BY PoolInit, PoolStep, PTL DEF Spec

\* No connection is lost, shared or deleted while it is queued or borrowed,
\* whatever fails, times out or shuts down.
THEOREM NoConnectionLost == Spec => []Placed
  BY PoolInvariant, PTL DEF PoolInv

\* curSize_ is exact: the connections beyond the first MinSize that exist and are
\* set up.
THEOREM CounterIsExact == Spec => []SizeAccounted
  BY PoolInvariant, PTL DEF PoolInv

\* The check of the limit, made before the mutex is released for connect, cannot be
\* outrun; the monitor cannot take the counter below zero.
THEOREM CounterIsBounded == Spec => []SizeBounded
  BY PoolInvariant, PTL DEF PoolInv

\* A thread does not sleep next to a connection unless somebody is about to wake it.
THEOREM ReturnIsAnnounced == Spec => []NoMissedReturn
  BY PoolInvariant, PTL DEF PoolInv
=============================================================================
