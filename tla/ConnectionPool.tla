--------------------------- MODULE ConnectionPool ---------------------------
(***************************************************************************)
(* The template ConnectionPool<T> of connectionpool.hpp: a queue of idle   *)
(* connections under connQueMutex_, handler threads that borrow and return *)
(* them, a producer thread, a monitor thread that closes idle connections, *)
(* and the destructor that ends both threads.                              *)
(*                                                                         *)
(* A critical section of connQueMutex_ is one step, except the loop of the *)
(* monitor, which is a step per round; Free says that the mutex can be     *)
(* taken.  What the code does without the mutex (connect, updateTime and   *)
(* the notification after a return) is a step of its own.  Time is         *)
(* abstracted to which connections are idle for longer than idleTime_; a   *)
(* wait may time out at any moment and may wake without a notification.    *)
(*                                                                         *)
(* A Handle is an address: `new T` yields one that is not in use, possibly *)
(* that of a connection deleted before.                                    *)
(***************************************************************************)
EXTENDS Naturals, Integers, Sequences, FiniteSets

CONSTANTS
    Thread,     \* threads that run handlers
    Handle,     \* addresses of connection objects
    NoHandle,
    MinSize,    \* minSize_
    MaxSize     \* maxSize_

ASSUME PoolAssumption ==
    /\ MinSize \in Nat
    /\ MaxSize \in Nat
    /\ NoHandle \notin Handle

VARIABLES
    connQue,    \* connQue_
    curSize,    \* curSize_
    isRunning,  \* isRunning_
    live,       \* the connection objects that exist
    stale,      \* those whose getIdleTime() exceeds idleTime_
    pc,         \* per thread: where it is in getConnection or in the deleter
    held,       \* per thread: the connection it borrowed or is returning
    producer,   \* where the producer thread is
    fresh,      \* the connection the producer is setting up, as a set
    monitor     \* where the monitor thread is

vars == <<connQue, curSize, isRunning, live, stale, pc, held, producer, fresh, monitor>>

Queued == {connQue[i] : i \in 1..Len(connQue)}

TypeOK ==
    /\ connQue \in Seq(Handle)
    /\ curSize \in Int
    /\ isRunning \in BOOLEAN
    /\ live \in SUBSET Handle
    /\ stale \in SUBSET Handle
    /\ pc \in [Thread -> {"idle", "waiting", "woken", "using", "returning", "notifying"}]
    /\ held \in [Thread -> Handle \cup {NoHandle}]
    /\ producer \in {"start", "waiting", "woken", "connecting", "done"}
    /\ fresh \in SUBSET Handle
    /\ monitor \in {"waiting", "sweeping", "done"}

\* init_pool: the first MinSize connections do not count in curSize_.
Init ==
    /\ connQue \in {q \in [1..MinSize -> Handle] :
                        \A i, j \in 1..MinSize : q[i] = q[j] => i = j}
    /\ curSize = 0
    /\ isRunning = TRUE
    /\ live = Queued
    /\ stale = {}
    /\ pc = [t \in Thread |-> "idle"]
    /\ held = [t \in Thread |-> NoHandle]
    /\ producer = "start"
    /\ fresh = {}
    /\ monitor = "waiting"

-----------------------------------------------------------------------------
\* The mutex and the condition variables

\* Nobody keeps connQueMutex_ between two steps but the monitor's loop.
Free == monitor # "sweeping"

\* cv_NotEmpty_.notify_all()
WakeThreads == [t \in Thread |-> IF pc[t] = "waiting" THEN "woken" ELSE pc[t]]

\* cv_NeedConn_.notify_all(): nothing is remembered when the producer does not wait.
WakeProducer == IF producer = "waiting" THEN "woken" ELSE producer

-----------------------------------------------------------------------------
\* getConnection
\* The queue holds a connection: borrow the one in front.
Take(t) ==
    /\ connQue # <<>>
    /\ connQue' = Tail(connQue)
    /\ held' = [held EXCEPT ![t] = Head(connQue)]
    /\ pc' = [pc EXCEPT ![t] = "using"]
    /\ UNCHANGED producer

\* It is empty: tell the producer and wait.
Wait(t) ==
    /\ connQue = <<>>
    /\ isRunning
    /\ pc' = [pc EXCEPT ![t] = "waiting"]
    /\ producer' = WakeProducer
    /\ UNCHANGED <<connQue, held>>

\* It is empty and the pool is shut down: nullptr.
GiveUp(t) ==
    /\ connQue = <<>>
    /\ ~isRunning
    /\ pc' = [pc EXCEPT ![t] = "idle"]
    /\ UNCHANGED <<connQue, held, producer>>

\* The first look at the queue, and the look after a wait that ended in time.
GetConnection(t) ==
    /\ Free
    /\ pc[t] \in {"idle", "woken"}
    /\ Take(t) \/ Wait(t) \/ GiveUp(t)
    /\ UNCHANGED <<curSize, isRunning, live, stale, fresh, monitor>>

\* wait_for timed out, or it was notified but timeout_ has passed since the
\* call: nullptr, even if a connection is in the queue by now.
Timeout(t) ==
    /\ Free
    /\ pc[t] \in {"waiting", "woken"}
    /\ pc' = [pc EXCEPT ![t] = "idle"]
    /\ UNCHANGED <<connQue, curSize, isRunning, live, stale, held, producer, fresh, monitor>>

SpuriousWakeup(t) ==
    /\ pc[t] = "waiting"
    /\ pc' = [pc EXCEPT ![t] = "woken"]
    /\ UNCHANGED <<connQue, curSize, isRunning, live, stale, held, producer, fresh, monitor>>

-----------------------------------------------------------------------------
\* The deleter of the shared_ptr: the connection is back in the queue before
\* its time is refreshed and before the waiters are told.

Push(t) ==
    /\ Free
    /\ pc[t] = "using"
    /\ pc' = [pc EXCEPT ![t] = "returning"]
    /\ connQue' = Append(connQue, held[t])
    /\ UNCHANGED <<curSize, isRunning, live, stale, held, producer, fresh, monitor>>

\* On a connection that the monitor has deleted since, this writes into freed
\* memory: without effect here, or on the object that now lives at the address.
UpdateTime(t) ==
    /\ pc[t] = "returning"
    /\ pc' = [pc EXCEPT ![t] = "notifying"]
    /\ stale' = stale \ {held[t]}
    /\ UNCHANGED <<connQue, curSize, isRunning, live, held, producer, fresh, monitor>>

NotifyAll(t) ==
    /\ pc[t] = "notifying"
    /\ pc' = [WakeThreads EXCEPT ![t] = "idle"]
    /\ held' = [held EXCEPT ![t] = NoHandle]
    /\ UNCHANGED <<connQue, curSize, isRunning, live, stale, producer, fresh, monitor>>

-----------------------------------------------------------------------------
\* produceConnection

ProducerWait ==
    /\ Free
    /\ producer = "start"
    /\ producer' = IF isRunning THEN "waiting" ELSE "done"
    /\ UNCHANGED <<connQue, curSize, isRunning, live, stale, pc, held, fresh, monitor>>

ProducerSpurious ==
    /\ producer = "waiting"
    /\ producer' = "woken"
    /\ UNCHANGED <<connQue, curSize, isRunning, live, stale, pc, held, fresh, monitor>>
\* Mutation of ProducerNew: one connection more than the limit.
ProducerNew_OffByOne ==
    /\ Free
    /\ producer = "woken"
    /\ curSize <= MaxSize
    /\ isRunning
    /\ producer' = "connecting"
    /\ \E h \in Handle \ live : live' = live \cup {h} /\ fresh' = {h}
    /\ UNCHANGED <<connQue, curSize, isRunning, stale, pc, held, monitor>>

\* Room for another connection: release the mutex and connect.  A new Redis
\* object has no time yet and counts as idle, a new MysqlConnection does not.
ProducerNew ==
    /\ Free
    /\ producer = "woken"
    /\ curSize < MaxSize
    /\ isRunning
    /\ producer' = "connecting"
    /\ \E h \in Handle \ live :
          /\ live' = live \cup {h}
          /\ fresh' = {h}
          /\ stale' \in {stale \cup {h}, stale \ {h}}
    /\ UNCHANGED <<connQue, curSize, isRunning, pc, held, monitor>>

ProducerSkip ==
    /\ Free
    /\ producer = "woken"
    /\ curSize >= MaxSize \/ ~isRunning
    /\ producer' = "start"
    /\ UNCHANGED <<connQue, curSize, isRunning, live, stale, pc, held, fresh, monitor>>
\* Mutation of ProducerPush: the waiting threads are not told.
ProducerPush_Silent ==
    /\ Free
    /\ producer = "connecting"
    /\ producer' = "start"
    /\ \E h \in fresh : connQue' = Append(connQue, h)
    /\ fresh' = {}
    /\ curSize' = curSize + 1
    /\ UNCHANGED <<isRunning, live, stale, pc, held, monitor>>

ProducerPush ==
    /\ Free
    /\ producer = "connecting"
    /\ producer' = "start"
    /\ \E h \in fresh : connQue' = Append(connQue, h)
    /\ fresh' = {}
    /\ curSize' = curSize + 1
    /\ pc' = WakeThreads
    /\ UNCHANGED <<isRunning, live, stale, held, monitor>>
\* Mutation of ProducerFail: the object is not deleted.
ProducerFail_Leaks ==
    /\ Free
    /\ producer = "connecting"
    /\ producer' = "start"
    /\ fresh' = {}
    /\ UNCHANGED <<connQue, curSize, isRunning, live, stale, pc, held, monitor>>

\* connect failed: the object is deleted, nobody is told.
ProducerFail ==
    /\ Free
    /\ producer = "connecting"
    /\ producer' = "start"
    /\ live' = live \ fresh
    /\ fresh' = {}
    /\ UNCHANGED <<connQue, curSize, isRunning, stale, pc, held, monitor>>

-----------------------------------------------------------------------------
\* monitorConnection

\* The deadline has passed.
MonitorWake ==
    /\ Free
    /\ monitor = "waiting"
    /\ isRunning
    /\ monitor' = "sweeping"
    /\ UNCHANGED <<connQue, curSize, isRunning, live, stale, pc, held, producer, fresh>>

CanClose == Len(connQue) > MinSize /\ isRunning /\ Head(connQue) \in stale
\* Mutation of MonitorClose: the counter is not decremented.
MonitorClose_NoCount ==
    /\ monitor = "sweeping"
    /\ CanClose
    /\ connQue' = Tail(connQue)
    /\ live' = live \ {Head(connQue)}
    /\ UNCHANGED <<curSize, isRunning, stale, pc, held, producer, fresh, monitor>>

MonitorClose ==
    /\ monitor = "sweeping"
    /\ CanClose
    /\ connQue' = Tail(connQue)
    /\ curSize' = curSize - 1
    /\ live' = live \ {Head(connQue)}
    /\ UNCHANGED <<isRunning, stale, pc, held, producer, fresh, monitor>>

MonitorRest ==
    /\ monitor = "sweeping"
    /\ ~CanClose
    /\ monitor' = "waiting"
    /\ UNCHANGED <<connQue, curSize, isRunning, live, stale, pc, held, producer, fresh>>

MonitorExit ==
    /\ Free
    /\ monitor = "waiting"
    /\ ~isRunning
    /\ monitor' = "done"
    /\ UNCHANGED <<connQue, curSize, isRunning, live, stale, pc, held, producer, fresh>>

-----------------------------------------------------------------------------
\* The destructor up to its joins, and the clock
\* Mutation of Shutdown: the threads are not woken.
Shutdown_Silent ==
    /\ Free
    /\ isRunning
    /\ isRunning' = FALSE
    /\ UNCHANGED <<connQue, curSize, live, stale, pc, held, producer, fresh, monitor>>

Shutdown ==
    /\ Free
    /\ isRunning
    /\ isRunning' = FALSE
    /\ pc' = WakeThreads
    /\ producer' = WakeProducer
    /\ UNCHANGED <<connQue, curSize, live, stale, held, fresh, monitor>>

\* idleTime_ passes since the last refresh of h.
Age(h) ==
    /\ h \in live \ stale
    /\ stale' = stale \cup {h}
    /\ UNCHANGED <<connQue, curSize, isRunning, live, pc, held, producer, fresh, monitor>>

-----------------------------------------------------------------------------

Borrower(t) ==
    \/ GetConnection(t)
    \/ Timeout(t)
    \/ SpuriousWakeup(t)
    \/ Push(t)
    \/ UpdateTime(t)
    \/ NotifyAll(t)

Producer ==
    \/ ProducerWait
    \/ ProducerSpurious
    \/ ProducerNew
    \/ ProducerSkip
    \/ ProducerPush
    \/ ProducerFail

Monitor == MonitorWake \/ MonitorClose \/ MonitorRest \/ MonitorExit

Next ==
    \/ \E t \in Thread : Borrower(t)
    \/ Producer
    \/ Monitor
    \/ Shutdown
    \/ \E h \in Handle : Age(h)

Spec == Init /\ [][Next]_vars

\* Both threads of the pool run: weak fairness for the monitor, which keeps
\* the mutex itself, strong fairness for the producer, which competes for it.  A
\* notification is not assumed to come, and a wait is not assumed to end by
\* itself.
FairSpec ==
    /\ Spec
    /\ SF_vars(ProducerWait \/ ProducerNew \/ ProducerSkip \/ ProducerPush \/ ProducerFail)
    /\ WF_vars(MonitorClose \/ MonitorRest)
    /\ SF_vars(MonitorExit)

-----------------------------------------------------------------------------
\* Properties

\* Every connection object is in exactly one place: in the queue once, with one
\* borrower, or with the producer; none is leaked by a failed connect, a
\* timeout or the end of the two threads, and none in use or in the queue has been deleted.
\* (The destructor itself, 70-82, joins the threads and deletes nothing: what is queued then
\* stays queued, here as there.)
Placed ==
    /\ \A i, j \in 1..Len(connQue) : connQue[i] = connQue[j] => i = j
    /\ \A t, u \in Thread :
          pc[t] = "using" /\ pc[u] = "using" /\ held[t] = held[u] => t = u
    /\ \A t \in Thread : pc[t] = "using" => held[t] \notin Queued \cup fresh
    /\ Queued \cap fresh = {}
    /\ live = Queued \cup fresh \cup {held[t] : t \in {u \in Thread : pc[u] = "using"}}
    /\ fresh = {} <=> producer # "connecting"

\* curSize_ counts what the producer added and the monitor took away, although
\* the two decide and act in different critical sections.
SizeAccounted == Cardinality(live \ fresh) = MinSize + curSize

\* The limit checked before the mutex is released for connect still holds
\* after it, and the monitor never brings the counter below zero.
SizeBounded == curSize \in 0..MaxSize

\* A connection in the queue and a thread asleep for want of one: then somebody
\* is still about to notify, so the thread need not run into its timeout.
NoMissedReturn ==
    \A t \in Thread :
        pc[t] = "waiting" /\ connQue # <<>>
            => \E u \in Thread : pc[u] \in {"returning", "notifying"}

\* What the three threads rely on, taken together: the inductive invariant behind the
\* properties above.  The connection the producer is setting up is one, and the
\* room it found before it released the mutex is still there.
PoolInv ==
    /\ TypeOK
    /\ Placed
    /\ IsFiniteSet(live) /\ SizeAccounted
    /\ SizeBounded
    /\ NoMissedReturn
    /\ fresh = {} \/ \E h \in Handle : fresh = {h}
    /\ producer = "connecting" => curSize < MaxSize

\* The joins in the destructor return: neither thread misses the end, whatever
\* it is doing when isRunning_ is cleared.
ShutdownJoins == ~isRunning ~> producer = "done" /\ monitor = "done"

-----------------------------------------------------------------------------
\* What the code and its documents say and the code does not do

\* The monitor reclaims idle connections (connectionpool.hpp:27): a connection that
\* a deleter is still working on is not one of them.
ReturnedIsLive == \A t \in Thread : pc[t] = "returning" => held[t] \in live
=============================================================================
