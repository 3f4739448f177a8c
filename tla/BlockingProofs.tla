--------------------------- MODULE BlockingProofs ---------------------------
(***************************************************************************)
(* Nothing a thread of the gateway waits for is lost: mutexes of requests, *)
(* acknowledgements of broadcasts, the end of the poll thread and of the   *)
(* pool.  For every number of connections, threads and requests.           *)
(***************************************************************************)
EXTENDS RpcProofs, FiniteSetTheorems

(* The steps by the variables they leave alone.                            *)
Visits(c) == \/ Eof(c) \/ HandleLocal(c) \/ HandleGetevent(c) \/ HandlePooled(c)
             \/ CreateThreads(c) \/ Assign(c) \/ Check(c) \/ Flush(c) \/ Poll(c) \/ Timer(c)
Outside == \E c \in Conns : (\E r \in Requests : Send(c, r)) \/ HangUp(c) \/ Expire(c) \/ Accept(c)

LEMMA NextSplit ==
  [Next]_vars <=> \/ Select \/ EndIteration \/ (\E c \in Conns : Visits(c))
                  \/ (\E w \in Workers : Worker(w))
                  \/ MainThread \/ EventHandler \/ SignalExit \/ Outside \/ UNCHANGED vars
BY DEF Next, PollThread, Visits, Outside

\* A visit of the poll thread, a client or the clock concerns no waiting thread.
LEMMA VisitsFrame ==
  ASSUME NEW c \in Conns, Visits(c)
  PROVE  UNCHANGED <<locked, wpc, wreq, ctl, acks, mpc, state, pp, listener, stopped>>
BY DEF Visits, Eof, HandleLocal, HandleGetevent, HandlePooled, Receive, CreateThreads, Assign,
   Check, Flush, Poll, Timer, responseVars, pollVars, wakeVars, poolVars, mainVars

LEMMA OutsideFrame ==
  ASSUME Outside \/ SignalExit \/ UNCHANGED vars
  PROVE  UNCHANGED <<locked, wpc, wreq, ctl, acks, mpc, state, pp, listener, stopped,
                     jobs, work, threads>>
<1>1. CASE Outside
  BY <1>1 DEF Outside, Send, HangUp, Expire, Accept, responseVars, pollVars, wakeVars, poolVars,
     mainVars
<1>2. CASE SignalExit
  BY <1>2 DEF SignalExit, responseVars, pollVars, wakeVars, poolVars
<1>3. CASE UNCHANGED vars
  BY <1>3 DEF vars, responseVars, pollVars, wakeVars, poolVars, mainVars
<1> QED BY <1>1, <1>2, <1>3

\* The poll thread between its visits, and main.
LEMMA RoundFrame ==
  ASSUME Select \/ EndIteration
  PROVE  UNCHANGED <<locked, poolVars, mainVars>>
BY DEF Select, EndIteration, responseVars

LEMMA MainFrame ==
  ASSUME MainThread \/ EventHandler
  PROVE  UNCHANGED <<locked, wpc, wreq, jobs, threads, pp, listener>>
BY DEF MainThread, EventHandler, MainSend, MainAck, Shutdown, ShutdownAck, SetShuttingDown,
   CleanupThreadPool, JoinAll, Close, responseVars, pollVars, poolVars

LEMMA WorkerFrame ==
  ASSUME NEW w \in Workers, Worker(w)
  PROVE  UNCHANGED <<mainVars, pollVars, work, threads>>
BY DEF Worker, TakeJob, Begin, Return, Call, StoreResponse, WakeupChecked, WorkerSend, WorkerAck

-----------------------------------------------------------------------------
(***************************************************************************)
(* Mutexes                                                                 *)
(***************************************************************************)
Held    == \A q \in locked : \E w \in Workers : wpc[w] = "locked" /\ wreq[w] = q
Holding == \A w \in Workers : wpc[w] = "locked" => wreq[w] \in locked
Alone   == \A v, w \in Workers :
               wpc[v] = "locked" /\ wpc[w] = "locked" /\ wreq[v] = wreq[w] => v = w
MutexInv == Held /\ Holding /\ Alone

LEMMA MutexMeaning == TypeInv /\ MutexInv => MutexReleased
<1> SUFFICES ASSUME TypeInv, MutexInv, NEW q \in Reqs
    PROVE LET holders == {w \in Workers : wpc[w] = "locked" /\ wreq[w] = q}
          IN IF q \in locked THEN \E w \in holders : holders = {w} ELSE holders = {}
  BY DEF MutexReleased
<1> DEFINE holders == {w \in Workers : wpc[w] = "locked" /\ wreq[w] = q}
<1>1. CASE q \in locked
  <2>1. PICK w \in Workers : wpc[w] = "locked" /\ wreq[w] = q
    BY <1>1 DEF MutexInv, Held
  <2>2. ASSUME NEW v \in holders PROVE v = w
    BY <2>1 DEF MutexInv, Alone
  <2> QED BY <1>1, <2>1, <2>2
<1>2. CASE q \notin locked
  BY <1>2 DEF MutexInv, Holding
<1> QED BY <1>1, <1>2

\* A thread takes the free mutex of its request.
LEMMA MutexTaken ==
  ASSUME TypeInv, MutexInv, NEW w \in Workers, LockRequest(w), wpc[w] # "locked",
         wpc' = [wpc EXCEPT ![w] = "locked"], wreq' = wreq
  PROVE  MutexInv'
<1>0. wpc'[w] = "locked" /\ \A v \in Workers : v # w => wpc'[v] = wpc[v]
  BY TypeGroups DEF TypeInv, PoolOK
<1>1. locked' = locked \cup {wreq[w]} /\ wreq[w] \notin locked
  BY DEF LockRequest
<1>2. Held'
  BY <1>0, <1>1 DEF MutexInv, Held
<1>3. Holding'
  BY <1>0, <1>1 DEF MutexInv, Holding
<1>4. Alone'
  BY <1>0, <1>1 DEF MutexInv, Holding, Alone
<1> QED BY <1>2, <1>3, <1>4 DEF MutexInv

\* The holder of a mutex releases it.
LEMMA MutexReturned ==
  ASSUME TypeInv, MutexInv, NEW w \in Workers, wpc[w] = "locked", ReleaseRequest(w), wreq' = wreq,
         NEW there, there # "locked", wpc' = [wpc EXCEPT ![w] = there]
  PROVE  MutexInv'
<1>0. wpc'[w] # "locked" /\ \A v \in Workers : v # w => wpc'[v] = wpc[v]
  BY TypeGroups DEF TypeInv, PoolOK
<1>1. locked' = locked \ {wreq[w]}
  BY DEF ReleaseRequest
<1>2. Held'
  BY <1>0, <1>1 DEF MutexInv, Held
<1>3. Holding'
  BY <1>0, <1>1 DEF MutexInv, Holding, Alone
<1>4. Alone'
  BY <1>0, <1>1 DEF MutexInv, Alone
<1> QED BY <1>2, <1>3, <1>4 DEF MutexInv

\* The other steps of a thread.
LEMMA MutexElsewhere ==
  ASSUME TypeInv, MutexInv, NEW w \in Workers, wpc[w] # "locked", locked' = locked,
         NEW there, there # "locked", wpc' = [wpc EXCEPT ![w] = there],
         NEW r, wreq' = [wreq EXCEPT ![w] = r] \/ wreq' = wreq
  PROVE  MutexInv'
<1>0. wpc'[w] # "locked" /\ \A v \in Workers : v # w => wpc'[v] = wpc[v] /\ wreq'[v] = wreq[v]
  BY TypeGroups DEF TypeInv, PoolOK
<1>2. Held'
  BY <1>0 DEF MutexInv, Held
<1>3. Holding'
  BY <1>0 DEF MutexInv, Holding
<1>4. Alone'
  BY <1>0 DEF MutexInv, Alone
<1> QED BY <1>2, <1>3, <1>4 DEF MutexInv

LEMMA MutexNext == TypeInv /\ MutexInv /\ [Next]_vars => MutexInv'
<1> SUFFICES ASSUME TypeInv, MutexInv, [Next]_vars PROVE MutexInv'
  OBVIOUS
<1>0. CASE UNCHANGED <<locked, wpc, wreq>>
  BY <1>0 DEF MutexInv, Held, Holding, Alone
<1>1. ASSUME NEW w \in Workers, Worker(w) PROVE MutexInv'
  <2>1. CASE Begin(w)
    BY <2>1, MutexTaken DEF Begin, Step
  <2>2. CASE Return(w)
    BY <2>2, MutexTaken DEF Return, Step
  <2>3. CASE Call(w)
    BY <2>3, MutexReturned DEF Call, Step
  <2>4. CASE StoreResponse(w)
    BY <2>4, MutexReturned DEF StoreResponse, Step
  <2>5. CASE TakeJob(w)
    <3>1. PICK there \in {"calling", "begin"} : Step(w, "idle", there)
      BY <2>5 DEF TakeJob
    <3> QED BY <2>5, <3>1, MutexElsewhere DEF TakeJob, Step, responseVars
  <2>6. CASE WakeupChecked(w)
    <3>1. PICK there \in {"send", "idle"} : Step(w, "wakeup", there)
      BY <2>6 DEF WakeupChecked
    <3>2. wreq' = wreq \/ wreq' = [wreq EXCEPT ![w] = NoReq]
      BY <2>6 DEF WakeupChecked, EndJob
    <3> QED BY <2>6, <3>1, <3>2, MutexElsewhere DEF WakeupChecked, Step, responseVars
  <2>7. CASE WorkerSend(w)
    BY <2>7, MutexElsewhere DEF WorkerSend, Step, responseVars
  <2>8. CASE WorkerAck(w)
    BY <2>8, MutexElsewhere DEF WorkerAck, Step, EndJob, responseVars
  <2> QED BY <1>1, <2>1, <2>2, <2>3, <2>4, <2>5, <2>6, <2>7, <2>8 DEF Worker
<1>2. ASSUME NEW c \in Conns, Visits(c) PROVE MutexInv'
  BY <1>0, <1>2, VisitsFrame
<1>3. CASE Select \/ EndIteration
  BY <1>0, <1>3, RoundFrame DEF poolVars
<1>4. CASE MainThread \/ EventHandler
  BY <1>0, <1>4, MainFrame
<1>5. CASE Outside \/ SignalExit \/ UNCHANGED vars
  BY <1>0, <1>5, OutsideFrame
<1> QED BY <1>1, <1>2, <1>3, <1>4, <1>5, NextSplit

-----------------------------------------------------------------------------
(***************************************************************************)
(* Broadcasts                                                              *)
(***************************************************************************)
MainWaits == IF mpc \in {"ack", "closing"} THEN 1 ELSE 0

LEMMA WaitingFinite == IsFiniteSet(Waiting) /\ Cardinality(Waiting) \in Nat
<1>1. IsFiniteSet(Waiting)
  BY WorkersAssumption, FS_Subset DEF Waiting, WorkersAssumption
<1> QED BY <1>1, FS_CardinalityType

\* A message more in the socket, for a thread more that waits.
LEMMA SentCounted ==
  ASSUME TypeInv, EachAcknowledged, NEW msg \in {"wakeup", "shutdown"}, Broadcast(msg),
         acks' = acks, Cardinality(Waiting)' + MainWaits' = Cardinality(Waiting) + MainWaits + 1
  PROVE  EachAcknowledged'
<1>1. Len(ctl') = Len(ctl) + 1 /\ Len(ctl) \in Nat /\ acks \in Nat
  BY TypeGroups DEF TypeInv, WakeOK, Broadcast
<1> QED BY <1>1, WaitingFinite DEF EachAcknowledged, MainWaits

\* An acknowledgement less, and a thread less that waits.
LEMMA AckCounted ==
  ASSUME TypeInv, EachAcknowledged, Acknowledged, ctl' = ctl,
         Cardinality(Waiting)' + MainWaits' + 1 = Cardinality(Waiting) + MainWaits
  PROVE  EachAcknowledged'
<1>1. Len(ctl) \in Nat /\ acks \in Nat /\ acks' = acks - 1
  BY TypeGroups DEF TypeInv, WakeOK, Acknowledged
<1>2. Cardinality(Waiting)' \in Nat /\ MainWaits' \in Nat
  BY WaitingFinite, WorkersAssumption, FS_Subset, FS_CardinalityType
     DEF MainWaits, Waiting, WorkersAssumption
<1> QED BY <1>1, <1>2, WaitingFinite DEF EachAcknowledged, MainWaits

LEMMA AcknowledgedNext == TypeInv /\ EachAcknowledged /\ [Next]_vars => EachAcknowledged'
<1> SUFFICES ASSUME TypeInv, EachAcknowledged, [Next]_vars PROVE EachAcknowledged'
  OBVIOUS
<1>0. CASE UNCHANGED <<ctl, acks, wpc, mpc>>
  BY <1>0 DEF EachAcknowledged, Waiting
<1>1. ASSUME NEW w \in Workers, Worker(w) PROVE EachAcknowledged'
  <2>0. mpc' = mpc
    BY <1>1, WorkerFrame DEF mainVars
  <2>1. CASE WorkerSend(w)
    <3>1. w \notin Waiting /\ Waiting' = Waiting \cup {w}
      BY <2>1, TypeGroups DEF WorkerSend, Step, Waiting, TypeInv, PoolOK
    <3>2. Cardinality(Waiting') = Cardinality(Waiting) + 1
      BY <3>1, WaitingFinite, FS_AddElement
    <3>3. Broadcast("wakeup") /\ acks' = acks
      BY <2>1 DEF WorkerSend
    <3>4. MainWaits' = MainWaits /\ MainWaits \in Nat
      BY <2>0 DEF MainWaits
    <3> QED BY <3>2, <3>3, <3>4, WaitingFinite, SentCounted
  <2>2. CASE WorkerAck(w)
    <3>1. w \in Waiting /\ Waiting' = Waiting \ {w}
      BY <2>2, TypeGroups DEF WorkerAck, Step, Waiting, TypeInv, PoolOK
    <3>2. Cardinality(Waiting') = Cardinality(Waiting) - 1
      BY <3>1, WaitingFinite, FS_RemoveElement
    <3>3. Acknowledged /\ ctl' = ctl
      BY <2>2 DEF WorkerAck
    <3>4. MainWaits' = MainWaits /\ MainWaits \in Nat
      BY <2>0 DEF MainWaits
    <3> QED BY <3>2, <3>3, <3>4, WaitingFinite, AckCounted
  <2>3. CASE ~WorkerSend(w) /\ ~WorkerAck(w)
    <3>1. UNCHANGED wakeVars
      BY <1>1, <2>3 DEF Worker, TakeJob, Begin, Return, Call, StoreResponse, WakeupChecked
    <3>2. PICK here, there : here # "ack" /\ there # "ack" /\ Step(w, here, there)
      BY <1>1, <2>3 DEF Worker, TakeJob, Begin, Return, Call, StoreResponse, WakeupChecked
    <3>3. Waiting' = Waiting
      BY <3>2, TypeGroups DEF Step, Waiting, TypeInv, PoolOK
    <3> QED BY <2>0, <3>1, <3>3 DEF EachAcknowledged, wakeVars
  <2> QED BY <2>1, <2>2, <2>3
<1>2. ASSUME NEW c \in Conns, Visits(c) PROVE EachAcknowledged'
  BY <1>0, <1>2, VisitsFrame
<1>3. CASE Select
  <2>1. Waiting' = Waiting /\ mpc' = mpc
    BY <1>3, RoundFrame DEF poolVars, mainVars, Waiting
  <2>2. CASE ctl = <<>>
    BY <1>3, <2>1, <2>2 DEF Select, wakeVars, EachAcknowledged
  <2>3. CASE ctl # <<>>
    <3>1. ctl' = Tail(ctl) /\ acks' = acks + 1
      BY <1>3, <2>3 DEF Select
    <3>2. Len(ctl') = Len(ctl) - 1 /\ Len(ctl) \in Nat /\ acks \in Nat
      BY <2>3, <3>1, HeadAndTail, TypeGroups DEF TypeInv, WakeOK
    <3>3. Cardinality(Waiting)' = Cardinality(Waiting) /\ MainWaits' = MainWaits /\ MainWaits \in Nat
      BY <2>1 DEF MainWaits
    <3>4. Len(ctl) + acks = Cardinality(Waiting) + MainWaits
      BY DEF EachAcknowledged, MainWaits
    <3>5. Len(ctl') + acks' = Cardinality(Waiting)' + MainWaits'
      <4> DEFINE k == Cardinality(Waiting)
      <4> DEFINE m == MainWaits
      <4> HIDE DEF k, m
      <4>1. k \in Nat /\ m \in Nat /\ Len(ctl) + acks = k + m
        BY <3>3, <3>4, WaitingFinite DEF k, m
      <4>2. (Len(ctl) - 1) + (acks + 1) = k + m
        BY <3>2, <4>1
      <4>3. Cardinality(Waiting)' + MainWaits' = k + m
        BY <3>3 DEF k, m
      <4> QED BY <3>1, <3>2, <4>2, <4>3
    <3> QED BY <3>5 DEF EachAcknowledged, MainWaits
  <2> QED BY <2>2, <2>3
<1>4. CASE EndIteration
  BY <1>0, <1>4, RoundFrame DEF EndIteration, poolVars, mainVars, wakeVars
<1>5. CASE MainThread \/ EventHandler
  <2>0. Waiting' = Waiting
    BY <1>5, MainFrame DEF Waiting
  <2>1. CASE MainSend \/ Shutdown
    <3>1. /\ Broadcast("wakeup") \/ Broadcast("shutdown")
          /\ acks' = acks /\ MainWaits = 0 /\ MainWaits' = 1
      BY <2>1 DEF MainSend, Shutdown, MainStep, MainWaits
    <3> QED BY <2>0, <3>1, WaitingFinite, SentCounted
  <2>2. CASE MainAck \/ ShutdownAck
    <3>1. Acknowledged /\ ctl' = ctl /\ MainWaits = 1 /\ MainWaits' = 0
      BY <2>2 DEF MainAck, ShutdownAck, MainStep, MainWaits
    <3> QED BY <2>0, <3>1, WaitingFinite, AckCounted
  <2>3. CASE EventHandler \/ SetShuttingDown \/ CleanupThreadPool \/ JoinAll \/ Close
    <3>1. ctl' = ctl /\ acks' = acks /\ MainWaits' = MainWaits
      BY <2>3 DEF EventHandler, SetShuttingDown, CleanupThreadPool, JoinAll, Close, MainStep,
         MainWaits, wakeVars
    <3> QED BY <2>0, <3>1 DEF EachAcknowledged, MainWaits
  <2> QED BY <1>5, <2>1, <2>2, <2>3 DEF MainThread
<1>6. CASE Outside \/ SignalExit \/ UNCHANGED vars
  BY <1>0, <1>6, OutsideFrame
<1> QED BY <1>1, <1>2, <1>3, <1>4, <1>5, <1>6, NextSplit

-----------------------------------------------------------------------------
(***************************************************************************)
(* The end of the poll thread: the server runs as long as main has         *)
(* something to send, and the poll thread ends after that.                 *)
(***************************************************************************)
RunningInv == /\ mpc \in {"loop", "send", "ack", "closing", "shutdown"} => state = "Running"
              /\ pp = "gone" => state # "Running"

LEMMA RunningMeaning == RunningInv => MainServed
BY DEF RunningInv, MainServed

LEMMA RunningNext == RunningInv /\ [Next]_vars => RunningInv'
<1> SUFFICES ASSUME RunningInv, [Next]_vars PROVE RunningInv'
  OBVIOUS
<1>0. CASE UNCHANGED <<mpc, state, pp>>
  BY <1>0 DEF RunningInv
<1>1. ASSUME NEW w \in Workers, Worker(w) PROVE RunningInv'
  BY <1>0, <1>1, WorkerFrame DEF mainVars, pollVars
<1>2. ASSUME NEW c \in Conns, Visits(c) PROVE RunningInv'
  BY <1>0, <1>2, VisitsFrame
<1>3. CASE Select \/ EndIteration
  BY <1>3, RoundFrame DEF Select, EndIteration, mainVars, RunningInv
<1>4. CASE MainThread \/ EventHandler
  BY <1>4, MainFrame DEF MainThread, EventHandler, MainSend, MainAck, Shutdown, ShutdownAck,
     SetShuttingDown, CleanupThreadPool, JoinAll, Close, MainStep, RunningInv
<1>5. CASE Outside \/ SignalExit \/ UNCHANGED vars
  BY <1>0, <1>5, OutsideFrame
<1> QED BY <1>1, <1>2, <1>3, <1>4, <1>5, NextSplit

\* What is in the socket before the message at its head stays in it.
LEMMA ToldNext == TypeInv /\ PollThreadTold /\ [Next]_vars => PollThreadTold'
<1> SUFFICES ASSUME TypeInv, PollThreadTold, [Next]_vars PROVE PollThreadTold'
  OBVIOUS
<1> DEFINE told(s) == \E i \in 1..Len(s) : s[i] = "shutdown"
<1>a. ctl \in Seq({"wakeup", "shutdown"})
  BY TypeGroups DEF TypeInv, WakeOK
<1>b. ASSUME NEW msg PROVE /\ told(ctl) => told(Append(ctl, msg))
                           /\ msg = "shutdown" => told(Append(ctl, msg))
  <2>1. /\ Len(ctl) \in Nat /\ Len(Append(ctl, msg)) = Len(ctl) + 1
        /\ Append(ctl, msg)[Len(ctl) + 1] = msg
        /\ \A i \in 1..Len(ctl) : Append(ctl, msg)[i] = ctl[i]
    BY <1>a
  <2>2. Len(ctl) + 1 \in 1..Len(Append(ctl, msg)) /\ 1..Len(ctl) \subseteq 1..Len(Append(ctl, msg))
    BY <2>1
  <2> QED BY <2>1, <2>2
<1>0. CASE UNCHANGED <<ctl, mpc, listener>>
  BY <1>0 DEF PollThreadTold
<1>1. ASSUME NEW w \in Workers, Worker(w) PROVE PollThreadTold'
  <2>1. UNCHANGED <<mpc, listener>>
    BY <1>1, WorkerFrame DEF mainVars, pollVars
  <2>2. ctl' = ctl \/ ctl' = Append(ctl, "wakeup")
    BY <1>1 DEF Worker, TakeJob, Begin, Return, Call, StoreResponse, WakeupChecked, WorkerSend,
       WorkerAck, wakeVars, Broadcast
  <2> QED BY <1>b, <2>1, <2>2 DEF PollThreadTold
<1>2. ASSUME NEW c \in Conns, Visits(c) PROVE PollThreadTold'
  BY <1>0, <1>2, VisitsFrame
<1>3. CASE Select
  <2>1. mpc' = mpc
    BY <1>3, RoundFrame DEF mainVars
  <2>2. CASE ctl = <<>>
    BY <1>0, <1>3, <2>1, <2>2 DEF Select, wakeVars
  <2>3. CASE ctl # <<>>
    <3>1. /\ ctl' = Tail(ctl)
          /\ listener' = IF Head(ctl) = "shutdown" THEN "closing" ELSE listener
      BY <1>3, <2>3 DEF Select
    <3>2. ASSUME told(ctl), Head(ctl) # "shutdown" PROVE told(Tail(ctl))
      <4>1. PICK i \in 1..Len(ctl) : ctl[i] = "shutdown"
        BY <3>2
      <4>2. /\ Head(ctl) = ctl[1] /\ Len(ctl) \in Nat /\ Len(Tail(ctl)) = Len(ctl) - 1
            /\ \A j \in 1..Len(Tail(ctl)) : Tail(ctl)[j] = ctl[j + 1]
        BY <1>a, <2>3, HeadAndTail
      <4>3. i # 1
        BY <3>2, <4>1, <4>2
      <4>4. i - 1 \in 1..Len(Tail(ctl)) /\ (i - 1) + 1 = i
        BY <4>2, <4>3
      <4>5. Tail(ctl)[i - 1] = "shutdown"
        BY <4>1, <4>2, <4>4
      <4> QED BY <4>4, <4>5
    <3> QED BY <2>1, <3>1, <3>2 DEF PollThreadTold
  <2> QED BY <2>2, <2>3
<1>4. CASE EndIteration
  BY <1>4, RoundFrame DEF EndIteration, mainVars, wakeVars, PollThreadTold
<1>5. CASE MainThread \/ EventHandler
  <2>0. listener' = listener
    BY <1>5, MainFrame
  <2>1. CASE Shutdown
    <3>1. ctl' = Append(ctl, "shutdown")
      BY <2>1 DEF Shutdown, Broadcast
    <3> QED BY <1>b, <3>1 DEF PollThreadTold
  <2>2. CASE MainSend
    BY <2>2 DEF MainSend, MainStep, PollThreadTold
  <2>3. CASE \/ MainAck \/ ShutdownAck \/ SetShuttingDown \/ CleanupThreadPool \/ JoinAll
             \/ Close \/ EventHandler
    <3>1. ctl' = ctl
      BY <2>3 DEF MainAck, ShutdownAck, SetShuttingDown, CleanupThreadPool, JoinAll, Close,
         EventHandler, wakeVars
    <3>2. mpc' \notin {"loop", "send", "ack"} => mpc \notin {"loop", "send", "ack"}
      BY <2>3 DEF MainAck, ShutdownAck, SetShuttingDown, CleanupThreadPool, JoinAll, Close,
         EventHandler, MainStep
    <3> QED BY <2>0, <3>1, <3>2 DEF PollThreadTold
  <2> QED BY <1>5, <2>1, <2>2, <2>3 DEF MainThread
<1>6. CASE Outside \/ SignalExit \/ UNCHANGED vars
  BY <1>0, <1>6, OutsideFrame
<1> QED BY <1>1, <1>2, <1>3, <1>4, <1>5, <1>6, NextSplit

-----------------------------------------------------------------------------
(***************************************************************************)
(* The end of the pool                                                     *)
(***************************************************************************)
LEMMA PoolNext == TypeInv /\ PoolEnds /\ [Next]_vars => PoolEnds'
<1> SUFFICES ASSUME TypeInv, PoolEnds, [Next]_vars PROVE PoolEnds'
  OBVIOUS
<1>0. CASE UNCHANGED <<stopped, threads, work, jobs, wpc>>
  BY <1>0 DEF PoolEnds, Busy
<1>1. ASSUME NEW w \in Workers, Worker(w) PROVE PoolEnds'
  <2>0. UNCHANGED <<work, threads>>
    BY <1>1, WorkerFrame
  <2>1. CASE TakeJob(w)
    <3>1. ~stopped' /\ w \in Busy'
      BY <2>1, TypeGroups DEF TakeJob, Step, Busy, TypeInv, PoolOK
    <3> QED BY <3>1 DEF PoolEnds
  <2>2. CASE Begin(w) \/ Return(w) \/ Call(w) \/ StoreResponse(w) \/ WorkerSend(w)
    <3>1. w \in Busy /\ w \in Busy' /\ stopped' = stopped
      BY <2>2, TypeGroups DEF Begin, Return, Call, StoreResponse, WorkerSend, Step, Busy, TypeInv,
         PoolOK
    <3> QED BY <3>1 DEF PoolEnds
  <2>3. CASE WakeupChecked(w) /\ ~EndJob(w)
    <3>1. w \in Busy /\ w \in Busy' /\ stopped' = stopped
      BY <2>3, TypeGroups DEF WakeupChecked, Step, Busy, TypeInv, PoolOK
    <3> QED BY <3>1 DEF PoolEnds
  <2>4. CASE (WakeupChecked(w) \/ WorkerAck(w)) /\ EndJob(w)
    <3>1. w \in Busy /\ jobs' = jobs
      BY <2>4 DEF WakeupChecked, WorkerAck, Step, Busy
    <3>2. wpc' = [wpc EXCEPT ![w] = "idle"] \/ wpc' = [wpc EXCEPT ![w] = "send"]
      BY <2>4 DEF WakeupChecked, WorkerAck, Step
    <3>3. CASE wpc' = [wpc EXCEPT ![w] = "idle"]
      <4>1. Busy' = Busy \ {w}
        BY <3>3, TypeGroups DEF Busy, TypeInv, PoolOK
      <4>2. ~stopped
        BY <3>1 DEF PoolEnds
      <4>3. stopped' = (stopped \/ OutOfWork(Busy \ {w}))
        BY <2>4 DEF EndJob
      <4> QED BY <2>0, <3>1, <4>1, <4>2, <4>3 DEF PoolEnds, OutOfWork
    <3>4. CASE wpc' = [wpc EXCEPT ![w] = "send"]
      <4>1. w \in Busy'
        BY <3>4, TypeGroups DEF Busy, TypeInv, PoolOK
      <4>2. wpc'[w] = "send" /\ WakeupChecked(w)
        BY <2>4, <3>4, TypeGroups DEF WorkerAck, Step, TypeInv, PoolOK
      <4>3. stopped' = stopped
        BY <4>2, TypeGroups DEF WakeupChecked, Step, TypeInv, PoolOK
      <4> QED BY <3>1, <4>1, <4>3 DEF PoolEnds
    <3> QED BY <3>2, <3>3, <3>4
  <2>5. WorkerAck(w) => EndJob(w)
    BY DEF WorkerAck
  <2> QED BY <1>1, <2>1, <2>2, <2>3, <2>4, <2>5 DEF Worker
<1>2. ASSUME NEW c \in Conns, Visits(c) PROVE PoolEnds'
  <2>1. stopped' = stopped /\ Busy' = Busy
    BY <1>2, VisitsFrame DEF Busy
  <2>2. \/ work' \/ jobs' # <<>>
        \/ UNCHANGED <<work, threads, jobs>>
    <3>1. jobs \in Seq(Reqs)
      BY TypeGroups DEF TypeInv, PoolOK
    <3>2. ASSUME NEW q PROVE Append(jobs, q) # <<>>
      <4>1. Len(Append(jobs, q)) = Len(jobs) + 1 /\ Len(jobs) \in Nat
        BY <3>1
      <4> QED BY <4>1
    <3> QED BY <1>2, <3>2 DEF Visits, Eof, HandleLocal, HandleGetevent, HandlePooled, CreateThreads,
         Assign, Check, Flush, Poll, Timer, Post, poolVars
  <2> QED BY <2>1, <2>2 DEF PoolEnds
<1>3. CASE Select \/ EndIteration
  BY <1>0, <1>3, RoundFrame DEF poolVars
<1>4. CASE MainThread \/ EventHandler
  <2>1. CASE CleanupThreadPool
    <3>1. UNCHANGED <<jobs, threads>> /\ Busy' = Busy
      BY <1>4, MainFrame DEF Busy
    <3>2. stopped' = (stopped \/ (work /\ jobs = <<>> /\ Busy = {})) /\ work' = FALSE
      BY <2>1 DEF CleanupThreadPool
    <3> QED BY <3>1, <3>2 DEF PoolEnds
  <2>2. CASE ~CleanupThreadPool
    <3>1. UNCHANGED poolVars
      BY <1>4, <2>2 DEF MainThread, EventHandler, MainSend, MainAck, Shutdown, ShutdownAck,
         SetShuttingDown, JoinAll, Close
    <3> QED BY <1>0, <3>1 DEF poolVars
  <2> QED BY <2>1, <2>2
<1>5. CASE Outside \/ SignalExit \/ UNCHANGED vars
  BY <1>0, <1>5, OutsideFrame
<1> QED BY <1>1, <1>2, <1>3, <1>4, <1>5, NextSplit

-----------------------------------------------------------------------------
(***************************************************************************)
(* Whatever a thread waits for, somebody still provides: mutexes,          *)
(* acknowledgements, the poll thread, its shutdown and the end of the pool *)
(* (jsonrpc_thread, wakeup, mg_broadcast, cleanupThreadPool).              *)
(***************************************************************************)
THEOREM UnblockedCorrect == Spec => []Unblocked
<1> DEFINE Inv == MutexInv /\ EachAcknowledged /\ RunningInv /\ PollThreadTold /\ PoolEnds
<1>1. Init => Inv
  <2> SUFFICES ASSUME Init PROVE Inv
    OBVIOUS
  <2>1. MutexInv
    BY DEF Init, MutexInv, Held, Holding, Alone
  <2>2. EachAcknowledged
    <3>1. Waiting = {} /\ Len(ctl) = 0 /\ acks = 0
      BY DEF Init, Waiting
    <3>2. Cardinality(Waiting) = 0
      BY <3>1, FS_EmptySet
    <3> QED BY <3>1, <3>2 DEF Init, EachAcknowledged
  <2>3. RunningInv /\ PollThreadTold /\ PoolEnds
    BY DEF Init, RunningInv, PollThreadTold, PoolEnds, Busy
  <2> QED BY <2>1, <2>2, <2>3
<1>2. TypeInv /\ Inv /\ [Next]_vars => Inv'
  BY MutexNext, AcknowledgedNext, RunningNext, ToldNext, PoolNext
<1>3. TypeInv /\ Inv => Unblocked
  BY MutexMeaning, RunningMeaning DEF Unblocked
<1>4. Init => TypeInv
  BY InitType
<1>5. TypeInv /\ [Next]_vars => TypeInv'
  BY NextType
<1> HIDE DEF Inv
<1> QED BY <1>1, <1>2, <1>3, <1>4, <1>5, PTL DEF Spec

=============================================================================
