----------------------------- MODULE RpcProofs -----------------------------
(***************************************************************************)
(* Theorems about the RPC gateway, for every number of connections,        *)
(* threads, subscriptions, requests and events.                            *)
(***************************************************************************)
EXTENDS Rpc, SequenceTheorems, TLAPS

(* The types, by groups of variables.                                      *)
ClientsOK ==
    /\ sent \in [Conns -> 0..MaxSends] /\ got \in [Conns -> Nat]
    /\ inbox \in [Conns -> BOOLEAN] /\ peer \in [Conns -> BOOLEAN]
ConnsOK ==
    /\ link \in [Conns -> {"unused", "open", "closed"}]
    /\ flags \in [Conns -> SUBSET Flags]
    /\ cur \in [Conns -> 0..MaxSends] /\ out \in [Conns -> Nat]
    /\ timer \in [Conns -> {"off", "armed", "due"}]
ResponsesOK ==
    /\ what \in [Reqs -> Requests \cup {NoRequest}]
    /\ ready \in [Reqs -> BOOLEAN] /\ late \in [Reqs -> BOOLEAN]
    /\ done \in [Reqs -> Nat] /\ written \in [Reqs -> Nat]
    /\ locked \subseteq Reqs
PollOK ==
    /\ pp \in {"select", "visit", "gone"} /\ stage \in [Conns -> Stages]
    /\ finished \in BOOLEAN /\ listener \in {"open", "closing", "closed"}
WakeOK == ctl \in Seq({"wakeup", "shutdown"}) /\ acks \in Nat
PoolOK ==
    /\ work \in BOOLEAN /\ threads \in BOOLEAN /\ stopped \in BOOLEAN
    /\ jobs \in Seq(Reqs) /\ wreq \in [Workers -> Reqs \cup {NoReq}]
    /\ wpc \in [Workers -> {"idle", "begin", "calling", "locked", "wakeup", "send", "ack"}]
MainOK ==
    /\ mpc \in {"loop", "send", "ack", "closing", "shutdown", "cleanup", "join", "close", "done"}
    /\ state \in {"Running", "ShuttingDown", "Stopped"} /\ exitSignaled \in BOOLEAN
EventsOK ==
    /\ alive \subseteq Subs /\ published \in 0..MaxEvents
    /\ queue \in [Subs -> Seq(1..published)] /\ taken \in [Subs -> Seq(1..published)]
    /\ from \in [Subs -> 0..published] /\ event \in [Reqs -> 0..published]
    /\ \A s \in Subs : Len(queue[s]) <= QueueLimit + 1

LEMMA TypeGroups ==
  TypeOK <=> /\ ClientsOK /\ ConnsOK /\ ResponsesOK /\ PollOK
             /\ WakeOK /\ PoolOK /\ MainOK /\ EventsOK
BY DEF TypeOK, ClientsOK, ConnsOK, ResponsesOK, PollOK, WakeOK, PoolOK, MainOK, EventsOK

(* What the types rest on: a request in hand has been sent, what has been  *)
(* sent is known, and a thread at work has a request.                      *)
InHandSent == \A c \in Conns :
    /\ stage[c] = "read" => inbox[c]
    /\ inbox[c] \/ stage[c] \in {"create", "assign", "check"} => sent[c] > 0
Asked == \A c \in Conns : \A n \in 1..MaxSends :
    IF n <= sent[c] THEN what[<<c, n>>] \in Requests ELSE what[<<c, n>>] = NoRequest
BusyHave == \A w \in Workers : wpc[w] # "idle" => wreq[w] \in Reqs

TypeInv == TypeOK /\ InHandSent /\ Asked /\ BusyHave

(* A group keeps its type when its variables do not change.                *)
LEMMA Frame ==
  ASSUME TypeInv
  PROVE  /\ UNCHANGED clientVars => ClientsOK'
         /\ UNCHANGED connVars => ConnsOK'
         /\ UNCHANGED <<what, ready, late, done, written, locked>> => ResponsesOK'
         /\ UNCHANGED pollVars => PollOK'
         /\ UNCHANGED wakeVars => WakeOK'
         /\ UNCHANGED poolVars => PoolOK'
         /\ UNCHANGED mainVars => MainOK'
         /\ UNCHANGED <<subVars, event>> => EventsOK'
         /\ UNCHANGED <<inbox, stage, sent>> => InHandSent'
         /\ UNCHANGED <<what, sent>> => Asked'
         /\ UNCHANGED <<wpc, wreq>> => BusyHave'
<1> USE TypeGroups DEF TypeInv
<1>1. UNCHANGED clientVars => ClientsOK'
  BY DEF ClientsOK, clientVars
<1>2. UNCHANGED connVars => ConnsOK'
  BY DEF ConnsOK, connVars
<1>3. UNCHANGED <<what, ready, late, done, written, locked>> => ResponsesOK'
  BY DEF ResponsesOK
<1>4. UNCHANGED pollVars => PollOK'
  BY DEF PollOK, pollVars
<1>5. UNCHANGED wakeVars => WakeOK'
  BY DEF WakeOK, wakeVars
<1>6. UNCHANGED poolVars => PoolOK'
  BY DEF PoolOK, poolVars
<1>7. UNCHANGED mainVars => MainOK'
  BY DEF MainOK, mainVars
<1>8. UNCHANGED <<subVars, event>> => EventsOK'
  BY DEF EventsOK, subVars
<1>9. UNCHANGED <<inbox, stage, sent>> => InHandSent'
  BY DEF InHandSent
<1>10. UNCHANGED <<what, sent>> => Asked'
  BY DEF Asked
<1>11. UNCHANGED <<wpc, wreq>> => BusyHave'
  BY DEF BusyHave
<1> QED BY <1>1, <1>2, <1>3, <1>4, <1>5, <1>6, <1>7, <1>8, <1>9, <1>10, <1>11

LEMMA InitType == Init => TypeInv
<1> SUFFICES ASSUME Init PROVE TypeInv
  OBVIOUS
<1> USE BoundsAssumption, RequestsAssumption DEF BoundsAssumption, RequestsAssumption
<1>1. ClientsOK
  BY DEF Init, ClientsOK
<1>2. ConnsOK
  BY DEF Init, ConnsOK
<1>3. ResponsesOK
  BY DEF Init, ResponsesOK
<1>4. PollOK /\ WakeOK /\ MainOK
  <2>1. finished \in BOOLEAN /\ exitSignaled \in BOOLEAN
    BY DEF Init
  <2>2. PollOK
    BY <2>1 DEF Init, PollOK, Stages
  <2>3. WakeOK
    BY DEF Init, WakeOK
  <2>4. MainOK
    BY <2>1 DEF Init, MainOK
  <2> QED BY <2>2, <2>3, <2>4
<1>5. PoolOK
  <2>1. work \in BOOLEAN /\ threads \in BOOLEAN /\ stopped \in BOOLEAN
    BY DEF Init
  <2>2. jobs \in Seq(Reqs)
    BY DEF Init
  <2>3. wreq \in [Workers -> Reqs \cup {NoReq}]
    BY DEF Init
  <2> QED BY <2>1, <2>2, <2>3 DEF Init, PoolOK
<1>6. EventsOK
  BY DEF Init, EventsOK
<1>7. InHandSent
  BY DEF Init, InHandSent
<1>8. Asked
  BY DEF Init, Asked, Reqs
<1>9. BusyHave
  BY DEF Init, BusyHave
<1> QED BY <1>1, <1>2, <1>3, <1>4, <1>5, <1>6, <1>7, <1>8, <1>9, TypeGroups DEF TypeInv

(* The request a handler has in hand.                                      *)
LEMMA InHandRequest ==
  ASSUME TypeInv, NEW c \in Conns,
         stage[c] \in {"read", "create", "assign", "check"}
  PROVE  /\ Handled(c) \in Reqs
         /\ what[Handled(c)] \in Requests
         /\ what[Handled(c)] \in Request
<1> USE BoundsAssumption, RequestsAssumption DEF BoundsAssumption, RequestsAssumption
<1>1. sent[c] \in 1..MaxSends
  BY TypeGroups DEF TypeInv, ClientsOK, InHandSent
<1>2. what[<<c, sent[c]>>] \in Requests
  BY <1>1 DEF TypeInv, Asked
<1> QED BY <1>1, <1>2 DEF Handled, Reqs

(* Visiting a connection and going on with it.                             *)
LEMMA VisitType ==
  ASSUME TypeInv, NEW c \in Conns, NEW there \in Stages,
         Goto(c, there), UNCHANGED <<pp, finished, listener>>
  PROVE  PollOK'
BY TypeGroups DEF TypeInv, PollOK, Goto

(* Leaving the reading and dispatching stages, or going on within them.     *)
LEMMA GotoInHand ==
  ASSUME TypeInv, NEW c \in Conns, NEW there,
         Goto(c, there), UNCHANGED <<sent, inbox>>, there # "read",
         there \in {"create", "assign", "check"} =>
             stage[c] \in {"read", "create", "assign", "check"}
  PROVE  InHandSent'
BY TypeGroups DEF TypeInv, PollOK, Goto, InHandSent

(* The first element of a queue, and the others.                           *)
LEMMA HeadAndTail ==
  ASSUME NEW S, NEW q \in Seq(S), q # <<>>
  PROVE  /\ Head(q) \in S /\ Head(q) = q[1] /\ Tail(q) \in Seq(S)
         /\ Len(q) \in Nat /\ Len(q) > 0 /\ Len(Tail(q)) = Len(q) - 1
         /\ \A i \in 1..Len(Tail(q)) : Tail(q)[i] = q[i + 1]
OBVIOUS

(* Handing out an event.                                                   *)
LEMMA TakeEventType ==
  ASSUME TypeInv, NEW q, TakeEvent(q) \/ TakesNothing, UNCHANGED <<alive, published, from>>
  PROVE  EventsOK'
<1> USE BoundsAssumption DEF BoundsAssumption
<1>1. EventsOK
  BY TypeGroups DEF TypeInv
<1>2. CASE UNCHANGED <<queue, event, taken>>
  BY <1>1, <1>2 DEF EventsOK
<1>3. CASE ~UNCHANGED <<queue, event, taken>>
  <2> DEFINE s == what[q].sub
  <2>1. /\ s \in alive /\ queue[s] # <<>>
        /\ queue' = [queue EXCEPT ![s] = Tail(@)]
        /\ event' = [event EXCEPT ![q] = Head(queue[s])]
        /\ taken' = [taken EXCEPT ![s] = Append(@, Head(queue[s]))]
    BY <1>3 DEF TakeEvent, TakesNothing
  <2> HIDE DEF s
  <2>2. s \in Subs /\ queue[s] \in Seq(1..published) /\ taken[s] \in Seq(1..published)
    BY <1>1, <2>1 DEF EventsOK
  <2>3. /\ Head(queue[s]) \in 1..published /\ Tail(queue[s]) \in Seq(1..published)
        /\ Len(Tail(queue[s])) = Len(queue[s]) - 1
    BY <2>1, <2>2, HeadAndTail
  <2>4. Append(taken[s], Head(queue[s])) \in Seq(1..published)
    BY <2>2, <2>3
  <2>5. queue' \in [Subs -> Seq(1..published)] /\ taken' \in [Subs -> Seq(1..published)]
    BY <1>1, <2>1, <2>3, <2>4 DEF EventsOK
  <2>6. event' \in [Reqs -> 0..published]
    <3>1. event \in [Reqs -> 0..published] /\ published \in Nat
      BY <1>1 DEF EventsOK
    <3>2. Head(queue[s]) \in 0..published
      BY <2>3, <3>1
    <3> QED BY <2>1, <3>1, <3>2
  <2>7. ASSUME NEW t \in Subs PROVE Len(queue'[t]) <= QueueLimit + 1
    <3>1. Len(queue[t]) <= QueueLimit + 1 /\ queue[t] \in Seq(1..published)
      BY <1>1 DEF EventsOK
    <3> QED BY <1>1, <2>1, <2>2, <2>3, <3>1, BoundsAssumption DEF EventsOK, BoundsAssumption
  <2> QED BY <1>1, <2>5, <2>6, <2>7 DEF EventsOK
<1> QED BY <1>2, <1>3

(* A counter of a request goes up.                                         *)
LEMMA CountUp ==
  ASSUME NEW S, NEW f \in [S -> Nat], NEW x
  PROVE  [f EXCEPT ![x] = f[x] + 1] \in [S -> Nat]
<1>1. CASE x \in S
  BY <1>1
<1>2. CASE x \notin S
  BY <1>2
<1> QED BY <1>1, <1>2

(* Writing an answer, or keeping the request.                              *)
LEMMA WriteKeptType ==
  ASSUME TypeInv, NEW c \in Conns, NEW q, WriteKept(c, q),
         UNCHANGED <<link, what, done, locked, pp, finished, listener, sent, inbox>>,
         ready' \in [Reqs -> BOOLEAN], late' \in [Reqs -> BOOLEAN]
  PROVE  ConnsOK' /\ ResponsesOK' /\ PollOK' /\ InHandSent'
<1> USE TypeGroups, BoundsAssumption DEF TypeInv, BoundsAssumption, WriteKept
<1>1. cur' \in [Conns -> 0..MaxSends] /\ timer' \in [Conns -> {"off", "armed", "due"}]
  BY DEF ConnsOK
<1>2. out' \in [Conns -> Nat]
  BY DEF ConnsOK, Write
<1>3. written' \in [Reqs -> Nat]
  <2>1. written \in [Reqs -> Nat]
    BY DEF ResponsesOK
  <2>2. written' = [written EXCEPT ![q] = written[q] + 1]
    BY DEF Write
  <2> QED BY <2>1, <2>2, CountUp
<1>4. flags' \in [Conns -> SUBSET Flags]
  BY DEF ConnsOK, CloseWhenIdle, AfterFinish, Flags
<1>5. PollOK'
  BY VisitType DEF Stages
<1>6. InHandSent'
  BY GotoInHand
<1> QED BY <1>1, <1>2, <1>3, <1>4, <1>5, <1>6 DEF ConnsOK, ResponsesOK

\* The groups, in the next state.
LEMMA TypeGroupsNext ==
  ASSUME ClientsOK', ConnsOK', ResponsesOK', PollOK', WakeOK', PoolOK', MainOK', EventsOK',
         InHandSent', Asked', BusyHave'
  PROVE  TypeInv'
BY DEF TypeInv, TypeOK, ClientsOK, ConnsOK, ResponsesOK, PollOK, WakeOK, PoolOK, MainOK, EventsOK

(* The clients and the timers keep the types.                              *)
LEMMA ClientsType ==
  ASSUME TypeInv, NEW c \in Conns,
         \/ \E r \in Requests : Send(c, r)
         \/ HangUp(c) \/ Expire(c) \/ Accept(c)
  PROVE  TypeInv'
<1> USE TypeGroups, BoundsAssumption DEF BoundsAssumption
<1>1. ASSUME NEW r \in Requests, Send(c, r) PROVE TypeInv'
  <2> USE <1>1
  <2>1. ConnsOK' /\ PollOK' /\ WakeOK' /\ PoolOK' /\ MainOK' /\ BusyHave'
    BY Frame DEF Send, poolVars
  <2>2. EventsOK'
    BY Frame DEF Send
  <2>3. sent' \in [Conns -> 0..MaxSends]
    BY DEF Send, TypeInv, ClientsOK
  <2>4. ClientsOK'
    BY <2>3 DEF Send, TypeInv, ClientsOK
  <2>5. ResponsesOK'
    BY DEF Send, TypeInv, ResponsesOK
  <2>6. InHandSent'
    BY DEF Send, TypeInv, InHandSent, ClientsOK, pollVars
  <2>7. ASSUME NEW d \in Conns, NEW n \in 1..MaxSends
        PROVE IF n <= sent'[d] THEN what'[<<d, n>>] \in Requests ELSE what'[<<d, n>>] = NoRequest
    <3>1. <<d, n>> \in Reqs /\ (<<d, n>> = <<c, sent[c] + 1>> <=> d = c /\ n = sent[c] + 1)
      BY DEF Reqs
    <3>2. what'[<<d, n>>] = IF d = c /\ n = sent[c] + 1 THEN r ELSE what[<<d, n>>]
      BY <3>1 DEF Send, TypeInv, ResponsesOK
    <3>3. sent'[d] = (IF d = c THEN sent[c] + 1 ELSE sent[d]) /\ sent[c] \in Nat /\ sent[d] \in Nat
      BY DEF Send, TypeInv, ClientsOK
    <3> QED BY <3>2, <3>3 DEF TypeInv, Asked
  <2>8. Asked'
    BY <2>7 DEF Asked
  <2> QED BY <2>1, <2>2, <2>4, <2>5, <2>6, <2>8, TypeGroupsNext
<1>2. CASE HangUp(c)
  <2>1. /\ ConnsOK' /\ ResponsesOK' /\ PollOK' /\ WakeOK' /\ PoolOK' /\ MainOK' /\ EventsOK'
        /\ InHandSent' /\ Asked' /\ BusyHave'
    BY <1>2, Frame DEF HangUp, responseVars, pollVars, poolVars
  <2>2. ClientsOK'
    BY <1>2 DEF HangUp, TypeInv, ClientsOK
  <2> QED BY <2>1, <2>2, TypeGroupsNext
<1>3. CASE Expire(c)
  <2>1. /\ ClientsOK' /\ ResponsesOK' /\ PollOK' /\ WakeOK' /\ PoolOK' /\ MainOK' /\ EventsOK'
        /\ InHandSent' /\ Asked' /\ BusyHave'
    BY <1>3, Frame DEF Expire, clientVars, responseVars, pollVars, poolVars
  <2>2. ConnsOK'
    BY <1>3 DEF Expire, TypeInv, ConnsOK
  <2> QED BY <2>1, <2>2, TypeGroupsNext
<1>4. CASE Accept(c)
  <2>1. /\ ClientsOK' /\ ResponsesOK' /\ PollOK' /\ WakeOK' /\ PoolOK' /\ MainOK' /\ EventsOK'
        /\ InHandSent' /\ Asked' /\ BusyHave'
    BY <1>4, Frame DEF Accept, clientVars, responseVars, pollVars, poolVars
  <2>2. ConnsOK'
    BY <1>4 DEF Accept, TypeInv, ConnsOK, Flags
  <2> QED BY <2>1, <2>2, TypeGroupsNext
<1> QED BY <1>1, <1>2, <1>3, <1>4

(* An event goes to a queue that is not too long.                          *)
LEMMA QueueBound ==
  ASSUME NEW S, NEW q \in Seq(S), NEW e \in S, NEW n \in Nat, Len(q) <= n + 1
  PROVE  LET r == IF Len(q) > n THEN <<>> ELSE Append(q, e)
         IN r \in Seq(S) /\ Len(r) <= n + 1
<1>1. Append(q, e) \in Seq(S) /\ Len(Append(q, e)) = Len(q) + 1 /\ Len(q) \in Nat
  OBVIOUS
<1>2. <<>> \in Seq(S) /\ Len(<<>>) = 0
  BY EmptySeq
<1> QED BY <1>1, <1>2

(* Main and the signal keep the types.                                     *)
LEMMA MainType ==
  ASSUME TypeInv, MainThread \/ EventHandler \/ SignalExit
  PROVE  TypeInv'
<1> USE TypeGroups DEF TypeInv
<1>1. ClientsOK' /\ ConnsOK' /\ ResponsesOK' /\ PollOK' /\ InHandSent' /\ Asked' /\ BusyHave'
  <2>1. UNCHANGED <<clientVars, connVars, responseVars, pollVars, wpc, wreq>>
    BY DEF MainThread, EventHandler, SignalExit, MainSend, MainAck, Shutdown, ShutdownAck,
           SetShuttingDown, CleanupThreadPool, JoinAll, Close, poolVars
  <2> QED BY <2>1, Frame DEF clientVars, responseVars, pollVars
<1>2. EventsOK'
  <2>1. CASE EventHandler
    <3> USE BoundsAssumption DEF BoundsAssumption
    <3>1. published' = published + 1 /\ published \in 0..MaxEvents /\ published' \in 0..MaxEvents
      BY <2>1 DEF EventHandler, EventsOK
    <3>2. \A q \in Seq(1..published) : q \in Seq(1..published') /\ Len(q) \in Nat
      BY <3>1
    <3>3. alive' \subseteq Subs
      BY <2>1 DEF EventHandler, Enqueue, EventsOK
    <3>4. ASSUME NEW s \in Subs
          PROVE queue'[s] \in Seq(1..published') /\ Len(queue'[s]) <= QueueLimit + 1
      <4>1. queue[s] \in Seq(1..published') /\ Len(queue[s]) \in Nat /\ Len(queue[s]) <= QueueLimit + 1
        BY <3>2 DEF EventsOK
      <4>2. queue'[s] = IF s \notin alive THEN queue[s]
                        ELSE IF Len(queue[s]) > QueueLimit THEN <<>>
                        ELSE Append(queue[s], published')
        BY <2>1, <3>1 DEF EventHandler, Enqueue, Abandoned
      <4>3. CASE s \notin alive
        BY <4>1, <4>2, <4>3
      <4>4. CASE s \in alive
        <5>1. published' \in 1..published'
          BY <3>1
        <5> QED BY <4>1, <4>2, <4>4, <5>1, QueueBound
      <4> QED BY <4>3, <4>4
    <3>5. queue' \in [Subs -> Seq(1..published')]
      <4>1. queue' = [s \in Subs |-> queue'[s]]
        BY <2>1 DEF EventHandler, Enqueue
      <4> QED BY <3>4, <4>1
    <3>6. taken' \in [Subs -> Seq(1..published')]
      <4>1. taken' = taken /\ taken \in [Subs -> Seq(1..published)]
        BY <2>1 DEF EventHandler, EventsOK
      <4>2. \A s \in Subs : taken[s] \in Seq(1..published')
        BY <3>2, <4>1
      <4> QED BY <4>1, <4>2
    <3>7. from' \in [Subs -> 0..published'] /\ event' \in [Reqs -> 0..published']
      <4>1. /\ from' = from /\ from \in [Subs -> 0..published]
            /\ event' = event /\ event \in [Reqs -> 0..published]
        BY <2>1 DEF EventHandler, EventsOK, responseVars
      <4>2. 0..published \subseteq 0..published'
        BY <3>1
      <4> QED BY <4>1, <4>2
    <3> QED BY <3>1, <3>3, <3>4, <3>5, <3>6, <3>7 DEF EventsOK
  <2>2. CASE MainThread \/ SignalExit
    <3>1. UNCHANGED <<subVars, event>>
      BY <2>2 DEF MainThread, SignalExit, MainSend, MainAck, Shutdown, ShutdownAck,
           SetShuttingDown, CleanupThreadPool, JoinAll, Close, responseVars
    <3> QED BY <3>1, Frame
  <2> QED BY <2>1, <2>2
<1>3. WakeOK'
  <2>1. \A m \in {"wakeup", "shutdown"} : Append(ctl, m) \in Seq({"wakeup", "shutdown"})
    BY DEF WakeOK
  <2>2. acks > 0 => acks - 1 \in Nat
    BY DEF WakeOK
  <2> QED BY <2>1, <2>2 DEF MainThread, EventHandler, SignalExit, MainSend, MainAck, Shutdown,
             ShutdownAck, SetShuttingDown, CleanupThreadPool, JoinAll, Close, wakeVars,
             Broadcast, Acknowledged, WakeOK
<1>4. PoolOK'
  <2>1. CASE CleanupThreadPool
    <3>1. UNCHANGED <<threads, jobs, wpc, wreq>> /\ work' \in BOOLEAN
      BY <2>1 DEF CleanupThreadPool
    <3>2. stopped' \in BOOLEAN
      BY <2>1 DEF CleanupThreadPool, PoolOK
    <3> QED BY <3>1, <3>2 DEF PoolOK
  <2>2. CASE ~CleanupThreadPool
    <3>1. UNCHANGED poolVars
      BY <2>2 DEF MainThread, EventHandler, SignalExit, MainSend, MainAck, Shutdown,
             ShutdownAck, SetShuttingDown, JoinAll, Close
    <3> QED BY <3>1, Frame
  <2> QED BY <2>1, <2>2
<1>5. MainOK'
  <2>1. exitSignaled' \in BOOLEAN
    BY DEF MainThread, EventHandler, SignalExit, MainSend, MainAck, Shutdown,
           ShutdownAck, SetShuttingDown, CleanupThreadPool, JoinAll, Close, MainOK
  <2> QED BY <2>1 DEF MainThread, EventHandler, SignalExit, MainSend, MainAck, Shutdown,
           ShutdownAck, SetShuttingDown, CleanupThreadPool, JoinAll, Close, MainStep, MainOK
<1> QED BY <1>1, <1>2, <1>3, <1>4, <1>5, TypeGroupsNext

(* The threads of the pool keep the types.                                 *)
LEMMA WorkerType ==
  ASSUME TypeInv, NEW w \in Workers, Worker(w)
  PROVE  TypeInv'
<1> USE TypeGroups DEF TypeInv
<1>1. ClientsOK' /\ ConnsOK' /\ PollOK' /\ MainOK' /\ EventsOK' /\ InHandSent' /\ Asked'
  <2>1. UNCHANGED <<clientVars, connVars, pollVars, mainVars, subVars, event, what>>
    BY DEF Worker, TakeJob, Begin, Return, Call, StoreResponse, WakeupChecked, WorkerSend,
           WorkerAck, responseVars
  <2> QED BY <2>1, Frame DEF clientVars, pollVars
<1>2. WakeOK'
  <2>1. Append(ctl, "wakeup") \in Seq({"wakeup", "shutdown"}) /\ (acks > 0 => acks - 1 \in Nat)
    BY DEF WakeOK
  <2> QED BY <2>1 DEF Worker, TakeJob, Begin, Return, Call, StoreResponse, WakeupChecked,
             WorkerSend, WorkerAck, wakeVars, Broadcast, Acknowledged, WakeOK
<1>3. wpc[w] # "idle" => wreq[w] \in Reqs
  BY DEF BusyHave
<1>4. ResponsesOK'
  <2>1. UNCHANGED <<what, late, written>>
    BY DEF Worker, TakeJob, Begin, Return, Call, StoreResponse, WakeupChecked, WorkerSend,
           WorkerAck, responseVars
  <2>2. done' \in [Reqs -> Nat]
    <3>1. done' = done \/ done' = [done EXCEPT ![wreq[w]] = done[wreq[w]] + 1]
      BY DEF Worker, TakeJob, Begin, Return, Call, StoreResponse, WakeupChecked, WorkerSend,
             WorkerAck, responseVars
    <3> QED BY <3>1, CountUp DEF ResponsesOK
  <2>3. ready' \in [Reqs -> BOOLEAN]
    <3>1. ready' = ready \/ ready' = [ready EXCEPT ![wreq[w]] = TRUE]
      BY DEF Worker, TakeJob, Begin, Return, Call, StoreResponse, WakeupChecked, WorkerSend,
             WorkerAck, responseVars
    <3> QED BY <3>1 DEF ResponsesOK
  <2>4. locked' \subseteq Reqs
    BY <1>3 DEF Worker, TakeJob, Begin, Return, Call, StoreResponse, WakeupChecked, WorkerSend,
           WorkerAck, responseVars, Step, LockRequest, ReleaseRequest, ResponsesOK
  <2> QED BY <2>1, <2>2, <2>3, <2>4 DEF ResponsesOK
<1>5. PoolOK' /\ BusyHave'
  <2>1. CASE TakeJob(w)
    <3>1. Head(jobs) \in Reqs /\ Tail(jobs) \in Seq(Reqs)
      BY <2>1, HeadAndTail DEF TakeJob, PoolOK
    <3>2. UNCHANGED <<work, threads, stopped>>
      BY <2>1 DEF TakeJob
    <3> QED BY <2>1, <3>1, <3>2 DEF TakeJob, Step, PoolOK, BusyHave
  <2>2. CASE Begin(w) \/ Return(w) \/ Call(w) \/ StoreResponse(w) \/ WorkerSend(w)
    <3>1. UNCHANGED <<work, threads, stopped, jobs, wreq>>
      BY <2>2 DEF Begin, Return, Call, StoreResponse, WorkerSend
    <3>2. \E there \in {"calling", "locked", "wakeup", "ack"} :
             wpc[w] # "idle" /\ wpc' = [wpc EXCEPT ![w] = there]
      BY <2>2 DEF Begin, Return, Call, StoreResponse, WorkerSend, Step
    <3> QED BY <3>1, <3>2 DEF PoolOK, BusyHave
  <2>3. CASE WakeupChecked(w) \/ WorkerAck(w)
    <3>1. UNCHANGED <<work, threads, jobs>>
      BY <2>3 DEF WakeupChecked, WorkerAck
    <3>2. stopped' \in BOOLEAN
      BY <2>3 DEF WakeupChecked, WorkerAck, EndJob, PoolOK
    <3>3. /\ wpc[w] # "idle"
          /\ \/ wpc' = [wpc EXCEPT ![w] = "send"] /\ UNCHANGED wreq
             \/ wpc' = [wpc EXCEPT ![w] = "idle"] /\ wreq' = [wreq EXCEPT ![w] = NoReq]
      BY <2>3 DEF WakeupChecked, WorkerAck, EndJob, Step
    <3> QED BY <3>1, <3>2, <3>3 DEF PoolOK, BusyHave
  <2> QED BY <2>1, <2>2, <2>3 DEF Worker
<1> QED BY <1>1, <1>2, <1>4, <1>5, TypeGroupsNext

(* The poll thread keeps the types: the loop of mongoose.                  *)
LEMMA LoopType ==
  ASSUME TypeInv, Select \/ EndIteration
  PROVE  TypeInv'
<1> USE TypeGroups, BoundsAssumption DEF TypeInv, BoundsAssumption
<1>1. CASE Select
  <2>1. /\ ClientsOK' /\ ConnsOK' /\ ResponsesOK' /\ PoolOK' /\ MainOK' /\ EventsOK'
        /\ Asked' /\ BusyHave'
    BY <1>1, Frame DEF Select, clientVars, responseVars, poolVars
  <2>2. WakeOK'
    <3>1. ctl # <<>> => Tail(ctl) \in Seq({"wakeup", "shutdown"})
      BY HeadAndTail DEF WakeOK
    <3> QED BY <1>1, <3>1 DEF Select, WakeOK, wakeVars
  <2>3. \A c \in Conns : Readiness(c) \in Stages \ {"create", "assign", "check"}
                         /\ (Readiness(c) = "read" => inbox[c])
    BY DEF Readiness, Stages, ToVisit
  <2>4. PollOK'
    <3>1. finished' \in BOOLEAN
      BY <1>1 DEF Select, PollOK
    <3> QED BY <1>1, <2>3, <3>1 DEF Select, PollOK
  <2>5. InHandSent'
    BY <1>1, <2>3 DEF Select, InHandSent, clientVars
  <2> QED BY <2>1, <2>2, <2>4, <2>5, TypeGroupsNext
<1>2. CASE EndIteration
  <2>1. /\ ClientsOK' /\ ResponsesOK' /\ WakeOK' /\ PoolOK' /\ MainOK' /\ EventsOK'
        /\ InHandSent' /\ Asked' /\ BusyHave'
    BY <1>2, Frame DEF EndIteration, clientVars, responseVars, poolVars
  <2>2. ConnsOK'
    BY <1>2 DEF EndIteration, ConnsOK
  <2>3. PollOK'
    <3>1. finished' \in BOOLEAN
      BY <1>2 DEF EndIteration, PollOK
    <3> QED BY <1>2, <3>1 DEF EndIteration, PollOK
  <2> QED BY <2>1, <2>2, <2>3, TypeGroupsNext
<1> QED BY <1>1, <1>2

(* A visit changes nothing of the clients' inbox but for the request read. *)
LEMMA ReceiveType ==
  ASSUME TypeInv, NEW c \in Conns, NEW there \in Stages,
         Receive(c), Goto(c, there), there # "read", finished' \in BOOLEAN
  PROVE  /\ ClientsOK' /\ ConnsOK' /\ ResponsesOK' /\ PollOK' /\ WakeOK' /\ MainOK'
         /\ InHandSent' /\ Asked'
<1> USE TypeGroups DEF TypeInv
<1>1. ResponsesOK' /\ WakeOK' /\ MainOK' /\ Asked'
  BY Frame DEF Receive
<1>2. ClientsOK'
  BY DEF Receive, ClientsOK
<1>3. ConnsOK'
  BY DEF Receive, ConnsOK, Flags
<1>4. PollOK'
  BY DEF Receive, Goto, PollOK
<1>5. stage[c] = "read"
  BY DEF Receive, Visit
<1>6. InHandSent'
  BY <1>5 DEF Receive, Goto, InHandSent, ClientsOK, PollOK
<1> QED BY <1>1, <1>2, <1>3, <1>4, <1>6

(* The handlers of requests keep the types.                                *)
LEMMA HandlersType ==
  ASSUME TypeInv, NEW c \in Conns,
         HandleLocal(c) \/ HandleGetevent(c) \/ HandlePooled(c)
  PROVE  TypeInv'
<1> USE TypeGroups DEF TypeInv
<1>1. stage[c] = "read" /\ Receive(c)
  BY DEF HandleLocal, HandleGetevent, HandlePooled, Receive, Visit
<1>2. Handled(c) \in Reqs /\ what[Handled(c)] \in Request
  BY <1>1, InHandRequest
<1>3. {"none", "create", "assign", "check"} \subseteq Stages
  BY DEF Stages, Visiting
<1>4. CASE HandleLocal(c)
  <2>1. Goto(c, "assign") /\ finished' \in BOOLEAN
    BY <1>4 DEF HandleLocal
  <2>2. PoolOK' /\ BusyHave'
    BY <1>4, Frame DEF HandleLocal, poolVars
  <2>3. EventsOK'
    <3> DEFINE s == what[Handled(c)].sub
    <3>1. s \in Subs
      BY <1>2 DEF Request
    <3>2. /\ UNCHANGED <<published, event, taken>>
          /\ \/ alive' = alive \cup {s} /\ from' = [from EXCEPT ![s] = published]
                /\ UNCHANGED queue
             \/ alive' = alive \ {s} /\ queue' = [queue EXCEPT ![s] = <<>>]
                /\ UNCHANGED from
      BY <1>4 DEF HandleLocal, Receive, Subscribe, Unsubscribe
    <3> HIDE DEF s
    <3>3. published \in Nat /\ published \in 0..published
      BY BoundsAssumption DEF EventsOK, BoundsAssumption
    <3>4. <<>> \in Seq(1..published) /\ Len(<<>>) <= QueueLimit + 1
      BY EmptySeq, BoundsAssumption DEF BoundsAssumption
    <3>5. CASE UNCHANGED queue
      BY <3>1, <3>2, <3>3, <3>5 DEF EventsOK
    <3>6. CASE alive' = alive \ {s} /\ queue' = [queue EXCEPT ![s] = <<>>] /\ UNCHANGED from
      BY <3>1, <3>2, <3>4, <3>6 DEF EventsOK
    <3> QED BY <3>2, <3>5, <3>6
  <2> QED BY <1>1, <1>3, <2>1, <2>2, <2>3, ReceiveType, TypeGroupsNext
<1>5. CASE HandleGetevent(c)
  <2>1. Goto(c, "assign") /\ finished' \in BOOLEAN
    BY <1>5 DEF HandleGetevent, HasAnswer, EventsOK, MainOK
  <2>2. PoolOK' /\ BusyHave'
    BY <1>5, Frame DEF HandleGetevent, poolVars
  <2>3. EventsOK'
    BY <1>5, TakeEventType DEF HandleGetevent, Receive
  <2> QED BY <1>1, <1>3, <2>1, <2>2, <2>3, ReceiveType, TypeGroupsNext
<1>6. CASE HandlePooled(c)
  <2>1. /\ finished' \in BOOLEAN
        /\ \E there \in {"create", "assign", "check"} : Goto(c, there)
    BY <1>6 DEF HandlePooled, Dispatched, PollOK
  <2>2. /\ UNCHANGED <<threads, stopped, wpc, wreq>>
        /\ work' \in BOOLEAN
        /\ jobs' = jobs \/ jobs' = Append(jobs, Handled(c))
    BY <1>6 DEF HandlePooled, Post, PoolOK
  <2>3. PoolOK'
    <3>1. jobs' \in Seq(Reqs)
      BY <1>2, <2>2 DEF PoolOK
    <3> QED BY <2>2, <3>1 DEF PoolOK
  <2>4. BusyHave' /\ EventsOK'
    BY <1>6, Frame DEF HandlePooled, Receive, subVars
  <2> QED BY <1>1, <1>3, <2>1, <2>3, <2>4, ReceiveType, TypeGroupsNext
<1> QED BY <1>4, <1>5, <1>6

(* The rest of a visit keeps the types.                                    *)
LEMMA VisitsType ==
  ASSUME TypeInv, NEW c \in Conns,
         \/ Eof(c) \/ CreateThreads(c) \/ Assign(c) \/ Check(c)
         \/ Flush(c) \/ Poll(c) \/ Timer(c)
  PROVE  TypeInv'
<1> USE TypeGroups DEF TypeInv
<1>1. {"none", "assign", "check", "poll", "timer"} \subseteq Stages
  BY DEF Stages, Visiting
<1>2. CASE Eof(c)
  <2>1. /\ ClientsOK' /\ ResponsesOK' /\ WakeOK' /\ PoolOK' /\ MainOK' /\ EventsOK'
        /\ Asked' /\ BusyHave'
    BY <1>2, Frame DEF Eof, clientVars, responseVars, poolVars
  <2>2. ConnsOK'
    BY <1>2 DEF Eof, ConnsOK, Flags
  <2>3. PollOK'
    BY <1>1, <1>2, VisitType DEF Eof
  <2>4. InHandSent'
    BY <1>2, GotoInHand DEF Eof, clientVars
  <2> QED BY <2>1, <2>2, <2>3, <2>4, TypeGroupsNext
<1>3. CASE CreateThreads(c)
  <2>1. /\ ClientsOK' /\ ConnsOK' /\ ResponsesOK' /\ WakeOK' /\ MainOK' /\ EventsOK'
        /\ Asked' /\ BusyHave'
    BY <1>3, Frame DEF CreateThreads, clientVars, responseVars
  <2>2. stage[c] = "create" /\ \E there \in {"assign", "check"} : Goto(c, there)
    BY <1>3 DEF CreateThreads, Visit, Dispatched
  <2>3. PollOK'
    BY <1>1, <1>3, <2>2, VisitType DEF CreateThreads
  <2>4. InHandSent'
    BY <1>3, <2>2, GotoInHand DEF CreateThreads, clientVars
  <2>5. PoolOK'
    <3>1. jobs' \in Seq(Reqs)
      BY <1>3, <2>2, InHandRequest DEF CreateThreads, Post, PoolOK
    <3>2. UNCHANGED <<work, stopped, wpc, wreq>> /\ threads' \in BOOLEAN
      BY <1>3 DEF CreateThreads
    <3> QED BY <3>1, <3>2 DEF PoolOK
  <2> QED BY <2>1, <2>3, <2>4, <2>5, TypeGroupsNext
<1>4. CASE Assign(c)
  <2>1. /\ ClientsOK' /\ ConnsOK' /\ WakeOK' /\ PoolOK' /\ MainOK' /\ EventsOK'
        /\ Asked' /\ BusyHave'
    BY <1>4, Frame DEF Assign, clientVars, poolVars
  <2>2. ResponsesOK'
    <3>1. ready' \in [Reqs -> BOOLEAN]
      BY <1>4 DEF Assign, ResponsesOK, PollOK
    <3> QED BY <1>4, <3>1 DEF Assign, ResponsesOK
  <2>3. PollOK'
    <3>1. finished' \in BOOLEAN
      BY <1>4 DEF Assign
    <3> QED BY <1>1, <1>4, <3>1 DEF Assign, Goto, PollOK
  <2>4. InHandSent'
    BY <1>4, GotoInHand DEF Assign, Visit, clientVars
  <2> QED BY <2>1, <2>2, <2>3, <2>4, TypeGroupsNext
<1>5. CASE Check(c)
  <2>1. ClientsOK' /\ WakeOK' /\ PoolOK' /\ MainOK' /\ Asked' /\ BusyHave'
    BY <1>5, Frame DEF Check, clientVars, poolVars
  <2>2. EventsOK'
    BY <1>5, TakeEventType DEF Check, Fetch
  <2>3. PollOK'
    BY <1>1, <1>5, VisitType DEF Check
  <2>4. InHandSent'
    BY <1>5, GotoInHand DEF Check, clientVars
  <2>5. written' \in [Reqs -> Nat]
    <3>1. written' = written \/ written' = [written EXCEPT ![Handled(c)] = written[Handled(c)] + 1]
      BY <1>5 DEF Check, Write, WritesNothing
    <3> QED BY <3>1, CountUp DEF ResponsesOK
  <2>6. ResponsesOK'
    BY <1>5, <2>5 DEF Check, ResponsesOK
  <2>7. flags' \in [Conns -> SUBSET Flags]
    BY <1>5 DEF Check, ConnsOK, AfterFinish, Flags
  <2>8. out' \in [Conns -> Nat]
    <3>1. out' = out \/ out' = [out EXCEPT ![c] = out[c] + 1]
      BY <1>5 DEF Check, Write, WritesNothing
    <3> QED BY <3>1 DEF ConnsOK
  <2>9. cur' \in [Conns -> 0..MaxSends] /\ timer' \in [Conns -> {"off", "armed", "due"}]
    BY <1>5 DEF Check, ConnsOK, ClientsOK
  <2> QED BY <1>5, <2>1, <2>2, <2>3, <2>4, <2>6, <2>7, <2>8, <2>9, TypeGroupsNext DEF Check, ConnsOK
<1>6. CASE Flush(c)
  <2>1. /\ ResponsesOK' /\ WakeOK' /\ PoolOK' /\ MainOK' /\ EventsOK'
        /\ Asked' /\ BusyHave'
    BY <1>6, Frame DEF Flush, responseVars, poolVars
  <2>2. ClientsOK'
    BY <1>6 DEF Flush, ClientsOK, ConnsOK
  <2>3. ConnsOK'
    BY <1>6 DEF Flush, ConnsOK, Flags
  <2>4. PollOK'
    BY <1>1, <1>6, VisitType DEF Flush
  <2>5. InHandSent'
    BY <1>6, GotoInHand DEF Flush
  <2> QED BY <2>1, <2>2, <2>3, <2>4, <2>5, TypeGroupsNext
<1>7. CASE Poll(c)
  <2>1. ClientsOK' /\ WakeOK' /\ PoolOK' /\ MainOK' /\ Asked' /\ BusyHave'
    BY <1>7, Frame DEF Poll, clientVars, poolVars
  <2>2. EventsOK'
    BY <1>7, TakeEventType DEF Poll, Fetch
  <2>3. ConnsOK' /\ ResponsesOK' /\ PollOK' /\ InHandSent'
    <3>1. CASE WriteKept(c, <<c, cur[c]>>)
      BY <1>7, <3>1, WriteKeptType DEF Poll, clientVars, ResponsesOK
    <3>2. CASE ~WriteKept(c, <<c, cur[c]>>)
      <4>1. /\ WritesNothing /\ UNCHANGED <<cur, timer>>
            /\ flags' = [flags EXCEPT ![c] = CloseWhenIdle(@)]
            /\ \E there \in {"timer", "none"} : Goto(c, there)
        BY <1>7, <3>2 DEF Poll
      <4>2. ConnsOK'
        BY <1>7, <4>1 DEF Poll, WritesNothing, ConnsOK, CloseWhenIdle, Flags
      <4>3. ResponsesOK'
        BY <1>7, <4>1 DEF Poll, WritesNothing, ResponsesOK
      <4>4. PollOK'
        BY <1>1, <1>7, <4>1, VisitType DEF Poll
      <4>5. InHandSent'
        BY <1>7, <4>1, GotoInHand DEF Poll, clientVars
      <4> QED BY <4>2, <4>3, <4>4, <4>5
    <3> QED BY <3>1, <3>2
  <2> QED BY <2>1, <2>2, <2>3, TypeGroupsNext
<1>8. CASE Timer(c)
  <2>1. ClientsOK' /\ WakeOK' /\ PoolOK' /\ MainOK' /\ Asked' /\ BusyHave'
    BY <1>8, Frame DEF Timer, clientVars, poolVars
  <2>2. EventsOK'
    BY <1>8, TakeEventType DEF Timer
  <2>3. ready' \in [Reqs -> BOOLEAN] /\ late' \in [Reqs -> BOOLEAN]
    BY <1>8 DEF Timer, TimeoutMakesReady, ResponsesOK
  <2>4. ConnsOK' /\ ResponsesOK' /\ PollOK' /\ InHandSent'
    BY <1>8, <2>3, WriteKeptType DEF Timer, clientVars
  <2> QED BY <2>1, <2>2, <2>4, TypeGroupsNext
<1> QED BY <1>2, <1>3, <1>4, <1>5, <1>6, <1>7, <1>8

\* Every step keeps the types.
LEMMA NextType == TypeInv /\ [Next]_vars => TypeInv'
<1> SUFFICES ASSUME TypeInv, [Next]_vars PROVE TypeInv'
  OBVIOUS
<1>1. CASE UNCHANGED vars
  BY <1>1, Frame, TypeGroupsNext
     DEF vars, clientVars, connVars, responseVars, pollVars, poolVars, mainVars
<1>2. CASE Next
  BY <1>2, ClientsType, MainType, WorkerType, LoopType, HandlersType, VisitsType
     DEF Next, PollThread
<1> QED BY <1>1, <1>2

LEMMA TypeInvariant == Spec => []TypeInv
<1>1. Init => TypeInv
  BY InitType
<1>2. TypeInv /\ [Next]_vars => TypeInv'
  BY NextType
<1> QED BY <1>1, <1>2, PTL DEF Spec

(***************************************************************************)
(* The types hold, and with them the limit eventHandler puts on the queue  *)
(* of a subscription.                                                      *)
(***************************************************************************)
THEOREM TypeCorrect == Spec => []TypeOK
BY TypeInvariant, PTL DEF TypeInv

-----------------------------------------------------------------------------
(***************************************************************************)
(* Events, once and in order.  A subscription is made once, by a request   *)
(* that has been read; until then nothing has been queued for it.          *)
(***************************************************************************)

SubscribedOnce == \A s \in Subs : \A q \in Reqs :
    Asks(q, s) => s \notin Subscribed /\ \A p \in Reqs : Asks(p, s) => p = q
UnbornEmpty == \A s \in Subs : Unborn(s) => s \notin alive /\ taken[s] = <<>>
Ascending(q, n) == \A i \in 1..Len(q) : q[i] = n + i
Fifo == \A s \in Subs :
    /\ s \notin alive => queue[s] = <<>>
    /\ Ascending(taken[s], from[s])
    /\ Ascending(queue[s], from[s] + Len(taken[s]))
    /\ s \in alive => from[s] + Len(taken[s]) + Len(queue[s]) = published
OrderInv == SubscribedOnce /\ UnbornEmpty /\ Fifo

(* The queues as TypeOK has them.                                          *)
LEMMA QueuesType ==
  ASSUME TypeInv, NEW s \in Subs
  PROVE  /\ queue[s] \in Seq(1..published) /\ taken[s] \in Seq(1..published)
         /\ Len(queue[s]) \in Nat /\ Len(taken[s]) \in Nat
         /\ from[s] \in 0..published /\ from[s] \in Nat /\ published \in Nat
BY TypeGroups, BoundsAssumption DEF TypeInv, EventsOK, BoundsAssumption

\* Nothing has been queued at the start.
LEMMA OrderInit == Init => OrderInv
<1> SUFFICES ASSUME Init PROVE OrderInv
  OBVIOUS
<1>1. SubscribedOnce
  BY DEF Init, SubscribedOnce, Asks
<1>2. UnbornEmpty
  BY DEF Init, UnbornEmpty, Unborn
<1>3. ASSUME NEW s \in Subs
      PROVE queue[s] = <<>> /\ taken[s] = <<>> /\ from[s] = 0 /\ published = 0
  BY DEF Init
<1>4. Len(<<>>) = 0
  BY EmptySeq
<1>5. Fifo
  BY <1>3, <1>4 DEF Fifo, Ascending
<1> QED BY <1>1, <1>2, <1>5 DEF OrderInv

(* Requests are only read: no subscription becomes unborn.                 *)
LEMMA StillBorn ==
  ASSUME OrderInv, UNCHANGED <<what, sent>>, \A c \in Conns : inbox'[c] => inbox[c]
  PROVE  /\ SubscribedOnce'
         /\ \A s \in Subs : Unborn(s)' => Unborn(s)
<1>1. \A s : \A q : Asks(q, s)' <=> Asks(q, s)
  BY DEF Asks
<1>2. \A q \in Reqs : Unread(q)' => Unread(q)
  BY DEF Unread, Handled, Reqs
<1> QED BY <1>1, <1>2 DEF OrderInv, SubscribedOnce, Unborn

(* A request is sent: no subscription becomes unborn.                      *)
LEMMA SendBorn ==
  ASSUME TypeInv, OrderInv, NEW c \in Conns, NEW r \in Requests, Send(c, r)
  PROVE  /\ SubscribedOnce'
         /\ \A s \in Subs : Unborn(s)' => Unborn(s)
<1> DEFINE new == <<c, sent[c] + 1>>
<1>1. new \in Reqs /\ what[new] = NoRequest /\ sent[c] \in Nat
  BY TypeGroups, BoundsAssumption DEF TypeInv, ClientsOK, Asked, Reqs, Send, BoundsAssumption
<1>2. r # NoRequest
  BY RequestsAssumption DEF RequestsAssumption
<1>3. \A q \in Reqs : what'[q] = IF q = new THEN r ELSE what[q]
  BY <1>1, TypeGroups DEF TypeInv, ResponsesOK, Send
<1>4. \A s \in Subs : r.op = "subscribe" /\ r.sub = s =>
         s \notin Subscribed /\ \A q \in Reqs : ~Asks(q, s)
  BY DEF Send, NewSubscription, Asks
<1>5. SubscribedOnce'
  BY <1>1, <1>3, <1>4 DEF OrderInv, SubscribedOnce, Asks
<1>6. ASSUME NEW s \in Subs, Unborn(s)', NEW q \in Reqs, Asks(q, s) PROVE Unread(q)
  <2>1. q # new
    BY <1>1, <1>6 DEF Asks
  <2>2. Asks(q, s)'
    BY <1>3, <1>6, <2>1 DEF Asks
  <2>3. Unread(q)'
    BY <1>6, <2>2 DEF Unborn
  <2>4. sent' = [sent EXCEPT ![c] = sent[c] + 1] /\ inbox' = [inbox EXCEPT ![c] = TRUE]
    BY DEF Send
  <2>5. q[1] \in Conns /\ q[1] # c
    <3>1. q[1] \in Conns
      BY DEF Reqs
    <3>2. Handled(c)' = new
      BY <2>4, TypeGroups DEF TypeInv, ClientsOK, Handled
    <3> QED BY <2>1, <2>3, <3>1, <3>2 DEF Unread
  <2> QED BY <2>3, <2>4, <2>5, TypeGroups DEF TypeInv, ClientsOK, Unread, Handled
<1> QED BY <1>5, <1>6 DEF Unborn

(* The first of a queue goes to the end of what was taken.                 *)
LEMMA TakeFirst ==
  ASSUME NEW q \in Seq(Nat), NEW t \in Seq(Nat), NEW n \in Nat, q # <<>>,
         Ascending(t, n), Ascending(q, n + Len(t))
  PROVE  LET u == Append(t, Head(q))
             r == Tail(q)
         IN /\ Ascending(u, n) /\ Ascending(r, n + Len(u))
            /\ n + Len(u) + Len(r) = n + Len(t) + Len(q)
<1> DEFINE u == Append(t, Head(q))
           r == Tail(q)
<1>1. /\ Head(q) \in Nat /\ Head(q) = q[1] /\ Len(q) \in Nat /\ Len(q) > 0
      /\ Len(r) = Len(q) - 1 /\ \A i \in 1..Len(r) : r[i] = q[i + 1]
  BY HeadAndTail
<1>2. /\ Len(t) \in Nat /\ Len(u) = Len(t) + 1
      /\ \A i \in 1..Len(t) : u[i] = t[i]
      /\ u[Len(t) + 1] = Head(q)
  BY <1>1
<1>3. Head(q) = n + Len(t) + 1
  BY <1>1 DEF Ascending
<1> HIDE DEF u, r
<1>4. Ascending(u, n)
  <2> SUFFICES ASSUME NEW i \in 1..Len(u) PROVE u[i] = n + i
    BY DEF Ascending
  <2>1. i \in 1..Len(t) \/ i = Len(t) + 1
    BY <1>2
  <2>2. CASE i \in 1..Len(t)
    BY <1>2, <2>2 DEF Ascending
  <2>3. CASE i = Len(t) + 1
    <3>1. u[i] = Head(q) /\ n + i = n + Len(t) + 1
      BY <1>2, <2>3
    <3> QED BY <1>3, <3>1
  <2> QED BY <2>1, <2>2, <2>3
<1>5. Ascending(r, n + Len(u))
  <2> SUFFICES ASSUME NEW i \in 1..Len(r) PROVE r[i] = n + Len(u) + i
    BY DEF Ascending
  <2>1. i + 1 \in 1..Len(q)
    BY <1>1
  <2>2. q[i + 1] = n + Len(t) + (i + 1)
    BY <2>1 DEF Ascending
  <2> QED BY <1>1, <1>2, <2>2
<1>6. n + Len(u) + Len(r) = n + Len(t) + Len(q)
  <2>1. \A x, y \in Nat : y > 0 => n + (x + 1) + (y - 1) = n + x + y
    OBVIOUS
  <2>2. n + (Len(t) + 1) + (Len(q) - 1) = n + Len(t) + Len(q)
    BY <1>1, <1>2, <2>1
  <2> QED BY <1>1, <1>2, <2>2
<1> QED BY <1>4, <1>5, <1>6 DEF u, r

(* Handing out an event keeps the order.                                   *)
LEMMA TakeEventOrder ==
  ASSUME TypeInv, OrderInv, NEW q, TakeEvent(q) \/ TakesNothing,
         UNCHANGED <<alive, published, from>>
  PROVE  Fifo' /\ \A s \in Subs : s \notin alive => taken'[s] = taken[s]
<1>1. CASE UNCHANGED <<queue, event, taken>>
  BY <1>1 DEF OrderInv, Fifo
<1>2. CASE ~UNCHANGED <<queue, event, taken>>
  <2> DEFINE s == what[q].sub
  <2>1. /\ s \in alive /\ queue[s] # <<>>
        /\ queue' = [queue EXCEPT ![s] = Tail(@)]
        /\ taken' = [taken EXCEPT ![s] = Append(@, Head(queue[s]))]
    BY <1>2 DEF TakeEvent, TakesNothing
  <2> HIDE DEF s
  <2>2. /\ s \in Subs /\ queue \in [Subs -> Seq(1..published)]
        /\ taken \in [Subs -> Seq(1..published)]
    BY <2>1, TypeGroups DEF TypeInv, EventsOK
  <2>3. /\ queue[s] \in Seq(1..published) /\ taken[s] \in Seq(1..published)
        /\ published \in Nat /\ from[s] \in Nat
    BY <2>2, QueuesType
  <2>4. queue'[s] = Tail(queue[s]) /\ taken'[s] = Append(taken[s], Head(queue[s]))
    BY <2>1, <2>2
  <2>5. /\ Ascending(taken[s], from[s]) /\ Ascending(queue[s], from[s] + Len(taken[s]))
        /\ from[s] + Len(taken[s]) + Len(queue[s]) = published
    BY <2>1, <2>2 DEF OrderInv, Fifo
  <2>6. /\ Ascending(taken'[s], from[s]) /\ Ascending(queue'[s], from[s] + Len(taken'[s]))
        /\ from[s] + Len(taken'[s]) + Len(queue'[s]) = published
    <3>1. queue[s] \in Seq(Nat) /\ taken[s] \in Seq(Nat)
      BY <2>3
    <3>2. /\ Ascending(Append(taken[s], Head(queue[s])), from[s])
          /\ Ascending(Tail(queue[s]), from[s] + Len(Append(taken[s], Head(queue[s]))))
          /\ from[s] + Len(Append(taken[s], Head(queue[s]))) + Len(Tail(queue[s]))
                 = from[s] + Len(taken[s]) + Len(queue[s])
      <4>1. queue[s] # <<>> /\ from[s] \in Nat
        BY <2>1, <2>3
      <4> QED BY <2>5, <3>1, <4>1, TakeFirst, Zenon
    <3> QED BY <2>4, <2>5, <3>2
  <2>11. \A t \in Subs : t # s => queue'[t] = queue[t] /\ taken'[t] = taken[t]
    BY <2>1, <2>2
  <2>12. Fifo'
    BY <2>1, <2>2, <2>6, <2>11 DEF OrderInv, Fifo
  <2> QED BY <2>1, <2>11, <2>12
<1> QED BY <1>1, <1>2

(* An event comes in: it is the next of each subscription that lives on.   *)
LEMMA EventOrder ==
  ASSUME TypeInv, OrderInv, EventHandler
  PROVE  Fifo'
<1>1. published' = published + 1 /\ UNCHANGED <<from, taken>> /\ published \in Nat
  BY TypeGroups, BoundsAssumption DEF EventHandler, TypeInv, EventsOK, BoundsAssumption
<1>2. SUFFICES ASSUME NEW s \in Subs
      PROVE  /\ s \notin alive' => queue'[s] = <<>>
             /\ Ascending(queue'[s], from[s] + Len(taken[s]))
             /\ s \in alive' => from[s] + Len(taken[s]) + Len(queue'[s]) = published + 1
  BY <1>1 DEF OrderInv, Fifo
<1>3. /\ s \in alive' <=> s \in alive /\ ~Abandoned(s)
      /\ queue'[s] = IF s \notin alive THEN queue[s]
                     ELSE IF Abandoned(s) THEN <<>> ELSE Append(queue[s], published + 1)
  BY DEF EventHandler, Enqueue
<1>4. /\ s \notin alive => queue[s] = <<>>
      /\ Ascending(queue[s], from[s] + Len(taken[s]))
      /\ s \in alive => from[s] + Len(taken[s]) + Len(queue[s]) = published
  BY DEF OrderInv, Fifo
<1>5. Ascending(<<>>, from[s] + Len(taken[s]))
  BY EmptySeq DEF Ascending
<1>6. CASE s \notin alive
  BY <1>3, <1>4, <1>6
<1>7. CASE s \in alive /\ Abandoned(s)
  BY <1>3, <1>5, <1>7
<1>8. CASE s \in alive /\ ~Abandoned(s)
  <2>1. /\ queue[s] \in Seq(1..published) /\ Len(queue[s]) \in Nat
        /\ Len(taken[s]) \in Nat /\ from[s] \in Nat
    BY QueuesType
  <2>2. queue'[s] = Append(queue[s], published + 1) /\ s \in alive'
    BY <1>3, <1>8
  <2>3. /\ Len(queue'[s]) = Len(queue[s]) + 1
        /\ \A i \in 1..Len(queue[s]) : queue'[s][i] = queue[s][i]
        /\ queue'[s][Len(queue[s]) + 1] = published + 1
    BY <2>1, <2>2
  <2>4. from[s] + Len(taken[s]) + Len(queue'[s]) = published + 1
    <3>1. from[s] + Len(taken[s]) + Len(queue[s]) = published
      BY <1>4, <1>8
    <3>2. \A a, b, d \in Nat : a + b + (d + 1) = (a + b + d) + 1
      OBVIOUS
    <3>3. from[s] + Len(taken[s]) + (Len(queue[s]) + 1) = published + 1
      BY <2>1, <3>1, <3>2
    <3> QED BY <2>3, <3>3
  <2>5. ASSUME NEW i \in 1..Len(queue'[s]) PROVE queue'[s][i] = from[s] + Len(taken[s]) + i
    <3>1. i \in 1..Len(queue[s]) \/ i = Len(queue[s]) + 1
      BY <2>1, <2>3
    <3>2. CASE i \in 1..Len(queue[s])
      BY <1>4, <2>3, <3>2 DEF Ascending
    <3>3. CASE i = Len(queue[s]) + 1
      BY <2>3, <2>4, <3>3
    <3> QED BY <3>1, <3>2, <3>3
  <2> QED BY <2>2, <2>4, <2>5 DEF Ascending
<1> QED BY <1>6, <1>7, <1>8

(* A subscription begins, or ends.                                         *)
LEMMA LocalOrder ==
  ASSUME TypeInv, OrderInv, NEW c \in Conns, HandleLocal(c)
  PROVE  /\ Fifo' /\ UNCHANGED taken
         /\ \A s \in Subs : Unborn(s)' => s \notin alive'
<1> DEFINE r == what[Handled(c)]
<1>1. stage[c] = "read" /\ inbox[c]
  BY DEF HandleLocal, Receive, Visit, TypeInv, InHandSent
<1>2. Handled(c) \in Reqs /\ r \in Request /\ r # NoRequest /\ Unread(Handled(c))
  BY <1>1, InHandRequest, RequestsAssumption DEF Unread, Handled, RequestsAssumption
<1>3. PICK s \in Subs : s = r.sub
  BY <1>2 DEF Request
<1>4. UNCHANGED <<published, taken>> /\ (Subscribe(s) \/ Unsubscribe(s))
  BY <1>3 DEF HandleLocal, Receive
<1>5. UNCHANGED <<what, sent>> /\ \A d \in Conns : inbox'[d] => inbox[d]
  <2>1. inbox' = [inbox EXCEPT ![c] = FALSE] /\ UNCHANGED <<what, sent>>
    BY DEF HandleLocal, Receive
  <2> QED BY <2>1, TypeGroups DEF TypeInv, ClientsOK
<1>6. \A t \in Subs : Unborn(t)' => Unborn(t) /\ t \notin alive
  BY <1>5, StillBorn DEF OrderInv, UnbornEmpty
<1>7. CASE r.op = "subscribe" /\ Subscribe(s)
  <2>1. Asks(Handled(c), s)
    BY <1>2, <1>3, <1>7 DEF Asks
  <2>2. Unborn(s)
    BY <1>2, <1>3, <2>1 DEF OrderInv, SubscribedOnce, Unborn
  <2>3. ~Unborn(s)'
    <3>1. Asks(Handled(c), s)' /\ ~inbox'[c] /\ Handled(c)' = Handled(c)
      BY <1>5, <2>1, TypeGroups DEF HandleLocal, Receive, Asks, Handled, TypeInv, ClientsOK
    <3> QED BY <1>2, <3>1 DEF Unborn, Unread, Handled
  <2>4. s \notin alive /\ taken[s] = <<>> /\ queue[s] = <<>>
    BY <1>3, <2>2 DEF OrderInv, UnbornEmpty, Fifo
  <2>5. /\ alive' = alive \cup {s} /\ UNCHANGED queue
        /\ from' = [from EXCEPT ![s] = published]
    BY <1>7 DEF Subscribe
  <2>6. from'[s] = published /\ \A t \in Subs : t # s => from'[t] = from[t]
    BY <1>3, <2>5, TypeGroups DEF TypeInv, EventsOK
  <2> HIDE DEF r
  <2>7. ASSUME NEW t \in Subs
        PROVE  /\ t \notin alive' => queue'[t] = <<>>
               /\ Ascending(taken'[t], from'[t])
               /\ Ascending(queue'[t], from'[t] + Len(taken'[t]))
               /\ t \in alive' => from'[t] + Len(taken'[t]) + Len(queue'[t]) = published'
    <3>1. CASE t = s
      <4>1. Len(<<>>) = 0 /\ published \in Nat
        BY EmptySeq, QueuesType
      <4>2. Ascending(<<>>, published) /\ Ascending(<<>>, published + 0)
        BY <4>1 DEF Ascending
      <4> QED BY <1>4, <2>4, <2>5, <2>6, <3>1, <4>1, <4>2
    <3>2. CASE t # s
      BY <1>4, <2>5, <2>6, <3>2 DEF OrderInv, Fifo
    <3> QED BY <3>1, <3>2
  <2>8. Fifo'
    BY <2>7 DEF Fifo
  <2>9. ASSUME NEW t \in Subs, Unborn(t)' PROVE t \notin alive'
    <3>1. t # s
      BY <2>3, <2>9 DEF Unborn, Asks, Unread, Handled
    <3>2. t \notin alive
      BY <1>6, <2>9
    <3> QED BY <2>5, <3>1, <3>2
  <2> QED BY <1>4, <2>8, <2>9
<1>8. CASE Unsubscribe(s)
  <2>1. alive' = alive \ {s} /\ queue' = [queue EXCEPT ![s] = <<>>] /\ UNCHANGED from
    BY <1>8 DEF Unsubscribe
  <2>2. queue'[s] = <<>> /\ \A t \in Subs : t # s => queue'[t] = queue[t]
    BY <1>3, <2>1, TypeGroups DEF TypeInv, EventsOK
  <2> HIDE DEF r
  <2>3. Ascending(<<>>, from[s] + Len(taken[s]))
    BY EmptySeq DEF Ascending
  <2>4. Fifo'
    BY <1>4, <2>1, <2>2, <2>3 DEF OrderInv, Fifo
  <2> QED BY <1>4, <1>6, <2>1, <2>4
<1> QED BY <1>3, <1>4, <1>7, <1>8 DEF HandleLocal

(* What is not yet subscribed stays empty.                                 *)
LEMMA StillEmpty ==
  ASSUME OrderInv, \A s \in Subs : Unborn(s)' => Unborn(s), alive' \subseteq alive,
         \A s \in Subs : s \notin alive => taken'[s] = taken[s]
  PROVE  UnbornEmpty'
BY DEF OrderInv, UnbornEmpty

\* Every step keeps the order.
LEMMA OrderNext == TypeInv /\ OrderInv /\ [Next]_vars => OrderInv'
<1> SUFFICES ASSUME TypeInv, OrderInv, [Next]_vars PROVE OrderInv'
  OBVIOUS
<1>1. CASE UNCHANGED <<what, sent, inbox, alive, queue, published, from, taken>>
  <2>1. Fifo'
    BY <1>1 DEF OrderInv, Fifo
  <2> QED BY <1>1, <2>1, StillBorn, StillEmpty DEF OrderInv
<1>2. ASSUME NEW c \in Conns, NEW r \in Requests, Send(c, r) PROVE OrderInv'
  <2>1. UNCHANGED <<alive, queue, published, from, taken>>
    BY <1>2 DEF Send, subVars
  <2>2. Fifo'
    BY <2>1 DEF OrderInv, Fifo
  <2> QED BY <1>2, <2>1, <2>2, SendBorn, StillEmpty DEF OrderInv
<1>3. CASE EventHandler
  <2>1. UNCHANGED <<what, sent, inbox, taken>> /\ alive' \subseteq alive
    BY <1>3 DEF EventHandler, Enqueue, clientVars, responseVars
  <2> QED BY <1>3, <2>1, EventOrder, StillBorn, StillEmpty DEF OrderInv
<1>4. ASSUME NEW c \in Conns,
             HandleLocal(c) \/ HandleGetevent(c) \/ HandlePooled(c)
      PROVE  OrderInv'
  <2>1. UNCHANGED <<what, sent>> /\ \A d \in Conns : inbox'[d] => inbox[d]
    <3>1. UNCHANGED <<what, sent>> /\ inbox' = [inbox EXCEPT ![c] = FALSE]
      BY <1>4 DEF HandleLocal, HandleGetevent, HandlePooled, Receive
    <3> QED BY <3>1, TypeGroups DEF TypeInv, ClientsOK
  <2>2. CASE HandleLocal(c)
    <3>1. Fifo' /\ UNCHANGED taken /\ \A s \in Subs : Unborn(s)' => s \notin alive'
      BY <2>2, LocalOrder
    <3>2. UnbornEmpty'
      BY <2>1, <3>1, StillBorn DEF OrderInv, UnbornEmpty
    <3> QED BY <2>1, <3>1, <3>2, StillBorn DEF OrderInv
  <2>3. CASE HandleGetevent(c)
    <3>1. /\ TakeEvent(Handled(c)) \/ TakesNothing
          /\ UNCHANGED <<alive, published, from>>
      BY <2>3 DEF HandleGetevent, Receive
    <3> QED BY <2>1, <3>1, TakeEventOrder, StillBorn, StillEmpty DEF OrderInv
  <2>4. CASE HandlePooled(c)
    <3>1. UNCHANGED <<alive, queue, published, from, taken>>
      BY <2>4 DEF HandlePooled, Receive
    <3>2. Fifo'
      BY <3>1 DEF OrderInv, Fifo
    <3> QED BY <2>1, <3>1, <3>2, StillBorn, StillEmpty DEF OrderInv
  <2> QED BY <1>4, <2>2, <2>3, <2>4
<1>5. ASSUME NEW c \in Conns, Check(c) \/ Poll(c) \/ Timer(c)
      PROVE  OrderInv'
  <2>1. UNCHANGED <<what, sent, inbox, alive, published, from>>
    BY <1>5 DEF Check, Poll, Timer, clientVars
  <2>2. \E q : TakeEvent(q) \/ TakesNothing
    BY <1>5 DEF Check, Poll, Timer, Fetch
  <2> QED BY <2>1, <2>2, TakeEventOrder, StillBorn, StillEmpty DEF OrderInv
<1>6. CASE UNCHANGED vars
  BY <1>1, <1>6 DEF vars, clientVars, responseVars, subVars
<1>7. ASSUME NEW c \in Conns, HangUp(c) \/ Expire(c) \/ Accept(c) PROVE OrderInv'
  BY <1>1, <1>7 DEF HangUp, Expire, Accept, clientVars, responseVars, subVars
<1>8. ASSUME NEW c \in Conns, Eof(c) \/ CreateThreads(c) \/ Assign(c) \/ Flush(c)
      PROVE  OrderInv'
  BY <1>1, <1>8 DEF Eof, CreateThreads, Assign, Flush, clientVars, responseVars, subVars
<1>9. CASE Select \/ EndIteration \/ MainThread \/ SignalExit
  <2>1. UNCHANGED <<clientVars, responseVars, subVars>>
    BY <1>9 DEF Select, EndIteration, MainThread, SignalExit, MainSend, MainAck, Shutdown,
       ShutdownAck, SetShuttingDown, CleanupThreadPool, JoinAll, Close
  <2> QED BY <1>1, <2>1 DEF clientVars, responseVars, subVars
<1>10. ASSUME NEW w \in Workers, Worker(w) PROVE OrderInv'
  <2>1. UNCHANGED <<clientVars, what, subVars>>
    BY <1>10 DEF Worker, TakeJob, Begin, Return, Call, StoreResponse, WakeupChecked, WorkerSend,
       WorkerAck, responseVars
  <2> QED BY <1>1, <2>1 DEF clientVars, subVars
<1> QED BY <1>2, <1>3, <1>4, <1>5, <1>6, <1>7, <1>8, <1>9, <1>10 DEF Next, PollThread

(* Ascending queues, one behind the other.                                 *)
LEMMA SeenInOrder ==
  ASSUME NEW t \in Seq(Nat), NEW q \in Seq(Nat), NEW n \in Nat,
         Ascending(t, n), Ascending(q, n + Len(t))
  PROVE  /\ t \o q = [i \in 1..Len(t \o q) |-> n + i]
         /\ Len(t \o q) = Len(t) + Len(q)
<1> DEFINE seen == t \o q
<1>1. /\ seen \in Seq(Nat) /\ Len(seen) = Len(t) + Len(q)
      /\ Len(t) \in Nat /\ Len(q) \in Nat
      /\ \A i \in 1..Len(seen) : seen[i] = IF i <= Len(t) THEN t[i] ELSE q[i - Len(t)]
  BY ConcatProperties
<1> HIDE DEF seen
<1>2. ASSUME NEW i \in 1..Len(seen) PROVE seen[i] = n + i
  <2>1. CASE i <= Len(t)
    BY <1>1, <2>1 DEF Ascending
  <2>2. CASE ~(i <= Len(t))
    <3>1. i - Len(t) \in 1..Len(q)
      BY <1>1, <2>2
    <3>2. q[i - Len(t)] = n + Len(t) + (i - Len(t))
      BY <3>1 DEF Ascending
    <3> QED BY <1>1, <2>2, <3>2
  <2> QED BY <2>1, <2>2
<1>3. seen = [i \in 1..Len(seen) |-> seen[i]]
  BY <1>1
<1> QED BY <1>1, <1>2, <1>3 DEF seen

(***************************************************************************)
(* Events of a subscription are handed out once, in the order of the bus   *)
(* and without a gap (eventHandler, getEventsFor).                         *)
(***************************************************************************)
THEOREM OnceInOrderCorrect == Spec => []OnceInOrder
<1>1. Init => OrderInv
  BY OrderInit
<1>2. TypeInv /\ OrderInv /\ [Next]_vars => OrderInv'
  BY OrderNext
<1>3. TypeInv /\ OrderInv => OnceInOrder
  <2> SUFFICES ASSUME TypeInv, OrderInv, NEW s \in Subs
      PROVE LET seen == taken[s] \o queue[s]
            IN /\ seen = [i \in 1..Len(seen) |-> from[s] + i]
               /\ s \in alive => from[s] + Len(seen) = published
    BY DEF OnceInOrder
  <2>1. /\ queue[s] \in Seq(Nat) /\ taken[s] \in Seq(Nat) /\ from[s] \in Nat
        /\ Len(queue[s]) \in Nat /\ Len(taken[s]) \in Nat
    BY QueuesType
  <2>2. /\ Ascending(taken[s], from[s]) /\ Ascending(queue[s], from[s] + Len(taken[s]))
        /\ s \in alive => from[s] + Len(taken[s]) + Len(queue[s]) = published
    BY DEF OrderInv, Fifo
  <2>3. /\ taken[s] \o queue[s] = [i \in 1..Len(taken[s] \o queue[s]) |-> from[s] + i]
        /\ Len(taken[s] \o queue[s]) = Len(taken[s]) + Len(queue[s])
    BY <2>1, <2>2, SeenInOrder
  <2>4. from[s] + (Len(taken[s]) + Len(queue[s])) = from[s] + Len(taken[s]) + Len(queue[s])
    <3>1. \A a, b, d \in Nat : a + (b + d) = a + b + d
      OBVIOUS
    <3> QED BY <2>1, <3>1
  <2> QED BY <2>2, <2>3, <2>4
<1> QED BY <1>1, <1>2, <1>3, TypeInvariant, PTL DEF Spec

-----------------------------------------------------------------------------
(***************************************************************************)
(* Answers.  A request is in one place: unread, with its handler, or kept  *)
(* by its connection.  While it is, it has no answer, and its client, who  *)
(* has got or will get as many answers as were written, waits.             *)
(***************************************************************************)
Handling(c) == stage[c] \in {"create", "assign", "check"}
Waits(c)    == inbox[c] \/ Handling(c) \/ cur[c] # 0
InOnePlace(c) ==
    /\ inbox[c] => ~Handling(c) /\ cur[c] = 0
    /\ Handling(c) => cur[c] = 0
    /\ cur[c] # 0 => cur[c] = sent[c]
    /\ timer[c] # "off" \/ stage[c] = "timer" => cur[c] # 0
Owed(c) == got[c] + out[c] <= sent[c] /\ (Waits(c) => got[c] + out[c] < sent[c])
Unanswered(c, n) == written[<<c, n>>] = 0 /\ ~late[<<c, n>>]
Answers(c) == \A n \in 1..MaxSends :
    /\ written[<<c, n>>] <= 1
    /\ n > sent[c] \/ (n = sent[c] /\ Waits(c)) => Unanswered(c, n)
AnswerInv == \A c \in Conns : InOnePlace(c) /\ Owed(c) /\ Answers(c)

LEMMA ConnType ==
  ASSUME TypeInv, NEW c \in Conns
  PROVE  /\ sent[c] \in 0..MaxSends /\ sent[c] \in Nat /\ got[c] \in Nat /\ out[c] \in Nat
         /\ cur[c] \in Nat /\ inbox[c] \in BOOLEAN
         /\ \A n \in 1..MaxSends : <<c, n>> \in Reqs /\ written[<<c, n>>] \in Nat
BY TypeGroups, BoundsAssumption
   DEF TypeInv, ClientsOK, ConnsOK, ResponsesOK, Reqs, BoundsAssumption

\* No request at the start.
LEMMA AnswerInit == Init => AnswerInv
<1> SUFFICES ASSUME Init, NEW c \in Conns PROVE InOnePlace(c) /\ Owed(c) /\ Answers(c)
  BY DEF AnswerInv
<1>1. InOnePlace(c) /\ Owed(c)
  BY DEF Init, InOnePlace, Owed, Waits, Handling
<1>2. ASSUME NEW n \in 1..MaxSends PROVE written[<<c, n>>] = 0 /\ ~late[<<c, n>>]
  BY DEF Init, Reqs
<1> QED BY <1>1, <1>2 DEF Answers, Unanswered

(* A connection to which nothing happens.                                  *)
LEMMA AnswerFrame ==
  ASSUME AnswerInv, NEW d \in Conns,
         /\ sent'[d] = sent[d] /\ inbox'[d] = inbox[d] /\ cur'[d] = cur[d]
         /\ timer'[d] = "off" \/ timer[d] # "off"
         /\ Handling(d)' => Handling(d)
         /\ stage'[d] = "timer" => stage[d] = "timer" \/ cur[d] # 0
         /\ got'[d] + out'[d] = got[d] + out[d],
         \A n \in 1..MaxSends : /\ written'[<<d, n>>] = written[<<d, n>>]
                                /\ late'[<<d, n>>] = late[<<d, n>>]
  PROVE  (InOnePlace(d) /\ Owed(d) /\ Answers(d))'
<1>1. Waits(d)' => Waits(d)
  BY DEF Waits
<1>2. InOnePlace(d)'
  BY DEF AnswerInv, InOnePlace
<1>3. Owed(d)'
  BY <1>1 DEF AnswerInv, Owed
<1>4. Answers(d)'
  BY <1>1 DEF AnswerInv, Answers, Unanswered
<1> QED BY <1>2, <1>3, <1>4

(* A request is sent.                                                      *)
LEMMA AnswerSend ==
  ASSUME TypeInv, AnswerInv, NEW c \in Conns, NEW r \in Requests, Send(c, r)
  PROVE  AnswerInv'
<1> SUFFICES ASSUME NEW d \in Conns PROVE (InOnePlace(d) /\ Owed(d) /\ Answers(d))'
  BY DEF AnswerInv
<1> USE ConnType
<1>1. /\ sent' = [sent EXCEPT ![c] = sent[c] + 1] /\ inbox' = [inbox EXCEPT ![c] = TRUE]
      /\ UNCHANGED <<got, out, cur, timer, stage, written, late>>
      /\ sent[c] = got[c] /\ sent[c] < MaxSends
  BY DEF Send, connVars, pollVars
<1>2. CASE d # c
  <2>1. sent'[d] = sent[d] /\ inbox'[d] = inbox[d]
    BY <1>1, <1>2
  <2> QED BY <1>1, <2>1, AnswerFrame DEF Handling
<1>3. CASE d = c
  <2>1. sent'[c] = sent[c] + 1 /\ inbox'[c]
    BY <1>1, TypeGroups DEF TypeInv, ClientsOK
  <2>2. ~Waits(c) /\ out[c] = 0
    BY <1>1 DEF AnswerInv, Owed
  <2>3. InOnePlace(c)'
    BY <1>1, <2>1, <2>2 DEF AnswerInv, InOnePlace, Waits, Handling
  <2>4. Owed(c)'
    BY <1>1, <2>1, <2>2 DEF Owed
  <2>5. Answers(c)'
    <3>1. \A n \in 1..MaxSends : n >= sent'[c] => n > sent[c]
      BY <2>1
    <3>2. \A n \in 1..MaxSends : n > sent[c] => Unanswered(c, n)
      BY DEF AnswerInv, Answers
    <3>3. \A n \in 1..MaxSends : written[<<c, n>>] <= 1
      BY DEF AnswerInv, Answers
    <3> QED BY <1>1, <2>1, <3>1, <3>2, <3>3 DEF Answers, Unanswered
  <2> QED BY <1>3, <2>3, <2>4, <2>5
<1> QED BY <1>2, <1>3

(* The handlers of requests: from the inbox to the handler.                *)
LEMMA AnswerHandle ==
  ASSUME TypeInv, AnswerInv, NEW c \in Conns,
         \/ HandleLocal(c) \/ HandleGetevent(c) \/ HandlePooled(c)
         \/ CreateThreads(c) \/ Assign(c)
  PROVE  AnswerInv'
<1> SUFFICES ASSUME NEW d \in Conns PROVE (InOnePlace(d) /\ Owed(d) /\ Answers(d))'
  BY DEF AnswerInv
<1> USE ConnType
<1>1. /\ UNCHANGED <<sent, got, cur, timer, out, written, late>>
      /\ \E there \in {"create", "assign", "check"} : stage' = [stage EXCEPT ![c] = there]
      /\ UNCHANGED inbox \/ inbox' = [inbox EXCEPT ![c] = FALSE]
      /\ stage[c] \in {"read", "create", "assign"}
      /\ stage[c] # "read" => UNCHANGED inbox
      /\ stage[c] = "read" => inbox' = [inbox EXCEPT ![c] = FALSE]
  BY DEF HandleLocal, HandleGetevent, HandlePooled, CreateThreads, Assign, Receive, Visit, Goto,
         Dispatched, clientVars, connVars, responseVars
<1>2. stage'[c] \in {"create", "assign", "check"} /\ \A e \in Conns : e # c => stage'[e] = stage[e]
  BY <1>1, TypeGroups DEF TypeInv, PollOK
<1>3. ~inbox'[c] /\ \A e \in Conns : e # c => inbox'[e] = inbox[e]
  <2>1. stage[c] # "read" => ~inbox[c]
    BY <1>1 DEF AnswerInv, InOnePlace, Handling
  <2> QED BY <1>1, <2>1, TypeGroups DEF TypeInv, ClientsOK
<1>4. Waits(c) /\ cur[c] = 0
  BY <1>1 DEF Waits, Handling, TypeInv, InHandSent, AnswerInv, InOnePlace
<1>5. CASE d # c
  BY <1>1, <1>2, <1>3, <1>5, AnswerFrame DEF Handling
<1>6. CASE d = c
  <2>1. InOnePlace(c)'
    BY <1>1, <1>2, <1>3, <1>4 DEF InOnePlace, AnswerInv, Handling
  <2>2. Owed(c)'
    BY <1>1, <1>4 DEF Owed, AnswerInv
  <2>3. Answers(c)'
    BY <1>1, <1>4 DEF Answers, AnswerInv, Unanswered
  <2> QED BY <1>6, <2>1, <2>2, <2>3
<1> QED BY <1>5, <1>6

(* The answer to a request is written.                                     *)
LEMMA AnswerWritten ==
  ASSUME TypeInv, AnswerInv, NEW c \in Conns, Write(c, Handled(c)),
         Waits(c), ~inbox[c], cur'[c] = 0, timer'[c] = "off",
         UNCHANGED <<sent, got, inbox>>,
         \E there \in {"none", "poll"} : Goto(c, there),
         \A e \in Conns : e # c => cur'[e] = cur[e] /\ timer'[e] = timer[e],
         late' = late \/ late' = [late EXCEPT ![Handled(c)] = TRUE]
  PROVE  AnswerInv'
<1> SUFFICES ASSUME NEW d \in Conns PROVE (InOnePlace(d) /\ Owed(d) /\ Answers(d))'
  BY DEF AnswerInv
<1> USE ConnType
<1>1. stage'[c] \in {"none", "poll"} /\ \A e \in Conns : e # c => stage'[e] = stage[e]
  BY TypeGroups DEF TypeInv, PollOK, Goto
<1>2. out'[c] = out[c] + 1 /\ \A e \in Conns : e # c => out'[e] = out[e]
  BY TypeGroups DEF TypeInv, ConnsOK, Write
<1>3. sent[c] \in 1..MaxSends
  BY DEF AnswerInv, Owed
<1>4. ASSUME NEW e \in Conns, NEW n \in 1..MaxSends
      PROVE  /\ written'[<<e, n>>] = IF e = c /\ n = sent[c] THEN written[<<e, n>>] + 1
                                     ELSE written[<<e, n>>]
             /\ e # c \/ n # sent[c] => late'[<<e, n>>] = late[<<e, n>>]
  <2>1. <<e, n>> = Handled(c) <=> e = c /\ n = sent[c]
    BY DEF Handled
  <2>2. <<e, n>> \in Reqs
    OBVIOUS
  <2>3. written' = [written EXCEPT ![Handled(c)] = written[Handled(c)] + 1]
    BY DEF Write
  <2> QED BY <2>1, <2>2, <2>3, TypeGroups DEF TypeInv, ResponsesOK
<1>5. CASE d # c
  BY <1>1, <1>2, <1>4, <1>5, AnswerFrame DEF Handling
<1>6. CASE d = c
  <2>1. InOnePlace(c)' /\ ~Waits(c)'
    BY <1>1 DEF InOnePlace, Handling, Waits
  <2>2. Owed(c)'
    BY <1>2, <2>1 DEF Owed, AnswerInv
  <2>3. ASSUME NEW n \in 1..MaxSends
        PROVE  written'[<<c, n>>] <= 1 /\ (n > sent[c] => Unanswered(c, n)')
    <3>1. CASE n = sent[c]
      <4>1. written[<<c, n>>] = 0
        BY <3>1 DEF AnswerInv, Answers, Unanswered
      <4> QED BY <1>3, <1>4, <3>1, <4>1
    <3>2. CASE n # sent[c]
      BY <1>4, <3>2 DEF AnswerInv, Answers, Unanswered
    <3> QED BY <3>1, <3>2
  <2>4. Answers(c)'
    BY <2>1, <2>3 DEF Answers
  <2> QED BY <1>6, <2>1, <2>2, <2>4
<1> QED BY <1>5, <1>6

(* The rest of a visit: the request is answered, kept, or untouched.       *)
LEMMA AnswerVisit ==
  ASSUME TypeInv, AnswerInv, NEW c \in Conns, Check(c) \/ Poll(c) \/ Timer(c)
  PROVE  AnswerInv'
<1> USE ConnType
<1>1. UNCHANGED <<sent, got, inbox>>
  BY DEF Check, Poll, Timer, clientVars
<1>2. CASE Check(c)
  <2>1. stage[c] = "check" /\ Goto(c, "poll") /\ UNCHANGED late
    BY <1>2 DEF Check, Visit
  <2>2. Waits(c) /\ ~inbox[c] /\ cur[c] = 0 /\ timer[c] = "off"
    BY <2>1 DEF Waits, Handling, AnswerInv, InOnePlace
  <2>3. CASE Write(c, Handled(c)) /\ UNCHANGED <<cur, timer>>
    BY <1>1, <2>1, <2>2, <2>3, AnswerWritten
  <2>4. CASE /\ cur' = [cur EXCEPT ![c] = sent[c]] /\ timer' = [timer EXCEPT ![c] = "armed"]
             /\ WritesNothing
    <3> SUFFICES ASSUME NEW d \in Conns PROVE (InOnePlace(d) /\ Owed(d) /\ Answers(d))'
      BY DEF AnswerInv
    <3>1. /\ stage'[c] = "poll" /\ cur'[c] = sent[c] /\ timer'[c] = "armed"
          /\ \A e \in Conns : e # c => /\ stage'[e] = stage[e] /\ cur'[e] = cur[e]
                                       /\ timer'[e] = timer[e]
      BY <2>1, <2>4, TypeGroups DEF TypeInv, PollOK, ConnsOK, Goto
    <3>2. sent[c] # 0
      BY <2>2 DEF AnswerInv, Owed
    <3>3. UNCHANGED <<written, out, late>>
      BY <2>1, <2>4 DEF WritesNothing
    <3>4. CASE d # c
      BY <1>1, <3>1, <3>3, <3>4, AnswerFrame DEF Handling
    <3>5. CASE d = c
      <4>1. InOnePlace(c)'
        BY <1>1, <2>2, <3>1, <3>2 DEF InOnePlace, Handling
      <4>2. Owed(c)'
        BY <1>1, <2>2, <3>3 DEF Owed, AnswerInv
      <4>3. Answers(c)'
        BY <1>1, <2>2, <3>3 DEF Answers, AnswerInv, Unanswered
      <4> QED BY <3>5, <4>1, <4>2, <4>3
    <3> QED BY <3>4, <3>5
  <2> QED BY <1>2, <2>3, <2>4 DEF Check
<1>3. CASE (Poll(c) \/ Timer(c)) /\ WriteKept(c, <<c, cur[c]>>) /\ cur[c] # 0
  <2>1. <<c, cur[c]>> = Handled(c) /\ Waits(c) /\ ~inbox[c]
    BY <1>3 DEF Handled, Waits, AnswerInv, InOnePlace
  <2>2. Write(c, Handled(c)) /\ Goto(c, "none")
    BY <1>3, <2>1 DEF WriteKept
  <2>3. /\ cur'[c] = 0 /\ timer'[c] = "off"
        /\ \A e \in Conns : e # c => cur'[e] = cur[e] /\ timer'[e] = timer[e]
    BY <1>3, TypeGroups DEF WriteKept, TypeInv, ConnsOK
  <2>4. late' = late \/ late' = [late EXCEPT ![Handled(c)] = TRUE]
    BY <1>3, <2>1 DEF Poll, Timer
  <2> QED BY <1>1, <2>1, <2>2, <2>3, <2>4, AnswerWritten
<1>4. CASE Poll(c) /\ ~(cur[c] # 0 /\ IsResponseReady(<<c, cur[c]>>))
  <2>1. /\ UNCHANGED <<cur, timer, written, out, late>>
        /\ Goto(c, IF timer[c] = "due" THEN "timer" ELSE "none")
    BY <1>4 DEF Poll, WritesNothing
  <2>2. /\ stage'[c] = (IF timer[c] = "due" THEN "timer" ELSE "none")
        /\ \A e \in Conns : e # c => stage'[e] = stage[e]
    BY <2>1, TypeGroups DEF TypeInv, PollOK, Goto
  <2>3. timer[c] = "due" => cur[c] # 0
    BY DEF AnswerInv, InOnePlace
  <2> SUFFICES ASSUME NEW d \in Conns PROVE (InOnePlace(d) /\ Owed(d) /\ Answers(d))'
    BY DEF AnswerInv
  <2> QED BY <1>1, <2>1, <2>2, <2>3, AnswerFrame DEF Handling
<1>5. Timer(c) => WriteKept(c, <<c, cur[c]>>) /\ cur[c] # 0
  BY DEF Timer, Visit, AnswerInv, InOnePlace
<1>6. Poll(c) /\ cur[c] # 0 /\ IsResponseReady(<<c, cur[c]>>) => WriteKept(c, <<c, cur[c]>>)
  BY DEF Poll
<1> QED BY <1>2, <1>3, <1>4, <1>5, <1>6

(* The loop of mongoose, an end of file, and an answer that leaves.        *)
LEMMA AnswerLoop ==
  ASSUME TypeInv, AnswerInv,
         Select \/ EndIteration \/ \E c \in Conns : Eof(c) \/ Flush(c) \/ Expire(c)
  PROVE  AnswerInv'
<1> SUFFICES ASSUME NEW d \in Conns PROVE (InOnePlace(d) /\ Owed(d) /\ Answers(d))'
  BY DEF AnswerInv
<1> USE ConnType
<1>1. CASE Select
  <2>1. UNCHANGED <<sent, inbox, cur, timer, got, out, written, late>>
    BY <1>1 DEF Select, clientVars, connVars, responseVars
  <2>2. stage'[d] = Readiness(d) /\ Readiness(d) \notin {"create", "assign", "check", "timer"}
    BY <1>1 DEF Select, Readiness
  <2> QED BY <2>1, <2>2, AnswerFrame DEF Handling
<1>2. CASE EndIteration
  <2>1. UNCHANGED <<sent, inbox, got, written, late, stage>>
    BY <1>2 DEF EndIteration, clientVars, responseVars
  <2>2. \/ cur'[d] = cur[d] /\ timer'[d] = timer[d] /\ out'[d] = out[d]
        \/ cur'[d] = 0 /\ timer'[d] = "off" /\ out'[d] = 0
    BY <1>2 DEF EndIteration
  <2>3. stage[d] = "none"
    BY <1>2 DEF EndIteration
  <2>4. CASE cur'[d] = cur[d] /\ timer'[d] = timer[d] /\ out'[d] = out[d]
    BY <2>1, <2>4, AnswerFrame DEF Handling
  <2>5. CASE cur'[d] = 0 /\ timer'[d] = "off" /\ out'[d] = 0
    <3>1. Waits(d)' => Waits(d)
      BY <2>1, <2>3, <2>5 DEF Waits, Handling
    <3>2. InOnePlace(d)'
      BY <2>1, <2>3, <2>5 DEF InOnePlace, Handling
    <3>3. Owed(d)'
      BY <2>1, <2>5, <3>1 DEF Owed, AnswerInv
    <3>4. Answers(d)'
      BY <2>1, <3>1 DEF Answers, AnswerInv, Unanswered
    <3> QED BY <3>2, <3>3, <3>4
  <2> QED BY <2>2, <2>4, <2>5
<1>3. ASSUME NEW c \in Conns, Eof(c) PROVE (InOnePlace(d) /\ Owed(d) /\ Answers(d))'
  <2>1. UNCHANGED <<sent, inbox, cur, timer, got, out, written, late>> /\ Goto(c, "none")
    BY <1>3 DEF Eof, clientVars, responseVars
  <2>2. stage'[d] = stage[d] \/ stage'[d] = "none"
    BY <2>1, TypeGroups DEF TypeInv, PollOK, Goto
  <2> QED BY <2>1, <2>2, AnswerFrame DEF Handling
<1>4. ASSUME NEW c \in Conns, Flush(c) PROVE (InOnePlace(d) /\ Owed(d) /\ Answers(d))'
  <2>1. UNCHANGED <<sent, inbox, cur, timer, written, late>> /\ Goto(c, "poll")
    BY <1>4 DEF Flush, responseVars
  <2>2. stage'[d] = stage[d] \/ stage'[d] = "poll"
    BY <2>1, TypeGroups DEF TypeInv, PollOK, Goto
  <2>3. /\ got' = [got EXCEPT ![c] = IF peer[c] THEN got[c] + out[c] ELSE got[c]]
        /\ out' = [out EXCEPT ![c] = 0]
    BY <1>4 DEF Flush
  <2>4. IF d = c THEN out'[d] = 0 /\ (got'[d] = got[d] + out[d] \/ got'[d] = got[d])
        ELSE got'[d] = got[d] /\ out'[d] = out[d]
    BY <2>3, TypeGroups DEF TypeInv, ClientsOK, ConnsOK
  <2>5. Waits(d)' => Waits(d)
    BY <2>1, <2>2 DEF Waits, Handling
  <2>6. InOnePlace(d)'
    BY <2>1, <2>2 DEF InOnePlace, Handling, AnswerInv
  <2>7. Owed(d)'
    BY <2>1, <2>4, <2>5 DEF Owed, AnswerInv
  <2>8. Answers(d)'
    BY <2>1, <2>5 DEF Answers, AnswerInv, Unanswered
  <2> QED BY <2>6, <2>7, <2>8
<1>5. ASSUME NEW c \in Conns, Expire(c) PROVE (InOnePlace(d) /\ Owed(d) /\ Answers(d))'
  <2>1. /\ UNCHANGED <<sent, inbox, cur, stage, got, out, written, late>>
        /\ timer[c] = "armed" /\ timer' = [timer EXCEPT ![c] = "due"]
    BY <1>5 DEF Expire, clientVars, responseVars, pollVars
  <2>2. timer'[d] = "off" \/ timer[d] # "off"
    BY <2>1, TypeGroups DEF TypeInv, ConnsOK
  <2> QED BY <2>1, <2>2, AnswerFrame DEF Handling
<1> QED BY <1>1, <1>2, <1>3, <1>4, <1>5

\* Every step keeps it.
LEMMA AnswerNext == TypeInv /\ AnswerInv /\ [Next]_vars => AnswerInv'
<1> SUFFICES ASSUME TypeInv, AnswerInv, [Next]_vars PROVE AnswerInv'
  OBVIOUS
<1>1. CASE UNCHANGED <<sent, inbox, cur, timer, stage, got, out, written, late>>
  BY <1>1 DEF AnswerInv, InOnePlace, Owed, Answers, Waits, Handling, Unanswered
<1>2. CASE UNCHANGED vars
  BY <1>1, <1>2 DEF vars, clientVars, connVars, responseVars, pollVars
<1>3. CASE MainThread \/ EventHandler \/ SignalExit
  <2>1. UNCHANGED <<clientVars, connVars, responseVars, pollVars>>
    BY <1>3 DEF MainThread, EventHandler, SignalExit, MainSend, MainAck, Shutdown,
       ShutdownAck, SetShuttingDown, CleanupThreadPool, JoinAll, Close
  <2> QED BY <1>1, <2>1 DEF clientVars, connVars, responseVars, pollVars
<1>4. ASSUME NEW w \in Workers, Worker(w) PROVE AnswerInv'
  <2>1. UNCHANGED <<clientVars, connVars, written, late, pollVars>>
    BY <1>4 DEF Worker, TakeJob, Begin, Return, Call, StoreResponse, WakeupChecked, WorkerSend,
       WorkerAck, responseVars
  <2> QED BY <1>1, <2>1 DEF clientVars, connVars, pollVars
<1>5. ASSUME NEW c \in Conns, HangUp(c) \/ Accept(c) PROVE AnswerInv'
  BY <1>1, <1>5 DEF HangUp, Accept, clientVars, connVars, responseVars, pollVars
<1>6. ASSUME NEW c \in Conns, HandleLocal(c) \/ HandleGetevent(c) \/ HandlePooled(c)
                              \/ CreateThreads(c) \/ Assign(c)
      PROVE AnswerInv'
  BY <1>6, AnswerHandle
<1>7. ASSUME NEW c \in Conns, Check(c) \/ Poll(c) \/ Timer(c) PROVE AnswerInv'
  BY <1>7, AnswerVisit
<1> QED BY <1>2, <1>3, <1>4, <1>5, <1>6, <1>7, AnswerSend, AnswerLoop DEF Next, PollThread

LEMMA AnswerInvariant == Spec => [](TypeInv /\ AnswerInv)
<1>1. Init => TypeInv /\ AnswerInv
  BY InitType, AnswerInit
<1>2. TypeInv /\ AnswerInv /\ [Next]_vars => (TypeInv /\ AnswerInv)'
  BY NextType, AnswerNext
<1> QED BY <1>1, <1>2, PTL DEF Spec

(***************************************************************************)
(* A request is answered at most once, though its handler, the poll of its *)
(* connection, its timer and a thread of the pool all may complete it      *)
(* (mongooseEventHandler, jsonrpc_thread).                                 *)
(***************************************************************************)
THEOREM AnsweredOnceCorrect == Spec => []AnsweredOnce
<1>1. TypeInv /\ AnswerInv => AnsweredOnce
  BY DEF AnswerInv, Answers, AnsweredOnce, Reqs
<1> QED BY <1>1, AnswerInvariant, PTL

-----------------------------------------------------------------------------
(***************************************************************************)
(* Batches.  The timeout makes the response of a batch ready, and nothing  *)
(* makes it unready afterwards.                                            *)
(***************************************************************************)
LateReady(q) == late[q] /\ what[q].op = "batch" => ready[q]
LateInv == \A q \in Reqs : LateReady(q)

\* Every step keeps it.
LEMMA LateNext == TypeInv /\ AnswerInv /\ LateInv /\ [Next]_vars => LateInv'
<1> SUFFICES ASSUME TypeInv, AnswerInv, LateInv, [Next]_vars, NEW q \in Reqs
    PROVE LateReady(q)'
  BY DEF LateInv
<1>0. LateReady(q)
  BY DEF LateInv
<1>1. CASE UNCHANGED <<what, late>> /\ (ready[q] => ready'[q])
  BY <1>0, <1>1 DEF LateReady
<1>2. ASSUME NEW c \in Conns, NEW r \in Requests, Send(c, r) PROVE LateReady(q)'
  <2>1. UNCHANGED <<ready, late>> /\ what' = [what EXCEPT ![<<c, sent[c] + 1>>] = r]
    BY <1>2 DEF Send
  <2>2. CASE q = <<c, sent[c] + 1>>
    <3>1. sent[c] + 1 \in 1..MaxSends /\ sent[c] + 1 > sent[c]
      BY <1>2, ConnType, BoundsAssumption DEF Send, BoundsAssumption
    <3>2. ~late[q]
      BY <2>2, <3>1 DEF AnswerInv, Answers, Unanswered
    <3> QED BY <2>1, <3>2 DEF LateReady
  <2>3. CASE q # <<c, sent[c] + 1>>
    <3>1. what'[q] = what[q]
      BY <2>1, <2>3, TypeGroups DEF TypeInv, ResponsesOK
    <3> QED BY <1>0, <2>1, <3>1 DEF LateReady
  <2> QED BY <2>2, <2>3
<1>3. ASSUME NEW c \in Conns, Assign(c) PROVE LateReady(q)'
  <2>1. UNCHANGED <<what, late>> /\ ready' = [ready EXCEPT ![Handled(c)] = finished]
    BY <1>3 DEF Assign
  <2>2. CASE q = Handled(c)
    <3>1. Waits(c) /\ stage[c] = "assign"
      BY <1>3 DEF Assign, Visit, Waits, Handling
    <3>2. sent[c] \in 1..MaxSends
      BY <3>1, ConnType DEF TypeInv, InHandSent
    <3>3. ~late[q]
      BY <2>2, <3>1, <3>2 DEF AnswerInv, Answers, Unanswered, Handled
    <3> QED BY <2>1, <3>3 DEF LateReady
  <2>3. CASE q # Handled(c)
    <3>1. ready'[q] = ready[q]
      BY <2>1, <2>3, TypeGroups DEF TypeInv, ResponsesOK
    <3> QED BY <1>0, <2>1, <3>1 DEF LateReady
  <2> QED BY <2>2, <2>3
<1>4. ASSUME NEW c \in Conns, Timer(c) PROVE LateReady(q)'
  <2> DEFINE k == <<c, cur[c]>>
  <2>1. /\ UNCHANGED what /\ late' = [late EXCEPT ![k] = TRUE]
        /\ ready' = [ready EXCEPT ![k] = ready[k] \/ TimeoutMakesReady(k)]
    BY <1>4 DEF Timer
  <2>2. CASE q = k
    <3>1. ready'[q] = (ready[q] \/ TimeoutMakesReady(q))
      BY <2>1, <2>2, TypeGroups DEF TypeInv, ResponsesOK
    <3> QED BY <2>1, <3>1 DEF LateReady, TimeoutMakesReady
  <2>3. CASE q # k
    <3>1. ready'[q] = ready[q] /\ late'[q] = late[q]
      BY <2>1, <2>3, TypeGroups DEF TypeInv, ResponsesOK
    <3> QED BY <1>0, <2>1, <3>1 DEF LateReady
  <2> QED BY <2>2, <2>3
<1>5. ASSUME NEW w \in Workers, Worker(w) PROVE LateReady(q)'
  <2>1. /\ UNCHANGED <<what, late>>
        /\ ready' = ready \/ ready' = [ready EXCEPT ![wreq[w]] = TRUE]
    BY <1>5 DEF Worker, TakeJob, Begin, Return, Call, StoreResponse, WakeupChecked, WorkerSend,
       WorkerAck, responseVars
  <2>2. ready[q] => ready'[q]
    BY <2>1, TypeGroups DEF TypeInv, ResponsesOK
  <2> QED BY <1>1, <2>1, <2>2
<1>6. ASSUME NEW c \in Conns,
             \/ HandleLocal(c) \/ HandleGetevent(c) \/ HandlePooled(c) \/ CreateThreads(c)
             \/ Check(c) \/ Poll(c) \/ Eof(c) \/ Flush(c) \/ HangUp(c) \/ Expire(c) \/ Accept(c)
      PROVE LateReady(q)'
  <2>1. UNCHANGED <<what, late, ready>>
    BY <1>6 DEF HandleLocal, HandleGetevent, HandlePooled, Receive, CreateThreads, Check, Poll,
       Eof, Flush, HangUp, Expire, Accept, responseVars
  <2> QED BY <1>1, <2>1
<1>7. CASE MainThread \/ EventHandler \/ SignalExit \/ Select \/ EndIteration
  <2>1. UNCHANGED responseVars
    BY <1>7 DEF MainThread, EventHandler, SignalExit, MainSend, MainAck, Shutdown,
       ShutdownAck, SetShuttingDown, CleanupThreadPool, JoinAll, Close, Select, EndIteration
  <2> QED BY <1>1, <2>1 DEF responseVars
<1>8. CASE UNCHANGED vars
  BY <1>1, <1>8 DEF vars, responseVars
<1> QED BY <1>2, <1>3, <1>4, <1>5, <1>6, <1>7, <1>8 DEF Next, PollThread

(***************************************************************************)
(* Once its client has been told of the timeout, a batch sends no further  *)
(* message (jsonrpc_thread).                                               *)
(***************************************************************************)
THEOREM BatchStopsAtTimeoutCorrect == Spec => BatchStopsAtTimeout
<1>1. Init => LateInv
  BY DEF Init, LateInv, LateReady
<1>2. TypeInv /\ LateInv =>
        \A w \in Workers : Call(w) /\ what[wreq[w]].op = "batch" => ~late[wreq[w]]
  <2> SUFFICES ASSUME TypeInv, LateInv, NEW w \in Workers, Call(w), what[wreq[w]].op = "batch"
      PROVE ~late[wreq[w]]
    OBVIOUS
  <2>1. wreq[w] \in Reqs
    BY DEF Call, Step, TypeInv, BusyHave
  <2>2. ~ready[wreq[w]]
    BY DEF Call, CallsAgain
  <2> QED BY <2>1, <2>2 DEF LateInv, LateReady
<1>3. TypeInv /\ LateInv /\ [Next]_vars =>
        [\A w \in Workers : LET q == wreq[w]
                            IN Call(w) /\ what[q].op = "batch" => ~late[q]]_vars
  BY <1>2
<1> QED BY <1>1, <1>3, LateNext, AnswerInvariant, PTL DEF Spec, BatchStopsAtTimeout

-----------------------------------------------------------------------------
(***************************************************************************)
(* Events in answers.  The poll thread is with one connection at a time,   *)
(* and a request that is yet to be answered has taken no event unless its  *)
(* handler is about to write it.                                           *)
(***************************************************************************)
Calm     == pp # "visit" => \A c \in Conns : stage[c] = "none"
OneVisit == \A c, d \in Conns : stage[c] \in Visiting /\ stage[d] \in Visiting => c = d
StageInv == Calm /\ OneVisit

Unserved(c) == inbox[c] \/ stage[c] = "create" \/ cur[c] # 0
WithoutEvent(c) ==
    /\ \A n \in 1..MaxSends :
          (n > sent[c] \/ (n = sent[c] /\ Unserved(c))) => event[<<c, n>>] = 0
    /\ stage[c] = "assign" /\ ~finished => event[Handled(c)] = 0
    /\ stage[c] = "check" /\ ~ready[Handled(c)] => event[Handled(c)] = 0
PendingInv == \A c \in Conns : WithoutEvent(c)

(* The events of a subscription that answers hold: those it has taken.     *)
Delivers(q) == written[q] = 1 \/ InHand(q)
EventsTaken == \A s \in Subs : \A q \in Reqs :
    Polls(q, s) /\ event[q] # 0 => event[q] <= from[s] + Len(taken[s])
EventsOnce == \A s \in Subs : \A p, q \in Reqs :
    Polls(p, s) /\ Polls(q, s) /\ event[p] = event[q] /\ event[p] # 0 => p = q
EventsHeld == \A s \in Subs : \A i \in 1..Len(taken[s]) :
    \E q \in Reqs : Polls(q, s) /\ event[q] = taken[s][i] /\ Delivers(q)
HeldInv == EventsTaken /\ EventsOnce /\ EventsHeld

\* Nothing is visited at the start, and every step visits one connection.
LEMMA StageNext ==
  /\ Init => StageInv
  /\ TypeInv /\ StageInv /\ [Next]_vars => StageInv'
<1>1. Init => StageInv
  BY DEF Init, StageInv, Calm, OneVisit, Visiting
<1>2. ASSUME TypeInv, StageInv, [Next]_vars PROVE StageInv'
  <2> USE <1>2
  <2>1. CASE UNCHANGED <<pp, stage>>
    BY <2>1 DEF StageInv, Calm, OneVisit
  <2>2. CASE Select
    <3>1. pp' = "visit" /\ \A c \in Conns : stage'[c] \notin Visiting
      BY <2>2 DEF Select, Readiness, Visiting
    <3> QED BY <3>1 DEF StageInv, Calm, OneVisit
  <2>3. CASE EndIteration
    <3>1. UNCHANGED stage /\ \A c \in Conns : stage[c] = "none"
      BY <2>3 DEF EndIteration
    <3> QED BY <3>1 DEF StageInv, Calm, OneVisit
  <2>4. ASSUME NEW c \in Conns, NEW there, Goto(c, there), UNCHANGED pp, pp = "visit",
               there \in Visiting => stage[c] \in Visiting \/ Idle
        PROVE StageInv'
    <3>1. stage'[c] = there /\ \A d \in Conns : d # c => stage'[d] = stage[d]
      BY <2>4, TypeGroups DEF TypeInv, PollOK, Goto
    <3>2. OneVisit'
      BY <2>4, <3>1 DEF StageInv, OneVisit, Idle
    <3> QED BY <2>4, <3>2 DEF StageInv, Calm
  <2>5. ASSUME NEW c \in Conns,
               HandleLocal(c) \/ HandleGetevent(c) \/ HandlePooled(c)
        PROVE StageInv'
    <3>1. pp = "visit" /\ UNCHANGED pp /\ Idle /\ \E there : Goto(c, there)
      BY <2>5 DEF HandleLocal, HandleGetevent, HandlePooled, Receive, Visit, ToVisit
    <3> QED BY <2>4, <3>1
  <2>6. ASSUME NEW c \in Conns, CreateThreads(c) \/ Assign(c) \/ Check(c) \/ Timer(c) \/ Poll(c)
        PROVE StageInv'
    <3>1. /\ pp = "visit" /\ UNCHANGED pp /\ \E there : Goto(c, there)
          /\ stage[c] \in Visiting \/ Idle
      BY <2>6 DEF CreateThreads, Assign, Check, Timer, Poll, WriteKept, Visit, ToVisit, Visiting
    <3> QED BY <2>4, <3>1
  <2>7. ASSUME NEW c \in Conns, Eof(c) \/ Flush(c) PROVE StageInv'
    <3>1. pp = "visit" /\ UNCHANGED pp /\ Idle /\ \E there : Goto(c, there)
      BY <2>7 DEF Eof, Flush, Visit, ToVisit
    <3> QED BY <2>4, <3>1
  <2>8. CASE MainThread \/ EventHandler \/ SignalExit \/ UNCHANGED vars
    <3>1. UNCHANGED pollVars
      BY <2>8 DEF MainThread, EventHandler, SignalExit, MainSend, MainAck, Shutdown,
         ShutdownAck, SetShuttingDown, CleanupThreadPool, JoinAll, Close, vars
    <3> QED BY <2>1, <3>1 DEF pollVars
  <2>9. ASSUME NEW w \in Workers, Worker(w) PROVE StageInv'
    <3>1. UNCHANGED pollVars
      BY <2>9 DEF Worker, TakeJob, Begin, Return, Call, StoreResponse, WakeupChecked, WorkerSend,
         WorkerAck
    <3> QED BY <2>1, <3>1 DEF pollVars
  <2>10. ASSUME NEW c \in Conns,
                HangUp(c) \/ Expire(c) \/ Accept(c) \/ \E r \in Requests : Send(c, r)
         PROVE StageInv'
    BY <2>1, <2>10 DEF HangUp, Expire, Accept, Send, pollVars
  <2> QED BY <2>2, <2>3, <2>5, <2>6, <2>7, <2>8, <2>9, <2>10 DEF Next, PollThread
<1> QED BY <1>1, <1>2

(* Answers keep the events they hold, when no event is taken.              *)
LEMMA HeldFrame ==
  ASSUME TypeInv, HeldInv, UNCHANGED <<event, taken>>,
         \A s \in Subs : from'[s] \in Nat /\ from'[s] >= from[s],
         \A q \in Reqs : event[q] # 0 => what'[q] = what[q] /\ (Delivers(q) => Delivers(q)')
  PROVE  HeldInv'
<1>1. \A q \in Reqs : \A s : event[q] # 0 => (Polls(q, s)' <=> Polls(q, s))
  BY DEF Polls
<1>2. \A q \in Reqs : event[q] \in Nat
  BY TypeGroups, BoundsAssumption DEF TypeInv, EventsOK, BoundsAssumption
<1>3. EventsTaken'
  <2> SUFFICES ASSUME NEW s \in Subs, NEW q \in Reqs, Polls(q, s), event[q] # 0
      PROVE event[q] <= from'[s] + Len(taken[s])
    BY <1>1 DEF EventsTaken
  <2>1. event[q] <= from[s] + Len(taken[s])
    BY DEF HeldInv, EventsTaken
  <2> QED BY <1>2, <2>1, QueuesType
<1>4. EventsOnce'
  BY <1>1 DEF HeldInv, EventsOnce
<1>5. EventsHeld'
  <2> SUFFICES ASSUME NEW s \in Subs, NEW i \in 1..Len(taken[s])
      PROVE \E q \in Reqs : Polls(q, s)' /\ event[q] = taken[s][i] /\ Delivers(q)'
    BY DEF EventsHeld
  <2>1. PICK q \in Reqs : Polls(q, s) /\ event[q] = taken[s][i] /\ Delivers(q)
    BY DEF HeldInv, EventsHeld
  <2>2. taken[s][i] # 0
    <3>1. taken[s] \in Seq(1..published) /\ published \in Nat
      BY QueuesType
    <3>2. taken[s][i] \in 1..published
      BY <3>1, ElementOfSeq
    <3> QED BY <3>1, <3>2
  <2> QED BY <1>1, <2>1, <2>2
<1> QED BY <1>3, <1>4, <1>5 DEF HeldInv

(* A request without an event takes one, or none.                          *)
LEMMA HeldTake ==
  ASSUME TypeInv, OrderInv, HeldInv, NEW q \in Reqs,
         what[q] # NoRequest, what[q].op = "getevent", event[q] = 0,
         TakeEvent(q), UNCHANGED <<what, alive, published, from>>, Delivers(q)',
         \A p \in Reqs : event[p] # 0 => (Delivers(p) => Delivers(p)')
  PROVE  HeldInv'
<1>1. CASE UNCHANGED <<queue, event, taken>>
  BY <1>1, HeldFrame, QueuesType
<1>2. CASE ~UNCHANGED <<queue, event, taken>>
  <2>1. PICK s \in Subs : s = what[q].sub /\ s \in alive /\ queue[s] # <<>>
    BY <1>2, TypeGroups DEF TakeEvent, TypeInv, EventsOK
  <2>2. PICK e : e = Head(queue[s])
    OBVIOUS
  <2>3. /\ event' = [event EXCEPT ![q] = e]
        /\ taken' = [taken EXCEPT ![s] = Append(@, e)]
    BY <1>2, <2>1, <2>2 DEF TakeEvent
  <2>4. /\ queue[s] \in Seq(1..published) /\ taken[s] \in Seq(1..published)
        /\ Len(taken[s]) \in Nat /\ from[s] \in Nat /\ published \in Nat
    BY QueuesType
  <2>5. e \in 1..published /\ e = from[s] + Len(taken[s]) + 1
    <3>1. e = queue[s][1] /\ Len(queue[s]) > 0 /\ Len(queue[s]) \in Nat /\ e \in 1..published
      BY <2>1, <2>2, <2>4, HeadAndTail
    <3>2. Ascending(queue[s], from[s] + Len(taken[s]))
      BY DEF OrderInv, Fifo
    <3> QED BY <3>1, <3>2 DEF Ascending
  <2>6. /\ event'[q] = e /\ \A p \in Reqs : p # q => event'[p] = event[p]
        /\ \A p \in Reqs : event[p] \in Nat
    BY <2>3, TypeGroups, BoundsAssumption DEF TypeInv, EventsOK, BoundsAssumption
  <2>7. /\ Len(taken'[s]) = Len(taken[s]) + 1
        /\ \A i \in 1..Len(taken[s]) : taken'[s][i] = taken[s][i]
        /\ taken'[s][Len(taken[s]) + 1] = e
        /\ \A t \in Subs : t # s => taken'[t] = taken[t]
    <3>1. taken'[s] = Append(taken[s], e) /\ \A t \in Subs : t # s => taken'[t] = taken[t]
      BY <2>3, TypeGroups DEF TypeInv, EventsOK
    <3> QED BY <2>4, <2>5, <3>1
  <2>8. /\ \A p, t : Polls(p, t)' <=> Polls(p, t)
        /\ \A t : Polls(q, t) <=> t = s
    BY <2>1 DEF Polls
  <2>9. ASSUME NEW p \in Reqs, p # q, Polls(p, s), event[p] # 0 PROVE event[p] < e
    <3>1. event[p] <= from[s] + Len(taken[s])
      BY <2>9 DEF HeldInv, EventsTaken
    <3> QED BY <2>4, <2>5, <2>6, <3>1
  <2>10. EventsTaken'
    <3> SUFFICES ASSUME NEW t \in Subs, NEW p \in Reqs, Polls(p, t), event'[p] # 0
        PROVE event'[p] <= from[t] + Len(taken'[t])
      BY <2>8 DEF EventsTaken
    <3>1. CASE p = q
      BY <2>4, <2>5, <2>6, <2>7, <2>8, <3>1
    <3>2. CASE p # q /\ t = s
      <4>1. event[p] < e /\ event'[p] = event[p] /\ event[p] \in Nat
        BY <2>6, <2>9, <3>2
      <4> QED BY <2>4, <2>5, <2>7, <3>2, <4>1
    <3>3. CASE p # q /\ t # s
      BY <2>6, <2>7, <3>3 DEF HeldInv, EventsTaken
    <3> QED BY <3>1, <3>2, <3>3
  <2>11. EventsOnce'
    <3> SUFFICES ASSUME NEW t \in Subs, NEW p1 \in Reqs, NEW p2 \in Reqs,
                        Polls(p1, t), Polls(p2, t), event'[p1] = event'[p2], event'[p1] # 0
        PROVE p1 = p2
      BY <2>8 DEF EventsOnce
    <3>1. CASE p1 # q /\ p2 # q
      BY <2>6, <3>1 DEF HeldInv, EventsOnce
    <3>2. CASE p1 = q /\ p2 # q
      <4>1. t = s /\ event[p2] < e /\ event'[p2] = event[p2]
        BY <2>6, <2>8, <2>9, <3>2
      <4> QED BY <2>4, <2>5, <2>6, <3>2, <4>1
    <3>3. CASE p1 # q /\ p2 = q
      <4>1. t = s /\ event[p1] < e /\ event'[p1] = event[p1]
        BY <2>6, <2>8, <2>9, <3>3
      <4> QED BY <2>4, <2>5, <2>6, <3>3, <4>1
    <3> QED BY <3>1, <3>2, <3>3
  <2>12. EventsHeld'
    <3> SUFFICES ASSUME NEW t \in Subs, NEW i \in 1..Len(taken'[t])
        PROVE \E p \in Reqs : Polls(p, t) /\ event'[p] = taken'[t][i] /\ Delivers(p)'
      BY <2>8 DEF EventsHeld
    <3>1. CASE t = s /\ i = Len(taken[s]) + 1
      BY <2>6, <2>7, <2>8, <3>1
    <3>2. CASE ~(t = s /\ i = Len(taken[s]) + 1)
      <4>1. i \in 1..Len(taken[t]) /\ taken'[t][i] = taken[t][i]
        BY <2>4, <2>7, <3>2
      <4>2. PICK p \in Reqs : Polls(p, t) /\ event[p] = taken[t][i] /\ Delivers(p)
        BY <4>1 DEF HeldInv, EventsHeld
      <4>3. taken[t][i] # 0
        <5>1. taken[t] \in Seq(1..published)
          BY QueuesType
        <5>2. taken[t][i] \in 1..published
          BY <4>1, <5>1, ElementOfSeq
        <5> QED BY <2>4, <5>2
      <4>4. p # q
        BY <4>2, <4>3
      <4> QED BY <2>6, <4>1, <4>2, <4>3, <4>4
    <3> QED BY <3>1, <3>2
  <2> QED BY <2>10, <2>11, <2>12 DEF HeldInv
<1> QED BY <1>1, <1>2

(* Only the request that asks gets an event.                               *)
LEMMA OtherEvents ==
  ASSUME TypeInv, NEW q, TakeEvent(q) \/ TakesNothing, NEW p \in Reqs, p # q
  PROVE  event'[p] = event[p]
BY TypeGroups DEF TypeInv, EventsOK, TakeEvent, TakesNothing

(* A connection to which nothing happens.                                  *)
LEMMA PendingFrame ==
  ASSUME TypeInv, PendingInv, NEW d \in Conns,
         sent'[d] = sent[d], Unserved(d)' => Unserved(d),
         stage'[d] = "assign" => stage[d] = "assign" /\ finished' = finished,
         stage'[d] = "check" =>
             stage[d] = "check" /\ (ready[Handled(d)] => ready'[Handled(d)]),
         \A n \in 1..MaxSends : event'[<<d, n>>] = event[<<d, n>>]
  PROVE  WithoutEvent(d)'
<1>1. Handled(d)' = Handled(d)
  BY DEF Handled
<1>2. stage[d] \in {"assign", "check"} => event'[Handled(d)] = event[Handled(d)]
  BY ConnType DEF TypeInv, InHandSent, Handled
<1> QED BY <1>1, <1>2 DEF PendingInv, WithoutEvent

(* The handlers, and the answers: the connection they visit.               *)
LEMMA PendingVisit ==
  ASSUME TypeInv, AnswerInv, PendingInv, NEW c \in Conns,
         \/ HandleLocal(c) \/ HandleGetevent(c) \/ HandlePooled(c) \/ CreateThreads(c)
         \/ Assign(c) \/ Check(c) \/ Poll(c) \/ Timer(c)
  PROVE  WithoutEvent(c)'
<1> USE ConnType
<1>1. UNCHANGED sent /\ Handled(c)' = Handled(c)
  BY DEF HandleLocal, HandleGetevent, HandlePooled, Receive, CreateThreads, Assign, Check, Poll,
     Timer, clientVars, Handled
<1>2. \A n \in 1..MaxSends : n > sent[c] =>
         /\ event[<<c, n>>] = 0 /\ <<c, n>> # Handled(c)
         /\ (cur[c] # 0 => <<c, n>> # <<c, cur[c]>>)
  <2> SUFFICES ASSUME NEW n \in 1..MaxSends, n > sent[c]
      PROVE /\ event[<<c, n>>] = 0 /\ <<c, n>> # Handled(c)
            /\ (cur[c] # 0 => <<c, n>> # <<c, cur[c]>>)
    OBVIOUS
  <2>1. event[<<c, n>>] = 0
    BY DEF PendingInv, WithoutEvent
  <2>2. sent[c] \in Nat /\ n # sent[c]
    OBVIOUS
  <2>3. cur[c] # 0 => cur[c] = sent[c]
    BY DEF AnswerInv, InOnePlace
  <2> QED BY <2>1, <2>2, <2>3 DEF Handled
<1>3. \A there : Goto(c, there) => stage'[c] = there
  BY TypeGroups DEF TypeInv, PollOK, Goto
<1>4. CASE HandleLocal(c) \/ HandlePooled(c) \/ CreateThreads(c)
  <2>1. UNCHANGED event
    BY <1>4 DEF HandleLocal, HandlePooled, CreateThreads, responseVars
  <2>2. Unserved(c) /\ sent[c] > 0
    BY <1>4 DEF HandleLocal, HandlePooled, CreateThreads, Receive, Visit, Unserved, TypeInv,
       InHandSent
  <2>3. event[Handled(c)] = 0
    BY <2>2 DEF PendingInv, WithoutEvent, Handled
  <2>4. \A n \in 1..MaxSends : n = sent[c] => event[<<c, n>>] = 0
    BY <2>3 DEF Handled
  <2> QED BY <1>1, <1>2, <2>1, <2>3, <2>4 DEF WithoutEvent
<1>5. CASE HandleGetevent(c)
  <2>1. stage[c] = "read" /\ inbox[c] /\ sent[c] > 0 /\ cur[c] = 0
    BY <1>5 DEF HandleGetevent, Receive, Visit, TypeInv, InHandSent, AnswerInv, InOnePlace
  <2>2. event[Handled(c)] = 0
    BY <2>1 DEF PendingInv, WithoutEvent, Handled, Unserved
  <2>3. stage'[c] = "assign" /\ ~inbox'[c] /\ cur'[c] = 0
    BY <1>3, <1>5, <2>1, TypeGroups DEF HandleGetevent, Receive, TypeInv, ClientsOK
  <2>4. ~Unserved(c)'
    BY <2>3 DEF Unserved
  <2>5. finished' \/ UNCHANGED event
    BY <1>5 DEF HandleGetevent, TakesNothing
  <2>6. ASSUME NEW n \in 1..MaxSends, n > sent[c] PROVE event'[<<c, n>>] = 0
    <3>1. TakeEvent(Handled(c)) \/ TakesNothing
      BY <1>5 DEF HandleGetevent
    <3> QED BY <1>2, <2>6, <3>1, OtherEvents
  <2> QED BY <1>1, <2>2, <2>3, <2>4, <2>5, <2>6 DEF WithoutEvent
<1>6. CASE Assign(c)
  <2>1. /\ UNCHANGED <<event, inbox, cur>> /\ stage[c] = "assign"
        /\ ready' = [ready EXCEPT ![Handled(c)] = finished]
    BY <1>6 DEF Assign, Visit, clientVars, connVars
  <2>2. stage'[c] = "check" /\ ~inbox[c] /\ cur[c] = 0
    BY <1>3, <1>6, <2>1 DEF Assign, AnswerInv, InOnePlace, Handling
  <2>3. ~Unserved(c)'
    BY <2>1, <2>2 DEF Unserved
  <2>4. ready'[Handled(c)] = finished
    BY <2>1, InHandRequest, TypeGroups DEF TypeInv, ResponsesOK
  <2> QED BY <1>1, <1>2, <2>1, <2>2, <2>3, <2>4 DEF PendingInv, WithoutEvent
<1>7. CASE Check(c)
  <2>1. stage[c] = "check" /\ stage'[c] = "poll" /\ UNCHANGED inbox
    BY <1>3, <1>7 DEF Check, Visit, clientVars
  <2>2. ~inbox[c] /\ cur[c] = 0
    BY <2>1 DEF AnswerInv, InOnePlace, Handling
  <2>3. CASE IsResponseReady(Handled(c))
    <3>1. (TakeEvent(Handled(c)) \/ TakesNothing) /\ UNCHANGED cur
      BY <1>7, <2>3 DEF Check, Fetch
    <3>2. ~Unserved(c)'
      BY <2>1, <2>2, <3>1 DEF Unserved
    <3>3. \A n \in 1..MaxSends : n > sent[c] => event'[<<c, n>>] = 0
      BY <1>2, <3>1, OtherEvents
    <3> QED BY <1>1, <2>1, <3>2, <3>3 DEF WithoutEvent
  <2>4. CASE ~IsResponseReady(Handled(c))
    <3>1. UNCHANGED event
      BY <1>7, <2>4 DEF Check, TakesNothing
    <3>2. event[Handled(c)] = 0
      BY <2>1, <2>4 DEF IsResponseReady, PendingInv, WithoutEvent
    <3>3. \A n \in 1..MaxSends : n = sent[c] => event[<<c, n>>] = 0
      BY <3>2 DEF Handled
    <3> QED BY <1>1, <1>2, <2>1, <3>1, <3>3 DEF WithoutEvent
  <2> QED BY <2>3, <2>4
<1>8. CASE (Poll(c) \/ Timer(c)) /\ cur[c] # 0 /\ WriteKept(c, <<c, cur[c]>>)
  <2>1. /\ TakeEvent(<<c, cur[c]>>) \/ TakesNothing
        /\ UNCHANGED inbox /\ ~inbox[c]
    BY <1>8 DEF Poll, Timer, Fetch, clientVars, AnswerInv, InOnePlace
  <2>2. stage'[c] = "none" /\ cur'[c] = 0
    BY <1>3, <1>8, TypeGroups DEF WriteKept, TypeInv, ConnsOK
  <2>3. ~Unserved(c)'
    BY <2>1, <2>2 DEF Unserved
  <2>4. ASSUME NEW n \in 1..MaxSends, n > sent[c] PROVE event'[<<c, n>>] = 0
    BY <1>2, <1>8, <2>1, <2>4, OtherEvents
  <2> QED BY <1>1, <2>2, <2>3, <2>4 DEF WithoutEvent
<1>9. CASE Poll(c) /\ ~(cur[c] # 0 /\ IsResponseReady(<<c, cur[c]>>))
  <2>1. /\ UNCHANGED <<cur, inbox, event>> /\ \E there \in {"timer", "none"} : Goto(c, there)
    BY <1>9 DEF Poll, TakesNothing, clientVars
  <2>2. stage'[c] \in {"timer", "none"}
    BY <1>3, <2>1
  <2>3. Unserved(c)' => Unserved(c)
    BY <2>1, <2>2 DEF Unserved
  <2> QED BY <1>1, <2>1, <2>2, <2>3, PendingFrame
<1>10. Timer(c) => WriteKept(c, <<c, cur[c]>>) /\ cur[c] # 0
  BY DEF Timer, Visit, AnswerInv, InOnePlace
<1>11. Poll(c) /\ cur[c] # 0 /\ IsResponseReady(<<c, cur[c]>>) => WriteKept(c, <<c, cur[c]>>)
  BY DEF Poll
<1> QED BY <1>4, <1>5, <1>6, <1>7, <1>8, <1>9, <1>10, <1>11

(* The handlers, and the answers: the other connections.                   *)
LEMMA PendingOthers ==
  ASSUME TypeInv, StageInv, PendingInv, NEW c \in Conns, NEW d \in Conns, d # c,
         \/ HandleLocal(c) \/ HandleGetevent(c) \/ HandlePooled(c) \/ CreateThreads(c)
         \/ Assign(c) \/ Check(c) \/ Poll(c) \/ Timer(c)
  PROVE  WithoutEvent(d)'
<1> USE DEF Handled
<1>1. /\ UNCHANGED sent
      /\ UNCHANGED inbox \/ inbox' = [inbox EXCEPT ![c] = FALSE]
      /\ UNCHANGED cur \/ \E n : cur' = [cur EXCEPT ![c] = n]
      /\ \E there : Goto(c, there)
  BY DEF HandleLocal, HandleGetevent, HandlePooled, Receive, CreateThreads, Assign, Check, Poll,
     Timer, WriteKept, clientVars, connVars
<1>2. \E n : /\ UNCHANGED ready \/ \E b : ready' = [ready EXCEPT ![<<c, n>>] = b]
             /\ UNCHANGED event \/ TakeEvent(<<c, n>>) \/ TakesNothing
  BY DEF HandleLocal, HandleGetevent, HandlePooled, Receive, CreateThreads, Assign, Check, Poll,
     Timer, Fetch, responseVars
<1>3. inbox'[d] = inbox[d] /\ cur'[d] = cur[d] /\ stage'[d] = stage[d]
  BY <1>1, TypeGroups DEF TypeInv, ClientsOK, ConnsOK, PollOK, Goto
<1>4. \A n \in 1..MaxSends : /\ ready'[<<d, n>>] = ready[<<d, n>>]
                             /\ event'[<<d, n>>] = event[<<d, n>>]
  <2> SUFFICES ASSUME NEW n \in 1..MaxSends
      PROVE ready'[<<d, n>>] = ready[<<d, n>>] /\ event'[<<d, n>>] = event[<<d, n>>]
    OBVIOUS
  <2>1. <<d, n>> \in Reqs /\ \A k : <<d, n>> # <<c, k>>
    BY DEF Reqs
  <2>2. ready'[<<d, n>>] = ready[<<d, n>>]
    BY <1>2, <2>1, TypeGroups DEF TypeInv, ResponsesOK
  <2>3. event'[<<d, n>>] = event[<<d, n>>]
    BY <1>2, <2>1, OtherEvents
  <2> QED BY <2>2, <2>3
<1>5. stage[d] = "assign" => UNCHANGED finished
  <2> SUFFICES ASSUME stage[d] = "assign" PROVE UNCHANGED finished
    OBVIOUS
  <2>1. ~Idle /\ stage[c] # "assign"
    BY DEF Idle, Visiting, StageInv, OneVisit
  <2> QED BY <2>1 DEF HandleLocal, HandleGetevent, HandlePooled, Receive, CreateThreads, Assign,
       Check, Poll, Timer, Visit, ToVisit
<1>6. stage[d] = "check" => sent[d] \in 1..MaxSends
  BY ConnType DEF TypeInv, InHandSent
<1> QED BY <1>1, <1>3, <1>4, <1>5, <1>6, PendingFrame DEF Unserved

(* A request is sent: it has no event, and none was asked for.             *)
LEMMA PendingSend ==
  ASSUME TypeInv, AnswerInv, PendingInv, NEW c \in Conns, NEW r \in Requests, Send(c, r),
         NEW d \in Conns
  PROVE  WithoutEvent(d)'
<1> USE ConnType
<1>1. /\ sent' = [sent EXCEPT ![c] = @ + 1] /\ inbox' = [inbox EXCEPT ![c] = TRUE]
      /\ UNCHANGED <<cur, stage, finished, ready, event>> /\ sent[c] = got[c]
  BY DEF Send, connVars, pollVars
<1>2. CASE d # c
  <2>1. sent'[d] = sent[d] /\ inbox'[d] = inbox[d]
    BY <1>1, <1>2, TypeGroups DEF TypeInv, ClientsOK
  <2> QED BY <1>1, <2>1, PendingFrame DEF Unserved
<1>3. CASE d = c
  <2>1. sent'[c] = sent[c] + 1
    BY <1>1, TypeGroups DEF TypeInv, ClientsOK
  <2>2. \A n \in 1..MaxSends : n >= sent'[c] => event[<<c, n>>] = 0
    BY <2>1 DEF PendingInv, WithoutEvent
  <2>3. stage[c] \notin {"assign", "check"}
    BY <1>1 DEF AnswerInv, Owed, Waits, Handling
  <2> QED BY <1>1, <1>3, <2>1, <2>2, <2>3 DEF WithoutEvent
<1> QED BY <1>2, <1>3

(* No request at the start, and every step keeps the invariant.            *)
LEMMA PendingNext ==
  /\ Init => PendingInv
  /\ TypeInv /\ AnswerInv /\ StageInv /\ PendingInv /\ [Next]_vars => PendingInv'
<1>1. Init => PendingInv
  <2> SUFFICES ASSUME Init, NEW c \in Conns PROVE WithoutEvent(c)
    BY DEF PendingInv
  <2>1. \A n \in 1..MaxSends : event[<<c, n>>] = 0
    BY DEF Init, Reqs
  <2> QED BY <2>1 DEF Init, WithoutEvent
<1>2. ASSUME TypeInv, AnswerInv, StageInv, PendingInv, [Next]_vars, NEW d \in Conns
      PROVE WithoutEvent(d)'
  <2> USE <1>2
  <2>1. CASE /\ UNCHANGED <<clientVars, cur, stage, finished, event>>
             /\ \A q \in Reqs : ready[q] => ready'[q]
    <3>1. stage[d] = "check" => Handled(d) \in Reqs
      BY InHandRequest
    <3> QED BY <2>1, <3>1, PendingFrame DEF Unserved, clientVars
  <2>2. CASE \/ MainThread \/ EventHandler \/ SignalExit \/ UNCHANGED vars
             \/ \E c \in Conns : HangUp(c) \/ Expire(c) \/ Accept(c)
    <3>1. UNCHANGED <<sent, inbox, cur, stage, finished, event, ready>>
      BY <2>2 DEF MainThread, EventHandler, SignalExit, MainSend, MainAck, Shutdown,
         ShutdownAck, SetShuttingDown, CleanupThreadPool, JoinAll, Close, vars, HangUp, Expire,
         Accept, clientVars, connVars, pollVars, responseVars
    <3> QED BY <3>1, PendingFrame DEF Unserved, Handled
  <2>3. ASSUME NEW w \in Workers, Worker(w) PROVE WithoutEvent(d)'
    <3>1. /\ UNCHANGED <<clientVars, connVars, pollVars, event>>
          /\ ready' = ready \/ ready' = [ready EXCEPT ![wreq[w]] = TRUE]
      BY <2>3 DEF Worker, TakeJob, Begin, Return, Call, StoreResponse, WakeupChecked,
         WorkerSend, WorkerAck, responseVars
    <3>2. \A q \in Reqs : ready[q] => ready'[q]
      BY <3>1, TypeGroups DEF TypeInv, ResponsesOK
    <3> QED BY <2>1, <3>1, <3>2 DEF connVars, pollVars
  <2>4. ASSUME NEW c \in Conns, Eof(c) \/ Flush(c) PROVE WithoutEvent(d)'
    <3>1. /\ UNCHANGED <<sent, inbox, cur, finished, event, ready>>
          /\ Goto(c, "none") \/ Goto(c, "poll")
      BY <2>4 DEF Eof, Flush, clientVars, responseVars
    <3>2. stage'[d] = stage[d] \/ stage'[d] \in {"none", "poll"}
      BY <3>1, TypeGroups DEF TypeInv, PollOK, Goto
    <3> QED BY <3>1, <3>2, PendingFrame DEF Unserved, Handled
  <2>5. CASE Select
    <3>1. /\ UNCHANGED <<clientVars, connVars, responseVars>>
          /\ stage'[d] \in {"none", "read", "eof", "write", "idle"}
      BY <2>5 DEF Select, Readiness
    <3> QED BY <3>1, PendingFrame DEF Unserved, clientVars, connVars, responseVars
  <2>6. CASE EndIteration
    <3>1. /\ UNCHANGED <<sent, inbox, stage, event>> /\ stage[d] = "none"
          /\ cur'[d] = cur[d] \/ cur'[d] = 0
      BY <2>6 DEF EndIteration, clientVars, responseVars
    <3> QED BY <3>1, PendingFrame DEF Unserved
  <2>7. ASSUME NEW c \in Conns,
               \/ HandleLocal(c) \/ HandleGetevent(c) \/ HandlePooled(c) \/ CreateThreads(c)
               \/ Assign(c) \/ Check(c) \/ Poll(c) \/ Timer(c)
        PROVE WithoutEvent(d)'
    BY <2>7, PendingVisit, PendingOthers
  <2> QED BY <2>2, <2>3, <2>4, <2>5, <2>6, <2>7, PendingSend DEF Next, PollThread
<1> QED BY <1>1, <1>2 DEF PendingInv

(* A request in hand is delivered if it is written when its handler ends.  *)
LEMMA DeliversKept ==
  ASSUME NEW p \in Reqs, UNCHANGED sent, written[p] = 1 => written'[p] = 1,
         stage[p[1]] \in {"assign", "check"} /\ p = Handled(p[1]) =>
             stage'[p[1]] \in {"assign", "check"} \/ written'[p] = 1
  PROVE  Delivers(p) => Delivers(p)'
BY DEF Delivers, InHand, Handled

(* No event is at hand when no handler is.                                 *)
LEMMA HeldSend ==
  ASSUME TypeInv, AnswerInv, PendingInv, HeldInv,
         NEW c \in Conns, NEW r \in Requests, Send(c, r)
  PROVE  HeldInv'
<1> USE ConnType
<1>1. /\ sent' = [sent EXCEPT ![c] = @ + 1] /\ what' = [what EXCEPT ![<<c, sent[c] + 1>>] = r]
      /\ UNCHANGED <<stage, written, event, taken, from>> /\ sent[c] = got[c]
  BY DEF Send, pollVars, subVars
<1>2. stage[c] \notin {"assign", "check"}
  BY <1>1 DEF AnswerInv, Owed, Waits, Handling
<1>3. ASSUME NEW q \in Reqs, event[q] # 0
      PROVE what'[q] = what[q] /\ (Delivers(q) => Delivers(q)')
  <2>1. q # <<c, sent[c] + 1>>
    <3>1. \A n \in 1..MaxSends : n = sent[c] + 1 => event[<<c, n>>] = 0
      BY DEF PendingInv, WithoutEvent
    <3>2. sent[c] + 1 \in 1..MaxSends
      BY BoundsAssumption DEF Send, BoundsAssumption
    <3> QED BY <1>3, <3>1, <3>2
  <2>2. what'[q] = what[q]
    BY <1>1, <2>1, TypeGroups DEF TypeInv, ResponsesOK
  <2>3. InHand(q) => InHand(q)'
    <3>1. q[1] \in Conns
      BY DEF Reqs
    <3>2. q[1] # c => sent'[q[1]] = sent[q[1]]
      BY <1>1, <3>1, TypeGroups DEF TypeInv, ClientsOK
    <3> QED BY <1>1, <1>2, <3>1, <3>2 DEF InHand, Handled
  <2> QED BY <1>1, <2>2, <2>3 DEF Delivers
<1> QED BY <1>1, <1>3, HeldFrame, QueuesType

(* The handlers.                                                           *)
LEMMA HeldHandle ==
  ASSUME TypeInv, OrderInv, PendingInv, HeldInv, NEW c \in Conns,
         \/ HandleLocal(c) \/ HandleGetevent(c) \/ HandlePooled(c) \/ CreateThreads(c)
         \/ Assign(c)
  PROVE  HeldInv'
<1>1. /\ UNCHANGED <<sent, what, written, published>>
      /\ \E there : Goto(c, there) /\ (stage[c] = "assign" => there = "check")
      /\ stage[c] \in {"read", "create", "assign"}
  BY DEF HandleLocal, HandleGetevent, HandlePooled, Receive, CreateThreads, Assign, Visit,
     clientVars, responseVars, subVars
<1>2. ASSUME NEW p \in Reqs PROVE Delivers(p) => Delivers(p)'
  <2>1. p[1] \in Conns
    BY DEF Reqs
  <2>2. p[1] # c => stage'[p[1]] = stage[p[1]]
    BY <1>1, <2>1, TypeGroups DEF TypeInv, PollOK, Goto
  <2>3. p[1] = c /\ stage[c] = "assign" => stage'[p[1]] = "check"
    BY <1>1, TypeGroups DEF TypeInv, PollOK, Goto
  <2> QED BY <1>1, <2>2, <2>3, DeliversKept
<1>3. CASE UNCHANGED <<event, taken>>
  <2>1. UNCHANGED from \/ \E s \in Subs : from' = [from EXCEPT ![s] = published]
    <3>1. HandleLocal(c) => what[Handled(c)].sub \in Subs
      BY InHandRequest DEF HandleLocal, Receive, Visit, Request
    <3> QED BY <3>1 DEF HandleLocal, HandleGetevent, HandlePooled, CreateThreads, Assign,
         Subscribe, Unsubscribe, subVars
  <2>2. ASSUME NEW s \in Subs PROVE from'[s] \in Nat /\ from'[s] >= from[s]
    <3>1. from'[s] = from[s] \/ from'[s] = published
      BY <2>1, TypeGroups DEF TypeInv, EventsOK
    <3> QED BY <3>1, QueuesType
  <2> QED BY <1>1, <1>2, <1>3, <2>2, HeldFrame
<1>4. CASE ~UNCHANGED <<event, taken>>
  <2>1. HandleGetevent(c) /\ TakeEvent(Handled(c)) /\ UNCHANGED <<alive, from>>
    BY <1>4 DEF HandleLocal, HandleGetevent, HandlePooled, CreateThreads, Assign,
         TakesNothing, responseVars, subVars
  <2>2. /\ stage[c] = "read" /\ inbox[c] /\ stage'[c] = "assign"
        /\ what[Handled(c)].op = "getevent"
    BY <2>1, TypeGroups
       DEF HandleGetevent, Receive, Visit, TypeInv, InHandSent, PollOK, Goto
  <2>3. PICK q : q = Handled(c)
    OBVIOUS
  <2>4. q \in Reqs /\ what[q] # NoRequest /\ what[q].op = "getevent" /\ TakeEvent(q)
    BY <2>1, <2>2, <2>3, InHandRequest, RequestsAssumption DEF RequestsAssumption
  <2>5. event[q] = 0
    <3>1. sent[c] \in 1..MaxSends
      BY <2>2, ConnType DEF TypeInv, InHandSent
    <3> QED BY <2>2, <2>3, <3>1 DEF PendingInv, WithoutEvent, Unserved, Handled
  <2>6. Delivers(q)'
    BY <1>1, <2>2, <2>3 DEF Delivers, InHand, Handled
  <2> QED BY <1>1, <1>2, <2>1, <2>4, <2>5, <2>6, HeldTake
<1> QED BY <1>3, <1>4

(* An answer is written, with the event taken for it if any.               *)
LEMMA HeldAnswer ==
  ASSUME TypeInv, OrderInv, AnswerInv, HeldInv, NEW c \in Conns, Waits(c),
         NEW k \in Reqs, k = Handled(c), NEW there, Goto(c, there), Write(c, k),
         \/ TakesNothing
         \/ TakeEvent(k) /\ what[k].op = "getevent" /\ event[k] = 0,
         UNCHANGED <<sent, what, alive, published, from>>
  PROVE  HeldInv'
<1>1. written'[k] = 1 /\ \A p \in Reqs : p # k => written'[p] = written[p]
  <2>1. sent[c] \in 1..MaxSends
    BY DEF Handled, Reqs
  <2>2. written[k] = 0
    BY <2>1 DEF AnswerInv, Answers, Unanswered, Handled
  <2>3. written' = [written EXCEPT ![k] = written[k] + 1]
    BY DEF Write
  <2> QED BY <2>2, <2>3, TypeGroups DEF TypeInv, ResponsesOK
<1>2. ASSUME NEW p \in Reqs PROVE Delivers(p) => Delivers(p)'
  <2>1. p[1] \in Conns
    BY DEF Reqs
  <2>2. p[1] # c => stage'[p[1]] = stage[p[1]]
    BY <2>1, TypeGroups DEF TypeInv, PollOK, Goto
  <2>3. written[p] = 1 => written'[p] = 1
    BY <1>1
  <2>4. stage[p[1]] \in {"assign", "check"} /\ p = Handled(p[1]) =>
            stage'[p[1]] \in {"assign", "check"} \/ written'[p] = 1
    BY <1>1, <2>2
  <2> QED BY <2>3, <2>4, DeliversKept
<1>3. CASE TakesNothing
  BY <1>2, <1>3, HeldFrame, QueuesType DEF TakesNothing
<1>4. CASE TakeEvent(k) /\ what[k].op = "getevent" /\ event[k] = 0
  <2>1. what[k] # NoRequest
    <3>1. sent[c] \in 1..MaxSends /\ sent[c] <= sent[c]
      BY ConnType DEF Handled, Reqs
    <3>2. what[<<c, sent[c]>>] \in Requests
      BY <3>1 DEF TypeInv, Asked
    <3> QED BY <3>2, RequestsAssumption DEF Handled, RequestsAssumption
  <2>2. Delivers(k)'
    BY <1>1 DEF Delivers
  <2> QED BY <1>2, <1>4, <2>1, <2>2, HeldTake
<1> QED BY <1>3, <1>4

(* A connection is visited, and no answer is written.                      *)
LEMMA HeldNoAnswer ==
  ASSUME TypeInv, HeldInv, NEW c \in Conns, NEW there, Goto(c, there),
         stage[c] \in {"assign", "check"} => event[Handled(c)] = 0,
         UNCHANGED <<sent, what, written, event, taken, from>>
  PROVE  HeldInv'
<1>1. ASSUME NEW p \in Reqs, event[p] # 0 PROVE Delivers(p) => Delivers(p)'
  <2>1. p[1] \in Conns
    BY DEF Reqs
  <2>2. p[1] # c => stage'[p[1]] = stage[p[1]]
    BY <2>1, TypeGroups DEF TypeInv, PollOK, Goto
  <2> QED BY <1>1, <2>2, DeliversKept
<1> QED BY <1>1, HeldFrame, QueuesType

(* The answers.                                                            *)
LEMMA HeldVisit ==
  ASSUME TypeInv, OrderInv, AnswerInv, PendingInv, HeldInv, NEW c \in Conns,
         Check(c) \/ Poll(c) \/ Timer(c)
  PROVE  HeldInv'
<1> USE ConnType
<1>1. /\ UNCHANGED <<sent, what, alive, published, from>> /\ \E there : Goto(c, there)
  BY DEF Check, Poll, Timer, WriteKept, clientVars
<1>2. CASE Check(c)
  <2>1. stage[c] = "check" /\ Waits(c)
    BY <1>2 DEF Check, Visit, Waits, Handling
  <2>2. PICK k \in Reqs : k = Handled(c)
    BY <2>1, InHandRequest
  <2>3. ~ready[k] => event[k] = 0
    BY <2>1, <2>2 DEF PendingInv, WithoutEvent
  <2>4. CASE IsResponseReady(k)
    <3>1. Fetch(k) /\ Write(c, k)
      BY <1>2, <2>2, <2>4 DEF Check
    <3> QED BY <1>1, <2>1, <2>2, <2>3, <3>1, HeldAnswer DEF Fetch
  <2>5. CASE ~IsResponseReady(k)
    <3>1. UNCHANGED <<written, event, taken>>
      BY <1>2, <2>2, <2>5 DEF Check, TakesNothing, WritesNothing
    <3>2. event[Handled(c)] = 0
      BY <2>2, <2>3, <2>5 DEF IsResponseReady
    <3> QED BY <1>1, <3>1, <3>2, HeldNoAnswer
  <2> QED BY <2>4, <2>5
<1>3. ASSUME Poll(c) \/ Timer(c), cur[c] # 0, WriteKept(c, <<c, cur[c]>>) PROVE HeldInv'
  <2>1. Waits(c) /\ cur[c] = sent[c] /\ sent[c] \in 1..MaxSends
    <3>1. cur[c] = sent[c]
      BY <1>3 DEF AnswerInv, InOnePlace
    <3> QED BY <1>3, <3>1, BoundsAssumption DEF Waits, BoundsAssumption
  <2>2. PICK k \in Reqs : k = Handled(c) /\ k = <<c, cur[c]>>
    BY <2>1 DEF Handled, Reqs
  <2>3. event[k] = 0
    BY <1>3, <2>1, <2>2 DEF PendingInv, WithoutEvent, Unserved
  <2>4. Write(c, k)
    BY <1>3, <2>2 DEF WriteKept
  <2>5. TakesNothing \/ (TakeEvent(k) /\ what[k].op = "getevent")
    <3>1. CASE Timer(c)
      BY <2>2, <3>1 DEF Timer
    <3>2. CASE Poll(c)
      <4>1. Fetch(k) \/ TakesNothing
        BY <2>2, <3>2 DEF Poll
      <4> QED BY <4>1 DEF Fetch
    <3> QED BY <1>3, <3>1, <3>2
  <2> QED BY <1>1, <2>1, <2>2, <2>3, <2>4, <2>5, HeldAnswer
<1>4. CASE Poll(c) /\ ~(cur[c] # 0 /\ IsResponseReady(<<c, cur[c]>>))
  <2>1. stage[c] \in {"idle", "poll"} /\ UNCHANGED <<written, event, taken>>
    BY <1>4 DEF Poll, Visit, TakesNothing, WritesNothing
  <2> QED BY <1>1, <2>1, HeldNoAnswer
<1>5. Timer(c) => WriteKept(c, <<c, cur[c]>>) /\ cur[c] # 0
  BY DEF Timer, Visit, AnswerInv, InOnePlace
<1>6. Poll(c) /\ cur[c] # 0 /\ IsResponseReady(<<c, cur[c]>>) => WriteKept(c, <<c, cur[c]>>)
  BY DEF Poll
<1> QED BY <1>2, <1>3, <1>4, <1>5, <1>6

(* No event at the start, and every step keeps them.                       *)
LEMMA HeldNext ==
  /\ Init => HeldInv
  /\ /\ TypeInv /\ OrderInv /\ AnswerInv /\ StageInv /\ PendingInv /\ HeldInv /\ [Next]_vars
     => HeldInv'
<1>1. Init => HeldInv
  BY DEF Init, HeldInv, EventsTaken, EventsOnce, EventsHeld
<1>2. ASSUME TypeInv, OrderInv, AnswerInv, StageInv, PendingInv, HeldInv, [Next]_vars
      PROVE HeldInv'
  <2> USE <1>2
  <2>1. CASE /\ UNCHANGED <<sent, what, written, event, taken, from>>
             /\ \A c \in Conns : stage[c] \in {"assign", "check"} => stage'[c] = stage[c]
    <3>1. ASSUME NEW p \in Reqs PROVE Delivers(p) => Delivers(p)'
      <4>1. p[1] \in Conns
        BY DEF Reqs
      <4> QED BY <2>1, <4>1, DeliversKept
    <3> QED BY <2>1, <3>1, HeldFrame, QueuesType
  <2>2. CASE \/ MainThread \/ EventHandler \/ SignalExit \/ UNCHANGED vars
             \/ \E c \in Conns : HangUp(c) \/ Expire(c) \/ Accept(c)
             \/ \E w \in Workers : Worker(w)
    <3>1. UNCHANGED <<sent, what, written, event, taken, from, stage>>
      BY <2>2 DEF MainThread, EventHandler, SignalExit, MainSend, MainAck, Shutdown,
         ShutdownAck, SetShuttingDown, CleanupThreadPool, JoinAll, Close, vars, HangUp, Expire,
         Accept, Worker, TakeJob, Begin, Return, Call, StoreResponse, WakeupChecked, WorkerSend,
         WorkerAck, clientVars, pollVars, responseVars, subVars
    <3> QED BY <2>1, <3>1
  <2>3. CASE Select \/ EndIteration
    <3>1. /\ UNCHANGED <<sent, what, written, event, taken, from>>
          /\ \A c \in Conns : stage[c] = "none"
      BY <2>3 DEF Select, EndIteration, clientVars, responseVars, subVars, StageInv, Calm
    <3> QED BY <2>1, <3>1
  <2>4. ASSUME NEW c \in Conns, Eof(c) \/ Flush(c) PROVE HeldInv'
    <3>1. /\ UNCHANGED <<sent, what, written, event, taken, from>>
          /\ stage[c] \in {"eof", "write"} /\ \E there : Goto(c, there)
      BY <2>4 DEF Eof, Flush, Visit, clientVars, responseVars, subVars
    <3> QED BY <3>1, HeldNoAnswer
  <2> QED BY <2>2, <2>3, <2>4, HeldSend, HeldHandle, HeldVisit DEF Next, PollThread
<1> QED BY <1>1, <1>2

(***************************************************************************)
(* An event taken from a queue is in one answer: it is in the response of  *)
(* one getevent for that subscription, and that response is written, or    *)
(* about to be by the handler that has taken the event (getEventsFor and   *)
(* its callers).                                                           *)
(***************************************************************************)
THEOREM InOneAnswerCorrect == Spec => []InOneAnswer
<1> DEFINE IInv == /\ TypeInv /\ OrderInv /\ AnswerInv
                   /\ StageInv /\ PendingInv /\ HeldInv
<1>1. Init => IInv
  BY InitType, OrderInit, AnswerInit, StageNext, PendingNext, HeldNext
<1>2. IInv /\ [Next]_vars => IInv'
  BY NextType, OrderNext, AnswerNext, StageNext, PendingNext, HeldNext
<1>3. IInv => InOneAnswer
  <2> SUFFICES ASSUME TypeInv, HeldInv, NEW s \in Subs, NEW i \in 1..Len(taken[s])
      PROVE \E q \in {p \in Reqs : Polls(p, s) /\ event[p] = taken[s][i]} :
               /\ {p \in Reqs : Polls(p, s) /\ event[p] = taken[s][i]} = {q}
               /\ (written[q] = 1 \/ InHand(q))
    BY DEF InOneAnswer
  <2>1. PICK q \in Reqs : Polls(q, s) /\ event[q] = taken[s][i] /\ Delivers(q)
    BY DEF HeldInv, EventsHeld
  <2>2. taken[s][i] # 0
    <3>1. taken[s] \in Seq(1..published) /\ published \in Nat
      BY QueuesType
    <3>2. taken[s][i] \in 1..published
      BY <3>1, ElementOfSeq
    <3> QED BY <3>1, <3>2
  <2>3. \A p \in Reqs : Polls(p, s) /\ event[p] = taken[s][i] => p = q
    BY <2>1, <2>2 DEF HeldInv, EventsOnce
  <2> QED BY <2>1, <2>3 DEF Delivers
<1> QED BY <1>1, <1>2, <1>3, PTL DEF Spec

-----------------------------------------------------------------------------
(***************************************************************************)
(* Results.  A request goes to the pool once: it is untouched until it is  *)
(* posted, then in the queue of jobs once, then with one thread.  That     *)
(* thread alone stores results, one for a call, and makes the response     *)
(* ready with the last one; the poll thread never does for a pooled        *)
(* request, but at its timeout.                                            *)
(***************************************************************************)
Fresh(q) == LET c == q[1]
                n == q[2]
            IN n > sent[c] \/ (n = sent[c] /\ (inbox[c] \/ stage[c] = "create"))
Served(q)   == \E w \in Workers : wreq[w] = q
Queued(q)   == \E i \in 1..Len(jobs) : jobs[i] = q
IsPooled(q) == what[q] \in Requests /\ what[q].op \in Pooled
FreshInv == \A q \in Reqs :
    Fresh(q) => done[q] = 0 /\ ~ready[q] /\ ~Served(q) /\ ~Queued(q)
JobsInv == \A i \in 1..Len(jobs) :
    /\ IsPooled(jobs[i]) /\ done[jobs[i]] = 0 /\ ~Served(jobs[i])
    /\ \A j \in 1..Len(jobs) : jobs[j] = jobs[i] => j = i
ServedInv == \A w \in Workers : wreq[w] \in Reqs =>
    /\ IsPooled(wreq[w]) /\ done[wreq[w]] <= what[wreq[w]].calls
    /\ wpc[w] = "calling" => done[wreq[w]] < what[wreq[w]].calls
    /\ \A v \in Workers : wreq[v] = wreq[w] => v = w
HandlerInv ==
    /\ finished => \E c \in Conns : stage[c] = "assign" /\ what[Handled(c)].op \notin Pooled
    /\ \A c \in Conns : stage[c] = "create" => what[Handled(c)].op \in Pooled
Complete(q) == (ready[q] \/ written[q] > 0) /\ ~late[q] /\ what[q].op \in Pooled =>
    done[q] = what[q].calls
CompleteInv == /\ FreshInv /\ JobsInv /\ ServedInv /\ HandlerInv
               /\ \A q \in Reqs : Complete(q)

\* The parts of a request's name.
LEMMA ReqParts ==
  ASSUME NEW q \in Reqs
  PROVE  /\ q[1] \in Conns /\ q[2] \in 1..MaxSends /\ q[2] \in Nat /\ q = <<q[1], q[2]>>
         /\ \A c, n : q = <<c, n>> <=> q[1] = c /\ q[2] = n
BY BoundsAssumption DEF Reqs, BoundsAssumption

(* A connection is visited: the stages of the others stay.                 *)
LEMMA GotoStage ==
  ASSUME TypeInv, NEW c \in Conns, NEW there, Goto(c, there)
  PROVE  stage'[c] = there /\ \A d \in Conns : d # c => stage'[d] = stage[d]
BY TypeGroups DEF TypeInv, PollOK, Goto

(* No request becomes untouched again.                                     *)
LEMMA FreshShrinks ==
  ASSUME TypeInv, [Next]_vars, NEW q \in Reqs, Fresh(q)'
  PROVE  Fresh(q)
<1> DEFINE c == q[1]
<1> DEFINE n == q[2]
<1>0. c \in Conns /\ n \in Nat /\ sent[c] \in Nat /\ inbox[c] \in BOOLEAN
  BY ReqParts, ConnType
<1>1. CASE UNCHANGED <<sent, inbox>> /\ (stage'[c] = "create" => stage[c] = "create" \/ inbox[c])
  BY <1>1 DEF Fresh
<1>2. ASSUME NEW d \in Conns, NEW r \in Requests, Send(d, r) PROVE Fresh(q)
  <2>1. /\ sent' = [sent EXCEPT ![d] = sent[d] + 1]
        /\ inbox' = [inbox EXCEPT ![d] = TRUE] /\ stage' = stage
    BY <1>2 DEF Send, pollVars
  <2>2. CASE d = c
    <3>1. sent'[c] = sent[c] + 1
      BY <2>1, <2>2, TypeGroups DEF TypeInv, ClientsOK
    <3>2. n >= sent'[c]
      BY <1>0, <3>1 DEF Fresh
    <3> QED BY <1>0, <3>1, <3>2 DEF Fresh
  <2>3. CASE d # c
    <3>1. sent'[c] = sent[c] /\ inbox'[c] = inbox[c] /\ stage'[c] = stage[c]
      BY <1>0, <2>1, <2>3, TypeGroups DEF TypeInv, ClientsOK
    <3> QED BY <3>1 DEF Fresh
  <2> QED BY <2>2, <2>3
<1>3. ASSUME NEW d \in Conns, HandleLocal(d) \/ HandleGetevent(d) \/ HandlePooled(d)
      PROVE Fresh(q)
  <2>1. /\ sent' = sent /\ inbox' = [inbox EXCEPT ![d] = FALSE] /\ stage[d] = "read"
        /\ \E there : Goto(d, there)
    BY <1>3 DEF HandleLocal, HandleGetevent, HandlePooled, Receive, Visit
  <2>2. inbox[d]
    BY <2>1 DEF TypeInv, InHandSent
  <2>3. CASE d = c
    BY <1>0, <2>1, <2>2, <2>3 DEF Fresh
  <2>4. CASE d # c
    <3>1. inbox'[c] = inbox[c] /\ stage'[c] = stage[c]
      BY <1>0, <2>1, <2>4, GotoStage, TypeGroups DEF TypeInv, ClientsOK
    <3> QED BY <2>1, <3>1 DEF Fresh
  <2> QED BY <2>3, <2>4
<1>4. ASSUME NEW d \in Conns, \/ CreateThreads(d) \/ Assign(d) \/ Check(d) \/ Poll(d)
                              \/ Timer(d) \/ Eof(d) \/ Flush(d)
      PROVE Fresh(q)
  <2>1. UNCHANGED <<sent, inbox>> /\ \E there : there # "create" /\ Goto(d, there)
    BY <1>4 DEF CreateThreads, Dispatched, Assign, Check, Poll, Timer, WriteKept, Eof, Flush,
       clientVars
  <2>2. stage'[c] = "create" => stage[c] = "create"
    BY <1>0, <2>1, GotoStage
  <2> QED BY <1>1, <2>1, <2>2
<1>5. CASE Select
  BY <1>0, <1>1, <1>5 DEF Select, Readiness, clientVars
<1>6. CASE \/ EndIteration \/ MainThread \/ EventHandler \/ SignalExit \/ UNCHANGED vars
           \/ \E d \in Conns : HangUp(d) \/ Expire(d) \/ Accept(d)
           \/ \E w \in Workers : Worker(w)
  <2>1. UNCHANGED <<sent, inbox, stage>>
    BY <1>6 DEF EndIteration, MainThread, EventHandler, SignalExit, MainSend, MainAck,
       Shutdown, ShutdownAck, SetShuttingDown, CleanupThreadPool, JoinAll, Close, vars, HangUp,
       Expire, Accept, Worker, TakeJob, Begin, Return, Call, StoreResponse, WakeupChecked,
       WorkerSend, WorkerAck, clientVars, pollVars
  <2> QED BY <1>1, <2>1
<1> QED BY <1>2, <1>3, <1>4, <1>5, <1>6 DEF Next, PollThread

(* The jobs and the requests of the threads, when they stay.               *)
LEMMA PlacesFrame ==
  ASSUME TypeInv, CompleteInv, UNCHANGED <<jobs, wreq, wpc, what, done>>
  PROVE  JobsInv' /\ ServedInv'
BY DEF CompleteInv, JobsInv, ServedInv, IsPooled, Served

(* The untouched requests, when responses and places stay.                 *)
LEMMA FreshFrame ==
  ASSUME TypeInv, CompleteInv, [Next]_vars, UNCHANGED <<jobs, wreq, done, ready>>
  PROVE  FreshInv'
BY FreshShrinks DEF CompleteInv, FreshInv, Served, Queued

(* The requests with their handlers, when no other gets there.             *)
LEMMA HandlerFrame ==
  ASSUME TypeInv, CompleteInv, UNCHANGED <<finished, sent, what>>,
         \A c \in Conns : /\ stage[c] = "assign" => stage'[c] = "assign"
                          /\ stage'[c] = "create" => stage[c] = "create"
  PROVE  HandlerInv'
BY DEF CompleteInv, HandlerInv, Handled

(* A step that touches neither responses nor places.                       *)
LEMMA CompleteFrame ==
  ASSUME TypeInv, CompleteInv, [Next]_vars, HandlerInv',
         UNCHANGED <<jobs, wreq, wpc, what, done, ready, written, late>>
  PROVE  CompleteInv'
<1>1. \A q \in Reqs : Complete(q)'
  BY DEF CompleteInv, Complete
<1> QED BY <1>1, PlacesFrame, FreshFrame DEF CompleteInv

(* A request is sent.                                                      *)
LEMMA CompleteSend ==
  ASSUME TypeInv, AnswerInv, CompleteInv, [Next]_vars,
         NEW c \in Conns, NEW r \in Requests, Send(c, r)
  PROVE  CompleteInv'
<1> DEFINE k == <<c, sent[c] + 1>>
<1>1. /\ UNCHANGED <<jobs, wreq, wpc, done, ready, written, late, finished, stage>>
      /\ what' = [what EXCEPT ![k] = r] /\ sent' = [sent EXCEPT ![c] = sent[c] + 1]
      /\ sent[c] \in Nat /\ sent[c] + 1 \in 1..MaxSends
  BY ConnType, BoundsAssumption DEF Send, poolVars, pollVars, BoundsAssumption
<1>2. k \in Reqs /\ k[1] = c /\ k[2] = sent[c] + 1
  BY <1>1 DEF Reqs
<1>3. Fresh(k)
  BY <1>1, <1>2 DEF Fresh
<1>4. done[k] = 0 /\ ~ready[k] /\ ~Served(k) /\ ~Queued(k) /\ written[k] = 0
  <2>1. written[k] = 0
    BY <1>1 DEF AnswerInv, Answers, Unanswered
  <2> QED BY <1>2, <1>3, <2>1 DEF CompleteInv, FreshInv
<1>5. \A q : q # k => what'[q] = what[q]
  BY <1>1, TypeGroups DEF TypeInv, ResponsesOK
<1> HIDE DEF k
<1>6. JobsInv'
  <2>1. \A i \in 1..Len(jobs) : jobs[i] # k
    BY <1>4 DEF Queued
  <2> QED BY <1>1, <1>5, <2>1 DEF CompleteInv, JobsInv, IsPooled, Served
<1>7. ServedInv'
  <2>1. \A w \in Workers : wreq[w] # k
    BY <1>4 DEF Served
  <2> QED BY <1>1, <1>5, <2>1 DEF CompleteInv, ServedInv, IsPooled
<1>8. HandlerInv'
  <2>1. ASSUME NEW d \in Conns, stage[d] \in {"create", "assign"}
        PROVE what'[Handled(d)'] = what[Handled(d)]
    <3>1. d # c
      <4>1. sent[c] = got[c]
        BY DEF Send
      <4> QED BY <2>1, <4>1, ConnType DEF AnswerInv, Owed, Waits, Handling
    <3>2. sent'[d] = sent[d] /\ Handled(d)' = Handled(d) /\ Handled(d) # k
      BY <1>1, <1>2, <3>1, TypeGroups DEF TypeInv, ClientsOK, Handled
    <3> QED BY <1>5, <3>2
  <2> QED BY <1>1, <2>1 DEF CompleteInv, HandlerInv
<1>9. ASSUME NEW q \in Reqs PROVE Complete(q)'
  <2>1. CASE q = k
    BY <1>1, <1>4, <2>1 DEF Complete
  <2>2. CASE q # k
    BY <1>1, <1>5, <2>2 DEF Complete, CompleteInv
  <2> QED BY <2>1, <2>2
<1> QED BY <1>1, <1>6, <1>7, <1>8, <1>9, FreshFrame DEF CompleteInv

(* A request the poll thread answers itself: it is about to be assigned.   *)
LEMMA CompleteHandle ==
  ASSUME TypeInv, CompleteInv, [Next]_vars,
         NEW c \in Conns, HandleLocal(c) \/ HandleGetevent(c)
  PROVE  CompleteInv'
<1>1. /\ UNCHANGED <<jobs, wreq, wpc, what, done, ready, written, late, sent>>
      /\ Goto(c, "assign") /\ what[Handled(c)].op \notin Pooled
  BY DEF HandleLocal, HandleGetevent, Receive, poolVars, Pooled
<1>2. HandlerInv'
  <2>1. \A d \in Conns : Handled(d)' = Handled(d)
    BY <1>1 DEF Handled
  <2> QED BY <1>1, <2>1, GotoStage DEF CompleteInv, HandlerInv
<1> QED BY <1>1, <1>2, CompleteFrame

(* A request goes into the queue of jobs.                                  *)
LEMMA CompletePost ==
  ASSUME TypeInv, AnswerInv, CompleteInv, [Next]_vars, NEW c \in Conns,
         NEW q \in Reqs, q = Handled(c), Fresh(q), ~Fresh(q)', IsPooled(q), Post(q),
         HandlerInv',
         UNCHANGED <<wreq, wpc, what, done, ready, written, late>>
  PROVE  CompleteInv'
<1>1. done[q] = 0 /\ ~ready[q] /\ ~Served(q) /\ ~Queued(q)
  BY DEF CompleteInv, FreshInv
<1>2. /\ jobs \in Seq(Reqs) /\ Len(jobs) \in Nat /\ Len(jobs') = Len(jobs) + 1
      /\ jobs'[Len(jobs) + 1] = q /\ \A i \in 1..Len(jobs) : jobs'[i] = jobs[i]
  BY TypeGroups DEF TypeInv, PoolOK, Post
<1>3. \A i \in 1..Len(jobs') : i \in 1..Len(jobs) \/ i = Len(jobs) + 1
  BY <1>2
<1>4. JobsInv'
  <2> SUFFICES ASSUME NEW i \in 1..Len(jobs')
      PROVE /\ IsPooled(jobs'[i]) /\ done[jobs'[i]] = 0 /\ ~Served(jobs'[i])
            /\ \A j \in 1..Len(jobs') : jobs'[j] = jobs'[i] => j = i
    BY DEF JobsInv, IsPooled, Served
  <2>1. CASE i = Len(jobs) + 1
    BY <1>1, <1>2, <1>3, <2>1 DEF Queued
  <2>2. CASE i \in 1..Len(jobs)
    BY <1>1, <1>2, <1>3, <2>2 DEF Queued, CompleteInv, JobsInv
  <2> QED BY <1>3, <2>1, <2>2
<1>5. ServedInv'
  BY DEF CompleteInv, ServedInv, IsPooled
<1>6. FreshInv'
  <2> SUFFICES ASSUME NEW p \in Reqs, Fresh(p)'
      PROVE (done[p] = 0 /\ ~ready[p] /\ ~Served(p) /\ ~Queued(p))'
    BY DEF FreshInv
  <2>1. p # q /\ Fresh(p)
    BY FreshShrinks
  <2>2. ~Queued(p)'
    BY <1>2, <1>3, <2>1 DEF Queued, CompleteInv, FreshInv
  <2> QED BY <2>1, <2>2 DEF CompleteInv, FreshInv, Served
<1> QED BY <1>4, <1>5, <1>6 DEF CompleteInv, Complete

(* A handler hands its request to the pool, or is about to.                *)
LEMMA CompletePooled ==
  ASSUME TypeInv, AnswerInv, StageInv, CompleteInv, [Next]_vars,
         NEW c \in Conns, HandlePooled(c) \/ CreateThreads(c)
  PROVE  CompleteInv'
<1>1. /\ UNCHANGED <<wreq, wpc, what, done, ready, written, late, sent, finished>>
      /\ stage[c] \in {"read", "create"}
      /\ \E there : Goto(c, there)
  BY DEF HandlePooled, CreateThreads, Receive, Visit, clientVars, responseVars
<1>2. HandlerInv'
  <2>1. what[Handled(c)].op \in Pooled
    BY DEF HandlePooled, CreateThreads, Visit, CompleteInv, HandlerInv
  <2>2. Handled(c)' = Handled(c) /\ \A d \in Conns : Handled(d)' = Handled(d)
    BY <1>1 DEF Handled
  <2> QED BY <1>1, <2>1, <2>2, GotoStage DEF CompleteInv, HandlerInv
<1>3. PICK q \in Reqs : q = Handled(c) /\ what[q] \in Requests
  BY <1>1, InHandRequest
<1>4. q[1] = c /\ q[2] = sent[c]
  BY <1>3 DEF Handled
<1>5. Fresh(q)
  BY <1>1, <1>4 DEF Fresh, TypeInv, InHandSent
<1>6. CASE UNCHANGED jobs
  BY <1>1, <1>2, <1>6, CompleteFrame
<1>7. CASE Post(q) /\ Goto(c, Dispatched(q)) /\ ~inbox'[c] /\ what[q].op \in Pooled
  <2>1. ~Fresh(q)'
    <3>1. stage'[c] # "create"
      BY <1>7, GotoStage DEF Dispatched
    <3> QED BY <1>1, <1>4, <1>7, <3>1, ConnType DEF Fresh
  <2> QED BY <1>1, <1>2, <1>3, <1>5, <1>7, <2>1, CompletePost DEF IsPooled
<1>8. HandlePooled(c) /\ ~UNCHANGED jobs =>
        Post(q) /\ Goto(c, Dispatched(q)) /\ ~inbox'[c] /\ what[q].op \in Pooled
  BY <1>3, TypeGroups DEF HandlePooled, Receive, TypeInv, ClientsOK
<1>9. CreateThreads(c) =>
        Post(q) /\ Goto(c, Dispatched(q)) /\ ~inbox'[c] /\ what[q].op \in Pooled
  BY <1>3 DEF CreateThreads, Visit, clientVars, AnswerInv, InOnePlace, Handling, CompleteInv,
     HandlerInv
<1> QED BY <1>6, <1>7, <1>8, <1>9

(* The response of a request is assigned: FALSE for a pooled request.      *)
LEMMA CompleteAssign ==
  ASSUME TypeInv, AnswerInv, StageInv, CompleteInv, [Next]_vars,
         NEW c \in Conns, Assign(c)
  PROVE  CompleteInv'
<1>1. /\ stage[c] = "assign" /\ Goto(c, "check") /\ finished' = FALSE
      /\ ready' = [ready EXCEPT ![Handled(c)] = finished]
      /\ UNCHANGED <<sent, what, jobs, wreq, wpc, done, written, late>>
  BY DEF Assign, Visit, poolVars, clientVars
<1>2. PICK q \in Reqs : q = Handled(c)
  BY <1>1, InHandRequest
<1>3. q[1] = c /\ q[2] = sent[c] /\ Waits(c) /\ ~inbox[c]
  BY <1>1, <1>2 DEF Handled, Waits, Handling, AnswerInv, InOnePlace
<1>4. ready'[q] = finished /\ \A p \in Reqs : p # q => ready'[p] = ready[p]
  BY <1>1, <1>2, TypeGroups DEF TypeInv, ResponsesOK
<1>5. HandlerInv'
  <2>1. \A d \in Conns : Handled(d)' = Handled(d)
    BY <1>1 DEF Handled
  <2> QED BY <1>1, <2>1, GotoStage DEF CompleteInv, HandlerInv
<1>6. Complete(q)'
  <2>1. finished => what[q].op \notin Pooled
    BY <1>1, <1>2 DEF CompleteInv, HandlerInv, StageInv, OneVisit, Visiting
  <2>2. written[q] = 0
    <3>1. sent[c] \in 1..MaxSends /\ q = <<c, sent[c]>>
      BY <1>2, <1>3, ReqParts DEF Handled
    <3> QED BY <1>3, <3>1 DEF AnswerInv, Answers, Unanswered
  <2> QED BY <1>1, <1>4, <2>1, <2>2 DEF Complete
<1>7. \A p \in Reqs : Complete(p)'
  BY <1>1, <1>4, <1>6 DEF CompleteInv, Complete
<1>8. FreshInv'
  <2>1. ~Fresh(q)
    BY <1>1, <1>3, ConnType DEF Fresh
  <2> QED BY <1>1, <1>4, <2>1, FreshShrinks DEF CompleteInv, FreshInv, Served, Queued
<1> QED BY <1>1, <1>5, <1>7, <1>8, PlacesFrame DEF CompleteInv

(* An answer is written, because the response is ready or the time is up.  *)
LEMMA CompleteWritten ==
  ASSUME TypeInv, CompleteInv, [Next]_vars, NEW c \in Conns, NEW q \in Reqs, Write(c, q),
         HandlerInv', UNCHANGED <<what, jobs, wreq, wpc, done>>,
         \/ UNCHANGED <<ready, late>> /\ (what[q].op \in Pooled => ready[q])
         \/ /\ late' = [late EXCEPT ![q] = TRUE] /\ ~Fresh(q)
            /\ ready' = [ready EXCEPT ![q] = ready[q] \/ TimeoutMakesReady(q)]
  PROVE  CompleteInv'
<1>1. \A p \in Reqs : p # q =>
        written'[p] = written[p] /\ ready'[p] = ready[p] /\ late'[p] = late[p]
  BY TypeGroups DEF TypeInv, ResponsesOK, Write
<1>2. late'[q] \/ (UNCHANGED <<ready, late>> /\ (what[q].op \in Pooled => ready[q]))
  BY TypeGroups DEF TypeInv, ResponsesOK
<1>3. \A p \in Reqs : Complete(p)'
  BY <1>1, <1>2 DEF CompleteInv, Complete
<1>4. FreshInv'
  <2>1. Fresh(q) => UNCHANGED ready
    OBVIOUS
  <2> QED BY <1>1, <2>1, FreshShrinks DEF CompleteInv, FreshInv, Served, Queued
<1> QED BY <1>3, <1>4, PlacesFrame DEF CompleteInv

(* The answers.                                                            *)
LEMMA CompleteVisit ==
  ASSUME TypeInv, AnswerInv, CompleteInv, [Next]_vars,
         NEW c \in Conns, Check(c) \/ Poll(c) \/ Timer(c)
  PROVE  CompleteInv'
<1>1. /\ UNCHANGED <<sent, what, jobs, wreq, wpc, done, finished>>
      /\ stage[c] \in {"check", "idle", "poll", "timer"}
      /\ \E there : there # "create" /\ Goto(c, there)
  BY DEF Check, Poll, Timer, Visit, WriteKept, clientVars, poolVars
<1>2. HandlerInv'
  BY <1>1, GotoStage, HandlerFrame
<1>3. CASE UNCHANGED <<ready, late, written>>
  BY <1>1, <1>2, <1>3, CompleteFrame
<1>4. CASE Check(c) /\ ~UNCHANGED written
  <2>1. PICK q \in Reqs : q = Handled(c)
    BY <1>4, InHandRequest DEF Check, Visit
  <2>2. Write(c, q) /\ IsResponseReady(q) /\ UNCHANGED <<ready, late>>
    BY <1>4, <2>1 DEF Check, WritesNothing
  <2>3. what[q].op \in Pooled => ready[q]
    BY <2>2 DEF IsResponseReady, Pooled
  <2> QED BY <1>1, <1>2, <2>2, <2>3, CompleteWritten
<1>5. ASSUME Poll(c) \/ Timer(c), cur[c] # 0 PROVE <<c, cur[c]>> \in Reqs
  <2>1. cur[c] = sent[c] /\ cur[c] \in Nat /\ sent[c] \in 0..MaxSends
    BY <1>5, ConnType DEF AnswerInv, InOnePlace
  <2> QED BY <1>5, <2>1, BoundsAssumption DEF Reqs, BoundsAssumption
<1>6. CASE Poll(c) /\ ~UNCHANGED written
  <2>1. cur[c] # 0 /\ IsResponseReady(<<c, cur[c]>>) /\ WriteKept(c, <<c, cur[c]>>)
        /\ UNCHANGED <<ready, late>>
    BY <1>6 DEF Poll, WritesNothing
  <2>2. PICK q \in Reqs : q = <<c, cur[c]>>
    BY <1>5, <1>6, <2>1
  <2>3. Write(c, q) /\ (what[q].op \in Pooled => ready[q])
    BY <2>1, <2>2 DEF WriteKept, IsResponseReady, Pooled
  <2> QED BY <1>1, <1>2, <2>1, <2>3, CompleteWritten
<1>7. CASE Timer(c)
  <2>1. cur[c] # 0 /\ stage[c] = "timer"
    BY <1>7 DEF Timer, Visit, AnswerInv, InOnePlace
  <2>2. PICK q \in Reqs : q = <<c, cur[c]>>
    BY <1>5, <1>7, <2>1
  <2>3. ~Fresh(q)
    <3>1. q[1] = c /\ q[2] = sent[c] /\ ~inbox[c]
      BY <2>1, <2>2 DEF AnswerInv, InOnePlace
    <3> QED BY <2>1, <3>1, ConnType DEF Fresh
  <2>4. /\ Write(c, q) /\ late' = [late EXCEPT ![q] = TRUE]
        /\ ready' = [ready EXCEPT ![q] = ready[q] \/ TimeoutMakesReady(q)]
    BY <1>7, <2>2 DEF Timer, WriteKept
  <2> QED BY <1>1, <1>2, <2>3, <2>4, CompleteWritten
<1>8. Check(c) \/ Poll(c) => UNCHANGED <<ready, late>>
  BY DEF Check, Poll
<1> QED BY <1>3, <1>4, <1>6, <1>7, <1>8

(* One thread takes a step.                                                *)
LEMMA StepPlace ==
  ASSUME TypeInv, NEW w \in Workers, NEW there, wpc' = [wpc EXCEPT ![w] = there]
  PROVE  wpc'[w] = there /\ \A v \in Workers : v # w => wpc'[v] = wpc[v]
BY TypeGroups DEF TypeInv, PoolOK

(* The first job goes to a thread.                                         *)
LEMMA CompleteTake ==
  ASSUME TypeInv, CompleteInv, [Next]_vars, HandlerInv', NEW w \in Workers, TakeJob(w)
  PROVE  CompleteInv'
<1> DEFINE q == jobs[1]
<1>1. /\ jobs \in Seq(Reqs) /\ jobs # <<>> /\ wpc[w] = "idle"
      /\ UNCHANGED <<what, done, ready, written, late>>
      /\ wreq \in [Workers -> Reqs \cup {NoReq}]
      /\ \E there : wpc' = [wpc EXCEPT ![w] = there]
  BY TypeGroups DEF TypeInv, PoolOK, TakeJob, Step, responseVars
<1>2. /\ Head(jobs) = q /\ q \in Reqs /\ Len(jobs) \in Nat /\ Len(jobs) > 0
      /\ jobs' = Tail(jobs) /\ Len(jobs') = Len(jobs) - 1
      /\ \A i \in 1..Len(jobs') : i + 1 \in 1..Len(jobs) /\ jobs'[i] = jobs[i + 1]
  <2>1. jobs' = Tail(jobs)
    BY DEF TakeJob
  <2> QED BY <1>1, <2>1, HeadAndTail
<1>3. /\ IsPooled(q) /\ done[q] = 0 /\ ~Served(q)
      /\ \A i \in 1..Len(jobs) : jobs[i] = q => i = 1
  BY <1>2 DEF CompleteInv, JobsInv
<1>4. wreq'[w] = q /\ \A v \in Workers : v # w => wreq'[v] = wreq[v] /\ wpc'[v] = wpc[v]
  BY <1>1, <1>2, StepPlace DEF TakeJob
<1> HIDE DEF q
<1>5. JobsInv'
  <2> SUFFICES ASSUME NEW i \in 1..Len(jobs')
      PROVE /\ IsPooled(jobs'[i]) /\ done[jobs'[i]] = 0
            /\ \A v \in Workers : wreq'[v] # jobs'[i]
            /\ \A j \in 1..Len(jobs') : jobs'[j] = jobs'[i] => j = i
    BY <1>1 DEF JobsInv, IsPooled, Served
  <2>1. i + 1 \in 1..Len(jobs) /\ jobs'[i] = jobs[i + 1] /\ i + 1 # 1
    BY <1>2
  <2>2. /\ IsPooled(jobs'[i]) /\ done[jobs'[i]] = 0 /\ ~Served(jobs'[i])
        /\ \A j \in 1..Len(jobs) : jobs[j] = jobs'[i] => j = i + 1
    BY <2>1 DEF CompleteInv, JobsInv
  <2>3. jobs'[i] # q
    BY <1>3, <2>1
  <2>4. \A v \in Workers : wreq'[v] # jobs'[i]
    BY <1>4, <2>2, <2>3 DEF Served
  <2>5. ASSUME NEW j \in 1..Len(jobs'), jobs'[j] = jobs'[i] PROVE j = i
    <3>1. j + 1 \in 1..Len(jobs) /\ jobs'[j] = jobs[j + 1]
      BY <1>2
    <3> QED BY <2>2, <2>5, <3>1
  <2> QED BY <2>2, <2>4, <2>5
<1>6. ServedInv'
  <2>1. what[q].calls \in Nat /\ what[q].calls > 0
    BY <1>3, RequestsAssumption DEF RequestsAssumption, IsPooled, Request
  <2>2. ASSUME NEW v \in Workers, wreq'[v] \in Reqs
        PROVE /\ IsPooled(wreq'[v]) /\ done[wreq'[v]] <= what[wreq'[v]].calls
              /\ wpc'[v] = "calling" => done[wreq'[v]] < what[wreq'[v]].calls
              /\ \A u \in Workers : wreq'[u] = wreq'[v] => u = v
    <3>1. CASE v = w
      BY <1>1, <1>3, <1>4, <2>1, <3>1 DEF Served, IsPooled
    <3>2. CASE v # w
      BY <1>1, <1>3, <1>4, <2>2, <3>2 DEF Served, CompleteInv, ServedInv, IsPooled
    <3> QED BY <3>1, <3>2
  <2> QED BY <1>1, <2>2 DEF ServedInv, IsPooled
<1>7. FreshInv'
  <2> SUFFICES ASSUME NEW p \in Reqs, Fresh(p)'
      PROVE done[p] = 0 /\ ~ready[p] /\ (\A v \in Workers : wreq'[v] # p)
            /\ \A i \in 1..Len(jobs') : jobs'[i] # p
    BY <1>1 DEF FreshInv, Served, Queued
  <2>1. done[p] = 0 /\ ~ready[p] /\ ~Served(p) /\ ~Queued(p)
    BY FreshShrinks DEF CompleteInv, FreshInv
  <2>2. p # q
    <3>1. 1 \in 1..Len(jobs)
      BY <1>2
    <3> QED BY <2>1, <3>1 DEF Queued, q
  <2> QED BY <1>2, <1>4, <2>1, <2>2 DEF Served, Queued
<1>8. \A p \in Reqs : Complete(p)'
  BY <1>1 DEF CompleteInv, Complete
<1> QED BY <1>5, <1>6, <1>7, <1>8 DEF CompleteInv

(* A thread goes on with its request.                                      *)
LEMMA CompleteGoesOn ==
  ASSUME TypeInv, CompleteInv, [Next]_vars, HandlerInv', NEW w \in Workers, NEW there,
         wpc' = [wpc EXCEPT ![w] = there], wreq[w] \in Reqs,
         there = "calling" => done[wreq[w]] < what[wreq[w]].calls,
         wreq' = wreq \/ wreq' = [wreq EXCEPT ![w] = NoReq],
         \/ UNCHANGED ready
         \/ /\ ready' = [ready EXCEPT ![wreq[w]] = TRUE]
            /\ ~late[wreq[w]] => done[wreq[w]] = what[wreq[w]].calls,
         UNCHANGED <<jobs, what, done, written, late>>
  PROVE  CompleteInv'
<1>1. /\ wreq \in [Workers -> Reqs \cup {NoReq}] /\ ready \in [Reqs -> BOOLEAN]
      /\ NoReq \notin Reqs
  BY TypeGroups, NoReqAssumption DEF TypeInv, PoolOK, ResponsesOK, NoReqAssumption
<1>2. \A v \in Workers : /\ wreq'[v] \in Reqs => wreq'[v] = wreq[v]
                         /\ v # w => wpc'[v] = wpc[v]
                         /\ v = w => wpc'[v] = there
  BY <1>1, StepPlace
<1>3. JobsInv'
  <2>1. \A i \in 1..Len(jobs) : jobs[i] \in Reqs
    BY TypeGroups, ElementOfSeq DEF TypeInv, PoolOK
  <2>2. \A p \in Reqs : ~Served(p) => ~Served(p)'
    BY <1>2 DEF Served
  <2> QED BY <2>1, <2>2 DEF CompleteInv, JobsInv, IsPooled
<1>4. ServedInv'
  <2> SUFFICES ASSUME NEW v \in Workers, wreq'[v] \in Reqs
      PROVE /\ IsPooled(wreq'[v]) /\ done[wreq'[v]] <= what[wreq'[v]].calls
            /\ wpc'[v] = "calling" => done[wreq'[v]] < what[wreq'[v]].calls
            /\ \A u \in Workers : wreq'[u] = wreq'[v] => u = v
    BY DEF ServedInv, IsPooled
  <2>1. wreq'[v] = wreq[v] /\ wreq[v] \in Reqs
    BY <1>2
  <2>2. wpc'[v] = "calling" => wpc[v] = "calling" \/ (v = w /\ there = "calling")
    BY <1>1, <1>2
  <2>3. /\ IsPooled(wreq[v]) /\ done[wreq[v]] <= what[wreq[v]].calls
        /\ wpc[v] = "calling" => done[wreq[v]] < what[wreq[v]].calls
        /\ \A u \in Workers : wreq[u] = wreq[v] => u = v
    BY <2>1 DEF CompleteInv, ServedInv
  <2>4. \A u \in Workers : wreq'[u] = wreq'[v] => wreq[u] = wreq[v]
    BY <1>2, <2>1
  <2> QED BY <2>1, <2>2, <2>3, <2>4
<1>5. FreshInv'
  <2>1. \A p \in Reqs : Fresh(p) => ready'[p] = ready[p]
    BY <1>1 DEF CompleteInv, FreshInv, Served
  <2> QED BY <1>2, <2>1, FreshShrinks DEF CompleteInv, FreshInv, Served, Queued
<1>6. \A p \in Reqs : Complete(p)'
  BY <1>1 DEF CompleteInv, Complete
<1> QED BY <1>3, <1>4, <1>5, <1>6 DEF CompleteInv

(* A result is stored.                                                     *)
LEMMA CompleteReturn ==
  ASSUME TypeInv, CompleteInv, [Next]_vars, HandlerInv', NEW w \in Workers, Return(w)
  PROVE  CompleteInv'
<1> DEFINE q == wreq[w]
<1>1. /\ q \in Reqs /\ wpc[w] = "calling" /\ wpc' = [wpc EXCEPT ![w] = "locked"]
      /\ done' = [done EXCEPT ![q] = done[q] + 1]
      /\ UNCHANGED <<jobs, wreq, what, ready, written, late>>
  BY DEF Return, Step, TypeInv, BusyHave
<1>2. /\ done \in [Reqs -> Nat]
      /\ wpc'[w] = "locked" /\ \A v \in Workers : v # w => wpc'[v] = wpc[v]
  BY <1>1, StepPlace, TypeGroups DEF TypeInv, ResponsesOK, PoolOK
<1>3. /\ IsPooled(q) /\ done[q] < what[q].calls /\ what[q].calls \in Nat
      /\ \A v \in Workers : wreq[v] = q => v = w
  <2>1. IsPooled(q) /\ done[q] < what[q].calls /\ \A v \in Workers : wreq[v] = q => v = w
    BY <1>1 DEF CompleteInv, ServedInv
  <2> QED BY <2>1, RequestsAssumption DEF RequestsAssumption, IsPooled, Request
<1>4. Served(q) /\ \A p \in Reqs : p # q => done'[p] = done[p]
  BY <1>1, <1>2 DEF Served
<1>5. done'[q] = done[q] + 1 /\ done'[q] <= what[q].calls /\ done[q] # what[q].calls
  <2>1. done'[q] = done[q] + 1 /\ done[q] \in Nat
    BY <1>1, <1>2
  <2> QED BY <1>3, <2>1
<1> HIDE DEF q
<1>6. JobsInv'
  <2>1. \A i \in 1..Len(jobs) : jobs[i] # q
    BY <1>4 DEF CompleteInv, JobsInv
  <2> QED BY <1>1, <1>2, <1>4, <2>1 DEF CompleteInv, JobsInv, IsPooled, Served
<1>7. ServedInv'
  <2> SUFFICES ASSUME NEW v \in Workers, wreq[v] \in Reqs
      PROVE /\ IsPooled(wreq[v]) /\ done'[wreq[v]] <= what[wreq[v]].calls
            /\ wpc'[v] = "calling" => done'[wreq[v]] < what[wreq[v]].calls
            /\ \A u \in Workers : wreq[u] = wreq[v] => u = v
    BY <1>1 DEF ServedInv, IsPooled
  <2>1. CASE v = w
    BY <1>1, <1>2, <1>3, <1>5, <2>1 DEF q
  <2>2. CASE v # w
    <3>1. wreq[v] # q /\ wpc'[v] = wpc[v]
      BY <1>1, <1>2, <1>3, <2>2
    <3> QED BY <1>4, <3>1 DEF CompleteInv, ServedInv
  <2> QED BY <2>1, <2>2
<1>8. FreshInv'
  <2>1. ~Fresh(q)
    BY <1>1, <1>4 DEF CompleteInv, FreshInv
  <2> QED BY <1>1, <1>4, <2>1, FreshShrinks DEF CompleteInv, FreshInv, Served, Queued
<1>9. ASSUME NEW p \in Reqs PROVE Complete(p)'
  <2>1. CASE p = q
    BY <1>1, <1>5, <2>1 DEF CompleteInv, Complete
  <2>2. CASE p # q
    BY <1>1, <1>4, <2>2 DEF CompleteInv, Complete
  <2> QED BY <2>1, <2>2
<1> QED BY <1>6, <1>7, <1>8, <1>9 DEF CompleteInv

(* The threads.                                                            *)
LEMMA CompleteWorker ==
  ASSUME TypeInv, CompleteInv, [Next]_vars, NEW w \in Workers, Worker(w)
  PROVE  CompleteInv'
<1>1. UNCHANGED <<finished, stage, sent, what, written, late>>
  BY DEF Worker, TakeJob, Begin, Return, Call, StoreResponse, WakeupChecked, WorkerSend,
     WorkerAck, clientVars, pollVars, responseVars
<1>2. HandlerInv'
  BY <1>1, HandlerFrame
<1>3. ~TakeJob(w) => wreq[w] \in Reqs
  BY DEF Worker, Begin, Return, Call, StoreResponse, WakeupChecked, WorkerSend, WorkerAck,
     Step, TypeInv, BusyHave
<1>4. CASE Begin(w) \/ WakeupChecked(w) \/ WorkerSend(w) \/ WorkerAck(w)
  <2>1. /\ \E there : there # "calling" /\ wpc' = [wpc EXCEPT ![w] = there]
        /\ wreq' = wreq \/ wreq' = [wreq EXCEPT ![w] = NoReq]
        /\ UNCHANGED <<ready, jobs, done>> /\ ~TakeJob(w)
    BY <1>4 DEF Begin, WakeupChecked, WorkerSend, WorkerAck, Step, EndJob, responseVars, TakeJob
  <2> QED BY <1>1, <1>2, <1>3, <2>1, CompleteGoesOn
<1>5. CASE Call(w)
  <2>1. /\ wpc' = [wpc EXCEPT ![w] = "calling"] /\ UNCHANGED <<wreq, ready, jobs, done>>
        /\ done[wreq[w]] < what[wreq[w]].calls /\ ~TakeJob(w)
    BY <1>5 DEF Call, CallsAgain, Step, TakeJob
  <2> QED BY <1>1, <1>2, <1>3, <2>1, CompleteGoesOn
<1>6. CASE StoreResponse(w)
  <2>1. /\ wpc' = [wpc EXCEPT ![w] = "wakeup"] /\ UNCHANGED <<wreq, jobs, done>>
        /\ ready' = [ready EXCEPT ![wreq[w]] = TRUE] /\ ~CallsAgain(wreq[w]) /\ ~TakeJob(w)
    BY <1>6 DEF StoreResponse, Step, TakeJob
  <2>2. /\ IsPooled(wreq[w]) /\ done[wreq[w]] <= what[wreq[w]].calls
        /\ done[wreq[w]] \in Nat /\ what[wreq[w]].calls \in Nat
    <3>1. IsPooled(wreq[w]) /\ done[wreq[w]] <= what[wreq[w]].calls
      BY <1>3, <2>1 DEF CompleteInv, ServedInv
    <3>2. done[wreq[w]] \in Nat
      BY <1>3, <2>1, TypeGroups DEF TypeInv, ResponsesOK
    <3> QED BY <3>1, <3>2, RequestsAssumption DEF RequestsAssumption, IsPooled, Request
  <2>3. ~late[wreq[w]] => done[wreq[w]] = what[wreq[w]].calls
    <3>1. CASE ~(done[wreq[w]] < what[wreq[w]].calls)
      BY <2>2, <3>1
    <3>2. CASE what[wreq[w]].op = "batch" /\ ready[wreq[w]]
      BY <1>3, <2>1, <2>2, <3>2 DEF CompleteInv, Complete, IsPooled
    <3> QED BY <2>1, <3>1, <3>2 DEF CallsAgain
  <2> QED BY <1>1, <1>2, <1>3, <2>1, <2>3, CompleteGoesOn
<1> QED BY <1>2, <1>4, <1>5, <1>6, CompleteTake, CompleteReturn DEF Worker

(* Nothing asked at the start, and every step keeps the results complete.  *)
LEMMA CompleteNext ==
  /\ Init => CompleteInv
  /\ TypeInv /\ AnswerInv /\ StageInv /\ CompleteInv /\ [Next]_vars => CompleteInv'
<1>1. Init => CompleteInv
  BY NoReqAssumption DEF Init, CompleteInv, FreshInv, JobsInv, ServedInv, HandlerInv, Complete,
     Served, Queued, NoReqAssumption
<1>2. ASSUME TypeInv, AnswerInv, StageInv, CompleteInv, [Next]_vars PROVE CompleteInv'
  <2> USE <1>2
  <2>1. CASE \/ MainThread \/ EventHandler \/ SignalExit \/ UNCHANGED vars
             \/ Select \/ EndIteration
             \/ \E c \in Conns : HangUp(c) \/ Expire(c) \/ Accept(c) \/ Eof(c) \/ Flush(c)
    <3>1. /\ UNCHANGED <<finished, sent, jobs, wreq, wpc, what, done, ready, written, late>>
          /\ \A c \in Conns : /\ stage[c] = "assign" => stage'[c] = "assign"
                              /\ stage'[c] = "create" => stage[c] = "create"
      <4>1. UNCHANGED <<finished, sent, jobs, wreq, wpc, what, done, ready, written, late>>
        BY <2>1 DEF MainThread, EventHandler, SignalExit, MainSend, MainAck, Shutdown,
           ShutdownAck, SetShuttingDown, CleanupThreadPool, JoinAll, Close, vars, Select,
           EndIteration, HangUp, Expire, Accept, Eof, Flush, clientVars, responseVars,
           pollVars, poolVars
      <4>2. CASE Select
        BY <4>1, <4>2 DEF Select, Readiness, StageInv, Calm
      <4>3. ASSUME NEW d \in Conns, Eof(d) \/ Flush(d)
            PROVE \A c \in Conns : /\ stage[c] = "assign" => stage'[c] = "assign"
                                   /\ stage'[c] = "create" => stage[c] = "create"
        <5>1. stage[d] \in {"eof", "write"} /\ \E t \in {"none", "poll"} : Goto(d, t)
          BY <4>3 DEF Eof, Flush, Visit
        <5> QED BY <5>1, GotoStage
      <4>4. CASE UNCHANGED stage
        BY <4>1, <4>4
      <4>5. ~Select /\ ~(\E d \in Conns : Eof(d) \/ Flush(d)) => UNCHANGED stage
        BY <2>1 DEF MainThread, EventHandler, SignalExit, MainSend, MainAck, Shutdown,
           ShutdownAck, SetShuttingDown, CleanupThreadPool, JoinAll, Close, vars,
           EndIteration, HangUp, Expire, Accept, pollVars
      <4> QED BY <4>1, <4>2, <4>3, <4>4, <4>5
    <3> QED BY <3>1, HandlerFrame, CompleteFrame
  <2>2. ASSUME NEW c \in Conns, HandleLocal(c) \/ HandleGetevent(c) PROVE CompleteInv'
    BY <2>2, CompleteHandle
  <2>3. ASSUME NEW c \in Conns, HandlePooled(c) \/ CreateThreads(c) PROVE CompleteInv'
    BY <2>3, CompletePooled
  <2>4. ASSUME NEW w \in Workers, Worker(w) PROVE CompleteInv'
    BY <2>4, CompleteWorker
  <2> QED BY <2>1, <2>2, <2>3, <2>4, CompleteSend, CompleteAssign, CompleteVisit
      DEF Next, PollThread
<1> QED BY <1>1, <1>2

(***************************************************************************)
(* An answer that is not the answer of a timeout has the results of all    *)
(* remote calls of its request (jsonrpc_thread, uploadFile_thread).        *)
(***************************************************************************)
THEOREM CompleteUnlessLateCorrect == Spec => []CompleteUnlessLate
<1> DEFINE IInv == TypeInv /\ AnswerInv /\ StageInv /\ CompleteInv
<1>1. Init => IInv
  BY InitType, AnswerInit, StageNext, CompleteNext
<1>2. IInv /\ [Next]_vars => IInv'
  BY NextType, AnswerNext, StageNext, CompleteNext
<1>3. IInv => CompleteUnlessLate
  BY DEF CompleteInv, Complete, CompleteUnlessLate
<1> QED BY <1>1, <1>2, <1>3, PTL DEF Spec

=============================================================================
