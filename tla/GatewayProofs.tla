--------------------------- MODULE GatewayProofs ---------------------------
(***************************************************************************)
(* The RPC gateway keeps the promise of Gateway, for every number of       *)
(* connections, threads, subscriptions, requests and events.               *)
(***************************************************************************)
EXTENDS RpcProofs

(***************************************************************************)
(* Reasons.  A request whose response is ready without a timeout has come  *)
(* to what Gateway asks of its answer, and keeps it until the answer is    *)
(* written: nothing subscribes while the poll thread has a request in      *)
(* hand.  A subscribe or unsubscribe is ready when its handler ends, and a *)
(* request that is kept is neither, nor a poll that is ready.              *)
(***************************************************************************)
Reason(q) ==
    LET r == what[q] IN
    /\ r.op = "getevent" => event[q] # 0 \/ r.sub \notin alive \/ exitSignaled
    /\ r.op = "subscribe" => ~Unborn(r.sub)
    /\ r.op = "unsubscribe" => r.sub \notin alive
Justified(c) ==
    LET q == Handled(c)
        kept == <<c, cur[c]>>
    IN /\ stage[c] = "assign" => (what[q].op \in Local => finished) /\ (finished => Reason(q))
       /\ stage[c] = "check" => (what[q].op \in Local => ready[q]) /\ (ready[q] => Reason(q))
       /\ cur[c] # 0 => what[kept].op \notin Local /\ (what[kept].op = "getevent" => ~ready[kept])
ReasonInv == \A c \in Conns : Justified(c)

(* What the parts of a request are.                                        *)
LEMMA RequestParts ==
  ASSUME NEW r \in Requests
  PROVE  /\ r # NoRequest /\ r.sub \in Subs /\ r.calls \in Nat
         /\ r.op \in Local \cup Pooled \cup {"getevent"}
         /\ r.op \in Pooled => r.calls > 0
<1>1. r \in Request
  BY RequestsAssumption DEF RequestsAssumption
<1>2. r.op \in Pooled => r.calls > 0
  BY RequestsAssumption DEF RequestsAssumption
<1>3. r # NoRequest
  BY <1>1, RequestsAssumption DEF RequestsAssumption
<1> QED BY <1>1, <1>2, <1>3 DEF Request

(* The request a connection keeps is the one its client sent last.         *)
LEMMA KeptRequest ==
  ASSUME TypeInv, AnswerInv, NEW c \in Conns, cur[c] # 0
  PROVE  /\ <<c, cur[c]>> = Handled(c) /\ Handled(c) \in Reqs
         /\ what[Handled(c)] \in Requests
<1>1. cur[c] = sent[c] /\ sent[c] \in 1..MaxSends
  BY ConnType, BoundsAssumption DEF AnswerInv, InOnePlace, BoundsAssumption
<1>2. what[<<c, sent[c]>>] \in Requests
  BY <1>1, BoundsAssumption DEF TypeInv, Asked, BoundsAssumption
<1> QED BY <1>1, <1>2 DEF Handled, Reqs

(* A reason stays while no subscription begins.                            *)
LEMMA ReasonKept ==
  ASSUME NEW q, what'[q] = what[q], what[q].sub \in Subs, event'[q] = event[q],
         alive' \subseteq alive, exitSignaled => exitSignaled',
         \A s \in Subs : Unborn(s)' => Unborn(s), Reason(q)
  PROVE  Reason(q)'
BY Zenon DEF Reason

(* A thread may make a pooled request ready, which needs no such reason.   *)
LEMMA JustifiedFrame ==
  ASSUME TypeInv, AnswerInv, ReasonInv, NEW d \in Conns,
         sent'[d] = sent[d], alive' \subseteq alive,
         exitSignaled => exitSignaled', \A s \in Subs : Unborn(s)' => Unborn(s),
         stage'[d] = "assign" => stage[d] = "assign" /\ finished' = finished,
         stage'[d] = "check" => stage[d] = "check",
         cur'[d] = 0 \/ cur'[d] = cur[d],
         stage[d] \in {"assign", "check"} \/ cur[d] # 0 =>
             /\ what'[Handled(d)] = what[Handled(d)]
             /\ \/ /\ ready'[Handled(d)] = ready[Handled(d)]
                   /\ event'[Handled(d)] = event[Handled(d)]
                \/ what[Handled(d)].op \in Pooled
  PROVE  Justified(d)'
<1>0. PICK q : q = Handled(d)
  OBVIOUS
<1>1. Handled(d)' = q
  BY <1>0 DEF Handled
<1>2. CASE stage[d] \in {"assign", "check"} /\ what[q].op \in Pooled
  <2>1. Reason(q)' /\ what'[q].op \notin Local
    BY <1>0, <1>2 DEF Reason, Pooled, Local
  <2>2. cur'[d] = 0
    BY <1>2 DEF AnswerInv, InOnePlace, Handling
  <2> QED BY <1>1, <2>1, <2>2 DEF Justified
<1>3. CASE stage[d] \in {"assign", "check"} /\ what[q].op \notin Pooled
  <2>1. what[q].sub \in Subs
    BY <1>0, <1>3, InHandRequest, RequestParts
  <2>2. what'[q] = what[q] /\ ready'[q] = ready[q] /\ event'[q] = event[q]
    BY <1>0, <1>3
  <2>3. Reason(q) => Reason(q)'
    BY <2>1, <2>2, ReasonKept
  <2>4. cur'[d] = 0
    BY <1>3 DEF AnswerInv, InOnePlace, Handling
  <2>5. Justified(d)
    BY DEF ReasonInv
  <2>6. /\ stage'[d] = "assign" => (what'[q].op \in Local => finished') /\ (finished' => Reason(q)')
        /\ stage'[d] = "check" => (what'[q].op \in Local => ready'[q]) /\ (ready'[q] => Reason(q)')
    BY <1>0, <2>2, <2>3, <2>5 DEF Justified
  <2> QED BY <1>1, <2>4, <2>6 DEF Justified
<1>4. CASE stage[d] \notin {"assign", "check"}
  <2>1. stage'[d] \notin {"assign", "check"}
    BY <1>4
  <2>2. ASSUME cur'[d] # 0
        PROVE  /\ what'[<<d, cur[d]>>].op \notin Local
               /\ what'[<<d, cur[d]>>].op = "getevent" => ~ready'[<<d, cur[d]>>]
    <3>1. cur[d] # 0 /\ <<d, cur[d]>> = q
      BY <1>0, <2>2, KeptRequest
    <3>2. what'[q] = what[q] /\ (ready'[q] = ready[q] \/ what[q].op \in Pooled)
      BY <1>0, <3>1
    <3>3. what[q].op \notin Local /\ (what[q].op = "getevent" => ~ready[q])
      BY <3>1 DEF ReasonInv, Justified
    <3> QED BY <3>1, <3>2, <3>3 DEF Pooled
  <2> QED BY <2>1, <2>2 DEF Justified
<1> QED BY <1>2, <1>3, <1>4

(* The poll thread visits one connection: the others.                      *)
LEMMA JustifiedOthers ==
  ASSUME TypeInv, AnswerInv, StageInv, ReasonInv, NEW c \in Conns, NEW d \in Conns, d # c,
         \/ HandleLocal(c) \/ HandleGetevent(c) \/ HandlePooled(c) \/ CreateThreads(c)
         \/ Assign(c) \/ Check(c) \/ Poll(c) \/ Timer(c)
  PROVE  Justified(d)'
<1>1. /\ UNCHANGED <<sent, what>>
      /\ UNCHANGED cur \/ \E n : cur' = [cur EXCEPT ![c] = n]
      /\ \E there : Goto(c, there)
      /\ \E n : UNCHANGED ready \/ \E b : ready' = [ready EXCEPT ![<<c, n>>] = b]
  BY DEF HandleLocal, HandleGetevent, HandlePooled, Receive, CreateThreads, Assign, Check, Poll,
     Timer, WriteKept, clientVars, connVars, responseVars, Handled
<1>2. cur'[d] = cur[d] /\ stage'[d] = stage[d]
  BY <1>1, GotoStage, TypeGroups DEF TypeInv, ConnsOK
<1>3. stage[d] \notin {"assign", "check"}
  <2> SUFFICES ASSUME stage[d] \in {"assign", "check"} PROVE FALSE
    OBVIOUS
  <2>1. ~Idle /\ stage[c] \notin Visiting
    BY DEF Idle, Visiting, StageInv, OneVisit
  <2> QED BY <2>1 DEF HandleLocal, HandleGetevent, HandlePooled, Receive, CreateThreads, Assign,
       Check, Poll, Timer, Visit, ToVisit, Visiting
<1>4. ASSUME cur[d] # 0
      PROVE  /\ what'[<<d, cur[d]>>].op \notin Local
             /\ what'[<<d, cur[d]>>].op = "getevent" => ~ready'[<<d, cur[d]>>]
  <2>1. <<d, cur[d]>> \in Reqs
    BY <1>4, KeptRequest
  <2>2. ready'[<<d, cur[d]>>] = ready[<<d, cur[d]>>]
    BY <1>1, <2>1, TypeGroups DEF TypeInv, ResponsesOK
  <2> QED BY <1>1, <1>4, <2>2 DEF ReasonInv, Justified
<1> QED BY <1>2, <1>3, <1>4 DEF Justified

(* Handing out an event, or nothing: a getevent has its reason then.       *)
LEMMA TakenReason ==
  ASSUME TypeInv, NEW q \in Reqs, what[q] \in Requests, what[q].op = "getevent",
         HasAnswer(q, FALSE), TakeEvent(q)
  PROVE  event'[q] # 0 \/ what[q].sub \notin alive \/ exitSignaled
<1>1. what[q].sub \in Subs
  BY RequestParts
<1>2. CASE what[q].sub \in alive /\ queue[what[q].sub] # <<>>
  <2>1. event' = [event EXCEPT ![q] = Head(queue[what[q].sub])]
    BY <1>2 DEF TakeEvent
  <2>2. Head(queue[what[q].sub]) \in 1..published /\ published \in Nat
    BY <1>1, <1>2, QueuesType, HeadAndTail
  <2>3. event'[q] = Head(queue[what[q].sub])
    BY <2>1, TypeGroups DEF TypeInv, EventsOK
  <2> QED BY <2>2, <2>3
<1> QED BY <1>2 DEF HasAnswer

(* The handlers: the connection they visit.                                *)
LEMMA JustifiedHandle ==
  ASSUME TypeInv, OrderInv, AnswerInv, CompleteInv, ReasonInv, NEW c \in Conns,
         HandleLocal(c) \/ HandleGetevent(c) \/ HandlePooled(c) \/ CreateThreads(c) \/ Assign(c)
  PROVE  Justified(c)'
<1>0. PICK q : q = Handled(c)
  OBVIOUS
<1>1. /\ UNCHANGED <<sent, what, cur, exitSignaled>> /\ Handled(c)' = q
      /\ stage[c] \in {"read", "create", "assign"}
  <2>1. /\ UNCHANGED <<sent, what, cur, exitSignaled>>
        /\ stage[c] \in {"read", "create", "assign"}
    BY DEF HandleLocal, HandleGetevent, HandlePooled, Receive, CreateThreads, Assign,
       Visit, clientVars, connVars, responseVars, mainVars
  <2> QED BY <1>0, <2>1 DEF Handled
<1>2. /\ q \in Reqs /\ what[q] \in Requests /\ cur'[c] = 0
      /\ what[q].sub \in Subs /\ what[q] # NoRequest
  <2>1. cur[c] = 0
    BY <1>1 DEF TypeInv, InHandSent, AnswerInv, InOnePlace, Handling
  <2> QED BY <1>0, <1>1, <2>1, InHandRequest, RequestParts
<1>3. \A there : Goto(c, there) => stage'[c] = there
  BY GotoStage
<1>4. CASE HandleLocal(c)
  <2>1. stage'[c] = "assign" /\ finished'
    BY <1>3, <1>4 DEF HandleLocal
  <2>2. Reason(q)'
    <3>1. CASE what[q].op = "subscribe"
      <4>1. Asks(q, what[q].sub)'
        BY <1>1, <1>2, <3>1 DEF Asks
      <4>2. ~Unread(q)'
        <5>1. inbox' = [inbox EXCEPT ![c] = FALSE] /\ q[1] = c
          BY <1>0, <1>4 DEF HandleLocal, Receive, Handled
        <5> QED BY <5>1, TypeGroups DEF TypeInv, ClientsOK, Unread
      <4>3. ~Unborn(what[q].sub)'
        BY <1>2, <4>1, <4>2 DEF Unborn
      <4> QED BY <1>1, <3>1, <4>3 DEF Reason
    <3>2. CASE what[q].op = "unsubscribe"
      <4>1. alive' = alive \ {what[q].sub}
        BY <1>0, <1>4, <3>2 DEF HandleLocal, Unsubscribe
      <4> QED BY <1>1, <3>2, <4>1 DEF Reason
    <3> QED BY <1>0, <1>4, <3>1, <3>2 DEF HandleLocal
  <2> QED BY <1>1, <1>2, <2>1, <2>2 DEF Justified
<1>5. CASE HandleGetevent(c)
  <2>1. stage'[c] = "assign" /\ what[q].op = "getevent" /\ finished' = HasAnswer(q, FALSE)
    BY <1>0, <1>3, <1>5 DEF HandleGetevent
  <2>2. finished' => Reason(q)'
    <3> SUFFICES ASSUME HasAnswer(q, FALSE) PROVE Reason(q)'
      BY <2>1
    <3>1. TakeEvent(q) /\ UNCHANGED alive
      BY <1>0, <1>5 DEF HandleGetevent
    <3>2. event'[q] # 0 \/ what[q].sub \notin alive \/ exitSignaled
      BY <1>2, <2>1, <3>1, TakenReason
    <3> QED BY <1>1, <2>1, <3>1, <3>2 DEF Reason
  <2> QED BY <1>1, <1>2, <2>1, <2>2 DEF Justified, Local
<1>6. CASE HandlePooled(c) \/ CreateThreads(c)
  <2>1. what[q].op \in Pooled /\ stage'[c] \in {"create", "check", "assign"}
    BY <1>0, <1>3, <1>6 DEF HandlePooled, CreateThreads, Visit, CompleteInv, HandlerInv, Dispatched
  <2>2. Reason(q)' /\ what[q].op \notin Local
    BY <1>1, <2>1 DEF Reason, Pooled, Local
  <2> QED BY <1>1, <1>2, <2>2 DEF Justified
<1>7. CASE Assign(c)
  <2>1. stage[c] = "assign" /\ stage'[c] = "check" /\ UNCHANGED <<inbox, event, alive>>
    BY <1>3, <1>7 DEF Assign, Visit, clientVars, subVars
  <2>2. ready'[q] = finished
    BY <1>0, <1>2, <1>7, TypeGroups DEF Assign, TypeInv, ResponsesOK
  <2>3. Reason(q) => Reason(q)'
    <3>1. \A s \in Subs : Unborn(s)' => Unborn(s)
      BY <1>1, <2>1, StillBorn
    <3> QED BY <1>1, <1>2, <2>1, <3>1, ReasonKept
  <2> QED BY <1>0, <1>1, <1>2, <2>1, <2>2, <2>3 DEF ReasonInv, Justified
<1> QED BY <1>4, <1>5, <1>6, <1>7

(* The answers: the connection they visit.                                 *)
LEMMA JustifiedAnswer ==
  ASSUME TypeInv, AnswerInv, ReasonInv, NEW c \in Conns, Check(c) \/ Poll(c) \/ Timer(c)
  PROVE  Justified(c)'
<1>0. PICK q : q = Handled(c)
  OBVIOUS
<1>1. /\ UNCHANGED <<sent, what>> /\ Handled(c)' = q
  BY <1>0 DEF Check, Poll, Timer, Handled, clientVars
<1>2. \A there : Goto(c, there) => stage'[c] = there
  BY GotoStage
<1>3. CASE Check(c)
  <2>1. stage[c] = "check" /\ stage'[c] = "poll" /\ cur[c] = 0
    BY <1>2, <1>3 DEF Check, Visit, AnswerInv, InOnePlace, Handling
  <2>2. UNCHANGED ready
    BY <1>3 DEF Check
  <2>3. CASE IsResponseReady(q)
    BY <1>0, <1>3, <2>1, <2>3 DEF Check, Justified
  <2>4. CASE ~IsResponseReady(q)
    <3>1. cur' = [cur EXCEPT ![c] = sent[c]]
      BY <1>0, <1>3, <2>4 DEF Check
    <3>2. cur'[c] = sent[c]
      BY <3>1, TypeGroups DEF TypeInv, ConnsOK
    <3>3. ~ready[q]
      BY <2>4 DEF IsResponseReady
    <3>4. what[q].op \notin Local
      BY <1>0, <2>1, <3>3 DEF ReasonInv, Justified
    <3> QED BY <1>0, <1>1, <2>1, <2>2, <3>2, <3>3, <3>4 DEF Justified, Handled
  <2> QED BY <2>3, <2>4
<1>4. CASE (Poll(c) \/ Timer(c)) /\ cur[c] # 0 /\ WriteKept(c, <<c, cur[c]>>)
  <2>1. stage'[c] = "none" /\ cur'[c] = 0
    BY <1>2, <1>4, TypeGroups DEF WriteKept, TypeInv, ConnsOK
  <2> QED BY <2>1 DEF Justified
<1>5. CASE Poll(c) /\ ~(cur[c] # 0 /\ IsResponseReady(<<c, cur[c]>>))
  <2>1. /\ UNCHANGED <<cur, ready, what>> /\ \E there \in {"timer", "none"} : Goto(c, there)
    BY <1>5 DEF Poll
  <2>2. stage'[c] \in {"timer", "none"}
    BY <1>2, <2>1
  <2> QED BY <2>1, <2>2 DEF ReasonInv, Justified
<1>6. Timer(c) => WriteKept(c, <<c, cur[c]>>) /\ cur[c] # 0
  BY DEF Timer, Visit, AnswerInv, InOnePlace
<1>7. Poll(c) /\ cur[c] # 0 /\ IsResponseReady(<<c, cur[c]>>) => WriteKept(c, <<c, cur[c]>>)
  BY DEF Poll
<1> QED BY <1>3, <1>4, <1>5, <1>6, <1>7

\* Every step keeps the reasons.
LEMMA ReasonNext ==
  /\ Init => ReasonInv
  /\ TypeInv /\ OrderInv /\ AnswerInv /\ StageInv /\ CompleteInv /\ ReasonInv /\ [Next]_vars
        => ReasonInv'
<1>1. Init => ReasonInv
  BY DEF Init, ReasonInv, Justified
<1>2. ASSUME TypeInv, OrderInv, AnswerInv, StageInv, CompleteInv, ReasonInv, [Next]_vars,
             NEW d \in Conns
      PROVE Justified(d)'
  <2> USE <1>2
  <2>0. stage[d] \in {"assign", "check"} \/ cur[d] # 0 => Handled(d) \in Reqs
    BY InHandRequest, KeptRequest
  <2>1. CASE UNCHANGED <<sent, inbox, what, alive, exitSignaled, stage, finished, cur, ready, event>>
    <3>1. \A s \in Subs : Unborn(s)' => Unborn(s)
      BY <2>1, StillBorn
    <3> QED BY <2>1, <3>1, JustifiedFrame DEF Handled
  <2>2. CASE \/ MainThread \/ UNCHANGED vars
             \/ \E c \in Conns : HangUp(c) \/ Expire(c) \/ Accept(c)
    <3>1. UNCHANGED <<sent, inbox, what, alive, exitSignaled, stage, finished, cur, ready, event>>
      BY <2>2 DEF MainThread, MainSend, MainAck, Shutdown, ShutdownAck, SetShuttingDown,
         CleanupThreadPool, JoinAll, Close, vars, HangUp, Expire, Accept, clientVars, connVars,
         pollVars, responseVars, mainVars, subVars
    <3> QED BY <2>1, <3>1
  <2>3. CASE EventHandler \/ SignalExit
    <3>1. /\ UNCHANGED <<sent, inbox, what, stage, finished, cur, ready, event>>
          /\ alive' \subseteq alive /\ (exitSignaled => exitSignaled')
      BY <2>3 DEF EventHandler, Enqueue, SignalExit, clientVars, connVars, pollVars, responseVars,
         subVars
    <3>2. \A s \in Subs : Unborn(s)' => Unborn(s)
      BY <3>1, StillBorn
    <3> QED BY <3>1, <3>2, JustifiedFrame DEF Handled
  <2>4. ASSUME NEW w \in Workers, Worker(w) PROVE Justified(d)'
    <3>1. /\ UNCHANGED <<clientVars, connVars, pollVars, what, event, alive, exitSignaled>>
          /\ UNCHANGED ready \/ (wreq[w] \in Reqs /\ ready' = [ready EXCEPT ![wreq[w]] = TRUE])
      <4>1. StoreResponse(w) => wreq[w] \in Reqs
        BY DEF StoreResponse, Step, TypeInv, BusyHave
      <4> QED BY <2>4, <4>1 DEF Worker, TakeJob, Begin, Return, Call, StoreResponse,
            WakeupChecked, WorkerSend, WorkerAck, responseVars, mainVars, subVars
    <3>2. \A q \in Reqs : ready'[q] = ready[q] \/ what[q].op \in Pooled
      <4>1. wreq[w] \in Reqs => what[wreq[w]].op \in Pooled
        BY DEF CompleteInv, ServedInv, IsPooled
      <4> QED BY <3>1, <4>1, TypeGroups DEF TypeInv, ResponsesOK
    <3>3. \A s \in Subs : Unborn(s)' => Unborn(s)
      BY <3>1, StillBorn DEF clientVars
    <3> QED BY <2>0, <3>1, <3>2, <3>3, JustifiedFrame DEF clientVars, connVars, pollVars
  <2>5. ASSUME NEW c \in Conns, Eof(c) \/ Flush(c) PROVE Justified(d)'
    <3>1. /\ UNCHANGED <<sent, inbox, what, alive, exitSignaled, finished, cur, ready, event>>
          /\ Goto(c, "none") \/ Goto(c, "poll")
      BY <2>5 DEF Eof, Flush, clientVars, responseVars, mainVars, subVars
    <3>2. stage'[d] = stage[d] \/ stage'[d] \in {"none", "poll"}
      BY <3>1, GotoStage
    <3>3. \A s \in Subs : Unborn(s)' => Unborn(s)
      BY <3>1, StillBorn
    <3> QED BY <3>1, <3>2, <3>3, JustifiedFrame
  <2>6. CASE Select \/ EndIteration
    <3>1. /\ UNCHANGED <<clientVars, responseVars, mainVars, subVars, finished>>
          /\ stage'[d] \notin {"assign", "check"}
          /\ cur'[d] = 0 \/ cur'[d] = cur[d]
      <4>1. CASE Select
        BY <4>1 DEF Select, Readiness, connVars
      <4>2. CASE EndIteration
        BY <4>2 DEF EndIteration
      <4> QED BY <2>6, <4>1, <4>2
    <3>2. UNCHANGED <<sent, inbox, what, alive, exitSignaled, ready, event>>
      BY <3>1 DEF clientVars, responseVars, mainVars, subVars
    <3>3. \A s \in Subs : Unborn(s)' => Unborn(s)
      BY <3>2, StillBorn
    <3> QED BY <3>1, <3>2, <3>3, JustifiedFrame
  <2>7. ASSUME NEW c \in Conns, NEW r \in Requests, Send(c, r) PROVE Justified(d)'
    <3>1. /\ sent' = [sent EXCEPT ![c] = @ + 1]
          /\ what' = [what EXCEPT ![<<c, sent[c] + 1>>] = r]
          /\ UNCHANGED <<alive, exitSignaled, stage, finished, cur, ready, event>>
          /\ sent[c] = got[c]
      BY <2>7 DEF Send, connVars, pollVars, mainVars, subVars
    <3>2. CASE d = c
      <4>1. stage[c] \notin {"assign", "check"} /\ cur[c] = 0
        BY <3>1, ConnType DEF AnswerInv, Owed, Waits, Handling
      <4> QED BY <3>1, <3>2, <4>1 DEF Justified
    <3>3. CASE d # c
      <4>1. sent'[d] = sent[d]
        BY <3>1, <3>3, TypeGroups DEF TypeInv, ClientsOK
      <4>2. Handled(d) \in Reqs => what'[Handled(d)] = what[Handled(d)]
        BY <3>1, <3>3, TypeGroups DEF TypeInv, ResponsesOK, Handled
      <4>3. \A s \in Subs : Unborn(s)' => Unborn(s)
        BY <2>7, SendBorn
      <4> QED BY <2>0, <3>1, <4>1, <4>2, <4>3, JustifiedFrame
    <3> QED BY <3>2, <3>3
  <2>8. ASSUME NEW c \in Conns,
               \/ HandleLocal(c) \/ HandleGetevent(c) \/ HandlePooled(c) \/ CreateThreads(c)
               \/ Assign(c) \/ Check(c) \/ Poll(c) \/ Timer(c)
        PROVE Justified(d)'
    BY <2>8, JustifiedOthers, JustifiedHandle, JustifiedAnswer
  <2> QED BY <2>2, <2>3, <2>4, <2>5, <2>6, <2>7, <2>8 DEF Next, PollThread
<1> QED BY <1>1, <1>2 DEF ReasonInv

-----------------------------------------------------------------------------
(***************************************************************************)
(* The refinement.  What Gateway sees of the state changes with a request, *)
(* with an event taken, with a subscription and with an answer.            *)
(***************************************************************************)
LEMMA RefinementInit == Init => Abstract!Init
<1> SUFFICES ASSUME Init PROVE Abstract!Init
  OBVIOUS
<1>1. Ending = [q \in Reqs |-> "none"]
  BY DEF Init, Ending
<1>2. Opened = Subscribed
  BY BoundsAssumption DEF Init, Opened, Unborn, Asks, BoundsAssumption
<1>3. Cursor = [s \in Subs |-> 0]
  <2>1. \A s \in Subs : from[s] + Len(taken[s]) = 0
    BY EmptySeq DEF Init
  <2> QED BY <2>1 DEF Cursor
<1> QED BY <1>1, <1>2, <1>3 DEF Init, Abstract!Init

\* The same subscriptions have been opened.
LEMMA OpenedKept ==
  ASSUME UNCHANGED what, \A q \in Reqs, s \in Subs : Asks(q, s) => (Unread(q)' <=> Unread(q))
  PROVE  UNCHANGED Opened
BY DEF Opened, Unborn, Asks

LEMMA Stutters ==
  ASSUME UNCHANGED <<what, sent, inbox, written, late, done, event, alive, from, taken,
                     published, exitSignaled>>
  PROVE  UNCHANGED Abstract!vars
<1>1. UNCHANGED Opened
  BY OpenedKept DEF Unread, Handled
<1>2. UNCHANGED <<Cursor, Ending>>
  BY DEF Cursor, Ending
<1> QED BY <1>1, <1>2 DEF Abstract!vars

\* Requests read, but for subscribe.
LEMMA ReadOpened ==
  ASSUME TypeInv, NEW c \in Conns, UNCHANGED <<what, sent>>,
         inbox' = [inbox EXCEPT ![c] = FALSE], what[Handled(c)].op # "subscribe"
  PROVE  UNCHANGED Opened
<1>1. \A q \in Reqs : q[1] \in Conns
  BY DEF Reqs
<1>2. \A d \in Conns : d # c => inbox'[d] = inbox[d]
  BY TypeGroups DEF TypeInv, ClientsOK
<1>3. ~inbox'[c]
  BY TypeGroups DEF TypeInv, ClientsOK
<1>4. ASSUME NEW q \in Reqs, NEW s \in Subs, Asks(q, s) PROVE Unread(q)' <=> Unread(q)
  <2>1. CASE q[1] = c
    BY <1>3, <1>4, <2>1 DEF Unread, Asks
  <2>2. CASE q[1] # c
    BY <1>1, <1>2, <2>2 DEF Unread, Handled
  <2> QED BY <2>1, <2>2
<1> QED BY <1>4, OpenedKept

\* A request is sent: it has not been read.
LEMMA SendOpened ==
  ASSUME TypeInv, AnswerInv, NEW c \in Conns, NEW r \in Requests, Send(c, r)
  PROVE  /\ what[<<c, sent[c] + 1>>] = NoRequest /\ <<c, sent[c] + 1>> \in Reqs
         /\ UNCHANGED Opened
<1>0. PICK new : new = <<c, sent[c] + 1>>
  OBVIOUS
<1>1. new \in Reqs /\ what[new] = NoRequest /\ sent[c] \in Nat
  <2>1. sent[c] \in Nat /\ sent[c] + 1 \in 1..MaxSends /\ ~(sent[c] + 1 <= sent[c])
    BY ConnType, BoundsAssumption DEF Send, BoundsAssumption
  <2>2. what[<<c, sent[c] + 1>>] = NoRequest
    BY <2>1 DEF TypeInv, Asked
  <2> QED BY <1>0, <2>1, <2>2 DEF Reqs
<1>2. /\ what' = [what EXCEPT ![new] = r]
      /\ sent' = [sent EXCEPT ![c] = @ + 1] /\ inbox' = [inbox EXCEPT ![c] = TRUE]
      /\ ~inbox[c]
  BY <1>0, ConnType DEF Send, AnswerInv, Owed, Waits
<1>3. /\ what'[new] = r /\ \A q \in Reqs : q # new => what'[q] = what[q]
      /\ sent'[c] = sent[c] + 1 /\ inbox'[c]
      /\ \A d \in Conns : d # c => sent'[d] = sent[d] /\ inbox'[d] = inbox[d]
  BY <1>1, <1>2, TypeGroups DEF TypeInv, ResponsesOK, ClientsOK
<1>4. Unread(new)'
  BY <1>0, <1>3 DEF Unread, Handled
<1>5. \A s \in Subs : ~Asks(new, s)
  BY <1>1 DEF Asks
<1>6. ASSUME NEW q \in Reqs, q # new PROVE Unread(q)' <=> Unread(q)
  <2>1. q[1] \in Conns
    BY DEF Reqs
  <2>2. CASE q[1] = c
    BY <1>0, <1>2, <1>3, <1>6, <2>2 DEF Unread, Handled
  <2>3. CASE q[1] # c
    BY <1>3, <2>1, <2>3 DEF Unread, Handled
  <2> QED BY <2>2, <2>3
<1>7. \A q \in Reqs, s \in Subs : q # new => (Asks(q, s)' <=> Asks(q, s))
  BY <1>3 DEF Asks
<1>8. \A s \in Subs : Unborn(s)' <=> Unborn(s)
  BY <1>1, <1>4, <1>5, <1>6, <1>7 DEF Unborn
<1> QED BY <1>0, <1>1, <1>8 DEF Opened

\* A subscribe is read.
LEMMA SubscribeOpened ==
  ASSUME TypeInv, OrderInv, NEW c \in Conns, HandleLocal(c),
         what[Handled(c)].op = "subscribe"
  PROVE  LET s == what[Handled(c)].sub
         IN /\ s \in Subs /\ s \notin Opened /\ Opened' = Opened \cup {s}
            /\ Cursor' = [Cursor EXCEPT ![s] = published]
<1>0. PICK q, s : q = Handled(c) /\ s = what[q].sub
  OBVIOUS
<1>1. stage[c] = "read" /\ inbox[c]
  BY DEF HandleLocal, Receive, Visit, TypeInv, InHandSent
<1>2. q \in Reqs /\ what[q] \in Requests /\ s \in Subs /\ Asks(q, s) /\ Unread(q)
  BY <1>0, <1>1, InHandRequest, RequestParts DEF Asks, Unread, Handled
<1>3. inbox' = [inbox EXCEPT ![c] = FALSE] /\ UNCHANGED <<what, sent, published, taken>>
      /\ Subscribe(s)
  BY <1>0 DEF HandleLocal, Receive
<1>4. Unborn(s)
  BY <1>2 DEF Unborn, OrderInv, SubscribedOnce
<1>5. Asks(q, s)' /\ ~Unread(q)'
  <2>1. ~inbox'[c] /\ q[1] = c
    BY <1>0, <1>3, TypeGroups DEF TypeInv, ClientsOK, Handled
  <2> QED BY <1>2, <1>3, <2>1 DEF Asks, Unread
<1>6. ASSUME NEW t \in Subs, t # s PROVE Unborn(t)' <=> Unborn(t)
  <2>1. ASSUME NEW p \in Reqs, Asks(p, t) PROVE Unread(p)' <=> Unread(p)
    <3>1. p # q
      BY <1>2, <1>6, <2>1 DEF Asks
    <3>2. p[1] \in Conns
      BY DEF Reqs
    <3>3. CASE p[1] = c
      BY <1>0, <1>3, <3>1, <3>3 DEF Unread, Handled
    <3>4. CASE p[1] # c
      BY <1>3, <3>2, <3>4, TypeGroups DEF TypeInv, ClientsOK, Unread, Handled
    <3> QED BY <3>3, <3>4
  <2>2. \A p \in Reqs : Asks(p, t)' <=> Asks(p, t)
    BY <1>3 DEF Asks
  <2> QED BY <2>1, <2>2 DEF Unborn
<1>7. s \notin Opened /\ Opened' = Opened \cup {s}
  BY <1>2, <1>4, <1>5, <1>6 DEF Opened, Unborn
<1>8. Cursor' = [Cursor EXCEPT ![s] = published]
  <2>1. taken[s] = <<>> /\ Len(<<>>) = 0 /\ published \in Nat
    BY <1>2, <1>4, EmptySeq, QueuesType DEF OrderInv, UnbornEmpty
  <2>2. from' = [from EXCEPT ![s] = published] /\ from \in [Subs -> 0..published]
    BY <1>3, TypeGroups DEF Subscribe, TypeInv, EventsOK
  <2>3. from'[s] + Len(taken'[s]) = published
    BY <1>2, <1>3, <2>1, <2>2
  <2>4. \A t \in Subs : t # s => from'[t] + Len(taken'[t]) = from[t] + Len(taken[t])
    BY <1>3, <2>2
  <2> QED BY <1>2, <2>3, <2>4 DEF Cursor
<1> QED BY <1>0, <1>2, <1>7, <1>8

\* An event taken is the next one, and the request has it.
LEMMA Gives ==
  ASSUME TypeInv, OrderInv, NEW q \in Reqs, what[q] \in Requests, what[q].op = "getevent",
         written[q] = 0, event[q] = 0, TakeEvent(q) \/ TakesNothing, UNCHANGED from
  PROVE  Abstract!GiveNext(q) \/ Abstract!GiveNothing
<1>0. PICK s : s = what[q].sub
  OBVIOUS
<1>1. s \in Subs /\ what[q] # NoRequest
  BY <1>0, RequestParts
<1>2. CASE UNCHANGED <<queue, event, taken>>
  BY <1>2 DEF Abstract!GiveNothing, Cursor
<1>3. CASE ~UNCHANGED <<queue, event, taken>>
  <2>1. /\ s \in alive /\ queue[s] # <<>>
        /\ event' = [event EXCEPT ![q] = Head(queue[s])]
        /\ taken' = [taken EXCEPT ![s] = Append(@, Head(queue[s]))]
    BY <1>0, <1>3 DEF TakeEvent, TakesNothing
  <2>2. /\ queue[s] \in Seq(1..published) /\ taken[s] \in Seq(1..published)
        /\ Len(taken[s]) \in Nat /\ from[s] \in Nat /\ published \in Nat
    BY <1>1, QueuesType
  <2>3. Len(queue[s]) \in Nat /\ Len(queue[s]) > 0 /\ Head(queue[s]) = queue[s][1]
    BY <2>1, <2>2, HeadAndTail
  <2>4. /\ Head(queue[s]) = from[s] + Len(taken[s]) + 1
        /\ from[s] + Len(taken[s]) < published
    BY <1>1, <2>1, <2>2, <2>3 DEF OrderInv, Fifo, Ascending
  <2>5. Cursor[s] = from[s] + Len(taken[s])
    BY <1>1 DEF Cursor
  <2>6. Cursor' = [Cursor EXCEPT ![s] = @ + 1]
    <3>1. taken' = [taken EXCEPT ![s] = Append(taken[s], Head(queue[s]))]
          /\ taken \in [Subs -> Seq(1..published)]
      BY <2>1, TypeGroups DEF TypeInv, EventsOK
    <3>2. Len(taken'[s]) = Len(taken[s]) + 1
      BY <1>1, <2>2, <3>1
    <3>3. from'[s] + Len(taken'[s]) = (from[s] + Len(taken[s])) + 1
      <4>1. \A a, b \in Nat : a + (b + 1) = (a + b) + 1
        OBVIOUS
      <4>2. from[s] + (Len(taken[s]) + 1) = (from[s] + Len(taken[s])) + 1
        BY <2>2, <4>1
      <4> QED BY <3>2, <4>2
    <3>4. \A t \in Subs : t # s => from'[t] + Len(taken'[t]) = from[t] + Len(taken[t])
      BY <3>1
    <3> QED BY <1>1, <2>5, <3>3, <3>4 DEF Cursor
  <2>7. Ending[q] = "none"
    BY DEF Ending
  <2> QED BY <1>0, <1>1, <2>1, <2>4, <2>5, <2>6, <2>7
      DEF Abstract!GiveNext, Abstract!Open, Abstract!IsAsked
<1> QED BY <1>2, <1>3

\* A request is answered, in time or not.
LEMMA Ends ==
  ASSUME TypeInv, NEW q \in Reqs, written[q] = 0, written' = [written EXCEPT ![q] = @ + 1],
         \/ ~late[q] /\ UNCHANGED late
         \/ late' = [late EXCEPT ![q] = TRUE]
  PROVE  /\ Ending[q] = "none"
         /\ Ending' = [Ending EXCEPT ![q] = IF late'[q] THEN "timeout" ELSE "answer"]
<1>1. Ending[q] = "none"
  BY DEF Ending
<1>2. /\ written'[q] = 1 /\ \A p \in Reqs : p # q => written'[p] = written[p]
      /\ \A p \in Reqs : p # q => late'[p] = late[p]
  <2>1. late \in [Reqs -> BOOLEAN] /\ written \in [Reqs -> Nat]
    BY TypeGroups DEF TypeInv, ResponsesOK
  <2>2. written'[q] = 1 /\ \A p \in Reqs : p # q => written'[p] = written[p]
    BY <2>1
  <2>3. \A p \in Reqs : p # q => late'[p] = late[p]
    BY <2>1
  <2> QED BY <2>2, <2>3
<1>3. \A p \in Reqs : Ending'[p] = IF p = q THEN IF late'[q] THEN "timeout" ELSE "answer"
                                   ELSE Ending[p]
  BY <1>2 DEF Ending
<1> QED BY <1>1, <1>3 DEF Ending

(***************************************************************************)
(* An answer in time: of a request in hand, or of one that was kept.       *)
(***************************************************************************)
LEMMA InTime ==
  ASSUME TypeInv, OrderInv, CompleteInv, NEW q \in Reqs, what[q] \in Requests,
         written[q] = 0, ~late[q], IsResponseReady(q), ready[q] => Reason(q),
         what[q].op \in Local => ready[q], event[q] = 0 \/ ready[q],
         Fetch(q), written' = [written EXCEPT ![q] = @ + 1],
         UNCHANGED <<what, late, done, sent, inbox, alive, published, from, exitSignaled>>
  PROVE  Abstract!Answer(q)
<1>0. PICK s : s = what[q].sub
  OBVIOUS
<1>1. s \in Subs /\ what[q] # NoRequest /\ what[q].op \in Local \cup Pooled \cup {"getevent"}
  BY <1>0, RequestParts
<1>2. Ending[q] = "none" /\ Ending' = [Ending EXCEPT ![q] = "answer"]
  BY Ends
<1>3. UNCHANGED Opened
  BY OpenedKept DEF Unread, Handled
<1>4. Abstract!GiveNext(q) \/ Abstract!GiveNothing
  <2>1. CASE ready[q] \/ what[q].op # "getevent"
    BY <2>1 DEF Fetch, TakesNothing, Abstract!GiveNothing, Cursor
  <2>2. CASE ~ready[q] /\ what[q].op = "getevent"
    BY <2>2, Gives DEF Fetch
  <2> QED BY <2>1, <2>2
<1>5. Abstract!Fulfilled(q)
  <2>1. CASE what[q].op \in Pooled
    <3>1. ready[q]
      BY <2>1 DEF IsResponseReady, Pooled
    <3>2. done[q] = what[q].calls
      BY <2>1, <3>1 DEF CompleteInv, Complete
    <3> QED BY <1>1, <1>2, <2>1, <3>2 DEF Abstract!Fulfilled, Abstract!Open, Abstract!IsAsked
  <2>2. CASE what[q].op = "getevent"
    <3>1. event'[q] # 0 \/ s \notin alive \/ exitSignaled
      <4>1. CASE ready[q]
        BY <1>0, <2>2, <4>1 DEF Reason, Fetch, TakesNothing
      <4>2. CASE ~ready[q]
        <5>1. HasAnswer(q, FALSE) /\ TakeEvent(q)
          BY <2>2, <4>2 DEF IsResponseReady, Fetch
        <5> QED BY <1>0, <2>2, <5>1, TakenReason
      <4> QED BY <4>1, <4>2
    <3> QED BY <1>0, <1>1, <1>2, <2>2, <3>1
        DEF Abstract!Fulfilled, Abstract!Open, Abstract!IsAsked
  <2>3. CASE what[q].op \in Local
    <3>1. Reason(q)
      BY <2>3
    <3>2. what[q].op = "subscribe" => s \in Opened
      BY <1>0, <1>1, <3>1 DEF Reason, Opened
    <3>3. what[q].op = "unsubscribe" => s \notin alive
      BY <1>0, <3>1 DEF Reason
    <3> QED BY <1>0, <1>1, <1>2, <2>3, <3>2, <3>3
        DEF Abstract!Fulfilled, Abstract!Open, Abstract!IsAsked, Local
  <2> QED BY <1>1, <2>1, <2>2, <2>3
<1> QED BY <1>2, <1>3, <1>4, <1>5 DEF Abstract!Answer

\* The handlers take an event, or open or end a subscription.
LEMMA HandleRefines ==
  ASSUME TypeInv, OrderInv, AnswerInv, PendingInv, NEW c \in Conns,
         HandleLocal(c) \/ HandleGetevent(c) \/ HandlePooled(c)
  PROVE  [Abstract!Next]_(Abstract!vars)
<1>0. PICK q : q = Handled(c)
  OBVIOUS
<1>1. stage[c] = "read" /\ inbox[c] /\ sent[c] \in 1..MaxSends
  <2>1. stage[c] = "read"
    BY DEF HandleLocal, HandleGetevent, HandlePooled, Receive, Visit
  <2>2. inbox[c] /\ sent[c] > 0
    BY <2>1 DEF TypeInv, InHandSent
  <2> QED BY <2>1, <2>2, ConnType, BoundsAssumption DEF BoundsAssumption
<1>2. q \in Reqs /\ what[q] \in Requests /\ what[q] # NoRequest /\ what[q].sub \in Subs
  BY <1>0, <1>1, InHandRequest, RequestParts
<1>3. written[q] = 0 /\ event[q] = 0 /\ Ending[q] = "none"
  <2>1. written[q] = 0
    BY <1>0, <1>1 DEF AnswerInv, Answers, Waits, Unanswered, Handled
  <2>2. event[q] = 0
    BY <1>0, <1>1 DEF PendingInv, WithoutEvent, Unserved, Handled
  <2> QED BY <1>2, <2>1, <2>2 DEF Ending
<1>4. /\ UNCHANGED <<what, sent, written, late, done, published, exitSignaled>>
      /\ inbox' = [inbox EXCEPT ![c] = FALSE] /\ UNCHANGED Ending
  <2>1. /\ UNCHANGED <<what, sent, written, late, done, published, exitSignaled>>
        /\ inbox' = [inbox EXCEPT ![c] = FALSE]
    BY DEF HandleLocal, HandleGetevent, HandlePooled, Receive, mainVars
  <2> QED BY <2>1 DEF Ending
<1>5. CASE HandleLocal(c) /\ what[q].op = "subscribe"
  <2>1. /\ UNCHANGED event /\ alive' = alive \cup {what[q].sub}
    BY <1>0, <1>5 DEF HandleLocal, Subscribe
  <2>2. Abstract!Subscribe(q)
    BY <1>0, <1>2, <1>3, <1>4, <1>5, <2>1, SubscribeOpened
       DEF Abstract!Subscribe, Abstract!Open, Abstract!IsAsked
  <2> QED BY <1>2, <2>2 DEF Abstract!Next
<1>6. CASE HandleLocal(c) /\ what[q].op = "unsubscribe"
  <2>1. UNCHANGED <<event, from, taken>> /\ alive' = alive \ {what[q].sub}
    BY <1>0, <1>6 DEF HandleLocal, Unsubscribe
  <2>2. UNCHANGED Cursor
    BY <2>1 DEF Cursor
  <2>3. UNCHANGED Opened
    BY <1>0, <1>4, <1>6, ReadOpened
  <2>4. Abstract!Unsubscribe(q)
    BY <1>2, <1>3, <1>4, <1>6, <2>1, <2>2, <2>3
       DEF Abstract!Unsubscribe, Abstract!Open, Abstract!IsAsked
  <2> QED BY <1>2, <2>4 DEF Abstract!Next
<1>7. CASE HandleGetevent(c)
  <2>1. /\ what[q].op = "getevent" /\ UNCHANGED <<alive, from>>
        /\ TakeEvent(q) \/ TakesNothing
    BY <1>0, <1>7 DEF HandleGetevent
  <2>2. UNCHANGED Opened
    BY <1>0, <1>4, <2>1, ReadOpened
  <2>3. CASE Abstract!GiveNext(q)
    <3>1. Abstract!Take(q)
      BY <1>4, <2>1, <2>2, <2>3 DEF Abstract!Take
    <3> QED BY <1>2, <3>1 DEF Abstract!Next
  <2>4. CASE Abstract!GiveNothing
    BY <1>4, <2>1, <2>2, <2>4 DEF Abstract!GiveNothing, Abstract!vars
  <2> QED BY <1>2, <1>3, <2>1, <2>3, <2>4, Gives
<1>8. CASE HandlePooled(c)
  <2>1. what[q].op # "subscribe" /\ UNCHANGED <<event, taken, alive, from>>
    BY <1>0, <1>8 DEF HandlePooled, Pooled
  <2>2. UNCHANGED <<Opened, Cursor>>
    BY <1>0, <1>4, <2>1, ReadOpened DEF Cursor
  <2> QED BY <1>4, <2>1, <2>2 DEF Abstract!vars
<1> QED BY <1>0, <1>5, <1>6, <1>7, <1>8 DEF HandleLocal

\* The poll thread answers in time, or not at all.
LEMMA AnswerRefines ==
  ASSUME TypeInv, OrderInv, AnswerInv, PendingInv, CompleteInv, ReasonInv,
         NEW c \in Conns, Check(c) \/ Poll(c)
  PROVE  [Abstract!Next]_(Abstract!vars)
<1>0. PICK q : q = Handled(c)
  OBVIOUS
<1>1. UNCHANGED <<what, late, done, sent, inbox, alive, published, from, exitSignaled>>
  BY DEF Check, Poll, clientVars, mainVars
<1>2. ASSUME stage[c] = "check" \/ cur[c] # 0
      PROVE  /\ q \in Reqs /\ what[q] \in Requests /\ written[q] = 0 /\ ~late[q]
             /\ ready[q] => Reason(q)
             /\ what[q].op \in Local => ready[q]
             /\ event[q] = 0 \/ ready[q]
  <2>1. q \in Reqs /\ what[q] \in Requests
    BY <1>0, <1>2, InHandRequest, KeptRequest
  <2>2. q = <<c, sent[c]>> /\ sent[c] \in 1..MaxSends
    BY <1>0, <2>1 DEF Handled, Reqs
  <2>3. written[q] = 0 /\ ~late[q]
    BY <1>2, <2>2 DEF AnswerInv, Answers, Waits, Handling, Unanswered
  <2>4. CASE stage[c] = "check"
    BY <1>0, <2>1, <2>3, <2>4 DEF ReasonInv, Justified, PendingInv, WithoutEvent
  <2>5. CASE cur[c] # 0
    <3>1. q = <<c, cur[c]>>
      BY <1>0, <2>5, KeptRequest
    <3>2. what[q].op \notin Local /\ (what[q].op = "getevent" => ~ready[q])
      BY <2>5, <3>1 DEF ReasonInv, Justified
    <3>3. ready[q] => Reason(q)
      BY <3>2 DEF Reason, Local
    <3>4. event[q] = 0
      BY <2>2, <2>5 DEF PendingInv, WithoutEvent, Unserved
    <3> QED BY <2>1, <2>3, <3>2, <3>3, <3>4
  <2> QED BY <1>2, <2>4, <2>5
<1>3. CASE \/ Check(c) /\ IsResponseReady(q)
           \/ Poll(c) /\ cur[c] # 0 /\ IsResponseReady(<<c, cur[c]>>)
  <2>1. stage[c] = "check" \/ cur[c] # 0
    BY <1>3 DEF Check, Visit
  <2>2. /\ IsResponseReady(q) /\ Fetch(q)
        /\ written' = [written EXCEPT ![q] = @ + 1]
    <3>1. CASE Check(c) /\ IsResponseReady(q)
      BY <1>0, <3>1 DEF Check, Write
    <3>2. CASE Poll(c) /\ cur[c] # 0 /\ IsResponseReady(<<c, cur[c]>>)
      <4>1. q = <<c, cur[c]>>
        BY <1>0, <3>2, KeptRequest
      <4> QED BY <3>2, <4>1 DEF Poll, WriteKept, Write
    <3> QED BY <1>3, <3>1, <3>2
  <2>3. Abstract!Answer(q)
    BY <1>1, <1>2, <2>1, <2>2, InTime
  <2> QED BY <1>2, <2>1, <2>3 DEF Abstract!Next
<1>4. CASE \/ Check(c) /\ ~IsResponseReady(q)
           \/ Poll(c) /\ ~(cur[c] # 0 /\ IsResponseReady(<<c, cur[c]>>))
  <2>1. UNCHANGED <<event, taken, written>>
    BY <1>0, <1>4 DEF Check, Poll, TakesNothing, WritesNothing
  <2> QED BY <1>1, <2>1, Stutters
<1> QED BY <1>3, <1>4

\* The timer answers when the time is up.
LEMMA TimerRefines ==
  ASSUME TypeInv, OrderInv, AnswerInv, PendingInv, ReasonInv, NEW c \in Conns, Timer(c)
  PROVE  [Abstract!Next]_(Abstract!vars)
<1>1. stage[c] = "timer" /\ cur[c] # 0
  BY DEF Timer, Visit, AnswerInv, InOnePlace
<1>0. PICK q : q = Handled(c) /\ q = <<c, cur[c]>>
  BY <1>1, KeptRequest
<1>2. /\ q \in Reqs /\ what[q] \in Requests /\ what[q] # NoRequest
      /\ what[q].op \in Pooled \cup {"getevent"}
  <2>1. q \in Reqs /\ what[q] \in Requests
    BY <1>0, <1>1, KeptRequest
  <2>2. what[q].op \notin Local
    BY <1>0, <1>1 DEF ReasonInv, Justified
  <2> QED BY <2>1, <2>2, RequestParts
<1>3. written[q] = 0 /\ event[q] = 0
  <2>1. q = <<c, sent[c]>> /\ sent[c] \in 1..MaxSends
    BY <1>0, <1>2 DEF Handled, Reqs
  <2> QED BY <1>1, <2>1 DEF AnswerInv, Answers, Waits, Unanswered, PendingInv, WithoutEvent,
        Unserved
<1>4. /\ UNCHANGED <<what, done, sent, inbox, alive, published, from, exitSignaled>>
      /\ late' = [late EXCEPT ![q] = TRUE] /\ written' = [written EXCEPT ![q] = @ + 1]
      /\ IF what[q].op = "getevent" THEN TakeEvent(q) ELSE TakesNothing
  BY <1>0 DEF Timer, WriteKept, Write, clientVars, mainVars
<1>5. Ending[q] = "none" /\ Ending' = [Ending EXCEPT ![q] = "timeout"]
  <2>1. late'[q]
    BY <1>2, <1>4, TypeGroups DEF TypeInv, ResponsesOK
  <2> QED BY <1>2, <1>3, <1>4, <2>1, Ends
<1>6. Abstract!GiveNext(q) \/ Abstract!GiveNothing
  <2>1. CASE what[q].op = "getevent"
    BY <1>2, <1>3, <1>4, <2>1, Gives
  <2>2. CASE what[q].op # "getevent"
    BY <1>4, <2>2 DEF TakesNothing, Abstract!GiveNothing, Cursor
  <2> QED BY <2>1, <2>2
<1>7. UNCHANGED Opened
  BY <1>4, OpenedKept DEF Unread, Handled
<1>8. Abstract!TimeOut(q)
  BY <1>2, <1>4, <1>5, <1>6, <1>7 DEF Abstract!TimeOut, Abstract!Open, Abstract!IsAsked
<1> QED BY <1>2, <1>8 DEF Abstract!Next

(* Every step is a step that Gateway allows, or changes nothing it sees.   *)
LEMMA RefinementStep ==
  ASSUME TypeInv, OrderInv, AnswerInv, PendingInv, CompleteInv, ReasonInv, [Next]_vars
  PROVE  [Abstract!Next]_(Abstract!vars)
<1>1. CASE \/ MainThread \/ Select \/ EndIteration \/ UNCHANGED vars
           \/ \E c \in Conns : HangUp(c) \/ Expire(c) \/ Accept(c) \/ Eof(c) \/ CreateThreads(c)
                               \/ Assign(c) \/ Flush(c)
  <2>1. UNCHANGED <<what, sent, inbox, written, late, done, event, alive, from, taken, published,
                    exitSignaled>>
    BY <1>1 DEF MainThread, MainSend, MainAck, Shutdown, ShutdownAck, SetShuttingDown,
       CleanupThreadPool, JoinAll, Close, Select, EndIteration, vars, HangUp, Expire, Accept, Eof,
       CreateThreads, Assign, Flush, clientVars, responseVars, mainVars, subVars
  <2> QED BY <2>1, Stutters
<1>2. ASSUME NEW w \in Workers, Worker(w) PROVE [Abstract!Next]_(Abstract!vars)
  <2>1. UNCHANGED <<what, sent, inbox, written, late, event, alive, from, taken, published,
                    exitSignaled>>
    BY <1>2 DEF Worker, TakeJob, Begin, Return, Call, StoreResponse, WakeupChecked, WorkerSend,
       WorkerAck, clientVars, responseVars, mainVars, subVars
  <2>2. CASE Return(w)
    <3>0. PICK q : q = wreq[w]
      OBVIOUS
    <3>1. wpc[w] = "calling" /\ done' = [done EXCEPT ![q] = @ + 1]
      BY <2>2, <3>0 DEF Return, Step
    <3>2. /\ q \in Reqs /\ what[q] \in Requests /\ what[q].op \in Pooled
          /\ done[q] < what[q].calls
      BY <3>0, <3>1 DEF TypeInv, BusyHave, CompleteInv, ServedInv, IsPooled
    <3>3. UNCHANGED <<Opened, Cursor, Ending>>
      BY <2>1, OpenedKept DEF Unread, Handled, Cursor, Ending
    <3>4. Abstract!Result(q)
      BY <2>1, <3>1, <3>2, <3>3, RequestParts DEF Abstract!Result, Abstract!IsAsked
    <3> QED BY <3>2, <3>4 DEF Abstract!Next
  <2>3. CASE ~Return(w)
    <3>1. UNCHANGED done
      BY <1>2, <2>3 DEF Worker, TakeJob, Begin, Call, StoreResponse, WakeupChecked, WorkerSend,
         WorkerAck, responseVars
    <3> QED BY <2>1, <3>1, Stutters
  <2> QED BY <2>2, <2>3
<1>3. ASSUME NEW c \in Conns, NEW r \in Requests, Send(c, r)
      PROVE [Abstract!Next]_(Abstract!vars)
  <2>0. PICK q : q = <<c, sent[c] + 1>>
    OBVIOUS
  <2>1. q \in Reqs /\ what[q] = NoRequest /\ UNCHANGED Opened
    BY <1>3, <2>0, SendOpened
  <2>2. /\ what' = [what EXCEPT ![q] = r]
        /\ UNCHANGED <<written, late, done, event, alive, from, taken, published, exitSignaled>>
    BY <1>3, <2>0 DEF Send, mainVars, subVars
  <2>3. UNCHANGED <<Cursor, Ending>>
    BY <2>2 DEF Cursor, Ending
  <2>4. Abstract!Ask(q, r)
    BY <2>1, <2>2, <2>3 DEF Abstract!Ask
  <2> QED BY <2>1, <2>4 DEF Abstract!Next
<1>4. CASE SignalExit
  <2>1. /\ exitSignaled' = TRUE
        /\ UNCHANGED <<what, sent, inbox, written, late, done, event, alive, from, taken, published>>
    BY <1>4 DEF SignalExit, clientVars, responseVars, subVars
  <2>2. UNCHANGED <<Opened, Cursor, Ending>>
    BY <2>1, OpenedKept DEF Unread, Handled, Cursor, Ending
  <2>3. Abstract!Exit
    BY <2>1, <2>2 DEF Abstract!Exit
  <2> QED BY <2>3 DEF Abstract!Next
<1>5. CASE EventHandler
  <2>1. /\ alive' = {s \in alive : ~Abandoned(s)} /\ published' = published + 1
        /\ UNCHANGED <<what, sent, inbox, written, late, done, event, from, taken, exitSignaled>>
    BY <1>5 DEF EventHandler, Enqueue, clientVars, responseVars
  <2>2. UNCHANGED <<Opened, Cursor, Ending>>
    BY <2>1, OpenedKept DEF Unread, Handled, Cursor, Ending
  <2>3. ASSUME NEW s \in alive
        PROVE ~Abandoned(s) <=> published - Cursor[s] <= QueueLimit
    <3>1. s \in Subs
      BY TypeGroups DEF TypeInv, EventsOK
    <3>2. /\ Len(queue[s]) \in Nat /\ Len(taken[s]) \in Nat
          /\ from[s] \in Nat /\ published \in Nat
      BY <3>1, QueuesType
    <3>3. from[s] + Len(taken[s]) + Len(queue[s]) = published
      BY <3>1 DEF OrderInv, Fifo
    <3>4. Len(queue[s]) = published - Cursor[s]
      BY <3>1, <3>2, <3>3 DEF Cursor
    <3>5. ~Abandoned(s) <=> Len(queue[s]) <= QueueLimit
      BY <3>2, BoundsAssumption DEF Abandoned, BoundsAssumption
    <3> QED BY <3>4, <3>5
  <2>4. Abstract!Publish
    BY <2>1, <2>2, <2>3 DEF Abstract!Publish
  <2> QED BY <2>4 DEF Abstract!Next
<1> QED BY <1>1, <1>2, <1>3, <1>4, <1>5, HandleRefines, AnswerRefines, TimerRefines
     DEF Next, PollThread

(***************************************************************************)
(* The RPC gateway keeps its promise to its clients: see Gateway (agorpc,  *)
(* agohttp).                                                               *)
(***************************************************************************)
THEOREM ImplementsGatewayCorrect == Spec => ImplementsGateway
<1> DEFINE IInv == /\ TypeInv /\ OrderInv /\ AnswerInv /\ StageInv /\ PendingInv
                   /\ CompleteInv /\ ReasonInv
<1>1. Init => IInv
  BY InitType, OrderInit, AnswerInit, StageNext, PendingNext, CompleteNext, ReasonNext
<1>2. IInv /\ [Next]_vars => IInv'
  BY NextType, OrderNext, AnswerNext, StageNext, PendingNext, CompleteNext, ReasonNext
<1>3. IInv /\ [Next]_vars => [Abstract!Next]_(Abstract!vars)
  BY RefinementStep
<1>4. Init => Abstract!Init
  BY RefinementInit
<1> QED BY <1>1, <1>2, <1>3, <1>4, PTL DEF Spec, ImplementsGateway, Abstract!Spec

=============================================================================
