-------------------------------- MODULE Rpc --------------------------------
(***************************************************************************)
(* The RPC gateway: requests and event subscriptions (core/rpc/agorpc.cpp) *)
(* over the HTTP server (shared/agohttp/agohttp.cpp), with the pool of     *)
(* threads and the clean-up of AgoApp (shared/agoapp.cpp).                 *)
(*                                                                         *)
(* The poll thread iterates over the connections, calls the handlers and   *)
(* writes the answers.  Remote calls run on the pool.  Main receives the   *)
(* events of the bus and, at the end, shuts everything down.  A thread     *)
(* that has something for the poll thread wakes it up with mg_broadcast,   *)
(* which blocks until the poll thread has taken the message.               *)
(* A step ends where a mutex is taken or released, or where an access that *)
(* no mutex protects can fall between those of another thread.  mongoose   *)
(* and the clients are external.  A request arrives and an answer leaves   *)
(* in one piece, and a client sends its next request when it has the       *)
(* answer to the one before (HTTP without pipelining).                     *)
(***************************************************************************)
EXTENDS Naturals, Sequences, FiniteSets

CONSTANTS
    Conns,         \* connections clients may open
    Workers,       \* threads of the pool
    Subs,          \* ids generateUuid may give to subscriptions
    Requests,      \* what clients may ask
    NoRequest,
    Subscribed,    \* the subscriptions there are from the start
    QueueLimit,    \* the queue length of a subscription thought to be abandoned
    KeepAlives,    \* bound: whether clients ask to keep connections alive
    Impatient,     \* bound: the connections whose client may hang up
    MaxSends,      \* bound: requests on one connection
    MaxEvents      \* bound: events on the bus

Local  == {"subscribe", "unsubscribe"}
Pooled == {"message", "batch", "file"}
(* calls: the remote calls of a request.  A "message" makes one, a "batch"  *)
(* one for every element whose method is "message", a "file" (upload or     *)
(* download) one for every file.                                            *)
Request == [op : Local \cup Pooled \cup {"getevent"}, sub : Subs, calls : Nat]

ASSUME RequestsAssumption ==
    /\ Requests \subseteq Request
    /\ \A r \in Requests : r.op \in Pooled => r.calls > 0
    /\ NoRequest \notin Request
ASSUME BoundsAssumption ==
    /\ QueueLimit \in Nat /\ MaxSends \in Nat /\ MaxEvents \in Nat
    /\ KeepAlives \subseteq BOOLEAN /\ Subscribed \subseteq Subs

Reqs  == Conns \X (1..MaxSends)     \* HttpReqRep: the nth request on a connection
NoReq == <<"no", "request">>
ASSUME NoReqAssumption == NoReq \notin Reqs
ASSUME WorkersAssumption == IsFiniteSet(Workers)    \* AgoApp creates a fixed number

Flags == {"ACTIVE", "NO_KEEPALIVE", "SEND_AND_CLOSE", "CLOSE_IMMEDIATELY"}

(* Where the poll thread is with a connection in this iteration: not to be  *)
(* visited (again), to be visited, or being visited.                        *)
ToVisit  == {"read", "eof", "write", "idle"}
Visiting == {"create", "assign", "check", "poll", "timer"}

VARIABLES
    (* external: the clients *)
    sent, inbox, peer, got,
    (* mg_connection and MgUserData *)
    link, flags,
    cur,          \* requestData: the number of the request kept, or 0
    timer, out,   \* out: answers in send_mbuf
    (* HttpReqRep *)
    what, ready,  \* ready: responseReady, or a response code other than 0
    done,         \* results of remote calls stored in the response
    event,        \* the event stored in the response, or 0
    locked,       \* the requests whose mutex a thread of the pool holds
    (* the poll thread *)
    pp, stage,
    finished,     \* what handleJsonRpcRequests has returned
    listener,
    (* the control socket of mongoose *)
    ctl, acks,
    (* AgoApp's pool *)
    work,         \* threadpoolIoWork is set
    threads,      \* the threads have been created
    stopped,      \* threadpoolIoService_ has run out of work
    jobs, wpc, wreq,
    (* main *)
    mpc, state, exitSignaled,
    (* subscriptions *)
    alive, queue, published,
    (* history, read by the properties only *)
    written, late, from, taken

clientVars  == <<sent, inbox, peer, got>>
connVars    == <<link, flags, cur, timer, out>>
responseVars == <<what, ready, done, event, locked, written, late>>
pollVars    == <<pp, stage, finished, listener>>
wakeVars    == <<ctl, acks>>
poolVars    == <<work, threads, stopped, jobs, wpc, wreq>>
mainVars    == <<mpc, state, exitSignaled>>
subVars     == <<alive, queue, published, from, taken>>
vars == <<clientVars, connVars, responseVars, pollVars, wakeVars, poolVars, mainVars, subVars>>

Handled(c) == <<c, sent[c]>>     \* the request the client has sent last

Init ==
    /\ sent = [c \in Conns |-> 0] /\ inbox = [c \in Conns |-> FALSE]
    /\ peer = [c \in Conns |-> TRUE] /\ got = [c \in Conns |-> 0]
    /\ link = [c \in Conns |-> "unused"] /\ flags = [c \in Conns |-> {}]
    /\ cur = [c \in Conns |-> 0] /\ timer = [c \in Conns |-> "off"]
    /\ out = [c \in Conns |-> 0]
    /\ what = [q \in Reqs |-> NoRequest] /\ ready = [q \in Reqs |-> FALSE]
    /\ done = [q \in Reqs |-> 0] /\ event = [q \in Reqs |-> 0] /\ locked = {}
    /\ written = [q \in Reqs |-> 0] /\ late = [q \in Reqs |-> FALSE]
    /\ pp = "select" /\ stage = [c \in Conns |-> "none"]
    /\ finished = FALSE /\ listener = "open"
    /\ ctl = <<>> /\ acks = 0
    /\ work = FALSE /\ threads = FALSE /\ stopped = FALSE /\ jobs = <<>>
    /\ wpc = [w \in Workers |-> "idle"] /\ wreq = [w \in Workers |-> NoReq]
    /\ mpc = "loop" /\ state = "Running" /\ exitSignaled = FALSE
    /\ alive = Subscribed /\ queue = [s \in Subs |-> <<>>] /\ published = 0
    /\ from = [s \in Subs |-> 0] /\ taken = [s \in Subs |-> <<>>]

-----------------------------------------------------------------------------
(***************************************************************************)
(* The clients and the passing of time (external)                          *)
(***************************************************************************)
NewSubscription(s) ==
    /\ s \notin Subscribed
    /\ \A q \in Reqs : what[q] # NoRequest => ~(what[q].op = "subscribe" /\ what[q].sub = s)

Send(c, r) ==
    /\ link[c] = "open" /\ peer[c] /\ sent[c] = got[c] /\ sent[c] < MaxSends
    /\ r.op = "subscribe" => NewSubscription(r.sub)
    /\ sent' = [sent EXCEPT ![c] = @ + 1]
    /\ inbox' = [inbox EXCEPT ![c] = TRUE]
    /\ what' = [what EXCEPT ![<<c, sent[c] + 1>>] = r]
    /\ UNCHANGED <<peer, got, connVars, ready, done, event, locked, written, late,
                   pollVars, wakeVars, poolVars, mainVars, subVars>>

HangUp(c) ==
    /\ link[c] = "open" /\ peer[c] /\ c \in Impatient
    /\ peer' = [peer EXCEPT ![c] = FALSE]
    /\ UNCHANGED <<sent, inbox, got, connVars, responseVars, pollVars, wakeVars,
                   poolVars, mainVars, subVars>>

Expire(c) ==
    /\ timer[c] = "armed"
    /\ timer' = [timer EXCEPT ![c] = "due"]
    /\ UNCHANGED <<clientVars, link, flags, cur, out, responseVars, pollVars, wakeVars,
                   poolVars, mainVars, subVars>>

-----------------------------------------------------------------------------
(***************************************************************************)
(* mg_mgr_poll (external): one message of the control socket, then every   *)
(* connection open at the time of the select, then those to be closed.     *)
(* The loop around it: mongoosePollLoop.                                   *)
(***************************************************************************)
Readiness(c) ==
    IF link[c] # "open" THEN "none"
    ELSE IF inbox[c] THEN "read"
    ELSE IF ~peer[c] THEN "eof"
    ELSE IF out[c] > 0 THEN "write"
    ELSE "idle"

(* mg_shutdown_broadcast marks the listener for the closing pass.           *)
Select ==
    /\ pp = "select" /\ pp' = "visit"
    /\ stage' = [c \in Conns |-> Readiness(c)]
    /\ IF ctl = <<>> THEN UNCHANGED <<wakeVars, listener>>
       ELSE /\ ctl' = Tail(ctl)
            /\ acks' = acks + 1
            /\ listener' = IF Head(ctl) = "shutdown" THEN "closing" ELSE listener
    /\ UNCHANGED <<clientVars, connVars, responseVars, finished, poolVars, mainVars, subVars>>

(* The client's choice of a Connection header is the same on all requests.  *)
Accept(c) ==
    /\ pp = "visit" /\ listener # "closed" /\ link[c] = "unused"
    /\ link' = [link EXCEPT ![c] = "open"]
    /\ \E keepalive \in KeepAlives :
          flags' = [flags EXCEPT ![c] = IF keepalive THEN {} ELSE {"NO_KEEPALIVE"}]
    /\ UNCHANGED <<clientVars, cur, timer, out, responseVars, pollVars, wakeVars, poolVars,
                   mainVars, subVars>>

ToClose(c) == \/ "CLOSE_IMMEDIATELY" \in flags[c]
              \/ "SEND_AND_CLOSE" \in flags[c] /\ out[c] = 0

(* MG_EV_CLOSE drops the request the connection has kept.                   *)
EndIteration ==
    /\ pp = "visit" /\ \A c \in Conns : stage[c] = "none"
    /\ LET closing == {c \in Conns : link[c] = "open" /\ ToClose(c)}
           close(f, v) == [c \in Conns |-> IF c \in closing THEN v ELSE f[c]]
       IN /\ link' = close(link, "closed") /\ cur' = close(cur, 0)
          /\ timer' = close(timer, "off") /\ out' = close(out, 0)
    /\ listener' = IF listener = "closing" THEN "closed" ELSE listener
    /\ pp' = IF state # "Running" /\ listener' = "closed" /\ \A c \in Conns : link'[c] # "open"
             THEN "gone" ELSE "select"
    /\ UNCHANGED <<clientVars, flags, responseVars, stage, finished, wakeVars, poolVars,
                   mainVars, subVars>>

Idle == \A c \in Conns : stage[c] \notin Visiting
Visit(c, here) == pp = "visit" /\ stage[c] = here /\ (here \in ToVisit => Idle)
Goto(c, there) == stage' = [stage EXCEPT ![c] = there]

Eof(c) ==
    /\ Visit(c, "eof") /\ Goto(c, "none")
    /\ flags' = [flags EXCEPT ![c] = @ \cup {"CLOSE_IMMEDIATELY"}]
    /\ UNCHANGED <<clientVars, link, cur, timer, out, responseVars, pp, finished, listener,
                   wakeVars, poolVars, mainVars, subVars>>

-----------------------------------------------------------------------------
(***************************************************************************)
(* Subscriptions                                                           *)
(***************************************************************************)
(* Mutant: a poll that has no event is answered at once.                     *)
HasAnswer_Hasty(q, isTimeout) == TRUE

(* getEventsFor puts something into the response: an event, that there is  *)
(* none, or that there is no such subscription.                             *)
HasAnswer(q, isTimeout) ==
    LET s == what[q].sub
    IN s \notin alive \/ queue[s] # <<>> \/ exitSignaled \/ isTimeout

TakeEvent(q) ==
    LET s == what[q].sub
    IN IF s \in alive /\ queue[s] # <<>>
       THEN /\ queue' = [queue EXCEPT ![s] = Tail(@)]
            /\ event' = [event EXCEPT ![q] = Head(queue[s])]
            /\ taken' = [taken EXCEPT ![s] = Append(@, Head(queue[s]))]
       ELSE UNCHANGED <<queue, event, taken>>

TakesNothing == UNCHANGED <<queue, event, taken>>

(* Mutant: one event too many is queued.                                      *)
Abandoned_Late(s) == Len(queue[s]) > QueueLimit + 1

(* The subscriptions an event finds too long are removed, the others get it *)
Abandoned(s) == Len(queue[s]) > QueueLimit

(* Mutant: the event is dropped, the subscription stays.                      *)
Enqueue_Drops ==
    /\ queue' = [s \in Subs |-> IF s \notin alive \/ Abandoned(s) THEN queue[s]
                                ELSE Append(queue[s], published + 1)]
    /\ UNCHANGED alive

Enqueue ==
    /\ alive' = {s \in alive : ~Abandoned(s)}
    /\ queue' = [s \in Subs |-> IF s \notin alive THEN queue[s]
                                ELSE IF Abandoned(s) THEN <<>>
                                ELSE Append(queue[s], published + 1)]

Subscribe(s) ==
    /\ alive' = alive \cup {s}
    /\ from' = [from EXCEPT ![s] = published]
    /\ UNCHANGED queue

Unsubscribe(s) ==
    /\ alive' = alive \ {s}
    /\ queue' = [queue EXCEPT ![s] = <<>>]
    /\ UNCHANGED from

-----------------------------------------------------------------------------
(***************************************************************************)
(* threadPool().post: the pool is set up when there is no work object.     *)
(* create_thread waits for the mutex of the thread group, which join_all   *)
(* holds while it joins.                                                   *)
(***************************************************************************)
Post(q) == jobs' = Append(jobs, q)

Dispatched(q) == IF what[q].op = "file" THEN "check" ELSE "assign"

CreateThreads(c) ==
    /\ Visit(c, "create") /\ mpc # "join"
    /\ threads' = TRUE
    /\ Post(Handled(c))
    /\ Goto(c, Dispatched(Handled(c)))
    /\ UNCHANGED <<clientVars, connVars, responseVars, pp, finished, listener, wakeVars,
                   work, stopped, wpc, wreq, mainVars, subVars>>

-----------------------------------------------------------------------------
(***************************************************************************)
(* MG_EV_RECV and MG_EV_HTTP_REQUEST                                       *)
(***************************************************************************)
Receive(c) ==
    /\ Visit(c, "read")
    /\ inbox' = [inbox EXCEPT ![c] = FALSE]
    /\ flags' = [flags EXCEPT ![c] = @ \cup {"ACTIVE"}]
    /\ UNCHANGED <<sent, peer, got, link, cur, timer, out, what, ready, done, locked, written,
                   late, pp, listener, wakeVars, mainVars, published>>

(* handleJsonRpcRequest: subscribe, unsubscribe                             *)
HandleLocal(c) ==
    LET r == what[Handled(c)] IN
    /\ Receive(c)
    /\ \/ r.op = "subscribe" /\ Subscribe(r.sub)
       \/ r.op = "unsubscribe" /\ Unsubscribe(r.sub)
    /\ finished' = TRUE /\ Goto(c, "assign")
    /\ UNCHANGED <<event, taken, poolVars>>

(* handleJsonRpcRequest: getevent                                           *)
HandleGetevent(c) ==
    LET q == Handled(c) IN
    /\ Receive(c) /\ what[q].op = "getevent"
    /\ IF HasAnswer(q, FALSE) THEN TakeEvent(q) ELSE TakesNothing
    /\ finished' = HasAnswer(q, FALSE) /\ Goto(c, "assign")
    /\ UNCHANGED <<alive, from, poolVars>>

(* handleJsonRpcRequests, uploadFiles, downloadFile: work for the pool      *)
HandlePooled(c) ==
    LET q == Handled(c) IN
    /\ Receive(c) /\ what[q].op \in Pooled
    /\ IF work THEN Post(q) /\ Goto(c, Dispatched(q)) /\ UNCHANGED work
               ELSE work' = TRUE /\ Goto(c, "create") /\ UNCHANGED jobs
    /\ UNCHANGED <<threads, stopped, wpc, wreq, finished, event, taken, alive, from, queue>>

(* jsonrpc: the assignment, without the mutex of the request                *)
Assign(c) ==
    /\ Visit(c, "assign") /\ Goto(c, "check")
    /\ ready' = [ready EXCEPT ![Handled(c)] = finished]
    /\ finished' = FALSE
    /\ UNCHANGED <<clientVars, connVars, what, done, event, locked, written, late, pp,
                   listener, wakeVars, poolVars, mainVars, subVars>>

(* handleKeepaliveFlagAfterRequestFinish                                    *)
AfterFinish(f) ==
    IF "NO_KEEPALIVE" \in f THEN f \cup {"SEND_AND_CLOSE"} ELSE f \ {"ACTIVE"}

(* writeResponse, but for the flags                                         *)
Write(c, q) ==
    /\ written' = [written EXCEPT ![q] = @ + 1]
    /\ out' = [out EXCEPT ![c] = @ + 1]

WritesNothing == UNCHANGED <<written, out>>

(* Mutant: only a stored response counts.                                     *)
IsResponseReady_StoredOnly(q) == ready[q]

(* isResponseReady: a pending getevent asks for events                      *)
IsResponseReady(q) ==
    ready[q] \/ (what[q].op = "getevent" /\ HasAnswer(q, FALSE))

(* Mutant: a getevent with a stored response asks for events again.           *)
Fetch_Again(q) == IF what[q].op # "getevent" THEN TakesNothing ELSE TakeEvent(q)

Fetch(q) == IF ready[q] \/ what[q].op # "getevent" THEN TakesNothing ELSE TakeEvent(q)

Check(c) ==
    LET q == Handled(c) IN
    /\ Visit(c, "check") /\ q \notin locked /\ Goto(c, "poll")
    /\ IF IsResponseReady(q)
       THEN /\ Fetch(q) /\ Write(c, q)
            /\ flags' = [flags EXCEPT ![c] = AfterFinish(@)]
            /\ UNCHANGED <<cur, timer>>
       ELSE /\ cur' = [cur EXCEPT ![c] = sent[c]]
            /\ timer' = [timer EXCEPT ![c] = "armed"]
            /\ TakesNothing /\ WritesNothing /\ UNCHANGED flags
    /\ UNCHANGED <<clientVars, link, what, ready, done, locked, late, pp, finished, listener,
                   wakeVars, poolVars, mainVars, alive, published, from>>

-----------------------------------------------------------------------------
(***************************************************************************)
(* MG_EV_SEND, MG_EV_POLL, MG_EV_TIMER                                     *)
(***************************************************************************)
Flush(c) ==
    /\ Visit(c, "write") /\ Goto(c, "poll")
    /\ got' = [got EXCEPT ![c] = IF peer[c] THEN @ + out[c] ELSE @]
    /\ out' = [out EXCEPT ![c] = 0]
    /\ flags' = [flags EXCEPT ![c] = IF state # "Running" THEN @ \cup {"CLOSE_IMMEDIATELY"}
                                     ELSE @ \ {"ACTIVE"}]
    /\ UNCHANGED <<sent, inbox, peer, link, cur, timer, responseVars, pp, finished, listener,
                   wakeVars, poolVars, mainVars, subVars>>

(* Mutant: idle connections stay open.                                        *)
CloseWhenIdle_Never(f) == f

(* "Connection idle during shutdown, closing"                               *)
CloseWhenIdle(f) ==
    IF state # "Running" /\ "ACTIVE" \notin f THEN f \cup {"CLOSE_IMMEDIATELY"} ELSE f

(* Mutant: requestData is not reset.                                          *)
WriteKept_NotReset(c, q) ==
    /\ Write(c, q)
    /\ flags' = [flags EXCEPT ![c] = CloseWhenIdle(AfterFinish(@))]
    /\ timer' = [timer EXCEPT ![c] = "off"]
    /\ UNCHANGED cur
    /\ Goto(c, "none")

WriteKept(c, q) ==
    /\ Write(c, q)
    /\ flags' = [flags EXCEPT ![c] = CloseWhenIdle(AfterFinish(@))]
    /\ cur' = [cur EXCEPT ![c] = 0]
    /\ timer' = [timer EXCEPT ![c] = "off"]
    /\ Goto(c, "none")

Poll(c) ==
    LET q == <<c, cur[c]>> IN
    /\ Visit(c, "idle") \/ Visit(c, "poll")
    /\ cur[c] # 0 => q \notin locked
    /\ IF cur[c] # 0 /\ IsResponseReady(q)
       THEN Fetch(q) /\ WriteKept(c, q)
       ELSE /\ TakesNothing /\ WritesNothing /\ UNCHANGED <<cur, timer>>
            /\ flags' = [flags EXCEPT ![c] = CloseWhenIdle(@)]
            /\ Goto(c, IF timer[c] = "due" THEN "timer" ELSE "none")
    /\ UNCHANGED <<clientVars, link, what, ready, done, locked, late, pp, finished, listener,
                   wakeVars, poolVars, mainVars, alive, published, from>>

(* Mutant: the timeout does not end a batch.                                  *)
TimeoutMakesReady_Never(q) == FALSE

(* onTimeout: the answer is what the response holds by then.  A file request *)
(* gets a response code only.                                               *)
TimeoutMakesReady(q) == what[q].op \in {"message", "batch"}

(* Mutant: the timer is handled like a poll.                                  *)
Timer_LikePoll(c) ==
    LET q == <<c, cur[c]>> IN
    /\ Visit(c, "timer") /\ q \notin locked
    /\ timer' = [timer EXCEPT ![c] = "off"] /\ Goto(c, "none")
    /\ TakesNothing /\ WritesNothing
    /\ UNCHANGED <<clientVars, link, flags, cur, what, ready, done, locked, late, pp, finished,
                   listener, wakeVars, poolVars, mainVars, alive, published, from>>

Timer(c) ==
    LET q == <<c, cur[c]>> IN
    /\ Visit(c, "timer") /\ q \notin locked
    /\ IF what[q].op = "getevent" THEN TakeEvent(q) ELSE TakesNothing
    /\ ready' = [ready EXCEPT ![q] = @ \/ TimeoutMakesReady(q)]
    /\ late' = [late EXCEPT ![q] = TRUE]
    /\ WriteKept(c, q)
    /\ UNCHANGED <<clientVars, link, what, done, locked, pp, finished, listener, wakeVars,
                   poolVars, mainVars, alive, published, from>>

PollThread ==
    \/ Select \/ EndIteration
    \/ \E c \in Conns :
          \/ Eof(c) \/ HandleLocal(c) \/ HandleGetevent(c) \/ HandlePooled(c)
          \/ CreateThreads(c) \/ Assign(c) \/ Check(c)
          \/ Flush(c) \/ Poll(c) \/ Timer(c)

-----------------------------------------------------------------------------
(***************************************************************************)
(* The pool: jsonrpc_thread, uploadFile_thread, downloadFile_thread        *)
(***************************************************************************)
Step(w, here, there) == wpc[w] = here /\ wpc' = [wpc EXCEPT ![w] = there]

(* jsonrpc_thread locks its request first; the others send first.           *)
TakeJob(w) ==
    /\ threads /\ ~stopped /\ jobs # <<>>
    /\ Step(w, "idle", IF what[Head(jobs)].op = "file" THEN "calling" ELSE "begin")
    /\ jobs' = Tail(jobs)
    /\ wreq' = [wreq EXCEPT ![w] = Head(jobs)]
    /\ UNCHANGED <<clientVars, connVars, responseVars, pollVars, wakeVars, work, threads,
                   stopped, mainVars, subVars>>

LockRequest(w) ==
    /\ wreq[w] \notin locked
    /\ locked' = locked \cup {wreq[w]}

ReleaseRequest(w) == locked' = locked \ {wreq[w]}

Begin(w) ==
    /\ Step(w, "begin", "locked") /\ LockRequest(w)
    /\ UNCHANGED <<clientVars, connVars, what, ready, done, event, written, late, pollVars,
                   wakeVars, work, threads, stopped, jobs, wreq, mainVars, subVars>>

(* sendRequest has returned, and its result is stored under the mutex.      *)
Return(w) ==
    /\ Step(w, "calling", "locked") /\ LockRequest(w)
    /\ done' = [done EXCEPT ![wreq[w]] = @ + 1]
    /\ UNCHANGED <<clientVars, connVars, what, ready, event, written, late, pollVars, wakeVars,
                   work, threads, stopped, jobs, wreq, mainVars, subVars>>

(* Mutant: the last call is left out.                                         *)
CallsAgain_OneLess(q) == done[q] + 1 < what[q].calls /\ ~(what[q].op = "batch" /\ ready[q])

(* The loop of a batch ends when the response is ready (timeout).           *)
CallsAgain(q) == done[q] < what[q].calls /\ ~(what[q].op = "batch" /\ ready[q])

Call(w) ==
    /\ Step(w, "locked", "calling") /\ CallsAgain(wreq[w])
    /\ ReleaseRequest(w)
    /\ UNCHANGED <<clientVars, connVars, what, ready, done, event, written, late, pollVars,
                   wakeVars, work, threads, stopped, jobs, wreq, mainVars, subVars>>

(* Mutant: the mutex is held while calling wakeup.                            *)
StoreResponse_Locked(w) ==
    /\ Step(w, "locked", "wakeup") /\ ~CallsAgain(wreq[w])
    /\ ready' = [ready EXCEPT ![wreq[w]] = TRUE]
    /\ UNCHANGED <<clientVars, connVars, what, done, event, locked, written, late, pollVars,
                   wakeVars, work, threads, stopped, jobs, wreq, mainVars, subVars>>

StoreResponse(w) ==
    /\ Step(w, "locked", "wakeup") /\ ~CallsAgain(wreq[w])
    /\ ready' = [ready EXCEPT ![wreq[w]] = TRUE]
    /\ ReleaseRequest(w)
    /\ UNCHANGED <<clientVars, connVars, what, done, event, written, late, pollVars, wakeVars,
                   work, threads, stopped, jobs, wreq, mainVars, subVars>>

(* io_service stops when there is neither a work object nor a job.          *)
OutOfWork(busy) == ~work /\ jobs = <<>> /\ busy = {}
Busy == {w \in Workers : wpc[w] # "idle"}

(* Mutant: a thread that ends its job does not look whether it was the last.  *)
EndJob_Dozes(w) == wreq' = [wreq EXCEPT ![w] = NoReq] /\ UNCHANGED stopped

EndJob(w) ==
    /\ wreq' = [wreq EXCEPT ![w] = NoReq]
    /\ stopped' = (stopped \/ OutOfWork(Busy \ {w}))

(* AgoHttp::wakeup: the state is read, then mg_broadcast sends and waits    *)
WakeupChecked(w) ==
    /\ \/ /\ state = "Running" /\ Step(w, "wakeup", "send")
          /\ UNCHANGED <<wreq, stopped>>
       \/ /\ state # "Running" /\ Step(w, "wakeup", "idle")
          /\ EndJob(w)
    /\ UNCHANGED <<clientVars, connVars, responseVars, pollVars, wakeVars, work, threads, jobs,
                   mainVars, subVars>>

Broadcast(msg) == ctl' = Append(ctl, msg)
Acknowledged   == acks > 0 /\ acks' = acks - 1

WorkerSend(w) ==
    /\ Step(w, "send", "ack") /\ Broadcast("wakeup")
    /\ UNCHANGED <<clientVars, connVars, responseVars, pollVars, acks, work, threads, stopped,
                   jobs, wreq, mainVars, subVars>>

WorkerAck(w) ==
    /\ Step(w, "ack", "idle") /\ Acknowledged /\ EndJob(w)
    /\ UNCHANGED <<clientVars, connVars, responseVars, pollVars, ctl, work, threads, jobs,
                   mainVars, subVars>>

Worker(w) ==
    \/ TakeJob(w) \/ Begin(w) \/ Return(w) \/ Call(w) \/ StoreResponse(w)
    \/ WakeupChecked(w) \/ WorkerSend(w) \/ WorkerAck(w)

-----------------------------------------------------------------------------
(***************************************************************************)
(* Main: the events of the bus, and the shutdown                           *)
(***************************************************************************)
MainStep(here, there) == mpc = here /\ mpc' = there

(* eventHandler, for an event that is not filtered; wakeup finds the server *)
(* running, since only main changes its state.                              *)
EventHandler ==
    /\ MainStep("loop", "send") /\ published < MaxEvents
    /\ Enqueue /\ published' = published + 1
    /\ UNCHANGED <<clientVars, connVars, responseVars, pollVars, wakeVars, poolVars, state,
                   exitSignaled, from, taken>>

MainSend ==
    /\ MainStep("send", "ack") /\ Broadcast("wakeup")
    /\ UNCHANGED <<clientVars, connVars, responseVars, pollVars, acks, poolVars, state,
                   exitSignaled, subVars>>

MainAck ==
    /\ MainStep("ack", "loop") /\ Acknowledged
    /\ UNCHANGED <<clientVars, connVars, responseVars, pollVars, ctl, poolVars, state,
                   exitSignaled, subVars>>

(* signalExit, on the io thread; the loop of the connection ends.           *)
SignalExit ==
    /\ ~exitSignaled /\ exitSignaled' = TRUE
    /\ UNCHANGED <<clientVars, connVars, responseVars, pollVars, wakeVars, poolVars, mpc, state,
                   subVars>>

(* AgoHttp::shutdown                                                        *)
Shutdown ==
    /\ MainStep("loop", "closing") /\ exitSignaled
    /\ Broadcast("shutdown")
    /\ UNCHANGED <<clientVars, connVars, responseVars, pollVars, acks, poolVars, state,
                   exitSignaled, subVars>>

ShutdownAck ==
    /\ MainStep("closing", "shutdown") /\ Acknowledged
    /\ UNCHANGED <<clientVars, connVars, responseVars, pollVars, ctl, poolVars, state,
                   exitSignaled, subVars>>

SetShuttingDown ==
    /\ MainStep("shutdown", "cleanup") /\ state' = "ShuttingDown"
    /\ UNCHANGED <<clientVars, connVars, responseVars, pollVars, wakeVars, poolVars,
                   exitSignaled, subVars>>

CleanupThreadPool ==
    /\ mpc = "cleanup" /\ mpc' = IF work THEN "join" ELSE "close"
    /\ work' = FALSE
    /\ stopped' = (stopped \/ (work /\ jobs = <<>> /\ Busy = {}))
    /\ UNCHANGED <<clientVars, connVars, responseVars, pollVars, wakeVars, threads, jobs, wpc,
                   wreq, state, exitSignaled, subVars>>

JoinAll ==
    /\ MainStep("join", "close") /\ (threads => stopped)
    /\ UNCHANGED <<clientVars, connVars, responseVars, pollVars, wakeVars, poolVars, state,
                   exitSignaled, subVars>>

(* AgoHttp::close                                                           *)
Close ==
    /\ MainStep("close", "done") /\ pp = "gone"
    /\ state' = "Stopped"
    /\ UNCHANGED <<clientVars, connVars, responseVars, pollVars, wakeVars, poolVars,
                   exitSignaled, subVars>>

MainThread ==
    \/ MainSend \/ MainAck \/ Shutdown \/ ShutdownAck \/ SetShuttingDown
    \/ CleanupThreadPool \/ JoinAll \/ Close

-----------------------------------------------------------------------------
Next ==
    \/ PollThread \/ MainThread
    \/ \E w \in Workers : Worker(w)
    \/ EventHandler \/ SignalExit
    \/ \E c \in Conns :
          \/ \E r \in Requests : Send(c, r)
          \/ HangUp(c) \/ Expire(c) \/ Accept(c)

Spec == Init /\ [][Next]_vars

(* Every thread of the process runs; mg_mgr_poll waits a second at most,    *)
(* and a call through sendRequest returns, by its timeout at the latest.    *)
Fairness == WF_vars(PollThread) /\ WF_vars(MainThread)
            /\ \A w \in Workers : WF_vars(Worker(w))
FairSpec == Spec /\ Fairness

-----------------------------------------------------------------------------
(***************************************************************************)
(* Properties                                                              *)
(***************************************************************************)
(* Types, and the bound eventHandler puts on the queue of a subscription.   *)
Stages == {"none"} \cup ToVisit \cup Visiting
TypeOK ==
    /\ sent \in [Conns -> 0..MaxSends] /\ got \in [Conns -> Nat]
    /\ inbox \in [Conns -> BOOLEAN] /\ peer \in [Conns -> BOOLEAN]
    /\ link \in [Conns -> {"unused", "open", "closed"}]
    /\ flags \in [Conns -> SUBSET Flags]
    /\ cur \in [Conns -> 0..MaxSends] /\ out \in [Conns -> Nat]
    /\ timer \in [Conns -> {"off", "armed", "due"}]
    /\ what \in [Reqs -> Requests \cup {NoRequest}]
    /\ ready \in [Reqs -> BOOLEAN] /\ late \in [Reqs -> BOOLEAN]
    /\ done \in [Reqs -> Nat] /\ written \in [Reqs -> Nat]
    /\ event \in [Reqs -> 0..published] /\ locked \subseteq Reqs
    /\ pp \in {"select", "visit", "gone"} /\ stage \in [Conns -> Stages]
    /\ finished \in BOOLEAN /\ listener \in {"open", "closing", "closed"}
    /\ ctl \in Seq({"wakeup", "shutdown"}) /\ acks \in Nat
    /\ work \in BOOLEAN /\ threads \in BOOLEAN /\ stopped \in BOOLEAN
    /\ jobs \in Seq(Reqs) /\ wreq \in [Workers -> Reqs \cup {NoReq}]
    /\ wpc \in [Workers -> {"idle", "begin", "calling", "locked", "wakeup", "send", "ack"}]
    /\ mpc \in {"loop", "send", "ack", "closing", "shutdown", "cleanup", "join", "close", "done"}
    /\ state \in {"Running", "ShuttingDown", "Stopped"} /\ exitSignaled \in BOOLEAN
    /\ alive \subseteq Subs /\ published \in 0..MaxEvents
    /\ queue \in [Subs -> Seq(1..published)] /\ taken \in [Subs -> Seq(1..published)]
    /\ from \in [Subs -> 0..published]
    /\ \A s \in Subs : Len(queue[s]) <= QueueLimit + 1

(***************************************************************************)
(* Events of a subscription are handed out once, in the order of the bus   *)
(* and without a gap: those a getevent has taken and those still queued    *)
(* are the events since subscribe, up to the last one while the            *)
(* subscription lives (eventHandler, getEventsFor).                        *)
(***************************************************************************)
OnceInOrder == \A s \in Subs :
    LET seen == taken[s] \o queue[s] IN
    /\ seen = [i \in 1..Len(seen) |-> from[s] + i]
    /\ s \in alive => from[s] + Len(seen) = published

(***************************************************************************)
(* An event taken from a queue is in one answer: it is in the response of  *)
(* one getevent for that subscription, and that response is written, or    *)
(* about to be by the handler that has taken the event (getEventsFor and   *)
(* its callers).                                                           *)
(***************************************************************************)
InHand(q) == q = Handled(q[1]) /\ stage[q[1]] \in {"assign", "check"}
Polls(q, s) == what[q] # NoRequest /\ what[q].op = "getevent" /\ what[q].sub = s
InOneAnswer == \A s \in Subs : \A i \in 1..Len(taken[s]) :
    LET holders == {q \in Reqs : Polls(q, s) /\ event[q] = taken[s][i]}
    IN \E q \in holders : holders = {q} /\ (written[q] = 1 \/ InHand(q))

(***************************************************************************)
(* A request is answered at most once, though its handler, the poll of its *)
(* connection, its timer and a thread of the pool all may complete it.     *)
(***************************************************************************)
AnsweredOnce == \A q \in Reqs : written[q] <= 1

(***************************************************************************)
(* An answer that is not the answer of a timeout has the results of all    *)
(* remote calls of its request (jsonrpc_thread, uploadFile_thread).        *)
(***************************************************************************)
CompleteUnlessLate == \A q \in Reqs :
    written[q] > 0 /\ ~late[q] /\ what[q].op \in Pooled => done[q] = what[q].calls

(***************************************************************************)
(* Once its client has been told of the timeout, a batch sends no further  *)
(* message (jsonrpc_thread: "Abort if response is ready (timeout)").       *)
(***************************************************************************)
BatchStopsAtTimeout ==
    [][\A w \in Workers :
          LET q == wreq[w]
          IN Call(w) /\ what[q].op = "batch" => ~late[q]]_vars

(***************************************************************************)
(* Whatever a thread waits for, somebody still provides.  The mutex of a   *)
(* request is held by one thread, which needs nobody else to release it;   *)
(* there is a message or an acknowledgement for every thread that waits    *)
(* for one; main sends and waits while there is a poll thread only; the    *)
(* poll thread is told of the shutdown though another thread may take the  *)
(* acknowledgement meant for main; and join_all waits for a pool that has  *)
(* work, or a work object, left (wakeup, mg_broadcast, cleanupThreadPool). *)
(***************************************************************************)
MutexReleased == \A q \in Reqs :
    LET holders == {w \in Workers : wpc[w] = "locked" /\ wreq[w] = q}
    IN IF q \in locked THEN \E w \in holders : holders = {w} ELSE holders = {}
Waiting == {w \in Workers : wpc[w] = "ack"}
EachAcknowledged ==
    Len(ctl) + acks = Cardinality(Waiting) + (IF mpc \in {"ack", "closing"} THEN 1 ELSE 0)
MainServed == mpc \in {"send", "ack", "closing"} => pp # "gone"
PollThreadTold ==
    mpc \notin {"loop", "send", "ack"} =>
        listener # "open" \/ \E i \in 1..Len(ctl) : ctl[i] = "shutdown"
PoolEnds == IF stopped THEN Busy = {}
            ELSE threads => work \/ jobs # <<>> \/ Busy # {}
Unblocked == MutexReleased /\ EachAcknowledged /\ MainServed /\ PollThreadTold /\ PoolEnds

(***************************************************************************)
(* The loop that receives events always gets back from its wake-up of the  *)
(* poll thread: no thread is blocked for good by a mutex or a broadcast    *)
(* while the server runs.                                                  *)
(***************************************************************************)
WakeupReturns == (mpc \in {"send", "ack"}) ~> (mpc = "loop")

(***************************************************************************)
(* A long poll is ended by the event, not by its timer: a kept getevent    *)
(* does not stay while its subscription has an event, whether timers run   *)
(* or not (MG_EV_POLL, getEventsFor).                                      *)
(***************************************************************************)
Overlooks(c) == LET r == what[<<c, cur[c]>>]
                IN cur[c] # 0 /\ r.op = "getevent" /\ queue[r.sub] # <<>>
EventEndsPoll == \A c \in Conns : Overlooks(c) ~> (~Overlooks(c) \/ exitSignaled)

(* A request whose time is up is answered, or its connection is closed,     *)
(* whatever the threads of the pool do (MG_EV_TIMER).                       *)
TimeoutAnswers == \A c \in Conns : (timer[c] = "due") ~> (cur[c] = 0 \/ exitSignaled)

(***************************************************************************)
(* The shutdown ends, if timers run, but for the two races: a wake-up sent *)
(* when nobody polls any more, and a pool set up again while main joins it.*)
(***************************************************************************)
Stranded == pp = "gone" /\ \E w \in Workers : wpc[w] \in {"send", "ack"}
Revived  == mpc = "join" /\ work
TimersRun == \A c \in Conns : []<>(timer[c] # "armed")
ShutdownEnds == TimersRun => (exitSignaled ~> (mpc = "done" \/ Stranded \/ Revived))

-----------------------------------------------------------------------------
(***************************************************************************)
(* What the gateway promises its clients: see Gateway.  A subscription has *)
(* been opened once the request for it has been read.  A request that is   *)
(* answered twice has an ending Gateway does not know.                     *)
(***************************************************************************)
Asks(q, s) == what[q] # NoRequest /\ what[q].op = "subscribe" /\ what[q].sub = s
Unread(q)  == inbox[q[1]] /\ q = Handled(q[1])
Unborn(s)  == s \notin Subscribed /\ \A q \in Reqs : Asks(q, s) => Unread(q)

Opened == {s \in Subs : ~Unborn(s)}
Cursor == [s \in Subs |-> from[s] + Len(taken[s])]
Ending == [q \in Reqs |-> IF written[q] = 0 THEN "none"
                         ELSE IF written[q] > 1 THEN "twice"
                         ELSE IF late[q] THEN "timeout" ELSE "answer"]

Abstract == INSTANCE Gateway WITH
    asked <- what, answer <- Ending, results <- done, given <- event,
    opened <- Opened, cursor <- Cursor, exiting <- exitSignaled

ImplementsGateway == Abstract!Spec
=============================================================================
