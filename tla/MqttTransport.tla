--------------------------- MODULE MqttTransport ---------------------------
(***************************************************************************)
(* One process on the bus: the MQTT transport                              *)
(* (shared/agotransport-mqtt.cpp) under the message loop of AgoConnection  *)
(* (shared/agoclient.cpp).                                                 *)
(*                                                                         *)
(* Main runs start() and then the loop: fetchMessage, handler, and again.  *)
(* Its handlers, and the threads of the pool, call sendRequest, which      *)
(* blocks on a condition variable until on_message, called by the network  *)
(* thread of the mosquitto library, has delivered the reply, until a       *)
(* timeout, or until shutdown(), called by the thread of the signals.      *)
(* A step ends where the mutex is released or another thread can run       *)
(* between two of its accesses.  The broker, the other processes and the   *)
(* library are external: they are modelled by what the code relies on.     *)
(***************************************************************************)
EXTENDS Integers, Sequences, FiniteSets

CONSTANTS
    Main,          \* the thread of the message loop
    Pool,          \* the other threads that call sendRequest
    MaxRequests,   \* bound: requests sent in a behaviour
    MaxMessages,   \* bound: messages published on the bus in a behaviour
    MaxDrops,      \* bound: losses of the connection to the broker
    MaxDuplicates, \* bound: messages the broker delivers once more (QoS 1)
    Spurious       \* bound: whether condition variables wake up on their own

Callers  == {Main} \cup Pool
Topics   == 1..MaxRequests      \* reply topics: one for every reply_seq
Nobody   == "nobody"
Payloads == {"response", "other", "garbage"}  \* valid, unexpected, not JSON
Replies  == [to : Topics, payload : Payloads]
NoReply  == [to |-> 0, payload |-> "none"]    \* reply.msg before on_message
Messages == [reply : Topics \cup {0}, own : BOOLEAN, garbage : BOOLEAN]
Fetched  == [message : Messages, replyFuction : Topics \cup {0}]

ASSUME ThreadsAssumption == Main \notin Pool /\ Nobody \notin Callers
ASSUME BoundsAssumption ==
    /\ MaxRequests \in Nat /\ MaxMessages \in Nat /\ MaxDrops \in Nat
    /\ MaxDuplicates \in Nat /\ Spurious \in BOOLEAN

VARIABLES
    (* MqttImpl *)
    connected, shutdownSignaled, pending_subscribes,
    reply_seq,
    pending_replies,   \* topic -> the caller whose MqttReply waits for it
    queue,             \* messages for the loop, as positions on the bus
    (* the calling threads *)
    pc,
    topic, replyMsg,   \* the caller's MqttReply: replyTopic and msg
    outcome,           \* what its last sendRequest has returned
    current,           \* the message the loop handles, as fetchMessage returned it
    (* the network thread and the thread that shuts down *)
    net, loopRuns, stopper,
    (* external: the link, the bus and the replies under way *)
    link, bus, nextOnBus,
    replies, served,   \* under way, and the topics somebody has replied to
    drops, duplicates,
    (* history, read by the properties only *)
    taken,             \* positions of the messages fetched so far
    lost               \* positions published while this process was cut off

impl    == <<connected, shutdownSignaled, pending_subscribes>>
pending == <<reply_seq, pending_replies>>
callers == <<topic, replyMsg, outcome>>
threads == <<net, loopRuns, stopper>>
channel == <<link, bus, nextOnBus, replies, served, drops, duplicates>>
vars    == <<impl, pending, queue, pc, callers, current, threads, channel, taken, lost>>

Idle       == [at |-> "idle"]
Home(c)    == IF c = Main THEN "handle" ELSE "idle"
Starting   == {"start", "loopstart", "startcheck", "startwait", "startwoken"}
Requesting == {"publish", "lock", "waiting", "notified", "timeout", "return"}
MainPCs    == Starting \cup Requesting
              \cup {"loop", "fetch", "fetchwait", "fetchwoken", "fetched", "handle",
                    "undefined", "stopped", "failed"}
PoolPCs    == {"idle"} \cup Requesting

Nothing == [message |-> [reply |-> 0, own |-> FALSE, garbage |-> FALSE], replyFuction |-> 0]

Goto(c, here, there) == pc[c] = here /\ pc' = [pc EXCEPT ![c] = there]

(* A notification wakes the thread if it waits, and is lost otherwise.      *)
Notify(c, waiting, woken) ==
    pc' = IF pc[c] = waiting THEN [pc EXCEPT ![c] = woken] ELSE pc

-----------------------------------------------------------------------------
Init ==
    /\ connected = FALSE /\ shutdownSignaled = FALSE /\ pending_subscribes = 0
    /\ reply_seq = 0
    /\ pending_replies = [t \in Topics |-> Nobody]
    /\ queue = <<>>
    /\ pc = [c \in Callers |-> IF c = Main THEN "start" ELSE "idle"]
    /\ topic = [c \in Callers |-> 0]
    /\ replyMsg = [c \in Callers |-> NoReply]
    /\ outcome = [c \in Callers |-> "none"]
    /\ current = Nothing
    /\ net = Idle /\ loopRuns = FALSE /\ stopper = "idle"
    /\ link = "down" /\ bus = <<>> /\ nextOnBus = 1
    /\ replies = {} /\ served = {} /\ drops = 0 /\ duplicates = 0
    /\ taken = {} /\ lost = {}

-----------------------------------------------------------------------------
(***************************************************************************)
(* start(): connect_async until it succeeds, start the network thread,     *)
(* wait once, for at most a second, for the subscriptions                  *)
(***************************************************************************)
Connect ==
    /\ \/ ~shutdownSignaled /\ Goto(Main, "start", "loopstart")
       \/ Goto(Main, "start", "failed")    \* invalid broker address, or shut down
    /\ UNCHANGED <<impl, pending, queue, callers, current, threads, channel, taken, lost>>

StartLoop ==
    /\ Goto(Main, "loopstart", "startcheck")
    /\ loopRuns' = TRUE
    /\ UNCHANGED <<impl, pending, queue, callers, current, net, stopper, channel, taken, lost>>

CheckConnected ==
    /\ \/ connected /\ Goto(Main, "startcheck", "loop")
       \/ ~connected /\ Goto(Main, "startcheck", "startwait")
       \/ connected /\ Goto(Main, "startwoken", "loop")
       \/ ~connected /\ Goto(Main, "startwoken", "failed")
    /\ UNCHANGED <<impl, pending, queue, callers, current, threads, channel, taken, lost>>

StartTimeout ==
    /\ Goto(Main, "startwait", "startwoken")
    /\ UNCHANGED <<impl, pending, queue, callers, current, threads, channel, taken, lost>>

-----------------------------------------------------------------------------
(***************************************************************************)
(* sendRequest                                                             *)
(***************************************************************************)
NextSeq == reply_seq + 1

(* Pool threads are started by the application, once it is set up; Main    *)
(* sends requests from its handlers.                                       *)
Register(c) ==
    /\ NextSeq \in Topics
    /\ IF c = Main THEN Goto(Main, "handle", "publish")
       ELSE Goto(c, "idle", "publish") /\ pc[Main] \notin Starting \cup {"failed"}
    /\ reply_seq' = NextSeq
    /\ pending_replies' = [pending_replies EXCEPT ![NextSeq] = c]
    /\ topic' = [topic EXCEPT ![c] = NextSeq]
    /\ replyMsg' = [replyMsg EXCEPT ![c] = NoReply]
    /\ UNCHANGED <<impl, queue, outcome, current, threads, channel, taken, lost>>

(* The result of publish is ignored: without a connection the message may  *)
(* be lost.  It may concern a device of this very process.                 *)
PublishRequest(c) ==
    /\ Goto(c, "publish", "lock")
    /\ \/ /\ Len(bus) < MaxMessages
          /\ \E own \in BOOLEAN :
                bus' = Append(bus, [reply |-> topic[c], own |-> own, garbage |-> FALSE])
       \/ (link # "up" \/ Len(bus) = MaxMessages) /\ UNCHANGED bus
    /\ UNCHANGED <<impl, pending, queue, callers, current, threads, link, nextOnBus, replies,
                   served, drops, duplicates, taken, lost>>

Wait(c) ==
    /\ Goto(c, "lock", "waiting")
    /\ UNCHANGED <<impl, pending, queue, callers, current, threads, channel, taken, lost>>

\* mutant of WaitTimeout: the wait has no timeout
WaitTimeout_Never(c) == FALSE

WaitTimeout(c) ==
    /\ Goto(c, "waiting", "timeout")
    /\ UNCHANGED <<impl, pending, queue, callers, current, threads, channel, taken, lost>>

(* A condition variable may wake up although nobody notified it.           *)
SpuriousWakeup(c) ==
    /\ Spurious
    /\ \/ Goto(c, "waiting", "notified")
       \/ c = Main /\ Goto(c, "fetchwait", "fetchwoken")
       \/ c = Main /\ Goto(c, "startwait", "startwoken")
    /\ UNCHANGED <<impl, pending, queue, callers, current, threads, channel, taken, lost>>

\* mutant of Outcomes: any wakeup is taken for a reply
Outcomes_Notified(c) ==
    IF shutdownSignaled THEN {"shutdown"}
    ELSE IF pc[c] = "timeout" THEN {"timeout"} ELSE {"reply"}

(* The mutex has been released: a reply delivered once more races with the *)
(* reading of the first one, which may then be found malformed.            *)
Overwriting(c) == net.at = "reply" /\ net.hint = c /\ net.msg.payload # "garbage"

Outcomes(c) ==
    IF shutdownSignaled THEN {"shutdown"}
    ELSE IF pc[c] = "timeout" THEN {"timeout"}
    ELSE (IF replyMsg[c].payload = "response" THEN {"reply"} ELSE {"internal"})
         \cup (IF Overwriting(c) THEN {"internal"} ELSE {})

Inspect(c) ==
    /\ pc[c] \in {"notified", "timeout"}
    /\ pc' = [pc EXCEPT ![c] = "return"]
    /\ \E o \in Outcomes(c) : outcome' = [outcome EXCEPT ![c] = o]
    /\ UNCHANGED <<impl, pending, queue, topic, replyMsg, current, threads, channel, taken, lost>>

Unregister(c) ==
    /\ Goto(c, "return", Home(c))
    /\ pending_replies' = [pending_replies EXCEPT ![topic[c]] = Nobody]
    /\ topic' = [topic EXCEPT ![c] = 0]
    /\ replyMsg' = [replyMsg EXCEPT ![c] = NoReply]
    /\ UNCHANGED <<impl, reply_seq, queue, outcome, current, threads, channel, taken, lost>>

-----------------------------------------------------------------------------
(***************************************************************************)
(* The message loop: AgoConnection::run and fetchMessage                   *)
(***************************************************************************)
\* mutant of LeavesRun: the loop never ends
LeavesRun_Never == FALSE

(* AgoConnection has a shutdownSignaled of its own.                        *)
LeavesRun == stopper # "idle"

Loop ==
    /\ \/ LeavesRun /\ Goto(Main, "loop", "stopped")
       \/ ~LeavesRun /\ Goto(Main, "loop", "fetch")
    /\ UNCHANGED <<impl, pending, queue, callers, current, threads, channel, taken, lost>>

(* The member removed is "repy-to": the handler gets the "reply-to".        *)
FetchedMessage(m) == [message |-> m, replyFuction |-> m.reply]

Pop(here) ==
    /\ queue # <<>>
    /\ Goto(Main, here, "fetched")
    /\ current' = FetchedMessage(bus[Head(queue)])
    /\ taken' = taken \cup {Head(queue)}
    /\ queue' = Tail(queue)

\* mutant of MustWait: the queue is not looked at before waiting
MustWait_Always == TRUE

MustWait == queue = <<>>

Fetch ==
    /\ \/ MustWait /\ Goto(Main, "fetch", "fetchwait") /\ UNCHANGED <<queue, current, taken>>
       \/ ~MustWait /\ Pop("fetch")
    /\ UNCHANGED <<impl, pending, callers, threads, channel, lost>>

FetchTimeout ==
    /\ Goto(Main, "fetchwait", "loop")
    /\ UNCHANGED <<impl, pending, queue, callers, current, threads, channel, taken, lost>>

\* mutant of LeaveOnWakeup: woken up means that there is a message
LeaveOnWakeup_Never == FALSE

LeaveOnWakeup == shutdownSignaled

(* front() and pop_front() of an empty deque are undefined.                *)
FetchWoken ==
    /\ \/ LeaveOnWakeup /\ Goto(Main, "fetchwoken", "loop") /\ UNCHANGED <<queue, current, taken>>
       \/ ~LeaveOnWakeup /\ Pop("fetchwoken")
       \/ /\ ~LeaveOnWakeup /\ queue = <<>>
          /\ Goto(Main, "fetchwoken", "undefined")
          /\ UNCHANGED <<queue, current, taken>>
    /\ UNCHANGED <<impl, pending, callers, threads, channel, lost>>

Dispatch ==
    /\ \/ LeavesRun /\ Goto(Main, "fetched", "stopped")
       \/ ~LeavesRun /\ Goto(Main, "fetched", "handle")
    /\ UNCHANGED <<impl, pending, queue, callers, current, threads, channel, taken, lost>>

(* An event or a foreign command is handled without changing this state; a *)
(* handler may also call sendRequest (Register).  A request of a thread of *)
(* this process for one of its own devices is answered here.               *)
Handle ==
    /\ Goto(Main, "handle", "loop")
    /\ \/ /\ current.message.own
          /\ replies' = replies \cup {[to |-> current.replyFuction, payload |-> "response"]}
          /\ served' = served \cup {current.replyFuction}
       \/ (~current.message.own \/ link = "down") /\ UNCHANGED <<replies, served>>
    /\ UNCHANGED <<impl, pending, queue, callers, current, threads, link, bus, nextOnBus, drops,
                   duplicates, taken, lost>>

-----------------------------------------------------------------------------
(***************************************************************************)
(* The network thread: on_message, on_connect, on_subscribe                *)
(***************************************************************************)
Listening == loopRuns /\ net = Idle /\ link # "down"

ReceiveReply(r) ==
    /\ Listening
    /\ \/ replies' = replies \ {r} /\ UNCHANGED duplicates
       \/ duplicates < MaxDuplicates /\ duplicates' = duplicates + 1 /\ UNCHANGED replies
    /\ net' = IF pending_replies[r.to] = Nobody THEN Idle    \* too late
              ELSE [at |-> "reply", msg |-> r, hint |-> pending_replies[r.to]]
    /\ UNCHANGED <<impl, pending, queue, pc, callers, current, loopRuns, stopper, link, bus,
                   nextOnBus, served, drops, taken, lost>>

ReceiveMessage ==
    /\ Listening
    /\ nextOnBus <= Len(bus)
    /\ \/ nextOnBus' = nextOnBus + 1 /\ UNCHANGED duplicates
       \/ duplicates < MaxDuplicates /\ duplicates' = duplicates + 1 /\ UNCHANGED nextOnBus
    /\ net' = [at |-> "message", position |-> nextOnBus]
    /\ UNCHANGED <<impl, pending, queue, pc, callers, current, loopRuns, stopper, link, bus,
                   replies, served, drops, taken, lost>>

\* mutant of StillPending: the registration is not checked again after parsing
StillPending_Skipped(t) == TRUE

StillPending(t) == pending_replies[t] # Nobody

DeliverReply ==
    /\ net.at = "reply"
    /\ net' = Idle
    /\ \/ /\ net.msg.payload # "garbage"
          /\ StillPending(net.msg.to)
          /\ replyMsg' = [replyMsg EXCEPT ![net.hint] = net.msg]
          /\ Notify(net.hint, "waiting", "notified")
       \/ /\ net.msg.payload = "garbage" \/ ~StillPending(net.msg.to)
          /\ UNCHANGED <<replyMsg, pc>>
    /\ UNCHANGED <<impl, pending, queue, topic, outcome, current, loopRuns, stopper, channel,
                   taken, lost>>

\* mutants of Enqueue: the loop is not woken up; the last message comes first;
\* only the last message is kept
Enqueue_Silent(i) == queue' = Append(queue, i) /\ UNCHANGED pc
Enqueue_Front(i)  == queue' = <<i>> \o queue /\ Notify(Main, "fetchwait", "fetchwoken")
Enqueue_Last(i)   == queue' = <<i>> /\ Notify(Main, "fetchwait", "fetchwoken")

Enqueue(i) ==
    /\ queue' = Append(queue, i)
    /\ Notify(Main, "fetchwait", "fetchwoken")

DeliverMessage ==
    /\ net.at = "message"
    /\ net' = Idle
    /\ \/ ~bus[net.position].garbage /\ Enqueue(net.position)
       \/ bus[net.position].garbage /\ UNCHANGED <<queue, pc>>
    /\ UNCHANGED <<impl, pending, callers, current, loopRuns, stopper, channel, taken, lost>>

\* mutant of Subscriptions: those of a lost connection are still counted
Subscriptions_Added == pending_subscribes + 2

Subscriptions == 2    \* the publish topic and the reply topics

(* The session is clean: what was published in between may be lost.        *)
OnConnect ==
    /\ loopRuns /\ net = Idle /\ link = "down"
    /\ \/ /\ link' = "subscribing"
          /\ pending_subscribes' = Subscriptions
          /\ \E first \in nextOnBus..(Len(bus) + 1) :
                nextOnBus' = first /\ lost' = lost \cup nextOnBus..(first - 1)
          /\ UNCHANGED <<connected, pc>>
       \/ /\ connected' = FALSE    \* refused
          /\ Notify(Main, "startwait", "startwoken")
          /\ UNCHANGED <<link, pending_subscribes, nextOnBus, lost>>
    /\ UNCHANGED <<shutdownSignaled, pending, queue, callers, current, threads, bus, replies,
                   served, drops, duplicates, taken>>

OnSubscribe ==
    /\ loopRuns /\ net = Idle /\ link = "subscribing"
    /\ pending_subscribes' = pending_subscribes - 1
    /\ \/ pending_subscribes' > 0 /\ UNCHANGED <<connected, pc, link>>
       \/ /\ pending_subscribes' = 0
          /\ connected' = TRUE
          /\ link' = "up"
          /\ Notify(Main, "startwait", "startwoken")
    /\ UNCHANGED <<shutdownSignaled, pending, queue, callers, current, threads, bus, nextOnBus,
                   replies, served, drops, duplicates, taken, lost>>

-----------------------------------------------------------------------------
(***************************************************************************)
(* shutdown(): flags and disconnect, join the network thread, wake up the  *)
(* threads that wait                                                       *)
(***************************************************************************)
SignalShutdown ==
    /\ stopper = "idle"
    /\ stopper' = "signal"
    /\ UNCHANGED <<impl, pending, queue, pc, callers, current, net, loopRuns, channel, taken, lost>>

(* The flags of the transport and of its implementation, and disconnect.   *)
SignalTransport ==
    /\ stopper = "signal"
    /\ stopper' = "join"
    /\ shutdownSignaled' = TRUE
    /\ UNCHANGED <<connected, pending_subscribes, pending, queue, pc, callers, current, net,
                   loopRuns, channel, taken, lost>>

StopLoop ==
    /\ stopper = "join"
    /\ net = Idle
    /\ stopper' = "notify"
    /\ loopRuns' = FALSE
    /\ link' = "down"
    /\ UNCHANGED <<impl, pending, queue, pc, callers, current, net, bus, nextOnBus, replies,
                   served, drops, duplicates, taken, lost>>

NotifyAll ==
    /\ stopper = "notify"
    /\ stopper' = "done"
    /\ connected' = FALSE
    /\ pc' = [c \in Callers |->
                CASE pc[c] = "waiting"   -> "notified"
                  [] pc[c] = "fetchwait" -> "fetchwoken"
                  [] pc[c] = "startwait" -> "startwoken"
                  [] OTHER -> pc[c]]
    /\ UNCHANGED <<shutdownSignaled, pending_subscribes, pending, queue, callers, current, net,
                   loopRuns, channel, taken, lost>>

-----------------------------------------------------------------------------
(***************************************************************************)
(* External: the other processes and the broker                            *)
(***************************************************************************)
OthersPublish(garbage) ==
    /\ Len(bus) < MaxMessages
    /\ bus' = Append(bus, [reply |-> 0, own |-> FALSE, garbage |-> garbage])
    /\ UNCHANGED <<impl, pending, queue, pc, callers, current, threads, link, nextOnBus, replies,
                   served, drops, duplicates, taken, lost>>

(* Another process answers a request, once, at any later time.             *)
OthersReply(i, payload) ==
    /\ ~bus[i].own /\ bus[i].reply \notin served \cup {0}
    /\ served' = served \cup {bus[i].reply}
    /\ replies' = IF link = "down" THEN replies
                  ELSE replies \cup {[to |-> bus[i].reply, payload |-> payload]}
    /\ UNCHANGED <<impl, pending, queue, pc, callers, current, threads, link, bus, nextOnBus,
                   drops, duplicates, taken, lost>>

Drop ==
    /\ drops < MaxDrops /\ link # "down"
    /\ drops' = drops + 1
    /\ link' = "down"
    /\ replies' = {}
    /\ UNCHANGED <<impl, pending, queue, pc, callers, current, threads, bus, nextOnBus, served,
                   duplicates, taken, lost>>

-----------------------------------------------------------------------------
RequestStep(c) ==
    \/ PublishRequest(c) \/ Wait(c) \/ WaitTimeout(c) \/ Inspect(c) \/ Unregister(c)

LoopStep ==
    \/ Connect \/ StartLoop \/ CheckConnected \/ StartTimeout
    \/ Loop \/ Fetch \/ FetchTimeout \/ FetchWoken \/ Dispatch \/ Handle

Deliver == DeliverReply \/ DeliverMessage

Network ==
    \/ \E r \in replies : ReceiveReply(r)
    \/ ReceiveMessage \/ Deliver \/ OnConnect \/ OnSubscribe

Shutdown == SignalTransport \/ StopLoop \/ NotifyAll

External ==
    \/ \E garbage \in BOOLEAN : OthersPublish(garbage)
    \/ \E i \in 1..Len(bus), p \in Payloads : OthersReply(i, p)
    \/ Drop

Next ==
    \/ \E c \in Callers : Register(c) \/ RequestStep(c) \/ SpuriousWakeup(c)
    \/ LoopStep \/ Network \/ SignalShutdown \/ Shutdown \/ External

Spec == Init /\ [][Next]_vars

(* Waits have timeouts, handlers return and the system schedules the       *)
(* threads; the network thread delivers what it has received.  Nothing is  *)
(* assumed of the broker, the other processes and the user who shuts down. *)
Fairness ==
    /\ \A c \in Callers : WF_vars(RequestStep(c))
    /\ WF_vars(LoopStep)
    /\ WF_vars(Deliver)
    /\ WF_vars(Shutdown)

FairSpec == Spec /\ Fairness
-----------------------------------------------------------------------------
(***************************************************************************)
(* Properties                                                              *)
(***************************************************************************)
Positions == 1..MaxMessages
Queued    == {queue[i] : i \in 1..Len(queue)}

(* The type invariant, by groups of variables                              *)
FlagsOK == connected \in BOOLEAN /\ shutdownSignaled \in BOOLEAN /\ loopRuns \in BOOLEAN

ImplOK ==
    /\ pending_subscribes \in 0..2
    /\ reply_seq \in Topics \cup {0}
    /\ pending_replies \in [Topics -> Callers \cup {Nobody}]

PositionsOK ==
    /\ pc \in [Callers -> MainPCs \cup PoolPCs]
    /\ pc[Main] \in MainPCs
    /\ \A c \in Pool : pc[c] \in PoolPCs

CallersOK ==
    /\ topic \in [Callers -> Topics \cup {0}]
    /\ replyMsg \in [Callers -> Replies \cup {NoReply}]
    /\ outcome \in [Callers -> {"none", "reply", "internal", "timeout", "shutdown"}]
    /\ current \in Fetched

NetOK ==
    \/ net = Idle
    \/ net \in [at : {"reply"}, msg : Replies, hint : Callers]
    \/ net \in [at : {"message"}, position : Positions] /\ net.position <= Len(bus)

BusOK ==
    /\ bus \in Seq(Messages) /\ Len(bus) <= MaxMessages
    /\ nextOnBus \in 1..(Len(bus) + 1)
    /\ queue \in Seq(1..Len(bus))
    /\ replies \subseteq Replies
    /\ served \subseteq Topics
    /\ taken \subseteq 1..Len(bus) /\ lost \subseteq 1..Len(bus)

OtherOK ==
    /\ stopper \in {"idle", "signal", "join", "notify", "done"}
    /\ link \in {"down", "subscribing", "up"}
    /\ drops \in 0..MaxDrops /\ duplicates \in 0..MaxDuplicates

(* Every variable keeps its type (the members of MqttImpl, the state of    *)
(* the threads, the bus).                                                  *)
TypeOK == FlagsOK /\ ImplOK /\ PositionsOK /\ CallersOK /\ NetOK /\ BusOK /\ OtherOK

(* MqttReply: a caller is registered under its topic exactly while its     *)
(* request lasts, and under no other.                                      *)
RegisteredWhileWaiting ==
    \A t \in Topics, c \in Callers :
        pending_replies[t] = c <=> pc[c] \in Requesting /\ topic[c] = t

(* on_message writes a reply only into the MqttReply that waits for it:    *)
(* never into one of an earlier request, nor of a caller that is gone,     *)
(* however late, often or slowly the reply comes.                          *)
OwnReply ==
    \A c \in Callers :
        replyMsg[c] # NoReply => pc[c] \in Requesting /\ replyMsg[c].to = topic[c]

(* Messages come to the loop in the order of the bus.                      *)
InOrder ==
    /\ \A i, j \in 1..Len(queue) : i < j => queue[i] <= queue[j]
    /\ \A i \in taken : \A j \in Queued : i <= j
    /\ net.at = "message" => \A i \in taken \cup Queued : i <= net.position

(* Once received, a message that parses gets to the loop.                  *)
NothingLost ==
    \A i \in 1..Len(bus) : i < nextOnBus =>
        \/ bus[i].garbage
        \/ i \in taken \cup Queued \cup lost
        \/ net = [at |-> "message", position |-> i]

(***************************************************************************)
(* fetchMessage does not wait while there is a message for it, and takes   *)
(* none from an empty queue as long as condition variables wake up for     *)
(* notifications only.                                                     *)
(***************************************************************************)
FetchSeesQueue ==
    /\ pc[Main] = "fetchwait" => queue = <<>>
    /\ pc[Main] = "undefined" => Spurious

(* Every sendRequest returns.                                              *)
RequestsReturn == \A c \in Callers : pc[c] = "publish" ~> pc[c] = Home(c)

(* Every message in the queue is fetched, unless start() has failed, the   *)
(* process shuts down or a spurious wakeup made it take from nothing.      *)
MessagesTaken ==
    \A i \in Positions :
        i \in Queued ~> \/ i \in taken
                        \/ stopper # "idle"
                        \/ pc[Main] \in {"failed", "undefined"}

(* After a shutdown, the message loop ends.                                *)
LoopEnds == stopper # "idle" ~> pc[Main] \in {"stopped", "failed", "undefined"}

(* What sendRequest promises: see BusRequests.                             *)
Abstract == INSTANCE BusRequests WITH
    asked    <- reply_seq,
    open     <- [c \in Callers |-> IF pc[c] \in Requesting \ {"return"} THEN topic[c] ELSE 0],
    answered <- served,
    result   <- outcome,
    stopping <- shutdownSignaled

ImplementsBusRequests == Abstract!Spec
=============================================================================
