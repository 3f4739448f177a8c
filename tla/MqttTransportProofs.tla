------------------------ MODULE MqttTransportProofs ------------------------
(***************************************************************************)
(* Theorems about the MQTT transport, for every pool of threads, every     *)
(* number of requests and messages, and every loss and duplication.        *)
(***************************************************************************)
EXTENDS MqttTransport, SequenceTheorems, TLAPS

(* A request has a topic.                                                  *)
RequestTopics == \A c \in Callers : pc[c] \in Requesting => topic[c] \in Topics

(* A message that asks this process has a reply topic.                     *)
BusTopics ==
    /\ \A i \in 1..Len(bus) : bus[i].own => bus[i].reply \in Topics
    /\ current.message.own => current.replyFuction \in Topics

(* While the process subscribes, it waits for a subscription.              *)
Subscribing == link = "subscribing" => pending_subscribes \in {1, 2}

(* What the types rest on.                                                 *)
TopicsInv == RequestTopics /\ BusTopics /\ Subscribing

(* Positions: a step of one caller.                                        *)
LEMMA GotoType ==
  ASSUME PositionsOK, NEW c \in Callers, NEW here, NEW there,
         Goto(c, here, there),
         c = Main => there \in MainPCs,
         c # Main => there \in PoolPCs
  PROVE  PositionsOK'
BY ThreadsAssumption DEF ThreadsAssumption, Callers, PositionsOK, Goto

(* Positions: a notification.                                              *)
LEMMA NotifyType ==
  ASSUME PositionsOK, NEW c \in Callers, NEW waiting, NEW woken,
         Notify(c, waiting, woken) \/ UNCHANGED pc,
         c = Main => woken \in MainPCs,
         c # Main => woken \in PoolPCs
  PROVE  PositionsOK'
BY ThreadsAssumption DEF ThreadsAssumption, Callers, PositionsOK, Notify

(* Topics: a step of one caller, and a notification.                       *)
LEMMA GotoTopics ==
  ASSUME PositionsOK, RequestTopics, NEW c \in Callers, NEW here, NEW there,
         Goto(c, here, there), UNCHANGED topic,
         there \in Requesting => here \in Requesting
  PROVE  RequestTopics'
BY DEF PositionsOK, RequestTopics, Goto

\* A notification leaves the topics of open requests alone.
LEMMA NotifyTopics ==
  ASSUME PositionsOK, RequestTopics, NEW c \in Callers, NEW waiting, NEW woken,
         Notify(c, waiting, woken) \/ UNCHANGED pc, UNCHANGED topic,
         woken \in Requesting => waiting \in Requesting
  PROVE  RequestTopics'
BY DEF PositionsOK, RequestTopics, Notify

(* The head of the queue is a message on the bus.                          *)
LEMMA HeadType ==
  ASSUME BusOK, queue # <<>>
  PROVE  /\ Head(queue) \in 1..Len(bus)
         /\ Tail(queue) \in Seq(1..Len(bus))
         /\ bus[Head(queue)] \in Messages
BY DEF BusOK

(* What the network thread is about to deliver.                            *)
LEMMA DeliveryType ==
  ASSUME TypeOK
  PROVE  /\ net.at = "reply" => net.msg \in Replies /\ net.hint \in Callers
         /\ net.at = "message" => net.position \in 1..Len(bus)
BY BoundsAssumption DEF BoundsAssumption, TypeOK, NetOK, BusOK, Idle, Positions

(* A reply under way.                                                      *)
LEMMA ReplyType ==
  ASSUME NEW t \in Topics, NEW p \in Payloads
  PROVE  [to |-> t, payload |-> p] \in Replies
BY DEF Replies

(* A longer bus has the positions of the shorter one.                      *)
LEMMA LongerBus ==
  ASSUME bus \in Seq(Messages), NEW m \in Messages, bus' = Append(bus, m)
  PROVE  /\ bus' \in Seq(Messages)
         /\ Len(bus') = Len(bus) + 1
         /\ \A i \in 1..Len(bus) : bus'[i] = bus[i]
         /\ bus'[Len(bus) + 1] = m
         /\ \A q \in Seq(1..Len(bus)) : q \in Seq(1..Len(bus'))
<1>1. bus' \in Seq(Messages) /\ Len(bus') = Len(bus) + 1
  OBVIOUS
<1>2. /\ \A i \in 1..Len(bus) : bus'[i] = bus[i]
      /\ bus'[Len(bus) + 1] = m
  OBVIOUS
<1>3. ASSUME NEW q \in Seq(1..Len(bus)) PROVE q \in Seq(1..Len(bus'))
  BY <1>1
<1> QED BY <1>1, <1>2, <1>3

(* The types, when a message is published.                                 *)
LEMMA PublishType ==
  ASSUME TypeOK, TopicsInv, NEW m \in Messages, Len(bus) < MaxMessages,
         bus' = Append(bus, m), m.own => m.reply \in Topics,
         UNCHANGED <<net, nextOnBus, queue, replies, served, taken, lost, current>>
  PROVE  NetOK' /\ BusOK' /\ BusTopics'
<1> USE BoundsAssumption DEF BoundsAssumption
<1>1. /\ bus \in Seq(Messages) /\ bus' \in Seq(Messages)
      /\ Len(bus') = Len(bus) + 1 /\ Len(bus) \in Nat
      /\ \A i \in 1..Len(bus) : bus'[i] = bus[i]
      /\ bus'[Len(bus) + 1] = m
      /\ \A q \in Seq(1..Len(bus)) : q \in Seq(1..Len(bus'))
  BY LongerBus DEF TypeOK, BusOK
<1>2. NetOK'
  BY <1>1 DEF TypeOK, NetOK, Positions
<1>3. BusOK'
  BY <1>1 DEF TypeOK, BusOK
<1>4. BusTopics'
  BY <1>1 DEF TopicsInv, BusTopics
<1> QED BY <1>2, <1>3, <1>4

\* The initial states have the types.
LEMMA InitType == Init => TypeOK /\ TopicsInv
<1> USE BoundsAssumption, ThreadsAssumption
    DEF BoundsAssumption, ThreadsAssumption, Init, Topics
<1>1. Init => FlagsOK
  BY DEF FlagsOK
<1>2. Init => ImplOK
  BY DEF ImplOK
<1>3. Init => PositionsOK
  BY DEF PositionsOK, Callers, MainPCs, PoolPCs, Starting
<1>4. Init => CallersOK
  BY DEF CallersOK, Nothing, Fetched, Messages, NoReply
<1>5. Init => NetOK
  BY DEF NetOK
<1>6. Init => BusOK
  BY DEF BusOK
<1>7. Init => OtherOK
  BY DEF OtherOK
<1>8. Init => TopicsInv
  BY DEF TopicsInv, RequestTopics, BusTopics, Subscribing, Requesting, Nothing
<1> QED BY <1>1, <1>2, <1>3, <1>4, <1>5, <1>6, <1>7, <1>8 DEF TypeOK

(* A group keeps its type when its variables do not change.                *)
LEMMA Frame ==
  ASSUME TypeOK, TopicsInv
  PROVE  /\ UNCHANGED <<connected, shutdownSignaled, loopRuns>> => FlagsOK'
         /\ UNCHANGED <<pending_subscribes, pending>> => ImplOK'
         /\ UNCHANGED <<pc>> => PositionsOK'
         /\ UNCHANGED <<callers, current>> => CallersOK'
         /\ UNCHANGED <<net, bus>> => NetOK'
         /\ UNCHANGED <<bus, nextOnBus, queue, replies, served, taken, lost>> => BusOK'
         /\ UNCHANGED <<stopper, link, drops, duplicates>> => OtherOK'
         /\ UNCHANGED <<pc, topic>> => RequestTopics'
         /\ UNCHANGED <<bus, current>> => BusTopics'
         /\ UNCHANGED <<link, pending_subscribes>> => Subscribing'
<1>1. UNCHANGED <<connected, shutdownSignaled, loopRuns>> => FlagsOK'
  BY DEF TypeOK, TopicsInv, FlagsOK
<1>2. UNCHANGED <<pending_subscribes, pending>> => ImplOK'
  BY DEF TypeOK, TopicsInv, ImplOK, pending
<1>3. UNCHANGED <<pc>> => PositionsOK'
  BY DEF TypeOK, TopicsInv, PositionsOK
<1>4. UNCHANGED <<callers, current>> => CallersOK'
  BY DEF TypeOK, TopicsInv, CallersOK, callers
<1>5. UNCHANGED <<net, bus>> => NetOK'
  BY DEF TypeOK, TopicsInv, NetOK
<1>6. UNCHANGED <<bus, nextOnBus, queue, replies, served, taken, lost>> => BusOK'
  BY DEF TypeOK, TopicsInv, BusOK
<1>7. UNCHANGED <<stopper, link, drops, duplicates>> => OtherOK'
  BY DEF TypeOK, TopicsInv, OtherOK
<1>8. UNCHANGED <<pc, topic>> => RequestTopics'
  BY DEF TypeOK, TopicsInv, RequestTopics
<1>9. UNCHANGED <<bus, current>> => BusTopics'
  BY DEF TypeOK, TopicsInv, BusTopics
<1>10. UNCHANGED <<link, pending_subscribes>> => Subscribing'
  BY DEF TypeOK, TopicsInv, Subscribing
<1> QED BY <1>1, <1>2, <1>3, <1>4, <1>5, <1>6, <1>7, <1>8, <1>9, <1>10

\* Every action keeps the types and what they rest on.
LEMMA TypeStep == TypeOK /\ TopicsInv /\ [Next]_vars => TypeOK' /\ TopicsInv'
<1> SUFFICES ASSUME TypeOK, TopicsInv, [Next]_vars PROVE TypeOK' /\ TopicsInv' OBVIOUS
<1> USE BoundsAssumption, ThreadsAssumption
    DEF BoundsAssumption, ThreadsAssumption, Topics
<1>1. ASSUME Connect PROVE TypeOK' /\ TopicsInv'
  <2>1. PositionsOK'
    BY <1>1, GotoType DEF Connect, TypeOK, MainPCs, PoolPCs, Starting, Requesting, Callers, Home
  <2>2. RequestTopics'
    BY <1>1, GotoTopics DEF Connect, TypeOK, TopicsInv, callers, Requesting, Callers, Home
  <2>3. FlagsOK' /\ ImplOK' /\ CallersOK' /\ NetOK' /\ BusOK' /\ OtherOK' /\ BusTopics' /\ Subscribing'
    BY <1>1, Frame DEF Connect, impl, pending, callers, threads, channel
  <2> QED BY <2>1, <2>2, <2>3 DEF TypeOK, TopicsInv
<1>2. ASSUME StartLoop PROVE TypeOK' /\ TopicsInv'
  <2>1. FlagsOK'
    BY <1>2 DEF StartLoop, impl, TypeOK, FlagsOK
  <2>2. PositionsOK'
    BY <1>2, GotoType DEF StartLoop, TypeOK, MainPCs, PoolPCs, Starting, Requesting, Callers,
       Home
  <2>3. RequestTopics'
    BY <1>2, GotoTopics DEF StartLoop, TypeOK, TopicsInv, callers, Requesting, Callers, Home
  <2>4. ImplOK' /\ CallersOK' /\ NetOK' /\ BusOK' /\ OtherOK' /\ BusTopics' /\ Subscribing'
    BY <1>2, Frame DEF StartLoop, impl, pending, callers, threads, channel
  <2> QED BY <2>1, <2>2, <2>3, <2>4 DEF TypeOK, TopicsInv
<1>3. ASSUME CheckConnected PROVE TypeOK' /\ TopicsInv'
  <2>1. PositionsOK'
    BY <1>3, GotoType DEF CheckConnected, TypeOK, MainPCs, PoolPCs, Starting, Requesting,
       Callers, Home
  <2>2. RequestTopics'
    BY <1>3, GotoTopics DEF CheckConnected, TypeOK, TopicsInv, callers, Requesting, Callers,
       Home
  <2>3. FlagsOK' /\ ImplOK' /\ CallersOK' /\ NetOK' /\ BusOK' /\ OtherOK' /\ BusTopics' /\ Subscribing'
    BY <1>3, Frame DEF CheckConnected, impl, pending, callers, threads, channel
  <2> QED BY <2>1, <2>2, <2>3 DEF TypeOK, TopicsInv
<1>4. ASSUME StartTimeout PROVE TypeOK' /\ TopicsInv'
  <2>1. PositionsOK'
    BY <1>4, GotoType DEF StartTimeout, TypeOK, MainPCs, PoolPCs, Starting, Requesting, Callers,
       Home
  <2>2. RequestTopics'
    BY <1>4, GotoTopics DEF StartTimeout, TypeOK, TopicsInv, callers, Requesting, Callers, Home
  <2>3. FlagsOK' /\ ImplOK' /\ CallersOK' /\ NetOK' /\ BusOK' /\ OtherOK' /\ BusTopics' /\ Subscribing'
    BY <1>4, Frame DEF StartTimeout, impl, pending, callers, threads, channel
  <2> QED BY <2>1, <2>2, <2>3 DEF TypeOK, TopicsInv
<1>5. ASSUME NEW c \in Callers, Register(c) PROVE TypeOK' /\ TopicsInv'
  <2>1. ImplOK'
    BY <1>5 DEF Register, TypeOK, ImplOK, impl
  <2>2. PositionsOK'
    BY <1>5, GotoType DEF Register, TypeOK, MainPCs, PoolPCs, Starting, Requesting, Callers,
       Home
  <2>3. CallersOK'
    BY <1>5 DEF Register, TypeOK, CallersOK, Replies, NoReply
  <2>4. RequestTopics'
    BY <1>5 DEF Register, TypeOK, TopicsInv, RequestTopics, PositionsOK, CallersOK, Goto,
       Requesting, Home
  <2>5. FlagsOK' /\ NetOK' /\ BusOK' /\ OtherOK' /\ BusTopics' /\ Subscribing'
    BY <1>5, Frame DEF Register, impl, pending, callers, threads, channel
  <2> QED BY <2>1, <2>2, <2>3, <2>4, <2>5 DEF TypeOK, TopicsInv
<1>6. ASSUME NEW c \in Callers, PublishRequest(c) PROVE TypeOK' /\ TopicsInv'
  <2>1. PositionsOK'
    BY <1>6, GotoType DEF PublishRequest, TypeOK, MainPCs, PoolPCs, Starting, Requesting,
       Callers, Home
  <2>2. RequestTopics'
    BY <1>6, GotoTopics DEF PublishRequest, TypeOK, TopicsInv, callers, Requesting, Callers,
       Home
  <2>3. NetOK' /\ BusOK' /\ BusTopics'
    <3>1. CASE UNCHANGED bus
      BY <1>6, Frame, <3>1 DEF PublishRequest, threads
    <3>2. ASSUME NEW own \in BOOLEAN, Len(bus) < MaxMessages,
                 bus' = Append(bus, [reply |-> topic[c], own |-> own, garbage |-> FALSE])
          PROVE  NetOK' /\ BusOK' /\ BusTopics'
      <4> DEFINE m == [reply |-> topic[c], own |-> own, garbage |-> FALSE]
      <4>1. topic[c] \in Topics
        BY <1>6 DEF PublishRequest, Goto, TopicsInv, RequestTopics, Requesting
      <4>2. m \in Messages /\ m.reply \in Topics
        BY <4>1 DEF Messages
      <4> QED BY <1>6, <3>2, <4>2, PublishType DEF PublishRequest, threads
    <3> QED BY <1>6, <3>1, <3>2 DEF PublishRequest
  <2>4. FlagsOK' /\ ImplOK' /\ CallersOK' /\ OtherOK' /\ Subscribing'
    BY <1>6, Frame DEF PublishRequest, impl, pending, callers, threads, channel
  <2> QED BY <2>1, <2>2, <2>3, <2>4 DEF TypeOK, TopicsInv
<1>7. ASSUME NEW c \in Callers, Wait(c) PROVE TypeOK' /\ TopicsInv'
  <2>1. PositionsOK'
    BY <1>7, GotoType DEF Wait, TypeOK, MainPCs, PoolPCs, Starting, Requesting, Callers, Home
  <2>2. RequestTopics'
    BY <1>7, GotoTopics DEF Wait, TypeOK, TopicsInv, callers, Requesting, Callers, Home
  <2>3. FlagsOK' /\ ImplOK' /\ CallersOK' /\ NetOK' /\ BusOK' /\ OtherOK' /\ BusTopics' /\ Subscribing'
    BY <1>7, Frame DEF Wait, impl, pending, callers, threads, channel
  <2> QED BY <2>1, <2>2, <2>3 DEF TypeOK, TopicsInv
<1>8. ASSUME NEW c \in Callers, WaitTimeout(c) PROVE TypeOK' /\ TopicsInv'
  <2>1. PositionsOK'
    BY <1>8, GotoType DEF WaitTimeout, TypeOK, MainPCs, PoolPCs, Starting, Requesting, Callers,
       Home
  <2>2. RequestTopics'
    BY <1>8, GotoTopics DEF WaitTimeout, TypeOK, TopicsInv, callers, Requesting, Callers, Home
  <2>3. FlagsOK' /\ ImplOK' /\ CallersOK' /\ NetOK' /\ BusOK' /\ OtherOK' /\ BusTopics' /\ Subscribing'
    BY <1>8, Frame DEF WaitTimeout, impl, pending, callers, threads, channel
  <2> QED BY <2>1, <2>2, <2>3 DEF TypeOK, TopicsInv
<1>9. ASSUME NEW c \in Callers, SpuriousWakeup(c) PROVE TypeOK' /\ TopicsInv'
  <2>1. PositionsOK'
    BY <1>9, GotoType DEF SpuriousWakeup, TypeOK, MainPCs, PoolPCs, Starting, Requesting,
       Callers, Home
  <2>2. RequestTopics'
    BY <1>9, GotoTopics DEF SpuriousWakeup, TypeOK, TopicsInv, callers, Requesting, Callers,
       Home
  <2>3. FlagsOK' /\ ImplOK' /\ CallersOK' /\ NetOK' /\ BusOK' /\ OtherOK' /\ BusTopics' /\ Subscribing'
    BY <1>9, Frame DEF SpuriousWakeup, impl, pending, callers, threads, channel
  <2> QED BY <2>1, <2>2, <2>3 DEF TypeOK, TopicsInv
<1>10. ASSUME NEW c \in Callers, Inspect(c) PROVE TypeOK' /\ TopicsInv'
  <2>1. PositionsOK'
    BY <1>10 DEF Inspect, TypeOK, PositionsOK, MainPCs, PoolPCs, Requesting, Callers
  <2>2. CallersOK'
    BY <1>10 DEF Inspect, Outcomes, TypeOK, CallersOK
  <2>3. RequestTopics'
    BY <1>10 DEF Inspect, TypeOK, TopicsInv, RequestTopics, PositionsOK, Requesting
  <2>4. FlagsOK' /\ ImplOK' /\ NetOK' /\ BusOK' /\ OtherOK' /\ BusTopics' /\ Subscribing'
    BY <1>10, Frame DEF Inspect, impl, pending, callers, threads, channel
  <2> QED BY <2>1, <2>2, <2>3, <2>4 DEF TypeOK, TopicsInv
<1>11. ASSUME NEW c \in Callers, Unregister(c) PROVE TypeOK' /\ TopicsInv'
  <2>1. ImplOK'
    BY <1>11 DEF Unregister, TypeOK, ImplOK, impl
  <2>2. PositionsOK'
    BY <1>11, GotoType DEF Unregister, TypeOK, MainPCs, PoolPCs, Starting, Requesting, Callers,
       Home
  <2>3. CallersOK'
    BY <1>11 DEF Unregister, TypeOK, CallersOK
  <2>4. RequestTopics'
    BY <1>11 DEF Unregister, TypeOK, TopicsInv, RequestTopics, PositionsOK, CallersOK, Goto,
       Requesting, Home
  <2>5. FlagsOK' /\ NetOK' /\ BusOK' /\ OtherOK' /\ BusTopics' /\ Subscribing'
    BY <1>11, Frame DEF Unregister, impl, pending, callers, threads, channel
  <2> QED BY <2>1, <2>2, <2>3, <2>4, <2>5 DEF TypeOK, TopicsInv
<1>12. ASSUME Loop PROVE TypeOK' /\ TopicsInv'
  <2>1. PositionsOK'
    BY <1>12, GotoType DEF Loop, TypeOK, MainPCs, PoolPCs, Starting, Requesting, Callers, Home
  <2>2. RequestTopics'
    BY <1>12, GotoTopics DEF Loop, TypeOK, TopicsInv, callers, Requesting, Callers, Home
  <2>3. FlagsOK' /\ ImplOK' /\ CallersOK' /\ NetOK' /\ BusOK' /\ OtherOK' /\ BusTopics' /\ Subscribing'
    BY <1>12, Frame DEF Loop, impl, pending, callers, threads, channel
  <2> QED BY <2>1, <2>2, <2>3 DEF TypeOK, TopicsInv
<1>13. ASSUME Fetch PROVE TypeOK' /\ TopicsInv'
  <2>1. PositionsOK'
    BY <1>13, GotoType DEF Fetch, Pop, TypeOK, MainPCs, PoolPCs, Starting, Requesting, Callers,
       Home
  <2>2. CallersOK'
    BY <1>13, HeadType DEF Fetch, Pop, MustWait, FetchedMessage, Fetched, Messages, TypeOK,
       CallersOK, callers
  <2>3. BusOK'
    BY <1>13, HeadType DEF Fetch, Pop, TypeOK, BusOK, channel
  <2>4. RequestTopics'
    BY <1>13, GotoTopics DEF Fetch, Pop, TypeOK, TopicsInv, callers, Requesting, Callers, Home
  <2>5. BusTopics'
    BY <1>13, HeadType DEF Fetch, Pop, MustWait, FetchedMessage, TypeOK, TopicsInv, BusTopics,
       channel
  <2>6. FlagsOK' /\ ImplOK' /\ NetOK' /\ OtherOK' /\ Subscribing'
    BY <1>13, Frame DEF Fetch, impl, pending, callers, threads, channel
  <2> QED BY <2>1, <2>2, <2>3, <2>4, <2>5, <2>6 DEF TypeOK, TopicsInv
<1>14. ASSUME FetchTimeout PROVE TypeOK' /\ TopicsInv'
  <2>1. PositionsOK'
    BY <1>14, GotoType DEF FetchTimeout, TypeOK, MainPCs, PoolPCs, Starting, Requesting,
       Callers, Home
  <2>2. RequestTopics'
    BY <1>14, GotoTopics DEF FetchTimeout, TypeOK, TopicsInv, callers, Requesting, Callers, Home
  <2>3. FlagsOK' /\ ImplOK' /\ CallersOK' /\ NetOK' /\ BusOK' /\ OtherOK' /\ BusTopics' /\ Subscribing'
    BY <1>14, Frame DEF FetchTimeout, impl, pending, callers, threads, channel
  <2> QED BY <2>1, <2>2, <2>3 DEF TypeOK, TopicsInv
<1>15. ASSUME FetchWoken PROVE TypeOK' /\ TopicsInv'
  <2>1. PositionsOK'
    BY <1>15, GotoType DEF FetchWoken, Pop, TypeOK, MainPCs, PoolPCs, Starting, Requesting,
       Callers, Home
  <2>2. CallersOK'
    BY <1>15, HeadType DEF FetchWoken, Pop, MustWait, FetchedMessage, Fetched, Messages, TypeOK,
       CallersOK, callers
  <2>3. BusOK'
    BY <1>15, HeadType DEF FetchWoken, Pop, TypeOK, BusOK, channel
  <2>4. RequestTopics'
    BY <1>15, GotoTopics DEF FetchWoken, Pop, TypeOK, TopicsInv, callers, Requesting, Callers,
       Home
  <2>5. BusTopics'
    BY <1>15, HeadType DEF FetchWoken, Pop, MustWait, FetchedMessage, TypeOK, TopicsInv,
       BusTopics, channel
  <2>6. FlagsOK' /\ ImplOK' /\ NetOK' /\ OtherOK' /\ Subscribing'
    BY <1>15, Frame DEF FetchWoken, impl, pending, callers, threads, channel
  <2> QED BY <2>1, <2>2, <2>3, <2>4, <2>5, <2>6 DEF TypeOK, TopicsInv
<1>16. ASSUME Dispatch PROVE TypeOK' /\ TopicsInv'
  <2>1. PositionsOK'
    BY <1>16, GotoType DEF Dispatch, TypeOK, MainPCs, PoolPCs, Starting, Requesting, Callers,
       Home
  <2>2. RequestTopics'
    BY <1>16, GotoTopics DEF Dispatch, TypeOK, TopicsInv, callers, Requesting, Callers, Home
  <2>3. FlagsOK' /\ ImplOK' /\ CallersOK' /\ NetOK' /\ BusOK' /\ OtherOK' /\ BusTopics' /\ Subscribing'
    BY <1>16, Frame DEF Dispatch, impl, pending, callers, threads, channel
  <2> QED BY <2>1, <2>2, <2>3 DEF TypeOK, TopicsInv
<1>17. ASSUME Handle PROVE TypeOK' /\ TopicsInv'
  <2>1. PositionsOK'
    BY <1>17, GotoType DEF Handle, TypeOK, MainPCs, PoolPCs, Starting, Requesting, Callers, Home
  <2>2. BusOK'
    <3>1. CASE UNCHANGED <<replies, served>>
      BY <1>17, Frame, <3>1 DEF Handle
    <3>2. CASE current.message.own
      <4>1. current.replyFuction \in Topics
        BY <3>2 DEF TopicsInv, BusTopics
      <4>2. [to |-> current.replyFuction, payload |-> "response"] \in Replies
        BY <4>1, ReplyType DEF Payloads
      <4> QED BY <1>17, <3>2, <4>1, <4>2 DEF Handle, TypeOK, BusOK
    <3> QED BY <1>17, <3>1, <3>2 DEF Handle
  <2>3. RequestTopics'
    BY <1>17, GotoTopics DEF Handle, TypeOK, TopicsInv, callers, Requesting, Callers, Home
  <2>4. FlagsOK' /\ ImplOK' /\ CallersOK' /\ NetOK' /\ OtherOK' /\ BusTopics' /\ Subscribing'
    BY <1>17, Frame DEF Handle, impl, pending, callers, threads, channel
  <2> QED BY <2>1, <2>2, <2>3, <2>4 DEF TypeOK, TopicsInv
<1>18. ASSUME NEW r \in replies, ReceiveReply(r) PROVE TypeOK' /\ TopicsInv'
  <2>1. NetOK'
    BY <1>18 DEF ReceiveReply, TypeOK, NetOK, BusOK, ImplOK, Idle, Replies
  <2>2. BusOK'
    BY <1>18 DEF ReceiveReply, TypeOK, BusOK
  <2>3. OtherOK'
    BY <1>18 DEF ReceiveReply, TypeOK, OtherOK
  <2>4. FlagsOK' /\ ImplOK' /\ PositionsOK' /\ CallersOK' /\ RequestTopics' /\ BusTopics' /\ Subscribing'
    BY <1>18, Frame DEF ReceiveReply, impl, pending, callers, threads, channel
  <2> QED BY <2>1, <2>2, <2>3, <2>4 DEF TypeOK, TopicsInv
<1>19. ASSUME ReceiveMessage PROVE TypeOK' /\ TopicsInv'
  <2>1. NetOK'
    BY <1>19 DEF ReceiveMessage, TypeOK, NetOK, BusOK, Positions
  <2>2. BusOK'
    BY <1>19 DEF ReceiveMessage, TypeOK, BusOK
  <2>3. OtherOK'
    BY <1>19 DEF ReceiveMessage, TypeOK, OtherOK
  <2>4. FlagsOK' /\ ImplOK' /\ PositionsOK' /\ CallersOK' /\ RequestTopics' /\ BusTopics' /\ Subscribing'
    BY <1>19, Frame DEF ReceiveMessage, impl, pending, callers, threads, channel
  <2> QED BY <2>1, <2>2, <2>3, <2>4 DEF TypeOK, TopicsInv
<1>20. ASSUME DeliverReply PROVE TypeOK' /\ TopicsInv'
  <2>1. PositionsOK'
    BY <1>20, NotifyType, DeliveryType DEF DeliverReply, TypeOK, Callers, MainPCs, PoolPCs,
       Requesting
  <2>2. CallersOK'
    BY <1>20, DeliveryType DEF DeliverReply, TypeOK, CallersOK
  <2>3. NetOK'
    BY <1>20 DEF DeliverReply, NetOK
  <2>4. RequestTopics'
    BY <1>20, NotifyTopics, DeliveryType DEF DeliverReply, TypeOK, TopicsInv, Requesting
  <2>5. FlagsOK' /\ ImplOK' /\ BusOK' /\ OtherOK' /\ BusTopics' /\ Subscribing'
    BY <1>20, Frame DEF DeliverReply, impl, pending, callers, threads, channel
  <2> QED BY <2>1, <2>2, <2>3, <2>4, <2>5 DEF TypeOK, TopicsInv
<1>21. ASSUME DeliverMessage PROVE TypeOK' /\ TopicsInv'
  <2>1. PositionsOK'
    BY <1>21, NotifyType DEF DeliverMessage, Enqueue, TypeOK, Callers, MainPCs
  <2>2. NetOK'
    BY <1>21 DEF DeliverMessage, NetOK
  <2>3. BusOK'
    <3>1. CASE UNCHANGED queue
      BY <1>21, Frame, <3>1 DEF DeliverMessage, channel
    <3>2. CASE queue' = Append(queue, net.position)
      BY <1>21, <3>2, DeliveryType DEF DeliverMessage, TypeOK, BusOK, channel
    <3> QED BY <1>21, <3>1, <3>2 DEF DeliverMessage, Enqueue
  <2>4. RequestTopics'
    BY <1>21, NotifyTopics DEF DeliverMessage, Enqueue, TypeOK, TopicsInv, Callers, Requesting,
       callers
  <2>5. FlagsOK' /\ ImplOK' /\ CallersOK' /\ OtherOK' /\ BusTopics' /\ Subscribing'
    BY <1>21, Frame DEF DeliverMessage, impl, pending, callers, threads, channel
  <2> QED BY <2>1, <2>2, <2>3, <2>4, <2>5 DEF TypeOK, TopicsInv
<1>22. ASSUME OnConnect PROVE TypeOK' /\ TopicsInv'
  <2>1. FlagsOK'
    BY <1>22 DEF OnConnect, threads, TypeOK, FlagsOK
  <2>2. ImplOK'
    BY <1>22 DEF OnConnect, Subscriptions, TypeOK, ImplOK, pending
  <2>3. PositionsOK'
    BY <1>22, NotifyType DEF OnConnect, TypeOK, Callers, MainPCs, Starting
  <2>4. BusOK'
    <3>1. CASE UNCHANGED <<nextOnBus, lost>>
      BY <1>22, Frame, <3>1 DEF OnConnect
    <3>2. ASSUME NEW first \in nextOnBus..(Len(bus) + 1),
                 nextOnBus' = first /\ lost' = lost \cup nextOnBus..(first - 1)
          PROVE  BusOK'
      BY <1>22, <3>2 DEF OnConnect, TypeOK, BusOK
    <3> QED BY <1>22, <3>1, <3>2 DEF OnConnect
  <2>5. OtherOK'
    BY <1>22 DEF OnConnect, threads, TypeOK, OtherOK
  <2>6. RequestTopics'
    BY <1>22, NotifyTopics DEF OnConnect, TypeOK, TopicsInv, Callers, Requesting, callers
  <2>7. Subscribing'
    BY <1>22 DEF OnConnect, Subscriptions, TopicsInv, Subscribing
  <2>8. CallersOK' /\ NetOK' /\ BusTopics'
    BY <1>22, Frame DEF OnConnect, impl, pending, callers, threads, channel
  <2> QED BY <2>1, <2>2, <2>3, <2>4, <2>5, <2>6, <2>7, <2>8 DEF TypeOK, TopicsInv
<1>23. ASSUME OnSubscribe PROVE TypeOK' /\ TopicsInv'
  <2>1. FlagsOK'
    BY <1>23 DEF OnSubscribe, threads, TypeOK, FlagsOK
  <2>2. ImplOK'
    BY <1>23 DEF OnSubscribe, TypeOK, TopicsInv, ImplOK, pending
  <2>3. PositionsOK'
    BY <1>23, NotifyType DEF OnSubscribe, TypeOK, Callers, MainPCs, Starting
  <2>4. OtherOK'
    BY <1>23 DEF OnSubscribe, threads, TypeOK, OtherOK
  <2>5. RequestTopics'
    BY <1>23, NotifyTopics DEF OnSubscribe, TypeOK, TopicsInv, Callers, Requesting, callers
  <2>6. Subscribing'
    BY <1>23 DEF OnSubscribe, TypeOK, ImplOK, TopicsInv, Subscribing
  <2>7. CallersOK' /\ NetOK' /\ BusOK' /\ BusTopics'
    BY <1>23, Frame DEF OnSubscribe, impl, pending, callers, threads, channel
  <2> QED BY <2>1, <2>2, <2>3, <2>4, <2>5, <2>6, <2>7 DEF TypeOK, TopicsInv
<1>24. ASSUME SignalShutdown PROVE TypeOK' /\ TopicsInv'
  <2>1. OtherOK'
    BY <1>24 DEF SignalShutdown, channel, TypeOK, OtherOK
  <2>2. FlagsOK' /\ ImplOK' /\ PositionsOK' /\ CallersOK' /\ NetOK' /\ BusOK' /\ RequestTopics' /\ BusTopics' /\ Subscribing'
    BY <1>24, Frame DEF SignalShutdown, impl, pending, callers, threads, channel
  <2> QED BY <2>1, <2>2 DEF TypeOK, TopicsInv
<1>25. ASSUME SignalTransport PROVE TypeOK' /\ TopicsInv'
  <2>1. FlagsOK'
    BY <1>25 DEF SignalTransport, TypeOK, FlagsOK
  <2>2. OtherOK'
    BY <1>25 DEF SignalTransport, channel, TypeOK, OtherOK
  <2>3. ImplOK' /\ PositionsOK' /\ CallersOK' /\ NetOK' /\ BusOK' /\ RequestTopics' /\ BusTopics' /\ Subscribing'
    BY <1>25, Frame DEF SignalTransport, impl, pending, callers, threads, channel
  <2> QED BY <2>1, <2>2, <2>3 DEF TypeOK, TopicsInv
<1>26. ASSUME StopLoop PROVE TypeOK' /\ TopicsInv'
  <2>1. FlagsOK'
    BY <1>26 DEF StopLoop, impl, TypeOK, FlagsOK
  <2>2. OtherOK'
    BY <1>26 DEF StopLoop, TypeOK, OtherOK
  <2>3. Subscribing'
    BY <1>26 DEF StopLoop, TopicsInv, Subscribing
  <2>4. ImplOK' /\ PositionsOK' /\ CallersOK' /\ NetOK' /\ BusOK' /\ RequestTopics' /\ BusTopics'
    BY <1>26, Frame DEF StopLoop, impl, pending, callers, threads, channel
  <2> QED BY <2>1, <2>2, <2>3, <2>4 DEF TypeOK, TopicsInv
<1>27. ASSUME NotifyAll PROVE TypeOK' /\ TopicsInv'
  <2>1. FlagsOK'
    BY <1>27 DEF NotifyAll, TypeOK, FlagsOK
  <2>2. PositionsOK'
    BY <1>27 DEF NotifyAll, TypeOK, PositionsOK, MainPCs, PoolPCs, Starting, Requesting, Callers
  <2>3. OtherOK'
    BY <1>27 DEF NotifyAll, channel, TypeOK, OtherOK
  <2>4. RequestTopics'
    BY <1>27 DEF NotifyAll, TypeOK, TopicsInv, RequestTopics, PositionsOK, Requesting, callers
  <2>5. ImplOK' /\ CallersOK' /\ NetOK' /\ BusOK' /\ BusTopics' /\ Subscribing'
    BY <1>27, Frame DEF NotifyAll, impl, pending, callers, threads, channel
  <2> QED BY <2>1, <2>2, <2>3, <2>4, <2>5 DEF TypeOK, TopicsInv
<1>28. ASSUME NEW g \in BOOLEAN, OthersPublish(g) PROVE TypeOK' /\ TopicsInv'
  <2>1. NetOK' /\ BusOK' /\ BusTopics'
    <3> DEFINE m == [reply |-> 0, own |-> FALSE, garbage |-> g]
    <3>1. m \in Messages /\ ~m.own
      BY <1>28 DEF Messages
    <3> QED BY <1>28, <3>1, PublishType DEF OthersPublish, threads
  <2>2. FlagsOK' /\ ImplOK' /\ PositionsOK' /\ CallersOK' /\ OtherOK' /\ RequestTopics' /\ Subscribing'
    BY <1>28, Frame DEF OthersPublish, impl, pending, callers, threads, channel
  <2> QED BY <2>1, <2>2 DEF TypeOK, TopicsInv
<1>29. ASSUME NEW i \in 1..Len(bus), NEW p \in Payloads, OthersReply(i, p) PROVE TypeOK' /\ TopicsInv'
  <2>1. BusOK'
    <3>1. bus[i].reply \in Topics
      <4>1. bus[i] \in Messages
        BY DEF TypeOK, BusOK
      <4>2. bus[i].reply \in Topics \cup {0}
        BY <4>1 DEF Messages
      <4> QED BY <1>29, <4>2 DEF OthersReply
    <3>2. [to |-> bus[i].reply, payload |-> p] \in Replies
      BY <3>1, ReplyType
    <3> QED BY <1>29, <3>1, <3>2 DEF OthersReply, TypeOK, BusOK
  <2>2. FlagsOK' /\ ImplOK' /\ PositionsOK' /\ CallersOK' /\ NetOK' /\ OtherOK' /\ RequestTopics' /\ BusTopics' /\ Subscribing'
    BY <1>29, Frame DEF OthersReply, impl, pending, callers, threads, channel
  <2> QED BY <2>1, <2>2 DEF TypeOK, TopicsInv
<1>30. ASSUME Drop PROVE TypeOK' /\ TopicsInv'
  <2>1. BusOK'
    BY <1>30 DEF Drop, TypeOK, BusOK
  <2>2. OtherOK'
    BY <1>30 DEF Drop, threads, TypeOK, OtherOK
  <2>3. Subscribing'
    BY <1>30 DEF Drop, TopicsInv, Subscribing
  <2>4. FlagsOK' /\ ImplOK' /\ PositionsOK' /\ CallersOK' /\ NetOK' /\ RequestTopics' /\ BusTopics'
    BY <1>30, Frame DEF Drop, impl, pending, callers, threads, channel
  <2> QED BY <2>1, <2>2, <2>3, <2>4 DEF TypeOK, TopicsInv
<1>31. ASSUME UNCHANGED vars PROVE TypeOK' /\ TopicsInv'
  BY <1>31, Frame DEF TypeOK, TopicsInv, vars, impl, pending, callers, threads, channel
<1> QED BY <1>1, <1>2, <1>3, <1>4, <1>5, <1>6, <1>7, <1>8, <1>9, <1>10, <1>11, <1>12, <1>13,
   <1>14, <1>15, <1>16, <1>17, <1>18, <1>19, <1>20, <1>21, <1>22, <1>23, <1>24, <1>25, <1>26,
   <1>27, <1>28, <1>29, <1>30, <1>31 DEF Next, RequestStep, LoopStep, Network, Deliver,
   Shutdown, External

(* Every variable keeps its type, whatever the pool of threads, the number *)
(* of requests and messages, the losses and the duplicates.                *)
THEOREM TypeCorrect == Spec => []TypeOK
<1>1. Init => TypeOK /\ TopicsInv
  BY InitType
<1>2. (TypeOK /\ TopicsInv) /\ [Next]_vars => (TypeOK /\ TopicsInv)'
  BY TypeStep
<1> QED BY <1>1, <1>2, PTL DEF Spec

-----------------------------------------------------------------------------
(* A reply reaches the request it is for.  The network thread keeps a      *)
(* pointer to the MqttReply between its two looks at pending_replies; the  *)
(* topic it looks up again has not been given to another request since.    *)
Asked == \A c \in Callers : pc[c] \in Requesting => topic[c] \in 1..reply_seq

\* The pointer on_message keeps is that of the caller still registered.
Hint ==
    net.at = "reply" =>
        /\ net.msg.to \in 1..reply_seq
        /\ pending_replies[net.msg.to] \in {net.hint, Nobody}

ReplyInv == RegisteredWhileWaiting /\ Asked /\ Hint /\ OwnReply

\* No request begins or ends.
SameRequests == \A c \in Callers : pc'[c] \in Requesting <=> pc[c] \in Requesting

(* A step of one caller that neither begins nor ends a request.            *)
LEMMA GotoSame ==
  ASSUME PositionsOK, NEW c \in Callers, NEW here, NEW there, Goto(c, here, there),
         here \in Requesting <=> there \in Requesting
  PROVE  SameRequests
BY DEF PositionsOK, Goto, SameRequests

(* A notification neither begins nor ends one.                             *)
LEMMA NotifySame ==
  ASSUME PositionsOK, NEW c \in Callers, NEW waiting, NEW woken,
         Notify(c, waiting, woken) \/ UNCHANGED pc,
         waiting \in Requesting <=> woken \in Requesting
  PROVE  SameRequests
BY DEF PositionsOK, Notify, SameRequests

(* Other steps keep the invariant.                                         *)
LEMMA ReplyFrame ==
  ASSUME TypeOK, ReplyInv, SameRequests,
         UNCHANGED <<reply_seq, pending_replies, topic, replyMsg>>,
         net' = net \/ net'.at # "reply"
  PROVE  ReplyInv'
<1>1. RegisteredWhileWaiting'
  BY DEF ReplyInv, RegisteredWhileWaiting, SameRequests
<1>2. Asked'
  BY DEF ReplyInv, Asked, SameRequests
<1>3. Hint'
  BY DEF ReplyInv, Hint
<1>4. OwnReply'
  BY DEF ReplyInv, OwnReply, SameRequests
<1> QED BY <1>1, <1>2, <1>3, <1>4 DEF ReplyInv

(* A new request takes a topic that nobody has had.                        *)
LEMMA RegisterReplyInv ==
  ASSUME TypeOK, ReplyInv, NEW c \in Callers, Register(c)
  PROVE  ReplyInv'
<1> USE BoundsAssumption, ThreadsAssumption
    DEF BoundsAssumption, ThreadsAssumption, Topics, NextSeq
<1>1. /\ reply_seq + 1 \in Topics /\ reply_seq \in Nat
      /\ reply_seq' = reply_seq + 1
      /\ pending_replies' = [pending_replies EXCEPT ![reply_seq + 1] = c]
      /\ topic' = [topic EXCEPT ![c] = reply_seq + 1]
      /\ replyMsg' = [replyMsg EXCEPT ![c] = NoReply]
      /\ net' = net
  BY DEF Register, threads, TypeOK, ImplOK
<1>2. pc[c] \notin Requesting /\ pc' = [pc EXCEPT ![c] = "publish"]
  BY DEF Register, Goto, Requesting
<1>3. /\ pending_replies \in [Topics -> Callers \cup {Nobody}]
      /\ topic \in [Callers -> Topics \cup {0}]
      /\ replyMsg \in [Callers -> Replies \cup {NoReply}]
      /\ pc \in [Callers -> MainPCs \cup PoolPCs]
  BY DEF TypeOK, ImplOK, PositionsOK, CallersOK
<1>4. "publish" \in Requesting
  BY DEF Requesting
<1>5. pending_replies[reply_seq + 1] \notin Callers
  BY <1>1, <1>3 DEF ReplyInv, RegisteredWhileWaiting, Asked
<1>6. RegisteredWhileWaiting'
  BY <1>1, <1>2, <1>3, <1>4, <1>5 DEF ReplyInv, RegisteredWhileWaiting, Asked
<1>7. Asked'
  BY <1>1, <1>2, <1>3 DEF ReplyInv, Asked
<1>8. Hint'
  BY <1>1, <1>3 DEF ReplyInv, Hint
<1>9. OwnReply'
  BY <1>1, <1>2, <1>3 DEF ReplyInv, OwnReply
<1> QED BY <1>6, <1>7, <1>8, <1>9 DEF ReplyInv

(* A request that ends gives its topic back.                               *)
LEMMA UnregisterReplyInv ==
  ASSUME TypeOK, ReplyInv, NEW c \in Callers, Unregister(c)
  PROVE  ReplyInv'
<1> USE ThreadsAssumption DEF ThreadsAssumption
<1>1. /\ UNCHANGED <<reply_seq, net>>
      /\ pending_replies' = [pending_replies EXCEPT ![topic[c]] = Nobody]
      /\ topic' = [topic EXCEPT ![c] = 0]
      /\ replyMsg' = [replyMsg EXCEPT ![c] = NoReply]
      /\ pc[c] \in Requesting /\ pc' = [pc EXCEPT ![c] = Home(c)]
      /\ Home(c) \notin Requesting
  BY DEF Unregister, threads, Goto, Home, Requesting
<1>2. /\ pending_replies \in [Topics -> Callers \cup {Nobody}]
      /\ topic \in [Callers -> Topics \cup {0}]
      /\ replyMsg \in [Callers -> Replies \cup {NoReply}]
      /\ pc \in [Callers -> MainPCs \cup PoolPCs]
      /\ reply_seq \in Topics \cup {0}
  BY DEF TypeOK, ImplOK, PositionsOK, CallersOK
<1>3. topic[c] \in Topics /\ pending_replies[topic[c]] = c
  BY <1>1, <1>2, BoundsAssumption DEF BoundsAssumption, Topics, ReplyInv, Asked,
     RegisteredWhileWaiting
<1>4. RegisteredWhileWaiting'
  BY <1>1, <1>2, <1>3 DEF ReplyInv, RegisteredWhileWaiting
<1>5. Asked'
  BY <1>1, <1>2 DEF ReplyInv, Asked
<1>6. Hint'
  BY <1>1, <1>2, <1>3 DEF ReplyInv, Hint
<1>7. OwnReply'
  BY <1>1, <1>2 DEF ReplyInv, OwnReply
<1> QED BY <1>4, <1>5, <1>6, <1>7 DEF ReplyInv

(* Delivery: the caller that is still registered is the one of the hint.   *)
LEMMA DeliverReplyInv ==
  ASSUME TypeOK, ReplyInv, DeliverReply
  PROVE  ReplyInv'
<1> USE ThreadsAssumption DEF ThreadsAssumption
<1>1. net.at = "reply" /\ net'.at # "reply" /\ UNCHANGED <<pending, topic>>
  BY DEF DeliverReply, Idle
<1>2. net.msg \in Replies /\ net.hint \in Callers
  BY <1>1, DeliveryType
<1>3. SameRequests
  BY <1>2, NotifySame DEF DeliverReply, TypeOK, Requesting
<1>4. CASE UNCHANGED replyMsg
  BY <1>1, <1>3, <1>4, ReplyFrame DEF pending
<1>5. CASE /\ StillPending(net.msg.to)
           /\ replyMsg' = [replyMsg EXCEPT ![net.hint] = net.msg]
  <2>1. net.msg.to \in Topics
    BY <1>2 DEF Replies
  <2>2. pending_replies[net.msg.to] = net.hint
    BY <1>1, <1>5 DEF StillPending, ReplyInv, Hint
  <2>3. pc[net.hint] \in Requesting /\ topic[net.hint] = net.msg.to
    BY <1>2, <2>1, <2>2 DEF ReplyInv, RegisteredWhileWaiting
  <2>4. replyMsg \in [Callers -> Replies \cup {NoReply}]
    BY DEF TypeOK, CallersOK
  <2>5. OwnReply'
    BY <1>1, <1>2, <1>3, <1>5, <2>3, <2>4 DEF ReplyInv, OwnReply, SameRequests
  <2>6. RegisteredWhileWaiting'
    BY <1>1, <1>3 DEF ReplyInv, RegisteredWhileWaiting, SameRequests, pending
  <2>7. Asked'
    BY <1>1, <1>3 DEF ReplyInv, Asked, SameRequests, pending
  <2>8. Hint'
    BY <1>1 DEF Hint
  <2> QED BY <2>5, <2>6, <2>7, <2>8 DEF ReplyInv
<1> QED BY <1>4, <1>5 DEF DeliverReply

(* Reception: the hint is the caller registered now.                       *)
LEMMA ReceiveReplyInv ==
  ASSUME TypeOK, ReplyInv, NEW r \in replies, ReceiveReply(r)
  PROVE  ReplyInv'
<1>1. UNCHANGED <<pending, pc, topic, replyMsg>>
  BY DEF ReceiveReply, callers
<1>2. SameRequests
  BY <1>1 DEF SameRequests
<1>3. RegisteredWhileWaiting' /\ Asked' /\ OwnReply'
  BY <1>1 DEF ReplyInv, RegisteredWhileWaiting, Asked, OwnReply, pending
<1>4. Hint'
  <2>1. r \in Replies /\ r.to \in Topics
    BY DEF TypeOK, BusOK, Replies
  <2>2. CASE net'.at # "reply"
    BY <2>2 DEF Hint
  <2>3. CASE net' = [at |-> "reply", msg |-> r, hint |-> pending_replies[r.to]]
             /\ pending_replies[r.to] # Nobody
    <3>1. pending_replies[r.to] \in Callers
      BY <2>1, <2>3 DEF TypeOK, ImplOK
    <3>2. r.to \in 1..reply_seq
      BY <2>1, <3>1 DEF ReplyInv, RegisteredWhileWaiting, Asked
    <3>3. net'.msg = r /\ net'.hint = pending_replies[r.to]
      BY <2>3
    <3> QED BY <1>1, <3>2, <3>3 DEF Hint, pending
  <2> QED BY <2>2, <2>3 DEF ReceiveReply, Idle
<1> QED BY <1>3, <1>4 DEF ReplyInv

\* Nobody asks at the start.
LEMMA ReplyInit == Init => ReplyInv
BY ThreadsAssumption DEF ThreadsAssumption, Init, ReplyInv, RegisteredWhileWaiting, Asked, Hint,
   OwnReply, Requesting, Idle

\* Four actions have lemmas of their own; ReplyFrame does the others.
LEMMA ReplyStep == TypeOK /\ ReplyInv /\ [Next]_vars => ReplyInv'
<1> SUFFICES ASSUME TypeOK, ReplyInv, [Next]_vars PROVE ReplyInv' OBVIOUS
<1> USE DEF pending, callers, threads
<1>1. PositionsOK /\ Main \in Callers
  BY DEF TypeOK, Callers
<1>2. ASSUME NEW c \in Callers, PublishRequest(c) PROVE ReplyInv'
  <2>1. SameRequests
    BY <1>2, <1>1, GotoSame DEF PublishRequest, Requesting
  <2> QED BY <1>2, <2>1, ReplyFrame DEF PublishRequest
<1>3. ASSUME NEW c \in Callers, Wait(c) PROVE ReplyInv'
  <2>1. SameRequests
    BY <1>3, <1>1, GotoSame DEF Wait, Requesting
  <2> QED BY <1>3, <2>1, ReplyFrame DEF Wait
<1>4. ASSUME NEW c \in Callers, WaitTimeout(c) PROVE ReplyInv'
  <2>1. SameRequests
    BY <1>4, <1>1, GotoSame DEF WaitTimeout, Requesting
  <2> QED BY <1>4, <2>1, ReplyFrame DEF WaitTimeout
<1>5. ASSUME NEW c \in Callers, SpuriousWakeup(c) PROVE ReplyInv'
  <2>1. SameRequests
    BY <1>5, <1>1, GotoSame DEF SpuriousWakeup, Requesting
  <2> QED BY <1>5, <2>1, ReplyFrame DEF SpuriousWakeup
<1>6. ASSUME NEW c \in Callers, Inspect(c) PROVE ReplyInv'
  <2>1. SameRequests
    BY <1>6, <1>1 DEF Inspect, Requesting, SameRequests, PositionsOK
  <2> QED BY <1>6, <2>1, ReplyFrame DEF Inspect
<1>7. ASSUME Connect PROVE ReplyInv'
  <2>1. SameRequests
    BY <1>7, <1>1, GotoSame DEF Connect, Requesting
  <2> QED BY <1>7, <2>1, ReplyFrame DEF Connect
<1>8. ASSUME StartLoop PROVE ReplyInv'
  <2>1. SameRequests
    BY <1>8, <1>1, GotoSame DEF StartLoop, Requesting
  <2> QED BY <1>8, <2>1, ReplyFrame DEF StartLoop
<1>9. ASSUME CheckConnected PROVE ReplyInv'
  <2>1. SameRequests
    BY <1>9, <1>1, GotoSame DEF CheckConnected, Requesting
  <2> QED BY <1>9, <2>1, ReplyFrame DEF CheckConnected
<1>10. ASSUME StartTimeout PROVE ReplyInv'
  <2>1. SameRequests
    BY <1>10, <1>1, GotoSame DEF StartTimeout, Requesting
  <2> QED BY <1>10, <2>1, ReplyFrame DEF StartTimeout
<1>11. ASSUME Loop PROVE ReplyInv'
  <2>1. SameRequests
    BY <1>11, <1>1, GotoSame DEF Loop, Requesting
  <2> QED BY <1>11, <2>1, ReplyFrame DEF Loop
<1>12. ASSUME Fetch PROVE ReplyInv'
  <2>1. SameRequests
    BY <1>12, <1>1, GotoSame DEF Fetch, Pop, Requesting
  <2> QED BY <1>12, <2>1, ReplyFrame DEF Fetch, Pop
<1>13. ASSUME FetchTimeout PROVE ReplyInv'
  <2>1. SameRequests
    BY <1>13, <1>1, GotoSame DEF FetchTimeout, Requesting
  <2> QED BY <1>13, <2>1, ReplyFrame DEF FetchTimeout
<1>14. ASSUME FetchWoken PROVE ReplyInv'
  <2>1. SameRequests
    BY <1>14, <1>1, GotoSame DEF FetchWoken, Pop, Requesting
  <2> QED BY <1>14, <2>1, ReplyFrame DEF FetchWoken, Pop
<1>15. ASSUME Dispatch PROVE ReplyInv'
  <2>1. SameRequests
    BY <1>15, <1>1, GotoSame DEF Dispatch, Requesting
  <2> QED BY <1>15, <2>1, ReplyFrame DEF Dispatch
<1>16. ASSUME Handle PROVE ReplyInv'
  <2>1. SameRequests
    BY <1>16, <1>1, GotoSame DEF Handle, Requesting
  <2> QED BY <1>16, <2>1, ReplyFrame DEF Handle
<1>17. ASSUME DeliverMessage PROVE ReplyInv'
  <2>1. SameRequests
    BY <1>17, <1>1, NotifySame DEF DeliverMessage, Enqueue, Requesting
  <2> QED BY <1>17, <2>1, ReplyFrame DEF DeliverMessage, Idle
<1>18. ASSUME OnConnect PROVE ReplyInv'
  <2>1. SameRequests
    BY <1>18, <1>1, NotifySame DEF OnConnect, Requesting
  <2> QED BY <1>18, <2>1, ReplyFrame DEF OnConnect, Idle
<1>19. ASSUME OnSubscribe PROVE ReplyInv'
  <2>1. SameRequests
    BY <1>19, <1>1, NotifySame DEF OnSubscribe, Requesting
  <2> QED BY <1>19, <2>1, ReplyFrame DEF OnSubscribe, Idle
<1>20. ASSUME NotifyAll PROVE ReplyInv'
  <2>1. SameRequests
    BY <1>20, <1>1 DEF NotifyAll, SameRequests, PositionsOK, Requesting
  <2> QED BY <1>20, <2>1, ReplyFrame DEF NotifyAll
<1>21. ASSUME UNCHANGED <<pc, pending, topic, replyMsg>>, net' = net \/ net'.at # "reply" PROVE ReplyInv'
  BY <1>21, ReplyFrame DEF SameRequests
<1>22. ASSUME ReceiveMessage PROVE ReplyInv'
  BY <1>22, <1>21 DEF ReceiveMessage
<1>23. ASSUME SignalShutdown PROVE ReplyInv'
  BY <1>23, <1>21 DEF SignalShutdown
<1>24. ASSUME SignalTransport PROVE ReplyInv'
  BY <1>24, <1>21 DEF SignalTransport
<1>25. ASSUME StopLoop PROVE ReplyInv'
  BY <1>25, <1>21 DEF StopLoop
<1>26. ASSUME NEW g \in BOOLEAN, OthersPublish(g) PROVE ReplyInv'
  BY <1>26, <1>21 DEF OthersPublish
<1>27. ASSUME NEW i \in 1..Len(bus), NEW p \in Payloads, OthersReply(i, p) PROVE ReplyInv'
  BY <1>27, <1>21 DEF OthersReply
<1>28. ASSUME Drop PROVE ReplyInv'
  BY <1>28, <1>21 DEF Drop
<1>29. ASSUME UNCHANGED vars PROVE ReplyInv'
  BY <1>29, <1>21 DEF vars
<1> QED BY RegisterReplyInv, UnregisterReplyInv, DeliverReplyInv, ReceiveReplyInv, <1>2, <1>3,
   <1>4, <1>5, <1>6, <1>7, <1>8, <1>9, <1>10, <1>11, <1>12, <1>13, <1>14, <1>15, <1>16, <1>17,
   <1>18, <1>19, <1>20, <1>21, <1>22, <1>23, <1>24, <1>25, <1>26, <1>27, <1>28, <1>29 DEF Next,
   RequestStep, LoopStep, Network, Deliver, Shutdown, External

\* The inductive invariant of the two theorems that follow.
LEMMA ReplyCorrect == Spec => []ReplyInv
<1>1. Init => ReplyInv
  BY ReplyInit
<1>2. TypeOK /\ ReplyInv /\ [Next]_vars => ReplyInv'
  BY ReplyStep
<1> QED BY <1>1, <1>2, TypeCorrect, PTL DEF Spec

(* A caller is registered under its topic exactly while its request lasts. *)
THEOREM RegisteredWhileWaitingCorrect == Spec => []RegisteredWhileWaiting
<1>1. ReplyInv => RegisteredWhileWaiting
  BY DEF ReplyInv
<1> QED BY <1>1, ReplyCorrect, PTL

(* A reply is written only into the MqttReply that waits for it.           *)
THEOREM OwnReplyCorrect == Spec => []OwnReply
<1>1. ReplyInv => OwnReply
  BY DEF ReplyInv
<1> QED BY <1>1, ReplyCorrect, PTL

-----------------------------------------------------------------------------
(* sendRequest keeps its promise: every reply under way is for a topic     *)
(* that was asked and that somebody has replied to.                        *)
Asking ==
    /\ served \subseteq 1..reply_seq
    /\ \A i \in 1..Len(bus) : bus[i].reply \in 0..reply_seq
    /\ current.replyFuction \in 0..reply_seq

\* A reply under way, in delivery or delivered was sent by somebody.
Replied ==
    /\ \A r \in replies : r.to \in served
    /\ net.at = "reply" => net.msg.to \in served
    /\ \A c \in Callers : replyMsg[c] # NoReply => replyMsg[c].to \in served

ServedInv == Asking /\ Replied

(* Topics asked for stay so, unless a step asks or publishes.              *)
LEMMA AskingFrame ==
  ASSUME TypeOK, Asking, reply_seq' \in Nat, reply_seq' >= reply_seq,
         UNCHANGED <<bus, current>>, served' \subseteq 1..reply_seq'
  PROVE  Asking'
<1>1. reply_seq \in Nat
  BY BoundsAssumption DEF BoundsAssumption, TypeOK, ImplOK, Topics
<1> QED BY <1>1 DEF Asking

(* A published message asks for nothing, or on a topic already registered. *)
LEMMA AskingPublish ==
  ASSUME TypeOK, Asking, NEW m \in Messages, m.reply \in 0..reply_seq,
         bus' = Append(bus, m), UNCHANGED <<reply_seq, current, served>>
  PROVE  Asking'
<1>1. /\ Len(bus') = Len(bus) + 1 /\ Len(bus) \in Nat
      /\ \A i \in 1..Len(bus) : bus'[i] = bus[i]
      /\ bus'[Len(bus) + 1] = m
  BY LongerBus DEF TypeOK, BusOK
<1> QED BY <1>1 DEF Asking

\* Nothing is on the bus at the start.
LEMMA ServedInit == Init => ServedInv
BY DEF Init, ServedInv, Asking, Replied, Idle, Nothing

\* One case per action.
LEMMA ServedStep == TypeOK /\ TopicsInv /\ ReplyInv /\ ServedInv /\ [Next]_vars => ServedInv'
<1> SUFFICES ASSUME TypeOK, TopicsInv, ReplyInv, ServedInv, [Next]_vars PROVE ServedInv' OBVIOUS
<1> USE DEF pending, callers, threads
<1>1. /\ Asking /\ Replied /\ reply_seq \in Nat /\ Main \in Callers
      /\ replyMsg \in [Callers -> Replies \cup {NoReply}]
      /\ served \subseteq 1..reply_seq
  BY BoundsAssumption DEF BoundsAssumption, ServedInv, Asking, TypeOK, ImplOK, CallersOK, Topics,
     Callers
<1>2. ASSUME UNCHANGED <<reply_seq, bus, current, served>> PROVE Asking'
  BY <1>1, <1>2, AskingFrame
<1>3. ASSUME UNCHANGED <<served, replies, replyMsg>>, net' = net \/ net'.at # "reply" PROVE Replied'
  BY <1>1, <1>3 DEF Replied
<1>4. ASSUME UNCHANGED <<reply_seq, bus, current, served, replies, replyMsg>>,
             net' = net \/ net'.at # "reply"
      PROVE  ServedInv'
  BY <1>2, <1>3, <1>4 DEF ServedInv
<1>5. ASSUME NEW c \in Callers, Register(c) PROVE ServedInv'
  <2>1. Asking'
    BY <1>1, <1>5, AskingFrame DEF Register, NextSeq, channel
  <2>2. Replied'
    BY <1>1, <1>5 DEF Register, channel, Replied
  <2> QED BY <2>1, <2>2 DEF ServedInv
<1>6. ASSUME NEW c \in Callers, PublishRequest(c) PROVE ServedInv'
  <2>1. Asking'
    <3>1. CASE UNCHANGED bus
      BY <1>2, <1>6, <3>1 DEF PublishRequest
    <3>2. ASSUME NEW own \in BOOLEAN,
                 bus' = Append(bus, [reply |-> topic[c], own |-> own, garbage |-> FALSE])
          PROVE  Asking'
      <4> DEFINE m == [reply |-> topic[c], own |-> own, garbage |-> FALSE]
      <4>1. topic[c] \in 1..reply_seq /\ topic[c] \in Topics
        BY <1>6 DEF PublishRequest, Goto, ReplyInv, Asked, Requesting, TopicsInv, RequestTopics
      <4>2. m \in Messages /\ m.reply \in 0..reply_seq
        BY <1>1, <4>1 DEF Messages
      <4> QED BY <1>1, <1>6, <3>2, <4>2, AskingPublish DEF PublishRequest
    <3> QED BY <1>6, <3>1, <3>2 DEF PublishRequest
  <2>2. Replied'
    BY <1>3, <1>6 DEF PublishRequest
  <2> QED BY <2>1, <2>2 DEF ServedInv
<1>7. ASSUME NEW c \in Callers, Unregister(c) PROVE ServedInv'
  <2>1. Asking'
    BY <1>2, <1>7 DEF Unregister, channel
  <2>2. Replied'
    BY <1>1, <1>7 DEF Unregister, channel, Replied
  <2> QED BY <2>1, <2>2 DEF ServedInv
<1>8. ASSUME NEW here, Pop(here), UNCHANGED <<pending, callers, threads, channel>> PROVE ServedInv'
  <2>1. Asking'
    <3>1. Head(queue) \in 1..Len(bus)
      BY <1>8, HeadType DEF Pop, TypeOK
    <3> QED BY <1>1, <1>8, <3>1 DEF Pop, FetchedMessage, Asking, channel
  <2>2. Replied'
    BY <1>3, <1>8 DEF channel
  <2> QED BY <2>1, <2>2 DEF ServedInv
<1>9. ASSUME Fetch PROVE ServedInv'
  BY <1>4, <1>8, <1>9 DEF Fetch, channel
<1>10. ASSUME FetchWoken PROVE ServedInv'
  BY <1>4, <1>8, <1>10 DEF FetchWoken, channel
<1>11. ASSUME Handle PROVE ServedInv'
  <2>1. CASE UNCHANGED <<replies, served>>
    BY <1>4, <1>11, <2>1 DEF Handle
  <2>2. CASE /\ current.message.own
             /\ replies' = replies \cup {[to |-> current.replyFuction, payload |-> "response"]}
             /\ served' = served \cup {current.replyFuction}
    <3>1. current.replyFuction \in 1..reply_seq
      BY <1>1, <2>2 DEF Asking, TopicsInv, BusTopics, Topics
    <3>2. Asking'
      BY <1>1, <1>11, <2>2, <3>1 DEF Handle, Asking
    <3>3. Replied'
      BY <1>1, <1>11, <2>2 DEF Handle, Replied
    <3> QED BY <3>2, <3>3 DEF ServedInv
  <2> QED BY <1>11, <2>1, <2>2 DEF Handle
<1>12. ASSUME NEW r \in replies, ReceiveReply(r) PROVE ServedInv'
  <2>1. Asking'
    BY <1>2, <1>12 DEF ReceiveReply
  <2>2. net'.at # "reply" \/ net'.msg = r
    BY <1>12 DEF ReceiveReply, Idle
  <2>3. Replied'
    BY <1>1, <1>12, <2>2 DEF ReceiveReply, Replied
  <2> QED BY <2>1, <2>3 DEF ServedInv
<1>13. ASSUME DeliverReply PROVE ServedInv'
  <2>1. Asking'
    BY <1>2, <1>13 DEF DeliverReply, channel
  <2>2. net'.at # "reply"
    BY <1>13 DEF DeliverReply, Idle
  <2>3. \A c \in Callers : replyMsg'[c] \in {replyMsg[c], net.msg}
    <3>1. CASE UNCHANGED replyMsg
      BY <3>1
    <3>2. CASE replyMsg' = [replyMsg EXCEPT ![net.hint] = net.msg]
      BY <1>1, <1>13, <3>2 DEF DeliverReply
    <3> QED BY <1>13, <3>1, <3>2 DEF DeliverReply
  <2>4. Replied'
    BY <1>1, <1>13, <2>2, <2>3 DEF DeliverReply, channel, Replied
  <2> QED BY <2>1, <2>4 DEF ServedInv
<1>14. ASSUME NEW g \in BOOLEAN, OthersPublish(g) PROVE ServedInv'
  <2> DEFINE m == [reply |-> 0, own |-> FALSE, garbage |-> g]
  <2>1. m \in Messages /\ m.reply \in 0..reply_seq
    BY <1>1 DEF Messages
  <2>2. Asking'
    BY <1>1, <1>14, <2>1, AskingPublish DEF OthersPublish
  <2>3. Replied'
    BY <1>3, <1>14 DEF OthersPublish
  <2> QED BY <2>2, <2>3 DEF ServedInv
<1>15. ASSUME NEW i \in 1..Len(bus), NEW p \in Payloads, OthersReply(i, p) PROVE ServedInv'
  <2>1. bus[i].reply \in 1..reply_seq
    <3>1. bus[i].reply \in 0..reply_seq /\ bus[i].reply # 0
      BY <1>1, <1>15 DEF Asking, OthersReply
    <3> QED BY <1>1, <3>1
  <2>2. Asking'
    BY <1>1, <1>15, <2>1 DEF OthersReply, Asking
  <2>3. Replied'
    BY <1>1, <1>15 DEF OthersReply, Replied
  <2> QED BY <2>2, <2>3 DEF ServedInv
<1>16. ASSUME Drop PROVE ServedInv'
  <2>1. Asking'
    BY <1>2, <1>16 DEF Drop
  <2>2. Replied'
    BY <1>1, <1>16 DEF Drop, Replied
  <2> QED BY <2>1, <2>2 DEF ServedInv
<1>17. ASSUME NEW c \in Callers, Wait(c) PROVE ServedInv'
  BY <1>17, <1>4 DEF Wait, channel
<1>18. ASSUME NEW c \in Callers, WaitTimeout(c) PROVE ServedInv'
  BY <1>18, <1>4 DEF WaitTimeout, channel
<1>19. ASSUME NEW c \in Callers, SpuriousWakeup(c) PROVE ServedInv'
  BY <1>19, <1>4 DEF SpuriousWakeup, channel
<1>20. ASSUME NEW c \in Callers, Inspect(c) PROVE ServedInv'
  BY <1>20, <1>4 DEF Inspect, channel
<1>21. ASSUME Connect PROVE ServedInv'
  BY <1>21, <1>4 DEF Connect, channel
<1>22. ASSUME StartLoop PROVE ServedInv'
  BY <1>22, <1>4 DEF StartLoop, channel
<1>23. ASSUME CheckConnected PROVE ServedInv'
  BY <1>23, <1>4 DEF CheckConnected, channel
<1>24. ASSUME StartTimeout PROVE ServedInv'
  BY <1>24, <1>4 DEF StartTimeout, channel
<1>25. ASSUME Loop PROVE ServedInv'
  BY <1>25, <1>4 DEF Loop, channel
<1>26. ASSUME FetchTimeout PROVE ServedInv'
  BY <1>26, <1>4 DEF FetchTimeout, channel
<1>27. ASSUME Dispatch PROVE ServedInv'
  BY <1>27, <1>4 DEF Dispatch, channel
<1>28. ASSUME ReceiveMessage PROVE ServedInv'
  BY <1>28, <1>4 DEF ReceiveMessage, channel
<1>29. ASSUME DeliverMessage PROVE ServedInv'
  BY <1>29, <1>4 DEF DeliverMessage, Idle, channel
<1>30. ASSUME OnConnect PROVE ServedInv'
  BY <1>30, <1>4 DEF OnConnect, channel
<1>31. ASSUME OnSubscribe PROVE ServedInv'
  BY <1>31, <1>4 DEF OnSubscribe, channel
<1>32. ASSUME SignalShutdown PROVE ServedInv'
  BY <1>32, <1>4 DEF SignalShutdown, channel
<1>33. ASSUME SignalTransport PROVE ServedInv'
  BY <1>33, <1>4 DEF SignalTransport, channel
<1>34. ASSUME StopLoop PROVE ServedInv'
  BY <1>34, <1>4 DEF StopLoop, channel
<1>35. ASSUME NotifyAll PROVE ServedInv'
  BY <1>35, <1>4 DEF NotifyAll, channel
<1>36. ASSUME UNCHANGED vars PROVE ServedInv'
  BY <1>36, <1>4 DEF vars, channel
<1> QED BY <1>5, <1>6, <1>7, <1>8, <1>9, <1>10, <1>11, <1>12, <1>13, <1>14, <1>15, <1>16, <1>17,
   <1>18, <1>19, <1>20, <1>21, <1>22, <1>23, <1>24, <1>25, <1>26, <1>27, <1>28, <1>29, <1>30,
   <1>31, <1>32, <1>33, <1>34, <1>35, <1>36 DEF Next, RequestStep, LoopStep, Network, Deliver,
   Shutdown, External

\* All the invariants the refinement needs.
LEMMA ServedCorrect == Spec => [](TypeOK /\ TopicsInv /\ ReplyInv /\ ServedInv)
<1>1. Init => TypeOK /\ TopicsInv /\ ReplyInv /\ ServedInv
  BY InitType, ReplyInit, ServedInit
<1>2. (TypeOK /\ TopicsInv /\ ReplyInv /\ ServedInv) /\ [Next]_vars
        => (TypeOK /\ TopicsInv /\ ReplyInv /\ ServedInv)'
  BY TypeStep, ReplyStep, ServedStep
<1> QED BY <1>1, <1>2, PTL DEF Spec

(* The refinement: a request is open until its outcome is known.           *)
Open == [c \in Callers |-> IF pc[c] \in Requesting \ {"return"} THEN topic[c] ELSE 0]

\* No request opens or ends in the sense of BusRequests.
SameOpen == \A c \in Callers :
    pc'[c] \in Requesting \ {"return"} <=> pc[c] \in Requesting \ {"return"}

\* A caller that moves inside or outside a request keeps its open request.
LEMMA GotoSameOpen ==
  ASSUME PositionsOK, NEW c \in Callers, NEW here, NEW there, Goto(c, here, there),
         here \in Requesting \ {"return"} <=> there \in Requesting \ {"return"}
  PROVE  SameOpen
BY DEF PositionsOK, Goto, SameOpen

\* So does one that is notified.
LEMMA NotifySameOpen ==
  ASSUME PositionsOK, NEW c \in Callers, NEW waiting, NEW woken,
         Notify(c, waiting, woken) \/ UNCHANGED pc,
         waiting \in Requesting \ {"return"} <=> woken \in Requesting \ {"return"}
  PROVE  SameOpen
BY DEF PositionsOK, Notify, SameOpen

\* Then the refinement mapping is unchanged.
LEMMA OpenFrame ==
  ASSUME SameOpen, UNCHANGED topic
  PROVE  Open' = Open
BY DEF SameOpen, Open

\* Initial states map to initial states.
LEMMA RefinementInit == Init => Abstract!Init
BY DEF Init, Abstract!Init, Requesting

\* Every step maps to a step of BusRequests or to a stutter.
LEMMA RefinementStep ==
  TypeOK /\ TopicsInv /\ ReplyInv /\ ServedInv /\ [Next]_vars => [Abstract!Next]_(Abstract!vars)
<1> SUFFICES ASSUME TypeOK, TopicsInv, ReplyInv, ServedInv, [Next]_vars
             PROVE  [Abstract!Next]_(Abstract!vars)
  OBVIOUS
<1> DEFINE Promise == Abstract!Next \/ UNCHANGED (Abstract!vars)
<1> USE DEF pending, callers, threads
<1>1. /\ PositionsOK /\ Main \in Callers
      /\ topic \in [Callers -> Topics \cup {0}]
      /\ outcome \in [Callers -> {"none", "reply", "internal", "timeout", "shutdown"}]
      /\ pc \in [Callers -> MainPCs \cup PoolPCs]
      /\ reply_seq \in Nat /\ served \subseteq 1..reply_seq
  BY BoundsAssumption DEF BoundsAssumption, TypeOK, ImplOK, PositionsOK, CallersOK, Callers, Topics,
     ServedInv, Asking
<1>2. ASSUME Open' = Open, UNCHANGED <<reply_seq, served, outcome, shutdownSignaled>> PROVE Promise
  BY <1>2 DEF Abstract!vars, Open
<1>3. ASSUME SameOpen, UNCHANGED <<topic, reply_seq, served, outcome, shutdownSignaled>> PROVE Promise
  BY <1>2, <1>3, OpenFrame
<1>4. ASSUME NEW c \in Callers, Register(c) PROVE Promise
  <2>1. /\ pc[c] \notin Requesting /\ pc' = [pc EXCEPT ![c] = "publish"]
        /\ topic' = [topic EXCEPT ![c] = reply_seq + 1]
        /\ reply_seq' = reply_seq + 1 /\ reply_seq < MaxRequests
        /\ UNCHANGED <<served, outcome, shutdownSignaled>>
    BY <1>1, <1>4, BoundsAssumption
       DEF BoundsAssumption, Register, NextSeq, Topics, Goto, Requesting, impl, channel
  <2>2. Open[c] = 0 /\ Open' = [Open EXCEPT ![c] = reply_seq + 1]
    BY <1>1, <2>1 DEF Open, Requesting
  <2>3. Abstract!Ask(c)
    BY <2>1, <2>2 DEF Abstract!Ask, Open
  <2> QED BY <2>3 DEF Abstract!Next
<1>5. ASSUME NEW c \in Callers, Inspect(c) PROVE Promise
  <2>1. /\ pc[c] \in Requesting \ {"return"} /\ pc' = [pc EXCEPT ![c] = "return"]
        /\ UNCHANGED <<topic, reply_seq, served, shutdownSignaled>>
    BY <1>5 DEF Inspect, Requesting, impl, channel
  <2>2. topic[c] \in 1..reply_seq
    BY <2>1 DEF ReplyInv, Asked
  <2>3. Open[c] = topic[c] /\ Open' = [Open EXCEPT ![c] = 0]
    BY <1>1, <2>1 DEF Open
  <2>4. PICK o \in Outcomes(c) : outcome' = [outcome EXCEPT ![c] = o]
    BY <1>5 DEF Inspect
  <2>5. \/ o \in {"timeout", "internal"}
        \/ o = "shutdown" /\ shutdownSignaled
        \/ o = "reply" /\ topic[c] \in served
    <3>1. replyMsg[c].payload = "response" => replyMsg[c] # NoReply
      BY DEF NoReply
    <3>2. replyMsg[c] # NoReply => topic[c] \in served
      BY DEF ReplyInv, OwnReply, ServedInv, Replied
    <3> QED BY <3>1, <3>2 DEF Outcomes
  <2>6. Abstract!End(c)
    <3>1. Open[c] # 0 /\ (Open[c] \in served <=> topic[c] \in served)
      BY <1>1, <2>2, <2>3
    <3>2. o \in Abstract!Endings(c)
      BY <2>5, <3>1 DEF Abstract!Endings, Open
    <3>3. \E ending \in Abstract!Endings(c) : outcome' = [outcome EXCEPT ![c] = ending]
      BY <2>4, <3>2
    <3> QED BY <2>1, <2>3, <3>1, <3>3 DEF Abstract!End, Open
  <2> QED BY <2>6 DEF Abstract!Next
<1>6. ASSUME NEW c \in Callers, Unregister(c) PROVE Promise
  <2>1. /\ pc[c] = "return" /\ pc' = [pc EXCEPT ![c] = Home(c)]
        /\ Home(c) \notin Requesting /\ topic' = [topic EXCEPT ![c] = 0]
    BY <1>6 DEF Unregister, Goto, Home, Requesting
  <2>2. Open' = Open
    BY <1>1, <2>1 DEF Open
  <2> QED BY <1>2, <1>6, <2>2 DEF Unregister, impl, channel
<1>7. ASSUME Handle PROVE Promise
  <2>1. SameOpen
    BY <1>1, <1>7, GotoSameOpen DEF Handle, Requesting
  <2>2. CASE UNCHANGED served
    BY <1>3, <1>7, <2>1, <2>2 DEF Handle, impl
  <2>3. CASE current.message.own /\ served' = served \cup {current.replyFuction}
    <3>1. current.replyFuction \in 1..reply_seq
      BY <1>1, <2>3 DEF ServedInv, Asking, TopicsInv, BusTopics, Topics
    <3>2. Open' = Open
      BY <1>7, <2>1, OpenFrame DEF Handle
    <3>3. Abstract!Answer(current.replyFuction)
      BY <1>7, <2>3, <3>1, <3>2 DEF Abstract!Answer, Handle, impl, Open
    <3> QED BY <3>1, <3>3 DEF Abstract!Next
  <2> QED BY <1>7, <2>2, <2>3 DEF Handle
<1>8. ASSUME NEW i \in 1..Len(bus), NEW p \in Payloads, OthersReply(i, p) PROVE Promise
  <2>1. bus[i].reply \in 1..reply_seq
    <3>1. bus[i].reply \in 0..reply_seq /\ bus[i].reply # 0
      BY <1>8 DEF ServedInv, Asking, OthersReply
    <3> QED BY <1>1, <3>1
  <2>2. Open' = Open
    BY <1>8 DEF OthersReply, Open
  <2>3. Abstract!Answer(bus[i].reply)
    BY <1>8, <2>1, <2>2 DEF Abstract!Answer, OthersReply, impl, Open
  <2> QED BY <2>1, <2>3 DEF Abstract!Next
<1>9. ASSUME SignalTransport PROVE Promise
  <2>1. Open' = Open
    BY <1>9 DEF SignalTransport, Open
  <2>2. Abstract!Stop
    BY <1>9, <2>1 DEF Abstract!Stop, SignalTransport, Open, channel
  <2> QED BY <2>2 DEF Abstract!Next
<1>10. ASSUME NEW c \in Callers, PublishRequest(c) PROVE Promise
  <2>1. SameOpen
    BY <1>1, <1>10, GotoSameOpen DEF PublishRequest, Requesting
  <2> QED BY <1>3, <1>10, <2>1 DEF PublishRequest, impl, channel
<1>11. ASSUME NEW c \in Callers, Wait(c) PROVE Promise
  <2>1. SameOpen
    BY <1>1, <1>11, GotoSameOpen DEF Wait, Requesting
  <2> QED BY <1>3, <1>11, <2>1 DEF Wait, impl, channel
<1>12. ASSUME NEW c \in Callers, WaitTimeout(c) PROVE Promise
  <2>1. SameOpen
    BY <1>1, <1>12, GotoSameOpen DEF WaitTimeout, Requesting
  <2> QED BY <1>3, <1>12, <2>1 DEF WaitTimeout, impl, channel
<1>13. ASSUME NEW c \in Callers, SpuriousWakeup(c) PROVE Promise
  <2>1. SameOpen
    BY <1>1, <1>13, GotoSameOpen DEF SpuriousWakeup, Requesting
  <2> QED BY <1>3, <1>13, <2>1 DEF SpuriousWakeup, impl, channel
<1>14. ASSUME Connect PROVE Promise
  <2>1. SameOpen
    BY <1>1, <1>14, GotoSameOpen DEF Connect, Requesting
  <2> QED BY <1>3, <1>14, <2>1 DEF Connect, impl, channel
<1>15. ASSUME StartLoop PROVE Promise
  <2>1. SameOpen
    BY <1>1, <1>15, GotoSameOpen DEF StartLoop, Requesting
  <2> QED BY <1>3, <1>15, <2>1 DEF StartLoop, impl, channel
<1>16. ASSUME CheckConnected PROVE Promise
  <2>1. SameOpen
    BY <1>1, <1>16, GotoSameOpen DEF CheckConnected, Requesting
  <2> QED BY <1>3, <1>16, <2>1 DEF CheckConnected, impl, channel
<1>17. ASSUME StartTimeout PROVE Promise
  <2>1. SameOpen
    BY <1>1, <1>17, GotoSameOpen DEF StartTimeout, Requesting
  <2> QED BY <1>3, <1>17, <2>1 DEF StartTimeout, impl, channel
<1>18. ASSUME Loop PROVE Promise
  <2>1. SameOpen
    BY <1>1, <1>18, GotoSameOpen DEF Loop, Requesting
  <2> QED BY <1>3, <1>18, <2>1 DEF Loop, impl, channel
<1>19. ASSUME Fetch PROVE Promise
  <2>1. SameOpen
    BY <1>1, <1>19, GotoSameOpen DEF Fetch, Pop, Requesting
  <2> QED BY <1>3, <1>19, <2>1 DEF Fetch, impl, channel
<1>20. ASSUME FetchTimeout PROVE Promise
  <2>1. SameOpen
    BY <1>1, <1>20, GotoSameOpen DEF FetchTimeout, Requesting
  <2> QED BY <1>3, <1>20, <2>1 DEF FetchTimeout, impl, channel
<1>21. ASSUME FetchWoken PROVE Promise
  <2>1. SameOpen
    BY <1>1, <1>21, GotoSameOpen DEF FetchWoken, Pop, Requesting
  <2> QED BY <1>3, <1>21, <2>1 DEF FetchWoken, impl, channel
<1>22. ASSUME Dispatch PROVE Promise
  <2>1. SameOpen
    BY <1>1, <1>22, GotoSameOpen DEF Dispatch, Requesting
  <2> QED BY <1>3, <1>22, <2>1 DEF Dispatch, impl, channel
<1>23. ASSUME DeliverMessage PROVE Promise
  <2>1. SameOpen
    BY <1>1, <1>23, NotifySameOpen DEF DeliverMessage, Enqueue, Requesting
  <2> QED BY <1>3, <1>23, <2>1 DEF DeliverMessage, impl, channel
<1>24. ASSUME OnConnect PROVE Promise
  <2>1. SameOpen
    BY <1>1, <1>24, NotifySameOpen DEF OnConnect, Requesting
  <2> QED BY <1>3, <1>24, <2>1 DEF OnConnect, impl, channel
<1>25. ASSUME OnSubscribe PROVE Promise
  <2>1. SameOpen
    BY <1>1, <1>25, NotifySameOpen DEF OnSubscribe, Requesting
  <2> QED BY <1>3, <1>25, <2>1 DEF OnSubscribe, impl, channel
<1>26. ASSUME DeliverReply PROVE Promise
  <2>1. net.hint \in Callers
    BY <1>26, DeliveryType DEF DeliverReply
  <2>2. SameOpen
    BY <1>1, <1>26, <2>1, NotifySameOpen DEF DeliverReply, Requesting
  <2> QED BY <1>3, <1>26, <2>2 DEF DeliverReply, impl, channel
<1>27. ASSUME NotifyAll PROVE Promise
  <2>1. SameOpen
    BY <1>1, <1>27 DEF NotifyAll, SameOpen, Requesting
  <2> QED BY <1>3, <1>27, <2>1 DEF NotifyAll, channel
<1>28. ASSUME UNCHANGED <<pc, topic, reply_seq, served, outcome, shutdownSignaled>> PROVE Promise
  BY <1>3, <1>28 DEF SameOpen
<1>29. ASSUME NEW r \in replies, ReceiveReply(r) PROVE Promise
  BY <1>29, <1>28 DEF ReceiveReply, impl, channel
<1>30. ASSUME ReceiveMessage PROVE Promise
  BY <1>30, <1>28 DEF ReceiveMessage, impl, channel
<1>31. ASSUME SignalShutdown PROVE Promise
  BY <1>31, <1>28 DEF SignalShutdown, impl, channel
<1>32. ASSUME StopLoop PROVE Promise
  BY <1>32, <1>28 DEF StopLoop, impl, channel
<1>33. ASSUME NEW g \in BOOLEAN, OthersPublish(g) PROVE Promise
  BY <1>33, <1>28 DEF OthersPublish, impl, channel
<1>34. ASSUME Drop PROVE Promise
  BY <1>34, <1>28 DEF Drop, impl, channel
<1>35. ASSUME UNCHANGED vars PROVE Promise
  BY <1>35, <1>28 DEF vars, impl, channel
<1>36. Promise
  BY <1>4, <1>5, <1>6, <1>7, <1>8, <1>9, <1>10, <1>11, <1>12, <1>13, <1>14, <1>15, <1>16, <1>17,
     <1>18, <1>19, <1>20, <1>21, <1>22, <1>23, <1>24, <1>25, <1>26, <1>27, <1>28, <1>29, <1>30,
     <1>31, <1>32, <1>33, <1>34, <1>35 DEF Next, RequestStep, LoopStep, Network, Deliver,
     Shutdown, External
<1> QED BY <1>36

(* The transport implements what sendRequest promises: every request ends  *)
(* once, with a reply that somebody sent to this request, or an error.     *)
THEOREM ImplementsBusRequestsCorrect == Spec => ImplementsBusRequests
<1>1. Init => Abstract!Init
  BY RefinementInit
<1>2. TypeOK /\ TopicsInv /\ ReplyInv /\ ServedInv /\ [Next]_vars
        => [Abstract!Next]_(Abstract!vars)
  BY RefinementStep
<1> QED BY <1>1, <1>2, ServedCorrect, PTL DEF Spec, ImplementsBusRequests, Abstract!Spec

-----------------------------------------------------------------------------
(* Messages come in order, and none that was received is lost.  The        *)
(* network thread is never ahead of the link.                              *)
Behind ==
    /\ \A i \in taken \cup Queued : i <= nextOnBus
    /\ net.at = "message" => net.position <= nextOnBus

QueueInv == InOrder /\ NothingLost /\ Behind

(* A queue that loses its head.                                            *)
LEMMA PopQueued ==
  ASSUME BusOK, queue # <<>>, queue' = Tail(queue)
  PROVE  /\ Queued = {Head(queue)} \cup Queued'
         /\ Len(queue') = Len(queue) - 1
         /\ \A i \in 1..Len(queue') : queue'[i] = queue[i + 1]
         /\ Head(queue) = queue[1] /\ Len(queue) \in Nat \ {0}
<1>1. queue \in Seq(1..Len(bus))
  BY DEF BusOK
<1>2. /\ Len(queue') = Len(queue) - 1
      /\ \A i \in 1..Len(queue') : queue'[i] = queue[i + 1]
      /\ Head(queue) = queue[1] /\ Len(queue) \in Nat \ {0}
  BY <1>1
<1>3. \A i \in 1..Len(queue) : i # 1 => i - 1 \in 1..Len(queue') /\ queue'[i - 1] = queue[i]
  <2> SUFFICES ASSUME NEW i \in 1..Len(queue), i # 1
               PROVE  i - 1 \in 1..Len(queue') /\ queue'[i - 1] = queue[i]
    OBVIOUS
  <2>1. i - 1 \in 1..Len(queue') /\ (i - 1) + 1 = i
    BY <1>2
  <2>2. queue'[i - 1] = queue[(i - 1) + 1]
    BY <1>2, <2>1
  <2> QED BY <2>1, <2>2
<1>4. Queued \subseteq {Head(queue)} \cup Queued'
  BY <1>2, <1>3 DEF Queued
<1>5. {Head(queue)} \cup Queued' \subseteq Queued
  BY <1>2 DEF Queued
<1> QED BY <1>2, <1>4, <1>5

(* A queue that gets a message.                                            *)
LEMMA AppendQueued ==
  ASSUME BusOK, NEW p \in Nat, queue' = Append(queue, p)
  PROVE  /\ Queued' = Queued \cup {p}
         /\ Len(queue') = Len(queue) + 1 /\ Len(queue) \in Nat
         /\ \A i \in 1..Len(queue) : queue'[i] = queue[i] /\ queue[i] \in Queued
         /\ queue'[Len(queue) + 1] = p
<1>1. queue \in Seq(Nat)
  BY DEF BusOK
<1>2. /\ Len(queue') = Len(queue) + 1 /\ Len(queue) \in Nat
      /\ \A i \in 1..Len(queue) : queue'[i] = queue[i]
      /\ queue'[Len(queue) + 1] = p
  BY <1>1
<1>3. \A i \in 1..Len(queue) : queue[i] \in Queued
  BY DEF Queued
<1>4. Queued' = Queued \cup {p}
  BY <1>2 DEF Queued
<1> QED BY <1>2, <1>3, <1>4

\* The queue and the bus are empty at the start.
LEMMA QueueInit == Init => QueueInv
BY DEF Init, QueueInv, InOrder, NothingLost, Behind, Queued, Idle

\* Pop and append have lemmas of their own.
LEMMA QueueStep == TypeOK /\ QueueInv /\ [Next]_vars => QueueInv'
<1> SUFFICES ASSUME TypeOK, QueueInv, [Next]_vars PROVE QueueInv' OBVIOUS
<1> USE DEF pending, callers, threads
<1>1. /\ bus \in Seq(Messages) /\ Len(bus) \in Nat /\ BusOK
      /\ nextOnBus \in 1..(Len(bus) + 1)
      /\ taken \subseteq 1..Len(bus) /\ Queued \subseteq 1..Len(bus)
      /\ InOrder /\ NothingLost /\ Behind
  BY DEF TypeOK, BusOK, Queued, QueueInv
<1>2. ASSUME UNCHANGED <<queue, taken, nextOnBus, lost>>,
             net' = net \/ (net.at # "message" /\ net'.at # "message"),
             \A i \in 1..Len(bus) : bus'[i] = bus[i]
      PROVE  QueueInv'
  <2>1. Queued' = Queued
    BY <1>2 DEF Queued
  <2>2. InOrder'
    BY <1>1, <1>2, <2>1 DEF InOrder
  <2>3. NothingLost'
    BY <1>1, <1>2, <2>1 DEF NothingLost
  <2>4. Behind'
    BY <1>1, <1>2, <2>1 DEF Behind
  <2> QED BY <2>2, <2>3, <2>4 DEF QueueInv
<1>3. ASSUME NEW here, Pop(here), UNCHANGED <<net, bus, nextOnBus, lost>> PROVE QueueInv'
  <2>1. /\ queue # <<>> /\ queue' = Tail(queue) /\ taken' = taken \cup {Head(queue)}
    BY <1>3 DEF Pop
  <2>2. /\ Queued = {Head(queue)} \cup Queued'
        /\ Len(queue') = Len(queue) - 1
        /\ \A i \in 1..Len(queue') : queue'[i] = queue[i + 1]
        /\ Head(queue) = queue[1] /\ Len(queue) \in Nat \ {0}
    BY <1>1, <2>1, PopQueued
  <2>3. taken' \cup Queued' = taken \cup Queued
    BY <2>1, <2>2
  <2>4. \A i, j \in 1..Len(queue') : i < j => queue'[i] <= queue'[j]
    BY <1>1, <2>2 DEF InOrder
  <2>5. \A j \in Queued' : Head(queue) <= j
    <3> SUFFICES ASSUME NEW i \in 1..Len(queue') PROVE Head(queue) <= queue'[i]
      BY DEF Queued
    <3> QED BY <1>1, <2>2 DEF InOrder
  <2>6. \A i \in taken' : \A j \in Queued' : i <= j
    BY <1>1, <2>1, <2>2, <2>5 DEF InOrder
  <2>7. InOrder'
    BY <1>1, <1>3, <2>3, <2>4, <2>6 DEF InOrder
  <2>8. NothingLost'
    BY <1>1, <1>3, <2>3 DEF NothingLost
  <2>9. Behind'
    BY <1>1, <1>3, <2>3 DEF Behind
  <2> QED BY <2>7, <2>8, <2>9 DEF QueueInv
<1>4. ASSUME NEW m \in Messages, bus' = Append(bus, m), UNCHANGED <<queue, taken, nextOnBus, lost, net>>
      PROVE  QueueInv'
  BY <1>1, <1>2, <1>4
<1>5. ASSUME DeliverMessage PROVE QueueInv'
  <2>1. /\ net.at = "message" /\ net'.at = "idle" /\ UNCHANGED <<bus, nextOnBus, lost, taken>>
        /\ net.position \in 1..Len(bus) /\ net.position <= nextOnBus
    BY <1>1, <1>5, DeliveryType DEF DeliverMessage, Idle, channel, Behind
  <2>2. \A i : net = [at |-> "message", position |-> i] => i = net.position
    OBVIOUS
  <2>3. CASE bus[net.position].garbage /\ UNCHANGED queue
    <3>1. Queued' = Queued
      BY <2>3 DEF Queued
    <3>2. InOrder'
      BY <1>1, <2>1, <2>3, <3>1 DEF InOrder
    <3>3. NothingLost'
      BY <1>1, <2>1, <2>2, <2>3, <3>1 DEF NothingLost
    <3>4. Behind'
      BY <1>1, <2>1, <3>1 DEF Behind
    <3> QED BY <3>2, <3>3, <3>4 DEF QueueInv
  <2>4. CASE queue' = Append(queue, net.position)
    <3>1. /\ Queued' = Queued \cup {net.position}
          /\ Len(queue') = Len(queue) + 1 /\ Len(queue) \in Nat
          /\ \A i \in 1..Len(queue) : queue'[i] = queue[i] /\ queue[i] \in Queued
          /\ queue'[Len(queue) + 1] = net.position
      BY <1>1, <2>1, <2>4, AppendQueued
    <3>2. \A i \in taken \cup Queued : i <= net.position
      BY <1>1, <2>1 DEF InOrder
    <3>3. \A i, j \in 1..Len(queue') : i < j => queue'[i] <= queue'[j]
      <4> SUFFICES ASSUME NEW i \in 1..Len(queue'), NEW j \in 1..Len(queue'), i < j
                   PROVE  queue'[i] <= queue'[j]
        OBVIOUS
      <4>1. i \in 1..Len(queue) /\ queue'[i] = queue[i] /\ queue[i] \in Queued
        BY <3>1
      <4>2. CASE j = Len(queue) + 1
        BY <3>1, <3>2, <4>1, <4>2
      <4>3. CASE j \in 1..Len(queue)
        BY <1>1, <3>1, <4>1, <4>3 DEF InOrder
      <4> QED BY <3>1, <4>2, <4>3
    <3>4. InOrder'
      BY <1>1, <2>1, <3>1, <3>2, <3>3 DEF InOrder
    <3>5. NothingLost'
      BY <1>1, <2>1, <2>2, <3>1 DEF NothingLost
    <3>6. Behind'
      BY <1>1, <2>1, <3>1 DEF Behind
    <3> QED BY <3>4, <3>5, <3>6 DEF QueueInv
  <2> QED BY <1>5, <2>3, <2>4 DEF DeliverMessage, Enqueue
<1>6. ASSUME ReceiveMessage PROVE QueueInv'
  <2>1. /\ net.at = "idle" /\ net' = [at |-> "message", position |-> nextOnBus]
        /\ nextOnBus' \in {nextOnBus, nextOnBus + 1}
        /\ UNCHANGED <<queue, bus, taken, lost>>
    BY <1>6 DEF ReceiveMessage, Listening, Idle
  <2>2. Queued' = Queued
    BY <2>1 DEF Queued
  <2>3. InOrder'
    BY <1>1, <2>1, <2>2 DEF InOrder, Behind
  <2>4. NothingLost'
    <3>1. \A i : net # [at |-> "message", position |-> i]
      BY <2>1
    <3>2. \A i \in 1..Len(bus) : i < nextOnBus' => i < nextOnBus \/ i = nextOnBus
      BY <1>1, <2>1
    <3> QED BY <1>1, <2>1, <2>2, <3>1, <3>2 DEF NothingLost
  <2>5. Behind'
    BY <1>1, <2>1, <2>2 DEF Behind
  <2> QED BY <2>3, <2>4, <2>5 DEF QueueInv
<1>7. ASSUME OnConnect PROVE QueueInv'
  <2>1. /\ net.at = "idle" /\ UNCHANGED <<net, queue, bus, taken>>
        /\ nextOnBus' >= nextOnBus /\ nextOnBus' \in Nat
        /\ lost \subseteq lost'
        /\ \A i \in Nat : nextOnBus <= i /\ i < nextOnBus' => i \in lost'
    <3>1. CASE UNCHANGED <<nextOnBus, lost>>
      BY <1>1, <1>7, <3>1 DEF OnConnect, Idle
    <3>2. ASSUME NEW first \in nextOnBus..(Len(bus) + 1),
                 nextOnBus' = first, lost' = lost \cup nextOnBus..(first - 1)
          PROVE  /\ net.at = "idle" /\ UNCHANGED <<net, queue, bus, taken>>
                 /\ nextOnBus' >= nextOnBus /\ nextOnBus' \in Nat
                 /\ lost \subseteq lost'
                 /\ \A i \in Nat : nextOnBus <= i /\ i < nextOnBus' => i \in lost'
      <4>1. net.at = "idle" /\ UNCHANGED <<net, queue, bus, taken>>
        BY <1>7 DEF OnConnect, Idle
      <4>2. first \in Nat /\ nextOnBus <= first
        BY <1>1
      <4>3. \A i \in Nat : nextOnBus <= i /\ i < first => i \in nextOnBus..(first - 1)
        BY <1>1, <4>2
      <4> QED BY <3>2, <4>1, <4>2, <4>3
    <3> QED BY <1>7, <3>1, <3>2 DEF OnConnect
  <2>2. Queued' = Queued
    BY <2>1 DEF Queued
  <2>3. InOrder'
    BY <1>1, <2>1, <2>2 DEF InOrder
  <2>4. NothingLost'
    <3>1. \A i : net # [at |-> "message", position |-> i]
      BY <2>1
    <3>2. \A i \in 1..Len(bus) : i < nextOnBus' => i < nextOnBus \/ i \in lost'
      BY <1>1, <2>1
    <3> QED BY <1>1, <2>1, <2>2, <3>1, <3>2 DEF NothingLost
  <2>5. Behind'
    BY <1>1, <2>1, <2>2 DEF Behind
  <2> QED BY <2>3, <2>4, <2>5 DEF QueueInv
<1>8. ASSUME Fetch PROVE QueueInv'
  BY <1>2, <1>3, <1>8 DEF Fetch, channel
<1>9. ASSUME FetchWoken PROVE QueueInv'
  BY <1>2, <1>3, <1>9 DEF FetchWoken, channel
<1>10. ASSUME NEW c \in Callers, PublishRequest(c) PROVE QueueInv'
  <2>1. CASE UNCHANGED bus
    BY <1>2, <1>10, <2>1 DEF PublishRequest
  <2>2. ASSUME NEW own \in BOOLEAN,
               bus' = Append(bus, [reply |-> topic[c], own |-> own, garbage |-> FALSE])
        PROVE  QueueInv'
    <3>1. [reply |-> topic[c], own |-> own, garbage |-> FALSE] \in Messages
      BY DEF TypeOK, CallersOK, Messages
    <3> QED BY <1>4, <1>10, <2>2, <3>1 DEF PublishRequest
  <2> QED BY <1>10, <2>1, <2>2 DEF PublishRequest
<1>11. ASSUME NEW g \in BOOLEAN, OthersPublish(g) PROVE QueueInv'
  <2>1. [reply |-> 0, own |-> FALSE, garbage |-> g] \in Messages
    BY DEF Messages
  <2> QED BY <1>4, <1>11, <2>1 DEF OthersPublish
<1>12. ASSUME NEW r \in replies, ReceiveReply(r) PROVE QueueInv'
  BY <1>2, <1>12 DEF ReceiveReply, Listening, Idle
<1>13. ASSUME DeliverReply PROVE QueueInv'
  BY <1>2, <1>13 DEF DeliverReply, channel, Idle
<1>14. ASSUME NEW c \in Callers, Register(c) PROVE QueueInv'
  BY <1>14, <1>2 DEF Register, channel
<1>15. ASSUME NEW c \in Callers, Wait(c) PROVE QueueInv'
  BY <1>15, <1>2 DEF Wait, channel
<1>16. ASSUME NEW c \in Callers, WaitTimeout(c) PROVE QueueInv'
  BY <1>16, <1>2 DEF WaitTimeout, channel
<1>17. ASSUME NEW c \in Callers, SpuriousWakeup(c) PROVE QueueInv'
  BY <1>17, <1>2 DEF SpuriousWakeup, channel
<1>18. ASSUME NEW c \in Callers, Inspect(c) PROVE QueueInv'
  BY <1>18, <1>2 DEF Inspect, channel
<1>19. ASSUME NEW c \in Callers, Unregister(c) PROVE QueueInv'
  BY <1>19, <1>2 DEF Unregister, channel
<1>20. ASSUME Connect PROVE QueueInv'
  BY <1>20, <1>2 DEF Connect, channel
<1>21. ASSUME StartLoop PROVE QueueInv'
  BY <1>21, <1>2 DEF StartLoop, channel
<1>22. ASSUME CheckConnected PROVE QueueInv'
  BY <1>22, <1>2 DEF CheckConnected, channel
<1>23. ASSUME StartTimeout PROVE QueueInv'
  BY <1>23, <1>2 DEF StartTimeout, channel
<1>24. ASSUME Loop PROVE QueueInv'
  BY <1>24, <1>2 DEF Loop, channel
<1>25. ASSUME FetchTimeout PROVE QueueInv'
  BY <1>25, <1>2 DEF FetchTimeout, channel
<1>26. ASSUME Dispatch PROVE QueueInv'
  BY <1>26, <1>2 DEF Dispatch, channel
<1>27. ASSUME Handle PROVE QueueInv'
  BY <1>27, <1>2 DEF Handle, channel
<1>28. ASSUME OnSubscribe PROVE QueueInv'
  BY <1>28, <1>2 DEF OnSubscribe, channel
<1>29. ASSUME SignalShutdown PROVE QueueInv'
  BY <1>29, <1>2 DEF SignalShutdown, channel
<1>30. ASSUME SignalTransport PROVE QueueInv'
  BY <1>30, <1>2 DEF SignalTransport, channel
<1>31. ASSUME StopLoop PROVE QueueInv'
  BY <1>31, <1>2 DEF StopLoop, channel
<1>32. ASSUME NotifyAll PROVE QueueInv'
  BY <1>32, <1>2 DEF NotifyAll, channel
<1>33. ASSUME Drop PROVE QueueInv'
  BY <1>33, <1>2 DEF Drop, channel
<1>34. ASSUME NEW i \in 1..Len(bus), NEW p \in Payloads, OthersReply(i, p) PROVE QueueInv'
  BY <1>34, <1>2 DEF OthersReply
<1>35. ASSUME UNCHANGED vars PROVE QueueInv'
  BY <1>35, <1>2 DEF vars, channel
<1> QED BY <1>5, <1>6, <1>7, <1>8, <1>9, <1>10, <1>11, <1>12, <1>13, <1>14, <1>15, <1>16, <1>17,
   <1>18, <1>19, <1>20, <1>21, <1>22, <1>23, <1>24, <1>25, <1>26, <1>27, <1>28, <1>29, <1>30,
   <1>31, <1>32, <1>33, <1>34, <1>35 DEF Next, RequestStep, LoopStep, Network, Deliver,
   Shutdown, External

\* The inductive invariant of the two theorems that follow.
LEMMA QueueCorrect == Spec => []QueueInv
<1>1. Init => QueueInv
  BY QueueInit
<1>2. TypeOK /\ QueueInv /\ [Next]_vars => QueueInv'
  BY QueueStep
<1> QED BY <1>1, <1>2, TypeCorrect, PTL DEF Spec

(* Messages come to the loop in the order of the bus.                      *)
THEOREM InOrderCorrect == Spec => []InOrder
<1>1. QueueInv => InOrder
  BY DEF QueueInv
<1> QED BY <1>1, QueueCorrect, PTL

(* Once received, a message that parses gets to the loop.                  *)
THEOREM NothingLostCorrect == Spec => []NothingLost
<1>1. QueueInv => NothingLost
  BY DEF QueueInv
<1> QED BY <1>1, QueueCorrect, PTL

-----------------------------------------------------------------------------
(* fetchMessage: it waits only on an empty queue, and, as long as condition *)
(* variables wake up for notifications only, it is woken up for a message  *)
(* or a shutdown.                                                          *)
FetchPCs == {"fetchwait", "fetchwoken", "undefined"}

\* What the position of the loop says of the queue.
FetchInv ==
    /\ FetchSeesQueue
    /\ pc[Main] = "fetchwoken" => queue # <<>> \/ shutdownSignaled \/ Spurious
    /\ stopper \in {"join", "notify", "done"} => shutdownSignaled

(* Where Main is not concerned, or goes elsewhere.                         *)
LEMMA GotoElsewhere ==
  ASSUME PositionsOK, NEW c \in Callers, NEW here, NEW there, Goto(c, here, there),
         there \notin FetchPCs
  PROVE  pc'[Main] = pc[Main] \/ pc'[Main] \notin FetchPCs
BY DEF PositionsOK, Goto, Callers

\* Likewise for a notification that leads elsewhere.
LEMMA NotifyElsewhere ==
  ASSUME PositionsOK, NEW c \in Callers, NEW waiting, NEW woken,
         Notify(c, waiting, woken) \/ UNCHANGED pc, woken \notin FetchPCs
  PROVE  pc'[Main] = pc[Main] \/ pc'[Main] \notin FetchPCs
BY DEF PositionsOK, Notify, Callers

\* A step that leaves the loop and the queue alone.
LEMMA FetchFrame ==
  ASSUME FetchInv, pc'[Main] = pc[Main] \/ pc'[Main] \notin FetchPCs,
         UNCHANGED <<queue, shutdownSignaled, stopper>>
  PROVE  FetchInv'
BY DEF FetchInv, FetchPCs, FetchSeesQueue

\* One case per action.
LEMMA FetchStep == TypeOK /\ FetchInv /\ [Next]_vars => FetchInv'
<1> SUFFICES ASSUME TypeOK, FetchInv, [Next]_vars PROVE FetchInv' OBVIOUS
<1> USE DEF impl, threads
<1>1. /\ PositionsOK /\ Main \in Callers /\ queue \in Seq(1..Len(bus))
      /\ pc \in [Callers -> MainPCs \cup PoolPCs]
  BY DEF TypeOK, PositionsOK, BusOK, Callers
<1>2. ASSUME Fetch PROVE FetchInv'
  <2>1. CASE MustWait /\ Goto(Main, "fetch", "fetchwait") /\ UNCHANGED queue
    BY <1>1, <1>2, <2>1 DEF Fetch, MustWait, Goto, FetchInv, FetchSeesQueue
  <2>2. CASE Pop("fetch")
    <3>1. pc'[Main] = "fetched"
      BY <1>1, <2>2 DEF Pop, Goto
    <3> QED BY <1>2, <3>1 DEF Fetch, FetchInv, FetchSeesQueue
  <2> QED BY <1>2, <2>1, <2>2 DEF Fetch
<1>3. ASSUME FetchWoken PROVE FetchInv'
  <2>1. pc[Main] = "fetchwoken" /\ pc'[Main] \in {"loop", "fetched", "undefined"}
    BY <1>1, <1>3 DEF FetchWoken, Pop, Goto
  <2>2. pc'[Main] = "undefined" => ~shutdownSignaled /\ queue = <<>>
    BY <1>1, <1>3 DEF FetchWoken, Pop, Goto, LeaveOnWakeup
  <2>3. UNCHANGED <<shutdownSignaled, stopper>>
    BY <1>3 DEF FetchWoken
  <2> QED BY <2>1, <2>2, <2>3 DEF FetchInv, FetchSeesQueue
<1>4. ASSUME DeliverMessage PROVE FetchInv'
  <2>1. CASE UNCHANGED <<queue, pc>>
    BY <1>4, <2>1, FetchFrame DEF DeliverMessage
  <2>2. CASE Enqueue(net.position)
    <3>1. queue' # <<>>
      BY <1>1, <1>4, <2>2, DeliveryType DEF Enqueue, DeliverMessage
    <3>2. pc'[Main] # "fetchwait" /\ (pc'[Main] = pc[Main] \/ pc'[Main] = "fetchwoken")
      BY <1>1, <2>2 DEF Enqueue, Notify
    <3> QED BY <1>4, <3>1, <3>2 DEF DeliverMessage, FetchInv, FetchSeesQueue
  <2> QED BY <1>4, <2>1, <2>2 DEF DeliverMessage
<1>5. ASSUME NotifyAll PROVE FetchInv'
  <2>1. shutdownSignaled /\ shutdownSignaled' = shutdownSignaled /\ UNCHANGED queue
    BY <1>5 DEF NotifyAll, FetchInv
  <2>2. pc'[Main] # "fetchwait" /\ (pc'[Main] = "undefined" => pc[Main] = "undefined")
    BY <1>1, <1>5 DEF NotifyAll
  <2> QED BY <2>1, <2>2 DEF FetchInv, FetchSeesQueue
<1>6. ASSUME SignalShutdown \/ SignalTransport \/ StopLoop PROVE FetchInv'
  BY <1>6 DEF SignalShutdown, SignalTransport, StopLoop, FetchInv, FetchSeesQueue
<1>7. ASSUME NEW c \in Callers, SpuriousWakeup(c) PROVE FetchInv'
  <2>1. pc'[Main] = pc[Main] \/ pc'[Main] \in {"notified", "fetchwoken", "startwoken"}
    BY <1>1, <1>7 DEF SpuriousWakeup, Goto
  <2> QED BY <1>7, <2>1 DEF SpuriousWakeup, FetchInv, FetchSeesQueue
<1>8. ASSUME NEW c \in Callers, Inspect(c) PROVE FetchInv'
  <2>1. pc'[Main] = pc[Main] \/ pc'[Main] = "return"
    BY <1>1, <1>8 DEF Inspect
  <2> QED BY <1>8, <2>1, FetchFrame DEF Inspect, FetchPCs
<1>9. ASSUME DeliverReply PROVE FetchInv'
  <2>1. net.hint \in Callers
    BY <1>9, DeliveryType DEF DeliverReply
  <2>2. pc'[Main] = pc[Main] \/ pc'[Main] \notin FetchPCs
    BY <1>1, <1>9, <2>1, NotifyElsewhere DEF DeliverReply, FetchPCs
  <2> QED BY <1>9, <2>2, FetchFrame DEF DeliverReply
<1>10. ASSUME NEW c \in Callers, Register(c) PROVE FetchInv'
  <2>1. pc'[Main] = pc[Main] \/ pc'[Main] \notin FetchPCs
    BY <1>1, <1>10, GotoElsewhere DEF Register, FetchPCs
  <2> QED BY <1>10, <2>1, FetchFrame DEF Register
<1>11. ASSUME NEW c \in Callers, PublishRequest(c) PROVE FetchInv'
  <2>1. pc'[Main] = pc[Main] \/ pc'[Main] \notin FetchPCs
    BY <1>1, <1>11, GotoElsewhere DEF PublishRequest, FetchPCs
  <2> QED BY <1>11, <2>1, FetchFrame DEF PublishRequest
<1>12. ASSUME NEW c \in Callers, Wait(c) PROVE FetchInv'
  <2>1. pc'[Main] = pc[Main] \/ pc'[Main] \notin FetchPCs
    BY <1>1, <1>12, GotoElsewhere DEF Wait, FetchPCs
  <2> QED BY <1>12, <2>1, FetchFrame DEF Wait
<1>13. ASSUME NEW c \in Callers, WaitTimeout(c) PROVE FetchInv'
  <2>1. pc'[Main] = pc[Main] \/ pc'[Main] \notin FetchPCs
    BY <1>1, <1>13, GotoElsewhere DEF WaitTimeout, FetchPCs
  <2> QED BY <1>13, <2>1, FetchFrame DEF WaitTimeout
<1>14. ASSUME NEW c \in Callers, Unregister(c) PROVE FetchInv'
  <2>1. pc'[Main] = pc[Main] \/ pc'[Main] \notin FetchPCs
    BY <1>1, <1>14, GotoElsewhere DEF Unregister, Home, FetchPCs
  <2> QED BY <1>14, <2>1, FetchFrame DEF Unregister
<1>15. ASSUME Connect PROVE FetchInv'
  <2>1. pc'[Main] = pc[Main] \/ pc'[Main] \notin FetchPCs
    BY <1>1, <1>15, GotoElsewhere DEF Connect, FetchPCs
  <2> QED BY <1>15, <2>1, FetchFrame DEF Connect
<1>16. ASSUME StartLoop PROVE FetchInv'
  <2>1. pc'[Main] = pc[Main] \/ pc'[Main] \notin FetchPCs
    BY <1>1, <1>16, GotoElsewhere DEF StartLoop, FetchPCs
  <2> QED BY <1>16, <2>1, FetchFrame DEF StartLoop
<1>17. ASSUME CheckConnected PROVE FetchInv'
  <2>1. pc'[Main] = pc[Main] \/ pc'[Main] \notin FetchPCs
    BY <1>1, <1>17, GotoElsewhere DEF CheckConnected, FetchPCs
  <2> QED BY <1>17, <2>1, FetchFrame DEF CheckConnected
<1>18. ASSUME StartTimeout PROVE FetchInv'
  <2>1. pc'[Main] = pc[Main] \/ pc'[Main] \notin FetchPCs
    BY <1>1, <1>18, GotoElsewhere DEF StartTimeout, FetchPCs
  <2> QED BY <1>18, <2>1, FetchFrame DEF StartTimeout
<1>19. ASSUME Loop PROVE FetchInv'
  <2>1. pc'[Main] = pc[Main] \/ pc'[Main] \notin FetchPCs
    BY <1>1, <1>19, GotoElsewhere DEF Loop, FetchPCs
  <2> QED BY <1>19, <2>1, FetchFrame DEF Loop
<1>20. ASSUME FetchTimeout PROVE FetchInv'
  <2>1. pc'[Main] = pc[Main] \/ pc'[Main] \notin FetchPCs
    BY <1>1, <1>20, GotoElsewhere DEF FetchTimeout, FetchPCs
  <2> QED BY <1>20, <2>1, FetchFrame DEF FetchTimeout
<1>21. ASSUME Dispatch PROVE FetchInv'
  <2>1. pc'[Main] = pc[Main] \/ pc'[Main] \notin FetchPCs
    BY <1>1, <1>21, GotoElsewhere DEF Dispatch, FetchPCs
  <2> QED BY <1>21, <2>1, FetchFrame DEF Dispatch
<1>22. ASSUME Handle PROVE FetchInv'
  <2>1. pc'[Main] = pc[Main] \/ pc'[Main] \notin FetchPCs
    BY <1>1, <1>22, GotoElsewhere DEF Handle, FetchPCs
  <2> QED BY <1>22, <2>1, FetchFrame DEF Handle
<1>23. ASSUME OnConnect PROVE FetchInv'
  <2>1. pc'[Main] = pc[Main] \/ pc'[Main] \notin FetchPCs
    BY <1>1, <1>23, NotifyElsewhere DEF OnConnect, FetchPCs
  <2> QED BY <1>23, <2>1, FetchFrame DEF OnConnect
<1>24. ASSUME OnSubscribe PROVE FetchInv'
  <2>1. pc'[Main] = pc[Main] \/ pc'[Main] \notin FetchPCs
    BY <1>1, <1>24, NotifyElsewhere DEF OnSubscribe, FetchPCs
  <2> QED BY <1>24, <2>1, FetchFrame DEF OnSubscribe
<1>25. ASSUME NEW r \in replies, ReceiveReply(r) PROVE FetchInv'
  BY <1>25, FetchFrame DEF ReceiveReply
<1>26. ASSUME ReceiveMessage PROVE FetchInv'
  BY <1>26, FetchFrame DEF ReceiveMessage
<1>27. ASSUME NEW g \in BOOLEAN, OthersPublish(g) PROVE FetchInv'
  BY <1>27, FetchFrame DEF OthersPublish
<1>28. ASSUME NEW i \in 1..Len(bus), NEW p \in Payloads, OthersReply(i, p) PROVE FetchInv'
  BY <1>28, FetchFrame DEF OthersReply
<1>29. ASSUME Drop PROVE FetchInv'
  BY <1>29, FetchFrame DEF Drop
<1>30. ASSUME UNCHANGED vars PROVE FetchInv'
  BY <1>30, FetchFrame DEF vars
<1> QED BY <1>2, <1>3, <1>4, <1>5, <1>6, <1>7, <1>8, <1>9, <1>10, <1>11, <1>12, <1>13, <1>14,
   <1>15, <1>16, <1>17, <1>18, <1>19, <1>20, <1>21, <1>22, <1>23, <1>24, <1>25, <1>26, <1>27,
   <1>28, <1>29, <1>30 DEF Next, RequestStep, LoopStep, Network, Deliver, Shutdown, External

\* The inductive invariant of the two theorems that follow.
LEMMA FetchCorrect == Spec => []FetchInv
<1>1. Init => FetchInv
  BY ThreadsAssumption DEF ThreadsAssumption, Init, FetchInv, FetchSeesQueue,
     Callers
<1>2. TypeOK /\ FetchInv /\ [Next]_vars => FetchInv'
  BY FetchStep
<1> QED BY <1>1, <1>2, TypeCorrect, PTL DEF Spec

(***************************************************************************)
(* fetchMessage does not wait while there is a message for it, and takes   *)
(* none from an empty queue as long as condition variables wake up for     *)
(* notifications only (fetchMessage, on_message).                          *)
(***************************************************************************)
THEOREM FetchSeesQueueCorrect == Spec => []FetchSeesQueue
<1>1. FetchInv => FetchSeesQueue
  BY DEF FetchInv
<1> QED BY <1>1, FetchCorrect, PTL
=============================================================================
