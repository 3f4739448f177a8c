------------------------------ MODULE Gateway ------------------------------
(***************************************************************************)
(* What the RPC gateway promises its clients, whatever its threads do.     *)
(* A request is answered once at most.  The answer of a remote call has    *)
(* the results of all its calls, or says that the time is up.  The events  *)
(* of a subscription are given one by one, in the order of the bus and     *)
(* without a gap; the subscription lives until it is ended, or until an    *)
(* event finds too many others still to be given.  A long poll that has    *)
(* time left ends with an event, the end of its subscription or the exit.  *)
(***************************************************************************)
EXTENDS Naturals

CONSTANTS
    Reqs,         \* names of requests
    Requests, NoRequest,
    Local, Pooled,
    Subs, Subscribed, QueueLimit

VARIABLES
    asked,        \* what has been asked
    answer,       \* "none" yet, an "answer", or the answer of a "timeout"
    results,      \* the number of results a request has
    given,        \* the event a request has been given, or 0
    opened,       \* the subscriptions there have been
    alive,
    cursor,       \* the last event given to a subscription
    published, exiting

vars == <<asked, answer, results, given, opened, alive, cursor, published, exiting>>

Init ==
    /\ asked = [q \in Reqs |-> NoRequest] /\ answer = [q \in Reqs |-> "none"]
    /\ results = [q \in Reqs |-> 0] /\ given = [q \in Reqs |-> 0]
    /\ opened = Subscribed /\ alive = Subscribed
    /\ cursor = [s \in Subs |-> 0] /\ published = 0 /\ exiting = FALSE

Ask(q, r) ==
    /\ asked[q] = NoRequest
    /\ asked' = [asked EXCEPT ![q] = r]
    /\ UNCHANGED <<answer, results, given, opened, alive, cursor, published, exiting>>

IsAsked(q, ops) == asked[q] # NoRequest /\ asked[q].op \in ops
Open(q, ops)    == IsAsked(q, ops) /\ answer[q] = "none"

(* A remote call has returned, before or after the answer to its request.   *)
Result(q) ==
    /\ IsAsked(q, Pooled) /\ results[q] < asked[q].calls
    /\ results' = [results EXCEPT ![q] = @ + 1]
    /\ UNCHANGED <<asked, answer, given, opened, alive, cursor, published, exiting>>

Subscribe(q) ==
    LET s == asked[q].sub IN
    /\ Open(q, {"subscribe"}) /\ s \notin opened
    /\ opened' = opened \cup {s} /\ alive' = alive \cup {s}
    /\ cursor' = [cursor EXCEPT ![s] = published]
    /\ UNCHANGED <<asked, answer, results, given, published, exiting>>

Unsubscribe(q) ==
    /\ Open(q, {"unsubscribe"})
    /\ alive' = alive \ {asked[q].sub}
    /\ UNCHANGED <<asked, answer, results, given, opened, cursor, published, exiting>>

Publish ==
    /\ published' = published + 1
    /\ alive' = {s \in alive : published - cursor[s] <= QueueLimit}
    /\ UNCHANGED <<asked, answer, results, given, opened, cursor, exiting>>

Exit ==
    /\ exiting' = TRUE
    /\ UNCHANGED <<asked, answer, results, given, opened, alive, cursor, published>>

GiveNext(q) ==
    LET s == asked[q].sub IN
    /\ Open(q, {"getevent"}) /\ given[q] = 0
    /\ s \in alive /\ cursor[s] < published
    /\ given' = [given EXCEPT ![q] = cursor[s] + 1]
    /\ cursor' = [cursor EXCEPT ![s] = @ + 1]
GiveNothing == UNCHANGED <<given, cursor>>

(* The event may be found first and answered later.                         *)
Take(q) ==
    /\ GiveNext(q)
    /\ UNCHANGED <<asked, answer, results, opened, alive, published, exiting>>

(* What a request has come to when its answer says so.                      *)
Fulfilled(q) ==
    LET s == asked[q].sub IN
    \/ Open(q, Pooled) /\ results[q] = asked[q].calls
    \/ Open(q, {"getevent"}) /\ (given'[q] # 0 \/ s \notin alive \/ exiting)
    \/ Open(q, {"subscribe"}) /\ s \in opened
    \/ Open(q, {"unsubscribe"}) /\ s \notin alive

Answer(q) ==
    /\ Fulfilled(q)
    /\ answer' = [answer EXCEPT ![q] = "answer"]
    /\ GiveNext(q) \/ GiveNothing
    /\ UNCHANGED <<asked, results, opened, alive, published, exiting>>

TimeOut(q) ==
    /\ Open(q, Pooled \cup {"getevent"})
    /\ answer' = [answer EXCEPT ![q] = "timeout"]
    /\ GiveNext(q) \/ GiveNothing
    /\ UNCHANGED <<asked, results, opened, alive, published, exiting>>

Next ==
    \/ \E q \in Reqs :
          \/ \E r \in Requests : Ask(q, r)
          \/ Result(q) \/ Subscribe(q) \/ Unsubscribe(q)
          \/ Take(q) \/ Answer(q) \/ TimeOut(q)
    \/ Publish \/ Exit

Spec == Init /\ [][Next]_vars
=============================================================================
