---------------------------- MODULE BusRequests ----------------------------
(***************************************************************************)
(* What AgoTransport::sendRequest promises its callers, whatever the       *)
(* transport: every request ends, once, with the reply to this request if  *)
(* somebody has replied to it, or with an error.                           *)
(***************************************************************************)
EXTENDS Integers

CONSTANTS Callers, MaxRequests

VARIABLES
    asked,      \* number of requests so far
    open,       \* caller -> its open request, 0 if none
    answered,   \* requests that somebody has replied to
    result,     \* caller -> how its last request ended
    stopping    \* the transport has been shut down

vars == <<asked, open, answered, result, stopping>>

Init ==
    /\ asked = 0
    /\ open = [c \in Callers |-> 0]
    /\ answered = {}
    /\ result = [c \in Callers |-> "none"]
    /\ stopping = FALSE

Ask(c) ==
    /\ open[c] = 0
    /\ asked < MaxRequests
    /\ asked' = asked + 1
    /\ open' = [open EXCEPT ![c] = asked + 1]
    /\ UNCHANGED <<answered, result, stopping>>

Answer(n) ==
    /\ n \in 1..asked
    /\ answered' = answered \cup {n}
    /\ UNCHANGED <<asked, open, result, stopping>>

\* the ways a request may end
Endings(c) ==
    {"timeout", "internal"}
        \cup (IF open[c] \in answered THEN {"reply"} ELSE {})
        \cup (IF stopping THEN {"shutdown"} ELSE {})

End(c) ==
    /\ open[c] # 0
    /\ \E ending \in Endings(c) : result' = [result EXCEPT ![c] = ending]
    /\ open' = [open EXCEPT ![c] = 0]
    /\ UNCHANGED <<asked, answered, stopping>>

Stop ==
    /\ stopping' = TRUE
    /\ UNCHANGED <<asked, open, answered, result>>

Next ==
    \/ \E c \in Callers : Ask(c) \/ End(c)
    \/ \E n \in 1..asked : Answer(n)
    \/ Stop

Spec == Init /\ [][Next]_vars

(* Every request ends.                                                     *)
FairSpec == Spec /\ \A c \in Callers : WF_vars(End(c))
=============================================================================
