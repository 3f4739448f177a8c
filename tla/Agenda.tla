------------------------------- MODULE Agenda -------------------------------
(***************************************************************************)
(* What the scheduler promises: whatever list it has, it sends no item of  *)
(* it twice; and while it is sure (it hears of every minute, and was not   *)
(* late when it loaded the list), it sends every item that comes due after *)
(* the list was loaded, in the minute it is due, and gives no list up with *)
(* an item that is still to be sent.                                       *)
(***************************************************************************)
EXTENDS Naturals, FiniteSets

VARIABLES
    minute,  \* of the clock
    due,     \* the list: for every item the minute it is due
    done,    \* the items that were sent
    since,   \* the minute the list was loaded
    sure

vars == <<minute, due, done, since, sure>>

Init ==
    /\ minute = 0
    /\ DOMAIN due = {} /\ done = {} /\ since = 0
    /\ sure = FALSE

(* What came due, or will, after the list was loaded, and was not sent     *)
Left == {k \in DOMAIN due : due[k] > since /\ k \notin done}

MaySend(items) ==
    /\ items \subseteq DOMAIN due \ done
    /\ sure => \A k \in items : due[k] = minute

Send ==
    /\ \E items \in SUBSET DOMAIN due : MaySend(items) /\ done' = done \cup items
    /\ UNCHANGED <<minute, due, since, sure>>

(* What is due in this minute may be sent with the change of the list; a   *)
(* list is changed only if then nothing of it is left.                     *)
Change ==
    /\ \E items \in SUBSET DOMAIN due : MaySend(items) /\ (sure => Left \subseteq items)
    /\ done' = {} /\ since' = minute
    /\ UNCHANGED minute

(* The process dies, and its list with it.                                 *)
Stop ==
    /\ sure' = FALSE
    /\ done' = {} /\ DOMAIN due' = {}
    /\ UNCHANGED <<minute, since>>

(* The scheduler stays sure only if all that was due has been sent.        *)
MinuteEnds ==
    /\ minute' = minute + 1
    /\ sure' => sure /\ \A k \in Left : due[k] > minute
    /\ UNCHANGED <<due, done, since>>

Next == Send \/ Change \/ Stop \/ MinuteEnds

Spec == Init /\ [][Next]_vars
=============================================================================
