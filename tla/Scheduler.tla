----------------------------- MODULE Scheduler ------------------------------
(***************************************************************************)
(* The scheduler: AgoScheduler in core/scheduler/agoscheduler.py with the  *)
(* lists of scheduler.py, driven by the timer's events.                    *)
(*                                                                         *)
(* It loads a list of the day's items, sorted by time, and waits for the   *)
(* time of one of them: at each timechanged event it compares it with its  *)
(* own clock.  The weekday of the event decides when a new list is loaded. *)
(***************************************************************************)
EXTENDS Timer

CONSTANTS
    Weekdays,  \* how many there are
    Items      \* <<[days |-> its weekdays, times |-> the minutes it may get]>>

ASSUME ItemsAssumption ==
    /\ Weekdays \in Nat \ {0}
    /\ Items \in Seq([days : SUBSET (0..Weekdays - 1), times : SUBSET (0..MinutesPerDay - 1)])

VARIABLES
    activities,  \* the list: <<[item, time]>>
    nextItem,    \* index of the item it waits for, 0 if there is none
    weekdayno,
    planDay,     \* history: the day the list was loaded for
    loadedAt,    \* history: and in which minute
    heard,       \* history: an event was handled in the current minute
    skipped,     \* history: none was in a minute since the list was loaded
    behind,      \* history: it was loaded with an item to wait for whose
                 \* time was not in the future
    executed,    \* history: which items of the list were sent
    astray       \* history: one was sent in another minute than its own,
                 \* although neither skipped nor behind was set

scheduler == <<activities, nextItem, weekdayno, planDay, loadedAt, heard, skipped, behind,
               executed, astray>>
vars == <<now, listening, inbox, faults, timer, scheduler>>

Weekday(m)  == Day(m) % Weekdays
OnDay(d, a) == d * MinutesPerDay + a.time
DueAt(a)    == OnDay(planDay, a)

-----------------------------------------------------------------------------
(* new_day(): the weekday's items by time, those of a time in the order of *)
(* the configuration.  An item's time may be another one every day (random *)
(* minutes, the sun).                                                      *)
Activities == [item : DOMAIN Items, time : 0..MinutesPerDay - 1]
Before(a, b) == a.time < b.time \/ (a.time = b.time /\ a.item < b.item)
Plans(w) ==
    LET planned == {i \in DOMAIN Items : w \in Items[i].days}
    IN  {acts \in [1..Cardinality(planned) -> Activities] :
            /\ {acts[k].item : k \in DOMAIN acts} = planned
            /\ \A k \in DOMAIN acts : acts[k].time \in Items[acts[k].item].times
            /\ \A j, k \in DOMAIN acts : j < k => Before(acts[j], acts[k])}

(* get_first(): the first item at the given time or later                  *)
GetFirst(acts, when) ==
    LET later == {k \in DOMAIN acts : acts[k].time >= when}
    IN  IF later = {} THEN 0 ELSE CHOOSE k \in later : \A j \in later : k <= j

Load(m, when) ==
    /\ weekdayno' = Weekday(m)
    /\ activities' \in Plans(Weekday(m))
    /\ nextItem' = GetFirst(activities', when)
    /\ planDay' = Day(m) /\ loadedAt' = Minute
    /\ heard' = TRUE /\ skipped' = FALSE /\ executed' = {}
    /\ behind' = (nextItem' # 0 /\ OnDay(Day(m), activities'[nextItem']) <= Minute)

(* setup_app() *)
SetupApp ==
    /\ ~listening /\ listening' = TRUE
    /\ Load(Minute, MinuteOfDay(Minute))
    /\ UNCHANGED <<now, inbox, faults, timer, astray>>

-----------------------------------------------------------------------------
(* The items event_handler() sends: all those with the time of the item it *)
(* waits for, if that time is now.                                         *)
\* mutant of Due: one item for each event
Due_One == {k \in {nextItem} \ {0} : activities[k].time = MinuteOfDay(Minute)}
Due ==
    IF nextItem # 0 /\ activities[nextItem].time = MinuteOfDay(Minute)
    THEN {k \in nextItem..Len(activities) : activities[k].time = MinuteOfDay(Minute)}
    ELSE {}

(* get_next(), for each of them                                            *)
\* mutant of Follow: the end of the list is not noticed
Follow_PastEnd == nextItem + Cardinality(Due)
Follow ==
    IF nextItem + Cardinality(Due) > Len(activities) THEN 0 ELSE nextItem + Cardinality(Due)

SameDay(m) ==
    /\ weekdayno = Weekday(m)
    /\ nextItem' = Follow
    /\ executed' = executed \cup Due
    /\ heard' = TRUE
    /\ UNCHANGED <<activities, weekdayno, planDay, loadedAt, skipped, behind>>

NewDay(m) == weekdayno # Weekday(m) /\ Load(m, 0)

(* What is due is sent in either case, before a new list is loaded.        *)
EventHandler ==
    /\ listening /\ inbox # <<>>
    /\ astray' = (astray \/ (~skipped /\ ~behind /\ \E k \in Due : DueAt(activities[k]) # Minute))
    /\ SameDay(Head(inbox)) \/ NewDay(Head(inbox))
    /\ inbox' = Tail(inbox)
    /\ UNCHANGED <<now, listening, faults, timer>>

Die ==
    /\ listening /\ Fault
    /\ listening' = FALSE /\ inbox' = <<>>
    /\ activities' = <<>> /\ nextItem' = 0 /\ executed' = {}
    /\ UNCHANGED <<now, timer, weekdayno, planDay, loadedAt, heard, skipped, behind, astray>>

-----------------------------------------------------------------------------
TimePasses ==
    /\ now < MaxTime /\ now' = now + 1
    /\ IF now % 2 = 1
       THEN heard' = FALSE /\ skipped' = (skipped \/ ~heard)
       ELSE UNCHANGED <<heard, skipped>>
    /\ UNCHANGED <<listening, inbox, faults, timer>>
    /\ UNCHANGED <<activities, nextItem, weekdayno, planDay, loadedAt, behind, executed, astray>>

Init ==
    /\ TimerInit
    /\ listening = FALSE
    /\ activities = <<>> /\ nextItem = 0 /\ weekdayno = 0
    /\ planDay = 0 /\ loadedAt = 0
    /\ heard = FALSE /\ skipped = FALSE /\ behind = FALSE
    /\ executed = {} /\ astray = FALSE

Next ==
    \/ (ClockTimer \/ SunTimer \/ StartTimer) /\ UNCHANGED scheduler
    \/ SetupApp \/ EventHandler \/ Die
    \/ TimePasses

Spec == Init /\ [][Next]_vars

-----------------------------------------------------------------------------
SchedulerOK ==
    /\ activities \in Seq(Activities)
    /\ nextItem \in 0..Len(activities)
    /\ weekdayno \in 0..Weekdays - 1
    /\ planDay \in Nat /\ loadedAt \in Nat
    /\ heard \in BOOLEAN /\ skipped \in BOOLEAN /\ behind \in BOOLEAN
    /\ executed \subseteq 1..Len(activities) /\ astray \in BOOLEAN

(* Every variable keeps its type, and the item waited for is in the list.  *)
TypeOK == TimerOK /\ SchedulerOK

(* clocktimer() never sends a minute again, nor an earlier one, however    *)
(* early or late its timer fires and wherever the process is restarted.    *)
NeverTwice ==
    [][Len(inbox') > Len(inbox) => inbox'[Len(inbox')] > lastSent]_vars

(* Sunrise and sunset events alternate, and isDaytime agrees with the last *)
(* one, with timers that fire early or late, unless an event was lost (no  *)
(* sun data, a restart) or the variable could not be set.                  *)
SunConsistent ==
    ~sunLost =>
        /\ \A k \in 2..Len(sunSent) : sunSent[k] # sunSent[k - 1]
        /\ sunSent # <<>> => (isDaytime <=> sunSent[Len(sunSent)] = "SUNRISE")

(* If an event was handled in each minute since the list was loaded, and   *)
(* the item waited for was not due already then: every item whose minute   *)
(* has come and gone since was sent, and none in another minute than its   *)
(* own.                                                                    *)
DueExecuted ==
    /\ listening /\ ~skipped /\ ~behind =>
           \A k \in DOMAIN activities :
               DueAt(activities[k]) > loadedAt /\ DueAt(activities[k]) < Minute => k \in executed
    /\ ~astray

(* It hears of each minute, and nothing was due already at the load.       *)
Sure       == listening /\ ~skipped /\ ~behind
DueMinutes == [k \in DOMAIN activities |-> DueAt(activities[k])]

Promise == INSTANCE Agenda WITH
    minute <- Minute, due <- DueMinutes, done <- executed, since <- loadedAt, sure <- Sure

(* The scheduler keeps its agenda: no item of a list is sent twice; while  *)
(* it is sure, none is sent in another minute than its own, none is unsent *)
(* when its minute ends, and event_handler() gives no list up with an item *)
(* that is still to be sent.                                               *)
ImplementsAgenda == Promise!Spec
=============================================================================
