------------------------------- MODULE Timer --------------------------------
(***************************************************************************)
(* The timer process: AgoTimer in core/timer/agotimer.cpp.                 *)
(*                                                                         *)
(* clocktimer() sends an event every minute, suntimer() one at sunrise and *)
(* sunset.  Both are handlers of the one io thread, so either may be late  *)
(* (the other may be inside a request), and a timer may fire a little too  *)
(* early.  Time is counted in half minutes: 2m is the first half of minute *)
(* m, its second 30 included, and 2m + 1 the rest of it.                   *)
(***************************************************************************)
EXTENDS Integers, Sequences, FiniteSets

CONSTANTS
    MinutesPerDay,
    Sunrise, Sunset,               \* half minutes since midnight
    SunriseOffset, SunsetOffset,   \* options of the same name
    MaxTime,                       \* bound: the clock stops here
    MaxInbox,                      \* bound: events on their way to the scheduler
    MaxFaults                      \* bound: deaths of a process

ASSUME DayAssumption ==
    /\ MinutesPerDay \in Nat \ {0}
    /\ Sunrise \in Nat /\ Sunset \in Nat /\ Sunrise < Sunset /\ Sunset < 2 * MinutesPerDay
    /\ SunriseOffset \in Int /\ SunsetOffset \in Int
ASSUME TimeAssumption == MaxTime \in Nat /\ MaxInbox \in Nat /\ MaxFaults \in Nat

VARIABLES
    now,        \* the clock of the machine
    listening,  \* the scheduler is on the bus
    inbox,      \* timechanged events it has not handled: their minutes
    faults,
    next,       \* the minute periodicTimer expires at
    lastSent,   \* history: the minute of the last timechanged event
    sunAt,      \* when sunriseTimer expires
    newState,   \* the state suntimer() will then be called with
    isDaytime,  \* the resolver's variable
    sunSent,    \* history: the sun events, as long as sunLost is not set
    sunLost     \* history: one may have been lost, or the variable not set

clockVars == <<next, lastSent>>
sunVars   == <<sunAt, newState, isDaytime, sunSent, sunLost>>
timer     == <<clockVars, sunVars>>

Day(m)         == m \div MinutesPerDay
MinuteOfDay(m) == m % MinutesPerDay
Minute         == now \div 2    \* the current one

Fault == faults < MaxFaults /\ faults' = faults + 1

-----------------------------------------------------------------------------
(* clocktimer(): "make sure we are sending a nice and round timestamp"     *)
\* mutant of Rounded: the seconds are cut off
Rounded_Down == now \div 2
Rounded == (now + 1) \div 2

Distribute(m) ==
    \/ listening /\ Len(inbox) < MaxInbox /\ inbox' = Append(inbox, m)
    \/ ~listening /\ UNCHANGED inbox

ClockTimer ==
    /\ now >= 2 * next - 1
    /\ Distribute(Rounded)
    /\ lastSent' = Rounded
    /\ next' = Rounded + 1
    /\ UNCHANGED <<now, listening, faults, sunVars>>

-----------------------------------------------------------------------------
(* next_sunevent(): the boundary of the day is sunset + sunsetoffset, but  *)
(* the timer is set to sunset - sunsetoffset.                              *)
Midnight(d)  == 2 * MinutesPerDay * d
SunriseOf(d) == Midnight(d) + Sunrise + SunriseOffset
SunsetOf(d)  == Midnight(d) + Sunset + SunsetOffset
Unknown      == [next_state |-> "UNKNOWN", next_at |-> 0]

NextSunevent ==
    LET d == now \div (2 * MinutesPerDay)
        rise(e) == [next_state |-> "SUNRISE", next_at |-> SunriseOf(e)]
    IN  IF now < SunriseOf(d) THEN rise(d)
        ELSE IF now < SunsetOf(d)
        THEN [next_state |-> "SUNSET", next_at |-> Midnight(d) + Sunset - SunsetOffset]
        ELSE IF now < SunriseOf(d + 1) THEN rise(d + 1) ELSE Unknown

\* mutant of Again: nobody looks whether the state has changed
Again_Never(sun, state) == FALSE
Again(sun, state) == sun.next_state = state

(* Retries after 60 s without sun data, and after 30 s if it was too early *)
RetryLater(sun, state) ==
    /\ sun.next_state = "UNKNOWN" \/ Again(sun, state)
    /\ newState' = sun.next_state
    /\ sunAt' = now + (IF sun.next_state = "UNKNOWN" THEN 2 ELSE 1)
    /\ UNCHANGED <<isDaytime, sunSent, sunLost>>

(* Nobody looks whether setGlobalVariable() has succeeded.                 *)
SunChange(sun, state) ==
    /\ sun.next_state # "UNKNOWN" /\ ~Again(sun, state)
    /\ \/ isDaytime' = (sun.next_state = "SUNSET") /\ sunLost' = (sunLost \/ state = "UNKNOWN")
       \/ UNCHANGED isDaytime /\ sunLost' = TRUE
    /\ sunSent' = IF sunLost' THEN <<>> ELSE Append(sunSent, state)
    /\ newState' = sun.next_state
    /\ sunAt' = sun.next_at

(* suntimer(); GetSunriseSunset() may fail                                 *)
SunHandler(state) ==
    \E sun \in {NextSunevent, Unknown} : RetryLater(sun, state) \/ SunChange(sun, state)

SunTimer ==
    /\ now >= sunAt - 1
    /\ SunHandler(newState)
    /\ UNCHANGED <<now, listening, inbox, faults, clockVars>>

-----------------------------------------------------------------------------
(* The process dies and starts again: setupApp() calls both handlers,      *)
(* clocktimer() without sending an event.                                  *)
StartTimer ==
    /\ Fault
    /\ next' = Rounded + 1
    /\ SunHandler("UNKNOWN")
    /\ UNCHANGED <<now, listening, inbox, lastSent>>

TimerInit ==
    /\ now = 0 /\ inbox = <<>> /\ faults = 0
    /\ next = 1 /\ lastSent = 0
    /\ newState = NextSunevent.next_state /\ sunAt = NextSunevent.next_at
    /\ isDaytime = (NextSunevent.next_state = "SUNSET")
    /\ sunSent = <<>> /\ sunLost = FALSE

TimerOK ==
    /\ now \in 0..MaxTime
    /\ listening \in BOOLEAN
    /\ inbox \in Seq(Nat) /\ Len(inbox) <= MaxInbox
    /\ faults \in 0..MaxFaults
    /\ next \in Nat /\ lastSent \in Nat
    /\ sunAt \in Int
    /\ newState \in {"UNKNOWN", "SUNRISE", "SUNSET"}
    /\ isDaytime \in BOOLEAN
    /\ sunSent \in Seq({"SUNRISE", "SUNSET"})
    /\ sunLost \in BOOLEAN
=============================================================================
