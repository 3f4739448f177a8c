-------------------------- MODULE SchedulerProofs ---------------------------
(***************************************************************************)
(* Proofs about Scheduler and Timer, for days of any length, any items and *)
(* any bounds.                                                             *)
(***************************************************************************)
EXTENDS Scheduler, WellFoundedInduction, FiniteSetTheorems, TLAPS

-----------------------------------------------------------------------------
(***************************************************************************)
(* Numbers                                                                 *)
(***************************************************************************)
(* A nonempty set of numbers up to n has a smallest one.                   *)
LEMMA Least ==
    ASSUME NEW n \in Nat, NEW S \in SUBSET (1..n), S # {}
    PROVE  \E x \in S : \A y \in S : x <= y
<1> DEFINE upto(k) == 1..k
           T == {upto(k) : k \in S}
<1>1. IsFiniteSet(1..n)
  BY FS_Interval
<1>2. IsWellFoundedOn(StrictSubsetOrdering(1..n), SUBSET (1..n))
  BY <1>1, FS_StrictSubsetOrderingWellFounded, FS_FiniteSubsetsOfFinite
<1>3. T \subseteq SUBSET (1..n) /\ T # {}
  <2>1. PICK k \in S : TRUE
    OBVIOUS
  <2>2. upto(k) \in T
    BY <2>1
  <2> QED BY <2>2
<1> HIDE DEF T
<1>4. PICK t \in T : \A u \in T : <<u, t>> \notin StrictSubsetOrdering(1..n)
  BY <1>2, <1>3, WFMin
<1>5. PICK x \in S : t = upto(x)
  BY <1>4 DEF T
<1>6. ASSUME NEW y \in S PROVE x <= y
  <2>1. upto(y) \in T
    BY DEF T
  <2>2. ~(upto(y) \subseteq upto(x) /\ upto(y) # upto(x))
    <3>1. upto(y) \in SUBSET (1..n) /\ upto(x) \in SUBSET (1..n)
      OBVIOUS
    <3> HIDE DEF upto
    <3> QED BY <1>4, <1>5, <2>1, <3>1 DEF StrictSubsetOrdering
  <2>3. ASSUME y < x PROVE FALSE
    <3>1. x \in upto(x) /\ x \notin upto(y) /\ upto(y) \subseteq upto(x)
      BY <2>3
    <3> QED BY <3>1, <2>2
  <2> QED BY <2>3
<1> QED BY <1>6

(* The day and the minute of the day of a minute                           *)
LEMMA DayFacts ==
    ASSUME NEW m \in Nat
    PROVE  /\ Day(m) \in Nat /\ Weekday(m) \in 0..Weekdays - 1
           /\ MinuteOfDay(m) \in 0..MinutesPerDay - 1
           /\ Day(m) * MinutesPerDay \in Nat
           /\ m = Day(m) * MinutesPerDay + MinuteOfDay(m)
<1>1. MinutesPerDay \in Nat \ {0} /\ Weekdays \in Nat \ {0}
  BY DayAssumption, ItemsAssumption DEF DayAssumption, ItemsAssumption
<1>2. Day(m) \in Nat /\ MinuteOfDay(m) \in 0..MinutesPerDay - 1
      /\ m = Day(m) * MinutesPerDay + MinuteOfDay(m)
  BY <1>1 DEF Day, MinuteOfDay
<1>3. ASSUME NEW d \in Nat PROVE d % Weekdays \in 0..Weekdays - 1
  BY <1>1
<1>4. Day(m) * MinutesPerDay \in Nat
  BY <1>1, <1>2
<1> QED BY <1>2, <1>3, <1>4 DEF Weekday

LEMMA MinuteOfDayUnique ==
    ASSUME NEW m \in Nat, NEW d \in Nat, NEW t \in 0..MinutesPerDay - 1,
           m = d * MinutesPerDay + t
    PROVE  MinuteOfDay(m) = t
  BY DayAssumption DEF DayAssumption, MinuteOfDay

(* Rounding is at most to the next minute.                                 *)
LEMMA Rounding ==
    ASSUME now \in Nat
    PROVE  /\ Minute \in Nat /\ Rounded \in Nat
           /\ Minute <= Rounded /\ Rounded <= Minute + 1
  BY DEF Minute, Rounded

-----------------------------------------------------------------------------
(***************************************************************************)
(* Types                                                                   *)
(***************************************************************************)
SunData == [next_state : {"UNKNOWN", "SUNRISE", "SUNSET"}, next_at : Int]

LEMMA SunDataType ==
    ASSUME now \in Nat
    PROVE  NextSunevent \in SunData /\ Unknown \in SunData
<1>1. ASSUME NEW d \in Int
      PROVE  Midnight(d) \in Int /\ SunriseOf(d) \in Int
  BY DayAssumption DEF DayAssumption, Midnight, SunriseOf
<1>2. now \div (2 * MinutesPerDay) \in Int
  BY DayAssumption DEF DayAssumption
<1>3. Sunset \in Int /\ SunsetOffset \in Int
  BY DayAssumption DEF DayAssumption
<1> QED BY <1>1, <1>2, <1>3 DEF NextSunevent, Unknown, SunData

SunOK ==
    /\ sunAt \in Int
    /\ newState \in {"UNKNOWN", "SUNRISE", "SUNSET"}
    /\ isDaytime \in BOOLEAN
    /\ sunSent \in Seq({"SUNRISE", "SUNSET"})
    /\ sunLost \in BOOLEAN

LEMMA SunHandlerType ==
    ASSUME SunOK, now \in Nat, NEW state \in {"UNKNOWN", "SUNRISE", "SUNSET"},
           SunHandler(state)
    PROVE  SunOK'
<1>1. PICK sun \in {NextSunevent, Unknown} : RetryLater(sun, state) \/ SunChange(sun, state)
  BY DEF SunHandler
<1>2. sun.next_state \in {"UNKNOWN", "SUNRISE", "SUNSET"} /\ sun.next_at \in Int
  BY <1>1, SunDataType DEF SunData
<1>3. CASE RetryLater(sun, state)
  <2>1. sunAt' \in Int
    BY <1>3 DEF RetryLater
  <2> QED BY <1>2, <1>3, <2>1 DEF RetryLater, SunOK
<1>4. CASE SunChange(sun, state)
  <2>1. state # "UNKNOWN" \/ sunLost' = TRUE
    BY <1>4 DEF SunChange, SunOK
  <2>2. sunSent' \in Seq({"SUNRISE", "SUNSET"})
    <3>1. <<>> \in Seq({"SUNRISE", "SUNSET"})
      OBVIOUS
    <3>2. CASE state # "UNKNOWN"
      <4>1. Append(sunSent, state) \in Seq({"SUNRISE", "SUNSET"})
        BY <3>2 DEF SunOK
      <4> QED BY <1>4, <3>1, <4>1 DEF SunChange
    <3>3. CASE sunLost' = TRUE
      BY <1>4, <3>1, <3>3 DEF SunChange
    <3> QED BY <2>1, <3>2, <3>3
  <2>3. isDaytime' \in BOOLEAN
    BY <1>4 DEF SunChange, SunOK
  <2>4. sunLost' \in BOOLEAN
    BY <1>4 DEF SunChange, SunOK
  <2> QED BY <1>2, <1>4, <2>2, <2>3, <2>4 DEF SunChange, SunOK
<1> QED BY <1>1, <1>3, <1>4

ClockOK ==
    /\ now \in 0..MaxTime
    /\ listening \in BOOLEAN
    /\ inbox \in Seq(Nat) /\ Len(inbox) <= MaxInbox
    /\ faults \in 0..MaxFaults
    /\ next \in Nat /\ lastSent \in Nat

TypeInv == ClockOK /\ SunOK /\ SchedulerOK

LEMMA TypeParts == TypeInv => TypeOK
  BY DEF TypeInv, TypeOK, TimerOK, ClockOK, SunOK

LEMMA NowType == ASSUME ClockOK PROVE now \in Nat /\ Minute \in Nat /\ Rounded \in Nat
<1>1. now \in Nat
  BY TimeAssumption DEF TimeAssumption, ClockOK
<1> QED BY <1>1, Rounding

LEMMA DistributeType ==
    ASSUME ClockOK, NEW m \in Nat, Distribute(m)
    PROVE  inbox' \in Seq(Nat) /\ Len(inbox') <= MaxInbox
<1>1. CASE inbox' = Append(inbox, m) /\ Len(inbox) < MaxInbox
  BY <1>1, TimeAssumption DEF TimeAssumption, ClockOK
<1>2. CASE inbox' = inbox
  BY <1>2 DEF ClockOK
<1> QED BY <1>1, <1>2 DEF Distribute

(***************************************************************************)
(* The lists                                                               *)
(***************************************************************************)
LEMMA PlansType ==
    ASSUME NEW w, NEW acts \in Plans(w)
    PROVE  /\ acts \in Seq(Activities)
           /\ \A j, k \in 1..Len(acts) : j < k => Before(acts[j], acts[k])
<1> DEFINE planned == {i \in DOMAIN Items : w \in Items[i].days}
           n == Cardinality(planned)
<1>1. planned \subseteq 1..Len(Items) /\ Len(Items) \in Nat
  BY ItemsAssumption DEF ItemsAssumption
<1>2. IsFiniteSet(planned)
  BY <1>1, FS_Interval, FS_Subset
<1>3. n \in Nat
  BY <1>2, FS_CardinalityType
<1>4. acts \in [1..n -> Activities] /\ \A j, k \in DOMAIN acts : j < k => Before(acts[j], acts[k])
  BY DEF Plans
<1> HIDE DEF n
<1>5. acts \in Seq(Activities) /\ Len(acts) = n
  BY <1>3, <1>4
<1> QED BY <1>3, <1>4, <1>5

LEMMA ActivityType ==
    ASSUME NEW acts \in Seq(Activities), NEW k \in 1..Len(acts)
    PROVE  /\ acts[k].item \in DOMAIN Items
           /\ acts[k].time \in 0..MinutesPerDay - 1 /\ acts[k].time \in Nat
<1>1. acts[k] \in Activities
  OBVIOUS
<1>2. MinutesPerDay \in Nat
  BY DayAssumption DEF DayAssumption
<1> QED BY <1>1, <1>2 DEF Activities

LEMMA GetFirstFacts ==
    ASSUME NEW acts \in Seq(Activities), NEW when \in Nat
    PROVE  /\ GetFirst(acts, when) \in 0..Len(acts)
           /\ \A k \in 1..Len(acts) :
                 GetFirst(acts, when) = 0 \/ k < GetFirst(acts, when) => acts[k].time < when
<1> DEFINE later == {k \in DOMAIN acts : acts[k].time >= when}
           least(k) == \A j \in later : k <= j
<1>1. later \in SUBSET (1..Len(acts)) /\ Len(acts) \in Nat
  OBVIOUS
<1>2. \A k \in 1..Len(acts) : acts[k].time \in Nat /\ (k \notin later => acts[k].time < when)
  BY ActivityType
<1>3. GetFirst(acts, when) = IF later = {} THEN 0 ELSE CHOOSE k \in later : least(k)
  BY DEF GetFirst
<1>4. CASE later = {}
  BY <1>1, <1>2, <1>3, <1>4
<1>5. CASE later # {}
  <2> HIDE DEF later
  <2>1. \E k \in later : least(k)
    BY <1>1, <1>5, Least
  <2>2. GetFirst(acts, when) \in later /\ least(GetFirst(acts, when))
    <3> HIDE DEF least
    <3> QED BY <1>3, <1>5, <2>1
  <2>3. GetFirst(acts, when) \in 1..Len(acts)
    BY <1>1, <2>2
  <2>4. ASSUME NEW k \in 1..Len(acts), k < GetFirst(acts, when) PROVE k \notin later
    BY <2>2, <2>3, <2>4
  <2> QED BY <1>1, <1>2, <2>3, <2>4
<1> QED BY <1>4, <1>5

LEMMA LoadType ==
    ASSUME now \in Nat, NEW m \in Nat, NEW when \in Nat, Load(m, when), astray' \in BOOLEAN
    PROVE  SchedulerOK'
<1>1. weekdayno' \in 0..Weekdays - 1 /\ planDay' \in Nat
  BY DayFacts DEF Load
<1>2. activities' \in Seq(Activities)
  BY PlansType DEF Load
<1>3. nextItem' \in 0..Len(activities')
  BY <1>2, GetFirstFacts DEF Load
<1>4. loadedAt' \in Nat
  BY Rounding DEF Load
<1>5. behind' \in BOOLEAN
  BY DEF Load
<1>6. heard' \in BOOLEAN /\ skipped' \in BOOLEAN /\ executed' = {}
  BY DEF Load
<1> QED BY <1>1, <1>2, <1>3, <1>4, <1>5, <1>6 DEF SchedulerOK

(* The items sent are in the list, from the item waited for on.            *)
LEMMA DueType ==
    ASSUME SchedulerOK
    PROVE  /\ Due \subseteq 1..Len(activities)
           /\ IsFiniteSet(Due) /\ Cardinality(Due) \in Nat
           /\ Follow \in 0..Len(activities)
<1>1. Len(activities) \in Nat /\ nextItem \in 0..Len(activities)
  BY DEF SchedulerOK
<1>2. Due \subseteq 1..Len(activities)
  BY <1>1 DEF Due
<1>3. IsFiniteSet(Due) /\ Cardinality(Due) \in Nat
  <2>1. IsFiniteSet(1..Len(activities))
    BY <1>1, FS_Interval
  <2> QED BY <1>2, <2>1, FS_Subset, FS_CardinalityType
<1>4. Follow \in 0..Len(activities)
  BY <1>1, <1>3 DEF Follow
<1> QED BY <1>2, <1>3, <1>4

LEMMA SameDayType ==
    ASSUME SchedulerOK, NEW m, SameDay(m), astray' \in BOOLEAN
    PROVE  SchedulerOK'
<1>1. activities' \in Seq(Activities) /\ nextItem' \in 0..Len(activities')
  BY DueType DEF SameDay, SchedulerOK
<1>2. executed' \subseteq 1..Len(activities')
  BY DueType DEF SameDay, SchedulerOK
<1> QED BY <1>1, <1>2 DEF SameDay, SchedulerOK

LEMMA EventHandlerType == ASSUME TypeInv, EventHandler PROVE TypeInv'
<1>1. ClockOK /\ SunOK /\ SchedulerOK /\ now \in Nat /\ Minute \in Nat
  BY NowType DEF TypeInv
<1>2. Head(inbox) \in Nat /\ Tail(inbox) \in Seq(Nat) /\ Len(Tail(inbox)) = Len(inbox) - 1
  BY <1>1 DEF EventHandler, ClockOK
<1>3. SchedulerOK'
  <2>1. astray' \in BOOLEAN
    BY <1>1 DEF EventHandler, SchedulerOK
  <2>2. CASE SameDay(Head(inbox))
    BY <1>1, <2>1, <2>2, SameDayType
  <2>3. CASE NewDay(Head(inbox))
    BY <1>1, <1>2, <2>1, <2>3, LoadType DEF NewDay
  <2> QED BY <2>2, <2>3 DEF EventHandler
<1>4. ClockOK'
  BY <1>1, <1>2, TimeAssumption DEF TimeAssumption, EventHandler, ClockOK, timer, clockVars
<1>5. SunOK'
  BY <1>1 DEF EventHandler, SunOK, timer, sunVars
<1> QED BY <1>3, <1>4, <1>5 DEF TypeInv

LEMMA FaultType == ASSUME ClockOK, Fault PROVE faults' \in 0..MaxFaults
  BY TimeAssumption DEF TimeAssumption, ClockOK, Fault

LEMMA TypeInit == Init => TypeInv
<1> SUFFICES ASSUME Init PROVE TypeInv
  OBVIOUS
<1>1. ClockOK
  <2>1. inbox \in Seq(Nat) /\ Len(inbox) = 0
    BY DEF Init, TimerInit
  <2>2. now = 0 /\ faults = 0 /\ next = 1 /\ lastSent = 0 /\ listening = FALSE
    BY DEF Init, TimerInit
  <2>3. now \in 0..MaxTime
    BY <2>2, TimeAssumption DEF TimeAssumption
  <2>4. listening \in BOOLEAN
    BY <2>2
  <2>5. Len(inbox) <= MaxInbox
    BY <2>1, TimeAssumption DEF TimeAssumption
  <2>6. faults \in 0..MaxFaults
    BY <2>2, TimeAssumption DEF TimeAssumption
  <2>7. next \in Nat /\ lastSent \in Nat
    BY <2>2
  <2> QED BY <2>1, <2>3, <2>4, <2>5, <2>6, <2>7 DEF ClockOK
<1>2. SunOK
  <2>1. <<>> \in Seq({"SUNRISE", "SUNSET"})
    OBVIOUS
  <2>2. NextSunevent \in SunData
    BY <1>1, NowType, SunDataType
  <2> QED BY <2>1, <2>2 DEF Init, TimerInit, SunData, SunOK
<1>3. SchedulerOK
  <2>1. activities \in Seq(Activities) /\ Len(activities) = 0
    BY DEF Init
  <2>2. 0 \in 0..Weekdays - 1
    BY ItemsAssumption DEF ItemsAssumption
  <2>3. nextItem \in 0..Len(activities) /\ planDay \in Nat /\ loadedAt \in Nat
    BY <2>1 DEF Init
  <2>4. heard \in BOOLEAN /\ skipped \in BOOLEAN /\ behind \in BOOLEAN
    BY DEF Init
  <2>5. weekdayno \in 0..Weekdays - 1 /\ executed = {} /\ astray \in BOOLEAN
    BY <2>2 DEF Init
  <2> QED BY <2>1, <2>3, <2>4, <2>5 DEF SchedulerOK
<1> QED BY <1>1, <1>2, <1>3 DEF TypeInv

LEMMA TypeStep == ASSUME TypeInv, [Next]_vars PROVE TypeInv'
<1>1. ClockOK /\ SunOK /\ SchedulerOK /\ now \in Nat /\ Minute \in Nat /\ Rounded \in Nat
  BY NowType DEF TypeInv
<1>2. CASE ClockTimer /\ UNCHANGED scheduler
  <2>1. inbox' \in Seq(Nat) /\ Len(inbox') <= MaxInbox
    BY <1>1, <1>2, DistributeType DEF ClockTimer
  <2>2. ClockOK'
    BY <1>1, <1>2, <2>1 DEF ClockTimer, ClockOK
  <2>3. SunOK' /\ SchedulerOK'
    BY <1>1, <1>2 DEF ClockTimer, SunOK, sunVars, SchedulerOK, scheduler
  <2> QED BY <2>2, <2>3 DEF TypeInv
<1>3. CASE SunTimer /\ UNCHANGED scheduler
  <2>1. SunOK'
    <3>1. newState \in {"UNKNOWN", "SUNRISE", "SUNSET"} /\ SunHandler(newState)
      BY <1>1, <1>3 DEF SunTimer, SunOK
    <3> QED BY <1>1, <3>1, SunHandlerType
  <2>2. ClockOK' /\ SchedulerOK'
    BY <1>1, <1>3 DEF SunTimer, ClockOK, clockVars, SchedulerOK, scheduler
  <2> QED BY <2>1, <2>2 DEF TypeInv
<1>4. CASE StartTimer /\ UNCHANGED scheduler
  <2>1. SunOK'
    BY <1>1, <1>4, SunHandlerType DEF StartTimer
  <2>2. ClockOK'
    BY <1>1, <1>4, FaultType DEF StartTimer, ClockOK
  <2>3. SchedulerOK'
    BY <1>1, <1>4 DEF SchedulerOK, scheduler
  <2> QED BY <2>1, <2>2, <2>3 DEF TypeInv
<1>5. CASE SetupApp
  <2>1. SchedulerOK'
    <3>1. astray' \in BOOLEAN
      BY <1>1, <1>5 DEF SetupApp, SchedulerOK
    <3>2. Load(Minute, MinuteOfDay(Minute)) /\ MinuteOfDay(Minute) \in Nat
      BY <1>1, <1>5, DayFacts, DayAssumption DEF DayAssumption, SetupApp
    <3> QED BY <1>1, <3>1, <3>2, LoadType
  <2>2. ClockOK' /\ SunOK'
    BY <1>1, <1>5 DEF SetupApp, ClockOK, SunOK, timer, clockVars, sunVars
  <2> QED BY <2>1, <2>2 DEF TypeInv
<1>6. CASE EventHandler
  BY <1>6, EventHandlerType
<1>7. CASE Die
  <2>1. /\ activities' \in Seq(Activities) /\ Len(activities') = 0
        /\ inbox' \in Seq(Nat) /\ Len(inbox') = 0
    BY <1>7 DEF Die
  <2>2. ClockOK'
    <3>1. Len(inbox') <= MaxInbox
      BY <2>1, TimeAssumption DEF TimeAssumption
    <3>2. faults' \in 0..MaxFaults
      BY <1>1, <1>7, FaultType DEF Die
    <3>3. listening' \in BOOLEAN
      BY <1>7 DEF Die
    <3>4. now' = now /\ next' = next /\ lastSent' = lastSent
      BY <1>7 DEF Die, timer, clockVars
    <3> QED BY <1>1, <2>1, <3>1, <3>2, <3>3, <3>4 DEF ClockOK
  <2>3. SunOK'
    BY <1>1, <1>7 DEF Die, SunOK, timer, sunVars
  <2>4. SchedulerOK'
    BY <1>1, <1>7, <2>1 DEF Die, SchedulerOK
  <2> QED BY <2>2, <2>3, <2>4 DEF TypeInv
<1>8. CASE TimePasses
  <2>1. now' \in 0..MaxTime
    BY <1>1, <1>8, TimeAssumption DEF TimeAssumption, TimePasses
  <2>2. heard' \in BOOLEAN /\ skipped' \in BOOLEAN
    BY <1>1, <1>8 DEF TimePasses, SchedulerOK
  <2>3. ClockOK' /\ SunOK' /\ SchedulerOK'
    BY <1>1, <1>8, <2>1, <2>2
       DEF TimePasses, ClockOK, SunOK, SchedulerOK, timer, clockVars, sunVars
  <2> QED BY <2>3 DEF TypeInv
<1>9. CASE UNCHANGED vars
  BY <1>1, <1>9
     DEF TypeInv, vars, ClockOK, SunOK, SchedulerOK, timer, clockVars, sunVars, scheduler
<1> QED BY <1>2, <1>3, <1>4, <1>5, <1>6, <1>7, <1>8, <1>9 DEF Next

(* Every variable keeps its type, and the item waited for is in the list.  *)
THEOREM TypeCorrect == Spec => []TypeOK
  BY TypeInit, TypeStep, TypeParts, PTL DEF Spec

-----------------------------------------------------------------------------
(***************************************************************************)
(* The minutes sent                                                        *)
(***************************************************************************)
(* The next minute comes after the last one, which is not in the future    *)
(* once the clock is rounded; those on their way are sent ones, in order.  *)
InboxInv ==
    /\ \A k \in 1..Len(inbox) : inbox[k] <= lastSent
    /\ \A j, k \in 1..Len(inbox) : j < k => inbox[j] < inbox[k]

SentInv == lastSent < next /\ lastSent <= Rounded /\ InboxInv

LEMMA SentInit == Init => SentInv
<1> SUFFICES ASSUME Init PROVE SentInv
  OBVIOUS
<1>1. now = 0 /\ lastSent = 0 /\ next = 1
  BY DEF Init, TimerInit
<1>2. Len(inbox) = 0
  BY DEF Init, TimerInit
<1>3. Rounded = 0
  BY <1>1 DEF Rounded
<1> QED BY <1>1, <1>2, <1>3 DEF SentInv, InboxInv

(* A handler that is called early rounds up to the minute it waited for.   *)
LEMMA ClockTimerLater ==
    ASSUME ClockOK, SentInv, ClockTimer
    PROVE  Rounded \in Nat /\ lastSent < Rounded /\ lastSent' = Rounded
           /\ Rounded' = Rounded /\ next' = Rounded + 1
<1>1. now \in Nat /\ Rounded \in Nat /\ next \in Nat /\ lastSent \in Nat
  BY NowType DEF ClockOK
<1>2. now >= 2 * next - 1 /\ now' = now /\ lastSent' = Rounded /\ next' = Rounded + 1
  BY DEF ClockTimer
<1>3. Rounded >= next
  BY <1>1, <1>2 DEF Rounded
<1> QED BY <1>1, <1>2, <1>3 DEF SentInv, Rounded

LEMMA ClockTimerSent == ASSUME ClockOK, SentInv, ClockTimer PROVE SentInv'
<1>1. Rounded \in Nat /\ lastSent < Rounded /\ lastSent' = Rounded
      /\ Rounded' = Rounded /\ next' = Rounded + 1 /\ lastSent \in Nat
  BY ClockTimerLater DEF ClockOK
<1>2. CASE inbox' = inbox
  BY <1>1, <1>2 DEF SentInv, InboxInv, ClockOK
<1>3. CASE inbox' = Append(inbox, Rounded)
  <2>1. PICK m : m = Rounded
    OBVIOUS
  <2>2. m \in Nat /\ lastSent < m /\ inbox' = Append(inbox, m) /\ inbox \in Seq(Nat)
    BY <1>1, <1>3, <2>1 DEF ClockOK
  <2>3. Len(inbox') = Len(inbox) + 1 /\ inbox'[Len(inbox) + 1] = m
        /\ \A k \in 1..Len(inbox) : inbox'[k] = inbox[k] /\ inbox[k] \in Nat
    BY <2>2
  <2>4. \A k \in 1..Len(inbox) : inbox[k] < m
    BY <1>1, <2>2, <2>3 DEF SentInv, InboxInv
  <2>5. ASSUME NEW k \in 1..Len(inbox') PROVE inbox'[k] <= m
    BY <2>2, <2>3, <2>4, <2>5
  <2>6. ASSUME NEW j \in 1..Len(inbox'), NEW k \in 1..Len(inbox'), j < k
        PROVE  inbox'[j] < inbox'[k]
    <3>1. j \in 1..Len(inbox) /\ inbox'[j] = inbox[j]
      BY <2>2, <2>3, <2>6
    <3>2. CASE k = Len(inbox) + 1
      BY <2>3, <2>4, <3>1, <3>2
    <3>3. CASE k \in 1..Len(inbox)
      BY <2>3, <2>6, <3>1, <3>3 DEF SentInv, InboxInv
    <3> QED BY <2>2, <2>3, <3>2, <3>3
  <2> QED BY <1>1, <2>1, <2>5, <2>6 DEF SentInv, InboxInv
<1> QED BY <1>2, <1>3 DEF ClockTimer, Distribute

(* The scheduler takes the earliest, or forgets all of them.               *)
LEMMA TakenSent ==
    ASSUME ClockOK, SentInv, UNCHANGED <<now, next, lastSent>>,
           inbox' = inbox \/ inbox' = <<>> \/ (inbox # <<>> /\ inbox' = Tail(inbox))
    PROVE  SentInv'
<1>1. Rounded' = Rounded
  BY DEF Rounded
<1>2. CASE inbox' = inbox
  BY <1>1, <1>2 DEF SentInv, InboxInv
<1>3. CASE inbox' = <<>>
  <2>1. Len(inbox') = 0
    BY <1>3
  <2> QED BY <1>1, <2>1 DEF SentInv, InboxInv
<1>4. CASE inbox # <<>> /\ inbox' = Tail(inbox)
  <2>1. Len(inbox') = Len(inbox) - 1 /\ Len(inbox) \in Nat
        /\ \A k \in 1..Len(inbox') : inbox'[k] = inbox[k + 1] /\ k + 1 \in 1..Len(inbox)
    BY <1>4 DEF ClockOK
  <2>2. \A k \in 1..Len(inbox') : inbox'[k] <= lastSent'
    BY <2>1 DEF SentInv, InboxInv
  <2>3. \A j, k \in 1..Len(inbox') : j < k => inbox'[j] < inbox'[k]
    BY <2>1 DEF SentInv, InboxInv
  <2> QED BY <1>1, <2>2, <2>3 DEF SentInv, InboxInv
<1> QED BY <1>2, <1>3, <1>4

LEMMA SentStep == ASSUME TypeInv, SentInv, [Next]_vars PROVE SentInv'
<1>1. ClockOK /\ now \in Nat /\ Rounded \in Nat /\ next \in Nat /\ lastSent \in Nat
  BY NowType DEF TypeInv, ClockOK
<1>2. CASE ClockTimer
  BY <1>1, <1>2, ClockTimerSent
<1>3. CASE SunTimer
  BY <1>1, <1>3, TakenSent DEF SunTimer, clockVars
<1>4. CASE StartTimer
  <2>1. Rounded' = Rounded /\ next' = Rounded + 1 /\ lastSent' = lastSent /\ inbox' = inbox
    BY <1>4 DEF StartTimer, Rounded
  <2> QED BY <1>1, <2>1 DEF SentInv, InboxInv
<1>5. CASE SetupApp
  BY <1>1, <1>5, TakenSent DEF SetupApp, timer, clockVars
<1>6. CASE EventHandler
  BY <1>1, <1>6, TakenSent DEF EventHandler, timer, clockVars
<1>7. CASE Die
  BY <1>1, <1>7, TakenSent DEF Die, timer, clockVars
<1>8. CASE TimePasses
  <2>1. now' = now + 1 /\ next' = next /\ lastSent' = lastSent /\ inbox' = inbox
    BY <1>8 DEF TimePasses, timer, clockVars
  <2>2. Rounded <= Rounded' /\ Rounded' \in Nat
    BY <1>1, <2>1 DEF Rounded
  <2> QED BY <1>1, <2>1, <2>2 DEF SentInv, InboxInv
<1>9. CASE UNCHANGED vars
  BY <1>1, <1>9, TakenSent DEF vars, timer, clockVars
<1> QED BY <1>2, <1>3, <1>4, <1>5, <1>6, <1>7, <1>8, <1>9 DEF Next

LEMMA OneMoreIsLater ==
    ASSUME TypeInv, SentInv, [Next]_vars, Len(inbox') > Len(inbox)
    PROVE  inbox'[Len(inbox')] > lastSent
<1>1. ClockOK /\ Len(inbox) \in Nat
  BY DEF TypeInv, ClockOK
<1>2. CASE ClockTimer
  <2>1. PICK m : m = Rounded
    OBVIOUS
  <2>2. m \in Nat /\ lastSent < m
    BY <1>1, <1>2, <2>1, ClockTimerLater
  <2>3. inbox' = Append(inbox, m)
    BY <1>1, <1>2, <2>1 DEF ClockTimer, Distribute
  <2>4. inbox'[Len(inbox')] = m
    BY <1>1, <2>2, <2>3 DEF ClockOK
  <2> QED BY <1>1, <2>2, <2>4 DEF ClockOK
<1>3. CASE SunTimer \/ StartTimer \/ SetupApp \/ TimePasses \/ UNCHANGED vars
  <2>1. inbox' = inbox
    BY <1>3 DEF SunTimer, StartTimer, SetupApp, TimePasses, vars
  <2> QED BY <1>1, <2>1
<1>4. CASE EventHandler
  <2>1. Len(inbox') = Len(inbox) - 1
    BY <1>1, <1>4 DEF EventHandler, ClockOK
  <2> QED BY <1>1, <2>1
<1>5. CASE Die
  <2>1. Len(inbox') = 0
    BY <1>5 DEF Die
  <2> QED BY <1>1, <2>1
<1> QED BY <1>2, <1>3, <1>4, <1>5 DEF Next

(* clocktimer() never sends a minute again, nor an earlier one.            *)
THEOREM NeverTwiceCorrect == Spec => NeverTwice
<1>1. TypeInv /\ SentInv /\ [Next]_vars
          => [Len(inbox') > Len(inbox) => inbox'[Len(inbox')] > lastSent]_vars
  BY OneMoreIsLater
<1> QED BY TypeInit, TypeStep, SentInit, SentStep, <1>1, PTL DEF Spec, NeverTwice

-----------------------------------------------------------------------------
(***************************************************************************)
(* The sun                                                                 *)
(***************************************************************************)
(* The state suntimer() will be called with is not the last one sent.      *)
SunInv ==
    ~sunLost =>
        /\ \A k \in 2..Len(sunSent) : sunSent[k] # sunSent[k - 1]
        /\ sunSent # <<>> =>
               /\ isDaytime <=> sunSent[Len(sunSent)] = "SUNRISE"
               /\ newState # sunSent[Len(sunSent)]

LEMMA SunInit == Init => SunInv
<1> SUFFICES ASSUME Init PROVE SunInv
  OBVIOUS
<1>1. sunSent = <<>> /\ Len(sunSent) = 0
  BY DEF Init, TimerInit
<1> QED BY <1>1 DEF SunInv

LEMMA SunHandlerStep ==
    ASSUME SunOK, SunInv, now \in Nat, NEW state, SunHandler(state),
           state = newState \/ state = "UNKNOWN"
    PROVE  SunInv'
<1>1. PICK sun \in {NextSunevent, Unknown} : RetryLater(sun, state) \/ SunChange(sun, state)
  BY DEF SunHandler
<1>2. PICK s : s = sun.next_state
  OBVIOUS
<1>3. s \in {"UNKNOWN", "SUNRISE", "SUNSET"}
  BY <1>1, <1>2, SunDataType DEF SunData
<1> SUFFICES ASSUME ~sunLost' PROVE SunInv'
  BY DEF SunInv
<1>4. CASE RetryLater(sun, state)
  <2>1. (s = "UNKNOWN" \/ s = state) /\ newState' = s
        /\ isDaytime' = isDaytime /\ sunSent' = sunSent /\ sunLost' = sunLost
    BY <1>2, <1>4 DEF RetryLater, Again
  <2>2. ASSUME sunSent # <<>> PROVE sunSent[Len(sunSent)] # "UNKNOWN"
    <3>1. Len(sunSent) \in 1..Len(sunSent)
      BY <2>2 DEF SunOK
    <3>2. sunSent[Len(sunSent)] \in {"SUNRISE", "SUNSET"}
      BY <3>1 DEF SunOK
    <3> QED BY <3>2
  <2> QED BY <2>1, <2>2 DEF SunInv
<1>5. CASE SunChange(sun, state)
  <2>1. s # "UNKNOWN" /\ s # state /\ newState' = s
    BY <1>2, <1>5 DEF SunChange, Again
  <2>2. ~sunLost /\ state # "UNKNOWN" /\ (isDaytime' <=> s = "SUNSET")
    BY <1>2, <1>5 DEF SunChange, SunOK
  <2>3. state = newState /\ state \in {"SUNRISE", "SUNSET"}
    BY <2>2 DEF SunOK
  <2>4. sunSent' = Append(sunSent, state)
    BY <1>5 DEF SunChange
  <2>5. sunSent \in Seq({"SUNRISE", "SUNSET"})
    BY DEF SunOK
  <2>6. Len(sunSent') = Len(sunSent) + 1 /\ sunSent'[Len(sunSent')] = state
        /\ Len(sunSent) \in Nat /\ \A k \in 1..Len(sunSent) : sunSent'[k] = sunSent[k]
    BY <2>3, <2>4, <2>5
  <2>7. ASSUME NEW k \in 2..Len(sunSent') PROVE sunSent'[k] # sunSent'[k - 1]
    <3>1. CASE k \in 2..Len(sunSent)
      BY <2>2, <2>6, <3>1 DEF SunInv
    <3>2. CASE k = Len(sunSent) + 1
      <4>1. sunSent # <<>> /\ sunSent'[k - 1] = sunSent[Len(sunSent)]
        BY <2>6, <3>2
      <4> QED BY <2>2, <2>3, <2>6, <3>2, <4>1 DEF SunInv
    <3> QED BY <2>6, <3>1, <3>2
  <2> QED BY <1>3, <2>1, <2>2, <2>3, <2>6, <2>7 DEF SunInv
<1> QED BY <1>1, <1>4, <1>5

LEMMA SunStep == ASSUME TypeInv, SunInv, [Next]_vars PROVE SunInv'
<1>1. SunOK /\ now \in Nat
  BY NowType DEF TypeInv
<1>2. CASE SunTimer
  BY <1>1, <1>2, SunHandlerStep DEF SunTimer
<1>3. CASE StartTimer
  BY <1>1, <1>3, SunHandlerStep DEF StartTimer
<1>4. CASE ClockTimer \/ SetupApp \/ EventHandler \/ Die \/ TimePasses \/ UNCHANGED vars
  BY <1>4 DEF ClockTimer, SetupApp, EventHandler, Die, TimePasses, vars, timer, sunVars, SunInv
<1> QED BY <1>2, <1>3, <1>4 DEF Next

(* Sunrise and sunset alternate, and isDaytime agrees with the last one,   *)
(* unless an event was lost or the variable could not be set.              *)
THEOREM SunConsistentCorrect == Spec => []SunConsistent
<1>1. SunInv => SunConsistent
  BY DEF SunInv, SunConsistent
<1> QED BY TypeInit, TypeStep, SunInit, SunStep, <1>1, PTL DEF Spec

-----------------------------------------------------------------------------
(***************************************************************************)
(* The day's list                                                          *)
(***************************************************************************)
Sorted(acts) == \A j, k \in 1..Len(acts) : j <= k => acts[j].time <= acts[k].time

(* The list is that of a day that has begun, or begins in the next minute: *)
(* then the event that said so was early, and none is on its way.          *)
PlanInv ==
    \/ planDay * MinutesPerDay <= Minute
    \/ /\ planDay * MinutesPerDay <= lastSent
       /\ \A k \in 1..Len(inbox) : inbox[k] > planDay * MinutesPerDay

(* What comes before the item waited for was sent or was over when the     *)
(* list was loaded; that item is due now, if no event came in this minute, *)
(* or later.                                                               *)
ListInv ==
    listening /\ ~skipped /\ ~behind =>
        /\ \A k \in 1..Len(activities) :
               nextItem = 0 \/ k < nextItem =>
                   DueAt(activities[k]) <= loadedAt \/ k \in executed
        /\ nextItem # 0 => /\ DueAt(activities[nextItem]) >= Minute
                           /\ heard => DueAt(activities[nextItem]) > Minute

DayInv == Sorted(activities) /\ PlanInv /\ ListInv /\ ~astray

LEMMA DayBegins ==
    ASSUME SchedulerOK
    PROVE  planDay \in Nat /\ planDay * MinutesPerDay \in Nat /\ MinutesPerDay \in Nat \ {0}
  BY DayAssumption DEF DayAssumption, SchedulerOK

LEMMA DueAtType ==
    ASSUME SchedulerOK, NEW k \in 1..Len(activities)
    PROVE  /\ DueAt(activities[k]) = planDay * MinutesPerDay + activities[k].time
           /\ DueAt(activities[k]) \in Nat
           /\ activities[k].time \in 0..MinutesPerDay - 1 /\ activities[k].time \in Nat
  BY ActivityType, DayBegins DEF SchedulerOK, DueAt, OnDay

LEMMA PlansSorted == ASSUME NEW w, NEW acts \in Plans(w) PROVE Sorted(acts)
<1>1. acts \in Seq(Activities) /\ \A j, k \in 1..Len(acts) : j < k => Before(acts[j], acts[k])
  BY PlansType
<1>2. ASSUME NEW j \in 1..Len(acts), NEW k \in 1..Len(acts), j <= k
      PROVE  acts[j].time <= acts[k].time
  <2>1. acts[j].time \in Nat /\ acts[k].time \in Nat
    BY <1>1, ActivityType
  <2>2. j = k \/ j < k
    BY <1>1, <1>2
  <2> QED BY <1>1, <2>1, <2>2 DEF Before
<1> QED BY <1>2 DEF Sorted

LEMMA DayInit == Init => DayInv
<1> SUFFICES ASSUME Init PROVE DayInv
  OBVIOUS
<1>1. Sorted(activities)
  <2>1. Len(activities) = 0
    BY DEF Init
  <2> QED BY <2>1 DEF Sorted
<1>2. PlanInv
  <2>1. planDay = 0 /\ now = 0
    BY DEF Init, TimerInit
  <2>2. 0 * MinutesPerDay = 0
    BY DayAssumption DEF DayAssumption
  <2>3. Minute = 0
    BY <2>1 DEF Minute
  <2> QED BY <2>1, <2>2, <2>3 DEF PlanInv
<1>3. ListInv
  BY DEF Init, ListInv
<1>4. ~astray
  BY DEF Init
<1> QED BY <1>1, <1>2, <1>3, <1>4 DEF DayInv

(***************************************************************************)
(* A new list                                                              *)
(***************************************************************************)
LEMMA LoadList ==
    ASSUME now \in Nat, now' = now, NEW m \in Nat, NEW when \in Nat, Load(m, when),
           when = 0 \/ (m = Minute /\ when = MinuteOfDay(m))
    PROVE  Sorted(activities)' /\ ListInv'
<1>1. activities' \in Seq(Activities)
  BY PlansType DEF Load
<1>2. Sorted(activities')
  BY PlansSorted DEF Load
<1>3. GetFirst(activities', when) = nextItem' /\ planDay' = Day(m) /\ loadedAt' = Minute
      /\ executed' = {} /\ Minute' = Minute
  BY DEF Load, Minute
<1>4. nextItem' \in 0..Len(activities')
      /\ \A k \in 1..Len(activities') :
             nextItem' = 0 \/ k < nextItem' => activities'[k].time < when
  BY <1>1, <1>3, GetFirstFacts
<1>5. ASSUME NEW k \in 1..Len(activities'), nextItem' = 0 \/ k < nextItem'
      PROVE  DueAt(activities[k])' <= loadedAt'
  <2>1. activities'[k].time < when /\ activities'[k].time \in Nat
    BY <1>1, <1>4, <1>5, ActivityType
  <2>2. m = Minute /\ when = MinuteOfDay(m)
    BY <2>1
  <2>3. m = Day(m) * MinutesPerDay + MinuteOfDay(m) /\ Day(m) * MinutesPerDay \in Nat
        /\ MinuteOfDay(m) \in 0..MinutesPerDay - 1
    BY DayFacts
  <2>4. DueAt(activities[k])' = Day(m) * MinutesPerDay + activities'[k].time
    BY <1>3 DEF DueAt, OnDay
  <2> QED BY <1>3, <2>1, <2>2, <2>3, <2>4
<1>6. ASSUME nextItem' # 0, ~behind' PROVE DueAt(activities[nextItem])' > Minute'
  <2>1. OnDay(Day(m), activities'[nextItem']) > Minute
    <3>1. ~(OnDay(Day(m), activities'[nextItem']) <= Minute)
      BY <1>6 DEF Load
    <3>2. Day(m) * MinutesPerDay \in Nat /\ activities'[nextItem'].time \in Nat /\ Minute \in Nat
      BY <1>1, <1>4, <1>6, ActivityType, DayFacts, Rounding
    <3> QED BY <3>1, <3>2 DEF OnDay
  <2> QED BY <1>3, <2>1 DEF DueAt
<1>7. ASSUME nextItem' # 0, ~behind' PROVE DueAt(activities[nextItem])' >= Minute'
  <2>1. DueAt(activities[nextItem])' \in Int /\ Minute' \in Int
    <3>1. planDay' * MinutesPerDay \in Nat
      BY <1>3, DayFacts
    <3>2. activities'[nextItem'].time \in Nat
      BY <1>1, <1>4, <1>7, ActivityType
    <3>3. Minute' \in Nat
      BY <1>3, Rounding
    <3> QED BY <3>1, <3>2, <3>3 DEF DueAt, OnDay
  <2> QED BY <1>6, <1>7, <2>1
<1> QED BY <1>2, <1>3, <1>5, <1>6, <1>7 DEF ListInv

(* Later events are later than the day of the one that was handled.        *)
LEMMA LoadPlan ==
    ASSUME ClockOK, SentInv, EventHandler, NewDay(Head(inbox))
    PROVE  PlanInv'
<1>1. PICK m : m = Head(inbox)
  OBVIOUS
<1>2. inbox \in Seq(Nat) /\ inbox # <<>> /\ inbox' = Tail(inbox)
      /\ lastSent' = lastSent /\ lastSent \in Nat
  BY DEF EventHandler, ClockOK, timer, clockVars
<1>3. m \in Nat /\ m = inbox[1] /\ Len(inbox') = Len(inbox) - 1 /\ Len(inbox) \in Nat
      /\ \A k \in 1..Len(inbox') : inbox'[k] = inbox[k + 1] /\ k + 1 \in 2..Len(inbox)
                                   /\ inbox[k + 1] \in Nat
  BY <1>1, <1>2
<1>4. m <= lastSent /\ \A k \in 2..Len(inbox) : m < inbox[k]
  BY <1>2, <1>3 DEF SentInv, InboxInv
<1>5. planDay' = Day(m)
  BY <1>1 DEF NewDay, Load
<1>6. PICK b : b = Day(m) * MinutesPerDay
  OBVIOUS
<1>7. b \in Nat /\ b <= m
  <2>1. b \in Nat /\ m = b + MinuteOfDay(m) /\ MinuteOfDay(m) \in 0..MinutesPerDay - 1
    BY <1>3, <1>6, DayFacts
  <2>2. MinuteOfDay(m) \in Nat
    BY <2>1, DayAssumption DEF DayAssumption
  <2> QED BY <1>3, <2>1, <2>2
<1>8. b <= lastSent' /\ \A k \in 1..Len(inbox') : inbox'[k] > b
  BY <1>2, <1>3, <1>4, <1>7
<1> QED BY <1>5, <1>6, <1>8 DEF PlanInv

(***************************************************************************)
(* An event of the same day                                                *)
(***************************************************************************)
(* While an event is on its way the list's day has begun.                  *)
LEMMA HasBegun ==
    ASSUME TypeInv, SentInv, PlanInv, inbox # <<>>
    PROVE  planDay * MinutesPerDay <= Minute
<1>1. now \in Nat /\ Minute \in Nat /\ Rounded \in Nat /\ Rounded <= Minute + 1
      /\ lastSent \in Nat /\ lastSent <= Rounded
  BY NowType, Rounding DEF TypeInv, ClockOK, SentInv
<1>2. PICK b : b = planDay * MinutesPerDay
  OBVIOUS
<1>3. b \in Nat
  BY <1>2, DayBegins DEF TypeInv
<1>4. 1 \in 1..Len(inbox) /\ inbox[1] \in Nat
  BY DEF TypeInv, ClockOK
<1>5. inbox[1] <= lastSent
  BY <1>4 DEF SentInv, InboxInv
<1>6. b <= Minute \/ inbox[1] > b
  BY <1>2, <1>4 DEF PlanInv
<1> QED BY <1>1, <1>2, <1>3, <1>4, <1>5, <1>6

(* If the item waited for is due now or later, then it is due now exactly  *)
(* if it has the time of the day.                                          *)
LEMMA DueNow ==
    ASSUME SchedulerOK, Minute \in Nat, planDay * MinutesPerDay <= Minute,
           NEW k \in 1..Len(activities), DueAt(activities[k]) >= Minute
    PROVE  activities[k].time = MinuteOfDay(Minute) <=> DueAt(activities[k]) = Minute
<1>1. PICK b : b = planDay * MinutesPerDay
  OBVIOUS
<1>2. PICK t : t = activities[k].time
  OBVIOUS
<1>3. b \in Nat /\ t \in 0..MinutesPerDay - 1 /\ t \in Nat /\ DueAt(activities[k]) = b + t
      /\ planDay \in Nat /\ MinutesPerDay \in Nat
  BY <1>1, <1>2, DayBegins, DueAtType
<1>4. Minute - b \in 0..MinutesPerDay - 1 /\ Minute = b + (Minute - b)
  BY <1>1, <1>3
<1>5. MinuteOfDay(Minute) = Minute - b
  BY <1>1, <1>3, <1>4, MinuteOfDayUnique
<1> QED BY <1>2, <1>3, <1>5

(* The items of one time are next to each other.                           *)
LEMMA DueItems ==
    ASSUME SchedulerOK, Sorted(activities), nextItem # 0,
           activities[nextItem].time = MinuteOfDay(Minute)
    PROVE  /\ \A k \in Due : k \in 1..Len(activities)
                             /\ activities[k].time = activities[nextItem].time
           /\ \A k \in 1..Len(activities) :
                  k >= nextItem /\ (Follow = 0 \/ k < Follow) => k \in Due
           /\ Follow # 0 => /\ Follow \in 1..Len(activities)
                            /\ activities[Follow].time > activities[nextItem].time
<1>1. PICK n : n = Len(activities)
  OBVIOUS
<1>2. PICK i : i = nextItem
  OBVIOUS
<1>3. PICK t : t = activities[i].time
  OBVIOUS
<1>4. n \in Nat /\ i \in 1..n /\ t \in Nat
  BY <1>1, <1>2, <1>3, DueAtType DEF SchedulerOK
<1>5. Due = {k \in i..n : activities[k].time = t}
  BY <1>1, <1>2, <1>3 DEF Due
<1>6. \A k \in i..n : activities[k].time \in Nat /\ t <= activities[k].time
  <2>1. \A k \in 1..n : activities[k].time \in Nat
    BY <1>1, DueAtType
  <2> QED BY <1>1, <1>2, <1>3, <1>4, <2>1 DEF Sorted
<1> DEFINE S == {k \in i..n : activities[k].time # t}
<1>7. CASE S = {}
  <2>1. Due = i..n
    BY <1>5, <1>7
  <2>2. Cardinality(Due) = n - i + 1
    BY <1>4, <2>1, FS_Interval
  <2>3. Follow = 0
    BY <1>1, <1>2, <1>4, <2>2 DEF Follow
  <2> QED BY <1>1, <1>2, <1>3, <1>4, <1>5, <2>1, <2>3
<1>8. CASE S # {}
  <2>1. S \in SUBSET (1..n)
    BY <1>4
  <2>2. PICK j \in S : \A k \in S : j <= k
    <3> HIDE DEF S
    <3> QED BY <1>4, <1>8, <2>1, Least
  <2>3. j \in i..n /\ activities[j].time \in Nat /\ t < activities[j].time /\ j > i
    BY <1>3, <1>4, <1>6, <2>2
  <2>4. ASSUME NEW k \in i..n PROVE activities[k].time = t <=> k < j
    <3>1. CASE k < j
      BY <1>4, <2>2, <2>3, <2>4, <3>1
    <3>2. CASE j <= k
      <4>1. activities[j].time <= activities[k].time
        BY <1>1, <1>4, <2>3, <2>4, <3>2 DEF Sorted
      <4> QED BY <1>4, <1>6, <2>3, <2>4, <3>2, <4>1
    <3> QED BY <1>4, <2>3, <2>4, <3>1, <3>2
  <2>5. Due = i..j - 1
    BY <1>4, <1>5, <2>3, <2>4
  <2>6. Cardinality(Due) = j - i
    BY <1>4, <2>3, <2>5, FS_Interval
  <2>7. Follow = j
    BY <1>1, <1>2, <1>4, <2>3, <2>6 DEF Follow
  <2> QED BY <1>1, <1>2, <1>3, <1>4, <1>5, <2>3, <2>5, <2>7
<1> QED BY <1>7, <1>8

(* Nothing is sent, and the item waited for is still to come.              *)
LEMMA NothingDue ==
    ASSUME SchedulerOK, nextItem = 0 \/ activities[nextItem].time # MinuteOfDay(Minute)
    PROVE  Due = {} /\ Follow = nextItem
<1>1. Due = {}
  BY DEF Due
<1>2. Cardinality(Due) = 0
  BY <1>1, FS_EmptySet
<1>3. nextItem \in 0..Len(activities) /\ Len(activities) \in Nat
  BY DEF SchedulerOK
<1> QED BY <1>1, <1>2, <1>3 DEF Follow

LEMMA SameDayList ==
    ASSUME TypeInv, SentInv, DayInv, inbox # <<>>, now' = now, listening,
           NEW m, SameDay(m)
    PROVE  ListInv'
<1>1. SchedulerOK /\ Sorted(activities) /\ Minute \in Nat
      /\ planDay * MinutesPerDay <= Minute
  BY NowType, HasBegun DEF TypeInv, DayInv
<1>2. /\ activities' = activities /\ planDay' = planDay /\ loadedAt' = loadedAt
      /\ skipped' = skipped /\ behind' = behind /\ nextItem' = Follow /\ Minute' = Minute
  BY DEF SameDay, Minute
<1> SUFFICES ASSUME ~skipped, ~behind PROVE ListInv'
  BY <1>2 DEF ListInv
<1>3. /\ \A k \in 1..Len(activities) :
             nextItem = 0 \/ k < nextItem => DueAt(activities[k]) <= loadedAt \/ k \in executed
      /\ nextItem # 0 => DueAt(activities[nextItem]) >= Minute
  BY DEF DayInv, ListInv
<1>4. nextItem \in 0..Len(activities) /\ Len(activities) \in Nat
      /\ (nextItem # 0 => nextItem \in 1..Len(activities))
  BY <1>1 DEF SchedulerOK
<1>5. CASE nextItem = 0 \/ activities[nextItem].time # MinuteOfDay(Minute)
  <2>1. nextItem' = nextItem /\ Due = {}
    BY <1>1, <1>2, <1>5, NothingDue
  <2>2. executed' = executed
    BY <2>1 DEF SameDay
  <2>3. ASSUME nextItem # 0 PROVE DueAt(activities[nextItem]) > Minute
    <3>1. DueAt(activities[nextItem]) \in Nat
      BY <1>1, <1>4, <2>3, DueAtType
    <3>2. DueAt(activities[nextItem]) # Minute
      BY <1>1, <1>3, <1>4, <1>5, <2>3, DueNow
    <3> QED BY <1>1, <1>3, <2>3, <3>1, <3>2
  <2> QED BY <1>2, <1>3, <2>1, <2>2, <2>3 DEF ListInv, DueAt, OnDay
<1>6. CASE nextItem # 0 /\ activities[nextItem].time = MinuteOfDay(Minute)
  <2>1. DueAt(activities[nextItem]) = Minute
    BY <1>1, <1>3, <1>4, <1>6, DueNow
  <2>2. /\ \A k \in Due : k \in 1..Len(activities)
                          /\ activities[k].time = activities[nextItem].time
        /\ \A k \in 1..Len(activities) :
               k >= nextItem /\ (Follow = 0 \/ k < Follow) => k \in Due
        /\ Follow # 0 => /\ Follow \in 1..Len(activities)
                         /\ activities[Follow].time > activities[nextItem].time
    BY <1>1, <1>6, DueItems
  <2>3. executed' = executed \cup Due
    BY DEF SameDay
  <2>4. ASSUME NEW k \in 1..Len(activities), nextItem' = 0 \/ k < nextItem'
        PROVE  DueAt(activities[k])' <= loadedAt' \/ k \in executed'
    <3>1. DueAt(activities[k])' = DueAt(activities[k])
      BY <1>2 DEF DueAt
    <3>2. CASE k < nextItem
      BY <1>2, <1>3, <2>3, <3>1, <3>2
    <3>3. CASE k >= nextItem
      <4>1. k \in Due
        BY <1>2, <2>2, <2>4, <3>3
      <4> QED BY <2>3, <4>1
    <3> QED BY <1>4, <3>2, <3>3
  <2>5. ASSUME nextItem' # 0 PROVE DueAt(activities[nextItem])' > Minute'
    <3>1. PICK f : f = Follow
      OBVIOUS
    <3>2. f \in 1..Len(activities) /\ activities[f].time > activities[nextItem].time
          /\ nextItem' = f
      BY <1>2, <2>2, <2>5, <3>1
    <3>3. DueAt(activities[f]) = planDay * MinutesPerDay + activities[f].time
          /\ activities[f].time \in Nat
      BY <1>1, <3>2, DueAtType
    <3>4. DueAt(activities[nextItem]) = planDay * MinutesPerDay + activities[nextItem].time
          /\ activities[nextItem].time \in Nat /\ planDay * MinutesPerDay \in Nat
      BY <1>1, <1>4, <1>6, DueAtType, DayBegins
    <3>5. DueAt(activities[f]) > Minute
      BY <2>1, <3>2, <3>3, <3>4
    <3> QED BY <1>2, <3>2, <3>5 DEF DueAt, OnDay
  <2>6. ASSUME nextItem' # 0 PROVE DueAt(activities[nextItem])' >= Minute'
    <3>1. PICK f : f = Follow
      OBVIOUS
    <3>2. f \in 1..Len(activities) /\ nextItem' = f
      BY <1>2, <2>2, <2>6, <3>1
    <3>3. DueAt(activities[f]) \in Nat /\ DueAt(activities[nextItem])' = DueAt(activities[f])
      BY <1>1, <1>2, <3>2, DueAtType DEF DueAt, OnDay
    <3> QED BY <1>1, <1>2, <2>5, <2>6, <3>3
  <2> QED BY <1>2, <2>4, <2>5, <2>6 DEF ListInv
<1> QED BY <1>5, <1>6

(* What is sent is due now.                                                *)
LEMMA NoneAstray ==
    ASSUME TypeInv, SentInv, DayInv, inbox # <<>>, listening, ~skipped, ~behind, NEW k \in Due
    PROVE  DueAt(activities[k]) = Minute
<1>1. SchedulerOK /\ Sorted(activities) /\ Minute \in Nat
      /\ planDay * MinutesPerDay <= Minute
  BY NowType, HasBegun DEF TypeInv, DayInv
<1>2. nextItem # 0 /\ activities[nextItem].time = MinuteOfDay(Minute)
  BY DEF Due
<1>3. nextItem \in 1..Len(activities)
  BY <1>1, <1>2 DEF SchedulerOK
<1>4. DueAt(activities[nextItem]) = Minute
  <2>1. DueAt(activities[nextItem]) >= Minute
    BY <1>2 DEF DayInv, ListInv
  <2> QED BY <1>1, <1>2, <1>3, <2>1, DueNow
<1>5. k \in 1..Len(activities) /\ activities[k].time = activities[nextItem].time
  BY <1>1, <1>2, DueItems
<1> QED BY <1>4, <1>5 DEF DueAt, OnDay

LEMMA EventHandlerDay == ASSUME TypeInv, SentInv, DayInv, EventHandler PROVE DayInv'
<1>1. /\ inbox # <<>> /\ listening /\ now' = now /\ listening' = listening
      /\ lastSent' = lastSent /\ inbox' = Tail(inbox) /\ Minute' = Minute
  BY DEF EventHandler, timer, clockVars, Minute
<1>2. now \in Nat /\ ClockOK /\ SchedulerOK /\ Head(inbox) \in Nat
  BY <1>1, NowType DEF TypeInv, ClockOK
<1>3. ~astray'
  BY <1>1, NoneAstray DEF EventHandler, DayInv
<1>4. CASE SameDay(Head(inbox))
  <2>1. ListInv'
    BY <1>1, <1>4, SameDayList
  <2>2. Sorted(activities)'
    BY <1>4 DEF SameDay, DayInv
  <2>3. PlanInv'
    BY <1>1, <1>4, HasBegun DEF SameDay, PlanInv, DayInv
  <2> QED BY <1>3, <2>1, <2>2, <2>3 DEF DayInv
<1>5. CASE NewDay(Head(inbox))
  <2>1. PICK m : m = Head(inbox)
    OBVIOUS
  <2>2. m \in Nat /\ Load(m, 0)
    BY <1>2, <1>5, <2>1 DEF NewDay
  <2>3. Sorted(activities)' /\ ListInv'
    BY <1>1, <1>2, <2>2, LoadList
  <2>4. PlanInv'
    BY <1>2, <1>5, LoadPlan
  <2> QED BY <1>3, <2>3, <2>4 DEF DayInv
<1> QED BY <1>4, <1>5 DEF EventHandler

LEMMA SetupAppDay == ASSUME TypeInv, DayInv, SetupApp PROVE DayInv'
<1>1. now \in Nat /\ now' = now /\ Minute \in Nat /\ Minute' = Minute
  BY NowType DEF TypeInv, SetupApp, Minute
<1>2. PICK m : m = Minute
  OBVIOUS
<1>3. PICK w : w = MinuteOfDay(m)
  OBVIOUS
<1>4. w \in Nat /\ Load(m, w)
  <2>1. w \in 0..MinutesPerDay - 1 /\ MinutesPerDay \in Nat
    BY <1>1, <1>2, <1>3, DayFacts, DayAssumption DEF DayAssumption
  <2> QED BY <1>2, <1>3, <2>1 DEF SetupApp
<1>5. ~astray'
  BY DEF DayInv, SetupApp
<1>6. Sorted(activities)' /\ ListInv'
  BY <1>1, <1>2, <1>3, <1>4, LoadList
<1>7. PlanInv'
  <2>1. planDay' = Day(m)
    BY <1>4 DEF Load
  <2>2. m = Day(m) * MinutesPerDay + w /\ Day(m) * MinutesPerDay \in Nat
    BY <1>1, <1>2, <1>3, DayFacts
  <2>3. Day(m) * MinutesPerDay <= m
    BY <1>4, <2>2
  <2> QED BY <1>1, <1>2, <2>1, <2>3 DEF PlanInv
<1> QED BY <1>5, <1>6, <1>7 DEF DayInv

(* The minute ends: if an event was handled in it, the item waited for is  *)
(* due in a later one.                                                     *)
LEMMA TimePassesDay == ASSUME TypeInv, DayInv, TimePasses PROVE DayInv'
<1>1. now \in Nat /\ now' = now + 1 /\ Minute \in Nat /\ Minute' \in Nat /\ SchedulerOK
  <2>1. now \in Nat /\ SchedulerOK
    BY NowType DEF TypeInv
  <2>2. now' = now + 1
    BY DEF TimePasses
  <2> QED BY <2>1, <2>2 DEF Minute
<1>2. /\ inbox' = inbox /\ lastSent' = lastSent /\ listening' = listening
      /\ activities' = activities /\ nextItem' = nextItem /\ planDay' = planDay
      /\ loadedAt' = loadedAt /\ behind' = behind /\ executed' = executed
  BY DEF TimePasses, timer, clockVars
<1>3. Minute <= Minute' /\ Minute' <= Minute + 1 /\ (now % 2 # 1 => Minute' = Minute)
  BY <1>1 DEF Minute
<1>4. PlanInv'
  <2>1. PICK b : b = planDay * MinutesPerDay
    OBVIOUS
  <2>2. b \in Nat
    BY <1>1, <2>1, DayBegins
  <2>3. CASE b <= Minute
    BY <1>1, <1>2, <1>3, <2>1, <2>2, <2>3 DEF PlanInv
  <2>4. CASE ~(b <= Minute)
    BY <1>2, <2>1, <2>4 DEF PlanInv, DayInv
  <2> QED BY <2>3, <2>4
<1>5. ListInv'
  <2> SUFFICES ASSUME listening, ~skipped', ~behind PROVE ListInv'
    BY <1>2 DEF ListInv
  <2>1. ~skipped
    BY DEF TimePasses
  <2>2. ASSUME nextItem # 0
        PROVE  DueAt(activities[nextItem]) >= Minute'
               /\ (heard' => DueAt(activities[nextItem]) > Minute')
    <3>1. PICK x : x = DueAt(activities[nextItem])
      OBVIOUS
    <3>2. x \in Nat
      BY <1>1, <2>2, <3>1, DueAtType DEF SchedulerOK
    <3>3. x >= Minute /\ (heard => x > Minute)
      BY <2>1, <2>2, <3>1 DEF DayInv, ListInv
    <3>4. CASE now % 2 = 1
      <4>1. heard' = FALSE /\ heard
        BY <3>4 DEF TimePasses
      <4> QED BY <1>1, <1>3, <3>1, <3>2, <3>3, <4>1
    <3>5. CASE now % 2 # 1
      <4>1. heard' = heard
        BY <3>5 DEF TimePasses
      <4> QED BY <1>3, <3>1, <3>3, <3>5, <4>1
    <3> QED BY <3>4, <3>5
  <2> QED BY <1>2, <2>1, <2>2 DEF ListInv, DayInv, DueAt, OnDay
<1>6. Sorted(activities)'
  BY <1>2 DEF DayInv
<1>7. ~astray'
  BY DEF TimePasses, DayInv
<1> QED BY <1>4, <1>5, <1>6, <1>7 DEF DayInv

(* The timer's events                                                      *)
LEMMA ClockTimerDay ==
    ASSUME TypeInv, SentInv, DayInv, ClockTimer, UNCHANGED scheduler
    PROVE  DayInv'
<1>1. ClockOK /\ SchedulerOK
  BY DEF TypeInv
<1>2. PICK m : m = Rounded
  OBVIOUS
<1>3. m \in Nat /\ lastSent < m /\ lastSent' = m /\ lastSent \in Nat
  BY <1>1, <1>2, ClockTimerLater DEF ClockOK
<1>4. Minute' = Minute /\ planDay' = planDay /\ listening' = listening
  BY DEF ClockTimer, Minute, scheduler
<1>5. PICK b : b = planDay * MinutesPerDay
  OBVIOUS
<1>6. b \in Nat
  BY <1>1, <1>5, DayBegins
<1>7. CASE ~(b <= Minute)
  <2>1. b <= lastSent /\ \A k \in 1..Len(inbox) : inbox[k] > b
    BY <1>5, <1>7 DEF DayInv, PlanInv
  <2>2. \A k \in 1..Len(inbox') : inbox'[k] > b
    <3>1. CASE inbox' = inbox
      BY <2>1, <3>1
    <3>2. CASE inbox' = Append(inbox, m)
      <4>1. Len(inbox') = Len(inbox) + 1 /\ inbox'[Len(inbox) + 1] = m /\ Len(inbox) \in Nat
            /\ \A k \in 1..Len(inbox) : inbox'[k] = inbox[k]
        BY <1>1, <1>3, <3>2 DEF ClockOK
      <4>2. m > b
        BY <1>3, <1>6, <2>1
      <4> QED BY <2>1, <4>1, <4>2
    <3> QED BY <1>2, <3>1, <3>2 DEF ClockTimer, Distribute
  <2>3. b <= lastSent'
    BY <1>3, <1>6, <2>1
  <2> QED BY <1>4, <1>5, <2>2, <2>3 DEF DayInv, PlanInv, ListInv, scheduler, Sorted, DueAt
<1>8. CASE b <= Minute
  BY <1>4, <1>5, <1>8 DEF DayInv, PlanInv, ListInv, scheduler, Sorted, DueAt
<1> QED BY <1>7, <1>8

LEMMA DayUnchanged ==
    ASSUME DayInv, UNCHANGED <<now, listening, inbox, lastSent, scheduler>>
    PROVE  DayInv'
<1>1. Minute' = Minute
  BY DEF Minute
<1> QED BY <1>1 DEF DayInv, PlanInv, ListInv, scheduler, Sorted, DueAt

LEMMA DieDay == ASSUME TypeInv, DayInv, Die PROVE DayInv'
<1>1. Len(activities') = 0 /\ Len(inbox') = 0 /\ listening' = FALSE
      /\ now' = now /\ planDay' = planDay /\ lastSent' = lastSent /\ astray' = astray
  BY DEF Die, timer, clockVars
<1>2. Minute' = Minute
  BY <1>1 DEF Minute
<1> QED BY <1>1, <1>2 DEF DayInv, PlanInv, ListInv, Sorted

LEMMA DayStep == ASSUME TypeInv, SentInv, DayInv, [Next]_vars PROVE DayInv'
<1>1. CASE ClockTimer /\ UNCHANGED scheduler
  BY <1>1, ClockTimerDay
<1>2. CASE SunTimer /\ UNCHANGED scheduler
  BY <1>2, DayUnchanged DEF SunTimer, clockVars
<1>3. CASE StartTimer /\ UNCHANGED scheduler
  BY <1>3, DayUnchanged DEF StartTimer
<1>4. CASE SetupApp
  BY <1>4, SetupAppDay
<1>5. CASE EventHandler
  BY <1>5, EventHandlerDay
<1>6. CASE Die
  BY <1>6, DieDay
<1>7. CASE TimePasses
  BY <1>7, TimePassesDay
<1>8. CASE UNCHANGED vars
  BY <1>8, DayUnchanged DEF vars, timer, clockVars
<1> QED BY <1>1, <1>2, <1>3, <1>4, <1>5, <1>6, <1>7, <1>8 DEF Next

LEMMA DayImplies == ASSUME TypeInv, DayInv PROVE DueExecuted
<1> SUFFICES ASSUME listening, ~skipped, ~behind
             PROVE  \A k \in DOMAIN activities :
                        DueAt(activities[k]) > loadedAt /\ DueAt(activities[k]) < Minute
                            => k \in executed
  BY DEF DueExecuted, DayInv
<1>1. SchedulerOK /\ Minute \in Nat /\ activities \in Seq(Activities)
      /\ nextItem \in 0..Len(activities) /\ loadedAt \in Nat
  BY NowType DEF TypeInv, SchedulerOK
<1>2. ASSUME NEW k \in 1..Len(activities),
             DueAt(activities[k]) > loadedAt, DueAt(activities[k]) < Minute
      PROVE  k \in executed
  <2>1. PICK d : d = DueAt(activities[k])
    OBVIOUS
  <2>2. d \in Nat /\ d = planDay * MinutesPerDay + activities[k].time
        /\ activities[k].time \in Nat
    BY <1>1, <2>1, DueAtType
  <2>3. CASE nextItem = 0 \/ k < nextItem
    <3>1. d <= loadedAt \/ k \in executed
      BY <2>1, <2>3 DEF DayInv, ListInv
    <3> QED BY <1>1, <1>2, <2>1, <2>2, <3>1
  <2>4. CASE nextItem # 0 /\ nextItem <= k
    <3>1. PICK e : e = DueAt(activities[nextItem])
      OBVIOUS
    <3>2. nextItem \in 1..Len(activities)
      BY <1>1, <2>4
    <3>3. e \in Nat /\ e = planDay * MinutesPerDay + activities[nextItem].time
          /\ activities[nextItem].time \in Nat /\ planDay * MinutesPerDay \in Nat
      BY <1>1, <3>1, <3>2, DueAtType, DayBegins
    <3>4. activities[nextItem].time <= activities[k].time
      BY <2>4, <3>2 DEF DayInv, Sorted
    <3>5. e >= Minute
      BY <2>4, <3>1 DEF DayInv, ListInv
    <3> QED BY <1>1, <1>2, <2>1, <2>2, <3>3, <3>4, <3>5
  <2> QED BY <1>1, <2>3, <2>4
<1> QED BY <1>1, <1>2

(* Every item of the day's list is sent in its minute and in no other, if  *)
(* an event is handled in each minute and the list was loaded in time.     *)
THEOREM DueExecutedCorrect == Spec => []DueExecuted
  BY TypeInit, TypeStep, SentInit, SentStep, DayInit, DayStep, DayImplies, PTL DEF Spec

-----------------------------------------------------------------------------
(***************************************************************************)
(* The agenda                                                              *)
(*                                                                         *)
(* Nothing from the item waited for on was sent.  Events reach only a      *)
(* scheduler that listens; each is of the day of the list or a later one,  *)
(* and the list is that of its weekday.                                    *)
(***************************************************************************)
OnceInv == \A k \in executed : nextItem = 0 \/ k < nextItem

FirstInv ==
    /\ ~listening => inbox = <<>>
    /\ \A k \in 1..Len(inbox) : inbox[k] >= planDay * MinutesPerDay
    /\ weekdayno = planDay % Weekdays

AgendaInv == OnceInv /\ FirstInv

LEMMA LaterDays ==
    ASSUME NEW d \in Nat, NEW e \in Nat, NEW n \in Nat, d < e
    PROVE  d * n + n <= e * n
<1>1. PICK c \in Nat : e = d + 1 + c
  <2>1. e - d - 1 \in Nat /\ e = d + 1 + (e - d - 1)
    OBVIOUS
  <2> QED BY <2>1
<1>2. e * n = d * n + n + c * n
  BY <1>1
<1>3. c * n \in Nat /\ d * n \in Nat
  BY <1>1
<1> QED BY <1>2, <1>3

LEMMA AgendaInit == Init => AgendaInv
<1> SUFFICES ASSUME Init PROVE AgendaInv
  OBVIOUS
<1>1. executed = {} /\ inbox = <<>> /\ Len(inbox) = 0 /\ weekdayno = 0 /\ planDay = 0
  BY DEF Init, TimerInit
<1>2. 0 % Weekdays = 0
  BY ItemsAssumption DEF ItemsAssumption
<1> QED BY <1>1, <1>2 DEF AgendaInv, OnceInv, FirstInv

LEMMA AgendaUnchanged ==
    ASSUME AgendaInv, UNCHANGED <<listening, inbox, nextItem, weekdayno, planDay, executed>>
    PROVE  AgendaInv'
  BY DEF AgendaInv, OnceInv, FirstInv

LEMMA ClockTimerAgenda ==
    ASSUME TypeInv, SentInv, DayInv, AgendaInv, ClockTimer, UNCHANGED scheduler
    PROVE  AgendaInv'
<1>1. ClockOK /\ SchedulerOK
  BY DEF TypeInv
<1>2. PICK m : m = Rounded
  OBVIOUS
<1>3. m \in Nat /\ lastSent < m /\ lastSent \in Nat /\ Minute \in Nat /\ Minute <= m
  BY <1>1, <1>2, ClockTimerLater, NowType, Rounding DEF ClockOK
<1>4. PICK b : b = planDay * MinutesPerDay
  OBVIOUS
<1>5. b \in Nat /\ b <= m
  <2>1. b \in Nat
    BY <1>1, <1>4, DayBegins
  <2>2. b <= Minute \/ b <= lastSent
    BY <1>4 DEF DayInv, PlanInv
  <2> QED BY <1>3, <2>1, <2>2
<1>6. \A k \in 1..Len(inbox) : inbox[k] >= b
  BY <1>4 DEF AgendaInv, FirstInv
<1>7. (\A k \in 1..Len(inbox') : inbox'[k] >= b) /\ (~listening => inbox' = inbox)
  <2>1. CASE inbox' = inbox
    BY <1>6, <2>1
  <2>2. CASE listening /\ inbox' = Append(inbox, m)
    <3>1. Len(inbox') = Len(inbox) + 1 /\ inbox'[Len(inbox) + 1] = m /\ Len(inbox) \in Nat
          /\ \A k \in 1..Len(inbox) : inbox'[k] = inbox[k]
      BY <1>1, <1>3, <2>2 DEF ClockOK
    <3> QED BY <1>3, <1>5, <1>6, <2>2, <3>1
  <2> QED BY <1>2, <2>1, <2>2 DEF ClockTimer, Distribute
<1>8. listening' = listening /\ planDay' = planDay /\ weekdayno' = weekdayno
      /\ nextItem' = nextItem /\ executed' = executed
  BY DEF ClockTimer, scheduler
<1> QED BY <1>4, <1>7, <1>8 DEF AgendaInv, OnceInv, FirstInv

(* The events behind one that is handled                                   *)
LEMMA Behind ==
    ASSUME ClockOK, SentInv, inbox # <<>>, inbox' = Tail(inbox)
    PROVE  /\ Head(inbox) \in Nat /\ Head(inbox) = inbox[1] /\ 1 \in 1..Len(inbox)
           /\ Head(inbox) <= lastSent
           /\ \A k \in 1..Len(inbox') : /\ inbox'[k] \in Nat /\ inbox'[k] > Head(inbox)
                                        /\ k + 1 \in 1..Len(inbox) /\ inbox'[k] = inbox[k + 1]
<1>1. Head(inbox) \in Nat /\ Head(inbox) = inbox[1] /\ Len(inbox) \in Nat /\ 1 \in 1..Len(inbox)
      /\ Len(inbox') = Len(inbox) - 1
      /\ \A k \in 1..Len(inbox') : inbox'[k] = inbox[k + 1] /\ k + 1 \in 1..Len(inbox)
  BY DEF ClockOK
<1>2. Head(inbox) <= lastSent
  BY <1>1 DEF SentInv, InboxInv
<1>3. ASSUME NEW k \in 1..Len(inbox')
      PROVE  inbox'[k] \in Nat /\ inbox'[k] > Head(inbox)
  <2>1. k + 1 \in 1..Len(inbox) /\ inbox'[k] = inbox[k + 1] /\ 1 < k + 1
    BY <1>1
  <2>2. inbox[1] < inbox[k + 1]
    BY <1>1, <2>1 DEF SentInv, InboxInv
  <2>3. \A j \in 1..Len(inbox) : inbox[j] \in Nat
    BY DEF ClockOK
  <2> QED BY <1>1, <2>1, <2>2, <2>3
<1> QED BY <1>1, <1>2, <1>3

LEMMA SameDayOnce ==
    ASSUME TypeInv, DayInv, OnceInv, NEW m, SameDay(m)
    PROVE  OnceInv'
<1>1. SchedulerOK /\ Sorted(activities) /\ nextItem' = Follow /\ executed' = executed \cup Due
  BY DEF TypeInv, DayInv, SameDay
<1>2. nextItem \in 0..Len(activities) /\ Len(activities) \in Nat
      /\ executed \subseteq 1..Len(activities)
  BY <1>1 DEF SchedulerOK
<1>3. CASE nextItem = 0 \/ activities[nextItem].time # MinuteOfDay(Minute)
  <2>1. Due = {} /\ Follow = nextItem
    BY <1>1, <1>3, NothingDue
  <2> QED BY <1>1, <2>1 DEF OnceInv
<1>4. CASE nextItem # 0 /\ activities[nextItem].time = MinuteOfDay(Minute)
  <2>1. /\ \A k \in Due : k \in 1..Len(activities)
                          /\ activities[k].time = activities[nextItem].time
        /\ Follow # 0 => /\ Follow \in 1..Len(activities)
                         /\ activities[Follow].time > activities[nextItem].time
    BY <1>1, <1>4, DueItems
  <2>2. PICK f : f = Follow
    OBVIOUS
  <2>3. ASSUME f # 0, NEW k \in 1..Len(activities),
               activities[k].time <= activities[nextItem].time
        PROVE  k < f
    <3>1. f \in 1..Len(activities) /\ activities[f].time > activities[nextItem].time
      BY <2>1, <2>2, <2>3
    <3>2. activities[f].time \in Nat /\ activities[k].time \in Nat
          /\ activities[nextItem].time \in Nat
      BY <1>1, <1>2, <1>4, <3>1, DueAtType
    <3>3. f <= k => activities[f].time <= activities[k].time
      BY <1>1, <3>1 DEF Sorted
    <3>4. ~(f <= k)
      BY <2>3, <3>1, <3>2, <3>3
    <3>5. f \in Nat /\ k \in Nat
      BY <1>2, <3>1
    <3> QED BY <3>4, <3>5
  <2>4. ASSUME NEW k \in executed, f # 0 PROVE k < f
    <3>1. k \in 1..Len(activities) /\ k < nextItem
      BY <1>2, <1>4 DEF OnceInv
    <3>2. activities[k].time <= activities[nextItem].time
      BY <1>1, <1>2, <1>4, <3>1 DEF Sorted
    <3> QED BY <2>3, <2>4, <3>1, <3>2
  <2>5. ASSUME NEW k \in Due, f # 0 PROVE k < f
    <3>1. k \in 1..Len(activities) /\ activities[k].time = activities[nextItem].time
      BY <2>1
    <3>2. activities[k].time \in Nat
      BY <1>1, <3>1, DueAtType
    <3> QED BY <2>3, <2>5, <3>1, <3>2
  <2> QED BY <1>1, <2>2, <2>4, <2>5 DEF OnceInv
<1> QED BY <1>3, <1>4

LEMMA EventHandlerAgenda ==
    ASSUME TypeInv, SentInv, DayInv, AgendaInv, EventHandler
    PROVE  AgendaInv'
<1>1. inbox # <<>> /\ inbox' = Tail(inbox) /\ listening /\ listening' = listening /\ ClockOK
  BY DEF EventHandler, TypeInv
<1>2. PICK m : m = Head(inbox)
  OBVIOUS
<1>3. m \in Nat /\ \A k \in 1..Len(inbox') : inbox'[k] \in Nat /\ inbox'[k] > m
                      /\ k + 1 \in 1..Len(inbox) /\ inbox'[k] = inbox[k + 1]
  BY <1>1, <1>2, Behind
<1>4. CASE SameDay(m)
  <2>1. OnceInv'
    BY <1>4, SameDayOnce DEF AgendaInv
  <2>2. weekdayno' = weekdayno /\ planDay' = planDay
    BY <1>4 DEF SameDay
  <2> QED BY <1>1, <1>3, <2>1, <2>2 DEF AgendaInv, FirstInv
<1>5. CASE NewDay(m)
  <2>1. executed' = {} /\ planDay' = Day(m) /\ weekdayno' = planDay' % Weekdays
    BY <1>5 DEF NewDay, Load, Weekday
  <2>2. PICK b : b = Day(m) * MinutesPerDay
    OBVIOUS
  <2>3. b \in Nat /\ b <= m
    <3>1. MinuteOfDay(m) \in Nat
      BY <1>3, DayFacts, DayAssumption DEF DayAssumption
    <3> QED BY <1>3, <2>2, <3>1, DayFacts
  <2>4. \A k \in 1..Len(inbox') : inbox'[k] >= b
    BY <1>3, <2>3
  <2> QED BY <1>1, <2>1, <2>2, <2>4 DEF AgendaInv, OnceInv, FirstInv
<1> QED BY <1>2, <1>4, <1>5 DEF EventHandler

LEMMA AgendaStep ==
    ASSUME TypeInv, SentInv, DayInv, AgendaInv, [Next]_vars
    PROVE  AgendaInv'
<1>1. CASE ClockTimer /\ UNCHANGED scheduler
  BY <1>1, ClockTimerAgenda
<1>2. CASE (SunTimer \/ StartTimer) /\ UNCHANGED scheduler
  BY <1>2, AgendaUnchanged DEF SunTimer, StartTimer, scheduler
<1>3. CASE SetupApp
  <2>1. executed' = {} /\ planDay' = Day(Minute) /\ weekdayno' = planDay' % Weekdays
    BY <1>3 DEF SetupApp, Load, Weekday
  <2>2. Len(inbox') = 0 /\ listening'
    BY <1>3 DEF SetupApp, AgendaInv, FirstInv
  <2> QED BY <2>1, <2>2 DEF AgendaInv, OnceInv, FirstInv
<1>4. CASE EventHandler
  BY <1>4, EventHandlerAgenda
<1>5. CASE Die
  <2>1. inbox' = <<>> /\ Len(inbox') = 0 /\ executed' = {} /\ weekdayno' = weekdayno
        /\ planDay' = planDay
    BY <1>5 DEF Die
  <2> QED BY <2>1 DEF AgendaInv, OnceInv, FirstInv
<1>6. CASE TimePasses
  BY <1>6, AgendaUnchanged DEF TimePasses
<1>7. CASE UNCHANGED vars
  BY <1>7, AgendaUnchanged DEF vars, scheduler
<1> QED BY <1>1, <1>2, <1>3, <1>4, <1>5, <1>6, <1>7 DEF Next

(***************************************************************************)
(* Each step keeps the promise.                                            *)
(***************************************************************************)
(* What is sent was not sent before.                                       *)
LEMMA DueIsNew ==
    ASSUME TypeInv, DayInv, OnceInv
    PROVE  Due \subseteq DOMAIN DueMinutes \ executed
<1>1. SchedulerOK /\ Sorted(activities)
  BY DEF TypeInv, DayInv
<1>2. nextItem \in 0..Len(activities) /\ Len(activities) \in Nat
      /\ DOMAIN DueMinutes = 1..Len(activities)
  BY <1>1 DEF SchedulerOK, DueMinutes
<1>3. ASSUME NEW k \in Due PROVE k \in 1..Len(activities) /\ k \notin executed
  <2>1. nextItem # 0 /\ k \in nextItem..Len(activities)
    BY DEF Due
  <2>2. ~(k < nextItem)
    BY <1>2, <2>1
  <2> QED BY <1>2, <2>1, <2>2 DEF OnceInv
<1> QED BY <1>2, <1>3

LEMMA SendsInTime ==
    ASSUME TypeInv, SentInv, DayInv, OnceInv, inbox # <<>>
    PROVE  Promise!MaySend(Due)
<1>1. Due \subseteq DOMAIN DueMinutes \ executed
  BY DueIsNew
<1>2. ASSUME Sure, NEW k \in Due PROVE DueMinutes[k] = Minute
  <2>1. DueAt(activities[k]) = Minute
    BY <1>2, NoneAstray DEF Sure
  <2>2. k \in DOMAIN activities
    BY <1>1 DEF DueMinutes
  <2> QED BY <2>1, <2>2 DEF DueMinutes
<1> QED BY <1>1, <1>2 DEF Promise!MaySend

(* An event of another weekday than the list's comes when all of the list  *)
(* is over, or early: then what is left is due in this minute.             *)
LEMMA LeftIsDue ==
    ASSUME TypeInv, SentInv, DayInv, AgendaInv, Sure, inbox # <<>>,
           weekdayno # Weekday(Head(inbox)), NEW k \in Promise!Left
    PROVE  k \in Due
<1>1. SchedulerOK /\ ClockOK /\ Sorted(activities) /\ Minute \in Nat /\ now \in Nat
      /\ listening /\ ~skipped /\ ~behind
  BY NowType DEF TypeInv, DayInv, Sure
<1>2. k \in 1..Len(activities) /\ DueAt(activities[k]) > loadedAt /\ k \notin executed
  <2>1. k \in DOMAIN activities
    BY DEF Promise!Left, DueMinutes
  <2> QED BY <1>1, <2>1 DEF Promise!Left, DueMinutes, SchedulerOK
<1>3. loadedAt \in Nat /\ planDay \in Nat /\ MinutesPerDay \in Nat
      /\ nextItem \in 0..Len(activities) /\ Len(activities) \in Nat
  BY <1>1, DayBegins DEF SchedulerOK
<1>4. PICK m : m = Head(inbox)
  OBVIOUS
<1>5. PICK d : d = DueAt(activities[k])
  OBVIOUS
<1>6. PICK b : b = planDay * MinutesPerDay
  OBVIOUS
<1>7. d \in Nat /\ b \in Nat /\ d < b + MinutesPerDay
  <2>1. b \in Nat
    BY <1>1, <1>6, DayBegins
  <2>2. PICK t : t = activities[k].time
    OBVIOUS
  <2>3. d = b + t /\ d \in Nat /\ t \in 0..MinutesPerDay - 1
    BY <1>1, <1>2, <1>5, <1>6, <2>2, DueAtType
  <2> QED BY <1>3, <2>1, <2>3
<1>8. m \in Nat /\ b <= m /\ m <= Minute + 1
  <2>1. m = inbox[1] /\ 1 \in 1..Len(inbox) /\ m \in Nat
    BY <1>1, <1>4 DEF ClockOK
  <2>2. m <= lastSent
    BY <2>1 DEF SentInv, InboxInv
  <2>3. Rounded \in Nat /\ Rounded <= Minute + 1 /\ lastSent <= Rounded /\ lastSent \in Nat
    BY <1>1, Rounding DEF ClockOK, SentInv
  <2>4. b <= m
    BY <1>6, <2>1 DEF AgendaInv, FirstInv
  <2> QED BY <1>1, <2>1, <2>2, <2>3, <2>4
<1>9. b + MinutesPerDay <= m
  <2>1. Day(m) \in Nat /\ MinuteOfDay(m) \in 0..MinutesPerDay - 1
        /\ m = Day(m) * MinutesPerDay + MinuteOfDay(m)
    BY <1>8, DayFacts
  <2>2. Day(m) # planDay
    BY <1>4 DEF Weekday, AgendaInv, FirstInv
  <2>3. PICK e : e = Day(m) * MinutesPerDay
    OBVIOUS
  <2>4. e \in Nat /\ m < e + MinutesPerDay /\ e <= m
    <3>1. e \in Nat
      BY <1>8, <2>3, DayFacts
    <3>2. PICK t : t = MinuteOfDay(m)
      OBVIOUS
    <3>3. t \in 0..MinutesPerDay - 1 /\ m = e + t
      BY <2>1, <2>3, <3>2
    <3> QED BY <1>3, <3>1, <3>3
  <2>5. ASSUME Day(m) < planDay PROVE FALSE
    <3>1. e + MinutesPerDay <= b
      BY <1>3, <1>6, <2>1, <2>3, <2>5, LaterDays
    <3> QED BY <1>3, <1>7, <1>8, <2>4, <3>1
  <2>6. planDay < Day(m)
    BY <1>3, <2>1, <2>2, <2>5
  <2>7. b + MinutesPerDay <= e
    BY <1>3, <1>6, <2>1, <2>3, <2>6, LaterDays
  <2> QED BY <1>3, <1>7, <1>8, <2>4, <2>7
<1>10. d <= Minute
  BY <1>1, <1>3, <1>7, <1>8, <1>9
<1>11. nextItem # 0 /\ nextItem <= k
  <2>1. ~(d <= loadedAt)
    BY <1>2, <1>3, <1>5, <1>7
  <2>2. ~(nextItem = 0 \/ k < nextItem)
    BY <1>1, <1>2, <1>5, <2>1 DEF DayInv, ListInv
  <2> QED BY <1>2, <1>3, <2>2
<1>12. PICK e : e = DueAt(activities[nextItem])
  OBVIOUS
<1>13. nextItem \in 1..Len(activities) /\ e >= Minute
  BY <1>1, <1>3, <1>11, <1>12 DEF DayInv, ListInv
<1>14. e \in Nat /\ e <= d
  <2>1. activities[nextItem].time <= activities[k].time
    BY <1>1, <1>2, <1>11, <1>13 DEF Sorted
  <2>2. e = b + activities[nextItem].time /\ d = b + activities[k].time
        /\ activities[nextItem].time \in Nat /\ activities[k].time \in Nat
    BY <1>1, <1>2, <1>5, <1>6, <1>12, <1>13, DueAtType
  <2> QED BY <1>7, <2>1, <2>2
<1>15. d = Minute /\ e = Minute
  BY <1>1, <1>7, <1>10, <1>13, <1>14
<1>16. b <= Minute
  BY <1>6, HasBegun DEF DayInv
<1>17. /\ activities[nextItem].time = MinuteOfDay(Minute)
       /\ activities[k].time = MinuteOfDay(Minute)
  BY <1>1, <1>2, <1>5, <1>6, <1>12, <1>13, <1>15, <1>16, DueNow
<1>18. k \in nextItem..Len(activities)
  BY <1>2, <1>3, <1>11
<1> QED BY <1>11, <1>17, <1>18 DEF Due

LEMMA PromiseInit == Init => Promise!Init
<1> SUFFICES ASSUME Init PROVE Promise!Init
  OBVIOUS
<1>1. now = 0 /\ listening = FALSE /\ activities = <<>> /\ executed = {} /\ loadedAt = 0
  BY DEF Init, TimerInit
<1>2. Minute = 0
  BY <1>1 DEF Minute
<1>3. DOMAIN DueMinutes = {}
  BY <1>1 DEF DueMinutes
<1> QED BY <1>1, <1>2, <1>3 DEF Promise!Init, Sure

LEMMA PromiseUnchanged ==
    ASSUME Minute' = Minute,
           UNCHANGED <<listening, activities, planDay, executed, loadedAt, skipped, behind>>
    PROVE  UNCHANGED Promise!vars
  BY DEF Promise!vars, DueMinutes, DueAt, OnDay, Sure

LEMMA EventHandlerPromise ==
    ASSUME TypeInv, SentInv, DayInv, AgendaInv, EventHandler
    PROVE  Promise!Next
<1>1. inbox # <<>> /\ listening' = listening /\ Minute' = Minute
  BY DEF EventHandler, Minute
<1>2. Promise!MaySend(Due) /\ Due \in SUBSET DOMAIN DueMinutes
  BY <1>1, SendsInTime, DueIsNew DEF AgendaInv
<1>3. CASE SameDay(Head(inbox))
  <2>1. DueMinutes' = DueMinutes /\ loadedAt' = loadedAt /\ Sure' = Sure
    BY <1>1, <1>3 DEF SameDay, DueMinutes, DueAt, OnDay, Sure
  <2>2. executed' = executed \cup Due
    BY <1>3 DEF SameDay
  <2>3. Promise!Send
    BY <1>1, <1>2, <2>1, <2>2 DEF Promise!Send
  <2> QED BY <2>3 DEF Promise!Next
<1>4. CASE NewDay(Head(inbox))
  <2>1. executed' = {} /\ loadedAt' = Minute
    BY <1>4 DEF NewDay, Load
  <2>2. Sure => Promise!Left \subseteq Due
    BY <1>1, <1>4, LeftIsDue DEF NewDay
  <2>3. Promise!Change
    BY <1>1, <1>2, <2>1, <2>2 DEF Promise!Change
  <2> QED BY <2>3 DEF Promise!Next
<1> QED BY <1>3, <1>4 DEF EventHandler

LEMMA TimePassesPromise ==
    ASSUME TypeInv, TimePasses, DueExecuted'
    PROVE  Promise!Next \/ UNCHANGED Promise!vars
<1>1. now \in Nat /\ now' = now + 1 /\ Minute \in Nat
  BY NowType DEF TypeInv, TimePasses
<1>2. UNCHANGED <<listening, activities, planDay, executed, loadedAt, behind>>
  BY DEF TimePasses
<1>3. CASE now % 2 # 1
  <2>1. Minute' = Minute
    BY <1>1, <1>3 DEF Minute
  <2>2. skipped' = skipped
    BY <1>3 DEF TimePasses
  <2> QED BY <1>2, <2>1, <2>2, PromiseUnchanged
<1>4. CASE now % 2 = 1
  <2>1. Minute' = Minute + 1
    BY <1>1, <1>4 DEF Minute
  <2>2. DueMinutes' = DueMinutes
    BY <1>2 DEF DueMinutes, DueAt, OnDay
  <2>3. Sure' <=> listening /\ ~skipped' /\ ~behind
    BY <1>2 DEF Sure
  <2>4. ~skipped' => ~skipped
    BY DEF TimePasses
  <2>5. Sure' => Sure
    BY <2>3, <2>4 DEF Sure
  <2>6. ASSUME Sure', NEW k \in Promise!Left PROVE DueMinutes[k] > Minute
    <3>1. k \in DOMAIN activities /\ DueMinutes[k] = DueAt(activities[k])
          /\ DueAt(activities[k]) > loadedAt /\ k \notin executed
      BY DEF Promise!Left, DueMinutes
    <3>2. ~(DueAt(activities[k]) < Minute + 1)
      <4>1. \A j \in DOMAIN activities' :
                DueAt(activities[j])' > loadedAt' /\ DueAt(activities[j])' < Minute'
                    => j \in executed'
        BY <1>2, <2>3, <2>6 DEF DueExecuted
      <4>2. DueAt(activities[k])' = DueAt(activities[k])
        BY <1>2 DEF DueAt, OnDay
      <4> QED BY <1>2, <2>1, <3>1, <4>1, <4>2
    <3>3. DueAt(activities[k]) \in Nat
      <4>1. SchedulerOK /\ k \in 1..Len(activities)
        BY <3>1 DEF TypeInv, SchedulerOK
      <4> QED BY <4>1, DueAtType
    <3> QED BY <1>1, <3>1, <3>2, <3>3
  <2>7. Promise!MinuteEnds
    BY <1>2, <2>1, <2>2, <2>5, <2>6 DEF Promise!MinuteEnds
  <2> QED BY <2>7 DEF Promise!Next
<1> QED BY <1>3, <1>4

LEMMA PromiseStep ==
    ASSUME TypeInv, SentInv, DayInv, AgendaInv, [Next]_vars, DueExecuted'
    PROVE  [Promise!Next]_Promise!vars
<1>1. CASE ClockTimer /\ UNCHANGED scheduler
  <2>1. Minute' = Minute /\ listening' = listening
    BY <1>1 DEF ClockTimer, Minute
  <2> QED BY <1>1, <2>1, PromiseUnchanged DEF scheduler
<1>2. CASE (SunTimer \/ StartTimer) /\ UNCHANGED scheduler
  <2>1. Minute' = Minute /\ listening' = listening
    BY <1>2 DEF SunTimer, StartTimer, Minute
  <2> QED BY <1>2, <2>1, PromiseUnchanged DEF scheduler
<1>3. CASE SetupApp
  <2>1. ~Sure /\ Minute' = Minute
    BY <1>3 DEF SetupApp, Sure, Minute
  <2>2. executed' = {} /\ loadedAt' = Minute
    BY <1>3 DEF SetupApp, Load
  <2>3. Promise!MaySend({})
    BY DEF Promise!MaySend
  <2>4. Promise!Change
    BY <2>1, <2>2, <2>3 DEF Promise!Change
  <2> QED BY <2>4 DEF Promise!Next
<1>4. CASE EventHandler
  BY <1>4, EventHandlerPromise
<1>5. CASE Die
  <2>1. Minute' = Minute /\ loadedAt' = loadedAt /\ executed' = {}
    BY <1>5 DEF Die, Minute
  <2>2. DOMAIN DueMinutes' = {} /\ Sure' = FALSE
    BY <1>5 DEF Die, DueMinutes, Sure
  <2>3. Promise!Stop
    BY <2>1, <2>2 DEF Promise!Stop
  <2> QED BY <2>3 DEF Promise!Next
<1>6. CASE TimePasses
  BY <1>6, TimePassesPromise
<1>7. CASE UNCHANGED vars
  <2>1. Minute' = Minute
    BY <1>7 DEF vars, Minute
  <2> QED BY <1>7, <2>1, PromiseUnchanged DEF vars, scheduler
<1> QED BY <1>1, <1>2, <1>3, <1>4, <1>5, <1>6, <1>7 DEF Next

(* The scheduler keeps its agenda: no item is sent twice, none in another  *)
(* minute than its own, and no list is given up with an item to be sent.   *)
THEOREM ImplementsAgendaCorrect == Spec => ImplementsAgenda
<1>1. TypeInv /\ SentInv /\ DayInv /\ AgendaInv /\ DueExecuted' /\ [Next]_vars
          => [Promise!Next]_Promise!vars
  BY PromiseStep
<1> QED
  BY TypeInit, TypeStep, SentInit, SentStep, DayInit, DayStep, AgendaInit, AgendaStep,
     PromiseInit, DueExecutedCorrect, <1>1, PTL DEF Spec, ImplementsAgenda, Promise!Spec

=============================================================================
