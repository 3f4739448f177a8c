--------------------------- MODULE SecurityProofs ---------------------------
(***************************************************************************)
(* Theorems about the security controller, for every number of alarm       *)
(* threads and restarts, and every configuration.                          *)
(***************************************************************************)
EXTENDS Security, FiniteSetTheorems, TLAPS


\* The document of an unreadable map file is a security map.
LEMMA EmptyMapType == EmptyMap \in SecurityMaps
  BY DEF EmptyMap, SecurityMaps

\* The initial states have the types.
LEMMA InitType == Init => TypeOK
<1> USE BoundsAssumption, InputAssumption
    DEF BoundsAssumption, InputAssumption, Init, Actors, Alarms, Main
<1>1. Init => MapsOK
  BY DEF MapsOK, SecurityMaps, EmptyMap
<1>2. Init => ConfigOK
  BY DEF ConfigOK
<1>3. Init => PositionsOK
  BY DEF PositionsOK, MainPCs, AlarmPCs
<1>4. Init => ThreadsOK
  BY DEF ThreadsOK, AlarmZones, NoZone
<1>5. Init => FlagsOK /\ OutputOK
  BY DEF FlagsOK, OutputOK
<1>6. Init => CountsOK
  BY DEF CountsOK
<1> QED BY <1>1, <1>2, <1>3, <1>4, <1>5, <1>6 DEF TypeOK

(* What sendAlarm sends is a set of messages to alarm devices.             *)
LEMMA SentType ==
  ASSUME TypeOK, NEW mode, NEW zone, SendAlarms(mode, zone)
  PROVE  lastSent' \subseteq SentMessage
<1>1. ASSUME NEW e \in Entries(securitymap, mode, zone), NEW u \in e.alarms
      PROVE  u \in Outputs
  BY DEF TypeOK, MapsOK, SecurityMaps, Entries, Outputs
<1>2. contacts.email \in BOOLEAN /\ contacts.phone \in BOOLEAN
  BY InputAssumption DEF InputAssumption, TypeOK, ConfigOK
<1>3. ASSUME NEW u \in Outputs PROVE Sent(u) \subseteq SentMessage
  <2>1. CASE u \notin DOMAIN alertGateways
    BY <2>1 DEF Sent, SentMessage
  <2>2. CASE u \in DOMAIN alertGateways
    <3> DEFINE Msg(c, b) == [command |-> c, uuid |-> u, addressed |-> b]
    <3>1. ASSUME NEW c \in {"on", "sendsms", "sendmail", "notify"}, NEW b \in BOOLEAN
          PROVE  {Msg(c, b)} \subseteq SentMessage
      BY DEF SentMessage
    <3>2. Sent(u) \in {{}, {Msg("sendsms", contacts.phone)}, {Msg("sendmail", contacts.email)},
                       {Msg("notify", TRUE)}}
      BY <2>2 DEF Sent
    <3> HIDE DEF Msg
    <3>3. /\ {Msg("sendsms", contacts.phone)} \subseteq SentMessage
          /\ {Msg("sendmail", contacts.email)} \subseteq SentMessage
          /\ {Msg("notify", TRUE)} \subseteq SentMessage
      BY <1>2, <3>1, Zenon
    <3> QED
      <4>1. CASE Sent(u) = {} BY <4>1
      <4> QED BY <3>2, <3>3, <4>1, Zenon
  <2> QED BY <2>1, <2>2
<1> QED BY <1>1, <1>3 DEF SendAlarms

\* Every action keeps the types.
LEMMA TypeStep == TypeOK /\ [Next]_vars => TypeOK'
<1> SUFFICES ASSUME TypeOK, [Next]_vars PROVE TypeOK' OBVIOUS
<1> USE BoundsAssumption DEF BoundsAssumption, Main, Actors, Alarms, Changing
<1>1. ASSUME NEW pin \in Pins, NEW mode \in ModeInputs, SetHousemode(pin, mode) PROVE TypeOK'
  <2>1. MapsOK'
    BY <1>1 DEF TypeOK, MapsOK, SetHousemode, ChangeHousemode, SecurityMaps, saving
  <2>2. PositionsOK'
    BY <1>1 DEF TypeOK, PositionsOK, SetHousemode, ChangeHousemode, Goto, MainPCs,
       AlarmPCs
  <2>3. FlagsOK'
    BY <1>1 DEF TypeOK, FlagsOK, SetHousemode, ChangeHousemode, Overlapping, flags,
       saving
  <2>4. ConfigOK' /\ ThreadsOK' /\ OutputOK' /\ CountsOK'
    BY <1>1 DEF TypeOK, ConfigOK, ThreadsOK, OutputOK, CountsOK, SetHousemode, config, threads
  <2> QED BY <2>1, <2>2, <2>3, <2>4 DEF TypeOK
<1>2. ASSUME NEW pin \in Pins, NEW c \in Configs, NEW mode \in ModeInputs,
             SetConfig(pin, c, mode) PROVE TypeOK'
  <2>1. MapsOK'
    BY <1>2 DEF TypeOK, MapsOK, SetConfig, SecurityMaps, saving
  <2>2. PositionsOK'
    BY <1>2 DEF TypeOK, PositionsOK, SetConfig, Goto, MainPCs, AlarmPCs
  <2>3. FlagsOK'
    BY <1>2 DEF TypeOK, FlagsOK, SetConfig, Overlapping, flags, saving
  <2>4. ConfigOK' /\ ThreadsOK' /\ OutputOK' /\ CountsOK'
    BY <1>2 DEF TypeOK, ConfigOK, ThreadsOK, OutputOK, CountsOK, SetConfig, config, threads
  <2> QED BY <2>1, <2>2, <2>3, <2>4 DEF TypeOK
<1>3. ASSUME NEW pin \in Pins, NEW new \in PinLists, SetPin(pin, new) PROVE TypeOK'
  <2>1. ConfigOK'
    BY <1>3 DEF TypeOK, ConfigOK, SetPin, config
  <2>2. MapsOK' /\ PositionsOK' /\ ThreadsOK' /\ FlagsOK' /\ OutputOK' /\ CountsOK'
    BY <1>3 DEF TypeOK, MapsOK, PositionsOK, ThreadsOK, FlagsOK, OutputOK, CountsOK, SetPin,
       saving, threads, flags
  <2> QED BY <2>1, <2>2 DEF TypeOK
<1>4. ASSUME GetConfig PROVE TypeOK'
  <2>1. MapsOK'
    BY <1>4 DEF TypeOK, MapsOK, GetConfig, SecurityMaps, saving
  <2>2. ConfigOK' /\ PositionsOK' /\ ThreadsOK' /\ FlagsOK' /\ OutputOK' /\ CountsOK'
    BY <1>4 DEF TypeOK, ConfigOK, PositionsOK, ThreadsOK, FlagsOK, OutputOK, CountsOK, GetConfig,
       config, threads, flags, saving
  <2> QED BY <2>1, <2>2 DEF TypeOK
<1>5. ASSUME NEW zone \in Zones, TriggerZone(zone) PROVE TypeOK'
  <2>1. PICK e \in Entries(securitymap, securitymap.housemode, zone) :
          /\ Int16(e.delay) >= 0
          /\ currentAlarm' = [zone |-> zone, mode |-> e.mode]
          /\ \/ \E t \in Alarms :
                  /\ t = securityThread + 1
                  /\ securityThread' = t
                  /\ pc' = [pc EXCEPT ![Main] = "mark", ![t] = "check"]
                  /\ alarm' = [alarm EXCEPT ![t] = currentAlarm']
                  /\ left' = [left EXCEPT ![t] = Int16(e.delay)]
                  /\ disturbed' = disturbed \cup
                       LET others == {u \in Alarms : Live(u)}
                       IN  IF others = {} THEN {} ELSE others \cup {t}
             \/ UNCHANGED <<securityThread, pc, alarm, left, disturbed>>
    BY <1>5 DEF TriggerZone
  <2>2. e.mode \in Modes /\ e.delay \in Int
    BY ConfigAssumption DEF ConfigAssumption, TypeOK, MapsOK, SecurityMaps, Entries
  <2>3. Int16(e.delay) \in Int
    BY <2>2 DEF Int16
  <2>4. currentAlarm' \in AlarmZones
    BY <2>1, <2>2 DEF AlarmZones
  <2>5. PositionsOK' /\ ThreadsOK'
    <3>1. CASE UNCHANGED <<securityThread, pc, alarm, left, disturbed>>
      BY <1>5, <2>4, <3>1 DEF TypeOK, PositionsOK, ThreadsOK, TriggerZone
    <3>2. ASSUME NEW t \in Alarms,
                 t = securityThread + 1,
                 securityThread' = t,
                 pc' = [pc EXCEPT ![Main] = "mark", ![t] = "check"],
                 alarm' = [alarm EXCEPT ![t] = currentAlarm'],
                 left' = [left EXCEPT ![t] = Int16(e.delay)],
                 disturbed' \subseteq disturbed \cup Alarms
          PROVE  PositionsOK' /\ ThreadsOK'
      <4>1. PositionsOK'
        BY <1>5, <3>2 DEF TypeOK, PositionsOK, MainPCs, AlarmPCs, TriggerZone
      <4>2. ThreadsOK'
        BY <1>5, <2>3, <2>4, <3>2 DEF TypeOK, ThreadsOK, TriggerZone
      <4> QED BY <4>1, <4>2
    <3> QED BY <2>1, <3>1, <3>2
  <2>7. MapsOK' /\ ConfigOK' /\ FlagsOK' /\ OutputOK' /\ CountsOK'
    BY <1>5 DEF TypeOK, MapsOK, ConfigOK, FlagsOK, OutputOK, CountsOK, TriggerZone, saving, config
  <2> QED BY <2>5, <2>7 DEF TypeOK
<1>6. ASSUME NEW pin \in Pins, CancelCountdown(pin) PROVE TypeOK'
  <2>1. PositionsOK'
    BY <1>6 DEF TypeOK, PositionsOK, CancelCountdown, Goto, MainPCs, AlarmPCs
  <2>2. ThreadsOK'
    BY <1>6 DEF TypeOK, ThreadsOK, CancelCountdown, threads
  <2>3. FlagsOK'
    BY <1>6 DEF TypeOK, FlagsOK, CancelCountdown, flags, saving
  <2>4. CountsOK'
    BY <1>6 DEF TypeOK, CountsOK, CancelCountdown
  <2>5. MapsOK' /\ ConfigOK' /\ OutputOK'
    BY <1>6 DEF TypeOK, OutputOK, MapsOK, ConfigOK, CancelCountdown, saving, config
  <2> QED BY <2>1, <2>2, <2>3, <2>4, <2>5 DEF TypeOK
<1>7. ASSUME NEW pin \in Pins, DisableAlarm(pin) PROVE TypeOK'
  <2>1. PositionsOK'
    BY <1>7 DEF TypeOK, PositionsOK, DisableAlarm, Goto, MainPCs, AlarmPCs
  <2>2. FlagsOK'
    BY <1>7 DEF TypeOK, FlagsOK, DisableAlarm, flags, saving
  <2>3. MapsOK' /\ ConfigOK' /\ ThreadsOK' /\ OutputOK' /\ CountsOK'
    BY <1>7 DEF TypeOK, MapsOK, ConfigOK, ThreadsOK, OutputOK, CountsOK, DisableAlarm, saving,
       config, threads
  <2> QED BY <2>1, <2>2, <2>3 DEF TypeOK
<1>8. ASSUME NEW level \in Levels, DeviceEvent(level) PROVE TypeOK'
  <2>1. MapsOK'
    BY <1>8 DEF TypeOK, MapsOK, DeviceEvent, SecurityMaps, saving
  <2>2. CountsOK'
    BY <1>8 DEF TypeOK, CountsOK, DeviceEvent
  <2>3. ConfigOK' /\ PositionsOK' /\ ThreadsOK' /\ FlagsOK' /\ OutputOK'
    BY <1>8 DEF TypeOK, OutputOK, ConfigOK, PositionsOK, ThreadsOK, FlagsOK, DeviceEvent, config,
       threads, flags, saving
  <2> QED BY <2>1, <2>2, <2>3 DEF TypeOK
<1>9. ASSUME TimeChanged PROVE TypeOK'
  <2>1. ConfigOK'
    BY <1>9 DEF TypeOK, ConfigOK, TimeChanged, RefreshContacts, config
  <2>2. MapsOK' /\ PositionsOK' /\ ThreadsOK' /\ FlagsOK' /\ OutputOK' /\ CountsOK'
    BY <1>9 DEF TypeOK, MapsOK, PositionsOK, ThreadsOK, FlagsOK, OutputOK, CountsOK, TimeChanged,
       saving, threads, flags
  <2> QED BY <2>1, <2>2 DEF TypeOK
<1>10. ASSUME MarkRunning PROVE TypeOK'
  <2>1. PositionsOK'
    BY <1>10 DEF TypeOK, PositionsOK, MarkRunning, Goto, MainPCs, AlarmPCs
  <2>2. FlagsOK'
    BY <1>10 DEF TypeOK, FlagsOK, MarkRunning, flags, saving
  <2>3. MapsOK' /\ ConfigOK' /\ ThreadsOK' /\ OutputOK' /\ CountsOK'
    BY <1>10 DEF TypeOK, MapsOK, ConfigOK, ThreadsOK, OutputOK, CountsOK, MarkRunning, saving,
       config, threads
  <2> QED BY <2>1, <2>2, <2>3 DEF TypeOK
<1>11. ASSUME Interrupt PROVE TypeOK'
  <2>1. PositionsOK'
    BY <1>11 DEF TypeOK, PositionsOK, Interrupt, Goto, MainPCs, AlarmPCs
  <2>2. ThreadsOK'
    BY <1>11 DEF TypeOK, ThreadsOK, Interrupt, threads
  <2>3. MapsOK' /\ ConfigOK' /\ FlagsOK' /\ OutputOK' /\ CountsOK'
    BY <1>11 DEF TypeOK, MapsOK, ConfigOK, FlagsOK, OutputOK, CountsOK, Interrupt, saving, config,
       flags
  <2> QED BY <2>1, <2>2, <2>3 DEF TypeOK
<1>12. ASSUME UnmarkRunning PROVE TypeOK'
  <2>1. PositionsOK'
    BY <1>12 DEF TypeOK, PositionsOK, UnmarkRunning, Goto, MainPCs, AlarmPCs
  <2>2. FlagsOK'
    BY <1>12 DEF TypeOK, FlagsOK, UnmarkRunning, flags, saving
  <2>3. MapsOK' /\ ConfigOK' /\ ThreadsOK' /\ OutputOK' /\ CountsOK'
    BY <1>12 DEF TypeOK, MapsOK, ConfigOK, ThreadsOK, OutputOK, CountsOK, UnmarkRunning, saving,
       config, threads
  <2> QED BY <2>1, <2>2, <2>3 DEF TypeOK
<1>13. ASSUME StopAlarms PROVE TypeOK'
  <2>1. PositionsOK'
    BY <1>13 DEF TypeOK, PositionsOK, StopAlarms, Goto, MainPCs, AlarmPCs
  <2>2. OutputOK'
    BY <1>13, SentType DEF TypeOK, OutputOK, StopAlarms
  <2>3. MapsOK' /\ ConfigOK' /\ ThreadsOK' /\ FlagsOK' /\ CountsOK'
    BY <1>13 DEF TypeOK, CountsOK, MapsOK, ConfigOK, ThreadsOK, FlagsOK, StopAlarms, saving,
       config, threads, flags
  <2> QED BY <2>1, <2>2, <2>3 DEF TypeOK
<1>14. ASSUME NEW a \in Actors, ToDefault(a) PROVE TypeOK'
  <2>1. MapsOK'
    BY <1>14 DEF TypeOK, MapsOK, ToDefault, ChangeHousemode, SecurityMaps, saving
  <2>2. PositionsOK'
    BY <1>14 DEF TypeOK, PositionsOK, ToDefault, ChangeHousemode, After, Goto, MainPCs,
       AlarmPCs
  <2>3. FlagsOK'
    BY <1>14 DEF TypeOK, FlagsOK, ToDefault, ChangeHousemode, Overlapping, flags, saving
  <2>4. ConfigOK' /\ ThreadsOK' /\ OutputOK' /\ CountsOK'
    BY <1>14 DEF TypeOK, ConfigOK, ThreadsOK, OutputOK, CountsOK, ToDefault, config, threads
  <2> QED BY <2>1, <2>2, <2>3, <2>4 DEF TypeOK
<1>15. ASSUME NEW a \in Actors, Publish(a) PROVE TypeOK'
  <2>1. MapsOK'
    BY <1>15 DEF TypeOK, MapsOK, Publish, saving
  <2>2. PositionsOK'
    BY <1>15 DEF TypeOK, PositionsOK, Publish, Goto, MainPCs, AlarmPCs
  <2>3. FlagsOK'
    BY <1>15 DEF TypeOK, FlagsOK, Publish, flags, saving
  <2>4. ConfigOK' /\ ThreadsOK' /\ OutputOK' /\ CountsOK'
    BY <1>15 DEF TypeOK, ConfigOK, ThreadsOK, OutputOK, CountsOK, Publish, config, threads
  <2> QED BY <2>1, <2>2, <2>3, <2>4 DEF TypeOK
<1>16. ASSUME NEW a \in Actors, Save(a) PROVE TypeOK'
  <2>1. MapsOK'
    BY <1>16, EmptyMapType DEF TypeOK, MapsOK, Save, CannotOpen, saving
  <2>2. PositionsOK'
    BY <1>16 DEF TypeOK, PositionsOK, Save, CannotOpen, After, Goto, MainPCs, AlarmPCs
  <2>3. FlagsOK'
    BY <1>16 DEF TypeOK, FlagsOK, Save, CannotOpen, flags, saving
  <2>4. ConfigOK' /\ ThreadsOK' /\ OutputOK' /\ CountsOK'
    BY <1>16 DEF TypeOK, ConfigOK, ThreadsOK, OutputOK, CountsOK, Save, config, threads
  <2> QED BY <2>1, <2>2, <2>3, <2>4 DEF TypeOK
<1>17. ASSUME NEW a \in Actors, Flush(a) PROVE TypeOK'
  <2>1. MapsOK'
    BY <1>17, EmptyMapType DEF TypeOK, MapsOK, Flush, saving
  <2>2. PositionsOK'
    BY <1>17 DEF TypeOK, PositionsOK, Flush, After, Goto, MainPCs, AlarmPCs
  <2>3. FlagsOK'
    BY <1>17 DEF TypeOK, FlagsOK, Flush, flags, saving
  <2>4. ConfigOK' /\ ThreadsOK' /\ OutputOK' /\ CountsOK'
    BY <1>17 DEF TypeOK, ConfigOK, ThreadsOK, OutputOK, CountsOK, Flush, config, threads
  <2> QED BY <2>1, <2>2, <2>3, <2>4 DEF TypeOK
<1>18. ASSUME NEW t \in Alarms, CountDown(t) PROVE TypeOK'
  <2>1. PositionsOK'
    BY <1>18 DEF TypeOK, PositionsOK, CountDown, Goto, MainPCs, AlarmPCs
  <2>2. ThreadsOK'
    BY <1>18 DEF TypeOK, ThreadsOK, CountDown, threads
  <2>3. MapsOK' /\ ConfigOK' /\ FlagsOK' /\ OutputOK' /\ CountsOK'
    BY <1>18 DEF TypeOK, MapsOK, ConfigOK, FlagsOK, OutputOK, CountsOK, CountDown, saving, config,
       flags
  <2> QED BY <2>1, <2>2, <2>3 DEF TypeOK
<1>19. ASSUME NEW t \in Alarms, WakeUp(t) PROVE TypeOK'
  <2>1. PositionsOK'
    BY <1>19 DEF TypeOK, PositionsOK, WakeUp, Goto, MainPCs, AlarmPCs
  <2>2. ThreadsOK'
    BY <1>19 DEF TypeOK, ThreadsOK, WakeUp, threads
  <2>3. MapsOK' /\ ConfigOK' /\ FlagsOK' /\ OutputOK' /\ CountsOK'
    BY <1>19 DEF TypeOK, MapsOK, ConfigOK, FlagsOK, OutputOK, CountsOK, WakeUp, saving, config,
       flags
  <2> QED BY <2>1, <2>2, <2>3 DEF TypeOK
<1>20. ASSUME NEW t \in Alarms, IntruderAlert(t) PROVE TypeOK'
  <2>1. PositionsOK'
    BY <1>20 DEF TypeOK, PositionsOK, IntruderAlert, Goto, MainPCs, AlarmPCs
  <2>2. MapsOK' /\ ConfigOK' /\ ThreadsOK' /\ FlagsOK' /\ OutputOK' /\ CountsOK'
    BY <1>20 DEF TypeOK, MapsOK, ConfigOK, ThreadsOK, FlagsOK, OutputOK, CountsOK, IntruderAlert,
       saving, config, threads, flags
  <2> QED BY <2>1, <2>2 DEF TypeOK
<1>21. ASSUME NEW t \in Alarms, TriggerAlarms(t) PROVE TypeOK'
  <2>1. PositionsOK'
    BY <1>21 DEF TypeOK, PositionsOK, TriggerAlarms, Goto, MainPCs, AlarmPCs
  <2>2. OutputOK'
    BY <1>21, SentType DEF TypeOK, OutputOK, TriggerAlarms
  <2>3. MapsOK' /\ ConfigOK' /\ ThreadsOK' /\ FlagsOK' /\ CountsOK'
    BY <1>21 DEF TypeOK, CountsOK, MapsOK, ConfigOK, ThreadsOK, FlagsOK, TriggerAlarms, saving,
       config, threads, flags
  <2> QED BY <2>1, <2>2, <2>3 DEF TypeOK
<1>22. ASSUME NEW t \in Alarms, ClearRunning(t) PROVE TypeOK'
  <2>1. PositionsOK'
    BY <1>22 DEF TypeOK, PositionsOK, ClearRunning, Goto, MainPCs, AlarmPCs
  <2>2. FlagsOK'
    BY <1>22 DEF TypeOK, FlagsOK, ClearRunning, flags, saving
  <2>3. MapsOK' /\ ConfigOK' /\ ThreadsOK' /\ OutputOK' /\ CountsOK'
    BY <1>22 DEF TypeOK, MapsOK, ConfigOK, ThreadsOK, OutputOK, CountsOK, ClearRunning, saving,
       config, threads
  <2> QED BY <2>1, <2>2, <2>3 DEF TypeOK
<1>23. ASSUME NEW t \in Alarms, ClearWant(t) PROVE TypeOK'
  <2>1. PositionsOK'
    BY <1>23 DEF TypeOK, PositionsOK, ClearWant, Goto, MainPCs, AlarmPCs
  <2>2. FlagsOK'
    BY <1>23 DEF TypeOK, FlagsOK, ClearWant, flags, saving
  <2>3. MapsOK' /\ ConfigOK' /\ ThreadsOK' /\ OutputOK' /\ CountsOK'
    BY <1>23 DEF TypeOK, MapsOK, ConfigOK, ThreadsOK, OutputOK, CountsOK, ClearWant, saving,
       config, threads
  <2> QED BY <2>1, <2>2, <2>3 DEF TypeOK
<1>24. ASSUME Restart PROVE TypeOK'
  <2>1. MapsOK'
    BY <1>24 DEF TypeOK, MapsOK, Restart, SecurityMaps, EmptyMap, saving
  <2>2. ConfigOK'
    BY <1>24 DEF TypeOK, ConfigOK, Restart, RefreshContacts, config
  <2>3. PositionsOK'
    BY <1>24 DEF TypeOK, PositionsOK, Restart, MainPCs, AlarmPCs
  <2>4. ThreadsOK'
    BY <1>24 DEF TypeOK, ThreadsOK, Restart, AlarmZones, NoZone, threads
  <2>5. FlagsOK'
    BY <1>24 DEF TypeOK, FlagsOK, Restart, flags, saving
  <2>6. CountsOK'
    BY <1>24 DEF TypeOK, CountsOK, Restart
  <2>7. OutputOK'
    BY <1>24 DEF TypeOK, OutputOK, Restart
  <2> QED BY <2>1, <2>2, <2>3, <2>4, <2>5, <2>6, <2>7 DEF TypeOK
<1>25. ASSUME UNCHANGED vars PROVE TypeOK'
  <2>1. MapsOK' /\ ConfigOK' /\ FlagsOK'
    BY <1>25 DEF TypeOK, MapsOK, ConfigOK, FlagsOK, vars, flags, saving, config
  <2>2. PositionsOK' /\ ThreadsOK' /\ OutputOK' /\ CountsOK'
    BY <1>25 DEF TypeOK, PositionsOK, ThreadsOK, OutputOK, CountsOK, vars, threads
  <2> QED BY <2>1, <2>2 DEF TypeOK
<1> QED
  BY <1>1, <1>2, <1>3, <1>4, <1>5, <1>6, <1>7, <1>8, <1>9, <1>10, <1>11, <1>12, <1>13,
     <1>14, <1>15, <1>16, <1>17, <1>18, <1>19, <1>20, <1>21, <1>22, <1>23, <1>24, <1>25
  DEF Next, Command, MainStep, Change, AlarmStep

(* Type correctness holds in every behaviour.                              *)
THEOREM TypeCorrect == Spec => []TypeOK
  BY InitType, TypeStep, PTL DEF Spec

-----------------------------------------------------------------------------
(***************************************************************************)
(* How many alarm threads a flag and a number of cancels allow.            *)
(***************************************************************************)

(* A step of an actor that neither starts nor finishes an alarm thread     *)
LEMMA SameThreads ==
  ASSUME TypeOK, NEW a \in Actors, NEW here, NEW there, Goto(a, here, there),
         a # Main => here \notin {"none", "exit2", "done"} /\ there \notin {"none", "exit2", "done"}
  PROVE  UnfinishedThreads' = UnfinishedThreads
<1>1. pc \in [Actors -> MainPCs \cup AlarmPCs] /\ MaxAlarms \in Nat
  BY BoundsAssumption DEF BoundsAssumption, TypeOK, PositionsOK
<1>2. ASSUME NEW t \in Alarms PROVE Unfinished(t)' <=> Unfinished(t)
  BY <1>1 DEF Goto, Unfinished, Main, Actors, Alarms
<1> QED BY <1>2 DEF UnfinishedThreads

\* Alarm threads can be counted.
LEMMA FiniteThreads == IsFiniteSet(UnfinishedThreads) /\ Cardinality(UnfinishedThreads) \in Nat
<1>1. IsFiniteSet(Alarms)
  BY BoundsAssumption, FS_Interval DEF BoundsAssumption, Alarms
<1>2. UnfinishedThreads \subseteq Alarms
  BY DEF UnfinishedThreads
<1>3. IsFiniteSet(UnfinishedThreads)
  BY <1>1, <1>2, FS_Subset
<1> QED BY <1>3, FS_CardinalityType

(* The bound is inductive by itself: the flag is false whenever a thread   *)
(* starts, every thread clears it when it finishes, and a cancel clears it *)
(* at the price of one more cancel.                                        *)
LEMMA BoundStep == TypeOK /\ LiveThreadsBounded /\ [Next]_vars => LiveThreadsBounded'
<1> SUFFICES ASSUME TypeOK, LiveThreadsBounded, [Next]_vars PROVE LiveThreadsBounded'
  OBVIOUS
<1> USE FiniteThreads
<1>a. cancels \in Nat /\ MaxAlarms \in Nat /\ pc \in [Actors -> MainPCs \cup AlarmPCs]
  BY BoundsAssumption DEF BoundsAssumption, TypeOK, CountsOK, PositionsOK
<1>b. ASSUME UnfinishedThreads' = UnfinishedThreads, cancels' = cancels, Marked => Marked'
      PROVE  LiveThreadsBounded'
  BY <1>a, <1>b DEF LiveThreadsBounded
<1>c. Main \in Actors /\ Alarms \subseteq Actors /\ Main \notin Alarms
  BY <1>a DEF Main, Actors, Alarms
<1>1. ASSUME NEW pin \in Pins, NEW mode \in ModeInputs, SetHousemode(pin, mode)
      PROVE  LiveThreadsBounded'
  <2>1. UnfinishedThreads' = UnfinishedThreads
    BY <1>1, <1>c, SameThreads DEF SetHousemode, ChangeHousemode
  <2>2. Marked => Marked'
    BY <1>1, <1>a, <1>c DEF SetHousemode, ChangeHousemode, Goto, Marked, flags
  <2> QED BY <1>1, <1>b, <2>1, <2>2 DEF SetHousemode
<1>2. ASSUME NEW pin \in Pins, NEW c \in Configs, NEW mode \in ModeInputs,
             SetConfig(pin, c, mode) PROVE LiveThreadsBounded'
  <2>1. UnfinishedThreads' = UnfinishedThreads
    BY <1>2, <1>c, SameThreads DEF SetConfig
  <2>2. Marked => Marked'
    BY <1>2, <1>a, <1>c DEF SetConfig, Goto, Marked, flags
  <2> QED BY <1>2, <1>b, <2>1, <2>2 DEF SetConfig
<1>3. ASSUME \/ \E pin \in Pins, new \in PinLists : SetPin(pin, new)
             \/ GetConfig \/ TimeChanged \/ UNCHANGED vars
             \/ \E level \in Levels : DeviceEvent(level)
      PROVE  LiveThreadsBounded'
  <2>1. pc' = pc /\ isSecurityThreadRunning' = isSecurityThreadRunning /\ cancels' = cancels
    BY <1>3 DEF SetPin, GetConfig, TimeChanged, DeviceEvent, vars, flags
  <2>2. UnfinishedThreads' = UnfinishedThreads /\ (Marked => Marked')
    BY <2>1 DEF UnfinishedThreads, Unfinished, Marked
  <2> QED BY <1>b, <2>1, <2>2
<1>4. ASSUME NEW zone \in Zones, TriggerZone(zone) PROVE LiveThreadsBounded'
  <2>1. ~isSecurityThreadRunning /\ pc[Main] = "idle" /\ cancels' = cancels
        /\ UNCHANGED isSecurityThreadRunning
    BY <1>4 DEF TriggerZone, NoAlarmRunning
  <2>2. Cardinality(UnfinishedThreads) <= cancels
    BY <1>a, <2>1 DEF LiveThreadsBounded, Marked
  <2>3. CASE pc' = pc
    BY <1>a, <2>1, <2>2, <2>3 DEF LiveThreadsBounded, UnfinishedThreads, Unfinished, Marked
  <2>4. ASSUME NEW t \in Alarms, pc' = [pc EXCEPT ![Main] = "mark", ![t] = "check"]
        PROVE  LiveThreadsBounded'
    <3>1. Marked'
      BY <1>a, <1>c, <2>4 DEF Marked
    <3>2. UnfinishedThreads' = UnfinishedThreads \cup {t}
      BY <1>a, <1>c, <2>4 DEF UnfinishedThreads, Unfinished
    <3>3. Cardinality(UnfinishedThreads') <= Cardinality(UnfinishedThreads) + 1
      BY <3>2, FS_AddElement
    <3>4. Cardinality(UnfinishedThreads)' <= cancels' + 1
      BY <1>a, <2>1, <2>2, <3>3, <3>2, FS_AddElement, FS_CardinalityType
    <3> QED BY <3>1, <3>4 DEF LiveThreadsBounded
  <2> QED BY <1>4, <2>3, <2>4 DEF TriggerZone
<1>5. ASSUME NEW pin \in Pins, CancelCountdown(pin) PROVE LiveThreadsBounded'
  <2>1. UnfinishedThreads' = UnfinishedThreads
    BY <1>5, <1>c, SameThreads DEF CancelCountdown
  <2>2. cancels' = cancels + 1
    BY <1>5 DEF CancelCountdown
  <2> QED BY <1>a, <2>1, <2>2 DEF LiveThreadsBounded
<1>6. ASSUME NEW pin \in Pins, DisableAlarm(pin) PROVE LiveThreadsBounded'
  <2>1. UnfinishedThreads' = UnfinishedThreads
    BY <1>6, <1>c, SameThreads DEF DisableAlarm
  <2>2. Marked => Marked'
    BY <1>6, <1>a, <1>c DEF DisableAlarm, Goto, Marked, CountingDown
  <2> QED BY <1>6, <1>b, <2>1, <2>2 DEF DisableAlarm
<1>7. ASSUME MarkRunning PROVE LiveThreadsBounded'
  <2>1. UnfinishedThreads' = UnfinishedThreads
    BY <1>7, <1>c, SameThreads DEF MarkRunning
  <2>2. Marked'
    BY <1>7, <1>a, <1>c DEF MarkRunning, Goto, Marked
  <2> QED BY <1>7, <1>b, <2>1, <2>2 DEF MarkRunning
<1>8. ASSUME Interrupt \/ UnmarkRunning PROVE LiveThreadsBounded'
  <2>1. UnfinishedThreads' = UnfinishedThreads
    BY <1>8, <1>c, SameThreads DEF Interrupt, UnmarkRunning
  <2>2. ~Marked
    BY <1>8 DEF Interrupt, UnmarkRunning, Goto, Marked
  <2> QED BY <1>8, <1>b, <2>1, <2>2 DEF Interrupt, UnmarkRunning
<1>9. ASSUME StopAlarms PROVE LiveThreadsBounded'
  <2>1. UnfinishedThreads' = UnfinishedThreads
    BY <1>9, <1>c, SameThreads DEF StopAlarms
  <2>2. Marked => Marked'
    BY <1>9, <1>a, <1>c DEF StopAlarms, Goto, Marked, flags
  <2> QED BY <1>9, <1>b, <2>1, <2>2 DEF StopAlarms
<1>10. ASSUME NEW a \in Actors, Change(a) PROVE LiveThreadsBounded'
  <2>1. PICK here \in {"toDefault", "publish", "save", "flush"},
             there \in {"publish", "save", "flush", After(a)} : Goto(a, here, there)
    BY <1>10 DEF Change, ToDefault, ChangeHousemode, Publish, Save, CannotOpen, Flush
  <2>2. After(a) \in {"idle", "stop", "exit1"} /\ (a # Main => After(a) = "exit1")
    BY DEF TypeOK, PositionsOK, After
  <2>3. UnfinishedThreads' = UnfinishedThreads
    BY <2>1, <2>2, SameThreads
  <2>4. UNCHANGED <<isSecurityThreadRunning, cancels>>
    BY <1>10 DEF Change, ToDefault, Publish, Save, Flush, flags
  <2>5. Marked => Marked'
    BY <1>a, <1>c, <2>1, <2>2, <2>4 DEF Goto, Marked
  <2> QED BY <1>b, <2>3, <2>4, <2>5
<1>11. ASSUME NEW t \in Alarms,
              CountDown(t) \/ WakeUp(t) \/ IntruderAlert(t) \/ TriggerAlarms(t)
       PROVE  LiveThreadsBounded'
  <2>1. PICK here \in {"check", "sleep", "expired", "alarms"},
             there \in {"check", "sleep", "expired", "toDefault", "alarms", "exit1"} :
               Goto(t, here, there)
    BY <1>11 DEF CountDown, WakeUp, IntruderAlert, TriggerAlarms
  <2>2. UnfinishedThreads' = UnfinishedThreads
    BY <1>c, <2>1, SameThreads
  <2>3. UNCHANGED <<isSecurityThreadRunning, cancels>>
    BY <1>11 DEF CountDown, WakeUp, IntruderAlert, TriggerAlarms, flags
  <2>4. Marked => Marked'
    BY <1>a, <1>c, <2>1, <2>3 DEF Goto, Marked
  <2> QED BY <1>b, <2>2, <2>3, <2>4
<1>12. ASSUME NEW t \in Alarms, ClearRunning(t) PROVE LiveThreadsBounded'
  <2>1. t \in UnfinishedThreads
    BY <1>12 DEF ClearRunning, Goto, UnfinishedThreads, Unfinished
  <2>2. UnfinishedThreads' = UnfinishedThreads \ {t}
    BY <1>12, <1>a, <1>c DEF ClearRunning, Goto, UnfinishedThreads, Unfinished
  <2>3. Cardinality(UnfinishedThreads') = Cardinality(UnfinishedThreads) - 1
    BY <2>1, <2>2, FS_RemoveElement
  <2>4. cancels' = cancels
    BY <1>12 DEF ClearRunning
  <2> QED BY <1>a, <2>2, <2>3, <2>4 DEF LiveThreadsBounded
<1>13. ASSUME NEW t \in Alarms, ClearWant(t) PROVE LiveThreadsBounded'
  <2>1. UnfinishedThreads' = UnfinishedThreads
    BY <1>13, <1>a, <1>c DEF ClearWant, Goto, UnfinishedThreads, Unfinished
  <2>2. Marked => Marked'
    BY <1>13, <1>a, <1>c DEF ClearWant, Goto, Marked
  <2> QED BY <1>13, <1>b, <2>1, <2>2 DEF ClearWant
<1>14. ASSUME Restart PROVE LiveThreadsBounded'
  <2>1. UnfinishedThreads' = {} /\ cancels' = cancels
    BY <1>14, <1>c DEF Restart, UnfinishedThreads, Unfinished
  <2> QED BY <1>a, <2>1, FS_EmptySet DEF LiveThreadsBounded
<1> QED
  BY <1>1, <1>2, <1>3, <1>4, <1>5, <1>6, <1>7, <1>8, <1>9, <1>10, <1>11, <1>12, <1>13, <1>14, <1>c
  DEF Next, Command, MainStep, AlarmStep

(* Without a cancel there are never two unfinished alarm threads.          *)
THEOREM LiveThreadsBoundedCorrect == Spec => []LiveThreadsBounded
<1>1. Init => LiveThreadsBounded
  <2> SUFFICES ASSUME Init PROVE LiveThreadsBounded OBVIOUS
  <2>1. UnfinishedThreads = {} /\ cancels = 0
    BY DEF Init, UnfinishedThreads, Unfinished, Main, Actors, Alarms
  <2> QED BY <2>1, FS_EmptySet DEF LiveThreadsBounded
<1> QED BY <1>1, TypeCorrect, BoundStep, PTL DEF Spec

-----------------------------------------------------------------------------
(***************************************************************************)
(* disableAlarm finds no unfinished thread unless a countdown was          *)
(* cancelled: the bound leaves none when the flag is down.                 *)
(***************************************************************************)
LEMMA DisableStep ==
  TypeOK /\ LiveThreadsBounded /\ DisableAfterCountdown /\ [Next]_vars
    => DisableAfterCountdown'
<1> SUFFICES ASSUME TypeOK, LiveThreadsBounded, DisableAfterCountdown, [Next]_vars,
                    cancels' = 0, pc'[Main] = "toDefault",
                    NEW u \in Alarms
             PROVE  ~Unfinished(u)'
  BY DEF DisableAfterCountdown
<1> USE FiniteThreads
<1>a. cancels \in Nat /\ MaxAlarms \in Nat /\ pc \in [Actors -> MainPCs \cup AlarmPCs]
      /\ after \in {"idle", "stop"}
  BY BoundsAssumption DEF BoundsAssumption, TypeOK, CountsOK, PositionsOK
<1>b. Main \in Actors /\ Alarms \subseteq Actors /\ Main \notin Alarms
  BY <1>a DEF Main, Actors, Alarms
<1>1. ASSUME NEW pin \in Pins, DisableAlarm(pin) PROVE ~Unfinished(u)'
  <2>1. ~isSecurityThreadRunning /\ pc[Main] = "idle" /\ cancels = 0
    BY <1>1 DEF DisableAlarm, CountingDown, Goto
  <2>2. Cardinality(UnfinishedThreads) = 0
    BY <1>a, <2>1 DEF LiveThreadsBounded, Marked
  <2>3. ~Unfinished(u)
    BY <2>2, FS_EmptySet DEF UnfinishedThreads
  <2> QED BY <1>1, <1>a, <1>b, <2>3 DEF DisableAlarm, Goto, Unfinished
<1>2. ASSUME NEW t \in Alarms, AlarmStep(t) PROVE ~Unfinished(u)'
  <2>1. pc'[Main] = pc[Main] /\ (pc[t] \in {"none", "exit2", "done"} => ClearWant(t))
    <3>1. CASE CountDown(t) \/ WakeUp(t) \/ IntruderAlert(t) \/ TriggerAlarms(t)
      BY <3>1, <1>a, <1>b DEF CountDown, WakeUp, IntruderAlert, TriggerAlarms, Goto
    <3>2. CASE Change(t)
      BY <3>2, <1>a, <1>b DEF Change, ToDefault, ChangeHousemode, Publish, Save, CannotOpen,
         Flush, Goto
    <3>3. CASE ClearRunning(t) \/ ClearWant(t)
      BY <3>3, <1>a, <1>b DEF ClearRunning, ClearWant, Goto
    <3> QED BY <1>2, <3>1, <3>2, <3>3 DEF AlarmStep
  <2>2. cancels = 0
    <3>1. CASE CountDown(t) \/ WakeUp(t) \/ IntruderAlert(t) \/ TriggerAlarms(t)
      BY <3>1 DEF CountDown, WakeUp, IntruderAlert, TriggerAlarms
    <3>2. CASE Change(t) \/ ClearRunning(t) \/ ClearWant(t)
      BY <3>2 DEF Change, ToDefault, Publish, Save, Flush, ClearRunning, ClearWant
    <3> QED BY <1>2, <3>1, <3>2 DEF AlarmStep
  <2>3. ~Unfinished(u) /\ ~Unfinished(t)
    BY <2>1, <2>2 DEF DisableAfterCountdown
  <2>4. ClearWant(t)
    BY <2>1, <2>3 DEF Unfinished
  <2> QED BY <1>a, <1>b, <2>3, <2>4 DEF ClearWant, Goto, Unfinished
<1>3. ASSUME pc' = pc, cancels' = cancels PROVE ~Unfinished(u)'
  BY <1>3 DEF DisableAfterCountdown, Unfinished
<1>4. ASSUME NEW here \in MainPCs, NEW there \in MainPCs \ {"toDefault"}, Goto(Main, here, there) PROVE FALSE
  BY <1>4, <1>a, <1>b DEF Goto
<1>5. ASSUME Change(Main) PROVE FALSE
  <2>1. PICK here \in MainPCs, there \in MainPCs \ {"toDefault"} : Goto(Main, here, there)
    BY <1>5, <1>a DEF Change, ToDefault, ChangeHousemode, Publish, Save, CannotOpen, Flush, After,
       MainPCs, Changing
  <2> QED BY <1>4, <2>1
<1>6. ASSUME \/ \E pin \in Pins, mode \in ModeInputs : SetHousemode(pin, mode)
             \/ \E pin \in Pins, c \in Configs, mode \in ModeInputs : SetConfig(pin, c, mode)
             \/ \E pin \in Pins : CancelCountdown(pin)
             \/ MainStep
      PROVE  FALSE
  <2>1. PICK here \in MainPCs, there \in MainPCs \ {"toDefault"} : Goto(Main, here, there)
    BY <1>6 DEF MainPCs, Changing, SetHousemode, ChangeHousemode, SetConfig, CancelCountdown, MainStep,
       MarkRunning, Interrupt, UnmarkRunning, StopAlarms
  <2> QED BY <1>4, <2>1
<1>7. ASSUME NEW zone \in Zones, TriggerZone(zone) PROVE FALSE
  BY <1>7, <1>a, <1>b DEF TriggerZone
<1>8. ASSUME Restart PROVE FALSE
  BY <1>8, <1>b DEF Restart
<1>9. ASSUME \/ \E pin \in Pins, new \in PinLists : SetPin(pin, new)
             \/ GetConfig \/ TimeChanged \/ UNCHANGED vars
             \/ \E level \in Levels : DeviceEvent(level)
      PROVE  ~Unfinished(u)'
  <2>1. pc' = pc /\ cancels' = cancels
    BY <1>9 DEF SetPin, GetConfig, TimeChanged, DeviceEvent, vars
  <2> QED BY <1>3, <2>1
<1> QED
  BY <1>1, <1>2, <1>5, <1>6, <1>7, <1>8, <1>9 DEF Next, Command

(* cancelalarm takes the branch of an alarm that went off only when no     *)
(* thread counts down, as long as no countdown was ever cancelled.         *)
THEOREM DisableAfterCountdownCorrect == Spec => []DisableAfterCountdown
<1>1. Init => DisableAfterCountdown
  BY BoundsAssumption DEF BoundsAssumption, Init, DisableAfterCountdown, Main, Actors
<1> QED BY <1>1, TypeCorrect, LiveThreadsBoundedCorrect, DisableStep, PTL DEF Spec

-----------------------------------------------------------------------------
(***************************************************************************)
(* An alarm thread that nothing disturbs counts all the way down.  The     *)
(* inductive invariant says why: threads are started in order of their     *)
(* numbers and interrupted through the last handle only; an undisturbed    *)
(* live thread is the only live one, so that nobody but the user clears    *)
(* the flag its loop reads; and while Main is about to interrupt a thread, *)
(* the cancel has already marked all live ones as disturbed.               *)
(***************************************************************************)
Slots ==
    \A t \in Alarms : IF t > securityThread THEN pc[t] = "none" /\ ~interrupted[t]
                                            ELSE pc[t] # "none"

\* An undisturbed live thread is the only live one.
Alone ==
    \A t \in Alarms \ disturbed : Live(t) =>
        /\ \A u \in Alarms \ {t} : ~Live(u)
        /\ pc[t] \in {"check", "sleep"} => wantSecurityThreadRunning
        /\ ~interrupted[t]

\* A cancel that is about to interrupt has marked every live thread.
CancelHits ==
    pc[Main] = "interrupt" => \A t \in Alarms : Live(t) => t \in disturbed

CountdownInv == Slots /\ Alone /\ CancelHits /\ FullCountdown

\* It holds at the start: there is no thread.
LEMMA CountdownInit == Init => CountdownInv
<1> SUFFICES ASSUME Init PROVE CountdownInv OBVIOUS
<1> USE BoundsAssumption DEF BoundsAssumption, Init, Main, Actors, Alarms
<1>1. \A t \in Alarms : pc[t] = "none" /\ ~interrupted[t]
  OBVIOUS
<1>2. pc[Main] = "idle" /\ securityThread = 0
  OBVIOUS
<1> QED BY <1>1, <1>2 DEF CountdownInv, Slots, Alone, CancelHits, FullCountdown, Live, Changing

(* What a step must leave alone not to matter for the countdowns.          *)
LEMMA CountdownFrame ==
  ASSUME CountdownInv,
         \A t \in Alarms : pc'[t] = pc[t],
         pc'[Main] = "interrupt" => pc[Main] = "interrupt",
         UNCHANGED <<left, interrupted, securityThread, disturbed, wantSecurityThreadRunning>>
  PROVE  CountdownInv'
<1>1. \A t \in Alarms : Live(t)' = Live(t)
  BY DEF Live
<1>2. Slots'
  BY DEF CountdownInv, Slots
<1>3. Alone'
  BY <1>1 DEF CountdownInv, Alone
<1>4. CancelHits'
  BY <1>1 DEF CountdownInv, CancelHits
<1>5. FullCountdown'
  BY DEF CountdownInv, FullCountdown
<1> QED BY <1>2, <1>3, <1>4, <1>5 DEF CountdownInv

(* What a step of one alarm thread must do to keep the invariant.          *)
LEMMA CountdownOwnStep ==
  ASSUME TypeOK, CountdownInv, NEW u \in Alarms, Live(u),
         NEW there \in AlarmPCs \ {"none"}, pc' = [pc EXCEPT ![u] = there],
         UNCHANGED <<securityThread, disturbed>>,
         \A t \in Alarms \ {u} : left'[t] = left[t] /\ interrupted'[t] = interrupted[t],
         interrupted'[u] => interrupted[u],
         u \notin disturbed =>
             /\ there \in {"check", "sleep"} => wantSecurityThreadRunning'
             /\ there \in {"expired", "alarms"} => left'[u] <= 0
             /\ there \notin Changing \cup {"toDefault"}
  PROVE  CountdownInv'
<1>a. /\ pc \in [Actors -> MainPCs \cup AlarmPCs] /\ Alarms \subseteq Actors
      /\ Main \in Actors \ Alarms /\ Alarms \subseteq Int /\ securityThread \in Int
  BY BoundsAssumption DEF BoundsAssumption, TypeOK, PositionsOK, ThreadsOK, Main, Actors, Alarms
<1>b. pc'[u] = there /\ \A a \in Actors \ {u} : pc'[a] = pc[a]
  BY <1>a
<1>c. \A t \in Alarms \ {u} : Live(t)' = Live(t)
  BY <1>a, <1>b DEF Live
<1>d. \A t \in Alarms \ disturbed : t # u => ~Live(t)
  BY DEF CountdownInv, Alone
<1>1. Slots'
  <2> SUFFICES ASSUME NEW t \in Alarms
               PROVE  IF t > securityThread THEN pc'[t] = "none" /\ ~interrupted'[t]
                                            ELSE pc'[t] # "none"
    BY DEF Slots
  <2>1. CASE t = u
    <3>1. ~(u > securityThread)
      BY DEF CountdownInv, Slots, Live
    <3> QED BY <1>b, <2>1, <3>1
  <2>2. CASE t # u
    BY <1>a, <1>b, <2>2 DEF CountdownInv, Slots
  <2> QED BY <2>1, <2>2
<1>2. Alone'
  <2> SUFFICES ASSUME NEW t \in Alarms \ disturbed, Live(t)'
               PROVE  /\ \A v \in Alarms \ {t} : ~Live(v)'
                      /\ pc'[t] \in {"check", "sleep"} => wantSecurityThreadRunning'
                      /\ ~interrupted'[t]
    BY DEF Alone
  <2>1. t = u
    BY <1>c, <1>d
  <2>2. \A v \in Alarms \ {t} : ~Live(v)'
    BY <1>c, <2>1 DEF CountdownInv, Alone
  <2>3. ~interrupted'[t]
    BY <2>1 DEF CountdownInv, Alone
  <2> QED BY <1>b, <2>1, <2>2, <2>3
<1>3. CancelHits'
  <2> SUFFICES ASSUME pc[Main] = "interrupt", NEW t \in Alarms, Live(t)'
               PROVE  t \in disturbed
    BY <1>a, <1>b DEF CancelHits
  <2> QED BY <1>c DEF CountdownInv, CancelHits
<1>4. FullCountdown'
  <2> SUFFICES ASSUME NEW t \in Alarms \ disturbed
               PROVE  /\ pc'[t] \in {"expired", "alarms"} => left'[t] <= 0
                      /\ pc'[t] \notin Changing \cup {"toDefault"}
    BY DEF FullCountdown
  <2>1. CASE t = u
    BY <1>b, <2>1
  <2>2. CASE t # u
    BY <1>a, <1>b, <2>2 DEF CountdownInv, FullCountdown
  <2> QED BY <2>1, <2>2
<1> QED BY <1>1, <1>2, <1>3, <1>4 DEF CountdownInv

\* One case per action; those of a thread use CountdownOwnStep.
LEMMA CountdownStep == TypeOK /\ CountdownInv /\ [Next]_vars => CountdownInv'
<1> SUFFICES ASSUME TypeOK, CountdownInv, [Next]_vars PROVE CountdownInv' OBVIOUS
<1>a. /\ pc \in [Actors -> MainPCs \cup AlarmPCs] /\ Alarms \subseteq Actors
      /\ Main \in Actors \ Alarms /\ Alarms \subseteq Int /\ securityThread \in Nat
      /\ after \in {"idle", "stop"}
  BY BoundsAssumption DEF BoundsAssumption, TypeOK, PositionsOK, ThreadsOK, Main, Actors, Alarms
<1>b. /\ interrupted \in [Alarms -> BOOLEAN] /\ left \in [Alarms -> Int]
      /\ alarm \in [Alarms -> AlarmZones]
  BY DEF TypeOK, ThreadsOK
<1>1. ASSUME NEW zone \in Zones, TriggerZone(zone) PROVE CountdownInv'
  <2>1. CASE UNCHANGED <<securityThread, pc, alarm, left, disturbed>>
    <3>1. Alone'
      BY <1>1, <2>1 DEF CountdownInv, Alone, Live, TriggerZone
    <3>2. Slots' /\ CancelHits' /\ FullCountdown'
      BY <1>1, <2>1 DEF CountdownInv, Slots, CancelHits, FullCountdown, Live, TriggerZone
    <3> QED BY <3>1, <3>2 DEF CountdownInv
  <2>2. ASSUME NEW d \in Int, NEW t \in Alarms,
               t = securityThread + 1, securityThread' = t,
               pc' = [pc EXCEPT ![Main] = "mark", ![t] = "check"],
               left' = [left EXCEPT ![t] = d],
               disturbed' = disturbed \cup
                 LET others == {u \in Alarms : Live(u)}
                 IN  IF others = {} THEN {} ELSE others \cup {t}
        PROVE  CountdownInv'
    <3>1. UNCHANGED interrupted /\ wantSecurityThreadRunning' = TRUE
      BY <1>1 DEF TriggerZone
    <3>2. /\ pc'[Main] = "mark" /\ pc'[t] = "check"
          /\ \A u \in Alarms \ {t} : pc'[u] = pc[u] /\ Live(u)' = Live(u)
      BY <1>a, <2>2 DEF Live
    <3>3. pc[t] = "none" /\ ~interrupted[t] /\ ~Live(t)
      BY <1>a, <2>2 DEF CountdownInv, Slots, Live
    <3>4. \A u \in Alarms \ disturbed' : ~Live(u) /\ u \in Alarms \ disturbed
      BY <2>2
    <3>5. t \notin disturbed' => \A u \in Alarms : ~Live(u)
      BY <2>2
    <3>6. Slots'
      <4> SUFFICES ASSUME NEW u \in Alarms
                   PROVE  IF u > t THEN pc'[u] = "none" /\ ~interrupted[u] ELSE pc'[u] # "none"
        BY <2>2, <3>1 DEF Slots
      <4>1. CASE u = t
        BY <1>a, <3>2, <4>1
      <4>2. CASE u # t
        BY <1>a, <2>2, <3>2, <4>2 DEF CountdownInv, Slots
      <4> QED BY <4>1, <4>2
    <3>7. Alone'
      <4> SUFFICES ASSUME NEW u \in Alarms \ disturbed', Live(u)'
                   PROVE  /\ \A v \in Alarms \ {u} : ~Live(v)'
                          /\ ~interrupted[u]
        BY <3>1 DEF Alone
      <4>1. u = t
        BY <3>2, <3>4
      <4> QED BY <3>2, <3>3, <3>5, <4>1
    <3>8. CancelHits'
      BY <3>2 DEF CancelHits
    <3>9. FullCountdown'
      <4> SUFFICES ASSUME NEW u \in Alarms \ disturbed'
                   PROVE  /\ pc'[u] \in {"expired", "alarms"} => left'[u] <= 0
                          /\ pc'[u] \notin Changing \cup {"toDefault"}
        BY DEF FullCountdown
      <4>1. CASE u = t
        BY <3>2, <4>1 DEF Changing
      <4>2. CASE u # t
        BY <1>b, <2>2, <3>2, <3>4, <4>2 DEF CountdownInv, FullCountdown
      <4> QED BY <4>1, <4>2
    <3> QED BY <3>6, <3>7, <3>8, <3>9 DEF CountdownInv
  <2>3. PICK e \in Entries(securitymap, securitymap.housemode, zone) :
          \/ \E t \in Alarms :
               /\ t = securityThread + 1
               /\ securityThread' = t
               /\ pc' = [pc EXCEPT ![Main] = "mark", ![t] = "check"]
               /\ left' = [left EXCEPT ![t] = Int16(e.delay)]
               /\ disturbed' = disturbed \cup
                    LET others == {u \in Alarms : Live(u)}
                    IN  IF others = {} THEN {} ELSE others \cup {t}
          \/ UNCHANGED <<securityThread, pc, alarm, left, disturbed>>
    BY <1>1 DEF TriggerZone
  <2>4. Int16(e.delay) \in Int
    BY ConfigAssumption DEF ConfigAssumption, TypeOK, MapsOK, SecurityMaps, Entries, Int16
  <2> QED BY <2>1, <2>2, <2>3, <2>4
<1>2. ASSUME NEW pin \in Pins, CancelCountdown(pin) PROVE CountdownInv'
  <2>1. /\ pc'[Main] = "interrupt" /\ \A t \in Alarms : pc'[t] = pc[t] /\ Live(t)' = Live(t)
        /\ UNCHANGED <<left, interrupted, securityThread>>
        /\ disturbed' = disturbed \cup {t \in Alarms : Live(t)}
    BY <1>2, <1>a DEF CancelCountdown, Goto, Live, threads
  <2>2. Slots'
    BY <2>1 DEF CountdownInv, Slots
  <2>3. Alone' /\ CancelHits'
    BY <2>1 DEF Alone, CancelHits
  <2>4. FullCountdown'
    BY <2>1 DEF CountdownInv, FullCountdown
  <2> QED BY <2>2, <2>3, <2>4 DEF CountdownInv
<1>3. ASSUME Interrupt PROVE CountdownInv'
  <2>1. /\ pc[Main] = "interrupt" /\ pc'[Main] = "unmark"
        /\ \A t \in Alarms : pc'[t] = pc[t] /\ Live(t)' = Live(t)
        /\ UNCHANGED <<left, securityThread, disturbed, wantSecurityThreadRunning>>
    BY <1>3, <1>a DEF Interrupt, Goto, Live, flags
  <2>2. \A t \in Alarms : interrupted'[t] => interrupted[t] \/ t = securityThread
    BY <1>3 DEF Interrupt
  <2>3. Slots'
    BY <1>a, <2>1, <2>2 DEF CountdownInv, Slots
  <2>4. Alone'
    BY <2>1 DEF CountdownInv, Alone, CancelHits
  <2>5. CancelHits' /\ FullCountdown'
    BY <2>1 DEF CountdownInv, CancelHits, FullCountdown
  <2> QED BY <2>3, <2>4, <2>5 DEF CountdownInv
<1>4. ASSUME NEW t \in Alarms, CountDown(t) PROVE CountdownInv'
  <2>1. pc[t] = "check" /\ Live(t)
    BY <1>4 DEF CountDown, Goto, Live
  <2>2. /\ UNCHANGED <<securityThread, disturbed, interrupted, wantSecurityThreadRunning>>
        /\ \A u \in Alarms \ {t} : left'[u] = left[u]
    BY <1>4, <1>b DEF CountDown, flags
  <2>3. CASE LoopGoesOn(t)
    <3>1. pc' = [pc EXCEPT ![t] = "sleep"] /\ wantSecurityThreadRunning
      BY <1>4, <2>3 DEF CountDown, Goto, LoopGoesOn
    <3> QED BY <2>1, <2>2, <3>1, CountdownOwnStep DEF AlarmPCs, Changing
  <2>4. CASE ~LoopGoesOn(t)
    <3>1. pc' = [pc EXCEPT ![t] = "expired"] /\ left' = left
      BY <1>4, <2>4 DEF CountDown, Goto
    <3>2. t \notin disturbed => left[t] <= 0
      BY <1>b, <2>1, <2>4 DEF LoopGoesOn, CountdownInv, Alone
    <3> QED BY <2>1, <2>2, <3>1, <3>2, CountdownOwnStep DEF AlarmPCs, Changing
  <2> QED BY <2>3, <2>4
<1>5. ASSUME NEW t \in Alarms, WakeUp(t) PROVE CountdownInv'
  <2>1. pc[t] = "sleep" /\ Live(t)
    BY <1>5 DEF WakeUp, Goto, Live
  <2>2. UNCHANGED <<securityThread, disturbed, left, wantSecurityThreadRunning>>
    BY <1>5 DEF WakeUp, flags
  <2>3. CASE interrupted[t]
    <3>1. /\ pc' = [pc EXCEPT ![t] = "toDefault"]
          /\ interrupted' = [interrupted EXCEPT ![t] = FALSE]
      BY <1>5, <2>3 DEF WakeUp, Goto
    <3>2. t \in disturbed
      BY <2>1, <2>3 DEF CountdownInv, Alone
    <3> QED BY <1>b, <2>1, <2>2, <3>1, <3>2, CountdownOwnStep DEF AlarmPCs
  <2>4. CASE ~interrupted[t]
    <3>1. pc' = [pc EXCEPT ![t] = "check"] /\ interrupted' = interrupted
      BY <1>5, <2>4 DEF WakeUp, Goto
    <3>2. t \notin disturbed => wantSecurityThreadRunning
      BY <2>1 DEF CountdownInv, Alone
    <3> QED BY <2>1, <2>2, <3>1, <3>2, CountdownOwnStep DEF AlarmPCs, Changing
  <2> QED BY <2>3, <2>4
<1>6. ASSUME NEW t \in Alarms, IntruderAlert(t) PROVE CountdownInv'
  <2>1. pc[t] = "expired" /\ Live(t) /\ pc' = [pc EXCEPT ![t] = "alarms"]
    BY <1>6 DEF IntruderAlert, Goto, Live
  <2>2. UNCHANGED <<securityThread, disturbed, left, interrupted>>
    BY <1>6 DEF IntruderAlert, threads
  <2>3. t \notin disturbed => left[t] <= 0
    BY <2>1 DEF CountdownInv, FullCountdown
  <2> QED BY <2>1, <2>2, <2>3, CountdownOwnStep DEF AlarmPCs, Changing
<1>7. ASSUME NEW t \in Alarms, TriggerAlarms(t) \/ ClearRunning(t) \/ ClearWant(t)
      PROVE  CountdownInv'
  <2>1. PICK there \in {"exit1", "exit2", "done"} : pc' = [pc EXCEPT ![t] = there]
    BY <1>7 DEF TriggerAlarms, ClearRunning, ClearWant, Goto
  <2>2. Live(t)
    BY <1>7 DEF TriggerAlarms, ClearRunning, ClearWant, Goto, Live
  <2>3. UNCHANGED <<securityThread, disturbed, left, interrupted>>
    BY <1>7 DEF TriggerAlarms, ClearRunning, ClearWant, threads
  <2> QED BY <2>1, <2>2, <2>3, CountdownOwnStep DEF AlarmPCs, Changing
<1>8. ASSUME NEW t \in Alarms, Change(t) PROVE CountdownInv'
  <2>1. PICK there \in {"publish", "save", "flush", "exit1"} : pc' = [pc EXCEPT ![t] = there]
    BY <1>8, <1>a DEF Change, ToDefault, ChangeHousemode, Publish, Save, CannotOpen, Flush,
       Goto, After
  <2>2. Live(t) /\ pc[t] \in Changing \cup {"toDefault"}
    BY <1>8 DEF Change, ToDefault, ChangeHousemode, Publish, Save, CannotOpen, Flush, Goto,
       Live, Changing
  <2>3. UNCHANGED <<securityThread, disturbed, left, interrupted>>
    BY <1>8 DEF Change, ToDefault, Publish, Save, Flush, threads
  <2>4. t \in disturbed
    BY <2>2 DEF CountdownInv, FullCountdown
  <2> QED BY <2>1, <2>2, <2>3, <2>4, CountdownOwnStep DEF AlarmPCs, Changing
<1>9. ASSUME Restart PROVE CountdownInv'
  <2>1. /\ pc'[Main] = "idle" /\ UNCHANGED <<securityThread, disturbed, left>>
        /\ \A t \in Alarms : /\ pc'[t] = IF pc[t] = "none" THEN "none" ELSE "done"
                             /\ ~interrupted'[t]
    BY <1>9, <1>a DEF Restart
  <2>2. Slots'
    BY <2>1 DEF CountdownInv, Slots
  <2>3. Alone' /\ CancelHits' /\ FullCountdown'
    BY <2>1 DEF Alone, CancelHits, FullCountdown, Live, Changing
  <2> QED BY <2>2, <2>3 DEF CountdownInv
<1>10. ASSUME \/ \E pin \in Pins, mode \in ModeInputs : SetHousemode(pin, mode)
              \/ \E pin \in Pins, c \in Configs, mode \in ModeInputs : SetConfig(pin, c, mode)
              \/ \E pin \in Pins : DisableAlarm(pin)
              \/ MarkRunning \/ UnmarkRunning \/ StopAlarms
       PROVE  CountdownInv'
  <2>1. PICK there \in MainPCs \ {"interrupt"} : pc' = [pc EXCEPT ![Main] = there]
    BY <1>10, <1>a DEF SetHousemode, ChangeHousemode, SetConfig, DisableAlarm, MarkRunning,
       UnmarkRunning, StopAlarms, Goto, MainPCs, Changing
  <2>2. UNCHANGED <<left, interrupted, securityThread, disturbed, wantSecurityThreadRunning>>
    BY <1>10 DEF SetHousemode, SetConfig, DisableAlarm, MarkRunning, UnmarkRunning, StopAlarms,
       threads, flags
  <2> QED BY <1>a, <2>1, <2>2, CountdownFrame
<1>11. ASSUME Change(Main) PROVE CountdownInv'
  <2>1. PICK there \in MainPCs \ {"interrupt"} : pc' = [pc EXCEPT ![Main] = there]
    BY <1>11, <1>a DEF Change, ToDefault, ChangeHousemode, Publish, Save, CannotOpen, Flush,
       Goto, After, MainPCs, Changing
  <2>2. UNCHANGED <<left, interrupted, securityThread, disturbed, wantSecurityThreadRunning>>
    BY <1>11 DEF Change, ToDefault, Publish, Save, Flush, threads, flags
  <2> QED BY <1>a, <2>1, <2>2, CountdownFrame
<1>12. ASSUME \/ \E pin \in Pins, new \in PinLists : SetPin(pin, new)
              \/ GetConfig \/ TimeChanged \/ UNCHANGED vars
              \/ \E level \in Levels : DeviceEvent(level)
       PROVE  CountdownInv'
  <2>1. UNCHANGED <<pc, left, interrupted, securityThread, disturbed, wantSecurityThreadRunning>>
    BY <1>12 DEF SetPin, GetConfig, TimeChanged, DeviceEvent, vars, threads, flags
  <2> QED BY <2>1, CountdownFrame
<1> QED
  BY <1>1, <1>2, <1>3, <1>4, <1>5, <1>6, <1>7, <1>8, <1>9, <1>10, <1>11, <1>12
  DEF Next, Command, MainStep, AlarmStep

\* The inductive invariant, and the part of it other proofs use.
LEMMA CountdownCorrect == Spec => []CountdownInv
<1> QED BY TypeCorrect, CountdownInit, CountdownStep, PTL DEF Spec

LEMMA SlotsCorrect == Spec => []Slots
<1>1. CountdownInv => Slots
  BY DEF CountdownInv
<1> QED BY <1>1, CountdownCorrect, PTL

(* enableAlarm: an alarm thread that no cancel hit and that was alone all  *)
(* its life raises the intruder alert after its whole countdown, and does  *)
(* not go back to the default house mode.                                  *)
THEOREM FullCountdownCorrect == Spec => []FullCountdown
<1>1. CountdownInv => FullCountdown
  BY DEF CountdownInv
<1> QED BY <1>1, CountdownCorrect, PTL

-----------------------------------------------------------------------------
(***************************************************************************)
(* The map file stays readable: the memory of an actor inside a change and *)
(* what any thread is about to write are never the empty document.         *)
(***************************************************************************)
Filled ==
    /\ \A a \in Actors : pc[a] \in Changing => securitymap # EmptyMap
    /\ \A a \in Actors : pc[a] = "flush" => written[a] # EmptyMap
    /\ ~torn /\ (\A a \in Actors : pc[a] # "flush") => mapFile # EmptyMap

\* One case per action: <1>e fills the memory, <1>f leaves it alone.
LEMMA FilledStep ==
  TypeOK /\ Slots /\ Filled /\ [Next]_vars => Filled'
<1> SUFFICES ASSUME TypeOK, Slots, Filled, [Next]_vars PROVE Filled' OBVIOUS
<1>a. /\ pc \in [Actors -> MainPCs \cup AlarmPCs] /\ Alarms \subseteq Actors
      /\ Main \in Actors \ Alarms /\ after \in {"idle", "stop"}
      /\ written \in [Actors -> SecurityMaps] /\ securitymap \in SecurityMaps
  BY BoundsAssumption DEF BoundsAssumption, TypeOK, PositionsOK, MapsOK, Main, Actors, Alarms
<1>c. /\ EmptyMap.configured = FALSE /\ EmptyMap.housemode = NoMode
      /\ NoMode \notin Modes /\ ModeInputs \subseteq Modes
  BY BoundsAssumption DEF BoundsAssumption, EmptyMap
<1>d. \A t \in Alarms : t = securityThread + 1 => t > securityThread
  BY BoundsAssumption DEF BoundsAssumption, TypeOK, ThreadsOK, Alarms
\* a step that fills the memory and may enter a change
<1>e. ASSUME securitymap' # EmptyMap, UNCHANGED <<torn, mapFile, written>>,
             \A a \in Actors : pc'[a] = "flush" <=> pc[a] = "flush"
      PROVE  Filled'
  BY <1>e DEF Filled
\* a step that leaves the memory alone and enters no change
<1>f. ASSUME UNCHANGED <<torn, securitymap, mapFile, written>>,
             \A a \in Actors : pc'[a] = "flush" <=> pc[a] = "flush",
             \A a \in Actors : pc'[a] \in Changing => pc[a] \in Changing
      PROVE  Filled'
  BY <1>f DEF Filled
<1>1. ASSUME NEW pin \in Pins, NEW mode \in ModeInputs, SetHousemode(pin, mode) PROVE Filled'
  <2>1. UNCHANGED <<torn, mapFile, written>>
    BY <1>1 DEF SetHousemode
  <2>2. securitymap'.housemode = mode
    BY <1>1, <1>a DEF SetHousemode, ChangeHousemode, SecurityMaps
  <2>3. \A a \in Actors : pc'[a] = "flush" <=> pc[a] = "flush"
    BY <1>1, <1>a DEF SetHousemode, ChangeHousemode, Goto
  <2> QED BY <1>c, <1>e, <2>1, <2>2, <2>3
<1>2. ASSUME NEW pin \in Pins, NEW c \in Configs, NEW mode \in ModeInputs,
             SetConfig(pin, c, mode) PROVE Filled'
  <2>1. UNCHANGED <<torn, mapFile, written>>
    BY <1>2 DEF SetConfig, saving
  <2>2. securitymap'.configured = TRUE
    BY <1>2, <1>a DEF SetConfig, SecurityMaps
  <2>3. \A a \in Actors : pc'[a] = "flush" <=> pc[a] = "flush"
    BY <1>2, <1>a DEF SetConfig, Goto
  <2> QED BY <1>c, <1>e, <2>1, <2>2, <2>3
<1>3. ASSUME \/ GetConfig
             \/ \E level \in Levels : DeviceEvent(level)
      PROVE  Filled'
  <2>1. UNCHANGED <<torn, mapFile, written, pc>>
    BY <1>3 DEF GetConfig, DeviceEvent, saving
  <2>2. securitymap' = securitymap \/ securitymap'.configured = TRUE
    BY <1>3, <1>a DEF GetConfig, DeviceEvent, SecurityMaps
  <2> QED BY <1>c, <1>e, <1>f, <2>1, <2>2
<1>4. ASSUME NEW a \in Actors, ToDefault(a) PROVE Filled'
  <2>1. UNCHANGED <<torn, mapFile, written>>
    BY <1>4 DEF ToDefault
  <2>2. \A b \in Actors : pc'[b] = "flush" <=> pc[b] = "flush"
    BY <1>4, <1>a DEF ToDefault, ChangeHousemode, Goto, After
  <2>3. CASE securitymap.default = NoMode
    <3>1. securitymap' = securitymap /\ \A b \in Actors : pc'[b] \in Changing => pc[b] \in Changing
      BY <1>4, <1>a, <2>3 DEF ToDefault, Goto, After, Changing
    <3> QED BY <1>f, <2>1, <2>2, <3>1
  <2>4. CASE securitymap.default # NoMode
    <3>1. securitymap'.housemode = securitymap.default
      BY <1>4, <1>a, <2>4 DEF ToDefault, ChangeHousemode, SecurityMaps
    <3> QED BY <1>c, <1>e, <2>1, <2>2, <2>4, <3>1
  <2> QED BY <2>3, <2>4
<1>5. ASSUME NEW a \in Actors, Publish(a) PROVE Filled'
  <2>1. UNCHANGED <<torn, securitymap, mapFile, written>>
    BY <1>5 DEF Publish
  <2>2. \A b \in Actors : /\ pc'[b] = "flush" <=> pc[b] = "flush"
                          /\ pc'[b] \in Changing => pc[b] \in Changing
    BY <1>5, <1>a DEF Publish, Goto, Changing
  <2> QED BY <1>f, <2>1, <2>2
<1>6. ASSUME NEW a \in Actors, Save(a) PROVE Filled'
  <2>1. UNCHANGED <<torn, securitymap>>
    BY <1>6 DEF Save
  <2>2. CASE CannotOpen(a)
    <3>1. UNCHANGED <<mapFile, written>>
      BY <2>2 DEF CannotOpen
    <3>2. \A b \in Actors : /\ pc'[b] = "flush" <=> pc[b] = "flush"
                            /\ pc'[b] \in Changing => pc[b] \in Changing
      BY <2>2, <1>a DEF CannotOpen, Goto, After, Changing
    <3> QED BY <1>f, <2>1, <3>1, <3>2
  <2>3. CASE Goto(a, "save", "flush") /\ written' = [written EXCEPT ![a] = securitymap]
    <3>1. /\ pc[a] = "save" /\ pc'[a] = "flush" /\ "save" \in Changing
          /\ \A b \in Actors \ {a} : pc'[b] = pc[b]
      BY <2>3, <1>a DEF Goto, Changing
    <3>2. written'[a] = securitymap /\ \A b \in Actors \ {a} : written'[b] = written[b]
      BY <2>3, <1>a
    <3> QED BY <2>1, <3>1, <3>2 DEF Filled
  <2> QED BY <1>6, <2>2, <2>3 DEF Save
<1>7. ASSUME NEW a \in Actors, Flush(a) PROVE Filled'
  <2>1. /\ UNCHANGED securitymap
        /\ mapFile' = written[a] \/ torn' = TRUE
    BY <1>7 DEF Flush
  <2>2. /\ pc[a] = "flush" /\ pc'[a] \notin Changing /\ pc'[a] # "flush"
        /\ \A b \in Actors \ {a} : pc'[b] = pc[b]
    BY <1>7, <1>a DEF Flush, Goto, After, Changing
  <2>3. \A b \in Actors \ {a} : written'[b] = written[b]
    BY <1>7, <1>a DEF Flush
  <2> QED BY <2>1, <2>2, <2>3 DEF Filled
<1>8. ASSUME Restart PROVE Filled'
  <2>1. mapFile' = mapFile /\ (~torn' => ~torn /\ \A a \in Actors : pc[a] # "flush")
    BY <1>8 DEF Restart
  <2>2. \A a \in Actors : pc'[a] \notin Changing /\ pc'[a] # "flush"
    BY <1>8 DEF Restart, Changing
  <2> QED BY <2>1, <2>2 DEF Filled
<1>9. ASSUME NEW here \in MainPCs \cup AlarmPCs,
             NEW there \in (MainPCs \cup AlarmPCs) \ Changing,
             here # "flush",
             NEW a \in Actors, Goto(a, here, there), UNCHANGED <<securitymap, saving>>
      PROVE  Filled'
  <2>1. \A b \in Actors : /\ pc'[b] = "flush" <=> pc[b] = "flush"
                          /\ pc'[b] \in Changing => pc[b] \in Changing
    BY <1>9, <1>a DEF Goto, Changing
  <2>2. UNCHANGED <<torn, securitymap, mapFile, written>>
    BY <1>9 DEF saving
  <2> QED BY <1>f, <2>1, <2>2
<1>10. ASSUME \/ \E pin \in Pins : CancelCountdown(pin) \/ DisableAlarm(pin)
              \/ MainStep
       PROVE  Filled'
  <2>1. PICK here \in MainPCs \ {"flush"}, there \in MainPCs \ Changing : Goto(Main, here, there)
    BY <1>10 DEF CancelCountdown, DisableAlarm, MainStep, MarkRunning, Interrupt, UnmarkRunning,
       StopAlarms, MainPCs, Changing
  <2>2. UNCHANGED <<securitymap, saving>>
    BY <1>10 DEF CancelCountdown, DisableAlarm, MainStep, MarkRunning, Interrupt, UnmarkRunning,
       StopAlarms
  <2> QED BY <1>9, <1>a, <2>1, <2>2
<1>11. ASSUME NEW t \in Alarms,
              \/ CountDown(t) \/ WakeUp(t) \/ IntruderAlert(t) \/ TriggerAlarms(t)
              \/ ClearRunning(t) \/ ClearWant(t)
       PROVE  Filled'
  <2>1. PICK here \in AlarmPCs \ {"flush"}, there \in AlarmPCs \ Changing : Goto(t, here, there)
    BY <1>11 DEF CountDown, WakeUp, IntruderAlert, TriggerAlarms, ClearRunning, ClearWant,
       AlarmPCs, Changing
  <2>2. UNCHANGED <<securitymap, saving>>
    BY <1>11 DEF CountDown, WakeUp, IntruderAlert, TriggerAlarms, ClearRunning, ClearWant
  <2> QED BY <1>9, <1>a, <2>1, <2>2
<1>12. ASSUME NEW zone \in Zones, TriggerZone(zone) PROVE Filled'
  <2>1. UNCHANGED <<torn, securitymap, mapFile, written>>
    BY <1>12 DEF TriggerZone, saving
  <2>2. \A a \in Actors : /\ pc'[a] = "flush" <=> pc[a] = "flush"
                          /\ pc'[a] \in Changing => pc[a] \in Changing
    <3>1. CASE pc' = pc
      BY <3>1
    <3>2. ASSUME NEW t \in Alarms, t = securityThread + 1,
                 pc' = [pc EXCEPT ![Main] = "mark", ![t] = "check"]
          PROVE  \A a \in Actors : /\ pc'[a] = "flush" <=> pc[a] = "flush"
                                   /\ pc'[a] \in Changing => pc[a] \in Changing
      <4>1. pc[Main] = "idle"
        BY <1>12 DEF TriggerZone
      <4>2. pc[t] # "flush"
        BY <3>2, <1>d DEF Slots
      <4> QED BY <1>a, <3>2, <4>1, <4>2 DEF Changing
    <3> QED BY <1>12, <3>1, <3>2 DEF TriggerZone
  <2> QED BY <1>f, <2>1, <2>2
<1>13. ASSUME \/ \E pin \in Pins, new \in PinLists : SetPin(pin, new)
              \/ TimeChanged \/ UNCHANGED vars
       PROVE  Filled'
  <2>1. UNCHANGED <<torn, securitymap, mapFile, written, pc>>
    BY <1>13 DEF SetPin, TimeChanged, vars, saving
  <2> QED BY <1>f, <2>1
<1> QED
  BY <1>1, <1>2, <1>3, <1>4, <1>5, <1>6, <1>7, <1>8, <1>10, <1>11, <1>12, <1>13, <1>a
  DEF Next, Command, AlarmStep, Change

(* writeJsonFile: a map file that could be read at the first start, or was *)
(* saved once, can be read whenever no thread is inside a save, until the  *)
(* process dies or the disk fills up inside a save.                        *)
THEOREM MapFileReadableCorrect == Spec => []MapFileReadable
<1>1. Init => Filled
  BY DEF Init, Filled, Changing
<1>2. Filled => MapFileReadable
  BY DEF Filled, MapFileReadable
<1> QED BY <1>1, <1>2, SlotsCorrect, TypeCorrect, FilledStep, PTL DEF Spec

-----------------------------------------------------------------------------
(***************************************************************************)
(* The three copies of the house mode.  While no two changes overlap, at   *)
(* most one actor is inside changeHousemode or setconfig, what it is about *)
(* to publish is the house mode in memory, and what it is about to write   *)
(* is the document in memory.                                              *)
(***************************************************************************)
SameCopy(x, y) ==
    x.config = y.config /\ x.housemode = y.housemode /\ x.default = y.default

\* At most one actor is inside a change, and holds what memory holds.
Lone ==
    /\ \A a, b \in Actors : pc[a] \in Changing /\ pc[b] \in Changing => a = b
    /\ \A a \in Actors : pc[a] = "publish" => published[a] = securitymap.housemode
    /\ (\A a \in Actors : pc[a] # "publish") /\ ~unsynced
          => globalVariable = securitymap.housemode
    /\ \A a \in Actors : pc[a] = "flush" => SameCopy(written[a], securitymap)
    /\ (\A a \in Actors : pc[a] \notin Changing) /\ ~unsaved
          => SameCopy(mapFile, securitymap)

CopiesInv == ~overlap => Lone

\* One case per action.
LEMMA CopiesStep == TypeOK /\ Slots /\ CopiesInv /\ [Next]_vars => CopiesInv'
<1> SUFFICES ASSUME TypeOK, Slots, CopiesInv, [Next]_vars, ~overlap'
             PROVE  Lone'
  BY DEF CopiesInv
<1>a. /\ pc \in [Actors -> MainPCs \cup AlarmPCs] /\ Alarms \subseteq Actors
      /\ Main \in Actors \ Alarms /\ after \in {"idle", "stop"}
      /\ written \in [Actors -> SecurityMaps] /\ securitymap \in SecurityMaps
      /\ published \in [Actors -> Modes \cup {NoMode}] /\ mapFile \in SecurityMaps
  BY BoundsAssumption DEF BoundsAssumption, TypeOK, PositionsOK, MapsOK, Main, Actors, Alarms
<1>b. ~overlap => Lone
  BY DEF CopiesInv
<1>c. \A t \in Alarms : t = securityThread + 1 => t > securityThread
  BY BoundsAssumption DEF BoundsAssumption, TypeOK, ThreadsOK, Alarms
<1>0. ASSUME Lone, SameCopy(securitymap', securitymap), UNCHANGED saving,
             \A a \in Actors : pc'[a] = pc[a] \/ (pc[a] \notin Changing /\ pc'[a] \notin Changing)
      PROVE  Lone'
  <2>1. UNCHANGED <<published, written, globalVariable, mapFile, unsynced, unsaved>>
    BY <1>0 DEF saving
  <2>2. \A a \in Actors : /\ pc'[a] \in Changing <=> pc[a] \in Changing
                          /\ pc'[a] \in Changing => pc'[a] = pc[a]
                          /\ pc[a] \in Changing => pc'[a] = pc[a]
    BY <1>0
  <2> QED BY <1>0, <2>1, <2>2 DEF Lone, SameCopy, Changing
(* An actor enters changeHousemode.                                        *)
<1>1. ASSUME NEW a \in Actors, NEW here \in {"idle", "toDefault"},
             NEW mode \in Modes, ChangeHousemode(a, here, mode),
             UNCHANGED <<mapFile, written, globalVariable, unsynced, unsaved>>
      PROVE  Lone'
  <2>1. ~overlap /\ \A b \in Actors \ {a} : pc[b] \notin Changing
    BY <1>1 DEF ChangeHousemode, Overlapping
  <2>2. pc'[a] = "publish" /\ \A b \in Actors \ {a} : pc'[b] = pc[b]
    BY <1>1, <1>a DEF ChangeHousemode, Goto
  <2>3. published'[a] = mode /\ securitymap'.housemode = mode
    BY <1>1, <1>a DEF ChangeHousemode, SecurityMaps
  <2> QED BY <2>1, <2>2, <2>3 DEF Lone, Changing
<1>2. ASSUME NEW pin \in Pins, NEW mode \in ModeInputs, SetHousemode(pin, mode) PROVE Lone'
  BY <1>1, <1>2, <1>a, BoundsAssumption DEF BoundsAssumption, SetHousemode
<1>3. ASSUME NEW a \in Actors, ToDefault(a) PROVE Lone'
  <2>1. CASE securitymap.default # NoMode
    <3>1. securitymap.default \in Modes
      BY <1>a, <2>1 DEF SecurityMaps
    <3> QED BY <1>1, <1>3, <2>1, <3>1 DEF ToDefault
  <2>2. CASE securitymap.default = NoMode
    <3>1. UNCHANGED <<overlap, securitymap, saving>>
      BY <1>3, <2>2 DEF ToDefault, saving
    <3>2. \A b \in Actors : pc'[b] = pc[b] \/ (pc[b] \notin Changing /\ pc'[b] \notin Changing)
      BY <1>3, <1>a, <2>2 DEF ToDefault, Goto, After, Changing
    <3> QED BY <1>0, <1>b, <3>1, <3>2 DEF SameCopy
  <2> QED BY <2>1, <2>2
<1>4. ASSUME NEW pin \in Pins, NEW c \in Configs, NEW mode \in ModeInputs,
             SetConfig(pin, c, mode) PROVE Lone'
  <2>1. ~overlap /\ \A b \in Actors : pc[b] \notin Changing
    BY <1>4, <1>a DEF SetConfig, Overlapping, Goto, Changing
  <2>2. pc'[Main] = "save" /\ \A b \in Actors \ {Main} : pc'[b] = pc[b]
    BY <1>4, <1>a DEF SetConfig, Goto
  <2>3. securitymap'.housemode = securitymap.housemode
        /\ UNCHANGED <<globalVariable, unsynced>>
    BY <1>4, <1>a DEF SetConfig, SecurityMaps, saving
  <2>4. (\A a \in Actors : pc[a] # "publish") /\ Lone
    BY <1>b, <2>1 DEF Changing
  <2>5. ~unsynced' => globalVariable' = securitymap'.housemode
    BY <2>3, <2>4 DEF Lone
  <2>6. \A a \in Actors : pc'[a] \notin {"publish", "flush"} /\ (pc'[a] \in Changing <=> a = Main)
    BY <2>1, <2>2 DEF Changing
  <2> QED BY <1>a, <2>5, <2>6 DEF Lone
<1>5. ASSUME NEW a \in Actors, Publish(a) PROVE Lone'
  <2>1. Lone /\ UNCHANGED <<securitymap, written, mapFile, unsaved>>
    BY <1>5, <1>b DEF Publish
  <2>2. pc[a] = "publish" /\ pc'[a] = "save" /\ \A b \in Actors \ {a} : pc'[b] = pc[b]
    BY <1>5, <1>a DEF Publish, Goto
  <2>3. \A b \in Actors \ {a} : pc[b] \notin Changing
    BY <2>1, <2>2 DEF Lone, Changing
  <2>4. unsynced' \/ globalVariable' = securitymap.housemode
    BY <1>5, <2>1, <2>2 DEF Publish, Lone
  <2> QED BY <2>1, <2>2, <2>3, <2>4 DEF Lone, Changing
<1>6. ASSUME NEW a \in Actors, Save(a) PROVE Lone'
  <2>1. Lone /\ UNCHANGED <<securitymap, published, globalVariable, unsynced>>
    BY <1>6, <1>b DEF Save
  <2>2. pc[a] = "save" /\ pc'[a] \notin {"publish", "save"}
        /\ \A b \in Actors \ {a} : pc'[b] = pc[b]
    BY <1>6, <1>a DEF Save, CannotOpen, Goto, After
  <2>3. \A b \in Actors \ {a} : pc[b] \notin Changing
    BY <2>1, <2>2 DEF Lone, Changing
  <2>4. pc'[a] = "flush" => written'[a] = securitymap
    BY <1>6, <1>a DEF Save, CannotOpen, Goto, After
  <2>5. pc'[a] # "flush" => unsaved'
    BY <1>6, <1>a DEF Save, CannotOpen, Goto
  <2> QED BY <2>1, <2>2, <2>3, <2>4, <2>5 DEF Lone, Changing, SameCopy
<1>7. ASSUME NEW a \in Actors, Flush(a) PROVE Lone'
  <2>1. Lone /\ UNCHANGED <<securitymap, published, globalVariable, unsynced>>
    BY <1>7, <1>b DEF Flush
  <2>2. pc[a] = "flush" /\ pc'[a] \notin Changing /\ \A b \in Actors \ {a} : pc'[b] = pc[b]
    BY <1>7, <1>a DEF Flush, Goto, After, Changing
  <2>3. \A b \in Actors \ {a} : pc[b] \notin Changing
    BY <2>1, <2>2 DEF Lone, Changing
  <2>4. unsaved' \/ SameCopy(mapFile', securitymap)
    BY <1>7, <2>1, <2>2 DEF Flush, Lone
  <2> QED BY <2>1, <2>2, <2>3, <2>4 DEF Lone, Changing, SameCopy
<1>8. ASSUME Restart PROVE Lone'
  <2>1. \A a \in Actors : pc'[a] \notin Changing
    BY <1>8 DEF Restart, Changing
  <2>2. securitymap' = mapFile' /\ (unsynced' \/ globalVariable' = mapFile.housemode)
        /\ mapFile' = mapFile
    BY <1>8 DEF Restart
  <2> QED BY <2>1, <2>2 DEF Lone, Changing, SameCopy
<1>9. ASSUME NEW a \in Actors, NEW here \in (MainPCs \cup AlarmPCs) \ Changing,
             NEW there \in (MainPCs \cup AlarmPCs) \ Changing,
             Goto(a, here, there), UNCHANGED <<securitymap, saving, overlap>>
      PROVE  Lone'
  <2>1. \A b \in Actors : pc'[b] = pc[b] \/ (pc[b] \notin Changing /\ pc'[b] \notin Changing)
    BY <1>9, <1>a DEF Goto
  <2> QED BY <1>0, <1>9, <1>b, <2>1 DEF SameCopy
<1>10. ASSUME \/ \E pin \in Pins : CancelCountdown(pin) \/ DisableAlarm(pin)
              \/ MainStep
       PROVE  Lone'
  <2>1. PICK here \in MainPCs \ Changing, there \in MainPCs \ Changing : Goto(Main, here, there)
    BY <1>10 DEF CancelCountdown, DisableAlarm, MainStep, MarkRunning, Interrupt, UnmarkRunning,
       StopAlarms, MainPCs, Changing
  <2>2. UNCHANGED <<securitymap, saving, overlap>>
    BY <1>10 DEF CancelCountdown, DisableAlarm, MainStep, MarkRunning, Interrupt, UnmarkRunning,
       StopAlarms
  <2> QED BY <1>9, <1>a, <2>1, <2>2
<1>11. ASSUME NEW t \in Alarms,
              \/ CountDown(t) \/ WakeUp(t) \/ IntruderAlert(t) \/ TriggerAlarms(t)
              \/ ClearRunning(t) \/ ClearWant(t)
       PROVE  Lone'
  <2>1. PICK here \in AlarmPCs \ Changing, there \in AlarmPCs \ Changing : Goto(t, here, there)
    BY <1>11 DEF CountDown, WakeUp, IntruderAlert, TriggerAlarms, ClearRunning, ClearWant,
       AlarmPCs, Changing
  <2>2. UNCHANGED <<securitymap, saving, overlap>>
    BY <1>11 DEF CountDown, WakeUp, IntruderAlert, TriggerAlarms, ClearRunning, ClearWant
  <2> QED BY <1>9, <1>a, <2>1, <2>2
<1>12. ASSUME NEW zone \in Zones, TriggerZone(zone) PROVE Lone'
  <2>1. UNCHANGED <<securitymap, saving, overlap>> /\ pc[Main] = "idle"
    BY <1>12 DEF TriggerZone
  <2>2. \A a \in Actors : pc'[a] = pc[a] \/ (pc[a] \notin Changing /\ pc'[a] \notin Changing)
    <3>1. CASE pc' = pc
      BY <3>1
    <3>2. ASSUME NEW t \in Alarms, t = securityThread + 1,
                 pc' = [pc EXCEPT ![Main] = "mark", ![t] = "check"]
          PROVE  \A a \in Actors :
                    pc'[a] = pc[a] \/ (pc[a] \notin Changing /\ pc'[a] \notin Changing)
      BY <1>a, <1>c, <2>1, <3>2 DEF Slots, Changing
    <3> QED BY <1>12, <3>1, <3>2 DEF TriggerZone
  <2> QED BY <1>0, <1>b, <2>1, <2>2 DEF SameCopy
<1>13. ASSUME \/ GetConfig
              \/ \E level \in Levels : DeviceEvent(level)
              \/ \E pin \in Pins, new \in PinLists : SetPin(pin, new)
              \/ TimeChanged \/ UNCHANGED vars
       PROVE  Lone'
  <2>1. UNCHANGED <<saving, overlap, pc>>
    BY <1>13 DEF GetConfig, DeviceEvent, SetPin, TimeChanged, vars
  <2>2. SameCopy(securitymap', securitymap)
    BY <1>13, <1>a DEF GetConfig, DeviceEvent, SetPin, TimeChanged, vars, SecurityMaps, SameCopy
  <2> QED BY <1>0, <1>b, <2>1, <2>2
<1> QED
  BY <1>2, <1>3, <1>4, <1>5, <1>6, <1>7, <1>8, <1>10, <1>11, <1>12, <1>13, <1>a
  DEF Next, Command, AlarmStep, Change

(* changeHousemode and setconfig: when no change is under way and no two   *)
(* have overlapped, memory, resolver variable and map file agree, except   *)
(* for the copy whose last update failed.                                  *)
THEOREM CopiesAgreeCorrect == Spec => []CopiesAgree
<1>1. Init => CopiesInv
  <2> SUFFICES ASSUME Init PROVE Lone
    BY DEF CopiesInv
  <2>1. \A a \in Actors : pc[a] \notin Changing
    BY DEF Init, Changing
  <2>2. securitymap = mapFile /\ globalVariable = securitymap.housemode
    BY DEF Init
  <2> QED BY <2>1, <2>2 DEF Lone, SameCopy, Changing
<1>2. CopiesInv => CopiesAgree
  BY DEF CopiesInv, Lone, CopiesAgree, SameCopy, Changing
<1> QED BY <1>1, <1>2, SlotsCorrect, TypeCorrect, CopiesStep, PTL DEF Spec

-----------------------------------------------------------------------------
(***************************************************************************)
(* What can be proved of AlarmThreadsEnd: nobody is ever sent back.  The   *)
(* number of its own steps that a thread or a handler still takes at most  *)
(* falls with each of them and is not raised by any step of another        *)
(* thread, whatever is cancelled, triggered again or changed meanwhile.    *)
(***************************************************************************)
UnderWay(a) == pc[a] \notin {"none", "idle", "done"}
OwnStep(a)  == IF a = Main THEN MainStep \/ Change(Main) ELSE AlarmStep(a)

Seconds(t) == IF left[t] > 0 THEN left[t] ELSE 0
StepsLeft(a) ==
    CASE pc[a] = "sleep" -> 2 * Seconds(a) + 8
      [] pc[a] = "check" -> 2 * Seconds(a) + 7
      [] pc[a] = "toDefault" -> 6
      [] pc[a] = "publish" -> 5
      [] pc[a] \in {"save", "expired"} -> 4
      [] pc[a] \in {"flush", "alarms"} -> 3
      [] pc[a] \in {"exit1", "interrupt"} -> 2
      [] pc[a] \in {"exit2", "unmark", "mark", "stop"} -> 1
      [] OTHER -> 0

(* A step of the actor itself leaves it fewer steps, a step of another no  *)
(* more (enableAlarm, and the handlers of the main thread).                *)
ThreadsAdvance ==
    [][\A a \in Actors : UnderWay(a) =>
          /\ StepsLeft(a)' <= StepsLeft(a)
          /\ OwnStep(a) => StepsLeft(a)' < StepsLeft(a)]_vars

(* delay is an int16_t.                                                    *)
DelaysBounded == \A t \in Alarms : left[t] <= 32767

(* A command is over after six steps, an alarm thread after as many as the *)
(* longest delay allows; none are left exactly when it is over.            *)
StepsBounded == \A a \in Actors :
    /\ StepsLeft(a) \in Nat
    /\ StepsLeft(a) <= IF a = Main THEN 6 ELSE 2 * 32767 + 8
    /\ StepsLeft(a) = 0 <=> ~UnderWay(a)

LEMMA Positions ==
    ASSUME TypeOK
    PROVE  /\ pc \in [Actors -> MainPCs \cup AlarmPCs] /\ Alarms \subseteq Actors
           /\ Actors = Alarms \cup {Main} /\ Main \notin Alarms
           /\ pc[Main] \in MainPCs /\ \A t \in Alarms : pc[t] \in AlarmPCs
           /\ after \in {"idle", "stop"} /\ left \in [Alarms -> Int]
           /\ \A t \in Alarms : Seconds(t) \in Nat
  BY BoundsAssumption
  DEF BoundsAssumption, TypeOK, PositionsOK, ThreadsOK, Main, Actors, Alarms, Seconds

LEMMA StepsType ==
    ASSUME TypeOK, NEW a \in Actors
    PROVE  StepsLeft(a) \in Nat /\ (StepsLeft(a) = 0 <=> ~UnderWay(a))
<1>1. a \in Alarms => Seconds(a) \in Nat
  BY Positions
<1>2. a \notin Alarms => pc[a] \in MainPCs
  BY Positions
<1>3. pc[a] \in MainPCs \cup AlarmPCs
  BY Positions
<1>4. CASE a \in Alarms
  BY <1>1, <1>3, <1>4 DEF StepsLeft, UnderWay, MainPCs, AlarmPCs, Changing
<1>5. CASE a \notin Alarms
  BY <1>2, <1>5 DEF StepsLeft, UnderWay, MainPCs, Changing
<1> QED BY <1>4, <1>5

LEMMA StepsUnchanged ==
    ASSUME TypeOK, NEW a \in Actors, pc'[a] = pc[a], a \in Alarms => left'[a] = left[a]
    PROVE  StepsLeft(a)' = StepsLeft(a)
<1>1. CASE a \in Alarms
  BY <1>1 DEF StepsLeft, Seconds
<1>2. CASE a \notin Alarms
  <2>1. pc[a] \in MainPCs
    BY <1>2, Positions
  <2> QED BY <2>1 DEF StepsLeft, MainPCs, Changing
<1> QED BY <1>1, <1>2

LEMMA MainAdvances ==
    ASSUME TypeOK, OwnStep(Main)
    PROVE  StepsLeft(Main)' \in Nat /\ StepsLeft(Main)' < StepsLeft(Main)
<1>1. /\ pc \in [Actors -> MainPCs \cup AlarmPCs] /\ Main \in Actors
      /\ after \in {"idle", "stop"}
  BY Positions
<1>2. CASE MainStep
  <2>1. \/ pc[Main] = "mark" /\ pc'[Main] = "idle"
        \/ pc[Main] = "interrupt" /\ pc'[Main] = "unmark"
        \/ pc[Main] = "unmark" /\ pc'[Main] = "idle"
        \/ pc[Main] = "stop" /\ pc'[Main] = "idle"
    BY <1>1, <1>2 DEF MainStep, MarkRunning, Interrupt, UnmarkRunning, StopAlarms, Goto
  <2> QED BY <2>1 DEF StepsLeft
<1>3. CASE Change(Main)
  <2>1. \/ pc[Main] = "toDefault" /\ pc'[Main] \in {"publish", "idle", "stop"}
        \/ pc[Main] = "publish" /\ pc'[Main] = "save"
        \/ pc[Main] = "save" /\ pc'[Main] \in {"flush", "idle", "stop"}
        \/ pc[Main] = "flush" /\ pc'[Main] \in {"idle", "stop"}
    BY <1>1, <1>3
    DEF Change, ToDefault, ChangeHousemode, Publish, Save, CannotOpen, Flush, Goto, After
  <2> QED BY <2>1 DEF StepsLeft
<1> QED BY <1>2, <1>3 DEF OwnStep

LEMMA AlarmAdvances ==
    ASSUME TypeOK, NEW t \in Alarms, AlarmStep(t)
    PROVE  StepsLeft(t)' \in Nat /\ StepsLeft(t)' < StepsLeft(t)
<1>1. /\ pc \in [Actors -> MainPCs \cup AlarmPCs] /\ t \in Actors /\ t # Main
      /\ left \in [Alarms -> Int] /\ Seconds(t) \in Nat
  BY Positions
<1>2. CASE CountDown(t)
  <2>1. CASE LoopGoesOn(t)
    <3>1. pc[t] = "check" /\ pc'[t] = "sleep" /\ left'[t] = left[t] - 1 /\ left[t] > 0
      BY <1>1, <1>2, <2>1 DEF CountDown, Goto, LoopGoesOn
    <3>2. Seconds(t)' = Seconds(t) - 1
      BY <1>1, <3>1 DEF Seconds
    <3> QED BY <1>1, <3>1, <3>2 DEF StepsLeft
  <2>2. CASE ~LoopGoesOn(t)
    <3>1. pc[t] = "check" /\ pc'[t] = "expired"
      BY <1>1, <1>2, <2>2 DEF CountDown, Goto
    <3> QED BY <1>1, <3>1 DEF StepsLeft
  <2> QED BY <2>1, <2>2
<1>3. CASE WakeUp(t)
  <2>1. pc[t] = "sleep" /\ pc'[t] \in {"toDefault", "check"} /\ left' = left
    BY <1>1, <1>3 DEF WakeUp, Goto
  <2>2. Seconds(t)' = Seconds(t)
    BY <2>1 DEF Seconds
  <2> QED BY <1>1, <2>1, <2>2 DEF StepsLeft
<1>4. CASE IntruderAlert(t) \/ TriggerAlarms(t) \/ ClearRunning(t) \/ ClearWant(t)
  <2>1. \/ pc[t] = "expired" /\ pc'[t] = "alarms"
        \/ pc[t] = "alarms" /\ pc'[t] = "exit1"
        \/ pc[t] = "exit1" /\ pc'[t] = "exit2"
        \/ pc[t] = "exit2" /\ pc'[t] = "done"
    BY <1>1, <1>4 DEF IntruderAlert, TriggerAlarms, ClearRunning, ClearWant, Goto
  <2> QED BY <2>1 DEF StepsLeft
<1>5. CASE Change(t)
  <2>1. \/ pc[t] = "toDefault" /\ pc'[t] \in {"publish", "exit1"}
        \/ pc[t] = "publish" /\ pc'[t] = "save"
        \/ pc[t] = "save" /\ pc'[t] \in {"flush", "exit1"}
        \/ pc[t] = "flush" /\ pc'[t] = "exit1"
    BY <1>1, <1>5
    DEF Change, ToDefault, ChangeHousemode, Publish, Save, CannotOpen, Flush, Goto, After
  <2> QED BY <2>1 DEF StepsLeft
<1> QED BY <1>2, <1>3, <1>4, <1>5 DEF AlarmStep

(* A command starts something: a handler of the idle main thread, or a     *)
(* thread that was not there before.                                       *)
LEMMA CommandDisturbsNobody ==
    ASSUME TypeOK, Slots, NEW a \in Actors, UnderWay(a), Command
    PROVE  pc'[a] = pc[a] /\ (a \in Alarms => left'[a] = left[a])
<1>1. /\ pc \in [Actors -> MainPCs \cup AlarmPCs] /\ Main \in Actors
      /\ left \in [Alarms -> Int] /\ Alarms \subseteq Actors
  BY Positions
<1>2. securityThread \in Nat /\ \A t \in Alarms : t \in Nat
  BY BoundsAssumption DEF BoundsAssumption, TypeOK, ThreadsOK, Alarms
<1>3. ASSUME NEW zone \in Zones, TriggerZone(zone)
      PROVE  pc'[a] = pc[a] /\ (a \in Alarms => left'[a] = left[a])
  <2>1. pc[Main] = "idle" /\ a # Main
    BY <1>3 DEF TriggerZone, UnderWay
  <2>2. CASE UNCHANGED <<pc, left>>
    BY <2>2
  <2>3. ASSUME NEW e, NEW t \in Alarms, t = securityThread + 1,
               pc' = [pc EXCEPT ![Main] = "mark", ![t] = "check"],
               left' = [left EXCEPT ![t] = Int16(e.delay)]
        PROVE  pc'[a] = pc[a] /\ (a \in Alarms => left'[a] = left[a])
    <3>1. pc[t] = "none"
      BY <1>2, <2>3 DEF Slots
    <3>2. a # t
      BY <3>1 DEF UnderWay
    <3> QED BY <1>1, <2>1, <2>3, <3>2
  <2> QED BY <1>3, <2>2, <2>3 DEF TriggerZone
<1>4. CASE \/ \E pin \in Pins, mode \in ModeInputs : SetHousemode(pin, mode)
           \/ \E pin \in Pins, c \in Configs, mode \in ModeInputs : SetConfig(pin, c, mode)
           \/ \E pin \in Pins : CancelCountdown(pin) \/ DisableAlarm(pin)
  <2>1. pc[Main] = "idle" /\ left' = left /\ \E there : pc' = [pc EXCEPT ![Main] = there]
    BY <1>4 DEF SetHousemode, ChangeHousemode, SetConfig, CancelCountdown, DisableAlarm, Goto,
       threads
  <2>2. a # Main
    BY <2>1 DEF UnderWay
  <2> QED BY <1>1, <2>1, <2>2
<1>5. CASE \/ \E pin \in Pins, new \in PinLists : SetPin(pin, new)
           \/ GetConfig \/ TimeChanged \/ \E level \in Levels : DeviceEvent(level)
  BY <1>5 DEF SetPin, GetConfig, TimeChanged, DeviceEvent, threads
<1> QED BY <1>3, <1>4, <1>5 DEF Command

(* A step of another actor leaves this one where it is.                    *)
LEMMA OthersDisturbNobody ==
    ASSUME TypeOK, NEW a \in Actors, NEW b \in Actors, a # b, OwnStep(b)
    PROVE  pc'[a] = pc[a] /\ (a \in Alarms => left'[a] = left[a])
<1>1. /\ pc \in [Actors -> MainPCs \cup AlarmPCs] /\ left \in [Alarms -> Int]
      /\ Actors = Alarms \cup {Main} /\ Main \notin Alarms
  BY Positions
<1>2. \E there : pc' = [pc EXCEPT ![b] = there]
  <2>1. CASE b = Main /\ MainStep
    BY <2>1 DEF MainStep, MarkRunning, Interrupt, UnmarkRunning, StopAlarms, Goto
  <2>2. CASE Change(b)
    BY <2>2 DEF Change, ToDefault, ChangeHousemode, Publish, Save, CannotOpen, Flush, Goto
  <2>3. CASE CountDown(b) \/ WakeUp(b)
    BY <2>3 DEF CountDown, WakeUp, Goto
  <2>4. CASE IntruderAlert(b) \/ TriggerAlarms(b) \/ ClearRunning(b) \/ ClearWant(b)
    BY <2>4 DEF IntruderAlert, TriggerAlarms, ClearRunning, ClearWant, Goto
  <2> QED BY <2>1, <2>2, <2>3, <2>4 DEF OwnStep, AlarmStep
<1>3. left' = left \/ (b \in Alarms /\ \E d : left' = [left EXCEPT ![b] = d])
  <2>1. CASE b = Main /\ MainStep
    BY <2>1 DEF MainStep, MarkRunning, Interrupt, UnmarkRunning, StopAlarms, threads
  <2>2. CASE Change(b)
    BY <2>2 DEF Change, ToDefault, Publish, Save, Flush, threads
  <2>3. CASE b \in Alarms /\ (CountDown(b) \/ WakeUp(b))
    BY <2>3 DEF CountDown, WakeUp
  <2>4. CASE IntruderAlert(b) \/ TriggerAlarms(b) \/ ClearRunning(b) \/ ClearWant(b)
    BY <2>4 DEF IntruderAlert, TriggerAlarms, ClearRunning, ClearWant, threads
  <2> QED BY <1>1, <2>1, <2>2, <2>3, <2>4 DEF OwnStep, AlarmStep
<1> QED BY <1>1, <1>2, <1>3

LEMMA AdvanceStep ==
    ASSUME TypeOK, Slots, [Next]_vars, NEW a \in Actors, UnderWay(a)
    PROVE  /\ StepsLeft(a)' <= StepsLeft(a)
           /\ OwnStep(a) => StepsLeft(a)' < StepsLeft(a)
<1>1. StepsLeft(a) \in Nat /\ Actors = Alarms \cup {Main} /\ Main \notin Alarms
      /\ pc \in [Actors -> MainPCs \cup AlarmPCs]
  BY StepsType, Positions
<1>2. ASSUME OwnStep(a) PROVE StepsLeft(a)' \in Nat /\ StepsLeft(a)' < StepsLeft(a)
  <2>1. CASE a = Main
    BY <1>2, <2>1, MainAdvances
  <2>2. CASE a \in Alarms
    BY <1>1, <1>2, <2>2, AlarmAdvances DEF OwnStep
  <2> QED BY <1>1, <2>1, <2>2
<1> SUFFICES StepsLeft(a)' <= StepsLeft(a)
  BY <1>2
<1>3. ASSUME pc'[a] = pc[a], a \in Alarms => left'[a] = left[a]
      PROVE  StepsLeft(a)' <= StepsLeft(a)
  BY <1>1, <1>3, StepsUnchanged
<1>4. CASE Command
  BY <1>3, <1>4, CommandDisturbsNobody
<1>5. ASSUME NEW b \in Actors, OwnStep(b) PROVE StepsLeft(a)' <= StepsLeft(a)
  <2>1. CASE a = b
    BY <1>1, <1>2, <1>5, <2>1
  <2>2. CASE a # b
    BY <1>3, <1>5, <2>2, OthersDisturbNobody
  <2> QED BY <2>1, <2>2
<1>6. CASE Restart
  <2>1. pc'[a] \in {"idle", "none", "done"}
    BY <1>1, <1>6 DEF Restart
  <2>2. StepsLeft(a)' = 0
    BY <2>1 DEF StepsLeft
  <2> QED BY <1>1, <2>2
<1>7. CASE UNCHANGED vars
  BY <1>3, <1>7 DEF vars, threads
<1>8. Command \/ (\E b \in Actors : OwnStep(b)) \/ Restart \/ UNCHANGED vars
  BY <1>1 DEF Next, OwnStep
<1> QED BY <1>1, <1>2, <1>4, <1>5, <1>6, <1>7, <1>8

LEMMA DelaysStep ==
    ASSUME TypeOK, DelaysBounded, [Next]_vars
    PROVE  DelaysBounded'
<1>1. left \in [Alarms -> Int]
  BY DEF TypeOK, ThreadsOK
<1>2. ASSUME \A u \in Alarms : left'[u] = left[u] \/ left'[u] <= 32767
      PROVE  DelaysBounded'
  BY <1>2 DEF DelaysBounded
<1>3. ASSUME NEW zone \in Zones, TriggerZone(zone), left' # left PROVE DelaysBounded'
  <2>1. PICK e \in Entries(securitymap, securitymap.housemode, zone), t \in Alarms :
            left' = [left EXCEPT ![t] = Int16(e.delay)]
    BY <1>3 DEF TriggerZone
  <2>2. Int16(e.delay) \in Int /\ Int16(e.delay) <= 32767
    <3>1. e.delay \in Int
      BY ConfigAssumption DEF ConfigAssumption, TypeOK, MapsOK, SecurityMaps, Entries
    <3> QED BY <3>1 DEF Int16
  <2>3. \A u \in Alarms : left'[u] = left[u] \/ left'[u] <= 32767
    BY <1>1, <2>1, <2>2
  <2> QED BY <1>2, <2>3
<1>4. ASSUME NEW t \in Alarms, CountDown(t), left' # left PROVE DelaysBounded'
  <2>1. left' = [left EXCEPT ![t] = left[t] - 1] /\ left[t] \in Int
    BY <1>1, <1>4 DEF CountDown
  <2>2. left[t] - 1 \in Int /\ left[t] - 1 <= 32767
    BY <2>1 DEF DelaysBounded
  <2>3. \A u \in Alarms : left'[u] = left[u] \/ left'[u] <= 32767
    BY <1>1, <2>1, <2>2
  <2> QED BY <1>2, <2>3
<1>5. CASE left' = left
  BY <1>5 DEF DelaysBounded
<1>6. left' = left \/ (\E zone \in Zones : TriggerZone(zone)) \/ (\E t \in Alarms : CountDown(t))
  <2>1. CASE Command
    BY <2>1 DEF Command, SetHousemode, SetConfig, SetPin, GetConfig, CancelCountdown,
       DisableAlarm, DeviceEvent, TimeChanged, threads
  <2>2. CASE MainStep
    BY <2>2 DEF MainStep, MarkRunning, Interrupt, UnmarkRunning, StopAlarms, threads
  <2>3. ASSUME NEW a, Change(a) PROVE left' = left
    BY <2>3 DEF Change, ToDefault, Publish, Save, Flush, threads
  <2>4. ASSUME NEW t \in Alarms, WakeUp(t) \/ IntruderAlert(t) \/ TriggerAlarms(t)
                                 \/ ClearRunning(t) \/ ClearWant(t)
        PROVE  left' = left
    BY <2>4 DEF WakeUp, IntruderAlert, TriggerAlarms, ClearRunning, ClearWant, threads
  <2>5. CASE Restart \/ UNCHANGED vars
    BY <2>5 DEF Restart, vars, threads
  <2> QED BY <2>1, <2>2, <2>3, <2>4, <2>5 DEF Next, AlarmStep
<1> QED BY <1>3, <1>4, <1>5, <1>6

LEMMA BoundedSteps == ASSUME TypeOK, DelaysBounded PROVE StepsBounded
<1>1. ASSUME NEW a \in Alarms PROVE StepsLeft(a) <= 2 * 32767 + 8 /\ a # Main
  <2>1. PICK s : s = Seconds(a)
    OBVIOUS
  <2>2. s \in Nat /\ s <= 32767
    <3>1. PICK l \in Int : l = left[a] /\ l <= 32767
      BY Positions DEF DelaysBounded
    <3> QED BY <2>1, <3>1 DEF Seconds
  <2>3. a # Main
    BY Positions
  <2>4. 2 * s + 8 <= 2 * 32767 + 8 /\ 2 * s + 7 <= 2 * 32767 + 8
    BY <2>2
  <2> QED BY <2>1, <2>3, <2>4 DEF StepsLeft
<1>2. StepsLeft(Main) <= 6
  <2>1. pc[Main] \in MainPCs
    BY Positions
  <2> QED BY <2>1 DEF StepsLeft, MainPCs, Changing
<1>3. Actors = Alarms \cup {Main}
  BY Positions
<1> QED BY <1>1, <1>2, <1>3, StepsType DEF StepsBounded

(* An alarm thread takes 65542 steps at most, and a command six, in any    *)
(* interleaving with other threads; what is left is none exactly when the  *)
(* thread is over or the main thread idle (enableAlarm and the handlers).  *)
THEOREM StepsBoundedCorrect == Spec => []StepsBounded
<1>1. Init => DelaysBounded
  BY DEF Init, DelaysBounded
<1> QED BY TypeCorrect, DelaysStep, BoundedSteps, <1>1, PTL DEF Spec

(* Each step of a thread brings its end nearer, no step of another defers  *)
(* it: no cancel, trigger or change of the house mode makes enableAlarm or *)
(* a handler of the main thread start over.                                *)
THEOREM ThreadsAdvanceCorrect == Spec => ThreadsAdvance
<1>1. TypeOK /\ Slots /\ [Next]_vars =>
          [\A a \in Actors : UnderWay(a) =>
              /\ StepsLeft(a)' <= StepsLeft(a)
              /\ OwnStep(a) => StepsLeft(a)' < StepsLeft(a)]_vars
  BY AdvanceStep
<1> QED BY TypeCorrect, SlotsCorrect, <1>1, PTL DEF Spec, ThreadsAdvance

=============================================================================
