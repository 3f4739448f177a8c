------------------------------ MODULE Security ------------------------------
(***************************************************************************)
(* The security controller (core/security/agosecurity.cpp).                *)
(*                                                                         *)
(* Two kinds of threads share its members without a lock.  The main thread *)
(* is the message loop of AgoConnection::run: it executes one command or   *)
(* event handler at a time.  Each triggered zone gets an alarm thread      *)
(* (enableAlarm) that counts the zone's delay down, raises the alarm or    *)
(* notices that it was interrupted, and then clears the two flags.         *)
(*                                                                         *)
(* An actor is Main (0) or the number of an alarm thread; pc[a] is the     *)
(* point it has reached.  A step ends where another thread can observe     *)
(* the difference: handlers are cut at the writes to the shared flags, at  *)
(* the blocking calls of changeHousemode and between the truncation and    *)
(* the closing of the map file.  Requests that only read, or that return   *)
(* before changing anything (bad pin, unknown zone, inactive zone, alarm   *)
(* already running), are stutters.                                         *)
(***************************************************************************)
EXTENDS Integers, FiniteSets

CONSTANTS
    MaxAlarms,    \* bound: alarm threads spawned in a behaviour
    MaxRestarts,  \* bound: crashes of the process, each followed by a restart
    MayFail,      \* bound: whether sends and writes may fail, and threads fail to start
    Modes,        \* house modes a message or a configuration may name
    ModeInputs,   \* bound: those that commands carry
    Levels,       \* bound: levels the events of sensors carry
    Zones,        \* zone names a message or a configuration may name
    Configs,      \* "config" objects a setconfig may carry, as sets of entries
    Pins,         \* PIN codes a user may type
    PinLists,     \* values of the comma separated "pin" option, as sets
    GatewayMaps,  \* notification gateways the inventory may list: uuid -> type
    Contacts,     \* [email, phone : BOOLEAN], which default contacts are set
    InitialMaps   \* what the map file may hold at the first start

Main    == 0
Alarms  == 1..MaxAlarms
Actors  == Main..MaxAlarms
NoMode  == "nomode"    \* housemode or defaultHousemode is not a member (or "")

ASSUME BoundsAssumption ==
    /\ MaxAlarms \in Nat
    /\ MaxRestarts \in Nat
    /\ MayFail \in BOOLEAN
    /\ ModeInputs \subseteq Modes
    /\ Levels \subseteq Nat
    /\ NoMode \notin Modes

(* An entry [mode, zone, delay, alarms] is one element of the zone list of *)
(* one house mode (its sensors are never looked up, see DeviceEvent).      *)
(* Zone names are unique in a house mode: the configuration page keeps     *)
(* them so.                                                                *)
ASSUME ConfigAssumption ==
    \A c \in Configs :
        /\ \A e \in c : e.mode \in Modes /\ e.zone \in Zones /\ e.delay \in Int
        /\ \A e, f \in c : e.mode = f.mode /\ e.zone = f.zone => e = f

(* securitymap, the JSON document kept in memory and in the map file       *)
SecurityMaps == [configured : BOOLEAN,              \* isMember("config")
                 config     : Configs \cup {{}},
                 housemode  : Modes \cup {NoMode},
                 default    : Modes \cup {NoMode}]  \* defaultHousemode

EmptyMap == [configured |-> FALSE, config |-> {},
             housemode |-> NoMode, default |-> NoMode]

ASSUME InputAssumption ==
    /\ InitialMaps \subseteq SecurityMaps
    /\ Contacts \subseteq [email : BOOLEAN, phone : BOOLEAN]

VARIABLES
    securitymap, mapFile,
    pins, pinFile,              \* the pin option: in memory, and in the .conf file
    isSecurityThreadRunning, wantSecurityThreadRunning, isAlarmActivated,
    currentAlarm,
    securityThread,             \* number of the thread the handle refers to, 0 if none
    alertGateways, contacts,
    pc, alarm, left, interrupted,   \* the alarm threads: position, zone, delay, flag
    after,                      \* where Main goes on after changeHousemode
    published, written,         \* an actor's housemode argument and its file buffer
    globalVariable,             \* "housemode" in the resolver, as set by this process
    lastSent,                   \* the last batch of commands sendAlarm has sent
    heard,                      \* how the last device event was disposed of
    restarts,
    (* history, read by the properties only *)
    cancels,      \* how often a countdown was cancelled
    disturbed,    \* alarm threads whose life overlapped a cancel or another thread
    overlap,      \* two actors have been in changeHousemode/setconfig together
    unsynced,     \* the last attempt to set the variable was not sent
    unsaved,      \* the last attempt to write the map file failed
    torn          \* the map file's content is lost: there was none at the first start, or
                  \* the process died or the disk filled up inside a save; no save since

flags   == <<isSecurityThreadRunning, wantSecurityThreadRunning, isAlarmActivated>>
threads == <<alarm, left, interrupted, securityThread, currentAlarm>>
saving  == <<published, written, globalVariable, mapFile, unsynced, unsaved, torn>>
config  == <<pins, pinFile, alertGateways, contacts>>
vars    == <<securitymap, flags, threads, saving, config, pc, after, lastSent,
             heard, restarts, cancels, disturbed, overlap>>

(* int16_t delay = zoneMap["delay"].asInt()                                *)
Int16(n) == ((n + 32768) % 65536) - 32768

Entries(map, mode, zone) == {e \in map.config : e.mode = mode /\ e.zone = zone}

(***************************************************************************)
(* Program positions                                                       *)
(***************************************************************************)
Changing == {"publish", "save", "flush"}
MainPCs  == {"idle", "mark", "interrupt", "unmark", "toDefault", "stop"} \cup Changing
AlarmPCs == {"none", "check", "sleep", "expired", "alarms", "toDefault",
             "exit1", "exit2", "done"} \cup Changing

Live(t)       == pc[t] \notin {"none", "done"}
Unfinished(t) == pc[t] \notin {"none", "exit2", "done"}

Goto(a, here, there) == pc[a] = here /\ pc' = [pc EXCEPT ![a] = there]

\* mutants of After: one continuation for every thread; a change that starts over
After_Shared(a) == after
After_Retry(a)  == "toDefault"

After(a) == IF a = Main THEN after ELSE "exit1"

NoGateways == [uuid \in {} |-> "none"]

NoZone == [zone |-> "nozone", mode |-> NoMode]

(***************************************************************************)
(* sendAlarm.  A gateway gets a message if its contact is set, any other   *)
(* device gets the command "on".                                           *)
(***************************************************************************)
Sent(uuid) ==
    IF uuid \notin DOMAIN alertGateways
    THEN {[command |-> "on", uuid |-> uuid, addressed |-> TRUE]}
    ELSE CASE alertGateways[uuid] = "smsgateway" ->
                IF contacts.phone
                THEN {[command |-> "sendsms", uuid |-> uuid, addressed |-> contacts.phone]}
                ELSE {}
           [] alertGateways[uuid] = "smtpgateway" ->
                IF contacts.phone
                THEN {[command |-> "sendmail", uuid |-> uuid, addressed |-> contacts.email]}
                ELSE {}
           [] OTHER ->
                {[command |-> "notify", uuid |-> uuid, addressed |-> TRUE]}

SendAlarms(mode, zone) ==
    lastSent' = UNION {Sent(u) : u \in UNION {e.alarms : e \in Entries(securitymap, mode, zone)}}

-----------------------------------------------------------------------------
(***************************************************************************)
(* setupApp, and the members' initial values                               *)
(***************************************************************************)
Init ==
    /\ mapFile \in InitialMaps
    /\ securitymap = mapFile
    /\ pinFile \in PinLists
    /\ pins = pinFile
    /\ isSecurityThreadRunning = FALSE
    /\ wantSecurityThreadRunning = FALSE
    /\ isAlarmActivated = FALSE
    /\ currentAlarm = NoZone
    /\ securityThread = 0
    /\ alertGateways \in GatewayMaps \cup {NoGateways}
    /\ contacts \in Contacts
    /\ pc = [a \in Actors |-> IF a = Main THEN "idle" ELSE "none"]
    /\ alarm = [t \in Alarms |-> NoZone]
    /\ left = [t \in Alarms |-> 0]
    /\ interrupted = [t \in Alarms |-> FALSE]
    /\ after = "idle"
    /\ published = [a \in Actors |-> NoMode]
    /\ written = [a \in Actors |-> EmptyMap]
    /\ globalVariable = securitymap.housemode
    /\ lastSent = {}
    /\ heard = "nothing"
    /\ restarts = 0
    /\ cancels = 0
    /\ disturbed = {}
    /\ overlap = FALSE
    /\ unsynced = FALSE
    /\ unsaved = FALSE
    /\ torn = (mapFile = EmptyMap)

-----------------------------------------------------------------------------
(***************************************************************************)
(* changeHousemode, by whichever thread calls it: memory first, then the   *)
(* resolver's variable and the housemodechanged event, then the map file.  *)
(***************************************************************************)
Overlapping(a) == overlap' = (overlap \/ \E b \in Actors \ {a} : pc[b] \in Changing)

\* mutant of ChangeHousemode: memory keeps the old house mode
ChangeHousemode_NotInMemory(a, here, mode) ==
    /\ Goto(a, here, "publish")
    /\ published' = [published EXCEPT ![a] = mode]
    /\ Overlapping(a)
    /\ UNCHANGED securitymap

ChangeHousemode(a, here, mode) ==
    /\ Goto(a, here, "publish")
    /\ securitymap' = [securitymap EXCEPT !.housemode = mode]
    /\ published' = [published EXCEPT ![a] = mode]
    /\ Overlapping(a)

(* setGlobalVariable gives up without sending when ten inventory requests  *)
(* have not found the agocontroller; its result is ignored.                *)
Publish(a) ==
    /\ Goto(a, "publish", "save")
    /\ published' = [published EXCEPT ![a] = NoMode]
    /\ \/ globalVariable' = published[a] /\ unsynced' = FALSE
       \/ MayFail /\ unsynced' = TRUE /\ UNCHANGED globalVariable
    /\ UNCHANGED <<securitymap, mapFile, written, unsaved, torn, flags, threads, config,
                   after, lastSent, heard, restarts, cancels, disturbed, overlap>>

\* mutant of CannotOpen: the error strikes after the file was truncated
CannotOpen_Truncated(a) ==
    /\ MayFail
    /\ Goto(a, "save", After(a))
    /\ unsaved' = TRUE
    /\ mapFile' = EmptyMap
    /\ UNCHANGED written

CannotOpen(a) ==
    /\ MayFail
    /\ Goto(a, "save", After(a))
    /\ unsaved' = TRUE
    /\ UNCHANGED <<mapFile, written>>

(* writeJsonFile: opening truncates the file; the document is serialised   *)
(* into the stream's buffer, which reaches the file when it is closed.     *)
Save(a) ==
    /\ \/ /\ Goto(a, "save", "flush")
          /\ mapFile' = EmptyMap
          /\ written' = [written EXCEPT ![a] = securitymap]
          /\ UNCHANGED unsaved
       \/ CannotOpen(a)
    /\ UNCHANGED <<securitymap, published, globalVariable, unsynced, torn, flags, threads,
                   config, after, lastSent, heard, restarts, cancels, disturbed, overlap>>

(* The destructor of the stream swallows the error of a full disk.  With   *)
(* two streams open the one closed last overwrites the other from its      *)
(* start, and a reader stops at the end of that document.                  *)
Flush(a) ==
    /\ Goto(a, "flush", After(a))
    /\ written' = [written EXCEPT ![a] = EmptyMap]
    /\ \/ mapFile' = written[a] /\ unsaved' = FALSE /\ torn' = FALSE
       \/ MayFail /\ mapFile' = EmptyMap /\ unsaved' = TRUE /\ torn' = TRUE
    /\ UNCHANGED <<securitymap, published, globalVariable, unsynced, flags, threads,
                   config, after, lastSent, heard, restarts, cancels, disturbed, overlap>>

(* Both ways of ending an alarm go back to the default house mode, if any. *)
ToDefault(a) ==
    /\ \/ /\ securitymap.default # NoMode
          /\ ChangeHousemode(a, "toDefault", securitymap.default)
       \/ /\ securitymap.default = NoMode
          /\ Goto(a, "toDefault", After(a))
          /\ UNCHANGED <<securitymap, published, overlap>>
    /\ UNCHANGED <<mapFile, written, globalVariable, unsynced, unsaved, torn, flags, threads,
                   config, after, lastSent, heard, restarts, cancels, disturbed>>

-----------------------------------------------------------------------------
(***************************************************************************)
(* Commands and events, executed by the main thread                        *)
(***************************************************************************)
SetHousemode(pin, mode) ==
    /\ pin \in pins
    /\ ChangeHousemode(Main, "idle", mode)
    /\ after' = "idle"
    /\ UNCHANGED <<mapFile, written, globalVariable, unsynced, unsaved, torn, flags, threads,
                   config, lastSent, heard, restarts, cancels, disturbed>>

SetConfig(pin, newconfig, default) ==
    /\ pin \in pins
    /\ Goto(Main, "idle", "save")
    /\ securitymap' = [securitymap EXCEPT !.configured = TRUE, !.config = newconfig,
                                          !.default = default]
    /\ after' = "idle"
    /\ Overlapping(Main)
    /\ UNCHANGED <<saving, flags, threads, config, lastSent, heard, restarts, cancels, disturbed>>

(* Reading the missing "config" member to answer getconfig creates it.     *)
GetConfig ==
    /\ pc[Main] = "idle"
    /\ ~securitymap.configured
    /\ securitymap' = [securitymap EXCEPT !.configured = TRUE]
    /\ UNCHANGED <<saving, flags, threads, config, pc, after, lastSent, heard, restarts,
                   cancels, disturbed, overlap>>

(* setConfigSectionOption changes the tree in memory before it saves it.   *)
SetPin(pin, newpins) ==
    /\ pc[Main] = "idle"
    /\ pin \in pins
    /\ pins' = newpins
    /\ pinFile' \in {newpins, pinFile}
    /\ UNCHANGED <<securitymap, saving, flags, threads, alertGateways, contacts, pc, after,
                   lastSent, heard, restarts, cancels, disturbed, overlap>>

\* mutants of NoAlarmRunning and CountingDown: a dropped and an inverted test
NoAlarmRunning_Dropped == TRUE
CountingDown_Inverted  == ~isSecurityThreadRunning

NoAlarmRunning == ~isSecurityThreadRunning    \* asked by triggerZone
CountingDown   == isSecurityThreadRunning     \* asked by cancelalarm

(* triggerZone for a zone of the current house mode.  The thread runs from *)
(* here on, before isSecurityThreadRunning says so; or it fails to start.  *)
TriggerZone(zone) ==
    /\ pc[Main] = "idle"
    /\ NoAlarmRunning
    /\ \E e \in Entries(securitymap, securitymap.housemode, zone) :
        /\ Int16(e.delay) >= 0
        /\ currentAlarm' = [zone |-> zone, mode |-> e.mode]
        /\ \/ \E t \in Alarms :
                /\ t = securityThread + 1
                /\ securityThread' = t
                /\ pc' = [pc EXCEPT ![Main] = "mark", ![t] = "check"]
                /\ alarm' = [alarm EXCEPT ![t] = currentAlarm']
                /\ left' = [left EXCEPT ![t] = Int16(e.delay)]
                /\ disturbed' = disturbed \cup
                     LET others == {u \in Alarms : Live(u)}
                     IN  IF others = {} THEN {} ELSE others \cup {t}
           \/ MayFail /\ UNCHANGED <<securityThread, pc, alarm, left, disturbed>>
    /\ wantSecurityThreadRunning' = TRUE
    /\ isAlarmActivated' = TRUE
    /\ UNCHANGED <<isSecurityThreadRunning, interrupted, securitymap, saving, config, after,
                   lastSent, heard, restarts, cancels, overlap>>

MarkRunning ==
    /\ Goto(Main, "mark", "idle")
    /\ isSecurityThreadRunning' = TRUE
    /\ UNCHANGED <<wantSecurityThreadRunning, isAlarmActivated, threads, securitymap, saving,
                   config, after, lastSent, heard, restarts, cancels, disturbed, overlap>>

(* cancelalarm while the flag says that a thread counts down               *)
CancelCountdown(pin) ==
    /\ pin \in pins
    /\ isAlarmActivated
    /\ CountingDown
    /\ Goto(Main, "idle", "interrupt")
    /\ wantSecurityThreadRunning' = FALSE
    /\ cancels' = cancels + 1
    /\ disturbed' = disturbed \cup {t \in Alarms : Live(t)}
    /\ UNCHANGED <<isSecurityThreadRunning, isAlarmActivated, threads, securitymap, saving,
                   config, after, lastSent, heard, restarts, overlap>>

Interrupt ==
    /\ Goto(Main, "interrupt", "unmark")
    /\ interrupted' = [t \in Alarms |->
            IF t = securityThread /\ pc[t] # "done" THEN TRUE ELSE interrupted[t]]
    /\ UNCHANGED <<flags, alarm, left, securityThread, currentAlarm, securitymap, saving,
                   config, after, lastSent, heard, restarts, cancels, disturbed, overlap>>

UnmarkRunning ==
    /\ Goto(Main, "unmark", "idle")
    /\ isSecurityThreadRunning' = FALSE
    /\ UNCHANGED <<wantSecurityThreadRunning, isAlarmActivated, threads, securitymap, saving,
                   config, after, lastSent, heard, restarts, cancels, disturbed, overlap>>

(* cancelalarm otherwise: disableAlarm(currentAlarm)                       *)
DisableAlarm(pin) ==
    /\ pin \in pins
    /\ isAlarmActivated
    /\ ~CountingDown
    /\ Goto(Main, "idle", "toDefault")
    /\ isAlarmActivated' = FALSE
    /\ after' = "stop"
    /\ UNCHANGED <<isSecurityThreadRunning, wantSecurityThreadRunning, threads, securitymap,
                   saving, config, lastSent, heard, restarts, cancels, disturbed, overlap>>

StopAlarms ==
    /\ Goto(Main, "stop", "idle")
    /\ SendAlarms(currentAlarm.mode, currentAlarm.zone)
    /\ after' = "idle"
    /\ UNCHANGED <<flags, threads, securitymap, saving, config, heard, restarts, cancels,
                   disturbed, overlap>>

(* A sensor's statechanged or sensortriggered event.  With a configuration *)
(* the handler returns at once; without one it creates the empty member    *)
(* and finds no zone, so that the call of triggerZone is never reached.    *)
DeviceEvent(level) ==
    /\ pc[Main] = "idle"
    /\ \/ /\ securitymap.configured
          /\ heard' = "noconfig"
          /\ UNCHANGED securitymap
       \/ /\ ~securitymap.configured
          /\ level = 0
          /\ heard' = "sensoroff"
          /\ UNCHANGED securitymap
       \/ /\ ~securitymap.configured
          /\ level # 0
          /\ heard' = "searched"
          /\ securitymap' = [securitymap EXCEPT !.configured = TRUE]
    /\ UNCHANGED <<saving, flags, threads, config, pc, after, lastSent, restarts, cancels,
                   disturbed, overlap>>

(* refreshAlertGateways keeps the old list when the resolver is silent.    *)
RefreshContacts(old) ==
    /\ alertGateways' \in GatewayMaps \cup {old}
    /\ contacts' \in Contacts

TimeChanged ==
    /\ pc[Main] = "idle"
    /\ ~securitymap.configured
    /\ RefreshContacts(alertGateways)
    /\ UNCHANGED <<securitymap, pins, pinFile, saving, flags, threads, pc, after, lastSent,
                   heard, restarts, cancels, disturbed, overlap>>

-----------------------------------------------------------------------------
(***************************************************************************)
(* The alarm thread: enableAlarm                                           *)
(***************************************************************************)
\* mutant of LoopGoesOn: the last second is dropped
LoopGoesOn_OneLess(t) == wantSecurityThreadRunning /\ left[t] > 1

LoopGoesOn(t) == wantSecurityThreadRunning /\ left[t] > 0

CountDown(t) ==
    /\ \/ /\ LoopGoesOn(t)
          /\ Goto(t, "check", "sleep")
          /\ left' = [left EXCEPT ![t] = @ - 1]
       \/ /\ ~LoopGoesOn(t)
          /\ Goto(t, "check", "expired")
          /\ UNCHANGED left
    /\ UNCHANGED <<flags, alarm, interrupted, securityThread, currentAlarm, securitymap, saving,
                   config, after, lastSent, heard, restarts, cancels, disturbed, overlap>>

(* The sleep is the only interruption point.                               *)
WakeUp(t) ==
    /\ \/ /\ interrupted[t]
          /\ Goto(t, "sleep", "toDefault")
          /\ interrupted' = [interrupted EXCEPT ![t] = FALSE]
       \/ /\ ~interrupted[t]
          /\ Goto(t, "sleep", "check")
          /\ UNCHANGED interrupted
    /\ UNCHANGED <<flags, alarm, left, securityThread, currentAlarm, securitymap, saving,
                   config, after, lastSent, heard, restarts, cancels, disturbed, overlap>>

\* mutant of IntruderAlert: the alarms are forgotten
IntruderAlert_NoAlarms(t) ==
    /\ Goto(t, "expired", "exit1")
    /\ UNCHANGED <<flags, threads, securitymap, saving, config, after, lastSent, heard,
                   restarts, cancels, disturbed, overlap>>

IntruderAlert(t) ==
    /\ Goto(t, "expired", "alarms")
    /\ UNCHANGED <<flags, threads, securitymap, saving, config, after, lastSent, heard,
                   restarts, cancels, disturbed, overlap>>

TriggerAlarms(t) ==
    /\ Goto(t, "alarms", "exit1")
    /\ SendAlarms(alarm[t].mode, alarm[t].zone)
    /\ UNCHANGED <<flags, threads, securitymap, saving, config, after, heard, restarts,
                   cancels, disturbed, overlap>>

ClearRunning(t) ==
    /\ Goto(t, "exit1", "exit2")
    /\ isSecurityThreadRunning' = FALSE
    /\ UNCHANGED <<wantSecurityThreadRunning, isAlarmActivated, threads, securitymap, saving,
                   config, after, lastSent, heard, restarts, cancels, disturbed, overlap>>

ClearWant(t) ==
    /\ Goto(t, "exit2", "done")
    /\ wantSecurityThreadRunning' = FALSE
    /\ UNCHANGED <<isSecurityThreadRunning, isAlarmActivated, threads, securitymap, saving,
                   config, after, lastSent, heard, restarts, cancels, disturbed, overlap>>

-----------------------------------------------------------------------------
(***************************************************************************)
(* The process dies, whatever its threads were doing, and starts again:    *)
(* the constructor, then setupApp.  A truncated file does not parse.       *)
(***************************************************************************)
Restart ==
    /\ restarts < MaxRestarts
    /\ restarts' = restarts + 1
    /\ torn' = (torn \/ \E a \in Actors : pc[a] = "flush")
    /\ pc' = [a \in Actors |-> IF a = Main THEN "idle"
                               ELSE IF pc[a] = "none" THEN "none" ELSE "done"]
    /\ securitymap' = mapFile
    /\ pins' = pinFile
    /\ isSecurityThreadRunning' = FALSE
    /\ wantSecurityThreadRunning' = FALSE
    /\ isAlarmActivated' = FALSE
    /\ currentAlarm' = NoZone
    /\ interrupted' = [t \in Alarms |-> FALSE]
    /\ after' = "idle"
    /\ published' = [a \in Actors |-> NoMode]
    /\ written' = [a \in Actors |-> EmptyMap]
    /\ \/ globalVariable' = mapFile.housemode /\ unsynced' = FALSE
       \/ MayFail /\ unsynced' = TRUE /\ UNCHANGED globalVariable
    /\ RefreshContacts(NoGateways)
    /\ overlap' = FALSE
    /\ unsaved' = FALSE
    /\ heard' = "nothing"
    /\ UNCHANGED <<mapFile, pinFile, securityThread, alarm, left, lastSent, cancels, disturbed>>

-----------------------------------------------------------------------------
Command ==
    \/ \E pin \in Pins, mode \in ModeInputs : SetHousemode(pin, mode)
    \/ \E pin \in Pins, c \in Configs, mode \in ModeInputs : SetConfig(pin, c, mode)
    \/ \E pin \in Pins, new \in PinLists : SetPin(pin, new)
    \/ GetConfig
    \/ \E zone \in Zones : TriggerZone(zone)
    \/ \E pin \in Pins : CancelCountdown(pin) \/ DisableAlarm(pin)
    \/ \E level \in Levels : DeviceEvent(level)
    \/ TimeChanged

MainStep == MarkRunning \/ Interrupt \/ UnmarkRunning \/ StopAlarms

Change(a) == ToDefault(a) \/ Publish(a) \/ Save(a) \/ Flush(a)

AlarmStep(t) ==
    \/ CountDown(t) \/ WakeUp(t) \/ IntruderAlert(t) \/ TriggerAlarms(t)
    \/ Change(t) \/ ClearRunning(t) \/ ClearWant(t)

Next ==
    \/ Command
    \/ MainStep \/ Change(Main)
    \/ \E t \in Alarms : AlarmStep(t)
    \/ Restart

Spec == Init /\ [][Next]_vars

(* Every blocking call of a handler or an alarm thread returns (the sleep  *)
(* and the requests have timeouts) and the system schedules the threads.   *)
(* Nothing is assumed of the users who send commands.                      *)
Fairness ==
    /\ WF_vars(MainStep \/ Change(Main))
    /\ \A t \in Alarms : WF_vars(AlarmStep(t))

FairSpec == Spec /\ Fairness
-----------------------------------------------------------------------------
(***************************************************************************)
(* Properties                                                              *)
(***************************************************************************)
Outputs     == UNION {e.alarms : e \in UNION Configs}
AlarmZones  == [zone : Zones \cup {"nozone"}, mode : Modes \cup {NoMode}]
SentMessage == [command : {"on", "sendsms", "sendmail", "notify"},
                uuid : Outputs, addressed : BOOLEAN]

(* The type invariant, by groups of variables                              *)
MapsOK ==
    /\ securitymap \in SecurityMaps
    /\ mapFile \in SecurityMaps
    /\ written \in [Actors -> SecurityMaps]
    /\ published \in [Actors -> Modes \cup {NoMode}]
    /\ globalVariable \in Modes \cup {NoMode}

ConfigOK ==
    /\ pins \in PinLists /\ pinFile \in PinLists
    /\ alertGateways \in GatewayMaps \cup {NoGateways}
    /\ contacts \in Contacts

PositionsOK ==
    /\ pc \in [Actors -> MainPCs \cup AlarmPCs]
    /\ pc[Main] \in MainPCs
    /\ \A t \in Alarms : pc[t] \in AlarmPCs
    /\ after \in {"idle", "stop"}

ThreadsOK ==
    /\ currentAlarm \in AlarmZones
    /\ securityThread \in 0..MaxAlarms
    /\ alarm \in [Alarms -> AlarmZones]
    /\ left \in [Alarms -> Int]
    /\ interrupted \in [Alarms -> BOOLEAN]
    /\ disturbed \subseteq Alarms

FlagsOK ==
    /\ isSecurityThreadRunning \in BOOLEAN
    /\ wantSecurityThreadRunning \in BOOLEAN
    /\ isAlarmActivated \in BOOLEAN
    /\ overlap \in BOOLEAN /\ unsynced \in BOOLEAN
    /\ unsaved \in BOOLEAN /\ torn \in BOOLEAN

OutputOK ==
    lastSent \subseteq SentMessage

CountsOK ==
    /\ heard \in {"nothing", "noconfig", "sensoroff", "searched"}
    /\ restarts \in 0..MaxRestarts
    /\ cancels \in Nat

(* Every variable keeps its type (the members of AgoSecurity, the map      *)
(* file, the positions of the threads).                                    *)
TypeOK == MapsOK /\ ConfigOK /\ PositionsOK /\ ThreadsOK /\ FlagsOK
          /\ OutputOK /\ CountsOK

UnfinishedThreads == {t \in Alarms : Unfinished(t)}

Marked == \/ pc[Main] = "mark"
          \/ isSecurityThreadRunning /\ pc[Main] \notin {"interrupt", "unmark"}

(* isSecurityThreadRunning stands for one alarm thread: a trigger is       *)
(* refused while it is set.  The threads that have not yet cleared it are  *)
(* never more than the cancels so far, plus one while the flag is set (or  *)
(* about to be): without a cancel there are never two.                     *)
LiveThreadsBounded ==
    Cardinality(UnfinishedThreads) <= cancels + IF Marked THEN 1 ELSE 0

(* enableAlarm: an alarm thread that no cancel hit, and whose life did not *)
(* overlap that of another alarm thread, raises the intruder alert, and    *)
(* only after its whole countdown.                                         *)
FullCountdown ==
    \A t \in Alarms \ disturbed :
        /\ pc[t] \in {"expired", "alarms"} => left[t] <= 0
        /\ pc[t] \notin Changing \cup {"toDefault"}

(* cancelalarm calls disableAlarm when no thread counts down any more:     *)
(* true as long as no countdown was ever cancelled.                        *)
DisableAfterCountdown ==
    cancels = 0 /\ pc[Main] = "toDefault" => \A t \in Alarms : ~Unfinished(t)

(* changeHousemode and setconfig keep three copies of the house mode: once *)
(* no change is under way, and if no two changes overlapped, the resolver  *)
(* variable and the map file agree with memory unless the last update of   *)
(* the one or the other failed.                                            *)
CopiesAgree ==
    ~overlap /\ (\A a \in Actors : pc[a] \notin Changing) =>
        /\ ~unsynced => globalVariable = securitymap.housemode
        /\ ~unsaved  => /\ mapFile.config = securitymap.config
                        /\ mapFile.housemode = securitymap.housemode
                        /\ mapFile.default = securitymap.default

(* writeJsonFile truncates before it writes: a map file that could be read *)
(* at the first start, or was saved once, can be read whenever no thread   *)
(* is inside a save, with two threads saving at a time and over restarts,  *)
(* until the process dies or the disk fills up inside a save.              *)
MapFileReadable ==
    ~torn /\ (\A a \in Actors : pc[a] # "flush") => mapFile # EmptyMap

(* Every alarm thread that nothing disturbs gets to the intruder alert.    *)
AlarmRaised ==
    \A t \in Alarms : pc[t] = "check" ~> (pc[t] = "alarms" \/ t \in disturbed)

(* Every alarm thread ends, whatever hits it while it counts down, and the *)
(* main thread gets back to its message loop from every command.           *)
AlarmThreadsEnd ==
    /\ \A t \in Alarms : Live(t) ~> pc[t] = "done"
    /\ pc[Main] # "idle" ~> pc[Main] = "idle"
=============================================================================
