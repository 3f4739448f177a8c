------------------------------- MODULE Client -------------------------------
(***************************************************************************)
(* The devices of one process: AgoConnection in shared/agoclient.cpp.      *)
(*                                                                         *)
(* uuidMap gives every internal id of the driver a permanent uuid and is   *)
(* kept in a file; deviceMap holds the devices added since the start, with *)
(* their stale flag, and is reported when the resolver asks.  Threads of   *)
(* the driver, and handlers of commands in the message loop, add, remove,  *)
(* suspend and resume devices while the loop reports.  Nothing is locked:  *)
(* every access to deviceMap and every message sent is a step of its own.  *)
(***************************************************************************)
EXTENDS HomeBus

CONSTANTS
    Loop,         \* the thread of run()
    Callers,      \* threads that add, remove, suspend, ... devices: some of the
                  \* driver's own, and Loop if its command handler does
    InitialNames  \* the names the driver proposes when it adds a device

ASSUME InitialNamesAssumption == InitialNames \subseteq Names \cup {NoName}

VARIABLES
    uuidMap,     \* uuid -> internal id
    uuidMapFile, \* what a start would read from the file
    deviceMap,   \* uuid -> "in use" or "stale"; or "bare", if it has got a stale
                 \* flag after it was erased, and has no other member
    at,          \* what each caller has still to do
    toReport,    \* uuids reportDevices() has still to visit
    reporting,   \* the one it has found in use and is going to report
    unsaved      \* history: whether the file misses what is in memory
                 \* ("unsaved"), or a start has read such a file ("forgot")

client == <<uuidMap, uuidMapFile, deviceMap, at, toReport, reporting, unsaved>>
uuids  == <<uuidMap, uuidMapFile, owner, unsaved>>

NoUuid == "no uuid"
ASSUME FreshAssumption == NoUuid \notin Uuids

InternalIdToUuid(map, i) ==
    IF \E u \in DOMAIN map : map[u] = i
    THEN CHOOSE u \in DOMAIN map : map[u] = i
    ELSE NoUuid
Uuid(i) == InternalIdToUuid(uuidMap, i)

Do(op, u, n) == [op |-> op, uuid |-> u, name |-> n]
Idle  == Do("idle", NoUuid, NoName)
Steps == {"insert", "announce", "erase", "suspend", "resume", "notify"}
Calls == [op : Steps, uuid : Uuids, name : Names \cup {NoName}]

Reporting     == toReport # {} \/ reporting # NoUuid
Free(a)       == running /\ at[a] = Idle /\ (a = Loop => ~Reporting)
Doing(a, op)  == running /\ at[a].op = op
Goto(a, next) == at' = [at EXCEPT ![a] = next]

(* The devices of the process, without those that are about to be erased.  *)
Erasing == {at[a].uuid : a \in {b \in Callers : at[b].op = "erase"}}
InUse   == {u \in DOMAIN deviceMap \ Erasing : deviceMap[u] # "bare"}

ClientInit ==
    /\ uuidMap = EmptyMap /\ uuidMapFile = EmptyMap
    /\ deviceMap = EmptyMap /\ at = [a \in Callers |-> Idle]
    /\ toReport = {} /\ reporting = NoUuid
    /\ unsaved = "no"

ClientOK ==
    /\ uuidMap \in Maps(Uuids, Ids) /\ uuidMapFile \in Maps(Uuids, Ids)
    /\ deviceMap \in Maps(Uuids, {"in use", "stale", "bare"})
    /\ DOMAIN deviceMap \subseteq DOMAIN uuidMap
    /\ at \in [Callers -> {Idle} \cup Calls]
    /\ \A a \in Callers : at[a] # Idle => at[a].uuid \in DOMAIN uuidMap
    /\ toReport \subseteq DOMAIN deviceMap /\ reporting \in Uuids \cup {NoUuid}
    /\ unsaved \in {"no", "unsaved", "forgot"}

(***************************************************************************)
(* storeUuidMap(): its result is ignored, and so is a failure to write.    *)
(***************************************************************************)
Forget(map, file) ==
    IF unsaved = "forgot" THEN "forgot"
    ELSE IF DOMAIN map \subseteq DOMAIN file THEN "no" ELSE "unsaved"

StoreUuidMap(map) ==
    \/ /\ uuidMapFile' = map
       /\ unsaved' = Forget(map, map)
       /\ UNCHANGED faults
    \/ /\ Fault
       /\ uuidMapFile' \in PartsOf(map) \cup {uuidMapFile}
       /\ unsaved' = Forget(map, uuidMapFile')

(* addDevice() for an id without uuid; any fresh one does as well.         *)
Fresh   == {u \in Uuids : owner[u] = Nobody}
NewUuid == CHOOSE u \in Fresh : TRUE

\* mutant of Generate: the new uuid gets into the file only
Generate_NotKept(i) ==
    /\ Uuid(i) = NoUuid
    /\ Fresh # {}
    /\ owner' = [owner EXCEPT ![NewUuid] = i]
    /\ UNCHANGED uuidMap
    /\ StoreUuidMap(With(uuidMap, NewUuid, i))

Generate(i) ==
    /\ Uuid(i) = NoUuid
    /\ Fresh # {}
    /\ owner' = [owner EXCEPT ![NewUuid] = i]
    /\ uuidMap' = With(uuidMap, NewUuid, i)
    /\ StoreUuidMap(uuidMap')

(* An announcement or a report for a device that is not in use any more:   *)
(* its removal has been sent before and is overtaken.                      *)
Add(m) ==
    /\ Send(m)
    /\ missed' = IF up THEN missed \cup ({m.uuid} \ InUse) ELSE missed

(* addDevice(): the uuid and its file, deviceMap, the announcement         *)
AddDevice(a, i, n) ==
    /\ Free(a)
    /\ Generate(i) \/ (Uuid(i) # NoUuid /\ UNCHANGED <<uuids, faults>>)
    /\ Goto(a, Do("insert", InternalIdToUuid(uuidMap', i), n))
    /\ UNCHANGED <<deviceMap, toReport, reporting, running, up, inbox, asked, missed>>

(* A report under way may or may not get to the new member.                *)
InsertDevice(a) ==
    /\ Doing(a, "insert")
    /\ deviceMap' = With(deviceMap, at[a].uuid, "in use")
    /\ UNCHANGED toReport \/ (Reporting /\ toReport' = toReport \cup {at[a].uuid})
    /\ Goto(a, [at[a] EXCEPT !.op = "announce"])
    /\ missed' = missed \ InUse'
    /\ UNCHANGED <<uuids, reporting, running, up, inbox, asked, faults>>

EmitDeviceAnnounce(a) ==
    /\ Doing(a, "announce")
    /\ Add(Announce(at[a].uuid, at[a].name))
    /\ Goto(a, Idle)
    /\ UNCHANGED <<uuids, deviceMap, toReport, reporting, running, up, asked, faults>>

(* removeDevice(): the message, then deviceMap                             *)
RemoveDevice(a, i) ==
    /\ Free(a)
    /\ Uuid(i) # NoUuid
    /\ Publish(Removal(Uuid(i)))
    /\ Goto(a, Do("erase", Uuid(i), NoName))
    /\ UNCHANGED <<uuids, deviceMap, toReport, reporting, running, up, asked, faults>>

EraseDevice(a) ==
    /\ Doing(a, "erase")
    /\ deviceMap' = Without(deviceMap, at[a].uuid)
    /\ toReport' = toReport \ {at[a].uuid}
    /\ Goto(a, Idle)
    /\ UNCHANGED <<uuids, reporting, running, up, inbox, asked, faults, missed>>

(* suspendDevice(), resumeDevice(): the look at deviceMap, the flag, which *)
(* creates a member that is not there any more, and event.device.stale     *)
SetStale(a, i, op) ==
    /\ Free(a)
    /\ Uuid(i) \in DOMAIN deviceMap
    /\ Goto(a, Do(op, Uuid(i), NoName))
    /\ UNCHANGED <<uuids, deviceMap, toReport, reporting, running, up, inbox, asked, faults, missed>>

Marked(u, flag) ==
    IF u \in DOMAIN deviceMap /\ deviceMap[u] # "bare" THEN flag ELSE "bare"

MarkStale(a) ==
    /\ \/ Doing(a, "suspend") /\ deviceMap' = With(deviceMap, at[a].uuid, Marked(at[a].uuid, "stale"))
       \/ Doing(a, "resume") /\ deviceMap' = With(deviceMap, at[a].uuid, Marked(at[a].uuid, "in use"))
    /\ Goto(a, [at[a] EXCEPT !.op = "notify"])
    /\ UNCHANGED <<uuids, toReport, reporting, running, up, inbox, asked, faults, missed>>

EmitDeviceStale(a) ==
    /\ Doing(a, "notify")
    /\ Publish(Event(at[a].uuid))
    /\ Goto(a, Idle)
    /\ UNCHANGED <<uuids, deviceMap, toReport, reporting, running, up, asked, faults>>

EmitEvent(a, i) ==
    /\ Free(a)
    /\ Uuid(i) # NoUuid
    /\ Publish(Event(Uuid(i)))
    /\ UNCHANGED <<client, running, up, asked, faults, owner>>

(* What a caller has begun goes on.                                        *)
Proceed(a) ==
    \/ InsertDevice(a) \/ EmitDeviceAnnounce(a) \/ EraseDevice(a)
    \/ MarkStale(a) \/ EmitDeviceStale(a)

(* reportDevices(), called by the message loop                             *)
HandleDiscover ==
    /\ running /\ asked /\ ~Reporting
    /\ Loop \in Callers => at[Loop] = Idle
    /\ asked' = FALSE
    /\ toReport' = DOMAIN deviceMap
    /\ UNCHANGED <<uuids, deviceMap, at, reporting, running, up, inbox, faults, missed>>

\* mutant of Reported: the stale flag is inverted
Reported_Suspended(u) == deviceMap[u] = "stale"
Reported(u) == deviceMap[u] = "in use"

(* The look at the stale flag.  (The report of a bare member has no uuid,  *)
(* and the resolver ignores it.)                                           *)
VisitDevice ==
    /\ running /\ reporting = NoUuid
    /\ \E u \in toReport :
        /\ toReport' = toReport \ {u}
        /\ reporting' = IF Reported(u) THEN u ELSE NoUuid
    /\ UNCHANGED <<uuids, deviceMap, at, running, up, inbox, asked, faults, missed>>

EmitDeviceDiscover ==
    /\ running /\ reporting # NoUuid
    /\ Add(Discovered(reporting))
    /\ reporting' = NoUuid
    /\ UNCHANGED <<uuids, deviceMap, at, toReport, running, up, asked, faults>>

(* The thread of run(): what it has begun, and the reports.                *)
LoopStep ==
    \/ HandleDiscover \/ VisitDevice \/ EmitDeviceDiscover
    \/ Loop \in Callers /\ Proceed(Loop)

(***************************************************************************)
(* The process dies, at any point or while addDevice() writes the file     *)
(* (which is truncated when it is opened), and starts again later.         *)
(***************************************************************************)
Die ==
    /\ running /\ Fault
    /\ running' = FALSE
    /\ \/ UNCHANGED <<uuidMapFile, owner, unsaved>>
       \/ \E a \in Callers, i \in Ids :
           /\ Free(a) /\ Uuid(i) = NoUuid /\ Fresh # {}
           /\ uuidMapFile' \in PartsOf(With(uuidMap, NewUuid, i))
           /\ owner' = IF NewUuid \in DOMAIN uuidMapFile' THEN [owner EXCEPT ![NewUuid] = i] ELSE owner
           /\ unsaved' = Forget(uuidMap, uuidMapFile')
    /\ missed' = missed \cup InUse
    /\ uuidMap' = EmptyMap /\ deviceMap' = EmptyMap
    /\ at' = [a \in Callers |-> Idle]
    /\ toReport' = {} /\ reporting' = NoUuid /\ asked' = FALSE
    /\ UNCHANGED <<up, inbox>>

(* AgoConnection(): loadUuidMap() *)
Start ==
    /\ ~running /\ running' = TRUE
    /\ uuidMap' = uuidMapFile
    /\ unsaved' = IF unsaved = "unsaved" THEN "forgot" ELSE unsaved
    /\ UNCHANGED <<uuidMapFile, deviceMap, at, toReport, reporting, owner, up, inbox, asked, faults, missed>>

ClientNext ==
    \/ \E a \in Callers :
        \/ \E i \in Ids :
            \/ \E n \in InitialNames : AddDevice(a, i, n)
            \/ RemoveDevice(a, i)
            \/ \E op \in {"suspend", "resume"} : SetStale(a, i, op)
            \/ EmitEvent(a, i)
        \/ Proceed(a)
    \/ HandleDiscover \/ VisitDevice \/ EmitDeviceDiscover
    \/ Die \/ Start
=============================================================================
