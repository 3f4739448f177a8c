------------------------------ MODULE Resolver ------------------------------
(***************************************************************************)
(* The resolver: AgoResolver in core/resolver/agoresolver.cpp and its      *)
(* database in core/resolver/inventory.cpp.                                *)
(*                                                                         *)
(* The message loop keeps the inventory from what the processes announce   *)
(* and report, and handles the users' commands; names are kept in the      *)
(* database, the inventory itself in a file if devicepersistence is set.   *)
(* The io thread asks for reports and looks for silent devices, one device *)
(* after the other while the message loop goes on.                         *)
(***************************************************************************)
EXTENDS HomeBus

CONSTANTS
    Persistence,  \* the option devicepersistence
    UserNames,    \* the names the users give to devices
    Timeouts      \* what they set staleTimeout to: 0 (FALSE), or more (TRUE)

ASSUME PersistenceAssumption == Persistence \in BOOLEAN
ASSUME UsersAssumption == UserNames \subseteq Names /\ Timeouts \subseteq BOOLEAN

VARIABLES
    inventory,     \* uuid -> device
    devicesFile,   \* what a start would read from the device map's file
    names,         \* table devices: uuid -> name, or NoName if there is no row
    scan,          \* the uuids staleFunction() has still to visit
    scanning, changed,  \* whether it runs; its variable save
    given          \* history: the names a user may expect, for each uuid

resolver == <<inventory, devicesFile, names, scan, scanning, changed, given>>

(* name, stale and parameters.staleTimeout > 0 are members of the device;  *)
(* heard, that lastseen is not longer ago than staleTimeout (where there is *)
(* one).                                                                   *)
Devices == [name : Names \cup {NoName}, stale : BOOLEAN, timeout : BOOLEAN, heard : BOOLEAN]
NewDevice(n) == [name |-> n, stale |-> FALSE, timeout |-> FALSE, heard |-> TRUE]

Listed(u) == u \in DOMAIN inventory
Set(u, member, value) == With(inventory, u, [inventory[u] EXCEPT ![member] = value])

ResolverInit ==
    /\ inventory = EmptyMap /\ devicesFile = EmptyMap
    /\ names = [u \in Uuids |-> NoName]
    /\ scan = {} /\ scanning = FALSE /\ changed = FALSE
    /\ given = [u \in Uuids |-> {}]

ResolverOK ==
    /\ inventory \in Maps(Uuids, Devices) /\ devicesFile \in Maps(Uuids, Devices)
    /\ names \in [Uuids -> Names \cup {NoName}]
    /\ scan \subseteq Uuids /\ scanning \in BOOLEAN /\ changed \in BOOLEAN
    /\ given \in [Uuids -> SUBSET Names]

SaveDevicemap == devicesFile' = IF Persistence THEN inventory' ELSE devicesFile
SaveIf(changes) == IF changes THEN SaveDevicemap ELSE UNCHANGED devicesFile

-----------------------------------------------------------------------------
(***************************************************************************)
(* eventHandler(): the next message                                        *)
(***************************************************************************)
(* The database's name, or the proposed one: that is stored under the uuid *)
(* content["device"], which no announcement has, so it is kept in memory   *)
(* only and gone with the next report.                                     *)
\* mutant of NameFor: the proposed name comes first
NameFor_Proposed(m) == IF m.name # NoName THEN m.name ELSE names[m.uuid]
NameFor(m) == IF names[m.uuid] # NoName THEN names[m.uuid] ELSE m.name

AnnounceEvent(m) ==
    /\ m.kind \in {"announce", "discover"}
    /\ inventory' = IF Listed(m.uuid) THEN Set(m.uuid, "name", NameFor(m))
                    ELSE With(inventory, m.uuid, NewDevice(NameFor(m)))
    /\ SaveDevicemap
    /\ UNCHANGED missed

\* mutant of RemoveEvent: the device map is not saved
RemoveEvent_NotSaved(m) ==
    /\ m.kind = "remove"
    /\ inventory' = Without(inventory, m.uuid)
    /\ UNCHANGED devicesFile
    /\ missed' = missed \ ({m.uuid} \ Additions(Tail(inbox)))

RemoveEvent(m) ==
    /\ m.kind = "remove"
    /\ inventory' = Without(inventory, m.uuid)
    /\ SaveIf(Listed(m.uuid))
    /\ missed' = missed \ ({m.uuid} \ Additions(Tail(inbox)))

(* handleEvent(): values and state are left out; lastseen is not.  What    *)
(* this process has sent itself is no exception.                           *)
HandleEvent(m) ==
    /\ m.kind = "event"
    /\ inventory' = IF Listed(m.uuid) THEN Set(m.uuid, "heard", TRUE) ELSE inventory
    /\ \E valued \in BOOLEAN : SaveIf(valued /\ Listed(m.uuid))
    /\ UNCHANGED missed

Receive ==
    /\ up /\ inbox # <<>>
    /\ LET m == Head(inbox) IN AnnounceEvent(m) \/ RemoveEvent(m) \/ HandleEvent(m)
    /\ inbox' = Tail(inbox)
    /\ UNCHANGED <<names, scan, scanning, changed, given, running, up, asked, faults, owner>>

-----------------------------------------------------------------------------
(***************************************************************************)
(* commandHandler(): the commands about devices.  The user may have seen   *)
(* the uuid earlier: the inventory need not list it at the moment.         *)
(***************************************************************************)
Seen(u) == owner[u] # Nobody

SetDeviceName(u, n) ==
    /\ up /\ Seen(u)
    /\ names' = [names EXCEPT ![u] = n]
    /\ inventory' = IF Listed(u) THEN Set(u, "name", names'[u]) ELSE inventory
    /\ SaveDevicemap
    /\ Publish(Event(u))                    \* event.system.devicenamechanged
    /\ given' = [given EXCEPT ![u] = {n}]
    /\ UNCHANGED <<scan, scanning, changed, running, up, asked, faults, owner>>

(* setdevicename without a name: the inventory is left as it is.           *)
DeleteDeviceName(u) ==
    /\ up /\ Seen(u)
    /\ names' = [names EXCEPT ![u] = NoName]
    /\ Publish(Event(u))
    /\ given' = [given EXCEPT ![u] = {}]
    /\ UNCHANGED <<inventory, devicesFile, scan, scanning, changed, running, up, asked, faults, owner>>

DeleteDevice(u) ==
    /\ up /\ Seen(u)
    /\ inventory' = Without(inventory, u)
    /\ SaveIf(Listed(u))
    /\ names' = [names EXCEPT ![u] = NoName]
    /\ given' = [given EXCEPT ![u] = {}]
    /\ UNCHANGED <<scan, scanning, changed, bus>>

(* deviceparameters never has an entry, so only the inventory is changed.  *)
SetDeviceParameters(u, timeout) ==
    /\ up /\ Listed(u)
    /\ \E heard \in {TRUE, ~timeout} :         \* longer or shorter than its silence
        inventory' = With(inventory, u, [inventory[u] EXCEPT !.timeout = timeout, !.heard = heard])
    /\ SaveDevicemap
    /\ UNCHANGED <<names, scan, scanning, changed, given, bus>>

-----------------------------------------------------------------------------
(***************************************************************************)
(* The io thread                                                           *)
(***************************************************************************)
DiscoverFunction ==
    /\ up /\ asked' = (asked \/ running)
    /\ UNCHANGED <<resolver, running, up, inbox, faults, owner, missed>>

(* staleFunction() *)
StaleFunction ==
    /\ up /\ ~scanning
    /\ scanning' = TRUE /\ changed' = FALSE
    /\ scan' = DOMAIN inventory
    /\ UNCHANGED <<inventory, devicesFile, names, given, bus>>

Silent(u) == inventory[u].timeout /\ ~inventory[u].heard
MustChange(u) == inventory[u].timeout /\ inventory[u].stale = inventory[u].heard

Check ==
    /\ scan # {} /\ \E u \in scan :
        /\ scan' = scan \ {u}
        /\ \/ /\ Listed(u) /\ MustChange(u)
              /\ inventory' = Set(u, "stale", Silent(u))
              /\ changed' = TRUE
              /\ Publish(Event(u))          \* event.device.stale
           \/ /\ ~(Listed(u) /\ MustChange(u))
              /\ UNCHANGED <<inventory, changed, inbox, missed>>
    /\ UNCHANGED <<devicesFile, names, scanning, given, running, up, asked, faults, owner>>

\* mutant of EndScan: the timer is relaunched only if something was saved
EndScan_OnlyIfChanged ==
    /\ scanning /\ scan = {}
    /\ scanning' = ~changed
    /\ UNCHANGED <<names, scan, changed, given, bus>>
    /\ UNCHANGED inventory /\ SaveIf(changed)

EndScan ==
    /\ scanning /\ scan = {}
    /\ scanning' = FALSE /\ changed' = FALSE
    /\ UNCHANGED <<names, scan, given, bus>>
    /\ UNCHANGED inventory /\ SaveIf(changed)

(* The look for silent devices goes on.                                    *)
ScanStep == StaleFunction \/ Check \/ EndScan

(* Time passes: a device is silent for longer than its staleTimeout.       *)
Expire(u) ==
    /\ Listed(u) /\ inventory[u].timeout /\ inventory[u].heard
    /\ inventory' = Set(u, "heard", FALSE)
    /\ UNCHANGED <<devicesFile, names, scan, scanning, changed, given, bus>>

-----------------------------------------------------------------------------
(***************************************************************************)
(* The resolver dies, at any point or while a name is being set (database  *)
(* first), a device deleted (file first) or the device map written, and    *)
(* starts again later.                                                     *)
(***************************************************************************)
Crash ==
    /\ up /\ Fault
    /\ up' = FALSE
    /\ \/ UNCHANGED <<names, given>>
       \/ \E u \in Uuids, n \in UserNames :
           /\ Seen(u)
           /\ names' = [names EXCEPT ![u] = n]
           /\ given' = [given EXCEPT ![u] = IF @ = {} THEN {} ELSE @ \cup {n}]
    /\ \/ UNCHANGED devicesFile
       \/ Persistence /\ devicesFile' \in PartsOf(inventory)
    /\ inventory' = EmptyMap /\ scan' = {} /\ scanning' = FALSE /\ changed' = FALSE
    /\ inbox' = <<>> /\ missed' = missed \cup Removals(inbox)
    /\ UNCHANGED <<running, asked, owner>>

(* setupApp() *)
SetupApp ==
    /\ ~up /\ up' = TRUE
    /\ inventory' = IF Persistence THEN devicesFile ELSE EmptyMap
    /\ UNCHANGED <<devicesFile, names, scan, scanning, changed, given>>
    /\ UNCHANGED <<running, inbox, asked, faults, owner, missed>>

ResolverNext ==
    \/ Receive \/ DiscoverFunction \/ StaleFunction \/ Check \/ EndScan
    \/ Crash \/ SetupApp
    \/ \E u \in Uuids :
        \/ \E n \in UserNames : SetDeviceName(u, n)
        \/ DeleteDeviceName(u) \/ DeleteDevice(u) \/ Expire(u)
        \/ \E timeout \in Timeouts : SetDeviceParameters(u, timeout)
=============================================================================
