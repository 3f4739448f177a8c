----------------------------- MODULE HomeProofs -----------------------------
(***************************************************************************)
(* Theorems about the devices of a process and their inventory, for any    *)
(* number of devices, names, messages under way, losses and deaths.        *)
(***************************************************************************)
EXTENDS Home, SequenceTheorems, TLAPS

-----------------------------------------------------------------------------
(* What a map is.                                                          *)
IsMap(f, S, T) ==
    /\ f = [x \in DOMAIN f |-> f[x]]
    /\ DOMAIN f \subseteq S
    /\ \A x \in DOMAIN f : f[x] \in T

LEMMA MapsAre ==
  ASSUME NEW f, NEW S, NEW T
  PROVE  f \in Maps(S, T) <=> IsMap(f, S, T)
<1>1. ASSUME f \in Maps(S, T) PROVE IsMap(f, S, T)
  <2>1. PICK D \in SUBSET S : f \in [D -> T]  BY <1>1 DEF Maps
  <2> QED  BY <2>1 DEF IsMap
<1>2. ASSUME IsMap(f, S, T) PROVE f \in Maps(S, T)
  <2>1. f \in [DOMAIN f -> T] /\ DOMAIN f \in SUBSET S  BY <1>2 DEF IsMap
  <2> QED  BY <2>1 DEF Maps
<1> QED  BY <1>1, <1>2

(* The values of deviceMap.                                                *)
Flags == {"in use", "stale", "bare"}

(* The operations on maps.                                                 *)
LEMMA EmptyMapIs ==
  ASSUME NEW S, NEW T
  PROVE  EmptyMap \in Maps(S, T) /\ DOMAIN EmptyMap = {}
<1>1. IsMap(EmptyMap, S, T) /\ DOMAIN EmptyMap = {}  BY DEF EmptyMap, IsMap
<1> QED  BY <1>1, MapsAre

LEMMA WithType ==
  ASSUME NEW S, NEW T, NEW f \in Maps(S, T), NEW x \in S, NEW v \in T
  PROVE  With(f, x, v) \in Maps(S, T)
<1>1. IsMap(f, S, T)  BY MapsAre
<1>2. IsMap(With(f, x, v), S, T)
  BY <1>1 DEF IsMap, With
<1> QED  BY <1>2, MapsAre

LEMMA RestrictIs ==
  ASSUME NEW S, NEW T, NEW f \in Maps(S, T), NEW D \in SUBSET DOMAIN f
  PROVE  /\ Restrict(f, D) \in Maps(S, T)
         /\ DOMAIN Restrict(f, D) = D
         /\ \A y \in D : Restrict(f, D)[y] = f[y]
<1>1. IsMap(f, S, T)  BY MapsAre
<1>2. /\ IsMap(Restrict(f, D), S, T)
      /\ DOMAIN Restrict(f, D) = D
      /\ \A y \in D : Restrict(f, D)[y] = f[y]
  BY <1>1 DEF IsMap, Restrict
<1> QED  BY <1>2, MapsAre

LEMMA WithoutType ==
  ASSUME NEW S, NEW T, NEW f \in Maps(S, T), NEW x
  PROVE  Without(f, x) \in Maps(S, T)
BY RestrictIs, DOMAIN f \ {x} \in SUBSET DOMAIN f DEF Without

LEMMA PartIs ==
  ASSUME NEW S, NEW T, NEW f \in Maps(S, T), NEW g \in PartsOf(f)
  PROVE  /\ g \in Maps(S, T)
         /\ DOMAIN g \subseteq DOMAIN f
         /\ \A y \in DOMAIN g : g[y] = f[y]
<1>1. PICK D \in SUBSET DOMAIN f : g = Restrict(f, D)  BY DEF PartsOf
<1> QED  BY <1>1, RestrictIs

(* The members of a map.                                                   *)
LEMMA MemberIs ==
  ASSUME NEW S, NEW T, NEW f \in Maps(S, T)
  PROVE  DOMAIN f \subseteq S /\ \A x \in DOMAIN f : f[x] \in T
BY MapsAre DEF IsMap

(* The queue: what one step does to it.                                    *)
LEMMA AppendIs ==
  ASSUME NEW q \in Seq(Messages), NEW m \in Messages
  PROVE  /\ Append(q, m) \in Seq(Messages)
         /\ Len(Append(q, m)) = Len(q) + 1
         /\ \A k \in 1..Len(q) : Append(q, m)[k] = q[k]
         /\ Append(q, m)[Len(q) + 1] = m
OBVIOUS

LEMMA TailIs ==
  ASSUME NEW q \in Seq(Messages), q # <<>>
  PROVE  /\ Tail(q) \in Seq(Messages) /\ Head(q) \in Messages
         /\ Len(q) \in Nat \ {0} /\ Len(Tail(q)) = Len(q) - 1
         /\ Head(q) = q[1]
         /\ \A k \in 1..Len(Tail(q)) : Tail(q)[k] = q[k + 1]
OBVIOUS

(* The uuid of an internal id.                                             *)
LEMMA UuidIs ==
  ASSUME NEW map \in Maps(Uuids, Ids), NEW i
  PROVE  LET u == InternalIdToUuid(map, i)
         IN  /\ u # NoUuid => u \in DOMAIN map /\ u \in Uuids /\ map[u] = i
             /\ u = NoUuid => \A v \in DOMAIN map : map[v] # i
<1>1. DOMAIN map \subseteq Uuids  BY MemberIs
<1>2. NoUuid \notin DOMAIN map  BY <1>1, FreshAssumption
<1>3. CASE \E v \in DOMAIN map : map[v] = i
  <2>1. InternalIdToUuid(map, i) \in DOMAIN map /\ map[InternalIdToUuid(map, i)] = i
    BY <1>3 DEF InternalIdToUuid
  <2> QED  BY <2>1, <1>1, <1>2, <1>3
<1>4. CASE ~\E v \in DOMAIN map : map[v] = i
  BY <1>4 DEF InternalIdToUuid
<1> QED  BY <1>3, <1>4

-----------------------------------------------------------------------------
(***************************************************************************)
(* Types                                                                   *)
(***************************************************************************)
LEMMA MessagesAre ==
  ASSUME NEW u \in Uuids, NEW n \in Names \cup {NoName}
  PROVE  Event(u) \in Messages /\ Announce(u, n) \in Messages
         /\ Discovered(u) \in Messages /\ Removal(u) \in Messages
BY DEF Event, Announce, Discovered, Removal, Messages, Kinds

(* The uuids a queue is about are uuids.                                   *)
LEMMA AboutIs ==
  ASSUME NEW q \in Seq(Messages), NEW kinds
  PROVE  About(q, kinds) \subseteq Uuids
<1>1. \A k \in 1..Len(q) : q[k] \in Messages  OBVIOUS
<1> QED  BY <1>1 DEF About, Messages

LEMMA OneMessage ==
  ASSUME NEW m \in Messages
  PROVE  Removals(<<m>>) \subseteq Uuids
<1>1. <<m>> \in Seq(Messages)  OBVIOUS
<1> QED  BY <1>1, AboutIs DEF Removals

LEMMA FaultType ==
  ASSUME BusOK, Fault
  PROVE  faults' \in 0..MaxFaults
BY BoundsAssumption DEF BoundsAssumption, BusOK, Fault

LEMMA SendType ==
  ASSUME BusOK, NEW m \in Messages, Send(m)
  PROVE  inbox' \in Seq(Messages) /\ Len(inbox') <= MaxInbox
<1>1. CASE up /\ Len(inbox) < MaxInbox /\ inbox' = Append(inbox, m)
  <2>1. inbox' \in Seq(Messages) /\ Len(inbox') = Len(inbox) + 1
    BY <1>1, AppendIs DEF BusOK
  <2> QED  BY <1>1, <2>1, BoundsAssumption DEF BusOK, BoundsAssumption
<1>2. CASE UNCHANGED inbox
  BY <1>2 DEF BusOK
<1> QED  BY <1>1, <1>2 DEF Send

LEMMA PublishType ==
  ASSUME BusOK, NEW m \in Messages, Publish(m),
         UNCHANGED <<running, up, asked>>,
         owner' \in [Uuids -> Ids \cup {Nobody}], faults' \in 0..MaxFaults
  PROVE  BusOK'
<1>1. inbox' \in Seq(Messages) /\ Len(inbox') <= MaxInbox
  BY SendType DEF Publish
<1>2. missed' \subseteq Uuids
  BY OneMessage DEF Publish, BusOK
<1> QED  BY <1>1, <1>2 DEF BusOK

(* The fresh uuid.                                                         *)
LEMMA FreshIs ==
  ASSUME BusOK, Fresh # {}
  PROVE  NewUuid \in Uuids /\ owner[NewUuid] = Nobody
BY DEF Fresh, NewUuid

LEMMA ForgetType ==
  ASSUME NEW map, NEW file
  PROVE  Forget(map, file) \in {"no", "unsaved", "forgot"}
BY DEF Forget

LEMMA StoreType ==
  ASSUME BusOK, ClientOK, NEW map \in Maps(Uuids, Ids), StoreUuidMap(map)
  PROVE  /\ uuidMapFile' \in Maps(Uuids, Ids)
         /\ unsaved' \in {"no", "unsaved", "forgot"}
         /\ faults' \in 0..MaxFaults
<1>1. CASE uuidMapFile' = map /\ unsaved' = Forget(map, map) /\ UNCHANGED faults
  BY <1>1, ForgetType DEF BusOK
<1>2. CASE /\ Fault
           /\ uuidMapFile' \in PartsOf(map) \cup {uuidMapFile}
           /\ unsaved' = Forget(map, uuidMapFile')
  BY <1>2, ForgetType, FaultType, PartIs DEF ClientOK
<1> QED  BY <1>1, <1>2 DEF StoreUuidMap

LEMMA GenerateType ==
  ASSUME BusOK, ClientOK, NEW i \in Ids, Generate(i)
  PROVE  /\ uuidMap' \in Maps(Uuids, Ids) /\ DOMAIN uuidMap \subseteq DOMAIN uuidMap'
         /\ InternalIdToUuid(uuidMap', i) # NoUuid
         /\ uuidMapFile' \in Maps(Uuids, Ids)
         /\ unsaved' \in {"no", "unsaved", "forgot"}
         /\ faults' \in 0..MaxFaults
         /\ owner' \in [Uuids -> Ids \cup {Nobody}]
<1>1. PICK u \in Uuids : u = NewUuid  BY FreshIs DEF Generate
<1>2. PICK map : map = With(uuidMap, u, i)  OBVIOUS
<1>3. uuidMap' = map /\ StoreUuidMap(map) /\ owner' = [owner EXCEPT ![u] = i]
  BY <1>1, <1>2 DEF Generate
<1>4. map \in Maps(Uuids, Ids) /\ DOMAIN map = DOMAIN uuidMap \cup {u} /\ map[u] = i
  <2>1. uuidMap \in Maps(Uuids, Ids)  BY DEF ClientOK
  <2>2. With(uuidMap, u, i) \in Maps(Uuids, Ids)  BY <2>1, WithType
  <2> QED  BY <1>2, <2>2 DEF With
<1>5. InternalIdToUuid(map, i) # NoUuid
  BY <1>4, UuidIs
<1>6. /\ uuidMapFile' \in Maps(Uuids, Ids)
      /\ unsaved' \in {"no", "unsaved", "forgot"}
      /\ faults' \in 0..MaxFaults
  BY <1>3, <1>4, StoreType
<1>7. owner' \in [Uuids -> Ids \cup {Nobody}]
  BY <1>3 DEF BusOK
<1> QED  BY <1>3, <1>4, <1>5, <1>6, <1>7

(* What a caller has begun.                                                *)
LEMMA DoIs ==
  ASSUME NEW op \in Steps, NEW u \in Uuids, NEW n \in Names \cup {NoName}
  PROVE  Do(op, u, n) \in Calls /\ Do(op, u, n).uuid = u
BY DEF Do, Calls

LEMMA IdleIs == Idle.op = "idle"
BY DEF Idle, Do

LEMMA DoingIs ==
  ASSUME ClientOK, NEW a \in Callers, NEW op \in Steps, Doing(a, op)
  PROVE  /\ running /\ at[a] \in Calls /\ at[a].uuid \in Uuids \cap DOMAIN uuidMap
         /\ at[a].name \in Names \cup {NoName}
         /\ \A next \in Steps : /\ [at[a] EXCEPT !["op"] = next] \in Calls
                                /\ [at[a] EXCEPT !["op"] = next].uuid = at[a].uuid
<1>1. at[a] # Idle /\ at[a] \in {Idle} \cup Calls /\ running
  <2>1. op # "idle" /\ at[a].op = op /\ running  BY DEF Doing, Steps
  <2> QED  BY <2>1, IdleIs DEF ClientOK
<1>2. at[a] \in Calls /\ at[a].uuid \in DOMAIN uuidMap
  BY <1>1 DEF ClientOK
<1> QED  BY <1>1, <1>2 DEF Calls

LEMMA GotoType ==
  ASSUME ClientOK, NEW a \in Callers, NEW next \in {Idle} \cup Calls, Goto(a, next),
         DOMAIN uuidMap \subseteq DOMAIN uuidMap',
         next # Idle => next.uuid \in DOMAIN uuidMap'
  PROVE  /\ at' \in [Callers -> {Idle} \cup Calls]
         /\ \A b \in Callers : at'[b] # Idle => at'[b].uuid \in DOMAIN uuidMap'
BY DEF ClientOK, Goto

(* A step of the process in which only the callers' progress and deviceMap *)
(* may change.                                                             *)
LEMMA StepType ==
  ASSUME ClientOK, NEW a \in Callers, NEW next \in {Idle} \cup Calls, Goto(a, next),
         next # Idle => next.uuid \in DOMAIN uuidMap,
         UNCHANGED <<uuids, reporting>>,
         deviceMap' \in Maps(Uuids, Flags), DOMAIN deviceMap' \subseteq DOMAIN uuidMap,
         toReport' \subseteq DOMAIN deviceMap'
  PROVE  ClientOK'
<1>1. UNCHANGED <<uuidMap, uuidMapFile, unsaved>>  BY DEF uuids
<1>2. /\ at' \in [Callers -> {Idle} \cup Calls]
      /\ \A b \in Callers : at'[b] # Idle => at'[b].uuid \in DOMAIN uuidMap'
  BY <1>1, GotoType
<1> QED  BY <1>1, <1>2 DEF ClientOK, Flags

LEMMA AddDeviceType ==
  ASSUME BusOK, ClientOK, NEW a \in Callers, NEW i \in Ids, NEW n \in Names \cup {NoName},
         AddDevice(a, i, n)
  PROVE  BusOK' /\ ClientOK'
<1>1. /\ uuidMap' \in Maps(Uuids, Ids) /\ DOMAIN uuidMap \subseteq DOMAIN uuidMap'
      /\ InternalIdToUuid(uuidMap', i) # NoUuid
      /\ uuidMapFile' \in Maps(Uuids, Ids)
      /\ unsaved' \in {"no", "unsaved", "forgot"}
      /\ faults' \in 0..MaxFaults
      /\ owner' \in [Uuids -> Ids \cup {Nobody}]
  <2>1. CASE Generate(i)
    BY <2>1, GenerateType
  <2>2. CASE Uuid(i) # NoUuid /\ UNCHANGED <<uuids, faults>>
    BY <2>2 DEF BusOK, ClientOK, Uuid, uuids
  <2> QED  BY <2>1, <2>2 DEF AddDevice
<1>2. PICK u : u = InternalIdToUuid(uuidMap', i)  OBVIOUS
<1>3. u \in DOMAIN uuidMap' /\ u \in Uuids
  BY <1>1, <1>2, UuidIs
<1>4. PICK next : next = Do("insert", u, n)  OBVIOUS
<1>5. Goto(a, next)
      /\ UNCHANGED <<deviceMap, toReport, reporting, running, up, inbox, asked, missed>>
  BY <1>2, <1>4 DEF AddDevice
<1>6. next \in Calls /\ next.uuid = u
  BY <1>3, <1>4, DoIs DEF Steps
<1>7. /\ at' \in [Callers -> {Idle} \cup Calls]
      /\ \A b \in Callers : at'[b] # Idle => at'[b].uuid \in DOMAIN uuidMap'
  BY <1>1, <1>3, <1>5, <1>6, GotoType
<1>8. BusOK'
  BY <1>1, <1>5 DEF BusOK
<1> QED  BY <1>1, <1>5, <1>7, <1>8 DEF ClientOK

LEMMA InsertDeviceType ==
  ASSUME BusOK, ClientOK, NEW a \in Callers, InsertDevice(a)
  PROVE  BusOK' /\ ClientOK'
<1>1. PICK u, next : u = at[a].uuid /\ next = [at[a] EXCEPT !["op"] = "announce"]  OBVIOUS
<1>2. /\ deviceMap' = With(deviceMap, u, "in use") /\ Goto(a, next)
      /\ toReport' \subseteq toReport \cup {u} /\ missed' = missed \ InUse'
      /\ UNCHANGED <<uuids, reporting, running, up, inbox, asked, faults>>
  BY <1>1 DEF InsertDevice
<1>3. u \in Uuids \cap DOMAIN uuidMap /\ next \in Calls /\ next.uuid = u
  BY <1>1, DoingIs DEF InsertDevice, Steps
<1>4. deviceMap' \in Maps(Uuids, Flags) /\ DOMAIN deviceMap' = DOMAIN deviceMap \cup {u}
  <2>1. "in use" \in Flags /\ deviceMap \in Maps(Uuids, Flags)  BY DEF Flags, ClientOK
  <2>2. With(deviceMap, u, "in use") \in Maps(Uuids, Flags)  BY <1>3, <2>1, WithType
  <2> QED  BY <1>2, <2>2 DEF With
<1>5. DOMAIN deviceMap' \subseteq DOMAIN uuidMap /\ toReport' \subseteq DOMAIN deviceMap'
  BY <1>2, <1>3, <1>4 DEF ClientOK
<1>6. ClientOK'
  BY <1>2, <1>3, <1>4, <1>5, StepType
<1>7. BusOK'
  BY <1>2 DEF BusOK, uuids
<1> QED  BY <1>6, <1>7

(* A step with a message to the resolver, that leaves deviceMap as it is.  *)
LEMMA SayType ==
  ASSUME BusOK, ClientOK, NEW a \in Callers, NEW next \in {Idle} \cup Calls, Goto(a, next),
         next # Idle => next.uuid \in DOMAIN uuidMap,
         NEW m \in Messages, Send(m), missed' \subseteq Uuids,
         UNCHANGED <<uuids, deviceMap, toReport, reporting, running, up, asked, faults>>
  PROVE  BusOK' /\ ClientOK'
<1>1. inbox' \in Seq(Messages) /\ Len(inbox') <= MaxInbox  BY SendType
<1>2. BusOK'  BY <1>1 DEF BusOK, uuids
<1>3. deviceMap' \in Maps(Uuids, Flags) /\ DOMAIN deviceMap' \subseteq DOMAIN uuidMap
      /\ toReport' \subseteq DOMAIN deviceMap'
  BY DEF ClientOK, Flags
<1> QED  BY <1>2, <1>3, StepType

LEMMA EmitDeviceAnnounceType ==
  ASSUME BusOK, ClientOK, NEW a \in Callers, EmitDeviceAnnounce(a)
  PROVE  BusOK' /\ ClientOK'
<1>1. PICK u, n : u = at[a].uuid /\ n = at[a].name  OBVIOUS
<1>2. u \in Uuids /\ n \in Names \cup {NoName}
  BY <1>1, DoingIs DEF EmitDeviceAnnounce, Steps
<1>3. PICK m \in Messages : m = Announce(u, n)  BY <1>2, MessagesAre
<1>4. Add(m) /\ Goto(a, Idle)
      /\ UNCHANGED <<uuids, deviceMap, toReport, reporting, running, up, asked, faults>>
  BY <1>1, <1>3 DEF EmitDeviceAnnounce
<1>5. Send(m) /\ missed' \subseteq Uuids
  BY <1>4 DEF Add, Messages, BusOK
<1> QED  BY <1>4, <1>5, SayType

LEMMA RemoveDeviceType ==
  ASSUME BusOK, ClientOK, NEW a \in Callers, NEW i \in Ids, RemoveDevice(a, i)
  PROVE  BusOK' /\ ClientOK'
<1>1. PICK u : u = Uuid(i)  OBVIOUS
<1>2. u \in DOMAIN uuidMap /\ u \in Uuids
  BY <1>1, UuidIs DEF RemoveDevice, ClientOK, Uuid
<1>3. NoName \in Names \cup {NoName}  OBVIOUS
<1>4. PICK m \in Messages : m = Removal(u)  BY <1>2, <1>3, MessagesAre
<1>5. PICK next : next = Do("erase", u, NoName)  OBVIOUS
<1>6. next \in Calls /\ next.uuid = u
  BY <1>2, <1>3, <1>5, DoIs DEF Steps
<1>7. Publish(m) /\ Goto(a, next)
      /\ UNCHANGED <<uuids, deviceMap, toReport, reporting, running, up, asked, faults>>
  BY <1>1, <1>4, <1>5 DEF RemoveDevice
<1>8. Send(m) /\ missed' \subseteq Uuids
  BY <1>7, OneMessage DEF Publish, BusOK
<1> QED  BY <1>2, <1>6, <1>7, <1>8, SayType

LEMMA EraseDeviceType ==
  ASSUME BusOK, ClientOK, NEW a \in Callers, EraseDevice(a)
  PROVE  BusOK' /\ ClientOK'
<1>1. PICK u : u = at[a].uuid  OBVIOUS
<1>2. /\ deviceMap' = Without(deviceMap, u) /\ toReport' = toReport \ {u} /\ Goto(a, Idle)
      /\ UNCHANGED <<uuids, reporting, running, up, inbox, asked, faults, missed>>
  BY <1>1 DEF EraseDevice
<1>3. deviceMap' \in Maps(Uuids, Flags) /\ DOMAIN deviceMap' = DOMAIN deviceMap \ {u}
  <2>1. deviceMap \in Maps(Uuids, Flags)  BY DEF ClientOK, Flags
  <2> QED  BY <1>2, <2>1, WithoutType DEF Without, Restrict
<1>4. ClientOK'
  BY <1>2, <1>3, StepType DEF ClientOK
<1> QED  BY <1>2, <1>4 DEF BusOK, uuids

LEMMA SetStaleType ==
  ASSUME BusOK, ClientOK, NEW a \in Callers, NEW i \in Ids, NEW op \in {"suspend", "resume"},
         SetStale(a, i, op)
  PROVE  BusOK' /\ ClientOK'
<1>1. PICK u : u = Uuid(i)  OBVIOUS
<1>2. u \in DOMAIN deviceMap /\ u \in DOMAIN uuidMap /\ u \in Uuids
  BY <1>1, MemberIs DEF SetStale, ClientOK
<1>3. PICK next : next = Do(op, u, NoName)  OBVIOUS
<1>4. next \in Calls /\ next.uuid = u
  <2>1. op \in Steps /\ NoName \in Names \cup {NoName}  BY DEF Steps
  <2> QED  BY <1>2, <1>3, <2>1, DoIs
<1>5. Goto(a, next)
      /\ UNCHANGED <<uuids, deviceMap, toReport, reporting, running, up, inbox, asked, faults, missed>>
  BY <1>1, <1>3 DEF SetStale
<1>6. ClientOK'
  BY <1>2, <1>4, <1>5, StepType DEF ClientOK, Flags
<1> QED  BY <1>5, <1>6 DEF BusOK, uuids

(* The flag of a member, new or not.                                       *)
LEMMA MarkedIs ==
  ASSUME NEW u, NEW flag \in Flags
  PROVE  Marked(u, flag) \in Flags
BY DEF Marked, Flags

LEMMA MarkStaleType ==
  ASSUME BusOK, ClientOK, NEW a \in Callers, MarkStale(a)
  PROVE  BusOK' /\ ClientOK'
<1>1. PICK u, next : u = at[a].uuid /\ next = [at[a] EXCEPT !["op"] = "notify"]  OBVIOUS
<1>2. PICK flag \in Flags : deviceMap' = With(deviceMap, u, flag)
  <2>1. Marked(u, "stale") \in Flags /\ Marked(u, "in use") \in Flags
    BY MarkedIs DEF Flags
  <2> QED  BY <1>1, <2>1 DEF MarkStale
<1>3. Goto(a, next) /\ UNCHANGED <<uuids, toReport, reporting, running, up, inbox, asked, faults, missed>>
  BY <1>1 DEF MarkStale
<1>4. u \in Uuids \cap DOMAIN uuidMap /\ next \in Calls /\ next.uuid = u
  BY <1>1, DoingIs DEF MarkStale, Steps
<1>5. deviceMap' \in Maps(Uuids, Flags) /\ DOMAIN deviceMap' = DOMAIN deviceMap \cup {u}
  <2>1. deviceMap \in Maps(Uuids, Flags)  BY DEF Flags, ClientOK
  <2>2. With(deviceMap, u, flag) \in Maps(Uuids, Flags)  BY <1>4, <2>1, WithType
  <2> QED  BY <1>2, <2>2 DEF With
<1>6. ClientOK'
  BY <1>3, <1>4, <1>5, StepType DEF ClientOK
<1> QED  BY <1>3, <1>6 DEF BusOK, uuids

LEMMA EmitDeviceStaleType ==
  ASSUME BusOK, ClientOK, NEW a \in Callers, EmitDeviceStale(a)
  PROVE  BusOK' /\ ClientOK'
<1>1. PICK u : u = at[a].uuid  OBVIOUS
<1>2. u \in Uuids /\ NoName \in Names \cup {NoName}
  BY <1>1, DoingIs DEF EmitDeviceStale, Steps
<1>3. PICK m \in Messages : m = Event(u)  BY <1>2, MessagesAre
<1>4. Publish(m) /\ Goto(a, Idle)
      /\ UNCHANGED <<uuids, deviceMap, toReport, reporting, running, up, asked, faults>>
  BY <1>1, <1>3 DEF EmitDeviceStale
<1>5. Send(m) /\ missed' \subseteq Uuids
  BY <1>4, OneMessage DEF Publish, BusOK
<1> QED  BY <1>4, <1>5, SayType

LEMMA EmitEventType ==
  ASSUME BusOK, ClientOK, NEW a \in Callers, NEW i \in Ids, EmitEvent(a, i)
  PROVE  BusOK' /\ ClientOK'
<1>1. PICK u : u = Uuid(i)  OBVIOUS
<1>2. u \in Uuids
  BY <1>1, UuidIs DEF EmitEvent, ClientOK, Uuid
<1>3. Publish(Event(u)) /\ UNCHANGED <<client, running, up, asked, faults, owner>>
  BY <1>1 DEF EmitEvent
<1>4. Event(u) \in Messages
  <2>1. NoName \in Names \cup {NoName}  OBVIOUS
  <2> QED  BY <1>2, <2>1, MessagesAre
<1>5. BusOK'
  BY <1>3, <1>4, PublishType DEF BusOK
<1> QED  BY <1>3, <1>5 DEF ClientOK, client

LEMMA HandleDiscoverType ==
  ASSUME BusOK, ClientOK, HandleDiscover
  PROVE  BusOK' /\ ClientOK'
BY DEF HandleDiscover, BusOK, ClientOK, uuids

LEMMA VisitDeviceType ==
  ASSUME BusOK, ClientOK, VisitDevice
  PROVE  BusOK' /\ ClientOK'
<1>1. PICK u \in toReport : toReport' = toReport \ {u} /\ reporting' \in {u, NoUuid}
  BY DEF VisitDevice
<1>2. u \in Uuids
  BY <1>1, MemberIs DEF ClientOK
<1> QED  BY <1>1, <1>2 DEF VisitDevice, BusOK, ClientOK, uuids

LEMMA EmitDeviceDiscoverType ==
  ASSUME BusOK, ClientOK, EmitDeviceDiscover
  PROVE  BusOK' /\ ClientOK'
<1>1. reporting \in Uuids /\ NoName \in Names \cup {NoName}
  BY DEF EmitDeviceDiscover, ClientOK
<1>2. PICK m \in Messages : m = Discovered(reporting)  BY <1>1, MessagesAre
<1>3. Add(m) /\ reporting' = NoUuid
      /\ UNCHANGED <<uuids, deviceMap, at, toReport, running, up, asked, faults>>
  BY <1>2 DEF EmitDeviceDiscover
<1>4. Send(m) /\ missed' \subseteq Uuids
  BY <1>3 DEF Add, Messages, BusOK
<1>5. inbox' \in Seq(Messages) /\ Len(inbox') <= MaxInbox
  BY <1>4, SendType
<1>6. BusOK'
  BY <1>3, <1>4, <1>5 DEF BusOK, uuids
<1> QED  BY <1>3, <1>6 DEF ClientOK, uuids

LEMMA DieType ==
  ASSUME BusOK, ClientOK, Die
  PROVE  BusOK' /\ ClientOK'
<1>1. /\ uuidMapFile' \in Maps(Uuids, Ids)
      /\ owner' \in [Uuids -> Ids \cup {Nobody}]
      /\ unsaved' \in {"no", "unsaved", "forgot"}
  <2>1. CASE UNCHANGED <<uuidMapFile, owner, unsaved>>
    BY <2>1 DEF BusOK, ClientOK
  <2>2. CASE \E a \in Callers, i \in Ids :
               /\ Free(a) /\ Uuid(i) = NoUuid /\ Fresh # {}
               /\ uuidMapFile' \in PartsOf(With(uuidMap, NewUuid, i))
               /\ owner' = IF NewUuid \in DOMAIN uuidMapFile'
                           THEN [owner EXCEPT ![NewUuid] = i] ELSE owner
               /\ unsaved' = Forget(uuidMap, uuidMapFile')
    <3>1. PICK i \in Ids :
            /\ Fresh # {}
            /\ uuidMapFile' \in PartsOf(With(uuidMap, NewUuid, i))
            /\ owner' \in {[owner EXCEPT ![NewUuid] = i], owner}
            /\ unsaved' = Forget(uuidMap, uuidMapFile')
      BY <2>2
    <3>2. PICK u \in Uuids : u = NewUuid  BY <3>1, FreshIs
    <3>3. PICK map : map = With(uuidMap, u, i)  OBVIOUS
    <3>4. map \in Maps(Uuids, Ids)
      <4>1. uuidMap \in Maps(Uuids, Ids)  BY DEF ClientOK
      <4> QED  BY <3>3, <4>1, WithType
    <3>5. uuidMapFile' \in PartsOf(map)  BY <3>1, <3>2, <3>3
    <3>6. uuidMapFile' \in Maps(Uuids, Ids)
      BY <3>4, <3>5, PartIs
    <3>7. owner' \in [Uuids -> Ids \cup {Nobody}]
      BY <3>1, <3>2 DEF BusOK
    <3> QED  BY <3>1, <3>6, <3>7, ForgetType
  <2> QED  BY <2>1, <2>2 DEF Die
<1>2. /\ faults' \in 0..MaxFaults
      /\ running' = FALSE /\ UNCHANGED <<up, inbox>> /\ asked' = FALSE
      /\ missed' = missed \cup InUse
      /\ uuidMap' = EmptyMap /\ deviceMap' = EmptyMap
      /\ at' = [a \in Callers |-> Idle] /\ toReport' = {} /\ reporting' = NoUuid
  BY FaultType DEF Die
<1>3. InUse \subseteq Uuids
  BY MemberIs DEF ClientOK, InUse
<1>4. BusOK'
  BY <1>1, <1>2, <1>3 DEF BusOK
<1>5. uuidMap' \in Maps(Uuids, Ids) /\ deviceMap' \in Maps(Uuids, Flags)
      /\ DOMAIN deviceMap' = {}
  BY <1>2, EmptyMapIs
<1>6. at' \in [Callers -> {Idle} \cup Calls] /\ \A b \in Callers : at'[b] = Idle
  BY <1>2
<1> QED  BY <1>1, <1>2, <1>4, <1>5, <1>6 DEF ClientOK, Flags

LEMMA StartType ==
  ASSUME BusOK, ClientOK, Start,
         ~running => DOMAIN deviceMap = {} /\ \A a \in Callers : at[a] = Idle
  PROVE  BusOK' /\ ClientOK'
BY DEF Start, BusOK, ClientOK

(* What a change of a member makes of a device.                            *)
LEMMA DevicesAre ==
  ASSUME NEW d \in Devices
  PROVE  /\ \A n \in Names \cup {NoName} : [d EXCEPT !["name"] = n] \in Devices
         /\ \A b \in BOOLEAN : [d EXCEPT !["stale"] = b] \in Devices
         /\ \A b \in BOOLEAN : [d EXCEPT !["heard"] = b] \in Devices
         /\ \A a, b \in BOOLEAN : [d EXCEPT !.timeout = a, !.heard = b] \in Devices
BY DEF Devices

LEMMA NewDeviceIs ==
  ASSUME NEW n \in Names \cup {NoName}
  PROVE  NewDevice(n) \in Devices /\ NewDevice(n).name = n
BY DEF NewDevice, Devices

(* A device replaced, and what it may be replaced with.                    *)
LEMMA ReplaceType ==
  ASSUME ResolverOK, NEW u \in Uuids, NEW d \in Devices
  PROVE  With(inventory, u, d) \in Maps(Uuids, Devices)
BY WithType DEF ResolverOK

LEMMA DeviceIs ==
  ASSUME ResolverOK, NEW u, Listed(u)
  PROVE  u \in Uuids /\ inventory[u] \in Devices
BY MemberIs DEF ResolverOK, Listed

LEMMA SaveType ==
  ASSUME ResolverOK, inventory' \in Maps(Uuids, Devices), SaveDevicemap \/ UNCHANGED devicesFile
  PROVE  devicesFile' \in Maps(Uuids, Devices)
BY DEF ResolverOK, SaveDevicemap

LEMMA ReceiveType ==
  ASSUME BusOK, ResolverOK, Receive
  PROVE  BusOK' /\ ResolverOK'
<1>1. PICK m : m = Head(inbox)  OBVIOUS
<1>2. /\ inbox # <<>> /\ inbox' = Tail(inbox)
      /\ AnnounceEvent(m) \/ RemoveEvent(m) \/ HandleEvent(m)
      /\ UNCHANGED <<names, scan, scanning, changed, given, running, up, asked, faults, owner>>
  BY <1>1 DEF Receive
<1>3. /\ m \in Messages /\ m.uuid \in Uuids
      /\ inbox' \in Seq(Messages) /\ Len(inbox') <= MaxInbox
  <2>1. inbox \in Seq(Messages) /\ Len(inbox) <= MaxInbox  BY DEF BusOK
  <2>2. m \in Messages /\ Len(inbox) \in Nat \ {0}
        /\ inbox' \in Seq(Messages) /\ Len(inbox') = Len(inbox) - 1
    BY <1>1, <1>2, <2>1, TailIs
  <2>3. Len(inbox') <= MaxInbox
    BY <2>1, <2>2, BoundsAssumption DEF BoundsAssumption
  <2> QED  BY <2>2, <2>3 DEF Messages
<1>4. /\ inventory' \in Maps(Uuids, Devices)
      /\ SaveDevicemap \/ UNCHANGED devicesFile
      /\ missed' \subseteq Uuids
  <2>1. CASE AnnounceEvent(m)
    <3>1. NameFor(m) \in Names \cup {NoName}
      BY <1>3 DEF NameFor, ResolverOK, Messages
    <3>2. PICK n \in Names \cup {NoName} : n = NameFor(m)  BY <3>1
    <3>3. CASE Listed(m.uuid)
      <4>1. PICK d \in Devices : d = [inventory[m.uuid] EXCEPT !["name"] = n]
        BY <3>3, DevicesAre, DeviceIs
      <4>2. inventory' = With(inventory, m.uuid, d)
        BY <2>1, <3>2, <3>3, <4>1 DEF AnnounceEvent, Set
      <4> QED  BY <1>3, <2>1, <4>2, ReplaceType DEF AnnounceEvent, BusOK
    <3>4. CASE ~Listed(m.uuid)
      <4>1. PICK d \in Devices : d = NewDevice(n)
        BY NewDeviceIs
      <4>2. inventory' = With(inventory, m.uuid, d)
        BY <2>1, <3>2, <3>4, <4>1 DEF AnnounceEvent
      <4> QED  BY <1>3, <2>1, <4>2, ReplaceType DEF AnnounceEvent, BusOK
    <3> QED  BY <3>3, <3>4
  <2>2. CASE RemoveEvent(m)
    <3>1. inventory' \in Maps(Uuids, Devices)
      BY <2>2, WithoutType DEF RemoveEvent, ResolverOK
    <3> QED  BY <2>2, <3>1 DEF RemoveEvent, SaveIf, BusOK
  <2>3. CASE HandleEvent(m)
    <3>1. inventory' \in Maps(Uuids, Devices)
      <4>1. CASE Listed(m.uuid)
        <5>1. PICK d \in Devices : d = [inventory[m.uuid] EXCEPT !["heard"] = TRUE]
          BY <4>1, DevicesAre, DeviceIs
        <5>2. inventory' = With(inventory, m.uuid, d)
          BY <2>3, <4>1, <5>1 DEF HandleEvent, Set
        <5> QED  BY <1>3, <5>2, ReplaceType
      <4>2. CASE ~Listed(m.uuid)
        BY <2>3, <4>2 DEF HandleEvent, ResolverOK
      <4> QED  BY <4>1, <4>2
    <3> QED  BY <2>3, <3>1 DEF HandleEvent, SaveIf, BusOK
  <2> QED  BY <1>2, <2>1, <2>2, <2>3
<1>5. devicesFile' \in Maps(Uuids, Devices)
  BY <1>4, SaveType
<1>6. BusOK'
  BY <1>2, <1>3, <1>4 DEF BusOK
<1>7. ResolverOK'
  BY <1>2, <1>4, <1>5 DEF ResolverOK
<1> QED  BY <1>6, <1>7

LEMMA EventType ==
  ASSUME BusOK, NEW u \in Uuids, Publish(Event(u)), UNCHANGED <<running, up, asked, faults, owner>>
  PROVE  BusOK'
<1>1. NoName \in Names \cup {NoName}  OBVIOUS
<1>2. Event(u) \in Messages  BY <1>1, MessagesAre
<1> QED  BY <1>2, PublishType DEF BusOK

LEMMA SetDeviceNameType ==
  ASSUME BusOK, ResolverOK, NEW u \in Uuids, NEW n \in Names, SetDeviceName(u, n)
  PROVE  BusOK' /\ ResolverOK'
<1>1. BusOK'
  BY EventType DEF SetDeviceName
<1>2. /\ names' \in [Uuids -> Names \cup {NoName}] /\ names'[u] = n
      /\ given' \in [Uuids -> SUBSET Names]
  BY DEF SetDeviceName, ResolverOK
<1>3. inventory' \in Maps(Uuids, Devices)
  <2>1. CASE Listed(u)
    <3>1. PICK d \in Devices : d = [inventory[u] EXCEPT !["name"] = n]
      BY <2>1, DevicesAre, DeviceIs
    <3>2. inventory' = With(inventory, u, d)
      BY <1>2, <2>1, <3>1 DEF SetDeviceName, Set
    <3> QED  BY <3>2, ReplaceType
  <2>2. CASE ~Listed(u)
    BY <2>2 DEF SetDeviceName, ResolverOK
  <2> QED  BY <2>1, <2>2
<1>4. devicesFile' \in Maps(Uuids, Devices)
  BY <1>3, SaveType DEF SetDeviceName
<1> QED  BY <1>1, <1>2, <1>3, <1>4 DEF SetDeviceName, ResolverOK

LEMMA DeleteDeviceNameType ==
  ASSUME BusOK, ResolverOK, NEW u \in Uuids, DeleteDeviceName(u)
  PROVE  BusOK' /\ ResolverOK'
<1>1. BusOK'
  BY EventType DEF DeleteDeviceName
<1> QED  BY <1>1 DEF DeleteDeviceName, ResolverOK

LEMMA DeleteDeviceType ==
  ASSUME BusOK, ResolverOK, NEW u \in Uuids, DeleteDevice(u)
  PROVE  BusOK' /\ ResolverOK'
<1>1. inventory' \in Maps(Uuids, Devices)
  BY WithoutType DEF DeleteDevice, ResolverOK
<1>2. devicesFile' \in Maps(Uuids, Devices)
  BY <1>1, SaveType DEF DeleteDevice, SaveIf
<1> QED  BY <1>1, <1>2 DEF DeleteDevice, ResolverOK, BusOK, bus

LEMMA SetDeviceParametersType ==
  ASSUME BusOK, ResolverOK, NEW u \in Uuids, NEW timeout \in BOOLEAN, SetDeviceParameters(u, timeout)
  PROVE  BusOK' /\ ResolverOK'
<1>1. PICK heard \in BOOLEAN :
        inventory' = With(inventory, u, [inventory[u] EXCEPT !.timeout = timeout, !.heard = heard])
  <2>1. (~timeout) \in BOOLEAN  OBVIOUS
  <2> QED  BY <2>1 DEF SetDeviceParameters
<1>2. PICK d \in Devices : d = [inventory[u] EXCEPT !.timeout = timeout, !.heard = heard]
  BY DevicesAre, DeviceIs DEF SetDeviceParameters
<1>3. inventory' \in Maps(Uuids, Devices)
  BY <1>1, <1>2, ReplaceType
<1>4. devicesFile' \in Maps(Uuids, Devices)
  BY <1>3, SaveType DEF SetDeviceParameters
<1> QED  BY <1>3, <1>4 DEF SetDeviceParameters, ResolverOK, BusOK, bus

LEMMA CheckType ==
  ASSUME BusOK, ResolverOK, Check
  PROVE  BusOK' /\ ResolverOK'
<1>1. PICK u \in scan :
        /\ scan' = scan \ {u}
        /\ \/ /\ Listed(u) /\ MustChange(u)
              /\ inventory' = Set(u, "stale", Silent(u))
              /\ changed' = TRUE
              /\ Publish(Event(u))
           \/ /\ ~(Listed(u) /\ MustChange(u))
              /\ UNCHANGED <<inventory, changed, inbox, missed>>
  BY DEF Check
<1>2. UNCHANGED <<devicesFile, names, scanning, given, running, up, asked, faults, owner>>
  BY DEF Check
<1>3. u \in Uuids /\ scan' \subseteq Uuids
  BY <1>1 DEF ResolverOK
<1>4. CASE /\ Listed(u) /\ inventory' = Set(u, "stale", Silent(u))
           /\ changed' = TRUE /\ Publish(Event(u))
  <2>1. PICK silent \in BOOLEAN : silent = Silent(u)
    BY <1>4, DeviceIs DEF Silent, Devices
  <2>2. PICK d \in Devices : d = [inventory[u] EXCEPT !["stale"] = silent]
    BY <1>4, DevicesAre, DeviceIs
  <2>3. inventory' = With(inventory, u, d)
    BY <1>4, <2>1, <2>2 DEF Set
  <2>4. inventory' \in Maps(Uuids, Devices)
    BY <1>3, <2>3, ReplaceType
  <2>5. BusOK'
    BY <1>2, <1>3, <1>4, EventType
  <2> QED  BY <1>2, <1>3, <1>4, <2>4, <2>5 DEF ResolverOK
<1>5. CASE UNCHANGED <<inventory, changed, inbox, missed>>
  BY <1>2, <1>3, <1>5 DEF ResolverOK, BusOK
<1> QED  BY <1>1, <1>4, <1>5

LEMMA ExpireType ==
  ASSUME BusOK, ResolverOK, NEW u \in Uuids, Expire(u)
  PROVE  BusOK' /\ ResolverOK'
<1>1. PICK d \in Devices : d = [inventory[u] EXCEPT !["heard"] = FALSE]
  BY DevicesAre, DeviceIs DEF Expire
<1>2. inventory' = With(inventory, u, d)
  BY <1>1 DEF Expire, Set
<1>3. inventory' \in Maps(Uuids, Devices)
  BY <1>2, ReplaceType
<1> QED  BY <1>3 DEF Expire, ResolverOK, BusOK, bus

LEMMA CrashType ==
  ASSUME BusOK, ResolverOK, Crash
  PROVE  BusOK' /\ ResolverOK'
<1>1. /\ names' \in [Uuids -> Names \cup {NoName}]
      /\ given' \in [Uuids -> SUBSET Names]
  <2>1. CASE UNCHANGED <<names, given>>
    BY <2>1 DEF ResolverOK
  <2>2. CASE \E u \in Uuids, n \in UserNames :
               /\ names' = [names EXCEPT ![u] = n]
               /\ given' = [given EXCEPT ![u] = IF @ = {} THEN {} ELSE @ \cup {n}]
    BY <2>2, UsersAssumption DEF ResolverOK
  <2> QED  BY <2>1, <2>2 DEF Crash
<1>2. inventory' = EmptyMap /\ inventory' \in Maps(Uuids, Devices)
  BY EmptyMapIs DEF Crash
<1>3. devicesFile' \in Maps(Uuids, Devices)
  <2>1. inventory \in Maps(Uuids, Devices) /\ devicesFile \in Maps(Uuids, Devices)
    BY DEF ResolverOK
  <2>2. CASE devicesFile' = devicesFile  BY <2>1, <2>2
  <2>3. CASE devicesFile' \in PartsOf(inventory)  BY <2>1, <2>3, PartIs
  <2> QED  BY <2>2, <2>3 DEF Crash
<1>4. Removals(inbox) \subseteq Uuids
  BY AboutIs DEF Removals, BusOK
<1>5. /\ inbox' = <<>> /\ <<>> \in Seq(Messages) /\ Len(<<>>) = 0 /\ 0 <= MaxInbox
      /\ faults' \in 0..MaxFaults
  BY FaultType, BoundsAssumption DEF Crash, BoundsAssumption
<1>6. BusOK'
  BY <1>4, <1>5 DEF Crash, BusOK
<1> QED  BY <1>1, <1>2, <1>3, <1>6 DEF Crash, ResolverOK

LEMMA SetupAppType ==
  ASSUME BusOK, ResolverOK, SetupApp
  PROVE  BusOK' /\ ResolverOK'
<1>1. inventory' \in Maps(Uuids, Devices)
  BY EmptyMapIs DEF SetupApp, ResolverOK
<1> QED  BY <1>1 DEF SetupApp, ResolverOK, BusOK

LEMMA QuietTypes ==
  ASSUME BusOK, ResolverOK, DiscoverFunction \/ StaleFunction \/ EndScan
  PROVE  BusOK' /\ ResolverOK'
<1>1. CASE DiscoverFunction
  BY <1>1 DEF DiscoverFunction, BusOK, ResolverOK, resolver
<1>2. CASE StaleFunction
  <2>1. DOMAIN inventory \subseteq Uuids  BY MemberIs DEF ResolverOK
  <2> QED  BY <1>2, <2>1 DEF StaleFunction, BusOK, ResolverOK, bus
<1>3. CASE EndScan
  <2>1. devicesFile' \in Maps(Uuids, Devices)
    BY <1>3 DEF EndScan, SaveIf, SaveDevicemap, ResolverOK
  <2> QED  BY <1>3, <2>1 DEF EndScan, BusOK, ResolverOK, bus
<1> QED  BY <1>1, <1>2, <1>3

LEMMA LossTypes ==
  ASSUME BusOK, Lose \/ LoseDiscover
  PROVE  BusOK'
<1>1. CASE Lose
  <2>1. inbox \in Seq(Messages) /\ inbox # <<>> /\ Len(inbox) <= MaxInbox
    BY <1>1 DEF Lose, BusOK
  <2>2. PICK m \in Messages : m = Head(inbox)  BY <2>1, TailIs
  <2>3. Removals(<<m>>) \subseteq Uuids  BY OneMessage
  <2>4. Tail(inbox) \in Seq(Messages) /\ Len(Tail(inbox)) <= MaxInbox
    BY <2>1, TailIs, BoundsAssumption DEF BoundsAssumption
  <2> QED  BY <1>1, <2>2, <2>3, <2>4, FaultType DEF Lose, BusOK
<1>2. CASE LoseDiscover
  BY <1>2, FaultType DEF LoseDiscover, BusOK
<1> QED  BY <1>1, <1>2

-----------------------------------------------------------------------------
(* What is down has nothing in memory.                                     *)
DownInv ==
    /\ ~running => DOMAIN deviceMap = {} /\ \A a \in Callers : at[a] = Idle
    /\ ~up => DOMAIN inventory = {} /\ inbox = <<>> /\ scan = {} /\ ~scanning

TypeInv == TypeOK /\ DownInv

LEMMA ProceedTypes ==
  ASSUME BusOK, ClientOK, NEW a \in Callers, Proceed(a)
  PROVE  BusOK' /\ ClientOK'
BY InsertDeviceType, EmitDeviceAnnounceType, EraseDeviceType, MarkStaleType, EmitDeviceStaleType
DEF Proceed

LEMMA ClientTypes ==
  ASSUME TypeInv, ClientNext, UNCHANGED resolver
  PROVE  TypeOK'
<1> USE DEF TypeInv, TypeOK
<1>1. ResolverOK'  BY DEF resolver, ResolverOK
<1>2. BusOK' /\ ClientOK'
  <2>1. ASSUME NEW a \in Callers, NEW i \in Ids, NEW n \in InitialNames, AddDevice(a, i, n)
        PROVE  BusOK' /\ ClientOK'
    <3>1. n \in Names \cup {NoName}  BY InitialNamesAssumption DEF InitialNamesAssumption
    <3> QED  BY <2>1, <3>1, AddDeviceType
  <2>2. ASSUME NEW a \in Callers, NEW i \in Ids, RemoveDevice(a, i) PROVE BusOK' /\ ClientOK'
    BY <2>2, RemoveDeviceType
  <2>3. ASSUME NEW a \in Callers, NEW i \in Ids, NEW op \in {"suspend", "resume"}, SetStale(a, i, op)
        PROVE  BusOK' /\ ClientOK'
    BY <2>3, SetStaleType
  <2>4. ASSUME NEW a \in Callers, NEW i \in Ids, EmitEvent(a, i) PROVE BusOK' /\ ClientOK'
    BY <2>4, EmitEventType
  <2>5. ASSUME NEW a \in Callers, Proceed(a) PROVE BusOK' /\ ClientOK'
    BY <2>5, ProceedTypes
  <2>6. CASE HandleDiscover  BY <2>6, HandleDiscoverType
  <2>7. CASE VisitDevice  BY <2>7, VisitDeviceType
  <2>8. CASE EmitDeviceDiscover  BY <2>8, EmitDeviceDiscoverType
  <2>9. CASE Die  BY <2>9, DieType
  <2>10. CASE Start  BY <2>10, StartType DEF DownInv, Start
  <2> QED
    BY <2>1, <2>2, <2>3, <2>4, <2>5, <2>6, <2>7, <2>8, <2>9, <2>10 DEF ClientNext
<1> QED  BY <1>1, <1>2

LEMMA ResolverTypes ==
  ASSUME TypeInv, ResolverNext, UNCHANGED client
  PROVE  TypeOK'
<1> USE DEF TypeInv, TypeOK
<1>1. ClientOK'  BY DEF client, ClientOK
<1>2. BusOK' /\ ResolverOK'
  <2>1. ASSUME NEW u \in Uuids, NEW n \in UserNames, SetDeviceName(u, n) PROVE BusOK' /\ ResolverOK'
    BY <2>1, SetDeviceNameType, UsersAssumption DEF UsersAssumption
  <2>2. ASSUME NEW u \in Uuids, DeleteDeviceName(u) PROVE BusOK' /\ ResolverOK'
    BY <2>2, DeleteDeviceNameType
  <2>3. ASSUME NEW u \in Uuids, DeleteDevice(u) PROVE BusOK' /\ ResolverOK'
    BY <2>3, DeleteDeviceType
  <2>4. ASSUME NEW u \in Uuids, Expire(u) PROVE BusOK' /\ ResolverOK'
    BY <2>4, ExpireType
  <2>5. ASSUME NEW u \in Uuids, NEW timeout \in Timeouts, SetDeviceParameters(u, timeout)
        PROVE  BusOK' /\ ResolverOK'
    BY <2>5, SetDeviceParametersType, UsersAssumption DEF UsersAssumption
  <2>6. CASE Receive  BY <2>6, ReceiveType
  <2>7. CASE DiscoverFunction \/ StaleFunction \/ EndScan  BY <2>7, QuietTypes
  <2>8. CASE Check  BY <2>8, CheckType
  <2>9. CASE Crash  BY <2>9, CrashType
  <2>10. CASE SetupApp  BY <2>10, SetupAppType
  <2> QED  BY <2>1, <2>2, <2>3, <2>4, <2>5, <2>6, <2>7, <2>8, <2>9, <2>10 DEF ResolverNext
<1> QED  BY <1>1, <1>2

(* All but the end and the start of the process is done by its threads.    *)
LEMMA ClientRuns ==
  ASSUME ClientNext, ~Die, ~Start
  PROVE  running /\ UNCHANGED <<running, up>> /\ (~up => UNCHANGED inbox)
<1> DEFINE Runs == running /\ UNCHANGED <<running, up>> /\ (~up => UNCHANGED inbox)
<1>1. ASSUME NEW a, NEW i, NEW n, AddDevice(a, i, n) PROVE Runs
  BY <1>1 DEF AddDevice, Free
<1>2. ASSUME NEW a, NEW i, RemoveDevice(a, i) \/ EmitEvent(a, i) PROVE Runs
  BY <1>2 DEF RemoveDevice, EmitEvent, Free, Publish, Send
<1>3. ASSUME NEW a, NEW i, NEW op, SetStale(a, i, op) PROVE Runs
  BY <1>3 DEF SetStale, Free
<1>4. ASSUME NEW a, Proceed(a) PROVE Runs
  <2>1. CASE InsertDevice(a) \/ EraseDevice(a) \/ MarkStale(a)
    BY <2>1 DEF InsertDevice, EraseDevice, MarkStale, Doing
  <2>2. CASE EmitDeviceAnnounce(a) \/ EmitDeviceStale(a)
    BY <2>2 DEF EmitDeviceAnnounce, EmitDeviceStale, Doing, Publish, Add, Send
  <2> QED  BY <1>4, <2>1, <2>2 DEF Proceed
<1>5. CASE HandleDiscover \/ VisitDevice  BY <1>5 DEF HandleDiscover, VisitDevice
<1>6. CASE EmitDeviceDiscover  BY <1>6 DEF EmitDeviceDiscover, Add, Send
<1> QED  BY <1>1, <1>2, <1>3, <1>4, <1>5, <1>6 DEF ClientNext

LEMMA DownIs ==
  ASSUME TypeInv, [Next]_vars
  PROVE  DownInv'
<1> USE DEF TypeInv, TypeOK, DownInv
<1>1. CASE UNCHANGED vars
  BY <1>1 DEF vars, client, resolver, bus
<1>2. CASE ClientNext /\ ~Die /\ ~Start /\ UNCHANGED resolver
  <2>1. running /\ UNCHANGED <<running, up>> /\ (~up => UNCHANGED inbox)
    BY <1>2, ClientRuns
  <2> QED  BY <1>2, <2>1 DEF resolver
<1>3. CASE Die /\ UNCHANGED resolver
  <2>1. /\ deviceMap' = EmptyMap /\ at' = [a \in Callers |-> Idle]
        /\ UNCHANGED <<up, inbox, resolver>>
    BY <1>3 DEF Die
  <2> QED  BY <2>1, EmptyMapIs DEF resolver
<1>4. CASE Start /\ UNCHANGED resolver
  BY <1>4 DEF Start, resolver
<1>5. CASE (Lose \/ LoseDiscover) /\ UNCHANGED <<client, resolver>>
  BY <1>5 DEF Lose, LoseDiscover, client, resolver
<1>6. ASSUME NEW u \in Uuids, NEW n, SetDeviceName(u, n), UNCHANGED client PROVE DownInv'
  BY <1>6 DEF SetDeviceName, Publish, Send, client
<1>7. ASSUME NEW u \in Uuids, DeleteDeviceName(u) \/ DeleteDevice(u), UNCHANGED client PROVE DownInv'
  BY <1>7 DEF DeleteDeviceName, DeleteDevice, Publish, Send, client, bus
<1>8. ASSUME NEW u \in Uuids, Expire(u), UNCHANGED client PROVE DownInv'
  BY <1>8 DEF Expire, client, bus, Listed
<1>9. ASSUME NEW u \in Uuids, NEW timeout, SetDeviceParameters(u, timeout), UNCHANGED client
       PROVE  DownInv'
  BY <1>9 DEF SetDeviceParameters, client, bus
<1>10. CASE Receive /\ UNCHANGED client
  BY <1>10 DEF Receive, client
<1>11. CASE (DiscoverFunction \/ StaleFunction \/ EndScan) /\ UNCHANGED client
  BY <1>11 DEF DiscoverFunction, StaleFunction, EndScan, client, bus, resolver
<1>12. CASE Check /\ UNCHANGED client
  BY <1>12 DEF Check, client
<1>13. CASE Crash /\ UNCHANGED client
  <2>1. /\ inventory' = EmptyMap /\ scan' = {} /\ scanning' = FALSE /\ inbox' = <<>>
        /\ UNCHANGED <<running, client>>
    BY <1>13 DEF Crash
  <2> QED  BY <2>1, EmptyMapIs DEF client
<1>14. CASE SetupApp /\ UNCHANGED client
  BY <1>14 DEF SetupApp, client
<1> QED
  BY <1>1, <1>2, <1>3, <1>4, <1>5, <1>6, <1>7, <1>8,
     <1>9, <1>10, <1>11, <1>12, <1>13, <1>14
  DEF Next, ClientNext, ResolverNext

LEMMA TypeInit == Init => TypeInv
<1> SUFFICES ASSUME Init PROVE TypeInv  OBVIOUS
<1>1. EmptyMap \in Maps(Uuids, Ids) /\ EmptyMap \in Maps(Uuids, Flags)
      /\ EmptyMap \in Maps(Uuids, Devices) /\ DOMAIN EmptyMap = {}
  BY EmptyMapIs
<1>2. <<>> \in Seq(Messages) /\ Len(<<>>) = 0 /\ 0 <= MaxInbox /\ 0 \in 0..MaxFaults
  BY BoundsAssumption DEF BoundsAssumption
<1>3. BusOK  BY <1>2 DEF Init, BusOK
<1>4. ClientOK  BY <1>1 DEF Init, ClientInit, ClientOK, Flags
<1>5. ResolverOK  BY <1>1 DEF Init, ResolverInit, ResolverOK
<1> QED  BY <1>3, <1>4, <1>5 DEF Init, TypeInv, TypeOK, DownInv

LEMMA TypeStep == TypeInv /\ [Next]_vars => TypeInv'
<1> SUFFICES ASSUME TypeInv, [Next]_vars PROVE TypeOK'
  BY DownIs DEF TypeInv
<1>1. CASE UNCHANGED vars
  BY <1>1 DEF vars, client, resolver, bus, TypeInv, TypeOK, BusOK, ClientOK, ResolverOK
<1>2. CASE ClientNext /\ UNCHANGED resolver
  BY <1>2, ClientTypes
<1>3. CASE ResolverNext /\ UNCHANGED client
  BY <1>3, ResolverTypes
<1>4. CASE (Lose \/ LoseDiscover) /\ UNCHANGED <<client, resolver>>
  BY <1>4, LossTypes DEF client, resolver, TypeInv, TypeOK, ClientOK, ResolverOK
<1> QED  BY <1>1, <1>2, <1>3, <1>4 DEF Next

LEMMA TypeInvariant == Spec => []TypeInv
BY TypeInit, TypeStep, PTL DEF Spec

(* Every variable keeps its type, and the devices in use have a uuid.      *)
THEOREM TypeCorrect == Spec => []TypeOK
<1>1. TypeInv => TypeOK  BY DEF TypeInv
<1> QED  BY <1>1, TypeInvariant, PTL

-----------------------------------------------------------------------------
(***************************************************************************)
(* Uuids: the maps agree with the owners, and as long as no start has read *)
(* a file that missed something, no device has two uuids and every uuid is *)
(* known where it is needed.                                               *)
(***************************************************************************)
Owned(o, map)  == \A u \in DOMAIN map : o[u] = map[u]
Unique(o)      == \A u, v \in Uuids : o[u] # Nobody /\ o[u] = o[v] => u = v
Knows(o, map)  == \A u \in Uuids : o[u] # Nobody => u \in DOMAIN map

OwnerInv ==
    /\ Owned(owner, uuidMap) /\ Owned(owner, uuidMapFile)
    /\ unsaved # "forgot" =>
        /\ Unique(owner)
        /\ running => Knows(owner, uuidMap)
        /\ unsaved = "no" => Knows(owner, uuidMapFile)

(* A uuid is generated, and the file is whatever is left of its writing.   *)
LEMMA OwnerGenerated ==
  ASSUME TypeInv, OwnerInv, NEW i \in Ids, NEW u \in Uuids, NEW map,
         running, Uuid(i) = NoUuid, owner[u] = Nobody, map = With(uuidMap, u, i),
         NEW o, o = [owner EXCEPT ![u] = i]
  PROVE  /\ Owned(o, map) /\ Owned(o, uuidMap) /\ Owned(o, uuidMapFile)
         /\ DOMAIN map = DOMAIN uuidMap \cup {u}
         /\ unsaved # "forgot" => Unique(o) /\ Knows(o, map)
<1> USE DEF TypeInv, TypeOK
<1>1. i # Nobody /\ owner \in [Uuids -> Ids \cup {Nobody}]
  BY IdsAssumption DEF IdsAssumption, BusOK
<1>2. /\ uuidMap \in Maps(Uuids, Ids) /\ uuidMapFile \in Maps(Uuids, Ids)
      /\ DOMAIN uuidMap \subseteq Uuids /\ DOMAIN uuidMapFile \subseteq Uuids
  BY MemberIs DEF ClientOK
<1>3. u \notin DOMAIN uuidMap /\ u \notin DOMAIN uuidMapFile
  <2>1. \A v \in DOMAIN uuidMap : uuidMap[v] # Nobody
    BY <1>2, MemberIs, IdsAssumption DEF IdsAssumption
  <2>2. \A v \in DOMAIN uuidMapFile : uuidMapFile[v] # Nobody
    BY <1>2, MemberIs, IdsAssumption DEF IdsAssumption
  <2> QED  BY <2>1, <2>2 DEF OwnerInv, Owned
<1>4. DOMAIN map = DOMAIN uuidMap \cup {u} /\ map[u] = i
      /\ \A v \in DOMAIN uuidMap : map[v] = uuidMap[v]
  BY <1>3 DEF With
<1>5. o[u] = i /\ \A v \in Uuids : v # u => o[v] = owner[v]
  BY <1>1
<1>6. Owned(o, map) /\ Owned(o, uuidMap) /\ Owned(o, uuidMapFile)
  BY <1>2, <1>3, <1>4, <1>5 DEF OwnerInv, Owned
<1>7. ASSUME unsaved # "forgot" PROVE Unique(o) /\ Knows(o, map)
  <2>1. Unique(owner) /\ Knows(owner, uuidMap)  BY <1>7 DEF OwnerInv
  <2>2. \A v \in DOMAIN uuidMap : uuidMap[v] # i
    BY <1>2, UuidIs DEF Uuid
  <2>3. \A v \in Uuids : v # u => o[v] # i
    BY <1>1, <1>5, <2>1, <2>2 DEF Knows, OwnerInv, Owned
  <2>4. Unique(o)
    BY <1>5, <2>1, <2>3 DEF Unique
  <2>5. Knows(o, map)
    BY <1>4, <1>5, <2>1 DEF Knows
  <2> QED  BY <2>4, <2>5
<1> QED  BY <1>4, <1>6, <1>7

LEMMA PartOwned ==
  ASSUME NEW o, NEW map \in Maps(Uuids, Ids), NEW part \in PartsOf(map), Owned(o, map)
  PROVE  Owned(o, part)
BY PartIs DEF Owned

LEMMA OwnerGenerate ==
  ASSUME TypeInv, OwnerInv, running, UNCHANGED running, NEW i \in Ids, Generate(i)
  PROVE  OwnerInv'
<1>1. PICK u \in Uuids : u = NewUuid /\ owner[u] = Nobody
  BY FreshIs DEF Generate, TypeInv, TypeOK
<1>2. PICK map : map = With(uuidMap, u, i)  OBVIOUS
<1>3. PICK o : o = [owner EXCEPT ![u] = i]  OBVIOUS
<1>4. uuidMap' = map /\ owner' = o /\ StoreUuidMap(map) /\ Uuid(i) = NoUuid
  BY <1>1, <1>2, <1>3 DEF Generate
<1>5. /\ Owned(o, map) /\ Owned(o, uuidMapFile)
      /\ unsaved # "forgot" => Unique(o) /\ Knows(o, map)
  BY <1>1, <1>2, <1>3, <1>4, OwnerGenerated
<1>6. map \in Maps(Uuids, Ids)
  BY <1>2, WithType DEF TypeInv, TypeOK, ClientOK
<1>7. /\ uuidMapFile' \in PartsOf(map) \cup {uuidMapFile, map}
      /\ unsaved' = Forget(map, uuidMapFile')
  BY <1>4 DEF StoreUuidMap
<1>8. Owned(o, uuidMapFile')
  BY <1>5, <1>6, <1>7, PartOwned
<1>9. unsaved' # "forgot" => unsaved # "forgot"
      /\ (unsaved' = "no" => DOMAIN map \subseteq DOMAIN uuidMapFile')
  BY <1>7 DEF Forget
<1> QED  BY <1>4, <1>5, <1>8, <1>9 DEF OwnerInv, Knows

LEMMA OwnerDie ==
  ASSUME TypeInv, OwnerInv, Die
  PROVE  OwnerInv'
<1>1. running' = FALSE /\ uuidMap' = EmptyMap /\ DOMAIN uuidMap' = {}
  BY EmptyMapIs DEF Die
<1>2. CASE UNCHANGED <<uuidMapFile, owner, unsaved>>
  BY <1>1, <1>2 DEF OwnerInv, Owned
<1>3. CASE \E a \in Callers, i \in Ids :
             /\ Free(a) /\ Uuid(i) = NoUuid /\ Fresh # {}
             /\ uuidMapFile' \in PartsOf(With(uuidMap, NewUuid, i))
             /\ owner' = IF NewUuid \in DOMAIN uuidMapFile'
                         THEN [owner EXCEPT ![NewUuid] = i] ELSE owner
             /\ unsaved' = Forget(uuidMap, uuidMapFile')
  <2>1. PICK i \in Ids :
          /\ Uuid(i) = NoUuid /\ Fresh # {}
          /\ uuidMapFile' \in PartsOf(With(uuidMap, NewUuid, i))
          /\ owner' = IF NewUuid \in DOMAIN uuidMapFile'
                      THEN [owner EXCEPT ![NewUuid] = i] ELSE owner
          /\ unsaved' = Forget(uuidMap, uuidMapFile')
    BY <1>3
  <2>2. PICK u \in Uuids : u = NewUuid /\ owner[u] = Nobody
    BY <2>1, FreshIs DEF TypeInv, TypeOK
  <2>3. PICK map : map = With(uuidMap, u, i)  OBVIOUS
  <2>4. PICK o : o = [owner EXCEPT ![u] = i]  OBVIOUS
  <2>5. /\ Owned(o, map) /\ DOMAIN map = DOMAIN uuidMap \cup {u}
        /\ unsaved # "forgot" => Unique(o) /\ Knows(o, map)
    BY <2>1, <2>2, <2>3, <2>4, OwnerGenerated DEF Die
  <2>6. map \in Maps(Uuids, Ids)
    BY <2>3, WithType DEF TypeInv, TypeOK, ClientOK
  <2>7. PICK file \in PartsOf(map) : file = uuidMapFile'
    BY <2>1, <2>2, <2>3
  <2>8. Owned(o, file) /\ DOMAIN file \subseteq Uuids /\ owner \in [Uuids -> Ids \cup {Nobody}]
    BY <2>5, <2>6, <2>7, PartOwned, PartIs, MemberIs DEF TypeInv, TypeOK, BusOK
  <2>9. unsaved' # "forgot" => unsaved # "forgot"
        /\ (unsaved' = "no" => DOMAIN uuidMap \subseteq DOMAIN file)
    BY <2>1, <2>7 DEF Forget
  <2>10. CASE u \in DOMAIN file /\ owner' = o
    <3>1. unsaved' = "no" => DOMAIN map \subseteq DOMAIN file
      BY <2>5, <2>9, <2>10
    <3> QED  BY <1>1, <2>5, <2>7, <2>8, <2>9, <2>10, <3>1 DEF OwnerInv, Owned, Knows
  <2>11. CASE u \notin DOMAIN file /\ owner' = owner
    <3>1. Owned(owner, file)
      BY <2>4, <2>8, <2>11 DEF Owned
    <3>2. unsaved # "forgot" => Unique(owner) /\ Knows(owner, uuidMap)
      BY DEF OwnerInv, Die
    <3> QED  BY <1>1, <2>7, <2>9, <2>11, <3>1, <3>2 DEF OwnerInv, Owned, Knows
  <2> QED  BY <2>1, <2>2, <2>4, <2>7, <2>10, <2>11
<1> QED  BY <1>2, <1>3 DEF Die

LEMMA OwnerStep == TypeInv /\ OwnerInv /\ [Next]_vars => OwnerInv'
<1> SUFFICES ASSUME TypeInv, OwnerInv, [Next]_vars PROVE OwnerInv'  OBVIOUS
<1>1. CASE UNCHANGED <<uuidMap, uuidMapFile, owner, unsaved, running>>
  BY <1>1 DEF OwnerInv, Owned, Unique, Knows
<1>2. ASSUME NEW a \in Callers, NEW i \in Ids, NEW n \in InitialNames, AddDevice(a, i, n)
      PROVE  OwnerInv'
  <2>1. CASE Generate(i)
    BY <1>2, <2>1, OwnerGenerate DEF AddDevice, Free
  <2>2. CASE ~Generate(i)
    BY <1>1, <1>2, <2>2 DEF AddDevice, uuids
  <2> QED  BY <2>1, <2>2
<1>3. CASE Die  BY <1>3, OwnerDie
<1>4. CASE Start
  BY <1>4 DEF Start, OwnerInv, Owned, Unique, Knows, TypeInv, TypeOK, ClientOK
<1>5. CASE UNCHANGED client /\ UNCHANGED owner /\ UNCHANGED running
  BY <1>1, <1>5 DEF client
<1>6. ASSUME UNCHANGED client, ResolverNext PROVE UNCHANGED owner /\ UNCHANGED running
  BY <1>6 DEF ResolverNext, Receive, DiscoverFunction, StaleFunction, Check, EndScan, Crash, SetupApp,
    SetDeviceName, DeleteDeviceName, DeleteDevice, Expire, SetDeviceParameters, bus
<1>7. ASSUME ClientNext, ~Die, ~Start,
             \A a \in Callers, i \in Ids, n \in InitialNames : ~AddDevice(a, i, n)
      PROVE UNCHANGED <<uuidMap, uuidMapFile, owner, unsaved, running>>
  <2>1. ASSUME NEW a, NEW i, RemoveDevice(a, i) \/ EmitEvent(a, i) PROVE UNCHANGED uuids
    BY <2>1 DEF RemoveDevice, EmitEvent, client, uuids
  <2>2. ASSUME NEW a, NEW i, NEW op, SetStale(a, i, op) PROVE UNCHANGED uuids
    BY <2>2 DEF SetStale
  <2>3. ASSUME NEW a, Proceed(a) PROVE UNCHANGED uuids
    <3>1. InsertDevice(a) => UNCHANGED uuids  BY DEF InsertDevice
    <3>2. EmitDeviceAnnounce(a) => UNCHANGED uuids  BY DEF EmitDeviceAnnounce
    <3>3. EraseDevice(a) => UNCHANGED uuids  BY DEF EraseDevice
    <3>4. MarkStale(a) => UNCHANGED uuids  BY DEF MarkStale
    <3>5. EmitDeviceStale(a) => UNCHANGED uuids  BY DEF EmitDeviceStale
    <3> QED  BY <2>3, <3>1, <3>2, <3>3, <3>4, <3>5 DEF Proceed
  <2>4. HandleDiscover => UNCHANGED uuids  BY DEF HandleDiscover
  <2>5. VisitDevice => UNCHANGED uuids  BY DEF VisitDevice
  <2>6. EmitDeviceDiscover => UNCHANGED uuids  BY DEF EmitDeviceDiscover
  <2>7. UNCHANGED uuids
    BY <1>7, <2>1, <2>2, <2>3, <2>4, <2>5, <2>6 DEF ClientNext
  <2> QED  BY <1>7, <2>7, ClientRuns DEF uuids
<1> QED
  BY <1>1, <1>2, <1>3, <1>4, <1>5, <1>6, <1>7 DEF Next, Lose, LoseDiscover, vars, client, bus

-----------------------------------------------------------------------------
(***************************************************************************)
(* Names: a device the user has named has one of the names to expect in    *)
(* the database, in the inventory and in its file.                         *)
(***************************************************************************)
Named(g, map) == \A u \in DOMAIN map : g[u] # {} => map[u].name \in g[u]
Kept(g, db)   == \A u \in Uuids : g[u] # {} => db[u] \in g[u]

NamesInv ==
    /\ ~Persistence => DOMAIN devicesFile = {}
    /\ Kept(given, names) /\ Named(given, inventory) /\ Named(given, devicesFile)

LEMMA NamedWith ==
  ASSUME NEW g, NEW map, NEW u, NEW d, NEW new,
         Named(g, map), new = With(map, u, d), g[u] # {} => d.name \in g[u]
  PROVE  Named(g, new)
BY DEF Named, With

LEMMA NamedWithout ==
  ASSUME NEW g, NEW map, NEW u, NEW new, Named(g, map), new = Without(map, u)
  PROVE  Named(g, new) /\ u \notin DOMAIN new
BY DEF Named, Without, Restrict

(* A member other than the name.                                           *)
LEMMA SameName ==
  ASSUME NEW d \in Devices
  PROVE  /\ \A n : [d EXCEPT !["name"] = n].name = n
         /\ \A b : [d EXCEPT !["stale"] = b].name = d.name
         /\ \A b : [d EXCEPT !["heard"] = b].name = d.name
         /\ \A a, b : [d EXCEPT !.timeout = a, !.heard = b].name = d.name
BY DEF Devices

LEMMA NamedSaved ==
  ASSUME NamesInv, Named(given', inventory'), Kept(given', names'),
         SaveDevicemap \/ (UNCHANGED devicesFile /\ Named(given', devicesFile))
  PROVE  NamesInv'
<1>1. CASE Persistence /\ SaveDevicemap
  BY <1>1 DEF NamesInv, SaveDevicemap
<1>2. CASE ~Persistence /\ UNCHANGED devicesFile
  BY <1>2 DEF NamesInv, Named
<1>3. CASE UNCHANGED devicesFile /\ Named(given', devicesFile)
  BY <1>3 DEF NamesInv
<1> QED  BY <1>1, <1>2, <1>3 DEF SaveDevicemap

LEMMA NamesReceive ==
  ASSUME TypeInv, NamesInv, Receive
  PROVE  NamesInv'
<1> USE DEF TypeInv, TypeOK
<1>1. PICK m : m = Head(inbox)  OBVIOUS
<1>2. /\ AnnounceEvent(m) \/ RemoveEvent(m) \/ HandleEvent(m)
      /\ UNCHANGED <<names, given>>
  BY <1>1 DEF Receive
<1>3. m.uuid \in Uuids
  <2>1. m \in Messages  BY <1>1, TailIs DEF Receive, BusOK
  <2> QED  BY <2>1 DEF Messages
<1>4. Named(given, inventory) /\ Named(given, devicesFile) /\ Kept(given, names)
  BY DEF NamesInv
<1>5. CASE AnnounceEvent(m)
  <2>1. given[m.uuid] # {} => NameFor(m) \in given[m.uuid]
    BY <1>3, <1>4, NamesAssumption DEF NamesAssumption, NameFor, Kept, ResolverOK
  <2>2. PICK n : n = NameFor(m)  OBVIOUS
  <2>3. PICK d : inventory' = With(inventory, m.uuid, d) /\ d.name = n
    <3>1. CASE Listed(m.uuid)
      <4>1. PICK d : d = [inventory[m.uuid] EXCEPT !["name"] = n]  OBVIOUS
      <4>2. d.name = n  BY <3>1, <4>1, DeviceIs, SameName
      <4> QED  BY <1>5, <2>2, <3>1, <4>1, <4>2 DEF AnnounceEvent, Set
    <3>2. CASE ~Listed(m.uuid)
      <4>1. NewDevice(n).name = n  BY DEF NewDevice
      <4> QED  BY <1>5, <2>2, <3>2, <4>1 DEF AnnounceEvent
    <3> QED  BY <3>1, <3>2
  <2>4. Named(given, inventory')
    BY <1>4, <2>1, <2>2, <2>3, NamedWith
  <2> QED  BY <1>2, <1>4, <1>5, <2>4, NamedSaved DEF AnnounceEvent
<1>6. CASE RemoveEvent(m)
  <2>1. Named(given, inventory')
    BY <1>4, <1>6, NamedWithout DEF RemoveEvent
  <2> QED  BY <1>2, <1>4, <1>6, <2>1, NamedSaved DEF RemoveEvent, SaveIf
<1>7. CASE HandleEvent(m)
  <2>1. Named(given, inventory')
    <3>1. CASE Listed(m.uuid)
      <4>1. PICK d : d = [inventory[m.uuid] EXCEPT !["heard"] = TRUE]  OBVIOUS
      <4>2. d.name = inventory[m.uuid].name  BY <3>1, <4>1, DeviceIs, SameName
      <4>3. inventory' = With(inventory, m.uuid, d)
        BY <1>7, <3>1, <4>1 DEF HandleEvent, Set
      <4>4. given[m.uuid] # {} => d.name \in given[m.uuid]
        BY <1>4, <3>1, <4>2 DEF Named, Listed
      <4> QED  BY <1>4, <4>3, <4>4, NamedWith
    <3>2. CASE ~Listed(m.uuid)
      BY <1>4, <1>7, <3>2 DEF HandleEvent
    <3> QED  BY <3>1, <3>2
  <2> QED  BY <1>2, <1>4, <1>7, <2>1, NamedSaved DEF HandleEvent, SaveIf
<1> QED  BY <1>2, <1>5, <1>6, <1>7

LEMMA NamesSetDeviceName ==
  ASSUME TypeInv, NamesInv, NEW u \in Uuids, NEW n \in Names, SetDeviceName(u, n)
  PROVE  NamesInv'
<1> USE DEF TypeInv, TypeOK
<1>1. Named(given, inventory) /\ Named(given, devicesFile) /\ Kept(given, names)
      /\ given \in [Uuids -> SUBSET Names] /\ names \in [Uuids -> Names \cup {NoName}]
      /\ DOMAIN inventory \subseteq Uuids
  BY MemberIs DEF NamesInv, ResolverOK
<1>2. /\ names' = [names EXCEPT ![u] = n] /\ names'[u] = n
      /\ given' = [given EXCEPT ![u] = {n}] /\ SaveDevicemap
  BY <1>1 DEF SetDeviceName
<1>3. Kept(given', names')
  BY <1>1, <1>2 DEF Kept
<1>4. CASE Listed(u)
  <2>1. PICK d : d = [inventory[u] EXCEPT !["name"] = n]  OBVIOUS
  <2>2. d.name = n  BY <1>4, <2>1, DeviceIs, SameName
  <2>3. inventory' = With(inventory, u, d)
    BY <1>2, <1>4, <2>1 DEF SetDeviceName, Set
  <2>4. Named(given', inventory')
    BY <1>1, <1>2, <2>2, <2>3 DEF Named, With
  <2> QED  BY <1>2, <1>3, <2>4, NamedSaved
<1>5. CASE ~Listed(u)
  <2>1. inventory' = inventory  BY <1>5 DEF SetDeviceName
  <2>2. Named(given', inventory')
    BY <1>1, <1>2, <1>5, <2>1 DEF Named, Listed
  <2> QED  BY <1>2, <1>3, <2>2, NamedSaved
<1> QED  BY <1>4, <1>5

(* A name or a device is deleted: nothing is expected any more.            *)
LEMMA NamesDeleted ==
  ASSUME TypeInv, NamesInv, NEW u \in Uuids,
         names' = [names EXCEPT ![u] = NoName], given' = [given EXCEPT ![u] = {}]
  PROVE  Kept(given', names') /\ Named(given', inventory) /\ Named(given', devicesFile)
<1>1. given \in [Uuids -> SUBSET Names] /\ names \in [Uuids -> Names \cup {NoName}]
      /\ DOMAIN inventory \subseteq Uuids /\ DOMAIN devicesFile \subseteq Uuids
  BY MemberIs DEF TypeInv, TypeOK, ResolverOK
<1> QED  BY <1>1 DEF NamesInv, Kept, Named

LEMMA NamesDelete ==
  ASSUME TypeInv, NamesInv, NEW u \in Uuids, DeleteDeviceName(u) \/ DeleteDevice(u)
  PROVE  NamesInv'
<1>1. Kept(given', names') /\ Named(given', inventory) /\ Named(given', devicesFile)
  BY NamesDeleted DEF DeleteDeviceName, DeleteDevice
<1>2. CASE DeleteDeviceName(u)
  BY <1>1, <1>2, NamedSaved DEF DeleteDeviceName
<1>3. CASE DeleteDevice(u)
  <2>1. PICK g : g = given'  OBVIOUS
  <2>2. Named(g, inventory')
    BY <1>1, <1>3, <2>1, NamedWithout DEF DeleteDevice
  <2> QED  BY <1>1, <1>3, <2>1, <2>2, NamedSaved DEF DeleteDevice, SaveIf
<1> QED  BY <1>2, <1>3

(* A member other than the name is set.                                    *)
LEMMA NamesSet ==
  ASSUME TypeInv, NamesInv, NEW u, Listed(u), NEW d, inventory' = With(inventory, u, d),
         d.name = inventory[u].name, UNCHANGED <<names, given>>, SaveDevicemap \/ UNCHANGED devicesFile
  PROVE  NamesInv'
<1>1. given[u] # {} => d.name \in given[u]
  BY DEF NamesInv, Named, Listed
<1>2. Named(given, inventory')
  BY <1>1, NamedWith DEF NamesInv
<1> QED  BY <1>2, NamedSaved DEF NamesInv

LEMMA NamesCrash ==
  ASSUME TypeInv, NamesInv, Crash
  PROVE  NamesInv'
<1> USE DEF TypeInv, TypeOK
<1>1. /\ given \in [Uuids -> SUBSET Names] /\ names \in [Uuids -> Names \cup {NoName}]
      /\ inventory \in Maps(Uuids, Devices) /\ DOMAIN inventory \subseteq Uuids
      /\ DOMAIN devicesFile \subseteq Uuids
  BY MemberIs DEF ResolverOK
<1>2. /\ Kept(given', names')
      /\ \A u \in Uuids : given[u] \subseteq given'[u] /\ (given'[u] # {} => given[u] # {})
  <2>1. CASE UNCHANGED <<names, given>>
    BY <2>1 DEF NamesInv, Kept
  <2>2. CASE \E u \in Uuids, n \in UserNames :
               /\ names' = [names EXCEPT ![u] = n]
               /\ given' = [given EXCEPT ![u] = IF @ = {} THEN {} ELSE @ \cup {n}]
    BY <1>1, <2>2 DEF NamesInv, Kept
  <2> QED  BY <2>1, <2>2 DEF Crash
<1>3. Named(given', inventory) /\ Named(given', devicesFile)
  BY <1>1, <1>2 DEF NamesInv, Named
<1>4. Named(given', devicesFile') /\ (~Persistence => DOMAIN devicesFile' = {})
  <2>1. CASE UNCHANGED devicesFile  BY <1>3, <2>1 DEF NamesInv
  <2>2. CASE Persistence /\ devicesFile' \in PartsOf(inventory)
    <3>1. PICK f \in PartsOf(inventory) : f = devicesFile'  BY <2>2
    <3>2. DOMAIN f \subseteq DOMAIN inventory /\ \A y \in DOMAIN f : f[y] = inventory[y]
      BY <1>1, <3>1, PartIs
    <3> QED  BY <1>3, <2>2, <3>1, <3>2 DEF Named
  <2> QED  BY <2>1, <2>2 DEF Crash
<1>5. Named(given', inventory')
  BY EmptyMapIs DEF Crash, Named
<1> QED  BY <1>2, <1>4, <1>5 DEF NamesInv

LEMMA NamesStep == TypeInv /\ NamesInv /\ [Next]_vars => NamesInv'
<1> SUFFICES ASSUME TypeInv, NamesInv, [Next]_vars PROVE NamesInv'  OBVIOUS
<1>1. CASE UNCHANGED <<inventory, devicesFile, names, given>>
  BY <1>1 DEF NamesInv, Named, Kept
<1>2. CASE UNCHANGED resolver  BY <1>1, <1>2 DEF resolver
<1>3. CASE Receive  BY <1>3, NamesReceive
<1>4. ASSUME NEW u \in Uuids, NEW n \in UserNames, SetDeviceName(u, n) PROVE NamesInv'
  BY <1>4, NamesSetDeviceName, UsersAssumption DEF UsersAssumption
<1>5. ASSUME NEW u \in Uuids, DeleteDeviceName(u) \/ DeleteDevice(u) PROVE NamesInv'
  BY <1>5, NamesDelete
<1>6. ASSUME NEW u \in Uuids, Expire(u) PROVE NamesInv'
  <2>1. PICK d : d = [inventory[u] EXCEPT !["heard"] = FALSE]  OBVIOUS
  <2>2. d.name = inventory[u].name
    BY <1>6, <2>1, DeviceIs, SameName DEF Expire, TypeInv, TypeOK
  <2> QED  BY <1>6, <2>1, <2>2, NamesSet DEF Expire, Set
<1>7. ASSUME NEW u \in Uuids, NEW timeout, SetDeviceParameters(u, timeout) PROVE NamesInv'
  <2>1. PICK d, heard : d = [inventory[u] EXCEPT !.timeout = timeout, !.heard = heard]
                        /\ inventory' = With(inventory, u, d)
    BY <1>7 DEF SetDeviceParameters
  <2>2. d.name = inventory[u].name
    BY <1>7, <2>1, DeviceIs, SameName DEF SetDeviceParameters, TypeInv, TypeOK
  <2> QED  BY <1>7, <2>1, <2>2, NamesSet DEF SetDeviceParameters
<1>8. CASE Check
  <2>1. PICK u \in scan : \/ Listed(u) /\ inventory' = Set(u, "stale", Silent(u))
                          \/ UNCHANGED inventory
    BY <1>8 DEF Check
  <2>2. CASE UNCHANGED inventory
    BY <1>1, <1>8, <2>2 DEF Check
  <2>3. CASE Listed(u) /\ inventory' = Set(u, "stale", Silent(u))
    <3>1. PICK d, silent : silent = Silent(u) /\ d = [inventory[u] EXCEPT !["stale"] = silent]  OBVIOUS
    <3>2. d.name = inventory[u].name
      BY <2>3, <3>1, DeviceIs, SameName DEF TypeInv, TypeOK
    <3> QED  BY <1>8, <2>3, <3>1, <3>2, NamesSet DEF Check, Set
  <2> QED  BY <2>1, <2>2, <2>3
<1>9. CASE EndScan
  BY <1>9, NamedSaved DEF EndScan, SaveIf, NamesInv
<1>10. CASE Crash  BY <1>10, NamesCrash
<1>11. CASE SetupApp
  <2>1. Named(given, inventory')
    BY <1>11, EmptyMapIs DEF SetupApp, NamesInv, Named
  <2> QED  BY <1>11, <2>1, NamedSaved DEF SetupApp, NamesInv
<1>12. CASE DiscoverFunction \/ StaleFunction
  BY <1>1, <1>12 DEF DiscoverFunction, StaleFunction, resolver
<1> QED
  BY <1>2, <1>3, <1>4, <1>5, <1>6, <1>7, <1>8, <1>9, <1>10, <1>11, <1>12
  DEF Next, ResolverNext, vars

-----------------------------------------------------------------------------
LEMMA HistoryInit == Init => OwnerInv /\ NamesInv
<1> SUFFICES ASSUME Init PROVE OwnerInv /\ NamesInv  OBVIOUS
<1>1. DOMAIN EmptyMap = {}  BY EmptyMapIs
<1>2. OwnerInv
  BY <1>1 DEF Init, ClientInit, OwnerInv, Owned, Unique, Knows
<1>3. NamesInv
  BY <1>1 DEF Init, ResolverInit, NamesInv, Named, Kept
<1> QED  BY <1>2, <1>3

LEMMA HistoryInvariant == Spec => [](TypeInv /\ OwnerInv /\ NamesInv)
BY TypeInit, TypeStep, HistoryInit, OwnerStep, NamesStep, PTL DEF Spec

(* The name the user has given is the one a device is listed with, whatever *)
(* was announced, reported, lost or restarted, for any number of devices:  *)
(* the process finds the device's own uuid, the resolver that uuid's name. *)
THEOREM NameFollowsDeviceCorrect == Spec => []NameFollowsDevice
<1>1. TypeInv /\ OwnerInv /\ NamesInv => NameFollowsDevice
  <2> SUFFICES ASSUME TypeInv, OwnerInv, NamesInv, NEW u \in Uuids, given[u] # {},
                      owner[u] # Nobody, unsaved # "forgot", NEW v, v = Uuid(owner[u]),
                      v # NoUuid, Listed(v)
               PROVE  inventory[v].name \in given[u]
    BY DEF NameFollowsDevice
  <2>1. v \in DOMAIN uuidMap /\ v \in Uuids /\ uuidMap[v] = owner[u]
    BY UuidIs DEF TypeInv, TypeOK, ClientOK, Uuid
  <2>2. v = u
    BY <2>1 DEF OwnerInv, Owned, Unique
  <2> QED  BY <2>2 DEF NamesInv, Named, Listed
<1> QED  BY <1>1, HistoryInvariant, PTL

-----------------------------------------------------------------------------
(***************************************************************************)
(* Removals: what is listed, and what an announcement or a report under    *)
(* way will list, is in use or going to be removed.                        *)
(***************************************************************************)
Accounted == InUse \cup missed
IsAddition(m) == m.kind \in {"announce", "discover"}

QueueOK(q, used) ==
    \A k \in 1..Len(q) : IsAddition(q[k]) =>
        \/ q[k].uuid \in used
        \/ \E l \in 1..Len(q) : k < l /\ q[l].kind = "remove" /\ q[l].uuid = q[k].uuid

GhostInv ==
    /\ DOMAIN inventory \cup DOMAIN devicesFile \subseteq Accounted \cup Removals(inbox)
    /\ up => DOMAIN devicesFile \subseteq DOMAIN inventory
    /\ QueueOK(inbox, Accounted)

RemovedBy(m) == IF m.kind = "remove" THEN {m.uuid} ELSE {}

LEMMA RemovalsAre ==
  ASSUME NEW q \in Seq(Messages), NEW u
  PROVE  u \in Removals(q) <=> \E k \in 1..Len(q) : q[k].kind = "remove" /\ q[k].uuid = u
BY DEF Removals, About

LEMMA AdditionsAre ==
  ASSUME NEW q \in Seq(Messages), NEW u
  PROVE  u \in Additions(q) <=> \E k \in 1..Len(q) : IsAddition(q[k]) /\ q[k].uuid = u
BY DEF Additions, About, IsAddition

LEMMA RemovalsOfOne ==
  ASSUME NEW m \in Messages
  PROVE  Removals(<<m>>) = RemovedBy(m)
<1>0. <<m>> \in Seq(Messages)  OBVIOUS
<1>1. PICK q \in Seq(Messages) : q = <<m>>  BY <1>0
<1>2. Len(q) = 1 /\ q[1] = m  BY <1>1
<1>3. ASSUME NEW u, u \in Removals(q) PROVE u \in RemovedBy(m)
  <2>1. PICK k \in 1..Len(q) : q[k].kind = "remove" /\ q[k].uuid = u  BY <1>3, RemovalsAre
  <2>2. k = 1  BY <1>2
  <2> QED  BY <1>2, <2>1, <2>2 DEF RemovedBy
<1>4. ASSUME NEW u, u \in RemovedBy(m) PROVE u \in Removals(q)
  <2>1. m.kind = "remove" /\ m.uuid = u  BY <1>4 DEF RemovedBy
  <2>2. 1 \in 1..Len(q)  BY <1>2
  <2> QED  BY <1>2, <2>1, <2>2, RemovalsAre
<1> QED  BY <1>1, <1>3, <1>4

LEMMA RemovalsAppend ==
  ASSUME NEW q \in Seq(Messages), NEW m \in Messages, NEW r, r = Append(q, m)
  PROVE  Removals(r) = Removals(q) \cup RemovedBy(m)
<1>1. /\ r \in Seq(Messages) /\ Len(q) \in Nat /\ Len(r) = Len(q) + 1
      /\ \A k \in 1..Len(q) : r[k] = q[k]
  BY AppendIs
<1>2. r[Len(q) + 1] = m /\ Len(q) + 1 \in 1..Len(r)
  BY <1>1, AppendIs
<1>3. ASSUME NEW u, u \in Removals(r) PROVE u \in Removals(q) \cup RemovedBy(m)
  <2>1. PICK k \in 1..Len(r) : r[k].kind = "remove" /\ r[k].uuid = u  BY <1>1, <1>3, RemovalsAre
  <2>2. CASE k = Len(q) + 1  BY <1>2, <2>1, <2>2 DEF RemovedBy
  <2>3. CASE k \in 1..Len(q)
    <3>1. q[k].kind = "remove" /\ q[k].uuid = u  BY <1>1, <2>1, <2>3
    <3> QED  BY <2>3, <3>1, RemovalsAre
  <2> QED  BY <1>1, <2>2, <2>3
<1>4. ASSUME NEW u, u \in Removals(q) PROVE u \in Removals(r)
  <2>1. PICK k \in 1..Len(q) : q[k].kind = "remove" /\ q[k].uuid = u  BY <1>4, RemovalsAre
  <2>2. k \in 1..Len(r) /\ r[k] = q[k]  BY <1>1
  <2> QED  BY <1>1, <2>1, <2>2, RemovalsAre
<1>5. ASSUME NEW u, u \in RemovedBy(m) PROVE u \in Removals(r)
  <2>1. m.kind = "remove" /\ m.uuid = u  BY <1>5 DEF RemovedBy
  <2>2. \E k \in 1..Len(r) : r[k].kind = "remove" /\ r[k].uuid = u
    BY <1>2, <2>1
  <2> QED  BY <1>1, <2>2, RemovalsAre
<1> QED  BY <1>3, <1>4, <1>5

LEMMA RemovalsTail ==
  ASSUME NEW q \in Seq(Messages), q # <<>>
  PROVE  Removals(q) = RemovedBy(Head(q)) \cup Removals(Tail(q))
<1>1. PICK t : t = Tail(q)  OBVIOUS
<1>2. /\ t \in Seq(Messages) /\ Len(q) \in Nat \ {0} /\ Len(t) = Len(q) - 1
      /\ Head(q) = q[1] /\ \A k \in 1..Len(t) : t[k] = q[k + 1]
  BY <1>1, TailIs
<1>3. \A u : u \in Removals(q) => u \in RemovedBy(Head(q)) \cup Removals(t)
  <2> SUFFICES ASSUME NEW u, u \in Removals(q) PROVE u \in RemovedBy(Head(q)) \cup Removals(t)
    OBVIOUS
  <2>1. PICK k \in 1..Len(q) : q[k].kind = "remove" /\ q[k].uuid = u  BY RemovalsAre
  <2>2. CASE k = 1  BY <1>2, <2>1, <2>2 DEF RemovedBy
  <2>3. CASE k # 1
    <3>1. k - 1 \in 1..Len(t) /\ t[k - 1] = q[k]  BY <1>2, <2>3
    <3> QED  BY <1>2, <2>1, <3>1, RemovalsAre
  <2> QED  BY <2>2, <2>3
<1>4. \A u : u \in RemovedBy(Head(q)) => u \in Removals(q)
  BY <1>2, RemovalsAre DEF RemovedBy
<1>5. \A u : u \in Removals(t) => u \in Removals(q)
  <2> SUFFICES ASSUME NEW u, u \in Removals(t) PROVE u \in Removals(q)  OBVIOUS
  <2>1. PICK k \in 1..Len(t) : t[k].kind = "remove" /\ t[k].uuid = u  BY <1>2, RemovalsAre
  <2>2. k + 1 \in 1..Len(q) /\ q[k + 1] = t[k]  BY <1>2
  <2> QED  BY <2>1, <2>2, RemovalsAre
<1> QED  BY <1>1, <1>3, <1>4, <1>5

(* A message is put into the queue: what stops being used must be what it  *)
(* removes, and what it adds must be in use.                               *)
LEMMA QueueAppend ==
  ASSUME NEW q \in Seq(Messages), NEW m \in Messages, NEW r, r = Append(q, m),
         NEW used, NEW now, QueueOK(q, used), used \subseteq now \cup RemovedBy(m),
         IsAddition(m) => m.uuid \in now
  PROVE  QueueOK(r, now)
<1>1. /\ r \in Seq(Messages) /\ Len(q) \in Nat /\ Len(r) = Len(q) + 1
      /\ \A k \in 1..Len(q) : r[k] = q[k]
  BY AppendIs
<1>2. r[Len(q) + 1] = m
  BY AppendIs
<1> SUFFICES ASSUME NEW k \in 1..Len(r), IsAddition(r[k])
             PROVE  \/ r[k].uuid \in now
                    \/ \E l \in 1..Len(r) : k < l /\ r[l].kind = "remove" /\ r[l].uuid = r[k].uuid
  BY DEF QueueOK
<1>3. CASE k = Len(q) + 1
  BY <1>2, <1>3
<1>4. CASE k \in 1..Len(q)
  <2>1. r[k] = q[k]  BY <1>1, <1>4
  <2>2. CASE \E l \in 1..Len(q) : k < l /\ q[l].kind = "remove" /\ q[l].uuid = q[k].uuid
    <3>1. PICK l \in 1..Len(q) : k < l /\ q[l].kind = "remove" /\ q[l].uuid = q[k].uuid  BY <2>2
    <3>2. l \in 1..Len(r) /\ r[l] = q[l]  BY <1>1
    <3> QED  BY <2>1, <3>1, <3>2
  <2>3. CASE q[k].uuid \in used
    <3>1. CASE q[k].uuid \in now  BY <2>1, <3>1
    <3>2. CASE m.kind = "remove" /\ q[k].uuid = m.uuid
      <4>1. Len(q) + 1 \in 1..Len(r) /\ k < Len(q) + 1  BY <1>1, <1>4
      <4> QED  BY <1>2, <2>1, <3>2, <4>1
    <3> QED  BY <2>3, <3>1, <3>2 DEF RemovedBy
  <2> QED  BY <1>4, <2>1, <2>2, <2>3 DEF QueueOK
<1> QED  BY <1>1, <1>3, <1>4

(* The first message is taken.                                             *)
LEMMA QueueTail ==
  ASSUME NEW q \in Seq(Messages), q # <<>>, NEW used, NEW now, QueueOK(q, used),
         used \cap Additions(Tail(q)) \subseteq now
  PROVE  /\ QueueOK(Tail(q), now)
         /\ IsAddition(Head(q)) => Head(q).uuid \in used \cup Removals(Tail(q))
<1>1. PICK t : t = Tail(q)  OBVIOUS
<1>2. /\ t \in Seq(Messages) /\ Len(q) \in Nat \ {0} /\ Len(t) = Len(q) - 1
      /\ Head(q) = q[1] /\ \A k \in 1..Len(t) : t[k] = q[k + 1]
  BY <1>1, TailIs
<1>3. ASSUME NEW k \in 1..Len(t), IsAddition(t[k])
      PROVE  \/ t[k].uuid \in now
             \/ \E l \in 1..Len(t) : k < l /\ t[l].kind = "remove" /\ t[l].uuid = t[k].uuid
  <2>1. k + 1 \in 1..Len(q) /\ t[k] = q[k + 1]  BY <1>2
  <2>2. CASE q[k + 1].uuid \in used
    <3>1. t[k].uuid \in Additions(t)  BY <1>2, <1>3, AdditionsAre
    <3> QED  BY <1>1, <2>1, <2>2, <3>1
  <2>3. CASE \E l \in 1..Len(q) : k + 1 < l /\ q[l].kind = "remove" /\ q[l].uuid = q[k + 1].uuid
    <3>1. PICK l \in 1..Len(q) : k + 1 < l /\ q[l].kind = "remove" /\ q[l].uuid = q[k + 1].uuid
      BY <2>3
    <3>2. l - 1 \in 1..Len(t) /\ k < l - 1 /\ t[l - 1] = q[l]  BY <1>2, <3>1
    <3> QED  BY <2>1, <3>1, <3>2
  <2> QED  BY <1>3, <2>1, <2>2, <2>3 DEF QueueOK
<1>4. ASSUME IsAddition(q[1]) PROVE q[1].uuid \in used \cup Removals(t)
  <2>1. 1 \in 1..Len(q)  BY <1>2
  <2>2. CASE \E l \in 1..Len(q) : 1 < l /\ q[l].kind = "remove" /\ q[l].uuid = q[1].uuid
    <3>1. PICK l \in 1..Len(q) : 1 < l /\ q[l].kind = "remove" /\ q[l].uuid = q[1].uuid  BY <2>2
    <3>2. l - 1 \in 1..Len(t) /\ t[l - 1] = q[l]  BY <1>2, <3>1
    <3> QED  BY <1>2, <3>1, <3>2, RemovalsAre
  <2> QED  BY <1>4, <2>1, <2>2 DEF QueueOK
<1> QED  BY <1>1, <1>2, <1>3, <1>4 DEF QueueOK

(* The file of the device map is written or not, and lists no more than    *)
(* the inventory while the resolver is up.                                 *)
LEMMA FileListed ==
  ASSUME GhostInv, NamesInv, UNCHANGED up, DOMAIN inventory' = DOMAIN inventory,
         SaveDevicemap \/ UNCHANGED devicesFile
  PROVE  /\ DOMAIN inventory' \cup DOMAIN devicesFile' \subseteq DOMAIN inventory \cup DOMAIN devicesFile
         /\ up' => DOMAIN devicesFile' \subseteq DOMAIN inventory'
<1>1. CASE Persistence /\ SaveDevicemap  BY <1>1 DEF SaveDevicemap
<1>2. CASE UNCHANGED devicesFile  BY <1>2 DEF GhostInv
<1> QED  BY <1>1, <1>2 DEF SaveDevicemap

(* A message is sent, and no more is listed than before.                   *)
LEMMA GhostSend ==
  ASSUME TypeInv, GhostInv, NEW m \in Messages, Send(m), UNCHANGED up,
         DOMAIN inventory' \cup DOMAIN devicesFile' \subseteq DOMAIN inventory \cup DOMAIN devicesFile,
         up' => DOMAIN devicesFile' \subseteq DOMAIN inventory',
         up => Accounted \subseteq Accounted' \cup RemovedBy(m),
         ~up => Accounted \subseteq Accounted',
         up /\ IsAddition(m) => m.uuid \in Accounted'
  PROVE  GhostInv'
<1>0. inbox \in Seq(Messages)  BY DEF TypeInv, TypeOK, BusOK
<1>1. PICK now : now = Accounted'  OBVIOUS
<1>2. CASE up
  <2>1. inbox' = Append(inbox, m)
    BY <1>2 DEF Send
  <2>2. PICK r : r = Append(inbox, m)  OBVIOUS
  <2>3. Removals(r) = Removals(inbox) \cup RemovedBy(m)
    BY <1>0, <2>2, RemovalsAppend
  <2>4. QueueOK(r, now)
    <3>1. PICK used : used = Accounted  OBVIOUS
    <3>2. QueueOK(inbox, used) /\ used \subseteq now \cup RemovedBy(m)
          /\ (IsAddition(m) => m.uuid \in now)
      BY <1>1, <1>2, <3>1 DEF GhostInv
    <3> QED  BY <1>0, <2>2, <3>2, QueueAppend
  <2>5. Removals(inbox') = Removals(inbox) \cup RemovedBy(m) /\ QueueOK(inbox', now)
    BY <2>1, <2>2, <2>3, <2>4
  <2>6. DOMAIN inventory' \cup DOMAIN devicesFile' \subseteq now \cup Removals(inbox')
    BY <1>1, <1>2, <2>5 DEF GhostInv
  <2> QED  BY <1>1, <2>5, <2>6 DEF GhostInv
<1>3. CASE ~up
  <2>1. inbox = <<>> /\ inbox' = <<>> /\ Removals(<<>>) = {}
    BY <1>3 DEF TypeInv, DownInv, Send, Removals, About
  <2>2. QueueOK(<<>>, now)  BY DEF QueueOK
  <2> QED  BY <1>1, <1>3, <2>1, <2>2 DEF GhostInv
<1> QED  BY <1>2, <1>3

(* What was accounted for still is.                                        *)
LEMMA QueueGrows ==
  ASSUME NEW q, NEW used, NEW now, QueueOK(q, used), used \subseteq now
  PROVE  QueueOK(q, now)
BY DEF QueueOK

LEMMA GhostQuiet ==
  ASSUME GhostInv, UNCHANGED inbox, Accounted \subseteq Accounted',
         DOMAIN inventory' \cup DOMAIN devicesFile' \subseteq DOMAIN inventory \cup DOMAIN devicesFile,
         up' => DOMAIN devicesFile' \subseteq DOMAIN inventory'
  PROVE  GhostInv'
<1>1. PICK used, now : used = Accounted /\ now = Accounted'  OBVIOUS
<1>2. QueueOK(inbox, now)
  BY <1>1, QueueGrows DEF GhostInv
<1> QED  BY <1>1, <1>2 DEF GhostInv

(* An event about a device.                                                *)
LEMMA GhostEvent ==
  ASSUME TypeInv, GhostInv, NEW u \in Uuids, Publish(Event(u)), UNCHANGED up,
         InUse \subseteq InUse',
         DOMAIN inventory' \cup DOMAIN devicesFile' \subseteq DOMAIN inventory \cup DOMAIN devicesFile,
         up' => DOMAIN devicesFile' \subseteq DOMAIN inventory'
  PROVE  GhostInv'
<1>1. PICK m : m = Event(u)  OBVIOUS
<1>2. NoName \in Names \cup {NoName}  OBVIOUS
<1>3. m \in Messages  BY <1>1, <1>2, MessagesAre
<1>4. ~IsAddition(m)  BY <1>1 DEF Event, IsAddition
<1>5. Send(m) /\ missed \subseteq missed'  BY <1>1 DEF Publish
<1>6. Accounted \subseteq Accounted'  BY <1>5 DEF Accounted
<1> QED  BY <1>3, <1>4, <1>5, <1>6, GhostSend

(* What is in use, and what is about to be erased, after a caller's step.  *)
LEMMA SameUse ==
  ASSUME UNCHANGED <<deviceMap, at>>
  PROVE  InUse' = InUse
BY DEF InUse, Erasing

LEMMA ErasingIs ==
  ASSUME ClientOK, NEW a \in Callers, NEW next, Goto(a, next)
  PROVE  /\ Erasing' \subseteq Erasing \cup {next.uuid}
         /\ next.op # "erase" => Erasing' \subseteq Erasing
<1>1. \A b \in Callers : at'[b] = IF b = a THEN next ELSE at[b]
  BY DEF ClientOK, Goto
<1> QED  BY <1>1 DEF Erasing

LEMMA UseGrows ==
  ASSUME ClientOK, NEW a \in Callers, NEW next, Goto(a, next), next.op # "erase",
         \A v \in InUse : v \in DOMAIN deviceMap' /\ deviceMap'[v] # "bare"
  PROVE  InUse \subseteq InUse'
<1>1. Erasing' \subseteq Erasing  BY ErasingIs
<1> QED  BY <1>1 DEF InUse

LEMMA GhostRemove ==
  ASSUME TypeInv, GhostInv, NEW a \in Callers, NEW i \in Ids, RemoveDevice(a, i), UNCHANGED resolver
  PROVE  GhostInv'
<1> USE DEF TypeInv, TypeOK
<1>1. PICK u, next : u = Uuid(i) /\ next = Do("erase", u, NoName)  OBVIOUS
<1>2. u \in Uuids /\ NoName \in Names \cup {NoName}
  BY <1>1, UuidIs DEF RemoveDevice, ClientOK, Uuid
<1>3. PICK m \in Messages : m = Removal(u)  BY <1>2, MessagesAre
<1>4. Publish(m) /\ Goto(a, next) /\ UNCHANGED <<deviceMap, up, inventory, devicesFile>>
  BY <1>1, <1>3 DEF RemoveDevice, resolver
<1>5. RemovedBy(m) = {u} /\ ~IsAddition(m) /\ next.uuid = u
  BY <1>1, <1>3 DEF Removal, RemovedBy, IsAddition, Do
<1>6. InUse \subseteq InUse' \cup {u}
  <2>1. Erasing' \subseteq Erasing \cup {u}  BY <1>4, <1>5, ErasingIs
  <2> QED  BY <1>4, <2>1 DEF InUse
<1>7. missed' = IF up THEN missed ELSE missed \cup {u}
  BY <1>4, <1>5, RemovalsOfOne DEF Publish
<1>8. /\ up => Accounted \subseteq Accounted' \cup RemovedBy(m)
      /\ ~up => Accounted \subseteq Accounted'
  BY <1>5, <1>6, <1>7 DEF Accounted
<1>9. Send(m) /\ (up' => DOMAIN devicesFile' \subseteq DOMAIN inventory')
  BY <1>4 DEF Publish, GhostInv
<1> QED  BY <1>4, <1>5, <1>8, <1>9, GhostSend

(* An announcement, or a report.                                           *)
LEMMA GhostAdd ==
  ASSUME TypeInv, GhostInv, NEW m \in Messages, IsAddition(m), Add(m), InUse \subseteq InUse',
         UNCHANGED <<up, resolver>>
  PROVE  GhostInv'
<1>1. missed' = IF up THEN missed \cup ({m.uuid} \ InUse) ELSE missed  BY DEF Add
<1>2. Accounted \subseteq Accounted' /\ (up => m.uuid \in Accounted')
  BY <1>1 DEF Accounted
<1>3. UNCHANGED <<up, inventory, devicesFile>>  BY DEF resolver
<1>4. Send(m) /\ (up' => DOMAIN devicesFile' \subseteq DOMAIN inventory')
  BY <1>3 DEF Add, GhostInv
<1> QED  BY <1>2, <1>3, <1>4, GhostSend

(* What a caller has begun goes on.                                        *)
LEMMA GhostProceed ==
  ASSUME TypeInv, GhostInv, NEW a \in Callers, Proceed(a), UNCHANGED resolver
  PROVE  GhostInv'
<1> USE DEF TypeInv, TypeOK
<1>1. PICK u : u = at[a].uuid  OBVIOUS
<1>2. UNCHANGED <<up, inventory, devicesFile>>
      /\ (up' => DOMAIN devicesFile' \subseteq DOMAIN inventory')
  <2>1. UNCHANGED up
    BY DEF Proceed, InsertDevice, EmitDeviceAnnounce, EraseDevice, MarkStale, EmitDeviceStale
  <2> QED  BY <2>1 DEF resolver, GhostInv
<1>3. CASE InsertDevice(a)
  <2>1. PICK next : next = [at[a] EXCEPT !["op"] = "announce"]  OBVIOUS
  <2>2. /\ deviceMap' = With(deviceMap, u, "in use") /\ Goto(a, next)
        /\ missed' = missed \ InUse' /\ UNCHANGED inbox
    BY <1>1, <1>3, <2>1 DEF InsertDevice
  <2>3. next.op = "announce"
    <3>1. at[a] \in Calls  BY <1>3, DoingIs DEF InsertDevice, Steps
    <3> QED  BY <2>1, <3>1 DEF Calls
  <2>4. \A v \in InUse : v \in DOMAIN deviceMap' /\ deviceMap'[v] # "bare"
    BY <2>2 DEF With, InUse
  <2>5. InUse \subseteq InUse'  BY <2>2, <2>3, <2>4, UseGrows
  <2>6. Accounted \subseteq Accounted'  BY <2>2, <2>5 DEF Accounted
  <2> QED  BY <1>2, <2>2, <2>6, GhostQuiet
<1>4. CASE EmitDeviceAnnounce(a)
  <2>1. u \in Uuids /\ at[a].name \in Names \cup {NoName}
    BY <1>1, <1>4, DoingIs DEF EmitDeviceAnnounce, Steps
  <2>2. PICK m \in Messages : m = Announce(u, at[a].name)  BY <2>1, MessagesAre
  <2>3. Add(m) /\ Goto(a, Idle) /\ UNCHANGED deviceMap
    BY <1>1, <1>4, <2>2 DEF EmitDeviceAnnounce
  <2>4. InUse \subseteq InUse'  BY <2>3, IdleIs, UseGrows DEF InUse
  <2>5. IsAddition(m)  BY <2>2 DEF Announce, IsAddition
  <2> QED  BY <1>2, <2>3, <2>4, <2>5, GhostAdd
<1>5. CASE EraseDevice(a)
  <2>1. deviceMap' = Without(deviceMap, u) /\ Goto(a, Idle) /\ UNCHANGED <<inbox, missed>>
    BY <1>1, <1>5 DEF EraseDevice
  <2>2. u \in Erasing  BY <1>1, <1>5 DEF EraseDevice, Doing, Erasing
  <2>3. \A v \in InUse : v \in DOMAIN deviceMap' /\ deviceMap'[v] # "bare"
    BY <2>1, <2>2 DEF Without, Restrict, InUse
  <2>4. InUse \subseteq InUse'  BY <2>1, <2>3, IdleIs, UseGrows
  <2>5. Accounted \subseteq Accounted'  BY <2>1, <2>4 DEF Accounted
  <2> QED  BY <1>2, <2>1, <2>5, GhostQuiet
<1>6. CASE MarkStale(a)
  <2>1. PICK next : next = [at[a] EXCEPT !["op"] = "notify"]  OBVIOUS
  <2>2. PICK flag : flag \in {"stale", "in use"} /\ deviceMap' = With(deviceMap, u, Marked(u, flag))
    BY <1>1, <1>6 DEF MarkStale
  <2>3. Goto(a, next) /\ UNCHANGED <<inbox, missed>>
    BY <1>6, <2>1 DEF MarkStale
  <2>4. next.op = "notify"
    <3>1. at[a] \in Calls  BY <1>6, DoingIs DEF MarkStale, Steps
    <3> QED  BY <2>1, <3>1 DEF Calls
  <2>5. \A v \in InUse : v \in DOMAIN deviceMap' /\ deviceMap'[v] # "bare"
    BY <2>2 DEF With, InUse, Marked
  <2>6. InUse \subseteq InUse'  BY <2>3, <2>4, <2>5, UseGrows
  <2>7. Accounted \subseteq Accounted'  BY <2>3, <2>6 DEF Accounted
  <2> QED  BY <1>2, <2>3, <2>7, GhostQuiet
<1>7. CASE EmitDeviceStale(a)
  <2>1. u \in Uuids  BY <1>1, <1>7, DoingIs DEF EmitDeviceStale, Steps
  <2>2. Publish(Event(u)) /\ Goto(a, Idle) /\ UNCHANGED deviceMap
    BY <1>1, <1>7 DEF EmitDeviceStale
  <2>3. InUse \subseteq InUse'  BY <2>2, IdleIs, UseGrows DEF InUse
  <2> QED  BY <1>2, <2>1, <2>2, <2>3, GhostEvent
<1> QED  BY <1>3, <1>4, <1>5, <1>6, <1>7 DEF Proceed

LEMMA GhostClient ==
  ASSUME TypeInv, GhostInv, ClientNext, UNCHANGED resolver
  PROVE  GhostInv'
<1> USE DEF TypeInv, TypeOK
<1>1. /\ UNCHANGED <<inventory, devicesFile>>
      /\ UNCHANGED up => (up' => DOMAIN devicesFile' \subseteq DOMAIN inventory')
  BY DEF resolver, GhostInv
<1>2. ASSUME NEW a \in Callers, NEW i \in Ids, NEW n \in InitialNames, AddDevice(a, i, n)
      PROVE  GhostInv'
  <2>1. PICK next : next = Do("insert", InternalIdToUuid(uuidMap', i), n)  OBVIOUS
  <2>2. Goto(a, next) /\ UNCHANGED <<deviceMap, up, inbox, missed>>
    BY <1>2, <2>1 DEF AddDevice
  <2>3. next.op = "insert"  BY <2>1 DEF Do
  <2>4. InUse \subseteq InUse'  BY <2>2, <2>3, UseGrows DEF InUse
  <2> QED  BY <1>1, <2>2, <2>4, GhostQuiet DEF Accounted
<1>3. ASSUME NEW a \in Callers, NEW i \in Ids, RemoveDevice(a, i) PROVE GhostInv'
  BY <1>3, GhostRemove
<1>4. ASSUME NEW a \in Callers, NEW i \in Ids, NEW op \in {"suspend", "resume"}, SetStale(a, i, op)
      PROVE  GhostInv'
  <2>1. PICK next : next = Do(op, Uuid(i), NoName)  OBVIOUS
  <2>2. Goto(a, next) /\ UNCHANGED <<deviceMap, up, inbox, missed>>
    BY <1>4, <2>1 DEF SetStale
  <2>3. next.op # "erase"  BY <2>1 DEF Do
  <2>4. InUse \subseteq InUse'  BY <2>2, <2>3, UseGrows DEF InUse
  <2> QED  BY <1>1, <2>2, <2>4, GhostQuiet DEF Accounted
<1>5. ASSUME NEW a \in Callers, NEW i \in Ids, EmitEvent(a, i) PROVE GhostInv'
  <2>1. PICK u : u = Uuid(i)  OBVIOUS
  <2>2. Publish(Event(u)) /\ UNCHANGED <<up, deviceMap, at>>
    BY <1>5, <2>1 DEF EmitEvent, client
  <2>3. u \in Uuids
    BY <1>5, <2>1, UuidIs DEF EmitEvent, ClientOK, Uuid
  <2>4. InUse' = InUse  BY <2>2, SameUse
  <2> QED  BY <1>1, <2>2, <2>3, <2>4, GhostEvent
<1>6. ASSUME NEW a \in Callers, Proceed(a) PROVE GhostInv'
  BY <1>6, GhostProceed
<1>7. CASE HandleDiscover \/ VisitDevice \/ Start
  <2>1. UNCHANGED <<up, inbox, missed, deviceMap, at>>
    BY <1>7 DEF HandleDiscover, VisitDevice, Start
  <2>2. InUse' = InUse  BY <2>1, SameUse
  <2> QED  BY <1>1, <2>1, <2>2, GhostQuiet DEF Accounted
<1>8. CASE EmitDeviceDiscover
  <2>1. reporting \in Uuids /\ NoName \in Names \cup {NoName}
    BY <1>8 DEF EmitDeviceDiscover, ClientOK
  <2>2. PICK m \in Messages : m = Discovered(reporting)  BY <2>1, MessagesAre
  <2>3. Add(m) /\ UNCHANGED <<up, deviceMap, at>>  BY <1>8, <2>2 DEF EmitDeviceDiscover
  <2>4. IsAddition(m)  BY <2>2 DEF Discovered, IsAddition
  <2>5. InUse' = InUse  BY <2>3, SameUse
  <2> QED  BY <2>3, <2>4, <2>5, GhostAdd
<1>9. CASE Die
  <2>1. UNCHANGED <<up, inbox>> /\ missed' = missed \cup InUse
    BY <1>9 DEF Die
  <2>2. Accounted \subseteq Accounted'  BY <2>1 DEF Accounted
  <2> QED  BY <1>1, <2>1, <2>2, GhostQuiet
<1> QED  BY <1>2, <1>3, <1>4, <1>5, <1>6, <1>7, <1>8, <1>9 DEF ClientNext

LEMMA GhostReceive ==
  ASSUME TypeInv, NamesInv, GhostInv, Receive, UNCHANGED client
  PROVE  GhostInv'
<1> USE DEF TypeInv, TypeOK
<1>1. PICK m, t : m = Head(inbox) /\ t = Tail(inbox)  OBVIOUS
<1>2. /\ AnnounceEvent(m) \/ RemoveEvent(m) \/ HandleEvent(m)
      /\ inbox # <<>> /\ inbox' = t /\ inbox \in Seq(Messages)
      /\ up /\ UNCHANGED up
      /\ Accounted' = InUse \cup missed'
  <2>1. InUse' = InUse  BY SameUse DEF client
  <2> QED  BY <1>1, <2>1 DEF Receive, BusOK, Accounted
<1>3. Removals(inbox) = RemovedBy(m) \cup Removals(t)
  BY <1>1, <1>2, RemovalsTail
<1>4. DOMAIN inventory \cup DOMAIN devicesFile \subseteq Accounted \cup Removals(inbox)
      /\ DOMAIN devicesFile \subseteq DOMAIN inventory /\ QueueOK(inbox, Accounted)
  BY <1>2 DEF GhostInv
<1>5. PICK used : used = Accounted  OBVIOUS
<1>6. /\ QueueOK(t, used)
      /\ IsAddition(m) => m.uuid \in used \cup Removals(t)
  BY <1>1, <1>2, <1>4, <1>5, QueueTail
<1>7. CASE AnnounceEvent(m)
  <2>1. IsAddition(m) /\ RemovedBy(m) = {} /\ Accounted' = used
    BY <1>2, <1>5, <1>7 DEF AnnounceEvent, IsAddition, RemovedBy, Accounted
  <2>2. DOMAIN inventory' = DOMAIN inventory \cup {m.uuid}
    BY <1>7 DEF AnnounceEvent, Set, With
  <2>3. devicesFile' \in {inventory', devicesFile}
    BY <1>7 DEF AnnounceEvent, SaveDevicemap
  <2>4. DOMAIN devicesFile' \subseteq DOMAIN inventory'
    BY <1>4, <2>2, <2>3
  <2>5. DOMAIN inventory' \subseteq Accounted' \cup Removals(inbox')
    BY <1>2, <1>3, <1>4, <1>5, <1>6, <2>1, <2>2
  <2> QED  BY <1>2, <1>6, <2>1, <2>4, <2>5 DEF GhostInv
<1>8. CASE RemoveEvent(m)
  <2>1. /\ RemovedBy(m) = {m.uuid}
        /\ missed' = missed \ ({m.uuid} \ Additions(t))
        /\ inventory' = Without(inventory, m.uuid)
    BY <1>1, <1>8 DEF RemoveEvent, RemovedBy
  <2>2. DOMAIN inventory' = DOMAIN inventory \ {m.uuid}
    BY <2>1 DEF Without, Restrict
  <2>3. PICK now : now = Accounted'  OBVIOUS
  <2>4. used \subseteq now \cup {m.uuid} /\ used \cap Additions(t) \subseteq now
    BY <1>2, <1>5, <2>1, <2>3 DEF Accounted
  <2>5. QueueOK(t, now)
    BY <1>1, <1>2, <1>4, <1>5, <2>4, QueueTail
  <2>6. DOMAIN devicesFile' \subseteq DOMAIN inventory'
    <3>1. CASE Listed(m.uuid) /\ Persistence
      BY <1>8, <3>1 DEF RemoveEvent, SaveIf, SaveDevicemap
    <3>2. CASE ~Persistence
      BY <1>8, <3>2 DEF RemoveEvent, SaveIf, SaveDevicemap, NamesInv
    <3>3. CASE ~Listed(m.uuid)
      BY <1>4, <1>8, <2>2, <3>3 DEF RemoveEvent, SaveIf, Listed
    <3> QED  BY <3>1, <3>2, <3>3
  <2>7. DOMAIN inventory' \subseteq now \cup Removals(t)
    BY <1>3, <1>4, <1>5, <2>1, <2>2, <2>4
  <2> QED  BY <1>2, <2>3, <2>5, <2>6, <2>7 DEF GhostInv
<1>9. CASE HandleEvent(m)
  <2>1. RemovedBy(m) = {} /\ Accounted' = used
    BY <1>2, <1>5, <1>9 DEF HandleEvent, RemovedBy, Accounted
  <2>2. DOMAIN inventory' = DOMAIN inventory
    BY <1>9 DEF HandleEvent, Set, With, Listed
  <2>3. devicesFile' \in {inventory', devicesFile}
    BY <1>9 DEF HandleEvent, SaveIf, SaveDevicemap
  <2> QED  BY <1>2, <1>3, <1>4, <1>5, <1>6, <2>1, <2>2, <2>3 DEF GhostInv
<1> QED  BY <1>2, <1>7, <1>8, <1>9

LEMMA GhostLoss ==
  ASSUME TypeInv, GhostInv, Lose \/ LoseDiscover, UNCHANGED <<client, resolver>>
  PROVE  GhostInv'
<1>1. UNCHANGED <<up, inventory, devicesFile>> /\ Accounted' = InUse \cup missed'
  <2>1. InUse' = InUse  BY SameUse DEF client
  <2> QED  BY <2>1 DEF Lose, LoseDiscover, resolver, Accounted
<1>2. CASE LoseDiscover
  <2>1. UNCHANGED <<inbox, missed>>  BY <1>2 DEF LoseDiscover
  <2> QED  BY <1>1, <2>1, GhostQuiet DEF GhostInv, Accounted
<1>3. CASE Lose
  <2>1. PICK m, t : m = Head(inbox) /\ t = Tail(inbox)  OBVIOUS
  <2>2. inbox \in Seq(Messages) /\ inbox # <<>> /\ inbox' = t /\ m \in Messages
    BY <1>3, <2>1, TailIs DEF Lose, TypeInv, TypeOK, BusOK
  <2>3. Removals(inbox) = RemovedBy(m) \cup Removals(t)
    BY <2>1, <2>2, RemovalsTail
  <2>4. missed' = missed \cup RemovedBy(m)
    BY <1>3, <2>1, <2>2, RemovalsOfOne DEF Lose
  <2>5. PICK used, now : used = Accounted /\ now = Accounted'  OBVIOUS
  <2>6. used \subseteq now /\ RemovedBy(m) \subseteq now
    BY <1>1, <2>4, <2>5 DEF Accounted
  <2>7. QueueOK(inbox, used)  BY <2>5 DEF GhostInv
  <2>8. QueueOK(t, now)
    BY <2>1, <2>2, <2>6, <2>7, QueueTail
  <2> QED  BY <1>1, <2>2, <2>3, <2>5, <2>6, <2>8 DEF GhostInv
<1> QED  BY <1>2, <1>3

LEMMA GhostCrash ==
  ASSUME TypeInv, GhostInv, Crash, UNCHANGED client
  PROVE  GhostInv'
<1>1. /\ up' = FALSE /\ inbox' = <<>> /\ missed' = missed \cup Removals(inbox)
      /\ inventory' = EmptyMap
  BY DEF Crash
<1>2. DOMAIN devicesFile' \subseteq DOMAIN inventory \cup DOMAIN devicesFile
  <2>1. CASE UNCHANGED devicesFile  BY <2>1
  <2>2. CASE devicesFile' \in PartsOf(inventory)
    <3>1. PICK f \in PartsOf(inventory) : f = devicesFile'  BY <2>2
    <3>2. DOMAIN f \subseteq DOMAIN inventory
      BY <3>1, PartIs DEF TypeInv, TypeOK, ResolverOK
    <3> QED  BY <3>1, <3>2
  <2> QED  BY <2>1, <2>2 DEF Crash
<1>3. Accounted' = Accounted \cup Removals(inbox)
  <2>1. InUse' = InUse  BY SameUse DEF client
  <2> QED  BY <1>1, <2>1 DEF Accounted
<1>4. DOMAIN inventory' = {} /\ QueueOK(<<>>, Accounted')
  BY <1>1, EmptyMapIs DEF QueueOK
<1> QED  BY <1>1, <1>2, <1>3, <1>4 DEF GhostInv

LEMMA GhostResolver ==
  ASSUME TypeInv, NamesInv, GhostInv, ResolverNext, UNCHANGED client
  PROVE  GhostInv'
<1> USE DEF TypeInv, TypeOK
<1>1. InUse' = InUse  BY SameUse DEF client
<1>2. ASSUME UNCHANGED <<up, inbox, missed>>, DOMAIN inventory' = DOMAIN inventory,
             SaveDevicemap \/ UNCHANGED devicesFile
      PROVE  GhostInv'
  BY <1>1, <1>2, FileListed, GhostQuiet DEF Accounted
<1>3. ASSUME NEW u \in Uuids, Publish(Event(u)), UNCHANGED up, DOMAIN inventory' = DOMAIN inventory,
             SaveDevicemap \/ UNCHANGED devicesFile
      PROVE  GhostInv'
  BY <1>1, <1>3, FileListed, GhostEvent
<1>4. ASSUME NEW u \in Uuids, NEW n, SetDeviceName(u, n) PROVE GhostInv'
  <2>1. DOMAIN inventory' = DOMAIN inventory
    BY <1>4 DEF SetDeviceName, Set, With, Listed
  <2> QED  BY <1>3, <1>4, <2>1 DEF SetDeviceName
<1>5. ASSUME NEW u \in Uuids, DeleteDeviceName(u) PROVE GhostInv'
  BY <1>3, <1>5 DEF DeleteDeviceName
<1>6. ASSUME NEW u \in Uuids, DeleteDevice(u) PROVE GhostInv'
  <2>1. UNCHANGED <<up, inbox, missed>> /\ up  BY <1>6 DEF DeleteDevice, bus
  <2>2. DOMAIN inventory' = DOMAIN inventory \ {u}
    BY <1>6 DEF DeleteDevice, Without, Restrict
  <2>3. DOMAIN devicesFile' \subseteq DOMAIN inventory'
    <3>1. CASE Listed(u) /\ Persistence
      BY <1>6, <3>1 DEF DeleteDevice, SaveIf, SaveDevicemap
    <3>2. CASE ~Persistence
      BY <1>6, <3>2 DEF DeleteDevice, SaveIf, SaveDevicemap, NamesInv
    <3>3. CASE ~Listed(u)
      BY <1>6, <2>1, <2>2, <3>3 DEF DeleteDevice, SaveIf, Listed, GhostInv
    <3> QED  BY <3>1, <3>2, <3>3
  <2> QED  BY <1>1, <2>1, <2>2, <2>3, GhostQuiet DEF Accounted
<1>7. ASSUME NEW u \in Uuids, Expire(u) PROVE GhostInv'
  <2>1. DOMAIN inventory' = DOMAIN inventory
    BY <1>7 DEF Expire, Set, With, Listed
  <2> QED  BY <1>2, <1>7, <2>1 DEF Expire, bus
<1>8. ASSUME NEW u \in Uuids, NEW timeout, SetDeviceParameters(u, timeout) PROVE GhostInv'
  <2>1. DOMAIN inventory' = DOMAIN inventory
    BY <1>8 DEF SetDeviceParameters, With, Listed
  <2> QED  BY <1>2, <1>8, <2>1 DEF SetDeviceParameters, bus
<1>9. CASE Check
  <2>1. PICK u \in scan :
          \/ Listed(u) /\ inventory' = Set(u, "stale", Silent(u)) /\ Publish(Event(u))
          \/ UNCHANGED <<inventory, inbox, missed>>
    BY <1>9 DEF Check
  <2>2. u \in Uuids /\ UNCHANGED <<devicesFile, up>>  BY <1>9 DEF Check, ResolverOK
  <2>3. CASE UNCHANGED <<inventory, inbox, missed>>
    BY <1>2, <2>2, <2>3
  <2>4. CASE Listed(u) /\ inventory' = Set(u, "stale", Silent(u)) /\ Publish(Event(u))
    <3>1. DOMAIN inventory' = DOMAIN inventory
      BY <2>4 DEF Set, With, Listed
    <3> QED  BY <1>3, <2>2, <2>4, <3>1
  <2> QED  BY <2>1, <2>3, <2>4
<1>10. CASE EndScan
  BY <1>2, <1>10 DEF EndScan, SaveIf, bus
<1>11. CASE DiscoverFunction \/ StaleFunction
  BY <1>2, <1>11 DEF DiscoverFunction, StaleFunction, bus, resolver
<1>12. CASE Receive  BY <1>12, GhostReceive
<1>13. CASE Crash  BY <1>13, GhostCrash
<1>14. CASE SetupApp
  <2>1. UNCHANGED <<inbox, missed, devicesFile>> /\ DOMAIN inventory = {}
    BY <1>14 DEF SetupApp, DownInv
  <2>2. DOMAIN inventory' = DOMAIN devicesFile
    BY <1>14, EmptyMapIs DEF SetupApp, NamesInv
  <2> QED  BY <1>1, <2>1, <2>2, GhostQuiet DEF Accounted
<1> QED
  BY <1>4, <1>5, <1>6, <1>7, <1>8, <1>9, <1>10, <1>11, <1>12, <1>13, <1>14 DEF ResolverNext

LEMMA GhostStep == TypeInv /\ NamesInv /\ GhostInv /\ [Next]_vars => GhostInv'
<1> SUFFICES ASSUME TypeInv, NamesInv, GhostInv, [Next]_vars PROVE GhostInv'  OBVIOUS
<1>1. CASE UNCHANGED vars
  <2>1. UNCHANGED <<inbox, missed, up, inventory, devicesFile>>
    BY <1>1 DEF vars, resolver, bus
  <2>2. InUse' = InUse  BY <1>1, SameUse DEF vars, client
  <2> QED  BY <2>1, <2>2, GhostQuiet DEF GhostInv, Accounted
<1> QED  BY <1>1, GhostClient, GhostResolver, GhostLoss DEF Next

LEMMA GhostInit == Init => GhostInv
<1>1. DOMAIN EmptyMap = {}  BY EmptyMapIs
<1> QED  BY <1>1 DEF Init, ClientInit, ResolverInit, GhostInv, QueueOK

LEMMA GhostInvariant == Spec => []GhostInv
BY TypeInit, TypeStep, HistoryInit, NamesStep, GhostInit, GhostStep, PTL DEF Spec

(* What the inventory lists is in use, or its removal is under way, or was *)
(* lost, or was overtaken by an announcement or a report sent after it: no *)
(* crash of the resolver between the messages, no file it starts from and  *)
(* no addition sent before the removal brings a removed device back.       *)
THEOREM NoGhostsCorrect == Spec => []NoGhosts
<1>1. GhostInv => NoGhosts
  BY DEF GhostInv, Accounted, NoGhosts
<1> QED  BY <1>1, GhostInvariant, PTL
=============================================================================
