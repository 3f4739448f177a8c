------------------------------ MODULE HomeBus ------------------------------
(***************************************************************************)
(* The message bus between the resolver and one process that owns devices. *)
(* External: modelled by what shared/agoclient.cpp and                     *)
(* core/resolver/agoresolver.cpp rely on.  Every process gets what is      *)
(* published while it is connected, its own messages included, in the      *)
(* order of the broker; what is published while it is down, or in a gap of *)
(* its connection, is gone.                                                *)
(***************************************************************************)
EXTENDS Naturals, Sequences, FiniteSets, Functions

CONSTANTS
    Ids,        \* the internal ids of the devices
    Uuids,      \* what generateUuid() can return
    Names,      \* names of devices
    NoName,     \* the empty string
    MaxInbox,   \* bound: messages on their way to the resolver
    MaxFaults   \* bound: lost messages and deaths of a process

Kinds    == {"announce", "discover", "remove", "event"}
Messages == [kind : Kinds, uuid : Uuids, name : Names \cup {NoName}]

Event(u)       == [kind |-> "event", uuid |-> u, name |-> NoName]
Announce(u, n) == [kind |-> "announce", uuid |-> u, name |-> n]
Discovered(u)  == [kind |-> "discover", uuid |-> u, name |-> NoName]
Removal(u)     == [kind |-> "remove", uuid |-> u, name |-> NoName]

Nobody == "nobody"   \* the owner of a uuid that has not been generated yet

ASSUME IdsAssumption == Nobody \notin Ids
ASSUME NamesAssumption == NoName \notin Names
ASSUME BoundsAssumption == MaxInbox \in Nat /\ MaxFaults \in Nat

VARIABLES
    running,  \* the process with the devices is on the bus
    up,       \* the resolver is on the bus
    inbox,    \* messages the resolver has not handled yet
    asked,    \* a discover command waits for the process (more than one
              \* have the effect of one)
    faults,   \* deaths and losses so far
    owner,    \* history: the internal id each uuid was generated for
    missed    \* history: uuids whose removal did not reach the resolver, or
              \* was overtaken by an announcement or a report sent after it,
              \* and that have not been added again

(* Maps: a member added or replaced, one erased, and what is readable of a *)
(* map's file when its writing was cut short (it is truncated first).      *)
EmptyMap        == [x \in {} |-> x]
Maps(S, T)      == UNION {[D -> T] : D \in SUBSET S}
With(f, x, v)   == [y \in DOMAIN f \cup {x} |-> IF y = x THEN v ELSE f[y]]
Without(f, x)   == Restrict(f, DOMAIN f \ {x})
PartsOf(f)      == {Restrict(f, S) : S \in SUBSET DOMAIN f}

bus == <<running, up, inbox, asked, faults, owner, missed>>

About(q, kinds) == {q[k].uuid : k \in {k \in 1..Len(q) : q[k].kind \in kinds}}
Removals(q)     == About(q, {"remove"})
Additions(q)    == About(q, {"announce", "discover"})

BusOK ==
    /\ running \in BOOLEAN /\ up \in BOOLEAN /\ asked \in BOOLEAN
    /\ inbox \in Seq(Messages) /\ Len(inbox) <= MaxInbox
    /\ faults \in 0..MaxFaults
    /\ owner \in [Uuids -> Ids \cup {Nobody}]
    /\ missed \subseteq Uuids

Send(m) ==
    \/ up /\ Len(inbox) < MaxInbox /\ inbox' = Append(inbox, m)
    \/ ~up /\ UNCHANGED inbox

Publish(m) ==
    /\ Send(m)
    /\ missed' = IF up THEN missed ELSE missed \cup Removals(<<m>>)

Fault == faults < MaxFaults /\ faults' = faults + 1

(* The next message does not reach the resolver.                           *)
Lose ==
    /\ Fault
    /\ inbox # <<>>
    /\ inbox' = Tail(inbox)
    /\ missed' = missed \cup Removals(<<Head(inbox)>>)
    /\ UNCHANGED <<running, up, asked, owner>>

(* Nor does a discover command reach the process.                          *)
LoseDiscover ==
    /\ Fault
    /\ asked /\ asked' = FALSE
    /\ UNCHANGED <<running, up, inbox, owner, missed>>
=============================================================================
