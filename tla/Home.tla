-------------------------------- MODULE Home --------------------------------
(***************************************************************************)
(* A process with devices and the resolver, with the messages between      *)
(* them: what the user sees in the inventory, over restarts of both and    *)
(* lost messages.                                                          *)
(***************************************************************************)
EXTENDS Client, Resolver

vars == <<client, resolver, bus>>

Init ==
    /\ running = TRUE /\ up = TRUE
    /\ inbox = <<>> /\ asked = FALSE
    /\ faults = 0 /\ missed = {}
    /\ owner = [u \in Uuids |-> Nobody]
    /\ ClientInit /\ ResolverInit

Next ==
    \/ ClientNext /\ UNCHANGED resolver
    \/ ResolverNext /\ UNCHANGED client
    \/ (Lose \/ LoseDiscover) /\ UNCHANGED <<client, resolver>>

Spec == Init /\ [][Next]_vars

(***************************************************************************)
(* Both processes run their message loops, the resolver's timers fire, and *)
(* the bus, which takes any number of messages, is not always full of      *)
(* those of the others when a report or a stale event is due (SF).         *)
(***************************************************************************)
Fairness ==
    /\ SF_vars(LoopStep /\ UNCHANGED resolver)
    /\ WF_vars(Receive /\ UNCHANGED client)
    /\ WF_vars(DiscoverFunction /\ UNCHANGED client)
    /\ SF_vars(ScanStep /\ UNCHANGED client)

FairSpec == Spec /\ Fairness

-----------------------------------------------------------------------------
(* Every variable keeps its type.                                          *)
TypeOK == BusOK /\ ClientOK /\ ResolverOK

(* The name the user gave to a device is the one its process's device is   *)
(* listed with, whatever restarts and whatever is announced or reported in *)
(* between: the process knows the device's uuid again (unless the file     *)
(* missed it), and the resolver that uuid's name.                          *)
NameFollowsDevice ==
    \A u \in Uuids : given[u] # {} /\ owner[u] # Nobody /\ unsaved # "forgot" =>
        LET v == Uuid(owner[u])
        IN  v # NoUuid /\ Listed(v) => inventory[v].name \in given[u]

(* A device that its process has removed, or is about to erase, is not     *)
(* listed once the messages are handled, unless the removal did not reach  *)
(* the resolver, or an announcement or a report was sent after it.         *)
NoGhosts == \A u \in DOMAIN inventory : u \in InUse \cup Removals(inbox) \cup missed

(* A device that is in use is again and again in the inventory, if both    *)
(* processes stay up.                                                      *)
InventoryRecovers ==
    \A i \in Ids :
        <>[](running /\ up /\ Uuid(i) \in DOMAIN deviceMap /\ deviceMap[Uuid(i)] = "in use")
            => []<>(Uuid(i) \in DOMAIN inventory)

(* A device is not marked wrongly, stale or alive, for ever.               *)
StaleCorrected ==
    \A u \in Uuids : []<>~(up /\ Listed(u) /\ MustChange(u))
=============================================================================
