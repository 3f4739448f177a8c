------------------------------- MODULE MCRpc -------------------------------
(***************************************************************************)
(* Values of the constants of Rpc for TLC.                                 *)
(***************************************************************************)
EXTENDS Rpc, TLC

CONSTANTS c1, c2, s1, s2

Symmetry == Permutations(Conns)

Ask(op, calls) == [op |-> op, sub |-> s1, calls |-> calls]

EventRequests == {Ask("subscribe", 0), Ask("getevent", 0)}
LiveRequests == {[op |-> "subscribe", sub |-> s2, calls |-> 0],
                 Ask("unsubscribe", 0), Ask("getevent", 0), Ask("message", 1),
                 Ask("batch", 2), Ask("file", 2)}
=============================================================================
