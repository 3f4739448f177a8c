--------------------------- MODULE MCMqttTransport ---------------------------
(***************************************************************************)
(* Values of the constants of MqttTransport for TLC, and a claim of        *)
(* a comment in agotransport-mqtt.cpp that the code does not keep.         *)
(***************************************************************************)
EXTENDS MqttTransport

(***************************************************************************)
(* "Now wait for the on_message callback to trigger a wakeup (or timeout)":*)
(* sendRequest, the comment before the wait.  A caller that waits has not  *)
(* been given its reply: delivery would have woken it up.                  *)
(***************************************************************************)
WaiterWoken == \A c \in Callers : pc[c] = "waiting" => replyMsg[c] = NoReply
=============================================================================
