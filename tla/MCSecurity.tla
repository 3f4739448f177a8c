----------------------------- MODULE MCSecurity -----------------------------
(***************************************************************************)
(* Values of the constants of Security for TLC, and a claim of             *)
(* agosecurity.cpp that the code does not keep.                            *)
(***************************************************************************)
EXTENDS Security, TLC

CONSTANTS home, away,           \* house modes
          hall, cellar,         \* zones
          siren, phone, mail    \* alarm devices: a switch and two gateways

Entry(mode, zone, delay, alarms) ==
    [mode |-> mode, zone |-> zone, delay |-> delay, alarms |-> alarms]

\* one zone whose thread counts down, one whose alarm is immediate, one that
\* is inactive because 40000 does not fit an int16_t
Hall(delay) == {Entry(away, hall, delay, {siren})}
TwoZones    == Hall(1) \cup {Entry(away, cellar, 0, {siren})}
Narrowed    == {Entry(away, hall, 1, {siren, phone, mail}), Entry(away, cellar, 40000, {siren})}

Saved(c, mode, default) ==
    [configured |-> TRUE, config |-> c, housemode |-> mode, default |-> default]

HallConfigs  == {Hall(1)}
AlarmConfigs == {TwoZones, Narrowed}

ArmedHall     == {Saved(Hall(1), away, home)}
Armed         == {Saved(c, away, default) : c \in AlarmConfigs, default \in {NoMode, home}}
Unconfigured  == {EmptyMap}
FirstStartOrArmed == Unconfigured \cup ArmedHall

OnePin      == {{"0815"}}
TwoPinLists == {{"0815"}, {"1234"}}
NoGateway   == {NoGateways}
Gateways    == {phone :> "smsgateway" @@ mail :> "smtpgateway"}
BothContacts == {[email |-> TRUE, phone |-> TRUE]}

-----------------------------------------------------------------------------
(***************************************************************************)
(* What a comment and an answer of agosecurity.cpp say, and the code does  *)
(* not keep: the one property of a run that violates it.                   *)
(***************************************************************************)

(* cancelalarm answers "Alarm cancelled" once it has interrupted the       *)
(* thread: that thread does not raise the intruder alert afterwards.       *)
CancelledStaysSilent ==
    \A t \in Alarms :
        pc[Main] = "unmark" /\ t = securityThread /\ interrupted[t] => pc[t] # "expired"

=============================================================================
