------------------------------- MODULE MCApp --------------------------------
(***************************************************************************)
(* Values of the constants of App for TLC: a process with two timers.      *)
(***************************************************************************)
EXTENDS App

CONSTANTS periodic, sunrise
=============================================================================
