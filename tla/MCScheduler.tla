----------------------------- MODULE MCScheduler ----------------------------
(***************************************************************************)
(* Values of the constants of Scheduler for TLC: days of three minutes,    *)
(* two weekdays.                                                           *)
(***************************************************************************)
EXTENDS Scheduler

\* an item of every day, one that may share its minute or come later, and
\* one of the second weekday that may be due at midnight
ThreeItems == <<[days |-> {0, 1}, times |-> {1}],
                [days |-> {0}, times |-> {1, 2}],
                [days |-> {1}, times |-> {0, 2}]>>
Earlier == -1
=============================================================================
