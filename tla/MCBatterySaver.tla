---------------------------- MODULE MCBatterySaver ----------------------------
(* An instance of BatterySaver for TLC: an idle mower, and one restart of Home *)
(* Assistant; for battery levels 0 .. 3 of which a task can go on from 2.       *)
EXTENDS BatterySaver

Idle == [status |-> "docked", battery |-> 2, raining |-> FALSE, unfinished |-> FALSE,
         code |-> "finished", told |-> FALSE]

RestartedStarts ==
    { [shared |-> FALSE, plug |-> TRUE, phase |-> "initial_charge", mower |-> Idle,
       count  |-> [mower |-> 0, user |-> 0, start |-> 0, fault |-> 0, restart |-> 1]] }
===============================================================================
