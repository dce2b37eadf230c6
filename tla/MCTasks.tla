------------------------------- MODULE MCTasks -------------------------------
(* TaskParts for TLC: three poses on two maps, battery levels 0 .. 3 of which a *)
(* task can go on from 2, and two paths of a Genie.                            *)
EXTENDS TaskParts

(* Two maps a cursor cannot tell apart; the second is cut so that the second    *)
(* pose lies outside.  The third pose is on no map.                             *)
PosesOnMaps == <<{1, 2}, {1}>>
LooksAlike  == <<1, 1>>

Mower(status, battery, raining, code) ==
    [status |-> status, battery |-> battery, raining |-> raining,
     unfinished |-> code # "finished", code |-> code, told |-> FALSE]

Start(rtk, on, stage, state, changes, uses, begun, faults, restarts) ==
    [shared |-> rtk, plug |-> on, phase |-> stage, mower |-> state,
     count  |-> [mower |-> changes, user |-> uses, start |-> begun, fault |-> faults,
                restart |-> restarts]]

(* Where the saver begins, and what may happen in each case.                    *)
SaverStarts ==
    LET idle                     == Mower("docked", 2, FALSE, "finished")
        returning(raining, code) == Mower("returning", 2, raining, code)
        docked(raining, code)    == Mower("docked", 2, raining, code)
    IN  { Start(FALSE, TRUE, "initial_charge", idle, 0, 0, 0, 0, 1),
          Start(FALSE, TRUE, "initial_charge", idle, 0, 1, 0, 1, 0),
          Start(FALSE, TRUE, "initial_charge", idle, 0, 0, 1, 0, 0),
          Start(FALSE, TRUE, "disabled", idle, 0, 1, 0, 0, 0),
          Start(FALSE, TRUE, "mowing", returning(FALSE, "active"), 0, 0, 0, 1, 0),
          Start(FALSE, TRUE, "mowing", returning(TRUE, "rain_return"), 0, 0, 0, 0, 1),
          Start(FALSE, TRUE, "recovery_charge", docked(TRUE, "low_battery_return"), 0, 0, 0, 1, 0),
          Start(FALSE, FALSE, "recovery_charge", docked(TRUE, "low_battery_return"), 1, 0, 0, 0, 0),
          Start(TRUE, TRUE, "rain_hold", docked(FALSE, "rain_return"), 2, 0, 0, 0, 0) }

Begin(out, restarted, starts, polls, faults, dockings, repeats) ==
    [out |-> out, restarted |-> restarted,
     count |-> [start |-> starts, poll |-> polls, fault |-> faults, dock |-> dockings,
                again |-> repeats]]

(* A task started at the dock or on the way, with a fault or a poll under way;  *)
(* and a restart while the mower is out.                                        *)
GenieStarts ==
    { Begin(FALSE, FALSE, 1, 0, 1, 0, 1),
      Begin(TRUE, FALSE, 1, 0, 1, 1, 0),
      Begin(TRUE, FALSE, 1, 1, 0, 0, 1),
      Begin(TRUE, TRUE, 0, 1, 1, 0, 0) }
==============================================================================
