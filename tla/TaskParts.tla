------------------------------ MODULE TaskParts ------------------------------
(* Three of the things that go on beside the updates of a coordinator, side by *)
(* side: the position it vouches for while it grows old, the battery saver's   *)
(* evaluation and guard, and the path of a Genie.  They have no state in       *)
(* common, so a behaviour is one of the position, one of the saver or one of   *)
(* the path; `part' says which.                                                *)
EXTENDS LivePosition, Integers

CONSTANTS Guard, Resume, Limit, MaxRestarts, BatteryStarts, MaxPaths, MaxTimes, PathStarts

VARIABLES part,
          shared, plug, entity, robot, cloud, heard, ha, fresh, left, dark, upset,
          genie, file, pending, known, path, definition, lastTime, failed, request,
          session, job, turn, pollOut, budget, crossed

Saver == INSTANCE BatterySaver WITH Starts <- BatteryStarts, mower <- robot, count <- left
Genie == INSTANCE GenieLivePath WITH Starts <- PathStarts, mower <- genie, count <- budget

ASSUME TaskPartsAssumption == Saver!SaverBounds /\ Genie!PathBounds

saverVars == <<shared, plug, entity, robot, cloud, heard, ha, fresh, left, dark, upset>>
pathVars  == <<genie, file, pending, known, path, definition, lastTime, failed, request,
               session, job, turn, pollOut, budget, crossed>>
tasksVars == <<part, vars, saverVars, pathVars>>

(* Each part has the others in one of the states they can begin in.            *)
TasksInit ==
    /\ part \in {"position", "saver", "path"}
    /\ Init /\ Saver!Init /\ Genie!Init
    /\ part # "position" => mower = [pose |-> 1, map |-> 1, activity |-> "docked"]
    /\ part # "saver" => shared
    /\ part # "path" => ~genie.out

TasksNext ==
    \/ part = "position" /\ Next /\ UNCHANGED <<part, saverVars, pathVars>>
    \/ part = "saver" /\ Saver!Next /\ UNCHANGED <<part, vars, pathVars>>
    \/ part = "path" /\ Genie!Next /\ UNCHANGED <<part, vars, saverVars>>

TasksSpec ==
    /\ TasksInit /\ [][TasksNext]_tasksVars
    /\ \/ part = "position"
       \/ part = "saver" /\ Saver!Fairness
       \/ part = "path" /\ Genie!Fairness

(* What is promised of the saver and of a Genie's path, stated in their modules: *)
(* their types; a mower is pulsed in time; a charger whose saver is off has      *)
(* power; the battery stays between the levels, a task goes on, and the saver    *)
(* waits for the rain; the path neither flashes nor stays old.                   *)
TypesOK             == Saver!TypeOK /\ Genie!TypeOK
KeptAwake           == Saver!KeptAwake
PoweredWhenDisabled == Saver!PoweredWhenDisabled
StaysBetweenLevels  == Saver!StaysBetweenLevels
TaskResumes         == Saver!TaskResumes
RainHolds           == Saver!RainHolds
NoFlash             == Genie!NoFlash
PathFollows         == Genie!PathFollows
==============================================================================
