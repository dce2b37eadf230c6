----------------------------- MODULE MCSchedule -----------------------------
(* The two halves of the schedule, side by side: the plan of the mower and    *)
(* its mirror, and the engine that looks at the rules every minute, without    *)
(* edits.  A behaviour is one of the plan or one of the engine; `part' says    *)
(* which.                                                                      *)
EXTENDS NativePlan

CONSTANTS c1, c2, t1

VARIABLES part,
          now, robot, served, seen, weather, plan, meta, check, override, tick, command,
          editor, begun, spent

Entry(id, locked) == [id |-> id, when |-> 1, extra |-> 1, locked |-> locked]

Start(takes, report, entries, app, calls, faults, restarts) ==
    [family |-> [command |-> takes, report |-> report], plan |-> entries,
     count  |-> [app |-> 1 - app, call |-> 2 - calls, fault |-> 1 - faults,
                 restart |-> 1 - restarts]]

(* Models that take whole plans or changes, and report plans or a file's       *)
(* revision, with or without an empty plan; and what may happen to each.       *)
PlanStarts ==
    LET one    == <<Entry(0, FALSE)>>
        hidden == <<Entry(0, TRUE), Entry(0, FALSE)>>
        withId == <<Entry(1, FALSE)>>
    IN  { Start("list", "plan", <<>>, 0, 0, 0, 0),
          Start("list", "plan", hidden, 1, 1, 0, 0),
          Start("list", "plan", hidden, 0, 2, 1, 0),
          Start("list", "plan", hidden, 0, 2, 0, 1),
          Start("list", "empty", one, 1, 0, 1, 0),
          Start("list", "empty", one, 0, 1, 1, 0),
          Start("incremental", "plan", withId, 1, 1, 0, 0),
          Start("incremental", "plan", withId, 0, 2, 0, 1),
          Start("incremental", "empty", withId, 0, 1, 0, 1),
          Start("list", "revision", one, 0, 0, 1, 1) }

Engine == INSTANCE ScheduleEngine
    WITH NumRules <- 1, DueAt <- [r \in {1} |-> {0}], Ticks <- {t1}, Calls <- {c1},
         CatchUp <- 1, Recheck <- 1, Durations <- {1, 9}, MaxNow <- 3,
         Budget <- [edit |-> 0, override |-> 1, restart |-> 0, start |-> 1, fault |-> 1],
         mower <- robot, call <- command

engineVars   == <<now, robot, served, seen, weather, plan, meta, check, override, tick,
                  command, editor, begun, spent>>
scheduleVars == <<part, vars, engineVars>>

(* Next to the engine the plan is empty, and stays so; next to the plan the    *)
(* engine has a rule without weather.                                          *)
ScheduleInit ==
    /\ part \in {"plan", "engine"}
    /\ Init /\ Engine!Init
    /\ part = "engine" <=> mower.plan = <<>>
    /\ part = "plan" => weather = "clear" /\ meta = [r \in {1} |-> Engine!Blank]

ScheduleNext ==
    \/ part = "plan" /\ Next /\ UNCHANGED <<part, engineVars>>
    \/ part = "engine" /\ Engine!Next /\ UNCHANGED <<part, vars>>

ScheduleSpec ==
    /\ ScheduleInit /\ [][ScheduleNext]_scheduleVars
    /\ \/ part = "plan" /\ Fairness
       \/ part = "engine" /\ Engine!Fairness

ParkedGoesHome  == part = "engine" => Engine!ParkedGoesHome
CatchUpResolves == part = "engine" => Engine!CatchUpResolves
=============================================================================
