---------------------------- MODULE CardSession ----------------------------
(***************************************************************************)
(* What the information panel of the dashboard card remembers of a mowing  *)
(* task: its duration and area (resolveMowingSessionInfo, kept in the      *)
(* browser's localStorage) and the latch that shows 100 % after a finished *)
(* task until the next one (updateMowingProgressStatus, kept in            *)
(* localStorage and in the card).  Several tabs of one browser show the    *)
(* same mower; each has its own, possibly old, copy of the sensors.        *)
(*                                                                         *)
(* Time runs in units; a mower that mows covers one unit of area per unit  *)
(* of time, so the area sensor and the time sensor report the same number. *)
(***************************************************************************)
EXTENDS Integers

CONSTANTS
    Tabs,         \* tabs of one browser
    MaxEvents     \* bound: units of time and times the mower sets off, together

VARIABLES
    now,          \* Date.now()
    mower,        \* what Home Assistant knows of the mower
    linked,       \* the sensors are available
    tab,          \* [Tabs -> the state of a tab]
    session,      \* localStorage: anthbot-map-mowing-session-info
    latch,        \* localStorage: anthbot-map-mowing-completion
    unlatched     \* history: set-offs a tab saw since the latch was last set

vars == <<now, mower, linked, tab, session, latch, unlatched>>

None     == -1                   \* a sensor without a number, a field not set
High     == 95                   \* progress from which a return is a completion
Low      == 40
Larger(a, b) == IF a >= b THEN a ELSE b

Statuses == {"mowing", "paused", "docked", "unavailable"}
Numbers  == {None} \cup 0 .. 4 * MaxEvents

NoSession == [open |-> FALSE, running |-> FALSE, area |-> None, duration |-> None,
              updatedAt |-> None]

\* the states of the sensors, as one coordinator update writes them; `run'
\* numbers the set-offs of the mower and is the model's
Sensors ==
    IF linked
    THEN mower
    ELSE [mower EXCEPT !.status = "unavailable", !.time = None, !.progress = None]

Closed == [open |-> FALSE, seen |-> mower, latched |-> "unread", saw |-> 0, best |-> None]

TypeOK ==
    /\ now \in 0 .. MaxEvents
    /\ mower.status \in Statuses \ {"unavailable"}
    /\ linked \in BOOLEAN
    /\ \A t \in Tabs : /\ tab[t].open \in BOOLEAN
                       /\ tab[t].seen.status \in Statuses
                       /\ tab[t].latched \in {"unread", "no", "yes"}
    /\ session \in [open : BOOLEAN, running : BOOLEAN, area : Numbers,
                    duration : Numbers, updatedAt : {None} \cup 0 .. MaxEvents]
    /\ latch \in BOOLEAN
    /\ session.running => session.open

Init ==
    /\ now = 0
    /\ mower = [status |-> "docked", time |-> 0, progress |-> 0, run |-> 0]
    /\ linked = TRUE
    /\ tab = [t \in Tabs |-> Closed]
    /\ session = NoSession
    /\ latch = FALSE
    /\ unlatched = FALSE

-----------------------------------------------------------------------------
(* The mower and Home Assistant.                                           *)

World(next) ==
    /\ mower' = next
    /\ UNCHANGED <<tab, session, latch, unlatched>>

\* time passes; a mowing mower works on, and may reach the end of its task
TimePasses ==
    /\ now + mower.run < MaxEvents
    /\ now' = now + 1
    /\ UNCHANGED linked
    /\ IF mower.status = "mowing"
       THEN \E p \in {mower.progress, Larger(mower.progress, Low), High} :
               World([mower EXCEPT !.time = @ + 1, !.progress = p])
       ELSE World(mower)

\* a new task starts from zero, a paused or interrupted one is resumed
SetsOff ==
    /\ mower.status # "mowing" /\ now + mower.run < MaxEvents
    /\ UNCHANGED <<now, linked>>
    /\ \/ World([status |-> "mowing", time |-> 0, progress |-> 0, run |-> mower.run + 1])
       \/ World([mower EXCEPT !.status = "mowing", !.run = @ + 1])

Pauses ==
    /\ mower.status = "mowing"
    /\ World([mower EXCEPT !.status = "paused"])
    /\ UNCHANGED <<now, linked>>

\* back at the dock, with its figures or with figures already reset
Docks ==
    /\ mower.status # "docked"
    /\ \/ World([mower EXCEPT !.status = "docked"])
       \/ World([mower EXCEPT !.status = "docked", !.time = 0, !.progress = 0])
    /\ UNCHANGED <<now, linked>>

\* the integration reloads or loses its mower, and finds it again
Availability ==
    /\ linked' = ~linked
    /\ World(mower)
    /\ UNCHANGED now

-----------------------------------------------------------------------------
(* resolveMowingSessionInfo: the record after an update, from the record   *)
(* before it and what the tab sees.                                        *)

\* a stored duration goes on by itself from one update to the next one
Projected(s) ==
    IF s.duration = None THEN None
    ELSE s.duration + (IF s.running THEN now - s.updatedAt ELSE 0)

ActiveSession(s, seen) ==
    LET resumed == s.open
        area    == IF resumed THEN s.area ELSE None
        known   == IF resumed THEN Projected(s) ELSE None
    IN  [open |-> TRUE, running |-> TRUE, updatedAt |-> now,
         area |-> Larger(area, seen.time),
         duration |-> Larger(0, Larger(known, seen.time))]

(* Mutant: a paused mower shows its sensor. *)
PausedSensor(s, seen) ==
    [open |-> TRUE, running |-> FALSE, updatedAt |-> now,
     area |-> IF seen.time = None THEN s.area ELSE seen.time,
     duration |-> IF seen.time = None THEN Projected(s) ELSE seen.time]

PausedSession(s, seen) ==
    [open |-> TRUE, running |-> FALSE, updatedAt |-> now,
     area |-> IF seen.time = None THEN s.area ELSE seen.time,
     duration |-> Larger(Projected(s), seen.time)]

EndedSession(s, seen) ==
    LET longest == Larger(Projected(s), seen.time)
    IN  [open |-> FALSE, running |-> FALSE, updatedAt |-> now,
         area |-> IF s.area = None /\ seen.time > 0 THEN seen.time ELSE s.area,
         duration |-> IF s.running /\ longest > 0 THEN longest
                      ELSE IF s.duration = None /\ seen.time > 0 THEN seen.time
                      ELSE s.duration]

Resolved(s, seen) ==
    CASE seen.status = "mowing" -> ActiveSession(s, seen)
      [] seen.status = "paused" -> PausedSession(s, seen)
      [] OTHER                  -> EndedSession(s, seen)

\* readMowingCompletionLatch: localStorage is read once per card
ReadLatch(t) == IF tab[t].latched = "unread" THEN latch ELSE tab[t].latched = "yes"

(* Mutant: the latch is let go when the progress sensor falls back. *)
LatchedWhileHigh(t, seen) ==
    CASE seen.status = "mowing" -> FALSE
      [] seen.status = "docked" -> seen.progress >= High
      [] OTHER -> ReadLatch(t)

\* updateMowingProgressStatus: only the canonical status moves the latch
Latched(t, seen) ==
    CASE seen.status = "mowing" -> FALSE
      [] seen.status = "docked" /\ seen.progress >= High -> TRUE
      [] OTHER -> ReadLatch(t)

\* setMowingCompletionLatch: written back only where it changes
StoredLatch(t, seen) ==
    IF Latched(t, seen) = ReadLatch(t) THEN latch ELSE Latched(t, seen)

\* updateRenderer of a tab that has received the sensors' states
Update(t, seen, opened) ==
    /\ session' = Resolved(session, seen)
    /\ latch' = StoredLatch(t, seen)
    /\ unlatched' = IF latch' # latch /\ latch' THEN FALSE
                    ELSE unlatched \/ seen.status = "mowing"
    /\ tab' = [tab EXCEPT ![t] =
         [open |-> TRUE, seen |-> seen,
          latched |-> IF Latched(t, seen) THEN "yes" ELSE "no",
          saw |-> IF seen.status = "mowing" THEN seen.run
                  ELSE IF opened THEN 0 ELSE tab[t].saw,
          best |-> IF ~opened /\ tab[t].seen.run = seen.run
                   THEN Larger(tab[t].best, seen.progress) ELSE seen.progress]]
    /\ UNCHANGED <<now, mower, linked>>

\* set hass: the tab receives the current states, however late
Receive(t) == tab[t].open /\ Update(t, Sensors, FALSE)

\* a page that is opened or loaded anew reads the latch from localStorage
OpenTab(t) ==
    /\ ~tab[t].open
    /\ Update(t, Sensors, TRUE)

CloseTab(t) ==
    /\ tab[t].open
    /\ tab' = [tab EXCEPT ![t] = Closed]
    /\ UNCHANGED <<now, mower, linked, session, latch, unlatched>>

\* startMowingInfoTimer: each second of a task the panel is updated from what
\* the tab has, without a new state
InfoTimer(t) ==
    /\ tab[t].open
    /\ tab[t].seen.status = "mowing" \/ session.running
    /\ session' = Resolved(session, tab[t].seen)
    /\ UNCHANGED <<now, mower, linked, tab, latch, unlatched>>

-----------------------------------------------------------------------------
Next ==
    \/ TimePasses \/ SetsOff \/ Pauses \/ Docks \/ Availability
    \/ \E t \in Tabs : Receive(t) \/ OpenTab(t) \/ CloseTab(t) \/ InfoTimer(t)

Spec == Init /\ [][Next]_vars

-----------------------------------------------------------------------------
\* The duration of an open session never falls, whichever tab updates it, with
\* lagging sensors, after a reload and through pauses; nor is it ever below what
\* the tab that updates it sees.
DurationGrows ==
    [][/\ session.open /\ session'.open => session'.duration >= session.duration
       /\ \A t \in Tabs :
             tab'[t] # tab[t] /\ tab'[t].open /\ session'.open
                 => session'.duration >= tab'[t].seen.time]_vars

\* The completion latch.  Once a finished task is shown as complete it stays so until
\* the mower sets off: through a reset of the progress sensor, unavailable sensors and
\* a reload of the page ("keep 100% latched until the next real mowing state starts");
\* localStorage keeps it for pages to come, until one of them sees the mower at work;
\* and a tab that saw the mower at work shows the task as complete only if it saw 95 %
\* of it ("A manual early return below 95% never sets the latch").
CompleteUntilMowing ==
    [][\A t \in Tabs :
          /\ /\ tab[t].latched = "yes" /\ tab'[t].open
             /\ tab'[t].seen.run = tab[t].seen.run
             => tab'[t].latched = "yes" \/ tab'[t].seen.status = "mowing"
          /\ tab'[t].open /\ tab'[t].latched = "yes" =>
                /\ latch' \/ unlatched'
                /\ tab'[t].saw = tab'[t].seen.run
                   => tab'[t].best >= High \/ tab'[t].saw = 0]_vars
=============================================================================
