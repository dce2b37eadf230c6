---------------------------- MODULE BatterySaver ----------------------------
(***************************************************************************)
(* The battery saver: the smart plug that powers a mower's charger is      *)
(* switched so that the battery stays between two levels, an interrupted   *)
(* task is resumed, and a mower without power is kept awake by a pulse of  *)
(* one minute every 55 (coordinator.py, models/rain_battery_saver.py,      *)
(* models/shutdown_guard_stability.py).                                    *)
(*                                                                         *)
(* Two tasks and the user's calls share the saver's state and the plug     *)
(* across their awaits: the evaluation, run with every update of the       *)
(* coordinator, and the guard, which sleeps from one deadline to the next. *)
(*                                                                         *)
(* Time is counted in units, the length of a pulse; a deadline is the time *)
(* left to it.  Battery levels: 0 needs a charge (maintenance level),      *)
(* from Resume on a task can go on, Limit is the upper charge limit.       *)
(***************************************************************************)
EXTENDS Integers

CONSTANTS
    Guard,        \* units a mower without power is left alone: 55 minutes
    Resume, Limit,
    MaxRestarts,  \* bound: restarts of Home Assistant
    Starts        \* [shared, plug, phase, mower, count]: where behaviours begin, and
                  \* the bounds: count.mower changes of mower and weather nobody in HA
                  \* asked for, count.user uses of the switch, count.start mowings begun,
                  \* count.fault failures, count.restart restarts

VARIABLES
    shared,       \* configuration: the plug powers the RTK base as well
    plug,         \* the plug is on
    entity,       \* its entity: state, and units since it is off (last_changed)
    mower,        \* what the mower does, and its newest event
    cloud,        \* the newest event of a task in the cloud's list
    heard,        \* reported_state holds what the mower reports
    ha,           \* the integration's state and tasks
    fresh,        \* an evaluation has begun in this unit
    count,        \* what is left of the bounds
    dark,         \* history: units the mower has stood without power
    upset         \* history: "failed" if a call failed or was lost in a restart, or
                  \* the plug was unavailable by itself,
                  \* "blind" if the plug was unavailable when it was switched,
                  \* "again" if it was switched off although it was off,
                  \* "forgotten" if a restart found no deadline of a plug that is off,
                  \* "crossed" if the saver was turned off while a task was just
                  \* switching the plug off

vars == <<shared, plug, entity, mower, cloud, heard, ha, fresh, count, dark, upset>>

None   == -1
Tasks  == {"guard", "eval", "user"}
Phases == {"disabled", "initial_charge", "mowing", "recovery_charge", "rain_hold",
           "manual_charge", "completed"}
Codes  == {"active", "low_battery_return", "rain_return", "rain_protection", "finished"}
Left   == {None} \cup 0 .. Guard
Long   == 4 * Guard + MaxRestarts       \* bound: where `dark' stops counting

Mowers == [status : {"docked", "mowing", "returning"}, battery : 0 .. Limit,
           raining : BOOLEAN, unfinished : BOOLEAN, code : Codes, told : BOOLEAN]
Counts == [mower : Nat, user : Nat, start : Nat, fault : Nat, restart : 0 .. MaxRestarts]

\* What is assumed of the constants: a charger is powered when its saver is off.
SaverBounds ==
    /\ Guard \in Nat \ {0, 1} /\ Limit \in Nat /\ MaxRestarts \in Nat
    /\ \A s \in Starts :
          /\ s.shared \in BOOLEAN /\ s.plug \in BOOLEAN /\ s.phase \in Phases
          /\ s.mower \in Mowers /\ s.count \in Counts
          /\ s.phase = "disabled" => s.plug

Status  == IF heard THEN mower.status ELSE "unknown"
Battery == IF heard THEN mower.battery ELSE None

NoGuard == [at |-> "none", wake |-> 0]
NoEval  == [at |-> "idle", status |-> "unknown", battery |-> None, resuming |-> FALSE]

TypeOK ==
    /\ plug \in BOOLEAN /\ heard \in BOOLEAN
    /\ entity.state \in {"on", "off", "gone"} /\ entity.since \in 0 .. Guard
    /\ mower \in Mowers /\ cloud \in Codes /\ ha.known \in Codes
    /\ \A s \in {ha.saver, ha.stored} :
          s.enabled \in BOOLEAN /\ s.phase \in Phases /\ s.due \in Left /\ s.pulse \in Left
    /\ \A t \in Tasks : ha.calls[t] \in {"none", "on", "off", "did on", "did off", "back"}
    /\ ha.guard.at = "none" => ha.calls.guard = "none"
    /\ ha.eval.at = "idle" => ha.calls.eval = "none"
    /\ dark \in 0 .. Long

Init ==
    \E s \in Starts :
        /\ shared = s.shared /\ plug = s.plug /\ mower = s.mower /\ count = s.count
        /\ entity = [state |-> IF s.plug THEN "on" ELSE "off", since |-> 0]
        /\ cloud = s.mower.code
        /\ heard = TRUE
        /\ ha = LET saver == [enabled |-> s.phase # "disabled", phase |-> s.phase,
                              due |-> None, pulse |-> None]
                IN  [saver |-> saver, stored |-> saver, guard |-> NoGuard, eval |-> NoEval,
                     calls |-> [t \in Tasks |-> "none"], user |-> "none",
                     known |-> s.mower.code, recent |-> FALSE, recheck |-> "none",
                     task |-> TRUE]
        /\ fresh = FALSE /\ dark = 0 /\ upset = {}

Event(n) == count[n] > 0 /\ count' = [count EXCEPT ![n] = @ - 1]
Fault    == Event("fault") /\ upset' = upset \cup {"failed"}

-----------------------------------------------------------------------------
(* The plug.  These operators take the integration's state and return it.  *)

Saved(s)    == [s EXCEPT !.stored = s.saver]
Cleared(s)  == Saved([s EXCEPT !.saver.due = None, !.saver.pulse = None])

\* _ensure_shutdown_guard
Ensured(s) ==
    IF s.saver.enabled /\ s.guard.at = "none" THEN [s EXCEPT !.guard.at = "loop"] ELSE s

Cancelled(s, who) ==
    IF who = "guard" THEN s ELSE [s EXCEPT !.guard = NoGuard, !.calls.guard = "none"]

\* _async_set_charger from its service call on, or without one
Switched(s, who, want, called) ==
    IF want = "on" THEN Cleared(s)
    ELSE IF Status = "docked"
    THEN Ensured(IF called THEN Saved([s EXCEPT !.saver.due = Guard, !.saver.pulse = None])
                 ELSE s)
    ELSE Cleared(Cancelled(s, who))

\* _async_set_charger up to its service call
SetCharger(s, who, want, pulse) ==
    IF ~s.saver.enabled THEN [s EXCEPT !.calls[who] = "back"]
    ELSE LET t == IF want = "on" /\ ~pulse THEN Cancelled(s, who) ELSE s
         IN  IF entity.state # want THEN [t EXCEPT !.calls[who] = want]
             ELSE [IF pulse THEN t ELSE Switched(t, who, want, FALSE)
                      EXCEPT !.calls[who] = "back"]

Lit == dark' = IF plug' THEN 0 ELSE dark

\* a call that is cancelled may have reached the plug
Becomes(s, why) ==
    LET cancelled == ha.calls.guard \in {"on", "off"} /\ s.calls.guard = "none"
        cut       == cancelled /\ ha.calls.guard = "off" /\ ha.user = "disable"
    IN  /\ ha' = s
        /\ plug' \in IF cancelled THEN {plug, ha.calls.guard = "on"} ELSE {plug}
        /\ Lit
        /\ upset' = upset \cup why \cup (IF cut THEN {"crossed"} ELSE {})

World == <<shared, entity, mower, cloud, heard, fresh>>

\* Home Assistant leaves out a plug that is unavailable; the call still returns
PlugObeys(who) ==
    LET want == ha.calls[who]
        gone == entity.state = "gone"
    IN  /\ want \in {"on", "off"}
        /\ plug' = IF gone THEN plug ELSE want = "on"
        /\ Lit
        /\ ha' = [ha EXCEPT !.calls[who] = IF want = "on" THEN "did on" ELSE "did off"]
        /\ upset' = upset \cup (IF gone THEN {"blind"} ELSE {})
                          \cup (IF want = "off" /\ dark > 0 THEN {"again"} ELSE {})
                          \cup (IF want = "off" /\ ha.user = "disable" THEN {"crossed"} ELSE {})
        /\ UNCHANGED <<World, count>>

CallReturns(who) ==
    /\ ha.calls[who] \in {"did on", "did off"}
    /\ LET want == IF ha.calls[who] = "did on" THEN "on" ELSE "off"
           s    == [ha EXCEPT !.calls[who] = "back"]
       IN  Becomes(IF who = "guard" /\ ha.guard.at = "pulsing" THEN s
                   ELSE Switched(s, who, want, TRUE), {})
    /\ UNCHANGED <<World, count>>

\* the call raises: its task ends, the next update evaluates again
CallFails(who) ==
    /\ ha.calls[who] \in {"on", "off"} /\ Fault
    /\ LET s == [ha EXCEPT !.calls[who] = "none"]
       IN  ha' = CASE who = "guard" -> [s EXCEPT !.guard = NoGuard]
                   [] who = "eval"  -> [s EXCEPT !.eval = NoEval]
                   [] who = "user"  -> [s EXCEPT !.user = "none"]
    /\ UNCHANGED <<World, plug, dark>>

\* the entity follows its plug, becomes unavailable, or comes back
EntityFollows ==
    /\ entity.state # IF plug THEN "on" ELSE "off"
    /\ entity' = [state |-> IF plug THEN "on" ELSE "off", since |-> 0]
    /\ UNCHANGED <<shared, plug, mower, cloud, heard, ha, fresh, count, dark, upset>>

EntityGone ==
    /\ entity.state # "gone" /\ Fault
    /\ entity' = [state |-> "gone", since |-> 0]
    /\ UNCHANGED <<shared, plug, mower, cloud, heard, ha, fresh, dark>>

-----------------------------------------------------------------------------
(* The guard, _async_shutdown_guard_loop.  It starts over after each sleep  *)
(* and after each call it made; a save is over when its step is.            *)

GuardStep(s) == Becomes(s, {}) /\ UNCHANGED <<World, count>>

Asleep(s, at, wake) == [s EXCEPT !.guard = [at |-> at, wake |-> wake]]

GuardCalls(s, at, want) ==
    SetCharger([s EXCEPT !.guard.at = at], "guard", want, at = "pulsing")

\* the deadline of a pulse has passed
PulseIsOver ==
    IF entity.state = "off"
    THEN Saved([ha EXCEPT !.saver.pulse = None, !.saver.due = Guard])
    ELSE IF Status # "docked" \/ Battery <= 0
    THEN [Cleared(ha) EXCEPT !.guard = NoGuard]
    ELSE GuardCalls([ha EXCEPT !.saver.pulse = None], "ending", "off")

\* the deadline of the time without power has passed
GuardIsDue ==
    IF Battery = None                         \* transient states have no battery here
    THEN Saved([ha EXCEPT !.saver.due = 1])
    ELSE IF Status # "docked" THEN [Cleared(ha) EXCEPT !.guard = NoGuard]
    ELSE IF Battery <= 0 THEN GuardCalls(ha, "charging", "on")
    ELSE GuardCalls(Saved([ha EXCEPT !.saver.pulse = 1]), "pulsing", "on")

GuardLoops ==
    /\ ha.guard.at = "loop"
    /\ GuardStep(
         LET due == ha.saver.due   pulse == ha.saver.pulse
         IN  IF ~ha.saver.enabled THEN [ha EXCEPT !.guard = NoGuard]
             ELSE IF entity.state = "gone" THEN Asleep(ha, "retry", 0)
             ELSE IF pulse > 0 THEN Asleep(ha, "sleep", pulse)
             ELSE IF pulse = 0 THEN PulseIsOver
             ELSE IF entity.state = "on"
             THEN Saved([ha EXCEPT !.saver.due = None, !.guard = NoGuard])
             ELSE IF due = None
             THEN Saved([ha EXCEPT !.saver.due = Guard - entity.since])
             ELSE IF due > 0 THEN Asleep(ha, "sleep", due)
             ELSE GuardIsDue)

GuardWakes ==
    /\ ha.guard.at = "retry" \/ (ha.guard.at = "sleep" /\ ha.guard.wake = 0)
    /\ GuardStep([ha EXCEPT !.guard = [NoGuard EXCEPT !.at = "loop"]])

\* back from its call; after the end of a pulse it waits for the entity to be off
GuardGoesOn ==
    /\ ha.calls.guard = "back"
    /\ ha.guard.at = "ending" =>
          entity.state = "off" \/ ha.saver.due = None \/ ~ha.saver.enabled
    /\ LET s == [ha EXCEPT !.calls.guard = "none"]
       IN  GuardStep(IF ha.guard.at = "charging" THEN [s EXCEPT !.guard = NoGuard]
                     ELSE [s EXCEPT !.guard.at = "loop"])

\* ... for twelve seconds
SettleEnds ==
    /\ ha.calls.guard = "back" /\ ha.guard.at = "ending" /\ entity.state # "off"
    /\ Fault
    /\ ha' = [ha EXCEPT !.calls.guard = "none", !.guard.at = "loop"]
    /\ UNCHANGED <<World, plug, dark>>

-----------------------------------------------------------------------------
(* The evaluation.  eval.at is the await it is in: the download of the      *)
(* task events in a phase, a switch of the charger and what comes then, or  *)
(* the command to continue.                                                 *)

EvalStep(s, why) == Becomes(s, why) /\ UNCHANGED <<shared, entity, mower, cloud, heard>>

Ended(s)        == [s EXCEPT !.eval = NoEval, !.calls.eval = "none"]
At(s, at)       == [s EXCEPT !.eval.at = at]
Phase(s, phase) == Saved([s EXCEPT !.saver.phase = phase])
Switch(s, want, then) == SetCharger(At(s, then), "eval", want, FALSE)

\* _battery_saver_task_signal
Signal(code) == IF code = "rain_protection" THEN "rain_return" ELSE code

\* _current_rain_hold_signal: the event the mower reports, or the newest known
Raining(s) ==
    (heard /\ mower.code = "rain_protection") \/ Signal(s.known) = "rain_return"

(* Mutant: without power between the levels nobody looks for the guard. *)
MaintainUnguarded(s, battery) ==
    IF s.saver.phase = "rain_hold" /\ shared THEN Switch(s, "on", "end")
    ELSE IF battery >= Limit THEN Switch(s, "off", "end")
    ELSE IF entity.state = "on" THEN Ended(s)
    ELSE IF battery <= 0 THEN Switch(s, "on", "end")
    ELSE Ended(s)

(* Mutant: a charge that has begun is not let reach the upper limit. *)
MaintainFlickers(s, battery) ==
    IF s.saver.phase = "rain_hold" /\ shared THEN Switch(s, "on", "end")
    ELSE IF battery <= 0 THEN Switch(s, "on", "end")
    ELSE Switch(s, "off", "end")

(* Mutant: off by one, at the limit itself the charge goes on. *)
MaintainOver(s, battery) ==
    IF s.saver.phase = "rain_hold" /\ shared THEN Switch(s, "on", "end")
    ELSE IF battery > Limit THEN Switch(s, "off", "end")
    ELSE IF entity.state = "on" THEN Ended(s)
    ELSE IF battery <= 0 THEN Switch(s, "on", "end")
    ELSE Ended(Ensured(s))

\* _async_maintain_idle_charge
Maintain(s, battery) ==
    IF s.saver.phase = "rain_hold" /\ shared THEN Switch(s, "on", "end")
    ELSE IF battery >= Limit THEN Switch(s, "off", "end")
    ELSE IF entity.state = "on" THEN Ended(s)
    ELSE IF battery <= 0 THEN Switch(s, "on", "end")
    ELSE Ended(Ensured(s))

(* Mutant: the level is compared the wrong way round. *)
RecoverLow(s) ==
    IF s.eval.status # "docked" THEN Ended(s)
    ELSE IF s.eval.battery >= Resume THEN Switch(s, "on", "end")
    ELSE IF ~s.task THEN Maintain(Phase(s, "initial_charge"), s.eval.battery)
    ELSE Switch(s, "on", "resume")

\* what a recovery charge comes to
Recover(s) ==
    IF s.eval.status # "docked" THEN Ended(s)
    ELSE IF s.eval.battery < Resume THEN Switch(s, "on", "end")
    ELSE IF ~s.task THEN Maintain(Phase(s, "initial_charge"), s.eval.battery)
    ELSE Switch(s, "on", "resume")

(* Mutant: a rain hold ends like a recovery charge, when the battery allows. *)
HoldForRainUntilCharged(s) ==
    IF s.eval.status = "docked" THEN Recover(s) ELSE Switch(s, "on", "rain")

HoldForRain(s) ==
    IF s.eval.status = "docked"
    THEN LET t == Maintain(s, s.eval.battery)
         IN  [t EXCEPT !.eval = [s.eval EXCEPT !.at = "rain"]]
    ELSE Switch(s, "on", "rain")

Complete(s) ==
    LET t == Phase([s EXCEPT !.task = FALSE], "initial_charge")
    IN  IF s.eval.status = "docked" THEN Maintain(t, s.eval.battery) ELSE Ended(t)

Rechecked(s) == [s EXCEPT !.recheck = IF @ = "none" THEN "waiting" ELSE @]

\* the rest of an evaluation, from the phase after a return
ByPhase(s) ==
    CASE s.saver.phase = "manual_charge" ->
            LET t == IF s.saver.enabled THEN Rechecked(s) ELSE s
            IN  CASE Signal(s.known) = "low_battery_return" -> Recover(Phase(t, "recovery_charge"))
                  [] Signal(s.known) = "rain_return" -> HoldForRain(Phase(t, "rain_hold"))
                  [] OTHER -> IF s.eval.status = "docked" THEN Maintain(t, s.eval.battery)
                              ELSE Ended(t)
      [] s.saver.phase = "rain_hold"       -> HoldForRain(s)
      [] s.saver.phase = "completed"       -> Complete(s)
      [] s.saver.phase = "recovery_charge" -> Recover(s)
      [] OTHER                             -> Ended(s)

\* _async_evaluate_battery_saver of the coordinator
Evaluated(s0) ==
    LET s     == [s0 EXCEPT !.eval.status = Status, !.eval.battery = Battery]
        phase == s.saver.phase
        rtk   == IF shared THEN "on" ELSE "off"
    IN  IF ~s.saver.enabled THEN Ended(s)
        ELSE IF s.saver.pulse # None THEN Ended(Ensured(s))
        ELSE IF Battery = None THEN Ended(s)
        ELSE IF Status = "mowing"
        THEN CASE phase = "rain_hold"       -> At(s, "rain live")
               [] phase = "recovery_charge" -> Switch(s, "on", "end")
               [] OTHER                     -> Switch(Phase(s, "mowing"), rtk, "end")
        ELSE CASE phase = "initial_charge" ->
                     IF Status = "docked" THEN Maintain(s, Battery) ELSE Ended(s)
               [] phase = "mowing" -> Switch(s, "on", "returned")
               [] OTHER            -> ByPhase(s)

\* evaluate of rain_battery_saver.py, around it
EvalBegins ==
    /\ ha.eval.at = "idle"
    /\ fresh' = TRUE
    /\ LET s == [ha EXCEPT !.eval = [at |-> "begun", status |-> Status, battery |-> Battery,
                                     resuming |-> FALSE]]
       IN  EvalStep(
             IF ~s.saver.enabled THEN Ended(s)
             ELSE IF s.saver.phase = "manual_charge" /\ Status = "docked"
             THEN IF s.recheck = "due" THEN At(s, "manual") ELSE Ended(Rechecked(s))
             ELSE IF s.saver.phase = "recovery_charge" /\ Status = "docked"
                     /\ Battery >= Resume /\ s.task
             THEN [s EXCEPT !.eval.at = "resuming", !.eval.resuming = TRUE]
             ELSE Evaluated(s), {})
    /\ UNCHANGED count

\* the recheck of a manual return, 5.2 s after it was scheduled
RecheckIsDue ==
    /\ ha.recheck = "waiting"
    /\ ha' = [ha EXCEPT !.recheck = "due"]
    /\ UNCHANGED <<World, plug, dark, count, upset>>

\* _async_refresh_task_events: throttled, unless forced; left out in a stable hold
Forced     == ha.eval.at \in {"manual", "resuming", "verify"}
Suppressed == ha.saver.phase = "rain_hold" /\ Status = "docked"
Events     == IF ~Forced /\ (ha.recent \/ Suppressed) THEN ha ELSE [ha EXCEPT !.known = cloud, !.recent = TRUE]

\* what follows a download
Informed(s) ==
    LET signal == Signal(s.known)
        at     == s.eval.at
        docked == s.eval.status = "docked"
    IN CASE at = "manual" ->
               LET t == Phase([s EXCEPT !.recheck = "none"],
                              CASE signal = "low_battery_return" -> "recovery_charge"
                                [] signal = "rain_return"        -> "rain_hold"
                                [] signal = "finished"           -> "completed"
                                [] OTHER                         -> "initial_charge")
               IN  IF s.eval.battery # None THEN Maintain(t, s.eval.battery) ELSE Ended(t)
         [] at = "resuming" ->
               Evaluated(IF Raining(s) THEN Phase(s, "rain_hold") ELSE s)
         [] at = "rain live" ->
               IF signal = "active"
               THEN Switch(Phase(s, "mowing"), IF shared THEN "on" ELSE "off", "end")
               ELSE Switch(s, "on", "end")
         [] at = "returned" ->
               CASE signal = "low_battery_return" -> ByPhase(Phase(s, "recovery_charge"))
                 [] signal = "rain_return"        -> ByPhase(Phase(s, "rain_hold"))
                 [] signal = "finished"           -> ByPhase(Phase(s, "completed"))
                 [] OTHER -> IF docked THEN ByPhase(Phase(s, "manual_charge")) ELSE Ended(s)
         [] at = "rain" ->
               Ended(IF signal = "finished" THEN Phase(s, "completed") ELSE s)
         [] at = "verify" ->
               IF ~Raining(s) THEN Ended(s)
               ELSE LET t == Phase(s, "rain_hold")
                    IN  IF Status # "docked" THEN Switch(t, "on", "end")
                        ELSE Maintain(t, Battery)

Downloading == {"manual", "resuming", "rain live", "returned", "rain", "verify"}

\* the charger is switched, or was as wanted: the evaluation goes on
EvalGoesOn ==
    /\ ha.calls.eval = "back"
    /\ LET s == [ha EXCEPT !.calls.eval = "none"]
       IN  EvalStep(CASE ha.eval.at = "end"    -> Ended(s)
                      [] ha.eval.at = "resume" ->
                            IF s.saver.enabled THEN At(Phase(s, "mowing"), "continue") ELSE Ended(s)
                      [] OTHER                 -> s, {})
    /\ UNCHANGED <<fresh, count>>

EventsArrive ==
    /\ ha.eval.at \in Downloading /\ ha.calls.eval = "none"
    /\ EvalStep(Informed(Events), {})
    /\ UNCHANGED <<fresh, count>>

\* the error is dropped, what is known stays
DownloadFails ==
    /\ ha.eval.at \in Downloading /\ ha.calls.eval = "none" /\ Event("fault")
    /\ EvalStep(Informed(ha), {"failed"})
    /\ UNCHANGED fresh

ThrottleEnds ==
    /\ ha.recent
    /\ ha' = [ha EXCEPT !.recent = FALSE]
    /\ UNCHANGED <<World, plug, dark, count, upset>>

\* mow_continue is published
Continues ==
    /\ ha.eval.at = "continue"
    /\ ha' = IF ha.eval.resuming /\ ha.saver.phase = "mowing" THEN At(ha, "verify")
             ELSE Ended(ha)
    /\ mower' = [mower EXCEPT !.told = TRUE]
    /\ UNCHANGED <<shared, plug, entity, cloud, heard, fresh, count, dark, upset>>

ContinueFails ==
    /\ ha.eval.at = "continue" /\ Fault
    /\ ha' = Ended(Phase(ha, "recovery_charge"))
    /\ UNCHANGED <<World, plug, dark>>

-----------------------------------------------------------------------------
(* The user, and restarts.                                                 *)

\* a task switches the plug off, or its entity does not yet say that it is off
SwitchingOff ==
    \/ \E t \in Tasks : ha.calls[t] \in {"off", "did off"}
    \/ entity.state = "on" /\ ~plug

\* async_set_battery_saver_enabled
Enable ==
    /\ ~ha.saver.enabled /\ ha.user = "none" /\ Event("user")
    /\ LET phase == IF Status = "mowing" THEN "mowing"
                    ELSE IF Raining(ha) THEN "rain_hold" ELSE "initial_charge"
       IN  ha' = Ensured(Saved([ha EXCEPT !.saver.enabled = TRUE, !.saver.phase = phase]))
    /\ UNCHANGED <<World, plug, dark, upset>>

(* Mutant: disabled first; _async_set_charger then does nothing any more. *)
DisableFirst ==
    /\ ha.saver.enabled /\ ha.user = "none" /\ Event("user")
    /\ Becomes(SetCharger([ha EXCEPT !.user = "disable", !.saver.enabled = FALSE],
                          "user", "on", FALSE),
               IF SwitchingOff THEN {"crossed"} ELSE {})
    /\ UNCHANGED World

Disable ==
    /\ ha.saver.enabled /\ ha.user = "none" /\ Event("user")
    /\ Becomes(SetCharger([ha EXCEPT !.user = "disable"], "user", "on", FALSE),
               IF SwitchingOff THEN {"crossed"} ELSE {})
    /\ UNCHANGED World

Disabled ==
    /\ ha.user = "disable" /\ ha.calls.user = "back"
    /\ ha' = Saved([ha EXCEPT !.user = "none", !.calls.user = "none",
                    !.saver = [enabled |-> FALSE, phase |-> "disabled", due |-> None, pulse |-> None]])
    /\ upset' = IF SwitchingOff THEN upset \cup {"crossed"} ELSE upset
    /\ UNCHANGED <<World, plug, dark, count>>

\* async_prepare_mowing_power, and the command that starts mowing
Prepare ==
    /\ ha.saver.enabled /\ ha.user = "none" /\ mower.status = "docked" /\ Event("start")
    /\ Becomes(SetCharger([ha EXCEPT !.user = "prepare"], "user", "on", FALSE), {})
    /\ UNCHANGED World

SetsOff(m) == [m EXCEPT !.status = "mowing", !.code = "active", !.unfinished = TRUE,
                         !.told = FALSE]

Prepared ==
    /\ ha.user = "prepare" /\ ha.calls.user = "back"
    /\ ha' = [ha EXCEPT !.user = "none", !.calls.user = "none", !.task = TRUE]
    /\ mower' = SetsOff(mower)
    /\ dark' = 0
    /\ UNCHANGED <<shared, plug, entity, cloud, heard, fresh, count, upset>>

\* Home Assistant starts anew; a call under way may have reached the plug
Restart ==
    /\ Event("restart")
    /\ ha' = [ha EXCEPT !.saver = Ensured(ha).stored, !.eval = NoEval, !.user = "none",
              !.guard = [NoGuard EXCEPT !.at = IF ha.stored.enabled THEN "loop" ELSE "none"],
              !.calls = [t \in Tasks |-> "none"], !.known = "active", !.recent = FALSE,
              !.recheck = "none"]
    /\ plug' \in {plug} \cup {ha.calls[t] = "on" : t \in {t \in Tasks : ha.calls[t] \in {"on", "off"}}}
    /\ Lit
    /\ entity' = [state |-> "gone", since |-> 0]
    /\ heard' = FALSE
    /\ upset' = upset
          \cup (IF \E t \in Tasks : ha.calls[t] \in {"on", "off"} THEN {"failed"} ELSE {})
          \cup (IF ~plug /\ ha.stored.due = None /\ ha.stored.pulse = None
                THEN {"forgotten"} ELSE {})
    /\ UNCHANGED <<shared, mower, cloud, fresh>>

-----------------------------------------------------------------------------
(* The mower, as far as the code relies on it, and time.                    *)

\* what it reports is an update of the coordinator, to be evaluated
MowerStep ==
    /\ fresh' = (fresh /\ mower'.status = mower.status /\ heard' = heard)
    /\ dark' = IF mower'.status = "docked" THEN dark ELSE 0
    /\ UNCHANGED <<shared, plug, entity, ha, upset>>

ShadowHeard ==
    /\ ~heard /\ heard' = TRUE
    /\ UNCHANGED <<mower, cloud, count>> /\ MowerStep

EventPublished ==
    /\ cloud # mower.code /\ cloud' = mower.code
    /\ UNCHANGED <<mower, heard, count>> /\ MowerStep

\* it goes on with an unfinished task, unless it rains
Obeys ==
    /\ mower.told
    /\ mower' = IF mower.status = "docked" /\ mower.unfinished
                THEN IF mower.raining THEN [mower EXCEPT !.told = FALSE, !.code = "rain_protection"]
                     ELSE SetsOff(mower)
                ELSE [mower EXCEPT !.told = FALSE]
    /\ UNCHANGED <<cloud, heard, count>> /\ MowerStep

\* the app or an appointment sets it off, or it goes on by itself
Departs ==
    /\ mower.status = "docked" /\ ~mower.raining /\ Event("mower")
    /\ mower' = SetsOff(mower)
    /\ UNCHANGED <<cloud, heard>> /\ MowerStep

\* it returns: out of battery, for rain, done, or because it was told to
Returns ==
    /\ mower.status = "mowing" /\ cloud = mower.code
    /\ \/ Event("mower") /\ mower' = [mower EXCEPT !.status = "returning"]
       \/ /\ mower.battery < Resume /\ UNCHANGED count
          /\ mower' = [mower EXCEPT !.status = "returning", !.code = "low_battery_return"]
       \/ /\ mower.raining /\ UNCHANGED count
          /\ mower' = [mower EXCEPT !.status = "returning", !.code = "rain_return"]
       \/ /\ UNCHANGED count
          /\ mower' = [mower EXCEPT !.status = "returning", !.code = "finished", !.unfinished = FALSE]
    /\ UNCHANGED <<cloud, heard>> /\ MowerStep

Docks ==
    /\ mower.status = "returning"
    /\ mower' = [mower EXCEPT !.status = "docked"]
    /\ UNCHANGED <<cloud, heard, count>> /\ MowerStep

Weather ==
    /\ Event("mower")
    /\ mower' = [mower EXCEPT !.raining = ~@]
    /\ UNCHANGED <<cloud, heard>> /\ MowerStep

(* Mutant: a deadline that is not set is counted down. *)
LessAlways(n) == n - 1

Less(n) == IF n > 0 THEN n - 1 ELSE n

\* a unit passes: longer than what any await but a sleep of the guard takes
Tick(level) ==
    /\ fresh /\ heard /\ ~mower.told /\ cloud = mower.code
    /\ ha.eval.at = "idle" /\ ha.user = "none" /\ ha.recheck # "waiting"
    /\ entity.state = IF plug THEN "on" ELSE "off"
    /\ ha.guard.at = "none" \/ (ha.guard.at = "sleep" /\ ha.guard.wake > 0)
    /\ fresh' = FALSE
    /\ entity' = [entity EXCEPT !.since = IF plug \/ @ = Guard THEN @ ELSE @ + 1]
    /\ ha' = [ha EXCEPT !.saver.due = Less(@), !.saver.pulse = Less(@), !.recent = FALSE,
              !.stored.due = Less(@), !.stored.pulse = Less(@), !.guard.wake = Less(@)]
    /\ dark' = IF plug \/ mower.status # "docked" \/ ~ha.saver.enabled THEN 0
               ELSE IF dark < Long THEN dark + 1 ELSE dark
    /\ level \in 0 .. Limit
    /\ mower' = [mower EXCEPT !.battery = level]
    /\ UNCHANGED <<shared, plug, cloud, heard, count, upset>>

Drains  == mower.status # "docked" \/ ~plug
Charges == ~Drains /\ Tick(mower.battery + 1)
Lasts   == Tick(mower.battery)
Empties == Drains /\ Tick(mower.battery - 1)

-----------------------------------------------------------------------------
Next ==
    \/ \E who \in Tasks : PlugObeys(who) \/ CallReturns(who) \/ CallFails(who)
    \/ EntityFollows \/ EntityGone
    \/ GuardLoops \/ GuardWakes \/ GuardGoesOn \/ SettleEnds
    \/ EvalBegins \/ RecheckIsDue \/ EvalGoesOn \/ EventsArrive \/ DownloadFails
    \/ ThrottleEnds \/ Continues \/ ContinueFails
    \/ Enable \/ Disable \/ Disabled \/ Prepare \/ Prepared \/ Restart
    \/ ShadowHeard \/ EventPublished \/ Obeys \/ Departs \/ Returns \/ Docks \/ Weather
    \/ Charges \/ Lasts \/ Empties

\* Tasks of the event loop run, calls and downloads are answered, the plug and its
\* entity follow, updates of the coordinator keep coming, time passes; the mower
\* obeys, docks, charges, and tells what it does.
Fairness ==
    /\ \A who \in Tasks : WF_vars(PlugObeys(who)) /\ WF_vars(CallReturns(who))
    /\ WF_vars(EntityFollows)
    /\ WF_vars(GuardLoops) /\ WF_vars(GuardWakes) /\ WF_vars(GuardGoesOn)
    /\ WF_vars(EvalBegins) /\ WF_vars(RecheckIsDue) /\ WF_vars(EvalGoesOn)
    /\ WF_vars(EventsArrive) /\ WF_vars(ThrottleEnds) /\ WF_vars(Continues)
    /\ WF_vars(Disabled) /\ WF_vars(Prepared)
    /\ WF_vars(ShadowHeard) /\ WF_vars(EventPublished) /\ WF_vars(Obeys)
    /\ WF_vars(Docks)
    /\ SF_vars(Charges) /\ SF_vars(Charges \/ Lasts \/ Empties)

Spec == Init /\ [][Next]_vars /\ Fairness

-----------------------------------------------------------------------------
\* Nothing has gone wrong: no call failed or was lost, no plug was unavailable when it
\* was switched, or switched off again, no restart found a deadline cleared before.
Undisturbed == {"failed", "blind", "again", "forgotten"} \cap upset = {}

\* A docked mower whose saver is on is not left without power for longer than the 55
\* minutes after which it is pulsed, whatever the evaluation, the user and restarts do
\* meanwhile (the shutdown guard); a restart at the deadline may cost a minute, until
\* the battery is known again.
KeptAwake == Undisturbed => dark + count.restart <= Guard + MaxRestarts

\* "Battery Saver state is persisted per mower so Home Assistant restarts do not
\* reset an active battery-management cycle": so a restart does not prolong it.
CycleSurvives == "failed" \notin upset => dark <= Guard + 1

\* With the saver off the charger has power ("Restore normal charger operation
\* before disabling the guard"), unless the plug was just being switched off, or was
\* unavailable when it was to be switched on.
PoweredWhenDisabled ==
    ~ha.saver.enabled /\ {"blind", "crossed"} \cap upset = {} => plug

\* Between the levels: a docked mower that needs a charge is charged to the upper limit,
\* or resumes ("Once a maintenance charge starts, let it reach the upper limit"); one
\* that stands by is not charged beyond it.
StaysBetweenLevels ==
    /\ (ha.saver.enabled /\ mower.status = "docked" /\ mower.battery = 0)
          ~> (mower.battery = Limit \/ ~ha.saver.enabled \/ mower.status # "docked")
    /\ []<>~(/\ ha.saver.enabled /\ ha.saver.phase = "initial_charge"
             /\ mower.status = "docked" /\ mower.battery = Limit /\ plug)

\* A task that Home Assistant began and a low battery interrupted goes on, once the
\* battery allows.
TaskResumes ==
    (/\ ha.saver.phase = "recovery_charge" /\ ha.task
     /\ mower.status = "docked" /\ mower.unfinished)
        ~> (mower.status = "mowing" \/ mower.raining \/ ~ha.saver.enabled)

\* While it rains the mower is not told to go on again and again: the saver waits
\* for it ("move to rain_hold and let the mower firmware decide").
RainHolds == <>[](mower.raining) => <>[](~mower.told)
=============================================================================
