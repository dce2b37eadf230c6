---------------------------- MODULE ScheduleEngine ----------------------------
(***************************************************************************)
(* Appointments, weather holds and overrides (schedule_engine.py).         *)
(*                                                                         *)
(* The mower runs its own plan of appointments.  Every half minute Home    *)
(* Assistant looks which are due, sends the mower home when the weather of *)
(* a rule forbids mowing, remembers the rule and starts it later, once.  A *)
(* user may override the plan with a timed "mow" or "park", and edit it.   *)
(*                                                                         *)
(* What Home Assistant adds to the plan, and which runs it dealt with, are *)
(* kept per rule in the entry's options.  They are always written for all  *)
(* rules at once, from a copy the tick may have taken before an await.     *)
(*                                                                         *)
(* Time is counted in half minutes, the period of the tick.                *)
(***************************************************************************)
EXTENDS Integers, FiniteSets, FiniteSetsExt, Functions

CONSTANTS
  NumRules,   \* rules, in the order of the plan
  DueAt,      \* rule -> the minutes it is due at
  Ticks,      \* tasks of the interval, which does not wait for the last one
  Calls,      \* override calls of users
  CatchUp,    \* catch_up_hours
  Recheck,    \* time between two looks at the weather
  Durations,  \* of overrides
  MaxNow,     \* time stands still from there on
  Budget      \* how often each kind of event may happen

Rules == 1 .. NumRules
Time == 0 .. MaxNow
Minute(n) == n \div 2
Minutes == 0 .. Minute(MaxNow)
Never == -1

(* "edit", "override", "restart" and "start" are the user's, a "fault" is a
   command that fails. *)
Kinds == {"edit", "override", "restart", "start", "fault"}

ASSUME ScheduleAssumption ==
  /\ NumRules \in Nat /\ CatchUp \in Nat /\ Recheck \in Nat /\ MaxNow \in Nat
  /\ Durations \subseteq Nat
  /\ DueAt \in [Rules -> SUBSET Nat]
  /\ \A r \in Rules : \A m \in DueAt[r] : 2 * m + 1 + CatchUp < MaxNow
  /\ Budget \in [Kinds -> Nat]

VARIABLES
  now,
  mower,     \* what the mower is doing
  served,    \* appointments the firmware has dealt with
  seen,      \* the activity in reported_state
  weather,
  plan,      \* rules in the mirror of the native plan
  meta,      \* options: rule -> its annotations and marks
  check,     \* next_check of each weather-delayed run
  override,  \* options: the override
  tick,      \* task -> the await it is in, and its local variables
  call,      \* override call -> its command, or "idle"
  editor,    \* async_add_rule or async_delete_rule, during the publication
  begun,     \* history: the runs started by the engine
  spent      \* events so far, by kind

mowerVars == <<mower, served>>
planVars == <<plan, meta, check>>
userVars == <<override, call, editor>>
vars == <<now, mowerVars, seen, weather, planVars, userVars, tick, begun,
          spent>>

Conf == {"plain", "now", "ahead"}  \* no weather entity; one; and a forecast
Mark == [conf : Conf, fired : Minutes \cup {Never}, pending : Time \cup {Never}]
Blank == [conf |-> "plain", fired |-> Never, pending |-> Never]
Snapshot == UNION {[R -> Mark] : R \in SUBSET Rules}

NoOverride == [action |-> "none"]
Override == [action : {"mow", "park"}, expires : Nat, call : Calls]

Idle == [pc |-> "idle"]
Tick ==
  [pc : {"idle", "mirror", "expired", "wet"}]
    \cup [pc : {"parked"}, at : Time, rules : Snapshot, due : SUBSET Rules]
    \cup [pc : {"forecast", "delayed", "recall"}, at : Time, rules : Snapshot,
          rule : Rules]
    \cup [pc : {"starting"}, at : Time, rule : Rules]
Editor ==
  [pc : {"idle"}] \cup [pc : {"deleting"}, rule : Rules]
    \cup [pc : {"adding"}, rule : Rules, mark : Mark]

MowerTypes ==
  /\ now \in Time
  /\ mower \in {"docked", "mowing", "returning"}
  /\ served \subseteq Rules \X Minutes
  /\ seen \in {"unknown", "docked", "mowing", "returning"}
  /\ weather \in {"clear", "ahead", "rain"}
RuleTypes ==
  /\ plan \subseteq Rules
  /\ meta \in [Rules -> Mark]
  /\ DOMAIN check \subseteq Rules \X Time
  /\ \A o \in DOMAIN check : check[o] \in Nat
UserTypes ==
  /\ override \in Override \cup {NoOverride}
  /\ call \in [Calls -> {"idle", "mow", "park"}]
  /\ editor \in Editor
CountTypes ==
  /\ begun \subseteq Rules \X Time
  /\ spent \in [Kinds -> Nat] /\ \A k \in Kinds : spent[k] <= Budget[k]
TypeOK ==
  MowerTypes /\ RuleTypes /\ UserTypes /\ CountTypes /\ tick \in [Ticks -> Tick]

Init ==
  /\ now = 0
  /\ mower = "docked" /\ served = {}
  /\ seen = "docked"
  /\ weather \in {"clear", "ahead", "rain"}
  /\ plan = Rules
  /\ meta \in [Rules -> {[Blank EXCEPT !.conf = c] : c \in Conf}]
  /\ check = [o \in {} |-> 0]
  /\ override = NoOverride
  /\ tick = [t \in Ticks |-> Idle]
  /\ call = [c \in Calls |-> "idle"]
  /\ editor = Idle
  /\ begun = {}
  /\ spent = [k \in Kinds |-> 0]

Spend(k) ==
  /\ spent[k] < Budget[k]
  /\ spent' = [spent EXCEPT ![k] = @ + 1]

-----------------------------------------------------------------------------
(* The mower, its reports and the weather. *)

FirmwareStarts(r) ==
  /\ r \in plan /\ Minute(now) \in DueAt[r]
  /\ <<r, Minute(now)>> \notin served
  /\ served' = served \cup {<<r, Minute(now)>>}
  /\ mower = "docked" /\ mower' = "mowing"
  /\ UNCHANGED <<now, seen, weather, planVars, userVars, tick, begun, spent>>

(* With the app or a button, beside the plan. *)
UserStarts ==
  /\ mower = "docked" /\ mower' = "mowing"
  /\ Spend("start")
  /\ UNCHANGED <<now, served, seen, weather, planVars, userVars, tick, begun>>

MowingEnds ==
  /\ mower = "mowing" /\ mower' = "returning"
  /\ UNCHANGED <<now, served, seen, weather, planVars, userVars, tick, begun,
                 spent>>

Docks ==
  /\ mower = "returning" /\ mower' = "docked"
  /\ UNCHANGED <<now, served, seen, weather, planVars, userVars, tick,
                 begun, spent>>

Reports ==
  /\ seen # mower
  /\ seen' = mower
  /\ UNCHANGED <<now, mowerVars, weather, planVars, userVars, tick, begun,
                 spent>>

WeatherChanges ==
  /\ weather' \in {"clear", "ahead", "rain"} \ {weather}
  /\ UNCHANGED <<now, mowerVars, seen, planVars, userVars, tick, begun, spent>>

-----------------------------------------------------------------------------
(* Helpers of the engine. *)

(* _mower_busy *)
Busy == seen \in {"mowing", "returning"}

(* The command return_to_dock takes effect. *)
GoHome == mower' = IF mower = "mowing" THEN "returning" ELSE mower

(* _async_save_maps: the rules of the snapshot are all there is. *)
Saved(rules) ==
  [r \in Rules |-> IF r \in DOMAIN rules THEN rules[r] ELSE Blank]

Snap == Restrict(meta, plan)

(* _due_rules *)
Due ==
  {r \in plan : Minute(now) \in DueAt[r] /\ meta[r].fired # Minute(now)}

(* _async_mark_skipped, without a save when there is nothing to mark. *)
MarkSkipped(rules, due, at) ==
  meta' = IF due = {} THEN meta
          ELSE Saved([r \in DOMAIN rules |->
                        IF r \in due
                        THEN [rules[r] EXCEPT !.fired = Minute(at)]
                        ELSE rules[r]])

(* _async_weather_block_reason: the current condition first, the forecast only
   after an await. *)
RainsFor(mark) == mark.conf # "plain" /\ weather = "rain"
Looks(mark) == mark.conf = "ahead" /\ ~RainsFor(mark)

WithPending(rules, r, p) == [rules EXCEPT ![r] = [rules[r] EXCEPT !.pending = p]]

-----------------------------------------------------------------------------
(* The interval and its tick. *)

(* The interval fires whether or not its last task is done. *)
IntervalFires(t) ==
  /\ tick[t] = Idle
  /\ tick' = [tick EXCEPT ![t] = [pc |-> "mirror"]]
  /\ now' = IF now < MaxNow THEN now + 1 ELSE now
  /\ UNCHANGED <<mowerVars, seen, weather, planVars, userVars, begun, spent>>

Becomes(t, state) == tick' = [tick EXCEPT ![t] = state]

(* The override is over; a "mow" takes the mower home. *)
OverrideExpires(t) ==
  /\ tick[t].pc = "mirror"
  /\ override # NoOverride /\ now >= override.expires
  /\ override' = NoOverride
  /\ Becomes(t, IF override.action = "mow" THEN [pc |-> "expired"] ELSE Idle)
  /\ UNCHANGED <<now, mowerVars, seen, weather, planVars, call, editor, begun,
                 spent>>

(* Mutant: a parked mower that mows is left alone. *)
OverrideHoldsIdly(t) ==
  /\ tick[t].pc = "mirror"
  /\ override # NoOverride /\ now < override.expires
  /\ Becomes(t, Idle) /\ MarkSkipped(Snap, Due, now)
  /\ UNCHANGED <<now, mowerVars, seen, weather, plan, check, userVars, begun,
                 spent>>

(* Under an override what is due is marked as skipped, after a parked mower that
   moves all the same was told to go home. *)
OverrideHolds(t) ==
  /\ tick[t].pc = "mirror"
  /\ override # NoOverride /\ now < override.expires
  /\ IF override.action = "park" /\ Busy
     THEN /\ Becomes(t, [pc |-> "parked", at |-> now, rules |-> Snap,
                         due |-> Due])
          /\ UNCHANGED meta
     ELSE Becomes(t, Idle) /\ MarkSkipped(Snap, Due, now)
  /\ UNCHANGED <<now, mowerVars, seen, weather, plan, check, userVars, begun,
                 spent>>

(* A due rule is held back by the weather: with catch_up_hours it stays pending;
   the mower, which may have started, is sent home. *)
Hold(t, rules, r, at) ==
  /\ IF CatchUp = 0 THEN meta' = Saved(rules) /\ UNCHANGED check
     ELSE /\ meta' = Saved(WithPending(rules, r, at))
          /\ check' = [o \in DOMAIN check \cup {<<r, at>>} |->
                         IF o = <<r, at>> THEN at + Recheck ELSE check[o]]
  /\ Becomes(t, [pc |-> "wet"])

(* Only the first due rule is dealt with; it is marked before anything else. *)
Fired(r) == [Snap EXCEPT ![r] = [Snap[r] EXCEPT !.fired = Minute(now)]]

RuleIsDue(t) ==
  /\ tick[t].pc = "mirror"
  /\ override = NoOverride /\ Due # {}
  /\ LET r == Min(Due)
         rules == Fired(r)
     IN \/ RainsFor(rules[r]) /\ Hold(t, rules, r, now)
        \/ /\ Looks(rules[r])
           /\ meta' = Saved(rules)
           /\ Becomes(t, [pc |-> "forecast", at |-> now, rules |-> rules,
                          rule |-> r])
           /\ UNCHANGED check
        \/ /\ ~RainsFor(rules[r]) /\ ~Looks(rules[r])
           /\ meta' = Saved(rules)
           /\ Becomes(t, Idle)
           /\ UNCHANGED check
  /\ UNCHANGED <<now, mowerVars, seen, weather, plan, userVars, begun, spent>>

(* The forecast of a due rule arrives, or cannot be read. *)
DueForecast(t) ==
  /\ tick[t].pc = "forecast"
  /\ \/ weather # "clear" /\ Hold(t, tick[t].rules, tick[t].rule, tick[t].at)
     \/ Becomes(t, Idle) /\ UNCHANGED <<meta, check>>
  /\ UNCHANGED <<now, mowerVars, seen, weather, plan, userVars, begun, spent>>

-----------------------------------------------------------------------------
(* Delayed runs. *)

Waiting(rules) == {r \in DOMAIN rules : rules[r].pending # Never}

(* Mutant: a run is delayed for ever. *)
NeverOverdue(rules, at) == {}
Overdue(rules, at) ==
  {r \in Waiting(rules) : at > rules[r].pending + CatchUp}

(* Those whose weather is to be looked at again. *)
ToCheck(rules, at) ==
  {r \in Waiting(rules) \ Overdue(rules, at) :
     at >= check[<<r, rules[r].pending>>]}

(* _async_process_catch_up, still blocked: the dictionary of the pending run is
   shared with the options and changed in place. *)
PutOff(rules, r, at) ==
  /\ check' = [check EXCEPT ![<<r, rules[r].pending>>] = at + Recheck]
  /\ meta' = Saved(rules)

(* Mutant: what is pending is taken off before its time is read. *)
LaunchCleared(t, rules, r) ==
  /\ meta' = Saved(WithPending(rules, r, Never))
  /\ Becomes(t, [pc |-> "starting", at |-> meta'[r].pending, rule |-> r])
  /\ UNCHANGED check

(* Mutant: the run is taken off the options after the command only. *)
LaunchUnsaved(t, rules, r) ==
  /\ meta' = Saved(rules)
  /\ Becomes(t, [pc |-> "starting", at |-> rules[r].pending, rule |-> r])
  /\ UNCHANGED check

(* The run is taken off the options before the command. *)
Launch(t, rules, r) ==
  /\ meta' = Saved(WithPending(rules, r, Never))
  /\ Becomes(t, [pc |-> "starting", at |-> rules[r].pending, rule |-> r])
  /\ UNCHANGED check

(* The runs past their deadline are dropped on the way to the first one whose
   weather is due for a look. *)
Gone ==
  {r \in Overdue(Snap, now) : \A x \in ToCheck(Snap, now) : r < x}
Pruned ==
  [r \in plan |-> IF r \in Gone THEN [Snap[r] EXCEPT !.pending = Never]
                  ELSE Snap[r]]
DropGone == meta' = IF Gone = {} THEN meta ELSE Saved(Pruned)

NothingIsDue(t) ==
  /\ tick[t].pc = "mirror"
  /\ override = NoOverride /\ Due = {}
  /\ LET open == ToCheck(Snap, now)
         r == Min(open)
     IN \/ Busy /\ Becomes(t, Idle) /\ UNCHANGED <<meta, check>>
        \/ ~Busy /\ open = {} /\ DropGone /\ Becomes(t, Idle) /\ UNCHANGED check
        \/ /\ ~Busy /\ open # {} /\ RainsFor(Pruned[r])
           /\ PutOff(Pruned, r, now) /\ Becomes(t, Idle)
        \/ /\ ~Busy /\ open # {} /\ Looks(Pruned[r])
           /\ DropGone /\ UNCHANGED check
           /\ Becomes(t, [pc |-> "delayed", at |-> now, rules |-> Pruned,
                          rule |-> r])
        \/ /\ ~Busy /\ open # {} /\ ~RainsFor(Pruned[r]) /\ ~Looks(Pruned[r])
           /\ Launch(t, Pruned, r)
  /\ UNCHANGED <<now, mowerVars, seen, weather, plan, userVars, begun, spent>>

(* The forecast of a delayed rule arrives, or cannot be read; the mower may have
   been started meanwhile. *)
DelayedForecast(t) ==
  /\ tick[t].pc = "delayed"
  /\ LET k == tick[t] IN
       \/ /\ weather # "clear" /\ Busy
          /\ Becomes(t, [k EXCEPT !.pc = "recall"])
          /\ UNCHANGED <<meta, check>>
       \/ /\ weather # "clear" /\ ~Busy
          /\ PutOff(k.rules, k.rule, k.at) /\ Becomes(t, Idle)
       \/ Launch(t, k.rules, k.rule)
  /\ UNCHANGED <<now, mowerVars, seen, weather, plan, userVars, begun, spent>>

(* _async_run_mode reaches the mower. *)
RunStarts(t) ==
  /\ tick[t].pc = "starting"
  /\ begun' = begun \cup {<<tick[t].rule, tick[t].at>>}
  /\ mower' = "mowing"
  /\ Becomes(t, Idle)
  /\ UNCHANGED <<now, served, seen, weather, planVars, userVars, spent>>

(* The mower is told to go home, after which the tick ends its work. *)
Returns(t) ==
  /\ tick[t].pc \in {"expired", "wet", "parked", "recall"}
  /\ GoHome
  /\ Becomes(t, Idle)
  /\ LET k == tick[t] IN
       \/ k.pc \in {"expired", "wet"} /\ UNCHANGED <<meta, check>>
       \/ /\ k.pc = "parked"
          /\ MarkSkipped(k.rules, k.due, k.at) /\ UNCHANGED check
       \/ k.pc = "recall" /\ PutOff(k.rules, k.rule, k.at)
  /\ UNCHANGED <<now, served, seen, weather, plan, userVars, begun, spent>>

(* A command raises, and the tick with it. *)
CommandFails(t) ==
  /\ tick[t].pc \in {"starting", "expired", "wet", "parked", "recall"}
  /\ Spend("fault")
  /\ Becomes(t, Idle)
  /\ UNCHANGED <<now, mowerVars, seen, weather, planVars, userVars, begun>>

-----------------------------------------------------------------------------
(* Users. *)

(* async_apply_override: the override is saved, then the command is sent. *)
OverrideCalled(c, a, d) ==
  /\ call[c] = "idle"
  /\ Spend("override")
  /\ override' = [action |-> a, expires |-> now + d, call |-> c]
  /\ call' = [call EXCEPT ![c] = a]
  /\ UNCHANGED <<now, mowerVars, seen, weather, planVars, editor, tick, begun>>

OverrideCleared ==
  /\ override # NoOverride /\ override' = NoOverride
  /\ UNCHANGED <<now, mowerVars, seen, weather, planVars, call, editor, tick,
                 begun, spent>>

CallSucceeds(c) ==
  /\ call[c] # "idle"
  /\ IF call[c] = "park" THEN GoHome ELSE mower' = "mowing"
  /\ call' = [call EXCEPT ![c] = "idle"]
  /\ UNCHANGED <<now, served, seen, weather, planVars, override, editor, tick,
                 begun, spent>>

(* Whatever override is there by now is removed. *)
CallFails(c) ==
  /\ call[c] # "idle"
  /\ Spend("fault")
  /\ override' = NoOverride
  /\ call' = [call EXCEPT ![c] = "idle"]
  /\ UNCHANGED <<now, mowerVars, seen, weather, planVars, editor, tick, begun>>

(* async_add_rule: the marks of the rule, new or not, are read before the plan
   is published ... *)
EditBegins(r, c) ==
  /\ editor = Idle
  /\ Spend("edit")
  /\ editor' = [pc |-> "adding", rule |-> r,
                mark |-> [(IF r \in plan THEN meta[r] ELSE Blank)
                            EXCEPT !.conf = c]]
  /\ UNCHANGED <<now, mowerVars, seen, weather, planVars, override, call, tick,
                 begun>>

DeleteBegins(r) ==
  /\ editor = Idle /\ r \in plan
  /\ Spend("edit")
  /\ editor' = [pc |-> "deleting", rule |-> r]
  /\ UNCHANGED <<now, mowerVars, seen, weather, planVars, override, call, tick,
                 begun>>

Edited ==
  IF editor.pc = "adding" THEN plan \cup {editor.rule}
  ELSE plan \ {editor.rule}

(* ... and written after it. *)
EditEnds ==
  /\ editor # Idle
  /\ plan' = Edited
  /\ meta' = [meta EXCEPT ![editor.rule] =
                IF editor.pc = "adding" THEN editor.mark ELSE Blank]
  /\ editor' = Idle
  /\ UNCHANGED <<now, mowerVars, seen, weather, check, override, call, tick,
                 begun, spent>>

EditFails ==
  /\ editor # Idle
  /\ Spend("fault")
  /\ editor' = Idle
  /\ UNCHANGED <<now, mowerVars, seen, weather, planVars, override, call, tick,
                 begun>>

(* Home Assistant stops and starts: tasks are gone, options are not, and a plan
   that was being published may have reached the mower. *)
Restart ==
  /\ Spend("restart")
  /\ seen' = "unknown"
  /\ plan' \in {plan} \cup (IF editor = Idle THEN {} ELSE {Edited})
  /\ tick' = [t \in Ticks |-> Idle]
  /\ call' = [c \in Calls |-> "idle"]
  /\ editor' = Idle
  /\ UNCHANGED <<now, mowerVars, weather, meta, check, override, begun>>

-----------------------------------------------------------------------------
TickGoesOn(t) ==
  \/ OverrideExpires(t) \/ OverrideHolds(t) \/ RuleIsDue(t) \/ NothingIsDue(t)
  \/ DueForecast(t) \/ DelayedForecast(t) \/ RunStarts(t) \/ Returns(t)
  \/ CommandFails(t)

Next ==
  \/ \E r \in Rules : FirmwareStarts(r) \/ DeleteBegins(r)
                        \/ \E c \in Conf : EditBegins(r, c)
  \/ UserStarts \/ MowingEnds \/ Docks \/ Reports \/ WeatherChanges
  \/ \E t \in Ticks : IntervalFires(t) \/ TickGoesOn(t)
  \/ \E c \in Calls : CallSucceeds(c) \/ CallFails(c)
  \/ \E c \in Calls, a \in {"mow", "park"}, d \in Durations :
       OverrideCalled(c, a, d)
  \/ OverrideCleared \/ EditEnds \/ EditFails \/ Restart

(* The interval fires, awaits end, the mower reports and drives home.  It may
   mow as long as it likes. *)
Fairness ==
  /\ \A t \in Ticks : WF_vars(IntervalFires(t)) /\ WF_vars(TickGoesOn(t))
  /\ \A c \in Calls : WF_vars(CallSucceeds(c) \/ CallFails(c))
  /\ WF_vars(EditEnds \/ EditFails)
  /\ WF_vars(Reports) /\ WF_vars(Docks)

Spec == Init /\ [][Next]_vars
FairSpec == Spec /\ Fairness

-----------------------------------------------------------------------------
(* Properties. *)

(* "The mower starts once when conditions clear": no delayed run is started a
   second time, whatever fails or restarts in between ... *)
StartsOnce ==
  [][\A t \in Ticks :
       RunStarts(t) => <<tick[t].rule, tick[t].at>> \notin begun]_vars

(* ... at least as long as nobody edits a rule. *)
StartsOnceUnedited ==
  [][\A t \in Ticks :
       RunStarts(t) /\ spent["edit"] = 0
         => <<tick[t].rule, tick[t].at>> \notin begun]_vars

(* A mower that is found mowing under a "park" override, because its firmware
   or a start that was under way set it off, is sent home again. *)
Parked == override # NoOverride /\ override.action = "park"
ParkedGoesHome == (Parked /\ mower = "mowing") ~> (mower # "mowing" \/ ~Parked)

(* A run delayed by the weather does not stay pending for ever: it is started or
   dropped, unless overrides or the mower keep the engine from it. *)
CatchUpResolves ==
  WF_vars(MowingEnds) /\ []<>(override = NoOverride) =>
    \A r \in Rules, at \in Time :
      (meta[r].pending = at /\ r \in plan)
        ~> (meta[r].pending # at \/ r \notin plan)
=============================================================================
