----------------------------- MODULE NativePlan -----------------------------
(***************************************************************************)
(* The mower's own schedule and its mirror in Home Assistant.              *)
(*                                                                         *)
(* The plan is the mower's; the vendor's app edits it.  Home Assistant     *)
(* mirrors it, from reports of the mower or from a file whose revision the *)
(* mower reports (async_refresh_native_plan), and edits it on behalf of    *)
(* the card's schedule panel, a calendar or an automation                  *)
(* (async_add_rule, async_delete_rule, async_publish_native_plan_change):  *)
(* it computes the new plan from the mirror, publishes the whole plan or   *)
(* only the change, and makes what it computed the mirror.                 *)
(*                                                                         *)
(* An appointment is its id, if the model of the mower has ids, the part   *)
(* that Home Assistant edits (`when'), and the rest, which it does not     *)
(* know (`extra'); a locked one is not for users.                          *)
(***************************************************************************)
EXTENDS Integers, Sequences, FiniteSets

CONSTANTS
    Callers,      \* dashboard cards and automations that edit the plan
    Times,        \* what an appointment can be edited to
    Starts,       \* [family, plan, count]: mowers, their plans, and what of the bounds
                  \* is used up, at the beginning
    MaxLength,    \* bound: appointments the app's user wants
    MaxApp,       \* bound: edits in the app
    MaxCalls,     \* bound: edits in Home Assistant
    MaxFaults,    \* bound: failing requests
    MaxRestarts   \* bound: restarts of Home Assistant

VARIABLES
    family,       \* how the model of the mower takes commands and reports
    mower,        \* its plan, and the revision of the plan's file
    wire,         \* a report on its way
    reported,     \* reported_state: appointment, appointment_time
    cached,       \* coordinator._anthbot_native_plan
    probed,       \* the last look at the file: revision, and less than 300 s ago
    downloads,    \* async_refresh_native_plan runs that wait for the file
    notes,        \* entry.options: the ids that have annotations
    call,         \* [Callers -> a form that is open, or a call under way]
    count,        \* bounds: app edits, calls, faults, restarts
    sound         \* history: the app has edited nothing, and edits began one after
                  \* the other, each from the plan the mower had

vars == <<family, mower, wire, reported, cached, probed, downloads, notes, call, count,
          sound>>

NoId  == 0
NoKey == <<"none", 0>>

\* ids are handed out one after the other: n of them so far
EntriesUpTo(n) == [id : {NoId} \cup 1 .. n, when : Times, extra : {0, 1}, locked : BOOLEAN]
PlansUpTo(n)   == Seq(EntriesUpTo(n))

Handed  == MaxLength + count.app + count.call
Ids     == 1 .. MaxLength + MaxApp + MaxCalls
Entries == EntriesUpTo(MaxLength + MaxApp + MaxCalls)

\* _entry_key: the id, or a digest of what is edited
Key(e) == IF e.id # NoId THEN <<"id", e.id>> ELSE <<"digest", e.when>>
Keys   == {<<"id", i>> : i \in Ids} \cup {<<"digest", w>> : w \in Times}

Incremental == family.command = "incremental"

Max(S) == CHOOSE n \in S : \A i \in S : i <= n

FreshId(plan) ==
    IF Incremental THEN Max({0} \cup {plan[i].id : i \in DOMAIN plan}) + 1 ELSE NoId

\* native_plan_for: what is reported, unless it is empty
Shown == IF reported.plan # <<>> THEN reported.plan ELSE cached

(* Mutant: the position is the one among the appointments that are listed. *)
PositionListed(plan, key) ==
    LET listed == SelectSeq(plan, LAMBDA e : ~e.locked)
        at     == {i \in DOMAIN listed : Key(listed[i]) = key}
    IN  IF at = {} THEN 0 ELSE CHOOSE i \in at : \A j \in at : i <= j

\* find_native_entry: the position of the first appointment with that id
Position(plan, key) ==
    LET at == {i \in DOMAIN plan : ~plan[i].locked /\ Key(plan[i]) = key}
    IN  IF at = {} THEN 0 ELSE CHOOSE i \in at : \A j \in at : i <= j

Without(plan, i) == SubSeq(plan, 1, i - 1) \o SubSeq(plan, i + 1, Len(plan))

Idle == [phase |-> "idle", op |-> "add", key |-> NoKey, at |-> 0, entry |-> <<>>,
         values |-> <<>>, base |-> <<>>]

Families == [command : {"list", "incremental"}, report : {"plan", "revision", "empty"}]
Counts   == [app : 0 .. MaxApp, call : 0 .. MaxCalls, fault : Nat, restart : Nat]

\* Where ids identify appointments, every appointment has one of its own.
HaveIds(plan) ==
    \A i, j \in DOMAIN plan :
        /\ plan[i].id # NoId
        /\ plan[i].id = plan[j].id => i = j

\* Mowers that take changes by id have appointments with ids.
ASSUME NativePlanAssumption ==
    /\ MaxLength \in Nat /\ MaxApp \in Nat /\ MaxCalls \in Nat
    /\ \A s \in Starts :
          /\ s.family \in Families /\ s.plan \in PlansUpTo(MaxLength) /\ s.count \in Counts
          /\ s.family.command = "incremental" => HaveIds(s.plan)

Copies(n, first, last) == [plan : PlansUpTo(n), revision : first .. last]
Forms(n) == [phase : {"idle", "form", "publishing", "applied"}, op : {"add", "edit", "delete"},
             key : Keys \cup {NoKey}, at : Nat, entry : EntriesUpTo(n) \cup {<<>>},
             values : PlansUpTo(n), base : PlansUpTo(n)]

TypeOK ==
    /\ family \in Families
    /\ mower \in [plan : PlansUpTo(Handed), revision : Nat \ {0}]
    /\ wire \in Seq(Copies(Handed, 1, mower.revision))
    /\ reported \in Copies(Handed, 0, mower.revision)
    /\ cached \in PlansUpTo(Handed)
    /\ probed \in [revision : 0 .. mower.revision, recent : BOOLEAN]
    /\ downloads \subseteq Copies(Handed, 1, mower.revision)
    /\ notes \subseteq Keys
    /\ call \in [Callers -> Forms(Handed)]
    /\ count \in Counts
    /\ sound \in BOOLEAN

Init ==
    /\ \E s \in Starts : /\ family = s.family
                         /\ mower = [plan |-> s.plan, revision |-> 1]
                         /\ count = s.count
    /\ wire = <<>>
    /\ reported = [plan |-> <<>>, revision |-> 0]
    /\ cached = <<>>
    /\ probed = [revision |-> 0, recent |-> FALSE]
    /\ downloads = {}
    /\ notes = {}
    /\ call = [c \in Callers |-> Idle]
    /\ sound = TRUE

-----------------------------------------------------------------------------
(* The mower and the app.                                                  *)

Changed(plan) == [plan |-> plan, revision |-> mower.revision + 1]

AppEdits ==
    /\ count.app < MaxApp
    /\ count' = [count EXCEPT !.app = @ + 1]
    /\ \/ \E w \in Times :
             /\ Len(mower.plan) < MaxLength
             /\ mower' = Changed(Append(mower.plan,
                           [id |-> FreshId(mower.plan), when |-> w, extra |-> 1, locked |-> FALSE]))
       \/ \E i \in DOMAIN mower.plan :
             /\ ~mower.plan[i].locked
             /\ \/ mower' = Changed(Without(mower.plan, i))
                \/ \E w \in Times \ {mower.plan[i].when} :
                      mower' = Changed([mower.plan EXCEPT ![i].when = w])
    /\ sound' = FALSE
    /\ UNCHANGED <<family, wire, reported, cached, probed, downloads, notes, call>>

\* full reports are asked for again and again
Report ==
    /\ wire = <<>>
    /\ wire' = <<mower>>
    /\ UNCHANGED <<family, mower, reported, cached, probed, downloads, notes, call, count, sound>>

\* async_set_updated_data: the entities read the plan, and that caches it
Publish(plan, revision, cache) ==
    /\ reported' = [plan |-> plan, revision |-> revision]
    /\ cached' = IF plan # <<>> THEN plan ELSE cache

\* a report has the plan, or only the revision, or the revision and an empty plan
ReportArrives ==
    /\ wire # <<>>
    /\ wire' = <<>>
    /\ CASE family.report = "plan"     -> Publish(wire[1].plan, 0, cached)
         [] family.report = "revision" -> Publish(reported.plan, wire[1].revision, cached)
         [] family.report = "empty"    -> Publish(<<>>, wire[1].revision, cached)
    /\ UNCHANGED <<family, mower, probed, downloads, notes, call, count, sound>>

-----------------------------------------------------------------------------
(* async_refresh_native_plan, called by the schedule engine's interval and *)
(* when a revision is reported.                                            *)

(* Mutant: a revision is looked at once. *)
ProbeOnce ==
    /\ reported.plan = <<>> /\ reported.revision # 0
    /\ probed.revision # reported.revision
    /\ probed' = [revision |-> reported.revision, recent |-> TRUE]
    /\ downloads' = downloads \cup {[plan |-> mower.plan, revision |-> reported.revision]}
    /\ UNCHANGED <<family, mower, wire, reported, cached, notes, call, count, sound>>

\* nothing to do while the state has a plan; a file is not looked at again
\* within 300 s
ProbeStarts ==
    /\ reported.plan = <<>> /\ reported.revision # 0
    /\ ~(probed.revision = reported.revision /\ probed.recent)
    /\ probed' = [revision |-> reported.revision, recent |-> TRUE]
    /\ downloads' = downloads \cup {[plan |-> mower.plan, revision |-> reported.revision]}
    /\ UNCHANGED <<family, mower, wire, reported, cached, notes, call, count, sound>>

\* the file is what it was at any time since it was asked for; the state that is
\* published is the one of before the download
ProbeEnds ==
    /\ \E d \in downloads : \E file \in {d.plan, mower.plan} :
          /\ downloads' = downloads \ {d}
          /\ Publish(file, d.revision, file)
    /\ UNCHANGED <<family, mower, wire, probed, notes, call, count, sound>>

ProbeFails ==
    /\ count.fault < MaxFaults
    /\ count' = [count EXCEPT !.fault = @ + 1]
    /\ \E d \in downloads : /\ downloads' = downloads \ {d}
                            /\ Publish(<<>>, d.revision, cached)
    /\ UNCHANGED <<family, mower, wire, probed, notes, call, sound>>

RetryIsDue ==
    /\ probed.recent
    /\ probed' = [probed EXCEPT !.recent = FALSE]
    /\ UNCHANGED <<family, mower, wire, reported, cached, downloads, notes, call, count, sound>>

-----------------------------------------------------------------------------
(* An edit.                                                                *)

Rest == <<family, mower, wire, reported, cached, probed, downloads, notes>>

UnderWay(c) == call[c].phase \in {"publishing", "applied"}

\* openRuleModal, or a question whether to delete: for a rule as it is shown
OpenForm(c) ==
    /\ call[c].phase = "idle" /\ count.call < MaxCalls
    /\ \E i \in DOMAIN Shown :
          /\ ~Shown[i].locked
          /\ call' = [call EXCEPT ![c] = [Idle EXCEPT !.phase = "form", !.key = Key(Shown[i])]]
    /\ UNCHANGED <<Rest, count, sound>>

CloseForm(c) ==
    /\ call[c].phase = "form"
    /\ call' = [call EXCEPT ![c] = Idle]
    /\ UNCHANGED <<Rest, count, sound>>

\* build_native_entry: what is not edited stays
Edited(e, when) == [e EXCEPT !.when = when, !.locked = FALSE]

Publishing(c, op, at, entry, values) ==
    /\ count.call < MaxCalls
    /\ count' = [count EXCEPT !.call = @ + 1]
    /\ call' = [call EXCEPT ![c] =
         [phase |-> "publishing", op |-> op, key |-> call[c].key, at |-> at,
          entry |-> entry, values |-> values, base |-> Shown]]
    /\ sound' = (sound /\ Shown = mower.plan /\ ~\E d \in Callers : UnderWay(d))
    /\ UNCHANGED Rest

\* async_add_rule of a new rule, or of one whose id is not found any more
Add(c) ==
    /\ call[c].phase \in {"idle", "form"}
    /\ Position(Shown, call[c].key) = 0
    /\ \E w \in Times :
          LET new == [id |-> FreshId(Shown), when |-> w, extra |-> 0, locked |-> FALSE]
          IN  Publishing(c, "add", Len(Shown) + 1, new, Append(Shown, new))

Edit(c) ==
    /\ call[c].phase = "form"
    /\ LET i == Position(Shown, call[c].key)
       IN  /\ i # 0
           /\ \E w \in Times :
                 LET new == Edited(Shown[i], w)
                 IN  Publishing(c, "edit", i, new, [Shown EXCEPT ![i] = new])

\* async_delete_rule; without the rule it is an error, and the form stays
Delete(c) ==
    /\ call[c].phase = "form"
    /\ LET i == Position(Shown, call[c].key)
       IN  i # 0 /\ Publishing(c, "delete", i, Shown[i], Without(Shown, i))

\* mow_regular as the mower takes it: the whole plan, or the change by id, which
\* at most one appointment has
Obeyed(plan, k) ==
    LET at == {i \in DOMAIN plan : plan[i].id = k.entry.id}
    IN  IF ~Incremental THEN k.values
        ELSE IF at = {} THEN IF k.op = "delete" THEN plan ELSE Append(plan, k.entry)
        ELSE IF k.op = "delete" THEN Without(plan, CHOOSE i \in at : TRUE)
        ELSE [i \in DOMAIN plan |-> IF i \in at THEN k.entry ELSE plan[i]]

CommandArrives(c) ==
    /\ call[c].phase = "publishing"
    /\ mower' = Changed(Obeyed(mower.plan, call[c]))
    /\ call' = [call EXCEPT ![c].phase = "applied"]
    /\ UNCHANGED <<family, wire, reported, cached, probed, downloads, notes, count, sound>>

\* the error is shown, and a form stays open
CommandFails(c) ==
    /\ call[c].phase = "publishing" /\ count.fault < MaxFaults
    /\ count' = [count EXCEPT !.fault = @ + 1]
    /\ call' = [call EXCEPT ![c] =
         IF call[c].key = NoKey THEN Idle ELSE [Idle EXCEPT !.phase = "form", !.key = call[c].key]]
    /\ UNCHANGED <<Rest, sound>>

(* Mutant: the annotations of the id before the edit stay. *)
AnnotatedToo(k) ==
    IF k.op = "delete" THEN notes \ {k.key} ELSE notes \cup {Key(k.values[k.at])}

\* the annotations of an edited rule move to the id it has now
Annotated(k) ==
    IF k.op = "delete" THEN notes \ {k.key}
    ELSE (notes \ {k.key}) \cup {Key(k.values[k.at])}

\* what was computed before the command becomes the mirror
CallReturns(c) ==
    /\ call[c].phase = "applied"
    /\ Publish(call[c].values, reported.revision, call[c].values)
    /\ notes' = Annotated(call[c])
    /\ call' = [call EXCEPT ![c] = Idle]
    /\ UNCHANGED <<family, mower, wire, probed, downloads, count, sound>>

\* Home Assistant starts anew, with the options and with nothing reported yet;
\* forms are the card's
Restart ==
    /\ count.restart < MaxRestarts
    /\ count' = [count EXCEPT !.restart = @ + 1]
    /\ wire' = <<>>
    /\ reported' = [plan |-> <<>>, revision |-> 0]
    /\ cached' = <<>>
    /\ probed' = [revision |-> 0, recent |-> FALSE]
    /\ downloads' = {}
    /\ call' = [c \in Callers |-> IF call[c].phase = "form" THEN call[c] ELSE Idle]
    /\ sound' = (sound /\ ~\E c \in Callers : UnderWay(c))
    /\ UNCHANGED <<family, mower, notes>>

-----------------------------------------------------------------------------
Next ==
    \/ AppEdits \/ Report \/ ReportArrives
    \/ ProbeStarts \/ ProbeEnds \/ ProbeFails \/ RetryIsDue \/ Restart
    \/ \E c \in Callers :
          \/ OpenForm(c) \/ CloseForm(c) \/ Add(c) \/ Edit(c) \/ Delete(c)
          \/ CommandArrives(c) \/ CommandFails(c) \/ CallReturns(c)

\* The interval runs, requests are answered, the mower reports.
Fairness ==
    /\ WF_vars(Report) /\ WF_vars(ReportArrives)
    /\ WF_vars(ProbeStarts) /\ WF_vars(ProbeEnds) /\ WF_vars(RetryIsDue)
    /\ \A c \in Callers : WF_vars(CommandArrives(c)) /\ WF_vars(CallReturns(c))

Spec == Init /\ [][Next]_vars /\ Fairness

-----------------------------------------------------------------------------
\* What an edit may make of the plan `old'.
ChangesTheTarget(k, old, new) ==
    LET Is(i) == i \in DOMAIN old /\ ~old[i].locked /\ Key(old[i]) = k.key
    IN  /\ k.base = old /\ k.op = "add" =>
              \E e \in Entries : new = Append(old, e) /\ e.extra = 0
        /\ k.base = old /\ k.op = "edit" =>
              \E i \in DOMAIN old :
                  /\ Is(i) /\ Len(new) = Len(old)
                  /\ \A j \in DOMAIN old \ {i} : new[j] = old[j]
                  /\ new[i].id = old[i].id /\ new[i].extra = old[i].extra
        /\ k.base = old /\ k.op = "delete" =>
              \E i \in DOMAIN old : Is(i) /\ new = Without(old, i)
        /\ Incremental /\ k.op # "add" =>
              \A i \in DOMAIN old : Is(i) \/ \E j \in DOMAIN new : new[j] = old[i]

\* An edit that reaches the plan it was computed from changes the rule that was
\* meant and no other, and keeps what Home Assistant does not know of it ("settings
\* are never lost when Home Assistant edits a rule"); and where changes are sent,
\* an old picture of the plan does no harm to other rules either.
OnlyTheTarget ==
    [][\A c \in Callers :
        call[c].phase = "publishing" /\ call'[c].phase = "applied" =>
          ChangesTheTarget(call[c], mower.plan, mower'.plan)]_vars

\* No annotation is left behind that another rule could inherit: while only Home
\* Assistant edits, from what the mower has, the annotations are those of rules of
\* the mower, although an edit changes the id of a rule without one of its own.
NoOrphans ==
    sound /\ (\A c \in Callers : call[c].phase # "applied") =>
        notes \subseteq {Key(mower.plan[i]) : i \in DOMAIN mower.plan}

KeysOf(plan) == {Key(plan[i]) : i \in DOMAIN plan}

\* For the proofs.  A call under way is the edit of one rule of the plan it was
\* computed from.
EditOfOne(k) ==
    /\ k.entry # <<>>
    /\ k.op = "add" =>
          /\ k.at = Len(k.base) + 1 /\ k.values = Append(k.base, k.entry)
          /\ k.entry.extra = 0 /\ ~k.entry.locked
          /\ Incremental => /\ k.entry.id # NoId
                            /\ \A i \in DOMAIN k.base : k.base[i].id # k.entry.id
    /\ k.op # "add" =>
          /\ k.at \in DOMAIN k.base /\ ~k.base[k.at].locked /\ Key(k.base[k.at]) = k.key
          /\ k.entry.id = k.base[k.at].id /\ k.entry.extra = k.base[k.at].extra
          /\ ~k.entry.locked
    /\ k.op = "edit" => k.values = [k.base EXCEPT ![k.at] = k.entry]
    /\ k.op = "delete" => k.values = Without(k.base, k.at)

CallInv == \A c \in Callers : UnderWay(c) => EditOfOne(call[c])

\* While edits are sound there is one call, and once the mower has obeyed its plan
\* is the one that was computed; the annotations are those of the plan before.
Orderly ==
    /\ \A c, d \in Callers : UnderWay(c) /\ UnderWay(d) => c = d
    /\ \A c \in Callers : call[c].phase = "publishing" => call[c].base = mower.plan
    /\ \A c \in Callers : call[c].phase = "applied" => /\ call[c].values = mower.plan
                                                       /\ notes \subseteq KeysOf(call[c].base)
    /\ (\A c \in Callers : call[c].phase # "applied") => notes \subseteq KeysOf(mower.plan)

OrphanInv == sound => Orderly

\* The plans that anybody has or computes from.
Known ==
    {wire[i].plan : i \in DOMAIN wire} \cup {reported.plan, cached}
      \cup {d.plan : d \in downloads}
      \cup {call[c].base : c \in {d \in Callers : UnderWay(d)}}
      \cup {call[c].values : c \in {d \in Callers : call[d].phase = "applied"}}

\* An id never becomes locked: who sees it free, in however old a plan, is right.
Agrees(plan, now) ==
    /\ HaveIds(plan)
    /\ \A i \in DOMAIN plan, j \in DOMAIN now :
          plan[i].id = now[j].id /\ now[j].locked => plan[i].locked

LockInv == Incremental => \A plan \in Known \cup {mower.plan} : Agrees(plan, mower.plan)

\* Once nobody edits any more, Home Assistant comes to show the plan the mower has,
\* through failing downloads and restarts; except that it does not believe a report
\* of an empty plan.
MirrorFollows ==
    <>[](\/ Shown = mower.plan
         \/ family.report = "plan" /\ mower.plan = <<>>)
=============================================================================
