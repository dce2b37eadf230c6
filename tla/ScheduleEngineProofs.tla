------------------------- MODULE ScheduleEngineProofs -------------------------
(***************************************************************************)
(* Type correctness of the schedule engine, and that it starts a delayed   *)
(* run once.                                                               *)
(***************************************************************************)
EXTENDS ScheduleEngine, WellFoundedInduction, TLAPS

(* The least of some rules is one of them. *)
LEMMA MinOfRules ==
  ASSUME ScheduleAssumption, NEW S \in SUBSET Rules, S # {}
  PROVE  Min(S) \in S
<1> DEFINE R == OpToRel(<, Nat)
<1>1. S \subseteq Nat
  BY DEF Rules, ScheduleAssumption
<1>2. PICK x \in S : \A y \in S : ~(<<y, x>> \in R)
  <2>1. IsWellFoundedOn(R, Nat)
    BY NatLessThanWellFounded
  <2> HIDE DEF R
  <2> QED
    BY <1>1, <2>1, WFMin
<1>3. R = {s \in Nat \X Nat : s[1] < s[2]}
  BY DEF OpToRel
<1> HIDE DEF R
<1>4. ASSUME NEW y \in S PROVE x <= y
  <2>1. x \in Nat /\ y \in Nat /\ ~(y < x)
    BY <1>1, <1>2, <1>3
  <2> QED
    BY <2>1
<1> QED
  BY <1>2, <1>4 DEF Min

(* Snapshots are functions from some of the rules to their marks. *)
LEMMA SnapshotIsFunction ==
  ASSUME NEW f \in Snapshot
  PROVE  DOMAIN f \in SUBSET Rules /\ f \in [DOMAIN f -> Mark]
  BY DEF Snapshot

LEMMA FunctionIsSnapshot ==
  ASSUME NEW D \in SUBSET Rules, NEW f \in [D -> Mark]
  PROVE  f \in Snapshot
  BY DEF Snapshot

LEMMA MarkFields ==
  ASSUME NEW k \in Mark
  PROVE  /\ k.conf \in Conf
         /\ k.fired \in Minutes \cup {Never} /\ k.pending \in Time \cup {Never}
  BY DEF Mark

LEMMA FiredMark ==
  ASSUME NEW k \in Mark, NEW n \in Minutes
  PROVE  LET e == [k EXCEPT !.fired = n] IN
           /\ e \in Mark /\ e.conf = k.conf
           /\ e.fired = n /\ e.pending = k.pending
  BY DEF Mark

LEMMA PendingMark ==
  ASSUME NEW k \in Mark, NEW p \in Time \cup {Never}
  PROVE  LET e == [k EXCEPT !.pending = p] IN
           /\ e \in Mark /\ e.conf = k.conf
           /\ e.fired = k.fired /\ e.pending = p
  BY DEF Mark

LEMMA MinuteOf ==
  ASSUME ScheduleAssumption, NEW n \in Time
  PROVE  Minute(n) \in Minutes
  BY DEF ScheduleAssumption, Minute, Minutes, Time

LEMMA TickShape ==
  ASSUME NEW k \in Tick
  PROVE  /\ k.pc = "parked"
              => /\ k.at \in Time /\ k.rules \in Snapshot /\ k.due \subseteq Rules
         /\ k.pc \in {"forecast", "delayed", "recall"}
              => /\ k.at \in Time /\ k.rules \in Snapshot /\ k.rule \in Rules
                 /\ k = [pc |-> k.pc, at |-> k.at, rules |-> k.rules,
                         rule |-> k.rule]
         /\ k.pc = "starting" => k.at \in Time /\ k.rule \in Rules
  BY DEF Tick

-----------------------------------------------------------------------------
(* What the helpers of the engine return. *)

LEMMA SavedMarks ==
  ASSUME NEW rules \in Snapshot
  PROVE  /\ Saved(rules) \in [Rules -> Mark]
         /\ \A r \in DOMAIN rules : Saved(rules)[r] = rules[r]
<1>1. DOMAIN rules \in SUBSET Rules /\ \A r \in DOMAIN rules : rules[r] \in Mark
  BY SnapshotIsFunction
<1>2. Blank \in Mark
  BY DEF Blank, Mark, Conf
<1> QED
  BY <1>1, <1>2 DEF Saved

LEMMA SnapMarks ==
  ASSUME RuleTypes
  PROVE  /\ Snap \in Snapshot /\ DOMAIN Snap = plan
         /\ \A r \in plan : Snap[r] = meta[r] /\ meta[r] \in Mark
<1>1. Snap = [r \in plan |-> meta[r]]
  BY DEF Snap, Restrict
<1>2. Snap \in [plan -> Mark]
  BY <1>1 DEF RuleTypes
<1> QED
  BY <1>1, <1>2, FunctionIsSnapshot DEF RuleTypes

LEMMA ReplacedMark ==
  ASSUME NEW rules \in Snapshot, NEW r \in DOMAIN rules, NEW k \in Mark
  PROVE  LET new == [rules EXCEPT ![r] = k] IN
           /\ new \in Snapshot /\ DOMAIN new = DOMAIN rules
           /\ new[r] = k
           /\ \A x \in DOMAIN rules \ {r} : new[x] = rules[x]
<1> DEFINE new == [rules EXCEPT ![r] = k]
<1>1. DOMAIN rules \in SUBSET Rules /\ rules \in [DOMAIN rules -> Mark]
  BY SnapshotIsFunction
<1>2. new \in [DOMAIN rules -> Mark]
  BY <1>1
<1>3. new \in Snapshot
  BY <1>1, <1>2, FunctionIsSnapshot
<1> QED
  BY <1>1, <1>2, <1>3

LEMMA WithPendingMarks ==
  ASSUME NEW rules \in Snapshot, NEW r \in DOMAIN rules,
         NEW p \in Time \cup {Never}
  PROVE  LET new == WithPending(rules, r, p) IN
           /\ new \in Snapshot /\ DOMAIN new = DOMAIN rules
           /\ new[r].pending = p /\ new[r].fired = rules[r].fired
           /\ \A x \in DOMAIN rules \ {r} : new[x] = rules[x]
<1> DEFINE e == [rules[r] EXCEPT !.pending = p]
<1>1. rules[r] \in Mark
  BY SnapshotIsFunction
<1>2. e \in Mark /\ e.pending = p /\ e.fired = rules[r].fired
  BY <1>1, PendingMark
<1>3. WithPending(rules, r, p) = [rules EXCEPT ![r] = e]
  BY DEF WithPending
<1> HIDE DEF e
<1>4. LET new == [rules EXCEPT ![r] = e] IN
        /\ new \in Snapshot /\ DOMAIN new = DOMAIN rules
        /\ new[r] = e
        /\ \A x \in DOMAIN rules \ {r} : new[x] = rules[x]
  BY <1>2, ReplacedMark
<1> QED
  BY <1>2, <1>3, <1>4

LEMMA FiredMarks ==
  ASSUME NEW rules \in Snapshot, NEW r \in DOMAIN rules, NEW n \in Minutes
  PROVE  LET new == [rules EXCEPT ![r] = [rules[r] EXCEPT !.fired = n]] IN
           /\ new \in Snapshot /\ DOMAIN new = DOMAIN rules
           /\ new[r].pending = rules[r].pending /\ new[r].fired = n
           /\ \A x \in DOMAIN rules \ {r} : new[x] = rules[x]
<1> DEFINE e == [rules[r] EXCEPT !.fired = n]
<1>1. rules[r] \in Mark
  BY SnapshotIsFunction
<1>2. e \in Mark /\ e.pending = rules[r].pending /\ e.fired = n
  BY <1>1, FiredMark
<1> HIDE DEF e
<1>3. LET new == [rules EXCEPT ![r] = e] IN
        /\ new \in Snapshot /\ DOMAIN new = DOMAIN rules
        /\ new[r] = e
        /\ \A x \in DOMAIN rules \ {r} : new[x] = rules[x]
  BY <1>2, ReplacedMark
<1> QED
  BY <1>2, <1>3 DEF e

LEMMA SkippedMarks ==
  ASSUME ScheduleAssumption, NEW rules \in Snapshot, NEW due, NEW at \in Time,
         meta \in [Rules -> Mark], MarkSkipped(rules, due, at)
  PROVE  meta' \in [Rules -> Mark]
<1> DEFINE f == [r \in DOMAIN rules |->
                   IF r \in due THEN [rules[r] EXCEPT !.fired = Minute(at)]
                   ELSE rules[r]]
<1>1. DOMAIN rules \in SUBSET Rules
  BY SnapshotIsFunction
<1>2. ASSUME NEW r \in DOMAIN rules PROVE f[r] \in Mark
  <2>1. rules[r] \in Mark /\ Minute(at) \in Minutes
    BY SnapshotIsFunction, MinuteOf
  <2>2. [rules[r] EXCEPT !.fired = Minute(at)] \in Mark
    BY <2>1, FiredMark
  <2> QED
    BY <2>1, <2>2
<1>3. f \in [DOMAIN rules -> Mark]
  BY <1>2
<1>4. f \in Snapshot
  BY <1>1, <1>3, FunctionIsSnapshot
<1>5. meta' = meta \/ meta' = Saved(f)
  BY DEF MarkSkipped
<1> HIDE DEF f
<1> QED
  BY <1>4, <1>5, SavedMarks

LEMMA HoldTypes ==
  ASSUME ScheduleAssumption, RuleTypes, NEW t, NEW rules \in Snapshot,
         NEW r \in DOMAIN rules, NEW at \in Time, Hold(t, rules, r, at)
  PROVE  /\ meta' \in [Rules -> Mark]
         /\ DOMAIN check' \subseteq Rules \X Time
         /\ \A o \in DOMAIN check' : check'[o] \in Nat
         /\ Becomes(t, [pc |-> "wet"])
<1>1. WithPending(rules, r, at) \in Snapshot /\ r \in Rules
  BY WithPendingMarks, SnapshotIsFunction
<1>2. at + Recheck \in Nat
  BY DEF ScheduleAssumption, Time
<1>3. \/ meta' = Saved(rules) /\ check' = check
      \/ /\ meta' = Saved(WithPending(rules, r, at))
         /\ check' = [o \in DOMAIN check \cup {<<r, at>>} |->
                         IF o = <<r, at>> THEN at + Recheck ELSE check[o]]
  BY DEF Hold
<1>4. meta' \in [Rules -> Mark]
  BY <1>1, <1>3, SavedMarks
<1>5. /\ DOMAIN check' \subseteq Rules \X Time
      /\ \A o \in DOMAIN check' : check'[o] \in Nat
  BY <1>1, <1>2, <1>3 DEF RuleTypes
<1> QED
  BY <1>4, <1>5 DEF Hold

LEMMA PutOffTypes ==
  ASSUME ScheduleAssumption, RuleTypes, NEW rules \in Snapshot, NEW r,
         NEW at \in Time, PutOff(rules, r, at)
  PROVE  /\ meta' = Saved(rules) /\ meta' \in [Rules -> Mark]
         /\ DOMAIN check' \subseteq Rules \X Time
         /\ \A o \in DOMAIN check' : check'[o] \in Nat
<1>1. at + Recheck \in Nat
  BY DEF ScheduleAssumption, Time
<1>2. /\ DOMAIN check' = DOMAIN check
      /\ \A o \in DOMAIN check : check'[o] = check[o] \/ check'[o] = at + Recheck
  BY DEF PutOff
<1> QED
  BY <1>1, <1>2, SavedMarks DEF PutOff, RuleTypes

LEMMA LaunchTypes ==
  ASSUME RuleTypes, NEW t, NEW rules \in Snapshot, NEW r \in DOMAIN rules,
         rules[r].pending # Never, Launch(t, rules, r)
  PROVE  /\ meta' = Saved(WithPending(rules, r, Never))
         /\ meta' \in [Rules -> Mark] /\ check' = check
         /\ rules[r].pending \in Time /\ r \in Rules
         /\ Becomes(t, [pc |-> "starting", at |-> rules[r].pending, rule |-> r])
<1>1. WithPending(rules, r, Never) \in Snapshot
  BY WithPendingMarks
<1>2. r \in Rules /\ rules[r] \in Mark
  BY SnapshotIsFunction
<1> QED
  BY <1>1, <1>2, SavedMarks, MarkFields DEF Launch

LEMMA DueRule ==
  ASSUME ScheduleAssumption, RuleTypes, now \in Time, Due # {}
  PROVE  LET r == Min(Due) IN
           /\ r \in Due /\ r \in plan /\ r \in Rules
           /\ Fired(r) \in Snapshot /\ DOMAIN Fired(r) = plan
           /\ Fired(r)[r].pending = meta[r].pending
           /\ Fired(r)[r].fired = Minute(now)
           /\ \A x \in plan \ {r} : Fired(r)[x] = meta[x]
<1> DEFINE r == Min(Due)
<1>1. r \in Due /\ r \in plan /\ r \in Rules
  BY MinOfRules DEF Due, RuleTypes
<1> HIDE DEF r
<1>2. /\ Snap \in Snapshot /\ DOMAIN Snap = plan
      /\ \A x \in plan : Snap[x] = meta[x]
  BY SnapMarks
<1>3. Minute(now) \in Minutes
  BY MinuteOf
<1>4. LET new == [Snap EXCEPT ![r] = [Snap[r] EXCEPT !.fired = Minute(now)]] IN
        /\ new \in Snapshot /\ DOMAIN new = DOMAIN Snap
        /\ new[r].pending = Snap[r].pending /\ new[r].fired = Minute(now)
        /\ \A x \in DOMAIN Snap \ {r} : new[x] = Snap[x]
  BY <1>1, <1>2, <1>3, FiredMarks
<1>5. /\ Fired(r) \in Snapshot /\ DOMAIN Fired(r) = plan
      /\ Fired(r)[r].pending = meta[r].pending
      /\ Fired(r)[r].fired = Minute(now)
      /\ \A x \in plan \ {r} : Fired(r)[x] = meta[x]
  BY <1>1, <1>2, <1>4 DEF Fired
<1> QED
  BY <1>1, <1>5 DEF r

LEMMA PrunedMarks ==
  ASSUME RuleTypes
  PROVE  /\ Pruned \in Snapshot /\ DOMAIN Pruned = plan
         /\ \A x \in plan : /\ Pruned[x].fired = meta[x].fired
                            /\ Pruned[x].pending \in {meta[x].pending, Never}
                            /\ x \notin Gone => Pruned[x] = meta[x]
<1>1. /\ Snap \in Snapshot /\ DOMAIN Snap = plan
      /\ \A x \in plan : Snap[x] = meta[x] /\ meta[x] \in Mark
  BY SnapMarks
<1>2. ASSUME NEW x \in plan
      PROVE  /\ Pruned[x] \in Mark
             /\ Pruned[x].fired = meta[x].fired
             /\ Pruned[x].pending \in {meta[x].pending, Never}
             /\ x \notin Gone => Pruned[x] = meta[x]
  <2> DEFINE e == [Snap[x] EXCEPT !.pending = Never]
  <2>1. e \in Mark /\ e.fired = meta[x].fired /\ e.pending = Never
    BY <1>1, PendingMark
  <2>2. Pruned[x] = IF x \in Gone THEN e ELSE Snap[x]
    BY DEF Pruned
  <2> HIDE DEF e
  <2> QED
    BY <1>1, <2>1, <2>2
<1>3. Pruned \in [plan -> Mark] /\ plan \in SUBSET Rules
  BY <1>2 DEF Pruned, RuleTypes
<1>4. Pruned \in Snapshot
  BY <1>3, FunctionIsSnapshot
<1> QED
  BY <1>2, <1>3, <1>4

(* The rule whose weather is looked at again is pending and not dropped. *)
LEMMA OpenRule ==
  ASSUME ScheduleAssumption, RuleTypes, ToCheck(Snap, now) # {}
  PROVE  LET r == Min(ToCheck(Snap, now)) IN
           /\ r \in plan /\ r \in Rules
           /\ Pruned[r] = meta[r] /\ Pruned[r].pending # Never
<1> DEFINE open == ToCheck(Snap, now)
           r == Min(open)
<1>1. DOMAIN Snap = plan /\ \A x \in plan : Snap[x] = meta[x]
  BY SnapMarks
<1>2. open \subseteq plan /\ \A x \in open : meta[x].pending # Never
  BY <1>1 DEF ToCheck, Waiting
<1>3. r \in open
  BY <1>2, MinOfRules DEF RuleTypes
<1> HIDE DEF r
<1>4. r \in plan /\ meta[r].pending # Never
  BY <1>2, <1>3
<1>7. r \in Rules
  BY <1>4 DEF RuleTypes
<1>8. r \in Int
  BY <1>7 DEF Rules, ScheduleAssumption
<1>5. r \notin Gone
  <2>1. r \in Gone => r < r
    BY <1>3 DEF Gone
  <2> QED
    BY <1>8, <2>1
<1>6. Pruned[r] = meta[r]
  BY <1>4, <1>5, PrunedMarks
<1> QED
  BY <1>4, <1>6, <1>7 DEF r

LEMMA DropGoneTypes ==
  ASSUME RuleTypes, DropGone
  PROVE  meta' \in [Rules -> Mark]
<1>1. meta' = meta \/ meta' = Saved(Pruned)
  BY DEF DropGone
<1> QED
  BY <1>1, PrunedMarks, SavedMarks DEF RuleTypes

-----------------------------------------------------------------------------
(* Types. *)

(* The rule a tick works on is in its snapshot, and pending unless it has just
   become due. *)
LocalOK(k) ==
  k.pc \in {"forecast", "delayed", "recall"} =>
    /\ k.rule \in DOMAIN k.rules
    /\ k.pc # "forecast" => k.rules[k.rule].pending # Never
LocalsOK == \A t \in Ticks : LocalOK(tick[t])

LEMMA BecomesKeeps ==
  ASSUME tick \in [Ticks -> Tick], LocalsOK, NEW t \in Ticks, NEW k \in Tick,
         LocalOK(k), Becomes(t, k)
  PROVE  tick' \in [Ticks -> Tick] /\ LocalsOK'
<1>1. tick' = [tick EXCEPT ![t] = k]
  BY DEF Becomes
<1>2. tick' \in [Ticks -> Tick]
  BY <1>1
<1>3. \A u \in Ticks : tick'[u] = k \/ tick'[u] = tick[u]
  BY <1>1
<1> QED
  BY <1>2, <1>3 DEF LocalsOK

(* What a tick does to the plan's marks and to itself is well typed. *)
LEMMA TickTypes ==
  ASSUME ScheduleAssumption, TypeOK, LocalsOK, NEW t \in Ticks, TickGoesOn(t)
  PROVE  RuleTypes' /\ tick' \in [Ticks -> Tick] /\ LocalsOK'
<1> DEFINE k == tick[t]
<1>1. /\ k \in Tick /\ LocalOK(k) /\ RuleTypes /\ now \in Time
      /\ tick \in [Ticks -> Tick] /\ plan \subseteq Rules
      /\ meta \in [Rules -> Mark]
  BY DEF TypeOK, LocalsOK, RuleTypes, MowerTypes
<1>2. /\ Snap \in Snapshot /\ DOMAIN Snap = plan
      /\ \A r \in plan : Snap[r] = meta[r] /\ meta[r] \in Mark
  BY <1>1, SnapMarks
<1>3. \A x \in Tick : LocalOK(x) /\ Becomes(t, x)
                        => tick' \in [Ticks -> Tick] /\ LocalsOK'
  BY <1>1, BecomesKeeps
<1>4. Idle \in Tick /\ LocalOK(Idle)
  BY DEF Tick, Idle, LocalOK
<1>5. ASSUME meta' \in [Rules -> Mark], plan' = plan,
             DOMAIN check' \subseteq Rules \X Time,
             \A o \in DOMAIN check' : check'[o] \in Nat
      PROVE  RuleTypes'
  BY <1>1, <1>5 DEF RuleTypes
<1>6. ASSUME UNCHANGED <<meta, check, plan>> PROVE RuleTypes'
  BY <1>1, <1>6 DEF RuleTypes
<1>7. [pc |-> "wet"] \in Tick /\ LocalOK([pc |-> "wet"])
  BY DEF Tick, LocalOK
<1> HIDE DEF k
<1>10. CASE OverrideExpires(t)
  <2>1. [pc |-> "expired"] \in Tick /\ LocalOK([pc |-> "expired"])
    BY DEF Tick, LocalOK
  <2>2. Becomes(t, [pc |-> "expired"]) \/ Becomes(t, Idle)
    BY <1>10 DEF OverrideExpires
  <2>3. UNCHANGED <<meta, check, plan>>
    BY <1>10 DEF OverrideExpires, planVars
  <2> QED
    BY <1>3, <1>4, <1>6, <2>1, <2>2, <2>3
<1>11. CASE OverrideHolds(t)
  <2> DEFINE p == [pc |-> "parked", at |-> now, rules |-> Snap, due |-> Due]
  <2>1. p \in Tick /\ LocalOK(p)
    <3>1. Due \subseteq Rules
      BY <1>1 DEF Due
    <3> QED
      BY <1>1, <1>2, <3>1 DEF Tick, LocalOK
  <2>2. UNCHANGED <<check, plan>>
    BY <1>11 DEF OverrideHolds
  <2>3. CASE Becomes(t, p) /\ UNCHANGED meta
    <3> HIDE DEF p
    <3> QED
      BY <1>3, <1>6, <2>1, <2>2, <2>3
  <2>4. CASE Becomes(t, Idle) /\ MarkSkipped(Snap, Due, now)
    <3>1. meta' \in [Rules -> Mark]
      BY <1>1, <1>2, <2>4, SkippedMarks
    <3> QED
      BY <1>1, <1>3, <1>4, <1>5, <2>2, <2>4, <3>1 DEF RuleTypes
  <2> QED
    BY <1>11, <2>3, <2>4 DEF OverrideHolds
<1>12. CASE RuleIsDue(t)
  <2> DEFINE r == Min(Due)
             f == [pc |-> "forecast", at |-> now, rules |-> Fired(r), rule |-> r]
  <2>1. /\ Due # {} /\ UNCHANGED plan
        /\ \/ Hold(t, Fired(r), r, now)
           \/ meta' = Saved(Fired(r)) /\ UNCHANGED check
              /\ (Becomes(t, f) \/ Becomes(t, Idle))
    BY <1>12 DEF RuleIsDue
  <2>2. r \in Rules /\ Fired(r) \in Snapshot /\ r \in DOMAIN Fired(r)
    BY <1>1, <2>1, DueRule
  <2> HIDE DEF r
  <2>3. f \in Tick /\ LocalOK(f)
    BY <1>1, <2>2 DEF Tick, LocalOK
  <2> HIDE DEF f
  <2>4. CASE Hold(t, Fired(r), r, now)
    <3>1. /\ meta' \in [Rules -> Mark]
          /\ DOMAIN check' \subseteq Rules \X Time
          /\ \A o \in DOMAIN check' : check'[o] \in Nat
          /\ Becomes(t, [pc |-> "wet"])
      BY <1>1, <2>2, <2>4, HoldTypes
    <3> QED
      BY <1>3, <1>5, <1>7, <2>1, <3>1
  <2>5. CASE meta' = Saved(Fired(r)) /\ UNCHANGED check
             /\ (Becomes(t, f) \/ Becomes(t, Idle))
    <3>1. meta' \in [Rules -> Mark]
      BY <2>2, <2>5, SavedMarks
    <3> QED
      BY <1>1, <1>3, <1>4, <1>5, <2>1, <2>3, <2>5, <3>1 DEF RuleTypes
  <2> QED
    BY <2>1, <2>4, <2>5
<1>13. CASE NothingIsDue(t)
  <2> DEFINE r == Min(ToCheck(Snap, now))
             d == [pc |-> "delayed", at |-> now, rules |-> Pruned, rule |-> r]
  <2>1. /\ UNCHANGED plan
        /\ \/ Becomes(t, Idle) /\ UNCHANGED <<meta, check>>
           \/ Becomes(t, Idle) /\ DropGone /\ UNCHANGED check
           \/ /\ ToCheck(Snap, now) # {}
              /\ \/ PutOff(Pruned, r, now) /\ Becomes(t, Idle)
                 \/ DropGone /\ UNCHANGED check /\ Becomes(t, d)
                 \/ Launch(t, Pruned, r)
    BY <1>13 DEF NothingIsDue
  <2>2. Pruned \in Snapshot /\ DOMAIN Pruned = plan
    BY <1>1, PrunedMarks
  <2>3. CASE Becomes(t, Idle) /\ UNCHANGED <<meta, check>>
    BY <1>3, <1>4, <1>6, <2>1, <2>3
  <2>4. CASE Becomes(t, Idle) /\ DropGone /\ UNCHANGED check
    <3>1. meta' \in [Rules -> Mark]
      BY <1>1, <2>4, DropGoneTypes
    <3> QED
      BY <1>1, <1>3, <1>4, <1>5, <2>1, <2>4, <3>1 DEF RuleTypes
  <2>5. ASSUME ToCheck(Snap, now) # {}
        PROVE  /\ r \in Rules /\ r \in DOMAIN Pruned /\ Pruned[r].pending # Never
               /\ d \in Tick /\ LocalOK(d)
    <3>1. r \in Rules /\ r \in DOMAIN Pruned /\ Pruned[r].pending # Never
      BY <1>1, <2>2, <2>5, OpenRule
    <3> HIDE DEF r
    <3> QED
      BY <1>1, <2>2, <3>1 DEF Tick, LocalOK
  <2> HIDE DEF r, d
  <2>6. CASE ToCheck(Snap, now) # {} /\ PutOff(Pruned, r, now) /\ Becomes(t, Idle)
    <3>1. /\ meta' \in [Rules -> Mark]
          /\ DOMAIN check' \subseteq Rules \X Time
          /\ \A o \in DOMAIN check' : check'[o] \in Nat
      BY <1>1, <2>2, <2>6, PutOffTypes
    <3> QED
      BY <1>3, <1>4, <1>5, <2>1, <2>6, <3>1
  <2>7. CASE ToCheck(Snap, now) # {} /\ DropGone /\ UNCHANGED check
             /\ Becomes(t, d)
    <3>1. meta' \in [Rules -> Mark]
      BY <1>1, <2>7, DropGoneTypes
    <3> QED
      BY <1>1, <1>3, <1>5, <2>1, <2>5, <2>7, <3>1 DEF RuleTypes
  <2>8. CASE ToCheck(Snap, now) # {} /\ Launch(t, Pruned, r)
    <3> DEFINE e == [pc |-> "starting", at |-> Pruned[r].pending, rule |-> r]
    <3>1. /\ meta' \in [Rules -> Mark] /\ check' = check
          /\ Pruned[r].pending \in Time /\ Becomes(t, e)
      BY <1>1, <2>2, <2>5, <2>8, LaunchTypes
    <3>2. e \in Tick /\ LocalOK(e)
      BY <2>5, <2>8, <3>1 DEF Tick, LocalOK
    <3> HIDE DEF e
    <3> QED
      BY <1>1, <1>3, <1>5, <2>1, <3>1, <3>2 DEF RuleTypes
  <2> QED
    BY <2>1, <2>3, <2>4, <2>6, <2>7, <2>8
<1>14. CASE DueForecast(t)
  <2>1. /\ k.pc = "forecast" /\ UNCHANGED plan
        /\ \/ Hold(t, k.rules, k.rule, k.at)
           \/ Becomes(t, Idle) /\ UNCHANGED <<meta, check>>
    BY <1>14 DEF DueForecast, k
  <2>2. k.at \in Time /\ k.rules \in Snapshot /\ k.rule \in DOMAIN k.rules
    BY <1>1, <2>1, TickShape DEF LocalOK
  <2>3. CASE Hold(t, k.rules, k.rule, k.at)
    <3>1. /\ meta' \in [Rules -> Mark]
          /\ DOMAIN check' \subseteq Rules \X Time
          /\ \A o \in DOMAIN check' : check'[o] \in Nat
          /\ Becomes(t, [pc |-> "wet"])
      BY <1>1, <2>2, <2>3, HoldTypes
    <3> QED
      BY <1>3, <1>5, <1>7, <2>1, <3>1
  <2> QED
    BY <1>3, <1>4, <1>6, <2>1, <2>3
<1>15. CASE DelayedForecast(t)
  <2>1. /\ k.pc = "delayed" /\ UNCHANGED plan
        /\ \/ Becomes(t, [k EXCEPT !.pc = "recall"]) /\ UNCHANGED <<meta, check>>
           \/ PutOff(k.rules, k.rule, k.at) /\ Becomes(t, Idle)
           \/ Launch(t, k.rules, k.rule)
    BY <1>15 DEF DelayedForecast, k
  <2>2. /\ k.at \in Time /\ k.rules \in Snapshot /\ k.rule \in DOMAIN k.rules
        /\ k.rule \in Rules /\ k.rules[k.rule].pending # Never
        /\ k = [pc |-> "delayed", at |-> k.at, rules |-> k.rules, rule |-> k.rule]
    BY <1>1, <2>1, TickShape DEF LocalOK
  <2>3. CASE Becomes(t, [k EXCEPT !.pc = "recall"]) /\ UNCHANGED <<meta, check>>
    <3> DEFINE e == [pc |-> "recall", at |-> k.at, rules |-> k.rules,
                     rule |-> k.rule]
    <3>1. e \in Tick
      BY <2>2 DEF Tick
    <3>2. LocalOK(e)
      BY <2>2 DEF LocalOK
    <3>3. [k EXCEPT !.pc = "recall"] = e
      BY <2>2
    <3> HIDE DEF e
    <3> QED
      BY <1>3, <1>6, <2>1, <2>3, <3>1, <3>2, <3>3
  <2>4. CASE PutOff(k.rules, k.rule, k.at) /\ Becomes(t, Idle)
    <3>1. /\ meta' \in [Rules -> Mark]
          /\ DOMAIN check' \subseteq Rules \X Time
          /\ \A o \in DOMAIN check' : check'[o] \in Nat
      BY <1>1, <2>2, <2>4, PutOffTypes
    <3> QED
      BY <1>3, <1>4, <1>5, <2>1, <2>4, <3>1
  <2>5. CASE Launch(t, k.rules, k.rule)
    <3> DEFINE e == [pc |-> "starting", at |-> k.rules[k.rule].pending,
                     rule |-> k.rule]
    <3>1. /\ meta' \in [Rules -> Mark] /\ check' = check
          /\ k.rules[k.rule].pending \in Time /\ Becomes(t, e)
      BY <1>1, <2>2, <2>5, LaunchTypes
    <3>2. e \in Tick /\ LocalOK(e)
      BY <2>2, <3>1 DEF Tick, LocalOK
    <3> HIDE DEF e
    <3> QED
      BY <1>1, <1>3, <1>5, <2>1, <3>1, <3>2 DEF RuleTypes
  <2> QED
    BY <2>1, <2>3, <2>4, <2>5
<1>16. CASE RunStarts(t)
  BY <1>3, <1>4, <1>6, <1>16 DEF RunStarts, planVars
<1>17. CASE Returns(t)
  <2>1. Becomes(t, Idle) /\ UNCHANGED plan
    BY <1>17 DEF Returns
  <2>2. CASE UNCHANGED <<meta, check>>
    BY <1>3, <1>4, <1>6, <2>1, <2>2
  <2>3. CASE k.pc = "parked" /\ MarkSkipped(k.rules, k.due, k.at)
             /\ UNCHANGED check
    <3>1. meta' \in [Rules -> Mark]
      BY <1>1, <2>3, TickShape, SkippedMarks
    <3> QED
      BY <1>1, <1>3, <1>4, <1>5, <2>1, <2>3, <3>1 DEF RuleTypes
  <2>4. CASE k.pc = "recall" /\ PutOff(k.rules, k.rule, k.at)
    <3>1. /\ meta' \in [Rules -> Mark]
          /\ DOMAIN check' \subseteq Rules \X Time
          /\ \A o \in DOMAIN check' : check'[o] \in Nat
      BY <1>1, <2>4, TickShape, PutOffTypes
    <3> QED
      BY <1>3, <1>4, <1>5, <2>1, <3>1
  <2> QED
    BY <1>17, <2>2, <2>3, <2>4 DEF Returns, k
<1>18. CASE CommandFails(t)
  BY <1>3, <1>4, <1>6, <1>18 DEF CommandFails, planVars
<1> QED
  BY <1>10, <1>11, <1>12, <1>13, <1>14, <1>15, <1>16, <1>17, <1>18
     DEF TickGoesOn

LEMMA SpendTypes ==
  ASSUME ScheduleAssumption, CountTypes, NEW e \in Kinds, Spend(e)
  PROVE  spent' \in [Kinds -> Nat] /\ \A j \in Kinds : spent'[j] <= Budget[j]
<1>1. spent \in [Kinds -> Nat] /\ \A j \in Kinds : spent[j] <= Budget[j]
  BY DEF CountTypes
<1>2. spent[e] + 1 \in Nat /\ spent[e] < Budget[e]
  BY <1>1 DEF Spend
<1>3. spent' = [spent EXCEPT ![e] = spent[e] + 1]
  BY DEF Spend
<1>4. spent' \in [Kinds -> Nat]
  BY <1>1, <1>2, <1>3
<1>5. ASSUME NEW j \in Kinds PROVE spent'[j] <= Budget[j]
  <2>1. CASE j = e
    <3>1. spent'[j] = spent[e] + 1 /\ spent[e] \in Nat
      BY <1>1, <1>3, <2>1
    <3> QED
      BY <1>2, <2>1, <3>1 DEF ScheduleAssumption
  <2>2. CASE j # e
    BY <1>1, <1>3, <2>2
  <2> QED
    BY <2>1, <2>2
<1> QED
  BY <1>4, <1>5

(* Going home and commands leave the mower in one of its states. *)
LEMMA TickRest ==
  ASSUME ScheduleAssumption, TypeOK, NEW t \in Ticks, TickGoesOn(t)
  PROVE  MowerTypes' /\ UserTypes' /\ CountTypes'
<1>1. /\ UNCHANGED <<now, served, seen, weather, call, editor>>
      /\ mower' \in {mower, "mowing", "returning"}
      /\ override' \in {override, NoOverride}
  BY DEF TickGoesOn, OverrideExpires, OverrideHolds, RuleIsDue, NothingIsDue,
    DueForecast, DelayedForecast, RunStarts, Returns, CommandFails, mowerVars,
    userVars, GoHome
<1>2. MowerTypes'
  BY <1>1 DEF TypeOK, MowerTypes
<1>3. UserTypes'
  BY <1>1 DEF TypeOK, UserTypes
<1>4. CountTypes'
  <2>1. CASE RunStarts(t)
    <3>1. tick[t].at \in Time /\ tick[t].rule \in Rules
      BY <2>1, TickShape DEF RunStarts, TypeOK
    <3> QED
      BY <2>1, <3>1 DEF RunStarts, TypeOK, CountTypes
  <2>2. CASE CommandFails(t)
    BY <2>2, SpendTypes DEF CommandFails, TypeOK, CountTypes, Kinds
  <2>3. CASE UNCHANGED <<begun, spent>>
    BY <2>3 DEF TypeOK, CountTypes
  <2> QED
    BY <2>1, <2>2, <2>3 DEF TickGoesOn, OverrideExpires, OverrideHolds,
      RuleIsDue, NothingIsDue, DueForecast, DelayedForecast, Returns
<1> QED
  BY <1>2, <1>3, <1>4

LEMMA EditorShape ==
  ASSUME NEW e \in Editor, e # Idle
  PROVE  e.rule \in Rules /\ (e.pc = "adding" => e.mark \in Mark)
  BY DEF Editor, Idle

LEMMA EditedRules ==
  ASSUME RuleTypes, editor \in Editor, editor # Idle
  PROVE  Edited \subseteq Rules
  BY EditorShape DEF Edited, RuleTypes

(* Idle ticks are well typed, and so are all once Home Assistant has started. *)
LEMMA IdleTicks ==
  ASSUME tick' = [t \in Ticks |-> Idle]
  PROVE  tick' \in [Ticks -> Tick] /\ LocalsOK'
<1>1. Idle \in Tick /\ LocalOK(Idle)
  BY DEF Tick, Idle, LocalOK
<1> QED
  BY <1>1 DEF LocalsOK

LEMMA TypeInit ==
  ASSUME ScheduleAssumption, Init
  PROVE  TypeOK /\ LocalsOK
<1>1. MowerTypes
  BY DEF Init, MowerTypes, ScheduleAssumption, Time
<1>2. RuleTypes
  <2>1. \A c \in Conf : [Blank EXCEPT !.conf = c] \in Mark
    BY DEF Blank, Mark, Conf
  <2> QED
    BY <2>1 DEF Init, RuleTypes
<1>3. UserTypes
  BY DEF Init, UserTypes, Editor, Idle
<1>4. CountTypes
  BY DEF Init, CountTypes, ScheduleAssumption
<1>5. tick \in [Ticks -> Tick] /\ LocalsOK
  <2>1. Idle \in Tick /\ LocalOK(Idle)
    BY DEF Tick, Idle, LocalOK
  <2> QED
    BY <2>1 DEF Init, LocalsOK
<1> QED
  BY <1>1, <1>2, <1>3, <1>4, <1>5 DEF TypeOK

LEMMA TypeStep ==
  ASSUME ScheduleAssumption, TypeOK, LocalsOK, [Next]_vars
  PROVE  TypeOK' /\ LocalsOK'
<1>1. MowerTypes /\ RuleTypes /\ UserTypes /\ CountTypes
      /\ tick \in [Ticks -> Tick]
  BY DEF TypeOK
<1>2. ASSUME UNCHANGED tick PROVE tick' \in [Ticks -> Tick] /\ LocalsOK'
  BY <1>1, <1>2 DEF LocalsOK, LocalOK
<1>3. ASSUME UNCHANGED planVars PROVE RuleTypes'
  BY <1>1, <1>3 DEF planVars, RuleTypes
<1>4. ASSUME UNCHANGED userVars PROVE UserTypes'
  BY <1>1, <1>4 DEF userVars, UserTypes
<1>5. ASSUME UNCHANGED begun, UNCHANGED spent PROVE CountTypes'
  BY <1>1, <1>5 DEF CountTypes
<1>6. ASSUME UNCHANGED begun, NEW e \in Kinds, Spend(e) PROVE CountTypes'
  BY <1>1, <1>6, SpendTypes DEF CountTypes
<1>7. ASSUME UNCHANGED <<now, mowerVars, seen, weather>> PROVE MowerTypes'
  BY <1>1, <1>7 DEF mowerVars, MowerTypes
<1>8. Kinds = {"edit", "override", "restart", "start", "fault"}
  BY DEF Kinds
<1>10. CASE \E r \in Rules : FirmwareStarts(r)
  <2> PICK r \in Rules : FirmwareStarts(r)
    BY <1>10
  <2>1. MowerTypes'
    BY <1>1, MinuteOf DEF FirmwareStarts, MowerTypes
  <2> QED
    BY <1>2, <1>3, <1>4, <1>5, <2>1 DEF FirmwareStarts, TypeOK
<1>11. CASE UserStarts
  <2>1. MowerTypes'
    BY <1>1, <1>11 DEF UserStarts, MowerTypes
  <2> QED
    BY <1>2, <1>3, <1>4, <1>6, <1>8, <1>11, <2>1 DEF UserStarts, TypeOK
<1>12. CASE MowingEnds \/ Docks \/ Reports \/ WeatherChanges
  <2>1. MowerTypes'
    BY <1>1, <1>12 DEF MowingEnds, Docks, Reports, WeatherChanges, MowerTypes,
      mowerVars
  <2> QED
    BY <1>2, <1>3, <1>4, <1>5, <1>12, <2>1
       DEF MowingEnds, Docks, Reports, WeatherChanges, TypeOK
<1>13. CASE \E t \in Ticks : IntervalFires(t)
  <2> PICK t \in Ticks : IntervalFires(t)
    BY <1>13
  <2>1. MowerTypes'
    BY <1>1 DEF IntervalFires, MowerTypes, mowerVars, ScheduleAssumption, Time
  <2>2. tick' \in [Ticks -> Tick] /\ LocalsOK'
    <3>1. [pc |-> "mirror"] \in Tick /\ LocalOK([pc |-> "mirror"])
      BY DEF Tick, LocalOK
    <3>2. Becomes(t, [pc |-> "mirror"])
      BY DEF IntervalFires, Becomes
    <3> QED
      BY <1>1, <3>1, <3>2, BecomesKeeps
  <2> QED
    BY <1>3, <1>4, <1>5, <2>1, <2>2 DEF IntervalFires, TypeOK
<1>14. CASE \E t \in Ticks : TickGoesOn(t)
  BY <1>14, TickTypes, TickRest DEF TypeOK
<1>15. CASE \E c \in Calls : CallSucceeds(c) \/ CallFails(c)
  <2> PICK c \in Calls : CallSucceeds(c) \/ CallFails(c)
    BY <1>15
  <2>1. MowerTypes'
    BY <1>1 DEF CallSucceeds, CallFails, GoHome, MowerTypes, mowerVars
  <2>2. UserTypes'
    BY <1>1 DEF CallSucceeds, CallFails, UserTypes
  <2> QED
    BY <1>2, <1>3, <1>5, <1>6, <1>8, <2>1, <2>2
       DEF CallSucceeds, CallFails, TypeOK
<1>16. CASE \E c \in Calls, a \in {"mow", "park"}, d \in Durations :
              OverrideCalled(c, a, d)
  <2> PICK c \in Calls, a \in {"mow", "park"}, d \in Durations :
             OverrideCalled(c, a, d)
    BY <1>16
  <2>1. now + d \in Nat
    BY <1>1 DEF MowerTypes, Time, ScheduleAssumption
  <2>2. UserTypes'
    BY <1>1, <2>1 DEF OverrideCalled, UserTypes, Override
  <2> QED
    BY <1>2, <1>3, <1>6, <1>7, <1>8, <2>2 DEF OverrideCalled, TypeOK
<1>17. CASE OverrideCleared
  <2>1. UserTypes'
    BY <1>1, <1>17 DEF OverrideCleared, UserTypes
  <2> QED
    BY <1>2, <1>3, <1>5, <1>7, <1>17, <2>1 DEF OverrideCleared, TypeOK
<1>18. CASE \E r \in Rules : DeleteBegins(r) \/ \E c \in Conf : EditBegins(r, c)
  <2> PICK r \in Rules : DeleteBegins(r) \/ \E c \in Conf : EditBegins(r, c)
    BY <1>18
  <2>1. UserTypes'
    <3>1. CASE DeleteBegins(r)
      BY <1>1, <3>1 DEF DeleteBegins, UserTypes, Editor
    <3>2. CASE \E c \in Conf : EditBegins(r, c)
      <4> PICK c \in Conf : EditBegins(r, c)
        BY <3>2
      <4> DEFINE old == IF r \in plan THEN meta[r] ELSE Blank
                 mark == [old EXCEPT !.conf = c]
      <4>1. old \in Mark
        BY <1>1 DEF RuleTypes, Blank, Mark, Conf
      <4> HIDE DEF old
      <4>2. mark \in Mark
        BY <4>1 DEF Mark
      <4>3. editor' = [pc |-> "adding", rule |-> r, mark |-> mark]
        BY DEF EditBegins, old
      <4> HIDE DEF mark
      <4>4. editor' \in Editor
        BY <4>2, <4>3 DEF Editor
      <4> QED
        BY <1>1, <4>4 DEF EditBegins, UserTypes
    <3> QED
      BY <3>1, <3>2
  <2> QED
    BY <1>2, <1>3, <1>6, <1>7, <1>8, <2>1 DEF DeleteBegins, EditBegins, TypeOK
<1>19. CASE EditEnds
  <2>1. UserTypes'
    BY <1>1, <1>19 DEF EditEnds, UserTypes, Editor, Idle
  <2>2. RuleTypes'
    <3> DEFINE e == IF editor.pc = "adding" THEN editor.mark ELSE Blank
    <3>1. editor.rule \in Rules /\ Edited \subseteq Rules
      BY <1>1, <1>19, EditorShape, EditedRules DEF EditEnds, UserTypes
    <3>2. e \in Mark
      BY <1>1, <1>19, EditorShape DEF EditEnds, UserTypes, Blank, Mark, Conf
    <3>3. meta' = [meta EXCEPT ![editor.rule] = e]
      BY <1>19 DEF EditEnds
    <3> HIDE DEF e
    <3> QED
      BY <1>1, <1>19, <3>1, <3>2, <3>3 DEF EditEnds, RuleTypes
  <2> QED
    BY <1>2, <1>5, <1>7, <1>19, <2>1, <2>2 DEF EditEnds, TypeOK
<1>20. CASE EditFails
  <2>1. UserTypes'
    BY <1>1, <1>20 DEF EditFails, UserTypes, Editor, Idle
  <2> QED
    BY <1>2, <1>3, <1>6, <1>7, <1>8, <1>20, <2>1 DEF EditFails, TypeOK
<1>21. CASE Restart
  <2>1. UserTypes'
    BY <1>1, <1>21 DEF Restart, UserTypes, Editor, Idle
  <2>2. RuleTypes'
    <3>1. plan' \subseteq Rules
      BY <1>1, <1>21, EditedRules DEF Restart, RuleTypes, UserTypes
    <3> QED
      BY <1>1, <1>21, <3>1 DEF Restart, RuleTypes
  <2>3. MowerTypes'
    BY <1>1, <1>21 DEF Restart, MowerTypes, mowerVars
  <2>4. tick' \in [Ticks -> Tick] /\ LocalsOK'
    BY <1>21, IdleTicks DEF Restart
  <2> QED
    BY <1>6, <1>8, <1>21, <2>1, <2>2, <2>3, <2>4 DEF Restart, TypeOK
<1>22. CASE UNCHANGED vars
  BY <1>2, <1>3, <1>4, <1>5, <1>7, <1>22 DEF vars, TypeOK
<1> QED
  BY <1>10, <1>11, <1>12, <1>13, <1>14, <1>15, <1>16, <1>17, <1>18, <1>19,
     <1>20, <1>21, <1>22 DEF Next

(* Every mark, snapshot, override and count is what the code can store, and the
   rule a tick works on is in the snapshot it holds. *)
THEOREM TypeCorrect == Spec => []TypeOK
<1>1. Init => TypeOK /\ LocalsOK
  BY TypeInit, ScheduleAssumption
<1>2. TypeOK /\ LocalsOK /\ [Next]_vars => TypeOK' /\ LocalsOK'
  BY TypeStep, ScheduleAssumption
<1> QED
  BY <1>1, <1>2, PTL DEF Spec

-----------------------------------------------------------------------------
(* Starting once. *)

OneTick == \A t, u \in Ticks : t = u

(* What is pending has not been started and lies before the last mark of its
   rule, and so does what has been started: neither becomes due again. *)
MarksAgree ==
  \A r \in Rules :
    /\ meta[r].fired <= Minute(now)
    /\ \A p \in Time :
         meta[r].pending = p
           => <<r, p>> \notin begun /\ meta[r].fired >= Minute(p)
    /\ \A p \in Time : <<r, p>> \in begun => meta[r].fired >= Minute(p)

(* While nobody else writes the options, a tick's copy of them is the truth; the
   run it is about to put off or to start is not started yet. *)
TickAgrees(k) ==
  /\ k.pc \in {"parked", "forecast", "delayed", "recall"}
       => k.at = now /\ k.rules = meta
  /\ k.pc = "forecast"
       => meta[k.rule].fired = Minute(now) /\ <<k.rule, now>> \notin begun
  /\ k.pc = "starting"
       => /\ <<k.rule, k.at>> \notin begun
          /\ meta[k.rule].pending # k.at
          /\ meta[k.rule].fired >= Minute(k.at)

OnceInv ==
  spent["edit"] = 0 =>
    /\ editor = Idle /\ plan = Rules
    /\ MarksAgree /\ \A t \in Ticks : TickAgrees(tick[t])

(* How a tick may change the marks of a rule. *)
Advances(r) ==
  /\ meta'[r].fired \in {meta[r].fired, Minute(now)}
  /\ \/ meta'[r].pending \in {meta[r].pending, Never}
     \/ /\ meta'[r].pending = now /\ meta'[r].fired = Minute(now)
        /\ <<r, now>> \notin begun

LEMMA MarksKept ==
  ASSUME ScheduleAssumption, TypeOK, MarksAgree, UNCHANGED <<now, begun>>,
         \A r \in Rules : Advances(r)
  PROVE  MarksAgree'
<1>1. /\ now \in Time /\ Minute(now) \in Int /\ Never \notin Time
      /\ \A p \in Time : Minute(p) \in Int
  BY DEF TypeOK, MowerTypes, Time, Minute, ScheduleAssumption, Never
<1>2. \A r \in Rules : meta[r].fired \in Int
  BY MarkFields DEF TypeOK, RuleTypes, Minutes, Never
<1>3. Minute(now)' = Minute(now)
  BY DEF Minute
<1> SUFFICES ASSUME NEW r \in Rules
             PROVE  /\ meta'[r].fired <= Minute(now)
                    /\ \A p \in Time :
                         meta'[r].pending = p
                           => <<r, p>> \notin begun /\ meta'[r].fired >= Minute(p)
                    /\ \A p \in Time :
                         <<r, p>> \in begun => meta'[r].fired >= Minute(p)
  BY <1>3 DEF MarksAgree, Minute
<1>4. /\ meta[r].fired <= Minute(now)
      /\ \A p \in Time :
           meta[r].pending = p
             => <<r, p>> \notin begun /\ meta[r].fired >= Minute(p)
      /\ \A p \in Time : <<r, p>> \in begun => meta[r].fired >= Minute(p)
  BY DEF MarksAgree
<1> HIDE DEF Minute
<1>8. /\ meta'[r].fired \in {meta[r].fired, Minute(now)}
      /\ \/ meta'[r].pending \in {meta[r].pending, Never}
         \/ /\ meta'[r].pending = now /\ meta'[r].fired = Minute(now)
            /\ <<r, now>> \notin begun
  <2>1. Advances(r)
    OBVIOUS
  <2> QED
    BY <2>1 DEF Advances
<1>5. meta'[r].fired \in Int /\ meta[r].fired <= meta'[r].fired
      /\ meta'[r].fired <= Minute(now)
  BY <1>1, <1>2, <1>4, <1>8
<1>6. ASSUME NEW p \in Time, <<r, p>> \in begun PROVE meta'[r].fired >= Minute(p)
  BY <1>1, <1>2, <1>4, <1>5, <1>6
<1>7. ASSUME NEW p \in Time, meta'[r].pending = p
      PROVE  <<r, p>> \notin begun /\ meta'[r].fired >= Minute(p)
  <2>1. CASE meta[r].pending = p
    BY <1>1, <1>2, <1>4, <1>5, <2>1
  <2>2. CASE meta[r].pending # p
    <3>1. p = now /\ meta'[r].fired = Minute(now) /\ <<r, now>> \notin begun
      BY <1>1, <1>7, <1>8, <2>2
    <3> QED
      BY <1>1, <3>1
  <2> QED
    BY <2>1, <2>2
<1> QED
  BY <1>5, <1>6, <1>7

LEMMA SavedWhole ==
  ASSUME NEW rules \in Snapshot, DOMAIN rules = Rules
  PROVE  Saved(rules) = rules
<1>1. rules \in [Rules -> Mark]
  BY SnapshotIsFunction
<1> QED
  BY <1>1 DEF Saved

LEMMA SkippedWhole ==
  ASSUME RuleTypes, NEW due, NEW at, MarkSkipped(meta, due, at)
  PROVE  \A r \in Rules : /\ meta'[r].pending = meta[r].pending
                          /\ meta'[r].fired \in {meta[r].fired, Minute(at)}
<1> DEFINE e(r) == [meta[r] EXCEPT !.fired = Minute(at)]
<1>1. DOMAIN meta = Rules /\ \A r \in Rules : meta[r] \in Mark
  BY DEF RuleTypes
<1>2. \A r \in Rules : e(r).pending = meta[r].pending /\ e(r).fired = Minute(at)
  BY <1>1 DEF Mark
<1>3. \/ meta' = meta
      \/ meta' = Saved([r \in DOMAIN meta |-> IF r \in due THEN e(r) ELSE meta[r]])
  BY DEF MarkSkipped
<1> HIDE DEF e
<1>4. \/ meta' = meta
      \/ \A r \in Rules : meta'[r] = IF r \in due THEN e(r) ELSE meta[r]
  BY <1>1, <1>3 DEF Saved
<1> QED
  BY <1>2, <1>4

LEMMA HoldWhole ==
  ASSUME NEW t, NEW rules \in Snapshot, DOMAIN rules = Rules, NEW r \in Rules,
         NEW at \in Time, Hold(t, rules, r, at)
  PROVE  /\ \A x \in Rules \ {r} : meta'[x] = rules[x]
         /\ meta'[r].fired = rules[r].fired
         /\ meta'[r].pending \in {rules[r].pending, at}
<1>1. LET new == WithPending(rules, r, at) IN
        /\ new \in Snapshot /\ DOMAIN new = DOMAIN rules
        /\ new[r].pending = at /\ new[r].fired = rules[r].fired
        /\ \A x \in DOMAIN rules \ {r} : new[x] = rules[x]
  BY WithPendingMarks
<1>2. meta' = rules \/ meta' = WithPending(rules, r, at)
  BY <1>1, SavedWhole DEF Hold
<1> QED
  BY <1>1, <1>2

LEMMA LaunchWhole ==
  ASSUME NEW t, NEW rules \in Snapshot, DOMAIN rules = Rules, NEW r \in Rules,
         Launch(t, rules, r)
  PROVE  /\ \A x \in Rules \ {r} : meta'[x] = rules[x]
         /\ meta'[r].fired = rules[r].fired /\ meta'[r].pending = Never
<1>1. LET new == WithPending(rules, r, Never) IN
        /\ new \in Snapshot /\ DOMAIN new = DOMAIN rules
        /\ new[r].pending = Never /\ new[r].fired = rules[r].fired
        /\ \A x \in DOMAIN rules \ {r} : new[x] = rules[x]
  BY WithPendingMarks
<1>2. meta' = WithPending(rules, r, Never)
  BY <1>1, SavedWhole DEF Launch
<1> QED
  BY <1>1, <1>2

LEMMA SnapWhole ==
  ASSUME RuleTypes, plan = Rules
  PROVE  Snap = meta /\ meta \in Snapshot /\ DOMAIN meta = Rules
<1>1. meta \in [Rules -> Mark]
  BY DEF RuleTypes
<1>2. Snap = [r \in Rules |-> meta[r]]
  BY DEF Snap, Restrict
<1> QED
  BY <1>1, <1>2, FunctionIsSnapshot

LEMMA DropGoneWhole ==
  ASSUME RuleTypes, plan = Rules, DropGone
  PROVE  meta' = Pruned
<1>1. /\ Pruned \in Snapshot /\ DOMAIN Pruned = Rules
      /\ \A x \in Rules : x \notin Gone => Pruned[x] = meta[x]
  BY PrunedMarks
<1>2. Saved(Pruned) = Pruned
  BY <1>1, SavedWhole
<1>3. Pruned \in [Rules -> Mark] /\ meta \in [Rules -> Mark]
  BY <1>1, SnapshotIsFunction DEF RuleTypes
<1>4. Gone = {} => Pruned = meta
  BY <1>1, <1>3
<1> QED
  BY <1>2, <1>4 DEF DropGone

LEMMA OnceTick ==
  ASSUME ScheduleAssumption, TypeOK, LocalsOK, plan = Rules, MarksAgree,
         NEW t \in Ticks, TickAgrees(tick[t]), TickGoesOn(t)
  PROVE  MarksAgree' /\ TickAgrees(tick[t])'
<1> DEFINE k == tick[t]
<1>1. /\ k \in Tick /\ LocalOK(k) /\ RuleTypes /\ now \in Time
      /\ tick \in [Ticks -> Tick] /\ meta \in [Rules -> Mark]
      /\ Snap = meta /\ meta \in Snapshot /\ DOMAIN meta = Rules
  BY SnapWhole DEF TypeOK, LocalsOK, RuleTypes, MowerTypes
<1>2. /\ k.pc \in {"parked", "forecast", "delayed", "recall"}
           => k.at = now /\ k.rules = meta
      /\ k.pc = "forecast"
           => meta[k.rule].fired = Minute(now) /\ <<k.rule, now>> \notin begun
      /\ k.pc = "starting"
           => /\ <<k.rule, k.at>> \notin begun /\ meta[k.rule].pending # k.at
              /\ meta[k.rule].fired >= Minute(k.at)
  BY DEF TickAgrees
<1>3. UNCHANGED now /\ (UNCHANGED begun \/ RunStarts(t))
  BY DEF TickGoesOn, OverrideExpires, OverrideHolds, RuleIsDue, NothingIsDue,
    DueForecast, DelayedForecast, Returns, CommandFails, RunStarts
<1>4. \A x : Becomes(t, x) => tick'[t] = x
  BY <1>1 DEF Becomes
<1> HIDE DEF k
<1>5. ASSUME tick'[t] \in {Idle, [pc |-> "expired"], [pc |-> "wet"]}
      PROVE  TickAgrees(tick[t])'
  <2>1. tick'[t].pc \in {"idle", "expired", "wet"}
    BY <1>5 DEF Idle
  <2> QED
    BY <2>1 DEF TickAgrees
<1>6. ASSUME UNCHANGED <<meta, begun>> PROVE MarksAgree'
  BY <1>3, <1>6 DEF MarksAgree, Minute
<1>7. ASSUME UNCHANGED begun, \A x \in Rules : Advances(x) PROVE MarksAgree'
  BY <1>3, <1>7, MarksKept
<1>8. ASSUME NEW r \in Rules, NEW p \in Time, UNCHANGED begun,
             tick'[t] = [pc |-> "starting", at |-> p, rule |-> r],
             meta[r].pending = p, meta'[r].pending = Never,
             meta'[r].fired = meta[r].fired
      PROVE  TickAgrees(tick[t])'
  <2>1. p # Never /\ <<r, p>> \notin begun /\ meta[r].fired >= Minute(p)
    BY <1>8 DEF MarksAgree, Time, Never
  <2>2. /\ tick'[t].pc = "starting" /\ tick'[t].at = p /\ tick'[t].rule = r
    BY <1>8
  <2> QED
    BY <1>8, <2>1, <2>2 DEF TickAgrees, Minute
<1>9. ASSUME NEW r \in Rules, NEW rules \in Snapshot, DOMAIN rules = Rules,
             rules[r] = meta[r], rules[r].pending # Never,
             \A x \in Rules : /\ rules[x].fired = meta[x].fired
                              /\ rules[x].pending \in {meta[x].pending, Never},
             UNCHANGED begun, Launch(t, rules, r)
      PROVE  MarksAgree' /\ TickAgrees(tick[t])'
  <2>1. /\ \A x \in Rules \ {r} : meta'[x] = rules[x]
        /\ meta'[r].fired = rules[r].fired /\ meta'[r].pending = Never
    BY <1>9, LaunchWhole
  <2>2. meta[r].pending \in Time
    BY <1>1, <1>9, MarkFields
  <2>3. tick'[t] = [pc |-> "starting", at |-> meta[r].pending, rule |-> r]
    BY <1>4, <1>9 DEF Launch
  <2>4. \A x \in Rules : Advances(x)
    BY <1>9, <2>1 DEF Advances
  <2> QED
    BY <1>7, <1>8, <1>9, <2>1, <2>2, <2>3, <2>4
<1>10. CASE OverrideExpires(t)
  <2>1. UNCHANGED <<meta, begun>>
        /\ (Becomes(t, [pc |-> "expired"]) \/ Becomes(t, Idle))
    BY <1>10 DEF OverrideExpires, planVars
  <2> QED
    BY <1>4, <1>5, <1>6, <2>1
<1>11. CASE OverrideHolds(t)
  <2> DEFINE p == [pc |-> "parked", at |-> now, rules |-> Snap, due |-> Due]
  <2>1. /\ UNCHANGED begun
        /\ \/ Becomes(t, p) /\ UNCHANGED meta
           \/ Becomes(t, Idle) /\ MarkSkipped(meta, Due, now)
    BY <1>1, <1>11 DEF OverrideHolds
  <2>2. CASE Becomes(t, p) /\ UNCHANGED meta
    <3>1. tick'[t] = p
      BY <1>4, <2>2
    <3>2. tick'[t].pc = "parked" /\ tick'[t].at = now /\ tick'[t].rules = meta
      BY <1>1, <3>1
    <3> QED
      BY <1>3, <1>6, <2>1, <2>2, <3>2 DEF TickAgrees
  <2>3. CASE Becomes(t, Idle) /\ MarkSkipped(meta, Due, now)
    <3>1. \A r \in Rules : Advances(r)
      BY <1>1, <2>3, SkippedWhole DEF Advances
    <3> QED
      BY <1>4, <1>5, <1>7, <2>1, <2>3, <3>1
  <2> QED
    BY <2>1, <2>2, <2>3
<1>12. CASE RuleIsDue(t)
  <2> DEFINE r == Min(Due)
             f == [pc |-> "forecast", at |-> now, rules |-> Fired(r), rule |-> r]
  <2>1. /\ Due # {} /\ UNCHANGED begun
        /\ \/ Hold(t, Fired(r), r, now)
           \/ meta' = Saved(Fired(r)) /\ (Becomes(t, f) \/ Becomes(t, Idle))
    BY <1>12 DEF RuleIsDue
  <2>2. /\ r \in Due /\ r \in Rules
        /\ Fired(r) \in Snapshot /\ DOMAIN Fired(r) = Rules
        /\ Fired(r)[r].pending = meta[r].pending
        /\ Fired(r)[r].fired = Minute(now)
        /\ \A x \in Rules \ {r} : Fired(r)[x] = meta[x]
    BY <1>1, <2>1, DueRule
  <2> HIDE DEF r
  <2>3. <<r, now>> \notin begun
    <3>1. meta[r].fired # Minute(now)
      BY <2>2 DEF Due
    <3>2. /\ meta[r].fired <= Minute(now)
          /\ <<r, now>> \in begun => meta[r].fired >= Minute(now)
      BY <1>1, <2>2 DEF MarksAgree
    <3>3. meta[r].fired \in Int /\ Minute(now) \in Int
      BY <1>1, <2>2, MarkFields DEF Minutes, Minute, Never, Time
    <3> QED
      BY <3>1, <3>2, <3>3
  <2>4. CASE Hold(t, Fired(r), r, now)
    <3>1. /\ \A x \in Rules \ {r} : meta'[x] = Fired(r)[x]
          /\ meta'[r].fired = Fired(r)[r].fired
          /\ meta'[r].pending \in {Fired(r)[r].pending, now}
      BY <1>1, <2>2, <2>4, HoldWhole
    <3>2. \A x \in Rules : Advances(x)
      BY <2>2, <2>3, <3>1 DEF Advances
    <3>3. Becomes(t, [pc |-> "wet"])
      BY <2>4 DEF Hold
    <3> QED
      BY <1>4, <1>5, <1>7, <2>1, <3>2, <3>3
  <2>5. CASE meta' = Saved(Fired(r)) /\ (Becomes(t, f) \/ Becomes(t, Idle))
    <3>1. meta' = Fired(r)
      BY <2>2, <2>5, SavedWhole
    <3>2. \A x \in Rules : Advances(x)
      BY <2>2, <3>1 DEF Advances
    <3>3. CASE Becomes(t, f)
      <4>1. tick'[t] = f
        BY <1>4, <3>3
      <4>2. /\ tick'[t].pc = "forecast" /\ tick'[t].at = now
            /\ tick'[t].rules = meta' /\ tick'[t].rule = r
        BY <3>1, <4>1
      <4>3. Minute(now)' = Minute(now) /\ meta'[r].fired = Minute(now)
        BY <1>3, <2>2, <3>1 DEF Minute
      <4> QED
        BY <1>3, <1>7, <2>1, <2>3, <3>2, <4>2, <4>3 DEF TickAgrees
    <3> QED
      BY <1>4, <1>5, <1>7, <2>1, <2>5, <3>2, <3>3
  <2> QED
    BY <2>1, <2>4, <2>5
<1>13. CASE NothingIsDue(t)
  <2> DEFINE r == Min(ToCheck(Snap, now))
             d == [pc |-> "delayed", at |-> now, rules |-> Pruned, rule |-> r]
  <2>1. /\ UNCHANGED begun
        /\ \/ Becomes(t, Idle) /\ UNCHANGED meta
           \/ DropGone /\ (Becomes(t, Idle) \/ Becomes(t, d))
           \/ PutOff(Pruned, r, now) /\ Becomes(t, Idle)
           \/ ToCheck(Snap, now) # {} /\ Launch(t, Pruned, r)
    BY <1>13 DEF NothingIsDue
  <2>2. /\ Pruned \in Snapshot /\ DOMAIN Pruned = Rules
        /\ \A x \in Rules : /\ Pruned[x].fired = meta[x].fired
                            /\ Pruned[x].pending \in {meta[x].pending, Never}
    BY <1>1, PrunedMarks
  <2>3. meta' = Pruned => \A x \in Rules : Advances(x)
    BY <2>2 DEF Advances
  <2>4. CASE Becomes(t, Idle) /\ UNCHANGED meta
    BY <1>4, <1>5, <1>6, <2>1, <2>4
  <2>5. CASE DropGone /\ (Becomes(t, Idle) \/ Becomes(t, d))
    <3>1. meta' = Pruned
      BY <1>1, <2>5, DropGoneWhole
    <3>2. CASE Becomes(t, d)
      <4>1. tick'[t] = d
        BY <1>4, <3>2
      <4>2. /\ tick'[t].pc = "delayed" /\ tick'[t].at = now
            /\ tick'[t].rules = meta'
        BY <3>1, <4>1
      <4> QED
        BY <1>3, <1>7, <2>1, <2>3, <3>1, <4>2 DEF TickAgrees
    <3> QED
      BY <1>4, <1>5, <1>7, <2>1, <2>3, <2>5, <3>1, <3>2
  <2>6. CASE PutOff(Pruned, r, now) /\ Becomes(t, Idle)
    <3>1. meta' = Pruned
      BY <2>2, <2>6, SavedWhole DEF PutOff
    <3> QED
      BY <1>4, <1>5, <1>7, <2>1, <2>3, <2>6, <3>1
  <2>7. CASE ToCheck(Snap, now) # {} /\ Launch(t, Pruned, r)
    <3>1. r \in Rules /\ Pruned[r] = meta[r] /\ Pruned[r].pending # Never
      BY <1>1, <2>7, OpenRule
    <3> HIDE DEF r
    <3> QED
      BY <1>9, <2>1, <2>2, <2>7, <3>1
  <2> QED
    BY <2>1, <2>4, <2>5, <2>6, <2>7
<1>14. CASE DueForecast(t)
  <2>1. /\ k.pc = "forecast" /\ UNCHANGED begun
        /\ \/ Hold(t, k.rules, k.rule, k.at)
           \/ Becomes(t, Idle) /\ UNCHANGED meta
    BY <1>14 DEF DueForecast, k
  <2>2. k.rules = meta /\ k.at = now /\ k.rule \in Rules
        /\ meta[k.rule].fired = Minute(now) /\ <<k.rule, now>> \notin begun
    BY <1>1, <1>2, <2>1, TickShape
  <2>3. CASE Hold(t, meta, k.rule, now)
    <3>1. /\ \A x \in Rules \ {k.rule} : meta'[x] = meta[x]
          /\ meta'[k.rule].fired = meta[k.rule].fired
          /\ meta'[k.rule].pending \in {meta[k.rule].pending, now}
      BY <1>1, <2>2, <2>3, HoldWhole
    <3>2. \A x \in Rules : Advances(x)
      BY <2>2, <3>1 DEF Advances
    <3>3. Becomes(t, [pc |-> "wet"])
      BY <2>3 DEF Hold
    <3> QED
      BY <1>4, <1>5, <1>7, <2>1, <3>2, <3>3
  <2>4. CASE Becomes(t, Idle) /\ UNCHANGED meta
    BY <1>4, <1>5, <1>6, <2>1, <2>4
  <2> QED
    BY <2>1, <2>2, <2>3, <2>4
<1>15. CASE DelayedForecast(t)
  <2>1. /\ k.pc = "delayed" /\ UNCHANGED begun
        /\ \/ Becomes(t, [k EXCEPT !.pc = "recall"]) /\ UNCHANGED meta
           \/ PutOff(k.rules, k.rule, k.at) /\ Becomes(t, Idle)
           \/ Launch(t, k.rules, k.rule)
    BY <1>15 DEF DelayedForecast, k
  <2>2. /\ k.rules = meta /\ k.at = now /\ k.rule \in Rules
        /\ meta[k.rule].pending # Never
        /\ k = [pc |-> "delayed", at |-> k.at, rules |-> k.rules, rule |-> k.rule]
    BY <1>1, <1>2, <2>1, TickShape DEF LocalOK
  <2>3. CASE Becomes(t, [k EXCEPT !.pc = "recall"]) /\ UNCHANGED meta
    <3>1. tick'[t] = [pc |-> "recall", at |-> now, rules |-> meta,
                      rule |-> k.rule]
      BY <1>4, <2>2, <2>3
    <3>2. tick'[t].pc = "recall" /\ tick'[t].at = now /\ tick'[t].rules = meta
      BY <3>1
    <3> QED
      BY <1>3, <1>6, <2>1, <2>3, <3>2 DEF TickAgrees
  <2>4. CASE PutOff(meta, k.rule, k.at) /\ Becomes(t, Idle)
    <3>1. meta' = meta
      BY <1>1, <2>4, SavedWhole DEF PutOff
    <3> QED
      BY <1>4, <1>5, <1>6, <2>1, <2>4, <3>1
  <2>5. CASE Launch(t, meta, k.rule)
    BY <1>1, <1>9, <2>1, <2>2, <2>5
  <2> QED
    BY <2>1, <2>2, <2>3, <2>4, <2>5
<1>16. CASE RunStarts(t)
  <2>1. /\ k.pc = "starting" /\ UNCHANGED meta /\ Becomes(t, Idle)
        /\ begun' = begun \cup {<<k.rule, k.at>>}
    BY <1>16 DEF RunStarts, planVars, k
  <2>2. MarksAgree'
    BY <1>2, <1>3, <2>1 DEF MarksAgree, Minute
  <2> QED
    BY <1>4, <1>5, <2>1, <2>2
<1>17. CASE Returns(t)
  <2>1. /\ Becomes(t, Idle) /\ UNCHANGED begun
        /\ \/ UNCHANGED meta
           \/ k.pc = "parked" /\ MarkSkipped(k.rules, k.due, k.at)
           \/ k.pc = "recall" /\ PutOff(k.rules, k.rule, k.at)
    BY <1>17 DEF Returns, k
  <2>2. TickAgrees(tick[t])'
    BY <1>4, <1>5, <2>1
  <2>3. CASE k.pc = "parked" /\ MarkSkipped(k.rules, k.due, k.at)
    <3>1. MarkSkipped(meta, k.due, now)
      BY <1>2, <2>3
    <3>2. \A r \in Rules : Advances(r)
      BY <1>1, <3>1, SkippedWhole DEF Advances
    <3> QED
      BY <1>7, <2>1, <2>2, <3>2
  <2>4. CASE k.pc = "recall" /\ PutOff(k.rules, k.rule, k.at)
    <3>1. meta' = meta
      BY <1>1, <1>2, <2>4, SavedWhole DEF PutOff
    <3> QED
      BY <1>6, <2>1, <2>2, <3>1
  <2> QED
    BY <1>6, <2>1, <2>2, <2>3, <2>4
<1>18. CASE CommandFails(t)
  BY <1>4, <1>5, <1>6, <1>18 DEF CommandFails, planVars
<1> QED
  BY <1>10, <1>11, <1>12, <1>13, <1>14, <1>15, <1>16, <1>17, <1>18
     DEF TickGoesOn

LEMMA OnceInit ==
  ASSUME ScheduleAssumption, Init
  PROVE  OnceInv
<1>1. MarksAgree
  <2> DEFINE First == {[Blank EXCEPT !.conf = c] : c \in Conf}
  <2>1. \A m \in First : m.fired = Never /\ m.pending = Never
    BY DEF Blank
  <2>4. meta \in [Rules -> First]
    BY DEF Init
  <2> HIDE DEF First
  <2>2. \A r \in Rules : meta[r].fired = Never /\ meta[r].pending = Never
    BY <2>1, <2>4
  <2>3. Minute(now) = 0 /\ Never \notin Time /\ begun = {}
    BY DEF Init, Minute, Never, Time
  <2> QED
    BY <2>2, <2>3 DEF MarksAgree, Never
<1>2. \A t \in Ticks : TickAgrees(tick[t])
  BY DEF Init, TickAgrees, Idle
<1> QED
  BY <1>1, <1>2 DEF Init, OnceInv

LEMMA OnceStep ==
  ASSUME ScheduleAssumption, OneTick, TypeOK, LocalsOK, OnceInv, [Next]_vars
  PROVE  OnceInv'
<1> SUFFICES ASSUME spent'["edit"] = 0
             PROVE  /\ editor' = Idle /\ plan' = Rules
                    /\ MarksAgree' /\ \A t \in Ticks : TickAgrees(tick[t])'
  BY DEF OnceInv
<1>1. spent \in [Kinds -> Nat] /\ now \in Time /\ tick \in [Ticks -> Tick]
  BY DEF TypeOK, CountTypes, MowerTypes
<1>2. "edit" \in Kinds /\ Kinds \ {"edit"} = {"override", "restart", "start", "fault"}
  BY DEF Kinds
<1>3. ~Spend("edit") /\ \A e \in Kinds : Spend(e) => spent'["edit"] = spent["edit"]
  BY <1>1, <1>2 DEF Spend
<1>4. /\ ~\E r \in Rules : DeleteBegins(r) \/ \E c \in Conf : EditBegins(r, c)
      /\ spent["edit"] = 0
  <2>1. ~\E r \in Rules : DeleteBegins(r) \/ \E c \in Conf : EditBegins(r, c)
    BY <1>3 DEF DeleteBegins, EditBegins
  <2>2. UNCHANGED spent \/ \E e \in Kinds : Spend(e)
    BY <2>1 DEF Next, vars, Kinds, FirmwareStarts, UserStarts, MowingEnds, Docks,
      Reports, WeatherChanges, IntervalFires, TickGoesOn, OverrideExpires,
      OverrideHolds, RuleIsDue, NothingIsDue, DueForecast, DelayedForecast,
      RunStarts, Returns, CommandFails, CallSucceeds, CallFails,
      OverrideCalled, OverrideCleared, EditEnds, EditFails, Restart
  <2> QED
    BY <1>3, <2>1, <2>2
<1>5. /\ editor = Idle /\ plan = Rules
      /\ MarksAgree /\ \A t \in Ticks : TickAgrees(tick[t])
  BY <1>4 DEF OnceInv
<1>6. ASSUME UNCHANGED <<now, meta, begun>> PROVE MarksAgree'
  BY <1>5, <1>6 DEF MarksAgree, Minute
<1>7. ASSUME UNCHANGED <<now, meta, begun, tick>>
      PROVE  \A t \in Ticks : TickAgrees(tick[t])'
  BY <1>5, <1>7 DEF TickAgrees, Minute
<1>8. ASSUME UNCHANGED <<editor, plan, now, meta, begun, tick>>
      PROVE  /\ editor' = Idle /\ plan' = Rules
             /\ MarksAgree' /\ \A t \in Ticks : TickAgrees(tick[t])'
  BY <1>5, <1>6, <1>7, <1>8
<1>10. CASE UNCHANGED <<editor, plan, now, meta, begun, tick>>
  BY <1>8, <1>10
<1>11. CASE \E t \in Ticks : IntervalFires(t)
  <2> PICK t \in Ticks : IntervalFires(t)
    BY <1>11
  <2>1. UNCHANGED <<editor, plan, meta, begun>> /\ now' \in {now, now + 1}
    BY DEF IntervalFires, planVars, userVars
  <2>2. MarksAgree'
    <3>1. Minute(now) <= Minute(now)' /\ Minute(now) \in Int /\ Minute(now)' \in Int
      <4>1. now \in Int /\ \A n \in Int : n \div 2 <= (n + 1) \div 2
        BY <1>1 DEF Time
      <4> QED
        BY <2>1, <4>1 DEF Minute
    <3>2. \A r \in Rules : meta[r].fired \in Int
      BY MarkFields DEF TypeOK, RuleTypes, Minutes, Never
    <3>3. \A r \in Rules : meta[r].fired <= Minute(now)
      BY <1>5 DEF MarksAgree
    <3>4. \A r \in Rules : meta[r].fired <= Minute(now)'
      BY <3>1, <3>2, <3>3
    <3> QED
      BY <1>5, <2>1, <3>4 DEF MarksAgree, Minute
  <2>3. \A u \in Ticks : tick'[u].pc = "mirror"
    BY <1>1 DEF IntervalFires, OneTick
  <2> QED
    BY <1>5, <2>1, <2>2, <2>3 DEF TickAgrees
<1>12. CASE \E t \in Ticks : TickGoesOn(t)
  <2> PICK t \in Ticks : TickGoesOn(t)
    BY <1>12
  <2>1. MarksAgree' /\ TickAgrees(tick[t])'
    BY <1>5, OnceTick
  <2>2. UNCHANGED <<editor, plan>>
    BY DEF TickGoesOn, OverrideExpires, OverrideHolds, RuleIsDue, NothingIsDue,
      DueForecast, DelayedForecast, RunStarts, Returns, CommandFails,
      planVars, userVars
  <2> QED
    BY <1>5, <2>1, <2>2 DEF OneTick
<1>13. CASE EditEnds \/ EditFails
  BY <1>5, <1>13 DEF EditEnds, EditFails
<1>14. CASE Restart
  <2>1. UNCHANGED <<now, meta, begun>> /\ editor' = Idle /\ plan' = plan
    BY <1>5, <1>14 DEF Restart
  <2>2. \A t \in Ticks : tick'[t].pc = "idle"
    BY <1>14 DEF Restart, Idle
  <2> QED
    BY <1>5, <1>6, <2>1, <2>2 DEF TickAgrees
<1> QED
  <2>1. \/ UNCHANGED <<editor, plan, now, meta, begun, tick>>
        \/ \E t \in Ticks : IntervalFires(t) \/ TickGoesOn(t)
        \/ EditEnds \/ EditFails \/ Restart
    BY <1>4 DEF Next, vars, planVars, userVars, FirmwareStarts, UserStarts,
      MowingEnds, Docks, Reports, WeatherChanges, CallSucceeds, CallFails,
      OverrideCalled, OverrideCleared
  <2> QED
    BY <1>10, <1>11, <1>12, <1>13, <1>14, <2>1

(* A run delayed by the weather is started once at most, whatever fails, is
   overridden or restarts in between, as long as the plan is not edited and a
   tick is over before the interval fires again. *)
THEOREM DelayedRunStartsOnce == OneTick => (Spec => StartsOnceUnedited)
<1> SUFFICES ASSUME OneTick PROVE Spec => StartsOnceUnedited
  OBVIOUS
<1>1. Init => TypeOK /\ LocalsOK /\ OnceInv
  BY TypeInit, OnceInit, ScheduleAssumption
<1>2. TypeOK /\ LocalsOK /\ OnceInv /\ [Next]_vars
        => TypeOK' /\ LocalsOK' /\ OnceInv'
  BY TypeStep, OnceStep, ScheduleAssumption
<1>3. OnceInv /\ [Next]_vars
        => [\A t \in Ticks :
              RunStarts(t) /\ spent["edit"] = 0
                => <<tick[t].rule, tick[t].at>> \notin begun]_vars
  BY DEF OnceInv, RunStarts, TickAgrees
<1> QED
  BY <1>1, <1>2, <1>3, PTL DEF Spec, StartsOnceUnedited
=============================================================================
