-------------------------- MODULE NativePlanProofs --------------------------
(***************************************************************************)
(* What TLAPS proves of NativePlan, for any plans, callers and bounds: the  *)
(* types; that an edit changes the rule that was meant and no other; that   *)
(* no annotation is left behind.                                           *)
(***************************************************************************)
EXTENDS NativePlan, Integers, SequenceTheorems, WellFoundedInduction, TLAPS

(***************************************************************************)
(* Sequences.                                                              *)
(***************************************************************************)

(* The elements after an append. *)
LEMMA AppendElements ==
  ASSUME NEW S, NEW s \in Seq(S), NEW m \in S
  PROVE  /\ Len(s) \in Nat /\ Len(Append(s, m)) = Len(s) + 1
         /\ \A i \in 1 .. Len(s) : Append(s, m)[i] = s[i]
         /\ Append(s, m)[Len(s) + 1] = m
  OBVIOUS

(* The elements of a tail. *)
LEMMA TailElements ==
  ASSUME NEW S, NEW s \in Seq(S), s # <<>>
  PROVE  /\ Head(s) = s[1] /\ Head(s) \in S /\ 1 \in 1 .. Len(s) /\ Len(s) \in Nat
         /\ Tail(s) \in Seq(S) /\ Len(Tail(s)) = Len(s) - 1
         /\ \A i \in 1 .. Len(Tail(s)) : i + 1 \in 1 .. Len(s) /\ Tail(s)[i] = s[i + 1]
OBVIOUS

(***************************************************************************)
(* Plans.                                                                  *)
(***************************************************************************)

LEMMA PlanElements ==
  ASSUME NEW n \in Nat, NEW plan \in PlansUpTo(n)
  PROVE  /\ Len(plan) \in Nat /\ DOMAIN plan = 1 .. Len(plan)
         /\ \A i \in DOMAIN plan :
              /\ plan[i] \in EntriesUpTo(n) /\ plan[i].id \in 0 .. n
              /\ plan[i].locked \in BOOLEAN
<1>1. plan \in Seq(EntriesUpTo(n))
  BY DEF PlansUpTo
<1>2. /\ Len(plan) \in Nat /\ DOMAIN plan = 1 .. Len(plan)
      /\ \A i \in DOMAIN plan : plan[i] \in EntriesUpTo(n)
  BY <1>1
<1>3. \A e \in EntriesUpTo(n) : e.id \in 0 .. n /\ e.locked \in BOOLEAN
  BY DEF EntriesUpTo, NoId
<1> QED
  BY <1>2, <1>3

LEMMA OwnIds ==
  ASSUME NEW plan
  PROVE  HaveIds(plan) <=> /\ \A i \in DOMAIN plan : plan[i].id # NoId
                           /\ \A i, j \in DOMAIN plan : plan[i].id = plan[j].id => i = j
BY DEF HaveIds

(* More ids may have been handed out. *)
LEMMA PlansGrow ==
  ASSUME NEW n \in Nat, NEW m \in Nat, n <= m
  PROVE  /\ EntriesUpTo(n) \subseteq EntriesUpTo(m)
         /\ PlansUpTo(n) \subseteq PlansUpTo(m)
<1>1. EntriesUpTo(n) \subseteq EntriesUpTo(m)
  BY DEF EntriesUpTo
<1> QED
  BY <1>1, SeqMonotonic DEF PlansUpTo

LEMMA Widened ==
  ASSUME NEW n \in Nat, NEW m \in Nat, n <= m,
         NEW first \in Nat, NEW r \in Nat, NEW q \in Nat, r <= q
  PROVE  /\ Copies(n, first, r) \subseteq Copies(m, first, q)
         /\ Seq(Copies(n, first, r)) \subseteq Seq(Copies(m, first, q))
         /\ Forms(n) \subseteq Forms(m)
<1>1. PlansUpTo(n) \subseteq PlansUpTo(m) /\ EntriesUpTo(n) \subseteq EntriesUpTo(m)
  BY PlansGrow
<1>2. Copies(n, first, r) \subseteq Copies(m, first, q)
  BY <1>1 DEF Copies
<1>3. Seq(Copies(n, first, r)) \subseteq Seq(Copies(m, first, q))
  BY <1>2, SeqMonotonic
<1>4. Forms(n) \subseteq Forms(m)
  BY <1>1 DEF Forms
<1> QED
  BY <1>2, <1>3, <1>4

(* The first and the last of a set of numbers. *)
LEMMA FirstExists ==
  ASSUME NEW S \in SUBSET Nat, S # {}
  PROVE  \E i \in S : \A j \in S : i <= j
<1> DEFINE R == OpToRel(<, Nat)
<1>1. PICK x \in S : \A y \in S : <<y, x>> \notin R
  <2> HIDE DEF R
  <2>1. IsWellFoundedOn(R, Nat)
    BY NatLessThanWellFounded DEF R
  <2> QED
    BY <2>1, WFMin
<1>2. R = {ss \in Nat \X Nat : ss[1] < ss[2]}
  BY DEF OpToRel
<1> HIDE DEF R
<1>3. \A y \in S : ~(y < x)
  BY <1>1, <1>2
<1> QED
  BY <1>3

LEMMA MaxIs ==
  ASSUME NEW n \in Nat, NEW S \in SUBSET (0 .. n), S # {}
  PROVE  Max(S) \in S /\ \A i \in S : i <= Max(S)
<1> DEFINE T == {u \in Nat : \A s \in S : s <= u}
<1>1. n \in T
  OBVIOUS
<1>2. PICK m \in T : \A j \in T : m <= j
  <2>1. T \in SUBSET Nat /\ T # {}
    BY <1>1
  <2> HIDE DEF T
  <2> QED
    BY <2>1, FirstExists
<1>3. m \in S
  <2> SUFFICES ASSUME m \notin S PROVE FALSE
    OBVIOUS
  <2>1. \A s \in S : s \in Nat /\ s < m
    BY <1>2
  <2>2. m \in Nat /\ m # 0
    <3>1. PICK s \in S : s \in Nat /\ s < m
      BY <2>1
    <3>2. m \in Nat
      BY <1>2
    <3> QED
      BY <3>1, <3>2
  <2>3. m - 1 \in Nat /\ \A s \in S : s <= m - 1
    BY <2>1, <2>2
  <2>4. m - 1 \in T
    BY <2>3
  <2> QED
    BY <1>2, <2>2, <2>4
<1>4. \A i \in S : i <= m
  BY <1>2
<1> QED
  BY <1>3, <1>4 DEF Max

(* A new id is free. *)
LEMMA FreshIdFacts ==
  ASSUME NEW n \in Nat, NEW plan \in PlansUpTo(n)
  PROVE  /\ FreshId(plan) \in {NoId} \cup 1 .. n + 1
         /\ Incremental => /\ FreshId(plan) # NoId
                           /\ \A i \in DOMAIN plan : plan[i].id # FreshId(plan)
<1> DEFINE S == {0} \cup {plan[i].id : i \in DOMAIN plan}
<1>1. S \in SUBSET (0 .. n) /\ S # {}
  BY PlanElements
<1>2. \A i \in DOMAIN plan : plan[i].id \in S
  OBVIOUS
<1>3. FreshId(plan) = IF Incremental THEN Max(S) + 1 ELSE NoId
  BY DEF FreshId
<1> HIDE DEF S
<1>4. Max(S) \in 0 .. n /\ \A i \in S : i \in Nat /\ i <= Max(S)
  <2>1. Max(S) \in S /\ \A i \in S : i <= Max(S)
    BY <1>1, MaxIs
  <2>2. \A i \in S : i \in 0 .. n
    BY <1>1
  <2> QED
    BY <2>1, <2>2
<1>5. CASE Incremental
  <2>1. FreshId(plan) = Max(S) + 1
    BY <1>3, <1>5
  <2>2. \A i \in DOMAIN plan : plan[i].id \in Nat /\ plan[i].id <= Max(S)
    BY <1>2, <1>4
  <2> QED
    BY <1>4, <2>1, <2>2 DEF NoId
<1>6. CASE ~Incremental
  BY <1>3, <1>6
<1> QED
  BY <1>5, <1>6

(* The position of a rule that is there. *)
LEMMA PositionFacts ==
  ASSUME NEW n \in Nat, NEW plan \in PlansUpTo(n), NEW key, Position(plan, key) # 0
  PROVE  LET i == Position(plan, key)
         IN  i \in DOMAIN plan /\ ~plan[i].locked /\ Key(plan[i]) = key
<1> DEFINE S == {i \in DOMAIN plan : ~plan[i].locked /\ Key(plan[i]) = key}
<1>1. S \in SUBSET Nat
  BY PlanElements
<1>2. Position(plan, key) = IF S = {} THEN 0 ELSE CHOOSE i \in S : \A j \in S : i <= j
  BY DEF Position
<1>3. \A i \in S : i \in DOMAIN plan /\ ~plan[i].locked /\ Key(plan[i]) = key
  OBVIOUS
<1> HIDE DEF S
<1>4. S # {} /\ Position(plan, key) = CHOOSE i \in S : \A j \in S : i <= j
  BY <1>2
<1>5. Position(plan, key) \in S
  BY <1>1, <1>4, FirstExists
<1> QED
  BY <1>3, <1>5

(* A plan without one of its appointments. *)
LEMMA WithoutElements ==
  ASSUME NEW n \in Nat, NEW plan \in PlansUpTo(n), NEW i \in DOMAIN plan
  PROVE  /\ Without(plan, i) \in PlansUpTo(n)
         /\ DOMAIN Without(plan, i) = 1 .. Len(plan) - 1
         /\ \A m \in 1 .. Len(plan) - 1 :
              Without(plan, i)[m] = plan[IF m < i THEN m ELSE m + 1]
<1> DEFINE s == SubSeq(plan, 1, i - 1)
           t == SubSeq(plan, i + 1, Len(plan))
<1>1. /\ Len(plan) \in Nat /\ DOMAIN plan = 1 .. Len(plan) /\ i \in 1 .. Len(plan)
      /\ \A j \in 1 .. Len(plan) : plan[j] \in EntriesUpTo(n)
  BY PlanElements
<1>2. /\ s \in PlansUpTo(n) /\ Len(s) = i - 1
      /\ \A j \in 1 .. i - 1 : s[j] = plan[j]
  <2>1. /\ s \in Seq(EntriesUpTo(n))
        /\ Len(s) = IF 1 <= i - 1 THEN (i - 1) - 1 + 1 ELSE 0
        /\ \A j \in 1 .. (i - 1) - 1 + 1 : s[j] = plan[1 + j - 1]
    BY <1>1, SubSeqProperties
  <2> HIDE DEF s
  <2> QED
    BY <1>1, <2>1 DEF PlansUpTo
<1>3. /\ t \in PlansUpTo(n) /\ Len(t) = Len(plan) - i
      /\ \A j \in 1 .. Len(plan) - i : t[j] = plan[j + i]
  <2>1. /\ t \in Seq(EntriesUpTo(n))
        /\ Len(t) = IF i + 1 <= Len(plan) THEN Len(plan) - (i + 1) + 1 ELSE 0
        /\ \A j \in 1 .. Len(plan) - (i + 1) + 1 : t[j] = plan[(i + 1) + j - 1]
    BY <1>1, SubSeqProperties
  <2> HIDE DEF t
  <2>2. Len(t) = Len(plan) - i /\ Len(plan) - (i + 1) + 1 = Len(plan) - i
    BY <1>1, <2>1
  <2>3. \A j \in 1 .. Len(plan) - i : (i + 1) + j - 1 = j + i
    BY <1>1
  <2> QED
    BY <2>1, <2>2, <2>3 DEF PlansUpTo
<1>4. Without(plan, i) = s \o t
  BY DEF Without
<1> HIDE DEF s, t
<1>5. /\ s \o t \in Seq(EntriesUpTo(n)) /\ Len(s \o t) = Len(s) + Len(t)
      /\ \A j \in 1 .. Len(s) + Len(t) :
           (s \o t)[j] = IF j <= Len(s) THEN s[j] ELSE t[j - Len(s)]
  BY <1>2, <1>3, ConcatProperties DEF PlansUpTo
<1>6. DOMAIN (s \o t) = 1 .. Len(plan) - 1
  <2>1. Len(s) + Len(t) = Len(plan) - 1
    BY <1>1, <1>2, <1>3
  <2>2. DOMAIN (s \o t) = 1 .. Len(s \o t)
    BY <1>5
  <2> QED
    BY <1>5, <2>1, <2>2
<1>7. ASSUME NEW m \in 1 .. Len(plan) - 1
      PROVE  (s \o t)[m] = plan[IF m < i THEN m ELSE m + 1]
  <2>1. CASE m < i
    BY <1>1, <1>2, <1>3, <1>5, <2>1
  <2>2. CASE ~(m < i)
    <3>1. m - Len(s) \in 1 .. Len(plan) - i /\ (m - Len(s)) + i = m + 1 /\ ~(m <= Len(s))
      BY <1>1, <1>2, <2>2
    <3>2. m \in 1 .. Len(s) + Len(t)
      BY <1>1, <1>2, <1>3
    <3> QED
      BY <1>3, <1>5, <2>2, <3>1, <3>2
  <2> QED
    BY <2>1, <2>2
<1> QED
  BY <1>4, <1>5, <1>6, <1>7 DEF PlansUpTo

LEMMA WithoutKeeps ==
  ASSUME NEW n \in Nat, NEW plan \in PlansUpTo(n), NEW i \in DOMAIN plan
  PROVE  LET new == Without(plan, i)
         IN  /\ \A m \in DOMAIN new : \E j \in DOMAIN plan : j # i /\ new[m] = plan[j]
             /\ \A j \in DOMAIN plan : j # i => \E m \in DOMAIN new : new[m] = plan[j]
             /\ HaveIds(plan) => HaveIds(new)
<1> DEFINE new == Without(plan, i)
           At(m) == IF m < i THEN m ELSE m + 1
<1>1. /\ Len(plan) \in Nat /\ DOMAIN plan = 1 .. Len(plan) /\ i \in 1 .. Len(plan)
      /\ DOMAIN new = 1 .. Len(plan) - 1
      /\ \A m \in 1 .. Len(plan) - 1 : new[m] = plan[At(m)]
  BY PlanElements, WithoutElements
<1> HIDE DEF new
<1>2. \A m \in DOMAIN new : At(m) \in DOMAIN plan /\ At(m) # i
  BY <1>1
<1>3. \A m \in DOMAIN new : \E j \in DOMAIN plan : j # i /\ new[m] = plan[j]
  BY <1>1, <1>2
<1>4. ASSUME NEW j \in DOMAIN plan, j # i
      PROVE  \E m \in DOMAIN new : new[m] = plan[j]
  <2>1. CASE j < i
    <3>1. j \in DOMAIN new /\ At(j) = j
      BY <1>1, <2>1
    <3> QED
      BY <1>1, <3>1
  <2>2. CASE ~(j < i)
    <3>1. j - 1 \in DOMAIN new /\ At(j - 1) = j
      BY <1>1, <1>4, <2>2
    <3> QED
      BY <1>1, <3>1
  <2> QED
    BY <2>1, <2>2
<1>5. ASSUME HaveIds(plan) PROVE HaveIds(new)
  <2>1. \A m \in DOMAIN new : new[m].id # NoId
    BY <1>3, <1>5, OwnIds
  <2>2. ASSUME NEW l \in DOMAIN new, NEW m \in DOMAIN new, new[l].id = new[m].id
        PROVE  l = m
    <3>1. At(l) \in DOMAIN plan /\ At(m) \in DOMAIN plan
          /\ plan[At(l)].id = plan[At(m)].id
      BY <1>1, <1>2, <2>2
    <3>2. At(l) = At(m)
      BY <1>5, <3>1, OwnIds
    <3> QED
      BY <1>1, <3>2
  <2> QED
    BY <2>1, <2>2, OwnIds
<1> QED
  BY <1>3, <1>4, <1>5 DEF new

(* An appointment changes, but for its id; and a new one. *)
LEMMA ChangedPlan ==
  ASSUME NEW n \in Nat, NEW plan \in PlansUpTo(n), NEW i \in DOMAIN plan,
         NEW e \in EntriesUpTo(n)
  PROVE  LET new == [plan EXCEPT ![i] = e]
         IN  /\ new \in PlansUpTo(n) /\ DOMAIN new = DOMAIN plan /\ Len(new) = Len(plan)
             /\ new[i] = e /\ \A j \in DOMAIN plan : j # i => new[j] = plan[j]
             /\ HaveIds(plan) /\ e.id = plan[i].id => HaveIds(new)
<1> DEFINE new == [plan EXCEPT ![i] = e]
<1>1. plan \in Seq(EntriesUpTo(n))
  BY DEF PlansUpTo
<1>2. /\ new \in Seq(EntriesUpTo(n)) /\ DOMAIN new = DOMAIN plan /\ Len(new) = Len(plan)
      /\ new[i] = e /\ \A j \in DOMAIN plan : j # i => new[j] = plan[j]
  BY <1>1
<1> HIDE DEF new
<1>3. ASSUME HaveIds(plan), e.id = plan[i].id PROVE HaveIds(new)
  <2>1. \A j \in DOMAIN plan : new[j].id = plan[j].id
    BY <1>2, <1>3
  <2> QED
    BY <1>2, <1>3, <2>1 DEF HaveIds
<1> QED
  BY <1>2, <1>3 DEF PlansUpTo, new

LEMMA AppendedPlan ==
  ASSUME NEW n \in Nat, NEW plan \in PlansUpTo(n), NEW e \in EntriesUpTo(n)
  PROVE  LET new == Append(plan, e)
         IN  /\ new \in PlansUpTo(n) /\ DOMAIN new = 1 .. Len(plan) + 1
             /\ new[Len(plan) + 1] = e /\ \A j \in DOMAIN plan : j \in DOMAIN new /\ new[j] = plan[j]
             /\ \A m \in DOMAIN new : m \in DOMAIN plan \/ new[m] = e
             /\ HaveIds(plan) /\ e.id # NoId /\ (\A j \in DOMAIN plan : plan[j].id # e.id)
                  => HaveIds(new)
<1> DEFINE new == Append(plan, e)
<1>1. plan \in Seq(EntriesUpTo(n)) /\ Len(plan) \in Nat /\ DOMAIN plan = 1 .. Len(plan)
  BY PlanElements DEF PlansUpTo
<1>2. /\ new \in Seq(EntriesUpTo(n)) /\ Len(new) = Len(plan) + 1
      /\ new[Len(plan) + 1] = e /\ \A j \in 1 .. Len(plan) : new[j] = plan[j]
  BY <1>1, AppendElements, AppendProperties
<1> HIDE DEF new
<1>3. DOMAIN new = 1 .. Len(plan) + 1
  BY <1>2
<1>4. \A m \in DOMAIN new : m \in DOMAIN plan \/ (m = Len(plan) + 1 /\ new[m] = e)
  BY <1>1, <1>2, <1>3
<1>5. \A j \in DOMAIN plan : j \in DOMAIN new /\ new[j] = plan[j]
  BY <1>1, <1>2, <1>3
<1>6. ASSUME HaveIds(plan), e.id # NoId, \A j \in DOMAIN plan : plan[j].id # e.id
      PROVE  HaveIds(new)
  BY <1>4, <1>5, <1>6 DEF HaveIds
<1> QED
  BY <1>2, <1>3, <1>4, <1>5, <1>6 DEF PlansUpTo, new

(***************************************************************************)
(* What the mower makes of a command.                                      *)
(***************************************************************************)

(* Changes by id: the entry with the id, and no other, is replaced, removed or
   appended. *)
LEMMA ObeyedById ==
  ASSUME NEW n \in Nat, NEW plan \in PlansUpTo(n), NEW k, Incremental, HaveIds(plan),
         k.entry \in EntriesUpTo(n), k.entry.id # NoId
  PROVE  LET new == Obeyed(plan, k)
         IN  /\ new \in PlansUpTo(n) /\ HaveIds(new)
             /\ \A m \in DOMAIN new :
                  \/ k.op # "delete" /\ new[m] = k.entry
                  \/ \E j \in DOMAIN plan : plan[j].id # k.entry.id /\ new[m] = plan[j]
             /\ \A j \in DOMAIN plan : plan[j].id # k.entry.id =>
                  \E m \in DOMAIN new : new[m] = plan[j]
             /\ \A i \in DOMAIN plan : plan[i].id = k.entry.id =>
                  new = IF k.op = "delete" THEN Without(plan, i)
                        ELSE [plan EXCEPT ![i] = k.entry]
             /\ (\A i \in DOMAIN plan : plan[i].id # k.entry.id) /\ k.op # "delete"
                  => new = Append(plan, k.entry)
<1> DEFINE new == Obeyed(plan, k)
           at == {i \in DOMAIN plan : plan[i].id = k.entry.id}
           changed == [i \in DOMAIN plan |-> IF i \in at THEN k.entry ELSE plan[i]]
<1>1. new = IF at = {} THEN IF k.op = "delete" THEN plan ELSE Append(plan, k.entry)
            ELSE IF k.op = "delete" THEN Without(plan, CHOOSE i \in at : TRUE) ELSE changed
  BY DEF Obeyed
<1>2. \A i, j \in at : i = j
  BY OwnIds
<1>3. \A i \in DOMAIN plan : i \in at <=> plan[i].id = k.entry.id
  OBVIOUS
<1>4. CASE at = {}
  <2>1. CASE k.op = "delete"
    BY <1>1, <1>3, <1>4, <2>1
  <2>2. CASE k.op # "delete"
    <3>1. new = Append(plan, k.entry)
      BY <1>1, <1>4, <2>2
    <3>2. \A j \in DOMAIN plan : plan[j].id # k.entry.id
      BY <1>3, <1>4
    <3> HIDE DEF new, at
    <3>3. /\ new \in PlansUpTo(n) /\ HaveIds(new)
          /\ \A j \in DOMAIN plan : j \in DOMAIN new /\ new[j] = plan[j]
          /\ \A m \in DOMAIN new : m \in DOMAIN plan \/ new[m] = k.entry
      BY <3>1, <3>2, AppendedPlan
    <3> QED
      BY <2>2, <3>1, <3>2, <3>3 DEF new
  <2> QED
    BY <2>1, <2>2
<1>5. ASSUME NEW i \in at
      PROVE  /\ new \in PlansUpTo(n) /\ HaveIds(new)
             /\ \A m \in DOMAIN new :
                  \/ k.op # "delete" /\ new[m] = k.entry
                  \/ \E j \in DOMAIN plan : plan[j].id # k.entry.id /\ new[m] = plan[j]
             /\ \A j \in DOMAIN plan : plan[j].id # k.entry.id =>
                  \E m \in DOMAIN new : new[m] = plan[j]
             /\ new = IF k.op = "delete" THEN Without(plan, i)
                      ELSE [plan EXCEPT ![i] = k.entry]
  <2>1. (CHOOSE j \in at : TRUE) = i
    BY <1>2
  <2>2. /\ i \in DOMAIN plan /\ plan[i].id = k.entry.id
        /\ \A j \in DOMAIN plan : j \in at <=> j = i
    BY <1>2
  <2>3. changed = [plan EXCEPT ![i] = k.entry]
    <3>1. plan = [j \in DOMAIN plan |-> plan[j]]
      BY DEF PlansUpTo
    <3> QED
      BY <2>2, <3>1
  <2>4. new = IF k.op = "delete" THEN Without(plan, i) ELSE [plan EXCEPT ![i] = k.entry]
    BY <1>1, <2>1, <2>3
  <2>5. \A j \in DOMAIN plan : plan[j].id # k.entry.id <=> j # i
    BY <1>3, <2>2
  <2> HIDE DEF new, at, changed
  <2>6. CASE k.op = "delete"
    <3>1. /\ Without(plan, i) \in PlansUpTo(n) /\ HaveIds(Without(plan, i))
          /\ \A m \in DOMAIN Without(plan, i) :
               \E j \in DOMAIN plan : j # i /\ Without(plan, i)[m] = plan[j]
          /\ \A j \in DOMAIN plan : j # i =>
               \E m \in DOMAIN Without(plan, i) : Without(plan, i)[m] = plan[j]
      BY <2>2, WithoutElements, WithoutKeeps
    <3>2. new = Without(plan, i)
      BY <2>4, <2>6
    <3> QED
      BY <2>4, <2>5, <3>1, <3>2
  <2>7. CASE k.op # "delete"
    <3>1. new = [plan EXCEPT ![i] = k.entry]
      BY <2>4, <2>7
    <3>2. /\ new \in PlansUpTo(n) /\ HaveIds(new) /\ DOMAIN new = DOMAIN plan
          /\ new[i] = k.entry /\ \A j \in DOMAIN plan : j # i => new[j] = plan[j]
      BY <2>2, <3>1, ChangedPlan
    <3> QED
      BY <2>4, <2>5, <2>7, <3>2
  <2> QED
    BY <2>6, <2>7
<1>6. CASE at # {}
  <2> HIDE DEF new, changed
  <2>1. PICK i \in at : TRUE
    BY <1>6
  <2>2. \A j \in DOMAIN plan : plan[j].id = k.entry.id => j = i
    BY <1>2, <1>3
  <2>3. ~\A j \in DOMAIN plan : plan[j].id # k.entry.id
    BY <2>1
  <2> HIDE DEF at
  <2> QED
    BY <1>5, <2>1, <2>2, <2>3 DEF new
<1> QED
  BY <1>4, <1>6

(* The plan a call has computed. *)
LEMMA CallParts ==
  ASSUME NEW n \in Nat, NEW k \in Forms(n), EditOfOne(k)
  PROVE  /\ k.entry \in EntriesUpTo(n) /\ k.base \in PlansUpTo(n) /\ k.values \in PlansUpTo(n)
         /\ k.key \in Keys \cup {NoKey} /\ k.op \in {"add", "edit", "delete"}
         /\ Len(k.base) \in Nat /\ DOMAIN k.base = 1 .. Len(k.base)
<1>1. /\ k.entry \in EntriesUpTo(n) /\ k.base \in PlansUpTo(n) /\ k.values \in PlansUpTo(n)
      /\ k.key \in Keys \cup {NoKey} /\ k.op \in {"add", "edit", "delete"}
  BY DEF Forms, EditOfOne
<1> QED
  BY <1>1, PlanElements

LEMMA ValuesFacts ==
  ASSUME NEW n \in Nat, NEW k \in Forms(n), EditOfOne(k)
  PROVE  /\ k.op # "delete" => k.at \in DOMAIN k.values /\ k.values[k.at] = k.entry
         /\ \A m \in DOMAIN k.values :
              \/ k.op # "delete" /\ k.values[m] = k.entry
              \/ \E j \in DOMAIN k.base : j # k.at /\ k.values[m] = k.base[j]
         /\ \A j \in DOMAIN k.base : j # k.at =>
              \E m \in DOMAIN k.values : k.values[m] = k.base[j]
         /\ Incremental /\ HaveIds(k.base) => HaveIds(k.values)
<1>1. /\ k.entry \in EntriesUpTo(n) /\ k.base \in PlansUpTo(n) /\ k.values \in PlansUpTo(n)
      /\ k.op \in {"add", "edit", "delete"}
      /\ Len(k.base) \in Nat /\ DOMAIN k.base = 1 .. Len(k.base)
  BY CallParts
<1>2. CASE k.op = "add"
  <2>1. /\ k.at = Len(k.base) + 1 /\ k.values = Append(k.base, k.entry)
        /\ Incremental => /\ k.entry.id # NoId
                          /\ \A i \in DOMAIN k.base : k.base[i].id # k.entry.id
    BY <1>2 DEF EditOfOne
  <2> DEFINE old == k.base
             e == k.entry
  <2>0. LET new == Append(old, e)
        IN  /\ DOMAIN new = 1 .. Len(old) + 1 /\ new[Len(old) + 1] = e
            /\ \A j \in DOMAIN old : j \in DOMAIN new /\ new[j] = old[j]
            /\ \A m \in DOMAIN new : m \in DOMAIN old \/ new[m] = e
            /\ HaveIds(old) /\ e.id # NoId /\ (\A j \in DOMAIN old : old[j].id # e.id)
                 => HaveIds(new)
    <3>1. old \in PlansUpTo(n) /\ e \in EntriesUpTo(n)
      BY <1>1
    <3> HIDE DEF old, e
    <3> QED
      BY <3>1, AppendedPlan
  <2>2. /\ DOMAIN k.values = 1 .. Len(k.base) + 1 /\ k.values[k.at] = k.entry
        /\ \A j \in DOMAIN k.base : j \in DOMAIN k.values /\ k.values[j] = k.base[j]
        /\ \A m \in DOMAIN k.values : m \in DOMAIN k.base \/ k.values[m] = k.entry
        /\ Incremental /\ HaveIds(k.base) => HaveIds(k.values)
    BY <2>0, <2>1
  <2>3. k.at \in DOMAIN k.values /\ \A m \in DOMAIN k.base : m # k.at
    BY <1>1, <2>1, <2>2
  <2> QED
    BY <1>2, <2>2, <2>3
<1>3. CASE k.op = "edit"
  <2>1. /\ k.at \in DOMAIN k.base /\ k.values = [k.base EXCEPT ![k.at] = k.entry]
        /\ k.entry.id = k.base[k.at].id
    BY <1>3 DEF EditOfOne
  <2>2. /\ DOMAIN k.values = DOMAIN k.base /\ k.values[k.at] = k.entry
        /\ \A j \in DOMAIN k.base : j # k.at => k.values[j] = k.base[j]
        /\ HaveIds(k.base) => HaveIds(k.values)
    BY <1>1, <2>1, ChangedPlan
  <2> QED
    BY <1>3, <2>1, <2>2
<1>4. CASE k.op = "delete"
  <2>1. k.at \in DOMAIN k.base /\ k.values = Without(k.base, k.at)
    BY <1>4 DEF EditOfOne
  <2> QED
    BY <1>1, <1>4, <2>1, WithoutKeeps
<1> QED
  BY <1>1, <1>2, <1>3, <1>4

(* When the plan was not changed meanwhile, the mower comes to have it. *)
LEMMA ObeyedIsComputed ==
  ASSUME NEW n \in Nat, NEW k \in Forms(n), EditOfOne(k), Incremental => HaveIds(k.base)
  PROVE  Obeyed(k.base, k) = k.values
<1>1. CASE ~Incremental
  BY <1>1 DEF Obeyed
<1>2. CASE Incremental
  <2>1. /\ k.entry \in EntriesUpTo(n) /\ k.base \in PlansUpTo(n)
        /\ k.op \in {"add", "edit", "delete"} /\ HaveIds(k.base)
    BY <1>2, CallParts
  <2>2. CASE k.op = "add"
    <3>1. /\ k.values = Append(k.base, k.entry) /\ k.entry.id # NoId
          /\ \A i \in DOMAIN k.base : k.base[i].id # k.entry.id
      BY <1>2, <2>2 DEF EditOfOne
    <3>2. Obeyed(k.base, k) = Append(k.base, k.entry)
      BY <1>2, <2>1, <2>2, <3>1, ObeyedById
    <3> QED
      BY <3>1, <3>2
  <2>3. CASE k.op # "add"
    <3>1. /\ k.at \in DOMAIN k.base /\ k.base[k.at].id = k.entry.id
          /\ k.values = IF k.op = "delete" THEN Without(k.base, k.at)
                        ELSE [k.base EXCEPT ![k.at] = k.entry]
      BY <2>1, <2>3 DEF EditOfOne
    <3>2. k.entry.id # NoId
      BY <2>1, <3>1, OwnIds
    <3>3. Obeyed(k.base, k) = IF k.op = "delete" THEN Without(k.base, k.at)
                              ELSE [k.base EXCEPT ![k.at] = k.entry]
      BY <1>2, <2>1, <3>1, <3>2, ObeyedById
    <3> QED
      BY <3>1, <3>3
  <2> QED
    BY <2>2, <2>3
<1> QED
  BY <1>1, <1>2

(* Annotations of rules of the plan before are those of rules of the plan after. *)
LEMMA AnnotationsFollow ==
  ASSUME NEW n \in Nat, NEW k \in Forms(n), EditOfOne(k), notes \subseteq KeysOf(k.base)
  PROVE  Annotated(k) \subseteq KeysOf(k.values)
<1>1. k.op # "delete" => Key(k.values[k.at]) \in KeysOf(k.values)
  BY ValuesFacts DEF KeysOf
<1>2. ASSUME NEW x \in notes, x # k.key PROVE x \in KeysOf(k.values)
  <2>1. PICK j \in DOMAIN k.base : Key(k.base[j]) = x
    BY DEF KeysOf
  <2>2. j # k.at
    <3>1. CASE k.op = "add"
      <4>1. k.at = Len(k.base) + 1 /\ DOMAIN k.base = 1 .. Len(k.base) /\ Len(k.base) \in Nat
        BY <3>1, CallParts DEF EditOfOne
      <4> QED
        BY <4>1
    <3>2. CASE k.op # "add"
      BY <1>2, <2>1, <3>2 DEF EditOfOne
    <3> QED
      BY <3>1, <3>2
  <2>3. PICK m \in DOMAIN k.values : k.values[m] = k.base[j]
    BY <2>2, ValuesFacts
  <2> QED
    BY <2>1, <2>3 DEF KeysOf
<1> QED
  BY <1>1, <1>2 DEF Annotated

(***************************************************************************)
(* What the actions do.                                                    *)
(***************************************************************************)

LEMMA Numbers ==
  ASSUME TypeOK
  PROVE  /\ count.app \in Nat /\ count.call \in Nat /\ Handed \in Nat
         /\ mower.revision \in Nat /\ mower.revision >= 1
         /\ Handed <= MaxLength + MaxApp + MaxCalls
BY NativePlanAssumption DEF TypeOK, Counts, Handed

LEMMA StateTypes ==
  ASSUME TypeOK
  PROVE  /\ mower.plan \in PlansUpTo(Handed) /\ reported.plan \in PlansUpTo(Handed)
         /\ reported.revision \in 0 .. mower.revision
         /\ \A d \in downloads : d.plan \in PlansUpTo(Handed)
                                /\ d.revision \in 1 .. mower.revision
         /\ \A c \in Callers : call[c] \in Forms(Handed)
         /\ Shown \in PlansUpTo(Handed)
BY DEF TypeOK, Copies, Shown

LEMMA KeyTypes ==
  ASSUME TypeOK, NEW e \in EntriesUpTo(Handed)
  PROVE  Key(e) \in Keys
<1>1. e.id = NoId \/ e.id \in Ids
  BY Numbers, NativePlanAssumption DEF EntriesUpTo, Ids
<1>2. e.when \in Times
  BY DEF EntriesUpTo
<1> QED
  BY <1>1, <1>2 DEF Key, Keys

(* New entries in a plan that are locked were locked before. *)
FromLocked(new) ==
  \A m \in DOMAIN new : new[m].locked =>
    \E i \in DOMAIN mower.plan : mower.plan[i].locked /\ mower.plan[i].id = new[m].id

LEMMA AppFacts ==
  ASSUME TypeOK, AppEdits
  PROVE  \E p \in PlansUpTo(Handed + 1) :
           /\ mower' = [plan |-> p, revision |-> mower.revision + 1]
           /\ Incremental /\ HaveIds(mower.plan) => HaveIds(p)
           /\ FromLocked(p)
<1> DEFINE old == mower.plan
<1>0. /\ Handed \in Nat /\ Handed + 1 \in Nat /\ old \in PlansUpTo(Handed)
      /\ old \in PlansUpTo(Handed + 1)
  BY Numbers, StateTypes, PlansGrow
<1>1. CASE \E w \in Times :
             mower' = Changed(Append(old, [id |-> FreshId(old), when |-> w, extra |-> 1,
                                           locked |-> FALSE]))
  <2>1. PICK w \in Times :
             mower' = Changed(Append(old, [id |-> FreshId(old), when |-> w, extra |-> 1,
                                           locked |-> FALSE]))
    BY <1>1
  <2> DEFINE e == [id |-> FreshId(old), when |-> w, extra |-> 1, locked |-> FALSE]
             p == Append(old, e)
  <2>2. /\ FreshId(old) \in {NoId} \cup 1 .. Handed + 1
        /\ Incremental => /\ FreshId(old) # NoId
                          /\ \A i \in DOMAIN old : old[i].id # FreshId(old)
    BY <1>0, FreshIdFacts
  <2>3. e \in EntriesUpTo(Handed + 1) /\ e.id = FreshId(old) /\ ~e.locked
    BY <2>2 DEF EntriesUpTo
  <2>4. mower' = [plan |-> p, revision |-> mower.revision + 1]
    BY <2>1 DEF Changed
  <2> HIDE DEF e, old
  <2>5. /\ p \in PlansUpTo(Handed + 1)
        /\ \A j \in DOMAIN old : j \in DOMAIN p /\ p[j] = old[j]
        /\ \A m \in DOMAIN p : m \in DOMAIN old \/ p[m] = e
        /\ HaveIds(old) /\ e.id # NoId /\ (\A j \in DOMAIN old : old[j].id # e.id)
             => HaveIds(p)
    BY <1>0, <2>3, AppendedPlan
  <2> HIDE DEF p
  <2>6. FromLocked(p)
    BY <2>3, <2>5 DEF FromLocked, old
  <2> QED
    BY <1>0, <2>2, <2>3, <2>4, <2>5, <2>6 DEF old
<1>2. CASE \E i \in DOMAIN old : ~old[i].locked /\ mower' = Changed(Without(old, i))
  <2>1. PICK i \in DOMAIN old : mower' = Changed(Without(old, i))
    BY <1>2
  <2> DEFINE p == Without(old, i)
  <2>2. mower' = [plan |-> p, revision |-> mower.revision + 1]
    BY <2>1 DEF Changed
  <2> HIDE DEF old
  <2>3. /\ p \in PlansUpTo(Handed + 1)
        /\ HaveIds(old) => HaveIds(p)
        /\ \A m \in DOMAIN p : \E j \in DOMAIN old : p[m] = old[j]
    BY <1>0, WithoutElements, WithoutKeeps
  <2> HIDE DEF p
  <2>4. FromLocked(p)
    BY <2>3 DEF FromLocked, old
  <2> QED
    BY <1>0, <2>2, <2>3, <2>4 DEF old
<1>3. CASE \E i \in DOMAIN old : /\ ~old[i].locked
                                 /\ \E w \in Times \ {old[i].when} :
                                      mower' = Changed([old EXCEPT ![i].when = w])
  <2>1. PICK i \in DOMAIN old : /\ ~old[i].locked
                               /\ \E w \in Times \ {old[i].when} :
                                    mower' = Changed([old EXCEPT ![i].when = w])
    BY <1>3
  <2>2. PICK w \in Times : mower' = Changed([old EXCEPT ![i].when = w])
    BY <2>1
  <2> DEFINE e == [old[i] EXCEPT !.when = w]
             p == [old EXCEPT ![i] = e]
  <2>3. mower' = [plan |-> p, revision |-> mower.revision + 1]
    BY <2>2 DEF Changed
  <2>4. old[i] \in EntriesUpTo(Handed + 1)
    BY <1>0, PlanElements
  <2>5. e \in EntriesUpTo(Handed + 1) /\ e.id = old[i].id
    BY <2>4 DEF EntriesUpTo
  <2>6. ~e.locked
    BY <2>1, <2>4 DEF EntriesUpTo
  <2> HIDE DEF e, old
  <2>7. /\ p \in PlansUpTo(Handed + 1) /\ DOMAIN p = DOMAIN old
        /\ p[i] = e /\ \A j \in DOMAIN old : j # i => p[j] = old[j]
        /\ HaveIds(old) => HaveIds(p)
    BY <1>0, <2>5, ChangedPlan
  <2> HIDE DEF p
  <2>8. FromLocked(p)
    BY <2>6, <2>7 DEF FromLocked, old
  <2> QED
    BY <1>0, <2>3, <2>7, <2>8 DEF old
<1>4. \/ \E w \in Times :
           mower' = Changed(Append(old, [id |-> FreshId(old), when |-> w, extra |-> 1,
                                         locked |-> FALSE]))
      \/ \E i \in DOMAIN old : ~old[i].locked /\ mower' = Changed(Without(old, i))
      \/ \E i \in DOMAIN old : /\ ~old[i].locked
                               /\ \E w \in Times \ {old[i].when} :
                                    mower' = Changed([old EXCEPT ![i].when = w])
  BY DEF AppEdits
<1> QED
  BY <1>1, <1>2, <1>3, <1>4

LEMMA EntryIsOne ==
  ASSUME NEW n, NEW e \in EntriesUpTo(n)
  PROVE  e # <<>>
<1>1. "id" \in DOMAIN e
  BY DEF EntriesUpTo
<1>2. DOMAIN <<>> = {}
  OBVIOUS
<1> QED
  BY <1>1, <1>2

(* A call that begins is the edit of one rule of the plan that is shown. *)
LEMMA SubmitFacts ==
  ASSUME TypeOK, NEW c \in Callers, Add(c) \/ Edit(c) \/ Delete(c)
  PROVE  /\ \E k \in Forms(Handed + 1) :
              /\ call' = [call EXCEPT ![c] = k] /\ EditOfOne(k)
              /\ k.phase = "publishing" /\ k.base = Shown
         /\ count.call < MaxCalls /\ count' = [count EXCEPT !.call = @ + 1]
         /\ sound' = (sound /\ Shown = mower.plan /\ ~\E d \in Callers : UnderWay(d))
         /\ UNCHANGED <<family, mower, wire, reported, cached, probed, downloads, notes>>
<1> DEFINE old == Shown
           Submitted(op, at, e, values) ==
             [phase |-> "publishing", op |-> op, key |-> call[c].key, at |-> at,
              entry |-> e, values |-> values, base |-> old]
<1>0. /\ Handed \in Nat /\ Handed + 1 \in Nat
      /\ old \in PlansUpTo(Handed) /\ old \in PlansUpTo(Handed + 1)
      /\ call[c].key \in Keys \cup {NoKey}
      /\ Len(old) \in Nat /\ DOMAIN old = 1 .. Len(old)
  <2>1. Handed \in Nat /\ Handed + 1 \in Nat /\ old \in PlansUpTo(Handed)
        /\ call[c] \in Forms(Handed)
    BY Numbers, StateTypes
  <2>2. old \in PlansUpTo(Handed + 1)
    BY <2>1, PlansGrow
  <2>3. Len(old) \in Nat /\ DOMAIN old = 1 .. Len(old)
    BY <2>1, PlanElements
  <2>4. call[c].key \in Keys \cup {NoKey}
    BY <2>1 DEF Forms
  <2> QED
    BY <2>1, <2>2, <2>3, <2>4
<1>1. \E op \in {"add", "edit", "delete"}, at \in Nat, e \in EntriesUpTo(Handed + 1),
         values \in PlansUpTo(Handed + 1) :
        /\ Publishing(c, op, at, e, values)
        /\ EditOfOne(Submitted(op, at, e, values))
  <2>1. CASE Add(c)
    <3>1. PICK w \in Times :
            LET new == [id |-> FreshId(old), when |-> w, extra |-> 0, locked |-> FALSE]
            IN  Publishing(c, "add", Len(old) + 1, new, Append(old, new))
      BY <2>1 DEF Add
    <3> DEFINE e == [id |-> FreshId(old), when |-> w, extra |-> 0, locked |-> FALSE]
               values == Append(old, e)
               k == Submitted("add", Len(old) + 1, e, values)
    <3>2. Publishing(c, "add", Len(old) + 1, e, values)
      BY <3>1
    <3>3. /\ FreshId(old) \in {NoId} \cup 1 .. Handed + 1
          /\ Incremental => /\ FreshId(old) # NoId
                            /\ \A i \in DOMAIN old : old[i].id # FreshId(old)
      BY <1>0, FreshIdFacts
    <3>4. /\ e \in EntriesUpTo(Handed + 1) /\ e.id = FreshId(old) /\ ~e.locked
          /\ e.extra = 0 /\ e # <<>>
      BY <3>3 DEF EntriesUpTo
    <3>5. values \in PlansUpTo(Handed + 1)
      <4> HIDE DEF e, old
      <4> QED
        BY <1>0, <3>4, AppendedPlan
    <3>6. EditOfOne(k)
      <4>1. /\ k.op = "add" /\ k.at = Len(old) + 1 /\ k.entry = e /\ k.values = Append(old, e)
            /\ k.base = old
        OBVIOUS
      <4> HIDE DEF k, e, old
      <4> QED
        BY <3>3, <3>4, <4>1 DEF EditOfOne
    <3> HIDE DEF e, old
    <3>7. Len(old) + 1 \in Nat
      BY <1>0
    <3> QED
      BY <3>2, <3>4, <3>5, <3>6, <3>7
  <2>2. CASE Edit(c)
    <3> DEFINE i == Position(old, call[c].key)
    <3>1. PICK w \in Times :
            LET new == Edited(old[i], w)
            IN  Publishing(c, "edit", i, new, [old EXCEPT ![i] = new])
      BY <2>2 DEF Edit
    <3>2. i # 0
      BY <2>2 DEF Edit
    <3> DEFINE e == Edited(old[i], w)
               values == [old EXCEPT ![i] = e]
               k == Submitted("edit", i, e, values)
    <3>3. Publishing(c, "edit", i, e, values)
      BY <3>1
    <3>4. i \in DOMAIN old /\ ~old[i].locked /\ Key(old[i]) = call[c].key
      BY <1>0, <3>2, PositionFacts
    <3>5. i \in Nat /\ old[i] \in EntriesUpTo(Handed + 1)
      BY <1>0, <3>4, PlanElements
    <3>6. /\ e \in EntriesUpTo(Handed + 1) /\ e.id = old[i].id /\ e.extra = old[i].extra
          /\ ~e.locked /\ e # <<>>
      <4>1. e \in EntriesUpTo(Handed + 1) /\ e.id = old[i].id /\ e.extra = old[i].extra
        BY <3>5 DEF Edited, EntriesUpTo
      <4>2. ~e.locked
        BY <3>5 DEF Edited, EntriesUpTo
      <4> QED
        BY <4>1, <4>2, EntryIsOne
    <3> HIDE DEF i
    <3>7. values \in PlansUpTo(Handed + 1)
      <4> HIDE DEF e, old
      <4> QED
        BY <1>0, <3>4, <3>6, ChangedPlan
    <3>8. EditOfOne(k)
      <4>1. /\ k.op = "edit" /\ k.at = i /\ k.entry = e /\ k.values = [old EXCEPT ![i] = e]
            /\ k.base = old /\ k.key = call[c].key
        OBVIOUS
      <4> HIDE DEF k, e, old
      <4> QED
        BY <3>4, <3>6, <4>1 DEF EditOfOne
    <3> HIDE DEF e, old
    <3> QED
      BY <3>3, <3>5, <3>6, <3>7, <3>8
  <2>3. CASE Delete(c)
    <3> DEFINE i == Position(old, call[c].key)
               e == old[i]
               values == Without(old, i)
               k == Submitted("delete", i, e, values)
    <3>1. i # 0 /\ Publishing(c, "delete", i, e, values)
      BY <2>3 DEF Delete
    <3>2. i \in DOMAIN old /\ ~old[i].locked /\ Key(old[i]) = call[c].key
      BY <1>0, <3>1, PositionFacts
    <3>3. i \in Nat /\ e \in EntriesUpTo(Handed + 1)
      BY <1>0, <3>2, PlanElements
    <3>4. e # <<>>
      BY <3>3, EntryIsOne
    <3> HIDE DEF i
    <3>5. values \in PlansUpTo(Handed + 1)
      <4> HIDE DEF old
      <4> QED
        BY <1>0, <3>2, WithoutElements
    <3>6. EditOfOne(k)
      <4>1. /\ k.op = "delete" /\ k.at = i /\ k.entry = e /\ k.values = Without(old, i)
            /\ k.base = old /\ k.key = call[c].key
        OBVIOUS
      <4>2. e = old[i]
        OBVIOUS
      <4> HIDE DEF k, e, old
      <4> QED
        BY <3>2, <3>4, <4>1, <4>2 DEF EditOfOne
    <3> HIDE DEF e, old
    <3> QED
      BY <3>1, <3>3, <3>5, <3>6
  <2> QED
    BY <2>1, <2>2, <2>3
<1>2. PICK op \in {"add", "edit", "delete"}, at \in Nat, e \in EntriesUpTo(Handed + 1),
           values \in PlansUpTo(Handed + 1) :
        /\ Publishing(c, op, at, e, values)
        /\ EditOfOne(Submitted(op, at, e, values))
  BY <1>1
<1> DEFINE k == Submitted(op, at, e, values)
<1>3. k \in Forms(Handed + 1) /\ k.phase = "publishing" /\ k.base = Shown
  BY <1>0, <1>2 DEF Forms
<1>4. call' = [call EXCEPT ![c] = k]
  BY <1>2 DEF Publishing
<1>5. /\ count.call < MaxCalls /\ count' = [count EXCEPT !.call = @ + 1]
      /\ sound' = (sound /\ Shown = mower.plan /\ ~\E d \in Callers : UnderWay(d))
      /\ UNCHANGED <<family, mower, wire, reported, cached, probed, downloads, notes>>
  BY <1>2 DEF Publishing, Rest
<1>6. EditOfOne(k)
  BY <1>2
<1> HIDE DEF k
<1> QED
  BY <1>3, <1>4, <1>5, <1>6

LEMMA ReportFacts ==
  ASSUME TypeOK, ReportArrives
  PROVE  /\ wire # <<>> /\ wire' = <<>>
         /\ wire[1].plan \in PlansUpTo(Handed) /\ wire[1].revision \in 1 .. mower.revision
         /\ 1 \in DOMAIN wire
         /\ \E p \in {wire[1].plan, reported.plan, <<>>}, v \in {0, wire[1].revision} :
              reported' = [plan |-> p, revision |-> v]
         /\ cached' \in {wire[1].plan, reported.plan, cached}
         /\ UNCHANGED <<family, mower, probed, downloads, notes, call, count, sound>>
<1>1. wire # <<>> /\ wire' = <<>>
      /\ UNCHANGED <<family, mower, probed, downloads, notes, call, count, sound>>
  BY DEF ReportArrives
<1>2. wire[1] \in Copies(Handed, 1, mower.revision) /\ 1 \in DOMAIN wire
  BY <1>1, TailElements DEF TypeOK
<1>3. wire[1].plan \in PlansUpTo(Handed) /\ wire[1].revision \in 1 .. mower.revision
  BY <1>2 DEF Copies
<1>4. \/ Publish(wire[1].plan, 0, cached)
      \/ Publish(reported.plan, wire[1].revision, cached)
      \/ Publish(<<>>, wire[1].revision, cached)
  <2>1. family.report \in {"plan", "revision", "empty"}
    BY DEF TypeOK, Families
  <2> QED
    BY <2>1 DEF ReportArrives
<1>5. /\ \E p \in {wire[1].plan, reported.plan, <<>>}, v \in {0, wire[1].revision} :
           reported' = [plan |-> p, revision |-> v]
      /\ cached' \in {wire[1].plan, reported.plan, cached}
  BY <1>4 DEF Publish
<1> QED
  BY <1>1, <1>2, <1>3, <1>5

LEMMA ProbeFacts ==
  ASSUME TypeOK, ProbeEnds
  PROVE  /\ \E d \in downloads : \E file \in {d.plan, mower.plan} :
              /\ reported' = [plan |-> file, revision |-> d.revision]
              /\ cached' = file
              /\ downloads' = downloads \ {d}
         /\ UNCHANGED <<family, mower, wire, probed, notes, call, count, sound>>
BY DEF ProbeEnds, Publish

LEMMA ReturnFacts ==
  ASSUME TypeOK, NEW c \in Callers, CallReturns(c)
  PROVE  /\ call[c].phase = "applied"
         /\ reported' = [plan |-> call[c].values, revision |-> reported.revision]
         /\ cached' = call[c].values
         /\ notes' = Annotated(call[c])
         /\ call' = [call EXCEPT ![c] = Idle]
         /\ UNCHANGED <<family, mower, wire, probed, downloads, count, sound>>
BY DEF CallReturns, Publish

LEMMA IdleTypes ==
  ASSUME NEW n \in Nat, NEW key \in Keys \cup {NoKey}
  PROVE  /\ Idle \in Forms(n) /\ [Idle EXCEPT !.phase = "form", !.key = key] \in Forms(n)
         /\ Idle.phase = "idle"
         /\ [Idle EXCEPT !.phase = "form", !.key = key].phase = "form"
BY EmptySeq DEF Idle, Forms, PlansUpTo

LEMMA ObeyedType ==
  ASSUME NEW n \in Nat, NEW plan \in PlansUpTo(n), NEW k, k.entry \in EntriesUpTo(n),
         k.values \in PlansUpTo(n)
  PROVE  Obeyed(plan, k) \in PlansUpTo(n)
<1> DEFINE at == {i \in DOMAIN plan : plan[i].id = k.entry.id}
           changed == [i \in DOMAIN plan |-> IF i \in at THEN k.entry ELSE plan[i]]
<1>1. \/ Obeyed(plan, k) \in {k.values, plan, Append(plan, k.entry), changed}
      \/ at # {} /\ Obeyed(plan, k) = Without(plan, CHOOSE i \in at : TRUE)
  BY DEF Obeyed
<1>2. Append(plan, k.entry) \in PlansUpTo(n)
  BY AppendProperties DEF PlansUpTo
<1>3. changed \in PlansUpTo(n)
  <2>1. changed \in [1 .. Len(plan) -> EntriesUpTo(n)] /\ Len(plan) \in Nat
    BY PlanElements
  <2> HIDE DEF changed
  <2> QED
    BY <2>1 DEF PlansUpTo
<1>4. at # {} => (CHOOSE i \in at : TRUE) \in DOMAIN plan
  OBVIOUS
<1> HIDE DEF at, changed
<1> QED
  BY <1>1, <1>2, <1>3, <1>4, WithoutElements

LEMMA CommandFacts ==
  ASSUME TypeOK, CallInv, NEW c \in Callers, CommandArrives(c), Handed \in Nat
  PROVE  LET k == call[c]
             new == Obeyed(mower.plan, k)
             after == [k EXCEPT !.phase = "applied"]
         IN  /\ k \in Forms(Handed) /\ k.phase = "publishing" /\ EditOfOne(k)
             /\ k.entry \in EntriesUpTo(Handed)
             /\ new \in PlansUpTo(Handed)
             /\ mower' = [plan |-> new, revision |-> mower.revision + 1]
             /\ call' = [call EXCEPT ![c] = after]
             /\ after \in Forms(Handed) /\ after.phase = "applied"
             /\ after.base = k.base /\ after.values = k.values /\ after.entry = k.entry
             /\ after.op = k.op /\ after.at = k.at /\ after.key = k.key
             /\ UNCHANGED <<family, wire, reported, cached, probed, downloads, notes, count,
                            sound>>
<1> DEFINE k == call[c]
           new == Obeyed(mower.plan, k)
           after == [k EXCEPT !.phase = "applied"]
<1>1. k \in Forms(Handed) /\ k.phase = "publishing" /\ EditOfOne(k)
  BY StateTypes DEF CommandArrives, CallInv, UnderWay
<1>2. /\ mower' = [plan |-> new, revision |-> mower.revision + 1]
      /\ call' = [call EXCEPT ![c] = after]
      /\ UNCHANGED <<family, wire, reported, cached, probed, downloads, notes, count, sound>>
  BY DEF CommandArrives, Changed, TypeOK
<1>3. /\ after \in Forms(Handed) /\ after.phase = "applied"
      /\ after.base = k.base /\ after.values = k.values /\ after.entry = k.entry
      /\ after.op = k.op /\ after.at = k.at /\ after.key = k.key
  BY <1>1 DEF Forms
<1>4. k.entry \in EntriesUpTo(Handed) /\ k.values \in PlansUpTo(Handed)
  BY <1>1, CallParts
<1> HIDE DEF k
<1>5. new \in PlansUpTo(Handed)
  BY <1>4, StateTypes, ObeyedType
<1> QED
  BY <1>1, <1>2, <1>3, <1>4, <1>5 DEF k

(* A form, a failure and a restart leave forms and callers that are idle. *)
LEMMA FormFacts ==
  ASSUME TypeOK, NEW c \in Callers,
         OpenForm(c) \/ CloseForm(c) \/ CommandFails(c)
  PROVE  /\ \E k \in Forms(Handed) : /\ call' = [call EXCEPT ![c] = k]
                                     /\ k.phase \in {"idle", "form"}
         /\ call[c].phase # "applied"
         /\ UNCHANGED <<family, mower, wire, reported, cached, probed, downloads, notes, sound>>
         /\ count' = count \/ count' = [count EXCEPT !.fault = @ + 1]
<1>1. Handed \in Nat /\ call[c] \in Forms(Handed) /\ Shown \in PlansUpTo(Handed)
  BY Numbers, StateTypes
<1>2. CASE OpenForm(c)
  <2>1. PICK i \in DOMAIN Shown :
          call' = [call EXCEPT ![c] = [Idle EXCEPT !.phase = "form", !.key = Key(Shown[i])]]
    BY <1>2 DEF OpenForm
  <2>2. Key(Shown[i]) \in Keys
    BY <1>1, PlanElements, KeyTypes
  <2> DEFINE key == Key(Shown[i])
             k == [Idle EXCEPT !.phase = "form", !.key = key]
  <2>3. key \in Keys \cup {NoKey}
    BY <2>2
  <2> HIDE DEF key
  <2>4. k \in Forms(Handed) /\ k.phase = "form"
    BY <1>1, <2>3, IdleTypes
  <2> HIDE DEF k
  <2>5. /\ call[c].phase = "idle"
        /\ UNCHANGED <<family, mower, wire, reported, cached, probed, downloads, notes, sound, count>>
    BY <1>2 DEF OpenForm, Rest
  <2> QED
    BY <2>1, <2>4, <2>5 DEF k, key
<1>3. CASE CloseForm(c)
  <2>1. /\ call' = [call EXCEPT ![c] = Idle] /\ call[c].phase = "form"
        /\ UNCHANGED <<family, mower, wire, reported, cached, probed, downloads, notes, sound, count>>
    BY <1>3 DEF CloseForm, Rest
  <2>2. Idle \in Forms(Handed) /\ Idle.phase = "idle"
    BY <1>1, IdleTypes
  <2> QED
    BY <2>1, <2>2
<1>4. CASE CommandFails(c)
  <2> DEFINE key == call[c].key
             k == [Idle EXCEPT !.phase = "form", !.key = key]
  <2>1. /\ call' = [call EXCEPT ![c] = IF key = NoKey THEN Idle ELSE k]
        /\ call[c].phase = "publishing"
        /\ UNCHANGED <<family, mower, wire, reported, cached, probed, downloads, notes, sound>>
        /\ count' = [count EXCEPT !.fault = @ + 1]
    BY <1>4 DEF CommandFails, Rest
  <2>2. key \in Keys \cup {NoKey}
    BY <1>1 DEF Forms
  <2> HIDE DEF key
  <2>3. /\ k \in Forms(Handed) /\ k.phase = "form"
        /\ Idle \in Forms(Handed) /\ Idle.phase = "idle"
    BY <1>1, <2>2, IdleTypes
  <2> HIDE DEF k
  <2>4. CASE key = NoKey
    BY <2>1, <2>3, <2>4
  <2>5. CASE key # NoKey
    BY <2>1, <2>3, <2>5
  <2> QED
    BY <2>4, <2>5
<1> QED
  BY <1>2, <1>3, <1>4

LEMMA RestartFacts ==
  ASSUME TypeOK, Restart, Handed \in Nat
  PROVE  /\ \A c \in Callers : /\ call'[c] \in Forms(Handed)
                               /\ call'[c].phase \in {"idle", "form"}
         /\ call' \in [Callers -> Forms(Handed)]
<1>1. Idle \in Forms(Handed) /\ Idle.phase = "idle"
  BY IdleTypes
<1>2. call' = [c \in Callers |-> IF call[c].phase = "form" THEN call[c] ELSE Idle]
  BY DEF Restart
<1>3. \A c \in Callers : call[c] \in Forms(Handed)
  BY StateTypes
<1> QED
  BY <1>1, <1>2, <1>3

(***************************************************************************)
(* Types.                                                                  *)
(***************************************************************************)

LEMMA EmptyPlan == \A n : <<>> \in PlansUpTo(n)
BY EmptySeq DEF PlansUpTo

(* What a step leaves alone keeps its type while ids are handed out and the file
   gets new revisions. *)
LEMMA TypeNext ==
  ASSUME TypeOK, NEW n \in Nat, NEW r \in Nat,
         Handed <= n, mower.revision <= r,
         family' = family, mower' \in [plan : PlansUpTo(n), revision : {r}], Handed' = n,
         \/ wire' = wire
         \/ wire' \in Seq(Copies(n, 1, r)),
         \/ reported' = reported
         \/ reported' \in Copies(n, 0, r),
         \/ cached' = cached
         \/ cached' \in PlansUpTo(n),
         \/ probed' = probed
         \/ probed' \in [revision : 0 .. r, recent : BOOLEAN],
         \/ downloads' = downloads
         \/ downloads' \subseteq Copies(n, 1, r),
         notes' \subseteq Keys,
         \/ call' = call
         \/ call' \in [Callers -> Forms(n)]
         \/ \E c \in Callers, k \in Forms(n) : call' = [call EXCEPT ![c] = k],
         count' \in Counts, sound' \in BOOLEAN
  PROVE  TypeOK'
<1>1. Handed \in Nat /\ mower.revision \in Nat /\ mower.revision >= 1
  BY Numbers
<1>2. /\ wire \in Seq(Copies(Handed, 1, mower.revision))
      /\ reported \in Copies(Handed, 0, mower.revision)
      /\ cached \in PlansUpTo(Handed)
      /\ probed \in [revision : 0 .. mower.revision, recent : BOOLEAN]
      /\ downloads \subseteq Copies(Handed, 1, mower.revision)
      /\ call \in [Callers -> Forms(Handed)]
  BY DEF TypeOK
<1>3. /\ Copies(Handed, 0, mower.revision) \subseteq Copies(n, 0, r)
      /\ Copies(Handed, 1, mower.revision) \subseteq Copies(n, 1, r)
      /\ Seq(Copies(Handed, 1, mower.revision)) \subseteq Seq(Copies(n, 1, r))
      /\ Forms(Handed) \subseteq Forms(n)
      /\ PlansUpTo(Handed) \subseteq PlansUpTo(n)
  BY <1>1, Widened, PlansGrow
<1>4. wire' \in Seq(Copies(n, 1, r))
  BY <1>2, <1>3
<1>5. reported' \in Copies(n, 0, r) /\ cached' \in PlansUpTo(n)
  BY <1>2, <1>3
<1>6. probed' \in [revision : 0 .. r, recent : BOOLEAN]
  BY <1>1, <1>2
<1>7. downloads' \subseteq Copies(n, 1, r)
  BY <1>2, <1>3
<1>8. call' \in [Callers -> Forms(n)]
  BY <1>2, <1>3
<1>9. mower'.revision = r /\ r \in Nat \ {0} /\ mower' \in [plan : PlansUpTo(n), revision : Nat \ {0}]
  BY <1>1
<1>10. family' \in Families
  BY DEF TypeOK
<1> QED
  BY <1>4, <1>5, <1>6, <1>7, <1>8, <1>9, <1>10 DEF TypeOK

LEMMA Counted ==
  ASSUME TypeOK
  PROVE  /\ count' = count => count' \in Counts /\ Handed' = Handed
         /\ count' = [count EXCEPT !.fault = @ + 1] => count' \in Counts /\ Handed' = Handed
         /\ count' = [count EXCEPT !.restart = @ + 1] => count' \in Counts /\ Handed' = Handed
         /\ count.app < MaxApp /\ count' = [count EXCEPT !.app = @ + 1]
               => count' \in Counts /\ Handed' = Handed + 1
         /\ count.call < MaxCalls /\ count' = [count EXCEPT !.call = @ + 1]
               => count' \in Counts /\ Handed' = Handed + 1
<1>1. count \in Counts /\ MaxLength \in Nat /\ MaxApp \in Nat /\ MaxCalls \in Nat
  BY NativePlanAssumption DEF TypeOK
<1>2. ASSUME count' = count PROVE count' \in Counts /\ Handed' = Handed
  BY <1>1, <1>2 DEF Handed
<1>3. ASSUME count' = [count EXCEPT !.fault = @ + 1]
      PROVE  count' \in Counts /\ Handed' = Handed
  BY <1>1, <1>3 DEF Counts, Handed
<1>4. ASSUME count' = [count EXCEPT !.restart = @ + 1]
      PROVE  count' \in Counts /\ Handed' = Handed
  BY <1>1, <1>4 DEF Counts, Handed
<1>5. ASSUME count.app < MaxApp, count' = [count EXCEPT !.app = @ + 1]
      PROVE  count' \in Counts /\ Handed' = Handed + 1
  BY <1>1, <1>5 DEF Counts, Handed
<1>6. ASSUME count.call < MaxCalls, count' = [count EXCEPT !.call = @ + 1]
      PROVE  count' \in Counts /\ Handed' = Handed + 1
  BY <1>1, <1>6 DEF Counts, Handed
<1> QED
  BY <1>2, <1>3, <1>4, <1>5, <1>6

LEMMA TypeInit == ASSUME Init PROVE TypeOK
<1>1. PICK s \in Starts : /\ family = s.family
                         /\ mower = [plan |-> s.plan, revision |-> 1]
                         /\ count = s.count
  BY DEF Init
<1>2. /\ family \in Families /\ mower.plan \in PlansUpTo(MaxLength) /\ mower.revision = 1
      /\ mower = [plan |-> mower.plan, revision |-> 1] /\ count \in Counts
  BY <1>1, NativePlanAssumption
<1>3. Handed \in Nat /\ MaxLength <= Handed /\ MaxLength \in Nat
  BY <1>2, NativePlanAssumption DEF Handed, Counts
<1>4. mower.plan \in PlansUpTo(Handed)
  BY <1>2, <1>3, PlansGrow
<1>5. <<>> \in PlansUpTo(Handed) /\ wire \in Seq(Copies(Handed, 1, mower.revision))
  BY EmptyPlan, EmptySeq DEF Init
<1>6. Idle \in Forms(Handed)
  BY <1>3, IdleTypes
<1>7. /\ mower \in [plan : PlansUpTo(Handed), revision : Nat \ {0}]
      /\ reported \in Copies(Handed, 0, mower.revision)
      /\ probed \in [revision : 0 .. mower.revision, recent : BOOLEAN]
  BY <1>2, <1>4, <1>5 DEF Init, Copies
<1>8. call \in [Callers -> Forms(Handed)] /\ cached \in PlansUpTo(Handed)
      /\ downloads \subseteq Copies(Handed, 1, mower.revision) /\ notes \subseteq Keys
      /\ sound \in BOOLEAN
  BY <1>5, <1>6 DEF Init
<1> QED
  BY <1>2, <1>5, <1>7, <1>8 DEF TypeOK

LEMMA TypeStep ==
  ASSUME TypeOK, CallInv, [Next]_vars
  PROVE  TypeOK'
<1>0. /\ Handed \in Nat /\ Handed <= Handed /\ Handed <= Handed + 1 /\ Handed + 1 \in Nat
      /\ mower.revision \in Nat /\ mower.revision <= mower.revision
      /\ mower.revision <= mower.revision + 1 /\ mower.revision + 1 \in Nat
      /\ notes \subseteq Keys /\ sound \in BOOLEAN
      /\ mower \in [plan : PlansUpTo(Handed), revision : {mower.revision}]
  BY Numbers DEF TypeOK
<1>1. CASE AppEdits
  <2>1. PICK p \in PlansUpTo(Handed + 1) :
          mower' = [plan |-> p, revision |-> mower.revision + 1]
    BY <1>1, AppFacts
  <2>2. mower' \in [plan : PlansUpTo(Handed + 1), revision : {mower.revision + 1}]
    BY <2>1
  <2>3. /\ sound' \in BOOLEAN
        /\ UNCHANGED <<family, wire, reported, cached, probed, downloads, notes, call>>
    BY <1>1 DEF AppEdits
  <2>4. count' \in Counts /\ Handed' = Handed + 1
    BY <1>1, Counted DEF AppEdits
  <2> QED
    BY <1>0, <2>2, <2>3, <2>4, TypeNext
<1>2. CASE Report
  <2>1. /\ wire' = <<mower>>
        /\ UNCHANGED <<family, mower, reported, cached, probed, downloads, notes, call, count, sound>>
    BY <1>2 DEF Report
  <2>2. mower \in Copies(Handed, 1, mower.revision)
    BY Numbers DEF TypeOK, Copies
  <2>3. wire' \in Seq(Copies(Handed, 1, mower.revision))
    BY <2>1, <2>2
  <2>4. count' \in Counts /\ Handed' = Handed
    BY <2>1, Counted
  <2> QED
    BY <1>0, <2>1, <2>3, <2>4, TypeNext
<1>3. CASE ReportArrives
  <2>1. PICK p \in {wire[1].plan, reported.plan, <<>>}, v \in {0, wire[1].revision} :
          reported' = [plan |-> p, revision |-> v]
    BY <1>3, ReportFacts
  <2>2. p \in PlansUpTo(Handed) /\ v \in 0 .. mower.revision /\ cached' \in PlansUpTo(Handed)
    <3>1. /\ wire[1].plan \in PlansUpTo(Handed) /\ wire[1].revision \in 1 .. mower.revision
          /\ cached' \in {wire[1].plan, reported.plan, cached}
      BY <1>3, ReportFacts
    <3> QED
      BY <1>0, <3>1, EmptyPlan, StateTypes DEF TypeOK
  <2>3. reported' \in Copies(Handed, 0, mower.revision)
    BY <2>1, <2>2 DEF Copies
  <2>4. /\ wire' = <<>>
        /\ UNCHANGED <<family, mower, probed, downloads, notes, call, count, sound>>
    BY <1>3, ReportFacts
  <2>5. wire' \in Seq(Copies(Handed, 1, mower.revision))
    BY <2>4, EmptySeq
  <2>6. count' \in Counts /\ Handed' = Handed
    BY <2>4, Counted
  <2> QED
    BY <1>0, <2>2, <2>3, <2>4, <2>5, <2>6, TypeNext
<1>4. CASE ProbeStarts
  <2>1. /\ reported.revision # 0 /\ probed' = [revision |-> reported.revision, recent |-> TRUE]
        /\ downloads' = downloads \cup {[plan |-> mower.plan, revision |-> reported.revision]}
        /\ UNCHANGED <<family, mower, wire, reported, cached, notes, call, count, sound>>
    BY <1>4 DEF ProbeStarts
  <2>2. reported.revision \in 1 .. mower.revision
    BY <1>0, <2>1, StateTypes
  <2>3. [plan |-> mower.plan, revision |-> reported.revision] \in Copies(Handed, 1, mower.revision)
    BY <2>2, StateTypes DEF Copies
  <2>4. downloads' \subseteq Copies(Handed, 1, mower.revision)
    BY <2>1, <2>3 DEF TypeOK
  <2>5. probed' \in [revision : 0 .. mower.revision, recent : BOOLEAN]
    BY <2>1, <2>2
  <2>6. count' \in Counts /\ Handed' = Handed
    BY <2>1, Counted
  <2> QED
    BY <1>0, <2>1, <2>4, <2>5, <2>6, TypeNext
<1>5. CASE ProbeEnds
  <2>1. PICK d \in downloads : \E file \in {d.plan, mower.plan} :
          /\ reported' = [plan |-> file, revision |-> d.revision] /\ cached' = file
          /\ downloads' = downloads \ {d}
    BY <1>5, ProbeFacts
  <2>2. PICK file \in {d.plan, mower.plan} :
          /\ reported' = [plan |-> file, revision |-> d.revision] /\ cached' = file
    BY <2>1
  <2>3. file \in PlansUpTo(Handed) /\ d.revision \in 0 .. mower.revision
    BY <1>0, StateTypes
  <2>4. reported' \in Copies(Handed, 0, mower.revision) /\ cached' \in PlansUpTo(Handed)
    BY <2>2, <2>3 DEF Copies
  <2>5. downloads' \subseteq Copies(Handed, 1, mower.revision)
    BY <2>1 DEF TypeOK
  <2>6. UNCHANGED <<family, mower, wire, probed, notes, call, count, sound>>
    BY <1>5, ProbeFacts
  <2>7. count' \in Counts /\ Handed' = Handed
    BY <2>6, Counted
  <2> QED
    BY <1>0, <2>4, <2>5, <2>6, <2>7, TypeNext
<1>6. CASE ProbeFails
  <2>1. PICK d \in downloads : downloads' = downloads \ {d} /\ Publish(<<>>, d.revision, cached)
    BY <1>6 DEF ProbeFails
  <2>2. /\ reported' = [plan |-> <<>>, revision |-> d.revision] /\ cached' = cached
        /\ UNCHANGED <<family, mower, wire, probed, notes, call, sound>>
        /\ count' = [count EXCEPT !.fault = @ + 1]
    BY <1>6, <2>1 DEF Publish, ProbeFails
  <2>3. reported' \in Copies(Handed, 0, mower.revision)
    BY <1>0, <2>2, StateTypes, EmptyPlan DEF Copies
  <2>4. downloads' \subseteq Copies(Handed, 1, mower.revision)
    BY <2>1 DEF TypeOK
  <2>5. count' \in Counts /\ Handed' = Handed
    BY <2>2, Counted
  <2> QED
    BY <1>0, <2>2, <2>3, <2>4, <2>5, TypeNext
<1>7. CASE RetryIsDue
  <2>1. /\ probed' = [probed EXCEPT !.recent = FALSE]
        /\ UNCHANGED <<family, mower, wire, reported, cached, downloads, notes, call, count, sound>>
    BY <1>7 DEF RetryIsDue
  <2>2. probed' \in [revision : 0 .. mower.revision, recent : BOOLEAN]
    BY <2>1 DEF TypeOK
  <2>3. count' \in Counts /\ Handed' = Handed
    BY <2>1, Counted
  <2> QED
    BY <1>0, <2>1, <2>2, <2>3, TypeNext
<1>8. CASE Restart
  <2>1. /\ wire' = <<>> /\ reported' = [plan |-> <<>>, revision |-> 0] /\ cached' = <<>>
        /\ probed' = [revision |-> 0, recent |-> FALSE] /\ downloads' = {}
        /\ count' = [count EXCEPT !.restart = @ + 1]
        /\ UNCHANGED <<family, mower, notes>>
    BY <1>8 DEF Restart
  <2>2. sound' \in BOOLEAN
    BY <1>8 DEF Restart
  <2>3. call' \in [Callers -> Forms(Handed)]
    BY <1>0, <1>8, RestartFacts
  <2>4. reported' \in Copies(Handed, 0, mower.revision) /\ cached' \in PlansUpTo(Handed)
    BY <1>0, <2>1, EmptyPlan DEF Copies
  <2>5. /\ wire' \in Seq(Copies(Handed, 1, mower.revision))
        /\ downloads' \subseteq Copies(Handed, 1, mower.revision)
        /\ probed' \in [revision : 0 .. mower.revision, recent : BOOLEAN]
    BY <1>0, <2>1, EmptySeq
  <2>6. count' \in Counts /\ Handed' = Handed
    BY <2>1, Counted
  <2> QED
    BY <1>0, <2>1, <2>2, <2>3, <2>4, <2>5, <2>6, TypeNext
<1>9. ASSUME NEW c \in Callers, OpenForm(c) \/ CloseForm(c) \/ CommandFails(c) PROVE TypeOK'
  <2>1. \E k \in Forms(Handed) : call' = [call EXCEPT ![c] = k]
    BY <1>9, FormFacts
  <2>2. UNCHANGED <<family, mower, wire, reported, cached, probed, downloads, notes, sound>>
    BY <1>9, FormFacts
  <2>3. count' \in Counts /\ Handed' = Handed
    BY <1>9, FormFacts, Counted
  <2> QED
    BY <1>0, <2>1, <2>2, <2>3, TypeNext
<1>10. ASSUME NEW c \in Callers, Add(c) \/ Edit(c) \/ Delete(c) PROVE TypeOK'
  <2>1. \E k \in Forms(Handed + 1) : call' = [call EXCEPT ![c] = k]
    BY <1>10, SubmitFacts
  <2>2. UNCHANGED <<family, mower, wire, reported, cached, probed, downloads, notes>>
    BY <1>10, SubmitFacts
  <2>3. count' \in Counts /\ Handed' = Handed + 1
    BY <1>10, SubmitFacts, Counted
  <2>4. sound' \in BOOLEAN
    BY <1>10, SubmitFacts
  <2>5. mower' \in [plan : PlansUpTo(Handed + 1), revision : {mower.revision}]
    BY <1>0, <2>2, PlansGrow
  <2> QED
    BY <1>0, <2>1, <2>2, <2>3, <2>4, <2>5, TypeNext
<1>11. ASSUME NEW c \in Callers, CommandArrives(c) PROVE TypeOK'
  <2> DEFINE after == [call[c] EXCEPT !.phase = "applied"]
             new == Obeyed(mower.plan, call[c])
  <2>1. /\ new \in PlansUpTo(Handed) /\ after \in Forms(Handed)
        /\ mower' = [plan |-> new, revision |-> mower.revision + 1]
        /\ call' = [call EXCEPT ![c] = after]
        /\ UNCHANGED <<family, wire, reported, cached, probed, downloads, notes, count, sound>>
    BY <1>0, <1>11, CommandFacts
  <2> HIDE DEF new, after
  <2>2. mower' \in [plan : PlansUpTo(Handed), revision : {mower.revision + 1}]
    BY <2>1
  <2>3. count' \in Counts /\ Handed' = Handed
    BY <2>1, Counted
  <2> QED
    BY <1>0, <2>1, <2>2, <2>3, TypeNext
<1>12. ASSUME NEW c \in Callers, CallReturns(c) PROVE TypeOK'
  <2>1. /\ call[c].phase = "applied"
        /\ reported' = [plan |-> call[c].values, revision |-> reported.revision]
        /\ cached' = call[c].values /\ notes' = Annotated(call[c])
        /\ call' = [call EXCEPT ![c] = Idle]
        /\ UNCHANGED <<family, mower, wire, probed, downloads, count, sound>>
    BY <1>12, ReturnFacts
  <2>2. call[c] \in Forms(Handed) /\ EditOfOne(call[c]) /\ Idle \in Forms(Handed)
    BY <1>0, <2>1, StateTypes, IdleTypes DEF CallInv, UnderWay
  <2>3. call[c].values \in PlansUpTo(Handed)
    BY <1>0, <2>2, CallParts
  <2>4. reported' \in Copies(Handed, 0, mower.revision) /\ cached' \in PlansUpTo(Handed)
    BY <2>1, <2>3, StateTypes DEF Copies
  <2>5. call[c].op # "delete" => Key(call[c].values[call[c].at]) \in Keys
    <3>1. call[c].op # "delete" => call[c].values[call[c].at] \in EntriesUpTo(Handed)
      BY <1>0, <2>2, <2>3, ValuesFacts, PlanElements
    <3> QED
      BY <3>1, KeyTypes
  <2>6. notes' \subseteq Keys
    BY <1>0, <2>1, <2>5 DEF Annotated
  <2>7. count' \in Counts /\ Handed' = Handed
    BY <2>1, Counted
  <2> QED
    BY <1>0, <2>1, <2>2, <2>4, <2>6, <2>7, TypeNext
<1>13. CASE UNCHANGED vars
  BY <1>13 DEF vars, TypeOK, Handed
<1> QED
  BY <1>1, <1>2, <1>3, <1>4, <1>5, <1>6, <1>7, <1>8, <1>9, <1>10, <1>11, <1>12, <1>13 DEF Next

(***************************************************************************)
(* Forms.                                                                  *)
(***************************************************************************)

(* What becomes of a call in a step. *)
LEMMA CallSteps ==
  ASSUME TypeOK, CallInv, [Next]_vars
  PROVE  /\ family' = family
         /\ \A d \in Callers :
              \/ call'[d] = call[d]
              \/ call'[d].phase \in {"idle", "form"}
              \/ call'[d].phase = "publishing" /\ EditOfOne(call'[d])
              \/ /\ call'[d].phase = "applied" /\ EditOfOne(call'[d])
                 /\ call[d].phase = "publishing"
                 /\ call'[d].base = call[d].base /\ call'[d].values = call[d].values
<1>0. Handed \in Nat /\ Handed + 1 \in Nat /\ call \in [Callers -> Forms(Handed)]
      /\ \A d \in Callers : call[d] \in Forms(Handed)
  BY Numbers, StateTypes DEF TypeOK
<1>1. CASE UNCHANGED <<family, call>>
  BY <1>1
<1>2. CASE Restart
  BY <1>0, <1>2, RestartFacts DEF Restart
<1>3. ASSUME NEW c \in Callers, OpenForm(c) \/ CloseForm(c) \/ CommandFails(c)
      PROVE  family' = family /\ \A d \in Callers : \/ call'[d] = call[d]
                                                   \/ call'[d].phase \in {"idle", "form"}
  BY <1>0, <1>3, FormFacts
<1>4. ASSUME NEW c \in Callers, Add(c) \/ Edit(c) \/ Delete(c)
      PROVE  /\ family' = family
             /\ \A d \in Callers :
                  \/ call'[d] = call[d]
                  \/ call'[d].phase = "publishing" /\ EditOfOne(call'[d])
  <2>1. PICK k \in Forms(Handed + 1) :
          /\ call' = [call EXCEPT ![c] = k] /\ EditOfOne(k) /\ k.phase = "publishing"
    BY <1>4, SubmitFacts
  <2>2. family' = family
    BY <1>4, SubmitFacts
  <2>3. call'[c] = k /\ \A d \in Callers : d # c => call'[d] = call[d]
    BY <1>0, <2>1
  <2> QED
    BY <2>1, <2>2, <2>3
<1>5. ASSUME NEW c \in Callers, CommandArrives(c)
      PROVE  /\ family' = family
             /\ \A d \in Callers :
                  \/ call'[d] = call[d]
                  \/ /\ call'[d].phase = "applied" /\ EditOfOne(call'[d])
                     /\ call[d].phase = "publishing"
                     /\ call'[d].base = call[d].base /\ call'[d].values = call[d].values
  <2> DEFINE after == [call[c] EXCEPT !.phase = "applied"]
  <2>1. /\ call[c].phase = "publishing" /\ EditOfOne(call[c])
        /\ call' = [call EXCEPT ![c] = after] /\ family' = family
        /\ after.phase = "applied" /\ after.base = call[c].base
        /\ after.values = call[c].values /\ after.entry = call[c].entry
        /\ after.op = call[c].op /\ after.at = call[c].at /\ after.key = call[c].key
    BY <1>0, <1>5, CommandFacts
  <2> HIDE DEF after
  <2>2. EditOfOne(after)
    BY <2>1 DEF EditOfOne
  <2>3. call'[c] = after /\ \A d \in Callers : d # c => call'[d] = call[d]
    BY <1>0, <2>1
  <2> QED
    BY <2>1, <2>2, <2>3
<1>6. ASSUME NEW c \in Callers, CallReturns(c)
      PROVE  family' = family /\ \A d \in Callers : \/ call'[d] = call[d]
                                                   \/ call'[d].phase \in {"idle", "form"}
  <2>1. call' = [call EXCEPT ![c] = Idle] /\ family' = family
    BY <1>6, ReturnFacts
  <2>2. Idle.phase = "idle"
    BY DEF Idle
  <2> QED
    BY <1>0, <2>1, <2>2
<1>7. CASE \/ AppEdits \/ Report \/ ReportArrives
           \/ ProbeStarts \/ ProbeEnds \/ ProbeFails \/ RetryIsDue \/ UNCHANGED vars
  BY <1>1, <1>7 DEF AppEdits, Report, ReportArrives, ProbeStarts, ProbeEnds, ProbeFails,
                    RetryIsDue, vars
<1> QED
  BY <1>2, <1>3, <1>4, <1>5, <1>6, <1>7 DEF Next

LEMMA CallStep ==
  ASSUME TypeOK, CallInv, [Next]_vars
  PROVE  CallInv'
<1>1. SUFFICES ASSUME NEW d \in Callers, call'[d].phase \in {"publishing", "applied"}
               PROVE  EditOfOne(call[d])'
  BY DEF CallInv, UnderWay
<1>2. EditOfOne(call'[d])
  <2>1. CASE call'[d] = call[d]
    BY <1>1, <2>1 DEF CallInv, UnderWay
  <2>2. CASE call'[d] # call[d]
    BY <1>1, <2>2, CallSteps
  <2> QED
    BY <2>1, <2>2
<1>3. family' = family
  BY CallSteps
<1> QED
  BY <1>2, <1>3 DEF EditOfOne, Incremental, Key

LEMMA CallInit == Init => CallInv
BY DEF Init, CallInv, UnderWay, Idle

(* Type correctness: no step leaves the types, whatever the mowers, plans and bounds
   are; and a call under way is always the edit of one rule of the plan it was
   computed from (async_add_rule, async_delete_rule). *)
THEOREM TypeCorrect == Spec => [](TypeOK /\ CallInv)
<1>1. Init => TypeOK /\ CallInv
  BY TypeInit, CallInit
<1>2. TypeOK /\ CallInv /\ [Next]_vars => (TypeOK /\ CallInv)'
  BY TypeStep, CallStep
<1> QED
  BY <1>1, <1>2, PTL DEF Spec

(***************************************************************************)
(* What is locked stays so, and nothing else comes to be.                  *)
(***************************************************************************)

LEMMA AgreesStays ==
  ASSUME NEW plan, NEW new, Agrees(plan, mower.plan), FromLocked(new)
  PROVE  Agrees(plan, new)
BY DEF Agrees, FromLocked

LEMMA AgreesWithItself ==
  ASSUME NEW plan, HaveIds(plan)
  PROVE  Agrees(plan, plan)
BY DEF Agrees, HaveIds

LEMMA EmptyAgrees == \A now : Agrees(<<>>, now)
<1>1. DOMAIN <<>> = {}
  OBVIOUS
<1> QED
  BY <1>1 DEF Agrees, HaveIds

(* Plans are copied from those that are known and from the mower. *)
LEMMA LockNext ==
  ASSUME LockInv, family' = family, NEW new, mower'.plan = new,
         Incremental => HaveIds(new) /\ FromLocked(new),
         \A p \in Known' : p \in Known \cup {mower.plan, <<>>} \/ Agrees(p, new)
  PROVE  LockInv'
<1> SUFFICES ASSUME Incremental PROVE \A p \in Known' \cup {new} : Agrees(p, new)
  BY DEF LockInv, Incremental
<1>1. \A p \in Known \cup {mower.plan} : Agrees(p, new)
  BY AgreesStays DEF LockInv
<1>2. Agrees(<<>>, new) /\ Agrees(new, new)
  BY EmptyAgrees, AgreesWithItself
<1> QED
  BY <1>1, <1>2

LEMMA SameMower ==
  ASSUME LockInv
  PROVE  Incremental => HaveIds(mower.plan) /\ FromLocked(mower.plan)
BY DEF LockInv, Agrees, FromLocked

LEMMA LockInit == ASSUME Init PROVE LockInv
<1>1. PICK s \in Starts : family = s.family /\ mower.plan = s.plan
  BY DEF Init
<1>2. Incremental => HaveIds(mower.plan)
  BY <1>1, NativePlanAssumption DEF Incremental
<1>3. \A p \in Known : p = <<>>
  <2>1. DOMAIN wire = {}
    BY DEF Init
  <2> QED
    BY <2>1 DEF Init, Known, UnderWay, Idle
<1> QED
  BY <1>2, <1>3, EmptyAgrees, AgreesWithItself DEF LockInv

(* A command by id leaves what is locked, and what it was computed from is right of it
   afterwards too. *)
LEMMA CommandLocks ==
  ASSUME NEW n \in Nat, mower.plan \in PlansUpTo(n), NEW k \in Forms(n), EditOfOne(k),
         Incremental, HaveIds(mower.plan), Agrees(k.base, mower.plan)
  PROVE  LET new == Obeyed(mower.plan, k)
         IN  HaveIds(new) /\ FromLocked(new) /\ Agrees(k.values, new)
<1> DEFINE new == Obeyed(mower.plan, k)
<1>1. /\ k.entry \in EntriesUpTo(n) /\ k.op \in {"add", "edit", "delete"} /\ ~k.entry.locked
      /\ HaveIds(k.base)
  BY CallParts DEF EditOfOne, Agrees
<1>2. k.entry.id # NoId
  BY <1>1, OwnIds DEF EditOfOne
<1>3. /\ HaveIds(new)
      /\ \A m \in DOMAIN new :
           \/ k.op # "delete" /\ new[m] = k.entry
           \/ \E j \in DOMAIN mower.plan :
                mower.plan[j].id # k.entry.id /\ new[m] = mower.plan[j]
  BY <1>1, <1>2, ObeyedById
<1> HIDE DEF new
<1>4. FromLocked(new)
  BY <1>1, <1>3 DEF FromLocked
<1>5. /\ HaveIds(k.values)
      /\ \A m \in DOMAIN k.values :
           \/ k.values[m] = k.entry
           \/ \E j \in DOMAIN k.base : k.values[m] = k.base[j]
  BY <1>1, ValuesFacts
<1>6. ASSUME NEW i \in DOMAIN k.values, NEW j \in DOMAIN new,
             k.values[i].id = new[j].id, new[j].locked
      PROVE  k.values[i].locked
  <2>1. PICK l \in DOMAIN mower.plan : mower.plan[l].id # k.entry.id /\ new[j] = mower.plan[l]
    BY <1>1, <1>3, <1>6
  <2>2. PICK x \in DOMAIN k.base : k.values[i] = k.base[x]
    BY <1>5, <1>6, <2>1
  <2> QED
    BY <1>6, <2>1, <2>2 DEF Agrees
<1> QED
  BY <1>3, <1>4, <1>5, <1>6 DEF Agrees, new

LEMMA LockStep ==
  ASSUME TypeOK, CallInv, LockInv, [Next]_vars
  PROVE  LockInv'
<1>0. /\ Handed \in Nat /\ Handed + 1 \in Nat /\ mower.plan \in PlansUpTo(Handed)
      /\ call \in [Callers -> Forms(Handed)]
      /\ Incremental => HaveIds(mower.plan) /\ FromLocked(mower.plan)
  BY Numbers, StateTypes, SameMower DEF TypeOK
<1>1. CASE AppEdits
  <2>1. PICK p : /\ mower'.plan = p
                 /\ Incremental /\ HaveIds(mower.plan) => HaveIds(p)
                 /\ FromLocked(p)
    BY <1>1, AppFacts
  <2>2. Known' = Known /\ family' = family
    BY <1>1 DEF AppEdits, Known, UnderWay
  <2> QED
    BY <1>0, <2>1, <2>2, LockNext
<1>2. CASE Report
  <2>1. wire' = <<mower>> /\ UNCHANGED <<family, mower, reported, cached, downloads, call>>
    BY <1>2 DEF Report
  <2>2. DOMAIN wire' = {1} /\ wire'[1] = mower
    BY <2>1
  <2>3. \A p \in Known' : p \in Known \cup {mower.plan}
    BY <2>1, <2>2 DEF Known, UnderWay
  <2> QED
    BY <1>0, <2>1, <2>3, LockNext
<1>3. CASE ReportArrives
  <2>1. /\ wire' = <<>> /\ 1 \in DOMAIN wire
        /\ reported'.plan \in {wire[1].plan, reported.plan, <<>>}
        /\ cached' \in {wire[1].plan, reported.plan, cached}
        /\ UNCHANGED <<family, mower, downloads, call>>
    BY <1>3, ReportFacts
  <2>2. DOMAIN wire' = {}
    BY <2>1
  <2>3. \A p \in Known' : p \in Known \cup {<<>>}
    BY <2>1, <2>2 DEF Known, UnderWay
  <2> QED
    BY <1>0, <2>1, <2>3, LockNext
<1>4. CASE ProbeStarts
  <2>1. /\ downloads' = downloads \cup {[plan |-> mower.plan, revision |-> reported.revision]}
        /\ UNCHANGED <<family, mower, wire, reported, cached, call>>
    BY <1>4 DEF ProbeStarts
  <2>2. \A p \in Known' : p \in Known \cup {mower.plan}
    BY <2>1 DEF Known, UnderWay
  <2> QED
    BY <1>0, <2>1, <2>2, LockNext
<1>5. CASE ProbeEnds
  <2>1. PICK d \in downloads : \E file \in {d.plan, mower.plan} :
          /\ reported' = [plan |-> file, revision |-> d.revision] /\ cached' = file
          /\ downloads' = downloads \ {d}
    BY <1>5, ProbeFacts
  <2>2. UNCHANGED <<family, mower, wire, call>>
    BY <1>5, ProbeFacts
  <2>3. \A p \in Known' : p \in Known \cup {mower.plan}
    BY <2>1, <2>2 DEF Known, UnderWay
  <2> QED
    BY <1>0, <2>2, <2>3, LockNext
<1>6. CASE ProbeFails
  <2>1. PICK d \in downloads : downloads' = downloads \ {d} /\ Publish(<<>>, d.revision, cached)
    BY <1>6 DEF ProbeFails
  <2>2. /\ reported'.plan = <<>> /\ cached' = cached
        /\ UNCHANGED <<family, mower, wire, call>>
    BY <1>6, <2>1 DEF Publish, ProbeFails
  <2>3. \A p \in Known' : p \in Known \cup {<<>>}
    BY <2>1, <2>2 DEF Known, UnderWay
  <2> QED
    BY <1>0, <2>2, <2>3, LockNext
<1>7. CASE Restart
  <2>1. /\ wire' = <<>> /\ reported'.plan = <<>> /\ cached' = <<>> /\ downloads' = {}
        /\ UNCHANGED <<family, mower>>
        /\ \A c \in Callers : call'[c].phase \in {"idle", "form"}
    BY <1>0, <1>7, RestartFacts DEF Restart
  <2>2. DOMAIN wire' = {}
    BY <2>1
  <2>3. \A p \in Known' : p = <<>>
    BY <2>1, <2>2 DEF Known, UnderWay
  <2> QED
    BY <1>0, <2>1, <2>3, LockNext
<1>8. ASSUME NEW c \in Callers, OpenForm(c) \/ CloseForm(c) \/ CommandFails(c) PROVE LockInv'
  <2>1. UNCHANGED <<family, mower, wire, reported, cached, downloads>>
    BY <1>8, FormFacts
  <2>2. PICK k : call' = [call EXCEPT ![c] = k] /\ k.phase \in {"idle", "form"}
    BY <1>8, FormFacts
  <2>3. call'[c] = k /\ \A d \in Callers : d # c => call'[d] = call[d]
    BY <1>0, <2>2
  <2>4. \A p \in Known' : p \in Known
    BY <2>1, <2>2, <2>3 DEF Known, UnderWay
  <2> QED
    BY <1>0, <2>1, <2>4, LockNext
<1>9. ASSUME NEW c \in Callers, Add(c) \/ Edit(c) \/ Delete(c) PROVE LockInv'
  <2>1. UNCHANGED <<family, mower, wire, reported, cached, downloads>>
    BY <1>9, SubmitFacts
  <2>2. PICK k : call' = [call EXCEPT ![c] = k] /\ k.phase = "publishing" /\ k.base = Shown
    BY <1>9, SubmitFacts
  <2>3. call'[c] = k /\ \A d \in Callers : d # c => call'[d] = call[d]
    BY <1>0, <2>2
  <2>4. Shown \in {reported.plan, cached}
    BY DEF Shown
  <2>5. \A p \in Known' : p \in Known
    BY <2>1, <2>2, <2>3, <2>4 DEF Known, UnderWay
  <2> QED
    BY <1>0, <2>1, <2>5, LockNext
<1>10. ASSUME NEW c \in Callers, CommandArrives(c) PROVE LockInv'
  <2> DEFINE k == call[c]
             new == Obeyed(mower.plan, k)
             after == [k EXCEPT !.phase = "applied"]
  <2>1. /\ k \in Forms(Handed) /\ k.phase = "publishing" /\ EditOfOne(k)
        /\ mower' = [plan |-> new, revision |-> mower.revision + 1]
        /\ call' = [call EXCEPT ![c] = after]
        /\ after.base = k.base /\ after.values = k.values
        /\ UNCHANGED <<family, wire, reported, cached, downloads>>
    BY <1>0, <1>10, CommandFacts
  <2> HIDE DEF after, new
  <2>2. /\ mower'.plan = new /\ call'[c] = after
        /\ \A d \in Callers : d # c => call'[d] = call[d]
    BY <1>0, <2>1
  <2>3. k.base \in Known
    BY <2>1 DEF Known, UnderWay
  <2>4. Incremental => Agrees(k.base, mower.plan)
    BY <2>3 DEF LockInv
  <2> HIDE DEF k
  <2>5. Incremental => HaveIds(new) /\ FromLocked(new) /\ Agrees(k.values, new)
    BY <1>0, <2>1, <2>4, CommandLocks DEF new
  <2>6. \A p \in Known' : p \in Known \/ p = k.values
    BY <2>1, <2>2 DEF Known, UnderWay, k
  <2>7. CASE Incremental
    BY <1>0, <2>1, <2>5, <2>6, <2>7, LockNext
  <2>8. CASE ~Incremental
    BY <2>1, <2>8 DEF LockInv, Incremental
  <2> QED
    BY <2>7, <2>8
<1>11. ASSUME NEW c \in Callers, CallReturns(c) PROVE LockInv'
  <2>1. /\ call[c].phase = "applied"
        /\ reported'.plan = call[c].values /\ cached' = call[c].values
        /\ call' = [call EXCEPT ![c] = Idle]
        /\ UNCHANGED <<family, mower, wire, downloads>>
    BY <1>11, ReturnFacts
  <2>2. call'[c].phase = "idle" /\ \A d \in Callers : d # c => call'[d] = call[d]
    BY <1>0, <2>1 DEF Idle
  <2>3. \A p \in Known' : p \in Known
    BY <2>1, <2>2 DEF Known, UnderWay
  <2> QED
    BY <1>0, <2>1, <2>3, LockNext
<1>12. CASE RetryIsDue \/ UNCHANGED vars
  <2>1. UNCHANGED <<family, mower, wire, reported, cached, downloads, call>>
    BY <1>12 DEF RetryIsDue, vars
  <2>2. Known' = Known
    BY <2>1 DEF Known, UnderWay
  <2> QED
    BY <1>0, <2>1, <2>2, LockNext
<1> QED
  BY <1>1, <1>2, <1>3, <1>4, <1>5, <1>6, <1>7, <1>8, <1>9, <1>10, <1>11, <1>12 DEF Next

(***************************************************************************)
(* Annotations.                                                            *)
(***************************************************************************)

LEMMA OrphanInit == Init => OrphanInv
BY DEF Init, OrphanInv, Orderly, UnderWay, Idle

(* Nothing happens to the plan and the annotations. *)
LEMMA OrderlyStays ==
  ASSUME Orderly, UNCHANGED <<mower, notes>>,
         \A d \in Callers : \/ call'[d] = call[d]
                            \/ /\ call[d].phase # "applied"
                               /\ call'[d].phase \in {"idle", "form"}
  PROVE  Orderly'
BY DEF Orderly, UnderWay

LEMMA OrderlyStep ==
  ASSUME TypeOK, CallInv, LockInv, Orderly, NEW c \in Callers,
         CommandArrives(c) \/ CallReturns(c)
  PROVE  Orderly'
<1>0. Handed \in Nat /\ call \in [Callers -> Forms(Handed)] /\ call[c] \in Forms(Handed)
  BY Numbers, StateTypes DEF TypeOK
<1>1. CASE CommandArrives(c)
  <2> DEFINE k == call[c]
             new == Obeyed(mower.plan, k)
             after == [k EXCEPT !.phase = "applied"]
  <2>1. /\ k \in Forms(Handed) /\ k.phase = "publishing" /\ EditOfOne(k)
        /\ mower' = [plan |-> new, revision |-> mower.revision + 1]
        /\ call' = [call EXCEPT ![c] = after]
        /\ after.phase = "applied" /\ after.base = k.base /\ after.values = k.values
        /\ notes' = notes
    BY <1>0, <1>1, CommandFacts
  <2> HIDE DEF after, new
  <2>2. /\ mower'.plan = new /\ call'[c] = after
        /\ \A d \in Callers : d # c => call'[d] = call[d]
    BY <1>0, <2>1
  <2>3. /\ k.base = mower.plan
        /\ \A d \in Callers : d # c => ~UnderWay(d)
    BY <2>1 DEF Orderly, UnderWay
  <2>4. notes \subseteq KeysOf(k.base)
    <3>1. \A d \in Callers : call[d].phase # "applied"
      BY <2>1, <2>3 DEF UnderWay
    <3> QED
      BY <2>3, <3>1 DEF Orderly
  <2>5. Incremental => HaveIds(k.base)
    BY <2>3 DEF LockInv, Agrees
  <2>6. new = k.values
    <3> HIDE DEF k
    <3> QED
      BY <1>0, <2>1, <2>3, <2>5, ObeyedIsComputed DEF new
  <2> HIDE DEF k
  <2>7. \A d \in Callers : d # c => call'[d].phase \notin {"publishing", "applied"}
    BY <2>2, <2>3 DEF UnderWay
  <2> QED
    BY <2>1, <2>2, <2>4, <2>6, <2>7 DEF Orderly, UnderWay
<1>2. CASE CallReturns(c)
  <2>1. /\ call[c].phase = "applied" /\ notes' = Annotated(call[c])
        /\ call' = [call EXCEPT ![c] = Idle] /\ mower' = mower
    BY <1>2, ReturnFacts
  <2>2. call'[c].phase = "idle" /\ \A d \in Callers : d # c => call'[d] = call[d]
    BY <1>0, <2>1 DEF Idle
  <2>3. /\ EditOfOne(call[c]) /\ call[c].values = mower.plan
        /\ notes \subseteq KeysOf(call[c].base)
    BY <2>1 DEF CallInv, Orderly, UnderWay
  <2>4. Annotated(call[c]) \subseteq KeysOf(mower.plan)
    <3> DEFINE k == call[c]
    <3>1. k \in Forms(Handed) /\ EditOfOne(k) /\ notes \subseteq KeysOf(k.base)
          /\ k.values = mower.plan
      BY <1>0, <2>3
    <3> HIDE DEF k
    <3>2. Annotated(k) \subseteq KeysOf(k.values)
      BY <1>0, <3>1, AnnotationsFollow
    <3> QED
      BY <3>1, <3>2 DEF k
  <2>5. \A d \in Callers : call'[d].phase \notin {"publishing", "applied"}
    BY <2>1, <2>2 DEF Orderly, UnderWay
  <2> QED
    BY <2>1, <2>4, <2>5 DEF Orderly, UnderWay
<1> QED
  BY <1>1, <1>2

LEMMA OrphanStep ==
  ASSUME TypeOK, CallInv, LockInv, OrphanInv, [Next]_vars
  PROVE  OrphanInv'
<1>0. Handed \in Nat /\ call \in [Callers -> Forms(Handed)]
  BY Numbers DEF TypeOK
<1>1. CASE AppEdits
  BY <1>1 DEF AppEdits, OrphanInv
<1>2. CASE UNCHANGED <<mower, notes, call, sound>>
  BY <1>2, OrderlyStays DEF OrphanInv
<1>3. CASE Restart
  <2>1. ASSUME sound' PROVE Orderly'
    <3>1. sound /\ ~\E c \in Callers : UnderWay(c)
      BY <1>3, <2>1 DEF Restart
    <3>2. UNCHANGED <<mower, notes>>
      BY <1>3 DEF Restart
    <3>3. \A d \in Callers : call'[d].phase \in {"idle", "form"}
      BY <1>0, <1>3, RestartFacts
    <3> QED
      BY <3>1, <3>2, <3>3, OrderlyStays DEF OrphanInv, UnderWay
  <2> QED
    BY <2>1 DEF OrphanInv
<1>4. ASSUME NEW c \in Callers, OpenForm(c) \/ CloseForm(c) \/ CommandFails(c) PROVE OrphanInv'
  <2>1. UNCHANGED <<mower, notes, sound>>
    BY <1>4, FormFacts
  <2>2. PICK k : call' = [call EXCEPT ![c] = k] /\ k.phase \in {"idle", "form"}
    BY <1>4, FormFacts
  <2>3. call[c].phase # "applied"
    BY <1>4, FormFacts
  <2>4. call'[c] = k /\ \A d \in Callers : d # c => call'[d] = call[d]
    BY <1>0, <2>2
  <2>5. \A d \in Callers : \/ call'[d] = call[d]
                          \/ /\ call[d].phase # "applied"
                             /\ call'[d].phase \in {"idle", "form"}
    BY <2>2, <2>3, <2>4
  <2>6. Orderly => Orderly'
    BY <2>1, <2>5, OrderlyStays
  <2> QED
    BY <2>1, <2>6 DEF OrphanInv
<1>5. ASSUME NEW c \in Callers, Add(c) \/ Edit(c) \/ Delete(c) PROVE OrphanInv'
  <2>1. sound' = (sound /\ Shown = mower.plan /\ ~\E d \in Callers : UnderWay(d))
    BY <1>5, SubmitFacts
  <2>2. PICK k : call' = [call EXCEPT ![c] = k] /\ k.phase = "publishing" /\ k.base = Shown
    BY <1>5, SubmitFacts
  <2>3. UNCHANGED <<mower, notes>>
    BY <1>5, SubmitFacts
  <2>4. call'[c] = k /\ \A d \in Callers : d # c => call'[d] = call[d]
    BY <1>0, <2>2
  <2>5. ASSUME Orderly, Shown = mower.plan, ~\E d \in Callers : UnderWay(d) PROVE Orderly'
    <3>1. /\ notes \subseteq KeysOf(mower.plan)
          /\ \A d \in Callers : d # c => call'[d].phase \notin {"publishing", "applied"}
      BY <2>4, <2>5 DEF Orderly, UnderWay
    <3> QED
      BY <2>2, <2>3, <2>4, <2>5, <3>1 DEF Orderly, UnderWay
  <2> QED
    BY <2>1, <2>5 DEF OrphanInv
<1>6. ASSUME NEW c \in Callers, CommandArrives(c) \/ CallReturns(c) PROVE OrphanInv'
  <2>1. UNCHANGED sound
    BY <1>6 DEF CommandArrives, CallReturns
  <2>2. Orderly => Orderly'
    BY <1>6, OrderlyStep
  <2> QED
    BY <2>1, <2>2 DEF OrphanInv
<1>7. CASE \/ Report \/ ReportArrives
           \/ ProbeStarts \/ ProbeEnds \/ ProbeFails \/ RetryIsDue \/ UNCHANGED vars
  BY <1>2, <1>7 DEF Report, ReportArrives, ProbeStarts, ProbeEnds, ProbeFails,
                    RetryIsDue, vars
<1> QED
  BY <1>1, <1>3, <1>4, <1>5, <1>6, <1>7 DEF Next

(* No annotation is left behind that another rule could inherit (async_add_rule moves
   those of an edited rule to the id it has now, async_delete_rule drops them). *)
THEOREM NoneLeftBehind == Spec => []NoOrphans
<1>1. Init => LockInv /\ OrphanInv
  BY LockInit, OrphanInit
<1>2. TypeOK /\ CallInv /\ LockInv /\ OrphanInv /\ [Next]_vars => (LockInv /\ OrphanInv)'
  BY LockStep, OrphanStep
<1>3. OrphanInv => NoOrphans
  BY DEF OrphanInv, Orderly, NoOrphans, KeysOf
<1> QED
  BY <1>1, <1>2, <1>3, TypeCorrect, PTL DEF Spec

(***************************************************************************)
(* What an edit changes.                                                   *)
(***************************************************************************)

LEMMA OnlyArrivals ==
  ASSUME TypeOK, CallInv, [Next]_vars, NEW c \in Callers,
         call[c].phase = "publishing", call'[c].phase = "applied"
  PROVE  CommandArrives(c)
<1>0. Handed \in Nat /\ call \in [Callers -> Forms(Handed)]
  BY Numbers DEF TypeOK
<1>1. call'[c] # call[c]
  OBVIOUS
<1>2. ASSUME NEW d \in Callers, CommandArrives(d) PROVE d = c
  BY <1>1, <1>2, <1>0 DEF CommandArrives
<1>3. ASSUME NEW d \in Callers, OpenForm(d) \/ CloseForm(d) \/ CommandFails(d) PROVE FALSE
  <2>1. PICK k : call' = [call EXCEPT ![d] = k] /\ k.phase \in {"idle", "form"}
    BY <1>3, FormFacts
  <2> QED
    BY <1>0, <2>1
<1>4. ASSUME NEW d \in Callers, Add(d) \/ Edit(d) \/ Delete(d) PROVE FALSE
  <2>1. PICK k : call' = [call EXCEPT ![d] = k] /\ k.phase = "publishing"
    BY <1>4, SubmitFacts
  <2> QED
    BY <1>0, <2>1
<1>5. ASSUME NEW d \in Callers, CallReturns(d) PROVE FALSE
  <2>1. call' = [call EXCEPT ![d] = Idle] /\ Idle.phase = "idle"
    BY <1>5, ReturnFacts DEF Idle
  <2> QED
    BY <1>0, <2>1
<1>6. CASE Restart
  BY <1>0, <1>6, RestartFacts
<1>7. CASE \/ AppEdits \/ Report \/ ReportArrives
           \/ ProbeStarts \/ ProbeEnds \/ ProbeFails \/ RetryIsDue \/ UNCHANGED vars
  BY <1>7 DEF AppEdits, Report, ReportArrives, ProbeStarts, ProbeEnds, ProbeFails,
              RetryIsDue, vars
<1> QED
  BY <1>2, <1>3, <1>4, <1>5, <1>6, <1>7 DEF Next

(* The plan has not changed since the edit was computed. *)
LEMMA EditOfTheSamePlan ==
  ASSUME NEW n \in Nat, NEW k \in Forms(n), EditOfOne(k), Incremental => HaveIds(k.base)
  PROVE  LET old == k.base
             new == Obeyed(k.base, k)
         IN  /\ k.op = "add" => /\ new = Append(old, k.entry) /\ k.entry.extra = 0
                                /\ k.entry \in EntriesUpTo(n)
             /\ k.op # "add" => /\ k.at \in DOMAIN old /\ ~old[k.at].locked
                                /\ Key(old[k.at]) = k.key
             /\ k.op = "edit" => /\ Len(new) = Len(old)
                                 /\ \A j \in DOMAIN old \ {k.at} : new[j] = old[j]
                                 /\ new[k.at].id = old[k.at].id
                                 /\ new[k.at].extra = old[k.at].extra
             /\ k.op = "delete" => new = Without(old, k.at)
<1>1. Obeyed(k.base, k) = k.values /\ k.entry \in EntriesUpTo(n) /\ k.base \in PlansUpTo(n)
  BY ObeyedIsComputed, CallParts
<1>2. CASE k.op = "edit"
  <2>1. /\ k.at \in DOMAIN k.base /\ k.values = [k.base EXCEPT ![k.at] = k.entry]
        /\ k.entry.id = k.base[k.at].id /\ k.entry.extra = k.base[k.at].extra
        /\ ~k.base[k.at].locked /\ Key(k.base[k.at]) = k.key
    BY <1>2 DEF EditOfOne
  <2>2. /\ Len(k.values) = Len(k.base) /\ k.values[k.at] = k.entry
        /\ \A j \in DOMAIN k.base : j # k.at => k.values[j] = k.base[j]
    BY <1>1, <2>1, ChangedPlan
  <2> QED
    BY <1>1, <1>2, <2>1, <2>2
<1>3. CASE k.op # "edit"
  BY <1>1, <1>3 DEF EditOfOne
<1> QED
  BY <1>2, <1>3

(* Changes by id, to whatever the plan has become. *)
LEMMA EditOfAnotherPlan ==
  ASSUME NEW n \in Nat, NEW old \in PlansUpTo(n), NEW k \in Forms(n), EditOfOne(k),
         Incremental, HaveIds(old), Agrees(k.base, old), k.op # "add",
         NEW i \in DOMAIN old
  PROVE  \/ ~old[i].locked /\ Key(old[i]) = k.key
         \/ \E j \in DOMAIN Obeyed(old, k) : Obeyed(old, k)[j] = old[i]
<1>1. /\ k.at \in DOMAIN k.base /\ ~k.base[k.at].locked /\ Key(k.base[k.at]) = k.key
      /\ k.entry.id = k.base[k.at].id
  BY DEF EditOfOne
<1>2. k.entry \in EntriesUpTo(n) /\ k.entry.id # NoId
  BY <1>1, CallParts DEF Agrees, HaveIds
<1>3. CASE old[i].id = k.entry.id
  <2>1. ~old[i].locked
    BY <1>1, <1>3 DEF Agrees
  <2>2. Key(old[i]) = k.key
    BY <1>1, <1>2, <1>3 DEF Key
  <2> QED
    BY <2>1, <2>2
<1>4. CASE old[i].id # k.entry.id
  BY <1>2, <1>4, ObeyedById
<1> QED
  BY <1>3, <1>4

(* An edit changes the rule that was meant and no other, and keeps what Home Assistant
   does not know of it, when the plan is still the one it was computed from; and where
   changes are sent by id, other rules are left alone in any case (async_add_rule,
   async_delete_rule, async_publish_native_plan_change). *)
THEOREM NoOtherRuleChanges == Spec => OnlyTheTarget
<1> DEFINE Only == \A c \in Callers :
                     call[c].phase = "publishing" /\ call'[c].phase = "applied" =>
                       ChangesTheTarget(call[c], mower.plan, mower'.plan)
<1> SUFFICES Spec => [][Only]_vars
  BY DEF OnlyTheTarget
<1>1. TypeOK /\ CallInv /\ LockInv /\ [Next]_vars => [Only]_vars
  <2> SUFFICES ASSUME TypeOK, CallInv, LockInv, [Next]_vars, NEW c \in Callers,
                      call[c].phase = "publishing", call'[c].phase = "applied"
               PROVE  ChangesTheTarget(call[c], mower.plan, mower'.plan)
    OBVIOUS
  <2> DEFINE k == call[c]
             old == mower.plan
             new == Obeyed(old, k)
  <2>1. /\ k \in Forms(Handed) /\ EditOfOne(k) /\ Handed \in Nat
        /\ mower' = [plan |-> new, revision |-> mower.revision + 1]
    BY OnlyArrivals, CommandFacts, Numbers
  <2>2. Incremental => HaveIds(k.base) /\ HaveIds(old) /\ Agrees(k.base, old)
    <3>1. k.base \in Known
      BY DEF Known, UnderWay
    <3> QED
      BY <3>1 DEF LockInv, Agrees
  <2>3. old \in PlansUpTo(Handed) /\ EntriesUpTo(Handed) \subseteq Entries
    BY Numbers, StateTypes, PlansGrow, NativePlanAssumption DEF Entries
  <2>4. mower'.plan = new
    BY <2>1
  <2> HIDE DEF k, old, new
  <2>5. ASSUME k.base = old
        PROVE  /\ k.op = "add" => /\ new = Append(old, k.entry) /\ k.entry.extra = 0
                                  /\ k.entry \in Entries
               /\ k.op # "add" => /\ k.at \in DOMAIN old /\ ~old[k.at].locked
                                  /\ Key(old[k.at]) = k.key
               /\ k.op = "edit" => /\ Len(new) = Len(old)
                                   /\ \A j \in DOMAIN old \ {k.at} : new[j] = old[j]
                                   /\ new[k.at].id = old[k.at].id
                                   /\ new[k.at].extra = old[k.at].extra
               /\ k.op = "delete" => new = Without(old, k.at)
    <3>1. new = Obeyed(k.base, k)
      BY <2>5 DEF new
    <3> QED
      BY <2>1, <2>2, <2>3, <2>5, <3>1, EditOfTheSamePlan
  <2>6. ASSUME Incremental, k.op # "add", NEW i \in DOMAIN old
        PROVE  \/ ~old[i].locked /\ Key(old[i]) = k.key
               \/ \E j \in DOMAIN new : new[j] = old[i]
    BY <2>1, <2>2, <2>3, <2>6, EditOfAnotherPlan DEF new
  <2>7. ChangesTheTarget(k, old, new)
    BY <2>5, <2>6 DEF ChangesTheTarget
  <2> QED
    BY <2>4, <2>7 DEF k, old
<1>2. Init => LockInv
  BY LockInit
<1>3. TypeOK /\ CallInv /\ LockInv /\ [Next]_vars => LockInv'
  BY LockStep
<1> QED
  BY <1>1, <1>2, <1>3, TypeCorrect, PTL DEF Spec
=============================================================================
