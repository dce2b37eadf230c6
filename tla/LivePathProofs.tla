--------------------------- MODULE LivePathProofs ---------------------------
(***************************************************************************)
(* What TLAPS proves of LivePath, for any number of tasks, any length of   *)
(* the window and of what is loaded, and any number of faults: that a path *)
(* is of one task and no older one comes back, and that the card draws the *)
(* published path.                                                         *)
(***************************************************************************)
EXTENDS LivePath, FiniteSetTheorems, SequenceTheorems, TLAPS

(***************************************************************************)
(* Sets of indices.                                                        *)
(***************************************************************************)

LEMMA LeastIndex ==
  ASSUME NEW T \in SUBSET Nat, T # {}
  PROVE  \E m \in T : \A n \in T : m <= n
<1> DEFINE R == OpToRel(<, Nat)
<1>1. PICK m \in T : \A n \in T : <<n, m>> \notin R
  <2> HIDE DEF R
  <2>1. IsWellFoundedOn(R, Nat)
    BY NatLessThanWellFounded DEF R
  <2> QED
    BY <2>1, WFMin
<1>2. R = {ss \in Nat \X Nat : ss[1] < ss[2]}
  BY DEF OpToRel
<1> HIDE DEF R
<1>3. \A n \in T : ~(n < m)
  BY <1>1, <1>2
<1> QED
  BY <1>3

Rising(f) == \A m, n \in DOMAIN f : m < n => f[m] < f[n]

(* A finite set of indices without its least one. *)
LEMMA WithoutLeast ==
  ASSUME NEW k \in Nat, NEW S \in SUBSET Nat, IsFiniteSet(S), Cardinality(S) = k + 1
  PROVE  \E m \in S : /\ \A n \in S : m <= n
                      /\ S \ {m} \in SUBSET Nat /\ IsFiniteSet(S \ {m})
                      /\ Cardinality(S \ {m}) = k
                      /\ \A n \in S \ {m} : m < n
<1>1. S # {}
  BY FS_EmptySet
<1>2. PICK m \in S : \A n \in S : m <= n
  BY <1>1, LeastIndex
<1>3. IsFiniteSet(S \ {m}) /\ Cardinality(S \ {m}) = k
  BY FS_RemoveElement
<1> QED
  BY <1>2, <1>3

(* The indices of a finite set can be put in order. *)
LEMMA OrderExists ==
  ASSUME NEW k \in Nat, NEW S \in SUBSET Nat, IsFiniteSet(S), Cardinality(S) = k
  PROVE  \E f \in [1 .. k -> S] : Rising(f)
<1> DEFINE Fails == {i \in Nat : \E D \in SUBSET Nat :
                       /\ IsFiniteSet(D) /\ Cardinality(D) = i
                       /\ ~\E f \in [1 .. i -> D] : Rising(f)}
<1>1. Fails = {}
  <2> SUFFICES ASSUME Fails # {} PROVE FALSE
    OBVIOUS
  <2>1. PICK i \in Fails : \A j \in Fails : i <= j
    BY LeastIndex
  <2>2. PICK D \in SUBSET Nat : /\ IsFiniteSet(D) /\ Cardinality(D) = i
                                /\ ~\E f \in [1 .. i -> D] : Rising(f)
    BY <2>1
  <2>3. i # 0
    <3> SUFFICES ASSUME i = 0 PROVE FALSE
      OBVIOUS
    <3>1. [n \in {} |-> 0] \in [1 .. 0 -> D] /\ Rising([n \in {} |-> 0])
      BY DEF Rising
    <3> QED
      BY <2>2, <3>1
  <2>4. i - 1 \in Nat /\ (i - 1) + 1 = i /\ i \in Nat
    BY <2>1, <2>3
  <2>5. PICK m \in D : /\ D \ {m} \in SUBSET Nat /\ IsFiniteSet(D \ {m})
                       /\ Cardinality(D \ {m}) = i - 1
                       /\ \A n \in D \ {m} : m < n
    BY <2>2, <2>4, WithoutLeast
  <2>6. i - 1 \notin Fails
    BY <2>1, <2>4
  <2>7. PICK g \in [1 .. i - 1 -> D \ {m}] : Rising(g)
    BY <2>4, <2>5, <2>6
  <2> DEFINE f == [n \in 1 .. i |-> IF n = 1 THEN m ELSE g[n - 1]]
  <2>8. \A n \in 1 .. i : n # 1 => n - 1 \in 1 .. i - 1 /\ g[n - 1] \in D \ {m}
    BY <2>4, <2>7
  <2>9. f \in [1 .. i -> D]
    BY <2>5, <2>8
  <2>10. Rising(f)
    <3> SUFFICES ASSUME NEW a \in 1 .. i, NEW b \in 1 .. i, a < b PROVE f[a] < f[b]
      BY DEF Rising
    <3>1. b # 1 /\ f[b] = g[b - 1] /\ g[b - 1] \in D \ {m}
      BY <2>4, <2>8
    <3>2. CASE a = 1
      BY <2>5, <3>1, <3>2
    <3>3. CASE a # 1
      <4>1. a - 1 \in 1 .. i - 1 /\ b - 1 \in 1 .. i - 1 /\ a - 1 < b - 1 /\ f[a] = g[a - 1]
        BY <2>4, <3>1, <3>3
      <4>2. g[a - 1] < g[b - 1]
        BY <2>7, <4>1 DEF Rising
      <4> QED
        BY <3>1, <4>1, <4>2
    <3> QED
      BY <3>2, <3>3
  <2> QED
    BY <2>2, <2>9, <2>10
<1> QED
  BY <1>1

LEMMA OrderedIs ==
  ASSUME NEW S \in SUBSET Nat, IsFiniteSet(S)
  PROVE  /\ Ordered(S) \in [1 .. Cardinality(S) -> S] /\ Cardinality(S) \in Nat
         /\ Rising(Ordered(S))
<1>1. Cardinality(S) \in Nat
  BY FS_CardinalityType
<1>2. \E f \in [1 .. Cardinality(S) -> S] : Rising(f)
  BY <1>1, OrderExists
<1> QED
  BY <1>1, <1>2 DEF Ordered, Rising

Above(S, i) == {j \in S : j > i}

(* At most Window indices are kept, but no fewer if there are as many. *)
LEMMA EnoughKept ==
  ASSUME Window \in Nat \ {0}, NEW k \in Nat,
         NEW S \in SUBSET Nat, IsFiniteSet(S), Cardinality(S) = Window + k
  PROVE  Cardinality(Kept(S)) >= Window
<1> DEFINE Fails == {i \in Nat : \E D \in SUBSET Nat :
                       /\ IsFiniteSet(D) /\ Cardinality(D) = Window + i
                       /\ ~(Cardinality(Kept(D)) >= Window)}
<1>1. Fails = {}
  <2> SUFFICES ASSUME Fails # {} PROVE FALSE
    OBVIOUS
  <2>1. PICK i \in Fails : \A j \in Fails : i <= j
    BY LeastIndex
  <2>2. PICK D \in SUBSET Nat : /\ IsFiniteSet(D) /\ Cardinality(D) = Window + i
                                /\ ~(Cardinality(Kept(D)) >= Window)
    BY <2>1
  <2>3. CASE i = 0
    <3>1. ASSUME NEW n \in D PROVE Cardinality({j \in D : j > n}) < Window
      <4>1. IsFiniteSet(D \ {n}) /\ Cardinality(D \ {n}) = Window - 1
        BY <2>2, <2>3, FS_RemoveElement
      <4>2. {j \in D : j > n} \in SUBSET (D \ {n})
        OBVIOUS
      <4>3. /\ IsFiniteSet({j \in D : j > n})
            /\ Cardinality({j \in D : j > n}) <= Cardinality(D \ {n})
        BY <4>1, <4>2, FS_Subset
      <4>4. Cardinality({j \in D : j > n}) \in Nat
        BY <4>3, FS_CardinalityType
      <4> QED
        BY <4>1, <4>3, <4>4
    <3>2. Kept(D) = D
      BY <3>1 DEF Kept
    <3> QED
      BY <2>2, <2>3, <3>2
  <2>4. CASE i # 0
    <3>1. i - 1 \in Nat /\ Window + (i - 1) + 1 = Window + i /\ Window + (i - 1) \in Nat
      BY <2>1, <2>4
    <3>2. PICK m \in D : /\ D \ {m} \in SUBSET Nat /\ IsFiniteSet(D \ {m})
                         /\ Cardinality(D \ {m}) = Window + (i - 1)
                         /\ \A n \in D \ {m} : m < n
      BY <2>2, <3>1, WithoutLeast
    <3>3. i - 1 \notin Fails
      BY <2>1, <3>1
    <3>4. Cardinality(Kept(D \ {m})) >= Window
      BY <3>1, <3>2, <3>3
    <3>5. \A n \in D \ {m} : {j \in D : j > n} = {j \in D \ {m} : j > n}
      BY <3>2
    <3>6. Kept(D \ {m}) \in SUBSET Kept(D)
      BY <3>5 DEF Kept
    <3>7. IsFiniteSet(Kept(D))
      BY <2>2, FS_Subset DEF Kept
    <3>8. Cardinality(Kept(D \ {m})) <= Cardinality(Kept(D))
      BY <3>6, <3>7, FS_Subset
    <3>9. Cardinality(Kept(D)) \in Nat /\ Cardinality(Kept(D \ {m})) \in Nat
      BY <3>6, <3>7, FS_Subset, FS_CardinalityType
    <3> QED
      BY <2>2, <3>4, <3>8, <3>9
  <2> QED
    BY <2>3, <2>4
<1> QED
  BY <1>1

LEMMA KeptFacts ==
  ASSUME Window \in Nat \ {0}, NEW S \in SUBSET Nat, IsFiniteSet(S)
  PROVE  /\ Kept(S) \in SUBSET S /\ IsFiniteSet(Kept(S))
         /\ S # {} => Kept(S) # {}
         /\ \A i \in Kept(S) : Cardinality(Above(Kept(S), i)) < Window
         /\ \A i \in Nat : Cardinality(Above(S, i)) >= Window
                              => Cardinality(Above(Kept(S), i)) >= Window
<1>1. Kept(S) \in SUBSET S
  BY DEF Kept
<1>2. IsFiniteSet(Kept(S))
  BY <1>1, FS_Subset
<1>3. ASSUME NEW i \in Kept(S) PROVE Cardinality(Above(Kept(S), i)) < Window
  <2>1. Above(Kept(S), i) \in SUBSET Above(S, i) /\ Above(S, i) \in SUBSET S
    BY <1>1 DEF Above
  <2>2. IsFiniteSet(Above(S, i))
    BY <2>1, FS_Subset
  <2>3. /\ IsFiniteSet(Above(Kept(S), i))
        /\ Cardinality(Above(Kept(S), i)) <= Cardinality(Above(S, i))
    BY <2>1, <2>2, FS_Subset
  <2>4. Cardinality(Above(S, i)) < Window
    BY DEF Kept, Above
  <2> QED
    BY <2>2, <2>3, <2>4, FS_CardinalityType
<1>4. ASSUME NEW i \in Nat, Cardinality(Above(S, i)) >= Window
      PROVE  Cardinality(Above(Kept(S), i)) >= Window
  <2> DEFINE G == Above(S, i)
  <2>1. G \in SUBSET S /\ G \in SUBSET Nat
    BY DEF Above
  <2>2. IsFiniteSet(G) /\ Cardinality(G) \in Nat
    BY <2>1, FS_Subset, FS_CardinalityType
  <2>3. Cardinality(G) - Window \in Nat /\ Cardinality(G) = Window + (Cardinality(G) - Window)
    BY <1>4, <2>2
  <2>4. Cardinality(Kept(G)) >= Window
    <3> HIDE DEF G
    <3> QED
      BY <2>1, <2>2, <2>3, EnoughKept
  <2>5. ASSUME NEW n \in G PROVE {j \in G : j > n} = {j \in S : j > n}
    <3>1. \A j \in S : j \in Nat /\ n \in Nat /\ n > i /\ (j > n => j > i)
      BY DEF Above
    <3> QED
      BY <3>1 DEF Above
  <2>6. Kept(G) \in SUBSET Above(Kept(S), i)
    BY <2>5 DEF Kept, Above
  <2>7. IsFiniteSet(Above(Kept(S), i))
    BY <1>2, FS_Subset DEF Above
  <2>8. /\ Cardinality(Kept(G)) <= Cardinality(Above(Kept(S), i))
        /\ IsFiniteSet(Kept(G))
    BY <2>6, <2>7, FS_Subset
  <2>9. Cardinality(Above(Kept(S), i)) \in Nat /\ Cardinality(Kept(G)) \in Nat
    BY <2>7, <2>8, FS_CardinalityType
  <2> HIDE DEF G
  <2> QED
    BY <2>4, <2>8, <2>9
<1>5. ASSUME S # {} PROVE Kept(S) # {}
  <2>1. Cardinality(S) \in Nat
    BY FS_CardinalityType
  <2>2. CASE Cardinality(S) < Window
    <3>1. ASSUME NEW i \in S PROVE Cardinality({j \in S : j > i}) < Window
      <4>1. {j \in S : j > i} \in SUBSET S
        OBVIOUS
      <4>2. Cardinality({j \in S : j > i}) <= Cardinality(S) /\ IsFiniteSet({j \in S : j > i})
        BY <4>1, FS_Subset
      <4>3. Cardinality({j \in S : j > i}) \in Nat
        BY <4>2, FS_CardinalityType
      <4> QED
        BY <2>1, <2>2, <4>2, <4>3
    <3> QED
      BY <1>5, <3>1 DEF Kept
  <2>3. CASE ~(Cardinality(S) < Window)
    <3>1. Cardinality(S) - Window \in Nat
          /\ Cardinality(S) = Window + (Cardinality(S) - Window)
      BY <2>1, <2>3
    <3>2. Cardinality(Kept(S)) >= Window
      BY <3>1, EnoughKept
    <3>3. Cardinality(Kept(S)) # 0
      BY <3>2
    <3> QED
      BY <3>3, FS_EmptySet
  <2> QED
    BY <2>2, <2>3
<1> QED
  BY <1>1, <1>2, <1>3, <1>4, <1>5

(***************************************************************************)
(* The values that occur.                                                  *)
(***************************************************************************)
Ids   == Nat \cup {None}
Spots == [task : Nat, place : {Place[i] : i \in Indices}, angle : Angles, break : BOOLEAN]

(* A decoded definition: one task, one angle, no gaps. *)
Fragment(d) ==
    /\ d.id \in Nat \ {0} /\ ~d.merged
    /\ d.first \in Indices /\ d.points \in Seq(Spots) /\ d.points # <<>>
    /\ d.first + Len(d.points) - 1 \in Indices
    /\ \A n \in DOMAIN d.points : d.points[n] = Point(d.id, d.first + n - 1, d.points[1].angle)

(* What the assembler holds: the points of one task, each under its index, no
   more than the window. *)
Assembled(s) ==
    /\ s.id \in Ids /\ s.liveId \in {None, s.id} /\ s.revision \in Nat
    /\ DOMAIN s.points \in SUBSET Indices
    /\ s.angleAt \in Indices \cup {None} /\ (s.angleAt # None => s.angle \in Angles)
    /\ DOMAIN s.points # {} <=> s.id # None
    /\ s.id # None => s.angleAt # None
    /\ \A i \in DOMAIN s.points :
          /\ s.points[i] \in Spots /\ s.points[i] = Point(s.id, i, s.points[i].angle)
          /\ Cardinality(Above(DOMAIN s.points, i)) < Window

(* A path of a whole stretch of indices knows them all. *)
Whole(p)  == First(p) # None
Inner(p)  == p.first .. p.first + Len(p.points) - 2
At(p, i)  == p.points[i - p.first + 1]

AllPaths == [id : Ids, first : Ids, points : Seq(Spots), revision : Nat, merged : BOOLEAN,
             live : Ids]

(* A path as it is shown and passed on: of one task, each point where its index
   says; its last one has the newest angle. *)
Shaped(p) ==
    /\ p \in AllPaths /\ p.merged /\ p.live \in {None, p.id}
    /\ p # NoPath =>
         /\ p.id # None /\ p.first # None /\ p.points # <<>>
         /\ \A n \in DOMAIN p.points : p.points[n].task = p.id
         /\ Whole(p) => \A n \in DOMAIN p.points :
                p.points[n] = Point(p.id, p.first + n - 1, p.points[n].angle)

(* The assembler still holds what a path shows, but for its last point, or has
   dropped it for good, since it holds enough points after it. *)
Fits(p, s) ==
    p.id = s.id /\ Whole(p) =>
        \A i \in Inner(p) :
            IF i \in DOMAIN s.points THEN s.points[i].angle = At(p, i).angle
            ELSE Cardinality(Above(DOMAIN s.points, i)) >= Window

(* So two paths of a task do not differ but in their last points. *)
Agree(p, q) ==
    p.id = q.id /\ Whole(p) /\ Whole(q) =>
        \A i \in Inner(p) \cap Inner(q) : At(p, i).angle = At(q, i).angle

Later(s, r) ==
    /\ s.id <= r.id /\ s.liveId <= r.liveId /\ s.revision <= r.revision
    /\ s.id # r.id => s.revision < r.revision
    /\ \A p \in AllPaths : p.id <= s.id /\ Fits(p, s) => Fits(p, r)

(***************************************************************************)
(* The assembler.                                                          *)
(***************************************************************************)

LEMMA IndexFacts ==
  ASSUME PathBounds
  PROVE  /\ Window \in Nat \ {0} /\ IsFiniteSet(Indices) /\ Indices \in SUBSET Nat
         /\ \A S \in SUBSET Indices : IsFiniteSet(S) /\ S \in SUBSET Nat
         /\ None \notin Indices
<1>1. PICK n \in Nat : Indices = 0 .. n
  BY DEF PathBounds
<1>2. IsFiniteSet(Indices)
  BY <1>1, FS_Interval
<1>3. Indices \in SUBSET Nat /\ None \notin Indices
  BY <1>1 DEF None
<1> QED
  BY <1>2, <1>3, FS_Subset DEF PathBounds

LEMMA PointFacts ==
  ASSUME NEW t \in Nat, NEW i \in Indices, NEW a \in Angles
  PROVE  Point(t, i, a) \in Spots /\ Point(t, i, a).task = t /\ Point(t, i, a).angle = a
         /\ ~Point(t, i, a).break
BY DEF Point, Spots

LEMMA FragmentFacts ==
  ASSUME PathBounds, NEW d, Fragment(d)
  PROVE  /\ d.id \in Nat \ {0} /\ d.first \in Nat /\ Len(d.points) \in Nat \ {0}
         /\ DOMAIN d.points = 1 .. Len(d.points) /\ d.points[1].angle \in Angles
         /\ d.first + Len(d.points) - 1 \in Indices
         /\ (d.first .. d.first + Len(d.points) - 1) \in SUBSET Indices
         /\ \A i \in d.first .. d.first + Len(d.points) - 1 :
              d.points[i - d.first + 1] = Point(d.id, i, d.points[1].angle)
<1>1. /\ d.id \in Nat \ {0} /\ d.first \in Indices /\ Len(d.points) \in Nat \ {0}
      /\ DOMAIN d.points = 1 .. Len(d.points) /\ d.points[1] \in Spots
      /\ d.first + Len(d.points) - 1 \in Indices
  BY DEF Fragment
<1>2. d.points[1].angle \in Angles
  BY <1>1 DEF Spots
<1>3. PICK m \in Nat : Indices = 0 .. m
  BY DEF PathBounds
<1>4. (d.first .. d.first + Len(d.points) - 1) \in SUBSET Indices /\ d.first \in Nat
  BY <1>1, <1>3
<1>5. ASSUME NEW i \in d.first .. d.first + Len(d.points) - 1
      PROVE  d.points[i - d.first + 1] = Point(d.id, i, d.points[1].angle)
  <2>1. i - d.first + 1 \in 1 .. Len(d.points) /\ d.first + (i - d.first + 1) - 1 = i
    BY <1>1, <1>4
  <2> QED
    BY <1>1, <2>1 DEF Fragment
<1> QED
  BY <1>1, <1>2, <1>4, <1>5

(* A definition that is not refused is merged into what is there of its task. *)
LEMMA Merging ==
  ASSUME PathBounds, NEW s, Assembled(s), NEW d, Fragment(d), NEW live \in BOOLEAN,
         ~Refused(s, d, live), s.id <= d.id
  PROVE  /\ Assembled(Ingest(s, d, live)) /\ Later(s, Ingest(s, d, live))
         /\ Ingest(s, d, live).id = d.id
         /\ Ingest(s, d, live).liveId = IF live THEN d.id ELSE s.liveId
<1> DEFINE changed == s.id # None /\ s.id # d.id
           old     == IF changed THEN Empty ELSE s
           last    == d.first + Len(d.points) - 1
           filled  == [i \in DOMAIN old.points \cup (d.first .. last) |->
                            IF i \in DOMAIN old.points THEN old.points[i]
                                                       ELSE d.points[i - d.first + 1]]
           news    == changed \/ DOMAIN filled # DOMAIN old.points
           turned  == last >= old.angleAt
           r == [points   |-> [i \in Kept(DOMAIN filled) |-> filled[i]],
                 id       |-> d.id,
                 liveId   |-> IF live THEN d.id ELSE s.liveId,
                 revision |-> IF news THEN s.revision + 1 ELSE s.revision,
                 angle    |-> IF turned THEN d.points[1].angle ELSE old.angle,
                 angleAt  |-> IF turned THEN last ELSE old.angleAt]
           D == DOMAIN old.points
           F == D \cup (d.first .. last)
<1>1. Ingest(s, d, live) = r
  BY DEF Ingest, Fragment
<1>2. /\ d.id \in Nat \ {0} /\ d.first \in Nat /\ Len(d.points) \in Nat \ {0}
      /\ d.points[1].angle \in Angles /\ last \in Indices
      /\ (d.first .. last) \in SUBSET Indices
      /\ \A i \in d.first .. last :
           d.points[i - d.first + 1] = Point(d.id, i, d.points[1].angle)
  BY FragmentFacts
<1>3. /\ Indices \in SUBSET Nat /\ None \notin Indices /\ Window \in Nat \ {0}
      /\ \A S \in SUBSET Indices : IsFiniteSet(S) /\ S \in SUBSET Nat
  BY IndexFacts
<1>4. /\ s.id \in Ids /\ s.liveId \in {None, s.id} /\ s.revision \in Nat
      /\ s.angleAt \in Indices \cup {None} /\ (s.angleAt # None => s.angle \in Angles)
      /\ (DOMAIN s.points # {} <=> s.id # None)
  BY DEF Assembled
<1>5. /\ Empty.points = <<>> /\ Empty.angleAt = None /\ DOMAIN <<>> = {}
  BY DEF Empty
<1>6. /\ D \in SUBSET Indices /\ (D # {} => ~changed /\ s.id = d.id)
      /\ old.angleAt \in Indices \cup {None} /\ (old.angleAt # None => old.angle \in Angles)
      /\ \A i \in D : old.points[i] \in Spots
                      /\ old.points[i] = Point(d.id, i, old.points[i].angle)
  <2>1. CASE changed
    BY <1>5, <2>1
  <2>2. CASE ~changed
    <3>1. DOMAIN s.points # {} => s.id = d.id
      BY <1>4, <2>2
    <3> QED
      BY <1>4, <2>2, <3>1 DEF Assembled
  <2> QED
    BY <2>1, <2>2
<1>7. F \in SUBSET Indices /\ IsFiniteSet(F) /\ F \in SUBSET Nat /\ F # {} /\ D \in SUBSET F
  <2>1. d.first \in d.first .. last
    BY <1>2
  <2> QED
    BY <1>2, <1>3, <1>6, <2>1
<1>8. /\ Kept(F) \in SUBSET F /\ Kept(F) # {}
      /\ \A i \in Kept(F) : Cardinality(Above(Kept(F), i)) < Window
      /\ \A i \in Nat : Cardinality(Above(F, i)) >= Window
                           => Cardinality(Above(Kept(F), i)) >= Window
  <2> HIDE DEF F
  <2> QED
    BY <1>3, <1>7, KeptFacts
<1>9. \A i \in F : /\ filled[i] \in Spots /\ filled[i] = Point(d.id, i, filled[i].angle)
                   /\ i \in D => filled[i] = old.points[i]
  <2> SUFFICES ASSUME NEW i \in F
               PROVE  /\ filled[i] \in Spots /\ filled[i] = Point(d.id, i, filled[i].angle)
                      /\ i \in D => filled[i] = old.points[i]
    OBVIOUS
  <2>1. CASE i \in D
    <3>1. filled[i] = old.points[i]
      BY <2>1
    <3> HIDE DEF filled, old
    <3> QED
      BY <1>6, <2>1, <3>1
  <2>2. CASE i \notin D
    <3>1. i \in d.first .. last /\ filled[i] = d.points[i - d.first + 1]
      BY <2>2
    <3>2. filled[i] = Point(d.id, i, d.points[1].angle) /\ i \in Indices
      BY <1>2, <3>1
    <3>3. /\ Point(d.id, i, d.points[1].angle) \in Spots
          /\ Point(d.id, i, d.points[1].angle).angle = d.points[1].angle
      BY <1>2, <3>2, PointFacts
    <3> HIDE DEF filled
    <3> QED
      BY <2>2, <3>2, <3>3
  <2> QED
    BY <2>1, <2>2
<1>10. DOMAIN filled = F
  OBVIOUS
<1>11. /\ DOMAIN r.points = Kept(F) /\ \A i \in Kept(F) : r.points[i] = filled[i]
  BY <1>10
<1>12. /\ r.id = d.id /\ r.liveId = (IF live THEN d.id ELSE s.liveId)
       /\ r.revision = (IF changed \/ F # D THEN s.revision + 1 ELSE s.revision)
       /\ r.angle = (IF last >= old.angleAt THEN d.points[1].angle ELSE old.angle)
       /\ r.angleAt = (IF last >= old.angleAt THEN last ELSE old.angleAt)
  BY <1>10
<1>13. r.liveId \in {None, d.id} /\ s.liveId <= r.liveId
  <2>1. ~live => s.liveId = None \/ s.liveId = d.id
    BY DEF Refused
  <2>2. s.liveId <= d.id
    BY <1>2, <1>4 DEF None, Ids
  <2>3. s.liveId \in Int
    BY <1>4 DEF None, Ids
  <2> QED
    BY <1>12, <2>1, <2>2, <2>3
<1>14. s.id # d.id => changed \/ F # D
  <2> SUFFICES ASSUME s.id = None, s.id # d.id PROVE F # D
    OBVIOUS
  <2>1. D = {}
    BY <1>6
  <2> QED
    BY <1>7, <2>1
<1>15. r.angleAt \in Indices /\ r.angle \in Angles
  <2>1. last \in Nat /\ (old.angleAt \in Nat \/ old.angleAt = None)
    BY <1>2, <1>3, <1>6
  <2>2. old.angleAt = None => last >= old.angleAt
    BY <2>1 DEF None
  <2> HIDE DEF r, last, old
  <2> QED
    BY <1>2, <1>6, <1>12, <2>2
<1> HIDE DEF filled
<1>16. Assembled(r)
  <2>1. \A i \in DOMAIN r.points :
          /\ r.points[i] \in Spots /\ r.points[i] = Point(r.id, i, r.points[i].angle)
          /\ Cardinality(Above(DOMAIN r.points, i)) < Window
    <3> HIDE DEF r, F
    <3> QED
      BY <1>8, <1>9, <1>11, <1>12
  <2>2. r.id \in Ids /\ r.id # None /\ r.liveId \in {None, r.id} /\ r.revision \in Nat
    <3>1. d.id # None
      BY <1>2 DEF None
    <3> HIDE DEF r, F
    <3> QED
      BY <1>2, <1>4, <1>12, <1>13, <3>1 DEF Ids
  <2>3. DOMAIN r.points \in SUBSET Indices /\ r.angleAt # None
    <3> HIDE DEF r, F
    <3> QED
      BY <1>3, <1>7, <1>8, <1>11, <1>15
  <2>4. DOMAIN r.points # {}
    <3> HIDE DEF r, F
    <3> QED
      BY <1>8, <1>11
  <2> HIDE DEF r, F
  <2> QED
    BY <1>15, <2>1, <2>2, <2>3, <2>4 DEF Assembled
<1>17. \A p \in AllPaths : p.id <= s.id /\ Fits(p, s) => Fits(p, r)
  <2> SUFFICES ASSUME NEW p \in AllPaths, p.id <= s.id, Fits(p, s), p.id = d.id, Whole(p),
                      NEW i \in Inner(p)
               PROVE  IF i \in DOMAIN r.points THEN r.points[i].angle = At(p, i).angle
                      ELSE Cardinality(Above(DOMAIN r.points, i)) >= Window
    BY <1>12 DEF Fits
  <2>1. s.id = d.id
    BY <1>2, <1>4 DEF Ids, None
  <2>2. D = DOMAIN s.points /\ old = s
    BY <2>1
  <2>3. IF i \in D THEN s.points[i].angle = At(p, i).angle
        ELSE Cardinality(Above(D, i)) >= Window
    BY <2>1, <2>2 DEF Fits
  <2>4. i \in Nat
    <3>1. p.first \in Nat
      BY DEF Whole, First, AllPaths, Ids
    <3>2. Len(p.points) \in Nat
      BY DEF AllPaths
    <3> QED
      BY <3>1, <3>2 DEF Inner
  <2>5. CASE i \in D
    <3>1. CASE i \in Kept(F)
      BY <1>9, <1>7, <1>11, <2>2, <2>3, <2>5, <3>1
    <3>2. CASE i \notin Kept(F)
      <4>1. ~(Cardinality({j \in F : j > i}) < Window)
        BY <1>7, <2>5, <3>2 DEF Kept
      <4>2. Above(F, i) = {j \in F : j > i}
        BY DEF Above
      <4>3. IsFiniteSet(Above(F, i))
        BY <1>7, <4>2, FS_Subset
      <4>4. Cardinality(Above(F, i)) \in Nat
        BY <4>3, FS_CardinalityType
      <4> HIDE DEF F, r
      <4>5. Cardinality(Above(F, i)) >= Window
        BY <1>3, <4>1, <4>2, <4>4
      <4> QED
        BY <1>8, <1>11, <2>4, <3>2, <4>5
    <3> QED
      BY <3>1, <3>2
  <2>6. CASE i \notin D
    <3>1. Above(D, i) \in SUBSET Above(F, i) /\ Above(F, i) \in SUBSET F
      BY <1>7 DEF Above
    <3>2. IsFiniteSet(Above(F, i))
      BY <1>7, <3>1, FS_Subset
    <3>3. Cardinality(Above(D, i)) <= Cardinality(Above(F, i)) /\ IsFiniteSet(Above(D, i))
      BY <3>1, <3>2, FS_Subset
    <3>4. Cardinality(Above(D, i)) \in Nat /\ Cardinality(Above(F, i)) \in Nat
      BY <3>2, <3>3, FS_CardinalityType
    <3>5. Cardinality(Above(F, i)) >= Window
      BY <1>3, <2>3, <2>6, <3>3, <3>4
    <3>6. Cardinality(Above(Kept(F), i)) >= Window
      <4> HIDE DEF F
      <4> QED
        BY <1>8, <2>4, <3>5
    <3>7. i \notin Kept(F)
      <4> HIDE DEF F
      <4>3. Above(Kept(F), i) \in SUBSET F
        BY <1>8 DEF Above
      <4>1. IsFiniteSet(Above(Kept(F), i))
        BY <1>7, <4>3, FS_Subset
      <4>2. Cardinality(Above(Kept(F), i)) \in Nat
        BY <4>1, FS_CardinalityType
      <4> QED
        BY <1>3, <1>8, <3>6, <4>2
    <3> HIDE DEF F, r
    <3> QED
      BY <1>11, <3>6, <3>7
  <2> QED
    BY <2>5, <2>6
<1>18. Later(s, r)
  <2>1. s.id <= r.id /\ s.revision <= r.revision /\ (s.id # r.id => s.revision < r.revision)
    <3> HIDE DEF r, F, D, changed
    <3> QED
      BY <1>4, <1>12, <1>14
  <2> HIDE DEF r
  <2> QED
    BY <1>13, <1>17, <2>1 DEF Later
<1> HIDE DEF r
<1> QED
  BY <1>1, <1>12, <1>16, <1>18

LEMMA LaterFacts ==
  ASSUME NEW s, Assembled(s), NEW r, Assembled(r), NEW v, Assembled(v),
         Later(s, r), Later(r, v)
  PROVE  Later(s, s) /\ Later(s, v)
<1>1. /\ s.id \in Int /\ s.liveId \in Int /\ s.revision \in Int
      /\ r.id \in Int /\ r.liveId \in Int /\ r.revision \in Int
      /\ v.id \in Int /\ v.liveId \in Int /\ v.revision \in Int
  BY DEF Assembled, Ids, None
<1>2. \A p \in AllPaths : p.id \in Int
  BY DEF AllPaths, Ids, None
<1> QED
  BY <1>1, <1>2 DEF Later

LEMMA LaterSame == ASSUME NEW s, Assembled(s) PROVE Later(s, s)
<1>1. s.id \in Int /\ s.liveId \in Int /\ s.revision \in Int
  BY DEF Assembled, Ids, None
<1> QED
  BY <1>1 DEF Later

(* In order the indices of a path without breaks are consecutive. *)
LEMMA Consecutive ==
  ASSUME NEW k \in Nat, NEW f \in [1 .. k -> Nat],
         \A n \in 2 .. k : f[n] = f[n - 1] + 1,
         NEW n \in 1 .. k
  PROVE  f[n] = f[1] + n - 1
<1> DEFINE Fails == {i \in Nat : i \in 1 .. k /\ f[i] # f[1] + i - 1}
<1>1. Fails = {}
  <2> SUFFICES ASSUME Fails # {} PROVE FALSE
    OBVIOUS
  <2>1. PICK i \in Fails : \A j \in Fails : i <= j
    BY LeastIndex
  <2>2. i # 1 /\ i \in 1 .. k
    BY <2>1
  <2>3. i \in 2 .. k /\ i - 1 \in 1 .. k /\ i - 1 \in Nat /\ ~(i <= i - 1)
    BY <2>2
  <2>4. f[i - 1] = f[1] + (i - 1) - 1
    BY <2>1, <2>3
  <2>5. f[i] = f[i - 1] + 1 /\ f[1] \in Nat /\ f[i - 1] \in Nat
    BY <2>3
  <2> QED
    BY <2>1, <2>4, <2>5
<1>2. n \notin Fails
  <2> HIDE DEF Fails
  <2> QED
    BY <1>1
<1>3. n \in Nat
  OBVIOUS
<1> QED
  BY <1>2, <1>3

(* A point with the break before it and its angle. *)
Marked(v, b, a) == [v EXCEPT !.break = b, !.angle = a]

LEMMA MarkedFacts ==
  ASSUME NEW v \in Spots, NEW b \in BOOLEAN, NEW a \in Angles
  PROVE  /\ Marked(v, b, a) \in Spots
         /\ Marked(v, b, a).task = v.task /\ Marked(v, b, a).place = v.place
         /\ Marked(v, b, a).break = b /\ Marked(v, b, a).angle = a
BY DEF Spots, Marked

LEMMA SameSpot ==
  ASSUME NEW v \in Spots, NEW w \in Spots, v.task = w.task, v.place = w.place,
         v.angle = w.angle, v.break = w.break
  PROVE  v = w
BY DEF Spots

LEMMA MarkedPoint ==
  ASSUME NEW t \in Nat, NEW i \in Indices, NEW c \in Angles, NEW a \in Angles
  PROVE  Marked(Point(t, i, c), FALSE, a) = Point(t, i, a)
<1> DEFINE v == Point(t, i, c)
           w == Point(t, i, a)
<1>1. v \in Spots /\ w \in Spots /\ w.break = FALSE /\ w.angle = a
      /\ v.task = w.task /\ v.place = w.place
  BY DEF Point, Spots
<1> HIDE DEF v, w
<1>2. /\ Marked(v, FALSE, a) \in Spots /\ Marked(v, FALSE, a).task = v.task
      /\ Marked(v, FALSE, a).place = v.place
      /\ Marked(v, FALSE, a).break = FALSE /\ Marked(v, FALSE, a).angle = a
  BY <1>1, MarkedFacts, Zenon
<1> DEFINE u == Marked(v, FALSE, a)
<1> HIDE DEF u
<1>3. u \in Spots /\ u.task = w.task /\ u.place = w.place /\ u.angle = w.angle
      /\ u.break = w.break
  BY <1>1, <1>2, Zenon DEF u
<1>4. u = w
  BY <1>1, <1>3, SameSpot
<1> QED
  BY <1>4 DEF u, v, w

(* The points of a path in the order f of their indices. *)
Spotted(s, f, n) ==
    Marked(s.points[f[n]], n > 1 /\ f[n] # f[n - 1] + 1,
           IF n = Len(f) THEN s.angle ELSE s.points[f[n]].angle)

Stretched(s, f) ==
    [id |-> s.id, first |-> f[1], revision |-> s.revision, merged |-> TRUE,
     live |-> s.liveId, points |-> [n \in 1 .. Len(f) |-> Spotted(s, f, n)]]

LEMMA MergedIs ==
  ASSUME NEW s
  PROVE  IF Ordered(DOMAIN s.points) = <<>> THEN Merged(s) = NoPath
         ELSE Merged(s) = Stretched(s, Ordered(DOMAIN s.points))
BY Zenon DEF Merged, Stretched, Spotted, Marked

LEMMA StretchedFacts ==
  ASSUME PathBounds, NEW s, Assembled(s), s.id # None
  PROVE  LET f == Ordered(DOMAIN s.points)
             p == Stretched(s, f)
         IN  /\ f # <<>> /\ Shaped(p) /\ p.id = s.id /\ p.live = s.liveId
             /\ p.revision = s.revision /\ p.points # <<>>
             /\ \A i \in Inner(p) : Whole(p) =>
                  i \in DOMAIN s.points /\ At(p, i).angle = s.points[i].angle
<1> DEFINE D == DOMAIN s.points
           indices == Ordered(D)
           k == Cardinality(D)
           point(n) == Spotted(s, indices, n)
           p == Stretched(s, indices)
<1>1. /\ D \in SUBSET Indices /\ IsFiniteSet(D) /\ D \in SUBSET Nat
      /\ s.id \in Ids /\ s.liveId \in {None, s.id} /\ s.revision \in Nat
      /\ s.angleAt # None => s.angle \in Angles
      /\ D # {} /\ s.id # None /\ s.angleAt # None
      /\ \A i \in D : s.points[i] \in Spots /\ s.points[i] = Point(s.id, i, s.points[i].angle)
  BY IndexFacts DEF Assembled
<1>2. /\ indices \in [1 .. k -> D] /\ k \in Nat
  <2> HIDE DEF D
  <2> QED
    BY <1>1, OrderedIs
<1>3. Len(indices) = k /\ k # 0 /\ DOMAIN indices = 1 .. k /\ indices # <<>>
  <2>1. k # 0
    BY <1>1, FS_EmptySet
  <2> HIDE DEF D, k, indices
  <2>2. indices \in Seq(D)
    BY <1>2
  <2>3. Len(indices) = k /\ DOMAIN indices = 1 .. k
    BY <1>2, <2>2
  <2> QED
    BY <2>1, <2>3
<1>4. D # {} /\ s.id # None /\ s.id \in Nat /\ s.angle \in Angles
  <2> HIDE DEF D, k, indices
  <2>1. 1 \in 1 .. k
    BY <1>2, <1>3
  <2>2. indices[1] \in D
    BY <1>2, <2>1
  <2> QED
    BY <1>1, <2>2 DEF Ids
<1> HIDE DEF D, k, indices
<1>5. ASSUME NEW n \in 1 .. k
      PROVE  /\ indices[n] \in D /\ point(n) \in Spots /\ point(n).task = s.id
             /\ point(n).break = (n > 1 /\ indices[n] # indices[n - 1] + 1)
             /\ point(n).angle = IF n = k THEN s.angle ELSE s.points[indices[n]].angle
             /\ ~point(n).break => point(n) = Point(s.id, indices[n], point(n).angle)
  <2>1. indices[n] \in D
    BY <1>2
  <2>2. s.points[indices[n]] \in Spots
        /\ s.points[indices[n]] = Point(s.id, indices[n], s.points[indices[n]].angle)
    BY <1>1, <2>1
  <2> DEFINE v == s.points[indices[n]]
             b == n > 1 /\ indices[n] # indices[n - 1] + 1
             a == IF n = k THEN s.angle ELSE v.angle
  <2>3. point(n) = Marked(v, b, a)
    BY <1>3, Zenon DEF Spotted
  <2>4. b \in BOOLEAN /\ a \in Angles /\ v \in Spots /\ v.angle \in Angles
        /\ v = Point(s.id, indices[n], v.angle) /\ indices[n] \in Indices
    BY <1>1, <1>4, <2>1, <2>2 DEF Spots
  <2> HIDE DEF v, b, a
  <2>5. /\ Marked(v, b, a) \in Spots /\ Marked(v, b, a).task = v.task
        /\ Marked(v, b, a).break = b /\ Marked(v, b, a).angle = a
    BY <2>4, MarkedFacts
  <2>6. v.task = s.id /\ (~b => Marked(v, b, a) = Point(s.id, indices[n], a))
    <3>1. Point(s.id, indices[n], v.angle).task = s.id
      BY DEF Point
    <3>2. Marked(Point(s.id, indices[n], v.angle), FALSE, a) = Point(s.id, indices[n], a)
      BY <1>4, <2>4, MarkedPoint
    <3>3. b = TRUE \/ b = FALSE
      BY <2>4
    <3> QED
      BY <2>4, <3>1, <3>2, <3>3, Zenon
  <2> HIDE DEF point
  <2>7. /\ point(n) \in Spots /\ point(n).task = s.id /\ point(n).break = b
        /\ point(n).angle = a
        /\ (~b => point(n) = Point(s.id, indices[n], a))
    BY <2>3, <2>5, <2>6
  <2> QED
    BY <2>1, <2>7 DEF a, b, v
<1>6. /\ p.points = [n \in 1 .. k |-> point(n)] /\ DOMAIN p.points = 1 .. k
      /\ \A n \in 1 .. k : p.points[n] = point(n)
  BY <1>3 DEF Stretched
<1>7. p.points \in Seq(Spots) /\ Len(p.points) = k /\ p.points # <<>>
  <2> HIDE DEF p, point
  <2>1. p.points \in Seq(Spots)
    BY <1>2, <1>5, <1>6
  <2>2. Len(p.points) = k
    BY <1>2, <1>6, <2>1
  <2> QED
    BY <1>3, <2>1, <2>2
<1>8. /\ p.id = s.id /\ p.first = indices[1] /\ p.revision = s.revision /\ p.merged = TRUE
      /\ p.live = s.liveId /\ indices[1] \in Nat
      /\ p \in [id : {s.id}, first : {indices[1]}, points : {p.points},
                revision : {s.revision}, merged : {TRUE}, live : {s.liveId}]
  <2> HIDE DEF D, k, indices
  <2>1. 1 \in 1 .. k
    BY <1>2, <1>3
  <2>2. indices[1] \in D
    BY <1>2, <2>1
  <2> QED
    BY <1>1, <2>2 DEF Stretched
<1> HIDE DEF p, point
<1>9. Whole(p) => \A n \in 1 .. k : ~point(n).break /\ indices[n] = p.first + n - 1
  <2> SUFFICES ASSUME Whole(p) PROVE \A n \in 1 .. k : ~point(n).break
                                                       /\ indices[n] = p.first + n - 1
    OBVIOUS
  <2>1. \A n \in 1 .. k : ~point(n).break
    BY <1>6 DEF Whole, First
  <2>2. \A n \in 2 .. k : indices[n] = indices[n - 1] + 1
    <3> SUFFICES ASSUME NEW n \in 2 .. k PROVE indices[n] = indices[n - 1] + 1
      OBVIOUS
    <3>1. n \in 1 .. k /\ n > 1
      BY <1>2
    <3>2. point(n).break = (n > 1 /\ indices[n] # indices[n - 1] + 1) /\ ~point(n).break
      BY <1>5, <2>1, <3>1
    <3> QED
      BY <3>1, <3>2
  <2>3. indices \in [1 .. k -> Nat]
    BY <1>1, <1>2
  <2>4. \A n \in 1 .. k : indices[n] = indices[1] + n - 1
    BY <1>2, <2>2, <2>3, Consecutive
  <2> QED
    BY <1>8, <2>1, <2>4
<1>10. Shaped(p)
  <2>1. p \in AllPaths
    <3>1. s.liveId \in Ids /\ indices[1] \in Ids
      BY <1>1, <1>8 DEF Ids
    <3> QED
      BY <1>1, <1>7, <1>8, <3>1 DEF AllPaths
  <2>2. \A n \in DOMAIN p.points : p.points[n].task = p.id
    BY <1>5, <1>6, <1>8
  <2>3. Whole(p) => \A n \in DOMAIN p.points :
                       p.points[n] = Point(p.id, p.first + n - 1, p.points[n].angle)
    BY <1>5, <1>6, <1>8, <1>9
  <2>4. p.first # None
    BY <1>8 DEF None
  <2> QED
    BY <1>1, <1>4, <1>7, <1>8, <2>1, <2>2, <2>3, <2>4 DEF Shaped
<1>11. ASSUME NEW i \in Inner(p), Whole(p)
       PROVE  i \in D /\ At(p, i).angle = s.points[i].angle
  <2> DEFINE n == i - p.first + 1
  <2>1. n \in 1 .. k /\ n # k /\ p.first + n - 1 = i
    BY <1>2, <1>7, <1>8, <1>11 DEF Inner
  <2> HIDE DEF n
  <2>2. indices[n] = i /\ indices[n] \in D
    BY <1>5, <1>9, <1>11, <2>1
  <2>3. At(p, i) = point(n)
    BY <1>6, <2>1 DEF At, n
  <2> QED
    BY <1>5, <2>1, <2>2, <2>3
<1> QED
  BY <1>3, <1>7, <1>8, <1>10, <1>11 DEF D, indices, p

LEMMA MergedFacts ==
  ASSUME PathBounds, NEW s, Assembled(s)
  PROVE  IF s.id = None THEN Merged(s) = NoPath
         ELSE /\ Merged(s) # NoPath /\ Shaped(Merged(s)) /\ Merged(s).id = s.id
              /\ Merged(s).live = s.liveId /\ Merged(s).revision = s.revision
              /\ \A i \in Inner(Merged(s)) : Whole(Merged(s)) =>
                   i \in DOMAIN s.points /\ At(Merged(s), i).angle = s.points[i].angle
<1> DEFINE f == Ordered(DOMAIN s.points)
<1>1. CASE s.id = None
  <2>1. /\ DOMAIN s.points = {} /\ Cardinality(DOMAIN s.points) = 0
        /\ IsFiniteSet(DOMAIN s.points) /\ DOMAIN s.points \in SUBSET Nat
    BY <1>1, FS_EmptySet DEF Assembled
  <2>2. f \in [1 .. 0 -> {}]
    BY <2>1, OrderedIs
  <2> HIDE DEF f
  <2>3. f \in Seq({}) /\ Len(f) = 0
    BY <2>2
  <2>4. f = <<>>
    BY <2>3
  <2> QED
    BY <1>1, <2>4, MergedIs DEF f
<1>2. CASE s.id # None
  <2>1. /\ f # <<>> /\ Shaped(Stretched(s, f)) /\ Stretched(s, f).id = s.id
        /\ Stretched(s, f).live = s.liveId /\ Stretched(s, f).revision = s.revision
        /\ \A i \in Inner(Stretched(s, f)) : Whole(Stretched(s, f)) =>
             i \in DOMAIN s.points /\ At(Stretched(s, f), i).angle = s.points[i].angle
    BY <1>2, StretchedFacts
  <2>2. Merged(s) = Stretched(s, f)
    BY <2>1, MergedIs
  <2>3. NoPath.id = None
    BY DEF NoPath
  <2> HIDE DEF f
  <2> QED
    BY <1>2, <2>1, <2>2, <2>3
<1> QED
  BY <1>1, <1>2

(***************************************************************************)
(* The invariant.                                                          *)
(***************************************************************************)
Workers    == [who : {"live", "poll"}, path : AllPaths]
Waiting(n) == queue[n].path
Paths      == {published, pending} \cup {Waiting(n) : n \in DOMAIN queue}

(* Files come in the order of their tasks, and until a piece has arrived live they
   alone say which task is assembled. *)
Assembly ==
    /\ Assembled(asm) /\ task \in Nat \ {0} /\ asm.id <= task
    /\ cloud \in [id : Ids, last : Ids] /\ cloud.id <= task
    /\ asm.liveId = None => asm.id <= cloud.id
    /\ file.merged \/ (Fragment(file) /\ file.id = cloud.id)

(* A path that was merged from what the assembler held. *)
Known(p, s) ==
    /\ Shaped(p) /\ Fits(p, s)
    /\ p.id <= s.id /\ p.live <= s.liveId /\ p.revision <= s.revision

PathsKnown ==
    /\ queue \in Seq(Workers)
    /\ \A p \in Paths : Known(p, asm)
    /\ \A p, q \in Paths : Agree(p, q)

(* The check that is cached is of no newer path than those that wait for theirs,
   which wait in the order in which they were merged. *)
NoGoOrder ==
    /\ nogo \in [revision : Ids, id : Ids]
    /\ nogo.id <= asm.id /\ nogo.revision <= asm.revision
    /\ nogo.revision = asm.revision => nogo.id = asm.id

QueueOrder ==
    /\ \A n \in DOMAIN queue :
         /\ nogo.id <= Waiting(n).id /\ nogo.revision <= Waiting(n).revision
         /\ published.live <= Waiting(n).id /\ pending.live <= Waiting(n).id
         /\ queue[n].who = "live" => Waiting(n).live = Waiting(n).id
                                    /\ Waiting(n).id = asm.liveId
         /\ Waiting(n).revision = asm.revision => Waiting(n).id = asm.id
    /\ \A m, n \in DOMAIN queue : m < n =>
         Waiting(m).id <= Waiting(n).id /\ Waiting(m).revision <= Waiting(n).revision

(* A pending path of an older task than the one that arrives live will be replaced
   before a path of the newer one is published: the piece that began the newer
   task waits for its check, and only older paths before it. *)
Overtakes(n) ==
    /\ queue[n].who = "live" /\ Waiting(n).id = asm.liveId
    /\ nogo.revision < Waiting(n).revision
    /\ \A m \in DOMAIN queue : m < n =>
         Waiting(m).live <= pending.id /\ Waiting(m).revision < Waiting(n).revision

PendingOrder ==
    /\ pending.live = pending.id
    /\ pending # NoPath => published.live <= pending.id
    /\ pending # NoPath /\ pending.id < asm.liveId => \E n \in DOMAIN queue : Overtakes(n)

PathInv == Assembly /\ PathsKnown /\ NoGoOrder /\ QueueOrder /\ PendingOrder

(***************************************************************************)
(* What is merged.                                                         *)
(***************************************************************************)

LEMMA NoPathFacts ==
  /\ NoPath \in AllPaths /\ Shaped(NoPath) /\ ~Whole(NoPath)
  /\ NoPath.id = None /\ NoPath.live = None /\ NoPath.revision = 0 /\ NoPath.points = <<>>
  /\ \A s : Fits(NoPath, s)
  /\ \A p : Agree(p, NoPath) /\ Agree(NoPath, p)
<1>1. /\ NoPath.id = None /\ NoPath.live = None /\ NoPath.revision = 0
      /\ NoPath.points = <<>> /\ NoPath.merged = TRUE /\ NoPath.first = None
  BY DEF NoPath
<1>2. NoPath \in AllPaths
  BY DEF NoPath, AllPaths, Ids
<1>3. ~Whole(NoPath)
  BY <1>1 DEF Whole, First
<1> QED
  BY <1>1, <1>2, <1>3 DEF Shaped, Fits, Agree

LEMMA PieceIsFragment ==
  ASSUME PathBounds, NEW t \in Nat \ {0}, NEW a \in Indices, NEW b \in Indices, a <= b,
         NEW angle \in Angles
  PROVE  Fragment(Piece(t, a, b, angle)) /\ Piece(t, a, b, angle).id = t
<1> DEFINE d == Piece(t, a, b, angle)
           k == b - a + 1
<1>1. a \in Nat /\ b \in Nat /\ k \in Nat \ {0} /\ 1 \in 1 .. k
  BY IndexFacts
<1>2. /\ d.id = t /\ d.first = a /\ d.merged = FALSE
      /\ d.points = [n \in 1 .. k |-> Point(t, a + n - 1, angle)]
  BY DEF Piece
<1> HIDE DEF d
<1>3. ASSUME NEW n \in 1 .. k
      PROVE  /\ d.points[n] = Point(t, a + n - 1, angle) /\ d.points[n] \in Spots
             /\ d.points[n].angle = angle
  <2>1. PICK m \in Nat : Indices = 0 .. m
    BY DEF PathBounds
  <2>2. a + n - 1 \in Indices
    BY <1>1, <2>1
  <2> HIDE DEF k
  <2>3. d.points[n] = Point(t, a + n - 1, angle)
    BY <1>2
  <2>4. /\ Point(t, a + n - 1, angle) \in Spots
        /\ Point(t, a + n - 1, angle).angle = angle
    BY <2>2, PointFacts
  <2> QED
    BY <2>3, <2>4
<1> HIDE DEF k
<1>4. d.points \in Seq(Spots) /\ Len(d.points) = k /\ DOMAIN d.points = 1 .. k
  <2>1. d.points \in [1 .. k -> Spots]
    BY <1>2, <1>3
  <2>2. d.points \in Seq(Spots)
    BY <1>1, <2>1
  <2> QED
    BY <1>1, <2>1, <2>2
<1>5. a + k - 1 = b
  BY <1>1 DEF k
<1>6. d.points # <<>>
  BY <1>1, <1>4
<1>7. d.points[1].angle = angle
  BY <1>1, <1>3
<1>8. Fragment(d)
  BY <1>2, <1>3, <1>4, <1>5, <1>6, <1>7 DEF Fragment
<1> QED
  BY <1>2, <1>8 DEF d

LEMMA AssemblyInts ==
  ASSUME NEW s, Assembled(s)
  PROVE  s.id \in Int /\ s.liveId \in Int /\ s.revision \in Int /\ s.id >= None
BY DEF Assembled, Ids, None

LEMMA FileIngested ==
  ASSUME PathBounds, Assembly
  PROVE  LET r == Ingest(asm, file, FALSE)
         IN  /\ Assembled(r) /\ Later(asm, r) /\ r.liveId = asm.liveId /\ r.id <= task
             /\ r.liveId = None => r.id <= cloud.id
<1>1. Assembled(asm) /\ asm.id <= task /\ task \in Nat /\ cloud.id <= task
      /\ (asm.liveId = None => asm.id <= cloud.id) /\ cloud.id \in Ids
      /\ asm.liveId \in {None, asm.id} /\ asm.id \in Int
  BY AssemblyInts DEF Assembly, Assembled
<1>2. CASE file.merged \/ Refused(asm, file, FALSE)
  <2>1. Ingest(asm, file, FALSE) = asm
    BY <1>2 DEF Ingest
  <2> QED
    BY <1>1, <2>1, LaterSame
<1>3. CASE ~file.merged /\ ~Refused(asm, file, FALSE)
  <2>1. Fragment(file) /\ file.id = cloud.id
    BY <1>3 DEF Assembly
  <2>2. asm.id <= file.id
    BY <1>1, <1>3, <2>1 DEF Refused
  <2>3. /\ Assembled(Ingest(asm, file, FALSE)) /\ Later(asm, Ingest(asm, file, FALSE))
        /\ Ingest(asm, file, FALSE).id = file.id
        /\ Ingest(asm, file, FALSE).liveId = asm.liveId
    BY <1>1, <1>3, <2>1, <2>2, Merging
  <2>4. cloud.id <= cloud.id
    BY <1>1 DEF Ids, None
  <2> QED
    BY <1>1, <2>1, <2>3, <2>4
<1> QED
  BY <1>2, <1>3

LEMMA PieceIngested ==
  ASSUME PathBounds, Assembly, NEW s \in Sent
  PROVE  LET r == Ingest(Ingest(asm, file, FALSE), Piece(task, s.from, s.to, s.angle), TRUE)
         IN  Assembled(r) /\ Later(asm, r) /\ r.id = task /\ r.liveId = task
<1> DEFINE q == Ingest(asm, file, FALSE)
           d == Piece(task, s.from, s.to, s.angle)
           r == Ingest(q, d, TRUE)
<1>1. Assembled(q) /\ Later(asm, q) /\ q.id <= task
  BY FileIngested
<1>2. Fragment(d) /\ d.id = task
  BY PieceIsFragment DEF PathBounds, Assembly
<1> HIDE DEF q, d
<1>3. ~Refused(q, d, TRUE)
  BY DEF Refused
<1>4. Assembled(r) /\ Later(q, r) /\ r.id = task /\ r.liveId = task
  BY <1>1, <1>2, <1>3, Merging
<1> HIDE DEF r
<1>5. Assembled(asm)
  BY DEF Assembly
<1>6. Later(asm, r)
  BY <1>1, <1>4, <1>5, LaterFacts
<1>7. Assembled(r) /\ Later(asm, r) /\ r.id = task /\ r.liveId = task
  BY <1>4, <1>6
<1> QED
  BY <1>7 DEF r, q, d

(* A path that is merged anew agrees with all that were merged before. *)
LEMMA MergedAgrees ==
  ASSUME PathBounds, NEW s, Assembled(s)
  PROVE  Known(Merged(s), s) /\ \A p : Fits(p, s) => Agree(p, Merged(s)) /\ Agree(Merged(s), p)
<1> DEFINE m == Merged(s)
<1>1. s.id \in Int /\ s.liveId \in Int /\ s.revision \in Nat /\ s.id >= None /\ s.liveId >= None
  BY AssemblyInts DEF Assembled, Ids, None
<1>2. CASE s.id = None
  <2>1. m = NoPath
    BY <1>2, MergedFacts
  <2> HIDE DEF m
  <2>2. Known(NoPath, s)
    BY <1>1, NoPathFacts DEF Known
  <2>3. Known(m, s) /\ \A p : Fits(p, s) => Agree(p, m) /\ Agree(m, p)
    BY <2>1, <2>2, NoPathFacts
  <2> QED
    BY <2>3 DEF m
<1>3. CASE s.id # None
  <2>1. /\ Shaped(m) /\ m.id = s.id /\ m.live = s.liveId /\ m.revision = s.revision
        /\ \A i \in Inner(m) : Whole(m) =>
             i \in DOMAIN s.points /\ At(m, i).angle = s.points[i].angle
    BY <1>3, MergedFacts
  <2> HIDE DEF m
  <2>2. Fits(m, s)
    BY <2>1 DEF Fits
  <2>3. Known(m, s)
    BY <1>1, <2>1, <2>2 DEF Known
  <2>4. ASSUME NEW p, Fits(p, s), p.id = m.id, Whole(p), Whole(m),
               NEW i \in Inner(p) \cap Inner(m)
        PROVE  At(p, i).angle = At(m, i).angle
    BY <2>1, <2>4 DEF Fits
  <2>5. \A p : Fits(p, s) => Agree(p, m)
    BY <2>4 DEF Agree
  <2>6. \A p : Fits(p, s) => Agree(m, p)
    BY <2>5 DEF Agree
  <2>7. Known(m, s) /\ \A p : Fits(p, s) => Agree(p, m) /\ Agree(m, p)
    BY <2>3, <2>5, <2>6
  <2> QED
    BY <2>7 DEF m
<1> QED
  BY <1>2, <1>3

(* What was known remains so. *)
LEMMA StillKnown ==
  ASSUME Assembled(asm), Assembled(asm'), Later(asm, asm'), NEW p, Known(p, asm)
  PROVE  Known(p, asm')
<1>1. /\ asm.id \in Int /\ asm.liveId \in Int /\ asm.revision \in Int
      /\ asm'.id \in Int /\ asm'.liveId \in Int /\ asm'.revision \in Int
  BY AssemblyInts DEF Assembled, Ids, None
<1>2. p \in AllPaths
  BY DEF Known, Shaped
<1>3. p.id \in Int /\ p.live \in Int /\ p.revision \in Int
  BY <1>2 DEF AllPaths, Ids, None
<1>4. Fits(p, asm')
  BY <1>2 DEF Known, Later
<1>5. asm.id <= asm'.id /\ asm.liveId <= asm'.liveId /\ asm.revision <= asm'.revision
  BY DEF Later
<1> QED
  BY <1>1, <1>2, <1>3, <1>4, <1>5 DEF Known

LEMMA PathsStep ==
  ASSUME PathBounds, PathsKnown, Assembled(asm), Assembled(asm'), Later(asm, asm'),
         queue' \in Seq(Workers),
         Paths' \subseteq Paths \cup {NoPath, Merged(asm')}
  PROVE  PathsKnown'
<1> DEFINE s == asm'
           m == Merged(s)
<1>1. \A p \in Paths : Known(p, s)
  BY StillKnown DEF PathsKnown
<1>2. s.id \in Int /\ s.liveId \in Int /\ s.revision \in Nat /\ s.id >= None /\ s.liveId >= None
  BY AssemblyInts DEF Assembled, Ids, None
<1>3. Known(m, s) /\ \A p : Fits(p, s) => Agree(p, m) /\ Agree(m, p)
  BY MergedAgrees
<1> HIDE DEF m, s
<1>4. Known(NoPath, s)
  BY <1>2, NoPathFacts DEF Known
<1>5. Paths' \subseteq Paths \cup {NoPath, m}
  BY DEF m, s
<1>6. \A p \in Paths' : Known(p, s)
  BY <1>1, <1>3, <1>4, <1>5
<1>7. \A p, q \in Paths' : Agree(p, q)
  <2> SUFFICES ASSUME NEW p \in Paths', NEW q \in Paths' PROVE Agree(p, q)
    OBVIOUS
  <2>1. Fits(p, s) /\ Fits(q, s)
    BY <1>6 DEF Known
  <2>2. CASE p \in Paths /\ q \in Paths
    BY <2>2 DEF PathsKnown
  <2>3. CASE p = NoPath \/ q = NoPath
    BY <2>3, NoPathFacts
  <2>4. CASE p = m \/ q = m
    BY <1>3, <2>1, <2>4
  <2> QED
    BY <1>5, <2>2, <2>3, <2>4
<1>8. \A p \in Paths' : Known(p, asm')
  BY <1>6 DEF s
<1>9. PathsKnown' = (/\ queue' \in Seq(Workers)
                     /\ \A p \in Paths' : Known(p, asm')
                     /\ \A p, q \in Paths' : Agree(p, q))
  BY DEF PathsKnown, Workers, Known, AllPaths, Agree, Shaped, Fits, Whole, Inner, At, First,
         Spots, Point, Above, LastIndex
<1> QED
  BY <1>7, <1>8, <1>9

(***************************************************************************)
(* The steps, by what becomes of the paths.                                *)
(***************************************************************************)

\* nothing; a flush; the check of the first path that waits
Still   == UNCHANGED <<asm, queue, nogo, published, pending>>
Flushed == /\ pending # NoPath /\ published' = pending /\ pending' = NoPath
           /\ UNCHANGED <<asm, queue, nogo>>
Checked ==
    LET w == Head(queue)
    IN  /\ queue # <<>> /\ queue' = Tail(queue) /\ asm' = asm
        /\ nogo' = nogo \/ nogo' = [revision |-> w.path.revision, id |-> w.path.id]
        /\ IF w.who = "poll" THEN published' = w.path /\ pending' = pending
                             ELSE pending' = w.path /\ published' = published

\* what is merged waits for its check, or need not, in either handler
Queued(who) == /\ queue' = Append(queue, [who |-> who, path |-> Merged(asm')])
               /\ UNCHANGED <<nogo, published, pending>>
Left        == /\ pending' = Merged(asm') /\ Cached("live", Merged(asm'))
               /\ UNCHANGED <<queue, nogo, published>>
Shown       == /\ published' = Merged(asm') /\ nogo.revision = Merged(asm').revision
               /\ UNCHANGED <<queue, nogo, pending>>

ByPiece(s) == /\ asm' = Ingest(Ingest(asm, file, FALSE),
                               Piece(task, s.from, s.to, s.angle), TRUE)
              /\ \A n \in DOMAIN queue : queue[n].who # "live"
              /\ Queued("live") \/ Left
ByPoll     == /\ asm' = Ingest(asm, file, FALSE) /\ Merged(asm') # NoPath
              /\ Queued("poll") \/ Shown

LEMMA Kinds ==
  ASSUME [Next]_vars
  PROVE  Still \/ Flushed \/ Checked \/ ByPoll \/ \E s \in Sent : ByPiece(s)
<1>1. CASE NewTask \/ Subscribe \/ Resync \/ UNCHANGED vars
  BY <1>1 DEF NewTask, Subscribe, Resync, vars, coordinator, stream, Still
<1>2. CASE FlushLive
  BY <1>2 DEF FlushLive, Publish, Flushed
<1>3. CASE PollAttaches
  <2>1. /\ asm' = Ingest(asm, file, FALSE) /\ Merged(asm') # NoPath /\ nogo' = nogo
        /\ UpdateNoGoCheck("poll", Merged(asm'))
    BY <1>3 DEF PollAttaches
  <2> DEFINE m == Merged(asm')
  <2> HIDE DEF m
  <2>2. UpdateNoGoCheck("poll", m)
    BY <2>1 DEF m
  <2>3. \/ nogo.revision = m.revision /\ published' = m /\ pending' = pending /\ queue' = queue
        \/ /\ queue' = Append(queue, [who |-> "poll", path |-> m])
           /\ pending' = pending /\ published' = published
    BY <2>2 DEF UpdateNoGoCheck, Cached, Attached, Publish, stream
  <2> QED
    BY <2>1, <2>3 DEF m, ByPoll, Queued, Shown
<1>4. CASE NoGoChecked
  <2> DEFINE w == Head(queue)
  <2>1. /\ queue # <<>> /\ queue' = Tail(queue) /\ asm' = asm /\ Attached(w.who, w.path)
        /\ nogo' = nogo \/ nogo' = [revision |-> w.path.revision, id |-> w.path.id]
    BY <1>4 DEF NoGoChecked
  <2> HIDE DEF w
  <2>2. IF w.who = "poll" THEN published' = w.path /\ pending' = pending
                          ELSE pending' = w.path /\ published' = published
    BY <2>1 DEF Attached, Publish, stream
  <2> QED
    BY <2>1, <2>2 DEF w, Checked
<1>5. ASSUME NEW s \in Sent, PieceArrives(s) PROVE ByPiece(s)
  <2>1. /\ asm' = Ingest(Ingest(asm, file, FALSE), Piece(task, s.from, s.to, s.angle), TRUE)
        /\ \A n \in DOMAIN queue : queue[n].who # "live"
        /\ UpdateNoGoCheck("live", Merged(asm')) /\ nogo' = nogo
    BY <1>5 DEF PieceArrives
  <2> DEFINE m == Merged(asm')
  <2> HIDE DEF m
  <2>2. UpdateNoGoCheck("live", m)
    BY <2>1 DEF m
  <2>3. \/ /\ Cached("live", m) /\ pending' = m /\ published' = published /\ queue' = queue
        \/ /\ queue' = Append(queue, [who |-> "live", path |-> m])
           /\ pending' = pending /\ published' = published
    BY <2>2 DEF UpdateNoGoCheck, Attached, stream
  <2> QED
    BY <2>1, <2>3 DEF m, ByPiece, Queued, Left
<1>6. ASSUME NEW t, NEW u, PollDownloads(t, u) PROVE Still
  BY <1>6 DEF PollDownloads, stream, Still
<1> QED
  BY <1>1, <1>2, <1>3, <1>4, <1>5, <1>6 DEF Next

(* In each of them what is merged comes later. *)
LEMMA AsmStep ==
  ASSUME PathBounds, Assembly, [Next]_vars
  PROVE  /\ Assembled(asm') /\ Later(asm, asm') /\ Assembled(asm)
         /\ (Still \/ Flushed \/ Checked) => asm' = asm
         /\ ByPoll => asm'.liveId = asm.liveId
         /\ \A s \in Sent : ByPiece(s) => asm'.liveId = asm'.id
<1>1. Assembled(asm)
  BY DEF Assembly
<1>2. (Still \/ Flushed \/ Checked) => asm' = asm
  BY DEF Still, Flushed, Checked
<1>3. ByPoll => Assembled(asm') /\ Later(asm, asm') /\ asm'.liveId = asm.liveId
  BY FileIngested DEF ByPoll
<1>4. ASSUME NEW s \in Sent, ByPiece(s)
      PROVE  Assembled(asm') /\ Later(asm, asm') /\ asm'.liveId = asm'.id
  <2>1. asm' = Ingest(Ingest(asm, file, FALSE), Piece(task, s.from, s.to, s.angle), TRUE)
    BY <1>4 DEF ByPiece
  <2> QED
    BY <2>1, PieceIngested
<1>5. Later(asm, asm)
  BY <1>1, LaterSame
<1>6. Still \/ Flushed \/ Checked \/ ByPoll \/ \E s \in Sent : ByPiece(s)
  BY Kinds
<1>7. CASE asm' = asm
  BY <1>1, <1>2, <1>3, <1>4, <1>5, <1>7
<1>8. CASE ~(asm' = asm)
  BY <1>1, <1>2, <1>3, <1>4, <1>6, <1>8
<1> QED
  BY <1>7, <1>8

LEMMA QueueFacts ==
  ASSUME queue \in Seq(Workers)
  PROVE  /\ Len(queue) \in Nat /\ DOMAIN queue = 1 .. Len(queue)
         /\ \A n \in DOMAIN queue : queue[n] \in Workers /\ Waiting(n) \in AllPaths
                                    /\ Waiting(n) \in Paths
<1>1. /\ Len(queue) \in Nat /\ DOMAIN queue = 1 .. Len(queue)
      /\ \A n \in DOMAIN queue : queue[n] \in Workers
  OBVIOUS
<1>2. \A n \in DOMAIN queue : Waiting(n) \in AllPaths
  BY <1>1 DEF Waiting, Workers
<1>3. \A n \in DOMAIN queue : Waiting(n) \in Paths
  BY DEF Paths
<1> QED
  BY <1>1, <1>2, <1>3

LEMMA Appending ==
  ASSUME NEW S, NEW q \in Seq(S), NEW w \in S
  PROVE  /\ Append(q, w) \in Seq(S) /\ Len(q) \in Nat /\ DOMAIN q = 1 .. Len(q)
         /\ DOMAIN Append(q, w) = 1 .. Len(q) + 1
         /\ \A n \in 1 .. Len(q) : Append(q, w)[n] = q[n]
         /\ Append(q, w)[Len(q) + 1] = w
OBVIOUS

LEMMA QueueAppended ==
  ASSUME queue \in Seq(Workers), NEW who \in {"live", "poll"}, NEW p \in AllPaths,
         queue' = Append(queue, [who |-> who, path |-> p])
  PROVE  /\ queue' \in Seq(Workers) /\ Len(queue) \in Nat
         /\ DOMAIN queue = 1 .. Len(queue) /\ DOMAIN queue' = 1 .. Len(queue) + 1
         /\ \A n \in 1 .. Len(queue) : queue'[n] = queue[n] /\ Waiting(n)' = Waiting(n)
         /\ queue'[Len(queue) + 1].who = who /\ queue'[Len(queue) + 1].path = p
<1> DEFINE w == [who |-> who, path |-> p]
<1>1. w \in Workers /\ w.who = who /\ w.path = p
  BY DEF Workers
<1> HIDE DEF w
<1>2. queue' = Append(queue, w)
  BY DEF w
<1>3. /\ queue' \in Seq(Workers) /\ Len(queue) \in Nat /\ DOMAIN queue = 1 .. Len(queue)
      /\ DOMAIN queue' = 1 .. Len(queue) + 1
      /\ \A n \in 1 .. Len(queue) : queue'[n] = queue[n]
      /\ queue'[Len(queue) + 1] = w
  <2>1. /\ Append(queue, w) \in Seq(Workers) /\ Len(queue) \in Nat
        /\ DOMAIN queue = 1 .. Len(queue)
        /\ DOMAIN Append(queue, w) = 1 .. Len(queue) + 1
        /\ \A n \in 1 .. Len(queue) : Append(queue, w)[n] = queue[n]
        /\ Append(queue, w)[Len(queue) + 1] = w
    BY <1>1, Appending
  <2> QED
    BY <1>2, <2>1
<1> QED
  BY <1>1, <1>3 DEF Waiting

LEMMA QueueTaken ==
  ASSUME queue \in Seq(Workers), queue # <<>>, queue' = Tail(queue)
  PROVE  /\ queue' \in Seq(Workers) /\ Head(queue) = queue[1] /\ 1 \in DOMAIN queue
         /\ Head(queue).path = Waiting(1)
         /\ \A n \in DOMAIN queue' : /\ n + 1 \in DOMAIN queue /\ n \in Nat /\ n >= 1
                                     /\ queue'[n] = queue[n + 1]
                                     /\ Waiting(n)' = Waiting(n + 1)
<1>1. /\ queue' \in Seq(Workers) /\ Head(queue) = queue[1] /\ 1 \in DOMAIN queue
      /\ \A n \in DOMAIN queue' : /\ n + 1 \in DOMAIN queue /\ n \in Nat /\ n >= 1
                                  /\ queue'[n] = queue[n + 1]
  OBVIOUS
<1> QED
  BY <1>1 DEF Waiting

LEMMA MergedPath ==
  ASSUME PathBounds, Assembled(asm')
  PROVE  /\ Merged(asm') \in AllPaths /\ Merged(asm').merged
         /\ Merged(asm') # NoPath =>
              /\ Merged(asm').id = asm'.id /\ Merged(asm').live = asm'.liveId
              /\ Merged(asm').revision = asm'.revision /\ asm'.id # None
         /\ asm'.id # None => Merged(asm') # NoPath
<1> DEFINE s == asm'
           m == Merged(s)
<1> HIDE DEF s
<1>1. Assembled(s)
  BY DEF s
<1>2. /\ s.id = None => m = NoPath
      /\ s.id # None => /\ m # NoPath /\ Shaped(m) /\ m.id = s.id
                        /\ m.live = s.liveId /\ m.revision = s.revision
  BY <1>1, MergedFacts
<1> HIDE DEF m
<1>3. /\ m \in AllPaths /\ m.merged
      /\ m # NoPath => /\ m.id = s.id /\ m.live = s.liveId
                       /\ m.revision = s.revision /\ s.id # None
      /\ s.id # None => m # NoPath
  BY <1>2, NoPathFacts DEF Shaped
<1> QED
  BY <1>3 DEF m, s

LEMMA PathsKept ==
  ASSUME PathBounds, Assembly, PathsKnown, [Next]_vars
  PROVE  PathsKnown'
<1>1. Assembled(asm) /\ Assembled(asm') /\ Later(asm, asm')
  BY AsmStep
<1>2. queue \in Seq(Workers)
  BY DEF PathsKnown
<1>3. Paths' = {published', pending'} \cup {Waiting(n)' : n \in DOMAIN queue'}
  BY DEF Paths, Waiting
<1>4. SUFFICES /\ queue' \in Seq(Workers)
               /\ published' \in Paths \cup {NoPath, Merged(asm')}
               /\ pending' \in Paths \cup {NoPath, Merged(asm')}
               /\ \A n \in DOMAIN queue' : Waiting(n)' \in Paths \cup {NoPath, Merged(asm')}
  BY <1>1, <1>3, PathsStep
<1>5. published \in Paths /\ pending \in Paths /\ \A n \in DOMAIN queue : Waiting(n) \in Paths
  BY DEF Paths
<1>6. ASSUME queue' = queue
      PROVE  queue' \in Seq(Workers) /\ \A n \in DOMAIN queue' : Waiting(n)' \in Paths
  BY <1>2, <1>5, <1>6 DEF Waiting
<1>7. CASE Still \/ Flushed \/ Left \/ Shown
  BY <1>5, <1>6, <1>7 DEF Still, Flushed, Left, Shown
<1>8. CASE Checked
  <2>1. /\ queue' \in Seq(Workers) /\ Head(queue).path \in Paths
        /\ \A n \in DOMAIN queue' : Waiting(n)' \in Paths
    BY <1>2, <1>5, <1>8, QueueTaken DEF Checked
  <2> QED
    BY <1>5, <1>8, <2>1 DEF Checked
<1>9. ASSUME NEW who \in {"live", "poll"}, Queued(who)
      PROVE  /\ queue' \in Seq(Workers)
             /\ \A n \in DOMAIN queue' : Waiting(n)' \in Paths \cup {Merged(asm')}
             /\ published' = published /\ pending' = pending
  <2> DEFINE m == Merged(asm')
  <2>1. m \in AllPaths
    BY <1>1, MergedPath
  <2>2. queue' = Append(queue, [who |-> who, path |-> m])
        /\ published' = published /\ pending' = pending
    BY <1>9 DEF Queued
  <2> HIDE DEF m
  <2>3. /\ queue' \in Seq(Workers) /\ Len(queue) \in Nat
        /\ DOMAIN queue = 1 .. Len(queue) /\ DOMAIN queue' = 1 .. Len(queue) + 1
        /\ \A n \in 1 .. Len(queue) : Waiting(n)' = Waiting(n)
        /\ queue'[Len(queue) + 1].path = m
    BY <1>2, <2>1, <2>2, QueueAppended
  <2>4. ASSUME NEW n \in DOMAIN queue' PROVE Waiting(n)' \in Paths \cup {m}
    <3>1. n \in 1 .. Len(queue) \/ n = Len(queue) + 1
      BY <2>3
    <3>2. CASE n \in 1 .. Len(queue)
      <4>1. Waiting(n)' = Waiting(n) /\ Waiting(n) \in Paths
        BY <1>5, <2>3, <3>2
      <4> QED
        BY <4>1
    <3>3. CASE n = Len(queue) + 1
      BY <2>3, <3>3 DEF Waiting
    <3> QED
      BY <3>1, <3>2, <3>3
  <2> QED
    BY <2>2, <2>3, <2>4 DEF m
<1>10. Still \/ Flushed \/ Checked \/ Left \/ Shown \/ Queued("live") \/ Queued("poll")
  BY Kinds DEF ByPoll, ByPiece
<1> QED
  BY <1>5, <1>7, <1>8, <1>9, <1>10

LEMMA AssemblyKept ==
  ASSUME PathBounds, Assembly, PathsKnown, [Next]_vars
  PROVE  Assembly'
<1>1. /\ Assembled(asm') /\ Later(asm, asm') /\ Assembled(asm)
  BY AsmStep
<1>2. /\ task \in Nat \ {0} /\ asm.id <= task /\ cloud \in [id : Ids, last : Ids]
      /\ cloud.id <= task /\ (asm.liveId = None => asm.id <= cloud.id)
      /\ file.merged \/ (Fragment(file) /\ file.id = cloud.id)
      /\ asm.id \in Int /\ cloud.id \in Int
  BY <1>1, AssemblyInts DEF Assembly, Ids, None
<1>3. SUFFICES /\ task' \in Nat \ {0} /\ asm'.id <= task'
               /\ cloud' \in [id : Ids, last : Ids] /\ cloud'.id <= task'
               /\ asm'.liveId = None => asm'.id <= cloud'.id
               /\ file'.merged \/ (Fragment(file') /\ file'.id = cloud'.id)
  BY <1>1 DEF Assembly, Assembled, Fragment, Ids, Spots, Point, Above
<1>4. ASSUME asm' = asm, cloud' = cloud, task' = task \/ task' = task + 1,
             file' = file \/ file'.merged
      PROVE  /\ task' \in Nat \ {0} /\ asm'.id <= task'
             /\ cloud' \in [id : Ids, last : Ids] /\ cloud'.id <= task'
             /\ asm'.liveId = None => asm'.id <= cloud'.id
             /\ file'.merged \/ (Fragment(file') /\ file'.id = cloud'.id)
  BY <1>2, <1>4
<1>5. CASE NewTask \/ Subscribe \/ Resync \/ UNCHANGED vars \/ FlushLive
  <2>1. asm' = asm /\ cloud' = cloud /\ file' = file /\ (task' = task \/ task' = task + 1)
    BY <1>5 DEF NewTask, Subscribe, Resync, FlushLive, vars, coordinator
  <2> QED
    BY <1>4, <2>1
<1>6. CASE NoGoChecked
  <2> DEFINE w == Head(queue)
  <2>1. queue # <<>> /\ Attached(w.who, w.path) /\ asm' = asm /\ cloud' = cloud /\ task' = task
    BY <1>6 DEF NoGoChecked
  <2>2. w.path \in Paths
    <3>1. 1 \in DOMAIN queue /\ w = queue[1]
      BY <2>1, QueueFacts DEF PathsKnown
    <3> QED
      BY <3>1 DEF Paths, Waiting
  <2>3. w.path.merged
    BY <2>2 DEF PathsKnown, Known, Shaped
  <2> HIDE DEF w
  <2>4. file' = file \/ file' = w.path
    BY <2>1 DEF Attached
  <2> QED
    BY <1>4, <2>1, <2>3, <2>4
<1>7. CASE PollAttaches
  <2> DEFINE m == Merged(asm')
  <2>1. /\ asm' = Ingest(asm, file, FALSE) /\ cloud' = cloud /\ task' = task
        /\ UpdateNoGoCheck("poll", m)
    BY <1>7 DEF PollAttaches
  <2>2. m.merged
    BY <1>1, MergedPath
  <2> HIDE DEF m
  <2>3. file' = file \/ file' = m
    BY <2>1 DEF UpdateNoGoCheck, Attached
  <2>4. asm'.id <= task /\ (asm'.liveId = None => asm'.id <= cloud.id)
    BY <2>1, FileIngested
  <2> QED
    BY <1>2, <2>1, <2>2, <2>3, <2>4
<1>8. ASSUME NEW s \in Sent, PieceArrives(s)
      PROVE  /\ task' \in Nat \ {0} /\ asm'.id <= task'
             /\ cloud' \in [id : Ids, last : Ids] /\ cloud'.id <= task'
             /\ asm'.liveId = None => asm'.id <= cloud'.id
             /\ file'.merged \/ (Fragment(file') /\ file'.id = cloud'.id)
  <2> DEFINE m == Merged(asm')
  <2>1. /\ asm' = Ingest(Ingest(asm, file, FALSE), Piece(task, s.from, s.to, s.angle), TRUE)
        /\ cloud' = cloud /\ task' = task /\ UpdateNoGoCheck("live", m)
    BY <1>8 DEF PieceArrives
  <2> HIDE DEF m
  <2>2. file' = file
    BY <2>1 DEF UpdateNoGoCheck, Attached
  <2>3. asm'.id = task /\ asm'.liveId = task
    BY <2>1, PieceIngested
  <2>4. task # None /\ task <= task
    BY <1>2 DEF None
  <2> QED
    BY <1>2, <2>1, <2>2, <2>3, <2>4
<1>9. ASSUME NEW t \in 1 .. task, NEW u \in Uploaded, PollDownloads(t, u)
      PROVE  /\ task' \in Nat \ {0} /\ asm'.id <= task'
             /\ cloud' \in [id : Ids, last : Ids] /\ cloud'.id <= task'
             /\ asm'.liveId = None => asm'.id <= cloud'.id
             /\ file'.merged \/ (Fragment(file') /\ file'.id = cloud'.id)
  <2>1. /\ task' = task /\ asm' = asm /\ cloud' = [id |-> t, last |-> u.to]
        /\ file' = Piece(t, 0, u.to, u.angle)
        /\ t > cloud.id \/ t = cloud.id
    BY <1>9 DEF PollDownloads
  <2>2. t \in Nat \ {0} /\ t <= task /\ cloud.id <= t
    BY <1>2, <2>1
  <2>3. u.to \in Indices /\ u.angle \in Angles /\ u.to \in Nat /\ 0 \in Indices /\ 0 <= u.to
    <3>1. PICK n \in Nat : Indices = 0 .. n
      BY DEF PathBounds
    <3> QED
      BY <3>1 DEF PathBounds
  <2>4. Fragment(file') /\ file'.id = t
    BY <2>1, <2>2, <2>3, PieceIsFragment
  <2>5. cloud' \in [id : Ids, last : Ids] /\ cloud'.id = t
    BY <2>1, <2>2, <2>3 DEF Ids
  <2> QED
    BY <1>2, <2>1, <2>2, <2>4, <2>5
<1> QED
  BY <1>5, <1>6, <1>7, <1>8, <1>9 DEF Next

(***************************************************************************)
(* The order of the paths.                                                 *)
(***************************************************************************)

PathsInOrder == NoGoOrder /\ QueueOrder /\ PendingOrder

LEMMA KnownFacts ==
  ASSUME PathsKnown, Assembled(asm)
  PROVE  \A p \in Paths :
           /\ p.id \in Int /\ p.live \in Int /\ p.revision \in Int
           /\ p.id <= asm.id /\ p.live <= asm.liveId /\ p.revision <= asm.revision
           /\ p.live \in {None, p.id} /\ p.live <= p.id /\ None <= p.live
<1> SUFFICES ASSUME NEW p \in Paths
             PROVE  /\ p.id \in Int /\ p.live \in Int /\ p.revision \in Int
                    /\ p.id <= asm.id /\ p.live <= asm.liveId /\ p.revision <= asm.revision
                    /\ p.live \in {None, p.id} /\ p.live <= p.id /\ None <= p.live
  OBVIOUS
<1>1. Known(p, asm) /\ p \in AllPaths /\ p.live \in {None, p.id}
  BY DEF PathsKnown, Known, Shaped
<1>2. p.id \in Ids /\ p.live \in Ids /\ p.revision \in Nat
  BY <1>1 DEF AllPaths
<1> QED
  BY <1>1, <1>2 DEF Known, Ids, None

LEMMA OrderInts ==
  ASSUME PathBounds, Assembly, PathsKnown, NoGoOrder, [Next]_vars
  PROVE  /\ asm.id \in Int /\ asm.liveId \in Int /\ asm.revision \in Int
         /\ asm'.id \in Int /\ asm'.liveId \in Int /\ asm'.revision \in Int
         /\ asm.id <= asm'.id /\ asm.liveId <= asm'.liveId /\ asm.revision <= asm'.revision
         /\ asm.id # asm'.id => asm.revision < asm'.revision
         /\ asm.liveId \in {None, asm.id} /\ asm'.liveId \in {None, asm'.id}
         /\ asm.liveId <= asm.id /\ asm'.liveId <= asm'.id
         /\ nogo.id \in Int /\ nogo.revision \in Int
         /\ None \in Int /\ None <= asm.id /\ None <= asm'.id
<1>1. /\ Assembled(asm') /\ Later(asm, asm') /\ Assembled(asm)
  BY AsmStep
<1>2. /\ asm.id \in Int /\ asm.liveId \in Int /\ asm.revision \in Int /\ asm.id >= None
      /\ asm.liveId \in {None, asm.id}
  BY <1>1, AssemblyInts DEF Assembled
<1>3. /\ asm'.id \in Int /\ asm'.liveId \in Int /\ asm'.revision \in Int /\ asm'.id >= None
      /\ asm'.liveId \in {None, asm'.id}
  BY <1>1, AssemblyInts DEF Assembled
<1>4. nogo.id \in Int /\ nogo.revision \in Int /\ None \in Int
  BY DEF NoGoOrder, Ids, None
<1> QED
  BY <1>1, <1>2, <1>3, <1>4 DEF Later, None

LEMMA OrderStill ==
  ASSUME PathsInOrder, Still
  PROVE  PathsInOrder'
BY DEF PathsInOrder, NoGoOrder, QueueOrder, PendingOrder, Overtakes, Waiting, Still

LEMMA OrderFlushed ==
  ASSUME PathBounds, Assembly, PathsKnown, PathsInOrder, [Next]_vars, Flushed
  PROVE  PathsInOrder'
<1>1. /\ published' = pending /\ pending' = NoPath
      /\ UNCHANGED <<asm, queue, nogo>>
  BY DEF Flushed
<1>2. \A n : Waiting(n)' = Waiting(n)
  BY <1>1 DEF Waiting
<1>3. queue \in Seq(Workers) /\ \A p \in Paths : p.id \in Int /\ p.live \in Int /\ None <= p.live
                                                 /\ p.live <= p.id
  BY KnownFacts DEF PathsKnown, Assembly
<1>4. \A n \in DOMAIN queue : None <= Waiting(n).id
  BY <1>3, QueueFacts DEF None
<1>5. NoPath.live = None /\ NoPath.id = None
  BY NoPathFacts
<1>6. NoGoOrder'
  BY <1>1 DEF PathsInOrder, NoGoOrder, Ids
<1>7. QueueOrder'
  BY <1>1, <1>2, <1>4, <1>5 DEF PathsInOrder, QueueOrder
<1>8. PendingOrder'
  BY <1>1, <1>5 DEF PendingOrder
<1> QED
  BY <1>6, <1>7, <1>8 DEF PathsInOrder

(* Nobody that waits is behind what may be taken without a check. *)
LEMMA CachedIsLatest ==
  ASSUME PathBounds, Assembly, PathsKnown, PathsInOrder, [Next]_vars,
         \/ nogo.revision = asm'.revision
         \/ nogo.id = asm'.id
  PROVE  \A n \in DOMAIN queue : Waiting(n).id = asm'.id /\ Waiting(n).id \in Int
<1> SUFFICES ASSUME NEW n \in DOMAIN queue
             PROVE  Waiting(n).id = asm'.id /\ Waiting(n).id \in Int
  OBVIOUS
<1>1. /\ asm.id \in Int /\ asm.revision \in Int /\ asm'.id \in Int /\ asm'.revision \in Int
      /\ asm.id <= asm'.id /\ asm.revision <= asm'.revision
      /\ asm.id # asm'.id => asm.revision < asm'.revision
      /\ nogo.id \in Int /\ nogo.revision \in Int
  BY OrderInts DEF PathsInOrder
<1>2. /\ Waiting(n).id \in Int /\ Waiting(n).revision \in Int
      /\ Waiting(n).id <= asm.id /\ Waiting(n).revision <= asm.revision
  BY KnownFacts, QueueFacts DEF PathsKnown, Assembly
<1>3. /\ nogo.id <= Waiting(n).id /\ nogo.revision <= Waiting(n).revision
      /\ Waiting(n).revision = asm.revision => Waiting(n).id = asm.id
  BY DEF PathsInOrder, QueueOrder
<1> QED
  BY <1>1, <1>2, <1>3

LEMMA NoGoKept ==
  ASSUME PathBounds, Assembly, PathsKnown, PathsInOrder, [Next]_vars, nogo' = nogo
  PROVE  NoGoOrder'
<1>1. /\ asm.id \in Int /\ asm.revision \in Int /\ asm'.id \in Int /\ asm'.revision \in Int
      /\ asm.id <= asm'.id /\ asm.revision <= asm'.revision
      /\ asm.id # asm'.id => asm.revision < asm'.revision
      /\ nogo.id \in Int /\ nogo.revision \in Int
  BY OrderInts DEF PathsInOrder
<1>2. /\ nogo \in [revision : Ids, id : Ids] /\ nogo.id <= asm.id
      /\ nogo.revision <= asm.revision
      /\ nogo.revision = asm.revision => nogo.id = asm.id
  BY DEF PathsInOrder, NoGoOrder
<1>3. /\ nogo.id <= asm'.id /\ nogo.revision <= asm'.revision
      /\ nogo.revision = asm'.revision => nogo.id = asm'.id
  BY <1>1, <1>2
<1> QED
  BY <1>2, <1>3 DEF NoGoOrder, Ids

(* Whoever waits keeps its place when the assembler goes on. *)
LEMMA RevisionsKept ==
  ASSUME PathBounds, Assembly, PathsKnown, PathsInOrder, [Next]_vars, NEW n \in DOMAIN queue
  PROVE  /\ Waiting(n).revision = asm'.revision => Waiting(n).id = asm'.id
         /\ Waiting(n).id <= asm'.id /\ Waiting(n).revision <= asm'.revision
         /\ Waiting(n).id \in Int /\ Waiting(n).revision \in Int /\ Waiting(n).live \in Int
         /\ Waiting(n).live <= asm.liveId /\ Waiting(n).revision <= asm.revision
         /\ Waiting(n).id <= asm.id
<1>1. /\ asm.id \in Int /\ asm.revision \in Int /\ asm'.id \in Int /\ asm'.revision \in Int
      /\ asm.id <= asm'.id /\ asm.revision <= asm'.revision
      /\ asm.id # asm'.id => asm.revision < asm'.revision
  BY OrderInts DEF PathsInOrder
<1>2. /\ Waiting(n).id \in Int /\ Waiting(n).revision \in Int /\ Waiting(n).live \in Int
      /\ Waiting(n).id <= asm.id /\ Waiting(n).revision <= asm.revision
      /\ Waiting(n).live <= asm.liveId
  BY KnownFacts, QueueFacts DEF PathsKnown, Assembly
<1>3. Waiting(n).revision = asm.revision => Waiting(n).id = asm.id
  BY DEF PathsInOrder, QueueOrder
<1> QED
  BY <1>1, <1>2, <1>3

LEMMA OrderLeft ==
  ASSUME PathBounds, Assembly, PathsKnown, PathsInOrder, [Next]_vars, Left,
         asm'.liveId = asm'.id, asm'.id # None,
         \A n \in DOMAIN queue : queue[n].who # "live"
  PROVE  PathsInOrder'
<1> DEFINE m == Merged(asm')
<1>1. /\ pending' = m /\ Cached("live", m) /\ UNCHANGED <<queue, nogo, published>>
  BY DEF Left
<1>2. m # NoPath /\ m.id = asm'.id /\ m.live = asm'.liveId /\ m.revision = asm'.revision
  BY AsmStep, MergedPath
<1> HIDE DEF m
<1>3. /\ asm.liveId \in Int /\ asm'.liveId \in Int /\ asm.liveId <= asm'.liveId
      /\ asm'.id \in Int
  BY OrderInts DEF PathsInOrder
<1>4. nogo.revision = asm'.revision \/ nogo.id = asm'.id
  BY <1>1, <1>2 DEF Cached
<1>5. \A n \in DOMAIN queue : Waiting(n).id = asm'.id /\ Waiting(n).id \in Int
  BY <1>4, CachedIsLatest
<1>6. \A n : Waiting(n)' = Waiting(n)
  BY <1>1 DEF Waiting
<1>7. published.live \in Int /\ published.live <= asm.liveId
  BY KnownFacts DEF Paths, Assembly
<1>8. QueueOrder'
  <2>1. ASSUME NEW n \in DOMAIN queue
        PROVE  /\ nogo.id <= Waiting(n).id /\ nogo.revision <= Waiting(n).revision
               /\ published.live <= Waiting(n).id /\ m.live <= Waiting(n).id
               /\ queue[n].who = "live" => Waiting(n).live = Waiting(n).id
                                          /\ Waiting(n).id = asm'.liveId
               /\ Waiting(n).revision = asm'.revision => Waiting(n).id = asm'.id
    <3>1. m.live <= Waiting(n).id
      BY <1>2, <1>3, <1>5
    <3> QED
      BY <1>5, <3>1 DEF PathsInOrder, QueueOrder
  <2> QED
    BY <1>1, <1>6, <2>1 DEF PathsInOrder, QueueOrder
<1>9. PendingOrder'
  <2>1. m.live = m.id /\ published.live <= m.id /\ ~(m.id < asm'.liveId)
    BY <1>2, <1>3, <1>7
  <2> QED
    BY <1>1, <2>1 DEF PendingOrder
<1> QED
  BY <1>1, <1>8, <1>9, NoGoKept DEF PathsInOrder

LEMMA OrderShown ==
  ASSUME PathBounds, Assembly, PathsKnown, PathsInOrder, [Next]_vars, Shown, ByPoll
  PROVE  PathsInOrder'
<1> DEFINE m == Merged(asm')
<1>1. /\ published' = m /\ nogo.revision = m.revision /\ UNCHANGED <<queue, nogo, pending>>
      /\ m # NoPath
  BY DEF Shown, ByPoll
<1>2. m.id = asm'.id /\ m.live = asm'.liveId /\ m.revision = asm'.revision
  BY <1>1, AsmStep, MergedPath
<1> HIDE DEF m
<1>3. /\ asm.liveId \in Int /\ asm'.liveId \in Int /\ asm'.liveId <= asm'.id /\ asm'.id \in Int
      /\ asm.revision \in Int /\ asm'.revision \in Int /\ asm.revision <= asm'.revision
  BY OrderInts DEF PathsInOrder
<1>4. asm'.liveId = asm.liveId
  BY AsmStep
<1>5. \A n \in DOMAIN queue : Waiting(n).id = asm'.id /\ Waiting(n).id \in Int
  BY <1>1, <1>2, CachedIsLatest
<1>6. \A n : Waiting(n)' = Waiting(n)
  BY <1>1 DEF Waiting
<1>7. QueueOrder'
  <2>1. ASSUME NEW n \in DOMAIN queue
        PROVE  /\ nogo.id <= Waiting(n).id /\ nogo.revision <= Waiting(n).revision
               /\ m.live <= Waiting(n).id /\ pending.live <= Waiting(n).id
               /\ queue[n].who = "live" => Waiting(n).live = Waiting(n).id
                                          /\ Waiting(n).id = asm'.liveId
               /\ Waiting(n).revision = asm'.revision => Waiting(n).id = asm'.id
    <3>1. m.live <= Waiting(n).id
      BY <1>2, <1>3, <1>5
    <3> QED
      BY <1>4, <1>5, <3>1 DEF PathsInOrder, QueueOrder
  <2> QED
    BY <1>1, <1>6, <2>1 DEF PathsInOrder, QueueOrder
<1>8. PendingOrder'
  <2>1. /\ pending.live = pending.id
        /\ pending # NoPath /\ pending.id < asm.liveId => \E n \in DOMAIN queue : Overtakes(n)
    BY DEF PathsInOrder, PendingOrder
  <2>2. pending.id \in Int
    BY KnownFacts DEF Paths, Assembly
  <2>3. ~\E n \in DOMAIN queue : Overtakes(n)
    <3> SUFFICES ASSUME NEW n \in DOMAIN queue, Overtakes(n) PROVE FALSE
      OBVIOUS
    <3>1. nogo.revision < Waiting(n).revision /\ nogo.revision = asm'.revision
      BY <1>1, <1>2 DEF Overtakes
    <3>2. Waiting(n).revision <= asm'.revision /\ Waiting(n).revision \in Int
      BY RevisionsKept
    <3> QED
      BY <1>3, <3>1, <3>2
  <2>4. pending # NoPath => m.live <= pending.id /\ ~(pending.id < asm'.liveId)
    BY <1>2, <1>3, <1>4, <2>1, <2>2, <2>3
  <2> QED
    BY <1>1, <2>1, <2>4 DEF PendingOrder
<1> QED
  BY <1>1, <1>7, <1>8, NoGoKept DEF PathsInOrder

LEMMA OrderQueued ==
  ASSUME PathBounds, Assembly, PathsKnown, PathsInOrder, [Next]_vars,
         NEW who \in {"live", "poll"}, Queued(who), asm'.id # None,
         who = "live" => /\ asm'.liveId = asm'.id
                         /\ \A n \in DOMAIN queue : queue[n].who # "live",
         who = "poll" => asm'.liveId = asm.liveId
  PROVE  PathsInOrder'
<1> DEFINE m == Merged(asm')
           last == Len(queue) + 1
<1>1. /\ queue' = Append(queue, [who |-> who, path |-> m])
      /\ UNCHANGED <<nogo, published, pending>>
  BY DEF Queued
<1>2. /\ m # NoPath /\ m.id = asm'.id /\ m.live = asm'.liveId /\ m.revision = asm'.revision
      /\ m \in AllPaths
  BY AsmStep, MergedPath
<1> HIDE DEF m
<1>3. /\ Len(queue) \in Nat /\ DOMAIN queue = 1 .. Len(queue)
      /\ DOMAIN queue' = 1 .. Len(queue) + 1
      /\ \A n \in 1 .. Len(queue) : queue'[n] = queue[n] /\ Waiting(n)' = Waiting(n)
      /\ queue'[Len(queue) + 1].who = who /\ queue'[Len(queue) + 1].path = m
  BY <1>1, <1>2, QueueAppended DEF PathsKnown
<1>4. /\ last \in DOMAIN queue' /\ queue'[last].who = who /\ queue'[last].path = m
      /\ \A n \in DOMAIN queue' : n \in DOMAIN queue \/ n = last
      /\ \A n \in DOMAIN queue : /\ n \in DOMAIN queue' /\ n < last /\ n \in Int
                                 /\ queue'[n].who = queue[n].who
                                 /\ queue'[n].path = Waiting(n)
  BY <1>3 DEF Waiting
<1> DEFINE N(n) == queue'[n].path
<1>5. last \in Int
  BY <1>3
<1> HIDE DEF last
<1>6. /\ asm.id \in Int /\ asm.liveId \in Int /\ asm.revision \in Int
      /\ asm'.id \in Int /\ asm'.liveId \in Int /\ asm'.revision \in Int
      /\ asm.id <= asm'.id /\ asm.liveId <= asm'.liveId /\ asm.revision <= asm'.revision
      /\ asm.id # asm'.id => asm.revision < asm'.revision
      /\ asm.liveId \in {None, asm.id} /\ asm.liveId <= asm.id
      /\ nogo.id \in Int /\ nogo.revision \in Int
  BY OrderInts DEF PathsInOrder
<1>7. \A n \in DOMAIN queue :
         /\ Waiting(n).revision = asm'.revision => Waiting(n).id = asm'.id
         /\ Waiting(n).id <= asm'.id /\ Waiting(n).revision <= asm'.revision
         /\ Waiting(n).id \in Int /\ Waiting(n).revision \in Int /\ Waiting(n).live \in Int
         /\ Waiting(n).live <= asm.liveId /\ Waiting(n).revision <= asm.revision
  BY RevisionsKept
<1>8. /\ nogo.id <= asm.id /\ nogo.revision <= asm.revision
      /\ published.live \in Int /\ published.live <= asm.liveId
      /\ pending.live \in Int /\ pending.live <= asm.liveId /\ pending.id \in Int
  BY KnownFacts DEF Paths, Assembly, PathsInOrder, NoGoOrder
<1>9. ASSUME NEW n \in DOMAIN queue'
      PROVE  /\ nogo.id <= N(n).id /\ nogo.revision <= N(n).revision
             /\ published.live <= N(n).id /\ pending.live <= N(n).id
             /\ queue'[n].who = "live" => N(n).live = N(n).id
                                        /\ N(n).id = asm'.liveId
             /\ N(n).revision = asm'.revision => N(n).id = asm'.id
  <2>1. CASE n \in DOMAIN queue
    BY <1>4, <1>7, <2>1 DEF PathsInOrder, QueueOrder
  <2>2. CASE n = last
    BY <1>2, <1>4, <1>6, <1>8, <2>2
  <2> QED
    BY <1>4, <2>1, <2>2
<1>10. ASSUME NEW a \in DOMAIN queue', NEW b \in DOMAIN queue', a < b
       PROVE  N(a).id <= N(b).id /\ N(a).revision <= N(b).revision
  <2>1. a \in DOMAIN queue
    <3>1. a # last
      BY <1>4, <1>5, <1>10
    <3> QED
      BY <1>4, <3>1
  <2>2. CASE b \in DOMAIN queue
    BY <1>4, <1>10, <2>1, <2>2 DEF PathsInOrder, QueueOrder
  <2>3. CASE b = last
    BY <1>2, <1>4, <1>7, <2>1, <2>3
  <2> QED
    BY <1>4, <2>2, <2>3
<1>11. QueueOrder'
  BY <1>1, <1>9, <1>10 DEF QueueOrder, Waiting
<1>12. ASSUME pending # NoPath, pending.id < asm'.liveId
       PROVE  \E n \in DOMAIN queue' :
                /\ queue'[n].who = "live" /\ N(n).id = asm'.liveId
                /\ nogo.revision < N(n).revision
                /\ \A j \in DOMAIN queue' : j < n =>
                      N(j).live <= pending.id /\ N(j).revision < N(n).revision
  <2>1. CASE pending.id < asm.liveId
    <3>1. PICK n \in DOMAIN queue : Overtakes(n)
      BY <1>12, <2>1 DEF PathsInOrder, PendingOrder
    <3>2. who = "poll"
      BY <3>1 DEF Overtakes
    <3>3. asm'.liveId = asm.liveId
      BY <3>2
    <3>4. \A j \in DOMAIN queue' : j < n => j \in DOMAIN queue
      BY <1>4, <1>5
    <3> QED
      BY <1>4, <3>1, <3>3, <3>4 DEF Overtakes
  <2>2. CASE ~(pending.id < asm.liveId)
    <3>1. who = "live" /\ asm'.liveId = asm'.id
      BY <1>12, <2>2
    <3>2. pending.live = pending.id
      BY DEF PathsInOrder, PendingOrder
    <3>3. asm.liveId = pending.id
      BY <1>6, <1>8, <2>2, <3>2
    <3>4. pending.id # None
      <4>1. pending \in Paths
        BY DEF Paths
      <4>2. Shaped(pending)
        BY <4>1 DEF PathsKnown, Known
      <4> QED
        BY <1>12, <4>2 DEF Shaped
    <3>5. asm.revision < asm'.revision
      BY <1>6, <1>12, <3>1, <3>3, <3>4
    <3>6. /\ queue'[last].who = "live" /\ N(last).id = asm'.liveId
          /\ nogo.revision < N(last).revision
      BY <1>2, <1>4, <1>6, <1>8, <3>1, <3>5
    <3>7. ASSUME NEW j \in DOMAIN queue', j < last
          PROVE  N(j).live <= pending.id /\ N(j).revision < N(last).revision
      <4>1. j \in DOMAIN queue
        BY <1>4, <1>5, <3>7
      <4> QED
        BY <1>2, <1>4, <1>6, <1>7, <3>3, <3>5, <4>1
    <3> QED
      BY <1>4, <3>6, <3>7
  <2> QED
    BY <2>1, <2>2
<1>13. PendingOrder'
  BY <1>1, <1>12 DEF PathsInOrder, PendingOrder, Overtakes, Waiting
<1> QED
  BY <1>1, <1>11, <1>13, NoGoKept DEF PathsInOrder

LEMMA OrderChecked ==
  ASSUME PathBounds, Assembly, PathsKnown, PathsInOrder, [Next]_vars, Checked
  PROVE  PathsInOrder'
<1> DEFINE h == Waiting(1)
<1>1. /\ queue # <<>> /\ queue' = Tail(queue) /\ asm' = asm
      /\ nogo' = nogo \/ nogo' = [revision |-> Head(queue).path.revision,
                                  id |-> Head(queue).path.id]
      /\ IF Head(queue).who = "poll" THEN published' = Head(queue).path /\ pending' = pending
         ELSE pending' = Head(queue).path /\ published' = published
  BY DEF Checked
<1>2. /\ Head(queue) = queue[1] /\ 1 \in DOMAIN queue /\ Head(queue).path = h
      /\ \A n \in DOMAIN queue' : /\ n + 1 \in DOMAIN queue /\ n \in Nat /\ n >= 1
                                  /\ queue'[n] = queue[n + 1]
                                  /\ Waiting(n)' = Waiting(n + 1)
  BY <1>1, QueueTaken DEF PathsKnown
<1>3. /\ queue[1].who \in {"live", "poll"} /\ h \in Paths
      /\ \A n \in DOMAIN queue : n \in Int /\ n >= 1
  BY <1>2, QueueFacts DEF PathsKnown, Workers
<1> HIDE DEF h
<1>4. /\ nogo' = nogo \/ nogo' = [revision |-> h.revision, id |-> h.id]
      /\ queue[1].who = "poll" => published' = h /\ pending' = pending
      /\ queue[1].who = "live" => pending' = h /\ published' = published
  BY <1>1, <1>2
<1>5. /\ asm.id \in Int /\ asm.liveId \in Int /\ asm.revision \in Int
      /\ nogo.id \in Int /\ nogo.revision \in Int
  BY OrderInts DEF PathsInOrder
<1>6. /\ h.id \in Int /\ h.live \in Int /\ h.revision \in Int
      /\ h.id <= asm.id /\ h.live <= asm.liveId /\ h.revision <= asm.revision
      /\ h.live \in {None, h.id} /\ h.live <= h.id
      /\ h \in AllPaths
  <2>1. h \in AllPaths
    BY <1>3 DEF PathsKnown, Known, Shaped
  <2> QED
    BY <1>3, <2>1, KnownFacts DEF Assembly
<1>7. /\ published.live \in Int /\ pending.live \in Int /\ pending.id \in Int
  BY KnownFacts DEF Paths, Assembly
<1>8. /\ nogo.id <= h.id /\ nogo.revision <= h.revision
      /\ published.live <= h.id /\ pending.live <= h.id
      /\ queue[1].who = "live" => h.live = h.id /\ h.id = asm.liveId
      /\ h.revision = asm.revision => h.id = asm.id
  BY <1>2 DEF PathsInOrder, QueueOrder, h
<1>9. ASSUME NEW n \in DOMAIN queue, n # 1
      PROVE  /\ h.id <= Waiting(n).id /\ h.revision <= Waiting(n).revision
             /\ Waiting(n).id \in Int /\ Waiting(n).revision \in Int /\ Waiting(n).live \in Int
             /\ nogo.id <= Waiting(n).id /\ nogo.revision <= Waiting(n).revision
             /\ published.live <= Waiting(n).id /\ pending.live <= Waiting(n).id
             /\ queue[n].who = "live" => Waiting(n).live = Waiting(n).id
                                        /\ Waiting(n).id = asm.liveId
             /\ Waiting(n).revision = asm.revision => Waiting(n).id = asm.id
  <2>1. 1 < n
    BY <1>3, <1>9
  <2>2. Waiting(n).id \in Int /\ Waiting(n).revision \in Int /\ Waiting(n).live \in Int
    BY RevisionsKept
  <2> QED
    BY <1>2, <2>1, <2>2 DEF PathsInOrder, QueueOrder, h
<1>10. NoGoOrder'
  <2>1. CASE nogo' = nogo
    BY <2>1, NoGoKept
  <2>2. CASE nogo' = [revision |-> h.revision, id |-> h.id]
    <3>1. nogo'.revision = h.revision /\ nogo'.id = h.id
      BY <2>2
    <3>2. nogo' \in [revision : Ids, id : Ids]
      BY <1>6, <2>2 DEF AllPaths, Ids
    <3> QED
      BY <1>1, <1>6, <1>8, <3>1, <3>2 DEF NoGoOrder, Ids
  <2> QED
    BY <1>4, <2>1, <2>2
<1>11. nogo'.id \in {nogo.id, h.id} /\ nogo'.revision \in {nogo.revision, h.revision}
  BY <1>4
<1>12. published'.live \in {published.live, h.live} /\ pending'.live \in {pending.live, h.live}
  BY <1>3, <1>4
<1>13. \A n \in DOMAIN queue' : n + 1 \in DOMAIN queue /\ n + 1 # 1
                               /\ queue'[n] = queue[n + 1] /\ Waiting(n)' = Waiting(n + 1)
  BY <1>2
<1>14. QueueOrder'
  <2>1. ASSUME NEW n \in DOMAIN queue'
        PROVE  /\ nogo'.id <= Waiting(n)'.id /\ nogo'.revision <= Waiting(n)'.revision
               /\ published'.live <= Waiting(n)'.id /\ pending'.live <= Waiting(n)'.id
               /\ queue'[n].who = "live" => Waiting(n)'.live = Waiting(n)'.id
                                          /\ Waiting(n)'.id = asm.liveId
               /\ Waiting(n)'.revision = asm.revision => Waiting(n)'.id = asm.id
    <3> DEFINE k == n + 1
    <3>1. k \in DOMAIN queue /\ k # 1 /\ queue'[n] = queue[k] /\ Waiting(n)' = Waiting(k)
      BY <1>13
    <3> HIDE DEF k
    <3>2. /\ h.id <= Waiting(k).id /\ h.revision <= Waiting(k).revision
          /\ Waiting(k).id \in Int /\ Waiting(k).revision \in Int
          /\ nogo.id <= Waiting(k).id /\ nogo.revision <= Waiting(k).revision
          /\ published.live <= Waiting(k).id /\ pending.live <= Waiting(k).id
          /\ queue[k].who = "live" => Waiting(k).live = Waiting(k).id
                                        /\ Waiting(k).id = asm.liveId
          /\ Waiting(k).revision = asm.revision => Waiting(k).id = asm.id
      BY <1>9, <3>1
    <3>3. h.live <= Waiting(k).id
      BY <1>6, <3>2
    <3> QED
      BY <1>11, <1>12, <3>1, <3>2, <3>3
  <2>2. ASSUME NEW a \in DOMAIN queue', NEW b \in DOMAIN queue', a < b
        PROVE  /\ Waiting(a)'.id <= Waiting(b)'.id
               /\ Waiting(a)'.revision <= Waiting(b)'.revision
    <3>1. a + 1 < b + 1 /\ a + 1 \in DOMAIN queue /\ b + 1 \in DOMAIN queue
      BY <1>2, <2>2
    <3> QED
      BY <1>13, <3>1 DEF PathsInOrder, QueueOrder
  <2> QED
    BY <1>1, <2>1, <2>2 DEF QueueOrder
<1>15. PendingOrder'
  <2>1. /\ pending.live = pending.id
        /\ pending # NoPath => published.live <= pending.id
        /\ pending # NoPath /\ pending.id < asm.liveId => \E n \in DOMAIN queue : Overtakes(n)
    BY DEF PathsInOrder, PendingOrder
  <2>2. CASE queue[1].who = "live"
    <3>1. pending' = h /\ published' = published /\ h.live = h.id /\ h.id = asm.liveId
      BY <1>4, <1>8, <2>2
    <3>2. ~(h.id < asm.liveId)
      BY <1>5, <3>1
    <3> QED
      BY <1>1, <1>8, <3>1, <3>2 DEF PendingOrder
  <2>3. CASE queue[1].who = "poll"
    <3>1. pending' = pending /\ published' = h
      BY <1>4, <2>3
    <3>2. CASE pending # NoPath /\ pending.id < asm.liveId
      <4>1. PICK n \in DOMAIN queue : Overtakes(n)
        BY <2>1, <3>2
      <4>2. n # 1 /\ 1 < n /\ n - 1 \in DOMAIN queue' /\ (n - 1) + 1 = n
        <5>1. n # 1
          BY <2>3, <4>1 DEF Overtakes
        <5>2. n \in Int /\ n >= 1
          BY <1>3
        <5>3. n - 1 \in DOMAIN queue'
          BY <1>1, <5>1, <5>2 DEF PathsKnown
        <5> QED
          BY <5>1, <5>2, <5>3
      <4>3. h.live <= pending.id /\ h.revision < Waiting(n).revision
        BY <1>2, <4>1, <4>2 DEF Overtakes, h
      <4>4. nogo'.revision < Waiting(n).revision
        BY <1>11, <4>1, <4>3 DEF Overtakes
      <4> DEFINE k == n - 1
      <4>5. k \in DOMAIN queue' /\ k + 1 = n /\ k \in Int
        BY <1>3, <4>2
      <4> HIDE DEF k
      <4>6. queue'[k] = queue[n] /\ Waiting(k)' = Waiting(n)
        BY <1>13, <4>5
      <4>7. ASSUME NEW m \in DOMAIN queue', m < k
            PROVE  /\ Waiting(m)'.live <= pending.id
                   /\ Waiting(m)'.revision < Waiting(n).revision
        <5>1. m + 1 \in DOMAIN queue /\ m + 1 < n /\ Waiting(m)' = Waiting(m + 1)
          BY <1>2, <4>5, <4>7
        <5> QED
          BY <4>1, <5>1 DEF Overtakes
      <4>8. queue'[k].who = "live" /\ Waiting(k)'.id = asm.liveId
        BY <4>1, <4>6 DEF Overtakes
      <4>9. \E j \in DOMAIN queue' :
              /\ queue'[j].who = "live" /\ Waiting(j)'.id = asm.liveId
              /\ nogo'.revision < Waiting(j)'.revision
              /\ \A m \in DOMAIN queue' : m < j =>
                    Waiting(m)'.live <= pending.id
                    /\ Waiting(m)'.revision < Waiting(j)'.revision
        BY <4>4, <4>5, <4>6, <4>7, <4>8
      <4> QED
        BY <1>1, <2>1, <3>1, <4>3, <4>9 DEF PendingOrder, Overtakes
    <3>3. CASE ~(pending # NoPath /\ pending.id < asm.liveId)
      <4>1. pending # NoPath => h.live <= pending.id
        BY <1>5, <1>6, <1>7, <3>3
      <4> QED
        BY <1>1, <2>1, <3>1, <3>3, <4>1 DEF PendingOrder
    <3> QED
      BY <3>2, <3>3
  <2> QED
    BY <1>3, <2>2, <2>3
<1> QED
  BY <1>10, <1>14, <1>15 DEF PathsInOrder

LEMMA OrderKept ==
  ASSUME PathBounds, PathInv, [Next]_vars
  PROVE  PathsInOrder'
<1> USE DEF PathInv, PathsInOrder
<1>1. Assembled(asm)
  BY DEF Assembly
<1>2. CASE Still
  BY <1>2, OrderStill
<1>3. CASE Flushed
  BY <1>3, OrderFlushed
<1>4. CASE Checked
  BY <1>4, OrderChecked
<1>5. CASE ByPoll
  <2>1. /\ asm' = Ingest(asm, file, FALSE) /\ Merged(asm') # NoPath
        /\ Queued("poll") \/ Shown
    BY <1>5 DEF ByPoll
  <2>2. asm'.liveId = asm.liveId /\ Assembled(asm')
    BY <1>5, AsmStep
  <2>3. asm'.id # None
    BY <2>1, <2>2, MergedFacts
  <2>4. CASE Queued("poll")
    BY <2>2, <2>3, <2>4, OrderQueued
  <2>5. CASE Shown
    BY <1>5, <2>5, OrderShown
  <2> QED
    BY <2>1, <2>4, <2>5
<1>6. ASSUME NEW s \in Sent, ByPiece(s) PROVE PathsInOrder'
  <2>1. /\ \A n \in DOMAIN queue : queue[n].who # "live"
        /\ Queued("live") \/ Left
        /\ asm' = Ingest(Ingest(asm, file, FALSE), Piece(task, s.from, s.to, s.angle), TRUE)
    BY <1>6 DEF ByPiece
  <2>2. asm'.liveId = asm'.id
    BY <1>6, AsmStep
  <2>3. asm'.id # None
    <3>1. asm'.id = task
      BY <2>1, PieceIngested
    <3> QED
      BY <3>1 DEF Assembly, None
  <2>4. CASE Queued("live")
    BY <2>1, <2>2, <2>3, <2>4, OrderQueued
  <2>5. CASE Left
    BY <2>1, <2>2, <2>3, <2>5, OrderLeft
  <2> QED
    BY <2>1, <2>4, <2>5
<1> QED
  BY <1>2, <1>3, <1>4, <1>5, <1>6, Kinds

LEMMA PathInvStart ==
  ASSUME PathBounds, Init
  PROVE  PathInv
<1>1. /\ task = 1 /\ cloud = [id |-> None, last |-> None] /\ asm = Empty
      /\ file = NoPath /\ queue = <<>> /\ nogo = [revision |-> None, id |-> None]
      /\ pending = NoPath /\ published = NoPath
  BY DEF Init
<1>2. Assembled(Empty)
  <2>1. DOMAIN Empty.points = {}
    BY DEF Empty
  <2> QED
    BY <2>1 DEF Empty, Assembled, Ids, None
<1>3. Known(NoPath, Empty)
  <2>1. Shaped(NoPath) /\ Fits(NoPath, Empty) /\ NoPath.id = None /\ NoPath.live = None
        /\ NoPath.revision = 0
    BY NoPathFacts DEF NoPath
  <2> QED
    BY <2>1 DEF Known, Empty, None
<1>4. Agree(NoPath, NoPath)
  BY DEF Agree
<1>5. DOMAIN queue = {} /\ queue \in Seq(Workers)
  BY <1>1
<1>6. Paths = {NoPath}
  BY <1>1, <1>5 DEF Paths
<1>7. Assembly
  <2>1. Empty.id = None /\ Empty.liveId = None /\ NoPath.merged
    BY DEF Empty, NoPath
  <2> QED
    BY <1>1, <1>2, <2>1 DEF Assembly, Ids, None
<1>8. PathsKnown
  BY <1>1, <1>3, <1>4, <1>5, <1>6 DEF PathsKnown
<1>9. NoGoOrder
  <2>1. Empty.id = None /\ Empty.revision = 0
    BY DEF Empty
  <2> QED
    BY <1>1, <2>1 DEF NoGoOrder, Ids, None
<1>10. QueueOrder
  BY <1>5 DEF QueueOrder
<1>11. PendingOrder
  BY <1>1 DEF PendingOrder, NoPath
<1> QED
  BY <1>7, <1>8, <1>9, <1>10, <1>11 DEF PathInv

THEOREM PathInvariant == Spec => []PathInv
<1> USE LivePathAssumption
<1>1. Init => PathInv
  BY PathInvStart
<1>2. PathInv /\ [Next]_vars => PathInv'
  <2> SUFFICES ASSUME PathInv, [Next]_vars PROVE PathInv'
    OBVIOUS
  <2>1. Assembly /\ PathsKnown
    BY DEF PathInv
  <2>2. Assembly' /\ PathsKnown' /\ PathsInOrder'
    BY <2>1, AssemblyKept, PathsKept, OrderKept
  <2> QED
    BY <2>2 DEF PathInv, PathsInOrder
<1> QED
  BY <1>1, <1>2, PTL DEF Spec

(* A path is of one task, and no older one comes back over one that arrived live. *)
THEOREM OneAtATime == Spec => OneTaskAtATime
<1> USE LivePathAssumption
<1> DEFINE Ahead == /\ \A n \in DOMAIN published'.points :
                          published'.points[n].task = published'.id
                    /\ published.live # None => published'.id >= published.live
<1>1. ASSUME PathInv, [Next]_vars, PathInv' PROVE Ahead
  <2>1. Shaped(published) /\ Shaped(published') /\ Assembled(asm)
    BY <1>1 DEF PathInv, PathsKnown, Known, Paths, Assembly
  <2>2. \A n \in DOMAIN published'.points : published'.points[n].task = published'.id
    <3>1. CASE published' = NoPath
      BY <3>1 DEF NoPath
    <3>2. CASE published' # NoPath
      BY <2>1, <3>2 DEF Shaped
    <3> QED
      BY <3>1, <3>2
  <2>3. /\ published.live \in Int /\ published.live <= published.id /\ published.id \in Int
        /\ published.live <= asm.liveId
    <3>1. Assembled(asm) /\ PathsKnown /\ published \in Paths
      BY <1>1, <2>1 DEF PathInv, Paths
    <3> QED
      BY <3>1, KnownFacts
  <2>4. published.live <= published'.id
    <3>1. CASE published' = published
      BY <2>3, <3>1
    <3>2. CASE Flushed
      BY <1>1, <3>2 DEF Flushed, PathInv, PendingOrder
    <3>3. CASE Checked
      <4>1. 1 \in DOMAIN queue /\ Head(queue).path = Waiting(1)
        BY <1>1, <3>3, QueueTaken DEF Checked, PathInv, PathsKnown
      <4>2. published.live <= Waiting(1).id
        BY <1>1, <4>1 DEF PathInv, QueueOrder
      <4> QED
        BY <2>3, <3>3, <4>1, <4>2 DEF Checked
    <3>4. CASE ByPoll /\ Shown
      <4>1. published'.id = asm'.id
        BY <1>1, <3>4, AsmStep, MergedPath DEF PathInv, ByPoll, Shown
      <4>2. /\ asm.id \in Int /\ asm.liveId \in Int /\ asm'.id \in Int
            /\ asm.liveId <= asm.id /\ asm.id <= asm'.id
        BY <1>1, OrderInts DEF PathInv
      <4> QED
        BY <2>3, <4>1, <4>2
    <3> QED
      BY <1>1, <3>1, <3>2, <3>3, <3>4, Kinds DEF Still, ByPoll, ByPiece, Queued, Left
  <2>5. published'.id \in Int
    BY <1>1, KnownFacts DEF PathInv, Paths, Assembly, PathsKnown, Known, Shaped, AllPaths, Ids,
       None
  <2> QED
    BY <2>2, <2>3, <2>4, <2>5
<1>2. ASSUME PathInv, [Next]_vars, PathInv' PROVE [Ahead]_vars
  BY <1>1, <1>2
<1> QED
  BY <1>2, PathInvariant, PTL DEF Spec, OneTaskAtATime

(***************************************************************************)
(* The card's copy.                                                        *)
(***************************************************************************)

LEMMA Slice ==
  ASSUME NEW S, NEW s \in Seq(S), NEW m \in Nat \ {0}, m <= Len(s) + 1
  PROVE  /\ SubSeq(s, m, Len(s)) \in Seq(S) /\ Len(SubSeq(s, m, Len(s))) = Len(s) - m + 1
         /\ \A i \in 1 .. Len(s) - m + 1 : SubSeq(s, m, Len(s))[i] = s[m + i - 1]
<1>1. Len(s) \in Nat /\ m \in Int /\ Len(s) \in Int /\ \A i \in m .. Len(s) : s[i] \in S
  OBVIOUS
<1>2. /\ SubSeq(s, m, Len(s)) \in Seq(S)
      /\ Len(SubSeq(s, m, Len(s))) = IF m <= Len(s) THEN Len(s) - m + 1 ELSE 0
      /\ \A i \in 1 .. Len(s) - m + 1 : SubSeq(s, m, Len(s))[i] = s[m + i - 1]
  BY <1>1, SubSeqProperties
<1> QED
  BY <1>1, <1>2

LEMMA SameSlice ==
  ASSUME NEW S, NEW s \in Seq(S), NEW t \in Seq(S), NEW m \in Nat \ {0}, NEW k \in Nat \ {0},
         m <= Len(s) + 1, Len(s) - m = Len(t) - k,
         \A i \in 0 .. Len(s) - m : s[m + i] = t[k + i]
  PROVE  SubSeq(s, m, Len(s)) = SubSeq(t, k, Len(t))
<1> DEFINE a == SubSeq(s, m, Len(s))
           b == SubSeq(t, k, Len(t))
<1>1. Len(s) \in Nat /\ Len(t) \in Nat /\ k <= Len(t) + 1
  OBVIOUS
<1>2. /\ a \in Seq(S) /\ Len(a) = Len(s) - m + 1
      /\ \A i \in 1 .. Len(s) - m + 1 : a[i] = s[m + i - 1]
  BY Slice
<1>3. /\ b \in Seq(S) /\ Len(b) = Len(t) - k + 1
      /\ \A i \in 1 .. Len(t) - k + 1 : b[i] = t[k + i - 1]
  BY <1>1, Slice
<1> HIDE DEF a, b
<1>4. ASSUME NEW i \in 1 .. Len(a) PROVE a[i] = b[i]
  <2>1. a[i] = s[m + i - 1] /\ b[i] = t[k + i - 1]
    BY <1>1, <1>2, <1>3, <1>4
  <2>2. i - 1 \in 0 .. Len(s) - m /\ m + (i - 1) = m + i - 1 /\ k + (i - 1) = k + i - 1
    BY <1>1, <1>2, <1>4
  <2>3. s[m + (i - 1)] = t[k + (i - 1)]
    BY <2>2
  <2> QED
    BY <2>1, <2>2, <2>3
<1>5. a = b
  BY <1>1, <1>2, <1>3, <1>4, SeqEqual
<1> QED
  BY <1>5 DEF a, b

\* what is kept of a copy from its m-th point on, then the rest of a path, is the path
LEMMA Joined ==
  ASSUME NEW S, NEW c \in Seq(S), NEW p \in Seq(S), NEW m \in Nat \ {0}, m <= Len(c) + 1,
         NEW k \in Nat, k <= Len(p), k = Len(c) - m + 1,
         \A i \in 1 .. k : c[m + i - 1] = p[i]
  PROVE  SubSeq(c, m, Len(c)) \o SubSeq(p, k + 1, Len(p)) = p
<1> DEFINE a == SubSeq(c, m, Len(c))
           b == SubSeq(p, k + 1, Len(p))
<1>1. Len(c) \in Nat /\ Len(p) \in Nat /\ k + 1 \in Nat \ {0} /\ k + 1 <= Len(p) + 1
  OBVIOUS
<1>2. a \in Seq(S) /\ Len(a) = k /\ \A i \in 1 .. k : a[i] = c[m + i - 1]
  BY Slice
<1>3. /\ b \in Seq(S) /\ Len(b) = Len(p) - (k + 1) + 1
      /\ \A i \in 1 .. Len(p) - (k + 1) + 1 : b[i] = p[k + 1 + i - 1]
  BY <1>1, Slice
<1> HIDE DEF a, b
<1>4. /\ a \o b \in Seq(S) /\ Len(a \o b) = Len(p)
      /\ \A i \in 1 .. Len(p) : (a \o b)[i] = IF i <= k THEN a[i] ELSE b[i - k]
  BY <1>1, <1>2, <1>3
<1>5. ASSUME NEW i \in 1 .. Len(p) PROVE (a \o b)[i] = p[i]
  <2>1. CASE i <= k
    BY <1>2, <1>4, <2>1
  <2>2. CASE ~(i <= k)
    <3>1. i - k \in 1 .. Len(p) - (k + 1) + 1 /\ k + 1 + (i - k) - 1 = i
      BY <1>1, <2>2
    <3>2. b[i - k] = p[k + 1 + (i - k) - 1]
      BY <1>3, <3>1
    <3> QED
      BY <1>4, <2>2, <3>1, <3>2
  <2> QED
    BY <2>1, <2>2
<1>6. a \o b = p
  BY <1>1, <1>4, <1>5, SeqEqual
<1> QED
  BY <1>6 DEF a, b

LEMMA WholeFacts ==
  ASSUME NEW p, Shaped(p), Whole(p)
  PROVE  /\ p.first \in Nat /\ First(p) = p.first /\ Len(p.points) \in Nat \ {0}
         /\ p.points \in Seq(Spots) /\ p.points # <<>>
         /\ LastIndex(p) = p.first + Len(p.points) - 1
         /\ \A n \in 1 .. Len(p.points) :
              p.points[n] = Point(p.id, p.first + n - 1, p.points[n].angle)
<1>1. p # NoPath
  BY NoPathFacts
<1>2. /\ p.first # None /\ p.points # <<>> /\ p.first \in Ids /\ p.points \in Seq(Spots)
      /\ \A n \in DOMAIN p.points :
           p.points[n] = Point(p.id, p.first + n - 1, p.points[n].angle)
  BY <1>1 DEF Shaped, AllPaths
<1>3. First(p) = p.first
  BY DEF Whole, First
<1> QED
  BY <1>2, <1>3 DEF LastIndex, Ids

\* where both hold it, the last point of the cursor is the one thing to compare
LEMMA Overlap ==
  ASSUME NEW q, Shaped(q), Whole(q), NEW p, Shaped(p), Whole(p), p.id = q.id, Agree(q, p),
         p.first <= LastIndex(q), LastIndex(q) <= LastIndex(p),
         Signature(p.points[LastIndex(q) - p.first + 1]) = Signature(q.points[Len(q.points)])
  PROVE  \A i \in p.first .. LastIndex(q) : q.first <= i =>
            q.points[i - q.first + 1] = p.points[i - p.first + 1]
<1> DEFINE l == LastIndex(q)
           r == LastIndex(p)
<1> SUFFICES ASSUME NEW i \in p.first .. l, q.first <= i
             PROVE  q.points[i - q.first + 1] = p.points[i - p.first + 1]
  OBVIOUS
<1>1. /\ p.first \in Nat /\ q.first \in Nat
      /\ Len(p.points) \in Nat \ {0} /\ Len(q.points) \in Nat \ {0}
      /\ l = q.first + Len(q.points) - 1 /\ r = p.first + Len(p.points) - 1
      /\ l <= r /\ i \in p.first .. l
  BY WholeFacts
<1> HIDE DEF l, r
<1> DEFINE a == i - q.first + 1
           b == i - p.first + 1
<1>2. /\ a \in 1 .. Len(q.points) /\ b \in 1 .. Len(p.points)
      /\ q.first + a - 1 = i /\ p.first + b - 1 = i
  <2> DEFINE f == p.first
             g == q.first
             m == Len(q.points)
             k == Len(p.points)
  <2>1. /\ f \in Nat /\ g \in Nat /\ m \in Nat /\ k \in Nat /\ i \in Int /\ f <= i /\ g <= i
        /\ i <= g + m - 1 /\ i <= f + k - 1
    BY <1>1
  <2> HIDE DEF f, g, m, k
  <2>2. /\ i - g + 1 \in 1 .. m /\ i - f + 1 \in 1 .. k
        /\ g + (i - g + 1) - 1 = i /\ f + (i - f + 1) - 1 = i
    BY <2>1
  <2> QED
    BY <2>2 DEF f, g, m, k
<1>3. /\ q.points[a] = Point(q.id, i, q.points[a].angle)
      /\ p.points[b] = Point(p.id, i, p.points[b].angle)
  <2>1. /\ q.points[a] = Point(q.id, q.first + a - 1, q.points[a].angle)
        /\ p.points[b] = Point(p.id, p.first + b - 1, p.points[b].angle)
    BY <1>2, WholeFacts
  <2> QED
    BY <1>2, <2>1
<1>4. q.points[a].angle = p.points[b].angle
  <2>1. CASE i = l
    <3>1. a = Len(q.points) /\ b = l - p.first + 1
      BY <1>1, <2>1
    <3>2. Signature(p.points[b]) = Signature(q.points[a])
      BY <3>1 DEF l
    <3> QED
      BY <3>2 DEF Signature
  <2>2. CASE i # l
    <3>1. i \in Inner(q) /\ i \in Inner(p)
      <4> DEFINE f == p.first
                 g == q.first
                 m == Len(q.points)
                 k == Len(p.points)
      <4>1. /\ f \in Nat /\ g \in Nat /\ m \in Nat /\ k \in Nat /\ i \in Int /\ f <= i /\ g <= i
            /\ i <= g + m - 1 /\ i <= f + k - 1 /\ i # g + m - 1 /\ g + m - 1 <= f + k - 1
        BY <1>1, <2>2
      <4> HIDE DEF f, g, m, k
      <4>2. i \in g .. g + m - 2 /\ i \in f .. f + k - 2
        BY <4>1
      <4> QED
        BY <4>2 DEF Inner, f, g, m, k
    <3>2. At(q, i).angle = At(p, i).angle
      BY <3>1 DEF Agree
    <3> QED
      BY <3>2 DEF At
  <2> QED
    BY <2>1, <2>2
<1> QED
  BY <1>3, <1>4

(* What the card holds of the path: all of it, or, where the path knows its indices,
   all but a beginning. *)
Copies == [id : Ids, start : Int, points : Seq(Spots)]

Draws(c, p) ==
    /\ c.id = p.id
    /\ IF Whole(p)
       THEN /\ p.first <= c.start /\ c.start <= LastIndex(p)
            /\ c.points = SubSeq(p.points, c.start - p.first + 1, Len(p.points))
       ELSE c.start = None /\ c.points = p.points

\* it may be taken for the one the cursor is at
Mistaken(q, p) ==
    /\ First(p) = None \/ First(q) = None
    /\ SubSeq(p.points, 1, Len(q.points)) # q.points
    /\ Signature(p.points[Len(q.points)]) = Cursor(q).tail

LEMMA CursorIs ==
  ASSUME NEW q, Shaped(q)
  PROVE  /\ Cursor(q).id = q.id /\ Cursor(q).length = Len(q.points)
         /\ Cursor(q).first = First(q) /\ Cursor(q).last = LastIndex(q)
         /\ q.points # <<>> => Cursor(q).tail = Signature(q.points[Len(q.points)])
         /\ Len(q.points) \in Nat /\ (q.points = <<>> <=> Len(q.points) = 0)
         /\ q.points \in Seq(Spots) /\ (q.points = <<>> <=> q = NoPath)
         /\ q # NoPath => q.id # None /\ q.first # None
<1>1. q.points \in Seq(Spots)
  BY DEF Shaped, AllPaths
<1>2. q.points = <<>> <=> q = NoPath
  BY NoPathFacts DEF Shaped
<1> QED
  BY <1>1, <1>2 DEF Cursor, Shaped

LEMMA AppliedIs ==
  ASSUME NEW c
  PROVE  /\ Applied(c, Nothing) = c
         /\ \A p : Applied(c, Reset(p)) = [id |-> p.id, start |-> First(p), points |-> p.points]
         /\ \A p, start, from, skip :
              Applied(c, Appended(p, start, from, skip)) =
                IF ~Continues(c, Appended(p, start, from, skip)) THEN NoCopy
                ELSE LET trimmed == IF start = None THEN 0 ELSE start - c.start
                     IN  [c EXCEPT !.start = start,
                            !.points = SubSeq(@, trimmed + 1, Len(@))
                                         \o SubSeq(p.points, skip + 1, Len(p.points))]
         /\ \A p, start, from, skip :
              Continues(c, Appended(p, start, from, skip)) =
                (/\ p.id = c.id
                 /\ IF start = None
                    THEN c.start = None /\ from = Len(c.points)
                    ELSE /\ c.start # None /\ start - c.start \in 0 .. Len(c.points)
                         /\ from = start + Len(c.points) - (start - c.start))
         /\ Nothing.op = "none" /\ (\A p : Reset(p).op = "reset")
         /\ \A p, start, from, skip : Appended(p, start, from, skip).op = "append"
BY DEF Applied, Nothing, Reset, Appended, Continues

LEMMA ResetDraws ==
  ASSUME NEW p, Shaped(p), NEW c
  PROVE  Applied(c, Reset(p)) \in Copies /\ Draws(Applied(c, Reset(p)), p)
<1> DEFINE d == [id |-> p.id, start |-> First(p), points |-> p.points]
<1>1. Applied(c, Reset(p)) = d
  BY AppliedIs
<1>2. p.id \in Ids /\ p.first \in Ids /\ p.points \in Seq(Spots) /\ First(p) \in Int
  BY DEF Shaped, AllPaths, First, Ids, None
<1>3. d \in Copies
  BY <1>2 DEF Copies
<1>4. d.id = p.id /\ d.start = First(p) /\ d.points = p.points
  OBVIOUS
<1> HIDE DEF d
<1>5. Draws(d, p)
  <2>1. CASE Whole(p)
    <3>1. /\ p.first \in Nat /\ First(p) = p.first /\ Len(p.points) \in Nat \ {0}
          /\ p.points \in Seq(Spots) /\ LastIndex(p) = p.first + Len(p.points) - 1
      BY <2>1, WholeFacts
    <3>2. SubSeq(p.points, 1, Len(p.points)) = p.points
      BY <3>1, SubSeqFull
    <3>3. p.first - p.first + 1 = 1 /\ p.first <= p.first /\ p.first <= LastIndex(p)
      BY <3>1
    <3> QED
      BY <1>4, <2>1, <3>1, <3>2, <3>3 DEF Draws
  <2>2. CASE ~Whole(p)
    BY <1>4, <2>2 DEF Draws, Whole
  <2> QED
    BY <2>1, <2>2
<1> QED
  BY <1>1, <1>3, <1>5

LEMMA DeltaCases ==
  ASSUME NEW q, Shaped(q), NEW p, Shaped(p), NEW m, m = PathDelta(Cursor(q), p), m # Reset(p)
  PROVE  /\ p.id = q.id
         /\ \/ p = NoPath /\ q = NoPath /\ m = Nothing
            \/ /\ Whole(p) /\ Whole(q) /\ p.first <= LastIndex(q) /\ LastIndex(q) <= LastIndex(p)
               /\ Signature(p.points[LastIndex(q) - p.first + 1])
                    = Signature(q.points[Len(q.points)])
               /\ \/ m = Nothing /\ LastIndex(q) = LastIndex(p) /\ p.first <= q.first
                  \/ m = Appended(p, p.first, LastIndex(q) + 1, LastIndex(q) - p.first + 1)
            \/ /\ Whole(p) /\ Whole(q) /\ p.first = LastIndex(q) + 1
               /\ m = Appended(p, p.first, p.first, 0)
            \/ /\ ~(Whole(p) /\ Whole(q)) /\ p # NoPath /\ q # NoPath
               /\ Len(q.points) <= Len(p.points)
               /\ Signature(p.points[Len(q.points)]) = Cursor(q).tail
               /\ \/ m = Nothing /\ Len(q.points) = Len(p.points)
                  \/ m = Appended(p, None, Len(q.points), Len(q.points))
<1> DEFINE c == Cursor(q)
<1>1. /\ c.id = q.id /\ c.length = Len(q.points) /\ c.first = First(q) /\ c.last = LastIndex(q)
      /\ q.points # <<>> => c.tail = Signature(q.points[Len(q.points)])
      /\ Len(q.points) \in Nat /\ (q.points = <<>> <=> Len(q.points) = 0)
      /\ (q.points = <<>> <=> q = NoPath) /\ (q # NoPath => q.id # None)
  BY CursorIs
<1>2. /\ Len(p.points) \in Nat /\ (p.points = <<>> <=> Len(p.points) = 0)
      /\ (p.points = <<>> <=> p = NoPath) /\ (p # NoPath => p.id # None)
  BY CursorIs
<1> HIDE DEF c
<1>3. m = PathDelta(c, p)
  BY DEF c
<1>4. p.id = q.id /\ (p.points = <<>> => c.length = 0)
  BY <1>1, <1>2, <1>3 DEF PathDelta
<1>5. CASE p.points = <<>>
  <2>1. m = Nothing
    BY <1>1, <1>3, <1>4, <1>5 DEF PathDelta
  <2> QED
    BY <1>1, <1>2, <1>4, <1>5, <2>1
<1>6. CASE p.points # <<>> /\ Whole(p) /\ Whole(q)
  <2> DEFINE overlaps == p.first <= c.last /\ c.last <= LastIndex(p)
             skip == IF overlaps THEN c.last - p.first + 1 ELSE 0
  <2>1. m = AbsoluteDelta(c, p)
    BY <1>1, <1>3, <1>4, <1>6 DEF PathDelta, Whole
  <2>2. /\ p.first \in Nat /\ q.first \in Nat /\ First(q) = q.first
        /\ Len(p.points) \in Nat \ {0} /\ Len(q.points) \in Nat \ {0} /\ q.points # <<>>
        /\ LastIndex(q) = q.first + Len(q.points) - 1
        /\ LastIndex(p) = p.first + Len(p.points) - 1
    BY <1>6, WholeFacts
  <2>3. c.last \in Int /\ LastIndex(p) \in Int
    BY <1>1, <2>2
  <2>4. /\ ~(LastIndex(p) < c.last \/ p.first > c.last + 1)
        /\ ~(overlaps /\ Signature(p.points[skip]) # c.tail)
        /\ IF skip = Len(p.points) /\ p.first <= c.first THEN m = Nothing
           ELSE m = Appended(p, p.first, p.first + skip, skip)
    BY <2>1 DEF AbsoluteDelta
  <2>5. CASE overlaps
    <3>1. skip = c.last - p.first + 1
      BY <2>5
    <3>2. p.first + skip = c.last + 1 /\ (skip = Len(p.points) => c.last = LastIndex(p))
      BY <2>2, <2>3, <3>1
    <3>3. Signature(p.points[skip]) = Signature(q.points[Len(q.points)])
      BY <1>1, <2>2, <2>4, <2>5
    <3>4. p.first <= LastIndex(q) /\ LastIndex(q) <= LastIndex(p)
      BY <1>1, <2>5
    <3> HIDE DEF skip
    <3>5. \/ m = Nothing /\ c.last = LastIndex(p) /\ p.first <= q.first
          \/ m = Appended(p, p.first, c.last + 1, c.last - p.first + 1)
      BY <1>1, <2>2, <2>4, <3>1, <3>2
    <3> QED
      BY <1>1, <1>4, <1>6, <3>1, <3>3, <3>4, <3>5
  <2>6. CASE ~overlaps
    <3>1. p.first = c.last + 1
      BY <2>2, <2>3, <2>4, <2>6
    <3>2. skip = 0 /\ skip # Len(p.points) /\ p.first + skip = p.first
      BY <2>2, <2>6
    <3> HIDE DEF skip
    <3>3. m = Appended(p, p.first, p.first, 0)
      BY <2>4, <3>2
    <3> QED
      BY <1>1, <1>4, <1>6, <3>1, <3>3
  <2> QED
    BY <2>5, <2>6
<1>7. CASE p.points # <<>> /\ ~(Whole(p) /\ Whole(q))
  <2>1. m = GenericDelta(c, p)
    BY <1>1, <1>3, <1>4, <1>7 DEF PathDelta, Whole
  <2>2. /\ ~(Len(p.points) < c.length)
        /\ ~(c.length > 0 /\ Signature(p.points[c.length]) # c.tail)
        /\ IF Len(p.points) = c.length THEN m = Nothing
           ELSE m = Appended(p, None, c.length, c.length)
    BY <2>1 DEF GenericDelta
  <2>3. q # NoPath
    <3>1. NoPath.id = None
      BY NoPathFacts
    <3> QED
      BY <1>2, <1>4, <1>7, <3>1
  <2>4. Len(q.points) > 0 /\ Len(q.points) <= Len(p.points)
    BY <1>1, <1>2, <2>2, <2>3
  <2>5. Signature(p.points[Len(q.points)]) = c.tail
    BY <1>1, <2>2, <2>4
  <2>6. \/ m = Nothing /\ Len(q.points) = Len(p.points)
        \/ m = Appended(p, None, Len(q.points), Len(q.points))
    BY <1>1, <2>2
  <2> QED
    BY <1>2, <1>4, <1>7, <2>3, <2>4, <2>5, <2>6 DEF c
<1> QED
  BY <1>5, <1>6, <1>7

LEMMA CopyIs ==
  ASSUME NEW c \in Copies, NEW a, NEW b
  PROVE  [c EXCEPT !.start = a, !.points = b] = [id |-> c.id, start |-> a, points |-> b]
<1>1. PICK i, s, p : c = [id |-> i, start |-> s, points |-> p]
  <2>1. c = [id |-> c.id, start |-> c.start, points |-> c.points]
    BY DEF Copies
  <2> QED
    BY <2>1, Zenon
<1>2. [[id |-> i, start |-> s, points |-> p] EXCEPT !.start = a, !.points = b]
        = [id |-> i, start |-> a, points |-> b]
  <2> DEFINE r == [id |-> i, start |-> a, points |-> p]
  <2>1. [[id |-> i, start |-> s, points |-> p] EXCEPT !.start = a] = r
    OBVIOUS
  <2>2. [r EXCEPT !.points = b] = [id |-> i, start |-> a, points |-> b]
    OBVIOUS
  <2> QED
    BY <2>1, <2>2, Zenon
<1>3. c.id = i
  BY <1>1
<1> QED
  BY <1>1, <1>2, <1>3, Zenon

(* Point by point, what the card draws of a path whose indices are known. *)
LEMMA DrawnPoints ==
  ASSUME NEW q, Shaped(q), Whole(q), NEW c \in Copies, Draws(c, q)
  PROVE  /\ c.start \in Nat /\ q.first <= c.start /\ c.start <= LastIndex(q)
         /\ c.points \in Seq(Spots) /\ Len(c.points) = LastIndex(q) - c.start + 1
         /\ \A n \in 1 .. Len(c.points) : c.points[n] = q.points[c.start - q.first + n]
<1> DEFINE a == c.start - q.first + 1
<1>1. /\ q.first \in Nat /\ Len(q.points) \in Nat \ {0} /\ q.points \in Seq(Spots)
      /\ LastIndex(q) = q.first + Len(q.points) - 1
  BY WholeFacts
<1>2. /\ c.start \in Int /\ q.first <= c.start /\ c.start <= LastIndex(q)
      /\ c.points = SubSeq(q.points, a, Len(q.points))
  BY DEF Draws, Copies
<1>3. a \in Nat \ {0} /\ a <= Len(q.points) + 1
  BY <1>1, <1>2
<1> HIDE DEF a
<1>4. /\ c.points \in Seq(Spots) /\ Len(c.points) = Len(q.points) - a + 1
      /\ \A n \in 1 .. Len(q.points) - a + 1 : c.points[n] = q.points[a + n - 1]
  BY <1>1, <1>2, <1>3, Slice
<1>5. c.start \in Nat /\ Len(c.points) = LastIndex(q) - c.start + 1
  BY <1>1, <1>2, <1>4 DEF a
<1>6. ASSUME NEW n \in 1 .. Len(c.points)
      PROVE  c.points[n] = q.points[c.start - q.first + n]
  <2>1. a + n - 1 = c.start - q.first + n
    BY <1>1, <1>2 DEF a
  <2> QED
    BY <1>4, <1>6, <2>1
<1> QED
  BY <1>2, <1>4, <1>5, <1>6

\* nothing new: the copy reaches as far as the path, which may have grown in front
LEMMA NothingDraws ==
  ASSUME NEW q, Shaped(q), Whole(q), NEW p, Shaped(p), Whole(p), p.id = q.id, Agree(q, p),
         LastIndex(q) = LastIndex(p), p.first <= q.first,
         Signature(p.points[LastIndex(q) - p.first + 1]) = Signature(q.points[Len(q.points)]),
         NEW c \in Copies, Draws(c, q)
  PROVE  Draws(c, p)
<1> DEFINE l == LastIndex(q)
           a == c.start - q.first + 1
           b == c.start - p.first + 1
<1>1. /\ p.first \in Nat /\ Len(p.points) \in Nat \ {0} /\ p.points \in Seq(Spots)
      /\ l = p.first + Len(p.points) - 1
  BY WholeFacts
<1>2. /\ q.first \in Nat /\ Len(q.points) \in Nat \ {0} /\ q.points \in Seq(Spots)
      /\ l = q.first + Len(q.points) - 1
  BY WholeFacts
<1>3. /\ c.id = q.id /\ q.first <= c.start /\ c.start <= l /\ c.start \in Int
      /\ c.points = SubSeq(q.points, a, Len(q.points))
  BY DEF Draws, Copies
<1>4. p.first <= l /\ LastIndex(q) <= LastIndex(p)
  BY <1>1
<1>5. \A i \in p.first .. l : q.first <= i =>
         q.points[i - q.first + 1] = p.points[i - p.first + 1]
  BY <1>4, Overlap
<1> HIDE DEF l
<1> DEFINE f == p.first
           g == q.first
           u == Len(p.points)
           v == Len(q.points)
           s == c.start
<1>a. /\ f \in Nat /\ g \in Nat /\ u \in Nat /\ v \in Nat /\ s \in Int /\ l \in Int
      /\ l = f + u - 1 /\ l = g + v - 1 /\ f <= g /\ g <= s /\ s <= l
  BY <1>1, <1>2, <1>3
<1>b. a = s - g + 1 /\ b = s - f + 1
  OBVIOUS
<1> HIDE DEF f, g, u, v, s, a, b
<1>c. a \in Nat \ {0} /\ b \in Nat \ {0} /\ a <= v + 1 /\ v - a = u - b
  BY <1>a, <1>b
<1>6. a \in Nat \ {0} /\ b \in Nat \ {0} /\ a <= Len(q.points) + 1
      /\ Len(q.points) - a = Len(p.points) - b
  BY <1>c DEF u, v
<1>7. ASSUME NEW i \in 0 .. Len(q.points) - a PROVE q.points[a + i] = p.points[b + i]
  <2> DEFINE k == s + i
  <2>1. i \in 0 .. v - a
    BY <1>7 DEF v
  <2>2. k \in f .. l /\ g <= k /\ k - g + 1 = a + i /\ k - f + 1 = b + i
    BY <1>a, <1>b, <2>1
  <2> HIDE DEF k
  <2>3. q.points[k - g + 1] = p.points[k - f + 1]
    BY <1>5, <2>2 DEF f, g
  <2> QED
    BY <2>2, <2>3
<1>8. SubSeq(q.points, a, Len(q.points)) = SubSeq(p.points, b, Len(p.points))
  <2> DEFINE x == q.points
             y == p.points
  <2>1. /\ x \in Seq(Spots) /\ y \in Seq(Spots) /\ a \in Nat \ {0} /\ b \in Nat \ {0}
        /\ a <= Len(x) + 1 /\ Len(x) - a = Len(y) - b
        /\ \A i \in 0 .. Len(x) - a : x[a + i] = y[b + i]
    BY <1>1, <1>2, <1>6, <1>7
  <2> HIDE DEF x, y
  <2>2. SubSeq(x, a, Len(x)) = SubSeq(y, b, Len(y))
    BY <2>1, SameSlice
  <2> QED
    BY <2>2 DEF x, y
<1>9. p.first <= c.start /\ c.start <= LastIndex(p)
  <2>1. f <= s /\ s <= l
    BY <1>a
  <2> QED
    BY <2>1 DEF f, s, l
<1> QED
  BY <1>3, <1>8, <1>9 DEF Draws, b

\* what is appended joins the copy, once it is cut off where the path begins
LEMMA AbsoluteDraws ==
  ASSUME NEW q, Shaped(q), Whole(q), NEW p, Shaped(p), Whole(p), p.id = q.id, Agree(q, p),
         NEW c \in Copies, Draws(c, q), NEW skip \in Nat, skip <= Len(p.points),
         p.first + skip = LastIndex(q) + 1,
         \/ skip = 0
         \/ /\ p.first <= LastIndex(q) /\ LastIndex(q) <= LastIndex(p)
            /\ Signature(p.points[LastIndex(q) - p.first + 1])
                 = Signature(q.points[Len(q.points)]),
         NEW m, m = Appended(p, p.first, p.first + skip, skip), Continues(c, m)
  PROVE  Applied(c, m) \in Copies /\ Draws(Applied(c, m), p)
<1> DEFINE l == LastIndex(q)
           trimmed == p.first - c.start
           rest == SubSeq(c.points, trimmed + 1, Len(c.points))
                     \o SubSeq(p.points, skip + 1, Len(p.points))
           d == [c EXCEPT !.start = p.first, !.points = rest]
<1>1. /\ p.first \in Nat /\ Len(p.points) \in Nat \ {0} /\ p.points \in Seq(Spots)
      /\ First(p) = p.first /\ LastIndex(p) = p.first + Len(p.points) - 1
  BY WholeFacts
<1>2. /\ q.first \in Nat /\ l \in Int
  <2>1. l = q.first + Len(q.points) - 1 /\ q.first \in Nat /\ Len(q.points) \in Nat
    BY WholeFacts
  <2> QED
    BY <2>1
<1>3. /\ c.start \in Nat /\ q.first <= c.start /\ c.start <= l
      /\ c.points \in Seq(Spots) /\ Len(c.points) = l - c.start + 1
      /\ \A n \in 1 .. Len(c.points) : c.points[n] = q.points[c.start - q.first + n]
      /\ c.id = q.id
  BY DrawnPoints DEF Draws
<1>4. trimmed \in 0 .. Len(c.points)
  <2>1. p.first # None
    BY <1>1 DEF None
  <2> QED
    BY <2>1, AppliedIs
<1>5. Applied(c, m) = d
  <2>1. p.first # None
    BY <1>1 DEF None
  <2>2. Applied(c, m) = IF ~Continues(c, m) THEN NoCopy
                        ELSE [c EXCEPT !.start = p.first,
                                !.points = SubSeq(@, (p.first - c.start) + 1, Len(@))
                                             \o SubSeq(p.points, skip + 1, Len(p.points))]
    BY <2>1 DEF Applied, Appended
  <2> QED
    BY <2>2
<1>6. ASSUME skip # 0
      PROVE  \A i \in p.first .. l : q.first <= i =>
                q.points[i - q.first + 1] = p.points[i - p.first + 1]
  BY <1>6, Overlap
<1> HIDE DEF l
<1> DEFINE f == p.first
           g == q.first
           v == Len(c.points)
           s == c.start
           t1 == trimmed + 1
<1>7. /\ f \in Nat /\ g \in Nat /\ v \in Nat /\ s \in Int /\ l \in Int
      /\ f + skip = l + 1 /\ v = l - s + 1 /\ g <= s /\ s <= l
      /\ f - s >= 0 /\ f - s <= v
  BY <1>1, <1>2, <1>3, <1>4 DEF l
<1>b. t1 = (f - s) + 1
  OBVIOUS
<1> HIDE DEF f, g, v, s, t1
<1>8. t1 \in Nat \ {0} /\ t1 <= v + 1 /\ skip = v - t1 + 1
  BY <1>7, <1>b
<1>9. ASSUME NEW i \in 1 .. skip PROVE c.points[t1 + i - 1] = p.points[i]
  <2> DEFINE n == t1 + i - 1
             k == f + i - 1
  <2>1. n \in 1 .. v /\ k \in f .. l /\ g <= k /\ skip # 0
        /\ s - g + n = k - g + 1 /\ k - f + 1 = i
    BY <1>7, <1>8, <1>b
  <2> HIDE DEF n, k
  <2>2. c.points[n] = q.points[k - g + 1]
    BY <1>3, <2>1 DEF v, s, g
  <2>3. q.points[k - g + 1] = p.points[k - f + 1]
    BY <1>6, <2>1 DEF g, f
  <2> QED
    BY <2>1, <2>2, <2>3 DEF n
<1>10. rest = p.points
  <2>1. /\ t1 \in Nat \ {0} /\ t1 <= Len(c.points) + 1 /\ skip = Len(c.points) - t1 + 1
    BY <1>8 DEF v
  <2>2. SubSeq(c.points, t1, Len(c.points)) \o SubSeq(p.points, skip + 1, Len(p.points))
          = p.points
    <3> DEFINE x == c.points
               y == p.points
    <3>1. /\ x \in Seq(Spots) /\ y \in Seq(Spots) /\ t1 \in Nat \ {0} /\ t1 <= Len(x) + 1
          /\ skip \in Nat /\ skip <= Len(y) /\ skip = Len(x) - t1 + 1
          /\ \A i \in 1 .. skip : x[t1 + i - 1] = y[i]
      BY <1>1, <1>3, <1>9, <2>1
    <3> HIDE DEF x, y
    <3>2. SubSeq(x, t1, Len(x)) \o SubSeq(y, skip + 1, Len(y)) = y
      BY <3>1, Joined
    <3> QED
      BY <3>2 DEF x, y
  <2> QED
    BY <2>2 DEF t1
<1> HIDE DEF rest, trimmed
<1>11. d.id = p.id /\ d.start = p.first /\ d.points = p.points /\ d \in Copies
  <2>1. c = [id |-> c.id, start |-> c.start, points |-> c.points] /\ c.id \in Ids
    BY DEF Copies
  <2>2. d = [id |-> c.id, start |-> p.first, points |-> rest]
    <3> HIDE DEF rest
    <3> QED
      BY CopyIs
  <2>3. d = [id |-> p.id, start |-> p.first, points |-> p.points]
    BY <1>3, <1>10, <2>2
  <2>4. p.first \in Int
    BY <1>1
  <2> HIDE DEF d
  <2> QED
    BY <1>1, <1>3, <2>1, <2>3, <2>4 DEF Copies
<1> HIDE DEF d
<1>12. SubSeq(p.points, 1, Len(p.points)) = p.points
  BY <1>1, SubSeqFull
<1>13. p.first - p.first + 1 = 1 /\ p.first <= LastIndex(p) /\ p.first <= p.first
  BY <1>1
<1> QED
  BY <1>5, <1>11, <1>12, <1>13 DEF Draws


\* indices that are not known: what follows the points the card has
LEMMA GenericDraws ==
  ASSUME NEW q, Shaped(q), NEW p, Shaped(p), ~(Whole(p) /\ Whole(q)), p # NoPath, q # NoPath,
         p.id = q.id, Len(q.points) <= Len(p.points),
         SubSeq(p.points, 1, Len(q.points)) = q.points,
         NEW c \in Copies, Draws(c, q), NEW m,
         \/ m = Nothing /\ Len(q.points) = Len(p.points)
         \/ m = Appended(p, None, Len(q.points), Len(q.points)) /\ Continues(c, m)
  PROVE  Applied(c, m) \in Copies /\ Draws(Applied(c, m), p)
<1> DEFINE k == Len(q.points)
<1>1. /\ k \in Nat /\ Len(p.points) \in Nat /\ p.points \in Seq(Spots) /\ q.points \in Seq(Spots)
      /\ p.first # None /\ q.first # None /\ k <= Len(p.points)
  BY CursorIs
<1>2. \A i \in 1 .. k : p.points[i] = q.points[i]
  <2> DEFINE a == SubSeq(p.points, 1, k)
  <2>1. \A i \in 1 .. k : p.points[i] \in Spots
    BY <1>1
  <2>2. 1 \in Int /\ k \in Int
    BY <1>1
  <2>3. \A i \in 1 .. k - 1 + 1 : a[i] = p.points[1 + i - 1]
    BY <2>1, <2>2, SubSeqProperties
  <2>4. a = q.points
    OBVIOUS
  <2> HIDE DEF a
  <2> QED
    BY <1>1, <2>3, <2>4
<1>3. DOMAIN q.points = 1 .. k /\ DOMAIN p.points = 1 .. Len(p.points)
  BY <1>1
<1>4. Whole(p) => Whole(q)
  BY <1>1, <1>2, <1>3 DEF Whole, First
<1>5. ~Whole(p)
  BY <1>4
<1>6. CASE m = Nothing /\ k = Len(p.points)
  <2>1. p.points = q.points
    BY <1>1, <1>6, SubSeqFull
  <2>2. ~Whole(q)
    BY <1>1, <1>5, <2>1 DEF Whole, First
  <2>3. Draws(c, p)
    BY <1>5, <2>1, <2>2 DEF Draws
  <2> QED
    BY <1>6, <2>3, AppliedIs
<1>7. CASE m = Appended(p, None, k, k) /\ Continues(c, m)
  <2>1. c.start = None
    BY <1>7, AppliedIs
  <2>2. ~Whole(q)
    <3> SUFFICES ASSUME Whole(q) PROVE FALSE
      OBVIOUS
    <3>1. c.start \in Nat
      BY DrawnPoints
    <3> QED
      BY <2>1, <3>1 DEF None
  <2>3. c.points = q.points /\ c.id = q.id
    BY <2>2 DEF Draws
  <2> DEFINE rest == SubSeq(c.points, 0 + 1, Len(c.points))
                       \o SubSeq(p.points, k + 1, Len(p.points))
             d == [c EXCEPT !.start = None, !.points = rest]
  <2>4. Applied(c, m) = d
    BY <1>7 DEF Applied, Appended
  <2>5. rest = p.points
    <3> DEFINE x == c.points
               y == p.points
    <3>1. /\ x \in Seq(Spots) /\ y \in Seq(Spots) /\ 1 \in Nat \ {0} /\ 1 <= Len(x) + 1
          /\ k \in Nat /\ k <= Len(y) /\ k = Len(x) - 1 + 1
          /\ \A i \in 1 .. k : x[1 + i - 1] = y[i]
      BY <1>1, <1>2, <2>3
    <3> HIDE DEF x, y, k
    <3>2. SubSeq(x, 1, Len(x)) \o SubSeq(y, k + 1, Len(y)) = y
      BY <3>1, Joined
    <3>3. 0 + 1 = 1
      OBVIOUS
    <3> QED
      BY <3>2, <3>3 DEF x, y, k
  <2> HIDE DEF rest
  <2>6. d = [id |-> c.id, start |-> None, points |-> rest]
    BY CopyIs
  <2>7. d = [id |-> p.id, start |-> None, points |-> p.points]
    BY <2>3, <2>5, <2>6
  <2>8. c.id \in Ids /\ None \in Int
    BY DEF Copies, None
  <2> HIDE DEF d
  <2>9. d \in Copies /\ d.id = p.id /\ d.start = None /\ d.points = p.points
    BY <1>1, <2>3, <2>7, <2>8 DEF Copies
  <2> QED
    BY <1>5, <2>4, <2>9 DEF Draws
<1> QED
  BY <1>6, <1>7

LEMMA AppendTyped ==
  ASSUME NEW c \in Copies, NEW p, Shaped(p), NEW start \in Int, NEW from,
         NEW skip \in Nat, skip <= Len(p.points),
         NEW m, m = Appended(p, start, from, skip), Continues(c, m)
  PROVE  Applied(c, m) \in Copies
<1> DEFINE trimmed == IF start = None THEN 0 ELSE start - c.start
           a == SubSeq(c.points, trimmed + 1, Len(c.points))
           b == SubSeq(p.points, skip + 1, Len(p.points))
           d == [c EXCEPT !.start = start, !.points = a \o b]
<1>1. /\ c.id \in Ids /\ c.points \in Seq(Spots) /\ c.start \in Int /\ Len(c.points) \in Nat
      /\ p.points \in Seq(Spots) /\ Len(p.points) \in Nat
  BY DEF Copies, Shaped, AllPaths
<1>2. trimmed \in Nat /\ trimmed <= Len(c.points)
  <2>1. CASE start = None
    BY <1>1, <2>1
  <2>2. CASE start # None
    <3>1. start - c.start \in 0 .. Len(c.points)
      BY <2>2, AppliedIs
    <3> QED
      BY <1>1, <2>2, <3>1
  <2> QED
    BY <2>1, <2>2
<1>3. Applied(c, m) = d
  BY DEF Applied, Appended
<1> HIDE DEF trimmed
<1>4. a \in Seq(Spots)
  <2> DEFINE t == trimmed + 1
  <2>1. t \in Nat \ {0} /\ t <= Len(c.points) + 1
    BY <1>1, <1>2
  <2> HIDE DEF t
  <2>2. SubSeq(c.points, t, Len(c.points)) \in Seq(Spots)
    BY <1>1, <2>1, Slice
  <2> QED
    BY <2>2 DEF t
<1>5. b \in Seq(Spots)
  <2>1. skip + 1 \in Nat \ {0} /\ skip + 1 <= Len(p.points) + 1
    BY <1>1
  <2> QED
    BY <1>1, <2>1, Slice
<1> HIDE DEF a, b
<1>6. d = [id |-> c.id, start |-> start, points |-> a \o b]
  BY CopyIs
<1>7. a \o b \in Seq(Spots)
  BY <1>4, <1>5
<1> HIDE DEF d
<1>8. d \in Copies
  BY <1>1, <1>6, <1>7 DEF Copies
<1> QED
  BY <1>3, <1>8

LEMMA CopyTyped ==
  ASSUME NEW q, Shaped(q), NEW p, Shaped(p), NEW c \in Copies
  PROVE  /\ Applied(c, PathDelta(Cursor(q), p)) \in Copies
         /\ PathDelta(Cursor(q), p).op = "reset" <=> PathDelta(Cursor(q), p) = Reset(p)
<1> DEFINE m == PathDelta(Cursor(q), p)
<1>1. NoCopy \in Copies
  BY DEF NoCopy, Copies, Ids
<1>2. CASE m = Reset(p)
  BY <1>2, ResetDraws, AppliedIs
<1>3. CASE m # Reset(p)
  <2>1. m.op \in {"none", "append"} /\ Applied(c, m) \in Copies
    <3>1. CASE m = Nothing
      BY <3>1, AppliedIs
    <3>2. ASSUME NEW start \in Int, NEW from, NEW skip \in Nat, skip <= Len(p.points),
                 m = Appended(p, start, from, skip)
          PROVE  m.op = "append" /\ Applied(c, m) \in Copies
      <4> HIDE DEF m
      <4>1. m.op = "append" /\ (~Continues(c, m) => Applied(c, m) = NoCopy)
        BY <3>2 DEF Appended, Applied
      <4>2. Continues(c, m) => Applied(c, m) \in Copies
        BY <3>2, AppendTyped
      <4> QED
        BY <1>1, <4>1, <4>2
    <3>3. CASE /\ Whole(p) /\ Whole(q) /\ p.first <= LastIndex(q) /\ LastIndex(q) <= LastIndex(p)
               /\ m = Appended(p, p.first, LastIndex(q) + 1, LastIndex(q) - p.first + 1)
      <4> DEFINE l == LastIndex(q)
                 r == LastIndex(p)
      <4>1. p.first \in Nat /\ Len(p.points) \in Nat /\ r = p.first + Len(p.points) - 1
            /\ q.first \in Nat /\ Len(q.points) \in Nat /\ l = q.first + Len(q.points) - 1
        BY <3>3, WholeFacts
      <4>2. l \in Int /\ p.first <= l /\ l <= r
        BY <3>3, <4>1
      <4> DEFINE f == p.first
                 v == Len(p.points)
                 skip == l - f + 1
      <4> HIDE DEF l, r, f, v
      <4>3. f \in Nat /\ v \in Nat /\ r = f + v - 1 /\ l \in Int /\ f <= l /\ l <= r
        BY <4>1, <4>2 DEF f, v
      <4>4. skip \in Nat /\ skip <= v /\ f \in Int
        BY <4>3
      <4>5. m = Appended(p, f, l + 1, skip)
        BY <3>3 DEF l, f
      <4> HIDE DEF skip, m
      <4>6. m.op = "append" /\ Applied(c, m) \in Copies
        BY <3>2, <4>4, <4>5 DEF v
      <4> QED
        BY <4>6
    <3>4. CASE Whole(p) /\ m = Appended(p, p.first, p.first, 0)
      <4>1. p.first \in Int /\ 0 \in Nat /\ 0 <= Len(p.points)
        BY <3>4, WholeFacts
      <4> QED
        BY <3>2, <3>4, <4>1
    <3>5. CASE Len(q.points) <= Len(p.points)
               /\ m = Appended(p, None, Len(q.points), Len(q.points))
      <4>1. None \in Int /\ Len(q.points) \in Nat
        BY CursorIs DEF None
      <4> QED
        BY <3>2, <3>5, <4>1
    <3> HIDE DEF m
    <3>6. \/ m = Nothing
          \/ /\ Whole(p) /\ Whole(q) /\ p.first <= LastIndex(q) /\ LastIndex(q) <= LastIndex(p)
             /\ m = Appended(p, p.first, LastIndex(q) + 1, LastIndex(q) - p.first + 1)
          \/ Whole(p) /\ m = Appended(p, p.first, p.first, 0)
          \/ Len(q.points) <= Len(p.points)
             /\ m = Appended(p, None, Len(q.points), Len(q.points))
      BY <1>3, DeltaCases DEF m
    <3> QED
      BY <3>1, <3>3, <3>4, <3>5, <3>6
  <2> QED
    BY <1>3, <2>1
<1> QED
  BY <1>2, <1>3


(* A frame brings the copy of one path to the next, or the card sees that it does
   not continue what it has. *)
LEMMA Delivered ==
  ASSUME NEW q, Shaped(q), NEW p, Shaped(p), Agree(q, p), NEW c \in Copies, Draws(c, q),
         NEW m, m = PathDelta(Cursor(q), p), m # Reset(p), ~Mistaken(q, p)
  PROVE  Applied(c, m) = NoCopy \/ Draws(Applied(c, m), p)
<1> DEFINE d == Applied(c, m)
<1>1. p.id = q.id
  BY DeltaCases
<1>n. m = Nothing => d = c
  BY AppliedIs
<1>c. (\E start, from, skip : m = Appended(p, start, from, skip)) /\ ~Continues(c, m) => d = NoCopy
  BY DEF Applied, Appended
<1> HIDE DEF d
<1>2. CASE p = NoPath /\ q = NoPath /\ m = Nothing
  BY <1>n, <1>2 DEF d
<1>3. CASE /\ Whole(p) /\ Whole(q) /\ p.first <= LastIndex(q) /\ LastIndex(q) <= LastIndex(p)
           /\ Signature(p.points[LastIndex(q) - p.first + 1])
                = Signature(q.points[Len(q.points)])
           /\ m = Nothing /\ LastIndex(q) = LastIndex(p) /\ p.first <= q.first
  <2>1. Draws(c, p)
    BY <1>1, <1>3, NothingDraws
  <2> QED
    BY <1>n, <1>3, <2>1 DEF d
<1>4. ASSUME NEW skip \in Nat, skip <= Len(p.points), Whole(p), Whole(q),
             p.first + skip = LastIndex(q) + 1,
             \/ skip = 0
             \/ /\ p.first <= LastIndex(q) /\ LastIndex(q) <= LastIndex(p)
                /\ Signature(p.points[LastIndex(q) - p.first + 1])
                     = Signature(q.points[Len(q.points)]),
             m = Appended(p, p.first, p.first + skip, skip)
      PROVE  d = NoCopy \/ Draws(d, p)
  <2>1. CASE Continues(c, m)
    BY <1>1, <1>4, <2>1, AbsoluteDraws DEF d
  <2>2. CASE ~Continues(c, m)
    BY <1>c, <1>4, <2>2
  <2> QED
    BY <2>1, <2>2
<1>5. CASE /\ Whole(p) /\ Whole(q) /\ p.first <= LastIndex(q) /\ LastIndex(q) <= LastIndex(p)
           /\ Signature(p.points[LastIndex(q) - p.first + 1])
                = Signature(q.points[Len(q.points)])
           /\ m = Appended(p, p.first, LastIndex(q) + 1, LastIndex(q) - p.first + 1)
  <2> DEFINE l == LastIndex(q)
             r == LastIndex(p)
  <2>1. p.first \in Nat /\ Len(p.points) \in Nat /\ r = p.first + Len(p.points) - 1
        /\ q.first \in Nat /\ Len(q.points) \in Nat /\ l = q.first + Len(q.points) - 1
    BY <1>5, WholeFacts
  <2>2. l \in Int /\ p.first <= l /\ l <= r
    BY <1>5, <2>1
  <2> DEFINE f == p.first
             v == Len(p.points)
             skip == l - f + 1
  <2> HIDE DEF l, r, f, v
  <2>3. f \in Nat /\ v \in Nat /\ r = f + v - 1 /\ l \in Int /\ f <= l /\ l <= r
    BY <2>1, <2>2 DEF f, v
  <2>4. skip \in Nat /\ skip <= v /\ f + skip = l + 1
    BY <2>3
  <2>5. /\ m = Appended(p, f, l + 1, skip) /\ f <= l /\ l <= r
        /\ Signature(p.points[skip]) = Signature(q.points[Len(q.points)])
    BY <1>5 DEF l, f, r
  <2>6. m = Appended(p, f, f + skip, skip)
    BY <2>4, <2>5
  <2>7. /\ p.first + skip = LastIndex(q) + 1 /\ p.first <= LastIndex(q)
        /\ LastIndex(q) <= LastIndex(p) /\ skip <= Len(p.points)
        /\ m = Appended(p, p.first, p.first + skip, skip)
    BY <2>4, <2>5, <2>6 DEF f, l, r, v
  <2> HIDE DEF skip
  <2> QED
    BY <1>4, <1>5, <2>4, <2>7 DEF d
<1>6. CASE Whole(p) /\ Whole(q) /\ p.first = LastIndex(q) + 1 /\ m = Appended(p, p.first, p.first, 0)
  <2>1. p.first \in Nat /\ 0 \in Nat /\ 0 <= Len(p.points) /\ p.first + 0 = p.first
    BY <1>6, WholeFacts
  <2>2. m = Appended(p, p.first, p.first + 0, 0) /\ p.first + 0 = LastIndex(q) + 1
    BY <1>6, <2>1
  <2> QED
    BY <1>4, <1>6, <2>1, <2>2 DEF d
<1>7. CASE /\ ~(Whole(p) /\ Whole(q)) /\ p # NoPath /\ q # NoPath
           /\ Len(q.points) <= Len(p.points)
           /\ Signature(p.points[Len(q.points)]) = Cursor(q).tail
           /\ \/ m = Nothing /\ Len(q.points) = Len(p.points)
              \/ m = Appended(p, None, Len(q.points), Len(q.points))
  <2>1. SubSeq(p.points, 1, Len(q.points)) = q.points
    BY <1>7 DEF Mistaken, Whole
  <2>2. \/ m = Nothing /\ Len(q.points) = Len(p.points)
        \/ m = Appended(p, None, Len(q.points), Len(q.points)) /\ Continues(c, m)
        \/ m = Appended(p, None, Len(q.points), Len(q.points)) /\ ~Continues(c, m)
    BY <1>7
  <2>3. ASSUME \/ m = Nothing /\ Len(q.points) = Len(p.points)
               \/ m = Appended(p, None, Len(q.points), Len(q.points)) /\ Continues(c, m)
        PROVE  Draws(Applied(c, m), p)
    BY <1>1, <1>7, <2>1, <2>3, GenericDraws
  <2>4. d = NoCopy \/ Draws(d, p)
    BY <1>c, <2>2, <2>3 DEF d
  <2> QED
    BY <2>4 DEF d
<1> QED
  BY <1>2, <1>3, <1>5, <1>6, <1>7, DeltaCases

(***************************************************************************)
(* The card draws the path.                                                *)
(***************************************************************************)
CardInv ==
    /\ card \in Copies
    /\ card # NoCopy => cursor = Cursor(published) /\ (alike \/ Draws(card, published))

LEMMA StreamKinds ==
  ASSUME [Next]_vars
  PROVE  \/ UNCHANGED stream \/ Subscribe \/ Resync
         \/ \E p : p = published' /\ Publish(p)
<1>1. CASE NewTask \/ Subscribe \/ Resync \/ UNCHANGED vars
  BY <1>1 DEF NewTask, vars, coordinator
<1>2. CASE FlushLive
  <2>1. Publish(pending) /\ published' = pending
    BY <1>2 DEF FlushLive, Publish
  <2> QED
    BY <2>1
<1>3. ASSUME NEW who, NEW p, Attached(who, p)
      PROVE  UNCHANGED stream \/ \E r : r = published' /\ Publish(r)
  <2>1. UNCHANGED stream \/ (Publish(p) /\ published' = p)
    BY <1>3 DEF Attached, Publish
  <2> QED
    BY <2>1
<1>4. CASE PollAttaches
  <2> DEFINE m == Merged(asm')
  <2>1. UpdateNoGoCheck("poll", m)
    BY <1>4 DEF PollAttaches
  <2> HIDE DEF m
  <2>2. Attached("poll", m) \/ UNCHANGED stream
    BY <2>1 DEF UpdateNoGoCheck
  <2> QED
    BY <1>3, <2>2
<1>5. CASE NoGoChecked
  <2>1. Attached(Head(queue).who, Head(queue).path)
    BY <1>5 DEF NoGoChecked
  <2> QED
    BY <1>3, <2>1
<1>6. ASSUME NEW s \in Sent, PieceArrives(s) PROVE UNCHANGED stream
  <2> DEFINE m == Merged(asm')
  <2>1. UpdateNoGoCheck("live", m)
    BY <1>6 DEF PieceArrives
  <2> HIDE DEF m
  <2> QED
    BY <2>1 DEF UpdateNoGoCheck, Attached
<1>7. ASSUME NEW t, NEW u, PollDownloads(t, u) PROVE UNCHANGED stream
  BY <1>7 DEF PollDownloads
<1> QED
  BY <1>1, <1>2, <1>4, <1>5, <1>6, <1>7 DEF Next

LEMMA PublishedAgrees ==
  ASSUME PathBounds, PathInv, [Next]_vars, PathInv'
  PROVE  Shaped(published) /\ Shaped(published') /\ Agree(published, published')
<1>1. /\ Assembled(asm) /\ Assembled(asm') /\ Later(asm, asm') /\ published \in Paths
  BY AsmStep DEF PathInv, Paths
<1>2. Known(published, asm)
  BY <1>1 DEF PathInv, PathsKnown
<1>3. Known(published', asm')
  BY DEF PathInv, PathsKnown, Paths, Known, AllPaths, Shaped, Fits, Whole, Inner, At, First,
         Spots, Point, Above, LastIndex
<1>4. Shaped(published) /\ Shaped(published')
  BY <1>2, <1>3 DEF Known
<1>5. CASE published' \in Paths
  BY <1>1, <1>4, <1>5 DEF PathInv, PathsKnown
<1>6. CASE published' = Merged(asm')
  <2> DEFINE m == Merged(asm')
  <2>1. Fits(published, asm')
    BY <1>1, <1>2, StillKnown DEF Known
  <2>2. Agree(published, m)
    BY <1>1, <2>1, MergedAgrees
  <2> HIDE DEF m
  <2>3. published' = m
    BY <1>6 DEF m
  <2> QED
    BY <1>4, <2>2, <2>3
<1>7. published' \in Paths \/ published' = Merged(asm')
  <2>1. published \in Paths /\ pending \in Paths
    BY DEF Paths
  <2>2. Checked => published' \in Paths
    <3> SUFFICES ASSUME Checked PROVE published' \in Paths
      OBVIOUS
    <3>1. 1 \in DOMAIN queue /\ Head(queue).path = Waiting(1) /\ Waiting(1) \in Paths
      BY QueueTaken, QueueFacts DEF Checked, PathInv, PathsKnown
    <3> QED
      BY <2>1, <3>1 DEF Checked
  <2> QED
    BY <2>1, <2>2, Kinds DEF Still, Flushed, ByPoll, ByPiece, Queued, Left, Shown
<1> QED
  BY <1>5, <1>6, <1>7

LEMMA CardKept ==
  ASSUME Shaped(published), Shaped(published'), Agree(published, published'), CardInv,
         UNCHANGED stream \/ Subscribe \/ Resync \/ \E p : p = published' /\ Publish(p)
  PROVE  CardInv'
<1> DEFINE q == published
<1>1. CASE UNCHANGED stream
  BY <1>1 DEF stream, CardInv, Draws, Copies, Cursor, Whole, First, LastIndex, Signature, Ids,
              Spots
<1>2. CASE Resync
  <2>1. card' = NoCopy
    BY <1>2 DEF Resync
  <2> QED
    BY <2>1 DEF CardInv, NoCopy, Copies, Ids
<1>3. CASE Subscribe
  <2>1. /\ published' = published /\ cursor' = Cursor(published)
        /\ card' = Applied(NoCopy, Reset(published))
    BY <1>3 DEF Subscribe
  <2>2. card' \in Copies /\ Draws(card', published)
    BY <2>1, ResetDraws
  <2> QED
    BY <2>1, <2>2 DEF CardInv
<1>4. ASSUME NEW p, p = published', Publish(p) PROVE CardInv'
  <2> DEFINE m == PathDelta(cursor, p)
  <2>1. CASE card = NoCopy
    <3>1. card' = NoCopy
      BY <1>4, <2>1 DEF Publish
    <3> QED
      BY <3>1 DEF CardInv, NoCopy, Copies, Ids
  <2>2. CASE card # NoCopy
    <3>1. /\ cursor = Cursor(q) /\ (alike \/ Draws(card, q)) /\ card \in Copies
      BY <2>2 DEF CardInv
    <3>2. /\ cursor' = Cursor(p) /\ card' = Applied(card, m)
          /\ alike' = (/\ card' # NoCopy /\ m.op # "reset"
                       /\ \/ alike
                          \/ /\ First(p) = None \/ cursor.first = None
                             /\ SubSeq(p.points, 1, cursor.length) # published.points
                             /\ Signature(p.points[cursor.length]) = cursor.tail)
      BY <1>4, <2>2 DEF Publish
    <3>3. Shaped(p) /\ Agree(q, p) /\ Shaped(q)
      BY <1>4
    <3>4. m = PathDelta(Cursor(q), p)
      BY <3>1
    <3>5. Cursor(q).length = Len(q.points) /\ Cursor(q).first = First(q)
      BY <3>3, CursorIs
    <3> HIDE DEF m, q
    <3>6. card' \in Copies /\ (m.op = "reset" <=> m = Reset(p))
      BY <3>1, <3>2, <3>3, <3>4, CopyTyped
    <3>7. card' # NoCopy => alike' \/ Draws(card', p)
      <4>1. CASE m = Reset(p)
        BY <3>2, <3>3, <4>1, ResetDraws
      <4>2. CASE m # Reset(p) /\ (alike \/ Mistaken(q, p))
        BY <3>1, <3>2, <3>5, <3>6, <4>2 DEF Mistaken, q
      <4>3. CASE m # Reset(p) /\ ~alike /\ ~Mistaken(q, p)
        BY <3>1, <3>2, <3>3, <3>4, <4>3, Delivered
      <4> QED
        BY <4>1, <4>2, <4>3
    <3> QED
      BY <1>4, <3>2, <3>6, <3>7 DEF CardInv
  <2> QED
    BY <2>1, <2>2
<1> QED
  BY <1>1, <1>2, <1>3, <1>4

(* The card draws the published path. *)
THEOREM CardIsFaithful == Spec => []CardDrawsThePath
<1> USE LivePathAssumption
<1>1. Init => CardInv
  BY DEF Init, CardInv, NoCopy, Copies, Ids
<1>2. PathInv /\ PathInv' /\ CardInv /\ [Next]_vars => CardInv'
  BY StreamKinds, PublishedAgrees, CardKept
<1>3. PathInv /\ CardInv => CardDrawsThePath
  <2> SUFFICES ASSUME PathInv, CardInv, card # NoCopy, ~alike
               PROVE  \/ card.id = published.id /\ card.points = published.points
                      \/ /\ card.start # None /\ card.start > published.first
                         /\ card.points = SubSeq(published.points,
                              card.start - published.first + 1, Len(published.points))
    BY DEF CardDrawsThePath
  <2>1. Draws(card, published) /\ card \in Copies
    BY DEF CardInv
  <2>2. CASE ~Whole(published)
    BY <2>1, <2>2 DEF Draws
  <2>3. CASE Whole(published)
    <3>1. Shaped(published)
      BY DEF PathInv, PathsKnown, Known, Paths
    <3>2. published.first \in Nat /\ published.points \in Seq(Spots)
      BY <2>3, <3>1, WholeFacts
    <3>3. /\ card.id = published.id /\ published.first <= card.start /\ card.start \in Int
          /\ card.points = SubSeq(published.points, card.start - published.first + 1,
                                  Len(published.points))
      BY <2>1, <2>3 DEF Draws, Copies
    <3>4. CASE card.start = published.first
      <4>1. card.start - published.first + 1 = 1
        BY <3>2, <3>4
      <4>2. card.points = SubSeq(published.points, 1, Len(published.points))
        BY <3>3, <4>1
      <4> QED
        BY <3>2, <3>3, <4>2, SubSeqFull
    <3>5. CASE card.start # published.first
      <4>1. card.start > published.first /\ card.start # None
        BY <3>2, <3>3, <3>5 DEF None
      <4> QED
        BY <3>3, <4>1
    <3> QED
      BY <3>4, <3>5
  <2> QED
    BY <2>2, <2>3
<1>4. Spec => []PathInv
  BY PathInvariant
<1> QED
  BY <1>1, <1>2, <1>3, <1>4, PTL DEF Spec

=============================================================================
