------------------------- MODULE TasksProofs -------------------------
(***************************************************************************)
(* What TLAPS proves of the tasks that run beside the stream.             *)
(*   LivePosition, for any poses, maps, bounds of a map and limits of age: *)
(* the types, that a card shows the mower's map as soon as somebody has    *)
(* looked, and that an old pose is only shown of a mower that stands.      *)
(*   BatterySaver, for any length of the guard, any charge limit and any   *)
(* number of changes, calls, failures and restarts: the types, that a      *)
(* charger whose saver is off has power, and that a mower is pulsed awake  *)
(* in time.                                                                *)
(*   GenieLivePath, for any number of paths, polls, faults and tasks: the  *)
(* types, and that the path that is shown does not flash.                  *)
(***************************************************************************)
EXTENDS TaskParts, TLAPS

(***************************************************************************)
(* What the hub notes, and what a card is told of it.                      *)
(***************************************************************************)

Hubs == [seen : Poses, map : Maps, observed : BOOLEAN, last : Records, dock : Records]

(* 0 and the pose of a record tell the empty record from the others. *)
LEMMA RecordFacts ==
  /\ \A r \in Records : r # NoRecord =>
       r \in [pose : Poses, map : Maps, at : Nat, age : 0 .. DockAge + 1]
  /\ \A r \in Records : /\ r.at \in Nat /\ r.age \in Nat
                        /\ r.pose \in Poses \cup {0} /\ r.map \in Maps \cup {0}
  /\ NoRecord \in Records
  /\ \A r \in Records : r.map \in Maps => r # NoRecord
BY PositionAssumption DEF Records, NoRecord

(* A look notes the pose and the map it sees; the time it gives a new pose is
   later than all before, and a pose it has seen keeps its time. *)
LEMMA LookNotes ==
  ASSUME NEW h \in Hubs, NEW s \in States,
         h.observed => h.last # NoRecord
  PROVE  /\ Observed(h, s) \in Hubs
         /\ Observed(h, s).seen = s.pose /\ Observed(h, s).map = s.map
         /\ Observed(h, s).observed => Observed(h, s).last # NoRecord
         /\ Observed(h, s).last.at >= h.last.at
         /\ s.pose = h.seen => /\ Observed(h, s).observed = h.observed
                               /\ Observed(h, s).last = h.last
         /\ s.pose # h.seen /\ Observed(h, s).observed =>
              Observed(h, s).last.at > h.last.at /\ Observed(h, s).last.age = 0
<1> DEFINE n == Noted(h, s)
           noted  == [h EXCEPT !.observed = TRUE, !.last = n]
           learnt == IF s.activity = "docked" THEN [noted EXCEPT !.dock = n] ELSE noted
           next   == IF s.pose = h.seen THEN h
                     ELSE IF Valid(s) THEN learnt ELSE [h EXCEPT !.observed = FALSE]
<1>1. h.last.at \in Nat
  BY RecordFacts DEF Hubs
<1>2. n \in Records /\ n # NoRecord /\ n.at = h.last.at + 1 /\ n.age = 0
  BY <1>1, PositionAssumption DEF Noted, Records, NoRecord, States
<1> HIDE DEF n
<1>3. noted \in Hubs /\ learnt \in Hubs /\ learnt.last = n /\ learnt.observed = TRUE
  BY <1>2 DEF Hubs
<1>4. next \in Hubs
  BY <1>3 DEF Hubs
<1>5. /\ s.pose = h.seen => next = h
      /\ s.pose # h.seen => \/ next.last = n /\ next.observed = TRUE
                            \/ next.last = h.last /\ next.observed = FALSE
  BY <1>3 DEF Hubs
<1> HIDE DEF next
<1>6. Observed(h, s) = [next EXCEPT !.seen = s.pose, !.map = s.map]
  BY DEF Observed, next, n
<1>7. /\ Observed(h, s) \in Hubs
      /\ Observed(h, s).seen = s.pose /\ Observed(h, s).map = s.map
      /\ Observed(h, s).last = next.last /\ Observed(h, s).observed = next.observed
  BY <1>4, <1>6 DEF Hubs, States
<1> QED
  BY <1>1, <1>2, <1>5, <1>7

LEMMA ScopedFacts ==
  ASSUME NEW r \in Records, NEW m, NEW limit
  PROVE  /\ Scoped(r, m, limit) \in Records
         /\ Scoped(r, m, limit) # NoRecord => Scoped(r, m, limit) = r
BY RecordFacts DEF Scoped

(* What a card is told: its status is old only if the hub has a time, which it
   is told too. *)
LEMMA ToldFacts ==
  ASSUME NEW h \in Hubs, NEW s \in States
  PROVE  /\ Attributes(h, s) \in Told
         /\ Attributes(h, s).map = h.map
         /\ Attributes(h, s).observed = IF h.observed THEN h.last.at ELSE 0
         /\ Attributes(h, s).status \in {"stale", "last_known", "known_dock"} =>
              h.observed /\ h.last.age > PositionAge
<1> DEFINE dock   == Scoped(h.dock, h.map, DockAge)
           last   == Scoped(h.last, h.map, LastAge)
           stands == IF Status(h, s) = "stale" THEN Stands(h, s) ELSE NoRecord
<1>1. /\ h.last \in Records /\ h.dock \in Records /\ h.map \in Maps
      /\ h.observed \in BOOLEAN
  BY DEF Hubs
<1>2. dock \in Records /\ last \in Records
  BY <1>1, ScopedFacts
<1>3. Stands(h, s) \in {NoRecord, dock, last}
  BY DEF Stands
<1>4. stands \in Records
  BY <1>2, <1>3, RecordFacts
<1>5. /\ Status(h, s) \in {"unavailable", "map_mismatch", "stale", "current"}
      /\ Status(h, s) = "stale" => h.observed /\ h.last.age > PositionAge
  BY <1>1 DEF Status
<1>6. /\ last.at \in Nat /\ dock.at \in Nat /\ h.last.at \in Nat
      /\ stands.pose \in Poses \cup {0}
  BY <1>1, <1>2, <1>4, RecordFacts
<1>7. stands # NoRecord => Status(h, s) = "stale"
  OBVIOUS
<1> HIDE DEF dock, last, stands
<1>8. Attributes(h, s) =
        [status   |-> IF stands = NoRecord THEN Status(h, s)
                      ELSE IF stands = dock /\ s.activity = "docked" THEN "known_dock"
                      ELSE "last_known",
         observed |-> IF h.observed THEN h.last.at ELSE 0,
         map      |-> h.map,
         last     |-> last.at,
         dock     |-> dock.at,
         pose     |-> stands.pose]
  BY DEF Attributes, dock, last, stands
<1>9. Attributes(h, s).status \in {Status(h, s), "known_dock", "last_known"}
  BY <1>8
<1>10. stands = NoRecord => Attributes(h, s).status = Status(h, s)
  BY <1>8
<1>11. Attributes(h, s) \in Told
  BY <1>1, <1>5, <1>6, <1>8, <1>9 DEF Told
<1> QED
  BY <1>5, <1>7, <1>8, <1>9, <1>10, <1>11

(***************************************************************************)
(* Types.                                                                  *)
(***************************************************************************)

LEMMA HubTypes ==
  ASSUME TypeOK
  PROVE  hub \in Hubs /\ (hub.observed => hub.last # NoRecord) /\ mower \in States
BY DEF TypeOK, Hubs

LEMMA CursorTypes ==
  ASSUME NEW s \in States
  PROVE  CursorOf(s) \in [pose : Poses, map : Maps]
BY DEF CursorOf, States

LEMMA CardTypes ==
  ASSUME NEW k \in [pose : Poses \cup {0}, map : Maps]
  PROVE  /\ \A s \in States : Advanced(k, s) \in [pose : Poses \cup {0}, map : Maps]
         /\ \A a \in Told : Updated(k, a) \in [pose : Poses \cup {0}, map : Maps]
BY DEF Advanced, Updated, States, Told

LEMMA TypeInit == ASSUME Init PROVE TypeOK
<1> DEFINE n == [pose |-> mower.pose, map |-> mower.map, at |-> 1, age |-> 0]
           h == [seen |-> mower.pose, map |-> mower.map, observed |-> FALSE,
                 last |-> NoRecord, dock |-> NoRecord]
<1>1. mower \in States /\ NoRecord \in Records
  BY RecordFacts DEF Init, States
<1>2. n \in Records /\ n # NoRecord
  BY <1>1, PositionAssumption DEF States, Records, NoRecord
<1>3. h \in Hubs
  BY <1>1 DEF States, Hubs
<1>4. Noted(h, mower) = n
  BY DEF Noted, NoRecord
<1> HIDE DEF n
<1>5. hub \in Hubs /\ (hub.observed => hub.last # NoRecord)
  BY <1>2, <1>3, <1>4 DEF Init, Hubs
<1> QED
  BY <1>1, <1>5 DEF Init, TypeOK, Hubs, Idle

(* The part of the types that a look can disturb. *)
LEMMA LookTypes ==
  ASSUME TypeOK, NEW s \in States, Look(s)
  PROVE  /\ hub' \in Hubs /\ (hub'.observed => hub'.last # NoRecord)
         /\ phase' = phase /\ built' = built
         /\ looked' \in BOOLEAN /\ (looked' => phase = "ready")
         /\ phase # "ready" => UNCHANGED <<cursor, told, worker, card>>
         /\ phase = "ready" => /\ cursor' \in [pose : Poses, map : Maps]
                               /\ told' \in [attributes : Told, geometry : Maps]
                               /\ worker' \in {worker, Idle}
                               /\ card' \in [pose : Poses \cup {0}, map : Maps]
<1>1. hub' \in Hubs /\ (hub'.observed => hub'.last # NoRecord)
  BY HubTypes, LookNotes DEF Look
<1>2. phase' = phase /\ built' = built
  BY DEF Look
<1>3. CASE phase # "ready"
  BY <1>1, <1>2, <1>3 DEF Look, TypeOK
<1>4. CASE phase = "ready"
  <2>1. SendCurrentDelta(hub', s)
    BY <1>4 DEF Look
  <2>2. Attributes(hub', s) \in Told /\ hub'.map \in Maps
    BY <1>1, ToldFacts DEF Hubs
  <2>3. card \in [pose : Poses \cup {0}, map : Maps]
    BY <1>4 DEF TypeOK
  <2>4. Advanced(card, s) \in [pose : Poses \cup {0}, map : Maps]
    BY <2>3, CardTypes
  <2>5. Updated(Advanced(card, s), Attributes(hub', s))
          \in [pose : Poses \cup {0}, map : Maps]
    BY <2>2, <2>4, CardTypes
  <2>6. card' \in [pose : Poses \cup {0}, map : Maps]
    BY <2>1, <2>4, <2>5 DEF SendCurrentDelta, States
  <2> QED
    BY <1>1, <1>2, <1>4, <2>1, <2>2, <2>6, CursorTypes DEF SendCurrentDelta
<1> QED
  BY <1>3, <1>4

LEMMA TypeStep == ASSUME TypeOK, [Next]_vars PROVE TypeOK'
<1>1. ASSUME NEW s \in States, Look(s), mower' = s, due' \in BOOLEAN
      PROVE  TypeOK'
  <2>1. hub' \in Hubs /\ (hub'.observed => hub'.last # NoRecord) /\ phase' = phase
        /\ built' = built /\ looked' \in BOOLEAN /\ (looked' => phase = "ready")
    BY <1>1, LookTypes
  <2>2. CASE phase # "ready"
    BY <1>1, <2>1, <2>2, LookTypes DEF TypeOK, Hubs
  <2>3. CASE phase = "ready"
    BY <1>1, <2>1, <2>3, LookTypes DEF TypeOK, Hubs, Idle
  <2> QED
    BY <2>2, <2>3
<1>2. CASE Report
  BY <1>1, <1>2 DEF Report, States, TypeOK
<1>3. CASE Heartbeat
  BY <1>1, <1>3 DEF Heartbeat, TypeOK
<1>4. CASE Time
  <2>1. \A r \in Records : Older(r) \in Records /\ (r # NoRecord => Older(r) # NoRecord)
    BY PositionAssumption DEF Older, Records, NoRecord
  <2>2. hub' \in Hubs /\ (hub'.observed => hub'.last # NoRecord)
    BY <1>4, <2>1, HubTypes DEF Time, Hubs
  <2> QED
    BY <1>4, <2>2 DEF Time, TypeOK, Hubs, subscriberVars
<1>5. CASE Open
  <2>1. hub' \in Hubs /\ (hub'.observed => hub'.last # NoRecord)
    BY <1>5, HubTypes, LookNotes DEF Open
  <2> QED
    BY <1>5, <2>1 DEF Open, TypeOK, Hubs
<1>6. CASE SnapshotIsBuilt
  <2>1. Attributes(hub, built) \in Told /\ built.map \in Maps
    BY <1>6, HubTypes, ToldFacts DEF SnapshotIsBuilt, TypeOK, States
  <2> QED
    BY <1>6, <2>1 DEF SnapshotIsBuilt, TypeOK
<1>7. CASE Activate
  <2>1. built \in States /\ told.attributes \in Told
    BY <1>7 DEF Activate, TypeOK
  <2>2. CursorOf(built) \in [pose : Poses \cup {0}, map : Maps]
    BY <2>1, CursorTypes
  <2>3. card' \in [pose : Poses \cup {0}, map : Maps]
    BY <1>7, <2>1, <2>2, CardTypes DEF Activate
  <2> QED
    BY <1>7, <2>1, <2>3, CursorTypes DEF Activate, TypeOK, Idle
<1>8. CASE CatchUpStarts
  BY <1>8 DEF CatchUpStarts, TypeOK
<1>9. CASE CatchUpEnds
  <2>1. phase = "ready" /\ worker.state \in States
    BY <1>9 DEF CatchUpEnds, TypeOK
  <2>2. card' \in [pose : Poses \cup {0}, map : Maps]
    BY <1>9, <2>1, CardTypes DEF CatchUpEnds, TypeOK
  <2> QED
    BY <1>9, <2>1, <2>2, CursorTypes DEF CatchUpEnds, TypeOK, Idle
<1>10. CASE Close
  BY <1>10 DEF Close, TypeOK, Idle
<1>11. CASE UNCHANGED vars
  BY <1>11 DEF vars, subscriberVars, TypeOK
<1> QED
  BY <1>2, <1>3, <1>4, <1>5, <1>6, <1>7, <1>8, <1>9, <1>10, <1>11 DEF Next

(* What every variable may hold, at each stage of a subscription; the hub has a
   record whenever it has a time. *)
THEOREM TypeCorrect == Spec => []TypeOK
<1>1. Init => TypeOK
  BY TypeInit
<1>2. TypeOK /\ [Next]_vars => TypeOK'
  BY TypeStep
<1> QED
  BY <1>1, <1>2, PTL DEF Spec

(***************************************************************************)
(* The map.                                                                *)
(***************************************************************************)

LEMMA HubStep ==
  ASSUME TypeOK, HubInv, [Next]_vars
  PROVE  HubInv'
<1>1. ASSUME NEW s \in States, Look(s), mower' = s PROVE HubInv'
  BY <1>1, HubTypes, LookNotes DEF Look, HubInv
<1>2. CASE Report
  BY <1>1, <1>2 DEF Report, States
<1>3. CASE Heartbeat
  BY <1>1, <1>3, HubTypes DEF Heartbeat
<1>4. CASE Time
  BY <1>4, HubTypes DEF Time, HubInv, subscriberVars, Hubs
<1>5. CASE Open
  BY <1>5, HubTypes, LookNotes DEF Open, HubInv
<1>6. CASE SnapshotIsBuilt \/ Activate \/ CatchUpStarts \/ CatchUpEnds \/ Close
           \/ UNCHANGED vars
  BY <1>6 DEF SnapshotIsBuilt, Activate, CatchUpStarts, CatchUpEnds, Close, vars,
    subscriberVars, HubInv
<1> QED
  BY <1>2, <1>3, <1>4, <1>5, <1>6 DEF Next

(* What a look sends to a card that is open: its map is then the mower's. *)
LEMMA LookSendsMap ==
  ASSUME TypeOK, MapInv, NEW s \in States, Look(s), phase = "ready"
  PROVE  /\ card'.map = s.map /\ cursor'.map = s.map /\ told'.geometry = s.map
         /\ worker'.stage # "building"
<1>1. SendCurrentDelta(hub', s) /\ hub'.map = s.map
  BY HubTypes, LookNotes DEF Look
<1>2. told'.geometry = s.map /\ cursor'.map = s.map /\ worker'.stage # "building"
  BY <1>1 DEF SendCurrentDelta, CursorOf, Idle
<1>3. card \in [pose : Poses \cup {0}, map : Maps]
  BY DEF TypeOK
<1>4. card.map = told.geometry \/ Coarse[told.geometry] # Coarse[cursor.map]
  BY DEF MapInv
<1>5. /\ Advanced(card, s).map = IF Coarse[s.map] # Coarse[cursor.map] THEN s.map
                                ELSE card.map
      /\ Advanced(card, s) \in [pose : Poses \cup {0}, map : Maps]
  BY <1>3, CardTypes DEF Advanced
<1>6. told.geometry = s.map => Advanced(card, s).map = s.map
  BY <1>4, <1>5
<1>7. Updated(Advanced(card, s), Attributes(hub', s)).map = Advanced(card, s).map
      /\ Updated(Advanced(card, s), Attributes(hub', s)) \in
           [pose : Poses \cup {0}, map : Maps]
  <2>1. Attributes(hub', s) \in Told
    BY LookTypes, ToldFacts
  <2> QED
    BY <1>5, <2>1, CardTypes DEF Updated
<1>8. CASE [attributes |-> Attributes(hub', s), geometry |-> hub'.map] = told
  BY <1>1, <1>2, <1>6, <1>8 DEF SendCurrentDelta
<1>9. CASE [attributes |-> Attributes(hub', s), geometry |-> hub'.map] # told
  <2>1. card'.map = IF hub'.map # told.geometry THEN s.map ELSE Advanced(card, s).map
    BY <1>1, <1>7, <1>9 DEF SendCurrentDelta
  <2> QED
    BY <1>1, <1>2, <1>6, <2>1
<1> QED
  BY <1>2, <1>8, <1>9

LEMMA MapStep ==
  ASSUME TypeOK, MapInv, [Next]_vars
  PROVE  MapInv'
<1>1. ASSUME NEW s \in States, Look(s), mower' = s PROVE MapInv'
  <2>1. phase' = phase /\ built' = built
    BY <1>1, LookTypes
  <2>2. CASE phase = "ready"
    BY <1>1, <2>1, <2>2, LookSendsMap DEF MapInv
  <2>3. CASE phase # "ready"
    <3>1. UNCHANGED <<cursor, told, worker, card, looked>>
      BY <1>1, <2>3 DEF Look
    <3>2. ~looked
      BY <2>3 DEF TypeOK
    <3> QED
      BY <2>1, <2>3, <3>1, <3>2 DEF MapInv
  <2> QED
    BY <2>2, <2>3
<1>2. CASE Report
  BY <1>1, <1>2 DEF Report, States
<1>3. CASE Heartbeat
  BY <1>1, <1>3, HubTypes DEF Heartbeat
<1>4. CASE Time \/ Open \/ UNCHANGED vars
  BY <1>4 DEF Time, Open, vars, subscriberVars, MapInv, TypeOK
<1>5. CASE SnapshotIsBuilt
  BY <1>5 DEF SnapshotIsBuilt, MapInv, TypeOK
<1>6. CASE Activate
  <2>1. card'.map = built.map /\ cursor'.map = built.map
    <3>1. built \in States /\ told.attributes \in Told
      BY <1>6 DEF Activate, TypeOK
    <3>2. CursorOf(built) = [pose |-> built.pose, map |-> built.map]
      BY DEF CursorOf
    <3> QED
      BY <1>6, <3>1, <3>2 DEF Activate, Updated
  <2> QED
    BY <1>6, <2>1 DEF Activate, MapInv, TypeOK
<1>7. CASE CatchUpStarts
  BY <1>7 DEF CatchUpStarts, MapInv
<1>8. CASE CatchUpEnds
  <2>1. /\ phase = "ready" /\ worker.state \in States
        /\ card \in [pose : Poses \cup {0}, map : Maps]
    BY <1>8 DEF CatchUpEnds, TypeOK
  <2>2. card'.map = IF Coarse[worker.state.map] # Coarse[cursor.map] THEN worker.state.map
                    ELSE card.map
    BY <1>8, <2>1 DEF CatchUpEnds, Advanced
  <2>3. cursor'.map = worker.state.map
    BY <1>8 DEF CatchUpEnds, CursorOf
  <2> QED
    BY <1>8, <2>1, <2>2, <2>3 DEF CatchUpEnds, MapInv, Idle
<1>9. CASE Close
  BY <1>9 DEF Close, MapInv, Idle
<1> QED
  BY <1>2, <1>3, <1>4, <1>5, <1>6, <1>7, <1>8, <1>9 DEF Next

(* A card shows the mower's map as soon as the hub has looked since it was opened,
   whatever a cursor can tell of two geometries: also when the map was saved
   while its snapshot or a delta was being built. *)
THEOREM MapShown == Spec => []MapIsShown
<1>1. Init => MapInv
  BY DEF Init, MapInv, Idle
<1>2. TypeOK /\ MapInv /\ [Next]_vars => MapInv'
  BY MapStep
<1>3. MapInv => MapIsShown
  BY DEF MapInv, MapIsShown
<1> QED
  BY <1>1, <1>2, <1>3, TypeCorrect, PTL DEF Spec

(***************************************************************************)
(* Old poses.                                                              *)
(***************************************************************************)

Old == {"stale", "last_known", "known_dock"}

(* A look at an open card that tells of an old pose has found it unchanged: the
   card is at the pose it is told. *)
LEMMA LookSendsOld ==
  ASSUME TypeOK, HubInv, OldInv, NEW s \in States, Look(s),
         phase = "ready"
  PROVE  /\ told'.attributes = Attributes(hub', s) /\ cursor'.pose = s.pose
         /\ worker'.stage # "building"
         /\ told'.attributes.observed <= hub'.last.at
         /\ told'.attributes.status \in Old => card'.pose = told'.attributes.pose
<1> DEFINE a == Attributes(hub', s)
<1>1. SendCurrentDelta(hub', s) /\ hub' = Observed(hub, s) /\ hub' \in Hubs
  BY HubTypes, LookNotes DEF Look
<1>2. told' = [attributes |-> a, geometry |-> hub'.map] /\ cursor'.pose = s.pose
      /\ worker'.stage # "building"
  BY <1>1 DEF SendCurrentDelta, CursorOf, Idle
<1>3. a \in Told /\ a.observed = (IF hub'.observed THEN hub'.last.at ELSE 0)
      /\ (a.status \in Old => hub'.observed)
  BY <1>1, ToldFacts DEF Old
<1>4. hub'.last.at \in Nat
  BY <1>1, RecordFacts DEF Hubs
<1> HIDE DEF a
<1>5. told'.attributes.observed <= hub'.last.at
  BY <1>2, <1>3, <1>4
<1>6. /\ card \in [pose : Poses \cup {0}, map : Maps]
      /\ Advanced(card, s) \in [pose : Poses \cup {0}, map : Maps]
      /\ Advanced(card, s).pose = IF s.pose # cursor.pose THEN s.pose ELSE card.pose
  <2>1. card \in [pose : Poses \cup {0}, map : Maps]
    BY DEF TypeOK
  <2> QED
    BY <2>1, CardTypes DEF Advanced
<1>7. ASSUME a.status \in Old PROVE card'.pose = a.pose
  <2>1. CASE [attributes |-> a, geometry |-> hub'.map] = told
    <3>1. told.attributes = a /\ hub'.observed /\ a.observed = hub'.last.at
      BY <1>3, <1>7, <2>1
    <3>2. a.observed <= hub.last.at /\ hub.last.at \in Nat
      BY <3>1, HubTypes, RecordFacts DEF OldInv, Hubs
    <3>3. s.pose = hub.seen
      BY <1>1, <1>4, <3>1, <3>2, HubTypes, LookNotes
    <3>4. hub.observed /\ hub.last = hub'.last
      BY <1>1, <3>1, <3>3, HubTypes, LookNotes
    <3>5. TellsOld
      BY <1>7, <3>1, <3>4 DEF TellsOld, Old
    <3>6. cursor.pose = mower.pose /\ card.pose = a.pose /\ mower.pose = s.pose
      BY <3>1, <3>3, <3>5 DEF OldInv, HubInv
    <3>7. card' = Advanced(card, s)
      BY <1>1, <2>1 DEF SendCurrentDelta, a
    <3> QED
      BY <1>6, <3>6, <3>7
  <2>2. CASE [attributes |-> a, geometry |-> hub'.map] # told
    <3>1. card' = [Updated(Advanced(card, s), a) EXCEPT
                     !.map = IF hub'.map # told.geometry THEN s.map ELSE @]
      BY <1>1, <2>2 DEF SendCurrentDelta, a
    <3>2. Updated(Advanced(card, s), a).pose = a.pose
          /\ Updated(Advanced(card, s), a) \in [pose : Poses \cup {0}, map : Maps]
      BY <1>3, <1>6, <1>7, CardTypes DEF Updated, Old
    <3> QED
      BY <3>1, <3>2
  <2> QED
    BY <2>1, <2>2
<1> QED
  BY <1>2, <1>5, <1>7 DEF a

LEMMA OldStep ==
  ASSUME TypeOK, HubInv, OldInv, [Next]_vars
  PROVE  OldInv'
<1>1. ASSUME NEW s \in States, Look(s), mower' = s PROVE OldInv'
  <2>1. phase' = phase /\ built' = built
    BY <1>1, LookTypes
  <2>2. CASE phase = "ready"
    <3>1. /\ told'.attributes = Attributes(hub', s) /\ cursor'.pose = s.pose
          /\ worker'.stage # "building"
          /\ told'.attributes.observed <= hub'.last.at
          /\ told'.attributes.status \in Old => card'.pose = told'.attributes.pose
      BY <1>1, <2>2, LookSendsOld
    <3> QED
      BY <1>1, <2>1, <2>2, <3>1 DEF OldInv, TellsOld, Old, Settled
  <2>3. CASE phase # "ready"
    <3>1. UNCHANGED <<cursor, told, worker, card, looked>> /\ ~looked
      BY <1>1, <2>3 DEF Look, TypeOK
    <3>2. CASE phase = "none"
      BY <2>1, <3>1, <3>2 DEF OldInv, Settled
    <3>3. CASE phase \in {"building", "built"}
      <4>1. hub' = Observed(hub, s) /\ hub.seen = mower.pose
        BY <1>1, <2>3, <3>3 DEF Look, HubInv
      <4>2. /\ hub.last.at \in Nat /\ hub'.last.at \in Nat /\ hub'.last.at >= hub.last.at
            /\ s.pose = mower.pose => hub'.observed = hub.observed /\ hub'.last = hub.last
            /\ s.pose # mower.pose /\ hub'.observed =>
                 hub'.last.at > hub.last.at /\ hub'.last.age = 0
        BY <4>1, HubTypes, LookNotes, RecordFacts DEF Hubs
      <4>3. PositionAge \in Nat
        BY PositionAssumption
      <4>4. phase = "built" => told.attributes.observed \in Nat
        BY DEF TypeOK, Told
      <4>5. CASE s.pose = mower.pose
        BY <1>1, <2>1, <2>3, <3>1, <4>2, <4>5 DEF OldInv, TellsOld, Settled
      <4>6. CASE s.pose # mower.pose
        <5>1. ~(hub'.observed /\ hub'.last.age > PositionAge)
          BY <4>2, <4>3, <4>6
        <5>2. CASE phase = "building"
          BY <2>1, <3>1, <5>1, <5>2 DEF OldInv, Settled
        <5>3. CASE phase = "built"
          <6>1. told'.attributes.observed <= hub'.last.at /\ ~TellsOld'
            BY <3>1, <4>2, <4>4, <4>6, <5>3 DEF OldInv, TellsOld
          <6> QED
            BY <2>1, <3>1, <5>3, <6>1 DEF OldInv, Settled
        <5> QED
          BY <3>3, <5>2, <5>3
      <4> QED
        BY <4>5, <4>6
    <3> QED
      BY <2>3, <3>2, <3>3 DEF TypeOK
  <2> QED
    BY <2>2, <2>3
<1>2. CASE Report
  BY <1>1, <1>2 DEF Report, States
<1>3. CASE Heartbeat
  BY <1>1, <1>3, HubTypes DEF Heartbeat
<1>4. CASE Time
  <2>1. hub'.observed = hub.observed /\ hub'.last.at = hub.last.at
    BY <1>4, HubTypes DEF Time, Older, Hubs, Records, NoRecord
  <2> QED
    BY <1>4, <2>1 DEF Time, OldInv, TellsOld, Settled, subscriberVars
<1>5. CASE Open
  BY <1>5 DEF Open, OldInv, Settled, TypeOK
<1>6. CASE SnapshotIsBuilt
  <2>1. built \in States /\ hub \in Hubs /\ hub.last.at \in Nat
    BY <1>6, HubTypes, RecordFacts DEF SnapshotIsBuilt, TypeOK, Hubs
  <2>2. /\ Attributes(hub, built).observed = IF hub.observed THEN hub.last.at ELSE 0
        /\ Attributes(hub, built).status \in Old =>
              hub.observed /\ hub.last.age > PositionAge
    BY <2>1, ToldFacts DEF Old
  <2>3. told'.attributes = Attributes(hub, built) /\ ~looked
    BY <1>6 DEF SnapshotIsBuilt, TypeOK
  <2>4. told'.attributes.observed <= hub'.last.at
    BY <1>6, <2>1, <2>2, <2>3 DEF SnapshotIsBuilt
  <2>5. TellsOld' => built.pose = mower.pose
    BY <1>6, <2>2, <2>3 DEF SnapshotIsBuilt, TellsOld, Old, OldInv
  <2> QED
    BY <1>6, <2>3, <2>4, <2>5 DEF SnapshotIsBuilt, OldInv, Settled
<1>7. CASE Activate
  <2>1. /\ phase = "built" /\ phase' = "ready" /\ ~looked'
        /\ cursor'.pose = built.pose /\ worker'.stage # "building"
        /\ UNCHANGED <<mower, hub, told>>
    BY <1>7 DEF Activate, CursorOf, Idle, TypeOK
  <2>2. TellsOld => card'.pose = told.attributes.pose
    <3>1. built \in States /\ told.attributes \in Told
      BY <1>7 DEF Activate, TypeOK
    <3> QED
      BY <1>7, <3>1 DEF Activate, Updated, CursorOf, TellsOld
  <2> QED
    BY <2>1, <2>2 DEF OldInv, TellsOld, Settled
<1>8. CASE CatchUpStarts
  BY <1>8 DEF CatchUpStarts, OldInv, TellsOld, Settled
<1>9. CASE CatchUpEnds
  <2>1. card \in [pose : Poses \cup {0}, map : Maps]
    BY <1>9 DEF CatchUpEnds, TypeOK
  <2>2. card'.pose = IF worker.state.pose # cursor.pose THEN worker.state.pose ELSE card.pose
    BY <1>9, <2>1 DEF CatchUpEnds, Advanced
  <2>3. cursor'.pose = worker.state.pose /\ worker'.stage # "building"
    BY <1>9 DEF CatchUpEnds, CursorOf, Idle
  <2>4. phase = "ready"
    BY <1>9 DEF CatchUpEnds, TypeOK
  <2> QED
    BY <1>9, <2>2, <2>3, <2>4 DEF CatchUpEnds, OldInv, TellsOld, Settled
<1>10. CASE Close
  BY <1>10 DEF Close, OldInv, Settled
<1>11. CASE UNCHANGED vars
  BY <1>11 DEF vars, subscriberVars, OldInv, TellsOld, Settled
<1> QED
  BY <1>2, <1>3, <1>4, <1>5, <1>6, <1>7, <1>8, <1>9, <1>10, <1>11 DEF Next

LEMMA OldShown ==
  ASSUME TypeOK, OldInv
  PROVE  OldPoseShownStanding
<1> DEFINE dock == Scoped(hub.dock, hub.map, DockAge)
           last == Scoped(hub.last, hub.map, LastAge)
<1> SUFFICES ASSUME Settled, Timed, hub.last.age > PositionAge
             PROVE  IF mower.activity = "mowing" THEN card.pose = 0
                    ELSE hub.last.age <= LastAge
                           => card.pose \in {hub.last.pose, hub.dock.pose} \ {0}
  BY DEF OldPoseShownStanding
<1>1. hub \in Hubs /\ hub.last # NoRecord /\ mower \in States
  BY HubTypes DEF Timed
<1>2. Status(hub, mower) = "stale"
  BY DEF Timed, Status
<1>3. told.attributes = Attributes(hub, mower) /\ phase = "ready"
  BY DEF OldInv, Settled, TypeOK
<1>4. told.attributes.pose = Stands(hub, mower).pose
      /\ told.attributes.status \in Old
      /\ told.attributes.observed = hub.last.at
  BY <1>2, <1>3 DEF Attributes, Old, Timed
<1>5. card.pose = Stands(hub, mower).pose
  BY <1>3, <1>4 DEF OldInv, TellsOld, Timed, Old
<1>6. CASE mower.activity = "mowing"
  <2>1. Stands(hub, mower) = NoRecord
    BY <1>6 DEF Stands
  <2> QED
    BY <1>5, <1>6, <2>1 DEF NoRecord
<1>7. CASE mower.activity # "mowing" /\ hub.last.age <= LastAge
  <2>1. last = hub.last
    BY <1>7 DEF Scoped, Timed
  <2>2. Stands(hub, mower) = last \/ (dock # NoRecord /\ Stands(hub, mower) = dock)
    BY <1>7 DEF Stands
  <2>3. dock # NoRecord => dock = hub.dock
    BY DEF Scoped
  <2>4. \A r \in Records : r # NoRecord => r.pose # 0
    BY RecordFacts, PositionAssumption
  <2>5. hub.last \in Records /\ hub.dock \in Records
    BY <1>1 DEF Hubs
  <2> HIDE DEF dock, last
  <2> QED
    BY <1>1, <1>5, <1>7, <2>1, <2>2, <2>3, <2>4, <2>5
<1> QED
  BY <1>6, <1>7

(* A pose that has become old is hidden of a mower at work, and of one that stands
   it is the place the hub knows: the card is told although nothing is reported. *)
THEOREM OldPoseStands == Spec => []OldPoseShownStanding
<1>1. Init => HubInv /\ OldInv
  BY DEF Init, HubInv, OldInv, Settled
<1>2. TypeOK /\ HubInv /\ OldInv /\ [Next]_vars => HubInv' /\ OldInv'
  BY HubStep, OldStep
<1>3. TypeOK /\ OldInv => OldPoseShownStanding
  BY OldShown
<1> QED
  BY <1>1, <1>2, <1>3, TypeCorrect, PTL DEF Spec

(***************************************************************************)
(* The battery saver.                                                      *)
(***************************************************************************)

SaverLimits == Guard \in Nat \ {0, 1} /\ Limit \in Nat /\ MaxRestarts \in Nat

CallStates  == {"none", "on", "off", "did on", "did off", "back"}
Statuses    == {"docked", "mowing", "returning", "unknown"}
Quiet       == {"none", "loop", "retry", "sleep"}
Calling     == {"pulsing", "ending", "charging"}
EvalPlaces  == {"begun", "manual", "resuming", "rain live", "returned", "rain", "verify",
                "end", "resume", "continue"}

Savers == [enabled : BOOLEAN, phase : Saver!Phases, due : Saver!Left, pulse : Saver!Left]
Guards == [at : Quiet \cup Calling, wake : 0 .. Guard]
Evals  == [at : EvalPlaces \cup {"idle"}, status : Statuses, battery : Saver!None .. Limit,
           resuming : BOOLEAN]
HomeStates == [saver : Savers, stored : Savers, guard : Guards, eval : Evals,
           calls : [Saver!Tasks -> CallStates], user : {"none", "disable", "prepare"},
           known : Saver!Codes, recent : BOOLEAN, recheck : {"none", "waiting", "due"},
           task : BOOLEAN]

(***************************************************************************)
(* A task has a call only where it makes one, the user never switches the  *)
(* plug off, what is stored is whether the saver is on, and only a saver   *)
(* that is on is being used.                                               *)
(***************************************************************************)
Tidy(s) ==
    /\ s.guard.at \in Quiet => s.calls.guard = "none"
    /\ s.eval.at = "idle" => s.calls.eval = "none"
    /\ s.user = "none" => s.calls.user = "none"
    /\ s.calls.user \notin {"off", "did off"}
    /\ s.stored.enabled = s.saver.enabled
    /\ s.user # "none" => s.saver.enabled

Good(s) == SaverLimits /\ s \in HomeStates /\ Tidy(s)

(***************************************************************************)
(* What the steps of the guard and of the evaluation leave alone: the      *)
(* user's call, whether the saver is on, and, if it is off, the plug.      *)
(***************************************************************************)
Same(s, t) ==
    /\ t.user = s.user /\ t.saver.enabled = s.saver.enabled
    /\ t.calls.user = s.calls.user
    /\ ~s.saver.enabled =>
         \A w \in Saver!Tasks : t.calls[w] \in {"off", "did off"} => t.calls[w] = s.calls[w]

Keeps(s, t) == Good(t) /\ Same(s, t)

WorldTypes ==
    /\ shared \in BOOLEAN /\ plug \in BOOLEAN /\ heard \in BOOLEAN /\ fresh \in BOOLEAN
    /\ entity \in [state : {"on", "off", "gone"}, since : 0 .. Guard]
    /\ robot \in Saver!Mowers /\ cloud \in Saver!Codes /\ dark \in 0 .. Saver!Long

Types == WorldTypes /\ Good(ha)

(***************************************************************************)
(* PoweredWhenDisabled, and what it rests on: no call to switch the plug   *)
(* off is under way when the saver is off, and the plug is on from when    *)
(* the user's call has switched it on.                                     *)
(***************************************************************************)
Sound == "blind" \notin upset /\ "crossed" \notin upset

Powered ==
    Sound =>
      /\ ~ha.saver.enabled => plug /\ \A t \in Saver!Tasks : ha.calls[t] \notin {"off", "did off"}
      /\ ha.user = "disable" /\ ha.calls.user \in {"did on", "back"} => plug

PowerInv == Types /\ Powered
-----------------------------------------------------------------------------

LEMMA KeepsItself ==
  ASSUME NEW s, Good(s)
  PROVE  Keeps(s, s)
BY DEF Keeps, Same

LEMMA KeepsOn ==
  ASSUME NEW s, NEW t, NEW u, Keeps(s, t), Keeps(t, u)
  PROVE  Keeps(s, u)
BY DEF Keeps, Same

LEMMA LongNat ==
  SaverLimits => Saver!Long \in Nat /\ 0 \in 0 .. Saver!Long
BY DEF SaverLimits, Saver!Long

(* A change of the saver's phase or its deadlines. *)
LEMMA SaverSet ==
  ASSUME NEW s, Good(s), NEW v \in Savers, v.enabled = s.saver.enabled
  PROVE  LET t == [s EXCEPT !.saver = v]
         IN  Keeps(s, t) /\ t.eval = s.eval /\ t.guard = s.guard
BY DEF Good, Keeps, Same, Tidy, HomeStates

LEMMA SavedKeeps ==
  ASSUME NEW s, Good(s)
  PROVE  Keeps(s, Saver!Saved(s)) /\ Saver!Saved(s).eval = s.eval /\ Saver!Saved(s).guard = s.guard
BY DEF Good, Keeps, Same, Tidy, HomeStates, Saver!Saved

LEMMA PhaseKeeps ==
  ASSUME NEW s, Good(s), NEW p \in Saver!Phases
  PROVE  Keeps(s, Saver!Phase(s, p)) /\ Saver!Phase(s, p).eval = s.eval /\ Saver!Phase(s, p).guard = s.guard
<1> DEFINE t == [s EXCEPT !.saver.phase = p]
<1>1. s.saver \in Savers
  BY DEF Good, HomeStates
<1>2. [s.saver EXCEPT !.phase = p] \in Savers /\ [s.saver EXCEPT !.phase = p].enabled = s.saver.enabled
  BY <1>1 DEF Savers
<1>3. Keeps(s, t) /\ t.eval = s.eval /\ t.guard = s.guard
  BY <1>2, SaverSet
<1> QED
  BY <1>3, SavedKeeps, KeepsOn DEF Saver!Phase, Keeps

LEMMA ClearedKeeps ==
  ASSUME NEW s, Good(s)
  PROVE  Keeps(s, Saver!Cleared(s)) /\ Saver!Cleared(s).eval = s.eval /\ Saver!Cleared(s).guard = s.guard
<1> DEFINE v == [s.saver EXCEPT !.due = Saver!None, !.pulse = Saver!None]
           t == [s EXCEPT !.saver.due = Saver!None, !.saver.pulse = Saver!None]
<1>1. s.saver \in Savers
  BY DEF Good, HomeStates
<1>2. v \in Savers /\ v.enabled = s.saver.enabled
  BY <1>1 DEF Savers, Saver!Left
<1>3. t = [s EXCEPT !.saver = v]
  BY DEF Good, HomeStates
<1>4. Keeps(s, t) /\ t.eval = s.eval /\ t.guard = s.guard
  BY <1>2, <1>3, SaverSet
<1> QED
  BY <1>4, SavedKeeps, KeepsOn DEF Saver!Cleared, Keeps

LEMMA EnsuredKeeps ==
  ASSUME NEW s, Good(s)
  PROVE  /\ Keeps(s, Saver!Ensured(s)) /\ Saver!Ensured(s).eval = s.eval
         /\ s.guard.at # "none" => Saver!Ensured(s).guard = s.guard
BY DEF Good, Keeps, Same, Tidy, HomeStates, Saver!Ensured, Guards, Quiet, Calling

LEMMA CancelledKeeps ==
  ASSUME NEW s, Good(s), NEW w \in Saver!Tasks
  PROVE  /\ Keeps(s, Saver!Cancelled(s, w)) /\ Saver!Cancelled(s, w).eval = s.eval
         /\ w = "guard" => Saver!Cancelled(s, w) = s
<1>1. Saver!NoGuard \in Guards /\ Saver!NoGuard.at = "none"
  BY DEF Good, SaverLimits, Saver!NoGuard, Guards, Quiet, Calling
<1> QED
  BY <1>1 DEF Good, Keeps, Same, Tidy, HomeStates, Saver!Cancelled, Quiet, Saver!Tasks, CallStates

LEMMA RecheckedKeeps ==
  ASSUME NEW s, Good(s)
  PROVE  Keeps(s, Saver!Rechecked(s))
BY DEF Good, Keeps, Same, Tidy, HomeStates, Saver!Rechecked

(* What a task does with the charger, where it makes a call. *)
Places(s, who) == (who = "guard" => s.guard.at \in Calling) /\ (who = "eval" => s.eval.at # "idle")

LEMMA CallSet ==
  ASSUME NEW s, Good(s), NEW who \in {"guard", "eval"}, Places(s, who),
         NEW c \in CallStates, c # "did off", c = "off" => s.saver.enabled
  PROVE  LET t == [s EXCEPT !.calls[who] = c]
         IN  Keeps(s, t) /\ t.eval = s.eval /\ t.guard = s.guard
<1> DEFINE t == [s EXCEPT !.calls[who] = c]
<1>1. s \in HomeStates /\ s.calls \in [Saver!Tasks -> CallStates] /\ who \in Saver!Tasks
  BY DEF Good, HomeStates, Saver!Tasks
<1>2. /\ t \in HomeStates /\ t.calls = [s.calls EXCEPT ![who] = c]
      /\ t.eval = s.eval /\ t.guard = s.guard /\ t.saver = s.saver /\ t.stored = s.stored
      /\ t.user = s.user
  BY <1>1 DEF HomeStates
<1>3. /\ t.calls[who] = c
      /\ \A w \in Saver!Tasks : w # who => t.calls[w] = s.calls[w]
  BY <1>1, <1>2
<1>4. t.calls.user = s.calls.user
  BY <1>3 DEF Saver!Tasks
<1>5. Tidy(t)
  BY <1>2, <1>3, <1>4 DEF Good, Tidy, Places, Quiet, Calling, Saver!Tasks
<1>6. Same(s, t)
  BY <1>2, <1>3, <1>4 DEF Same
<1> QED
  BY <1>2, <1>5, <1>6 DEF Good, Keeps

LEMMA SwitchedKeeps ==
  ASSUME NEW s, Good(s), NEW who \in Saver!Tasks, NEW want \in {"on", "off"}, NEW called \in BOOLEAN,
         Places(s, who)
  PROVE  Keeps(s, Saver!Switched(s, who, want, called)) /\ Places(Saver!Switched(s, who, want, called), who)
<1>1. CASE want = "on"
  BY <1>1, ClearedKeeps DEF Saver!Switched, Places
<1>2. CASE want = "off" /\ Saver!Status = "docked"
  <2> DEFINE v == [s.saver EXCEPT !.due = Guard, !.pulse = Saver!None]
             t == [s EXCEPT !.saver.due = Guard, !.saver.pulse = Saver!None]
  <2>1. s \in HomeStates /\ s.saver \in Savers /\ Guard \in Nat
    BY DEF Good, HomeStates, SaverLimits
  <2>0. Guard \in Saver!Left /\ Saver!None \in Saver!Left
    BY <2>1 DEF Saver!Left
  <2>2. v \in Savers /\ v.enabled = s.saver.enabled
    BY <2>0, <2>1 DEF Savers
  <2>3. t = [s EXCEPT !.saver = v]
    BY <2>1 DEF HomeStates
  <2>4. Keeps(s, t) /\ t.eval = s.eval /\ t.guard = s.guard
    BY <2>2, <2>3, SaverSet
  <2>5. Keeps(t, Saver!Saved(t)) /\ Saver!Saved(t).eval = t.eval /\ Saver!Saved(t).guard = t.guard
    BY <2>4, SavedKeeps DEF Keeps
  <2>6. Keeps(s, Saver!Saved(t)) /\ Saver!Saved(t).eval = s.eval /\ Saver!Saved(t).guard = s.guard
    BY <2>4, <2>5, KeepsOn
  <2> DEFINE u == IF called THEN Saver!Saved(t) ELSE s
  <2>7. Keeps(s, u) /\ u.eval = s.eval /\ u.guard = s.guard
    BY <2>6, KeepsItself
  <2>8. /\ Keeps(u, Saver!Ensured(u)) /\ Saver!Ensured(u).eval = u.eval
        /\ u.guard.at # "none" => Saver!Ensured(u).guard = u.guard
    BY <2>7, EnsuredKeeps DEF Keeps
  <2>9. Saver!Switched(s, who, want, called) = Saver!Ensured(u)
    BY <1>2 DEF Saver!Switched
  <2> HIDE DEF u
  <2>10. Keeps(s, Saver!Ensured(u))
    BY <2>7, <2>8, KeepsOn
  <2> QED
    BY <2>7, <2>8, <2>9, <2>10 DEF Places, Calling
<1>3. CASE want = "off" /\ Saver!Status # "docked"
  <2> DEFINE t == Saver!Cancelled(s, who)
  <2>1. Keeps(s, t) /\ t.eval = s.eval /\ (who = "guard" => t = s)
    BY CancelledKeeps
  <2>2. Keeps(t, Saver!Cleared(t)) /\ Saver!Cleared(t).eval = t.eval /\ Saver!Cleared(t).guard = t.guard
    BY <2>1, ClearedKeeps DEF Keeps
  <2>3. Saver!Switched(s, who, want, called) = Saver!Cleared(t)
    BY <1>3 DEF Saver!Switched
  <2> HIDE DEF t
  <2>4. Keeps(s, Saver!Cleared(t))
    BY <2>1, <2>2, KeepsOn
  <2> QED
    BY <2>1, <2>2, <2>3, <2>4 DEF Places
<1> QED
  BY <1>1, <1>2, <1>3

LEMMA ChargerKeeps ==
  ASSUME NEW s, Good(s), NEW who \in {"guard", "eval"}, NEW want \in {"on", "off"},
         NEW pulse \in BOOLEAN, Places(s, who)
  PROVE  /\ Keeps(s, Saver!SetCharger(s, who, want, pulse))
         /\ Places(Saver!SetCharger(s, who, want, pulse), who)
<1>0. who \in Saver!Tasks /\ {"back", "on", "off"} \subseteq CallStates
  BY DEF Saver!Tasks, CallStates
<1>1. CASE ~s.saver.enabled
  <2>1. Saver!SetCharger(s, who, want, pulse) = [s EXCEPT !.calls[who] = "back"]
    BY <1>1 DEF Saver!SetCharger
  <2> QED
    BY <1>0, <2>1, CallSet DEF Places
<1>2. CASE s.saver.enabled
  <2> DEFINE t == IF want = "on" /\ ~pulse THEN Saver!Cancelled(s, who) ELSE s
             u == IF pulse THEN t ELSE Saver!Switched(t, who, want, FALSE)
  <2>1. Keeps(s, t) /\ Places(t, who) /\ t.saver.enabled
    <3>1. /\ Keeps(s, Saver!Cancelled(s, who)) /\ Saver!Cancelled(s, who).eval = s.eval
          /\ who = "guard" => Saver!Cancelled(s, who) = s
      BY <1>0, CancelledKeeps
    <3>2. Keeps(s, s)
      BY KeepsItself
    <3>3. Places(Saver!Cancelled(s, who), who)
      BY <3>1 DEF Places
    <3> QED
      BY <1>2, <3>1, <3>2, <3>3 DEF Keeps, Same
  <2>2. Good(t)
    BY <2>1 DEF Keeps
  <2>3. Keeps(t, u) /\ Places(u, who)
    <3> HIDE DEF t
    <3> QED
      BY <1>0, <2>1, <2>2, SwitchedKeeps, KeepsItself
  <2>4. Good(u) /\ u.saver.enabled
    BY <2>1, <2>3 DEF Keeps, Same
  <2>5. Saver!SetCharger(s, who, want, pulse) = IF entity.state # want THEN [t EXCEPT !.calls[who] = want]
              ELSE [u EXCEPT !.calls[who] = "back"]
    BY <1>2 DEF Saver!SetCharger
  <2> HIDE DEF t, u
  <2>6. CASE entity.state # want
    <3> DEFINE v == [t EXCEPT !.calls[who] = want]
    <3>1. Keeps(t, v) /\ v.eval = t.eval /\ v.guard = t.guard
      BY <1>0, <2>1, <2>2, CallSet
    <3>2. Saver!SetCharger(s, who, want, pulse) = v
      BY <2>5, <2>6
    <3> QED
      BY <2>1, <3>1, <3>2, KeepsOn DEF Places
  <2>7. CASE entity.state = want
    <3> DEFINE v == [u EXCEPT !.calls[who] = "back"]
    <3>1. Keeps(u, v) /\ v.eval = u.eval /\ v.guard = u.guard
      BY <1>0, <2>3, <2>4, CallSet
    <3>2. Saver!SetCharger(s, who, want, pulse) = v
      BY <2>5, <2>7
    <3>3. Keeps(s, u)
      BY <2>1, <2>3, KeepsOn
    <3> QED
      BY <2>3, <3>1, <3>2, <3>3, KeepsOn DEF Places
  <2> QED
    BY <2>6, <2>7
<1> QED
  BY <1>1, <1>2

-----------------------------------------------------------------------------
(* The evaluation.                                                         *)

LEMMA EvalSet ==
  ASSUME NEW s, Good(s), NEW e \in Evals, e.at = "idle" => s.calls.eval = "none"
  PROVE  Keeps(s, [s EXCEPT !.eval = e]) /\ [s EXCEPT !.eval = e].eval = e
BY DEF Good, Keeps, Same, Tidy, HomeStates

LEMMA AtKeeps ==
  ASSUME NEW s, Good(s), NEW at \in EvalPlaces
  PROVE  Keeps(s, Saver!At(s, at)) /\ Saver!At(s, at).eval.at = at
<1> DEFINE e == [s.eval EXCEPT !.at = at]
<1>1. s \in HomeStates /\ s.eval \in Evals
  BY DEF Good, HomeStates
<1>2. e \in Evals /\ e.at = at
  BY <1>1 DEF Evals
<1>3. Saver!At(s, at) = [s EXCEPT !.eval = e]
  BY <1>1 DEF HomeStates, Saver!At
<1>4. at # "idle"
  BY DEF EvalPlaces
<1> HIDE DEF e
<1>5. Keeps(s, [s EXCEPT !.eval = e]) /\ [s EXCEPT !.eval = e].eval = e
  BY <1>2, <1>4, EvalSet
<1> QED
  BY <1>2, <1>3, <1>5

LEMMA EndedKeeps ==
  ASSUME NEW s, Good(s)
  PROVE  Keeps(s, Saver!Ended(s))
<1>1. Saver!NoEval \in Evals /\ Saver!NoEval.at = "idle"
  BY DEF Good, SaverLimits, Saver!NoEval, Evals, Statuses, Saver!None
<1>2. s \in HomeStates /\ s.calls \in [Saver!Tasks -> CallStates]
  BY DEF Good, HomeStates
<1>3. /\ Saver!Ended(s) \in HomeStates /\ Saver!Ended(s).calls = [s.calls EXCEPT !.eval = "none"]
      /\ Saver!Ended(s).eval = Saver!NoEval /\ Saver!Ended(s).guard = s.guard /\ Saver!Ended(s).saver = s.saver
      /\ Saver!Ended(s).stored = s.stored /\ Saver!Ended(s).user = s.user
  BY <1>1, <1>2 DEF Saver!Ended, HomeStates, CallStates
<1>4. /\ Saver!Ended(s).calls.eval = "none" /\ Saver!Ended(s).calls.user = s.calls.user
      /\ Saver!Ended(s).calls.guard = s.calls.guard
      /\ \A w \in Saver!Tasks : Saver!Ended(s).calls[w] \in {"none", s.calls[w]}
  BY <1>2, <1>3 DEF Saver!Tasks
<1>5. Tidy(Saver!Ended(s))
  BY <1>1, <1>3, <1>4 DEF Good, Tidy
<1>6. Same(s, Saver!Ended(s))
  BY <1>3, <1>4 DEF Same
<1> QED
  BY <1>3, <1>5, <1>6 DEF Good, Keeps

LEMMA SwitchKeeps ==
  ASSUME NEW s, Good(s), NEW want \in {"on", "off"}, NEW then \in EvalPlaces
  PROVE  Keeps(s, Saver!Switch(s, want, then))
<1>1. Keeps(s, Saver!At(s, then)) /\ Places(Saver!At(s, then), "eval")
  BY AtKeeps DEF EvalPlaces, Places
<1>2. Keeps(Saver!At(s, then), Saver!Switch(s, want, then))
  BY <1>1, ChargerKeeps DEF Keeps, Saver!Switch
<1> QED
  BY <1>1, <1>2, KeepsOn

LEMMA MaintainKeeps ==
  ASSUME NEW s, Good(s), NEW battery
  PROVE  Keeps(s, Saver!Maintain(s, battery))
<1>1. "end" \in EvalPlaces
  BY DEF EvalPlaces
<1>2. Keeps(s, Saver!Switch(s, "on", "end")) /\ Keeps(s, Saver!Switch(s, "off", "end")) /\ Keeps(s, Saver!Ended(s))
  BY <1>1, SwitchKeeps, EndedKeeps
<1>3. Keeps(s, Saver!Ended(Saver!Ensured(s)))
  BY EnsuredKeeps, EndedKeeps, KeepsOn DEF Keeps
<1> QED
  BY <1>2, <1>3 DEF Saver!Maintain

LEMMA RecoverKeeps ==
  ASSUME NEW s, Good(s)
  PROVE  Keeps(s, Saver!Recover(s))
<1>1. "end" \in EvalPlaces /\ "resume" \in EvalPlaces /\ "initial_charge" \in Saver!Phases
  BY DEF EvalPlaces, Saver!Phases
<1>2. Keeps(s, Saver!Switch(s, "on", "end")) /\ Keeps(s, Saver!Switch(s, "on", "resume")) /\ Keeps(s, Saver!Ended(s))
  BY <1>1, SwitchKeeps, EndedKeeps
<1>3. Keeps(s, Saver!Maintain(Saver!Phase(s, "initial_charge"), s.eval.battery))
  BY <1>1, PhaseKeeps, MaintainKeeps, KeepsOn DEF Keeps
<1> QED
  BY <1>2, <1>3 DEF Saver!Recover

LEMMA HoldKeeps ==
  ASSUME NEW s, Good(s)
  PROVE  Keeps(s, Saver!HoldForRain(s))
<1> DEFINE t == Saver!Maintain(s, s.eval.battery)
           e == [s.eval EXCEPT !.at = "rain"]
<1>1. "rain" \in EvalPlaces /\ s.eval \in Evals
  BY DEF EvalPlaces, Good, HomeStates
<1>2. Keeps(s, t)
  BY MaintainKeeps
<1>3. e \in Evals /\ e.at # "idle"
  BY <1>1 DEF Evals
<1>4. Keeps(s, [t EXCEPT !.eval = e])
  <2> HIDE DEF t, e
  <2>1. Good(t)
    BY <1>2 DEF Keeps
  <2>2. Keeps(t, [t EXCEPT !.eval = e])
    BY <1>3, <2>1, EvalSet
  <2> QED
    BY <1>2, <2>2, KeepsOn
<1>5. Keeps(s, Saver!Switch(s, "on", "rain"))
  BY <1>1, SwitchKeeps
<1> QED
  BY <1>4, <1>5 DEF Saver!HoldForRain

LEMMA CompleteKeeps ==
  ASSUME NEW s, Good(s)
  PROVE  Keeps(s, Saver!Complete(s))
<1> DEFINE t == [s EXCEPT !.task = FALSE]
           u == Saver!Phase(t, "initial_charge")
<1>1. Keeps(s, t)
  BY DEF Good, Keeps, Same, Tidy, HomeStates
<1>2. Keeps(s, u)
  BY <1>1, PhaseKeeps, KeepsOn DEF Keeps, Saver!Phases
<1>3. Keeps(s, Saver!Ended(u)) /\ Keeps(s, Saver!Maintain(u, s.eval.battery))
  BY <1>2, EndedKeeps, MaintainKeeps, KeepsOn DEF Keeps
<1> QED
  BY <1>3 DEF Saver!Complete

LEMMA ByPhaseKeeps ==
  ASSUME NEW s, Good(s)
  PROVE  Keeps(s, Saver!ByPhase(s))
<1> DEFINE t == IF s.saver.enabled THEN Saver!Rechecked(s) ELSE s
<1>1. Keeps(s, t)
  BY RecheckedKeeps, KeepsItself
<1>2. \A p \in Saver!Phases : Keeps(s, Saver!Phase(t, p))
  BY <1>1, PhaseKeeps, KeepsOn DEF Keeps
<1>3. Keeps(s, Saver!Recover(Saver!Phase(t, "recovery_charge")))
  BY <1>2, RecoverKeeps, KeepsOn DEF Keeps, Saver!Phases
<1>4. Keeps(s, Saver!HoldForRain(Saver!Phase(t, "rain_hold")))
  BY <1>2, HoldKeeps, KeepsOn DEF Keeps, Saver!Phases
<1>5. Keeps(s, Saver!Maintain(t, s.eval.battery)) /\ Keeps(s, Saver!Ended(t))
  BY <1>1, MaintainKeeps, EndedKeeps, KeepsOn DEF Keeps
<1>6. CASE s.saver.phase = "manual_charge"
  BY <1>3, <1>4, <1>5, <1>6 DEF Saver!ByPhase
<1>7. CASE s.saver.phase # "manual_charge"
  BY <1>7, HoldKeeps, CompleteKeeps, RecoverKeeps, EndedKeeps DEF Saver!ByPhase
<1> QED
  BY <1>6, <1>7

LEMMA Heard ==
  ASSUME WorldTypes, SaverLimits
  PROVE  Saver!Status \in Statuses /\ Saver!Battery \in Saver!None .. Limit
BY DEF WorldTypes, SaverLimits, Saver!Status, Saver!Battery, Statuses, Saver!Mowers, Saver!None

LEMMA EvaluatedKeeps ==
  ASSUME NEW r, Good(r), WorldTypes
  PROVE  Keeps(r, Saver!Evaluated(r))
<1> DEFINE e   == [r.eval EXCEPT !.status = Saver!Status, !.battery = Saver!Battery]
           s   == [r EXCEPT !.eval.status = Saver!Status, !.eval.battery = Saver!Battery]
           rtk == IF shared THEN "on" ELSE "off"
<1>1. r \in HomeStates /\ r.eval \in Evals /\ SaverLimits
  BY DEF Good, HomeStates
<1>2. e \in Evals /\ e.at = r.eval.at
  BY <1>1, Heard DEF Evals
<1>3. s = [r EXCEPT !.eval = e]
  BY <1>1 DEF HomeStates
<1>4. Keeps(r, s)
  BY <1>2, <1>3, EvalSet DEF Good, Tidy
<1>5. rtk \in {"on", "off"} /\ {"end", "rain live", "returned"} \subseteq EvalPlaces
  BY DEF EvalPlaces
<1>6. ASSUME NEW t, Keeps(s, t)
      PROVE  Keeps(r, t)
  BY <1>4, <1>6, KeepsOn
<1>7. Good(s)
  BY <1>4 DEF Keeps
<1>8. Keeps(s, Saver!Ended(s)) /\ Keeps(s, Saver!Maintain(s, Saver!Battery)) /\ Keeps(s, Saver!At(s, "rain live"))
  <2> HIDE DEF s
  <2> QED
    BY <1>5, <1>7, EndedKeeps, MaintainKeeps, AtKeeps
<1>9. Keeps(s, Saver!Ended(Saver!Ensured(s)))
  <2> HIDE DEF s
  <2> QED
    BY <1>7, EnsuredKeeps, EndedKeeps, KeepsOn DEF Keeps
<1>10. Keeps(s, Saver!Switch(s, "on", "end")) /\ Keeps(s, Saver!Switch(s, "on", "returned"))
  <2> HIDE DEF s
  <2> QED
    BY <1>5, <1>7, SwitchKeeps
<1>11. Keeps(s, Saver!Switch(Saver!Phase(s, "mowing"), rtk, "end"))
  <2> HIDE DEF s, rtk
  <2>1. Keeps(s, Saver!Phase(s, "mowing"))
    BY <1>7, PhaseKeeps DEF Saver!Phases
  <2>2. Keeps(Saver!Phase(s, "mowing"), Saver!Switch(Saver!Phase(s, "mowing"), rtk, "end"))
    BY <1>5, <2>1, SwitchKeeps DEF Keeps
  <2> QED
    BY <2>1, <2>2, KeepsOn
<1>12. Keeps(s, Saver!ByPhase(s))
  BY <1>7, ByPhaseKeeps
<1>13. \/ Saver!Evaluated(r) \in {Saver!Ended(s), Saver!Ended(Saver!Ensured(s)), Saver!At(s, "rain live"), Saver!ByPhase(s)}
       \/ Saver!Evaluated(r) \in {Saver!Switch(s, "on", "end"), Saver!Switch(Saver!Phase(s, "mowing"), rtk, "end"),
                            Saver!Maintain(s, Saver!Battery), Saver!Switch(s, "on", "returned")}
  <2> DEFINE same == r.saver = s.saver
  <2>1. Saver!Evaluated(r) =
          IF ~s.saver.enabled THEN Saver!Ended(s)
          ELSE IF s.saver.pulse # Saver!None THEN Saver!Ended(Saver!Ensured(s))
          ELSE IF Saver!Battery = Saver!None THEN Saver!Ended(s)
          ELSE IF Saver!Status = "mowing"
          THEN CASE s.saver.phase = "rain_hold"       -> Saver!At(s, "rain live")
                 [] s.saver.phase = "recovery_charge" -> Saver!Switch(s, "on", "end")
                 [] OTHER                     -> Saver!Switch(Saver!Phase(s, "mowing"), rtk, "end")
          ELSE CASE s.saver.phase = "initial_charge" ->
                       IF Saver!Status = "docked" THEN Saver!Maintain(s, Saver!Battery) ELSE Saver!Ended(s)
                 [] s.saver.phase = "mowing" -> Saver!Switch(s, "on", "returned")
                 [] OTHER            -> Saver!ByPhase(s)
    BY DEF Saver!Evaluated
  <2> HIDE DEF s, rtk
  <2> QED
    BY <2>1
<1> HIDE DEF s, rtk
<1> QED
  BY <1>6, <1>8, <1>9, <1>10, <1>11, <1>12, <1>13

LEMMA InformedKeeps ==
  ASSUME NEW s, Good(s), WorldTypes, s.eval.at \in Saver!Downloading
  PROVE  Keeps(s, Saver!Informed(s))
<1>1. {"end", "rain", "returned"} \subseteq EvalPlaces /\ (IF shared THEN "on" ELSE "off") \in {"on", "off"}
  BY DEF EvalPlaces
<1>2. \A p \in Saver!Phases : Keeps(s, Saver!Phase(s, p)) /\ Good(Saver!Phase(s, p))
  BY PhaseKeeps DEF Keeps
<1>3. \A p \in Saver!Phases : /\ Keeps(s, Saver!Ended(Saver!Phase(s, p))) /\ Keeps(s, Saver!ByPhase(Saver!Phase(s, p)))
                              /\ \A b : Keeps(s, Saver!Maintain(Saver!Phase(s, p), b))
                              /\ \A want \in {"on", "off"} : Keeps(s, Saver!Switch(Saver!Phase(s, p), want, "end"))
                              /\ Keeps(s, Saver!Evaluated(Saver!Phase(s, p)))
  <2> TAKE p \in Saver!Phases
  <2> DEFINE t == Saver!Phase(s, p)
  <2>1. Keeps(s, t) /\ Good(t)
    BY <1>2
  <2> HIDE DEF t
  <2>2. ASSUME NEW u, Keeps(t, u) PROVE Keeps(s, u)
    BY <2>1, <2>2, KeepsOn
  <2>3. \A want \in {"on", "off"} : Keeps(t, Saver!Switch(t, want, "end"))
    BY <1>1, <2>1, SwitchKeeps
  <2>4. Keeps(t, Saver!Ended(t)) /\ Keeps(t, Saver!ByPhase(t)) /\ Keeps(t, Saver!Evaluated(t))
    BY <2>1, EndedKeeps, ByPhaseKeeps, EvaluatedKeeps
  <2>5. \A b : Keeps(t, Saver!Maintain(t, b))
    BY <2>1, MaintainKeeps
  <2> QED
    BY <2>2, <2>3, <2>4, <2>5 DEF t
<1>4. CASE s.eval.at = "manual"
  <2> DEFINE r == [s EXCEPT !.recheck = "none"]
             p == CASE Saver!Signal(s.known) = "low_battery_return" -> "recovery_charge"
                    [] Saver!Signal(s.known) = "rain_return"        -> "rain_hold"
                    [] Saver!Signal(s.known) = "finished"           -> "completed"
                    [] OTHER                                  -> "initial_charge"
             t == Saver!Phase(r, p)
  <2>1. Keeps(s, r)
    BY DEF Good, Keeps, Same, Tidy, HomeStates
  <2>2. p \in Saver!Phases
    BY DEF Saver!Phases
  <2>3. Saver!Informed(s) = IF s.eval.battery # Saver!None THEN Saver!Maintain(t, s.eval.battery) ELSE Saver!Ended(t)
    BY <1>4 DEF Saver!Informed
  <2> HIDE DEF r, p
  <2>4. Keeps(s, t)
    BY <2>1, <2>2, PhaseKeeps, KeepsOn DEF Keeps
  <2> HIDE DEF t
  <2> QED
    BY <2>3, <2>4, MaintainKeeps, EndedKeeps, KeepsOn DEF Keeps
<1>5. CASE s.eval.at = "resuming"
  <2>1. Saver!Informed(s) = Saver!Evaluated(IF Saver!Raining(s) THEN Saver!Phase(s, "rain_hold") ELSE s)
    BY <1>5 DEF Saver!Informed
  <2> QED
    BY <1>3, <2>1, EvaluatedKeeps DEF Saver!Phases
<1>6. CASE s.eval.at = "rain live"
  <2>1. Saver!Informed(s) = IF Saver!Signal(s.known) = "active"
                      THEN Saver!Switch(Saver!Phase(s, "mowing"), IF shared THEN "on" ELSE "off", "end")
                      ELSE Saver!Switch(s, "on", "end")
    BY <1>6 DEF Saver!Informed
  <2>2. Keeps(s, Saver!Switch(s, "on", "end"))
    BY <1>1, SwitchKeeps
  <2> QED
    BY <1>1, <1>3, <2>1, <2>2 DEF Saver!Phases
<1>7. CASE s.eval.at = "returned"
  <2>1. \/ \E p \in Saver!Phases : Saver!Informed(s) = Saver!ByPhase(Saver!Phase(s, p))
        \/ Saver!Informed(s) = Saver!Ended(s)
    BY <1>7 DEF Saver!Informed, Saver!Phases
  <2> QED
    BY <1>3, <2>1, EndedKeeps
<1>8. CASE s.eval.at = "rain"
  <2>1. Saver!Informed(s) \in {Saver!Ended(Saver!Phase(s, "completed")), Saver!Ended(s)}
    BY <1>8 DEF Saver!Informed
  <2> QED
    BY <1>3, <2>1, EndedKeeps DEF Saver!Phases
<1>9. CASE s.eval.at = "verify"
  <2>1. Saver!Informed(s) \in {Saver!Ended(s), Saver!Switch(Saver!Phase(s, "rain_hold"), "on", "end"),
                         Saver!Maintain(Saver!Phase(s, "rain_hold"), Saver!Battery)}
    BY <1>9 DEF Saver!Informed
  <2> QED
    BY <1>3, <2>1, EndedKeeps DEF Saver!Phases
<1> QED
  BY <1>4, <1>5, <1>6, <1>7, <1>8, <1>9 DEF Saver!Downloading

-----------------------------------------------------------------------------
(* The guard.                                                              *)

LEMMA GuardSet ==
  ASSUME NEW s, Good(s), NEW g \in Guards, g.at \in Quiet => s.calls.guard = "none"
  PROVE  Keeps(s, [s EXCEPT !.guard = g]) /\ [s EXCEPT !.guard = g].guard = g
BY DEF Good, Keeps, Same, Tidy, HomeStates

LEMMA GuardCallsKeeps ==
  ASSUME NEW s, Good(s), NEW at \in Calling, NEW want \in {"on", "off"}
  PROVE  Keeps(s, Saver!GuardCalls(s, at, want))
<1> DEFINE g == [s.guard EXCEPT !.at = at]
           t == [s EXCEPT !.guard.at = at]
<1>1. s \in HomeStates /\ s.guard \in Guards
  BY DEF Good, HomeStates
<1>2. g \in Guards /\ g.at = at /\ at \notin Quiet
  BY <1>1 DEF Guards, Quiet, Calling
<1>3. t = [s EXCEPT !.guard = g]
  BY <1>1 DEF HomeStates
<1>4. Keeps(s, t) /\ t.guard = g
  <2> HIDE DEF g
  <2>1. Keeps(s, [s EXCEPT !.guard = g]) /\ [s EXCEPT !.guard = g].guard = g
    BY <1>2, GuardSet
  <2> QED
    BY <1>3, <2>1
<1>5. (at = "pulsing") \in BOOLEAN
  OBVIOUS
<1> HIDE DEF t
<1>6. Keeps(t, Saver!SetCharger(t, "guard", want, at = "pulsing"))
  BY <1>2, <1>4, <1>5, ChargerKeeps DEF Keeps, Places
<1> QED
  BY <1>4, <1>6, KeepsOn DEF Saver!GuardCalls, t

(* The deadlines, in the record of a saver. *)
LEMMA DeadlineSet ==
  ASSUME NEW s, Good(s)
  PROVE  /\ \A d \in Saver!Left : Keeps(s, [s EXCEPT !.saver.due = d])
         /\ \A p \in Saver!Left : Keeps(s, [s EXCEPT !.saver.pulse = p])
         /\ \A d, p \in Saver!Left : Keeps(s, [s EXCEPT !.saver.pulse = p, !.saver.due = d])
<1> SUFFICES ASSUME NEW d \in Saver!Left, NEW p \in Saver!Left
             PROVE  /\ Keeps(s, [s EXCEPT !.saver.due = d])
                    /\ Keeps(s, [s EXCEPT !.saver.pulse = p])
                    /\ Keeps(s, [s EXCEPT !.saver.pulse = p, !.saver.due = d])
  OBVIOUS
<1> DEFINE v == [s.saver EXCEPT !.due = d]
           w == [s.saver EXCEPT !.pulse = p]
           x == [s.saver EXCEPT !.pulse = p, !.due = d]
<1>1. s \in HomeStates /\ s.saver \in Savers
  BY DEF Good, HomeStates
<1>2. {v, w, x} \subseteq Savers /\ \A y \in {v, w, x} : y.enabled = s.saver.enabled
  BY <1>1 DEF Savers
<1>3. /\ [s EXCEPT !.saver.due = d] = [s EXCEPT !.saver = v]
      /\ [s EXCEPT !.saver.pulse = p] = [s EXCEPT !.saver = w]
      /\ [s EXCEPT !.saver.pulse = p, !.saver.due = d] = [s EXCEPT !.saver = x]
  BY <1>1 DEF HomeStates
<1> HIDE DEF v, w, x
<1> QED
  BY <1>2, <1>3, SaverSet

LEMMA PulseIsOverKeeps ==
  ASSUME Types, ha.guard.at = "loop"
  PROVE  Keeps(ha, Saver!PulseIsOver)
<1>0. Guard \in Saver!Left /\ Saver!None \in Saver!Left
  BY DEF Types, Good, Saver!Left, SaverLimits
<1>1. Good(ha) /\ ha.calls.guard = "none" /\ Guard \in Saver!Left /\ Saver!None \in Saver!Left
  BY <1>0 DEF Types, Good, Tidy, Quiet
<1>2. Saver!NoGuard \in Guards /\ Saver!NoGuard.at = "none"
  BY <1>1 DEF Good, SaverLimits, Saver!NoGuard, Guards, Quiet
<1>3. Keeps(ha, Saver!Saved([ha EXCEPT !.saver.pulse = Saver!None, !.saver.due = Guard]))
  <2> DEFINE t == [ha EXCEPT !.saver.pulse = Saver!None, !.saver.due = Guard]
  <2>1. Keeps(ha, t)
    BY <1>1, DeadlineSet
  <2> HIDE DEF t
  <2>2. Keeps(ha, Saver!Saved(t))
    BY <2>1, SavedKeeps, KeepsOn DEF Keeps
  <2> QED
    BY <2>2 DEF t
<1>4. Keeps(ha, [Saver!Cleared(ha) EXCEPT !.guard = Saver!NoGuard])
  <2>1. Keeps(ha, Saver!Cleared(ha)) /\ Saver!Cleared(ha).guard = ha.guard
    BY <1>1, ClearedKeeps
  <2>2. Saver!Cleared(ha).calls.guard = "none"
    BY <2>1 DEF Keeps, Good, Tidy, Quiet
  <2> QED
    BY <1>2, <2>1, <2>2, GuardSet, KeepsOn DEF Keeps
<1>5. Keeps(ha, Saver!GuardCalls([ha EXCEPT !.saver.pulse = Saver!None], "ending", "off"))
  <2> DEFINE t == [ha EXCEPT !.saver.pulse = Saver!None]
  <2>1. Keeps(ha, t)
    BY <1>1, DeadlineSet
  <2> HIDE DEF t
  <2>2. Keeps(t, Saver!GuardCalls(t, "ending", "off"))
    BY <2>1, GuardCallsKeeps DEF Keeps, Calling
  <2> QED
    BY <2>1, <2>2, KeepsOn DEF t
<1> QED
  BY <1>3, <1>4, <1>5 DEF Saver!PulseIsOver

LEMMA GuardIsDueKeeps ==
  ASSUME Types, ha.guard.at = "loop"
  PROVE  Keeps(ha, Saver!GuardIsDue)
<1>0. 1 \in Saver!Left
  BY DEF Types, Good, Saver!Left, SaverLimits
<1>1. Good(ha) /\ ha.calls.guard = "none" /\ 1 \in Saver!Left
  BY <1>0 DEF Types, Good, Tidy, Quiet
<1>2. Saver!NoGuard \in Guards /\ Saver!NoGuard.at = "none"
  BY <1>1 DEF Good, SaverLimits, Saver!NoGuard, Guards, Quiet
<1>3. Keeps(ha, Saver!Saved([ha EXCEPT !.saver.due = 1]))
  <2> DEFINE t == [ha EXCEPT !.saver.due = 1]
  <2>1. Keeps(ha, t)
    BY <1>1, DeadlineSet
  <2> HIDE DEF t
  <2>2. Keeps(ha, Saver!Saved(t))
    BY <2>1, SavedKeeps, KeepsOn DEF Keeps
  <2> QED
    BY <2>2 DEF t
<1>4. Keeps(ha, [Saver!Cleared(ha) EXCEPT !.guard = Saver!NoGuard])
  <2>1. Keeps(ha, Saver!Cleared(ha)) /\ Saver!Cleared(ha).guard = ha.guard
    BY <1>1, ClearedKeeps
  <2>2. Saver!Cleared(ha).calls.guard = "none"
    BY <2>1 DEF Keeps, Good, Tidy, Quiet
  <2> QED
    BY <1>2, <2>1, <2>2, GuardSet, KeepsOn DEF Keeps
<1>5. Keeps(ha, Saver!GuardCalls(ha, "charging", "on"))
  BY <1>1, GuardCallsKeeps DEF Calling
<1>6. Keeps(ha, Saver!GuardCalls(Saver!Saved([ha EXCEPT !.saver.pulse = 1]), "pulsing", "on"))
  <2> DEFINE t == [ha EXCEPT !.saver.pulse = 1]
  <2>1. Keeps(ha, t)
    BY <1>1, DeadlineSet
  <2> HIDE DEF t
  <2>2. Keeps(ha, Saver!Saved(t))
    BY <2>1, SavedKeeps, KeepsOn DEF Keeps
  <2>3. Keeps(Saver!Saved(t), Saver!GuardCalls(Saver!Saved(t), "pulsing", "on"))
    BY <2>2, GuardCallsKeeps DEF Keeps, Calling
  <2> QED
    BY <2>2, <2>3, KeepsOn DEF t
<1> QED
  BY <1>3, <1>4, <1>5, <1>6 DEF Saver!GuardIsDue

-----------------------------------------------------------------------------
(* The steps.  Most of them end in Becomes.                                *)

LEMMA BecomesGood ==
  ASSUME PowerInv, NEW s, NEW why, Saver!Becomes(s, why), Keeps(ha, s)
  PROVE  Good(ha)' /\ plug' \in BOOLEAN /\ dark' \in 0 .. Saver!Long /\ Powered'
<1> DEFINE cancelled == ha.calls.guard \in {"on", "off"} /\ s.calls.guard = "none"
<1>1. /\ ha' = s /\ plug' \in IF cancelled THEN {plug, ha.calls.guard = "on"} ELSE {plug}
      /\ Saver!Lit
      /\ upset \subseteq upset'
      /\ cancelled /\ ha.calls.guard = "off" /\ ha.user = "disable" => "crossed" \in upset'
  BY DEF Saver!Becomes
<1>2. plug \in BOOLEAN /\ dark \in 0 .. Saver!Long /\ Saver!Long \in Nat
  BY LongNat DEF PowerInv, Types, WorldTypes, Good, SaverLimits
<1>3. plug' \in BOOLEAN
  BY <1>1, <1>2, Zenon
<1>4. dark' \in 0 .. Saver!Long
  BY <1>1, <1>2 DEF Saver!Lit
<1>5. Good(ha)'
  BY <1>1 DEF Keeps, Good, Tidy, SaverLimits
<1>6. ASSUME Sound'
      PROVE  Sound
  BY <1>1, <1>6 DEF Sound
<1>7. ASSUME Sound', ~ha.saver.enabled
      PROVE  plug' /\ \A t \in Saver!Tasks : s.calls[t] \notin {"off", "did off"}
  <2>1. plug /\ \A t \in Saver!Tasks : ha.calls[t] \notin {"off", "did off"}
    BY <1>6, <1>7 DEF PowerInv, Powered
  <2>2. plug'
    BY <1>1, <2>1 DEF Saver!Tasks
  <2>3. \A t \in Saver!Tasks : s.calls[t] \notin {"off", "did off"}
    BY <1>7, <2>1 DEF Keeps, Same
  <2> QED
    BY <2>2, <2>3
<1>8. ASSUME Sound', s.user = "disable", s.calls.user \in {"did on", "back"}
      PROVE  plug'
  <2>1. plug /\ ha.user = "disable"
    BY <1>6, <1>8 DEF PowerInv, Powered, Keeps, Same
  <2>2. ~(cancelled /\ ha.calls.guard = "off")
    BY <1>1, <1>8, <2>1 DEF Sound
  <2> QED
    BY <1>1, <2>1, <2>2
<1>9. Powered'
  BY <1>1, <1>7, <1>8 DEF Powered, Keeps, Same
<1> QED
  BY <1>3, <1>4, <1>5, <1>9

(* A step that changes neither the integration nor the plug. *)
LEMMA PoweredStays ==
  ASSUME Powered, plug' = plug, ha'.saver.enabled = ha.saver.enabled, ha'.user = ha.user,
         ha'.calls = ha.calls, upset \subseteq upset'
  PROVE  Powered'
BY DEF Powered, Sound

LEMMA WorldStays ==
  ASSUME WorldTypes, UNCHANGED <<shared, entity, robot, cloud, heard>>, fresh' \in BOOLEAN,
         plug' \in BOOLEAN, dark' \in 0 .. Saver!Long
  PROVE  WorldTypes'
BY DEF WorldTypes

LEMMA BecomesKeeps ==
  ASSUME PowerInv, NEW s, NEW why, Saver!Becomes(s, why), Keeps(ha, s),
         UNCHANGED <<shared, entity, robot, cloud, heard>>, fresh' \in BOOLEAN
  PROVE  PowerInv'
BY BecomesGood, WorldStays DEF PowerInv, Types

(* A call is answered, in whatever task. *)
Answered(s, who, c) == [s EXCEPT !.calls[who] = c]

LEMMA CallMoves ==
  ASSUME NEW s, Good(s), NEW who \in Saver!Tasks, s.calls[who] # "none",
         NEW c \in CallStates \ {"none"}, who = "user" => c \notin {"off", "did off"}
  PROVE  LET t == Answered(s, who, c)
         IN  /\ Good(t) /\ t.user = s.user /\ t.saver = s.saver /\ t.guard = s.guard /\ t.eval = s.eval
             /\ t.calls[who] = c /\ \A w \in Saver!Tasks : w # who => t.calls[w] = s.calls[w]
<1> DEFINE t == Answered(s, who, c)
<1>1. s \in HomeStates /\ s.calls \in [Saver!Tasks -> CallStates]
  BY DEF Good, HomeStates
<1>2. /\ t \in HomeStates /\ t.calls = [s.calls EXCEPT ![who] = c]
      /\ t.eval = s.eval /\ t.guard = s.guard /\ t.saver = s.saver /\ t.stored = s.stored
      /\ t.user = s.user
  BY <1>1 DEF HomeStates, Answered
<1> HIDE DEF t
<1>3. /\ t.calls[who] = c
      /\ \A w \in Saver!Tasks : w # who => t.calls[w] = s.calls[w]
  BY <1>1, <1>2
<1>4. Tidy(t)
  <2>1. CASE who = "guard"
    BY <1>2, <1>3, <2>1 DEF Good, Tidy, Saver!Tasks
  <2>2. CASE who = "eval"
    BY <1>2, <1>3, <2>2 DEF Good, Tidy, Saver!Tasks
  <2>3. CASE who = "user"
    BY <1>2, <1>3, <2>3 DEF Good, Tidy, Saver!Tasks
  <2> QED
    BY <2>1, <2>2, <2>3 DEF Saver!Tasks
<1> QED
  BY <1>2, <1>3, <1>4 DEF Good, t

LEMMA ObeyKeepsPower ==
  ASSUME PowerInv, NEW who \in Saver!Tasks, Saver!PlugObeys(who)
  PROVE  PowerInv'
<1> DEFINE c == IF ha.calls[who] = "on" THEN "did on" ELSE "did off"
           t == Answered(ha, who, c)
<1>1. /\ ha.calls[who] \in {"on", "off"} /\ ha' = t
      /\ plug' = IF entity.state = "gone" THEN plug ELSE ha.calls[who] = "on"
      /\ Saver!Lit /\ upset \subseteq upset'
      /\ entity.state = "gone" => "blind" \in upset'
      /\ ha.calls[who] = "off" /\ ha.user = "disable" => "crossed" \in upset'
      /\ UNCHANGED Saver!World
  BY DEF Saver!PlugObeys, Answered
<1>2. /\ Good(ha) /\ plug \in BOOLEAN /\ dark \in 0 .. Saver!Long /\ fresh \in BOOLEAN
      /\ WorldTypes /\ Saver!Long \in Nat
  BY LongNat DEF PowerInv, Types, WorldTypes, Good, SaverLimits
<1>3. who = "user" => ha.calls[who] = "on"
  BY <1>1, <1>2 DEF Good, Tidy
<1>4. /\ Good(t) /\ t.user = ha.user /\ t.saver = ha.saver
      /\ t.calls[who] = c /\ \A w \in Saver!Tasks : w # who => t.calls[w] = ha.calls[w]
  <2>1. /\ c \in CallStates \ {"none"} /\ (who = "user" => c \notin {"off", "did off"})
        /\ ha.calls[who] # "none"
    BY <1>1, <1>3 DEF CallStates
  <2> HIDE DEF c
  <2> QED
    BY <1>1, <1>2, <2>1, CallMoves
<1>5. plug' \in BOOLEAN
  BY <1>1, <1>2, Zenon
<1>6. dark' \in 0 .. Saver!Long
  <2>1. 0 \in 0 .. Saver!Long
    BY <1>2
  <2> QED
    BY <1>1, <1>2, <2>1, Zenon DEF Saver!Lit
<1>7. Types'
  BY <1>1, <1>2, <1>4, <1>5, <1>6, WorldStays DEF Types, Saver!World, Good, SaverLimits
<1>8. ASSUME Sound'
      PROVE  /\ Sound /\ plug' = (ha.calls[who] = "on")
             /\ ha.calls[who] = "off" => ha.user # "disable"
  BY <1>1, <1>8 DEF Sound
<1>9. ASSUME Sound', ~ha.saver.enabled
      PROVE  plug' /\ \A w \in Saver!Tasks : t.calls[w] \notin {"off", "did off"}
  <2>1. plug /\ \A w \in Saver!Tasks : ha.calls[w] \notin {"off", "did off"}
    BY <1>8, <1>9 DEF PowerInv, Powered
  <2>2. ha.calls[who] = "on" /\ t.calls[who] = "did on"
    BY <1>1, <1>4, <2>1
  <2> HIDE DEF t
  <2> QED
    BY <1>4, <1>8, <1>9, <2>1, <2>2
<1>10. ASSUME Sound', ha.user = "disable"
       PROVE  plug'
  BY <1>1, <1>8, <1>10
<1>11. Powered'
  <2> HIDE DEF t
  <2> QED
    BY <1>1, <1>4, <1>9, <1>10 DEF Powered
<1> QED
  BY <1>7, <1>11 DEF PowerInv

LEMMA ReturnKeepsPower ==
  ASSUME PowerInv, NEW who \in Saver!Tasks, Saver!CallReturns(who)
  PROVE  PowerInv'
<1> DEFINE want == IF ha.calls[who] = "did on" THEN "on" ELSE "off"
           s    == Answered(ha, who, "back")
           t    == IF who = "guard" /\ ha.guard.at = "pulsing" THEN s
                   ELSE Saver!Switched(s, who, want, TRUE)
<1>1. /\ ha.calls[who] \in {"did on", "did off"} /\ Saver!Becomes(t, {})
      /\ UNCHANGED Saver!World
  BY DEF Saver!CallReturns, Answered
<1>2. Good(ha) /\ fresh \in BOOLEAN
  BY DEF PowerInv, Types, WorldTypes
<1>3. /\ Good(s) /\ s.user = ha.user /\ s.saver = ha.saver /\ s.guard = ha.guard /\ s.eval = ha.eval
      /\ s.calls[who] = "back" /\ \A w \in Saver!Tasks : w # who => s.calls[w] = ha.calls[w]
  <2> DEFINE c == "back"
             r == Answered(ha, who, c)
  <2>1. /\ c \in CallStates \ {"none"} /\ (who = "user" => c \notin {"off", "did off"})
        /\ ha.calls[who] # "none"
    BY <1>1 DEF CallStates
  <2> HIDE DEF c
  <2>2. /\ Good(r) /\ r.user = ha.user /\ r.saver = ha.saver /\ r.guard = ha.guard
        /\ r.eval = ha.eval /\ r.calls[who] = c
        /\ \A w \in Saver!Tasks : w # who => r.calls[w] = ha.calls[w]
    BY <1>2, <2>1, CallMoves
  <2> QED
    BY <2>2 DEF c
<1>4. Places(s, who)
  BY <1>1, <1>2, <1>3 DEF Good, Tidy, Places, HomeStates, Guards, Quiet, Calling
<1>5. Keeps(s, t)
  <2>1. want \in {"on", "off"}
    OBVIOUS
  <2> HIDE DEF s, want
  <2> QED
    BY <1>3, <1>4, <2>1, SwitchedKeeps, KeepsItself
<1>6. CASE who # "user"
  <2>1. Same(ha, s)
    BY <1>3, <1>6 DEF Same, Saver!Tasks
  <2>2. Keeps(ha, t)
    <3> HIDE DEF s, t
    <3> QED
      BY <1>3, <1>5, <2>1, KeepsOn DEF Keeps
  <2> HIDE DEF t
  <2> QED
    BY <1>1, <1>2, <2>2, BecomesKeeps DEF Saver!World
<1>7. CASE who = "user"
  <2>1. ha.calls.user = "did on"
    BY <1>1, <1>2, <1>7 DEF Good, Tidy
  <2>2. t = Saver!Cleared(s)
    BY <1>7, <2>1 DEF Saver!Switched
  <2>3. Saver!Cleared(s).calls = s.calls /\ ha.user # "none" /\ ha.saver.enabled
    BY <1>2, <1>3, <2>1 DEF Saver!Cleared, Saver!Saved, Good, Tidy, HomeStates
  <2>4. s.calls.guard = ha.calls.guard
    BY <1>3, <1>7 DEF Saver!Tasks
  <2> HIDE DEF s
  <2>5. ha' = t /\ plug' = plug /\ Saver!Lit /\ upset' = upset
    BY <1>1, <2>2, <2>3, <2>4 DEF Saver!Becomes
  <2> HIDE DEF t
  <2>6. Types'
    <3>1. WorldTypes /\ plug \in BOOLEAN /\ dark \in 0 .. Saver!Long /\ Saver!Long \in Nat
      BY LongNat DEF PowerInv, Types, WorldTypes, Good, SaverLimits
    <3>2. 0 \in 0 .. Saver!Long
      BY <3>1
    <3>3. dark' \in 0 .. Saver!Long
      BY <2>5, <3>1, <3>2, Zenon DEF Saver!Lit
    <3>4. WorldTypes'
      BY <1>1, <1>2, <2>5, <3>1, <3>3, WorldStays DEF Saver!World
    <3> QED
      BY <1>5, <2>5, <3>4 DEF Types, Good, SaverLimits, Keeps, Tidy
  <2>7. Powered'
    BY <1>3, <1>5, <2>1, <2>3, <2>5 DEF PowerInv, Powered, Sound, Keeps, Same
  <2> QED
    BY <2>6, <2>7 DEF PowerInv
<1> QED
  BY <1>6, <1>7

(* Steps after which neither the plug nor what concerns it has changed. *)
LEMMA QuietStep ==
  ASSUME PowerInv, Good(ha'), UNCHANGED <<plug, dark>>, UNCHANGED Saver!World, upset \subseteq upset',
         ha'.saver.enabled = ha.saver.enabled, ha'.user \in {ha.user, "none"},
         \A w \in Saver!Tasks : ha'.calls[w] \in {ha.calls[w], "none"}
  PROVE  PowerInv'
<1>1. Types'
  BY WorldStays DEF PowerInv, Types, WorldTypes, Saver!World, Good, SaverLimits, Tidy
<1>2. ha'.user = "disable" => ha.user = "disable"
  OBVIOUS
<1>3. ha'.calls.user \in {"did on", "back"} => ha.calls.user \in {"did on", "back"}
  BY DEF Saver!Tasks
<1>4. Powered'
  <2>1. ASSUME Sound'
        PROVE  Sound
    BY <2>1 DEF Sound
  <2> QED
    BY <1>2, <1>3, <2>1 DEF PowerInv, Powered
<1> QED
  BY <1>1, <1>4 DEF PowerInv

LEMMA FailKeepsPower ==
  ASSUME PowerInv, NEW who \in Saver!Tasks, Saver!CallFails(who)
  PROVE  PowerInv'
<1>1. /\ Good(ha) /\ ha \in HomeStates /\ ha.calls \in [Saver!Tasks -> CallStates]
      /\ Saver!NoGuard \in Guards /\ Saver!NoEval \in Evals /\ Saver!NoGuard.at = "none" /\ Saver!NoEval.at = "idle"
  BY DEF PowerInv, Types, Good, HomeStates, SaverLimits, Saver!NoGuard, Saver!NoEval, Guards,
     Evals, Statuses, Quiet, Saver!None
<1>2. UNCHANGED <<plug, dark>> /\ UNCHANGED Saver!World /\ upset \subseteq upset'
  BY DEF Saver!CallFails, Saver!Fault
<1>3. /\ ha' \in HomeStates /\ ha'.calls = [ha.calls EXCEPT ![who] = "none"]
      /\ ha'.saver = ha.saver /\ ha'.stored = ha.stored
      /\ ha'.user = (IF who = "user" THEN "none" ELSE ha.user)
      /\ ha'.guard = (IF who = "guard" THEN Saver!NoGuard ELSE ha.guard)
      /\ ha'.eval = (IF who = "eval" THEN Saver!NoEval ELSE ha.eval)
  <2>1. CASE who = "guard"
    BY <1>1, <2>1 DEF Saver!CallFails, HomeStates, CallStates
  <2>2. CASE who = "eval"
    BY <1>1, <2>2 DEF Saver!CallFails, HomeStates, CallStates
  <2>3. CASE who = "user"
    BY <1>1, <2>3 DEF Saver!CallFails, HomeStates, CallStates
  <2> QED
    BY <2>1, <2>2, <2>3 DEF Saver!Tasks
<1>4. \A w \in Saver!Tasks : ha'.calls[w] = IF w = who THEN "none" ELSE ha.calls[w]
  BY <1>1, <1>3
<1>5. Tidy(ha')
  BY <1>1, <1>3, <1>4 DEF Good, Tidy, Saver!Tasks
<1> QED
  BY <1>1, <1>2, <1>3, <1>4, <1>5, QuietStep DEF Good

LEMMA GuardKeepsPower ==
  ASSUME PowerInv, Saver!GuardLoops \/ Saver!GuardWakes \/ Saver!GuardGoesOn
  PROVE  PowerInv'
<1>1. Types /\ Good(ha) /\ ha \in HomeStates /\ ha.guard \in Guards /\ ha.saver \in Savers /\ fresh \in BOOLEAN
  BY DEF PowerInv, Types, WorldTypes, Good, HomeStates
<1>2. ASSUME NEW s, Keeps(ha, s), Saver!GuardStep(s)
      PROVE  PowerInv'
  BY <1>1, <1>2, BecomesKeeps DEF Saver!GuardStep, Saver!World
<1>3. /\ Guard \in Nat /\ entity.since \in 0 .. Guard
      /\ \A n \in 0 .. Guard, at \in Quiet : [at |-> at, wake |-> n] \in Guards
  BY <1>1 DEF Good, SaverLimits, Guards, Quiet, Types, WorldTypes
<1>4. Keeps(ha, ha)
  BY <1>1, KeepsItself
<1>5. CASE Saver!GuardLoops
  <2>1. ha.guard.at = "loop" /\ ha.calls.guard = "none"
    BY <1>1, <1>5 DEF Saver!GuardLoops, Good, Tidy, Quiet
  <2>2. \A n \in 0 .. Guard, at \in Quiet : Keeps(ha, Saver!Asleep(ha, at, n))
    BY <1>1, <1>3, <2>1, GuardSet DEF Saver!Asleep
  <2>3. Saver!NoGuard \in Guards /\ Keeps(ha, [ha EXCEPT !.guard = Saver!NoGuard])
    <3>0. 0 \in 0 .. Guard
      BY <1>3
    <3>1. Saver!NoGuard \in Guards
      BY <3>0 DEF Saver!NoGuard, Guards, Quiet
    <3> QED
      BY <1>1, <2>1, <3>1, GuardSet
  <2>4. Keeps(ha, Saver!Saved([ha EXCEPT !.saver.due = Saver!None, !.guard = Saver!NoGuard]))
    <3> DEFINE r == [ha EXCEPT !.saver.due = Saver!None]
               t == [r EXCEPT !.guard = Saver!NoGuard]
    <3>1. Keeps(ha, r)
      BY <1>1, DeadlineSet DEF Saver!Left
    <3>2. r.calls.guard = "none"
      BY <1>1, <2>1 DEF HomeStates
    <3>3. t = [ha EXCEPT !.saver.due = Saver!None, !.guard = Saver!NoGuard]
      BY <1>1 DEF HomeStates
    <3> HIDE DEF r
    <3>4. Keeps(ha, t)
      BY <2>3, <3>1, <3>2, GuardSet, KeepsOn DEF Keeps
    <3> HIDE DEF t
    <3>5. Keeps(ha, Saver!Saved(t))
      BY <3>4, SavedKeeps, KeepsOn DEF Keeps
    <3> QED
      BY <3>3, <3>5
  <2>5. Keeps(ha, Saver!Saved([ha EXCEPT !.saver.due = Guard - entity.since]))
    <3> DEFINE d == Guard - entity.since
               t == [ha EXCEPT !.saver.due = d]
    <3>1. d \in Saver!Left
      BY <1>3 DEF Saver!Left
    <3> HIDE DEF d
    <3>2. Keeps(ha, t)
      BY <1>1, <3>1, DeadlineSet
    <3> HIDE DEF t
    <3>3. Keeps(ha, Saver!Saved(t))
      BY <3>2, SavedKeeps, KeepsOn DEF Keeps
    <3> QED
      BY <3>3 DEF t, d
  <2>6. ha.saver.pulse \in Saver!Left /\ ha.saver.due \in Saver!Left
    BY <1>1 DEF Savers
  <2>7. \A n \in Saver!Left : n > 0 => n \in 0 .. Guard
    BY <1>3 DEF Saver!Left, Saver!None
  <2>8. Keeps(ha, Saver!PulseIsOver) /\ Keeps(ha, Saver!GuardIsDue)
    BY <1>1, <2>1, PulseIsOverKeeps, GuardIsDueKeeps
  <2>9. 0 \in 0 .. Guard /\ "retry" \in Quiet /\ "sleep" \in Quiet
    BY <1>3 DEF Quiet
  <2> DEFINE s == IF ~ha.saver.enabled THEN [ha EXCEPT !.guard = Saver!NoGuard]
                  ELSE IF entity.state = "gone" THEN Saver!Asleep(ha, "retry", 0)
                  ELSE IF ha.saver.pulse > 0 THEN Saver!Asleep(ha, "sleep", ha.saver.pulse)
                  ELSE IF ha.saver.pulse = 0 THEN Saver!PulseIsOver
                  ELSE IF entity.state = "on"
                  THEN Saver!Saved([ha EXCEPT !.saver.due = Saver!None, !.guard = Saver!NoGuard])
                  ELSE IF ha.saver.due = Saver!None
                  THEN Saver!Saved([ha EXCEPT !.saver.due = Guard - entity.since])
                  ELSE IF ha.saver.due > 0 THEN Saver!Asleep(ha, "sleep", ha.saver.due)
                  ELSE Saver!GuardIsDue
  <2>10. Saver!GuardStep(s)
    BY <1>5 DEF Saver!GuardLoops
  <2>11. Keeps(ha, s)
    BY <2>2, <2>3, <2>4, <2>5, <2>6, <2>7, <2>8, <2>9
  <2> HIDE DEF s
  <2> QED
    BY <1>2, <2>10, <2>11
<1>6. CASE Saver!GuardWakes
  <2> DEFINE g == [Saver!NoGuard EXCEPT !.at = "loop"]
  <2>1. g = [at |-> "loop", wake |-> 0]
    BY DEF Saver!NoGuard
  <2>2. g \in Guards /\ ha.calls.guard = "none"
    <3>0. 0 \in 0 .. Guard
      BY <1>3
    <3>1. g \in Guards
      BY <2>1, <3>0 DEF Guards, Quiet
    <3>2. ha.calls.guard = "none"
      BY <1>1, <1>6 DEF Saver!GuardWakes, Good, Tidy, Quiet
    <3> QED
      BY <3>1, <3>2
  <2>3. Saver!GuardStep([ha EXCEPT !.guard = g])
    BY <1>6 DEF Saver!GuardWakes
  <2> HIDE DEF g
  <2>4. Keeps(ha, [ha EXCEPT !.guard = g])
    BY <1>1, <2>2, GuardSet
  <2> QED
    BY <1>2, <2>3, <2>4
<1>7. CASE Saver!GuardGoesOn
  <2> DEFINE s == [ha EXCEPT !.calls.guard = "none"]
             g == IF ha.guard.at = "charging" THEN Saver!NoGuard ELSE [ha.guard EXCEPT !.at = "loop"]
             t == [s EXCEPT !.guard = g]
  <2>1. ha.calls.guard = "back" /\ ha.guard.at \notin Quiet
    BY <1>1, <1>7 DEF Saver!GuardGoesOn, Good, Tidy
  <2>2. Keeps(ha, s)
    <3>1. Places(ha, "guard")
      BY <1>1, <2>1 DEF Places, Guards
    <3> QED
      BY <1>1, <3>1, CallSet DEF CallStates
  <2>3. s.calls.guard = "none" /\ s.guard = ha.guard
    BY <1>1 DEF HomeStates, Saver!Tasks
  <2>4. g \in Guards
    BY <1>1, <1>3 DEF Saver!NoGuard, Guards, Quiet
  <2>5. Saver!GuardStep(t)
    BY <1>1, <1>7 DEF Saver!GuardGoesOn, HomeStates
  <2> HIDE DEF s, g
  <2>6. Keeps(s, t)
    BY <2>2, <2>3, <2>4, GuardSet DEF Keeps
  <2> HIDE DEF t
  <2> QED
    BY <1>2, <2>2, <2>5, <2>6, KeepsOn
<1> QED
  BY <1>5, <1>6, <1>7

LEMMA SettleKeepsPower ==
  ASSUME PowerInv, Saver!SettleEnds
  PROVE  PowerInv'
<1>1. /\ Good(ha) /\ ha \in HomeStates /\ ha.calls \in [Saver!Tasks -> CallStates] /\ ha.guard \in Guards
  BY DEF PowerInv, Types, Good, HomeStates
<1>2. UNCHANGED <<plug, dark>> /\ UNCHANGED Saver!World /\ upset \subseteq upset'
  BY DEF Saver!SettleEnds, Saver!Fault
<1>3. /\ ha' \in HomeStates /\ ha'.calls = [ha.calls EXCEPT !.guard = "none"]
      /\ ha'.saver = ha.saver /\ ha'.stored = ha.stored /\ ha'.user = ha.user
      /\ ha'.eval = ha.eval
  BY <1>1 DEF Saver!SettleEnds, HomeStates, CallStates, Guards, Quiet
<1>4. \A w \in Saver!Tasks : ha'.calls[w] = IF w = "guard" THEN "none" ELSE ha.calls[w]
  BY <1>1, <1>3
<1>5. Tidy(ha')
  BY <1>1, <1>3, <1>4 DEF Good, Tidy, Saver!Tasks
<1> QED
  BY <1>1, <1>2, <1>3, <1>4, <1>5, QuietStep DEF Good

-----------------------------------------------------------------------------
LEMMA EvalBeginsKeepsPower ==
  ASSUME PowerInv, Saver!EvalBegins
  PROVE  PowerInv'
<1> DEFINE e == [at |-> "begun", status |-> Saver!Status, battery |-> Saver!Battery, resuming |-> FALSE]
           s == [ha EXCEPT !.eval = e]
           r == [s EXCEPT !.eval.at = "resuming", !.eval.resuming = TRUE]
           f == [e EXCEPT !.at = "resuming", !.resuming = TRUE]
           t == IF ~s.saver.enabled THEN Saver!Ended(s)
                ELSE IF s.saver.phase = "manual_charge" /\ Saver!Status = "docked"
                THEN IF s.recheck = "due" THEN Saver!At(s, "manual") ELSE Saver!Ended(Saver!Rechecked(s))
                ELSE IF s.saver.phase = "recovery_charge" /\ Saver!Status = "docked"
                        /\ Saver!Battery >= Resume /\ s.task
                THEN r
                ELSE Saver!Evaluated(s)
<1>1. Good(ha) /\ WorldTypes /\ SaverLimits /\ ha \in HomeStates /\ ha.eval.at = "idle"
  BY DEF PowerInv, Types, Good, Saver!EvalBegins
<1>2. Saver!Status \in Statuses /\ Saver!Battery \in Saver!None .. Limit
  BY <1>1, Heard
<1>3. e \in Evals /\ e.at = "begun" /\ f \in Evals /\ f.at = "resuming"
  BY <1>2 DEF Evals, EvalPlaces
<1>4. Keeps(ha, s) /\ s.eval = e
  <2> HIDE DEF e
  <2> QED
    BY <1>1, <1>3, EvalSet
<1>5. Good(s) /\ r = [s EXCEPT !.eval = f]
  BY <1>4 DEF Keeps, Good, HomeStates
<1>6. Saver!EvalStep(t, {}) /\ fresh' = TRUE
  BY DEF Saver!EvalBegins
<1> HIDE DEF s, f, e, r
<1>7. Keeps(s, Saver!Ended(s)) /\ Keeps(s, Saver!At(s, "manual")) /\ Keeps(s, Saver!Evaluated(s))
  BY <1>1, <1>5, EndedKeeps, AtKeeps, EvaluatedKeeps DEF EvalPlaces
<1>8. Keeps(s, Saver!Ended(Saver!Rechecked(s)))
  BY <1>5, RecheckedKeeps, EndedKeeps, KeepsOn DEF Keeps
<1>9. Keeps(s, r)
  BY <1>3, <1>5, EvalSet
<1>10. Keeps(s, t)
  BY <1>7, <1>8, <1>9
<1> HIDE DEF t
<1>11. Keeps(ha, t)
  BY <1>4, <1>10, KeepsOn
<1> QED
  BY <1>6, <1>11, BecomesKeeps DEF Saver!EvalStep

LEMMA EvalStepKeepsPower ==
  ASSUME PowerInv, NEW s, NEW why, Keeps(ha, s), Saver!EvalStep(s, why), UNCHANGED fresh
  PROVE  PowerInv'
<1>1. fresh' \in BOOLEAN
  BY DEF PowerInv, Types, WorldTypes
<1> QED
  BY <1>1, BecomesKeeps DEF Saver!EvalStep

LEMMA EvalGoesOnKeepsPower ==
  ASSUME PowerInv, Saver!EvalGoesOn
  PROVE  PowerInv'
<1> DEFINE s == [ha EXCEPT !.calls.eval = "none"]
           t == CASE ha.eval.at = "end"    -> Saver!Ended(s)
                  [] ha.eval.at = "resume" ->
                        IF s.saver.enabled THEN Saver!At(Saver!Phase(s, "mowing"), "continue") ELSE Saver!Ended(s)
                  [] OTHER                 -> s
<1>1. Good(ha) /\ ha \in HomeStates /\ Places(ha, "eval")
  BY DEF PowerInv, Types, Good, Saver!EvalGoesOn, Tidy, Places
<1>2. Keeps(ha, s)
  BY <1>1, CallSet DEF CallStates
<1>3. Saver!EvalStep(t, {}) /\ UNCHANGED fresh
  BY DEF Saver!EvalGoesOn
<1> HIDE DEF s
<1>4. Keeps(s, Saver!Ended(s)) /\ Keeps(s, s)
  BY <1>2, EndedKeeps, KeepsItself DEF Keeps
<1>5. Keeps(s, Saver!At(Saver!Phase(s, "mowing"), "continue"))
  <2> DEFINE p == Saver!Phase(s, "mowing")
  <2>1. "mowing" \in Saver!Phases /\ "continue" \in EvalPlaces
    BY DEF Saver!Phases, EvalPlaces
  <2>2. Keeps(s, p)
    BY <1>2, <2>1, PhaseKeeps DEF Keeps
  <2> HIDE DEF p
  <2>3. Keeps(p, Saver!At(p, "continue"))
    BY <2>1, <2>2, AtKeeps DEF Keeps
  <2> QED
    BY <2>2, <2>3, KeepsOn DEF p
<1>6. Keeps(s, t)
  BY <1>4, <1>5
<1> HIDE DEF t
<1> QED
  BY <1>2, <1>3, <1>6, KeepsOn, EvalStepKeepsPower

LEMMA DownloadKeepsPower ==
  ASSUME PowerInv, Saver!EventsArrive \/ Saver!DownloadFails
  PROVE  PowerInv'
<1>1. /\ Good(ha) /\ ha \in HomeStates /\ WorldTypes /\ ha.eval.at \in Saver!Downloading /\ UNCHANGED fresh
      /\ cloud \in Saver!Codes
  BY DEF PowerInv, Types, WorldTypes, Good, Saver!EventsArrive, Saver!DownloadFails
<1>2. Keeps(ha, Saver!Events) /\ Saver!Events.eval = ha.eval
  <2>1. /\ Keeps(ha, [ha EXCEPT !.known = cloud, !.recent = TRUE])
        /\ [ha EXCEPT !.known = cloud, !.recent = TRUE].eval = ha.eval
    BY <1>1 DEF Good, Keeps, Same, Tidy, HomeStates
  <2> QED
    BY <1>1, <2>1, KeepsItself DEF Saver!Events
<1>3. Keeps(ha, Saver!Informed(Saver!Events)) /\ Keeps(ha, Saver!Informed(ha))
  <2>1. Keeps(Saver!Events, Saver!Informed(Saver!Events))
    BY <1>1, <1>2, InformedKeeps DEF Keeps
  <2> QED
    BY <1>1, <1>2, <2>1, InformedKeeps, KeepsOn
<1> QED
  BY <1>1, <1>3, EvalStepKeepsPower DEF Saver!EventsArrive, Saver!DownloadFails

LEMMA EvalEndsKeepsPower ==
  ASSUME PowerInv, Saver!RecheckIsDue \/ Saver!ThrottleEnds \/ Saver!ContinueFails
  PROVE  PowerInv'
<1>1. Good(ha) /\ ha \in HomeStates
  BY DEF PowerInv, Types, Good
<1>2. UNCHANGED <<plug, dark>> /\ UNCHANGED Saver!World /\ upset \subseteq upset'
  BY DEF Saver!RecheckIsDue, Saver!ThrottleEnds, Saver!ContinueFails, Saver!Fault
<1>3. CASE Saver!RecheckIsDue \/ Saver!ThrottleEnds
  <2>1. /\ ha' \in HomeStates /\ Tidy(ha') /\ ha'.saver = ha.saver /\ ha'.user = ha.user
        /\ ha'.calls = ha.calls
    BY <1>1, <1>3 DEF Saver!RecheckIsDue, Saver!ThrottleEnds, HomeStates, Good, Tidy
  <2> QED
    BY <1>1, <1>2, <2>1, QuietStep DEF Good
<1>4. CASE Saver!ContinueFails
  <2> DEFINE p == Saver!Phase(ha, "recovery_charge")
  <2>1. ha' = Saver!Ended(p)
    BY <1>4 DEF Saver!ContinueFails
  <2>2. Keeps(ha, p) /\ p.calls = ha.calls
    BY <1>1, PhaseKeeps DEF Saver!Phase, Saver!Saved, HomeStates, Saver!Phases
  <2> HIDE DEF p
  <2>3. Keeps(ha, Saver!Ended(p)) /\ Good(p)
    BY <2>2, EndedKeeps, KeepsOn DEF Keeps
  <2>4. \A w \in Saver!Tasks : Saver!Ended(p).calls[w] \in {p.calls[w], "none"}
    BY <2>3 DEF Saver!Ended, Good, HomeStates
  <2> QED
    BY <1>2, <2>1, <2>2, <2>3, <2>4, QuietStep DEF Keeps, Same
<1> QED
  BY <1>3, <1>4

-----------------------------------------------------------------------------
(* The user.                                                               *)

LEMMA EnableKeepsPower ==
  ASSUME PowerInv, Saver!Enable
  PROVE  PowerInv'
<1> DEFINE begun == IF Saver!Status = "mowing" THEN "mowing"
                    ELSE IF Saver!Raining(ha) THEN "rain_hold" ELSE "initial_charge"
           v == [ha.saver EXCEPT !.enabled = TRUE, !.phase = begun]
           s == [ha EXCEPT !.saver.enabled = TRUE, !.saver.phase = begun]
           t == Saver!Saved(s)
<1>1. Good(ha) /\ ha \in HomeStates /\ ha.saver \in Savers /\ ha.user = "none" /\ ha' = Saver!Ensured(t)
  BY DEF PowerInv, Types, Good, HomeStates, Saver!Enable
<1>2. begun \in Saver!Phases
  BY DEF Saver!Phases
<1> HIDE DEF begun
<1>3. v \in Savers /\ v.enabled
  BY <1>1, <1>2 DEF Savers
<1>4. s = [ha EXCEPT !.saver = v]
  BY <1>1 DEF HomeStates
<1> HIDE DEF v
<1>5. Good(t) /\ t.user = "none" /\ t.calls = ha.calls /\ t.saver = v
  BY <1>1, <1>3, <1>4 DEF Saver!Saved, HomeStates, Good, Tidy
<1> HIDE DEF t
<1>6. Keeps(t, Saver!Ensured(t))
  BY <1>5, EnsuredKeeps
<1>7. WorldTypes'
  BY WorldStays DEF PowerInv, Types, WorldTypes, Saver!Enable, Saver!World
<1>8. Powered'
  BY <1>1, <1>3, <1>5, <1>6 DEF Powered, Keeps, Same
<1> QED
  BY <1>1, <1>6, <1>7, <1>8 DEF PowerInv, Types, Keeps

(* The user's call to switch the plug on, while the saver is still on. *)
LEMMA UserSwitches ==
  ASSUME Types, ha.saver.enabled, ha.user = "none", NEW u \in {"disable", "prepare"}
  PROVE  LET t == Saver!SetCharger([ha EXCEPT !.user = u], "user", "on", FALSE)
         IN  /\ Good(t) /\ t.saver.enabled /\ t.user = u
             /\ t.calls.user \in {"on", "back"}
             /\ t.calls.user = "back" => entity.state = "on"
<1> DEFINE s == [ha EXCEPT !.user = u]
           c == Saver!Cancelled(s, "user")
           d == Saver!Cleared(c)
           t == Saver!SetCharger(s, "user", "on", FALSE)
<1>1. Good(ha) /\ ha \in HomeStates
  BY DEF Types, Good
<1>2. Good(s) /\ s.user = u /\ s.saver.enabled
  BY <1>1 DEF Good, Tidy, HomeStates
<1>3. t = IF entity.state # "on" THEN [c EXCEPT !.calls.user = "on"]
          ELSE [d EXCEPT !.calls.user = "back"]
  BY <1>2 DEF Saver!SetCharger, Saver!Switched
<1> HIDE DEF s, t
<1>4. Good(c) /\ c.user = u /\ c.saver.enabled
  BY <1>2, CancelledKeeps DEF Keeps, Same, Saver!Tasks
<1> HIDE DEF c
<1>5. Good(d) /\ d.user = u /\ d.saver.enabled
  BY <1>4, ClearedKeeps DEF Keeps, Same
<1> HIDE DEF d
<1>6. ASSUME NEW r, Good(r), r.user = u, r.saver.enabled, NEW call \in {"on", "back"}
      PROVE  LET q == [r EXCEPT !.calls.user = call]
             IN  Good(q) /\ q.user = u /\ q.saver.enabled /\ q.calls.user = call
  <2> DEFINE q == [r EXCEPT !.calls.user = call]
  <2>1. r \in HomeStates /\ r.calls \in [Saver!Tasks -> CallStates] /\ call \in CallStates
    BY <1>6 DEF Good, HomeStates, CallStates
  <2>2. /\ q \in HomeStates /\ q.calls = [r.calls EXCEPT !.user = call] /\ q.user = u
        /\ q.saver = r.saver /\ q.stored = r.stored /\ q.guard = r.guard /\ q.eval = r.eval
    BY <1>6, <2>1 DEF HomeStates
  <2>3. /\ q.calls.user = call /\ q.calls.guard = r.calls.guard /\ q.calls.eval = r.calls.eval
    BY <2>1, <2>2 DEF Saver!Tasks
  <2> HIDE DEF q
  <2>4. Tidy(q)
    BY <1>6, <2>2, <2>3 DEF Good, Tidy
  <2>5. Good(q) /\ q.saver.enabled
    BY <1>6, <2>2, <2>4 DEF Good
  <2> QED
    BY <2>2, <2>3, <2>5 DEF q
<1>7. CASE entity.state # "on"
  <2> DEFINE q == [c EXCEPT !.calls.user = "on"]
  <2>1. Good(q) /\ q.user = u /\ q.saver.enabled /\ q.calls.user = "on"
    BY <1>4, <1>6
  <2>2. t = q
    BY <1>3, <1>7
  <2> HIDE DEF q
  <2> QED
    BY <2>1, <2>2 DEF t, s
<1>8. CASE entity.state = "on"
  <2> DEFINE q == [d EXCEPT !.calls.user = "back"]
  <2>1. Good(q) /\ q.user = u /\ q.saver.enabled /\ q.calls.user = "back"
    BY <1>5, <1>6
  <2>2. t = q
    BY <1>3, <1>8
  <2> HIDE DEF q
  <2> QED
    BY <1>8, <2>1, <2>2 DEF t, s
<1> QED
  BY <1>7, <1>8

LEMMA UserKeepsPower ==
  ASSUME PowerInv, Saver!Disable \/ Saver!Prepare
  PROVE  PowerInv'
<1> DEFINE u == IF Saver!Disable THEN "disable" ELSE "prepare"
           t == Saver!SetCharger([ha EXCEPT !.user = u], "user", "on", FALSE)
<1>1. Types /\ Good(ha) /\ ha.saver.enabled /\ ha.user = "none" /\ UNCHANGED Saver!World
  BY DEF PowerInv, Types, Saver!Disable, Saver!Prepare
<1>2. u \in {"disable", "prepare"}
  OBVIOUS
<1>3. PICK why : Saver!Becomes(t, why) /\ (Saver!Disable /\ Saver!SwitchingOff => "crossed" \in why)
  <2>1. CASE Saver!Disable
    BY <2>1 DEF Saver!Disable
  <2>2. CASE ~Saver!Disable
    BY <2>2 DEF Saver!Prepare
  <2> QED
    BY <2>1, <2>2
<1>4. u = "disable" => Saver!Disable
  OBVIOUS
<1> HIDE DEF u
<1>5. /\ Good(t) /\ t.saver.enabled /\ t.user = u
      /\ t.calls.user \in {"on", "back"}
      /\ t.calls.user = "back" => entity.state = "on"
  BY <1>1, <1>2, UserSwitches
<1> HIDE DEF t
<1>6. /\ ha' = t /\ Saver!Lit /\ upset \subseteq upset' /\ why \subseteq upset'
      /\ plug' = plug \/ (ha.calls.guard \in {"on", "off"} /\ plug' = (ha.calls.guard = "on"))
  BY <1>3 DEF Saver!Becomes
<1>7. plug \in BOOLEAN /\ dark \in 0 .. Saver!Long /\ 0 \in 0 .. Saver!Long /\ fresh \in BOOLEAN
  BY LongNat DEF PowerInv, Types, WorldTypes, Good, SaverLimits
<1>8. plug' \in BOOLEAN
  BY <1>6, <1>7, Zenon
<1>9. dark' \in 0 .. Saver!Long
  BY <1>6, <1>7, Zenon DEF Saver!Lit
<1>10. Types'
  <2>1. WorldTypes'
    BY <1>1, <1>7, <1>8, <1>9, WorldStays DEF Types, Saver!World
  <2> QED
    BY <1>5, <1>6, <2>1 DEF Types, Good, Tidy, SaverLimits
<1>11. ASSUME Sound', t.user = "disable", t.calls.user \in {"did on", "back"}
       PROVE  plug'
  <2>1. ~Saver!SwitchingOff /\ entity.state = "on"
    BY <1>3, <1>4, <1>5, <1>6, <1>11 DEF Sound
  <2>2. plug /\ ha.calls.guard # "off"
    BY <2>1 DEF Saver!SwitchingOff, Saver!Tasks
  <2> QED
    BY <1>6, <2>2
<1>12. Powered'
  BY <1>5, <1>6, <1>11 DEF Powered
<1> QED
  BY <1>10, <1>12 DEF PowerInv

LEMMA DisabledKeepsPower ==
  ASSUME PowerInv, Saver!Disabled
  PROVE  PowerInv'
<1> DEFINE v == [enabled |-> FALSE, phase |-> "disabled", due |-> Saver!None, pulse |-> Saver!None]
           s == [ha EXCEPT !.user = "none", !.calls.user = "none", !.saver = v]
<1>1. /\ Good(ha) /\ ha \in HomeStates /\ ha.calls \in [Saver!Tasks -> CallStates] /\ WorldTypes
      /\ ha.user = "disable" /\ ha.calls.user = "back" /\ ha' = Saver!Saved(s)
      /\ upset \subseteq upset' /\ (Saver!SwitchingOff => "crossed" \in upset')
      /\ UNCHANGED Saver!World /\ plug' = plug /\ dark' = dark
  BY DEF PowerInv, Types, Good, HomeStates, Saver!Disabled
<1>2. v \in Savers /\ ~v.enabled
  BY DEF Savers, Saver!Phases, Saver!Left
<1> HIDE DEF v
<1>3. /\ ha' \in HomeStates /\ ha'.saver = v /\ ha'.stored = v /\ ha'.user = "none"
      /\ ha'.calls = [ha.calls EXCEPT !.user = "none"] /\ ha'.guard = ha.guard /\ ha'.eval = ha.eval
  BY <1>1, <1>2 DEF Saver!Saved, HomeStates, CallStates
<1>4. \A w \in Saver!Tasks : ha'.calls[w] = IF w = "user" THEN "none" ELSE ha.calls[w]
  BY <1>1, <1>3
<1>5. Tidy(ha')
  BY <1>1, <1>3, <1>4 DEF Good, Tidy, Saver!Tasks
<1>6. Types'
  <2>1. WorldTypes'
    BY <1>1, WorldStays DEF Saver!World, WorldTypes
  <2> QED
    BY <1>1, <1>3, <1>5, <2>1 DEF Types, Good, SaverLimits
<1>7. ASSUME Sound'
      PROVE  plug /\ \A w \in Saver!Tasks : ha.calls[w] \notin {"off", "did off"}
  <2>1. Sound /\ ~Saver!SwitchingOff
    BY <1>1, <1>7 DEF Sound
  <2>2. plug
    BY <1>1, <2>1 DEF PowerInv, Powered
  <2> QED
    BY <2>1, <2>2 DEF Saver!SwitchingOff
<1>8. Powered'
  BY <1>1, <1>3, <1>4, <1>7 DEF Powered
<1> QED
  BY <1>6, <1>8 DEF PowerInv

LEMMA PreparedKeepsPower ==
  ASSUME PowerInv, Saver!Prepared \/ Saver!Continues
  PROVE  PowerInv'
<1>1. Good(ha) /\ ha \in HomeStates /\ WorldTypes /\ robot \in Saver!Mowers /\ upset' = upset /\ plug' = plug
  BY DEF PowerInv, Types, WorldTypes, Good, Saver!Prepared, Saver!Continues
<1>2. CASE Saver!Prepared
  <2>1. robot' \in Saver!Mowers
    BY <1>1, <1>2 DEF Saver!Prepared, Saver!SetsOff, Saver!Mowers, Saver!Codes
  <2>2. WorldTypes'
    <3>1. dark' \in 0 .. Saver!Long
      BY <1>1, <1>2, LongNat DEF Saver!Prepared, Good, SaverLimits
    <3> QED
      BY <1>1, <1>2, <2>1, <3>1 DEF Saver!Prepared, WorldTypes
  <2>3. ha.calls \in [Saver!Tasks -> CallStates] /\ ha.user = "prepare"
    BY <1>1, <1>2 DEF HomeStates, Saver!Prepared
  <2>4. /\ ha' \in HomeStates /\ ha'.saver = ha.saver /\ ha'.stored = ha.stored /\ ha'.user = "none"
        /\ ha'.calls = [ha.calls EXCEPT !.user = "none"] /\ ha'.guard = ha.guard /\ ha'.eval = ha.eval
    BY <1>1, <1>2, <2>3 DEF Saver!Prepared, HomeStates, CallStates
  <2>5. \A w \in Saver!Tasks : ha'.calls[w] = IF w = "user" THEN "none" ELSE ha.calls[w]
    BY <2>3, <2>4
  <2>6. Tidy(ha')
    BY <1>1, <2>4, <2>5 DEF Good, Tidy, Saver!Tasks
  <2>7. Powered'
    BY <1>1, <2>4, <2>5 DEF PowerInv, Powered, Sound
  <2> QED
    BY <1>1, <2>2, <2>4, <2>6, <2>7 DEF PowerInv, Types, Good, SaverLimits
<1>3. CASE Saver!Continues
  <2>1. robot' \in Saver!Mowers
    BY <1>1, <1>3 DEF Saver!Continues, Saver!Mowers
  <2>2. WorldTypes'
    BY <1>1, <1>3, <2>1 DEF Saver!Continues, WorldTypes
  <2>3. Keeps(ha, Saver!At(ha, "verify")) /\ Keeps(ha, Saver!Ended(ha))
    BY <1>1, AtKeeps, EndedKeeps DEF EvalPlaces
  <2>4. Keeps(ha, ha')
    BY <1>3, <2>3 DEF Saver!Continues
  <2>5. Powered'
    BY <1>1, <2>4 DEF PowerInv, Powered, Sound, Keeps, Same
  <2> QED
    BY <2>2, <2>4, <2>5 DEF PowerInv, Types, Keeps, Good, SaverLimits
<1> QED
  BY <1>2, <1>3

LEMMA RestartKeepsPower ==
  ASSUME PowerInv, Saver!Restart
  PROVE  PowerInv'
<1>1. /\ Good(ha) /\ SaverLimits /\ ha \in HomeStates /\ ha.calls \in [Saver!Tasks -> CallStates] /\ WorldTypes
      /\ upset \subseteq upset' /\ UNCHANGED <<shared, robot, cloud, fresh>> /\ Saver!Lit
      /\ heard' = FALSE /\ entity' = [state |-> "gone", since |-> 0]
      /\ plug' \in {plug} \cup {ha.calls[t] = "on" : t \in {t \in Saver!Tasks : ha.calls[t] \in {"on", "off"}}}
  BY DEF PowerInv, Types, Good, HomeStates, Saver!Restart
<1> DEFINE g == [Saver!NoGuard EXCEPT !.at = IF ha.stored.enabled THEN "loop" ELSE "none"]
<1>2. g \in Guards /\ Saver!NoEval \in Evals
  <2>1. 0 \in 0 .. Guard /\ Saver!None \in Saver!None .. Limit
    BY <1>1 DEF SaverLimits, Saver!None
  <2> QED
    BY <2>1 DEF Saver!NoGuard, Saver!NoEval, Guards, Evals, Quiet, Statuses
<1>3. Saver!Ensured(ha).stored = ha.stored
  BY <1>1 DEF Saver!Ensured, HomeStates
<1> HIDE DEF g
<1>4. /\ ha' = [ha EXCEPT !.saver = ha.stored, !.eval = Saver!NoEval, !.user = "none", !.guard = g,
                          !.calls = [t \in Saver!Tasks |-> "none"], !.known = "active",
                          !.recent = FALSE, !.recheck = "none"]
  BY <1>3 DEF Saver!Restart, g
<1>5. [t \in Saver!Tasks |-> "none"] \in [Saver!Tasks -> CallStates] /\ "active" \in Saver!Codes
  BY DEF CallStates, Saver!Codes
<1>6. /\ ha' \in HomeStates /\ ha'.saver = ha.stored /\ ha'.stored = ha.stored /\ ha'.user = "none"
      /\ ha'.calls = [t \in Saver!Tasks |-> "none"]
  BY <1>1, <1>2, <1>4, <1>5 DEF HomeStates
<1>7. \A t \in Saver!Tasks : ha'.calls[t] = "none"
  BY <1>6
<1>8. Tidy(ha')
  BY <1>6, <1>7 DEF Tidy, Saver!Tasks
<1>9. plug \in BOOLEAN /\ dark \in 0 .. Saver!Long /\ 0 \in 0 .. Saver!Long /\ 0 \in 0 .. Guard
  BY <1>1, LongNat DEF WorldTypes, SaverLimits
<1>10. plug' = plug \/ \E t \in Saver!Tasks : ha.calls[t] \in {"on", "off"} /\ plug' = (ha.calls[t] = "on")
  BY <1>1
<1>11. plug' \in BOOLEAN
  BY <1>9, <1>10, Zenon
<1>12. dark' \in 0 .. Saver!Long
  BY <1>1, <1>9, Zenon DEF Saver!Lit
<1>13. WorldTypes'
  BY <1>1, <1>9, <1>11, <1>12 DEF WorldTypes
<1>14. ASSUME Sound', ~ha.saver.enabled
       PROVE  plug'
  <2>1. plug /\ \A t \in Saver!Tasks : ha.calls[t] \notin {"off", "did off"}
    BY <1>1, <1>14 DEF PowerInv, Powered, Sound
  <2> QED
    BY <1>10, <2>1
<1>15. Powered'
  BY <1>1, <1>6, <1>7, <1>14 DEF Powered, Good, Tidy
<1> QED
  BY <1>1, <1>6, <1>8, <1>13, <1>15 DEF PowerInv, Types, Good, SaverLimits

-----------------------------------------------------------------------------
(* The mower and time.                                                     *)

LEMMA MowerKeepsPower ==
  ASSUME PowerInv, UNCHANGED <<shared, plug, ha, upset>>, dark' \in {0, dark}, robot' \in Saver!Mowers,
         cloud' \in Saver!Codes, heard' \in BOOLEAN, fresh' \in BOOLEAN,
         entity' \in [state : {"on", "off", "gone"}, since : 0 .. Guard]
  PROVE  PowerInv'
<1>1. Types'
  <2>1. dark \in 0 .. Saver!Long /\ 0 \in 0 .. Saver!Long
    BY LongNat DEF PowerInv, Types, WorldTypes, Good, SaverLimits
  <2> QED
    BY <2>1 DEF PowerInv, Types, WorldTypes, Good, SaverLimits
<1>2. Powered'
  BY DEF PowerInv, Powered, Sound
<1> QED
  BY <1>1, <1>2 DEF PowerInv

LEMMA WorldKeepsPower ==
  ASSUME PowerInv, Saver!ShadowHeard \/ Saver!EventPublished \/ Saver!Obeys \/ Saver!Departs
                   \/ Saver!Returns \/ Saver!Docks \/ Saver!Weather
  PROVE  PowerInv'
<1>1. /\ robot \in Saver!Mowers /\ cloud \in Saver!Codes /\ heard \in BOOLEAN /\ fresh \in BOOLEAN
      /\ robot.code \in Saver!Codes
      /\ entity \in [state : {"on", "off", "gone"}, since : 0 .. Guard]
  BY DEF PowerInv, Types, WorldTypes, Saver!Mowers
<1>2. Saver!SetsOff(robot) \in Saver!Mowers
  BY <1>1 DEF Saver!SetsOff, Saver!Mowers, Saver!Codes
<1>3. Saver!MowerStep /\ cloud' \in Saver!Codes /\ heard' \in BOOLEAN
  BY <1>1 DEF Saver!ShadowHeard, Saver!EventPublished, Saver!Obeys, Saver!Departs,
     Saver!Returns, Saver!Docks, Saver!Weather
<1>4. robot' \in Saver!Mowers
  <2>1. CASE Saver!ShadowHeard \/ Saver!EventPublished
    BY <1>1, <2>1 DEF Saver!ShadowHeard, Saver!EventPublished
  <2>2. CASE Saver!Obeys
    BY <1>1, <1>2, <2>2 DEF Saver!Obeys, Saver!Mowers, Saver!Codes
  <2>3. CASE Saver!Departs
    BY <1>2, <2>3 DEF Saver!Departs
  <2>4. CASE Saver!Returns
    BY <1>1, <2>4 DEF Saver!Returns, Saver!Mowers, Saver!Codes
  <2>5. CASE Saver!Docks
    BY <1>1, <2>5 DEF Saver!Docks, Saver!Mowers
  <2>6. CASE Saver!Weather
    <3>1. (~robot.raining) \in BOOLEAN
      OBVIOUS
    <3> QED
      BY <1>1, <2>6, <3>1 DEF Saver!Weather, Saver!Mowers
  <2> QED
    BY <2>1, <2>2, <2>3, <2>4, <2>5, <2>6
<1>5. fresh' \in BOOLEAN
  BY <1>3 DEF Saver!MowerStep
<1>6. UNCHANGED <<shared, plug, ha, upset>> /\ UNCHANGED entity /\ dark' \in {0, dark}
  BY <1>3 DEF Saver!MowerStep
<1> QED
  BY <1>1, <1>3, <1>4, <1>5, <1>6, MowerKeepsPower

LEMMA EntityKeepsPower ==
  ASSUME PowerInv, Saver!EntityFollows \/ Saver!EntityGone
  PROVE  PowerInv'
<1>1. /\ Good(ha) /\ SaverLimits /\ WorldTypes
  BY DEF PowerInv, Types, Good
<1>2. 0 \in 0 .. Guard
  BY <1>1 DEF SaverLimits
<1>3. entity' \in [state : {"on", "off", "gone"}, since : 0 .. Guard]
  BY <1>2 DEF Saver!EntityFollows, Saver!EntityGone
<1>4. /\ UNCHANGED <<shared, plug, robot, cloud, heard, ha, fresh, dark>> /\ upset \subseteq upset'
  BY DEF Saver!EntityFollows, Saver!EntityGone, Saver!Fault
<1>5. Types'
  BY <1>1, <1>3, <1>4 DEF Types, WorldTypes, Good, SaverLimits
<1>6. Powered'
  BY <1>4, PoweredStays DEF PowerInv
<1> QED
  BY <1>5, <1>6 DEF PowerInv

LEMMA LessStays ==
  ASSUME SaverLimits
  PROVE  /\ \A n \in Saver!Left : Saver!Less(n) \in Saver!Left
         /\ \A n \in 0 .. Guard : Saver!Less(n) \in 0 .. Guard
BY DEF SaverLimits, Saver!Left, Saver!None, Saver!Less

LEMMA TickKeepsPower ==
  ASSUME PowerInv, NEW level, Saver!Tick(level)
  PROVE  PowerInv'
<1>1. /\ Good(ha) /\ SaverLimits /\ ha \in HomeStates /\ WorldTypes /\ robot \in Saver!Mowers
      /\ ha.saver \in Savers /\ ha.stored \in Savers /\ ha.guard \in Guards
      /\ entity \in [state : {"on", "off", "gone"}, since : 0 .. Guard]
  BY DEF PowerInv, Types, WorldTypes, Good, HomeStates
<1>2. /\ level \in 0 .. Limit /\ robot' = [robot EXCEPT !.battery = level]
      /\ UNCHANGED <<shared, plug, cloud, heard, left, upset>> /\ fresh' = FALSE
  BY DEF Saver!Tick
<1>3. robot' \in Saver!Mowers
  BY <1>1, <1>2 DEF Saver!Mowers
<1>4. entity' \in [state : {"on", "off", "gone"}, since : 0 .. Guard]
  <2>1. entity.since \in 0 .. Guard /\ (entity.since # Guard => entity.since + 1 \in 0 .. Guard)
    BY <1>1 DEF SaverLimits
  <2> DEFINE n == IF plug \/ entity.since = Guard THEN entity.since ELSE entity.since + 1
  <2>2. n \in 0 .. Guard
    BY <2>1
  <2>3. entity' = [entity EXCEPT !.since = n]
    BY <1>1 DEF Saver!Tick
  <2> HIDE DEF n
  <2> QED
    BY <1>1, <2>2, <2>3
<1>5. dark' \in 0 .. Saver!Long
  <2>1. dark \in 0 .. Saver!Long /\ 0 \in 0 .. Saver!Long
        /\ (dark < Saver!Long => dark + 1 \in 0 .. Saver!Long)
    BY <1>1, LongNat DEF WorldTypes, SaverLimits
  <2>2. dark' \in {0, dark} \/ (dark < Saver!Long /\ dark' = dark + 1)
    BY DEF Saver!Tick
  <2> QED
    BY <2>1, <2>2
<1> DEFINE v == [ha.saver EXCEPT !.due = Saver!Less(@), !.pulse = Saver!Less(@)]
           w == [ha.stored EXCEPT !.due = Saver!Less(@), !.pulse = Saver!Less(@)]
           g == [ha.guard EXCEPT !.wake = Saver!Less(@)]
<1>6. v \in Savers /\ v.enabled = ha.saver.enabled /\ w \in Savers /\ w.enabled = ha.stored.enabled
  BY <1>1, LessStays DEF Savers
<1>7. g \in Guards /\ g.at = ha.guard.at
  BY <1>1, LessStays DEF Guards
<1>8. ha' = [ha EXCEPT !.saver = v, !.recent = FALSE, !.stored = w, !.guard = g]
  BY <1>1 DEF Saver!Tick, HomeStates
<1> HIDE DEF v, w, g
<1>9. /\ ha' \in HomeStates /\ ha'.saver.enabled = ha.saver.enabled
      /\ ha'.stored.enabled = ha.stored.enabled /\ ha'.guard.at = ha.guard.at
      /\ ha'.eval = ha.eval /\ ha'.user = ha.user /\ ha'.calls = ha.calls
  BY <1>1, <1>6, <1>7, <1>8 DEF HomeStates
<1>10. Tidy(ha')
  BY <1>1, <1>9 DEF Good, Tidy
<1>11. Types'
  BY <1>1, <1>2, <1>3, <1>4, <1>5, <1>9, <1>10 DEF Types, WorldTypes, Good, SaverLimits
<1>12. Powered'
  BY <1>2, <1>9, PoweredStays DEF PowerInv
<1> QED
  BY <1>11, <1>12 DEF PowerInv

-----------------------------------------------------------------------------
(* Where behaviours begin: with the charger powered if the saver is off.    *)

LEMMA InitPower ==
  ASSUME Saver!SaverBounds, Saver!Init
  PROVE  PowerInv
<1>1. PICK s \in BatteryStarts :
        /\ shared = s.shared /\ plug = s.plug /\ robot = s.mower
        /\ entity = [state |-> IF s.plug THEN "on" ELSE "off", since |-> 0]
        /\ cloud = s.mower.code /\ heard = TRUE
        /\ ha = LET saver == [enabled |-> s.phase # "disabled", phase |-> s.phase,
                              due |-> Saver!None, pulse |-> Saver!None]
                IN  [saver |-> saver, stored |-> saver, guard |-> Saver!NoGuard, eval |-> Saver!NoEval,
                     calls |-> [t \in Saver!Tasks |-> "none"], user |-> "none",
                     known |-> s.mower.code, recent |-> FALSE, recheck |-> "none",
                     task |-> TRUE]
        /\ fresh = FALSE /\ dark = 0 /\ upset = {}
  BY DEF Saver!Init
<1>2. /\ shared \in BOOLEAN /\ plug \in BOOLEAN /\ s.phase \in Saver!Phases /\ robot \in Saver!Mowers
      /\ s.phase = "disabled" => plug
  BY <1>1 DEF Saver!SaverBounds
<1>3. /\ SaverLimits /\ 0 \in 0 .. Guard /\ 0 \in 0 .. Saver!Long
      /\ Saver!None \in Saver!None .. Limit /\ Saver!None \in Saver!Left
  BY LongNat DEF Saver!SaverBounds, SaverLimits, Saver!None, Saver!Left
<1>4. Saver!NoGuard \in Guards /\ Saver!NoEval \in Evals /\ Saver!NoGuard.at = "none" /\ Saver!NoEval.at = "idle"
  BY <1>3 DEF Saver!NoGuard, Saver!NoEval, Guards, Evals, Quiet, Statuses
<1>5. robot.code \in Saver!Codes
  BY <1>2 DEF Saver!Mowers
<1> DEFINE saver == [enabled |-> s.phase # "disabled", phase |-> s.phase,
                     due |-> Saver!None, pulse |-> Saver!None]
<1>6. saver \in Savers /\ saver.enabled = (s.phase # "disabled")
  BY <1>2, <1>3 DEF Savers
<1>7. /\ ha = [saver |-> saver, stored |-> saver, guard |-> Saver!NoGuard, eval |-> Saver!NoEval,
               calls |-> [t \in Saver!Tasks |-> "none"], user |-> "none",
               known |-> robot.code, recent |-> FALSE, recheck |-> "none", task |-> TRUE]
  BY <1>1
<1> HIDE DEF saver
<1>8. [t \in Saver!Tasks |-> "none"] \in [Saver!Tasks -> CallStates]
  BY DEF CallStates
<1>9. ha \in HomeStates
  BY <1>4, <1>5, <1>6, <1>7, <1>8 DEF HomeStates
<1>10. Tidy(ha) /\ \A t \in Saver!Tasks : ha.calls[t] = "none"
  BY <1>7 DEF Tidy, Saver!Tasks
<1>11. WorldTypes
  BY <1>1, <1>2, <1>3, <1>5 DEF WorldTypes
<1>12. Powered
  BY <1>2, <1>6, <1>7, <1>10 DEF Powered
<1> QED
  BY <1>3, <1>9, <1>10, <1>11, <1>12 DEF PowerInv, Types, Good

LEMMA StepPower ==
  ASSUME PowerInv, [Saver!Next]_(Saver!vars)
  PROVE  PowerInv'
<1>1. CASE UNCHANGED Saver!vars
  BY <1>1, PoweredStays DEF Saver!vars, PowerInv, Types, WorldTypes, Good, Tidy, SaverLimits
<1>2. CASE Saver!Next
  <2>1. ASSUME NEW who \in Saver!Tasks, Saver!PlugObeys(who) \/ Saver!CallReturns(who) \/ Saver!CallFails(who)
        PROVE  PowerInv'
    BY <2>1, ObeyKeepsPower, ReturnKeepsPower, FailKeepsPower
  <2>2. CASE Saver!EntityFollows \/ Saver!EntityGone
    BY <2>2, EntityKeepsPower
  <2>3. CASE Saver!GuardLoops \/ Saver!GuardWakes \/ Saver!GuardGoesOn \/ Saver!SettleEnds
    BY <2>3, GuardKeepsPower, SettleKeepsPower
  <2>4. CASE Saver!EvalBegins \/ Saver!RecheckIsDue \/ Saver!EvalGoesOn
             \/ Saver!EventsArrive \/ Saver!DownloadFails
    BY <2>4, EvalBeginsKeepsPower, EvalGoesOnKeepsPower, DownloadKeepsPower, EvalEndsKeepsPower
  <2>5. CASE Saver!ThrottleEnds \/ Saver!Continues \/ Saver!ContinueFails
    BY <2>5, EvalEndsKeepsPower, PreparedKeepsPower
  <2>6. CASE Saver!Enable \/ Saver!Disable \/ Saver!Disabled \/ Saver!Prepare
             \/ Saver!Prepared \/ Saver!Restart
    BY <2>6, EnableKeepsPower, UserKeepsPower, DisabledKeepsPower, PreparedKeepsPower,
       RestartKeepsPower
  <2>7. CASE Saver!ShadowHeard \/ Saver!EventPublished \/ Saver!Obeys \/ Saver!Departs
             \/ Saver!Returns \/ Saver!Docks \/ Saver!Weather
    BY <2>7, WorldKeepsPower
  <2>8. CASE Saver!Charges \/ Saver!Lasts \/ Saver!Empties
    BY <2>8, TickKeepsPower DEF Saver!Charges, Saver!Lasts, Saver!Empties
  <2> QED
    BY <1>2, <2>1, <2>2, <2>3, <2>4, <2>5, <2>6, <2>7, <2>8 DEF Saver!Next
<1> QED
  BY <1>1, <1>2

(* What the invariant says of the types and of the charger.                 *)
LEMMA PowerSays ==
  ASSUME PowerInv
  PROVE  Saver!TypeOK /\ PoweredWhenDisabled
<1>1. /\ WorldTypes /\ ha \in HomeStates /\ Tidy(ha) /\ ha.saver \in Savers /\ ha.stored \in Savers
      /\ ha.calls \in [Saver!Tasks -> CallStates] /\ robot \in Saver!Mowers
  BY DEF PowerInv, Types, WorldTypes, Good, HomeStates
<1>2. Saver!TypeOK
  BY <1>1 DEF Saver!TypeOK, WorldTypes, Tidy, Savers, Saver!Mowers, HomeStates, CallStates, Quiet
<1>3. PoweredWhenDisabled
  BY DEF PowerInv, Powered, Sound, PoweredWhenDisabled, Saver!PoweredWhenDisabled
<1> QED
  BY <1>2, <1>3

(* The types of the saver: where its tasks are, its deadlines and calls.    *)
THEOREM SaverTypeCorrect == Saver!Spec => []Saver!TypeOK
<1>1. Saver!Init => PowerInv
  BY TaskPartsAssumption, InitPower
<1>2. PowerInv /\ [Saver!Next]_(Saver!vars) => PowerInv'
  BY StepPower
<1>3. PowerInv => Saver!TypeOK
  BY PowerSays
<1> QED
  BY <1>1, <1>2, <1>3, PTL DEF Saver!Spec

(* With the saver off the charger has power, whatever the tasks and the user *)
(* did: unless a task was just switching the plug off, or the plug could not *)
(* be switched (PoweredWhenDisabled).                                      *)
THEOREM ChargerPowered == Saver!Spec => []PoweredWhenDisabled
<1>1. Saver!Init => PowerInv
  BY TaskPartsAssumption, InitPower
<1>2. PowerInv /\ [Saver!Next]_(Saver!vars) => PowerInv'
  BY StepPower
<1>3. PowerInv => PoweredWhenDisabled
  BY PowerSays
<1> QED
  BY <1>1, <1>2, <1>3, PTL DEF Saver!Spec

(***************************************************************************)
(* That a mower is pulsed in time, KeptAwake.  `dark' only grows when a    *)
(* unit passes, which takes a guard that sleeps, or no guard at all; so    *)
(* the invariant relates `dark' to the deadlines, to what the calls under  *)
(* way will come to, and, when nobody guards the mower, to the evaluation  *)
(* that is about to look.                                                  *)
(***************************************************************************)
Restarted == MaxRestarts - left.restart      \* restarts so far
Latest    == Guard + Restarted

(* A call that will switch the plug on; and one after which the deadlines  *)
(* are written anew.                                                       *)
Lights(s)  == s.calls.guard = "on" \/ s.calls.eval = "on" \/ s.calls.user = "on"
Settles(s) ==
    \/ Lights(s)
    \/ s.calls.guard = "did off"
    \/ s.calls.eval \in {"did on", "did off"}
    \/ s.calls.user \in {"did on", "did off"}

(* A mower whose charger was just switched has not been dark.              *)
CallsFit(s) ==
    (\/ s.calls.guard \in {"did on", "did off"} \/ s.calls.eval \in {"did on", "did off"}
     \/ s.calls.user \in {"did on", "did off", "back"} \/ ~s.saver.enabled
     \/ s.guard.at = "charging" /\ s.calls.guard = "back") => dark = 0

(* The deadline comes in time; without one the guard counts from when the  *)
(* entity was last seen to change.                                         *)
DueFits(s) ==
    /\ s.stored.due = s.saver.due
    /\ s.saver.due # Saver!None => dark + s.saver.due <= Latest
    /\ s.saver.due = Saver!None =>
          \/ entity.state = "off" /\ entity.since = Guard
          \/ dark <= (IF entity.state = "off" THEN entity.since ELSE 0) + Restarted

(* The end of a pulse, p: the plug is on until then, or about to be, unless *)
(* the deadlines are written anew before; or a restart repeats the pulse.   *)
PulseFits(s, p) ==
    /\ p <= 1 /\ (~s.saver.enabled => p = Saver!None)
    /\ p # Saver!None /\ ~plug =>
          dark + p <= Restarted \/ (dark = 0 /\ Settles(s)) \/ (Lights(s) /\ p > 0)

PulsesFit(s) ==
    /\ PulseFits(s, s.saver.pulse) /\ PulseFits(s, s.stored.pulse)
    /\ s.stored.pulse # s.saver.pulse =>
          \/ s.guard.at = "ending" /\ s.calls.guard \in {"off", "did off"}
          \/ s.calls.eval \in {"on", "did on"} \/ s.calls.user \in {"on", "did on"}

(* A guard that switches the plug on has no call to switch it off.          *)
GuardCallFits(s) ==
    s.guard.at \in {"charging", "pulsing"} => s.calls.guard \notin {"off", "did off"}

(* The guard wakes in time, and no pulse is under way without a guard.      *)
GuardFits(s) ==
    /\ s.guard.at = "sleep" =>
          /\ dark + s.guard.wake <= Latest \/ Lights(s)
          /\ s.saver.pulse # Saver!None => s.guard.wake <= s.saver.pulse
    /\ s.guard.at = "none" /\ s.saver.pulse # Saver!None =>
          s.calls.eval \in {"on", "did on"} \/ s.calls.user \in {"on", "did on"}
    /\ s.guard.at \in {"charging", "ending"} => s.saver.pulse = Saver!None
    /\ GuardCallFits(s)

PhaseFits(s) ==
    /\ s.saver.enabled => s.saver.phase # "disabled"
    /\ s.stored.enabled => s.stored.phase # "disabled"
    /\ s.eval.at \in {"manual", "resuming", "continue"} => s.calls.eval = "none"

Fit(s) == CallsFit(s) /\ DueFits(s) /\ PulsesFit(s) /\ GuardFits(s) /\ PhaseFits(s)

(* Somebody sees to a mower that is dark; or its evaluation can.            *)
Watched(s) == s.guard.at # "none" \/ Lights(s) \/ dark = 0 \/ ~s.saver.enabled
Noticed(s) == Watched(s) \/ (entity.state = "off" /\ heard)

Held ==
    /\ plug \/ entity.state = "on" \/ robot.status # "docked" => dark = 0
    /\ dark <= Latest /\ (~heard => dark < Latest)

(* A mower nobody sees to is evaluated before long: in this unit or, after  *)
(* the recheck of a manual return, in the next.                             *)
Soon ==
    ~Watched(ha) =>
      /\ entity.state = "off" /\ heard
      /\ ha.eval.at \in {"idle", "manual", "resuming"}
      /\ ha.eval.at = "manual" => ha.eval.battery # Saver!None
      /\ ha.eval.at = "idle" /\ fresh =>
            dark = 1 /\ ha.saver.phase = "manual_charge" /\ ha.recheck # "none"
      /\ dark <= 2
      /\ dark = 2 => \/ ha.eval.at = "manual"
                     \/ /\ ha.eval.at = "idle" /\ ha.saver.phase = "manual_charge"
                        /\ ha.recheck = "due"

Awake == Held /\ Fit(ha) /\ Soon /\ (~heard => ha.eval.at = "idle")

AwakeInv == PowerInv /\ left \in Saver!Counts /\ (Saver!Undisturbed => Awake)

(* The world around an evaluation or a step of the guard.                   *)
Scene == WorldTypes /\ SaverLimits /\ left \in Saver!Counts /\ Held

-----------------------------------------------------------------------------
LEMMA Numbers ==
  ASSUME WorldTypes, SaverLimits, left \in Saver!Counts
  PROVE  /\ Restarted \in Nat /\ Restarted \in 0 .. MaxRestarts /\ Latest \in Nat /\ Guard \in Nat /\ Guard > 1
         /\ dark \in Nat /\ entity.since \in 0 .. Guard
         /\ entity.state \in {"on", "off", "gone"} /\ plug \in BOOLEAN
<1>1. Guard \in Nat \ {0, 1} /\ MaxRestarts \in Nat /\ left.restart \in 0 .. MaxRestarts
  BY DEF SaverLimits, Saver!Counts
<1>2. Restarted \in Nat /\ Restarted \in 0 .. MaxRestarts /\ Latest \in Nat
  BY <1>1 DEF Restarted, Latest
<1> QED
  BY <1>1, <1>2, LongNat DEF WorldTypes

LEMMA Fields ==
  ASSUME NEW s, Good(s)
  PROVE  /\ s.saver.due \in Saver!Left /\ s.saver.pulse \in Saver!Left /\ s.saver.enabled \in BOOLEAN
         /\ s.stored.due \in Saver!Left /\ s.stored.pulse \in Saver!Left
         /\ s.stored.enabled = s.saver.enabled
         /\ s.guard.at \in Quiet \cup Calling /\ s.guard.wake \in 0 .. Guard
         /\ s.eval.at \in EvalPlaces \cup {"idle"}
         /\ s.guard.at \in Quiet => s.calls.guard = "none"
BY DEF Good, Tidy, HomeStates, Savers, Guards, Evals

LEMMA Nones ==
  /\ Saver!None \in Int /\ Saver!None < 0
  /\ \A n \in Saver!Left : n # Saver!None => n \in 0 .. Guard
BY DEF Saver!None, Saver!Left

(* Steps that leave the deadlines, the guard and the calls alone.           *)
LEMMA FitStays ==
  ASSUME NEW s, NEW t, Fit(s), PhaseFits(t),
         t.saver.due = s.saver.due, t.saver.pulse = s.saver.pulse,
         t.saver.enabled = s.saver.enabled,
         t.stored.due = s.saver.due, t.stored.pulse \in {s.stored.pulse, s.saver.pulse},
         t.guard = s.guard, t.calls.guard = s.calls.guard,
         t.calls.eval \in {s.calls.eval, "none"}, t.calls.eval # s.calls.eval => s.calls.eval = "back",
         t.calls.user \in {s.calls.user, "none"}, t.calls.user # s.calls.user => s.calls.user = "back"
  PROVE  Fit(t) /\ (Watched(s) <=> Watched(t)) /\ (Noticed(s) <=> Noticed(t))
<1>1. (Lights(s) <=> Lights(t)) /\ (Settles(s) <=> Settles(t))
  BY DEF Lights, Settles
<1>2. CallsFit(t) /\ DueFits(t) /\ GuardFits(t)
  BY <1>1 DEF Fit, CallsFit, DueFits, GuardFits, GuardCallFits
<1>3. PulsesFit(t)
  BY <1>1 DEF Fit, PulsesFit, PulseFits
<1>4. Watched(s) <=> Watched(t)
  BY <1>1 DEF Watched
<1> QED
  BY <1>2, <1>3, <1>4 DEF Fit, Noticed

(* With the mower not dark, a deadline is in time and no pulse is missing.  *)
LEMMA FitInLight ==
  ASSUME NEW t, Good(t), Scene, dark = 0, PhaseFits(t),
         t.stored.due = t.saver.due, t.saver.pulse = Saver!None, t.stored.pulse = Saver!None,
         GuardCallFits(t)
  PROVE  Fit(t) /\ Watched(t)
<1>1. /\ Restarted \in Nat /\ Latest = Guard + Restarted /\ Guard \in Nat
      /\ entity.since \in 0 .. Guard
  BY Numbers DEF Scene, Latest
<1>2. t.saver.due \in Saver!Left /\ t.guard.wake \in 0 .. Guard
  BY Fields
<1>3. DueFits(t)
  BY <1>1, <1>2, Nones DEF DueFits
<1>4. CallsFit(t) /\ PulsesFit(t)
  BY Nones DEF CallsFit, PulsesFit, PulseFits
<1>5. GuardFits(t)
  BY <1>1, <1>2, Nones DEF GuardFits
<1> QED
  BY <1>3, <1>4, <1>5 DEF Fit, Watched

-----------------------------------------------------------------------------
(* What an evaluation does with it.                                         *)

Ready(s) == Good(s) /\ Fit(s) /\ s.calls.eval = "none"

(* After a call of the guard is cancelled, which may have reached the plug. *)
Calm(t) == Lights(t) \/ (t.saver.pulse = Saver!None /\ t.stored.pulse = Saver!None)

Alike(s, t) ==
    /\ Ready(t) /\ t.calls.guard = s.calls.guard
    /\ (Watched(s) <=> Watched(t)) /\ (Noticed(s) <=> Noticed(t))

(* A step that keeps the invariant; and one after which, too, somebody sees  *)
(* to the mower.                                                             *)
Passes(s, t) ==
    /\ Fit(t) /\ (Watched(s) => Watched(t))
    /\ t.calls.guard = s.calls.guard \/ Calm(t)

Sees(s, t) == Passes(s, t) /\ (Noticed(s) => Watched(t))

LEMMA AlikeThen ==
  ASSUME NEW s, NEW t, NEW u, Alike(s, t)
  PROVE  /\ Passes(t, u) => Passes(s, u)
         /\ Sees(t, u) => Sees(s, u)
         /\ Alike(t, u) => Alike(s, u)
BY DEF Alike, Passes, Sees

(* A call is made, or returns at once.                                       *)
LEMMA CallFit ==
  ASSUME NEW s, NEW t, Fit(s), NEW who \in {"eval", "user"}, NEW c \in {"on", "off", "back"},
         t.saver = s.saver, t.stored = s.stored, t.guard = s.guard,
         t.calls.guard = s.calls.guard,
         who = "eval" => t.calls.eval = c /\ t.calls.user = s.calls.user,
         who = "user" => t.calls.user = c /\ t.calls.eval = s.calls.eval,
         s.calls[who] = "none", who = "user" /\ c = "back" => dark = 0, PhaseFits(t)
  PROVE  Passes(s, t) /\ (c = "on" => Watched(t))
<1>1. /\ Lights(s) => Lights(t)
      /\ Settles(s) => Settles(t)
      /\ c = "on" => Lights(t)
  BY DEF Lights, Settles
<1>2. CallsFit(t) /\ DueFits(t)
  BY DEF Fit, CallsFit, DueFits
<1>3. GuardFits(t)
  BY <1>1 DEF Fit, GuardFits, GuardCallFits
<1>4. PulsesFit(t)
  BY <1>1 DEF Fit, PulsesFit, PulseFits
<1> QED
  BY <1>1, <1>2, <1>3, <1>4 DEF Fit, Passes, Watched

(* The guard is cancelled for a call that switches the plug on.              *)
LEMMA CutFit ==
  ASSUME NEW s, NEW t, Fit(s), NEW who \in {"eval", "user"},
         t.saver = s.saver, t.stored = s.stored, t.guard.at = "none",
         t.calls.guard = "none",
         who = "eval" => t.calls.eval = "on" /\ t.calls.user = s.calls.user,
         who = "user" => t.calls.user = "on" /\ t.calls.eval = s.calls.eval,
         s.calls[who] = "none", PhaseFits(t)
  PROVE  Sees(s, t) /\ Watched(t)
<1>1. Lights(t) /\ Settles(t)
  BY DEF Lights, Settles
<1>2. CallsFit(t) /\ DueFits(t)
  BY DEF Fit, CallsFit, DueFits
<1>3. GuardFits(t)
  BY <1>1 DEF GuardFits, GuardCallFits
<1>4. PulsesFit(t)
  BY <1>1 DEF Fit, PulsesFit, PulseFits
<1> QED
  BY <1>1, <1>2, <1>3, <1>4 DEF Fit, Sees, Passes, Watched, Calm

LEMMA EnsuredFit ==
  ASSUME NEW s, Good(s), Fit(s)
  PROVE  /\ Good(Saver!Ensured(s)) /\ Fit(Saver!Ensured(s)) /\ Watched(Saver!Ensured(s))
         /\ Saver!Ensured(s).calls = s.calls /\ Saver!Ensured(s).eval = s.eval
         /\ Saver!Ensured(s).saver = s.saver /\ Saver!Ensured(s).stored = s.stored
<1> DEFINE t == Saver!Ensured(s)
<1>1. s \in HomeStates /\ s.guard \in Guards
  BY DEF Good, HomeStates
<1>2. /\ t.calls = s.calls /\ t.eval = s.eval /\ t.saver = s.saver /\ t.stored = s.stored
      /\ t.guard.wake = s.guard.wake
      /\ t.guard.at = IF s.saver.enabled /\ s.guard.at = "none" THEN "loop" ELSE s.guard.at
  BY <1>1 DEF Saver!Ensured, HomeStates, Guards
<1>3. Good(t)
  BY EnsuredKeeps DEF Keeps
<1> HIDE DEF t
<1>4. (Lights(t) <=> Lights(s)) /\ (Settles(t) <=> Settles(s))
  BY <1>2 DEF Lights, Settles
<1>5. Fit(t)
  <2>1. CallsFit(t) /\ DueFits(t) /\ PhaseFits(t)
    BY <1>2 DEF Fit, CallsFit, DueFits, PhaseFits
  <2>2. GuardFits(t)
    BY <1>2, <1>4 DEF Fit, GuardFits, GuardCallFits
  <2>3. PulsesFit(t)
    BY <1>2, <1>4 DEF Fit, PulsesFit, PulseFits
  <2> QED
    BY <2>1, <2>2, <2>3 DEF Fit
<1>6. Watched(t)
  BY <1>2 DEF Watched
<1> QED
  BY <1>2, <1>3, <1>5, <1>6 DEF t

LEMMA CallSets ==
  ASSUME NEW s, Good(s), NEW who \in Saver!Tasks, NEW c
  PROVE  LET t == [s EXCEPT !.calls[who] = c]
         IN  /\ t.saver = s.saver /\ t.stored = s.stored /\ t.guard = s.guard /\ t.eval = s.eval
             /\ t.calls[who] = c
             /\ \A w \in Saver!Tasks : w # who => t.calls[w] = s.calls[w]
<1>1. s \in HomeStates /\ s.calls \in [Saver!Tasks -> CallStates]
  BY DEF Good, HomeStates
<1> QED
  BY <1>1 DEF HomeStates

LEMMA Undocked ==
  ASSUME Scene, heard, Saver!Status # "docked"
  PROVE  dark = 0
BY DEF Scene, Held, Saver!Status

(* A task other than the guard switches the charger.                        *)
LEMMA ChargerFit ==
  ASSUME NEW s, Good(s), Fit(s), NEW who \in {"eval", "user"}, s.calls[who] = "none",
         NEW want \in {"on", "off"}, want = "off" => who = "eval" /\ heard,
         who = "eval" => s.eval.at \notin {"idle", "manual", "resuming", "continue"}, Scene,
         Good(Saver!SetCharger(s, who, want, FALSE))
  PROVE  Sees(s, Saver!SetCharger(s, who, want, FALSE)) /\ (want = "on" => Watched(Saver!SetCharger(s, who, want, FALSE)))
<1> DEFINE t == Saver!SetCharger(s, who, want, FALSE)
           k == Saver!Cancelled(s, who)
<1>0. who \in Saver!Tasks /\ who # "guard" /\ "guard" \in Saver!Tasks /\ "eval" \in Saver!Tasks /\ "user" \in Saver!Tasks
  BY DEF Saver!Tasks
<1>1. /\ s \in HomeStates /\ s.calls \in [Saver!Tasks -> CallStates] /\ s.guard \in Guards
      /\ PhaseFits(s)
  BY DEF Good, HomeStates, Fit
<1>2. /\ k.saver = s.saver /\ k.stored = s.stored /\ k.eval = s.eval /\ k.guard = Saver!NoGuard
      /\ k.calls = [s.calls EXCEPT !.guard = "none"]
  BY <1>0, <1>1 DEF Saver!Cancelled, HomeStates
<1>3. Good(k) /\ k.calls.guard = "none" /\ \A w \in Saver!Tasks : w # "guard" => k.calls[w] = s.calls[w]
  <2>1. Good(k)
    BY <1>0, CancelledKeeps DEF Keeps
  <2> QED
    BY <1>0, <1>1, <1>2, <2>1
<1>4. CASE ~s.saver.enabled
  <2> DEFINE u == [s EXCEPT !.calls[who] = "back"]
  <2>1. t = u /\ dark = 0
    BY <1>4 DEF Saver!SetCharger, Fit, CallsFit
  <2>2. /\ u.saver = s.saver /\ u.stored = s.stored /\ u.guard = s.guard /\ u.eval = s.eval
        /\ u.calls[who] = "back" /\ \A w \in Saver!Tasks : w # who => u.calls[w] = s.calls[w]
    BY <1>0, CallSets
  <2> HIDE DEF u, t
  <2>3. PhaseFits(u)
    BY <1>0, <1>1, <2>2 DEF PhaseFits
  <2>4. Passes(s, u)
    BY <1>0, <2>1, <2>2, <2>3, CallFit
  <2> QED
    BY <2>1, <2>4 DEF Sees, Watched, t
<1>5. CASE s.saver.enabled /\ entity.state # want /\ want = "on"
  <2> DEFINE u == [k EXCEPT !.calls[who] = "on"]
  <2>1. t = u
    BY <1>5 DEF Saver!SetCharger
  <2>2. /\ u.saver = k.saver /\ u.stored = k.stored /\ u.guard = k.guard /\ u.eval = k.eval
        /\ u.calls[who] = "on" /\ \A w \in Saver!Tasks : w # who => u.calls[w] = k.calls[w]
    <3> HIDE DEF k
    <3> QED
      BY <1>0, <1>3, CallSets
  <2> HIDE DEF k, u, t
  <2>3. PhaseFits(u) /\ u.guard.at = "none"
    BY <1>0, <1>1, <1>2, <1>3, <2>2 DEF PhaseFits, Saver!NoGuard
  <2>4. /\ u.calls.guard = "none"
        /\ who = "eval" => u.calls.eval = "on" /\ u.calls.user = s.calls.user
        /\ who = "user" => u.calls.user = "on" /\ u.calls.eval = s.calls.eval
    BY <1>0, <1>3, <2>2
  <2>5. u.saver = s.saver /\ u.stored = s.stored
    BY <1>2, <2>2
  <2>6. Sees(s, u) /\ Watched(u)
    BY <2>3, <2>4, <2>5, CutFit
  <2> QED
    BY <2>1, <2>6 DEF t
<1>6. CASE s.saver.enabled /\ entity.state # want /\ want = "off"
  <2> DEFINE u == [s EXCEPT !.calls[who] = "off"]
  <2>1. t = u
    BY <1>6 DEF Saver!SetCharger
  <2>2. /\ u.saver = s.saver /\ u.stored = s.stored /\ u.guard = s.guard /\ u.eval = s.eval
        /\ u.calls[who] = "off" /\ \A w \in Saver!Tasks : w # who => u.calls[w] = s.calls[w]
    BY <1>0, CallSets
  <2> HIDE DEF u, t
  <2>3. PhaseFits(u)
    BY <1>0, <1>1, <2>2 DEF PhaseFits
  <2>4. Passes(s, u)
    BY <1>0, <1>6, <2>2, <2>3, CallFit
  <2>5. Noticed(s) => Watched(s)
    <3>1. entity.state = "on" => dark = 0
      BY DEF Scene, Held
    <3> QED
      BY <1>6, <3>1 DEF Noticed, Watched
  <2> QED
    BY <1>6, <2>1, <2>4, <2>5 DEF Sees, Passes, t
<1>7. CASE s.saver.enabled /\ entity.state = want /\ want = "off" /\ Saver!Status = "docked"
  <2> DEFINE e == Saver!Ensured(s)
             u == [e EXCEPT !.calls[who] = "back"]
  <2>1. t = u
    BY <1>7 DEF Saver!SetCharger, Saver!Switched
  <2>2. /\ Good(e) /\ Fit(e) /\ Watched(e) /\ e.calls = s.calls /\ e.eval = s.eval
        /\ e.saver = s.saver /\ e.stored = s.stored
    BY EnsuredFit
  <2> HIDE DEF e
  <2>3. /\ u.saver = e.saver /\ u.stored = e.stored /\ u.guard = e.guard /\ u.eval = e.eval
        /\ u.calls[who] = "back" /\ \A w \in Saver!Tasks : w # who => u.calls[w] = e.calls[w]
    BY <1>0, <2>2, CallSets
  <2> HIDE DEF u, t
  <2>4. PhaseFits(u)
    BY <1>0, <1>1, <2>2, <2>3 DEF PhaseFits
  <2>5. Passes(e, u)
    BY <1>0, <1>7, <2>2, <2>3, <2>4, CallFit
  <2> QED
    BY <1>7, <2>1, <2>2, <2>5 DEF Sees, Passes, t
<1>8. CASE s.saver.enabled /\ entity.state = want /\ (want = "off" => Saver!Status # "docked")
  <2> DEFINE d == Saver!Cleared(k)
             u == [d EXCEPT !.calls[who] = "back"]
  <2>1. t = u
    BY <1>0, <1>8 DEF Saver!SetCharger, Saver!Switched
  <2>2. dark = 0
    BY <1>8, Undocked DEF Scene, Held
  <2>3. /\ d.saver.due = Saver!None /\ d.saver.pulse = Saver!None /\ d.stored = d.saver
        /\ d.saver.enabled = k.saver.enabled /\ d.saver.phase = k.saver.phase
        /\ d.calls = k.calls /\ d.guard = k.guard /\ d.eval = k.eval /\ Good(d)
    <3> HIDE DEF k
    <3>1. k \in HomeStates /\ k.saver \in Savers
      BY <1>3 DEF Good, HomeStates
    <3>2. Good(d)
      BY <1>3, ClearedKeeps DEF Keeps
    <3> QED
      BY <3>1, <3>2 DEF Saver!Cleared, Saver!Saved, HomeStates, Savers
  <2> HIDE DEF d, k
  <2>4. /\ u.saver = d.saver /\ u.stored = d.stored /\ u.guard = d.guard /\ u.eval = d.eval
        /\ u.calls[who] = "back" /\ \A w \in Saver!Tasks : w # who => u.calls[w] = d.calls[w]
    BY <1>0, <2>3, CallSets
  <2>5. Good(u)
    BY <2>1
  <2> HIDE DEF u, t
  <2>6. PhaseFits(u) /\ GuardCallFits(u)
    BY <1>0, <1>1, <1>2, <1>3, <2>3, <2>4 DEF PhaseFits, GuardCallFits, Saver!NoGuard
  <2>7. Fit(u) /\ Watched(u)
    BY <2>2, <2>3, <2>4, <2>5, <2>6, FitInLight
  <2> QED
    BY <2>1, <2>3, <2>4, <2>7 DEF Sees, Passes, Calm, t
<1> QED
  BY <1>4, <1>5, <1>6, <1>7, <1>8

LEMMA PhaseAlike ==
  ASSUME NEW s, Ready(s), NEW p \in Saver!Phases \ {"disabled"}
  PROVE  /\ Alike(s, Saver!Phase(s, p)) /\ Saver!Phase(s, p).eval = s.eval
         /\ Saver!Phase(s, p).saver.enabled = s.saver.enabled /\ Saver!Phase(s, p).saver.phase = p
         /\ Saver!Phase(s, p).saver.pulse = s.saver.pulse
<1> DEFINE t == Saver!Phase(s, p)
<1>1. s \in HomeStates /\ s.saver \in Savers /\ Good(s) /\ Fit(s) /\ s.calls.eval = "none"
  BY DEF Ready, Good, HomeStates
<1>2. /\ t.saver.due = s.saver.due /\ t.saver.pulse = s.saver.pulse
      /\ t.saver.enabled = s.saver.enabled /\ t.saver.phase = p /\ t.stored = t.saver
      /\ t.guard = s.guard /\ t.calls = s.calls /\ t.eval = s.eval
  BY <1>1 DEF Saver!Phase, Saver!Saved, HomeStates, Savers
<1>3. Good(t)
  BY <1>1, PhaseKeeps DEF Keeps
<1> HIDE DEF t
<1>4. PhaseFits(t)
  BY <1>1, <1>2 DEF PhaseFits
<1>5. Fit(t) /\ (Watched(s) <=> Watched(t)) /\ (Noticed(s) <=> Noticed(t))
  BY <1>1, <1>2, <1>4, FitStays
<1> QED
  BY <1>1, <1>2, <1>3, <1>5 DEF Alike, Ready, t

LEMMA AtAlike ==
  ASSUME NEW s, Ready(s), NEW at \in EvalPlaces
  PROVE  Alike(s, Saver!At(s, at)) /\ Saver!At(s, at).eval.at = at /\ Saver!At(s, at).saver = s.saver
<1> DEFINE t == Saver!At(s, at)
<1>1. s \in HomeStates /\ s.eval \in Evals /\ Good(s) /\ Fit(s) /\ s.calls.eval = "none"
  BY DEF Ready, Good, HomeStates
<1>2. /\ t.saver = s.saver /\ t.stored = s.stored /\ t.guard = s.guard /\ t.calls = s.calls
      /\ t.eval.at = at
  BY <1>1 DEF Saver!At, HomeStates, Evals
<1>3. Good(t)
  BY <1>1, AtKeeps DEF Keeps
<1> HIDE DEF t
<1>4. PhaseFits(t) /\ s.stored.due = s.saver.due
  BY <1>1, <1>2 DEF PhaseFits, Fit, DueFits
<1>5. Fit(t) /\ (Watched(s) <=> Watched(t)) /\ (Noticed(s) <=> Noticed(t))
  BY <1>1, <1>2, <1>4, FitStays
<1> QED
  BY <1>1, <1>2, <1>3, <1>5 DEF Alike, Ready, t

LEMMA EndedPasses ==
  ASSUME NEW s, Ready(s)
  PROVE  Passes(s, Saver!Ended(s))
<1> DEFINE t == Saver!Ended(s)
<1>1. s \in HomeStates /\ s.calls \in [Saver!Tasks -> CallStates] /\ Fit(s) /\ s.calls.eval = "none"
  BY DEF Ready, Good, HomeStates
<1>2. /\ t.saver = s.saver /\ t.stored = s.stored /\ t.guard = s.guard
      /\ t.calls = [s.calls EXCEPT !.eval = "none"] /\ t.eval = Saver!NoEval
  BY <1>1 DEF Saver!Ended, HomeStates
<1>3. /\ t.calls.guard = s.calls.guard /\ t.calls.user = s.calls.user /\ t.calls.eval = "none"
      /\ t.eval.at = "idle"
  BY <1>1, <1>2 DEF Saver!Tasks, Saver!NoEval
<1> HIDE DEF t
<1>4. PhaseFits(t) /\ s.stored.due = s.saver.due
  BY <1>1, <1>2, <1>3 DEF PhaseFits, Fit, DueFits
<1>5. Fit(t) /\ (Watched(s) <=> Watched(t))
  BY <1>1, <1>2, <1>3, <1>4, FitStays
<1> QED
  BY <1>3, <1>5 DEF Passes, t

LEMMA EnsuredSees ==
  ASSUME NEW s, Ready(s)
  PROVE  Sees(s, Saver!Ended(Saver!Ensured(s)))
<1> DEFINE e == Saver!Ensured(s)
<1>1. Ready(e) /\ Watched(e) /\ e.calls.guard = s.calls.guard
  BY EnsuredFit DEF Ready
<1> HIDE DEF e
<1>2. Passes(e, Saver!Ended(e))
  BY <1>1, EndedPasses
<1>3. Sees(s, Saver!Ended(e))
  BY <1>1, <1>2 DEF Sees, Passes
<1> QED
  BY <1>3 DEF e

LEMMA SwitchSees ==
  ASSUME NEW s, Ready(s), NEW want \in {"on", "off"},
         NEW then \in {"end", "resume", "returned", "rain"}, Scene, heard
  PROVE  Sees(s, Saver!Switch(s, want, then))
<1> DEFINE a == Saver!At(s, then)
<1>1. then \in EvalPlaces /\ then \notin {"idle", "manual", "resuming", "continue"}
  BY DEF EvalPlaces
<1>2. Alike(s, a) /\ a.eval.at = then
  BY <1>1, AtAlike
<1>3. Good(Saver!SetCharger(a, "eval", want, FALSE))
  BY <1>1, SwitchKeeps DEF Keeps, Saver!Switch, Ready
<1> HIDE DEF a
<1>4. Good(a) /\ Fit(a) /\ a.calls["eval"] = "none"
  BY <1>2 DEF Alike, Ready
<1>5. Sees(a, Saver!SetCharger(a, "eval", want, FALSE))
  BY <1>1, <1>2, <1>3, <1>4, ChargerFit
<1> QED
  BY <1>2, <1>5, AlikeThen DEF Saver!Switch, a

LEMMA LitWhenOn ==
  ASSUME Scene, entity.state = "on"
  PROVE  dark = 0
BY DEF Scene, Held

LEMMA MaintainSees ==
  ASSUME NEW s, Ready(s), NEW battery, Scene, heard
  PROVE  Sees(s, Saver!Maintain(s, battery))
<1>1. Sees(s, Saver!Switch(s, "on", "end")) /\ Sees(s, Saver!Switch(s, "off", "end"))
  BY SwitchSees
<1>2. Sees(s, Saver!Ended(Saver!Ensured(s)))
  BY EnsuredSees
<1>3. ASSUME entity.state = "on"
      PROVE  Sees(s, Saver!Ended(s))
  BY <1>3, LitWhenOn, EndedPasses DEF Sees, Watched
<1> QED
  BY <1>1, <1>2, <1>3 DEF Saver!Maintain

LEMMA RecoverPasses ==
  ASSUME NEW s, Ready(s), Scene, heard
  PROVE  Passes(s, Saver!Recover(s)) /\ (s.eval.status = "docked" => Sees(s, Saver!Recover(s)))
<1>1. Sees(s, Saver!Switch(s, "on", "end")) /\ Sees(s, Saver!Switch(s, "on", "resume"))
  BY SwitchSees
<1>2. Sees(s, Saver!Maintain(Saver!Phase(s, "initial_charge"), s.eval.battery))
  <2> DEFINE p == Saver!Phase(s, "initial_charge")
  <2>1. Alike(s, p)
    BY PhaseAlike DEF Saver!Phases
  <2> HIDE DEF p
  <2>2. Sees(p, Saver!Maintain(p, s.eval.battery))
    BY <2>1, MaintainSees DEF Alike
  <2> QED
    BY <2>1, <2>2, AlikeThen DEF p
<1>3. Passes(s, Saver!Ended(s))
  BY EndedPasses
<1> QED
  BY <1>1, <1>2, <1>3 DEF Saver!Recover, Sees

LEMMA HoldSees ==
  ASSUME NEW s, Ready(s), Scene, heard
  PROVE  Sees(s, Saver!HoldForRain(s))
<1> DEFINE t == Saver!Maintain(s, s.eval.battery)
           u == [t EXCEPT !.eval = [s.eval EXCEPT !.at = "rain"]]
<1>1. Sees(s, t) /\ Good(t)
  BY MaintainSees, MaintainKeeps DEF Ready, Keeps
<1>2. s.eval \in Evals
  BY DEF Ready, Good, HomeStates
<1>3. Sees(s, u)
  <2> HIDE DEF t
  <2>1. t \in HomeStates /\ Fit(t)
    BY <1>1 DEF Good, Sees, Passes
  <2>2. /\ u.saver = t.saver /\ u.stored = t.stored /\ u.guard = t.guard /\ u.calls = t.calls
        /\ u.eval.at = "rain"
    BY <1>2, <2>1 DEF HomeStates, Evals
  <2> HIDE DEF u
  <2>3. PhaseFits(u) /\ t.stored.due = t.saver.due
    BY <2>1, <2>2 DEF PhaseFits, Fit, DueFits
  <2>4. Fit(u) /\ (Watched(t) <=> Watched(u))
    BY <2>1, <2>2, <2>3, FitStays
  <2> QED
    BY <1>1, <2>2, <2>4 DEF Sees, Passes, Calm, Lights
<1>4. Sees(s, Saver!Switch(s, "on", "rain"))
  BY SwitchSees
<1> QED
  BY <1>3, <1>4 DEF Saver!HoldForRain

LEMMA CompletePasses ==
  ASSUME NEW s, Ready(s), Scene, heard
  PROVE  Passes(s, Saver!Complete(s)) /\ (s.eval.status = "docked" => Sees(s, Saver!Complete(s)))
<1> DEFINE r == [s EXCEPT !.task = FALSE]
           t == Saver!Phase(r, "initial_charge")
<1>1. s \in HomeStates /\ Good(s) /\ Fit(s) /\ s.calls.eval = "none"
  BY DEF Ready, Good
<1>2. Good(r) /\ r.saver = s.saver /\ r.stored = s.stored /\ r.guard = s.guard
      /\ r.calls = s.calls /\ r.eval = s.eval
  BY <1>1 DEF Good, Tidy, HomeStates
<1> HIDE DEF r
<1>3. PhaseFits(r) /\ s.stored.due = s.saver.due
  BY <1>1, <1>2 DEF PhaseFits, Fit, DueFits
<1>4. Fit(r) /\ (Watched(s) <=> Watched(r)) /\ (Noticed(s) <=> Noticed(r))
  BY <1>1, <1>2, <1>3, FitStays
<1>5. Alike(s, r)
  BY <1>1, <1>2, <1>4 DEF Alike, Ready
<1>6. Alike(r, t)
  BY <1>5, PhaseAlike DEF Alike, Saver!Phases
<1> HIDE DEF t
<1>7. Alike(s, t)
  BY <1>5, <1>6, AlikeThen
<1>8. Passes(s, Saver!Ended(t)) /\ Sees(s, Saver!Maintain(t, s.eval.battery))
  BY <1>7, EndedPasses, MaintainSees, AlikeThen DEF Alike
<1> QED
  BY <1>8 DEF Saver!Complete, Sees, r, t

LEMMA ByPhasePasses ==
  ASSUME NEW s, Ready(s), Scene, heard
  PROVE  /\ Passes(s, Saver!ByPhase(s))
         /\ s.eval.status = "docked" /\ s.saver.phase \notin {"disabled", "initial_charge", "mowing"}
               => Sees(s, Saver!ByPhase(s))
<1> DEFINE t == IF s.saver.enabled THEN Saver!Rechecked(s) ELSE s
<1>1. s \in HomeStates /\ Good(s) /\ Fit(s) /\ s.calls.eval = "none" /\ s.saver \in Savers
  BY DEF Ready, Good, HomeStates
<1>2. Good(t) /\ t.saver = s.saver /\ t.stored = s.stored /\ t.guard = s.guard
      /\ t.calls = s.calls /\ t.eval = s.eval
  BY <1>1, RecheckedKeeps DEF Saver!Rechecked, Keeps, HomeStates
<1> HIDE DEF t
<1>3. PhaseFits(t) /\ s.stored.due = s.saver.due
  BY <1>1, <1>2 DEF PhaseFits, Fit, DueFits
<1>4. Fit(t) /\ (Watched(s) <=> Watched(t)) /\ (Noticed(s) <=> Noticed(t))
  BY <1>1, <1>2, <1>3, FitStays
<1>5. Alike(s, t)
  BY <1>1, <1>2, <1>4 DEF Alike, Ready
<1>6. /\ Passes(s, Saver!Recover(Saver!Phase(t, "recovery_charge")))
      /\ s.eval.status = "docked" => Sees(s, Saver!Recover(Saver!Phase(t, "recovery_charge")))
  <2> DEFINE p == Saver!Phase(t, "recovery_charge")
  <2>1. Alike(t, p) /\ p.eval = s.eval
    BY <1>2, <1>5, PhaseAlike DEF Saver!Phases, Alike
  <2> HIDE DEF p
  <2>2. Alike(s, p)
    BY <1>5, <2>1, AlikeThen
  <2> QED
    BY <2>1, <2>2, RecoverPasses, AlikeThen DEF Alike, p
<1>7. Sees(s, Saver!HoldForRain(Saver!Phase(t, "rain_hold")))
  <2> DEFINE p == Saver!Phase(t, "rain_hold")
  <2>1. Alike(t, p)
    BY <1>2, <1>5, PhaseAlike DEF Saver!Phases, Alike
  <2> HIDE DEF p
  <2>2. Alike(s, p)
    BY <1>5, <2>1, AlikeThen
  <2> QED
    BY <2>2, HoldSees, AlikeThen DEF Alike, p
<1>8. Passes(s, Saver!Ended(t)) /\ Sees(s, Saver!Maintain(t, s.eval.battery))
  BY <1>5, EndedPasses, MaintainSees, AlikeThen DEF Alike
<1>9. CASE s.saver.phase = "manual_charge"
  <2>1. \/ Saver!ByPhase(s) = Saver!Recover(Saver!Phase(t, "recovery_charge"))
        \/ Saver!ByPhase(s) = Saver!HoldForRain(Saver!Phase(t, "rain_hold"))
        \/ s.eval.status = "docked" /\ Saver!ByPhase(s) = Saver!Maintain(t, s.eval.battery)
        \/ s.eval.status # "docked" /\ Saver!ByPhase(s) = Saver!Ended(t)
    BY <1>9, Zenon DEF Saver!ByPhase, t
  <2> QED
    BY <1>6, <1>7, <1>8, <2>1 DEF Sees
<1>10. CASE s.saver.phase # "manual_charge"
  <2>1. Passes(s, Saver!Ended(s)) /\ Sees(s, Saver!HoldForRain(s))
    BY EndedPasses, HoldSees
  <2>2. s.saver.phase \in Saver!Phases
    BY <1>1 DEF Savers
  <2> QED
    BY <1>10, <2>1, <2>2, CompletePasses, RecoverPasses DEF Saver!ByPhase, Sees, Saver!Phases
<1> QED
  BY <1>9, <1>10

LEMMA BatteryKnown ==
  ASSUME Scene, heard
  PROVE  Saver!Battery # Saver!None /\ (Saver!Status = robot.status)
<1>1. robot.battery \in 0 .. Limit /\ Limit \in Nat
  BY DEF Scene, WorldTypes, Saver!Mowers, SaverLimits
<1> QED
  BY <1>1 DEF Saver!Battery, Saver!Status, Saver!None

LEMMA EvaluatedSees ==
  ASSUME NEW r, Ready(r), Scene, heard
  PROVE  Sees(r, Saver!Evaluated(r))
<1> DEFINE e   == [r.eval EXCEPT !.status = Saver!Status, !.battery = Saver!Battery]
           s   == [r EXCEPT !.eval.status = Saver!Status, !.eval.battery = Saver!Battery]
           rtk == IF shared THEN "on" ELSE "off"
<1>1. r \in HomeStates /\ r.eval \in Evals /\ Good(r) /\ Fit(r) /\ r.calls.eval = "none" /\ WorldTypes
  BY DEF Ready, Good, HomeStates, Scene
<1>2. e \in Evals /\ e.at = r.eval.at /\ e.status = Saver!Status
  BY <1>1, Heard DEF Evals, Good
<1>3. s = [r EXCEPT !.eval = e]
  BY <1>1 DEF HomeStates
<1> HIDE DEF e
<1>4. Good(s) /\ s.saver = r.saver /\ s.stored = r.stored /\ s.guard = r.guard /\ s.calls = r.calls
      /\ s.eval = e
  <2>1. Good(s)
    <3> HIDE DEF s
    <3> QED
      BY <1>1, <1>2, <1>3, EvalSet DEF Keeps
  <2> QED
    BY <1>1, <1>2, <1>3, <2>1 DEF HomeStates
<1>5. rtk \in {"on", "off"}
  OBVIOUS
<1>6. Saver!Evaluated(r) =
          IF ~s.saver.enabled THEN Saver!Ended(s)
          ELSE IF s.saver.pulse # Saver!None THEN Saver!Ended(Saver!Ensured(s))
          ELSE IF Saver!Battery = Saver!None THEN Saver!Ended(s)
          ELSE IF Saver!Status = "mowing"
          THEN CASE s.saver.phase = "rain_hold"       -> Saver!At(s, "rain live")
                 [] s.saver.phase = "recovery_charge" -> Saver!Switch(s, "on", "end")
                 [] OTHER                     -> Saver!Switch(Saver!Phase(s, "mowing"), rtk, "end")
          ELSE CASE s.saver.phase = "initial_charge" ->
                       IF Saver!Status = "docked" THEN Saver!Maintain(s, Saver!Battery) ELSE Saver!Ended(s)
                 [] s.saver.phase = "mowing" -> Saver!Switch(s, "on", "returned")
                 [] OTHER            -> Saver!ByPhase(s)
    BY DEF Saver!Evaluated
<1> HIDE DEF s, rtk
<1>7. PhaseFits(s) /\ r.stored.due = r.saver.due
  BY <1>1, <1>2, <1>4 DEF PhaseFits, Fit, DueFits
<1>8. Alike(r, s)
  <2>1. Fit(s) /\ (Watched(r) <=> Watched(s)) /\ (Noticed(r) <=> Noticed(s))
    BY <1>1, <1>4, <1>7, FitStays
  <2> QED
    BY <1>1, <1>4, <2>1 DEF Alike, Ready
<1>9. Ready(s)
  BY <1>8 DEF Alike
<1>10. Passes(s, Saver!Ended(s)) /\ Sees(s, Saver!Ended(Saver!Ensured(s))) /\ Sees(s, Saver!Maintain(s, Saver!Battery))
  BY <1>9, EndedPasses, EnsuredSees, MaintainSees
<1>11. Sees(s, Saver!Switch(s, "on", "end")) /\ Sees(s, Saver!Switch(s, "on", "returned"))
  BY <1>9, SwitchSees
<1>12. Sees(s, Saver!Switch(Saver!Phase(s, "mowing"), rtk, "end"))
  <2> DEFINE p == Saver!Phase(s, "mowing")
  <2>1. Alike(s, p)
    BY <1>9, PhaseAlike DEF Saver!Phases
  <2> HIDE DEF p
  <2>2. Sees(p, Saver!Switch(p, rtk, "end"))
    BY <1>5, <2>1, SwitchSees DEF Alike
  <2> QED
    BY <2>1, <2>2, AlikeThen DEF p
<1>13. Alike(s, Saver!At(s, "rain live"))
  BY <1>9, AtAlike DEF EvalPlaces
<1>14. Passes(s, Saver!ByPhase(s))
       /\ (Saver!Status = "docked" /\ s.saver.phase \notin {"disabled", "initial_charge", "mowing"}
               => Sees(s, Saver!ByPhase(s)))
  BY <1>2, <1>4, <1>9, ByPhasePasses
<1>15. (Saver!Status # "docked" => dark = 0) /\ Saver!Battery # Saver!None
  BY Undocked, BatteryKnown
<1>16. ASSUME NEW t, dark = 0 \/ ~s.saver.enabled, Passes(s, t)
       PROVE  Sees(s, t)
  BY <1>16 DEF Sees, Passes, Watched
<1>17. Sees(s, Saver!Evaluated(r))
  <2>1. CASE ~s.saver.enabled
    BY <1>6, <1>10, <1>16, <2>1
  <2>2. CASE s.saver.enabled /\ s.saver.pulse # Saver!None
    BY <1>6, <1>10, <2>2
  <2>3. CASE s.saver.enabled /\ s.saver.pulse = Saver!None /\ Saver!Status = "mowing"
    <3>1. Passes(s, Saver!At(s, "rain live"))
      BY <1>13 DEF Alike, Passes, Ready
    <3>2. dark = 0
      BY <1>15, <2>3
    <3> QED
      BY <1>6, <1>11, <1>12, <1>15, <1>16, <2>3, <3>1, <3>2
  <2>4. CASE s.saver.enabled /\ s.saver.pulse = Saver!None /\ Saver!Status # "mowing"
    <3>1. s.saver.phase # "disabled"
      BY <1>7, <2>4 DEF PhaseFits
    <3>2. CASE s.saver.phase = "initial_charge"
      BY <1>6, <1>10, <1>15, <1>16, <2>4, <3>2
    <3>3. CASE s.saver.phase = "mowing"
      BY <1>6, <1>11, <1>15, <2>4, <3>3
    <3>4. CASE s.saver.phase \notin {"initial_charge", "mowing"}
      BY <1>6, <1>14, <1>15, <1>16, <2>4, <3>1, <3>4
    <3> QED
      BY <3>2, <3>3, <3>4
  <2> QED
    BY <2>1, <2>2, <2>3, <2>4
<1> QED
  BY <1>8, <1>17, AlikeThen

LEMMA InformedPasses ==
  ASSUME NEW s, Ready(s), s.eval.at \in Saver!Downloading, Scene, heard
  PROVE  /\ Passes(s, Saver!Informed(s))
         /\ s.eval.at = "resuming" \/ (s.eval.at = "manual" /\ s.eval.battery # Saver!None)
               => Sees(s, Saver!Informed(s))
<1>0. (IF shared THEN "on" ELSE "off") \in {"on", "off"}
  OBVIOUS
<1>1. \A p \in Saver!Phases \ {"disabled"} :
         /\ Alike(s, Saver!Phase(s, p))
         /\ Passes(s, Saver!Ended(Saver!Phase(s, p))) /\ Passes(s, Saver!ByPhase(Saver!Phase(s, p)))
         /\ \A b : Sees(s, Saver!Maintain(Saver!Phase(s, p), b))
         /\ \A want \in {"on", "off"} : Sees(s, Saver!Switch(Saver!Phase(s, p), want, "end"))
         /\ Sees(s, Saver!Evaluated(Saver!Phase(s, p)))
  <2> TAKE p \in Saver!Phases \ {"disabled"}
  <2> DEFINE t == Saver!Phase(s, p)
  <2>1. Alike(s, t)
    BY PhaseAlike
  <2> HIDE DEF t
  <2>2. Ready(t)
    BY <2>1 DEF Alike
  <2>3. Passes(t, Saver!Ended(t)) /\ Passes(t, Saver!ByPhase(t)) /\ Sees(t, Saver!Evaluated(t))
    BY <2>2, EndedPasses, ByPhasePasses, EvaluatedSees
  <2>4. \A b : Sees(t, Saver!Maintain(t, b))
    BY <2>2, MaintainSees
  <2>5. \A want \in {"on", "off"} : Sees(t, Saver!Switch(t, want, "end"))
    BY <2>2, SwitchSees
  <2> QED
    BY <2>1, <2>3, <2>4, <2>5, AlikeThen DEF t
<1>2. /\ Passes(s, Saver!Ended(s)) /\ Sees(s, Saver!Evaluated(s))
      /\ \A want \in {"on", "off"} : Sees(s, Saver!Switch(s, want, "end"))
  BY EndedPasses, EvaluatedSees, SwitchSees
<1>3. \A t : Sees(s, t) => Passes(s, t)
  BY DEF Sees
<1>4. CASE s.eval.at = "manual"
  <2> DEFINE r == [s EXCEPT !.recheck = "none"]
             p == CASE Saver!Signal(s.known) = "low_battery_return" -> "recovery_charge"
                    [] Saver!Signal(s.known) = "rain_return"        -> "rain_hold"
                    [] Saver!Signal(s.known) = "finished"           -> "completed"
                    [] OTHER                                  -> "initial_charge"
             t == Saver!Phase(r, p)
  <2>1. Saver!Informed(s) = IF s.eval.battery # Saver!None THEN Saver!Maintain(t, s.eval.battery) ELSE Saver!Ended(t)
    BY <1>4 DEF Saver!Informed
  <2>2. p \in Saver!Phases \ {"disabled"}
    BY DEF Saver!Phases
  <2>3. s \in HomeStates /\ Good(s) /\ Fit(s) /\ s.calls.eval = "none"
    BY DEF Ready, Good
  <2>4. /\ Good(r) /\ r.saver = s.saver /\ r.stored = s.stored /\ r.guard = s.guard
        /\ r.calls = s.calls /\ r.eval = s.eval
    BY <2>3 DEF Good, Tidy, HomeStates
  <2> HIDE DEF r, p
  <2>5. PhaseFits(r) /\ s.stored.due = s.saver.due
    BY <2>3, <2>4 DEF PhaseFits, Fit, DueFits
  <2>6. Fit(r) /\ (Watched(s) <=> Watched(r)) /\ (Noticed(s) <=> Noticed(r))
    BY <2>3, <2>4, <2>5, FitStays
  <2>7. Alike(s, r)
    BY <2>3, <2>4, <2>6 DEF Alike, Ready
  <2>8. Alike(r, t)
    BY <2>2, <2>7, PhaseAlike DEF Alike
  <2> HIDE DEF t
  <2>9. Alike(s, t)
    BY <2>7, <2>8, AlikeThen
  <2>10. Passes(s, Saver!Ended(t)) /\ Sees(s, Saver!Maintain(t, s.eval.battery))
    BY <2>9, EndedPasses, MaintainSees, AlikeThen DEF Alike
  <2> QED
    BY <1>3, <1>4, <2>1, <2>10
<1>5. CASE s.eval.at = "resuming"
  <2>1. Saver!Informed(s) = Saver!Evaluated(IF Saver!Raining(s) THEN Saver!Phase(s, "rain_hold") ELSE s)
    BY <1>5 DEF Saver!Informed
  <2> QED
    BY <1>1, <1>2, <1>3, <1>5, <2>1 DEF Saver!Phases
<1>6. CASE s.eval.at = "rain live"
  <2>1. Saver!Informed(s) = IF Saver!Signal(s.known) = "active"
                      THEN Saver!Switch(Saver!Phase(s, "mowing"), IF shared THEN "on" ELSE "off", "end")
                      ELSE Saver!Switch(s, "on", "end")
    BY <1>6 DEF Saver!Informed
  <2> QED
    BY <1>0, <1>1, <1>2, <1>3, <1>6, <2>1 DEF Saver!Phases
<1>7. CASE s.eval.at = "returned"
  <2>1. \/ \E p \in Saver!Phases \ {"disabled"} : Saver!Informed(s) = Saver!ByPhase(Saver!Phase(s, p))
        \/ Saver!Informed(s) = Saver!Ended(s)
    BY <1>7 DEF Saver!Informed, Saver!Phases
  <2> QED
    BY <1>1, <1>2, <1>7, <2>1
<1>8. CASE s.eval.at = "rain"
  <2>1. Saver!Informed(s) \in {Saver!Ended(Saver!Phase(s, "completed")), Saver!Ended(s)}
    BY <1>8 DEF Saver!Informed
  <2> QED
    BY <1>1, <1>2, <1>8, <2>1 DEF Saver!Phases
<1>9. CASE s.eval.at = "verify"
  <2>1. Saver!Informed(s) \in {Saver!Ended(s), Saver!Switch(Saver!Phase(s, "rain_hold"), "on", "end"),
                         Saver!Maintain(Saver!Phase(s, "rain_hold"), Saver!Battery)}
    BY <1>9 DEF Saver!Informed
  <2> QED
    BY <1>1, <1>2, <1>3, <1>9, <2>1 DEF Saver!Phases
<1> QED
  BY <1>4, <1>5, <1>6, <1>7, <1>8, <1>9 DEF Saver!Downloading

-----------------------------------------------------------------------------
(* Steps, in which the plug may be switched by a call that was cancelled.   *)

LEMMA FitMoves ==
  ASSUME NEW s, Good(s), Fit(s), Scene, ha' = s, entity' = entity,
         left'.restart = left.restart,
         \/ plug' = plug /\ dark' \in {0, dark}
         \/ plug' /\ dark' = 0
         \/ dark = 0 /\ dark' = 0 /\ Calm(s)
  PROVE  Fit(ha)' /\ (Watched(s) => Watched(ha)') /\ Latest' = Latest
<1>1. /\ Restarted \in Nat /\ Latest \in Nat /\ Guard \in Nat /\ dark \in Nat
      /\ Latest = Guard + Restarted /\ dark <= Latest
  BY Numbers DEF Scene, Latest, Held
<1>2. Restarted' = Restarted /\ Latest' = Latest
  BY DEF Restarted, Latest
<1>3. dark' \in Nat /\ dark' <= dark /\ (dark = 0 => dark' = 0)
  BY <1>1
<1>4. /\ s.saver.due \in Saver!Left /\ s.saver.pulse \in Saver!Left /\ s.stored.pulse \in Saver!Left
      /\ s.guard.wake \in 0 .. Guard
  BY Fields
<1>5. (Lights(ha)' <=> Lights(s)) /\ (Settles(ha)' <=> Settles(s))
  BY DEF Lights, Settles
<1>6. CallsFit(ha)' /\ PhaseFits(ha)'
  BY <1>3 DEF Fit, CallsFit, PhaseFits
<1>7. DueFits(ha)'
  <2>1. s.saver.due # Saver!None => s.saver.due \in Nat
    BY <1>4, Nones DEF Saver!Left
  <2>2. entity.state = "off" => entity.since \in Nat
    BY Numbers DEF Scene
  <2> QED
    BY <1>1, <1>2, <1>3, <2>1, <2>2 DEF Fit, DueFits
<1>8. GuardFits(ha)'
  <2>1. s.guard.at = "sleep" => dark' + s.guard.wake <= Latest \/ Lights(s)
    BY <1>1, <1>3, <1>4 DEF Fit, GuardFits
  <2> QED
    BY <1>2, <1>5, <2>1 DEF Fit, GuardFits, GuardCallFits
<1>9. PulsesFit(ha)'
  <2>1. ASSUME NEW p \in Saver!Left, PulseFits(s, p), Calm(s) => Lights(s) \/ p = Saver!None
        PROVE  /\ p <= 1 /\ (~s.saver.enabled => p = Saver!None)
               /\ p # Saver!None /\ ~plug' =>
                     dark' + p <= Restarted \/ (dark' = 0 /\ Settles(s)) \/ (Lights(s) /\ p > 0)
    <3>1. p # Saver!None => p \in Nat
      BY Nones DEF Saver!Left
    <3>2. Lights(s) => Settles(s)
      BY DEF Settles
    <3> QED
      BY <1>1, <1>3, <2>1, <3>1, <3>2 DEF PulseFits
  <2>2. \A p \in {s.saver.pulse, s.stored.pulse} :
            p \in Saver!Left /\ PulseFits(s, p) /\ (Calm(s) => Lights(s) \/ p = Saver!None)
    BY <1>4 DEF Fit, PulsesFit, Calm
  <2>3. \A p \in {s.saver.pulse, s.stored.pulse} :
               /\ p <= 1 /\ (~s.saver.enabled => p = Saver!None)
               /\ p # Saver!None /\ ~plug' =>
                     dark' + p <= Restarted \/ (dark' = 0 /\ Settles(s)) \/ (Lights(s) /\ p > 0)
    BY <2>1, <2>2
  <2> QED
    BY <1>2, <1>5, <2>3 DEF Fit, PulsesFit, PulseFits
<1>10. Watched(s) => Watched(ha)'
  BY <1>3, <1>5 DEF Watched
<1> QED
  BY <1>2, <1>6, <1>7, <1>8, <1>9, <1>10 DEF Fit

LEMMA SceneNow ==
  ASSUME AwakeInv, Saver!Undisturbed
  PROVE  Scene /\ Good(ha) /\ Fit(ha) /\ Held /\ Soon /\ (~heard => ha.eval.at = "idle")
BY DEF AwakeInv, PowerInv, Types, Scene, Awake, Good

LEMMA BecomesFits ==
  ASSUME AwakeInv, Saver!Undisturbed, NEW s, NEW why, Saver!Becomes(s, why), Good(s), Fit(s),
         UNCHANGED <<shared, entity, robot, cloud, heard>>, left'.restart = left.restart,
         s.calls.guard = ha.calls.guard \/ Calm(s) \/ ha.calls.guard \notin {"on", "off"}
  PROVE  Held' /\ Fit(ha)' /\ (Watched(s) => Watched(ha)') /\ ha' = s /\ dark' \in {0, dark}
<1> DEFINE cancelled == ha.calls.guard \in {"on", "off"} /\ s.calls.guard = "none"
<1>1. /\ ha' = s /\ plug' \in IF cancelled THEN {plug, ha.calls.guard = "on"} ELSE {plug}
      /\ dark' = IF plug' THEN 0 ELSE dark
  BY DEF Saver!Becomes, Saver!Lit
<1>2. /\ Scene /\ Held /\ plug \in BOOLEAN /\ (plug => dark = 0)
      /\ dark \in Nat /\ Latest \in Nat /\ dark <= Latest
      /\ (entity.state = "on" \/ robot.status # "docked" => dark = 0) /\ (~heard => dark < Latest)
  BY SceneNow, Numbers DEF Held, Scene
<1>3. cancelled => Calm(s)
  OBVIOUS
<1> HIDE DEF cancelled
<1>4. \/ plug' = plug /\ dark' = dark
      \/ plug' /\ dark' = 0
      \/ dark = 0 /\ dark' = 0 /\ Calm(s)
  <2>1. CASE plug' = plug
    BY <1>1, <1>2, <2>1
  <2>2. CASE plug' # plug /\ plug'
    BY <1>1, <2>2
  <2>3. CASE plug' # plug /\ ~plug'
    BY <1>1, <1>2, <1>3, <2>3
  <2> QED
    BY <2>1, <2>2, <2>3
<1>5. Fit(ha)' /\ (Watched(s) => Watched(ha)') /\ Latest' = Latest
  BY <1>1, <1>2, <1>4, FitMoves
<1>6. dark' \in {0, dark} /\ (plug' => dark' = 0)
  BY <1>1
<1>7. Held'
  BY <1>2, <1>5, <1>6 DEF Held
<1> QED
  BY <1>1, <1>5, <1>6, <1>7

-----------------------------------------------------------------------------
(* The steps.  What is known of the next state: its types and the bounds.   *)

Goes == AwakeInv /\ Saver!Undisturbed /\ Saver!Undisturbed' /\ Types' /\ left' \in Saver!Counts

LEMMA CountStays ==
  ASSUME left \in Saver!Counts, SaverLimits, [Saver!Next]_(Saver!vars)
  PROVE  /\ left' \in Saver!Counts
         /\ left'.restart = left.restart \/ (Saver!Restart /\ left'.restart = left.restart - 1)
<1>1. ASSUME NEW n \in {"mower", "user", "start", "fault"}, Saver!Event(n)
      PROVE  left' \in Saver!Counts /\ left'.restart = left.restart
  <2>1. left[n] \in Nat /\ left[n] > 0 /\ left' = [left EXCEPT ![n] = left[n] - 1]
    BY <1>1 DEF Saver!Event, Saver!Counts
  <2>2. left[n] - 1 \in Nat
    BY <2>1
  <2> QED
    BY <1>1, <2>1, <2>2 DEF Saver!Counts
<1>2. ASSUME Saver!Event("restart")
      PROVE  left' \in Saver!Counts /\ left'.restart = left.restart - 1
  BY <1>2 DEF Saver!Event, Saver!Counts, SaverLimits
<1>3. CASE left' = left
  BY <1>3
<1>4. CASE Saver!CallFails("guard") \/ Saver!CallFails("eval") \/ Saver!CallFails("user")
           \/ Saver!EntityGone \/ Saver!SettleEnds
           \/ Saver!DownloadFails \/ Saver!ContinueFails
  BY <1>1, <1>4 DEF Saver!CallFails, Saver!EntityGone, Saver!SettleEnds, Saver!DownloadFails,
     Saver!ContinueFails, Saver!Fault
<1>5. CASE Saver!Enable \/ Saver!Disable \/ Saver!Prepare
  BY <1>1, <1>5 DEF Saver!Enable, Saver!Disable, Saver!Prepare
<1>6. CASE Saver!Restart
  BY <1>2, <1>6 DEF Saver!Restart
<1>7. CASE Saver!Departs \/ Saver!Returns \/ Saver!Weather
  BY <1>1, <1>3, <1>7 DEF Saver!Departs, Saver!Returns, Saver!Weather
<1>8. ASSUME Saver!Next, ~(Saver!CallFails("guard") \/ Saver!CallFails("eval") \/ Saver!CallFails("user") \/ Saver!EntityGone
                 \/ Saver!SettleEnds \/ Saver!DownloadFails \/ Saver!ContinueFails),
             ~(Saver!Enable \/ Saver!Disable \/ Saver!Prepare), ~Saver!Restart, ~(Saver!Departs \/ Saver!Returns \/ Saver!Weather)
      PROVE  left' = left
  <2>1. CASE \E who \in Saver!Tasks : Saver!PlugObeys(who) \/ Saver!CallReturns(who)
    BY <2>1 DEF Saver!PlugObeys, Saver!CallReturns
  <2>2. CASE Saver!EntityFollows \/ Saver!GuardLoops \/ Saver!GuardWakes \/ Saver!GuardGoesOn
    BY <2>2 DEF Saver!EntityFollows, Saver!GuardLoops, Saver!GuardWakes, Saver!GuardGoesOn,
       Saver!GuardStep
  <2>3. CASE Saver!EvalBegins \/ Saver!RecheckIsDue \/ Saver!EvalGoesOn
             \/ Saver!EventsArrive \/ Saver!ThrottleEnds \/ Saver!Continues
    BY <2>3 DEF Saver!EvalBegins, Saver!RecheckIsDue, Saver!EvalGoesOn, Saver!EventsArrive,
       Saver!ThrottleEnds, Saver!Continues
  <2>4. CASE Saver!Disabled \/ Saver!Prepared \/ Saver!ShadowHeard \/ Saver!EventPublished
             \/ Saver!Obeys \/ Saver!Docks
    BY <2>4 DEF Saver!Disabled, Saver!Prepared, Saver!ShadowHeard, Saver!EventPublished,
       Saver!Obeys, Saver!Docks
  <2>5. CASE Saver!Charges \/ Saver!Lasts \/ Saver!Empties
    BY <2>5 DEF Saver!Charges, Saver!Lasts, Saver!Empties, Saver!Tick
  <2> QED
    BY <1>8, <2>1, <2>2, <2>3, <2>4, <2>5 DEF Saver!Next, Saver!Tasks
<1> QED
  BY <1>3, <1>4, <1>5, <1>6, <1>7, <1>8 DEF Saver!vars

LEMMA NumbersThen ==
  ASSUME Types', left' \in Saver!Counts
  PROVE  /\ Guard \in Nat /\ Guard > 1 /\ MaxRestarts \in Nat /\ left'.restart \in 0 .. MaxRestarts
         /\ dark' \in Nat /\ entity'.since \in 0 .. Guard
<1>1. Guard \in Nat \ {0, 1} /\ MaxRestarts \in Nat /\ left'.restart \in 0 .. MaxRestarts
  BY DEF Types, Good, SaverLimits, Saver!Counts
<1>2. dark' \in 0 .. Saver!Long /\ entity'.since \in 0 .. Guard
  BY DEF Types, WorldTypes
<1>3. Saver!Long \in Nat
  BY <1>1 DEF Saver!Long
<1> QED
  BY <1>1, <1>2, <1>3

LEMMA GoodThen ==
  ASSUME Types', NEW s, ha' = s
  PROVE  Good(s)
BY DEF Types, Good, SaverLimits, Tidy

(* With the mower not dark, somebody sees to it.                            *)
LEMMA LightThen ==
  ASSUME Types', left' \in Saver!Counts, dark' = 0
  PROVE  /\ Held' /\ Soon' /\ CallsFit(ha)' /\ Watched(ha)'
         /\ ha'.stored.due = ha'.saver.due => DueFits(ha)'
         /\ dark' + ha'.guard.wake <= Latest'
<1>1. /\ Guard \in Nat /\ Guard > 1 /\ MaxRestarts \in Nat /\ left'.restart \in 0 .. MaxRestarts
      /\ entity'.since \in 0 .. Guard
  BY NumbersThen
<1>2. ha'.saver.due \in Saver!Left /\ ha'.guard.wake \in 0 .. Guard
  <2> DEFINE s == ha'
  <2>1. Good(s)
    BY GoodThen
  <2> HIDE DEF s
  <2>2. s.saver.due \in Saver!Left /\ s.guard.wake \in 0 .. Guard
    BY <2>1, Fields
  <2> QED
    BY <2>2 DEF s
<1>3. CallsFit(ha)' /\ Watched(ha)'
  BY DEF CallsFit, Watched
<1>4. Held' /\ Soon'
  <2>1. Latest' > 0 /\ dark' <= Latest' /\ dark' < Latest'
    BY <1>1 DEF Latest, Restarted
  <2>2. Held'
    BY <2>1 DEF Held
  <2>3. Soon'
    BY <1>3 DEF Soon
  <2> QED
    BY <2>2, <2>3
<1>5. ha'.stored.due = ha'.saver.due => DueFits(ha)'
  <2>1. ha'.saver.due # Saver!None => ha'.saver.due \in 0 .. Guard
    BY <1>2, Nones
  <2>2. /\ ha'.saver.due # Saver!None => dark' + ha'.saver.due <= Latest'
        /\ dark' <= (IF entity'.state = "off" THEN entity'.since ELSE 0) + Restarted'
    BY <1>1, <2>1 DEF Latest, Restarted
  <2> QED
    BY <2>2 DEF DueFits
<1>6. dark' + ha'.guard.wake <= Latest'
  BY <1>1, <1>2 DEF Latest, Restarted
<1> QED
  BY <1>3, <1>4, <1>5, <1>6

-----------------------------------------------------------------------------
(* Calls.                                                                   *)

LEMMA ObeyAwake ==
  ASSUME Goes, NEW who \in Saver!Tasks, Saver!PlugObeys(who)
  PROVE  Awake'
<1> DEFINE c == IF ha.calls[who] = "on" THEN "did on" ELSE "did off"
           t == Answered(ha, who, c)
<1>1. /\ ha.calls[who] \in {"on", "off"} /\ ha' = t
      /\ plug' = IF entity.state = "gone" THEN plug ELSE ha.calls[who] = "on"
      /\ dark' = IF plug' THEN 0 ELSE dark
      /\ entity.state = "gone" => "blind" \in upset'
      /\ ha.calls[who] = "off" /\ dark > 0 => "again" \in upset'
      /\ UNCHANGED Saver!World /\ Types' /\ left' \in Saver!Counts
  BY DEF Saver!PlugObeys, Answered, Saver!Lit, Goes
<1>2. /\ Good(ha) /\ Fit(ha) /\ Scene /\ (~heard => ha.eval.at = "idle") /\ dark \in Nat
  BY SceneNow, Numbers DEF Goes, Scene
<1>3. /\ entity.state # "gone" /\ dark' = 0 /\ plug' = (ha.calls[who] = "on")
  <2>1. entity.state # "gone" /\ ~(ha.calls[who] = "off" /\ dark > 0)
    BY <1>1 DEF Goes, Saver!Undisturbed
  <2>2. plug' = (ha.calls[who] = "on")
    BY <1>1, <2>1
  <2>3. CASE ha.calls[who] = "on"
    <3>1. plug' /\ dark' = 0
      BY <1>1, <2>2, <2>3
    <3> QED
      BY <2>1, <2>2, <3>1
  <2>4. CASE ha.calls[who] = "off"
    <3>1. ~plug' /\ dark' = dark /\ ~(dark > 0)
      BY <1>1, <2>1, <2>2, <2>4
    <3>2. dark' = 0
      BY <1>2, <3>1
    <3> QED
      BY <2>1, <2>2, <3>2
  <2> QED
    BY <1>1, <2>3, <2>4
<1>4. /\ t.user = ha.user /\ t.saver = ha.saver /\ t.guard = ha.guard /\ t.eval = ha.eval
      /\ t.stored = ha.stored
      /\ t.calls[who] = c /\ \A w \in Saver!Tasks : w # who => t.calls[w] = ha.calls[w]
  <2>1. ha \in HomeStates /\ ha.calls \in [Saver!Tasks -> CallStates]
    BY <1>2 DEF Good, HomeStates
  <2> QED
    BY <2>1 DEF Answered, HomeStates
<1>5. who = "user" => ha.calls[who] = "on"
  BY <1>1, <1>2 DEF Good, Tidy
<1>6. /\ Held' /\ Soon' /\ CallsFit(ha)' /\ DueFits(ha)' /\ dark' + ha'.guard.wake <= Latest'
  <2> HIDE DEF t
  <2>1. ha'.stored.due = ha'.saver.due
    BY <1>1, <1>2, <1>4 DEF Fit, DueFits
  <2> QED
    BY <1>1, <1>3, <2>1, LightThen
<1> HIDE DEF t
<1>7. PhaseFits(t)
  BY <1>1, <1>2, <1>4 DEF Fit, PhaseFits, Saver!Tasks
<1>8. GuardCallFits(t)
  BY <1>1, <1>2, <1>4 DEF Fit, GuardFits, GuardCallFits, Saver!Tasks
<1>9. t.guard.at = "none" /\ t.saver.pulse # Saver!None =>
          t.calls.eval \in {"on", "did on"} \/ t.calls.user \in {"on", "did on"}
  BY <1>1, <1>2, <1>4 DEF Fit, GuardFits, Saver!Tasks
<1>10. GuardFits(ha)'
  <2>1. /\ t.guard.at = "sleep" /\ t.saver.pulse # Saver!None => t.guard.wake <= t.saver.pulse
        /\ t.guard.at \in {"charging", "ending"} => t.saver.pulse = Saver!None
    BY <1>2, <1>4 DEF Fit, GuardFits
  <2> QED
    BY <1>1, <1>6, <1>8, <1>9, <2>1 DEF GuardFits, GuardCallFits
<1>11. plug' \/ Settles(t)
  BY <1>1, <1>3, <1>4, <1>5 DEF Settles, Saver!Tasks
<1>12. PulsesFit(ha)'
  <2>1. \A p \in {t.saver.pulse, t.stored.pulse} : p <= 1 /\ (~t.saver.enabled => p = Saver!None)
    BY <1>2, <1>4 DEF Fit, PulsesFit, PulseFits
  <2>2. t.stored.pulse # t.saver.pulse =>
          \/ t.guard.at = "ending" /\ t.calls.guard \in {"off", "did off"}
          \/ t.calls.eval \in {"on", "did on"} \/ t.calls.user \in {"on", "did on"}
    BY <1>1, <1>2, <1>4 DEF Fit, PulsesFit, Saver!Tasks
  <2>3. plug' \/ Settles(ha)'
    BY <1>1, <1>11 DEF Settles, Lights
  <2> QED
    BY <1>1, <1>3, <2>1, <2>2, <2>3 DEF PulsesFit, PulseFits
<1> QED
  BY <1>1, <1>2, <1>4, <1>6, <1>7, <1>10, <1>12 DEF Awake, Fit, PhaseFits, Saver!World

(* A call that was made, and not for a pulse, leaves no deadline but its own. *)
LEMMA SwitchedClears ==
  ASSUME NEW s, Good(s), NEW who \in Saver!Tasks, NEW want \in {"on", "off"}
  PROVE  LET t == Saver!Switched(s, who, want, TRUE)
         IN  /\ t.stored.due = t.saver.due /\ t.saver.pulse = Saver!None /\ t.stored.pulse = Saver!None
             /\ t.saver.enabled = s.saver.enabled /\ t.saver.phase = s.saver.phase
             /\ t.stored.enabled = s.saver.enabled /\ t.stored.phase = s.saver.phase
             /\ t.eval = s.eval /\ t.calls.eval = s.calls.eval
             /\ t.guard.at \in Calling => t.guard.at = s.guard.at
             /\ t.calls.guard \in {s.calls.guard, "none"}
<1> DEFINE t == Saver!Switched(s, who, want, TRUE)
<1>1. /\ s \in HomeStates /\ s.saver \in Savers /\ s.guard \in Guards /\ s.calls \in [Saver!Tasks -> CallStates]
      /\ "guard" \in Saver!Tasks /\ "eval" \in Saver!Tasks
  BY DEF Good, HomeStates, Saver!Tasks
<1>2. CASE want = "on"
  <2>1. t = Saver!Cleared(s)
    BY <1>2 DEF Saver!Switched
  <2>2. /\ Saver!Cleared(s).saver.due = Saver!None /\ Saver!Cleared(s).saver.pulse = Saver!None
        /\ Saver!Cleared(s).stored = Saver!Cleared(s).saver /\ Saver!Cleared(s).saver.enabled = s.saver.enabled
        /\ Saver!Cleared(s).saver.phase = s.saver.phase /\ Saver!Cleared(s).guard = s.guard
        /\ Saver!Cleared(s).calls = s.calls /\ Saver!Cleared(s).eval = s.eval
    BY <1>1 DEF Saver!Cleared, Saver!Saved, HomeStates, Savers
  <2> HIDE DEF t
  <2> QED
    BY <2>1, <2>2 DEF t
<1>3. CASE want = "off" /\ Saver!Status = "docked"
  <2> DEFINE d == Saver!Saved([s EXCEPT !.saver.due = Guard, !.saver.pulse = Saver!None])
  <2>1. t = Saver!Ensured(d)
    BY <1>3 DEF Saver!Switched
  <2>2. /\ d.saver.due = Guard /\ d.saver.pulse = Saver!None /\ d.stored = d.saver
        /\ d.saver.enabled = s.saver.enabled /\ d.saver.phase = s.saver.phase
        /\ d.guard = s.guard /\ d.calls = s.calls /\ d.eval = s.eval
    BY <1>1 DEF Saver!Saved, HomeStates, Savers
  <2>3. /\ Saver!Ensured(d).saver = d.saver /\ Saver!Ensured(d).stored = d.stored /\ Saver!Ensured(d).calls = d.calls
        /\ Saver!Ensured(d).eval = d.eval /\ (Saver!Ensured(d).guard.at \in Calling => Saver!Ensured(d).guard.at = d.guard.at)
    <3>1. d \in [saver : {d.saver}, stored : {d.stored}, guard : Guards, eval : Evals,
                 calls : [Saver!Tasks -> CallStates], user : {s.user}, known : Saver!Codes, recent : BOOLEAN,
                 recheck : {"none", "waiting", "due"}, task : BOOLEAN]
      BY <1>1, <2>2 DEF Saver!Saved, HomeStates
    <3> HIDE DEF d
    <3> QED
      BY <3>1 DEF Saver!Ensured, Guards, Calling
  <2> HIDE DEF d
  <2> QED
    BY <2>1, <2>2, <2>3
<1>4. CASE want = "off" /\ Saver!Status # "docked"
  <2> DEFINE c == Saver!Cancelled(s, who)
  <2>1. t = Saver!Cleared(c)
    BY <1>4 DEF Saver!Switched
  <2>2. /\ c \in HomeStates /\ c.saver = s.saver /\ c.stored = s.stored /\ c.eval = s.eval
        /\ c.calls.eval = s.calls.eval /\ c.calls.guard \in {s.calls.guard, "none"}
        /\ c.guard.at \in {s.guard.at, "none"}
    <3>1. c \in HomeStates
      BY CancelledKeeps DEF Keeps, Good
    <3>2. CASE who = "guard"
      BY <3>1, <3>2 DEF Saver!Cancelled
    <3>3. CASE who # "guard"
      <4>1. /\ c.calls = [s.calls EXCEPT !.guard = "none"] /\ c.guard = Saver!NoGuard
            /\ c.saver = s.saver /\ c.stored = s.stored /\ c.eval = s.eval
        BY <1>1, <3>3 DEF Saver!Cancelled, HomeStates
      <4> QED
        BY <1>1, <3>1, <4>1 DEF Saver!NoGuard
    <3> QED
      BY <3>2, <3>3
  <2> HIDE DEF c
  <2>3. c.saver \in Savers
    BY <2>2 DEF HomeStates
  <2>4. /\ Saver!Cleared(c).saver.due = Saver!None /\ Saver!Cleared(c).saver.pulse = Saver!None
        /\ Saver!Cleared(c).stored = Saver!Cleared(c).saver /\ Saver!Cleared(c).saver.enabled = c.saver.enabled
        /\ Saver!Cleared(c).saver.phase = c.saver.phase /\ Saver!Cleared(c).guard = c.guard
        /\ Saver!Cleared(c).calls = c.calls /\ Saver!Cleared(c).eval = c.eval
    BY <2>2, <2>3 DEF Saver!Cleared, Saver!Saved, HomeStates, Savers
  <2> HIDE DEF t
  <2> QED
    BY <2>1, <2>2, <2>4 DEF Calling, t
<1> QED
  BY <1>2, <1>3, <1>4

LEMMA ReturnAwake ==
  ASSUME Goes, NEW who \in Saver!Tasks, Saver!CallReturns(who), left'.restart = left.restart
  PROVE  Awake'
<1> DEFINE want == IF ha.calls[who] = "did on" THEN "on" ELSE "off"
           s    == Answered(ha, who, "back")
           t    == IF who = "guard" /\ ha.guard.at = "pulsing" THEN s
                   ELSE Saver!Switched(s, who, want, TRUE)
<1>1. /\ ha.calls[who] \in {"did on", "did off"} /\ Saver!Becomes(t, {})
      /\ UNCHANGED Saver!World /\ Types' /\ left' \in Saver!Counts /\ AwakeInv /\ Saver!Undisturbed
  BY DEF Saver!CallReturns, Answered, Goes
<1>2. /\ Good(ha) /\ Fit(ha) /\ Scene /\ (~heard => ha.eval.at = "idle")
  BY SceneNow DEF Goes
<1>3. dark = 0
  BY <1>1, <1>2 DEF Fit, CallsFit, Saver!Tasks
<1>4. /\ s.saver = ha.saver /\ s.guard = ha.guard /\ s.eval = ha.eval /\ s.stored = ha.stored
      /\ s.calls[who] = "back" /\ \A w \in Saver!Tasks : w # who => s.calls[w] = ha.calls[w]
  <2>1. ha \in HomeStates /\ ha.calls \in [Saver!Tasks -> CallStates]
    BY <1>2 DEF Good, HomeStates
  <2> QED
    BY <2>1 DEF Answered, HomeStates
<1>5. Good(s)
  <2> DEFINE c == "back"
             r == Answered(ha, who, c)
  <2>1. /\ c \in CallStates \ {"none"} /\ (who = "user" => c \notin {"off", "did off"})
        /\ ha.calls[who] # "none"
    BY <1>1 DEF CallStates
  <2> HIDE DEF c
  <2>2. Good(r)
    BY <1>2, <2>1, CallMoves
  <2> QED
    BY <2>2 DEF c
<1>6. want \in {"on", "off"}
  OBVIOUS
<1>7. ha' = t
  BY <1>1 DEF Saver!Becomes
<1> HIDE DEF s, want
<1>8. /\ Good(t) /\ Fit(t) /\ t.eval = ha.eval
      /\ t.calls.guard = ha.calls.guard \/ Calm(t) \/ ha.calls.guard \notin {"on", "off"}
  <2>1. CASE who = "guard" /\ ha.guard.at = "pulsing"
    <3>1. t = s /\ ha.calls.guard = "did on"
      BY <1>1, <1>2, <2>1 DEF Fit, GuardFits, GuardCallFits
    <3>2. s.calls.guard = "back" /\ s.calls.eval = ha.calls.eval /\ s.calls.user = ha.calls.user
      BY <1>4, <2>1 DEF Saver!Tasks
    <3>3. (Lights(s) <=> Lights(ha)) /\ (Settles(s) <=> Settles(ha))
      BY <3>1, <3>2 DEF Lights, Settles
    <3>4. CallsFit(s) /\ DueFits(s) /\ PhaseFits(s)
      BY <1>2, <1>3, <1>4, <3>2 DEF CallsFit, Fit, DueFits, PhaseFits
    <3>5. PulsesFit(s)
      BY <1>2, <1>4, <2>1, <3>2, <3>3 DEF Fit, PulsesFit, PulseFits
    <3>6. GuardFits(s)
      BY <1>2, <1>4, <2>1, <3>2 DEF Fit, GuardFits, GuardCallFits
    <3> QED
      BY <1>4, <1>5, <3>1, <3>4, <3>5, <3>6 DEF Fit
  <2>2. CASE ~(who = "guard" /\ ha.guard.at = "pulsing")
    <3>1. t = Saver!Switched(s, who, want, TRUE)
      BY <2>2
    <3>2. /\ t.stored.due = t.saver.due /\ t.saver.pulse = Saver!None /\ t.stored.pulse = Saver!None
          /\ t.saver.enabled = s.saver.enabled /\ t.saver.phase = s.saver.phase
          /\ t.stored.enabled = s.saver.enabled /\ t.stored.phase = s.saver.phase
          /\ t.eval = s.eval /\ t.calls.eval = s.calls.eval
          /\ t.guard.at \in Calling => t.guard.at = s.guard.at
          /\ t.calls.guard \in {s.calls.guard, "none"}
      <4> HIDE DEF t
      <4> QED
        BY <1>5, <1>6, <3>1, SwitchedClears
    <3>3. Good(t)
      BY <1>1, <1>7, GoodThen
    <3> HIDE DEF t
    <3>4. PhaseFits(t)
      BY <1>1, <1>2, <1>4, <3>2 DEF Fit, PhaseFits, Saver!Tasks
    <3>5. GuardCallFits(t)
      <4>1. t.guard.at \in {"charging", "pulsing"} => t.guard.at = ha.guard.at
        BY <1>4, <3>2 DEF Calling
      <4>2. s.calls.guard \in {"back", ha.calls.guard}
        BY <1>4 DEF Saver!Tasks
      <4> QED
        BY <1>2, <3>2, <4>1, <4>2 DEF Fit, GuardFits, GuardCallFits
    <3> QED
      BY <1>2, <1>3, <1>4, <3>2, <3>3, <3>4, <3>5, FitInLight DEF Calm
  <2> QED
    BY <2>1, <2>2
<1> HIDE DEF t
<1>9. Held' /\ Fit(ha)' /\ dark' \in {0, dark}
  BY <1>1, <1>8, BecomesFits DEF Saver!World
<1>10. Soon'
  BY <1>1, <1>3, <1>9, LightThen
<1> QED
  BY <1>1, <1>2, <1>7, <1>8, <1>9, <1>10 DEF Awake, Saver!World

-----------------------------------------------------------------------------
(* The guard.                                                               *)

(* It goes to sleep, waits for the plug, or wakes.                          *)
LEMMA SleepFit ==
  ASSUME NEW s, NEW t, Fit(s), s.guard.at \in {"loop", "retry", "sleep"}, s.calls.guard = "none",
         t.saver = s.saver, t.stored = s.stored, t.calls = s.calls, t.eval = s.eval,
         t.guard.at \in {"loop", "retry", "sleep"},
         t.guard.at = "sleep" =>
            /\ dark + t.guard.wake <= Latest \/ Lights(s)
            /\ s.saver.pulse # Saver!None => t.guard.wake <= s.saver.pulse
  PROVE  Fit(t) /\ Watched(t)
<1>1. (Lights(t) <=> Lights(s)) /\ (Settles(t) <=> Settles(s))
  BY DEF Lights, Settles
<1>2. CallsFit(t) /\ DueFits(t) /\ PhaseFits(t)
  BY DEF Fit, CallsFit, DueFits, PhaseFits
<1>3. GuardFits(t)
  BY <1>1 DEF GuardFits, GuardCallFits
<1>4. PulsesFit(t)
  BY <1>1 DEF Fit, PulsesFit, PulseFits
<1> QED
  BY <1>2, <1>3, <1>4 DEF Fit, Watched

(* It stores a deadline, and no pulse is under way.                         *)
LEMMA DueFit ==
  ASSUME NEW s, NEW t, Fit(s), s.guard.at = "loop", t.guard = s.guard,
         t.calls = s.calls, t.eval = s.eval, s.saver.enabled,
         t.saver.enabled = s.saver.enabled, t.saver.phase = s.saver.phase,
         t.saver.pulse = Saver!None, t.stored = t.saver, DueFits(t)
  PROVE  Fit(t) /\ Watched(t)
<1>1. CallsFit(t) /\ PhaseFits(t)
  BY DEF Fit, CallsFit, PhaseFits
<1>2. GuardFits(t)
  BY DEF GuardFits, GuardCallFits
<1>3. PulsesFit(t)
  <2>1. t.stored.pulse = Saver!None /\ t.saver.pulse = Saver!None
    OBVIOUS
  <2>2. PulseFits(t, Saver!None)
    BY Nones DEF PulseFits
  <2> QED
    BY <2>1, <2>2 DEF PulsesFit
<1> QED
  BY <1>1, <1>2, <1>3 DEF Fit, Watched

(* It ends, with the mower not dark.                                        *)
LEMMA NoGuardFit ==
  ASSUME NEW s, NEW t, Fit(s), Good(t), Scene, dark = 0, t.guard = Saver!NoGuard, t.eval = s.eval,
         t.calls = s.calls, t.saver.phase = s.saver.phase, t.saver.enabled = s.saver.enabled,
         t.stored.due = t.saver.due, t.saver.pulse = Saver!None, t.stored.pulse = Saver!None,
         t.stored.enabled => t.stored.phase # "disabled"
  PROVE  Fit(t) /\ Watched(t)
<1>1. PhaseFits(t)
  BY DEF Fit, PhaseFits
<1>2. GuardCallFits(t)
  <2>1. t.guard.at = "none"
    BY DEF Saver!NoGuard
  <2> QED
    BY <2>1 DEF GuardCallFits
<1> QED
  BY <1>1, <1>2, FitInLight

(* It switches the charger for good, or for a pulse, or ends a pulse.       *)
LEMMA GuardCallFit ==
  ASSUME NEW s, NEW t, Fit(s), s.guard.at = "loop", s.calls.guard = "none", s.saver.enabled,
         t.guard.at \in {"charging", "pulsing", "ending"}, t.eval = s.eval,
         t.calls.eval = s.calls.eval, t.calls.user = s.calls.user,
         t.calls.guard = (IF t.guard.at = "ending" THEN "off" ELSE "on"),
         t.guard.at = "ending" => dark = 0,
         t.saver.due = s.saver.due, t.stored.due = s.stored.due,
         t.saver.enabled = s.saver.enabled, t.saver.phase = s.saver.phase,
         t.guard.at = "pulsing" => t.saver.pulse = 1 /\ t.stored = t.saver,
         t.guard.at = "charging" => s.saver.pulse = Saver!None,
         t.guard.at # "pulsing" => t.saver.pulse = Saver!None /\ t.stored = s.stored
  PROVE  Fit(t) /\ Watched(t)
<1>1. /\ Settles(s) => Settles(t)
      /\ Lights(s) => Lights(t)
      /\ t.guard.at # "ending" => Lights(t)
  BY DEF Lights, Settles
<1>2. DueFits(t)
  BY DEF Fit, DueFits
<1>3. CallsFit(t)
  BY DEF Fit, CallsFit
<1>4. PhaseFits(t)
  BY DEF Fit, PhaseFits
<1>5. GuardFits(t)
  BY DEF GuardFits, GuardCallFits
<1>6. PulsesFit(t)
  <2>1. CASE t.guard.at = "pulsing"
    <3>1. Lights(t) /\ t.saver.pulse = 1 /\ t.stored.pulse = 1 /\ t.saver.enabled
      BY <1>1, <2>1
    <3>2. PulseFits(t, 1)
      BY <3>1 DEF PulseFits
    <3> QED
      BY <3>1, <3>2 DEF PulsesFit
  <2>2. CASE t.guard.at # "pulsing"
    <3>1. t.saver.pulse = Saver!None /\ t.stored = s.stored
      BY <2>2
    <3>2. PulseFits(t, t.saver.pulse)
      BY <3>1, Nones DEF PulseFits
    <3>3. PulseFits(t, t.stored.pulse)
      BY <1>1, <3>1 DEF Fit, PulsesFit, PulseFits
    <3>4. t.stored.pulse # t.saver.pulse =>
             \/ t.guard.at = "ending" /\ t.calls.guard \in {"off", "did off"}
             \/ t.calls.eval \in {"on", "did on"} \/ t.calls.user \in {"on", "did on"}
      BY <2>2, <3>1 DEF Fit, PulsesFit
    <3> QED
      BY <3>2, <3>3, <3>4 DEF PulsesFit
  <2> QED
    BY <2>1, <2>2
<1> QED
  BY <1>2, <1>3, <1>4, <1>5, <1>6 DEF Fit, Watched

AtLoop == AwakeInv /\ Saver!Undisturbed /\ ha.guard.at = "loop" /\ ha.saver.enabled

LEMMA LoopNow ==
  ASSUME AtLoop
  PROVE  /\ Good(ha) /\ Fit(ha) /\ Scene /\ ha.calls.guard = "none" /\ Types
         /\ ha \in HomeStates /\ ha.saver \in Savers /\ ha.guard \in Guards
         /\ ha.calls \in [Saver!Tasks -> CallStates] /\ ha.stored \in Savers
         /\ ha.saver.phase # "disabled" /\ ha.stored.enabled /\ ha.stored.phase # "disabled"
<1>1. Good(ha) /\ Fit(ha) /\ Scene
  BY SceneNow DEF AtLoop
<1>2. Types
  BY DEF AtLoop, AwakeInv, PowerInv
<1>3. /\ ha \in HomeStates /\ ha.saver \in Savers /\ ha.guard \in Guards /\ ha.stored \in Savers
      /\ ha.calls \in [Saver!Tasks -> CallStates] /\ ha.calls.guard = "none" /\ ha.stored.enabled
  BY <1>1 DEF Good, HomeStates, Tidy, Quiet, AtLoop
<1>4. ha.saver.phase # "disabled" /\ ha.stored.phase # "disabled"
  BY <1>1, <1>3 DEF Fit, PhaseFits, AtLoop
<1> QED
  BY <1>1, <1>2, <1>3, <1>4

(* What the guard leaves, cleared, when it ends. *)
LEMMA GuardEndFit ==
  ASSUME AtLoop, dark = 0, NEW t, Good(t), t = [Saver!Cleared(ha) EXCEPT !.guard = Saver!NoGuard]
  PROVE  Fit(t) /\ Watched(t) /\ t.eval = ha.eval
<1>1. /\ Good(ha) /\ Fit(ha) /\ Scene /\ ha \in HomeStates /\ ha.saver \in Savers
      /\ ha.saver.phase # "disabled"
  BY LoopNow
<1>2. /\ Saver!Cleared(ha).saver.due = Saver!None /\ Saver!Cleared(ha).saver.pulse = Saver!None
      /\ Saver!Cleared(ha).stored = Saver!Cleared(ha).saver /\ Saver!Cleared(ha).saver.enabled = ha.saver.enabled
      /\ Saver!Cleared(ha).saver.phase = ha.saver.phase /\ Saver!Cleared(ha) \in HomeStates
      /\ Saver!Cleared(ha).calls = ha.calls /\ Saver!Cleared(ha).eval = ha.eval
  <2>1. Saver!Cleared(ha) \in HomeStates
    BY <1>1, ClearedKeeps DEF Keeps, Good
  <2> QED
    BY <1>1, <2>1 DEF Saver!Cleared, Saver!Saved, HomeStates, Savers
<1>3. /\ t.saver = Saver!Cleared(ha).saver /\ t.stored = Saver!Cleared(ha).stored /\ t.guard = Saver!NoGuard
      /\ t.calls = ha.calls /\ t.eval = ha.eval
  BY <1>2 DEF HomeStates
<1> QED
  BY <1>1, <1>2, <1>3, NoGuardFit

(* A call of the guard, from its loop.                                      *)
LEMMA GuardCallsMade ==
  ASSUME NEW s, s \in HomeStates, NEW at, NEW want \in {"on", "off"}, s.saver.enabled,
         entity.state # want, want = "off" => at # "pulsing"
  PROVE  LET t == Saver!GuardCalls(s, at, want)
         IN  /\ t.saver = s.saver /\ t.stored = s.stored /\ t.eval = s.eval
             /\ t.guard.at = at /\ t.calls.guard = want
             /\ t.calls.eval = s.calls.eval /\ t.calls.user = s.calls.user
<1> DEFINE r == [s EXCEPT !.guard.at = at]
           t == [r EXCEPT !.calls["guard"] = want]
<1>1. s.guard \in Guards /\ s.calls \in [Saver!Tasks -> CallStates]
  BY DEF HomeStates
<1>2. /\ r.saver = s.saver /\ r.stored = s.stored /\ r.eval = s.eval /\ r.calls = s.calls
      /\ r.guard.at = at
  BY <1>1 DEF HomeStates, Guards
<1>3. Saver!GuardCalls(s, at, want) = t
  BY <1>2 DEF Saver!GuardCalls, Saver!SetCharger, Saver!Cancelled
<1>4. /\ t.saver = s.saver /\ t.stored = s.stored /\ t.eval = s.eval /\ t.guard.at = at
      /\ t.calls = [s.calls EXCEPT !["guard"] = want]
  BY <1>1 DEF HomeStates, Guards
<1>5. /\ t.calls["guard"] = want /\ t.calls["eval"] = s.calls["eval"]
      /\ t.calls["user"] = s.calls["user"]
  BY <1>1, <1>4 DEF Saver!Tasks
<1> QED
  BY <1>3, <1>4, <1>5

LEMMA PulseOverFit ==
  ASSUME AtLoop, ha.saver.pulse = 0, entity.state # "gone"
  PROVE  Fit(Saver!PulseIsOver) /\ Watched(Saver!PulseIsOver) /\ Saver!PulseIsOver.eval = ha.eval
<1>1. /\ Good(ha) /\ Fit(ha) /\ Scene /\ ha.calls.guard = "none" /\ Types
      /\ ha \in HomeStates /\ ha.saver \in Savers /\ ha.saver.enabled /\ ha.guard.at = "loop"
  BY LoopNow DEF AtLoop
<1>2. /\ Restarted \in Nat /\ Latest = Guard + Restarted /\ Guard \in Nat /\ dark \in Nat
      /\ entity.state \in {"on", "off"} /\ plug \in BOOLEAN
  BY <1>1, Numbers DEF Scene, Latest
<1>3. Good(Saver!PulseIsOver)
  BY <1>1, PulseIsOverKeeps DEF Keeps
<1>4. CASE entity.state = "off"
  <2> DEFINE t == Saver!Saved([ha EXCEPT !.saver.pulse = Saver!None, !.saver.due = Guard])
  <2>1. Saver!PulseIsOver = t
    BY <1>4 DEF Saver!PulseIsOver
  <2>2. /\ t.saver.pulse = Saver!None /\ t.saver.due = Guard /\ t.stored = t.saver /\ t.guard = ha.guard
        /\ t.calls = ha.calls /\ t.eval = ha.eval /\ t.saver.enabled = ha.saver.enabled
        /\ t.saver.phase = ha.saver.phase
    BY <1>1 DEF Saver!Saved, HomeStates, Savers
  <2> HIDE DEF t
  <2>3. dark <= Restarted
    <3>1. plug => dark = 0
      BY <1>1 DEF Scene, Held
    <3>2. PulseFits(ha, 0)
      BY <1>1 DEF Fit, PulsesFit
    <3>3. ~plug => dark + 0 <= Restarted \/ dark = 0
      BY <3>2, Nones DEF PulseFits
    <3> QED
      BY <1>2, <3>1, <3>3
  <2>4. t.saver.due # Saver!None /\ dark + t.saver.due <= Latest
    BY <1>2, <2>2, <2>3, Nones
  <2>5. DueFits(t)
    BY <2>2, <2>4 DEF DueFits
  <2> QED
    BY <1>1, <2>1, <2>2, <2>5, DueFit
<1>5. CASE entity.state = "on" /\ (Saver!Status # "docked" \/ Saver!Battery <= 0)
  BY <1>1, <1>3, <1>5, LitWhenOn, GuardEndFit DEF Saver!PulseIsOver
<1>6. CASE entity.state = "on" /\ ~(Saver!Status # "docked" \/ Saver!Battery <= 0)
  <2> DEFINE r == [ha EXCEPT !.saver.pulse = Saver!None]
             t == Saver!GuardCalls(r, "ending", "off")
  <2>1. Saver!PulseIsOver = t
    BY <1>6 DEF Saver!PulseIsOver
  <2>2. /\ r \in HomeStates /\ r.saver.enabled /\ r.saver.pulse = Saver!None /\ r.saver.due = ha.saver.due
        /\ r.saver.phase = ha.saver.phase
        /\ r.stored = ha.stored /\ r.eval = ha.eval /\ r.calls = ha.calls
    <3>1. r \in HomeStates
      <4>1. Saver!None \in Saver!Left
        BY DEF Saver!Left
      <4> QED
        BY <1>1, <4>1, DeadlineSet DEF Keeps, Good
    <3> QED
      BY <1>1, <3>1 DEF HomeStates, Savers
  <2> HIDE DEF r
  <2>3. /\ t.saver = r.saver /\ t.stored = r.stored /\ t.eval = r.eval
        /\ t.guard.at = "ending" /\ t.calls.guard = "off"
        /\ t.calls.eval = r.calls.eval /\ t.calls.user = r.calls.user
    BY <1>6, <2>2, GuardCallsMade
  <2> HIDE DEF t
  <2>4. dark = 0
    BY <1>1, <1>6, LitWhenOn
  <2>5. Fit(t) /\ Watched(t)
    BY <1>1, <2>2, <2>3, <2>4, GuardCallFit
  <2> QED
    BY <2>1, <2>2, <2>3, <2>5
<1> QED
  BY <1>2, <1>4, <1>5, <1>6

LEMMA GuardDueFit ==
  ASSUME AtLoop, ha.saver.pulse = Saver!None, ha.saver.due = 0, entity.state = "off"
  PROVE  Fit(Saver!GuardIsDue) /\ Watched(Saver!GuardIsDue) /\ Saver!GuardIsDue.eval = ha.eval
<1>1. /\ Good(ha) /\ Fit(ha) /\ Scene /\ ha.calls.guard = "none" /\ Types
      /\ ha \in HomeStates /\ ha.saver \in Savers /\ ha.saver.enabled /\ ha.guard.at = "loop"
  BY LoopNow DEF AtLoop
<1>2. Latest \in Nat /\ dark \in Nat /\ Guard \in Nat /\ Guard > 1 /\ heard \in BOOLEAN
  BY <1>1, Numbers DEF Scene, WorldTypes
<1>3. Good(Saver!GuardIsDue)
  BY <1>1, GuardIsDueKeeps DEF Keeps
<1>0. 1 \in Saver!Left
  BY <1>2 DEF Saver!Left
<1>4. CASE Saver!Battery = Saver!None
  <2> DEFINE t == Saver!Saved([ha EXCEPT !.saver.due = 1])
  <2>1. Saver!GuardIsDue = t
    BY <1>4 DEF Saver!GuardIsDue
  <2>2. /\ t.saver.pulse = Saver!None /\ t.saver.due = 1 /\ t.stored = t.saver /\ t.guard = ha.guard
        /\ t.calls = ha.calls /\ t.eval = ha.eval /\ t.saver.enabled = ha.saver.enabled
        /\ t.saver.phase = ha.saver.phase
    BY <1>1 DEF Saver!Saved, HomeStates, Savers
  <2> HIDE DEF t
  <2>3. ~heard
    BY <1>1, <1>2, <1>4, BatteryKnown
  <2>4. dark < Latest
    BY <1>1, <2>3 DEF Scene, Held
  <2>5. t.saver.due # Saver!None /\ dark + t.saver.due <= Latest
    BY <1>2, <2>2, <2>4, Nones
  <2>6. DueFits(t)
    BY <2>2, <2>5 DEF DueFits
  <2> QED
    BY <1>1, <2>1, <2>2, <2>6, DueFit
<1>5. CASE Saver!Battery # Saver!None /\ Saver!Status # "docked"
  <2>1. heard
    BY <1>2, <1>5 DEF Saver!Battery
  <2>2. dark = 0
    BY <1>1, <1>5, <2>1, Undocked
  <2> QED
    BY <1>3, <1>5, <2>2, GuardEndFit DEF Saver!GuardIsDue
<1>6. CASE Saver!Battery # Saver!None /\ Saver!Status = "docked" /\ Saver!Battery <= 0
  <2> DEFINE t == Saver!GuardCalls(ha, "charging", "on")
  <2>1. Saver!GuardIsDue = t
    BY <1>6 DEF Saver!GuardIsDue
  <2>2. /\ t.saver = ha.saver /\ t.stored = ha.stored /\ t.eval = ha.eval
        /\ t.guard.at = "charging" /\ t.calls.guard = "on"
        /\ t.calls.eval = ha.calls.eval /\ t.calls.user = ha.calls.user
    BY <1>1, GuardCallsMade
  <2> HIDE DEF t
  <2>3. Fit(t) /\ Watched(t)
    BY <1>1, <2>2, GuardCallFit
  <2> QED
    BY <2>1, <2>2, <2>3
<1>7. CASE Saver!Battery # Saver!None /\ Saver!Status = "docked" /\ ~(Saver!Battery <= 0)
  <2> DEFINE r == Saver!Saved([ha EXCEPT !.saver.pulse = 1])
             t == Saver!GuardCalls(r, "pulsing", "on")
  <2>1. Saver!GuardIsDue = t
    BY <1>7 DEF Saver!GuardIsDue
  <2>2. /\ r \in HomeStates /\ r.saver.enabled /\ r.saver.pulse = 1 /\ r.saver.due = ha.saver.due
        /\ r.saver.phase = ha.saver.phase
        /\ r.stored = r.saver /\ r.eval = ha.eval /\ r.calls = ha.calls
    <3>1. r \in HomeStates
      <4> DEFINE q == [ha EXCEPT !.saver.pulse = 1]
      <4>1. Good(q)
        BY <1>0, <1>1, DeadlineSet DEF Keeps
      <4> HIDE DEF q
      <4>2. Good(Saver!Saved(q))
        BY <4>1, SavedKeeps DEF Keeps
      <4> QED
        BY <4>2 DEF q, Good
    <3> QED
      BY <1>1, <3>1 DEF Saver!Saved, HomeStates, Savers
  <2> HIDE DEF r
  <2>3. /\ t.saver = r.saver /\ t.stored = r.stored /\ t.eval = r.eval
        /\ t.guard.at = "pulsing" /\ t.calls.guard = "on"
        /\ t.calls.eval = r.calls.eval /\ t.calls.user = r.calls.user
    BY <2>2, GuardCallsMade
  <2> HIDE DEF t
  <2>4. t.stored.due = ha.stored.due
    BY <1>1, <2>2, <2>3 DEF Fit, DueFits
  <2>5. Fit(t) /\ Watched(t)
    BY <1>1, <2>2, <2>3, <2>4, GuardCallFit
  <2> QED
    BY <2>1, <2>2, <2>3, <2>5
<1> QED
  BY <1>4, <1>5, <1>6, <1>7

(* A step of the guard, which has no call it could cancel.                  *)
LEMMA GuardMoves ==
  ASSUME Goes, NEW s, Saver!GuardStep(s), ha.calls.guard \notin {"on", "off"}, Fit(s), Watched(s),
         s.eval = ha.eval
  PROVE  Awake'
<1>1. /\ Saver!Becomes(s, {}) /\ UNCHANGED Saver!World /\ left' = left /\ Types' /\ AwakeInv /\ Saver!Undisturbed
  BY DEF Saver!GuardStep, Goes
<1>2. ha' = s
  BY <1>1 DEF Saver!Becomes
<1>3. Good(s)
  BY <1>1, <1>2, GoodThen
<1>4. Held' /\ Fit(ha)' /\ Watched(ha)'
  BY <1>1, <1>3, BecomesFits DEF Saver!World
<1>5. ~heard => ha.eval.at = "idle"
  BY <1>1, SceneNow
<1> QED
  BY <1>1, <1>2, <1>4, <1>5 DEF Awake, Soon, Saver!World

LEMMA LoopAwake ==
  ASSUME Goes, Saver!GuardLoops
  PROVE  Awake'
<1> DEFINE t == IF ~ha.saver.enabled THEN [ha EXCEPT !.guard = Saver!NoGuard]
                ELSE IF entity.state = "gone" THEN Saver!Asleep(ha, "retry", 0)
                ELSE IF ha.saver.pulse > 0 THEN Saver!Asleep(ha, "sleep", ha.saver.pulse)
                ELSE IF ha.saver.pulse = 0 THEN Saver!PulseIsOver
                ELSE IF entity.state = "on"
                THEN Saver!Saved([ha EXCEPT !.saver.due = Saver!None, !.guard = Saver!NoGuard])
                ELSE IF ha.saver.due = Saver!None
                THEN Saver!Saved([ha EXCEPT !.saver.due = Guard - entity.since])
                ELSE IF ha.saver.due > 0 THEN Saver!Asleep(ha, "sleep", ha.saver.due)
                ELSE Saver!GuardIsDue
<1>1. /\ Saver!GuardStep(t) /\ ha.guard.at = "loop" /\ AwakeInv /\ Saver!Undisturbed
      /\ Types'
  BY DEF Saver!GuardLoops, Goes
<1>2. /\ Good(ha) /\ Fit(ha) /\ Scene
  BY <1>1, SceneNow
<1>3. /\ ha \in HomeStates /\ ha.saver \in Savers /\ ha.guard \in Guards /\ ha.calls.guard = "none"
      /\ ha.saver.pulse \in Saver!Left /\ ha.saver.due \in Saver!Left
  BY <1>1, <1>2 DEF Good, HomeStates, Savers, Tidy, Quiet
<1>4. /\ Restarted \in Nat /\ Latest = Guard + Restarted /\ Guard \in Nat /\ Guard > 1 /\ dark \in Nat
      /\ entity.since \in 0 .. Guard /\ entity.state \in {"on", "off", "gone"} /\ plug \in BOOLEAN
      /\ dark <= Latest
  BY <1>2, Numbers DEF Scene, Latest, Held
<1>5. \A at, n : /\ Saver!Asleep(ha, at, n).saver = ha.saver /\ Saver!Asleep(ha, at, n).stored = ha.stored
                 /\ Saver!Asleep(ha, at, n).calls = ha.calls /\ Saver!Asleep(ha, at, n).eval = ha.eval
                 /\ Saver!Asleep(ha, at, n).guard.at = at /\ Saver!Asleep(ha, at, n).guard.wake = n
  BY <1>3 DEF Saver!Asleep, HomeStates
<1>6. ha' = t
  BY <1>1 DEF Saver!GuardStep, Saver!Becomes
<1>7. Good(t)
  <2> HIDE DEF t
  <2> QED
    BY <1>1, <1>6, GoodThen
<1>8. Fit(t) /\ Watched(t) /\ t.eval = ha.eval
  <2>1. CASE ~ha.saver.enabled
    <3>1. t = [ha EXCEPT !.guard = Saver!NoGuard]
      BY <2>1
    <3> HIDE DEF t
    <3>2. /\ t.saver = ha.saver /\ t.stored = ha.stored /\ t.calls = ha.calls /\ t.eval = ha.eval
          /\ t.guard = Saver!NoGuard
      BY <1>3, <3>1 DEF HomeStates
    <3>3. dark = 0 /\ ha.saver.pulse = Saver!None /\ ha.stored.pulse = Saver!None /\ ha.stored.due = ha.saver.due
          /\ (ha.stored.enabled => ha.stored.phase # "disabled")
      BY <1>2, <2>1 DEF Fit, CallsFit, PulsesFit, PulseFits, DueFits, PhaseFits
    <3> QED
      BY <1>2, <1>7, <3>2, <3>3, NoGuardFit
  <2>2. CASE ha.saver.enabled /\ entity.state = "gone"
    <3>1. t = Saver!Asleep(ha, "retry", 0)
      BY <2>2
    <3> HIDE DEF t
    <3> QED
      BY <1>1, <1>2, <1>3, <1>5, <3>1, SleepFit
  <2>3. CASE ha.saver.enabled /\ entity.state # "gone" /\ ha.saver.pulse > 0
    <3>1. t = Saver!Asleep(ha, "sleep", ha.saver.pulse)
      BY <2>3
    <3> HIDE DEF t
    <3>2. PulseFits(ha, ha.saver.pulse) /\ ha.saver.pulse # Saver!None
      <4>1. ha.saver.pulse # Saver!None
        BY <2>3, Nones
      <4> QED
        BY <1>2, <4>1 DEF Fit, PulsesFit
    <3>3. plug => dark = 0
      BY <1>2 DEF Scene, Held
    <3>4. ha.saver.pulse \in Nat
      BY <1>3, <1>4, <3>2, Nones
    <3>5. dark + ha.saver.pulse <= Latest \/ Lights(ha)
      BY <1>4, <3>2, <3>3, <3>4 DEF PulseFits
    <3> QED
      BY <1>1, <1>2, <1>3, <1>5, <3>1, <3>4, <3>5, SleepFit
  <2>4. CASE ha.saver.enabled /\ entity.state # "gone" /\ ha.saver.pulse = 0
    BY <1>1, <2>4, PulseOverFit DEF AtLoop
  <2>5. ASSUME ha.saver.enabled, entity.state # "gone", ~(ha.saver.pulse > 0), ha.saver.pulse # 0
        PROVE  ha.saver.pulse = Saver!None
    BY <1>3, <1>4, <2>5, Nones
  <2>6. CASE ha.saver.enabled /\ entity.state = "on" /\ ha.saver.pulse = Saver!None
    <3>1. t = Saver!Saved([ha EXCEPT !.saver.due = Saver!None, !.guard = Saver!NoGuard])
      BY <2>6, Nones
    <3> HIDE DEF t
    <3>2. /\ t.saver.due = Saver!None /\ t.saver.pulse = Saver!None /\ t.stored = t.saver /\ t.calls = ha.calls
          /\ t.eval = ha.eval /\ t.guard = Saver!NoGuard /\ t.saver.enabled = ha.saver.enabled
          /\ t.saver.phase = ha.saver.phase
      BY <1>3, <2>6, <3>1 DEF Saver!Saved, HomeStates, Savers
    <3>3. dark = 0 /\ t.stored.phase # "disabled"
      BY <1>2, <2>6, <3>2, LitWhenOn DEF Fit, PhaseFits
    <3>4. t.stored.due = t.saver.due /\ t.stored.pulse = Saver!None
      BY <3>2
    <3> QED
      BY <1>2, <1>7, <3>2, <3>3, <3>4, NoGuardFit
  <2>7. CASE ha.saver.enabled /\ entity.state = "off" /\ ha.saver.pulse = Saver!None /\ ha.saver.due = Saver!None
    <3> DEFINE d == Guard - entity.since
    <3>1. t = Saver!Saved([ha EXCEPT !.saver.due = d])
      BY <2>7, Nones
    <3>2. d \in 0 .. Guard /\ d \in Nat
      BY <1>4
    <3>3. dark + d <= Latest
      <4>1. entity.since = Guard \/ dark <= entity.since + Restarted
        BY <1>2, <2>7 DEF Fit, DueFits
      <4> QED
        BY <1>4, <4>1
    <3> HIDE DEF t, d
    <3>4. /\ t.saver.due = d /\ t.saver.pulse = Saver!None /\ t.stored = t.saver /\ t.calls = ha.calls
          /\ t.eval = ha.eval /\ t.guard = ha.guard /\ t.saver.enabled = ha.saver.enabled
          /\ t.saver.phase = ha.saver.phase
      BY <1>3, <2>7, <3>1 DEF Saver!Saved, HomeStates, Savers
    <3>5. d # Saver!None
      BY <3>2, Nones
    <3>6. DueFits(t)
      BY <3>3, <3>4, <3>5 DEF DueFits
    <3> QED
      BY <1>1, <1>2, <2>7, <3>4, <3>6, DueFit
  <2>8. CASE /\ ha.saver.enabled /\ entity.state = "off" /\ ha.saver.pulse = Saver!None
             /\ ha.saver.due # Saver!None /\ ha.saver.due > 0
    <3>1. t = Saver!Asleep(ha, "sleep", ha.saver.due)
      BY <2>8, Nones
    <3> HIDE DEF t
    <3>2. dark + ha.saver.due <= Latest
      BY <1>2, <2>8 DEF Fit, DueFits
    <3> QED
      BY <1>1, <1>2, <1>3, <1>5, <2>8, <3>1, <3>2, SleepFit
  <2>9. CASE /\ ha.saver.enabled /\ entity.state = "off" /\ ha.saver.pulse = Saver!None
             /\ ha.saver.due # Saver!None /\ ~(ha.saver.due > 0)
    <3>1. t = Saver!GuardIsDue
      BY <2>9, Nones
    <3>2. ha.saver.due = 0
      BY <1>3, <1>4, <2>9, Nones
    <3> HIDE DEF t
    <3> QED
      BY <1>1, <2>9, <3>1, <3>2, GuardDueFit DEF AtLoop
  <2> QED
    BY <1>4, <2>1, <2>2, <2>3, <2>4, <2>5, <2>6, <2>7, <2>8, <2>9
<1> HIDE DEF t
<1> QED
  BY <1>1, <1>3, <1>8, GuardMoves

LEMMA WakeAwake ==
  ASSUME Goes, Saver!GuardWakes
  PROVE  Awake'
<1> DEFINE g == [Saver!NoGuard EXCEPT !.at = "loop"]
           t == [ha EXCEPT !.guard = g]
<1>1. Saver!GuardStep(t) /\ ha.guard.at \in {"retry", "sleep"} /\ AwakeInv /\ Saver!Undisturbed
  BY DEF Saver!GuardWakes, Goes
<1>2. Good(ha) /\ Fit(ha) /\ ha \in HomeStates /\ ha.calls.guard = "none"
  BY <1>1, SceneNow DEF Good, Tidy, Quiet
<1>3. g.at = "loop"
  BY DEF Saver!NoGuard
<1> HIDE DEF g
<1>4. /\ t.saver = ha.saver /\ t.stored = ha.stored /\ t.calls = ha.calls /\ t.eval = ha.eval
      /\ t.guard.at = "loop"
  BY <1>2, <1>3 DEF HomeStates
<1> HIDE DEF t
<1>5. Fit(t) /\ Watched(t)
  BY <1>1, <1>2, <1>4, SleepFit
<1> QED
  BY <1>1, <1>2, <1>4, <1>5, GuardMoves

LEMMA GoesOnAwake ==
  ASSUME Goes, Saver!GuardGoesOn
  PROVE  Awake'
<1> DEFINE s == [ha EXCEPT !.calls.guard = "none"]
           g == IF ha.guard.at = "charging" THEN Saver!NoGuard ELSE [ha.guard EXCEPT !.at = "loop"]
           t == [s EXCEPT !.guard = g]
<1>1. /\ Goes /\ AwakeInv /\ Saver!Undisturbed /\ ha.calls.guard = "back"
  BY DEF Saver!GuardGoesOn, Goes
<1>2. /\ Good(ha) /\ Fit(ha) /\ ha \in HomeStates /\ ha.calls \in [Saver!Tasks -> CallStates]
      /\ ha.guard \in Guards
  BY <1>1, SceneNow DEF Good, HomeStates
<1>3. Saver!GuardStep(t)
  BY <1>2 DEF Saver!GuardGoesOn, HomeStates
<1>4. g.at = IF ha.guard.at = "charging" THEN "none" ELSE "loop"
  BY <1>2 DEF Saver!NoGuard, Guards
<1> HIDE DEF g
<1>5. /\ t.saver = ha.saver /\ t.stored = ha.stored /\ t.eval = ha.eval /\ t.guard = g
      /\ t.calls.guard = "none" /\ t.calls.eval = ha.calls.eval /\ t.calls.user = ha.calls.user
  BY <1>2 DEF HomeStates, Saver!Tasks
<1> HIDE DEF t, s
<1>6. (Lights(t) <=> Lights(ha)) /\ (Settles(t) <=> Settles(ha))
  BY <1>1, <1>5 DEF Lights, Settles
<1>7. ha.guard.at = "charging" => dark = 0 /\ ha.saver.pulse = Saver!None
  BY <1>1, <1>2 DEF Fit, CallsFit, GuardFits
<1>8. CallsFit(t) /\ DueFits(t) /\ PhaseFits(t)
  BY <1>2, <1>5 DEF Fit, CallsFit, DueFits, PhaseFits
<1>9. GuardFits(t)
  <2>1. t.guard.at \in {"none", "loop"} /\ (t.guard.at = "none" => t.saver.pulse = Saver!None)
    BY <1>4, <1>5, <1>7
  <2> QED
    BY <2>1 DEF GuardFits, GuardCallFits
<1>10. PulsesFit(t)
  <2>1. t.stored.pulse # t.saver.pulse =>
            t.calls.eval \in {"on", "did on"} \/ t.calls.user \in {"on", "did on"}
    BY <1>1, <1>2, <1>5 DEF Fit, PulsesFit
  <2>2. PulseFits(t, t.saver.pulse) /\ PulseFits(t, t.stored.pulse)
    BY <1>2, <1>5, <1>6 DEF Fit, PulsesFit, PulseFits
  <2> QED
    BY <2>1, <2>2 DEF PulsesFit
<1>11. Watched(t)
  BY <1>4, <1>5, <1>7 DEF Watched
<1> QED
  BY <1>1, <1>3, <1>5, <1>8, <1>9, <1>10, <1>11, GuardMoves DEF Fit

-----------------------------------------------------------------------------
(* The evaluation.                                                          *)

(* It passes: who saw to the mower still does; or somebody does now.        *)
LEMMA EvalMoves ==
  ASSUME Goes, NEW s, Saver!EvalStep(s, {}), left'.restart = left.restart,
         Passes(ha, s), ~heard => s.eval.at = "idle"
  PROVE  /\ Watched(s) => Awake'
         /\ Soon' => Awake'
         /\ ha' = s /\ dark' \in {0, dark} /\ (Watched(s) => Watched(ha)')
         /\ UNCHANGED <<shared, entity, robot, cloud, heard>> /\ Good(s)
<1>1. /\ Saver!Becomes(s, {}) /\ UNCHANGED <<shared, entity, robot, cloud, heard>> /\ Types' /\ AwakeInv
      /\ Saver!Undisturbed
  BY DEF Saver!EvalStep, Goes
<1>2. ha' = s
  BY <1>1 DEF Saver!Becomes
<1>3. Good(s)
  BY <1>1, <1>2, GoodThen
<1>4. Fit(s) /\ (s.calls.guard = ha.calls.guard \/ Calm(s))
  BY DEF Passes
<1>5. Held' /\ Fit(ha)' /\ (Watched(s) => Watched(ha)') /\ dark' \in {0, dark}
  BY <1>1, <1>3, <1>4, BecomesFits
<1>6. Watched(ha)' => Soon'
  BY DEF Soon
<1>7. Soon' => Awake'
  BY <1>1, <1>2, <1>5 DEF Awake
<1> QED
  BY <1>1, <1>2, <1>3, <1>5, <1>6, <1>7

(* Until the shadow is heard there is nothing to evaluate.                  *)
LEMMA EvaluatedUnheard ==
  ASSUME NEW r, Ready(r), Scene, ~heard
  PROVE  Passes(r, Saver!Evaluated(r)) /\ Saver!Evaluated(r).eval.at = "idle"
<1> DEFINE e == [r.eval EXCEPT !.status = Saver!Status, !.battery = Saver!Battery]
           s == [r EXCEPT !.eval.status = Saver!Status, !.eval.battery = Saver!Battery]
<1>1. r \in HomeStates /\ r.eval \in Evals /\ Good(r) /\ Fit(r) /\ r.calls.eval = "none" /\ WorldTypes
  BY DEF Ready, Good, HomeStates, Scene
<1>2. e \in Evals /\ e.at = r.eval.at
  BY <1>1, Heard DEF Evals, Good
<1>3. s = [r EXCEPT !.eval = e]
  BY <1>1 DEF HomeStates
<1> HIDE DEF e
<1>4. Good(s) /\ s.saver = r.saver /\ s.stored = r.stored /\ s.guard = r.guard /\ s.calls = r.calls
      /\ s.eval = e
  <2>1. Good(s)
    <3> HIDE DEF s
    <3> QED
      BY <1>1, <1>2, <1>3, EvalSet DEF Keeps
  <2> QED
    BY <1>1, <1>2, <1>3, <2>1 DEF HomeStates
<1>5. Saver!Evaluated(r) \in {Saver!Ended(s), Saver!Ended(Saver!Ensured(s))}
  BY DEF Saver!Evaluated, Saver!Battery
<1> HIDE DEF s
<1>6. PhaseFits(s) /\ r.stored.due = r.saver.due
  BY <1>1, <1>2, <1>4 DEF PhaseFits, Fit, DueFits
<1>7. Alike(r, s)
  <2>1. Fit(s) /\ (Watched(r) <=> Watched(s)) /\ (Noticed(r) <=> Noticed(s))
    BY <1>1, <1>4, <1>6, FitStays
  <2> QED
    BY <1>1, <1>4, <2>1 DEF Alike, Ready
<1>8. Ready(s)
  BY <1>7 DEF Alike
<1>9. Passes(s, Saver!Ended(s)) /\ Passes(s, Saver!Ended(Saver!Ensured(s)))
  BY <1>8, EndedPasses, EnsuredSees DEF Sees
<1>10. Saver!Ended(s).eval.at = "idle" /\ Saver!Ended(Saver!Ensured(s)).eval.at = "idle"
  <2>1. s \in HomeStates /\ Saver!Ensured(s) \in HomeStates
    BY <1>4, EnsuredFit, <1>8 DEF Good, Ready
  <2> QED
    BY <2>1 DEF Saver!Ended, Saver!NoEval, HomeStates
<1> QED
  BY <1>5, <1>7, <1>9, <1>10, AlikeThen

LEMMA BeginsAwake ==
  ASSUME Goes, Saver!EvalBegins
  PROVE  Awake'
<1> DEFINE e == [at |-> "begun", status |-> Saver!Status, battery |-> Saver!Battery, resuming |-> FALSE]
           s == [ha EXCEPT !.eval = e]
           r == [s EXCEPT !.eval.at = "resuming", !.eval.resuming = TRUE]
           m == Saver!At(s, "manual")
           d == Saver!Ended(Saver!Rechecked(s))
           t == IF ~s.saver.enabled THEN Saver!Ended(s)
                ELSE IF s.saver.phase = "manual_charge" /\ Saver!Status = "docked"
                THEN IF s.recheck = "due" THEN m ELSE d
                ELSE IF s.saver.phase = "recovery_charge" /\ Saver!Status = "docked"
                        /\ Saver!Battery >= Resume /\ s.task
                THEN r
                ELSE Saver!Evaluated(s)
<1>1. /\ Saver!EvalStep(t, {}) /\ fresh' = TRUE /\ ha.eval.at = "idle" /\ Goes
      /\ AwakeInv /\ Saver!Undisturbed /\ Types' /\ left' = left
  BY DEF Saver!EvalBegins, Goes
<1>2. Good(ha) /\ Fit(ha) /\ Scene /\ Soon
  BY <1>1, SceneNow
<1>3. /\ ha \in HomeStates /\ ha.calls.eval = "none" /\ WorldTypes /\ heard \in BOOLEAN
      /\ Saver!Status \in Statuses /\ Saver!Battery \in Saver!None .. Limit
  BY <1>1, <1>2, Heard DEF Good, Tidy, Scene, WorldTypes
<1>4. e \in Evals /\ e.at = "begun" /\ e.battery = Saver!Battery
  BY <1>3 DEF Evals, EvalPlaces
<1> HIDE DEF e
<1>5. /\ s.saver = ha.saver /\ s.stored = ha.stored /\ s.guard = ha.guard /\ s.calls = ha.calls
      /\ s.eval = e /\ s.recheck = ha.recheck
  BY <1>3 DEF HomeStates
<1>6. Good(s)
  BY <1>2, <1>4, EvalSet DEF Keeps
<1>7. s \in HomeStates
  BY <1>6 DEF Good
<1>8. r = [s EXCEPT !.eval = [e EXCEPT !.at = "resuming", !.resuming = TRUE]]
  BY <1>3 DEF HomeStates
<1> HIDE DEF s
<1>9. PhaseFits(s) /\ ha.stored.due = ha.saver.due
  BY <1>2, <1>3, <1>4, <1>5 DEF PhaseFits, Fit, DueFits
<1>10. Alike(ha, s) /\ Ready(s)
  <2>1. Fit(s) /\ (Watched(ha) <=> Watched(s)) /\ (Noticed(ha) <=> Noticed(s))
    BY <1>2, <1>5, <1>9, FitStays
  <2> QED
    BY <1>3, <1>5, <1>6, <2>1 DEF Alike, Ready
<1>11. Passes(ha, Saver!Ended(s)) /\ Saver!Ended(s).eval.at = "idle"
  <2>1. Passes(ha, Saver!Ended(s))
    BY <1>10, EndedPasses, AlikeThen
  <2>2. Saver!Ended(s).eval.at = "idle"
    BY <1>7 DEF Saver!Ended, Saver!NoEval, HomeStates
  <2> QED
    BY <2>1, <2>2
<1>12. /\ Passes(ha, m) /\ m.eval.at = "manual" /\ m.eval.battery = Saver!Battery
  <2>1. Alike(s, m) /\ m.eval.at = "manual"
    BY <1>10, AtAlike DEF EvalPlaces
  <2>2. Alike(ha, m)
    BY <1>10, <2>1, AlikeThen
  <2>3. m.eval.battery = Saver!Battery
    BY <1>4, <1>5, <1>7 DEF Saver!At, HomeStates, Evals
  <2> HIDE DEF m
  <2> QED
    BY <2>1, <2>2, <2>3 DEF Alike, Passes, Ready
<1>13. /\ Passes(ha, d) /\ d.eval.at = "idle" /\ d.recheck # "none" /\ d.saver = s.saver
  <2> DEFINE q == Saver!Rechecked(s)
  <2>1. /\ Good(q) /\ q.saver = s.saver /\ q.stored = s.stored /\ q.guard = s.guard
        /\ q.calls = s.calls /\ q.eval = s.eval /\ q.recheck # "none" /\ q \in HomeStates
    <3>1. Good(q)
      BY <1>6, RecheckedKeeps DEF Keeps
    <3> QED
      BY <1>7, <3>1 DEF Saver!Rechecked, HomeStates, Good
  <2> HIDE DEF q
  <2>2. PhaseFits(q) /\ s.stored.due = s.saver.due
    BY <1>5, <1>9, <2>1 DEF PhaseFits
  <2>3. Fit(q) /\ (Watched(s) <=> Watched(q)) /\ (Noticed(s) <=> Noticed(q))
    BY <1>10, <2>1, <2>2, FitStays DEF Ready
  <2>4. Alike(s, q) /\ Ready(q)
    BY <1>10, <2>1, <2>3 DEF Alike, Ready
  <2>5. Passes(ha, Saver!Ended(q))
    BY <1>10, <2>4, EndedPasses, AlikeThen
  <2>6. Saver!Ended(q).eval.at = "idle" /\ Saver!Ended(q).recheck = q.recheck /\ Saver!Ended(q).saver = q.saver
    BY <2>1 DEF Saver!Ended, Saver!NoEval, HomeStates
  <2> QED
    BY <2>1, <2>5, <2>6 DEF q
<1>14. Passes(ha, r) /\ r.eval.at = "resuming"
  <2> DEFINE f == [e EXCEPT !.at = "resuming", !.resuming = TRUE]
  <2>1. f \in Evals /\ f.at = "resuming"
    BY <1>4 DEF Evals, EvalPlaces
  <2>2. r = [s EXCEPT !.eval = f]
    BY <1>8
  <2> HIDE DEF f, r
  <2>3. /\ Good(r) /\ r.eval = f
    BY <1>6, <2>1, <2>2, EvalSet DEF Keeps
  <2>4. r.saver = s.saver /\ r.stored = s.stored /\ r.guard = s.guard /\ r.calls = s.calls
    BY <1>7, <2>2 DEF HomeStates
  <2>5. PhaseFits(r) /\ s.stored.due = s.saver.due
    BY <1>3, <1>5, <1>9, <2>4 DEF PhaseFits
  <2>6. Fit(r) /\ (Watched(s) <=> Watched(r)) /\ (Noticed(s) <=> Noticed(r))
    BY <1>10, <2>4, <2>5, FitStays DEF Ready
  <2>7. Alike(s, r)
    BY <1>10, <2>3, <2>4, <2>6 DEF Alike, Ready
  <2>8. Alike(ha, r)
    BY <1>10, <2>7, AlikeThen
  <2> QED
    BY <2>1, <2>3, <2>8 DEF Alike, Passes, Ready
<1> HIDE DEF r, m, d
<1>15. heard => Sees(ha, Saver!Evaluated(s))
  BY <1>2, <1>10, EvaluatedSees, AlikeThen
<1>16. ~heard => Passes(ha, Saver!Evaluated(s)) /\ Saver!Evaluated(s).eval.at = "idle"
  BY <1>2, <1>10, EvaluatedUnheard, AlikeThen
<1>17. ~heard => Saver!Status # "docked"
  BY DEF Saver!Status
<1>18. Passes(ha, t) /\ (~heard => t.eval.at = "idle")
  BY <1>3, <1>11, <1>12, <1>13, <1>14, <1>15, <1>16, <1>17 DEF Sees
<1> HIDE DEF t
<1>19. /\ Watched(t) => Awake'
       /\ Soon' => Awake'
       /\ ha' = t /\ dark' \in {0, dark} /\ (Watched(t) => Watched(ha)')
       /\ UNCHANGED <<shared, entity, robot, cloud, heard>>
  BY <1>1, <1>18, EvalMoves
<1>20. CASE Watched(ha)
  BY <1>18, <1>19, <1>20 DEF Passes
<1>21. CASE ~Watched(ha) /\ ~Watched(t)
  <2>1. /\ entity.state = "off" /\ heard /\ ha.saver.enabled /\ Noticed(ha)
        /\ (fresh => dark = 1 /\ ha.saver.phase = "manual_charge" /\ ha.recheck # "none")
        /\ dark <= 2 /\ dark # 0
        /\ dark = 2 => ha.saver.phase = "manual_charge" /\ ha.recheck = "due"
    BY <1>1, <1>2, <1>21 DEF Soon, Noticed, Watched
  <2>2. t # Saver!Evaluated(s)
    BY <1>15, <1>21, <2>1 DEF Sees
  <2>3. \/ t = m /\ Saver!Battery # Saver!None
        \/ t = d /\ ha.saver.phase = "manual_charge" /\ ha.recheck # "due"
        \/ t = r /\ ha.saver.phase = "recovery_charge"
    BY <1>2, <1>5, <2>1, <2>2, BatteryKnown DEF t
  <2>4. dark' = 0 \/ dark' = dark
    BY <1>19
  <2>5. dark' # 0 => dark' = dark
    BY <2>4
  <2>6. dark \in Nat
    BY <1>2, Numbers DEF Scene
  <2>7. dark' = 0 => Soon'
    BY DEF Soon, Watched
  <2>8. ASSUME dark' = dark
        PROVE  Soon'
    <3>1. CASE t = m /\ Saver!Battery # Saver!None
      BY <1>12, <1>19, <2>1, <2>8, <3>1 DEF Soon
    <3>2. CASE t = d /\ ha.saver.phase = "manual_charge" /\ ha.recheck # "due"
      <4>1. dark = 1
        BY <2>1, <2>6, <3>2
      <4> QED
        BY <1>5, <1>13, <1>19, <2>1, <2>8, <3>2, <4>1 DEF Soon
    <3>3. CASE t = r /\ ha.saver.phase = "recovery_charge"
      <4>1. dark = 1
        BY <2>1, <2>6, <3>3
      <4> QED
        BY <1>14, <1>19, <2>1, <2>8, <3>3, <4>1 DEF Soon
    <3> QED
      BY <2>3, <3>1, <3>2, <3>3
  <2> QED
    BY <1>19, <2>4, <2>7, <2>8
<1> QED
  BY <1>19, <1>20, <1>21

LEMMA EvalGoesOnAwake ==
  ASSUME Goes, Saver!EvalGoesOn
  PROVE  Awake'
<1> DEFINE s == [ha EXCEPT !.calls.eval = "none"]
           c == Saver!At(Saver!Phase(s, "mowing"), "continue")
           t == CASE ha.eval.at = "end"    -> Saver!Ended(s)
                  [] ha.eval.at = "resume" -> IF s.saver.enabled THEN c ELSE Saver!Ended(s)
                  [] OTHER                 -> s
<1>1. Saver!EvalStep(t, {}) /\ ha.calls.eval = "back" /\ left' = left /\ AwakeInv /\ Saver!Undisturbed
  BY DEF Saver!EvalGoesOn, Goes
<1>2. /\ Good(ha) /\ Fit(ha) /\ Scene /\ Soon /\ (~heard => ha.eval.at = "idle")
      /\ ha \in HomeStates /\ ha.calls \in [Saver!Tasks -> CallStates]
  BY <1>1, SceneNow DEF Good, HomeStates
<1>3. heard /\ Watched(ha)
  <2>1. ha.eval.at \notin {"idle", "manual", "resuming"}
    BY <1>1, <1>2 DEF Good, Tidy, Fit, PhaseFits
  <2> QED
    BY <1>2, <2>1 DEF Soon
<1>4. /\ s.saver = ha.saver /\ s.stored = ha.stored /\ s.guard = ha.guard /\ s.eval = ha.eval
      /\ s.calls.eval = "none" /\ s.calls.guard = ha.calls.guard /\ s.calls.user = ha.calls.user
  BY <1>2 DEF HomeStates, Saver!Tasks
<1>5. Good(s)
  <2>1. Places(ha, "eval") /\ "none" \in CallStates
    BY <1>1, <1>2 DEF Good, Tidy, Places, CallStates
  <2> QED
    BY <1>2, <2>1, CallSet DEF Keeps
<1> HIDE DEF s
<1>6. PhaseFits(s) /\ ha.stored.due = ha.saver.due
  BY <1>2, <1>4 DEF Fit, PhaseFits, DueFits
<1>7. Fit(s) /\ (Watched(ha) <=> Watched(s))
  BY <1>1, <1>2, <1>4, <1>6, FitStays
<1>8. Ready(s) /\ Passes(ha, s)
  BY <1>4, <1>5, <1>7 DEF Ready, Passes
<1>9. \A u : Passes(s, u) => Passes(ha, u)
  BY <1>4, <1>7 DEF Passes
<1>10. Passes(ha, Saver!Ended(s))
  BY <1>8, <1>9, EndedPasses
<1>11. Passes(ha, c)
  <2> DEFINE p == Saver!Phase(s, "mowing")
  <2>1. Alike(s, p)
    BY <1>8, PhaseAlike DEF Saver!Phases
  <2> HIDE DEF p
  <2>2. Alike(p, Saver!At(p, "continue"))
    BY <2>1, AtAlike DEF Alike, EvalPlaces
  <2>3. Alike(s, Saver!At(p, "continue"))
    BY <2>1, <2>2, AlikeThen
  <2> QED
    BY <1>9, <2>3 DEF Alike, Passes, Ready, p
<1> HIDE DEF c
<1>12. Passes(ha, t)
  BY <1>8, <1>10, <1>11
<1> HIDE DEF t
<1> QED
  BY <1>1, <1>3, <1>12, EvalMoves DEF Passes

LEMMA EventsAwake ==
  ASSUME Goes, Saver!EventsArrive
  PROVE  Awake'
<1> DEFINE t == Saver!Informed(Saver!Events)
<1>1. /\ Saver!EvalStep(t, {}) /\ ha.eval.at \in Saver!Downloading /\ ha.calls.eval = "none"
      /\ left' = left /\ AwakeInv /\ Saver!Undisturbed
  BY DEF Saver!EventsArrive, Goes
<1>2. /\ Good(ha) /\ Fit(ha) /\ Scene /\ Soon /\ (~heard => ha.eval.at = "idle") /\ ha \in HomeStates
      /\ cloud \in Saver!Codes
  BY <1>1, SceneNow DEF Good, Scene, WorldTypes
<1>3. heard /\ ha.eval.at # "idle"
  BY <1>1, <1>2 DEF Saver!Downloading
<1>4. /\ Good(Saver!Events) /\ Saver!Events.saver = ha.saver /\ Saver!Events.stored = ha.stored
      /\ Saver!Events.guard = ha.guard /\ Saver!Events.calls = ha.calls /\ Saver!Events.eval = ha.eval
  <2> DEFINE k == [ha EXCEPT !.known = cloud, !.recent = TRUE]
  <2>1. /\ Good(k) /\ k.saver = ha.saver /\ k.stored = ha.stored
        /\ k.guard = ha.guard /\ k.calls = ha.calls /\ k.eval = ha.eval
    BY <1>2 DEF Good, Tidy, HomeStates
  <2> QED
    BY <1>2, <2>1 DEF Saver!Events
<1>5. PhaseFits(Saver!Events) /\ ha.stored.due = ha.saver.due
  BY <1>2, <1>4 DEF Fit, PhaseFits, DueFits
<1>6. Alike(ha, Saver!Events) /\ Ready(Saver!Events)
  <2>1. Fit(Saver!Events) /\ (Watched(ha) <=> Watched(Saver!Events)) /\ (Noticed(ha) <=> Noticed(Saver!Events))
    BY <1>2, <1>4, <1>5, FitStays
  <2> QED
    BY <1>1, <1>4, <2>1 DEF Alike, Ready
<1>7. /\ Passes(ha, t)
      /\ ha.eval.at = "resuming" \/ (ha.eval.at = "manual" /\ ha.eval.battery # Saver!None) => Sees(ha, t)
  BY <1>1, <1>2, <1>3, <1>4, <1>6, InformedPasses, AlikeThen
<1> HIDE DEF t
<1>8. Watched(t)
  <2>1. CASE Watched(ha)
    BY <1>7, <2>1 DEF Passes
  <2>2. CASE ~Watched(ha)
    <3>1. Noticed(ha) /\ (ha.eval.at = "resuming" \/ (ha.eval.at = "manual" /\ ha.eval.battery # Saver!None))
      BY <1>2, <1>3, <2>2 DEF Soon, Noticed
    <3> QED
      BY <1>7, <3>1 DEF Sees
  <2> QED
    BY <2>1, <2>2
<1> QED
  BY <1>1, <1>3, <1>7, <1>8, EvalMoves

(* Steps of the integration that leave the plug alone.                      *)
LEMMA PlainMoves ==
  ASSUME Goes, NEW s, ha' = s, Fit(s), UNCHANGED <<plug, dark, entity, heard>>,
         left'.restart = left.restart, robot'.status = robot.status \/ dark = 0
  PROVE  Held' /\ Fit(ha)' /\ (Watched(s) => Watched(ha)') /\ (Watched(s) => Soon')
<1>1. Types' /\ left' \in Saver!Counts /\ AwakeInv /\ Saver!Undisturbed
  BY DEF Goes
<1>2. Scene /\ Held /\ Good(s)
  BY <1>1, SceneNow, GoodThen
<1>3. Fit(ha)' /\ (Watched(s) => Watched(ha)') /\ Latest' = Latest
  BY <1>2, FitMoves
<1>4. Held'
  BY <1>2, <1>3 DEF Held
<1> QED
  BY <1>3, <1>4 DEF Soon

LEMMA TimersAwake ==
  ASSUME Goes, Saver!RecheckIsDue \/ Saver!ThrottleEnds
  PROVE  Awake'
<1>1. /\ UNCHANGED <<Saver!World, plug, dark, left>> /\ AwakeInv /\ Saver!Undisturbed
  BY DEF Saver!RecheckIsDue, Saver!ThrottleEnds, Goes
<1>2. /\ Good(ha) /\ Fit(ha) /\ Soon /\ (~heard => ha.eval.at = "idle") /\ ha \in HomeStates
  BY <1>1, SceneNow DEF Good
<1> DEFINE t == ha'
<1>3. /\ t.saver = ha.saver /\ t.stored = ha.stored /\ t.guard = ha.guard /\ t.calls = ha.calls
      /\ t.eval = ha.eval /\ (ha.recheck = "none" \/ t.recheck = ha.recheck \/ t.recheck = "due")
      /\ ha.recheck # "none" => t.recheck # "none"
  <2>1. CASE Saver!RecheckIsDue
    BY <1>2, <2>1 DEF Saver!RecheckIsDue, HomeStates
  <2>2. CASE Saver!ThrottleEnds
    BY <1>2, <2>2 DEF Saver!ThrottleEnds, HomeStates
  <2> QED
    BY <2>1, <2>2
<1>4. PhaseFits(t) /\ ha.stored.due = ha.saver.due
  <2> HIDE DEF t
  <2> QED
    BY <1>2, <1>3 DEF Fit, PhaseFits, DueFits
<1>5. Fit(t) /\ (Watched(ha) <=> Watched(t))
  <2> HIDE DEF t
  <2> QED
    BY <1>2, <1>3, <1>4, FitStays
<1>6. Held' /\ Fit(ha)' /\ (Watched(ha) => Watched(ha)') /\ (Watched(ha) => Soon')
  <2> DEFINE u == ha'
  <2>1. ha' = u /\ Fit(u) /\ (Watched(ha) <=> Watched(u))
    BY <1>5
  <2> HIDE DEF u, t
  <2> QED
    BY <1>1, <2>1, PlainMoves DEF Saver!World
<1>7. Soon'
  BY <1>1, <1>2, <1>3, <1>6 DEF Soon, Saver!World
<1> QED
  BY <1>1, <1>2, <1>3, <1>6, <1>7 DEF Awake, Saver!World

LEMMA ContinuesAwake ==
  ASSUME Goes, Saver!Continues
  PROVE  Awake'
<1>1. /\ UNCHANGED <<plug, dark, entity, heard, left>> /\ AwakeInv /\ Saver!Undisturbed /\ Types
      /\ robot' = [robot EXCEPT !.told = TRUE] /\ ha.eval.at = "continue"
      /\ ha' \in {Saver!At(ha, "verify"), Saver!Ended(ha)}
  BY DEF Saver!Continues, Goes, AwakeInv, PowerInv
<1>2. /\ Good(ha) /\ Fit(ha) /\ Soon /\ Scene /\ (~heard => ha.eval.at = "idle") /\ ha \in HomeStates
  BY <1>1, SceneNow DEF Good
<1>3. heard /\ Watched(ha) /\ ha.calls.eval = "none"
  BY <1>1, <1>2 DEF Soon, Fit, PhaseFits
<1>4. robot'.status = robot.status
  BY <1>1 DEF Types, WorldTypes, Saver!Mowers
<1>5. Ready(ha)
  BY <1>2, <1>3 DEF Ready
<1>6. Passes(ha, Saver!Ended(ha)) /\ Passes(ha, Saver!At(ha, "verify"))
  <2>1. Alike(ha, Saver!At(ha, "verify"))
    BY <1>5, AtAlike DEF EvalPlaces
  <2> QED
    BY <1>5, <2>1, EndedPasses DEF Alike, Passes, Ready
<1>7. PICK s : ha' = s /\ Passes(ha, s)
  BY <1>1, <1>6
<1>8. Held' /\ Fit(ha)' /\ (Watched(s) => Soon')
  BY <1>1, <1>4, <1>7, PlainMoves DEF Passes
<1> QED
  BY <1>1, <1>3, <1>7, <1>8 DEF Awake, Passes

-----------------------------------------------------------------------------
(* Failures, the user, and restarts.                                        *)

LEMMA FaultsDisturb ==
  ASSUME \/ \E who \in Saver!Tasks : Saver!CallFails(who)
         \/ Saver!EntityGone \/ Saver!SettleEnds \/ Saver!DownloadFails \/ Saver!ContinueFails
  PROVE  ~Saver!Undisturbed'
<1>1. "failed" \in upset'
  BY DEF Saver!CallFails, Saver!EntityGone, Saver!SettleEnds, Saver!DownloadFails,
     Saver!ContinueFails, Saver!Fault, Saver!EvalStep, Saver!Becomes
<1> QED
  BY <1>1 DEF Saver!Undisturbed

LEMMA EnableAwake ==
  ASSUME Goes, Saver!Enable, left'.restart = left.restart
  PROVE  Awake'
<1> DEFINE begun == IF Saver!Status = "mowing" THEN "mowing"
                    ELSE IF Saver!Raining(ha) THEN "rain_hold" ELSE "initial_charge"
           d == Saver!Saved([ha EXCEPT !.saver.enabled = TRUE, !.saver.phase = begun])
           t == Saver!Ensured(d)
<1>1. /\ ha' = t /\ UNCHANGED <<Saver!World, plug, dark>> /\ ~ha.saver.enabled /\ Types'
      /\ AwakeInv /\ Saver!Undisturbed
  BY DEF Saver!Enable, Goes
<1>2. /\ Good(ha) /\ Fit(ha) /\ Scene /\ (~heard => ha.eval.at = "idle") /\ ha \in HomeStates
      /\ ha.saver \in Savers
  BY <1>1, SceneNow DEF Good, HomeStates
<1>3. begun # "disabled" /\ begun \in Saver!Phases
  BY DEF Saver!Phases
<1> HIDE DEF begun
<1>4. /\ dark = 0 /\ ha.saver.pulse = Saver!None
  BY <1>1, <1>2 DEF Fit, CallsFit, PulsesFit, PulseFits
<1>5. /\ d.saver.phase = begun /\ d.saver.pulse = Saver!None /\ d.stored = d.saver
      /\ d.calls = ha.calls /\ d.eval = ha.eval /\ d.guard = ha.guard /\ d \in HomeStates
  <2>1. [ha EXCEPT !.saver.enabled = TRUE, !.saver.phase = begun].saver \in Savers
    BY <1>2, <1>3 DEF HomeStates, Savers
  <2>2. d \in HomeStates
    BY <1>2, <2>1 DEF Saver!Saved, HomeStates
  <2> QED
    BY <1>2, <1>4, <2>2 DEF Saver!Saved, HomeStates, Savers
<1> HIDE DEF d
<1>6. /\ t.saver = d.saver /\ t.stored = d.stored /\ t.calls = d.calls /\ t.eval = d.eval
      /\ t.guard.at \in Calling => t.guard.at = d.guard.at
  BY <1>5 DEF Saver!Ensured, HomeStates, Guards, Calling
<1>7. Good(t)
  <2> HIDE DEF t
  <2> QED
    BY <1>1, GoodThen
<1> HIDE DEF t
<1>8. PhaseFits(t) /\ t.stored.due = t.saver.due /\ t.stored.pulse = Saver!None /\ t.saver.pulse = Saver!None
  BY <1>2, <1>3, <1>5, <1>6 DEF Fit, PhaseFits
<1>9. GuardCallFits(t)
  BY <1>2, <1>5, <1>6 DEF Fit, GuardFits, GuardCallFits, Calling
<1>10. Fit(t) /\ Watched(t)
  BY <1>2, <1>4, <1>7, <1>8, <1>9, FitInLight
<1>11. Held' /\ Fit(ha)' /\ Soon'
  BY <1>1, <1>10, PlainMoves DEF Saver!World
<1> QED
  BY <1>1, <1>2, <1>5, <1>6, <1>11 DEF Awake, Saver!World

LEMMA ChargerEval ==
  ASSUME NEW s, Good(s), s.saver.enabled
  PROVE  Saver!SetCharger(s, "user", "on", FALSE).eval = s.eval
<1> DEFINE c == Saver!Cancelled(s, "user")
<1>1. c \in HomeStates /\ c.eval = s.eval /\ c.calls \in [Saver!Tasks -> CallStates]
  BY CancelledKeeps DEF Keeps, Good, Saver!Tasks, HomeStates
<1>2. Saver!SetCharger(s, "user", "on", FALSE) =
          IF entity.state # "on" THEN [c EXCEPT !.calls["user"] = "on"]
          ELSE [Saver!Cleared(c) EXCEPT !.calls["user"] = "back"]
  BY DEF Saver!SetCharger, Saver!Switched
<1> HIDE DEF c
<1>3. Saver!Cleared(c) \in HomeStates /\ Saver!Cleared(c).eval = c.eval
  BY <1>1 DEF Saver!Cleared, Saver!Saved, HomeStates, Savers, Saver!Left
<1> QED
  BY <1>1, <1>2, <1>3 DEF HomeStates

LEMMA UserAwake ==
  ASSUME Goes, Saver!Disable \/ Saver!Prepare, left'.restart = left.restart
  PROVE  Awake'
<1> DEFINE u == IF Saver!Disable THEN "disable" ELSE "prepare"
           s == [ha EXCEPT !.user = u]
           t == Saver!SetCharger(s, "user", "on", FALSE)
<1>1. /\ UNCHANGED Saver!World /\ ha.saver.enabled /\ ha.user = "none" /\ Types' /\ AwakeInv /\ Saver!Undisturbed
      /\ Types
  BY DEF Saver!Disable, Saver!Prepare, Goes, AwakeInv, PowerInv
<1>2. /\ Good(ha) /\ Fit(ha) /\ Scene /\ (~heard => ha.eval.at = "idle") /\ ha \in HomeStates
      /\ ha.calls.user = "none"
  BY <1>1, SceneNow DEF Good, Tidy
<1>3. PICK why : Saver!Becomes(t, why)
  BY DEF Saver!Disable, Saver!Prepare
<1>4. u \in {"disable", "prepare"}
  OBVIOUS
<1> HIDE DEF u
<1>5. Good(t)
  BY <1>1, <1>4, UserSwitches
<1>6. /\ s.saver = ha.saver /\ s.stored = ha.stored /\ s.guard = ha.guard /\ s.calls = ha.calls
      /\ s.eval = ha.eval
  BY <1>2 DEF HomeStates
<1>7. Good(s)
  BY <1>1, <1>2, <1>4, <1>6 DEF Good, Tidy, HomeStates
<1> HIDE DEF s
<1>8. PhaseFits(s) /\ ha.stored.due = ha.saver.due
  BY <1>2, <1>6 DEF Fit, PhaseFits, DueFits
<1>9. Fit(s)
  BY <1>2, <1>6, <1>8, FitStays
<1>10. Sees(s, t) /\ Watched(t)
  <2>1. s.calls["user"] = "none"
    BY <1>2, <1>6
  <2> QED
    BY <1>2, <1>5, <1>7, <1>9, <2>1, ChargerFit
<1>11. t.eval = ha.eval
  BY <1>1, <1>6, <1>7, ChargerEval
<1> HIDE DEF t
<1>12. t.calls.guard = ha.calls.guard \/ Calm(t)
  BY <1>6, <1>10 DEF Sees, Passes
<1>13. Held' /\ Fit(ha)' /\ Watched(ha)' /\ ha' = t
  BY <1>1, <1>3, <1>5, <1>10, <1>12, BecomesFits DEF Saver!World, Sees, Passes
<1> QED
  BY <1>1, <1>2, <1>11, <1>13 DEF Awake, Soon, Saver!World

LEMMA DisabledAwake ==
  ASSUME Goes, Saver!Disabled
  PROVE  Awake'
<1> DEFINE v == [enabled |-> FALSE, phase |-> "disabled", due |-> Saver!None, pulse |-> Saver!None]
           t == Saver!Saved([ha EXCEPT !.user = "none", !.calls.user = "none", !.saver = v])
<1>1. /\ ha' = t /\ UNCHANGED <<Saver!World, plug, dark, left>> /\ ha.calls.user = "back" /\ Types'
      /\ AwakeInv /\ Saver!Undisturbed
  BY DEF Saver!Disabled, Goes
<1>2. /\ Good(ha) /\ Fit(ha) /\ Scene /\ (~heard => ha.eval.at = "idle") /\ ha \in HomeStates
      /\ ha.calls \in [Saver!Tasks -> CallStates]
  BY <1>1, SceneNow DEF Good, HomeStates
<1>3. ~v.enabled /\ v.due = Saver!None /\ v.pulse = Saver!None
  OBVIOUS
<1> HIDE DEF v
<1>4. /\ t.saver = v /\ t.stored = v /\ t.guard = ha.guard /\ t.eval = ha.eval
      /\ t.calls.guard = ha.calls.guard /\ t.calls.eval = ha.calls.eval
  BY <1>2 DEF Saver!Saved, HomeStates, Saver!Tasks
<1>5. Good(t)
  <2> HIDE DEF t
  <2> QED
    BY <1>1, GoodThen
<1> HIDE DEF t
<1>6. dark = 0
  BY <1>1, <1>2 DEF Fit, CallsFit
<1>7. PhaseFits(t) /\ GuardCallFits(t)
  BY <1>2, <1>3, <1>4 DEF Fit, PhaseFits, GuardFits, GuardCallFits
<1>8. Fit(t) /\ Watched(t)
  BY <1>2, <1>3, <1>4, <1>5, <1>6, <1>7, FitInLight
<1>9. Held' /\ Fit(ha)' /\ Soon'
  BY <1>1, <1>8, PlainMoves DEF Saver!World
<1> QED
  BY <1>1, <1>2, <1>4, <1>9 DEF Awake, Saver!World

LEMMA PreparedAwake ==
  ASSUME Goes, Saver!Prepared
  PROVE  Awake'
<1> DEFINE t == [ha EXCEPT !.user = "none", !.calls.user = "none", !.task = TRUE]
<1>1. /\ ha' = t /\ UNCHANGED <<plug, entity, heard, left>> /\ dark' = 0
      /\ ha.calls.user = "back" /\ Types' /\ AwakeInv /\ Saver!Undisturbed
  BY DEF Saver!Prepared, Goes
<1>2. /\ Good(ha) /\ Fit(ha) /\ Scene /\ (~heard => ha.eval.at = "idle") /\ ha \in HomeStates
      /\ ha.calls \in [Saver!Tasks -> CallStates]
  BY <1>1, SceneNow DEF Good, HomeStates
<1>3. /\ t.saver = ha.saver /\ t.stored = ha.stored /\ t.guard = ha.guard /\ t.eval = ha.eval
      /\ t.calls.guard = ha.calls.guard /\ t.calls.eval = ha.calls.eval /\ t.calls.user = "none"
  BY <1>2 DEF HomeStates, Saver!Tasks
<1> HIDE DEF t
<1>4. dark = 0 /\ PhaseFits(t) /\ ha.stored.due = ha.saver.due
  BY <1>1, <1>2, <1>3 DEF Fit, CallsFit, PhaseFits, DueFits
<1>5. Fit(t) /\ Watched(t)
  <2>1. Fit(t)
    BY <1>1, <1>2, <1>3, <1>4, FitStays
  <2> QED
    BY <1>4, <2>1 DEF Watched
<1>6. Held' /\ Fit(ha)' /\ Soon'
  BY <1>1, <1>4, <1>5, PlainMoves
<1> QED
  BY <1>1, <1>2, <1>3, <1>6 DEF Awake

LEMMA RestartAwake ==
  ASSUME Goes, Saver!Restart
  PROVE  Awake'
<1> DEFINE t == ha'
<1>1. /\ AwakeInv /\ Saver!Undisturbed /\ Types' /\ left' \in Saver!Counts
      /\ left'.restart = left.restart - 1
      /\ entity' = [state |-> "gone", since |-> 0] /\ heard' = FALSE /\ robot' = robot
  <2>1. AwakeInv /\ Saver!Undisturbed /\ Types' /\ left' \in Saver!Counts
    BY DEF Goes
  <2>2. left'.restart = left.restart - 1
    BY <2>1 DEF Saver!Restart, Saver!Event, AwakeInv, Saver!Counts
  <2> QED
    BY <2>1, <2>2 DEF Saver!Restart
<1>2. /\ Good(ha) /\ Fit(ha) /\ Scene /\ ha \in HomeStates /\ ha.calls \in [Saver!Tasks -> CallStates]
      /\ ha.stored.enabled = ha.saver.enabled
  BY <1>1, SceneNow DEF Good, HomeStates, Tidy
<1>3. \A w \in Saver!Tasks : ha.calls[w] \notin {"on", "off"}
  BY DEF Saver!Restart, Goes, Saver!Undisturbed
<1>4. plug' = plug /\ dark' = IF plug' THEN 0 ELSE dark
  <2>1. {ha.calls[w] = "on" : w \in {w \in Saver!Tasks : ha.calls[w] \in {"on", "off"}}} = {}
    BY <1>3
  <2> QED
    BY <2>1 DEF Saver!Restart, Saver!Lit
<1>5. ~plug => ha.stored.due # Saver!None \/ ha.stored.pulse # Saver!None
  <2>1. ~("forgotten" \in upset')
    BY DEF Goes, Saver!Undisturbed
  <2> QED
    BY <2>1 DEF Saver!Restart
<1>6. /\ t.saver = ha.stored /\ t.stored = ha.stored /\ t.eval = Saver!NoEval
      /\ t.guard = [Saver!NoGuard EXCEPT !.at = IF ha.stored.enabled THEN "loop" ELSE "none"]
      /\ t.calls = [w \in Saver!Tasks |-> "none"]
  <2>1. Saver!Ensured(ha).stored = ha.stored
    BY <1>2, EnsuredFit
  <2> QED
    BY <1>2, <2>1 DEF Saver!Restart, HomeStates
<1>7. /\ t.guard.at = (IF ha.stored.enabled THEN "loop" ELSE "none") /\ t.eval.at = "idle"
      /\ t.calls.guard = "none" /\ t.calls.eval = "none" /\ t.calls.user = "none"
  BY <1>6 DEF Saver!NoGuard, Saver!NoEval, Saver!Tasks
<1>8. /\ Guard \in Nat /\ MaxRestarts \in Nat /\ left'.restart \in 0 .. MaxRestarts
      /\ Restarted \in Nat /\ Latest \in Nat
      /\ dark \in Nat /\ plug \in BOOLEAN /\ Restarted' = Restarted + 1 /\ Latest' = Latest + 1
  <2>1. Guard \in Nat /\ MaxRestarts \in Nat /\ left'.restart \in 0 .. MaxRestarts
    BY <1>1, NumbersThen
  <2>2. Restarted \in Nat /\ Latest \in Nat /\ dark \in Nat /\ plug \in BOOLEAN
    BY <1>2, Numbers DEF Scene
  <2>3. left.restart \in 0 .. MaxRestarts
    BY <1>1 DEF AwakeInv, Saver!Counts
  <2>4. Restarted' = Restarted + 1 /\ Latest' = Latest + 1
    BY <1>1, <2>1, <2>3 DEF Restarted, Latest
  <2> QED
    BY <2>1, <2>2, <2>4
<1>9. /\ plug => dark = 0
      /\ plug \/ robot.status # "docked" => dark = 0
      /\ dark <= Latest
  BY <1>2 DEF Scene, Held
<1>10. dark' = dark
  <2>1. CASE plug
    BY <1>4, <1>9, <2>1
  <2>2. CASE ~plug
    BY <1>4, <2>2
  <2> QED
    BY <2>1, <2>2
<1>11. /\ ha.stored.due \in Saver!Left /\ ha.stored.pulse \in Saver!Left /\ ha.saver.due = ha.stored.due
       /\ PulseFits(ha, ha.stored.pulse) /\ ~Lights(ha)
  <2>1. ~Lights(ha)
    BY <1>3 DEF Lights, Saver!Tasks
  <2> QED
    BY <1>2, <2>1, Fields DEF Fit, DueFits, PulsesFit
<1>12. ha.stored.pulse # Saver!None => /\ ha.stored.pulse \in Nat /\ ha.stored.pulse <= 1
                                       /\ dark + ha.stored.pulse <= Restarted + 1
  <2> SUFFICES ASSUME ha.stored.pulse # Saver!None
               PROVE  /\ ha.stored.pulse \in Nat /\ ha.stored.pulse <= 1
                      /\ dark + ha.stored.pulse <= Restarted + 1
    OBVIOUS
  <2>1. ha.stored.pulse \in Nat
    BY <1>8, <1>11, Nones
  <2>2. ha.stored.pulse <= 1 /\ (~plug => dark + ha.stored.pulse <= Restarted \/ dark = 0)
    BY <1>11 DEF PulseFits
  <2> QED
    BY <1>8, <1>9, <2>1, <2>2
<1>13. CallsFit(ha)'
  <2>1. ~ha.stored.enabled => dark = 0
    BY <1>2 DEF Fit, CallsFit
  <2> QED
    BY <1>6, <1>7, <1>10, <2>1 DEF CallsFit
<1>14. DueFits(ha)'
  <2>1. ha.stored.due # Saver!None => dark + ha.stored.due <= Latest + 1
    <3>1. ha.stored.due # Saver!None => ha.stored.due \in Nat /\ dark + ha.stored.due <= Latest
      BY <1>2, <1>8, <1>11, Nones DEF Fit, DueFits
    <3> QED
      BY <1>8, <3>1
  <2>2. ha.stored.due = Saver!None => dark <= 0 + (Restarted + 1)
    <3>1. CASE plug
      BY <1>8, <1>9, <3>1
    <3>2. CASE ~plug
      BY <1>5, <1>8, <1>12, <3>2
    <3> QED
      BY <3>1, <3>2
  <2>3. ha.stored.due # Saver!None => dark' + ha.stored.due <= Latest'
    BY <1>8, <1>10, <2>1
  <2>4. ha.stored.due = Saver!None => dark' <= (IF entity'.state = "off" THEN entity'.since ELSE 0) + Restarted'
    BY <1>1, <1>8, <1>10, <2>2
  <2> QED
    BY <1>6, <2>3, <2>4 DEF DueFits
<1>15. PulsesFit(ha)'
  <2>1. ~ha.stored.enabled => ha.stored.pulse = Saver!None
    BY <1>2, <1>11 DEF PulseFits
  <2>2. /\ ha.stored.pulse <= 1
        /\ ha.stored.pulse # Saver!None => dark' + ha.stored.pulse <= Restarted'
    <3>1. ha.stored.pulse <= 1
      BY <1>11 DEF PulseFits
    <3> QED
      BY <1>8, <1>10, <1>12, <3>1
  <2> QED
    BY <1>6, <2>1, <2>2 DEF PulsesFit, PulseFits
<1>16. GuardFits(ha)'
  <2>1. ~ha.stored.enabled => ha.stored.pulse = Saver!None
    BY <1>2, <1>11 DEF PulseFits
  <2> QED
    BY <1>6, <1>7, <2>1 DEF GuardFits, GuardCallFits
<1>17. PhaseFits(ha)'
  BY <1>2, <1>6, <1>7 DEF Fit, PhaseFits
<1>18. Watched(ha)'
  BY <1>6, <1>7 DEF Watched
<1>19. Held'
  <2>1. dark' <= Latest' /\ dark' < Latest'
    BY <1>8, <1>9, <1>10
  <2>2. plug' \/ entity'.state = "on" \/ robot'.status # "docked" => dark' = 0
    BY <1>1, <1>4, <1>9, <1>10
  <2> QED
    BY <2>1, <2>2 DEF Held
<1> QED
  BY <1>7, <1>13, <1>14, <1>15, <1>16, <1>17, <1>18, <1>19 DEF Awake, Fit, Soon

-----------------------------------------------------------------------------
(* The mower, the entity and time.                                          *)

LEMMA MowerAwake ==
  ASSUME Goes, Saver!MowerStep, left'.restart = left.restart, heard' = heard \/ heard'
  PROVE  Awake'
<1>1. /\ AwakeInv /\ Saver!Undisturbed /\ UNCHANGED <<plug, entity, ha>>
      /\ dark' = IF robot'.status = "docked" THEN dark ELSE 0
      /\ fresh' = (fresh /\ robot'.status = robot.status /\ heard' = heard)
  BY DEF Saver!MowerStep, Goes
<1>2. /\ Good(ha) /\ Fit(ha) /\ Scene /\ Held /\ Soon /\ (~heard => ha.eval.at = "idle")
  BY <1>1, SceneNow
<1>3. dark' \in {0, dark}
  BY <1>1
<1>4. Fit(ha)' /\ (Watched(ha) => Watched(ha)') /\ Latest' = Latest
  <2> DEFINE s == ha
  <2>1. ha' = s /\ entity' = entity /\ plug' = plug /\ Good(s) /\ Fit(s)
    BY <1>1, <1>2
  <2> HIDE DEF s
  <2>2. Fit(ha)' /\ (Watched(s) => Watched(ha)') /\ Latest' = Latest
    BY <1>2, <1>3, <2>1, FitMoves
  <2> QED
    BY <2>2 DEF s
<1>5. Held'
  <2>1. dark \in Nat /\ Latest \in Nat /\ Latest > 0 /\ dark <= Latest
    <3>1. Latest = Guard + Restarted /\ Guard \in Nat /\ Restarted \in Nat /\ Guard > 1 /\ dark \in Nat
      BY <1>2, Numbers DEF Scene, Latest
    <3> QED
      BY <1>2, <3>1 DEF Held
  <2>2. dark' <= Latest' /\ (~heard => dark' < Latest')
    <3>1. ~heard => dark < Latest
      BY <1>2 DEF Held
    <3> QED
      BY <1>3, <1>4, <2>1, <3>1
  <2>3. plug' \/ entity'.state = "on" \/ robot'.status # "docked" => dark' = 0
    <3>1. plug \/ entity.state = "on" => dark = 0
      BY <1>2 DEF Held
    <3> QED
      BY <1>1, <1>3, <3>1
  <2> QED
    BY <2>2, <2>3 DEF Held
<1>6. Soon'
  <2> SUFFICES ASSUME ~Watched(ha)'
               PROVE  Soon'
    BY DEF Soon
  <2>1. ~Watched(ha) /\ dark' # 0
    BY <1>4 DEF Watched
  <2>2. dark' = dark
    BY <1>3, <2>1
  <2>3. heard => heard'
    OBVIOUS
  <2>4. fresh' => fresh
    BY <1>1, Zenon
  <2> QED
    BY <1>1, <1>2, <2>1, <2>2, <2>3, <2>4 DEF Soon
<1> QED
  BY <1>1, <1>2, <1>4, <1>5, <1>6 DEF Awake

LEMMA EntityAwake ==
  ASSUME Goes, Saver!EntityFollows
  PROVE  Awake'
<1>1. /\ AwakeInv /\ Saver!Undisturbed /\ UNCHANGED <<plug, robot, heard, ha, fresh, left, dark>>
      /\ entity.state # IF plug THEN "on" ELSE "off"
      /\ entity' = [state |-> IF plug THEN "on" ELSE "off", since |-> 0]
  BY DEF Saver!EntityFollows, Goes
<1>2. /\ Good(ha) /\ Fit(ha) /\ Scene /\ Held /\ Soon /\ (~heard => ha.eval.at = "idle")
  BY <1>1, SceneNow
<1>3. /\ Restarted \in Nat /\ dark \in Nat /\ plug \in BOOLEAN /\ (plug => dark = 0)
      /\ entity.state \in {"on", "off", "gone"}
  BY <1>2, Numbers DEF Scene, Held
<1>4. Restarted' = Restarted /\ Latest' = Latest
  BY <1>1 DEF Restarted, Latest
<1>5. Watched(ha)
  BY <1>1, <1>2, <1>3 DEF Soon, Watched
<1>6. Watched(ha)'
  BY <1>1, <1>5 DEF Watched, Lights
<1>7. DueFits(ha)'
  <2>1. dark <= 0 + Restarted \/ ha.saver.due # Saver!None
    <3>1. CASE plug
      BY <1>3, <3>1
    <3>2. CASE ~plug
      <4>1. entity.state # "off"
        BY <1>1, <3>2
      <4> QED
        BY <1>2, <4>1 DEF Fit, DueFits
    <3> QED
      BY <3>1, <3>2
  <2>2. dark' <= (IF entity'.state = "off" THEN entity'.since ELSE 0) + Restarted' \/ ha.saver.due # Saver!None
    BY <1>1, <1>4, <2>1
  <2>3. ha.stored.due = ha.saver.due /\ (ha.saver.due # Saver!None => dark + ha.saver.due <= Latest)
    BY <1>2 DEF Fit, DueFits
  <2>4. ha.saver.due # Saver!None => dark' + ha.saver.due <= Latest'
    BY <1>1, <1>4, <2>3
  <2> QED
    BY <1>1, <2>2, <2>3, <2>4 DEF DueFits
<1>8. CallsFit(ha)' /\ PhaseFits(ha)'
  BY <1>1, <1>2 DEF Fit, CallsFit, PhaseFits
<1>9. GuardFits(ha)' /\ PulsesFit(ha)'
  <2>1. (Lights(ha)' <=> Lights(ha)) /\ (Settles(ha)' <=> Settles(ha))
    BY <1>1 DEF Lights, Settles
  <2>2. GuardFits(ha)'
    <3>1. ha.guard.at = "sleep" => dark + ha.guard.wake <= Latest \/ Lights(ha)
      BY <1>2 DEF Fit, GuardFits
    <3>2. ha.guard.at = "sleep" => dark' + ha.guard.wake <= Latest' \/ Lights(ha)'
      BY <1>1, <1>4, <2>1, <3>1
    <3> QED
      BY <1>1, <1>2, <3>2 DEF Fit, GuardFits, GuardCallFits
  <2>3. PulsesFit(ha)'
    <3>1. \A p : PulseFits(ha, p) =>
             /\ p <= 1 /\ (~ha.saver.enabled => p = Saver!None)
             /\ p # Saver!None /\ ~plug' =>
                  dark' + p <= Restarted' \/ (dark' = 0 /\ Settles(ha)') \/ (Lights(ha)' /\ p > 0)
      BY <1>1, <1>4, <2>1 DEF PulseFits
    <3> QED
      BY <1>1, <1>2, <3>1 DEF Fit, PulsesFit, PulseFits
  <2> QED
    BY <2>2, <2>3
<1>10. Held'
  <2>1. dark <= Latest /\ (~heard => dark < Latest) /\ (robot.status # "docked" => dark = 0)
    BY <1>2 DEF Held
  <2>2. entity'.state = "on" => plug
    BY <1>1
  <2> QED
    BY <1>1, <1>3, <1>4, <2>1, <2>2 DEF Held
<1> QED
  BY <1>1, <1>2, <1>6, <1>7, <1>8, <1>9, <1>10 DEF Awake, Fit, Soon

LEMMA TickAwake ==
  ASSUME Goes, NEW level, Saver!Tick(level)
  PROVE  Awake'
<1> DEFINE t == ha'
           darkens == ~(plug \/ robot.status # "docked" \/ ~ha.saver.enabled)
<1>1. /\ AwakeInv /\ Saver!Undisturbed /\ Types' /\ left' \in Saver!Counts
      /\ fresh /\ heard /\ ha.eval.at = "idle" /\ ha.user = "none" /\ ha.recheck # "waiting"
      /\ entity.state = IF plug THEN "on" ELSE "off"
      /\ ha.guard.at = "none" \/ (ha.guard.at = "sleep" /\ ha.guard.wake > 0)
      /\ fresh' = FALSE /\ plug' = plug /\ heard' = heard /\ left' = left
      /\ entity' = [entity EXCEPT !.since = IF plug \/ entity.since = Guard THEN entity.since
                                            ELSE entity.since + 1]
      /\ robot' = [robot EXCEPT !.battery = level]
      /\ dark' = IF plug \/ robot.status # "docked" \/ ~ha.saver.enabled THEN 0
                 ELSE IF dark < Saver!Long THEN dark + 1 ELSE dark
      /\ ha' = [ha EXCEPT !.saver.due = Saver!Less(@), !.saver.pulse = Saver!Less(@), !.recent = FALSE,
                !.stored.due = Saver!Less(@), !.stored.pulse = Saver!Less(@), !.guard.wake = Saver!Less(@)]
  BY DEF Saver!Tick, Goes
<1>2. /\ Good(ha) /\ Fit(ha) /\ Scene /\ Held /\ Soon /\ ha \in HomeStates /\ WorldTypes
      /\ ha.saver \in Savers /\ ha.stored \in Savers /\ ha.guard \in Guards
      /\ entity \in [state : {"on", "off", "gone"}, since : 0 .. Guard] /\ robot \in Saver!Mowers
  BY <1>1, SceneNow DEF Good, HomeStates, Scene, WorldTypes
<1>3. ha.calls.guard = "none" /\ ha.calls.eval = "none" /\ ha.calls.user = "none"
  BY <1>1, <1>2 DEF Good, Tidy, Quiet
<1>4. /\ t.saver.due = Saver!Less(ha.saver.due) /\ t.saver.pulse = Saver!Less(ha.saver.pulse)
      /\ t.saver.enabled = ha.saver.enabled /\ t.saver.phase = ha.saver.phase
      /\ t.stored.due = Saver!Less(ha.stored.due) /\ t.stored.pulse = Saver!Less(ha.stored.pulse)
      /\ t.stored.enabled = ha.stored.enabled /\ t.stored.phase = ha.stored.phase
      /\ t.guard.at = ha.guard.at /\ t.guard.wake = Saver!Less(ha.guard.wake)
      /\ t.calls = ha.calls /\ t.eval = ha.eval /\ t.recheck = ha.recheck
  BY <1>1, <1>2 DEF HomeStates, Savers, Guards
<1> HIDE DEF t
<1>5. /\ Restarted \in Nat /\ Latest \in Nat /\ Latest = Guard + Restarted /\ Guard \in Nat /\ Guard > 1
      /\ dark \in Nat /\ entity.since \in 0 .. Guard /\ plug \in BOOLEAN /\ MaxRestarts \in Nat
      /\ Restarted \in 0 .. MaxRestarts /\ dark <= Latest /\ dark < Saver!Long
  <2>1. MaxRestarts \in Nat
    BY <1>1, NumbersThen
  <2>2. /\ Restarted \in 0 .. MaxRestarts /\ Guard \in Nat /\ Guard > 1 /\ dark \in Nat
        /\ entity.since \in 0 .. Guard /\ plug \in BOOLEAN
    BY <1>2, Numbers DEF Scene
  <2>3. Restarted \in Nat /\ Latest = Guard + Restarted /\ dark <= Latest
    BY <1>2, <2>1, <2>2 DEF Held, Latest
  <2>4. Saver!Long = 4 * Guard + MaxRestarts
    BY DEF Saver!Long
  <2>5. Latest \in Nat /\ dark < Saver!Long
    BY <2>1, <2>2, <2>3, <2>4
  <2> QED
    BY <2>1, <2>2, <2>3, <2>5
<1>6. Restarted' = Restarted /\ Latest' = Latest
  BY <1>1 DEF Restarted, Latest
<1>7. /\ darkens => dark' = dark + 1 /\ ~plug /\ entity.state = "off" /\ robot.status = "docked"
                    /\ ha.saver.enabled
      /\ ~darkens => dark' = 0
  BY <1>1, <1>5
<1>8. entity'.state = entity.state /\ robot'.status = robot.status
      /\ entity'.since = IF plug \/ entity.since = Guard THEN entity.since ELSE entity.since + 1
  BY <1>1, <1>2 DEF Saver!Mowers
<1>9. /\ ha.saver.due \in Saver!Left /\ ha.saver.pulse \in Saver!Left /\ ha.guard.wake \in 0 .. Guard
      /\ ha.stored.due = ha.saver.due /\ ha.stored.pulse = ha.saver.pulse
      /\ ha.stored.enabled = ha.saver.enabled
  BY <1>2, <1>3, Fields DEF Fit, DueFits, PulsesFit
<1>10. ~Lights(ha) /\ ~Settles(ha)
  BY <1>3 DEF Lights, Settles
<1>11. /\ \A n \in Saver!Left : n # Saver!None => n \in Nat /\ Saver!Less(n) \in Nat /\ Saver!Less(n) # Saver!None /\ Saver!Less(n) <= n
       /\ Saver!Less(Saver!None) = Saver!None /\ Saver!None < 0 /\ Saver!None \in Int
       /\ \A n \in Nat : n > 0 => Saver!Less(n) = n - 1
       /\ Saver!Less(0) = 0
  <2>1. Saver!Less(Saver!None) = Saver!None /\ Saver!None < 0 /\ Saver!None \in Int /\ Saver!Less(0) = 0
    BY DEF Saver!None, Saver!Less
  <2>2. \A n \in Nat : n > 0 => Saver!Less(n) = n - 1
    BY DEF Saver!Less
  <2>3. ASSUME NEW n \in Saver!Left, n # Saver!None
        PROVE  n \in Nat /\ Saver!Less(n) \in Nat /\ Saver!Less(n) # Saver!None /\ Saver!Less(n) <= n
    <3>1. n \in Nat
      BY <1>5, <2>3, Nones
    <3>2. Saver!Less(n) \in Nat /\ Saver!Less(n) <= n
      BY <3>1 DEF Saver!Less
    <3> QED
      BY <2>1, <3>1, <3>2
  <2> QED
    BY <2>1, <2>2, <2>3
(* What is left to the guard when it sleeps. *)
<1>12. ha.guard.at = "sleep" =>
           /\ ha.guard.wake \in Nat /\ ha.guard.wake > 0 /\ dark + ha.guard.wake <= Latest
           /\ Saver!Less(ha.guard.wake) = ha.guard.wake - 1
           /\ ha.saver.pulse # Saver!None => ha.guard.wake <= ha.saver.pulse
  BY <1>1, <1>2, <1>9, <1>10, <1>5, <1>11 DEF Fit, GuardFits
<1>13. ha.guard.at = "none" => ha.saver.pulse = Saver!None
  BY <1>2, <1>3 DEF Fit, GuardFits
(* Without a guard it is one unit, or the recheck is due. *)
<1>14. ha.guard.at = "none" /\ darkens =>
           dark = 0 \/ (dark = 1 /\ ha.saver.phase = "manual_charge" /\ ha.recheck = "due")
  <2> SUFFICES ASSUME ha.guard.at = "none", darkens, dark # 0
               PROVE  dark = 1 /\ ha.saver.phase = "manual_charge" /\ ha.recheck = "due"
    OBVIOUS
  <2>1. ~Watched(ha)
    BY <1>7, <1>10 DEF Watched
  <2>2. dark = 1 /\ ha.saver.phase = "manual_charge" /\ ha.recheck # "none"
    BY <1>1, <1>2, <2>1 DEF Soon
  <2>3. ha.recheck \in {"none", "waiting", "due"}
    BY <1>2 DEF HomeStates
  <2> QED
    BY <1>1, <2>2, <2>3
<1>15. dark' \in Nat /\ dark' <= Latest
  <2>1. CASE ~darkens
    BY <1>5, <1>7, <2>1
  <2>2. CASE darkens /\ ha.guard.at = "sleep"
    BY <1>5, <1>7, <1>12, <2>2
  <2>3. CASE darkens /\ ha.guard.at = "none"
    BY <1>5, <1>7, <1>14, <2>3
  <2> QED
    BY <1>1, <2>1, <2>2, <2>3
<1>16. Held'
  <2>1. plug' \/ entity'.state = "on" \/ robot'.status # "docked" => dark' = 0
    BY <1>1, <1>7, <1>8
  <2> QED
    BY <1>1, <1>6, <1>15, <2>1 DEF Held
<1>17. CallsFit(ha)'
  <2>1. /\ t.calls.guard = "none" /\ t.calls.eval = "none" /\ t.calls.user = "none"
        /\ ~t.saver.enabled => dark' = 0
    BY <1>3, <1>4, <1>7
  <2> QED
    BY <2>1 DEF CallsFit, t
<1>18. DueFits(ha)'
  <2>1. t.stored.due = t.saver.due
    BY <1>4, <1>9
  <2>2. t.saver.due # Saver!None => dark' + t.saver.due <= Latest
    <3> SUFFICES ASSUME t.saver.due # Saver!None
                 PROVE  dark' + t.saver.due <= Latest
      OBVIOUS
    <3> DEFINE n == ha.saver.due
    <3>1. n # Saver!None /\ n \in 0 .. Guard /\ dark + n <= Latest
      BY <1>2, <1>4, <1>9, <1>11, Nones DEF Fit, DueFits
    <3>2. t.saver.due = Saver!Less(n)
      BY <1>4
    <3> HIDE DEF n
    <3>3. n \in Nat /\ (n > 0 => Saver!Less(n) = n - 1) /\ (n = 0 => Saver!Less(n) = 0)
      BY <1>5, <1>11, <3>1
    <3>4. CASE n > 0
      BY <1>5, <1>7, <3>1, <3>2, <3>3, <3>4
    <3>5. CASE n = 0
      BY <1>5, <1>15, <3>2, <3>3, <3>5
    <3> QED
      BY <3>3, <3>4, <3>5
  <2>3. t.saver.due = Saver!None =>
           \/ entity.state = "off" /\ entity'.since = Guard
           \/ dark' <= (IF entity.state = "off" THEN entity'.since ELSE 0) + Restarted
    <3> SUFFICES ASSUME t.saver.due = Saver!None
                 PROVE  \/ entity.state = "off" /\ entity'.since = Guard
                        \/ dark' <= (IF entity.state = "off" THEN entity'.since ELSE 0) + Restarted
      OBVIOUS
    <3>1. ha.saver.due = Saver!None
      BY <1>4, <1>9, <1>11
    <3>2. \/ entity.state = "off" /\ entity.since = Guard
          \/ dark <= (IF entity.state = "off" THEN entity.since ELSE 0) + Restarted
      BY <1>2, <3>1 DEF Fit, DueFits
    <3>3. entity'.since \in Nat
      BY <1>5, <1>8
    <3>4. CASE ~darkens
      BY <1>5, <1>7, <3>3, <3>4
    <3>5. CASE darkens
      <4>1. entity.state = "off" /\ ~plug /\ dark' = dark + 1
        BY <1>7, <3>5
      <4>2. CASE entity.since = Guard
        BY <1>8, <4>1, <4>2
      <4>3. CASE entity.since # Guard
        <5>1. dark <= entity.since + Restarted /\ entity'.since = entity.since + 1
          BY <1>8, <3>2, <4>1, <4>3
        <5> QED
          BY <1>5, <4>1, <5>1
      <4> QED
        BY <4>2, <4>3
    <3> QED
      BY <3>4, <3>5
  <2>4. /\ t.saver.due # Saver!None => dark' + t.saver.due <= Latest'
        /\ t.saver.due = Saver!None =>
             \/ entity'.state = "off" /\ entity'.since = Guard
             \/ dark' <= (IF entity'.state = "off" THEN entity'.since ELSE 0) + Restarted'
    BY <1>6, <1>8, <2>2, <2>3
  <2> QED
    BY <2>1, <2>4 DEF DueFits, t
<1>19. PulsesFit(ha)'
  <2> DEFINE p == ha.saver.pulse
  <2>1. t.saver.pulse = Saver!Less(p) /\ t.stored.pulse = Saver!Less(p) /\ p \in Saver!Left
    BY <1>4, <1>9
  <2>2. PulseFits(ha, p)
    BY <1>2 DEF Fit, PulsesFit
  <2>3. p # Saver!None => ha.guard.at = "sleep" /\ ha.guard.wake <= p
    BY <1>1, <1>12, <1>13
  <2> HIDE DEF p
  <2>4. p # Saver!None => p \in Nat /\ p > 0 /\ Saver!Less(p) = p - 1 /\ p <= 1
    BY <1>11, <1>12, <2>1, <2>2, <2>3 DEF PulseFits
  <2>5. Saver!Less(p) <= 1 /\ (~ha.saver.enabled => Saver!Less(p) = Saver!None)
    BY <1>11, <2>2, <2>4 DEF PulseFits
  <2>6. Saver!Less(p) # Saver!None /\ ~plug => dark' + Saver!Less(p) <= Restarted
    <3> SUFFICES ASSUME Saver!Less(p) # Saver!None, ~plug
                 PROVE  dark' + Saver!Less(p) <= Restarted
      OBVIOUS
    <3>1. p # Saver!None
      BY <1>11
    <3>2. dark + p <= Restarted
      BY <1>10, <2>2, <3>1 DEF PulseFits
    <3>3. dark' = 0 \/ dark' = dark + 1
      BY <1>7
    <3> QED
      BY <1>5, <2>4, <3>1, <3>2, <3>3
  <2>7. Saver!Less(p) # Saver!None /\ ~plug' => dark' + Saver!Less(p) <= Restarted'
    BY <1>1, <1>6, <2>6
  <2>8. t.saver.enabled = ha.saver.enabled
    BY <1>4
  <2> QED
    BY <2>1, <2>5, <2>7, <2>8 DEF PulsesFit, PulseFits, t
<1>20. GuardFits(ha)'
  <2>1. ha.guard.at = "sleep" => dark' + t.guard.wake <= Latest'
    <3> SUFFICES ASSUME ha.guard.at = "sleep"
                 PROVE  dark' + t.guard.wake <= Latest
      BY <1>6
    <3>1. t.guard.wake = ha.guard.wake - 1
      BY <1>4, <1>12
    <3>2. dark' = 0 \/ dark' = dark + 1
      BY <1>7
    <3> QED
      BY <1>5, <1>12, <3>1, <3>2
  <2>2. ha.guard.at = "sleep" /\ t.saver.pulse # Saver!None => t.guard.wake <= t.saver.pulse
    <3> SUFFICES ASSUME ha.guard.at = "sleep", t.saver.pulse # Saver!None
                 PROVE  t.guard.wake <= t.saver.pulse
      OBVIOUS
    <3>1. ha.saver.pulse # Saver!None /\ ha.saver.pulse \in Nat
      BY <1>4, <1>9, <1>11
    <3>2. ha.guard.wake <= ha.saver.pulse /\ ha.guard.wake \in Nat /\ ha.guard.wake > 0
      BY <1>12, <3>1
    <3>3. Saver!Less(ha.saver.pulse) = ha.saver.pulse - 1
      BY <1>11, <3>1, <3>2
    <3> QED
      BY <1>4, <1>12, <3>1, <3>2, <3>3
  <2>3. ha.guard.at = "none" => t.saver.pulse = Saver!None
    BY <1>4, <1>11, <1>13
  <2>4. t.guard.at \in {"none", "sleep"}
    BY <1>1, <1>4
  <2> QED
    BY <1>4, <2>1, <2>2, <2>3, <2>4 DEF GuardFits, GuardCallFits, t
<1>21. PhaseFits(ha)'
  <2>1. PhaseFits(t)
    BY <1>2, <1>4 DEF Fit, PhaseFits
  <2> QED
    BY <2>1 DEF PhaseFits, t
<1>22. Soon'
  <2>1. ha.guard.at # "none" => Watched(ha)'
    BY <1>4 DEF Watched, t
  <2>2. ~darkens => Watched(ha)'
    BY <1>7 DEF Watched
  <2>3. CASE ha.guard.at = "none" /\ darkens
    <3>1. dark' = 1 \/ (dark' = 2 /\ ha.saver.phase = "manual_charge" /\ ha.recheck = "due")
      BY <1>5, <1>7, <1>14, <2>3
    <3>2. /\ entity'.state = "off" /\ heard' /\ ha'.eval.at = "idle" /\ ~fresh'
          /\ ha'.saver.phase = ha.saver.phase /\ ha'.recheck = ha.recheck
      BY <1>1, <1>4, <1>7, <1>8, <2>3 DEF t
    <3> QED
      BY <3>1, <3>2 DEF Soon
  <2> QED
    BY <2>1, <2>2, <2>3 DEF Soon
<1>23. ha'.eval.at = "idle"
  BY <1>1, <1>4 DEF t
<1> QED
  BY <1>16, <1>17, <1>18, <1>19, <1>20, <1>21, <1>22, <1>23 DEF Awake, Fit


-----------------------------------------------------------------------------
(* What has gone wrong is not forgotten.                                    *)
LEMMA UpsetGrows ==
  ASSUME [Saver!Next]_(Saver!vars)
  PROVE  upset \subseteq upset'
<1>1. CASE UNCHANGED Saver!vars
  BY <1>1 DEF Saver!vars
<1>2. ASSUME NEW who \in Saver!Tasks, Saver!PlugObeys(who) \/ Saver!CallReturns(who) \/ Saver!CallFails(who)
      PROVE  upset \subseteq upset'
  BY <1>2 DEF Saver!PlugObeys, Saver!CallReturns, Saver!CallFails, Saver!Becomes, Saver!Fault
<1>3. CASE Saver!EntityFollows \/ Saver!EntityGone
  BY <1>3 DEF Saver!EntityFollows, Saver!EntityGone, Saver!Fault
<1>4. CASE Saver!GuardLoops \/ Saver!GuardWakes \/ Saver!GuardGoesOn \/ Saver!SettleEnds
  BY <1>4 DEF Saver!GuardLoops, Saver!GuardWakes, Saver!GuardGoesOn, Saver!SettleEnds,
     Saver!GuardStep, Saver!Becomes, Saver!Fault
<1>5. CASE Saver!EvalBegins \/ Saver!RecheckIsDue \/ Saver!EvalGoesOn \/ Saver!EventsArrive
           \/ Saver!DownloadFails
  BY <1>5 DEF Saver!EvalBegins, Saver!RecheckIsDue, Saver!EvalGoesOn, Saver!EventsArrive,
     Saver!DownloadFails, Saver!EvalStep, Saver!Becomes
<1>6. CASE Saver!ThrottleEnds \/ Saver!Continues \/ Saver!ContinueFails
  BY <1>6 DEF Saver!ThrottleEnds, Saver!Continues, Saver!ContinueFails, Saver!Fault
<1>7. CASE Saver!Enable \/ Saver!Disable \/ Saver!Disabled
  BY <1>7 DEF Saver!Enable, Saver!Disable, Saver!Disabled, Saver!Becomes
<1>8. CASE Saver!Prepare \/ Saver!Prepared \/ Saver!Restart
  BY <1>8 DEF Saver!Prepare, Saver!Prepared, Saver!Restart, Saver!Becomes
<1>9. CASE Saver!ShadowHeard \/ Saver!EventPublished \/ Saver!Obeys \/ Saver!Departs
           \/ Saver!Returns \/ Saver!Docks \/ Saver!Weather
  BY <1>9 DEF Saver!ShadowHeard, Saver!EventPublished, Saver!Obeys, Saver!Departs,
     Saver!Returns, Saver!Docks, Saver!Weather, Saver!MowerStep
<1>10. CASE Saver!Charges \/ Saver!Lasts \/ Saver!Empties
  BY <1>10 DEF Saver!Charges, Saver!Lasts, Saver!Empties, Saver!Tick
<1> QED
  BY <1>1, <1>2, <1>3, <1>4, <1>5, <1>6, <1>7, <1>8, <1>9, <1>10 DEF Saver!Next

LEMMA StillAwake ==
  ASSUME AwakeInv, Saver!Undisturbed, UNCHANGED Saver!vars
  PROVE  Awake'
<1>1. Awake /\ UNCHANGED <<plug, entity, robot, heard, ha, fresh, left, dark>>
  BY DEF AwakeInv, Saver!vars
<1>2. Held' /\ Soon'
  BY <1>1 DEF Awake, Held, Soon, Watched, Lights, Latest, Restarted
<1>3. CallsFit(ha)' /\ DueFits(ha)' /\ PhaseFits(ha)'
  BY <1>1 DEF Awake, Fit, CallsFit, DueFits, PhaseFits, Latest, Restarted
<1>4. PulsesFit(ha)' /\ GuardFits(ha)'
  <2>1. Latest' = Latest /\ Restarted' = Restarted
    BY <1>1 DEF Latest, Restarted
  <2>2. (Lights(ha)' <=> Lights(ha)) /\ (Settles(ha)' <=> Settles(ha))
    BY <1>1 DEF Lights, Settles
  <2>3. \A p : PulseFits(ha, p) =>
           /\ p <= 1 /\ (~ha.saver.enabled => p = Saver!None)
           /\ p # Saver!None /\ ~plug' =>
                dark' + p <= Restarted' \/ (dark' = 0 /\ Settles(ha)') \/ (Lights(ha)' /\ p > 0)
    BY <1>1, <2>1, <2>2 DEF PulseFits
  <2>4. PulsesFit(ha)'
    BY <1>1, <2>3 DEF Awake, Fit, PulsesFit, PulseFits
  <2>5. ha.guard.at = "sleep" => dark + ha.guard.wake <= Latest \/ Lights(ha)
    BY <1>1 DEF Awake, Fit, GuardFits
  <2>6. ha.guard.at = "sleep" => dark' + ha.guard.wake <= Latest' \/ Lights(ha)'
    BY <1>1, <2>1, <2>2, <2>5
  <2>7. GuardFits(ha)'
    BY <1>1, <2>6 DEF Awake, Fit, GuardFits, GuardCallFits
  <2> QED
    BY <2>4, <2>7
<1> QED
  BY <1>1, <1>2, <1>3, <1>4 DEF Awake, Fit

LEMMA StepAwake ==
  ASSUME AwakeInv, [Saver!Next]_(Saver!vars)
  PROVE  AwakeInv'
<1>1. PowerInv' /\ left' \in Saver!Counts
  <2>1. PowerInv /\ left \in Saver!Counts /\ SaverLimits
    BY DEF AwakeInv, PowerInv, Types, Good
  <2> QED
    BY <2>1, StepPower, CountStays
<1> SUFFICES ASSUME Saver!Undisturbed'
             PROVE  Awake'
  BY <1>1 DEF AwakeInv
<1>2. Goes
  <2>1. Saver!Undisturbed
    BY UpsetGrows DEF Saver!Undisturbed
  <2>2. Types'
    BY <1>1 DEF PowerInv
  <2> QED
    BY <1>1, <2>1, <2>2 DEF Goes
<1>3. CASE UNCHANGED Saver!vars
  BY <1>2, <1>3, StillAwake DEF Goes
<1>4. CASE Saver!Restart
  BY <1>2, <1>4, RestartAwake
<1>5. ASSUME Saver!Next, ~Saver!Restart
      PROVE  Awake'
  <2>1. left'.restart = left.restart
    <3>1. left \in Saver!Counts /\ SaverLimits
      BY DEF AwakeInv, PowerInv, Types, Good
    <3> QED
      BY <1>5, <3>1, CountStays
  <2>2. ASSUME NEW who \in Saver!Tasks, Saver!PlugObeys(who) \/ Saver!CallReturns(who) \/ Saver!CallFails(who)
        PROVE  Awake'
    BY <1>2, <2>1, <2>2, ObeyAwake, ReturnAwake, FaultsDisturb
  <2>3. CASE Saver!EntityFollows \/ Saver!EntityGone
    BY <1>2, <2>3, EntityAwake, FaultsDisturb
  <2>4. CASE Saver!GuardLoops \/ Saver!GuardWakes \/ Saver!GuardGoesOn \/ Saver!SettleEnds
    BY <1>2, <2>4, LoopAwake, WakeAwake, GoesOnAwake, FaultsDisturb
  <2>5. CASE Saver!EvalBegins \/ Saver!RecheckIsDue \/ Saver!EvalGoesOn
             \/ Saver!EventsArrive \/ Saver!DownloadFails
    BY <1>2, <2>5, BeginsAwake, TimersAwake, EvalGoesOnAwake, EventsAwake, FaultsDisturb
  <2>6. CASE Saver!ThrottleEnds \/ Saver!Continues \/ Saver!ContinueFails
    BY <1>2, <2>6, TimersAwake, ContinuesAwake, FaultsDisturb
  <2>7. CASE Saver!Enable \/ Saver!Disable \/ Saver!Disabled \/ Saver!Prepare \/ Saver!Prepared
    BY <1>2, <2>1, <2>7, EnableAwake, UserAwake, DisabledAwake, PreparedAwake
  <2>8. CASE Saver!ShadowHeard \/ Saver!EventPublished \/ Saver!Obeys \/ Saver!Departs
             \/ Saver!Returns \/ Saver!Docks \/ Saver!Weather
    <3>1. Saver!MowerStep /\ (heard' = heard \/ heard')
      BY <2>8 DEF Saver!ShadowHeard, Saver!EventPublished, Saver!Obeys, Saver!Departs,
         Saver!Returns, Saver!Docks, Saver!Weather
    <3> QED
      BY <1>2, <2>1, <3>1, MowerAwake
  <2>9. CASE Saver!Charges \/ Saver!Lasts \/ Saver!Empties
    BY <1>2, <2>9, TickAwake DEF Saver!Charges, Saver!Lasts, Saver!Empties
  <2> QED
    BY <1>5, <2>2, <2>3, <2>4, <2>5, <2>6, <2>7, <2>8, <2>9 DEF Saver!Next
<1> QED
  BY <1>3, <1>4, <1>5

LEMMA InitAwake ==
  ASSUME Saver!SaverBounds, Saver!Init
  PROVE  AwakeInv
<1>1. PowerInv
  BY InitPower
<1>2. PICK s \in BatteryStarts :
        /\ plug = s.plug /\ left = s.count /\ heard = TRUE /\ fresh = FALSE /\ dark = 0
        /\ entity = [state |-> IF s.plug THEN "on" ELSE "off", since |-> 0]
        /\ ha = LET saver == [enabled |-> s.phase # "disabled", phase |-> s.phase,
                              due |-> Saver!None, pulse |-> Saver!None]
                IN  [saver |-> saver, stored |-> saver, guard |-> Saver!NoGuard, eval |-> Saver!NoEval,
                     calls |-> [t \in Saver!Tasks |-> "none"], user |-> "none",
                     known |-> s.mower.code, recent |-> FALSE, recheck |-> "none",
                     task |-> TRUE]
  BY DEF Saver!Init
<1>3. left \in Saver!Counts
  BY <1>2 DEF Saver!SaverBounds
<1>4. /\ ha.saver = ha.stored /\ ha.saver.due = Saver!None /\ ha.saver.pulse = Saver!None
      /\ ha.saver.enabled <=> ha.saver.phase # "disabled"
      /\ ha.guard.at = "none" /\ ha.eval.at = "idle" /\ dark = 0
      /\ ha.calls.guard = "none" /\ ha.calls.eval = "none" /\ ha.calls.user = "none"
  BY <1>2 DEF Saver!NoGuard, Saver!NoEval, Saver!Tasks
<1>5. /\ Restarted \in Nat /\ Latest \in Nat /\ Latest > 0 /\ entity.since \in Nat
  <2>1. WorldTypes /\ SaverLimits
    BY <1>1 DEF PowerInv, Types, Good
  <2>2. Restarted \in Nat /\ Guard \in Nat /\ Guard > 1 /\ entity.since \in 0 .. Guard
    BY <1>3, <2>1, Numbers
  <2> QED
    BY <2>2 DEF Latest
<1>6. Held /\ Soon
  BY <1>4, <1>5 DEF Held, Soon, Watched
<1>7. CallsFit(ha) /\ DueFits(ha) /\ PhaseFits(ha)
  BY <1>4, <1>5 DEF CallsFit, DueFits, PhaseFits
<1>8. PulsesFit(ha) /\ GuardFits(ha)
  BY <1>4, Nones DEF PulsesFit, PulseFits, GuardFits, GuardCallFits
<1> QED
  BY <1>1, <1>2, <1>3, <1>4, <1>6, <1>7, <1>8 DEF AwakeInv, Awake, Fit

(* What the invariant says of a mower without power.                        *)
LEMMA AwakeSays ==
  ASSUME AwakeInv
  PROVE  KeptAwake
<1> SUFFICES ASSUME Saver!Undisturbed
             PROVE  dark + left.restart <= Guard + MaxRestarts
  BY DEF KeptAwake, Saver!KeptAwake
<1>1. WorldTypes /\ SaverLimits /\ left \in Saver!Counts /\ dark <= Latest
  BY SceneNow DEF Scene, Held
<1>2. left.restart \in 0 .. MaxRestarts /\ MaxRestarts \in Nat
  BY <1>1 DEF Saver!Counts, SaverLimits
<1>3. dark \in Nat /\ Guard \in Nat
  BY <1>1, Numbers
<1> QED
  BY <1>1, <1>2, <1>3 DEF Latest, Restarted

(* A docked mower whose saver is on is pulsed in time, however evaluation,  *)
(* guard, user and restarts interleave: it is never without power for longer *)
(* than the guard's 55 minutes and a minute for each restart (KeptAwake).   *)
THEOREM KeptAwakeAlways == Saver!Spec => []KeptAwake
<1>1. Saver!Init => AwakeInv
  BY TaskPartsAssumption, InitAwake
<1>2. AwakeInv /\ [Saver!Next]_(Saver!vars) => AwakeInv'
  BY StepAwake
<1>3. AwakeInv => KeptAwake
  BY AwakeSays
<1> QED
  BY <1>1, <1>2, <1>3, PTL DEF Saver!Spec

(***************************************************************************)
(* The path of a Genie.                                                    *)
(***************************************************************************)

GenieLimits == MaxPaths \in Nat \ {0} /\ MaxTimes \in Nat

GenieMowers == [path : 1 .. MaxPaths, out : BOOLEAN, asked : BOOLEAN, time : Genie!Times]
Knowns      == [time : Genie!Times, out : BOOLEAN]
Sessions    == [waiting : BOOLEAN, baseline : Genie!Times, visible : Genie!Paths]
LoopJobs    == [at : {"none", "due", "awaiting", "fetching"}, time : Genie!Times, got : Genie!Paths]
PollJobs    == [at : {"none", "awaiting", "fetching", "ending"}, time : Genie!Times, got : Genie!Paths]
Jobs        == [loop : LoopJobs, poll : PollJobs]
Turns       == [current : BOOLEAN, waiting : BOOLEAN, baseline : Genie!Times, last : Genie!Times]

CoordinatorTypes ==
    /\ known \in Knowns /\ path \in Genie!Paths /\ definition \in Genie!Paths /\ lastTime \in Genie!Times
    /\ failed \in BOOLEAN /\ session \in Sessions
WorkTypes == job \in Jobs /\ turn \in Turns /\ pollOut \in BOOLEAN /\ crossed \in BOOLEAN
CloudTypes ==
    /\ genie \in GenieMowers /\ file \in 1 .. MaxPaths /\ pending \in [any : BOOLEAN, time : Genie!Times]
    /\ budget \in Genie!Counts
GenieTypes == GenieLimits /\ CloudTypes /\ CoordinatorTypes /\ WorkTypes

(***************************************************************************)
(* Everything shown or on its way was the file once, and the file is never *)
(* ahead of the mower; every upload with a new path_time is paid for.      *)
(***************************************************************************)
OnceFile ==
    /\ file <= genie.path
    /\ path <= file /\ definition <= file /\ session.visible <= file
    /\ job.loop.got <= file /\ job.poll.got <= file
    /\ genie.time + budget.again + (MaxPaths - file) <= MaxTimes

(***************************************************************************)
(* While a task waits, its session keeps what is shown, and a turn of the  *)
(* loop that is still current knows that it waits.                         *)
(***************************************************************************)
Keeping ==
    /\ session.waiting /\ Genie!HasPayload(path) => path = session.visible
    /\ job.loop.at \in {"awaiting", "fetching"} /\ turn.current /\ session.waiting => turn.waiting

(***************************************************************************)
(* What a download brings is not older than what is shown, unless the loop *)
(* and the poll downloaded at the same time; when no poll is about to      *)
(* publish, what is shown is what the coordinator holds.                   *)
(***************************************************************************)
Newest ==
    /\ job.loop.at = "fetching" /\ job.poll.at = "fetching" => crossed
    /\ job.poll.at # "ending" => definition = path
    /\ crossed \/ /\ job.loop.at = "fetching" =>
                       /\ path <= job.loop.got /\ definition <= job.loop.got
                       /\ session.visible <= job.loop.got
                  /\ job.poll.at = "fetching" => path <= job.poll.got
                  /\ job.poll.at = "ending" => path <= definition

GenieInv == GenieTypes /\ OnceFile /\ Keeping /\ Newest

Steady ==
    Genie!HasPayload(path) =>
      /\ session.waiting /\ session'.waiting => path' = path
      /\ path' < path => crossed
-----------------------------------------------------------------------------
LEMMA PathNumbers ==
  ASSUME GenieLimits
  PROVE  /\ Genie!Paths \subseteq Int /\ 1 .. MaxPaths \subseteq Genie!Paths /\ Genie!Unread \in Genie!Paths /\ Genie!Empty \in Genie!Paths
         /\ Genie!Times \subseteq Nat /\ Genie!None \in Genie!Times
BY DEF GenieLimits, Genie!Paths, Genie!Unread, Genie!Empty, Genie!Times, Genie!None

LEMMA Constant ==
  ASSUME GenieLimits
  PROVE  /\ Genie!Flushed \in [any : BOOLEAN, time : Genie!Times] /\ Genie!NoSession \in Sessions
         /\ Genie!Idle \in LoopJobs /\ Genie!Idle \in PollJobs /\ Genie!NoTurn \in Turns
<1>1. Genie!Unread \in Genie!Paths /\ Genie!None \in Genie!Times
  BY PathNumbers
<1> QED
  BY <1>1 DEF Genie!Flushed, Genie!NoSession, Genie!Idle, Genie!NoTurn, Sessions, LoopJobs,
     PollJobs, Turns

(* What crosses: who downloads in a next state of the jobs. *)
LEMMA Crossing ==
  ASSUME NEW j, j \in Jobs, Genie!Works(j), crossed \in BOOLEAN
  PROVE  /\ job' = j /\ crossed' \in BOOLEAN
         /\ j.loop.at = "fetching" /\ j.poll.at = "fetching" => crossed'
         /\ ~crossed' => \/ ~crossed
                         \/ j.loop.at # "fetching" /\ j.poll.at \notin {"fetching", "ending"}
<1>1. /\ "loop" \in Genie!Downloading(j) <=> j.loop.at = "fetching"
      /\ "poll" \in Genie!Downloading(j) <=> j.poll.at = "fetching"
      /\ Genie!Downloading(j) \subseteq Genie!Who
  BY DEF Genie!Downloading, Genie!Who
<1>2. Genie!Downloading(j) = Genie!Who <=> (j.loop.at = "fetching" /\ j.poll.at = "fetching")
  BY <1>1 DEF Genie!Who
<1>3. Genie!Downloading(j) = {} <=> (j.loop.at # "fetching" /\ j.poll.at # "fetching")
  BY <1>1 DEF Genie!Who
<1> QED
  BY <1>2, <1>3 DEF Genie!Works

(* The three ways a refreshed state is published. *)
LEMMA Published ==
  ASSUME GenieTypes, NEW state \in [time : Genie!Times, out : BOOLEAN, path : Genie!Paths],
         Genie!AcceptAndPublish(state)
  PROVE  /\ known' \in Knowns /\ path' \in Genie!Paths /\ definition' \in Genie!Paths /\ lastTime' \in Genie!Times
         /\ session' \in Sessions
         /\ \/ /\ session.waiting /\ session' = session
               /\ path' = session.visible /\ definition' = session.visible
            \/ /\ ~session'.waiting /\ session' \in {session, Genie!NoSession} /\ path' = state.path
               /\ definition' = definition \/ definition' = state.path
<1>1. Genie!NoSession \in Sessions /\ session \in Sessions /\ ~Genie!NoSession.waiting
  BY Constant DEF GenieTypes, CoordinatorTypes, Genie!NoSession
<1>2. CASE ~session.waiting
  BY <1>1, <1>2 DEF Genie!AcceptAndPublish, GenieTypes, CoordinatorTypes, Knowns
<1>3. CASE session.waiting /\ state.time \notin {Genie!None, session.baseline} /\ Genie!HasPayload(state.path)
  BY <1>1, <1>3 DEF Genie!AcceptAndPublish, GenieTypes, CoordinatorTypes, Knowns
<1>4. CASE session.waiting /\ (state.time \in {Genie!None, session.baseline} \/ ~Genie!HasPayload(state.path))
  <2>1. session.baseline \in Genie!Times /\ session.visible \in Genie!Paths
    BY <1>1 DEF Sessions
  <2>2. known' \in Knowns
    <3>1. (IF session.baseline # Genie!None THEN session.baseline ELSE state.time) \in Genie!Times
      BY <2>1
    <3> QED
      BY <1>4, <3>1 DEF Genie!AcceptAndPublish, Knowns
  <2> QED
    BY <1>1, <1>4, <2>1, <2>2 DEF Genie!AcceptAndPublish
<1> QED
  BY <1>2, <1>3, <1>4

(* The jobs, in full, and the numbers in the state. *)
LEMMA JobShape ==
  ASSUME GenieTypes
  PROVE  /\ job \in Jobs /\ job = [loop |-> job.loop, poll |-> job.poll]
         /\ job.loop \in LoopJobs /\ job.poll \in PollJobs
         /\ job.loop = [at |-> job.loop.at, time |-> job.loop.time, got |-> job.loop.got]
         /\ job.poll = [at |-> job.poll.at, time |-> job.poll.time, got |-> job.poll.got]
BY DEF GenieTypes, WorkTypes, Jobs, LoopJobs, PollJobs

LEMMA InvNumbers ==
  ASSUME GenieTypes
  PROVE  /\ path \in Int /\ definition \in Int /\ session.visible \in Int
         /\ job.loop.got \in Int /\ job.poll.got \in Int
         /\ file \in 1 .. MaxPaths /\ file \in Genie!Paths /\ genie.path \in 1 .. MaxPaths
         /\ genie.time \in Nat /\ budget.again \in Nat /\ MaxPaths \in Nat /\ MaxTimes \in Nat
<1>1. /\ genie.path \in 1 .. MaxPaths /\ genie.time \in Genie!Times /\ budget.again \in Nat
      /\ path \in Genie!Paths /\ definition \in Genie!Paths /\ session.visible \in Genie!Paths
      /\ job.loop.got \in Genie!Paths /\ job.poll.got \in Genie!Paths /\ file \in 1 .. MaxPaths
  BY JobShape DEF GenieTypes, CloudTypes, CoordinatorTypes, GenieMowers, Genie!Counts, Sessions,
     LoopJobs, PollJobs
<1>2. GenieLimits /\ MaxPaths \in Nat /\ MaxTimes \in Nat
  BY DEF GenieTypes, GenieLimits
<1>3. Genie!Paths \subseteq Int /\ Genie!Times \subseteq Nat /\ 1 .. MaxPaths \subseteq Genie!Paths
  BY <1>2, PathNumbers
<1> QED
  BY <1>1, <1>2, <1>3

(* A step of the mower and the cloud. *)
LEMMA CloudKeeps ==
  ASSUME GenieInv, Genie!Drives \/ Genie!Docks \/ Genie!Uploads
  PROVE  GenieInv' /\ Steady
<1>1. /\ GenieTypes /\ UNCHANGED <<pending, Genie!coordinator, request, Genie!work>>
      /\ genie \in GenieMowers /\ budget \in Genie!Counts /\ file <= genie.path
      /\ genie.time + budget.again + (MaxPaths - file) <= MaxTimes
  BY DEF GenieInv, GenieTypes, CloudTypes, OnceFile, Genie!Drives, Genie!Docks,
     Genie!Uploads, Genie!World
<1>2. /\ file \in 1 .. MaxPaths /\ genie.path \in 1 .. MaxPaths /\ genie.time \in Nat
      /\ budget.again \in Nat /\ MaxPaths \in Nat /\ MaxTimes \in Nat
  BY <1>1, InvNumbers
<1>3. /\ file' \in 1 .. MaxPaths /\ file <= file'
      /\ genie' \in GenieMowers /\ budget' \in Genie!Counts
      /\ file' <= genie'.path
      /\ genie'.time + budget'.again + (MaxPaths - file') <= MaxTimes
  <2>1. CASE Genie!Drives
    <3>1. /\ genie' = [genie EXCEPT !.path = @ + 1, !.out = TRUE] /\ genie.path < MaxPaths
          /\ file' = file /\ budget' = budget
      BY <2>1 DEF Genie!Drives, Genie!World
    <3>2. genie.path + 1 \in 1 .. MaxPaths
      BY <1>2, <3>1
    <3>3. genie' \in GenieMowers /\ genie'.path = genie.path + 1 /\ genie'.time = genie.time
      BY <1>1, <3>1, <3>2 DEF GenieMowers
    <3> QED
      BY <1>1, <1>2, <3>1, <3>3
  <2>2. CASE Genie!Docks
    <3>1. genie' = [genie EXCEPT !.out = FALSE] /\ file' = file
          /\ budget.dock > 0 /\ budget' = [budget EXCEPT !.dock = @ - 1]
      BY <2>2 DEF Genie!Docks, Genie!World, Genie!Spend
    <3>2. genie' \in GenieMowers /\ genie'.path = genie.path /\ genie'.time = genie.time
      BY <1>1, <3>1 DEF GenieMowers
    <3>3. budget.dock - 1 \in Nat
      BY <1>1, <3>1 DEF Genie!Counts
    <3>4. budget' \in Genie!Counts /\ budget'.again = budget.again
      BY <1>1, <3>1, <3>3 DEF Genie!Counts
    <3> QED
      BY <1>1, <1>2, <3>1, <3>2, <3>4
  <2>3. CASE Genie!Uploads
    <3>1. file' = genie.path
      BY <2>3 DEF Genie!Uploads
    <3>2. CASE genie' = [genie EXCEPT !.asked = FALSE] /\ file = genie.path /\ budget' = budget
      <4>1. genie' \in GenieMowers /\ genie'.path = genie.path /\ genie'.time = genie.time
        BY <1>1, <3>2 DEF GenieMowers
      <4> QED
        BY <1>1, <1>2, <3>1, <3>2, <4>1
    <3>3. CASE /\ genie' = [genie EXCEPT !.asked = FALSE, !.time = @ + 1]
               /\ IF file = genie.path THEN Genie!Spend("again") ELSE budget' = budget
      <4>1. /\ budget' \in Genie!Counts /\ budget'.again \in Nat
            /\ genie.time + 1 + budget'.again + (MaxPaths - file') <= MaxTimes
        <5>1. CASE file = genie.path
          <6>1. budget.again > 0 /\ budget' = [budget EXCEPT !.again = @ - 1]
            BY <3>3, <5>1 DEF Genie!Spend
          <6>2. budget.again - 1 \in Nat
            BY <1>2, <6>1
          <6>3. budget' \in Genie!Counts /\ budget'.again = budget.again - 1
            BY <1>1, <6>1, <6>2 DEF Genie!Counts
          <6> QED
            BY <1>1, <1>2, <3>1, <5>1, <6>2, <6>3
        <5>2. CASE file # genie.path
          BY <1>1, <1>2, <3>1, <3>3, <5>2
        <5> QED
          BY <5>1, <5>2
      <4>2. genie.time + 1 \in Genie!Times
        BY <1>2, <3>1, <4>1 DEF Genie!Times, Genie!None
      <4>3. genie' \in GenieMowers /\ genie'.path = genie.path /\ genie'.time = genie.time + 1
        BY <1>1, <3>3, <4>2 DEF GenieMowers
      <4> QED
        BY <1>1, <1>2, <3>1, <4>1, <4>3
    <3> QED
      BY <2>3, <3>2, <3>3 DEF Genie!Uploads, Genie!World
  <2> QED
    BY <2>1, <2>2, <2>3 DEF Genie!Drives, Genie!Docks, Genie!Uploads
<1>4. /\ pending' = pending /\ known' = known /\ path' = path /\ definition' = definition
      /\ lastTime' = lastTime /\ failed' = failed /\ session' = session /\ job' = job
      /\ turn' = turn /\ pollOut' = pollOut /\ crossed' = crossed
  BY <1>1 DEF Genie!coordinator, Genie!work
<1>5. GenieTypes'
  BY <1>1, <1>3, <1>4 DEF GenieTypes, GenieLimits, CloudTypes, CoordinatorTypes, WorkTypes
<1>6. OnceFile'
  <2>1. GenieTypes /\ OnceFile
    BY DEF GenieInv
  <2> QED
    BY <1>2, <1>3, <1>4, <2>1, InvNumbers DEF OnceFile
<1>7. Keeping' /\ Newest' /\ Steady
  BY <1>1, <1>4, InvNumbers DEF GenieInv, Keeping, Newest, Genie!HasPayload, Steady
<1> QED
  BY <1>5, <1>6, <1>7 DEF GenieInv

-----------------------------------------------------------------------------
LEMMA Spent ==
  ASSUME budget \in Genie!Counts, NEW what \in {"start", "poll", "fault", "dock"}, Genie!Spend(what)
  PROVE  budget' \in Genie!Counts /\ budget'.again = budget.again
<1>1. budget[what] > 0 /\ budget[what] \in Nat /\ budget' = [budget EXCEPT ![what] = @ - 1]
  BY DEF Genie!Spend, Genie!Counts
<1>2. budget[what] - 1 \in Nat
  BY <1>1
<1> QED
  BY <1>1, <1>2 DEF Genie!Counts

(* What a step of the integration leaves alone. *)
LEMMA Untouched ==
  ASSUME GenieInv, genie' \in GenieMowers, genie'.path = genie.path, genie'.time = genie.time,
         file' = file, budget' \in Genie!Counts, budget'.again = budget.again,
         pending' \in [any : BOOLEAN, time : Genie!Times], CoordinatorTypes', WorkTypes',
         path' <= file, definition' <= file, session'.visible <= file,
         job'.loop.got <= file, job'.poll.got <= file
  PROVE  GenieTypes' /\ OnceFile'
<1>1. GenieTypes'
  BY DEF GenieInv, GenieTypes, CloudTypes, GenieLimits
<1>2. OnceFile'
  BY DEF GenieInv, OnceFile
<1> QED
  BY <1>1, <1>2

LEMMA AskedTypes ==
  ASSUME genie \in GenieMowers, NEW time, Genie!Asks(time) \/ Genie!AsksNot
  PROVE  genie' \in GenieMowers /\ genie'.path = genie.path /\ genie'.time = genie.time
BY DEF GenieMowers, Genie!Asks, Genie!AsksNot

LEMMA ShadowKeeps ==
  ASSUME GenieInv, Genie!FragmentArrives \/ Genie!FlushLive \/ Genie!TenSecondsPass \/ Genie!LoopEnds
  PROVE  GenieInv' /\ Steady
<1>1. /\ GenieTypes /\ OnceFile /\ Keeping /\ Newest /\ genie \in GenieMowers /\ budget \in Genie!Counts
      /\ pending \in [any : BOOLEAN, time : Genie!Times] /\ CoordinatorTypes /\ WorkTypes
      /\ job \in Jobs /\ genie.time \in Genie!Times /\ genie.out \in BOOLEAN /\ GenieLimits
  BY DEF GenieInv, GenieTypes, CloudTypes, WorkTypes, GenieMowers
<1>2. Genie!Flushed \in [any : BOOLEAN, time : Genie!Times] /\ Genie!Idle \in LoopJobs /\ Genie!Idle.got = Genie!Unread
      /\ Genie!Idle.at = "none"
  BY <1>1, Constant DEF Genie!Idle
<1>3. CASE Genie!TenSecondsPass
  <2>1. UNCHANGED <<genie, file, pending, Genie!coordinator, Genie!work, budget>>
    BY <1>3 DEF Genie!TenSecondsPass
  <2> QED
    BY <1>1, <2>1, InvNumbers DEF Genie!coordinator, Genie!work, GenieInv, GenieTypes,
       GenieLimits, CloudTypes,
       CoordinatorTypes, WorkTypes, OnceFile, Keeping, Newest, Steady, Genie!HasPayload
<1>4. CASE Genie!FlushLive
  <2>1. /\ known' = [time |-> pending.time, out |-> genie.out] /\ pending' = Genie!Flushed
        /\ UNCHANGED <<genie, file, path, definition, lastTime, failed, session, Genie!work, budget>>
    BY <1>4 DEF Genie!FlushLive
  <2>2. known' \in Knowns
    BY <1>1, <2>1 DEF Knowns
  <2> QED
    BY <1>1, <1>2, <2>1, <2>2, InvNumbers DEF Genie!work, GenieInv, GenieTypes, GenieLimits,
       CloudTypes,
       CoordinatorTypes, WorkTypes, OnceFile, Keeping, Newest, Steady, Genie!HasPayload
<1>5. CASE Genie!FragmentArrives
  <2>1. /\ pending' = [any |-> TRUE, time |-> genie.time]
        /\ job' = IF genie.out THEN Genie!Ensured(job) ELSE job
        /\ UNCHANGED <<genie, file, Genie!coordinator, turn, pollOut, budget, crossed>>
    BY <1>5 DEF Genie!FragmentArrives
  <2>2. pending' \in [any : BOOLEAN, time : Genie!Times]
    BY <1>1, <2>1
  <2>3. /\ job' \in Jobs /\ job'.poll = job.poll /\ job'.loop.got = job.loop.got
        /\ job'.loop.at = job.loop.at \/ job'.loop.at = "due"
    BY <1>1, <2>1, JobShape DEF Genie!Ensured, Jobs, LoopJobs
  <2>4. WorkTypes' /\ CoordinatorTypes'
    BY <1>1, <2>1, <2>3 DEF WorkTypes, CoordinatorTypes, Genie!coordinator
  <2>5. GenieTypes' /\ OnceFile'
    BY <1>1, <2>1, <2>2, <2>3, <2>4, Untouched DEF OnceFile, Genie!coordinator
  <2>6. Keeping' /\ Newest' /\ Steady
    BY <1>1, <2>1, <2>3, InvNumbers DEF Keeping, Newest, Steady, Genie!HasPayload, Genie!coordinator
  <2> QED
    BY <2>5, <2>6 DEF GenieInv
<1>6. CASE Genie!LoopEnds
  <2> DEFINE j == [job EXCEPT !.loop = Genie!Idle]
  <2>1. /\ Genie!Works(j) /\ job.loop.at = "due"
        /\ UNCHANGED <<genie, file, pending, Genie!coordinator, turn, pollOut, budget>>
    BY <1>6 DEF Genie!LoopEnds
  <2>2. j \in Jobs /\ j.loop = Genie!Idle /\ j.poll = job.poll
    BY <1>1, <1>2 DEF Jobs
  <2> HIDE DEF j
  <2>3. /\ job' = j /\ crossed' \in BOOLEAN
        /\ ~crossed' => ~crossed \/ j.poll.at \notin {"fetching", "ending"}
    BY <1>1, <2>1, <2>2, Crossing DEF WorkTypes
  <2>4. WorkTypes' /\ CoordinatorTypes'
    BY <1>1, <2>1, <2>2, <2>3 DEF WorkTypes, CoordinatorTypes, Genie!coordinator
  <2>5. Genie!Unread <= file
    BY <1>1, InvNumbers DEF Genie!Unread
  <2>6. GenieTypes' /\ OnceFile'
    BY <1>1, <1>2, <2>1, <2>2, <2>3, <2>4, <2>5, Untouched DEF OnceFile, Genie!coordinator
  <2>7. Keeping' /\ Newest' /\ Steady
    BY <1>1, <1>2, <2>1, <2>2, <2>3, InvNumbers DEF Keeping, Newest, Steady,
       Genie!HasPayload, Genie!coordinator
  <2> QED
    BY <2>6, <2>7 DEF GenieInv
<1> QED
  BY <1>3, <1>4, <1>5, <1>6

LEMMA RememberKeeps ==
  ASSUME GenieInv, Genie!RememberMowingTask
  PROVE  GenieInv' /\ Steady
<1>1. /\ GenieTypes /\ OnceFile /\ Keeping /\ Newest /\ genie \in GenieMowers /\ budget \in Genie!Counts
      /\ pending \in [any : BOOLEAN, time : Genie!Times] /\ CoordinatorTypes /\ WorkTypes
      /\ job \in Jobs /\ turn \in Turns /\ known.time \in Genie!Times
      /\ path \in Genie!Paths /\ definition \in Genie!Paths
  BY DEF GenieInv, GenieTypes, CloudTypes, WorkTypes, CoordinatorTypes, Knowns
<1>2. /\ Genie!Spend("start")
      /\ session' = [waiting |-> TRUE, baseline |-> known.time,
                     visible |-> IF path # Genie!Unread THEN path ELSE definition]
      /\ turn' = IF job.loop.at \in {"none", "due"} THEN turn ELSE [turn EXCEPT !.current = FALSE]
      /\ job' = Genie!Ensured(job)
      /\ UNCHANGED <<genie, file, pending, known, path, definition, lastTime, failed, pollOut, crossed>>
  BY DEF Genie!RememberMowingTask
<1>3. budget' \in Genie!Counts /\ budget'.again = budget.again
  BY <1>1, <1>2, Spent
<1>4. /\ session' \in Sessions /\ session'.waiting
      /\ session'.visible \in {path, definition} /\ (path # Genie!Unread => session'.visible = path)
  BY <1>1, <1>2 DEF Sessions
<1>5. /\ job' \in Jobs /\ job'.poll = job.poll /\ job'.loop.got = job.loop.got
      /\ job'.loop.at = job.loop.at \/ (job.loop.at = "none" /\ job'.loop.at = "due")
  BY <1>1, <1>2, JobShape DEF Genie!Ensured, Jobs, LoopJobs
<1>6. turn' \in Turns /\ (job.loop.at \in {"awaiting", "fetching"} => ~turn'.current)
  BY <1>1, <1>2 DEF Turns
<1>7. WorkTypes' /\ CoordinatorTypes'
  BY <1>1, <1>2, <1>4, <1>5, <1>6 DEF WorkTypes, CoordinatorTypes
<1>8. GenieTypes' /\ OnceFile'
  BY <1>1, <1>2, <1>3, <1>4, <1>5, <1>7, Untouched DEF OnceFile
<1>9. Keeping'
  BY <1>1, <1>2, <1>4, <1>5, <1>6 DEF Keeping, Genie!HasPayload, Genie!Unread, Genie!Empty
<1>10. Newest' /\ Steady
  BY <1>1, <1>2, <1>5, InvNumbers DEF Newest, Steady, Genie!HasPayload
<1> QED
  BY <1>8, <1>9, <1>10 DEF GenieInv

-----------------------------------------------------------------------------
(* The loop.                                                               *)

LEMMA LoopMoves ==
  ASSUME GenieInv, NEW l \in LoopJobs, Genie!Works([job EXCEPT !.loop = l]), l.got <= file,
         turn' \in Turns, Genie!coordinator' = Genie!coordinator, pollOut' = pollOut,
         l.at \in {"awaiting", "fetching"} /\ turn'.current /\ session.waiting => turn'.waiting,
         l.at = "fetching" => path <= l.got /\ definition <= l.got /\ session.visible <= l.got
  PROVE  /\ WorkTypes' /\ CoordinatorTypes' /\ Keeping' /\ Newest' /\ Steady
         /\ job'.loop.got <= file /\ job'.poll = job.poll
<1> DEFINE j == [job EXCEPT !.loop = l]
<1>1. /\ GenieTypes /\ OnceFile /\ Keeping /\ Newest /\ CoordinatorTypes /\ WorkTypes /\ job \in Jobs
  BY DEF GenieInv, GenieTypes, WorkTypes
<1>2. j \in Jobs /\ j.loop = l /\ j.poll = job.poll
  BY <1>1 DEF Jobs
<1> HIDE DEF j
<1>3. /\ job' = j /\ crossed' \in BOOLEAN
      /\ j.loop.at = "fetching" /\ j.poll.at = "fetching" => crossed'
      /\ ~crossed' => \/ ~crossed
                      \/ j.loop.at # "fetching" /\ j.poll.at \notin {"fetching", "ending"}
  BY <1>1, <1>2, Crossing DEF WorkTypes, j
<1>4. WorkTypes' /\ CoordinatorTypes'
  BY <1>1, <1>2, <1>3 DEF WorkTypes, CoordinatorTypes, Genie!coordinator
<1>5. Keeping' /\ Steady
  BY <1>1, <1>2, <1>3, InvNumbers DEF Keeping, Steady, Genie!HasPayload, Genie!coordinator
<1>6. Newest'
  BY <1>1, <1>2, <1>3 DEF Newest, Genie!coordinator
<1> QED
  BY <1>2, <1>3, <1>4, <1>5, <1>6

LEMMA FileIsNew ==
  ASSUME GenieInv, NEW time \in Genie!Times
  PROVE  /\ Genie!Fetching(time) \in LoopJobs /\ Genie!Fetching(time) \in PollJobs
         /\ Genie!Fetching(time).got = file /\ Genie!Fetching(time).at = "fetching"
         /\ path <= file /\ definition <= file /\ session.visible <= file /\ file <= file
<1>1. GenieTypes /\ OnceFile
  BY DEF GenieInv
<1>2. file \in Genie!Paths /\ file \in 1 .. MaxPaths
  BY <1>1, InvNumbers
<1> QED
  BY <1>1, <1>2 DEF Genie!Fetching, LoopJobs, PollJobs, OnceFile

LEMMA LoopGoes ==
  ASSUME GenieInv, NEW time \in Genie!Times, NEW t \in Turns, Genie!LoopGoesOn(time, t),
         Genie!coordinator' = Genie!coordinator, pollOut' = pollOut,
         t.current /\ session.waiting => t.waiting
  PROVE  /\ WorkTypes' /\ CoordinatorTypes' /\ Keeping' /\ Newest' /\ Steady
         /\ job'.loop.got <= file /\ job'.poll = job.poll
<1>1. GenieTypes /\ GenieLimits
  BY DEF GenieInv, GenieTypes
<1> DEFINE l == [Genie!Idle EXCEPT !.at = "due"]
<1>2. Genie!NoTurn \in Turns /\ l \in LoopJobs /\ l.at = "due" /\ l.got <= file
  <2>1. Genie!Idle \in LoopJobs
    BY <1>1, Constant
  <2>2. Genie!Unread <= file
    BY <1>1, InvNumbers DEF Genie!Unread
  <2> QED
    BY <1>1, <2>1, <2>2, Constant DEF Genie!Idle, LoopJobs
<1>3. CASE Genie!LoopSleeps
  <2>1. turn' = Genie!NoTurn /\ Genie!Works([job EXCEPT !.loop = l])
    BY <1>3 DEF Genie!LoopSleeps
  <2> HIDE DEF l
  <2> QED
    BY <1>2, <2>1, LoopMoves
<1>4. CASE turn' = t /\ Genie!Works([job EXCEPT !.loop = Genie!Fetching(time)])
  BY <1>4, FileIsNew, LoopMoves
<1> QED
  BY <1>3, <1>4 DEF Genie!LoopGoesOn

LEMMA LoopTurnsKeeps ==
  ASSUME GenieInv, Genie!LoopTurns
  PROVE  GenieInv' /\ Steady
<1> DEFINE t == [current |-> TRUE, waiting |-> session.waiting, baseline |-> session.baseline,
                 last |-> IF session.waiting THEN Genie!None ELSE lastTime]
           l == [job.loop EXCEPT !.at = "awaiting", !.time = known.time]
<1>1. /\ GenieTypes /\ OnceFile /\ genie \in GenieMowers /\ budget \in Genie!Counts
      /\ pending \in [any : BOOLEAN, time : Genie!Times] /\ CoordinatorTypes /\ WorkTypes
      /\ job \in Jobs /\ known.time \in Genie!Times /\ lastTime \in Genie!Times /\ session \in Sessions
      /\ Genie!None \in Genie!Times /\ job.loop.got <= file
  BY PathNumbers DEF GenieInv, GenieTypes, CloudTypes, WorkTypes, CoordinatorTypes, Knowns, OnceFile
<1>2. t \in Turns /\ t.waiting = session.waiting
  BY <1>1 DEF Turns, Sessions
<1>3. l \in LoopJobs /\ l.got = job.loop.got /\ l.at = "awaiting"
  BY <1>1, JobShape DEF LoopJobs
<1>4. /\ UNCHANGED <<file, pending, Genie!coordinator, pollOut>>
      /\ \/ /\ Genie!Asks(known.time) /\ turn' = t
            /\ Genie!Works([job EXCEPT !.loop.at = "awaiting", !.loop.time = known.time])
            /\ budget' = budget
         \/ Genie!AsksNot /\ Genie!LoopGoesOn(known.time, t) /\ (budget' = budget \/ Genie!Fault)
  BY DEF Genie!LoopTurns
<1>5. [job EXCEPT !.loop.at = "awaiting", !.loop.time = known.time] = [job EXCEPT !.loop = l]
  BY <1>1 DEF Jobs
<1> HIDE DEF t, l
<1>6. genie' \in GenieMowers /\ genie'.path = genie.path /\ genie'.time = genie.time
  BY <1>1, <1>4, AskedTypes
<1>7. budget' \in Genie!Counts /\ budget'.again = budget.again
  BY <1>1, <1>4, Spent DEF Genie!Fault
<1>8. /\ WorkTypes' /\ CoordinatorTypes' /\ Keeping' /\ Newest' /\ Steady
      /\ job'.loop.got <= file /\ job'.poll = job.poll
  <2>1. CASE turn' = t /\ Genie!Works([job EXCEPT !.loop = l])
    BY <1>1, <1>2, <1>3, <1>4, <2>1, LoopMoves
  <2>2. CASE Genie!LoopGoesOn(known.time, t)
    BY <1>1, <1>2, <1>4, <2>2, LoopGoes
  <2> QED
    BY <1>4, <1>5, <2>1, <2>2
<1>9. GenieTypes' /\ OnceFile'
  BY <1>1, <1>4, <1>6, <1>7, <1>8, Untouched DEF OnceFile, Genie!coordinator
<1> QED
  BY <1>8, <1>9 DEF GenieInv

LEMMA LoopAwaitedKeeps ==
  ASSUME GenieInv, Genie!LoopAwaited
  PROVE  GenieInv' /\ Steady
<1>1. /\ GenieTypes /\ OnceFile /\ genie \in GenieMowers /\ budget \in Genie!Counts
      /\ pending \in [any : BOOLEAN, time : Genie!Times] /\ turn \in Turns /\ known.time \in Genie!Times
      /\ Keeping
  BY DEF GenieInv, GenieTypes, CloudTypes, WorkTypes, CoordinatorTypes, Knowns
<1>2. /\ job.loop.at = "awaiting" /\ Genie!LoopGoesOn(known.time, turn)
      /\ UNCHANGED <<genie, file, pending, Genie!coordinator, pollOut, budget>>
  BY DEF Genie!LoopAwaited
<1>3. turn.current /\ session.waiting => turn.waiting
  BY <1>1, <1>2 DEF Keeping
<1>4. /\ WorkTypes' /\ CoordinatorTypes' /\ Keeping' /\ Newest' /\ Steady
      /\ job'.loop.got <= file /\ job'.poll = job.poll
  BY <1>1, <1>2, <1>3, LoopGoes
<1>5. GenieTypes' /\ OnceFile'
  BY <1>1, <1>2, <1>4, Untouched DEF OnceFile, Genie!coordinator
<1> QED
  BY <1>4, <1>5 DEF GenieInv

(* A turn of the loop is over, whatever it published. *)
LEMMA LoopRests ==
  ASSUME GenieInv, Genie!LoopSleeps, pollOut' = pollOut
  PROVE  /\ job' \in Jobs /\ job'.poll = job.poll /\ job'.loop.at = "due" /\ job'.loop.got = Genie!Unread
         /\ turn' = Genie!NoTurn /\ WorkTypes' /\ Genie!Unread <= file
         /\ ~crossed' => ~crossed \/ job.poll.at \notin {"fetching", "ending"}
<1> DEFINE l == [Genie!Idle EXCEPT !.at = "due"]
           j == [job EXCEPT !.loop = l]
<1>1. GenieTypes /\ GenieLimits /\ job \in Jobs /\ WorkTypes
  BY DEF GenieInv, GenieTypes, WorkTypes
<1>2. Genie!NoTurn \in Turns /\ l \in LoopJobs /\ l.at = "due" /\ l.got = Genie!Unread
  BY <1>1, Constant DEF Genie!Idle, LoopJobs
<1>3. Genie!Unread <= file
  BY <1>1, InvNumbers DEF Genie!Unread
<1>4. Genie!Works(j) /\ turn' = Genie!NoTurn
  BY DEF Genie!LoopSleeps
<1> HIDE DEF l
<1>5. j \in Jobs /\ j.loop = l /\ j.poll = job.poll
  BY <1>1, <1>2 DEF Jobs
<1> HIDE DEF j
<1>6. /\ job' = j /\ crossed' \in BOOLEAN
      /\ ~crossed' => ~crossed \/ j.poll.at \notin {"fetching", "ending"}
  BY <1>1, <1>4, <1>5, Crossing DEF WorkTypes
<1> QED
  BY <1>1, <1>2, <1>3, <1>4, <1>5, <1>6 DEF WorkTypes

LEMMA LoopDownloadedKeeps ==
  ASSUME GenieInv, Genie!LoopDownloaded
  PROVE  GenieInv' /\ Steady
<1>1. /\ GenieTypes /\ OnceFile /\ Keeping /\ Newest /\ genie \in GenieMowers /\ budget \in Genie!Counts
      /\ pending \in [any : BOOLEAN, time : Genie!Times] /\ CoordinatorTypes /\ turn \in Turns
      /\ known \in Knowns /\ session \in Sessions /\ Genie!NoSession \in Sessions
      /\ job.loop.got \in Genie!Paths /\ job.loop.time \in Genie!Times
  BY Constant, JobShape DEF GenieInv, GenieTypes, CloudTypes, WorkTypes, CoordinatorTypes, LoopJobs
<1>2. /\ job.loop.at = "fetching" /\ Genie!LoopSleeps
      /\ UNCHANGED <<genie, file, pending, pollOut, budget>>
  BY DEF Genie!LoopDownloaded
<1>3. /\ job' \in Jobs /\ job'.poll = job.poll /\ job'.loop.at = "due" /\ job'.loop.got = Genie!Unread
      /\ turn' = Genie!NoTurn /\ WorkTypes' /\ Genie!Unread <= file
      /\ ~crossed' => ~crossed \/ job.poll.at \notin {"fetching", "ending"}
  BY <1>2, LoopRests
<1>4. CASE ~turn.current /\ Genie!coordinator' = Genie!coordinator
  <2>1. CoordinatorTypes'
    BY <1>1, <1>4 DEF CoordinatorTypes, Genie!coordinator
  <2>2. GenieTypes' /\ OnceFile'
    BY <1>1, <1>2, <1>3, <1>4, <2>1, Untouched DEF OnceFile, Genie!coordinator
  <2>3. Keeping' /\ Newest' /\ Steady
    BY <1>1, <1>3, <1>4, InvNumbers DEF Keeping, Newest, Steady, Genie!HasPayload, Genie!coordinator
  <2> QED
    BY <2>2, <2>3 DEF GenieInv
<1>5. CASE /\ turn.current
           /\ definition' = job.loop.got /\ path' = job.loop.got
           /\ lastTime' = job.loop.time /\ failed' = FALSE
           /\ known' = [known EXCEPT !.time = IF job.loop.time # Genie!None THEN job.loop.time ELSE @]
           /\ session' = IF turn.waiting THEN Genie!NoSession ELSE session
  <2>1. known' \in Knowns
    BY <1>1, <1>5 DEF Knowns
  <2>2. session' \in Sessions /\ ~session'.waiting /\ session'.visible \in {Genie!Unread, session.visible}
    <3>1. session.waiting => turn.waiting
      BY <1>1, <1>2, <1>5 DEF Keeping
    <3> QED
      BY <1>1, <1>5, <3>1 DEF Genie!NoSession, Sessions
  <2>3. CoordinatorTypes'
    BY <1>1, <1>5, <2>1, <2>2 DEF CoordinatorTypes
  <2>4. GenieTypes' /\ OnceFile'
    BY <1>1, <1>2, <1>3, <1>5, <2>2, <2>3, Untouched DEF OnceFile
  <2>5. Keeping'
    BY <1>3, <2>2 DEF Keeping
  <2>6. path' = job.loop.got /\ path' \in Int /\ definition' = path'
    BY <1>1, <1>5, InvNumbers
  <2>7. Newest'
    BY <1>1, <1>2, <1>3, <2>6 DEF Newest
  <2>8. Steady
    BY <1>1, <1>2, <2>2, <2>6, InvNumbers DEF Newest, Steady
  <2> QED
    BY <2>4, <2>5, <2>7, <2>8 DEF GenieInv
<1> QED
  BY <1>4, <1>5 DEF Genie!LoopDownloaded

LEMMA LoopFailsKeeps ==
  ASSUME GenieInv, Genie!LoopFails
  PROVE  GenieInv' /\ Steady
<1>1. /\ GenieTypes /\ OnceFile /\ Keeping /\ Newest /\ genie \in GenieMowers /\ budget \in Genie!Counts
      /\ pending \in [any : BOOLEAN, time : Genie!Times] /\ CoordinatorTypes
      /\ known \in Knowns /\ session \in Sessions /\ path \in Genie!Paths /\ GenieLimits
  BY DEF GenieInv, GenieTypes, CloudTypes, WorkTypes, CoordinatorTypes
<1>2. /\ job.loop.at = "fetching" /\ Genie!LoopSleeps /\ Genie!Fault
      /\ UNCHANGED <<genie, file, pending, pollOut>>
  BY DEF Genie!LoopFails
<1>3. /\ job' \in Jobs /\ job'.poll = job.poll /\ job'.loop.at = "due" /\ job'.loop.got = Genie!Unread
      /\ turn' = Genie!NoTurn /\ WorkTypes' /\ Genie!Unread <= file
      /\ ~crossed' => ~crossed \/ job.poll.at \notin {"fetching", "ending"}
  BY <1>2, LoopRests
<1>4. budget' \in Genie!Counts /\ budget'.again = budget.again
  BY <1>1, <1>2, Spent DEF Genie!Fault
<1>5. CASE path' = path /\ definition' = definition /\ session' = session /\ known' = known
           /\ lastTime' = lastTime /\ failed' \in BOOLEAN
  <2>1. CoordinatorTypes'
    BY <1>1, <1>5 DEF CoordinatorTypes
  <2>2. GenieTypes' /\ OnceFile'
    BY <1>1, <1>2, <1>3, <1>4, <1>5, <2>1, Untouched DEF OnceFile
  <2>3. Keeping' /\ Newest' /\ Steady
    BY <1>1, <1>3, <1>5, InvNumbers DEF Keeping, Newest, Steady, Genie!HasPayload
  <2> QED
    BY <2>2, <2>3 DEF GenieInv
<1>6. CASE Genie!AcceptAndPublish([time |-> known.time, out |-> known.out, path |-> path])
           /\ failed' = TRUE
  <2> DEFINE state == [time |-> known.time, out |-> known.out, path |-> path]
  <2>1. state \in [time : Genie!Times, out : BOOLEAN, path : Genie!Paths] /\ state.path = path
    BY <1>1 DEF Knowns
  <2> HIDE DEF state
  <2>2. /\ known' \in Knowns /\ path' \in Genie!Paths /\ definition' \in Genie!Paths /\ lastTime' \in Genie!Times
        /\ session' \in Sessions
        /\ \/ /\ session.waiting /\ session' = session
              /\ path' = session.visible /\ definition' = session.visible
           \/ /\ ~session'.waiting /\ session' \in {session, Genie!NoSession} /\ path' = path
              /\ definition' = definition \/ definition' = path
    BY <1>1, <1>6, <2>1, Published DEF state
  <2>3. CoordinatorTypes'
    BY <1>6, <2>2 DEF CoordinatorTypes
  <2>4. session'.visible \in {session.visible, Genie!Unread}
    BY <2>2 DEF Genie!NoSession
  <2>5. GenieTypes' /\ OnceFile'
    BY <1>1, <1>2, <1>3, <1>4, <2>2, <2>3, <2>4, Untouched DEF OnceFile
  <2>6. Keeping'
    BY <1>1, <1>3, <2>2 DEF Keeping
  <2>7. Newest'
    BY <1>1, <1>2, <1>3, <2>2, InvNumbers DEF Newest
  <2>8. Steady
    BY <1>1, <2>2, InvNumbers DEF Keeping, Steady
  <2> QED
    BY <2>5, <2>6, <2>7, <2>8 DEF GenieInv
<1> QED
  BY <1>1, <1>5, <1>6 DEF Genie!LoopFails, Genie!coordinator, CoordinatorTypes

-----------------------------------------------------------------------------
(* The poll.                                                               *)

LEMMA PollMoves ==
  ASSUME GenieInv, NEW p \in PollJobs, Genie!Works([job EXCEPT !.poll = p]), p.got <= file,
         turn' = turn, Genie!coordinator' = Genie!coordinator, pollOut' \in BOOLEAN,
         p.at = "fetching" => p.got = file,
         job.poll.at = "none", p.at # "none"
  PROVE  /\ WorkTypes' /\ CoordinatorTypes' /\ Keeping' /\ Newest' /\ Steady
         /\ job'.poll.got <= file /\ job'.loop = job.loop
<1> DEFINE j == [job EXCEPT !.poll = p]
<1>1. /\ GenieTypes /\ OnceFile /\ Keeping /\ Newest /\ CoordinatorTypes /\ WorkTypes /\ job \in Jobs
  BY DEF GenieInv, GenieTypes, WorkTypes
<1>2. j \in Jobs /\ j.poll = p /\ j.loop = job.loop
  BY <1>1 DEF Jobs
<1> HIDE DEF j
<1>3. /\ job' = j /\ crossed' \in BOOLEAN
      /\ j.loop.at = "fetching" /\ j.poll.at = "fetching" => crossed'
      /\ ~crossed' => \/ ~crossed
                      \/ j.loop.at # "fetching" /\ j.poll.at \notin {"fetching", "ending"}
  BY <1>1, <1>2, Crossing DEF WorkTypes, j
<1>4. WorkTypes' /\ CoordinatorTypes'
  BY <1>1, <1>2, <1>3 DEF WorkTypes, CoordinatorTypes, Genie!coordinator
<1>5. Keeping' /\ Steady
  BY <1>1, <1>2, <1>3, InvNumbers DEF Keeping, Steady, Genie!HasPayload, Genie!coordinator
<1>6. Newest'
  BY <1>1, <1>2, <1>3, InvNumbers DEF Newest, OnceFile, Genie!coordinator
<1> QED
  BY <1>2, <1>3, <1>4, <1>5, <1>6

LEMMA PollStartsKeeps ==
  ASSUME GenieInv, Genie!PollStarts
  PROVE  GenieInv' /\ Steady
<1> DEFINE time == known.time
           ending == [job.poll EXCEPT !.at = "ending", !.time = time]
           awaiting == [job.poll EXCEPT !.at = "awaiting", !.time = time]
<1>1. /\ GenieTypes /\ OnceFile /\ genie \in GenieMowers /\ budget \in Genie!Counts
      /\ pending \in [any : BOOLEAN, time : Genie!Times] /\ CoordinatorTypes /\ WorkTypes
      /\ job \in Jobs /\ time \in Genie!Times /\ known.out \in BOOLEAN /\ job.poll.got <= file
  BY DEF GenieInv, GenieTypes, CloudTypes, WorkTypes, CoordinatorTypes, Knowns, OnceFile
<1>2. /\ ending \in PollJobs /\ ending.got = job.poll.got /\ ending.at = "ending"
      /\ awaiting \in PollJobs /\ awaiting.got = job.poll.got /\ awaiting.at = "awaiting"
  BY <1>1, JobShape DEF PollJobs
<1>3. /\ Genie!Fetching(time) \in PollJobs /\ Genie!Fetching(time).got = file /\ Genie!Fetching(time).at = "fetching"
      /\ file <= file
  BY <1>1, FileIsNew
<1>4. /\ job.poll.at = "none" /\ pollOut' = known.out
      /\ UNCHANGED <<file, pending, Genie!coordinator, turn>>
      /\ (\E x : Genie!Asks(x)) \/ Genie!AsksNot
      /\ \/ Genie!Works([job EXCEPT !.poll.at = "ending", !.poll.time = time])
         \/ Genie!Works([job EXCEPT !.poll.at = "awaiting", !.poll.time = time])
         \/ Genie!Works([job EXCEPT !.poll = Genie!Fetching(time)])
      /\ \/ Genie!Spend("poll")
         \/ /\ budget.poll > 0 /\ budget.fault > 0
            /\ budget' = [budget EXCEPT !.poll = @ - 1, !.fault = @ - 1]
  BY DEF Genie!PollStarts
<1>5. /\ [job EXCEPT !.poll.at = "ending", !.poll.time = time] = [job EXCEPT !.poll = ending]
      /\ [job EXCEPT !.poll.at = "awaiting", !.poll.time = time] = [job EXCEPT !.poll = awaiting]
  BY <1>1 DEF Jobs
<1> HIDE DEF time, ending, awaiting
<1>6. genie' \in GenieMowers /\ genie'.path = genie.path /\ genie'.time = genie.time
  BY <1>1, <1>4, AskedTypes
<1>7. budget' \in Genie!Counts /\ budget'.again = budget.again
  <2>1. CASE Genie!Spend("poll")
    BY <1>1, <2>1, Spent
  <2>2. CASE /\ budget.poll > 0 /\ budget.fault > 0
             /\ budget' = [budget EXCEPT !.poll = @ - 1, !.fault = @ - 1]
    <3>1. budget.poll - 1 \in Nat /\ budget.fault - 1 \in Nat
      BY <1>1, <2>2 DEF Genie!Counts
    <3> QED
      BY <1>1, <2>2, <3>1 DEF Genie!Counts
  <2> QED
    BY <1>4, <2>1, <2>2
<1>8. /\ WorkTypes' /\ CoordinatorTypes' /\ Keeping' /\ Newest' /\ Steady
      /\ job'.poll.got <= file /\ job'.loop = job.loop
  <2>1. PICK p \in {ending, awaiting, Genie!Fetching(time)} : Genie!Works([job EXCEPT !.poll = p])
    BY <1>4, <1>5
  <2>2. p \in PollJobs /\ p.got <= file /\ (p.at = "fetching" => p.got = file) /\ p.at # "none"
    BY <1>1, <1>2, <1>3, <2>1
  <2>3. /\ turn' = turn /\ Genie!coordinator' = Genie!coordinator /\ pollOut' \in BOOLEAN /\ job.poll.at = "none"
    BY <1>1, <1>4
  <2> QED
    BY <2>1, <2>2, <2>3, PollMoves
<1>9. GenieTypes' /\ OnceFile'
  BY <1>1, <1>4, <1>6, <1>7, <1>8, Untouched DEF OnceFile, Genie!coordinator
<1> QED
  BY <1>8, <1>9 DEF GenieInv

LEMMA PollAwaitedKeeps ==
  ASSUME GenieInv, Genie!PollAwaited
  PROVE  GenieInv' /\ Steady
<1> DEFINE p == Genie!Fetching(known.time)
           j == [job EXCEPT !.poll = p]
<1>1. /\ GenieTypes /\ OnceFile /\ Keeping /\ Newest /\ genie \in GenieMowers /\ budget \in Genie!Counts
      /\ pending \in [any : BOOLEAN, time : Genie!Times] /\ CoordinatorTypes /\ WorkTypes
      /\ job \in Jobs /\ known.time \in Genie!Times /\ known.out \in BOOLEAN
  BY DEF GenieInv, GenieTypes, CloudTypes, WorkTypes, CoordinatorTypes, Knowns
<1>2. p \in PollJobs /\ p.got = file /\ p.at = "fetching" /\ file <= file
  BY <1>1, FileIsNew
<1>3. /\ job.poll.at = "awaiting" /\ Genie!Works(j) /\ pollOut' = known.out
      /\ UNCHANGED <<genie, file, pending, Genie!coordinator, turn, budget>>
  BY DEF Genie!PollAwaited
<1> HIDE DEF p
<1>4. j \in Jobs /\ j.poll = p /\ j.loop = job.loop
  BY <1>1, <1>2 DEF Jobs
<1> HIDE DEF j
<1>5. /\ job' = j /\ crossed' \in BOOLEAN
      /\ j.loop.at = "fetching" /\ j.poll.at = "fetching" => crossed'
      /\ ~crossed' => \/ ~crossed
                      \/ j.loop.at # "fetching" /\ j.poll.at \notin {"fetching", "ending"}
  BY <1>1, <1>3, <1>4, Crossing DEF WorkTypes
<1>6. WorkTypes' /\ CoordinatorTypes'
  BY <1>1, <1>3, <1>4, <1>5 DEF WorkTypes, CoordinatorTypes, Genie!coordinator
<1>7. GenieTypes' /\ OnceFile'
  BY <1>1, <1>2, <1>3, <1>4, <1>5, <1>6, Untouched DEF OnceFile, Genie!coordinator
<1>8. Keeping' /\ Steady
  BY <1>1, <1>3, <1>4, <1>5, InvNumbers DEF Keeping, Steady, Genie!HasPayload, Genie!coordinator
<1>9. Newest'
  BY <1>1, <1>2, <1>3, <1>4, <1>5, InvNumbers DEF Newest, OnceFile, Genie!coordinator
<1> QED
  BY <1>7, <1>8, <1>9 DEF GenieInv

LEMMA PollAnsweredKeeps ==
  ASSUME GenieInv, Genie!PollDownloaded \/ Genie!PollFails
  PROVE  GenieInv' /\ Steady
<1> DEFINE p == [job.poll EXCEPT !.at = "ending", !.got = Genie!Unread]
           j == [job EXCEPT !.poll.at = "ending", !.poll.got = Genie!Unread]
<1>1. /\ GenieTypes /\ OnceFile /\ Keeping /\ Newest /\ genie \in GenieMowers /\ budget \in Genie!Counts
      /\ pending \in [any : BOOLEAN, time : Genie!Times] /\ CoordinatorTypes /\ WorkTypes
      /\ job \in Jobs /\ Genie!Unread \in Genie!Paths /\ Genie!Empty \in Genie!Paths /\ definition \in Genie!Paths
      /\ file \in 1 .. MaxPaths
  BY PathNumbers DEF GenieInv, GenieTypes, CloudTypes, WorkTypes, CoordinatorTypes
<1>2. p \in PollJobs /\ p.at = "ending" /\ p.got = Genie!Unread
  BY <1>1, JobShape DEF PollJobs
<1>3. /\ job.poll.at = "fetching" /\ Genie!Works(j) /\ lastTime' = job.poll.time /\ failed' \in BOOLEAN
      /\ UNCHANGED <<genie, file, pending, known, path, session, turn, pollOut>>
      /\ budget' = budget \/ Genie!Fault
      /\ \/ definition' = job.poll.got
         \/ definition' = definition
         \/ definition = Genie!Unread /\ definition' = Genie!Empty
  BY DEF Genie!PollDownloaded, Genie!PollFails
<1>4. j = [job EXCEPT !.poll = p]
  BY <1>1 DEF Jobs
<1> HIDE DEF p
<1>5. j \in Jobs /\ j.poll = p /\ j.loop = job.loop
  BY <1>1, <1>2, <1>4 DEF Jobs
<1> HIDE DEF j
<1>6. /\ job' = j /\ crossed' \in BOOLEAN
      /\ ~crossed' => ~crossed
  BY <1>1, <1>2, <1>3, <1>5, Crossing DEF WorkTypes
<1>7. job.poll.got \in Genie!Paths /\ job.poll.time \in Genie!Times
  BY JobShape, <1>1 DEF PollJobs
<1>8. definition' \in Genie!Paths /\ definition' <= file
  BY <1>1, <1>3, <1>7 DEF OnceFile, Genie!Empty
<1>9. WorkTypes' /\ CoordinatorTypes'
  BY <1>1, <1>3, <1>5, <1>6, <1>7, <1>8 DEF WorkTypes, CoordinatorTypes
<1>10. budget' \in Genie!Counts /\ budget'.again = budget.again
  BY <1>1, <1>3, Spent DEF Genie!Fault
<1>11. Genie!Unread <= file
  BY <1>1 DEF Genie!Unread
<1>12. GenieTypes' /\ OnceFile'
  BY <1>1, <1>2, <1>3, <1>5, <1>6, <1>8, <1>9, <1>10, <1>11, Untouched DEF OnceFile
<1>13. Keeping' /\ Steady
  BY <1>1, <1>3, <1>5, <1>6, InvNumbers DEF Keeping, Steady, Genie!HasPayload
<1>14. Newest'
  <2>1. path \in Int /\ definition \in Int /\ path = definition
    BY <1>1, <1>3, InvNumbers DEF Newest
  <2>2. ~crossed => job.loop.at # "fetching" /\ path <= definition'
    BY <1>1, <1>3, <2>1 DEF Newest, Genie!Unread, Genie!Empty
  <2> QED
    BY <1>2, <1>3, <1>5, <1>6, <2>2 DEF Newest
<1> QED
  BY <1>12, <1>13, <1>14 DEF GenieInv

LEMMA PollEndsKeeps ==
  ASSUME GenieInv, Genie!PollEnds
  PROVE  GenieInv' /\ Steady
<1> DEFINE done == [job EXCEPT !.poll = Genie!Idle]
           j == IF pollOut THEN Genie!Ensured(done) ELSE done
           state == [time |-> job.poll.time, out |-> pollOut, path |-> definition]
<1>1. /\ GenieTypes /\ OnceFile /\ Keeping /\ Newest /\ genie \in GenieMowers /\ budget \in Genie!Counts
      /\ pending \in [any : BOOLEAN, time : Genie!Times] /\ CoordinatorTypes /\ WorkTypes
      /\ job \in Jobs /\ definition \in Genie!Paths /\ job.poll.time \in Genie!Times /\ pollOut \in BOOLEAN
      /\ GenieLimits /\ session \in Sessions
  BY JobShape DEF GenieInv, GenieTypes, CloudTypes, WorkTypes, CoordinatorTypes, PollJobs
<1>2. Genie!Idle \in PollJobs /\ Genie!Idle.at = "none" /\ Genie!Idle.got = Genie!Unread
  BY <1>1, Constant DEF Genie!Idle
<1>3. /\ job.poll.at = "ending" /\ Genie!AcceptAndPublish(state) /\ Genie!Works(j) /\ pollOut' = FALSE
      /\ UNCHANGED <<genie, file, pending, failed, turn, budget>>
  BY DEF Genie!PollEnds
<1>4. done \in Jobs /\ done.poll = Genie!Idle /\ done.loop = job.loop
  BY <1>1, <1>2 DEF Jobs
<1> HIDE DEF done
<1>5. /\ j \in Jobs /\ j.poll = Genie!Idle /\ j.loop.got = job.loop.got
      /\ j.loop.at = job.loop.at \/ j.loop.at = "due"
  BY <1>4 DEF Genie!Ensured, Jobs, LoopJobs
<1> HIDE DEF j
<1>6. /\ job' = j /\ crossed' \in BOOLEAN
      /\ ~crossed' => ~crossed \/ j.loop.at # "fetching"
  BY <1>1, <1>3, <1>5, Crossing DEF WorkTypes
<1>7. state \in [time : Genie!Times, out : BOOLEAN, path : Genie!Paths] /\ state.path = definition
  BY <1>1
<1> HIDE DEF state
<1>8. /\ known' \in Knowns /\ path' \in Genie!Paths /\ definition' \in Genie!Paths /\ lastTime' \in Genie!Times
      /\ session' \in Sessions
      /\ \/ /\ session.waiting /\ session' = session
            /\ path' = session.visible /\ definition' = session.visible
         \/ /\ ~session'.waiting /\ session' \in {session, Genie!NoSession} /\ path' = definition
            /\ definition' = definition
  BY <1>1, <1>3, <1>7, Published
<1>9. WorkTypes' /\ CoordinatorTypes'
  BY <1>1, <1>3, <1>5, <1>6, <1>8 DEF WorkTypes, CoordinatorTypes
<1>10. session'.visible \in {session.visible, Genie!Unread} /\ Genie!Unread <= file
  BY <1>1, <1>8, InvNumbers DEF Genie!NoSession, Genie!Unread
<1>11. GenieTypes' /\ OnceFile'
  BY <1>1, <1>2, <1>3, <1>5, <1>6, <1>8, <1>9, <1>10, Untouched DEF OnceFile
<1>12. Keeping'
  <2>1. session'.waiting => session.waiting /\ session' = session /\ path' = session.visible
    BY <1>8
  <2> QED
    BY <1>1, <1>3, <1>5, <1>6, <2>1 DEF Keeping
<1>13. Steady
  <2>1. session.waiting /\ Genie!HasPayload(path) => path = session.visible
    BY <1>1 DEF Keeping
  <2>2. ~crossed => path <= definition
    BY <1>1, <1>3 DEF Newest
  <2> QED
    BY <1>1, <1>8, <2>1, <2>2, InvNumbers DEF Steady
<1>14. Newest'
  <2>1. path' = definition' /\ path' \in {definition, session.visible}
    BY <1>8
  <2>2. ~crossed' /\ j.loop.at = "fetching" => path' <= j.loop.got
    <3>1. ~crossed' /\ j.loop.at = "fetching"
          => definition <= job.loop.got /\ session.visible <= job.loop.got
      BY <1>1, <1>5, <1>6 DEF Newest
    <3> QED
      BY <1>5, <2>1, <3>1
  <2>3. ~crossed' /\ j.loop.at = "fetching" => session'.visible <= j.loop.got
    <3>1. ~crossed' /\ j.loop.at = "fetching"
          => session.visible <= job.loop.got /\ job.loop.at = "fetching"
      BY <1>1, <1>5, <1>6 DEF Newest
    <3>2. session'.visible = session.visible \/ session'.visible = Genie!Unread
      BY <1>10
    <3>3. job.loop.got \in Int /\ Genie!Unread <= job.loop.got
      BY <1>1, JobShape DEF LoopJobs, Genie!Paths, Genie!Unread
    <3> QED
      BY <1>5, <3>1, <3>2, <3>3
  <2> QED
    BY <1>2, <1>5, <1>6, <2>1, <2>2, <2>3 DEF Newest
<1> QED
  BY <1>11, <1>12, <1>13, <1>14 DEF GenieInv

-----------------------------------------------------------------------------
(* Where behaviours begin.                                                 *)
LEMMA InitGenie ==
  ASSUME Genie!PathBounds, Genie!Init
  PROVE  GenieInv
<1>1. PICK s \in PathStarts :
        /\ genie = [path |-> 1, out |-> s.out, asked |-> FALSE, time |-> 1]
        /\ known = IF s.restarted THEN [time |-> Genie!None, out |-> FALSE] ELSE [time |-> 1, out |-> s.out]
        /\ path = IF s.restarted THEN Genie!Unread ELSE 1
        /\ budget = s.count
  BY DEF Genie!Init
<1>2. /\ s.out \in BOOLEAN /\ s.restarted \in BOOLEAN /\ budget \in Genie!Counts
      /\ budget.again + MaxPaths <= MaxTimes /\ budget.again \in Nat
  BY <1>1 DEF Genie!PathBounds, Genie!Counts
<1>3. GenieLimits /\ MaxPaths \in Nat /\ MaxPaths >= 1 /\ MaxTimes \in Nat
  BY DEF GenieLimits, Genie!PathBounds
<1>4. 1 \in Genie!Times /\ Genie!None \in Genie!Times /\ 1 \in 1 .. MaxPaths /\ 1 \in Genie!Paths /\ Genie!Unread \in Genie!Paths
  BY <1>2, <1>3 DEF Genie!Times, Genie!None, Genie!Paths, Genie!Unread
<1>5. /\ file = genie.path /\ definition = path /\ lastTime = known.time /\ pending = Genie!Flushed
      /\ failed = FALSE /\ session = Genie!NoSession /\ job = [w \in Genie!Who |-> Genie!Idle] /\ turn = Genie!NoTurn
      /\ pollOut = FALSE /\ crossed = FALSE
  BY DEF Genie!Init
<1>6. /\ genie \in GenieMowers /\ genie.path = 1 /\ genie.time = 1 /\ known \in Knowns
      /\ path \in {Genie!Unread, 1} /\ known.time \in Genie!Times
  BY <1>1, <1>2, <1>4 DEF GenieMowers, Knowns
<1>7. job = [loop |-> Genie!Idle, poll |-> Genie!Idle]
  BY <1>5 DEF Genie!Who
<1>8. job \in Jobs /\ job.loop = Genie!Idle /\ job.poll = Genie!Idle
  BY <1>3, <1>7, Constant DEF Jobs
<1>9. GenieTypes
  BY <1>2, <1>3, <1>4, <1>5, <1>6, <1>8, Constant DEF GenieTypes, CloudTypes,
     CoordinatorTypes, WorkTypes
<1>10. OnceFile
  BY <1>2, <1>3, <1>5, <1>6, <1>8 DEF OnceFile, Genie!NoSession, Genie!Idle, Genie!Unread
<1>11. Keeping /\ Newest
  BY <1>5, <1>8 DEF Keeping, Newest, Genie!NoSession, Genie!Idle
<1> QED
  BY <1>9, <1>10, <1>11 DEF GenieInv

LEMMA StepGenie ==
  ASSUME GenieInv, Genie!Next
  PROVE  GenieInv' /\ Steady
BY CloudKeeps, ShadowKeeps, RememberKeeps, LoopTurnsKeeps, LoopAwaitedKeeps, LoopDownloadedKeeps,
   LoopFailsKeeps, PollStartsKeeps, PollAwaitedKeeps, PollAnsweredKeeps,
   PollEndsKeeps DEF Genie!Next

LEMMA StutterGenie ==
  ASSUME GenieInv, UNCHANGED Genie!vars
  PROVE  GenieInv'
BY DEF Genie!vars, Genie!coordinator, Genie!work, GenieInv, GenieTypes, GenieLimits,
   CloudTypes, CoordinatorTypes,
   WorkTypes, OnceFile, Keeping, Newest, Genie!HasPayload

(* What the invariant says of the types.                                    *)
LEMMA GenieSays ==
  ASSUME GenieInv
  PROVE  Genie!TypeOK
<1>1. /\ CloudTypes /\ CoordinatorTypes /\ WorkTypes /\ GenieLimits /\ job.loop \in LoopJobs
      /\ job.poll \in PollJobs /\ file \in Genie!Paths
  BY JobShape, InvNumbers DEF GenieInv, GenieTypes
<1> QED
  BY <1>1 DEF Genie!TypeOK, CloudTypes, CoordinatorTypes, WorkTypes, GenieMowers, Knowns,
     Sessions, LoopJobs, PollJobs, Turns

(* The types of the path's refresh; there are path_times for all uploads.   *)
THEOREM GenieTypeCorrect == Genie!Spec => []Genie!TypeOK
<1>1. Genie!Init => GenieInv
  BY TaskPartsAssumption, InitGenie
<1>2. GenieInv /\ [Genie!Next]_(Genie!vars) => GenieInv'
  BY StepGenie, StutterGenie
<1>3. GenieInv => Genie!TypeOK
  BY GenieSays
<1> QED
  BY <1>1, <1>2, <1>3, PTL DEF Genie!Spec

(* While a task that was started waits for its path, what was shown stays, and *)
(* the path does not go back, unless the loop and the poll downloaded at the   *)
(* same time (NoFlash).                                                       *)
THEOREM PathIsSteady == Genie!Spec => NoFlash
<1>1. Genie!Init => GenieInv
  BY TaskPartsAssumption, InitGenie
<1>2. GenieInv /\ [Genie!Next]_(Genie!vars) => GenieInv'
  BY StepGenie, StutterGenie
<1>3. GenieInv /\ [Genie!Next]_(Genie!vars) => [Steady]_(Genie!vars)
  BY StepGenie
<1>4. Genie!Spec => [][Steady]_(Genie!vars)
  BY <1>1, <1>2, <1>3, PTL DEF Genie!Spec
<1> QED
  BY <1>4 DEF NoFlash, Genie!NoFlash, Steady

(***************************************************************************)
(* The parts side by side: what is promised of each holds of all.          *)
(***************************************************************************)

LEMMA EachPart ==
  /\ TasksInit => Init /\ AwakeInv /\ GenieInv
  /\ [TasksNext]_tasksVars =>
        [Next]_vars /\ [Saver!Next]_(Saver!vars) /\ [Genie!Next]_(Genie!vars)
<1>1. TasksInit => Init /\ AwakeInv /\ GenieInv
  BY TaskPartsAssumption, InitAwake, InitGenie DEF TasksInit
<1>2. /\ UNCHANGED saverVars => UNCHANGED Saver!vars
      /\ UNCHANGED pathVars => UNCHANGED Genie!vars
  BY DEF Saver!vars, saverVars, Genie!vars, Genie!coordinator, Genie!work, pathVars
<1>3. ASSUME [TasksNext]_tasksVars
      PROVE  [Next]_vars /\ [Saver!Next]_(Saver!vars) /\ [Genie!Next]_(Genie!vars)
  <2>1. TasksNext \/ (UNCHANGED vars /\ UNCHANGED saverVars /\ UNCHANGED pathVars)
    BY <1>3 DEF tasksVars
  <2>2. /\ Next \/ UNCHANGED vars
        /\ Saver!Next \/ UNCHANGED saverVars
        /\ Genie!Next \/ UNCHANGED pathVars
    BY <2>1 DEF TasksNext
  <2> QED
    BY <1>2, <2>2
<1> QED
  BY <1>1, <1>3

(* The types of the two coordinators' tasks, the saver's and the path's.    *)
THEOREM TypesCorrect == TasksSpec => []TypesOK
<1>1. AwakeInv /\ [Saver!Next]_(Saver!vars) => AwakeInv'
  BY StepAwake
<1>2. GenieInv /\ [Genie!Next]_(Genie!vars) => GenieInv'
  BY StepGenie, StutterGenie
<1>3. AwakeInv /\ GenieInv => TypesOK
  BY PowerSays, GenieSays DEF AwakeInv, TypesOK
<1> QED
  BY EachPart, <1>1, <1>2, <1>3, PTL DEF TasksSpec

(* In the system whose parts run side by side, a card shows the mower's map *)
(* and no old pose of a mower that moves; a mower is pulsed in time and a   *)
(* charger whose saver is off has power; the path does not flash.           *)
THEOREM PartsStand ==
  TasksSpec => /\ []MapIsShown /\ []OldPoseShownStanding
               /\ []KeptAwake /\ []PoweredWhenDisabled /\ NoFlash
<1>1. TasksSpec => Spec
  BY EachPart, PTL DEF TasksSpec, Spec
<1>2. AwakeInv /\ [Saver!Next]_(Saver!vars) => AwakeInv'
  BY StepAwake
<1>3. AwakeInv => KeptAwake /\ PoweredWhenDisabled
  BY AwakeSays, PowerSays DEF AwakeInv
<1>4. GenieInv /\ [Genie!Next]_(Genie!vars) => GenieInv' /\ [Steady]_(Genie!vars)
  BY StepGenie, StutterGenie
<1>5. TasksSpec => [][Steady]_(Genie!vars)
  BY EachPart, <1>4, PTL DEF TasksSpec
<1>6. TasksSpec => NoFlash
  BY <1>5 DEF NoFlash, Genie!NoFlash, Steady
<1> QED
  BY EachPart, <1>1, <1>2, <1>3, <1>6, MapShown, OldPoseStands, PTL DEF TasksSpec
=============================================================================
