---------------------------- MODULE LivePosition ----------------------------
(* The position of the mower on the live map: live_map_hardening.py as         *)
(* extended by live_map_stationary_position.py.                                *)
(*                                                                             *)
(* Poses come without a time.  The hub notes when it first sees a new pose,    *)
(* and for which map; what a card is told about the position (its status, the  *)
(* last known pose, the pose at the dock) follows from these notes and their   *)
(* age.  Two ways lead to a card: send_current_delta, called by the            *)
(* coordinator's listener and by a heartbeat, adds these attributes to the     *)
(* delta when they changed; _async_send_current_delta, which follows a         *)
(* snapshot, sends the delta alone.                                            *)
(*                                                                             *)
(* Frames are applied as they are sent and one card is open at a time:         *)
(* LiveMapStream models the transport and the sharing of snapshots.            *)
EXTENDS Naturals

CONSTANTS
  Poses, Maps,  \* what the mower reports, numbered from 1
  Plausible,    \* map -> the poses that lie in its bounds and their margin
  Coarse,       \* map -> what a LiveMapCursor compares of it
  \* POSITION_MAX_AGE_SECONDS, LAST_POSITION_... and DOCK_POSITION_..., in
  \* increasing order
  PositionAge, LastAge, DockAge,
  MaxReports,   \* bound on changes of the reported state
  MaxOpens      \* bound on subscriptions

ASSUME PositionAssumption ==
  /\ Poses \subseteq Nat \ {0} /\ Maps \subseteq Nat \ {0}
  /\ Plausible \in [Maps -> SUBSET Poses]
  /\ {PositionAge, LastAge, DockAge} \subseteq Nat

VARIABLES
  mower,   \* coordinator.reported_state: pose, map and activity
  hub,     \* the notes: _anthbot_pose_token, _geometry_fingerprint, whether
           \* _pose_observed_at is set, _last_known_pose, _known_dock_pose
  due,     \* _position_heartbeat has slept and is about to look
  phase,   \* how far the subscription has come
  built,   \* the state its snapshot is built from
  cursor,  \* what subscriber.cursor compares: pose and map
  told,    \* subscriber._anthbot_hardening_revision and _geometry_fingerprint
  worker,  \* _async_send_current_delta, and the state it has captured
  card,    \* what the card shows: map and pose
  count,   \* reports and subscriptions so far
  looked   \* history: the card was sent a delta with attributes

subscriberVars == <<phase, built, cursor, told, worker, card, looked>>
vars == <<mower, hub, due, subscriberVars, count>>

Activities == {"mowing", "paused", "docked"}
NoState  == [pose |-> 0, map |-> 0]
NoRecord == [pose |-> 0, map |-> 0, at |-> 0, age |-> 0]
NotTold  == [attributes |-> NoRecord, geometry |-> 0]
Idle     == [stage |-> "idle", state |-> NoState]

(***************************************************************************)
(* What the hub notes, and what it tells of it.                            *)
(***************************************************************************)

Valid(s) == s.pose \in Plausible[s.map]

Noted(h, s) ==
  [pose |-> s.pose, map |-> s.map, at |-> h.last.at + 1, age |-> 0]

(* _refresh_hub_observation *)
Observed(h, s) ==
  LET noted  == [h EXCEPT !.observed = TRUE, !.last = Noted(h, s)]
      learnt == IF s.activity = "docked"
                THEN [noted EXCEPT !.dock = Noted(h, s)] ELSE noted
      next   == IF s.pose = h.seen THEN h
                ELSE IF Valid(s) THEN learnt ELSE [h EXCEPT !.observed = FALSE]
  IN  [next EXCEPT !.seen = s.pose, !.map = s.map]

Scoped(record, m, limit) ==
  IF record.map = m /\ record.age <= limit THEN record ELSE NoRecord

Status(h, s) ==
  IF ~Valid(s) \/ ~h.observed     THEN "unavailable"
  ELSE IF h.last.map # h.map      THEN "map_mismatch"
  ELSE IF h.last.age > PositionAge THEN "stale" ELSE "current"

(* Mutant: the last known pose is only for a mower at its dock. *)
StandsAtDock(h, s) ==
  LET dock == Scoped(h.dock, h.map, DockAge)
  IN  CASE s.activity # "docked"                      -> NoRecord
        [] s.activity = "docked" /\ dock # NoRecord -> dock
        [] OTHER -> Scoped(h.last, h.map, LastAge)
(* The record a mower that stands still is shown at. *)
Stands(h, s) ==
  LET dock == Scoped(h.dock, h.map, DockAge)
  IN  CASE s.activity = "mowing"                      -> NoRecord
        [] s.activity = "docked" /\ dock # NoRecord -> dock
        [] OTHER -> Scoped(h.last, h.map, LastAge)

(* _position_attributes.  Two are equal when their _hardening_revision is:   *)
(* `pose' is that of the record the status stands for, or 0 for None.        *)
Attributes(h, s) ==
  LET status == Status(h, s)
      dock   == Scoped(h.dock, h.map, DockAge)
      stands == IF status = "stale" THEN Stands(h, s) ELSE NoRecord
  IN  [status   |-> IF stands = NoRecord THEN status
                    ELSE IF stands = dock /\ s.activity = "docked" THEN "known_dock"
                    ELSE "last_known",
       observed |-> IF h.observed THEN h.last.at ELSE 0,
       map      |-> h.map,
       last     |-> Scoped(h.last, h.map, LastAge).at,
       dock     |-> dock.at,
       pose     |-> stands.pose]

(* What a card shows after the attributes; "current" leaves the pose alone.  *)
Updated(shown, attributes) ==
  [shown EXCEPT !.pose = IF attributes.status = "current" THEN @ ELSE attributes.pose]

(* What it shows after a delta of build_delta. *)
Advanced(shown, s) ==
  [shown EXCEPT !.pose = IF s.pose # cursor.pose THEN s.pose ELSE @,
                !.map  = IF Coarse[s.map] # Coarse[cursor.map] THEN s.map ELSE @]

CursorOf(s) == [pose |-> s.pose, map |-> s.map]

Init ==
  /\ mower \in [pose : Poses, map : Maps, activity : Activities]
  /\ LET h == [seen |-> mower.pose, map |-> mower.map, observed |-> FALSE,
               last |-> NoRecord, dock |-> NoRecord]
     IN  hub = IF Valid(mower)
               THEN [h EXCEPT !.observed = TRUE, !.last = Noted(h, mower)] ELSE h
  /\ due = FALSE
  /\ phase = "none" /\ built = NoState /\ cursor = NoState /\ told = NotTold
  /\ worker = Idle /\ card = NoState /\ looked = FALSE
  /\ count = [reports |-> 0, opens |-> 0]

(***************************************************************************)
(* The listener and the heartbeat.                                         *)
(***************************************************************************)

(* Mutant: the geometry is left to build_delta. *)
SendCurrentDeltaCoarse(h, s) ==
  LET attributes == Attributes(h, s)
  IN  /\ card' = IF attributes # told.attributes
                 THEN Updated(Advanced(card, s), attributes) ELSE Advanced(card, s)
      /\ told' = [attributes |-> attributes, geometry |-> h.map]
      /\ cursor' = CursorOf(s)
      /\ worker' = IF worker.stage = "building" THEN Idle ELSE worker
      /\ looked' = TRUE

(* send_current_delta; its new cursor makes a delta that is under way stale. *)
SendCurrentDelta(h, s) ==
  LET attributes == Attributes(h, s)
      advanced   == Advanced(card, s)
  IN  /\ card' = IF [attributes |-> attributes, geometry |-> h.map] = told THEN advanced
                 ELSE [Updated(advanced, attributes) EXCEPT
                         !.map = IF h.map # told.geometry THEN s.map ELSE @]
      /\ told' = [attributes |-> attributes, geometry |-> h.map]
      /\ cursor' = CursorOf(s)
      /\ worker' = IF worker.stage = "building" THEN Idle ELSE worker
      /\ looked' = TRUE

Look(s) ==
  /\ hub' = IF phase = "none" THEN hub ELSE Observed(hub, s)
  /\ IF phase = "ready" THEN SendCurrentDelta(hub', s)
     ELSE UNCHANGED <<card, told, cursor, worker, looked>>
  /\ UNCHANGED <<phase, built>>

(* The coordinator publishes another pose, map or activity, which are each    *)
(* parts of its shadow: handle_coordinator_update.                            *)
Report ==
  /\ count.reports < MaxReports
  /\ \E p \in Poses, m \in Maps, a \in Activities :
       /\ mower' = [pose |-> p, map |-> m, activity |-> a]
       /\ mower' # mower
  /\ Look(mower')
  /\ count' = [count EXCEPT !.reports = @ + 1]
  /\ UNCHANGED due

Older(record) ==
  IF record = NoRecord \/ record.age > DockAge THEN record
  ELSE [record EXCEPT !.age = @ + 1]

(* Time passes: the heartbeat looks every 30 seconds, the ages are compared   *)
(* with longer times, a snapshot or a delta is built in less.                 *)
Time ==
  /\ ~due /\ phase \in {"none", "ready"} /\ worker = Idle
  /\ due' = TRUE
  /\ hub' = [hub EXCEPT !.last = Older(@), !.dock = Older(@)]
  /\ UNCHANGED <<mower, subscriberVars, count>>

Heartbeat ==
  /\ due /\ due' = FALSE
  /\ Look(mower)
  /\ UNCHANGED <<mower, count>>

(***************************************************************************)
(* A subscription.                                                         *)
(***************************************************************************)

(* async_prepare_snapshot, up to the executor. *)
Open ==
  /\ phase = "none" /\ count.opens < MaxOpens
  /\ phase' = "building"
  /\ hub' = Observed(hub, mower)
  /\ built' = mower
  /\ count' = [count EXCEPT !.opens = @ + 1]
  /\ UNCHANGED <<mower, due, cursor, told, worker, card, looked>>

(* The executor is done: the attributes are those of the hub as it is now.   *)
SnapshotIsBuilt ==
  /\ phase = "building" /\ phase' = "built"
  /\ told' = [attributes |-> Attributes(hub, built), geometry |-> built.map]
  /\ UNCHANGED <<mower, hub, due, built, cursor, worker, card, count, looked>>

(* activate_subscriber *)
Activate ==
  /\ phase = "built" /\ phase' = "ready"
  /\ card' = Updated(CursorOf(built), told.attributes)
  /\ cursor' = CursorOf(built)
  /\ built' = NoState
  /\ worker' = [Idle EXCEPT !.stage = "triggered"]
  /\ UNCHANGED <<mower, hub, due, told, count, looked>>

(* _async_send_current_delta, before and after its await. *)
CatchUpStarts ==
  /\ worker.stage = "triggered"
  /\ worker' = [stage |-> "building", state |-> mower]
  /\ UNCHANGED <<mower, hub, due, phase, built, cursor, told, card, count, looked>>

CatchUpEnds ==
  /\ worker.stage = "building"
  /\ card' = Advanced(card, worker.state)
  /\ cursor' = CursorOf(worker.state)
  /\ worker' = Idle
  /\ UNCHANGED <<mower, hub, due, phase, built, told, count, looked>>

Close ==
  /\ phase # "none"
  /\ phase' = "none" /\ built' = NoState /\ cursor' = NoState /\ told' = NotTold
  /\ worker' = Idle /\ card' = NoState /\ looked' = FALSE
  /\ UNCHANGED <<mower, hub, due, count>>

Next ==
  \/ Report \/ Time \/ Heartbeat
  \/ Open \/ SnapshotIsBuilt \/ Activate \/ CatchUpStarts \/ CatchUpEnds \/ Close

Spec == Init /\ [][Next]_vars

(***************************************************************************)
(* Properties.                                                             *)
(***************************************************************************)

States  == [pose : Poses, map : Maps, activity : Activities]
Records == [pose : Poses, map : Maps, at : Nat, age : 0 .. DockAge + 1] \cup {NoRecord}
Told    == [status : {"unavailable", "map_mismatch", "stale", "current",
                      "known_dock", "last_known"},
            observed : Nat, map : Maps, last : Nat, dock : Nat, pose : Poses \cup {0}]

TypeOK ==
  /\ mower \in States
  /\ hub \in [seen : Poses, map : Maps, observed : BOOLEAN, last : Records, dock : Records]
  /\ hub.observed => hub.last # NoRecord
  /\ due \in BOOLEAN /\ looked \in BOOLEAN
  /\ phase \in {"none", "building", "built", "ready"}
  /\ built \in IF phase \in {"building", "built"} THEN States ELSE {NoState}
  /\ cursor \in IF phase = "ready" THEN [pose : Poses, map : Maps] ELSE {NoState}
  /\ told \in IF phase \in {"built", "ready"} THEN [attributes : Told, geometry : Maps]
              ELSE {NotTold}
  /\ worker.stage \in IF phase = "ready" THEN {"idle", "triggered", "building"} ELSE {"idle"}
  /\ worker \in [stage : {"building"}, state : States] \cup [stage : {"idle", "triggered"}, state : {NoState}]
  /\ card \in IF phase = "ready" THEN [pose : Poses \cup {0}, map : Maps] ELSE {NoState}
  /\ looked => phase = "ready"

(* The hub has a time for the pose, on this map. *)
Timed == hub.observed /\ Valid(mower) /\ mower.pose = hub.seen
         /\ hub.last.map = hub.map /\ hub.map = mower.map
(* The listener or the heartbeat has looked since the card was opened, and    *)
(* will not look at once.                                                      *)
Settled == looked /\ ~due

(* A pose older than the limit is shown only of a mower that stands, although  *)
(* no report says that it has become old: at work it is hidden (the heartbeat  *)
(* of live_map_hardening.py), paused or docked it stays where the map knows it *)
(* (live_map_stationary_position.py), also after a change that was taken back. *)
OldPoseShownStanding ==
  Settled /\ Timed /\ hub.last.age > PositionAge =>
    IF mower.activity = "mowing" THEN card.pose = 0
    ELSE hub.last.age <= LastAge => card.pose \in {hub.last.pose, hub.dock.pose} \ {0}

(* A card shows the map of the mower as soon as the hub has looked, although   *)
(* a cursor cannot tell its geometry from the last one: saved while the        *)
(* snapshot was built, while a delta was under way, or later.                  *)
MapIsShown == looked => card.map = mower.map

(***************************************************************************)
(* Inductive invariants, for the proofs.                                   *)
(***************************************************************************)

(* While somebody subscribes, every report has been seen. *)
HubInv == phase # "none" => hub.seen = mower.pose /\ hub.map = mower.map

(* What the card shows is what it was told of the geometry, or else the cursor *)
(* tells the two apart; until the delta that follows the snapshot is applied   *)
(* all three agree, and once somebody has looked they are the mower's.         *)
MapInv ==
  /\ phase = "built" => told.geometry = built.map
  /\ phase = "ready" => \/ card.map = told.geometry
                        \/ Coarse[told.geometry] # Coarse[cursor.map]
  /\ worker.stage # "idle" => cursor.map = told.geometry /\ card.map = told.geometry
  /\ looked => /\ cursor.map = mower.map /\ card.map = mower.map
               /\ told.geometry = mower.map
               /\ worker.stage = "building" => worker.state.map = mower.map

(* The status tells of the pose the hub has a time for, and the pose is old.   *)
TellsOld == /\ told.attributes.status \in {"stale", "last_known", "known_dock"}
            /\ hub.observed /\ told.attributes.observed = hub.last.at

(* A time belongs to one pose: an old time means that the pose has not changed *)
(* since, so the cursor is at it and nothing under way moves the mower.        *)
OldInv ==
  /\ phase = "building" /\ hub.observed /\ hub.last.age > PositionAge
       => built.pose = mower.pose
  /\ phase \in {"built", "ready"} => told.attributes.observed <= hub.last.at
  /\ phase = "built" /\ TellsOld => built.pose = mower.pose
  /\ phase = "ready" /\ TellsOld =>
       /\ cursor.pose = mower.pose /\ card.pose = told.attributes.pose
       /\ worker.stage = "building" => worker.state.pose = mower.pose
  /\ Settled => told.attributes = Attributes(hub, mower)
=============================================================================
