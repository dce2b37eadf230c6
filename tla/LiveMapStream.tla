---------------------------- MODULE LiveMapStream ----------------------------
(***************************************************************************)
(* The live-map WebSocket stream of one mower and one dashboard card.      *)
(*                                                                         *)
(* Server side (live_map_stream.py as patched by live_map_hardening.py):   *)
(* a LiveMapHub listens to the mower's coordinator and sends each ready    *)
(* subscriber a snapshot and then sequence-numbered deltas, each computed  *)
(* from the subscriber's cursor.  Browser side (live-map-stream.js): the   *)
(* card applies the deltas in sequence to what it shows, resubscribes on a *)
(* gap, retries a refused subscription, and gives the subscription up      *)
(* while the Map entity does not advertise the stream.                     *)
(*                                                                         *)
(* What a frame carries is abstracted to a revision of the coordinator's   *)
(* reported state: a delta is the pair of the revision it was computed     *)
(* from and the one it leads to.  LivePath models what a delta of the      *)
(* trajectory contains.                                                    *)
(***************************************************************************)
EXTENDS Integers, Sequences, FiniteSets

CONSTANTS
  Handles,      \* subscribeMessage calls the browser may have outstanding
  NoHandle,     \* the card has no subscription of its own
  MaxRevision,  \* bound on the revisions of the reported state
  Context,      \* revision -> what the snapshot cache compares of it
  MaxReloads,   \* bound on reloads of the config entry
  MaxDrops,     \* bound on losses of the browser's connection
  MaxFaults,    \* bound on failed sends and failed snapshot builds
  MaxDetaches   \* bound on removals of the card from the page

Revision   == 0 .. MaxRevision
NoRevision == -1
Garbled    == -2    \* what no reported state ever looked like
NoSequence == -1

ASSUME BoundsAssumption ==
  /\ MaxRevision \in Nat
  /\ MaxReloads \in Nat
  /\ MaxDrops \in Nat
  /\ MaxFaults \in Nat
  /\ MaxDetaches \in Nat
  /\ NoHandle \notin Handles
  /\ IsFiniteSet(Handles)

VARIABLES
  \* coordinator, hub and config entry
  revision,   \* coordinator.reported_state
  hub,        \* whether hubs[serial] holds an open LiveMapHub
  entity,     \* whether the Map entity advertises live_stream_available
  unloading,  \* platforms are unloaded, remove_hub is still to be called
  cache,      \* hub._anthbot_snapshot_cache
  inflight,   \* the state hub._anthbot_snapshot_inflight is building from
  \* subscribers, by handle
  phase,      \* how far the subscription has come in the hub
  built,      \* the snapshot its request is about to send
  cursor,     \* subscriber.cursor
  sequence,   \* subscriber.sequence
  worker,     \* the subscriber's LatestOnlyCoalescer task
  job,        \* what _async_send_current_delta captured before its await
  sent,       \* history: the revision each sequence number led to
  \* WebSocket connection and its client library
  link,       \* connected or not
  inbox,      \* messages on their way to the browser, by subscription
  command,    \* the command on its way to the server, by subscription
  seenStates, \* Map entity states on their way to the browser
  lib,        \* the client library's record of the subscription
  \* card
  attached,   \* card.isConnected
  available,  \* live_stream_available in the hass object the card has
  current,    \* subscription whose callback passes the generation check
  held,       \* _anthbotLiveUnsubscribe or _anthbotLiveSubscribePromise set
  cardSequence, \* _anthbotLiveSequence
  view,       \* what the overlay and path of the card show
  resync,     \* _anthbotLiveResyncTimer
  retry,      \* _anthbotLiveRetryTimer
  \* bounds
  reloads, drops, faults, detaches

serverVars == <<revision, hub, entity, unloading, cache, inflight>>
subscriberVars == <<phase, built, cursor, sequence, worker, job, sent>>
linkVars == <<link, inbox, command, seenStates, lib>>
cardVars == <<attached, available, current, held, cardSequence, view, resync,
              retry>>
boundVars == <<reloads, drops, faults, detaches>>
vars == <<serverVars, subscriberVars, linkVars, cardVars, boundVars>>

Phases  == {"none", "preparing", "waiting", "retrying", "built", "ready",
            "closed"}
Workers == {"idle", "debounce", "building"}
LibStates == {"none", "queued", "sent", "resent", "resolved", "open"}
Commands == {"none", "subscribe", "unsubscribe"}

Frame ==
  [kind: {"snapshot", "delta"}, seq: Nat, base: Revision \cup {NoRevision},
   rev: Revision]
Reply == [kind: {"result", "error"}]
ResultReply == [kind |-> "result"]
ErrorReply == [kind |-> "error"]
Job == [base: Revision, rev: Revision, seq: Nat, valid: BOOLEAN]

NoJob == [base |-> 0, rev |-> 0, seq |-> 0, valid |-> FALSE]
(* Mutant: the snapshot has no sequence number yet. *)
SnapshotFrameUnnumbered(r) ==
  [kind |-> "snapshot", seq |-> NoSequence, base |-> NoRevision, rev |-> r]
SnapshotFrame(r) ==
  [kind |-> "snapshot", seq |-> 0, base |-> NoRevision, rev |-> r]
DeltaFrame(n, from, to) ==
  [kind |-> "delta", seq |-> n, base |-> from, rev |-> to]

FlagTypes ==
  /\ hub \in BOOLEAN /\ entity \in BOOLEAN /\ unloading \in BOOLEAN
  /\ link \in BOOLEAN /\ attached \in BOOLEAN /\ available \in BOOLEAN
  /\ held \in BOOLEAN /\ resync \in BOOLEAN /\ retry \in BOOLEAN
ServerTypes ==
  /\ revision \in Revision
  /\ cache \in Revision \cup {NoRevision}
  /\ inflight \in Revision \cup {NoRevision}
  /\ reloads \in 0 .. MaxReloads /\ drops \in 0 .. MaxDrops
  /\ faults \in 0 .. MaxFaults /\ detaches \in 0 .. MaxDetaches
SubscriberTypes ==
  /\ phase \in [Handles -> Phases]
  /\ built \in [Handles -> Revision]
  /\ cursor \in [Handles -> Revision]
  /\ sequence \in [Handles -> Nat]
  /\ worker \in [Handles -> Workers]
  /\ job \in [Handles -> Job]
  /\ sent \in [Handles -> Seq(Revision)]
LinkTypes ==
  /\ inbox \in [Handles -> Seq(Frame \cup Reply)]
  /\ command \in [Handles -> Commands]
  /\ seenStates \in Seq(BOOLEAN)
  /\ lib \in [Handles -> LibStates]
CardTypes ==
  /\ current \in Handles \cup {NoHandle}
  /\ cardSequence \in Nat \cup {NoSequence}
  /\ view \in Revision \cup {NoRevision, Garbled}
TypeOK ==
  FlagTypes /\ ServerTypes /\ SubscriberTypes /\ LinkTypes /\ CardTypes

(* A loaded entry, an empty page: the card was just added to it. *)
Init ==
  /\ revision = 0 /\ hub = TRUE /\ entity = TRUE /\ unloading = FALSE
  /\ cache = NoRevision /\ inflight = NoRevision
  /\ phase = [h \in Handles |-> "none"]
  /\ built = [h \in Handles |-> 0]
  /\ cursor = [h \in Handles |-> 0]
  /\ sequence = [h \in Handles |-> 0]
  /\ worker = [h \in Handles |-> "idle"]
  /\ job = [h \in Handles |-> NoJob]
  /\ sent = [h \in Handles |-> <<>>]
  /\ link = TRUE
  /\ inbox = [h \in Handles |-> <<>>]
  /\ command = [h \in Handles |-> "none"]
  /\ seenStates = <<TRUE>>
  /\ lib = [h \in Handles |-> "none"]
  /\ attached = TRUE /\ available = FALSE
  /\ current = NoHandle /\ held = FALSE
  /\ cardSequence = NoSequence /\ view = NoRevision
  /\ resync = FALSE /\ retry = FALSE
  /\ reloads = 0 /\ drops = 0 /\ faults = 0 /\ detaches = 0

-----------------------------------------------------------------------------
(* The hub: subscriptions and snapshots. *)

(* _websocket_subscribe_live up to its first await. *)
ServeSubscribe(h) ==
  /\ link /\ command[h] = "subscribe"
  /\ command' = [command EXCEPT ![h] = "none"]
  /\ \/ /\ hub
        /\ phase' = [phase EXCEPT ![h] = "preparing"]
        /\ UNCHANGED inbox
     \/ /\ ~hub
        /\ inbox' = [inbox EXCEPT ![h] = Append(@, ErrorReply)]
        /\ UNCHANGED phase
  /\ UNCHANGED <<serverVars, built, cursor, sequence, worker, job, sent, link,
                 seenStates, lib, cardVars, boundVars>>

(* The unsubscribe callback: the subscriber is popped and closed, and its
   coalescer cancelled. *)
ServeUnsubscribe(h) ==
  /\ link /\ command[h] = "unsubscribe"
  /\ command' = [command EXCEPT ![h] = "none"]
  /\ phase' = [phase EXCEPT ![h] = "none"]
  /\ worker' = [worker EXCEPT ![h] = "idle"]
  /\ job' = [job EXCEPT ![h] = NoJob]
  /\ UNCHANGED <<serverVars, built, cursor, sequence, sent, link, inbox,
                 seenStates, lib, cardVars, boundVars>>

(* Mutant: the catch-up run is not triggered. *)
ActivateWithoutCatchUp(h, r) ==
  /\ phase' = [phase EXCEPT ![h] = "ready"]
  /\ cursor' = [cursor EXCEPT ![h] = r]
  /\ sequence' = [sequence EXCEPT ![h] = 0]
  /\ sent' = [sent EXCEPT ![h] = <<r>>]
  /\ inbox' = [inbox EXCEPT
                 ![h] = @ \o << ResultReply, SnapshotFrame(r) >>]
  /\ UNCHANGED <<worker, job>>

(* Mutant: the cursor is taken when the snapshot is sent, not with it. *)
ActivateWithLateCursor(h, r) ==
  /\ phase' = [phase EXCEPT ![h] = "ready"]
  /\ cursor' = [cursor EXCEPT ![h] = revision]
  /\ sequence' = [sequence EXCEPT ![h] = 0]
  /\ sent' = [sent EXCEPT ![h] = <<r>>]
  /\ inbox' = [inbox EXCEPT
                 ![h] = @ \o << ResultReply, SnapshotFrame(r) >>]
  /\ worker' = [worker EXCEPT ![h] = "debounce"]
  /\ job' = [job EXCEPT ![h] = NoJob]

(* activate_subscriber: the command's result, the snapshot with sequence 0
   and one catch-up run of the coalescer. *)
Activate(h, r) ==
  /\ phase' = [phase EXCEPT ![h] = "ready"]
  /\ cursor' = [cursor EXCEPT ![h] = r]
  /\ sequence' = [sequence EXCEPT ![h] = 0]
  /\ sent' = [sent EXCEPT ![h] = <<r>>]
  /\ inbox' = [inbox EXCEPT
                 ![h] = @ \o << ResultReply, SnapshotFrame(r) >>]
  /\ worker' = [worker EXCEPT ![h] = "debounce"]
  /\ job' = [job EXCEPT ![h] = NoJob]

CacheHit == cache # NoRevision /\ Context[cache] = Context[revision]

(* async_prepare_snapshot answers from the cache, without an await. *)
PrepareFromCache(h) ==
  /\ phase[h] = "preparing" /\ CacheHit
  /\ Activate(h, cache)
  /\ UNCHANGED <<serverVars, built, link, command, seenStates, lib, cardVars,
                 boundVars>>

(* ... starts the build of a snapshot, or joins the running one of the same
   context; the build of another context is awaited before the next try. *)
PrepareByBuilding(h) ==
  /\ phase[h] = "preparing" /\ ~CacheHit
  /\ \/ /\ inflight = NoRevision
        /\ inflight' = revision
        /\ phase' = [phase EXCEPT ![h] = "waiting"]
     \/ /\ inflight # NoRevision /\ Context[inflight] = Context[revision]
        /\ phase' = [phase EXCEPT ![h] = "waiting"]
        /\ UNCHANGED inflight
     \/ /\ inflight # NoRevision /\ Context[inflight] # Context[revision]
        /\ phase' = [phase EXCEPT ![h] = "retrying"]
        /\ UNCHANGED inflight
  /\ UNCHANGED <<revision, hub, entity, unloading, cache, built, cursor,
                 sequence, worker, job, sent, linkVars, cardVars, boundVars>>

(* The awaits on a build end: the requests it was for go on at p, those of
   another context try again. *)
Resumed(p) ==
  [h \in Handles |-> IF phase[h] = "waiting" THEN p
                     ELSE IF phase[h] = "retrying" THEN "preparing"
                     ELSE phase[h]]

(* The executor returns the snapshot. *)
BuildCompletes ==
  /\ inflight # NoRevision
  /\ phase' = Resumed("built")
  /\ built' = [h \in Handles |->
                 IF phase[h] = "waiting" THEN inflight ELSE built[h]]
  /\ inflight' = NoRevision
  /\ UNCHANGED <<revision, hub, entity, unloading, cache, cursor, sequence,
                 worker, job, sent, linkVars, cardVars, boundVars>>

(* The build raises: the requests that joined it answer snapshot_failed. *)
BuildFails ==
  /\ inflight # NoRevision /\ faults < MaxFaults
  /\ phase' = Resumed("none")
  /\ inbox' = [h \in Handles |->
                 IF phase[h] = "waiting"
                 THEN Append(inbox[h], ErrorReply) ELSE inbox[h]]
  /\ inflight' = NoRevision
  /\ faults' = faults + 1
  /\ UNCHANGED <<revision, hub, entity, unloading, cache, built, cursor,
                 sequence, worker, job, sent, link, command, seenStates, lib,
                 cardVars, reloads, drops, detaches>>

(* The request resumes after the shielded await: it stores the entry in the
   cache and activates its subscriber. *)
PrepareResumes(h) ==
  /\ phase[h] = "built"
  /\ cache' = built[h]
  /\ Activate(h, built[h])
  /\ UNCHANGED <<revision, hub, entity, unloading, inflight, built, link,
                 command, seenStates, lib, cardVars, boundVars>>

(* SNAPSHOT_CACHE_SECONDS have passed. *)
CacheExpires ==
  /\ cache # NoRevision
  /\ cache' = NoRevision
  /\ UNCHANGED <<revision, hub, entity, unloading, inflight, subscriberVars,
                 linkVars, cardVars, boundVars>>

-----------------------------------------------------------------------------
(* The hub: deltas. *)

Behind(h, r) == phase[h] = "ready" /\ cursor[h] # r

(* The cursor a delta was being built from is no longer the subscriber's. *)
Overtaken(j) == [base |-> j.base, rev |-> j.rev, seq |-> j.seq, valid |-> FALSE]

(* handle_coordinator_update, and the position heartbeat: every ready
   subscriber gets the delta from its cursor to the state r, or nothing when
   there is no difference.  The cursor object is replaced either way, which a
   delta still being built notices; a send that raises is swallowed after the
   sequence number was taken. *)
SendCurrentDeltas(r, lost) ==
  /\ cursor' = [h \in Handles |-> IF phase[h] = "ready" THEN r ELSE cursor[h]]
  /\ sequence' = [h \in Handles |->
                    IF Behind(h, r) THEN sequence[h] + 1 ELSE sequence[h]]
  /\ sent' = [h \in Handles |->
                IF Behind(h, r) THEN Append(sent[h], r) ELSE sent[h]]
  /\ inbox' = [h \in Handles |->
                 IF Behind(h, r) /\ h \notin lost
                 THEN Append(inbox[h],
                             DeltaFrame(sequence[h] + 1, cursor[h], r))
                 ELSE inbox[h]]
  /\ job' = [h \in Handles |->
               IF phase[h] = "ready" THEN Overtaken(job[h]) ELSE job[h]]

CoordinatorUpdate ==
  /\ hub /\ revision < MaxRevision
  /\ revision' = revision + 1
  /\ \E lost \in SUBSET {h \in Handles : Behind(h, revision + 1)} :
       /\ faults + Cardinality(lost) <= MaxFaults
       /\ faults' = faults + Cardinality(lost)
       /\ SendCurrentDeltas(revision + 1, lost)
  /\ UNCHANGED <<hub, entity, unloading, cache, inflight, phase, built, worker,
                 link, command, seenStates, lib, cardVars, reloads, drops,
                 detaches>>

(* The heartbeat, or an update that changed nothing the stream carries. *)
Heartbeat ==
  /\ hub /\ \E h \in Handles : phase[h] = "ready"
  /\ SendCurrentDeltas(revision, {})
  /\ UNCHANGED <<serverVars, phase, built, worker, link, command, seenStates,
                 lib, cardVars, boundVars>>

(* The coalescer's debounce ends and _async_send_current_delta captures its
   cursor, sequence and state for the executor. *)
DeltaJobStarts(h) ==
  /\ worker[h] = "debounce"
  /\ worker' = [worker EXCEPT ![h] = "building"]
  /\ job' = [job EXCEPT ![h] = [base |-> cursor[h], rev |-> revision,
                                seq |-> sequence[h] + 1, valid |-> TRUE]]
  /\ UNCHANGED <<serverVars, phase, built, cursor, sequence, sent, linkVars,
                 cardVars, boundVars>>

(* Mutant: a delta overtaken by the listener is sent all the same. *)
JobAppliesUnchecked(h) == phase[h] = "ready"

(* subscriber.cursor is still the cursor the delta was built from. *)
JobApplies(h) == phase[h] = "ready" /\ job[h].valid

(* The executor returns the delta, which is dropped when it no longer
   applies. *)
DeltaJobCompletes(h) ==
  /\ worker[h] = "building"
  /\ worker' = [worker EXCEPT ![h] = "idle"]
  /\ job' = [job EXCEPT ![h] = NoJob]
  /\ cursor' = [cursor EXCEPT ![h] = IF JobApplies(h) THEN job[h].rev ELSE @]
  /\ IF JobApplies(h) /\ job[h].rev # job[h].base
     THEN /\ sequence' = [sequence EXCEPT ![h] = job[h].seq]
          /\ sent' = [sent EXCEPT ![h] = Append(@, job[h].rev)]
          /\ inbox' = [inbox EXCEPT ![h] =
               Append(@, DeltaFrame(job[h].seq, job[h].base, job[h].rev))]
     ELSE UNCHANGED <<sequence, sent, inbox>>
  /\ UNCHANGED <<serverVars, phase, built, link, command, seenStates, lib,
                 cardVars, boundVars>>

-----------------------------------------------------------------------------
(* Reload of the config entry. *)

(* Mutant: the state of an unloaded Map entity is not written. *)
WriteEntityOnlyUp(up) ==
  /\ entity' = up
  /\ seenStates' = IF link /\ up THEN Append(seenStates, up) ELSE seenStates

WriteEntity(up) ==
  /\ entity' = up
  /\ seenStates' = IF link THEN Append(seenStates, up) ELSE seenStates

(* The platforms are unloaded: the Map entity becomes unavailable. *)
UnloadPlatforms ==
  /\ hub /\ entity /\ reloads < MaxReloads
  /\ unloading' = TRUE
  /\ reloads' = reloads + 1
  /\ WriteEntity(FALSE)
  /\ UNCHANGED <<revision, hub, cache, inflight, subscriberVars, link, inbox,
                 command, lib, cardVars, drops, faults, detaches>>

(* remove_hub: LiveMapHub.close closes the subscribers without a message; a
   request still preparing its snapshot answers nothing at all. *)
RemoveHub ==
  /\ unloading
  /\ unloading' = FALSE /\ hub' = FALSE
  /\ cache' = NoRevision /\ inflight' = NoRevision
  /\ phase' = [h \in Handles |->
                 IF phase[h] \in {"ready", "closed"} THEN "closed" ELSE "none"]
  /\ worker' = [h \in Handles |-> "idle"]
  /\ job' = [h \in Handles |-> NoJob]
  /\ UNCHANGED <<revision, entity, built, cursor, sequence, sent, linkVars,
                 cardVars, boundVars>>

(* The sensor platform adds the Map entity ... *)
AddEntity ==
  /\ ~entity /\ ~unloading
  /\ WriteEntity(TRUE)
  /\ UNCHANGED <<revision, hub, unloading, cache, inflight, subscriberVars,
                 link, inbox, command, lib, cardVars, boundVars>>

(* ... and the lawn mower platform sets up the hub (async_setup_live_map_stream). *)
InstallHub ==
  /\ ~hub
  /\ hub' = TRUE
  /\ UNCHANGED <<revision, entity, unloading, cache, inflight, subscriberVars,
                 linkVars, cardVars, boundVars>>

-----------------------------------------------------------------------------
(* The browser: connection and client library. *)

(* Promise callbacks run before the next timer, socket or property event. *)
PromisesSettled == \A h \in Handles : lib[h] # "resolved"

(* The connection is lost: Home Assistant unsubscribes everything on it. *)
Drop ==
  /\ link /\ drops < MaxDrops /\ PromisesSettled
  /\ link' = FALSE
  /\ drops' = drops + 1
  /\ phase' = [h \in Handles |-> "none"]
  /\ worker' = [h \in Handles |-> "idle"]
  /\ job' = [h \in Handles |-> NoJob]
  /\ inbox' = [h \in Handles |-> <<>>]
  /\ command' = [h \in Handles |-> "none"]
  /\ seenStates' = <<>>
  /\ UNCHANGED <<serverVars, built, cursor, sequence, sent, lib, cardVars,
                 reloads, faults, detaches>>

(* The library reconnects, sends every subscription it holds again under its
   old callback, and gets the entity's current state. *)
Reconnect ==
  /\ ~link
  /\ link' = TRUE
  /\ command' = [h \in Handles |->
                   IF lib[h] = "none" THEN "none" ELSE "subscribe"]
  /\ lib' = [h \in Handles |-> IF lib[h] = "queued" THEN "sent"
                               ELSE IF lib[h] = "sent" THEN "resent"
                               ELSE lib[h]]
  /\ seenStates' = <<entity>>
  /\ UNCHANGED <<serverVars, subscriberVars, inbox, cardVars, boundVars>>

(* A handle nothing refers to any more may serve the next subscription. *)
Free(h) ==
  /\ lib[h] = "none" /\ phase[h] = "none"
  /\ command[h] = "none" /\ inbox[h] = <<>>

(* subscribeMessage; while disconnected the library queues it. *)
Subscribe(h) ==
  /\ lib' = [lib EXCEPT ![h] = IF link THEN "sent" ELSE "queued"]
  /\ command' = [command EXCEPT ![h] = IF link THEN "subscribe" ELSE "none"]

(* The unsubscribe function of an open subscription. *)
Unsubscribe(h) ==
  /\ lib' = [lib EXCEPT ![h] = "none"]
  /\ command' = [command EXCEPT ![h] = IF link THEN "unsubscribe" ELSE "none"]

-----------------------------------------------------------------------------
(* The card. *)

(* stopLiveSubscription: a subscription that is still pending is given up by
   its own promise callback later. *)
StopSubscription ==
  /\ current' = NoHandle /\ held' = FALSE
  /\ IF current # NoHandle /\ lib[current] = "open"
     THEN Unsubscribe(current)
     ELSE UNCHANGED <<lib, command>>

ResetLiveState == cardSequence' = NoSequence /\ view' = NoRevision

(* scheduleResubscribe *)
ScheduleResubscribe ==
  IF attached
  THEN StopSubscription /\ ResetLiveState /\ resync' = TRUE
  ELSE UNCHANGED <<lib, command, current, held, cardSequence, view, resync>>

(* ensureLiveSubscription, for a hass object whose Map entity advertises the
   stream or not; retrying tells whether the retry timer is still set. *)
Ensure(live, retrying) ==
  \/ /\ ~live
     /\ retry' = FALSE
     /\ IF current # NoHandle
        THEN StopSubscription /\ ResetLiveState
        ELSE UNCHANGED <<lib, command, current, held, cardSequence, view>>
  \/ /\ live /\ current # NoHandle /\ held
     /\ retry' = retrying
     /\ UNCHANGED <<lib, command, current, held, cardSequence, view>>
  \/ /\ live /\ ~(current # NoHandle /\ held)
     /\ retry' = retrying
     /\ \E h \in Handles :
          Free(h) /\ Subscribe(h) /\ current' = h
     /\ held' = TRUE
     /\ ResetLiveState

(* The hass setter, on a state event of the Map entity ... *)
HassSetsMapState ==
  /\ attached /\ PromisesSettled /\ seenStates # <<>>
  /\ available' = Head(seenStates)
  /\ seenStates' = Tail(seenStates)
  /\ Ensure(Head(seenStates), retry)
  /\ UNCHANGED <<serverVars, subscriberVars, link, inbox, attached, resync,
                 boundVars>>

(* ... and on a state event of any other entity. *)
HassSetsOtherState ==
  /\ attached /\ PromisesSettled /\ link
  /\ Ensure(available, retry)
  /\ UNCHANGED <<serverVars, subscriberVars, link, inbox, seenStates, attached,
                 available, resync, boundVars>>

(* The timers. *)
ResyncTimer ==
  /\ resync /\ PromisesSettled
  /\ resync' = FALSE
  /\ Ensure(available, retry)
  /\ UNCHANGED <<serverVars, subscriberVars, link, inbox, seenStates, attached,
                 available, boundVars>>

RetryTimer ==
  /\ retry /\ PromisesSettled
  /\ Ensure(available, FALSE)
  /\ UNCHANGED <<serverVars, subscriberVars, link, inbox, seenStates, attached,
                 available, resync, boundVars>>

(* disconnectedCallback *)
Detach ==
  /\ attached /\ detaches < MaxDetaches /\ PromisesSettled
  /\ attached' = FALSE
  /\ detaches' = detaches + 1
  /\ resync' = FALSE /\ retry' = FALSE
  /\ StopSubscription /\ ResetLiveState
  /\ UNCHANGED <<serverVars, subscriberVars, link, inbox, seenStates, available,
                 reloads, drops, faults>>

(* Back on the page, the card is handed the dashboard's current hass object. *)
Attach ==
  /\ ~attached
  /\ attached' = TRUE
  /\ seenStates' = IF link THEN <<entity>> ELSE seenStates
  /\ UNCHANGED <<serverVars, subscriberVars, link, inbox, command, lib,
                 available, current, held, cardSequence, view, resync, retry,
                 boundVars>>

Arrives(h, kind) == inbox[h] # <<>> /\ Head(inbox[h]).kind = kind
Take(h) == inbox' = [inbox EXCEPT ![h] = Tail(@)]

(* A result resolves the pending promise; the one of a resubscription the
   card already held open only confirms it. *)
DeliverResult(h) ==
  /\ Arrives(h, "result") /\ Take(h)
  /\ lib' = [lib EXCEPT ![h] = IF @ \in {"sent", "resent"} THEN "resolved" ELSE @]
  /\ UNCHANGED <<serverVars, subscriberVars, link, command, seenStates, cardVars,
                 boundVars>>

(* Mutant: a subscription given up while pending is not cancelled. *)
PromiseResolvesWithoutCancel(h) ==
  /\ lib[h] = "resolved"
  /\ lib' = [lib EXCEPT ![h] = "open"]
  /\ retry' = (retry /\ current # h)
  /\ UNCHANGED <<serverVars, subscriberVars, link, inbox, command, seenStates,
                 attached, available, current, held, cardSequence, view, resync,
                 boundVars>>

(* .then of ensureLiveSubscription *)
PromiseResolves(h) ==
  /\ lib[h] = "resolved"
  /\ IF current = h
     THEN /\ lib' = [lib EXCEPT ![h] = "open"]
          /\ retry' = FALSE
          /\ UNCHANGED command
     ELSE Unsubscribe(h) /\ UNCHANGED retry
  /\ UNCHANGED <<serverVars, subscriberVars, link, inbox, seenStates, attached,
                 available, current, held, cardSequence, view, resync,
                 boundVars>>

(* An error rejects the pending promise (.catch of ensureLiveSubscription);
   nobody waits for the reply to a resubscription. *)
DeliverError(h) ==
  /\ Arrives(h, "error") /\ Take(h)
  /\ IF lib[h] = "sent"
     THEN /\ lib' = [lib EXCEPT ![h] = "none"]
          /\ held' = (held /\ current # h)
          /\ retry' = (retry \/ (current = h /\ attached))
     ELSE UNCHANGED <<lib, held, retry>>
  /\ UNCHANGED <<serverVars, subscriberVars, link, command, seenStates, attached,
                 available, current, cardSequence, view, resync, boundVars>>

(* applyLiveMessage on a snapshot. *)
DeliverSnapshot(h) ==
  /\ Arrives(h, "snapshot") /\ Take(h)
  /\ lib[h] # "none" /\ current = h
  /\ cardSequence' = Head(inbox[h]).seq
  /\ view' = Head(inbox[h]).rev
  /\ retry' = FALSE
  /\ UNCHANGED <<serverVars, subscriberVars, link, command, seenStates, lib,
                 attached, available, current, held, resync, boundVars>>

(* Mutant: any newer sequence number is taken. *)
InSequenceOrLater(n) == cardSequence # NoSequence /\ n > cardSequence

InSequence(n) == cardSequence # NoSequence /\ n = cardSequence + 1

(* The attributes and path of a delta, assigned over what the card shows, make
   the state they lead to only when that is the state they start from. *)
Patched(shown, frame) == IF shown = frame.base THEN frame.rev ELSE Garbled

(* applyLiveMessage on a delta: applied when it is the next one, otherwise the
   card drops what it shows and subscribes again. *)
DeliverDelta(h) ==
  /\ Arrives(h, "delta") /\ Take(h)
  /\ lib[h] # "none" /\ current = h
  /\ retry' = FALSE
  /\ IF InSequence(Head(inbox[h]).seq)
     THEN /\ cardSequence' = Head(inbox[h]).seq
          /\ view' = Patched(view, Head(inbox[h]))
          /\ UNCHANGED <<lib, command, current, held, resync>>
     ELSE ScheduleResubscribe
  /\ UNCHANGED <<serverVars, subscriberVars, link, seenStates, attached,
                 available, boundVars>>

(* A frame of a subscription given up: the callback's generation check. *)
DiscardFrame(h) ==
  /\ Arrives(h, "snapshot") \/ Arrives(h, "delta")
  /\ lib[h] = "none" \/ current # h
  /\ Take(h)
  /\ UNCHANGED <<serverVars, subscriberVars, link, command, seenStates, lib,
                 cardVars, boundVars>>

-----------------------------------------------------------------------------
HubStep ==
  \/ \E h \in Handles :
       \/ ServeSubscribe(h) \/ ServeUnsubscribe(h)
       \/ PrepareFromCache(h) \/ PrepareByBuilding(h) \/ PrepareResumes(h)
       \/ DeltaJobStarts(h) \/ DeltaJobCompletes(h)
  \/ BuildCompletes \/ RemoveHub \/ AddEntity \/ InstallHub

BrowserStep ==
  \/ \E h \in Handles :
       \/ DeliverResult(h) \/ PromiseResolves(h) \/ DeliverError(h)
       \/ DeliverSnapshot(h) \/ DeliverDelta(h) \/ DiscardFrame(h)
  \/ HassSetsMapState \/ ResyncTimer \/ RetryTimer \/ Reconnect

Environment ==
  \/ CoordinatorUpdate \/ Heartbeat \/ BuildFails \/ CacheExpires
  \/ UnloadPlatforms \/ HassSetsOtherState \/ Drop \/ Detach \/ Attach

Next == HubStep \/ BrowserStep \/ Environment

(* What Home Assistant's event loop and executor, the reload of the entry and
   the browser carry on with; updates, losses and page changes are not owed. *)
Fairness ==
  /\ \A h \in Handles :
       /\ WF_vars(ServeSubscribe(h)) /\ WF_vars(ServeUnsubscribe(h))
       /\ WF_vars(PrepareFromCache(h) \/ PrepareByBuilding(h))
       /\ WF_vars(PrepareResumes(h))
       /\ WF_vars(DeltaJobStarts(h)) /\ WF_vars(DeltaJobCompletes(h))
       /\ WF_vars(DeliverResult(h) \/ DeliverError(h) \/ DeliverSnapshot(h)
                    \/ DeliverDelta(h) \/ DiscardFrame(h))
       /\ WF_vars(PromiseResolves(h))
  /\ WF_vars(BuildCompletes \/ BuildFails)
  /\ WF_vars(RemoveHub) /\ WF_vars(AddEntity) /\ WF_vars(InstallHub)
  /\ WF_vars(HassSetsMapState) /\ WF_vars(ResyncTimer) /\ WF_vars(RetryTimer)
  /\ WF_vars(Reconnect)

Spec == Init /\ [][Next]_vars
FairSpec == Spec /\ Fairness

-----------------------------------------------------------------------------
(* Properties. *)

(* A card never patches a delta onto a state it was not computed from: dropped
   deltas, deltas overtaken while the executor builds them and frames of a
   subscription that was given up never reach what the card shows. *)
NeverGarbled == view # Garbled

(* The frames on their way to one subscription carry increasing sequence
   numbers, the snapshot first, none beyond the number the hub is at: the two
   senders of deltas (the listener and the catch-up job) never use one number
   twice. *)
IsFrame(m) == m.kind \in {"snapshot", "delta"}
NumberedByHub(h) ==
  phase[h] \in {"ready", "closed"} =>
    \A i \in 1 .. Len(inbox[h]) :
      IsFrame(inbox[h][i]) => inbox[h][i].seq <= sequence[h]
InOrder(h) ==
  \A i, j \in 1 .. Len(inbox[h]) :
    i < j /\ IsFrame(inbox[h][i]) /\ IsFrame(inbox[h][j])
      => inbox[h][i].seq < inbox[h][j].seq
FramesInSequence == \A h \in Handles : NumberedByHub(h) /\ InOrder(h)

(* The last frame the hub numbered for the card's subscription was lost, and
   nothing after it can show the gap yet. *)
TailLost ==
  /\ current # NoHandle
  /\ inbox[current] = <<>>
  /\ cardSequence # NoSequence /\ cardSequence < sequence[current]

Watching == attached /\ link /\ hub /\ entity

(* Once the mower stops moving and the page, the connection and the entry stay
   as they are, a card that is watching shows the mower's latest state, unless
   the last frame itself was lost. *)
CatchesUp == <>[](Watching /\ ~TailLost => view = revision)

(* A card that has left the page leaves no subscriber behind in the hub, also
   when it left while its first snapshot was being prepared. *)
NoLeakedSubscriber ==
  ~attached ~> (attached \/ \A h \in Handles : phase[h] = "none")

(* The card has taken in the snapshot of its subscription. *)
SnapshotPending(h) ==
  \E i \in 1 .. Len(inbox[h]) : inbox[h][i].kind = "snapshot"
Served(h) == phase[h] \in {"ready", "closed"}
Synced ==
  \E h \in Handles : current = h /\ Served(h) /\ ~SnapshotPending(h)

LV == INSTANCE LiveView WITH synced <- Synced

(* The stream implements the abstract viewer: what a card shows is always a
   whole state the mower has been in, and between two snapshots it never goes
   back to an earlier one. *)
ImplementsLiveView == LV!Spec

-----------------------------------------------------------------------------
(* Why it does: the parts of an inductive invariant. *)

NoFrames(h) == \A i \in 1 .. Len(inbox[h]) : ~IsFrame(inbox[h][i])
Refused(h) == \E i \in 1 .. Len(inbox[h]) : inbox[h][i].kind = "error"

(* A subscription moves through the client library and the hub in step. *)
HandleOK(h) ==
  /\ ~link => phase[h] = "none" /\ command[h] = "none" /\ inbox[h] = <<>>
  /\ lib[h] = "queued" => ~link
  /\ command[h] = "subscribe" => phase[h] = "none" /\ inbox[h] = <<>>
  /\ command[h] = "unsubscribe" => lib[h] = "none"
  /\ lib[h] = "sent" /\ Refused(h) => phase[h] = "none" /\ command[h] = "none"
  /\ current = h /\ lib[h] = "none" => phase[h] = "none" /\ command[h] = "none"
  /\ worker[h] # "idle" => phase[h] = "ready"
  /\ ~Served(h) /\ (phase[h] # "none" \/ lib[h] # "none") => NoFrames(h)
HandleInv == \A h \in Handles : HandleOK(h)

(* Nothing the hub holds is newer than the coordinator's state. *)
ReachedInv ==
  /\ cache <= revision /\ inflight <= revision
  /\ \A h \in Handles : built[h] <= revision /\ cursor[h] <= revision

(* The history of a served subscription ends at the hub's cursor, and a delta
   that was not overtaken goes on from there. *)
HistoryOK(h) ==
  /\ Served(h) => /\ Len(sent[h]) = sequence[h] + 1
                  /\ sent[h][sequence[h] + 1] = cursor[h]
                  /\ \A n \in 1 .. Len(sent[h]) : sent[h][n] <= revision
  /\ worker[h] = "building" /\ job[h].valid
       => /\ job[h].base = cursor[h] /\ job[h].seq = sequence[h] + 1
          /\ job[h].base <= job[h].rev /\ job[h].rev <= revision
HistoryInv == \A h \in Handles : HistoryOK(h)

(* Every frame on its way is the step of the history its number says, and the
   snapshot is the first. *)
FrameAgrees(f, n, history) ==
  /\ f.seq <= n
  /\ f.rev = history[f.seq + 1]
  /\ f.kind = "snapshot" => f.seq = 0
  /\ f.kind = "delta" => f.seq > 0 /\ f.base = history[f.seq] /\ f.base < f.rev
WireOK(h) ==
  Served(h) =>
    \A j \in 1 .. Len(inbox[h]) : IsFrame(inbox[h][j]) =>
      /\ FrameAgrees(inbox[h][j], sequence[h], sent[h])
      /\ inbox[h][j].kind = "snapshot" =>
           \A i \in 1 .. j - 1 : ~IsFrame(inbox[h][i])
WireInv == \A h \in Handles : WireOK(h)

(* The card shows the step of the history it counts. *)
CardOK(h) ==
  current = h /\ Served(h) /\ ~SnapshotPending(h) =>
    /\ cardSequence \in 0 .. sequence[h]
    /\ view = sent[h][cardSequence + 1]
CardInv == \A h \in Handles : CardOK(h)

StreamInv ==
  /\ HandleInv /\ ReachedInv /\ HistoryInv /\ WireInv /\ CardInv
  /\ NeverGarbled /\ FramesInSequence
=============================================================================
