----------------------------- MODULE LiveShadow ------------------------------
(***************************************************************************)
(* How a mower's telemetry reaches the coordinator's published state.      *)
(*                                                                         *)
(* Shadow fragments arrive over MQTT and are collected for a second before *)
(* a flush task merges them into the published state (coordinator.py); a   *)
(* filter drops what repeats the known values (runtime_optimizations.py).  *)
(* Three other writers publish whole states: the ancillary poll, the probe *)
(* for the app's plan file (native_schedule.py) and the connection handler.*)
(* Each of the first two works on a copy it took before its awaits.        *)
(*                                                                         *)
(* A document is a partial function from fields to values; the fields of   *)
(* one nested setting dictionary share a key.  Settings mirrored from the  *)
(* app for twenty seconds and the definitions of maps are not modelled.    *)
(***************************************************************************)
EXTENDS Integers, Sequences, FiniteSets, Functions

CONSTANTS
  Fields,     \* leaves of the mower's shadow documents
  Values,
  KeyOf,      \* field -> the top-level key it is reported under
  Interval,   \* refresh interval, in units longer than any fragment waits
  MaxWire,    \* bound on messages on their way
  MaxFaults,  \* bound on failed polls and failed saves
  MaxProbes   \* bound on probes of the plan file

Empty == [f \in {} |-> f]
Doc == UNION {[F -> Values] : F \in SUBSET Fields}

ASSUME LiveShadowAssumption ==
  /\ DOMAIN KeyOf = Fields
  /\ Interval \in Nat \ {0, 1}
  /\ MaxWire \in Nat \ {0}
  /\ MaxFaults \in Nat
  /\ MaxProbes \in Nat

VARIABLES
  mower,      \* what the mower is actually doing
  calm,       \* the mower stays as it is and the cloud is available
  link,       \* the MQTT session
  wire,       \* shadow documents on their way
  asked,      \* a full report was requested in this unit of time
  connected,  \* _live_shadow_connected
  tele,       \* reported_state: the mower's fields
  shown,      \* reported_state: its _live_shadow_connected
  pending,    \* _pending_live_property
  flush,      \* _live_flush_task, by the await it is in
  flushDoc,   \* the state the flush has built but not published for good
  polling,    \* _async_update_data is running
  pollDoc,    \* its property_state
  probing,    \* the schedule engine's async_refresh_native_plan is running
  probeDoc, probeShown,  \* its state
  elapsed,    \* time since the refresh timer was armed
  faults, probes

mowerVars == <<mower, calm>>
linkVars == <<link, wire, asked, connected>>
dataVars == <<tele, shown, elapsed>>
flushVars == <<flush, flushDoc>>
pollVars == <<polling, pollDoc>>
probeVars == <<probing, probeDoc, probeShown, probes>>
vars == <<mowerVars, linkVars, dataVars, pending, flushVars, pollVars,
          probeVars, faults>>

Flag == {"unknown", "down", "up"}
Flush == {"none", "sleep", "learning", "mirroring", "fetching"}

TypeOK ==
  /\ mower \in [Fields -> Values]
  /\ calm \in BOOLEAN /\ link \in BOOLEAN /\ asked \in BOOLEAN
  /\ connected \in BOOLEAN /\ polling \in BOOLEAN /\ probing \in BOOLEAN
  /\ wire \in Seq(Doc)
  /\ tele \in Doc /\ pending \in Doc
  /\ flushDoc \in Doc /\ pollDoc \in Doc /\ probeDoc \in Doc
  /\ shown \in Flag /\ probeShown \in Flag
  /\ flush \in Flush
  /\ elapsed \in 0 .. Interval - 1
  /\ faults \in 0 .. MaxFaults /\ probes \in 0 .. MaxProbes

(* The entry is being set up: the listener is started and the first refresh
   runs before anything was published. *)
Init ==
  /\ mower \in [Fields -> Values]
  /\ calm = FALSE
  /\ link = FALSE /\ wire = <<>> /\ asked = FALSE /\ connected = FALSE
  /\ tele = Empty /\ shown = "unknown" /\ elapsed = 0
  /\ pending = Empty /\ flush = "none" /\ flushDoc = Empty
  /\ polling = TRUE /\ pollDoc = Empty
  /\ probing = FALSE /\ probeDoc = Empty /\ probeShown = "unknown"
  /\ probes = 0 /\ faults = 0

FlagOf(b) == IF b THEN "up" ELSE "down"

(* async_set_updated_data: the state is replaced as a whole and the refresh
   timer starts over. *)
Publish(doc, flag) ==
  /\ tele' = doc
  /\ shown' = flag
  /\ elapsed' = 0

(* dict.update on documents, leaf by leaf *)
Over(new, old) ==
  [f \in DOMAIN new \cup DOMAIN old |->
     IF f \in DOMAIN new THEN new[f] ELSE old[f]]

-----------------------------------------------------------------------------
(* The mower and the MQTT session. *)

(* A field changes; the mower may report it, with others, or the report is
   lost.  Nothing is owed to a mower out of reach. *)
MowerReports ==
  /\ ~calm
  /\ \E f \in Fields, v \in Values :
       /\ v # mower[f]
       /\ mower' = [mower EXCEPT ![f] = v]
       /\ \/ UNCHANGED wire
          \/ /\ link /\ Len(wire) < MaxWire
             /\ \E F \in SUBSET Fields :
                  f \in F /\ wire' = Append(wire, Restrict(mower', F))
  /\ UNCHANGED <<calm, link, asked, connected, dataVars, pending, flushVars,
                 pollVars, probeVars, faults>>

(* The listener, idle for a while, has the mower publish everything. *)
FullReport ==
  /\ link /\ connected /\ wire = <<>>
  /\ asked' = TRUE
  /\ \/ wire' = <<mower>>
     \/ ~calm /\ UNCHANGED wire
  /\ UNCHANGED <<mowerVars, link, connected, dataVars, pending, flushVars,
                 pollVars, probeVars, faults>>

LinkLost ==
  /\ ~calm /\ link
  /\ link' = FALSE
  /\ wire' = <<>>
  /\ UNCHANGED <<mowerVars, asked, connected, dataVars, pending, flushVars,
                 pollVars, probeVars, faults>>

(* _async_handle_live_connection: nothing is published into an empty state. *)
HandleConnection(b) ==
  /\ connected' = b
  /\ IF shown = "unknown" THEN UNCHANGED dataVars
     ELSE Publish(tele, FlagOf(b))

(* async_run notices that the session is gone, or fails to open a new one. *)
ConnectionFails ==
  /\ ~link
  /\ HandleConnection(FALSE)
  /\ UNCHANGED <<mowerVars, link, wire, asked, pending, flushVars, pollVars,
                 probeVars, faults>>

(* A new session, which begins by asking for the shadows. *)
Reconnects ==
  /\ ~link /\ ~connected
  /\ link' = TRUE
  /\ wire' \in {<<>>, <<mower>>}
  /\ HandleConnection(TRUE)
  /\ UNCHANGED <<mowerVars, asked, pending, flushVars, pollVars, probeVars,
                 faults>>

-----------------------------------------------------------------------------
(* Fragments and their flush. *)

KeysOf(doc) == {KeyOf[f] : f \in DOMAIN doc}
At(doc, k) == Restrict(doc, {f \in DOMAIN doc : KeyOf[f] = k})

(* _changed_shadow_fragment: the keys whose value differs from the pending or
   else the published one. *)
Baseline(k) == IF k \in KeysOf(pending) THEN At(pending, k) ELSE At(tele, k)
Changed(doc) ==
  Restrict(doc, {f \in DOMAIN doc :
                   At(doc, KeyOf[f]) # Baseline(KeyOf[f])})

(* dict.update replaces the value of a key, nested or not. *)
Collected(doc) ==
  Over(doc, Restrict(pending,
                     {f \in DOMAIN pending : KeyOf[f] \notin KeysOf(doc)}))

(* _async_handle_live_shadow behind the duplicate filter. *)
HandleFragment ==
  /\ wire # <<>>
  /\ wire' = Tail(wire)
  /\ LET news == Changed(Head(wire)) IN
       /\ pending' = Collected(news)
       /\ flush' = IF news # Empty /\ flush = "none" THEN "sleep" ELSE flush
  /\ UNCHANGED <<mowerVars, link, asked, connected, dataVars, flushDoc, pollVars,
                 probeVars, faults>>

(* Mutant: a flush that ends does not look for what arrived meanwhile. *)
AgainNever == "none"
(* The end of the loop, or of the task: it starts over when fragments arrived
   while it awaited something. *)
Again == IF pending # Empty THEN "sleep" ELSE "none"

(* After publishing, the flush may refresh the plan file, for which it copies
   the state, and then areas and maps. *)
FlushPublishes(doc, idle) ==
  /\ Publish(doc, "up")
  /\ flush' \in {"mirroring", "fetching", idle}
  /\ flushDoc' = IF flush' = "mirroring" THEN doc ELSE Empty

(* A second is over: the pending fragments are swapped out and merged into the
   state, which is published at once unless a finished task is to be learned
   from and saved first. *)
FlushWakes ==
  /\ flush = "sleep"
  /\ pending' = Empty
  /\ \/ FlushPublishes(Over(pending, tele), "none")
     \/ /\ flush' = "learning"
        /\ flushDoc' = Over(pending, tele)
        /\ UNCHANGED dataVars
  /\ UNCHANGED <<mowerVars, linkVars, pollVars, probeVars, faults>>

FlushLearned ==
  /\ flush = "learning"
  /\ FlushPublishes(flushDoc, Again)
  /\ UNCHANGED <<mowerVars, linkVars, pending, pollVars, probeVars, faults>>

(* Mutant: the finally clause does not start another flush. *)
FlushFailsForGood ==
  /\ flush = "learning" /\ faults < MaxFaults
  /\ flush' = "none"
  /\ flushDoc' = Empty
  /\ faults' = faults + 1
  /\ UNCHANGED <<mowerVars, linkVars, dataVars, pending, pollVars, probeVars>>

(* The save raises: what was swapped out is lost with the task. *)
FlushFails ==
  /\ flush = "learning" /\ faults < MaxFaults
  /\ flush' = Again
  /\ flushDoc' = Empty
  /\ faults' = faults + 1
  /\ UNCHANGED <<mowerVars, linkVars, dataVars, pending, pollVars, probeVars>>

(* async_refresh_native_plan, awaited by the flush, publishes its copy. *)
FlushMirrors ==
  /\ flush = "mirroring"
  /\ Publish(flushDoc, "up")
  /\ flush' \in {"fetching", Again}
  /\ flushDoc' = Empty
  /\ UNCHANGED <<mowerVars, linkVars, pending, pollVars, probeVars, faults>>

(* Areas and maps are there, and published when they changed; also the end of
   a flush that fails to get them. *)
FlushFetched ==
  /\ flush = "fetching"
  /\ flush' = Again
  /\ \/ Publish(tele, shown)
     \/ UNCHANGED dataVars
  /\ UNCHANGED <<mowerVars, linkVars, pending, flushDoc, pollVars, probeVars,
                 faults>>

-----------------------------------------------------------------------------
(* The ancillary poll, and the probe of the schedule engine. *)

StartPoll == ~polling /\ polling' = TRUE /\ pollDoc' = tele

(* Mutant: the timer does not fire. *)
TickForEver ==
  /\ wire = <<>> /\ flush = "none" /\ ~polling
  /\ asked \/ ~connected
  /\ asked' = FALSE
  /\ elapsed' = elapsed + 1
  /\ UNCHANGED <<mowerVars, link, wire, connected, tele, shown, pending,
                 flushVars, pollVars, probeVars, faults>>

(* A unit of the refresh interval passes: long enough for what was on its way to
   arrive, for a flush or a poll to be done and a full report to be asked for. *)
Tick ==
  /\ wire = <<>> /\ flush = "none" /\ ~polling
  /\ asked \/ ~connected
  /\ asked' = FALSE
  /\ \/ /\ elapsed + 1 < Interval
        /\ elapsed' = elapsed + 1
        /\ UNCHANGED pollVars
     \/ /\ elapsed + 1 = Interval
        /\ elapsed' = 0
        /\ StartPoll
  /\ UNCHANGED <<mowerVars, link, wire, connected, tele, shown, pending,
                 flushVars, probeVars, faults>>

(* A command of the user asks for a refresh. *)
RefreshRequested ==
  /\ ~calm /\ StartPoll
  /\ UNCHANGED <<mowerVars, linkVars, dataVars, pending, flushVars, probeVars,
                 faults>>

(* _async_request_history_path waits for the path and reads the state again. *)
PollRereads ==
  /\ polling
  /\ pollDoc' = tele
  /\ UNCHANGED <<mowerVars, linkVars, dataVars, pending, flushVars, polling,
                 probeVars, faults>>

PollEnds == polling' = FALSE /\ pollDoc' = Empty

(* Mutant: the connection is reported as it was. *)
PollCompletesWithOldFlag ==
  /\ polling /\ PollEnds
  /\ Publish(pollDoc, shown)
  /\ UNCHANGED <<mowerVars, linkVars, pending, flushVars, probeVars, faults>>

PollCompletes ==
  /\ polling /\ PollEnds
  /\ Publish(pollDoc, FlagOf(connected))
  /\ UNCHANGED <<mowerVars, linkVars, pending, flushVars, probeVars, faults>>

(* The cloud is not available: the last state is kept. *)
PollFails ==
  /\ polling /\ PollEnds
  /\ faults < MaxFaults
  /\ faults' = faults + 1
  /\ elapsed' = 0
  /\ UNCHANGED <<mowerVars, linkVars, tele, shown, pending, flushVars,
                 probeVars>>

(* The plan's revision is in the telemetry and the file has to be fetched. *)
ProbeStarts ==
  /\ ~probing /\ probes < MaxProbes
  /\ tele # Empty
  /\ probing' = TRUE
  /\ probeDoc' = tele /\ probeShown' = shown
  /\ probes' = probes + 1
  /\ UNCHANGED <<mowerVars, linkVars, dataVars, pending, flushVars, pollVars,
                 faults>>

(* Loaded or not, the result is published in the copy. *)
ProbeCompletes ==
  /\ probing
  /\ Publish(probeDoc, probeShown)
  /\ probing' = FALSE
  /\ probeDoc' = Empty /\ probeShown' = "unknown"
  /\ UNCHANGED <<mowerVars, linkVars, pending, flushVars, pollVars, probes,
                 faults>>

(* Nothing changes any more outside Home Assistant. *)
BecomesCalm ==
  /\ ~calm
  /\ calm' = TRUE
  /\ UNCHANGED <<mower, linkVars, dataVars, pending, flushVars, pollVars,
                 probeVars, faults>>

-----------------------------------------------------------------------------
Next ==
  \/ MowerReports \/ FullReport \/ LinkLost \/ ConnectionFails \/ Reconnects
  \/ HandleFragment \/ FlushWakes \/ FlushLearned \/ FlushFails
  \/ FlushMirrors \/ FlushFetched
  \/ Tick \/ RefreshRequested \/ PollRereads \/ PollCompletes \/ PollFails
  \/ ProbeStarts \/ ProbeCompletes \/ BecomesCalm

(* Tasks on the event loop go on, requests are answered and the listener keeps
   trying.  That time passes is a premise of the properties that need it. *)
Fairness ==
  /\ WF_vars(HandleFragment) /\ WF_vars(FullReport)
  /\ WF_vars(FlushWakes) /\ WF_vars(FlushLearned \/ FlushFails)
  /\ WF_vars(FlushMirrors) /\ WF_vars(FlushFetched)
  /\ WF_vars(PollCompletes \/ PollFails) /\ WF_vars(ProbeCompletes)
  /\ WF_vars(ConnectionFails \/ Reconnects) /\ WF_vars(calm /\ Reconnects)

Spec == Init /\ [][Next]_vars
FairSpec == Spec /\ Fairness

-----------------------------------------------------------------------------
(* Properties. *)

(* Telemetry waiting to be published always has a flush task that will do it:
   were it ever left behind, the filter would go on dropping the mower's
   repetitions of it as known. *)
PendingIsFlushed == pending # Empty => flush # "none"

(* Once the mower stays as it is and the cloud answers, the published telemetry
   becomes the mower's and stays so, whatever was lost before and whichever
   stale copy was published over it. *)
Converges == <>[](calm => tele = mower)

TimePasses == []<><<Tick>>_vars

(* What is shown of the connection becomes true unless the connection changes
   again, also after a late flush or a stale copy published the opposite. *)
ConnectionShown ==
  TimePasses =>
    \A b \in BOOLEAN :
      (connected = b) ~> (connected # b \/ (shown = "up") = b)
=============================================================================
