------------------------ MODULE LiveMapStreamProofs -------------------------
(***************************************************************************)
(* Proofs about LiveMapStream, for any number of subscriptions and any     *)
(* bounds: type correctness, the inductive invariant StreamInv, that a     *)
(* card never shows a garbled state, and that the stream implements        *)
(* LiveView.                                                               *)
(***************************************************************************)
EXTENDS LiveMapStream, Integers, SequenceTheorems, FiniteSetTheorems, TLAPS

(***************************************************************************)
(* Sequences.                                                              *)
(***************************************************************************)

(* The elements of a concatenation. *)
LEMMA ConcatElements ==
  ASSUME NEW S, NEW s \in Seq(S), NEW t \in Seq(S)
  PROVE  /\ Len(s \o t) = Len(s) + Len(t)
         /\ \A i \in 1 .. Len(s) : (s \o t)[i] = s[i]
         /\ \A i \in 1 .. Len(t) : (s \o t)[Len(s) + i] = t[i]
  BY ConcatProperties

(* ... and of one with a pair. *)
LEMMA ConcatPair ==
  ASSUME NEW S, NEW s \in Seq(S), NEW t \in Seq(S), Len(t) = 2
  PROVE  /\ Len(s) \in Nat /\ Len(s \o t) = Len(s) + 2
         /\ \A i \in 1 .. Len(s) : (s \o t)[i] = s[i]
         /\ (s \o t)[Len(s) + 1] = t[1]
         /\ (s \o t)[Len(s) + 2] = t[2]
<1>1. /\ Len(s \o t) = Len(s) + Len(t)
      /\ \A i \in 1 .. Len(s) : (s \o t)[i] = s[i]
      /\ \A i \in 1 .. Len(t) : (s \o t)[Len(s) + i] = t[i]
  BY ConcatElements
<1>2. Len(s) \in Nat
  OBVIOUS
<1>3. 1 \in 1 .. Len(t) /\ 2 \in 1 .. Len(t)
  BY Len(t) = 2
<1>4. (s \o t)[Len(s) + 1] = t[1] /\ (s \o t)[Len(s) + 2] = t[2]
  BY <1>1, <1>3, Zenon
<1> QED
  BY <1>1, <1>2, <1>4

(* The elements after an append. *)
LEMMA AppendElements ==
  ASSUME NEW S, NEW s \in Seq(S), NEW m \in S
  PROVE  /\ Len(s) \in Nat /\ Len(Append(s, m)) = Len(s) + 1
         /\ \A i \in 1 .. Len(s) : Append(s, m)[i] = s[i]
         /\ Append(s, m)[Len(s) + 1] = m
  OBVIOUS

(* Appending keeps sequences of Booleans, which Zenon handles. *)
LEMMA FlagAppended ==
  ASSUME NEW s \in Seq(BOOLEAN), NEW b \in BOOLEAN
  PROVE  Append(s, b) \in Seq(BOOLEAN)
  BY AppendProperties, Zenon

(* A sequence of one element of a set is a sequence over it. *)
LEMMA SingletonSeq ==
  ASSUME NEW b \in BOOLEAN
  PROVE  << b >> \in Seq(BOOLEAN)
  OBVIOUS

USE BoundsAssumption
  DEF BoundsAssumption, Revision, NoRevision, NoSequence, Garbled, serverVars,
      subscriberVars, linkVars, cardVars, boundVars

-----------------------------------------------------------------------------
(* Type correctness. *)

(* Every message the hub sends is well typed. *)
LEMMA MessageTypes ==
  /\ ResultReply \in Reply /\ ErrorReply \in Reply
  /\ \A r \in Revision : SnapshotFrame(r) \in Frame
  /\ \A n \in Nat, from, to \in Revision : DeltaFrame(n, from, to) \in Frame
  BY DEF Frame, Reply, SnapshotFrame, DeltaFrame, ResultReply, ErrorReply

(* Every initial state is well typed. *)
LEMMA TypeInit == Init => TypeOK
<1> SUFFICES ASSUME Init PROVE TypeOK
  OBVIOUS
<1>1. FlagTypes
  BY Zenon DEF Init, FlagTypes
<1>2. ServerTypes
  BY DEF Init, ServerTypes
<1>3. SubscriberTypes
  BY DEF Init, SubscriberTypes, Phases, Workers, Job, NoJob
<1>4. LinkTypes
  BY DEF Init, LinkTypes, Commands, LibStates
<1>5. CardTypes
  BY DEF Init, CardTypes
<1> QED
  BY <1>1, <1>2, <1>3, <1>4, <1>5 DEF TypeOK

(* Activating a subscriber keeps the types. *)
LEMMA TypeActivate ==
  ASSUME TypeOK, NEW h \in Handles, NEW r \in Revision, Activate(h, r),
         UNCHANGED <<built, command, seenStates, lib>>
  PROVE  SubscriberTypes' /\ LinkTypes'
<1> USE DEF TypeOK
<1>1. << ResultReply, SnapshotFrame(r) >> \in Seq(Frame \cup Reply)
  BY MessageTypes
<1>2. LinkTypes'
  BY <1>1 DEF Activate, LinkTypes
<1>3. SubscriberTypes'
  BY DEF Activate, SubscriberTypes, Phases, Workers, Job, NoJob
<1> QED
  BY <1>2, <1>3

(* Every step of the hub keeps the types. *)
LEMMA TypeHub == TypeOK /\ HubStep => TypeOK'
<1> SUFFICES ASSUME TypeOK, HubStep PROVE TypeOK'
  OBVIOUS
<1> USE DEF TypeOK
<1>1. ASSUME NEW h \in Handles, ServeSubscribe(h) PROVE TypeOK'
  <2> USE <1>1 DEF ServeSubscribe
  <2>1. Append(inbox[h], ErrorReply) \in Seq(Frame \cup Reply)
    BY MessageTypes DEF LinkTypes
  <2>2. LinkTypes'
    BY <2>1 DEF LinkTypes, Commands
  <2>3. SubscriberTypes'
    BY DEF SubscriberTypes, Phases
  <2>4. FlagTypes' /\ ServerTypes' /\ CardTypes'
    BY DEF FlagTypes, ServerTypes, CardTypes
  <2> QED
    BY <2>2, <2>3, <2>4
<1>2. ASSUME NEW h \in Handles, ServeUnsubscribe(h) PROVE TypeOK'
  <2> USE <1>2 DEF ServeUnsubscribe
  <2>1. LinkTypes'
    BY DEF LinkTypes, Commands
  <2>2. SubscriberTypes'
    BY DEF SubscriberTypes, Phases, Workers, Job, NoJob
  <2>3. FlagTypes' /\ ServerTypes' /\ CardTypes'
    BY DEF FlagTypes, ServerTypes, CardTypes
  <2> QED
    BY <2>1, <2>2, <2>3
<1>3. ASSUME NEW h \in Handles, PrepareFromCache(h) PROVE TypeOK'
  <2> USE <1>3 DEF PrepareFromCache
  <2>1. cache \in Revision
    BY DEF CacheHit, ServerTypes
  <2>2. SubscriberTypes' /\ LinkTypes'
    BY <2>1, TypeActivate
  <2>3. FlagTypes' /\ ServerTypes' /\ CardTypes'
    BY DEF FlagTypes, ServerTypes, CardTypes
  <2> QED
    BY <2>2, <2>3
<1>4. ASSUME NEW h \in Handles, PrepareByBuilding(h) PROVE TypeOK'
  <2> USE <1>4 DEF PrepareByBuilding
  <2>1. SubscriberTypes'
    BY DEF SubscriberTypes, Phases
  <2>2. ServerTypes'
    BY DEF ServerTypes
  <2>3. FlagTypes' /\ LinkTypes' /\ CardTypes'
    BY DEF FlagTypes, LinkTypes, CardTypes
  <2> QED
    BY <2>1, <2>2, <2>3
<1>5. ASSUME NEW h \in Handles, PrepareResumes(h) PROVE TypeOK'
  <2> USE <1>5 DEF PrepareResumes
  <2>1. built[h] \in Revision
    BY DEF SubscriberTypes
  <2>2. SubscriberTypes' /\ LinkTypes'
    BY <2>1, TypeActivate
  <2>3. ServerTypes'
    BY <2>1 DEF ServerTypes
  <2>4. FlagTypes' /\ CardTypes'
    BY DEF FlagTypes, CardTypes
  <2> QED
    BY <2>2, <2>3, <2>4
<1>6. ASSUME NEW h \in Handles, DeltaJobStarts(h) PROVE TypeOK'
  <2> USE <1>6 DEF DeltaJobStarts
  <2>1. SubscriberTypes'
    BY DEF SubscriberTypes, Workers, Job, ServerTypes
  <2>2. FlagTypes' /\ ServerTypes' /\ LinkTypes' /\ CardTypes'
    BY DEF FlagTypes, ServerTypes, LinkTypes, CardTypes
  <2> QED
    BY <2>1, <2>2
<1>7. ASSUME NEW h \in Handles, DeltaJobCompletes(h) PROVE TypeOK'
  <2> DEFINE frame == DeltaFrame(job[h].seq, job[h].base, job[h].rev)
  <2>1. job[h] \in Job
    BY DEF SubscriberTypes
  <2>2. /\ cursor' \in [Handles -> Revision]
        /\ job' \in [Handles -> Job]
        /\ worker' \in [Handles -> Workers]
    BY <1>7, <2>1 DEF DeltaJobCompletes, SubscriberTypes, Job, NoJob, Workers
  <2>3. FlagTypes' /\ ServerTypes' /\ CardTypes'
    BY <1>7 DEF DeltaJobCompletes, FlagTypes, ServerTypes, CardTypes
  <2>4. CASE JobApplies(h) /\ job[h].rev # job[h].base
    <3>1. /\ sequence' = [sequence EXCEPT ![h] = job[h].seq]
          /\ sent' = [sent EXCEPT ![h] = Append(@, job[h].rev)]
          /\ inbox' = [inbox EXCEPT ![h] = Append(@, frame)]
          /\ UNCHANGED <<phase, built, command, seenStates, lib>>
      BY <1>7, <2>4 DEF DeltaJobCompletes
    <3>2. /\ sequence' \in [Handles -> Nat]
          /\ sent' \in [Handles -> Seq(Revision)]
      BY <3>1, <2>1 DEF SubscriberTypes, Job
    <3>3. frame \in Frame
      BY <2>1, MessageTypes DEF Job
    <3>4. inbox' \in [Handles -> Seq(Frame \cup Reply)]
      <4> HIDE DEF frame
      <4> QED
        BY <3>1, <3>3 DEF LinkTypes
    <3> QED
      BY <2>2, <2>3, <3>1, <3>2, <3>4 DEF SubscriberTypes, LinkTypes
  <2>5. CASE ~(JobApplies(h) /\ job[h].rev # job[h].base)
    <3>1. UNCHANGED <<sequence, sent, inbox, phase, built, command, seenStates,
                      lib>>
      BY <1>7, <2>5 DEF DeltaJobCompletes
    <3> QED
      BY <2>2, <2>3, <3>1 DEF SubscriberTypes, LinkTypes
  <2> QED
    BY <2>4, <2>5
<1>8. CASE BuildCompletes
  <2> USE <1>8 DEF BuildCompletes
  <2>1. SubscriberTypes'
    BY DEF SubscriberTypes, ServerTypes, Resumed, Phases
  <2>2. ServerTypes'
    BY DEF ServerTypes
  <2>3. FlagTypes' /\ LinkTypes' /\ CardTypes'
    BY DEF FlagTypes, LinkTypes, CardTypes
  <2> QED
    BY <2>1, <2>2, <2>3
<1>9. CASE RemoveHub
  <2> USE <1>9 DEF RemoveHub
  <2>1. FlagTypes'
    BY Zenon DEF FlagTypes
  <2>2. ServerTypes'
    BY DEF ServerTypes
  <2>3. SubscriberTypes'
    BY DEF SubscriberTypes, Phases, Workers, Job, NoJob
  <2>4. LinkTypes' /\ CardTypes'
    BY DEF LinkTypes, CardTypes
  <2> QED
    BY <2>1, <2>2, <2>3, <2>4
<1>10. CASE AddEntity
  <2> USE <1>10 DEF AddEntity, WriteEntity
  <2>1. FlagTypes'
    BY Zenon DEF FlagTypes
  <2>2. seenStates' \in Seq(BOOLEAN)
    BY FlagAppended, Zenon DEF LinkTypes
  <2>3. LinkTypes'
    BY <2>2 DEF LinkTypes
  <2>4. ServerTypes' /\ SubscriberTypes' /\ CardTypes'
    BY DEF ServerTypes, SubscriberTypes, CardTypes
  <2> QED
    BY <2>1, <2>3, <2>4
<1>11. CASE InstallHub
  <2> USE <1>11 DEF InstallHub
  <2>1. FlagTypes'
    BY Zenon DEF FlagTypes
  <2>2. ServerTypes' /\ SubscriberTypes' /\ LinkTypes' /\ CardTypes'
    BY DEF ServerTypes, SubscriberTypes, LinkTypes, CardTypes
  <2> QED
    BY <2>1, <2>2
<1> QED
  BY <1>1, <1>2, <1>3, <1>4, <1>5, <1>6, <1>7, <1>8, <1>9, <1>10, <1>11
  DEF HubStep

(* Giving up the card's subscription keeps the types of what it changes. *)
LEMMA TypeStop ==
  ASSUME TypeOK, StopSubscription
  PROVE  /\ lib' \in [Handles -> LibStates] /\ command' \in [Handles -> Commands]
         /\ current' \in Handles \cup {NoHandle} /\ held' \in BOOLEAN
  BY DEF TypeOK, LinkTypes, CardTypes, LibStates, Commands, StopSubscription,
     Unsubscribe

(* ... and so does ensureLiveSubscription. *)
LEMMA TypeEnsure ==
  ASSUME TypeOK, NEW live \in BOOLEAN, NEW retrying \in BOOLEAN,
         Ensure(live, retrying)
  PROVE  /\ lib' \in [Handles -> LibStates] /\ command' \in [Handles -> Commands]
         /\ CardTypes' /\ held' \in BOOLEAN /\ retry' \in BOOLEAN
<1> USE DEF TypeOK, LinkTypes, CardTypes, FlagTypes, ResetLiveState
<1>1. ASSUME ~live, retry' = FALSE,
             IF current # NoHandle THEN StopSubscription /\ ResetLiveState
             ELSE UNCHANGED <<lib, command, current, held, cardSequence, view>>
      PROVE  /\ lib' \in [Handles -> LibStates]
             /\ command' \in [Handles -> Commands]
             /\ CardTypes' /\ held' \in BOOLEAN /\ retry' \in BOOLEAN
  BY <1>1, TypeStop
<1>2. ASSUME UNCHANGED <<lib, command, current, held, cardSequence, view>>,
             retry' = retrying
      PROVE  /\ lib' \in [Handles -> LibStates]
             /\ command' \in [Handles -> Commands]
             /\ CardTypes' /\ held' \in BOOLEAN /\ retry' \in BOOLEAN
  BY <1>2
<1>3. ASSUME NEW h \in Handles, Subscribe(h), current' = h, held' = TRUE,
             ResetLiveState, retry' = retrying
      PROVE  /\ lib' \in [Handles -> LibStates]
             /\ command' \in [Handles -> Commands]
             /\ CardTypes' /\ held' \in BOOLEAN /\ retry' \in BOOLEAN
  BY <1>3 DEF Subscribe, LibStates, Commands
<1> QED
  BY <1>1, <1>2, <1>3 DEF Ensure

(* Taking the first message of a subscription keeps the types of the inboxes. *)
LEMMA TypeTake ==
  ASSUME TypeOK, NEW h \in Handles, inbox[h] # <<>>, Take(h)
  PROVE  /\ inbox' \in [Handles -> Seq(Frame \cup Reply)]
         /\ Head(inbox[h]) \in Frame \cup Reply
  BY DEF TypeOK, LinkTypes, Take

(* Every step of the browser keeps the types. *)
LEMMA TypeBrowser == TypeOK /\ BrowserStep => TypeOK'
<1> SUFFICES ASSUME TypeOK, BrowserStep PROVE TypeOK'
  OBVIOUS
<1> USE DEF TypeOK
<1>1. ASSUME NEW h \in Handles, DeliverResult(h) PROVE TypeOK'
  <2> USE <1>1 DEF DeliverResult, Arrives
  <2>1. LinkTypes'
    BY TypeTake DEF LinkTypes, LibStates
  <2>2. FlagTypes' /\ ServerTypes' /\ SubscriberTypes' /\ CardTypes'
    BY DEF FlagTypes, ServerTypes, SubscriberTypes, CardTypes
  <2> QED
    BY <2>1, <2>2
<1>2. ASSUME NEW h \in Handles, PromiseResolves(h) PROVE TypeOK'
  <2> USE <1>2 DEF PromiseResolves
  <2>1. LinkTypes'
    BY DEF LinkTypes, LibStates, Commands, Unsubscribe
  <2>2. retry' \in BOOLEAN
    BY Zenon DEF FlagTypes
  <2>3. FlagTypes'
    BY <2>2 DEF FlagTypes
  <2>4. ServerTypes' /\ SubscriberTypes' /\ CardTypes'
    BY DEF ServerTypes, SubscriberTypes, CardTypes
  <2> QED
    BY <2>1, <2>3, <2>4
<1>3. ASSUME NEW h \in Handles, DeliverError(h) PROVE TypeOK'
  <2> USE <1>3 DEF DeliverError, Arrives
  <2>1. LinkTypes'
    BY TypeTake DEF LinkTypes, LibStates
  <2>2. held' \in BOOLEAN /\ retry' \in BOOLEAN
    BY Zenon DEF FlagTypes
  <2>3. FlagTypes'
    BY <2>2 DEF FlagTypes
  <2>4. ServerTypes' /\ SubscriberTypes' /\ CardTypes'
    BY DEF ServerTypes, SubscriberTypes, CardTypes
  <2> QED
    BY <2>1, <2>3, <2>4
<1>4. ASSUME NEW h \in Handles, DeliverSnapshot(h) PROVE TypeOK'
  <2> USE <1>4 DEF DeliverSnapshot, Arrives
  <2>1. /\ inbox' \in [Handles -> Seq(Frame \cup Reply)]
        /\ Head(inbox[h]) \in Frame
    BY TypeTake DEF Reply
  <2>2. CardTypes'
    BY <2>1 DEF CardTypes, Frame
  <2>3. FlagTypes' /\ ServerTypes' /\ SubscriberTypes' /\ LinkTypes'
    BY <2>1 DEF FlagTypes, ServerTypes, SubscriberTypes, LinkTypes
  <2> QED
    BY <2>2, <2>3
<1>5. ASSUME NEW h \in Handles, DeliverDelta(h) PROVE TypeOK'
  <2>1. /\ inbox' \in [Handles -> Seq(Frame \cup Reply)]
        /\ Head(inbox[h]) \in Frame
    BY <1>5, TypeTake DEF DeliverDelta, Arrives, Reply
  <2>2. /\ lib' \in [Handles -> LibStates]
        /\ command' \in [Handles -> Commands]
        /\ CardTypes' /\ held' \in BOOLEAN /\ resync' \in BOOLEAN
    <3>1. CASE InSequence(Head(inbox[h]).seq)
      BY <1>5, <2>1, <3>1 DEF DeliverDelta, Patched, Frame, CardTypes,
        LinkTypes, FlagTypes
    <3>2. CASE ~InSequence(Head(inbox[h]).seq) /\ attached
      BY <1>5, <3>2, TypeStop DEF DeliverDelta, ScheduleResubscribe,
        ResetLiveState, CardTypes
    <3>3. CASE ~InSequence(Head(inbox[h]).seq) /\ ~attached
      BY <1>5, <3>3 DEF DeliverDelta, ScheduleResubscribe, CardTypes,
        LinkTypes, FlagTypes
    <3> QED
      BY <3>1, <3>2, <3>3
  <2>3. FlagTypes' /\ ServerTypes' /\ SubscriberTypes' /\ LinkTypes'
    BY <1>5, <2>1, <2>2
    DEF DeliverDelta, FlagTypes, ServerTypes, SubscriberTypes, LinkTypes
  <2> QED
    BY <2>2, <2>3
<1>6. ASSUME NEW h \in Handles, DiscardFrame(h) PROVE TypeOK'
  <2>1. inbox[h] # <<>> /\ Take(h)
    BY <1>6 DEF DiscardFrame, Arrives
  <2>2. inbox' \in [Handles -> Seq(Frame \cup Reply)]
    BY <2>1, TypeTake
  <2>3. UNCHANGED <<serverVars, subscriberVars, link, command, seenStates, lib,
                    cardVars, boundVars>>
    BY <1>6 DEF DiscardFrame
  <2>4. FlagTypes' /\ ServerTypes'
    BY <2>3 DEF FlagTypes, ServerTypes
  <2>5. SubscriberTypes' /\ LinkTypes' /\ CardTypes'
    BY <2>2, <2>3 DEF SubscriberTypes, LinkTypes, CardTypes
  <2> QED
    BY <2>4, <2>5
<1>7. CASE HassSetsMapState
  <2>1. Head(seenStates) \in BOOLEAN /\ Tail(seenStates) \in Seq(BOOLEAN)
    BY <1>7, HeadTailProperties, Zenon DEF HassSetsMapState, LinkTypes
  <2>2. /\ available' \in BOOLEAN /\ seenStates' \in Seq(BOOLEAN)
        /\ Ensure(Head(seenStates), retry)
    BY <1>7, <2>1, Zenon DEF HassSetsMapState
  <2> QED
    BY <1>7, <2>1, <2>2, TypeEnsure DEF HassSetsMapState, FlagTypes, ServerTypes,
      SubscriberTypes, LinkTypes
<1>8. CASE ResyncTimer
  BY <1>8, TypeEnsure DEF ResyncTimer, FlagTypes, ServerTypes, SubscriberTypes,
    LinkTypes
<1>9. CASE RetryTimer
  BY <1>9, TypeEnsure DEF RetryTimer, FlagTypes, ServerTypes, SubscriberTypes,
    LinkTypes
<1>10. CASE Reconnect
  <2> USE <1>10 DEF Reconnect
  <2>1. seenStates' \in Seq(BOOLEAN)
    BY Zenon, SingletonSeq DEF FlagTypes
  <2>2. LinkTypes'
    BY <2>1 DEF LinkTypes, LibStates, Commands
  <2>3. link' \in BOOLEAN
    BY Zenon
  <2>4. FlagTypes' /\ ServerTypes' /\ SubscriberTypes' /\ CardTypes'
    BY <2>3 DEF FlagTypes, ServerTypes, SubscriberTypes, CardTypes
  <2> QED
    BY <2>2, <2>4
<1> QED
  BY <1>1, <1>2, <1>3, <1>4, <1>5, <1>6, <1>7, <1>8, <1>9, <1>10
  DEF BrowserStep

(* The deltas of an update keep the types, whichever sends fail. *)
LEMMA TypeDeltas ==
  ASSUME TypeOK, NEW r \in Revision, NEW lost, SendCurrentDeltas(r, lost)
  PROVE  /\ cursor' \in [Handles -> Revision]
         /\ sequence' \in [Handles -> Nat]
         /\ sent' \in [Handles -> Seq(Revision)]
         /\ inbox' \in [Handles -> Seq(Frame \cup Reply)]
         /\ job' \in [Handles -> Job]
<1>1. /\ cursor' \in [Handles -> Revision]
      /\ sequence' \in [Handles -> Nat]
  BY DEF SendCurrentDeltas, TypeOK, SubscriberTypes
<1>2. sent' = [h \in Handles |->
                 IF Behind(h, r) THEN Append(sent[h], r) ELSE sent[h]]
  BY DEF SendCurrentDeltas
<1>3. sent' \in [Handles -> Seq(Revision)]
  <2>1. ASSUME NEW h \in Handles PROVE Append(sent[h], r) \in Seq(Revision)
    BY AppendProperties DEF TypeOK, SubscriberTypes
  <2> QED
    BY <1>2, <2>1 DEF TypeOK, SubscriberTypes
<1>4. job' \in [Handles -> Job]
  BY DEF Overtaken, SendCurrentDeltas, TypeOK, SubscriberTypes, Job
<1>5. ASSUME NEW h \in Handles
      PROVE  DeltaFrame(sequence[h] + 1, cursor[h], r) \in Frame
  BY MessageTypes DEF TypeOK, SubscriberTypes
<1>6. inbox' = [h \in Handles |->
                  IF Behind(h, r) /\ h \notin lost
                  THEN Append(inbox[h], DeltaFrame(sequence[h] + 1, cursor[h], r))
                  ELSE inbox[h]]
  BY DEF SendCurrentDeltas
<1>7. inbox' \in [Handles -> Seq(Frame \cup Reply)]
  BY <1>5, <1>6 DEF TypeOK, LinkTypes
<1> QED
  BY <1>1, <1>3, <1>4, <1>7

(* Every step of the environment keeps the types. *)
LEMMA TypeEnvironment == TypeOK /\ Environment => TypeOK'
<1> SUFFICES ASSUME TypeOK, Environment PROVE TypeOK'
  OBVIOUS
<1> USE DEF TypeOK
<1>1. CASE CoordinatorUpdate
  <2>1. revision + 1 \in Revision
    BY <1>1 DEF CoordinatorUpdate, ServerTypes
  <2>2. PICK lost \in SUBSET {h \in Handles : Behind(h, revision + 1)} :
          /\ faults + Cardinality(lost) <= MaxFaults
          /\ faults' = faults + Cardinality(lost)
          /\ SendCurrentDeltas(revision + 1, lost)
    BY <1>1 DEF CoordinatorUpdate
  <2>3. Cardinality(lost) \in Nat
    BY FS_Subset, FS_CardinalityType
  <2>4. ServerTypes'
    BY <1>1, <2>1, <2>2, <2>3 DEF CoordinatorUpdate, ServerTypes
  <2>5. SubscriberTypes' /\ LinkTypes'
    BY <1>1, <2>1, <2>2, TypeDeltas
    DEF CoordinatorUpdate, SubscriberTypes, LinkTypes
  <2>6. FlagTypes' /\ CardTypes'
    BY <1>1 DEF CoordinatorUpdate, FlagTypes, CardTypes
  <2> QED
    BY <2>4, <2>5, <2>6
<1>2. CASE Heartbeat
  <2>1. SubscriberTypes' /\ LinkTypes'
    BY <1>2, TypeDeltas DEF Heartbeat, SubscriberTypes, LinkTypes, ServerTypes
  <2>2. FlagTypes' /\ ServerTypes' /\ CardTypes'
    BY <1>2 DEF Heartbeat, FlagTypes, ServerTypes, CardTypes
  <2> QED
    BY <2>1, <2>2
<1>3. CASE BuildFails
  <2> USE <1>3 DEF BuildFails
  <2>1. SubscriberTypes'
    BY DEF SubscriberTypes, Resumed, Phases
  <2>2. LinkTypes'
    BY MessageTypes DEF LinkTypes
  <2>3. ServerTypes'
    BY DEF ServerTypes
  <2>4. FlagTypes' /\ CardTypes'
    BY DEF FlagTypes, CardTypes
  <2> QED
    BY <2>1, <2>2, <2>3, <2>4
<1>4. CASE CacheExpires
  <2> USE <1>4 DEF CacheExpires
  <2>1. ServerTypes'
    BY DEF ServerTypes
  <2>2. FlagTypes' /\ SubscriberTypes' /\ LinkTypes' /\ CardTypes'
    BY DEF FlagTypes, SubscriberTypes, LinkTypes, CardTypes
  <2> QED
    BY <2>1, <2>2
<1>5. CASE UnloadPlatforms
  <2> USE <1>5 DEF UnloadPlatforms, WriteEntity
  <2>1. FlagTypes'
    BY Zenon DEF FlagTypes
  <2>2. seenStates' \in Seq(BOOLEAN)
    BY FlagAppended, Zenon DEF LinkTypes
  <2>3. LinkTypes'
    BY <2>2 DEF LinkTypes
  <2>4. ServerTypes'
    BY DEF ServerTypes
  <2>5. SubscriberTypes' /\ CardTypes'
    BY DEF SubscriberTypes, CardTypes
  <2> QED
    BY <2>1, <2>3, <2>4, <2>5
<1>6. CASE HassSetsOtherState
  BY <1>6, TypeEnsure DEF HassSetsOtherState, FlagTypes, ServerTypes,
    SubscriberTypes, LinkTypes
<1>7. CASE Drop
  <2> USE <1>7 DEF Drop
  <2>1. FlagTypes'
    BY Zenon DEF FlagTypes
  <2>2. LinkTypes'
    BY DEF LinkTypes, Commands
  <2>3. SubscriberTypes'
    BY DEF SubscriberTypes, Phases, Workers, Job, NoJob
  <2>4. ServerTypes'
    BY DEF ServerTypes
  <2>5. CardTypes'
    BY DEF CardTypes
  <2> QED
    BY <2>1, <2>2, <2>3, <2>4, <2>5
<1>8. CASE Detach
  <2> USE <1>8 DEF Detach, ResetLiveState
  <2>1. attached' \in BOOLEAN /\ resync' \in BOOLEAN /\ retry' \in BOOLEAN
    BY Zenon
  <2>2. FlagTypes' /\ LinkTypes' /\ CardTypes'
    BY <2>1, TypeStop DEF FlagTypes, LinkTypes, CardTypes
  <2>3. ServerTypes'
    BY DEF ServerTypes
  <2>4. SubscriberTypes'
    BY DEF SubscriberTypes
  <2> QED
    BY <2>2, <2>3, <2>4
<1>9. CASE Attach
  <2> USE <1>9 DEF Attach
  <2>1. seenStates' \in Seq(BOOLEAN)
    BY Zenon, SingletonSeq DEF FlagTypes, LinkTypes
  <2>2. FlagTypes'
    BY Zenon DEF FlagTypes
  <2>3. LinkTypes'
    BY <2>1 DEF LinkTypes
  <2>4. ServerTypes' /\ SubscriberTypes' /\ CardTypes'
    BY DEF ServerTypes, SubscriberTypes, CardTypes
  <2> QED
    BY <2>2, <2>3, <2>4
<1> QED
  BY <1>1, <1>2, <1>3, <1>4, <1>5, <1>6, <1>7, <1>8, <1>9 DEF Environment

(* What every variable may hold, for any number of subscriptions. *)
THEOREM TypeCorrect == Spec => []TypeOK
<1>1. TypeOK /\ [Next]_vars => TypeOK'
  <2> SUFFICES ASSUME TypeOK, [Next]_vars PROVE TypeOK'
    OBVIOUS
  <2>1. CASE UNCHANGED vars
    BY <2>1 DEF vars, TypeOK, FlagTypes, ServerTypes, SubscriberTypes, LinkTypes,
      CardTypes
  <2> QED
    BY <2>1, TypeHub, TypeBrowser, TypeEnvironment DEF Next
<1> QED
  BY TypeInit, <1>1, PTL DEF Spec

-----------------------------------------------------------------------------
(* The inductive invariant, part by part. *)

(* Initially nothing is subscribed. *)
LEMMA InvInit == Init => StreamInv
<1> SUFFICES ASSUME Init PROVE StreamInv
  OBVIOUS
<1>1. HandleInv
  BY DEF Init, HandleInv, HandleOK, Refused, NoFrames, Served
<1>2. ReachedInv
  BY DEF Init, ReachedInv
<1>3. HistoryInv
  BY DEF Init, HistoryInv, HistoryOK, Served
<1>4. WireInv /\ CardInv
  BY DEF Init, WireInv, WireOK, CardInv, CardOK, Served
<1>5. NeverGarbled /\ FramesInSequence
  BY DEF Init, NeverGarbled, FramesInSequence, NumberedByHub, InOrder
<1> QED
  BY <1>1, <1>2, <1>3, <1>4, <1>5 DEF StreamInv

(* What a message at the head of an inbox, and one appended to it, mean for the
   frames in it. *)
LEMMA TakeFrames ==
  ASSUME TypeOK, NEW h \in Handles, inbox[h] # <<>>, Take(h)
  PROVE  /\ Len(inbox'[h]) = Len(inbox[h]) - 1
         /\ \A i \in 1 .. Len(inbox'[h]) : inbox'[h][i] = inbox[h][i + 1]
         /\ \A k \in Handles \ {h} : inbox'[k] = inbox[k]
         /\ Len(inbox[h]) \in Nat /\ Len(inbox[h]) > 0
         /\ Head(inbox[h]) = inbox[h][1]
  BY DEF TypeOK, LinkTypes, Take

(* A reply of the server is not a frame, and has one kind. *)
LEMMA MessageKinds ==
  /\ ~IsFrame(ResultReply) /\ ~IsFrame(ErrorReply)
  /\ ResultReply.kind = "result" /\ ErrorReply.kind = "error"
  /\ \A r \in Revision : IsFrame(SnapshotFrame(r))
       /\ SnapshotFrame(r).kind = "snapshot" /\ SnapshotFrame(r).seq = 0
       /\ SnapshotFrame(r).rev = r
  /\ \A n \in Nat, from, to \in Revision : IsFrame(DeltaFrame(n, from, to))
       /\ DeltaFrame(n, from, to).kind = "delta"
       /\ DeltaFrame(n, from, to).seq = n
       /\ DeltaFrame(n, from, to).base = from
       /\ DeltaFrame(n, from, to).rev = to
  BY DEF IsFrame, ResultReply, ErrorReply, SnapshotFrame, DeltaFrame

(* An activated subscriber's inbox grows by the result and the snapshot. *)
LEMMA ActivateInbox ==
  ASSUME TypeOK, NEW h \in Handles, NEW r \in Revision, Activate(h, r)
  PROVE  /\ Len(inbox[h]) \in Nat
         /\ Len(inbox'[h]) = Len(inbox[h]) + 2
         /\ \A i \in 1 .. Len(inbox[h]) : inbox'[h][i] = inbox[h][i]
         /\ inbox'[h][Len(inbox[h]) + 1] = ResultReply
         /\ inbox'[h][Len(inbox[h]) + 2] = SnapshotFrame(r)
         /\ \A k \in Handles \ {h} : inbox'[k] = inbox[k]
<1> DEFINE reply == << ResultReply, SnapshotFrame(r) >>
<1>1. reply \in Seq(Frame \cup Reply) /\ Len(reply) = 2
      /\ reply[1] = ResultReply /\ reply[2] = SnapshotFrame(r)
  BY MessageTypes
<1>2. inbox' = [inbox EXCEPT ![h] = @ \o reply]
  BY DEF Activate
<1> HIDE DEF reply
<1>3. inbox[h] \in Seq(Frame \cup Reply) /\ inbox'[h] = inbox[h] \o reply
  BY <1>2 DEF TypeOK, LinkTypes
<1>4. \A k \in Handles \ {h} : inbox'[k] = inbox[k]
  BY <1>2 DEF TypeOK, LinkTypes
<1>5. /\ Len(inbox[h]) \in Nat
      /\ Len(inbox'[h]) = Len(inbox[h]) + 2
      /\ \A i \in 1 .. Len(inbox[h]) : inbox'[h][i] = inbox[h][i]
      /\ inbox'[h][Len(inbox[h]) + 1] = reply[1]
      /\ inbox'[h][Len(inbox[h]) + 2] = reply[2]
  BY <1>1, <1>3, ConcatPair
<1> QED
  BY <1>1, <1>4, <1>5

(* What leaves a subscription alone leaves it in step. *)
LEMMA HandleStutter ==
  ASSUME HandleInv, NEW k \in Handles,
         UNCHANGED <<link, phase, worker, inbox, command, lib, current>>
  PROVE  HandleOK(k)'
  BY DEF HandleInv, HandleOK, Refused, NoFrames, Served

(* Activating a subscriber keeps it in step. *)
LEMMA HandleActivate ==
  ASSUME TypeOK, HandleInv, NEW h \in Handles, NEW r \in Revision, NEW k \in Handles,
         phase[h] \in {"preparing", "built"}, Activate(h, r),
         UNCHANGED <<link, command, lib, current>>
  PROVE  HandleOK(k)'
<1>0. ASSUME NEW i \in 1 .. Len(inbox'[h]), inbox'[h][i].kind = "error"
      PROVE  i \in 1 .. Len(inbox[h]) /\ inbox[h][i].kind = "error"
  <2>1. \/ i \in 1 .. Len(inbox[h])
        \/ i = Len(inbox[h]) + 1 \/ i = Len(inbox[h]) + 2
    BY ActivateInbox
  <2> QED
    BY <1>0, <2>1, ActivateInbox, MessageKinds
<1> USE DEF TypeOK, SubscriberTypes, HandleInv, HandleOK, Served
<1>1. CASE k = h
  <2>1. ~(command[h] = "subscribe") /\ ~(lib[h] = "sent" /\ Refused(h)) /\ link
        /\ (lib[h] = "queued" => ~link)
    OBVIOUS
  <2>2. ~Refused(h) => ~Refused(h)'
    BY <1>0 DEF Refused
  <2>3. phase'[h] = "ready"
    BY DEF Activate
  <2> QED
    BY <1>1, <2>1, <2>2, <2>3 
<1>2. CASE k # h
  <2>1. /\ inbox'[k] = inbox[k] /\ phase'[k] = phase[k]
        /\ worker'[k] = worker[k]
    BY <1>2, ActivateInbox DEF Activate
  <2> QED
    BY <2>1 DEF Refused, NoFrames
<1> QED
  BY <1>1, <1>2

(* Giving up the subscription of the card keeps it in step ... *)
LEMMA HandleStop ==
  ASSUME TypeOK, HandleInv, NEW k \in Handles, StopSubscription,
         UNCHANGED <<link, phase, worker, inbox>>
  PROVE  HandleOK(k)'
  BY DEF StopSubscription, Unsubscribe, TypeOK, LinkTypes, CardTypes, HandleInv,
    HandleOK, Refused, NoFrames, Served

(* ... and so does ensureLiveSubscription. *)
LEMMA HandleEnsure ==
  ASSUME TypeOK, HandleInv, NEW k \in Handles, NEW live \in BOOLEAN, NEW retrying \in BOOLEAN,
         Ensure(live, retrying),
         UNCHANGED <<link, phase, worker, inbox>>
  PROVE  HandleOK(k)'
<1>1. CASE StopSubscription
  BY <1>1, HandleStop
<1>2. CASE UNCHANGED <<lib, command, current>>
  BY <1>2, HandleStutter
<1>3. ASSUME NEW h \in Handles, Free(h), Subscribe(h), current' = h
      PROVE  HandleOK(k)'
  <2>1. CASE k = h
    BY <1>3, <2>1 DEF Free, Subscribe, TypeOK, SubscriberTypes, LinkTypes,
      HandleInv, HandleOK, Refused, NoFrames, Served
  <2>2. CASE k # h
    BY <1>3, <2>2 DEF Subscribe, TypeOK, LinkTypes, HandleInv, HandleOK, Refused,
      NoFrames, Served
  <2> QED
    BY <2>1, <2>2
<1> QED
  BY <1>1, <1>2, <1>3 DEF Ensure

(* Only a refusal puts an error into an inbox. *)
LEMMA DeltaJobRefuses ==
  ASSUME TypeOK, NEW h \in Handles, DeltaJobCompletes(h), ~Refused(h)
  PROVE  ~Refused(h)'
<1> DEFINE frame == DeltaFrame(job[h].seq, job[h].base, job[h].rev)
<1>1. frame \in Frame /\ frame.kind = "delta"
  BY MessageTypes, MessageKinds DEF TypeOK, SubscriberTypes, Job
<1>2. inbox'[h] = inbox[h] \/ inbox'[h] = Append(inbox[h], frame)
  BY DEF DeltaJobCompletes, TypeOK, LinkTypes
<1> HIDE DEF frame
<1>3. inbox[h] \in Seq(Frame \cup Reply)
  BY DEF TypeOK, LinkTypes
<1>4. ASSUME inbox'[h] = Append(inbox[h], frame),
             NEW i \in 1 .. Len(inbox'[h]), inbox'[h][i].kind = "error"
      PROVE  i \in 1 .. Len(inbox[h]) /\ inbox[h][i].kind = "error"
  <2>1. i \in 1 .. Len(inbox[h]) \/ i = Len(inbox[h]) + 1
    BY <1>1, <1>3, <1>4, AppendElements
  <2> QED
    BY <1>1, <1>3, <1>4, <2>1, AppendElements
<1> QED
  BY <1>2, <1>4 DEF Refused

(* ... so the deltas of an update refuse nobody. *)
LEMMA DeltasRefuse ==
  ASSUME TypeOK, NEW k \in Handles, NEW r \in Revision, NEW lost,
         SendCurrentDeltas(r, lost), ~Refused(k)
  PROVE  ~Refused(k)'
<1> DEFINE frame == DeltaFrame(sequence[k] + 1, cursor[k], r)
<1>1. frame \in Frame /\ frame.kind = "delta"
  BY MessageTypes, MessageKinds DEF TypeOK, SubscriberTypes
<1>2. inbox'[k] = inbox[k] \/ inbox'[k] = Append(inbox[k], frame)
  BY DEF SendCurrentDeltas, TypeOK, LinkTypes
<1> HIDE DEF frame
<1>3. inbox[k] \in Seq(Frame \cup Reply)
  BY DEF TypeOK, LinkTypes
<1>4. ASSUME inbox'[k] = Append(inbox[k], frame),
             NEW i \in 1 .. Len(inbox'[k]), inbox'[k][i].kind = "error"
      PROVE  i \in 1 .. Len(inbox[k]) /\ inbox[k][i].kind = "error"
  <2>1. i \in 1 .. Len(inbox[k]) \/ i = Len(inbox[k]) + 1
    BY <1>1, <1>3, <1>4, AppendElements
  <2> QED
    BY <1>1, <1>3, <1>4, <2>1, AppendElements
<1> QED
  BY <1>2, <1>4 DEF Refused

(* Every step keeps the client library and the hub in step. *)
LEMMA HandleStep == TypeOK /\ StreamInv /\ Next => HandleInv'
<1> SUFFICES ASSUME TypeOK, StreamInv, Next, NEW k \in Handles
             PROVE  HandleOK(k)'
  BY DEF HandleInv
<1> HandleInv /\ ReachedInv
  BY DEF StreamInv
<1>1. ASSUME NEW h \in Handles, ServeSubscribe(h) PROVE HandleOK(k)'
  <2>1. k # h => /\ phase'[k] = phase[k] /\ inbox'[k] = inbox[k]
                 /\ command'[k] = command[k]
    BY <1>1 DEF ServeSubscribe, TypeOK, SubscriberTypes, LinkTypes
  <2>2. CASE k # h
    BY <1>1, <2>1, <2>2 DEF ServeSubscribe, HandleInv, HandleOK, Refused,
      NoFrames, Served
  <2>3. CASE k = h /\ hub
    BY <1>1, <2>3 DEF ServeSubscribe, TypeOK, SubscriberTypes, LinkTypes,
      HandleInv, HandleOK, Refused, NoFrames, Served
  <2>4. CASE k = h /\ ~hub
    <3>1. Len(inbox'[h]) = 1 /\ inbox'[h][1] = ErrorReply
      <4>1. inbox[h] = <<>> /\ inbox'[h] = Append(inbox[h], ErrorReply)
        BY <1>1, <2>4 DEF ServeSubscribe, TypeOK, LinkTypes, HandleInv, HandleOK
      <4> QED
        BY <4>1
    <3>2. NoFrames(h)'
      BY <3>1, MessageKinds DEF NoFrames
    <3> QED
      BY <1>1, <2>4, <3>2 DEF ServeSubscribe, TypeOK, LinkTypes, HandleInv,
        HandleOK, Served
  <2> QED
    BY <2>2, <2>3, <2>4
<1>2. ASSUME NEW h \in Handles, ServeUnsubscribe(h) PROVE HandleOK(k)'
  BY <1>2 DEF ServeUnsubscribe, TypeOK, SubscriberTypes, LinkTypes, HandleInv,
    HandleOK, Refused, NoFrames, Served
<1>3. ASSUME NEW h \in Handles, PrepareFromCache(h) PROVE HandleOK(k)'
  <2>1. cache \in Revision
    BY <1>3 DEF PrepareFromCache, CacheHit, TypeOK, ServerTypes
  <2> QED
    BY <1>3, <2>1, HandleActivate DEF PrepareFromCache
<1>4. ASSUME NEW h \in Handles, PrepareByBuilding(h) PROVE HandleOK(k)'
  BY <1>4 DEF PrepareByBuilding, TypeOK, SubscriberTypes, HandleInv, HandleOK,
    Refused, NoFrames, Served
<1>5. ASSUME NEW h \in Handles, PrepareResumes(h) PROVE HandleOK(k)'
  BY <1>5, HandleActivate DEF PrepareResumes, TypeOK, SubscriberTypes
<1>6. ASSUME NEW h \in Handles, DeltaJobStarts(h) PROVE HandleOK(k)'
  BY <1>6 DEF DeltaJobStarts, TypeOK, SubscriberTypes, HandleInv, HandleOK,
    Refused, NoFrames, Served
<1>7. ASSUME NEW h \in Handles, DeltaJobCompletes(h) PROVE HandleOK(k)'
  <2>1. phase[h] = "ready"
    BY <1>7 DEF DeltaJobCompletes, HandleInv, HandleOK
  <2>2. CASE k = h
    <3>1. /\ worker'[h] = "idle" /\ phase'[h] = "ready" /\ link' = link
          /\ command'[h] = command[h] /\ lib'[h] = lib[h] /\ current' = current
      BY <1>7, <2>1 DEF DeltaJobCompletes, TypeOK, SubscriberTypes
    <3>2. link /\ command[h] # "subscribe" /\ ~(lib[h] = "sent" /\ Refused(h))
      BY <2>1 DEF HandleInv, HandleOK
    <3>3. ~Refused(h) => ~Refused(h)'
      BY <1>7, DeltaJobRefuses
    <3> QED
      BY <2>1, <2>2, <3>1, <3>2, <3>3 DEF HandleInv, HandleOK, Served
  <2>3. CASE k # h
    <3>1. worker'[k] = worker[k] /\ inbox'[k] = inbox[k]
      BY <1>7, <2>3 DEF DeltaJobCompletes, TypeOK, SubscriberTypes, LinkTypes
    <3> QED
      BY <1>7, <3>1 DEF DeltaJobCompletes, HandleInv, HandleOK, Refused,
        NoFrames, Served
  <2> QED
    BY <2>2, <2>3
<1>8. ASSUME NEW h \in Handles, DeliverResult(h) PROVE HandleOK(k)'
  BY <1>8 DEF DeliverResult, Arrives, Take, TypeOK, LinkTypes, HandleInv, HandleOK,
    Refused, NoFrames, Served
<1>9. ASSUME NEW h \in Handles, PromiseResolves(h) PROVE HandleOK(k)'
  BY <1>9 DEF PromiseResolves, Unsubscribe, TypeOK, LinkTypes, HandleInv, HandleOK,
    Refused, NoFrames, Served
<1>10. ASSUME NEW h \in Handles, DeliverError(h) PROVE HandleOK(k)'
  <2>1. inbox[h] # <<>> /\ Take(h) /\ Head(inbox[h]).kind = "error"
    BY <1>10 DEF DeliverError, Arrives
  <2>2. Refused(h)
    BY <2>1, TakeFrames DEF Refused
  <2>3. (NoFrames(k) => NoFrames(k)') /\ (Refused(k)' => Refused(k))
        /\ (inbox[k] = <<>> => inbox'[k] = <<>>)
    BY <2>1, TakeFrames DEF NoFrames, Refused, TypeOK, LinkTypes
  <2>4. CASE lib[h] = "sent"
    <3>1. lib' = [lib EXCEPT ![h] = "none"]
      BY <1>10, <2>4 DEF DeliverError
    <3>2. phase[h] = "none" /\ command[h] = "none"
      BY <2>2, <2>4 DEF HandleInv, HandleOK
    <3> QED
      BY <1>10, <2>3, <3>1, <3>2 DEF DeliverError, TypeOK, LinkTypes, HandleInv,
        HandleOK, Served
  <2>5. CASE lib[h] # "sent"
    BY <1>10, <2>3, <2>5 DEF DeliverError, HandleInv, HandleOK, Served
  <2> QED
    BY <2>4, <2>5
<1>11. ASSUME NEW h \in Handles, DeliverSnapshot(h) PROVE HandleOK(k)'
  BY <1>11 DEF DeliverSnapshot, Arrives, Take, TypeOK, LinkTypes, HandleInv,
    HandleOK, Refused, NoFrames, Served
<1>12. ASSUME NEW h \in Handles, DeliverDelta(h) PROVE HandleOK(k)'
  BY <1>12 DEF DeliverDelta, ScheduleResubscribe, StopSubscription, Unsubscribe,
    Arrives, Take, TypeOK, LinkTypes, CardTypes, HandleInv, HandleOK, Refused,
    NoFrames, Served
<1>13. ASSUME NEW h \in Handles, DiscardFrame(h) PROVE HandleOK(k)'
  BY <1>13 DEF DiscardFrame, Arrives, Take, TypeOK, LinkTypes, HandleInv, HandleOK,
    Refused, NoFrames, Served
<1>14. CASE BuildCompletes
  BY <1>14 DEF BuildCompletes, Resumed, TypeOK, SubscriberTypes, HandleInv,
    HandleOK, Refused, NoFrames, Served
<1>15. CASE BuildFails
  <2>0. UNCHANGED <<link, worker, command, lib, current>>
    BY <1>15 DEF BuildFails
  <2>1. CASE phase[k] = "waiting"
    <3>1. phase'[k] = "none" /\ inbox'[k] = Append(inbox[k], ErrorReply)
      BY <1>15, <2>1 DEF BuildFails, Resumed, TypeOK, SubscriberTypes, LinkTypes
    <3>2. inbox[k] \in Seq(Frame \cup Reply) /\ ErrorReply \in Frame \cup Reply
      BY MessageTypes DEF TypeOK, LinkTypes
    <3>3. NoFrames(k)
      BY <2>1 DEF HandleInv, HandleOK, Served
    <3>4. ASSUME NEW i \in 1 .. Len(inbox'[k]) PROVE ~IsFrame(inbox'[k][i])
      <4>1. i \in 1 .. Len(inbox[k]) \/ i = Len(inbox[k]) + 1
        BY <3>1, <3>2, AppendElements
      <4> QED
        BY <3>1, <3>2, <3>3, <4>1, AppendElements, MessageKinds DEF NoFrames
    <3>5. NoFrames(k)'
      BY <3>4 DEF NoFrames
    <3>6. HandleOK(k) /\ command[k] \in Commands
      BY DEF HandleInv, TypeOK, LinkTypes
    <3> QED
      BY <2>0, <2>1, <3>1, <3>5, <3>6 DEF HandleOK, Commands, Served
  <2>2. CASE phase[k] # "waiting"
    <3>1. inbox'[k] = inbox[k]
          /\ phase'[k] = IF phase[k] = "retrying" THEN "preparing" ELSE phase[k]
      BY <1>15, <2>2 DEF BuildFails, Resumed, TypeOK, LinkTypes, SubscriberTypes
    <3> QED
      BY <2>0, <2>2, <3>1 DEF HandleInv, HandleOK, Refused, NoFrames, Served
  <2> QED
    BY <2>1, <2>2
<1>16. CASE RemoveHub
  BY <1>16 DEF RemoveHub, TypeOK, SubscriberTypes, HandleInv, HandleOK, Refused,
    NoFrames, Served
<1>17. CASE AddEntity \/ InstallHub \/ CacheExpires \/ UnloadPlatforms \/ Attach
  BY <1>17, HandleStutter
  DEF AddEntity, InstallHub, CacheExpires, UnloadPlatforms, Attach
<1>18. ASSUME NEW r \in Revision, NEW lost, SendCurrentDeltas(r, lost),
              UNCHANGED <<link, phase, worker, command, lib, current>>
       PROVE  HandleOK(k)'
  <2>1. CASE phase[k] = "ready"
    <3>1. Refused(k)' => Refused(k)
      BY <1>18, <2>1, DeltasRefuse
    <3> QED
      BY <1>18, <2>1, <3>1 DEF HandleInv, HandleOK, Served
  <2>2. CASE phase[k] # "ready"
    <3>1. inbox'[k] = inbox[k]
      BY <1>18, <2>2 DEF SendCurrentDeltas, Behind, TypeOK, LinkTypes
    <3> QED
      BY <1>18, <3>1 DEF HandleInv, HandleOK, Refused, NoFrames, Served
  <2> QED
    BY <2>1, <2>2
<1>19. CASE CoordinatorUpdate
  <2>1. revision + 1 \in Revision
    BY <1>19 DEF CoordinatorUpdate, TypeOK, ServerTypes
  <2> QED
    BY <1>18, <1>19, <2>1 DEF CoordinatorUpdate
<1>20. CASE Heartbeat
  BY <1>18, <1>20 DEF Heartbeat, TypeOK, ServerTypes
<1>21. CASE Drop
  BY <1>21 DEF Drop, TypeOK, HandleInv, HandleOK, Refused, NoFrames, Served
<1>22. CASE Reconnect
  BY <1>22 DEF Reconnect, TypeOK, LinkTypes, HandleInv, HandleOK, Refused,
    NoFrames, Served
<1>23. CASE HassSetsMapState
  <2>1. Head(seenStates) \in BOOLEAN
    BY <1>23, HeadTailProperties, Zenon DEF HassSetsMapState, TypeOK, LinkTypes
  <2> QED
    BY <1>23, <2>1, HandleEnsure DEF HassSetsMapState, TypeOK, FlagTypes
<1>24. CASE HassSetsOtherState \/ ResyncTimer \/ RetryTimer
  <2>1. /\ Ensure(available, retry) \/ Ensure(available, FALSE)
        /\ UNCHANGED <<link, phase, worker, inbox>>
    BY <1>24 DEF HassSetsOtherState, ResyncTimer, RetryTimer, subscriberVars
  <2>2. available \in BOOLEAN /\ retry \in BOOLEAN
    BY DEF TypeOK, FlagTypes
  <2>3. CASE Ensure(available, retry)
    BY <2>1, <2>2, <2>3, HandleEnsure
  <2>4. CASE Ensure(available, FALSE)
    BY <2>1, <2>2, <2>4, HandleEnsure
  <2> QED
    BY <2>1, <2>3, <2>4
<1>25. CASE Detach
  BY <1>25, HandleStop DEF Detach
<1> QED
  BY <1>1, <1>2, <1>3, <1>4, <1>5, <1>6, <1>7, <1>8, <1>9, <1>10, <1>11, <1>12,
     <1>13, <1>14, <1>15, <1>16, <1>17, <1>19, <1>20, <1>21, <1>22, <1>23,
     <1>24, <1>25
  DEF Next, HubStep, BrowserStep, Environment

(* What any step does to one subscription: nothing that matters to its frames,
   a message taken, a refusal, the activation, one more delta, or the loss of
   the connection. *)
QuietAt(k) ==
  /\ Served(k)' => Served(k)
  /\ sequence'[k] = sequence[k] /\ sent'[k] = sent[k] /\ inbox'[k] = inbox[k]
  /\ cursor'[k] = cursor[k]
TakenAt(k) ==
  /\ inbox[k] # <<>> /\ inbox'[k] = Tail(inbox[k])
  /\ phase'[k] = phase[k] /\ sequence'[k] = sequence[k] /\ sent'[k] = sent[k]
  /\ cursor'[k] = cursor[k]
  /\ Head(inbox[k]).kind = "snapshot" /\ current = k /\ Served(k)
       => DeliverSnapshot(k)
RefusedAt(k) ==
  /\ phase'[k] = "none" /\ inbox'[k] = Append(inbox[k], ErrorReply)
  /\ sequence'[k] = sequence[k] /\ sent'[k] = sent[k]
ActivatedAt(k) ==
  \E r \in Revision :
    /\ r <= revision /\ NoFrames(k) /\ ~Served(k)
    /\ phase'[k] = "ready" /\ sequence'[k] = 0 /\ sent'[k] = << r >>
    /\ cursor'[k] = r
    /\ inbox'[k] = inbox[k] \o << ResultReply, SnapshotFrame(r) >>
ExtendedAt(k) ==
  \E r \in Revision :
    /\ phase[k] = "ready" /\ phase'[k] = "ready"
    /\ cursor[k] < r /\ r <= revision'
    /\ sequence'[k] = sequence[k] + 1 /\ sent'[k] = Append(sent[k], r)
    /\ cursor'[k] = r
    /\ \/ inbox'[k] = inbox[k]
       \/ inbox'[k] = Append(inbox[k],
                             DeltaFrame(sequence[k] + 1, cursor[k], r))
LostAt(k) == phase'[k] = "none" /\ inbox'[k] = <<>>
StepAt(k) ==
  /\ revision' \in Revision /\ revision <= revision'
  /\ \/ QuietAt(k) \/ TakenAt(k) \/ RefusedAt(k) \/ ActivatedAt(k)
     \/ ExtendedAt(k) \/ LostAt(k)

(* Every step of the hub is of one of these kinds for each subscription ... *)
LEMMA StepOfHub ==
  ASSUME TypeOK, StreamInv, HubStep, NEW k \in Handles
  PROVE  StepAt(k)
<1> USE DEF StepAt, TypeOK, ServerTypes
<1> HandleInv /\ ReachedInv /\ HistoryInv
  BY DEF StreamInv
<1>1. ASSUME NEW h \in Handles, ServeSubscribe(h) PROVE StepAt(k)
  <2>1. CASE k = h /\ ~hub
    <3>1. RefusedAt(k)
      BY <1>1, <2>1 DEF ServeSubscribe, RefusedAt, LinkTypes, HandleInv, HandleOK
    <3> QED
      BY <1>1, <3>1 DEF ServeSubscribe
  <2>2. CASE k # h \/ hub
    <3>1. QuietAt(k)
      BY <1>1, <2>2 DEF ServeSubscribe, QuietAt, Served, LinkTypes,
        SubscriberTypes
    <3> QED
      BY <1>1, <3>1 DEF ServeSubscribe
  <2> QED
    BY <2>1, <2>2
<1>2. ASSUME NEW h \in Handles, ServeUnsubscribe(h) PROVE StepAt(k)
  BY <1>2 DEF ServeUnsubscribe, QuietAt, Served, SubscriberTypes
<1>3. ASSUME NEW h \in Handles, NEW r \in Revision, r <= revision, Activate(h, r),
             phase[h] \in {"preparing", "built"}, UNCHANGED revision
      PROVE  StepAt(k)
  <2>1. CASE k = h
    <3>1. NoFrames(k) /\ ~Served(k)
      BY <1>3, <2>1 DEF HandleInv, HandleOK, Served
    <3>2. ActivatedAt(k)
      BY <1>3, <2>1, <3>1 DEF ActivatedAt, Activate, SubscriberTypes, LinkTypes
    <3> QED
      BY <1>3, <3>2
  <2>2. CASE k # h
    BY <1>3, <2>2 DEF Activate, QuietAt, Served, SubscriberTypes, LinkTypes
  <2> QED
    BY <2>1, <2>2
<1>4. ASSUME NEW h \in Handles, PrepareFromCache(h) PROVE StepAt(k)
  BY <1>3, <1>4 DEF PrepareFromCache, CacheHit, ReachedInv
<1>5. ASSUME NEW h \in Handles, PrepareResumes(h) PROVE StepAt(k)
  BY <1>3, <1>5 DEF PrepareResumes, SubscriberTypes, ReachedInv
<1>6. ASSUME NEW h \in Handles, PrepareByBuilding(h) PROVE StepAt(k)
  BY <1>6 DEF PrepareByBuilding, QuietAt, Served, SubscriberTypes
<1>7. ASSUME NEW h \in Handles, DeltaJobStarts(h) PROVE StepAt(k)
  BY <1>7 DEF DeltaJobStarts, QuietAt, Served
<1>8. ASSUME NEW h \in Handles, DeltaJobCompletes(h) PROVE StepAt(k)
  <2>1. UNCHANGED <<revision, phase>>
    BY <1>8 DEF DeltaJobCompletes
  <2>2. CASE k = h /\ JobApplies(h)
    <3>1. /\ phase[h] = "ready" /\ job[h].base = cursor[h]
          /\ job[h].seq = sequence[h] + 1 /\ job[h].base <= job[h].rev
          /\ job[h].rev <= revision /\ job[h].rev \in Revision
      BY <1>8, <2>2 DEF DeltaJobCompletes, JobApplies, HistoryInv, HistoryOK,
        SubscriberTypes, Job
    <3>2. CASE job[h].rev # job[h].base
      <4>1. cursor[h] < job[h].rev
        BY <3>1, <3>2 DEF SubscriberTypes
      <4>2. /\ sequence'[h] = sequence[h] + 1 /\ cursor'[h] = job[h].rev
            /\ sent'[h] = Append(sent[h], job[h].rev)
        BY <1>8, <2>2, <3>1, <3>2 DEF DeltaJobCompletes, SubscriberTypes
      <4>3. inbox'[h] = Append(inbox[h],
                          DeltaFrame(sequence[h] + 1, cursor[h], job[h].rev))
        BY <1>8, <2>2, <3>1, <3>2 DEF DeltaJobCompletes, LinkTypes
      <4>4. ExtendedAt(k)
        BY <2>1, <2>2, <3>1, <4>1, <4>2, <4>3 DEF ExtendedAt
      <4> QED
        BY <2>1, <4>4
    <3>3. CASE job[h].rev = job[h].base
      <4>1. QuietAt(k)
        BY <1>8, <2>2, <3>1, <3>3
        DEF DeltaJobCompletes, QuietAt, Served, SubscriberTypes
      <4> QED
        BY <2>1, <4>1
    <3> QED
      BY <3>2, <3>3
  <2>3. CASE k # h \/ ~JobApplies(h)
    <3>1. QuietAt(k)
      BY <1>8, <2>3 DEF DeltaJobCompletes, QuietAt, Served, SubscriberTypes,
        LinkTypes
    <3> QED
      BY <2>1, <3>1
  <2> QED
    BY <2>2, <2>3
<1>9. CASE BuildCompletes
  BY <1>9 DEF BuildCompletes, Resumed, QuietAt, Served, SubscriberTypes
<1>10. CASE RemoveHub
  BY <1>10 DEF RemoveHub, QuietAt, Served, SubscriberTypes
<1>11. CASE AddEntity \/ InstallHub
  <2>1. UNCHANGED <<revision, phase, sequence, sent, inbox, cursor>>
    BY <1>11 DEF AddEntity, InstallHub
  <2> QED
    BY <2>1 DEF QuietAt, Served
<1> QED
  BY <1>1, <1>2, <1>4, <1>5, <1>6, <1>7, <1>8, <1>9, <1>10, <1>11 DEF HubStep

(* ... and so is every step of the browser, ... *)
LEMMA StepOfBrowser ==
  ASSUME TypeOK, StreamInv, BrowserStep, NEW k \in Handles
  PROVE  StepAt(k)
<1> USE DEF StepAt, TypeOK, ServerTypes
<1>1. ASSUME NEW h \in Handles, inbox[h] # <<>>, Take(h),
             Head(inbox[h]).kind = "snapshot" /\ current = h /\ Served(h)
               => DeliverSnapshot(h),
             UNCHANGED <<revision, phase, sequence, sent, cursor>>
      PROVE  StepAt(k)
  <2>1. CASE k = h
    BY <1>1, <2>1 DEF Take, TakenAt, LinkTypes
  <2>2. CASE k # h
    BY <1>1, <2>2 DEF Take, QuietAt, Served, LinkTypes
  <2> QED
    BY <2>1, <2>2
<1>2. ASSUME NEW h \in Handles,
             \/ DeliverResult(h) \/ DeliverError(h) \/ DeliverSnapshot(h)
             \/ DeliverDelta(h) \/ DiscardFrame(h)
      PROVE  StepAt(k)
  <2>1. /\ inbox[h] # <<>> /\ Take(h)
        /\ UNCHANGED <<revision, phase, sequence, sent, cursor>>
    BY <1>2 DEF DeliverResult, DeliverError, DeliverSnapshot, DeliverDelta,
      DiscardFrame, Arrives
  <2>2. DiscardFrame(h) => ~(current = h /\ Served(h))
    BY DEF DiscardFrame, StreamInv, HandleInv, HandleOK, Served
  <2>3. Head(inbox[h]).kind = "snapshot"
          => ~(DeliverResult(h) \/ DeliverError(h) \/ DeliverDelta(h))
    BY DEF DeliverResult, DeliverError, DeliverDelta, Arrives
  <2> QED
    BY <1>1, <1>2, <2>1, <2>2, <2>3
<1>3. ASSUME NEW h \in Handles, PromiseResolves(h) PROVE StepAt(k)
  BY <1>3 DEF PromiseResolves, QuietAt, Served
<1>4. CASE HassSetsMapState \/ ResyncTimer \/ RetryTimer \/ Reconnect
  <2>1. UNCHANGED <<revision, phase, sequence, sent, cursor, inbox>>
    BY <1>4 DEF HassSetsMapState, ResyncTimer, RetryTimer, Reconnect, serverVars,
      subscriberVars
  <2> QED
    BY <2>1 DEF QuietAt, Served
<1> QED
  BY <1>2, <1>3, <1>4 DEF BrowserStep

(* ... every step of the environment ... *)
LEMMA StepOfEnvironment ==
  ASSUME TypeOK, StreamInv, Environment, NEW k \in Handles
  PROVE  StepAt(k)
<1> USE DEF StepAt, TypeOK, ServerTypes
<1> ReachedInv
  BY DEF StreamInv
<1>1. ASSUME NEW r \in Revision, r <= revision', revision <= r,
             revision' \in Revision, NEW lost,
             SendCurrentDeltas(r, lost), UNCHANGED phase
      PROVE  StepAt(k)
  <2>1. revision <= revision' /\ cursor[k] <= r
    BY <1>1 DEF ReachedInv, SubscriberTypes
  <2>2. CASE Behind(k, r)
    <3>1. /\ phase[k] = "ready" /\ cursor[k] < r
          /\ cursor'[k] = r /\ sequence'[k] = sequence[k] + 1
          /\ sent'[k] = Append(sent[k], r)
      BY <1>1, <2>1, <2>2 DEF SendCurrentDeltas, Behind, SubscriberTypes
    <3>2. \/ inbox'[k] = inbox[k]
          \/ inbox'[k] = Append(inbox[k],
                                DeltaFrame(sequence[k] + 1, cursor[k], r))
      BY <1>1, <2>2 DEF SendCurrentDeltas
    <3>3. ExtendedAt(k)
      BY <1>1, <3>1, <3>2 DEF ExtendedAt
    <3> QED
      BY <1>1, <2>1, <3>3
  <2>3. CASE ~Behind(k, r)
    <3>1. QuietAt(k)
      BY <1>1, <2>3 DEF SendCurrentDeltas, Behind, QuietAt, Served
    <3> QED
      BY <1>1, <2>1, <3>1
  <2> QED
    BY <2>2, <2>3
<1>2. CASE CoordinatorUpdate
  <2>1. revision + 1 \in Revision /\ revision' = revision + 1 /\ UNCHANGED phase
    BY <1>2 DEF CoordinatorUpdate
  <2>2. PICK lost : SendCurrentDeltas(revision + 1, lost)
    BY <1>2 DEF CoordinatorUpdate
  <2> QED
    BY <1>1, <2>1, <2>2
<1>3. CASE Heartbeat
  BY <1>1, <1>3 DEF Heartbeat
<1>4. CASE BuildFails
  <2>1. CASE phase[k] = "waiting"
    BY <1>4, <2>1 DEF BuildFails, Resumed, RefusedAt
  <2>2. CASE phase[k] # "waiting"
    BY <1>4, <2>2 DEF BuildFails, Resumed, QuietAt, Served
  <2> QED
    BY <2>1, <2>2
<1>5. CASE Drop
  BY <1>5 DEF Drop, LostAt
<1>6. CASE CacheExpires \/ UnloadPlatforms \/ HassSetsOtherState \/ Detach \/ Attach
  <2>1. UNCHANGED <<revision, phase, sequence, sent, inbox, cursor>>
    BY <1>6 DEF CacheExpires, UnloadPlatforms, HassSetsOtherState, Detach, Attach
  <2> QED
    BY <2>1 DEF QuietAt, Served
<1> QED
  BY <1>2, <1>3, <1>4, <1>5, <1>6 DEF Environment

(* ... and every step of the stream. *)
LEMMA StepOfNext ==
  ASSUME TypeOK, StreamInv, Next
  PROVE  \A k \in Handles : StepAt(k)
  BY StepOfHub, StepOfBrowser, StepOfEnvironment DEF Next

(* What a step does to the messages on their way. *)
LEMMA ExtendedInbox ==
  ASSUME TypeOK, NEW k \in Handles, NEW r \in Revision, NEW i \in Nat,
         \/ inbox'[k] = inbox[k]
         \/ inbox'[k] = Append(inbox[k],
                               DeltaFrame(sequence[k] + 1, cursor[k], r)),
         i \in 1 .. Len(inbox'[k])
  PROVE  \/ /\ i \in 1 .. Len(inbox[k]) /\ inbox'[k][i] = inbox[k][i]
         \/ /\ i = Len(inbox[k]) + 1
            /\ inbox'[k][i] = DeltaFrame(sequence[k] + 1, cursor[k], r)
<1> DEFINE frame == DeltaFrame(sequence[k] + 1, cursor[k], r)
<1>1. inbox[k] \in Seq(Frame \cup Reply) /\ frame \in Frame \cup Reply
  BY MessageTypes DEF TypeOK, LinkTypes, SubscriberTypes
<1> HIDE DEF frame
<1> QED
  BY <1>1, AppendElements

(* Activation appends the result and the snapshot, ... *)
LEMMA ActivatedInbox ==
  ASSUME TypeOK, NEW k \in Handles, NEW r \in Revision, NEW i \in Nat,
         inbox'[k] = inbox[k] \o << ResultReply, SnapshotFrame(r) >>,
         i \in 1 .. Len(inbox'[k])
  PROVE  \/ i \in 1 .. Len(inbox[k]) /\ inbox'[k][i] = inbox[k][i]
         \/ i = Len(inbox[k]) + 1 /\ inbox'[k][i] = ResultReply
         \/ i = Len(inbox[k]) + 2 /\ inbox'[k][i] = SnapshotFrame(r)
<1> DEFINE pair == << ResultReply, SnapshotFrame(r) >>
<1>1. /\ inbox[k] \in Seq(Frame \cup Reply) /\ pair \in Seq(Frame \cup Reply)
      /\ Len(pair) = 2 /\ pair[1] = ResultReply /\ pair[2] = SnapshotFrame(r)
  BY MessageTypes DEF TypeOK, LinkTypes
<1> HIDE DEF pair
<1> QED
  BY <1>1, ConcatPair

(* ... delivery removes the head, ... *)
LEMMA TakenInbox ==
  ASSUME TypeOK, NEW k \in Handles, TakenAt(k), NEW i \in Nat,
         i \in 1 .. Len(inbox'[k])
  PROVE  i + 1 \in 1 .. Len(inbox[k]) /\ inbox'[k][i] = inbox[k][i + 1]
  BY HeadTailProperties DEF TypeOK, LinkTypes, TakenAt

(* ... and a refusal appends an error. *)
LEMMA RefusedInbox ==
  ASSUME TypeOK, NEW k \in Handles, RefusedAt(k), NEW i \in Nat,
         i \in 1 .. Len(inbox'[k])
  PROVE  \/ i \in 1 .. Len(inbox[k]) /\ inbox'[k][i] = inbox[k][i]
         \/ i = Len(inbox[k]) + 1 /\ inbox'[k][i] = ErrorReply
<1>1. inbox[k] \in Seq(Frame \cup Reply) /\ ErrorReply \in Frame \cup Reply
  BY MessageTypes DEF TypeOK, LinkTypes
<1> QED
  BY <1>1, AppendElements DEF RefusedAt

(* A message that is a frame has the fields of one. *)
LEMMA FrameTyped ==
  ASSUME TypeOK, NEW k \in Handles, NEW j \in 1 .. Len(inbox[k]),
         IsFrame(inbox[k][j])
  PROVE  inbox[k][j] \in Frame
<1>1. inbox[k][j] \in Frame \/ inbox[k][j] \in Reply
  BY DEF TypeOK, LinkTypes
<1>2. ASSUME NEW m \in Reply PROVE ~IsFrame(m)
  BY DEF Reply, IsFrame
<1> QED
  BY <1>1, <1>2

(* Every frame stays the step of the history its number says. *)
LEMMA WireStep ==
  ASSUME TypeOK, TypeOK', StreamInv, Next
  PROVE  WireInv'
<1> SUFFICES ASSUME NEW k \in Handles, Served(k)',
                    NEW j \in 1 .. Len(inbox'[k]), IsFrame(inbox'[k][j])
             PROVE  /\ FrameAgrees(inbox'[k][j], sequence'[k], sent'[k])
                    /\ inbox'[k][j].kind = "snapshot" =>
                         \A i \in 1 .. j - 1 : ~IsFrame(inbox'[k][i])
  BY DEF WireInv, WireOK, IsFrame
<1>1. j \in Nat /\ StepAt(k)
  BY StepOfNext DEF TypeOK, LinkTypes
<1>2. WireOK(k) /\ HistoryOK(k)
  BY DEF StreamInv, WireInv, HistoryInv
<1>3. CASE QuietAt(k)
  BY <1>2, <1>3 DEF QuietAt, WireOK, FrameAgrees
<1>4. CASE TakenAt(k)
  <2>1. Served(k) /\ inbox'[k][j] = inbox[k][j + 1]
        /\ j + 1 \in 1 .. Len(inbox[k])
    BY <1>1, <1>4, TakenInbox DEF TakenAt, Served
  <2>2. ASSUME NEW i \in 1 .. j - 1
        PROVE  inbox'[k][i] = inbox[k][i + 1] /\ i + 1 \in 1 .. (j + 1) - 1
    <3>1. i \in Nat /\ i \in 1 .. Len(inbox'[k])
      BY <1>1, <2>2 DEF TypeOK, LinkTypes
    <3> QED
      BY <1>1, <1>4, <3>1, TakenInbox
  <2> QED
    BY <1>1, <1>2, <1>4, <2>1, <2>2 DEF TakenAt, WireOK, FrameAgrees
<1>5. CASE RefusedAt(k) \/ LostAt(k)
  BY <1>5 DEF RefusedAt, LostAt, Served
<1>6. CASE ActivatedAt(k)
  <2>1. PICK r \in Revision :
          /\ NoFrames(k) /\ sequence'[k] = 0 /\ sent'[k] = << r >>
          /\ inbox'[k] = inbox[k] \o << ResultReply, SnapshotFrame(r) >>
    BY <1>6 DEF ActivatedAt
  <2>2. j = Len(inbox[k]) + 2 /\ inbox'[k][j] = SnapshotFrame(r)
    BY <1>1, <2>1, ActivatedInbox, MessageKinds DEF NoFrames
  <2>3. FrameAgrees(inbox'[k][j], sequence'[k], sent'[k])
    BY <2>1, <2>2, MessageKinds DEF FrameAgrees
  <2>4. ASSUME NEW i \in 1 .. j - 1 PROVE ~IsFrame(inbox'[k][i])
    <3>1. i \in Nat /\ i \in 1 .. Len(inbox'[k]) /\ i # Len(inbox[k]) + 2
      BY <1>1, <2>2, <2>4 DEF TypeOK, LinkTypes
    <3> QED
      BY <2>1, <3>1, ActivatedInbox, MessageKinds DEF NoFrames
  <2> QED
    BY <2>3, <2>4
<1>7. CASE ExtendedAt(k)
  <2>1. PICK r \in Revision :
          /\ phase[k] = "ready" /\ cursor[k] < r
          /\ sequence'[k] = sequence[k] + 1 /\ sent'[k] = Append(sent[k], r)
          /\ \/ inbox'[k] = inbox[k]
             \/ inbox'[k] = Append(inbox[k],
                                   DeltaFrame(sequence[k] + 1, cursor[k], r))
    BY <1>7 DEF ExtendedAt
  <2>2. /\ Served(k) /\ sequence[k] \in Nat /\ sent[k] \in Seq(Revision)
        /\ Len(sent[k]) = sequence[k] + 1 /\ sent[k][sequence[k] + 1] = cursor[k]
    BY <1>2, <2>1 DEF Served, HistoryOK, TypeOK, SubscriberTypes
  <2>3. /\ \A n \in 1 .. sequence[k] + 1 : sent'[k][n] = sent[k][n]
        /\ sent'[k][sequence[k] + 2] = r
    BY <2>1, <2>2, AppendElements
  <2>4. CASE j \in 1 .. Len(inbox[k]) /\ inbox'[k][j] = inbox[k][j]
    <3>1. FrameAgrees(inbox[k][j], sequence[k], sent[k]) /\ inbox[k][j] \in Frame
      BY <1>2, <2>2, <2>4, FrameTyped DEF WireOK
    <3>2. FrameAgrees(inbox'[k][j], sequence'[k], sent'[k])
      <4> DEFINE f == inbox[k][j]
      <4>1. f.seq \in Nat /\ f.seq <= sequence[k]
        BY <3>1 DEF FrameAgrees, Frame
      <4> DEFINE n == f.seq
      <4> HIDE DEF n
      <4>2. n \in Nat /\ n <= sequence[k]
        BY <4>1 DEF n
      <4>3. n + 1 \in 1 .. sequence[k] + 1 /\ (n > 0 => n \in 1 .. sequence[k] + 1)
        BY <2>2, <4>2
      <4>4. /\ sent'[k][n + 1] = sent[k][n + 1]
            /\ n > 0 => sent'[k][n] = sent[k][n]
        BY <2>3, <4>3
      <4>5. n <= sequence'[k]
        BY <2>1, <2>2, <4>2
      <4>6. FrameAgrees(f, sequence'[k], sent'[k])
        BY <3>1, <4>4, <4>5 DEF FrameAgrees, n
      <4> QED
        BY <2>4, <4>6 DEF f
    <3>3. ASSUME NEW i \in 1 .. j - 1 PROVE inbox'[k][i] = inbox[k][i]
      <4>1. i \in Nat /\ i \in 1 .. Len(inbox'[k]) /\ i # Len(inbox[k]) + 1
        BY <1>1, <2>4 DEF TypeOK, LinkTypes
      <4> QED
        BY <2>1, <4>1, ExtendedInbox
    <3> QED
      BY <1>2, <2>2, <2>4, <3>2, <3>3 DEF WireOK
  <2>5. CASE inbox'[k][j] = DeltaFrame(sequence[k] + 1, cursor[k], r)
    <3>1. /\ inbox'[k][j].kind = "delta" /\ inbox'[k][j].rev = r
          /\ inbox'[k][j].seq = sequence[k] + 1 /\ inbox'[k][j].base = cursor[k]
      BY <2>2, <2>5 DEF DeltaFrame
    <3> QED
      BY <2>1, <2>2, <2>3, <3>1 DEF FrameAgrees
  <2> QED
    BY <1>1, <2>1, <2>4, <2>5, ExtendedInbox
<1> QED
  BY <1>1, <1>3, <1>4, <1>5, <1>6, <1>7 DEF StepAt

(* The frames of a subscription stay in sequence. *)
LEMMA OrderStep ==
  ASSUME TypeOK, TypeOK', StreamInv, Next
  PROVE  FramesInSequence'
<1>1. \A k \in Handles : NumberedByHub(k)'
  BY WireStep DEF WireInv, WireOK, NumberedByHub, FrameAgrees, Served
<1> SUFFICES ASSUME NEW k \in Handles,
                    NEW i \in 1 .. Len(inbox'[k]), NEW j \in 1 .. Len(inbox'[k]),
                    i < j, IsFrame(inbox'[k][i]), IsFrame(inbox'[k][j])
             PROVE  inbox'[k][i].seq < inbox'[k][j].seq
  BY <1>1 DEF FramesInSequence, InOrder, IsFrame
<1>2. i \in Nat /\ j \in Nat /\ StepAt(k) /\ Len(inbox[k]) \in Nat
  BY StepOfNext DEF TypeOK, LinkTypes
<1>3. InOrder(k) /\ WireOK(k)
  BY DEF StreamInv, WireInv, FramesInSequence
<1>4. CASE QuietAt(k)
  BY <1>3, <1>4 DEF QuietAt, InOrder
<1>5. CASE TakenAt(k)
  <2>1. i + 1 \in 1 .. Len(inbox[k]) /\ inbox'[k][i] = inbox[k][i + 1]
    BY <1>2, <1>5, TakenInbox
  <2>2. j + 1 \in 1 .. Len(inbox[k]) /\ inbox'[k][j] = inbox[k][j + 1]
    BY <1>2, <1>5, TakenInbox
  <2>3. IsFrame(inbox[k][i + 1]) /\ IsFrame(inbox[k][j + 1])
    BY <2>1, <2>2
  <2>4. i + 1 < j + 1
    BY <1>2
  <2>5. inbox[k][i + 1].seq < inbox[k][j + 1].seq
    BY <1>3, <2>1, <2>2, <2>3, <2>4 DEF InOrder
  <2> QED
    BY <2>1, <2>2, <2>5
<1>6. CASE RefusedAt(k)
  BY <1>2, <1>3, <1>6, RefusedInbox, MessageKinds DEF InOrder
<1>7. CASE LostAt(k)
  BY <1>7 DEF LostAt
<1>8. CASE ActivatedAt(k)
  <2>1. PICK r \in Revision :
          /\ NoFrames(k)
          /\ inbox'[k] = inbox[k] \o << ResultReply, SnapshotFrame(r) >>
    BY <1>8 DEF ActivatedAt
  <2>2. i = Len(inbox[k]) + 2 /\ j = Len(inbox[k]) + 2
    BY <1>2, <2>1, ActivatedInbox, MessageKinds DEF NoFrames
  <2> QED
    BY <1>2, <2>2
<1>9. CASE ExtendedAt(k)
  <2>1. PICK r \in Revision :
          /\ phase[k] = "ready"
          /\ \/ inbox'[k] = inbox[k]
             \/ inbox'[k] = Append(inbox[k],
                                   DeltaFrame(sequence[k] + 1, cursor[k], r))
    BY <1>9 DEF ExtendedAt
  <2>2. i \in 1 .. Len(inbox[k]) /\ inbox'[k][i] = inbox[k][i]
    BY <1>2, <2>1, ExtendedInbox
  <2>3. CASE j \in 1 .. Len(inbox[k]) /\ inbox'[k][j] = inbox[k][j]
    BY <1>3, <2>2, <2>3 DEF InOrder
  <2>4. CASE inbox'[k][j] = DeltaFrame(sequence[k] + 1, cursor[k], r)
    <3>1. inbox[k][i].seq <= sequence[k] /\ inbox[k][i] \in Frame
      BY <1>3, <2>1, <2>2, FrameTyped DEF WireOK, Served, FrameAgrees
    <3>2. inbox'[k][j].seq = sequence[k] + 1 /\ sequence[k] \in Nat
      BY <2>4 DEF DeltaFrame, TypeOK, SubscriberTypes
    <3> QED
      BY <2>2, <3>1, <3>2 DEF Frame
  <2> QED
    BY <1>2, <2>1, <2>3, <2>4, ExtendedInbox
<1> QED
  BY <1>2, <1>4, <1>5, <1>6, <1>7, <1>8, <1>9 DEF StepAt

(* Nothing becomes newer than the coordinator's state. *)
LEMMA ReachedStep ==
  ASSUME TypeOK, TypeOK', StreamInv, Next
  PROVE  ReachedInv'
<1> ReachedInv /\ HistoryInv
  BY DEF StreamInv
<1> USE DEF TypeOK, ServerTypes, SubscriberTypes, ReachedInv
<1>1. ASSUME UNCHANGED <<revision, cache, inflight, built, cursor>>
      PROVE  ReachedInv'
  BY <1>1
<1>2. ASSUME NEW h \in Handles, PrepareFromCache(h) PROVE ReachedInv'
  BY <1>2 DEF PrepareFromCache, CacheHit, Activate
<1>3. ASSUME NEW h \in Handles, PrepareResumes(h) PROVE ReachedInv'
  BY <1>3 DEF PrepareResumes, Activate
<1>4. ASSUME NEW h \in Handles, PrepareByBuilding(h) PROVE ReachedInv'
  BY <1>4 DEF PrepareByBuilding
<1>5. ASSUME NEW h \in Handles, DeltaJobCompletes(h) PROVE ReachedInv'
  <2>1. JobApplies(h) => job[h].rev <= revision
    BY <1>5 DEF DeltaJobCompletes, JobApplies, HistoryInv, HistoryOK
  <2>2. cursor' = [cursor EXCEPT ![h] = IF JobApplies(h) THEN job[h].rev ELSE @]
        /\ UNCHANGED <<revision, cache, inflight, built>>
    BY <1>5 DEF DeltaJobCompletes
  <2> QED
    BY <2>1, <2>2
<1>6. CASE BuildCompletes
  BY <1>6 DEF BuildCompletes
<1>7. CASE CoordinatorUpdate
  BY <1>7 DEF CoordinatorUpdate, SendCurrentDeltas
<1>8. CASE Heartbeat
  BY <1>8 DEF Heartbeat, SendCurrentDeltas
<1>9. CASE RemoveHub \/ BuildFails \/ CacheExpires
  <2>1. /\ UNCHANGED <<revision, built, cursor>>
        /\ cache' = cache \/ cache' = NoRevision
        /\ inflight' = inflight \/ inflight' = NoRevision
    BY <1>9 DEF RemoveHub, BuildFails, CacheExpires
  <2> QED
    BY <2>1
<1>10. ASSUME NEW h \in Handles,
              \/ ServeSubscribe(h) \/ ServeUnsubscribe(h) \/ DeltaJobStarts(h)
              \/ DeliverResult(h) \/ PromiseResolves(h) \/ DeliverError(h)
              \/ DeliverSnapshot(h) \/ DeliverDelta(h) \/ DiscardFrame(h)
       PROVE  ReachedInv'
  <2>1. UNCHANGED <<revision, cache, inflight, built, cursor>>
    BY <1>10 DEF ServeSubscribe, ServeUnsubscribe, DeltaJobStarts, DeliverResult,
      PromiseResolves, DeliverError, DeliverSnapshot, DeliverDelta, DiscardFrame
  <2> QED
    BY <1>1, <2>1
<1>11. CASE \/ AddEntity \/ InstallHub \/ HassSetsMapState \/ ResyncTimer
            \/ RetryTimer \/ Reconnect \/ UnloadPlatforms \/ HassSetsOtherState
            \/ Drop \/ Detach \/ Attach
  <2>1. UNCHANGED <<revision, cache, inflight, built, cursor>>
    BY <1>11 DEF AddEntity, InstallHub, HassSetsMapState, ResyncTimer, RetryTimer,
      Reconnect, UnloadPlatforms, HassSetsOtherState, Drop, Detach, Attach
  <2> QED
    BY <1>1, <2>1
<1> QED
  BY <1>2, <1>3, <1>4, <1>5, <1>6, <1>7, <1>8, <1>9, <1>10, <1>11
  DEF Next, HubStep, BrowserStep, Environment

(* A delta being built that was not overtaken goes on from the cursor. *)
JobOK(h) ==
  worker[h] = "building" /\ job[h].valid
    => /\ job[h].base = cursor[h] /\ job[h].seq = sequence[h] + 1
       /\ job[h].base <= job[h].rev /\ job[h].rev <= revision

(* A captured delta that was not overtaken still starts at the cursor. *)
LEMMA JobStep ==
  ASSUME TypeOK, TypeOK', StreamInv, Next, NEW k \in Handles
  PROVE  JobOK(k)'
<1> HandleInv /\ ReachedInv /\ JobOK(k)
  BY DEF StreamInv, HistoryInv, HistoryOK, JobOK
<1>1. ASSUME worker'[k] = worker[k], job'[k] = job[k], cursor'[k] = cursor[k],
             sequence'[k] = sequence[k], UNCHANGED revision
      PROVE  JobOK(k)'
  BY <1>1 DEF JobOK
<1>2. ASSUME worker'[k] # "building" PROVE JobOK(k)'
  BY <1>2 DEF JobOK
<1> USE DEF TypeOK, SubscriberTypes
<1>3. ASSUME NEW h \in Handles, ServeUnsubscribe(h) PROVE JobOK(k)'
  BY <1>1, <1>2, <1>3 DEF ServeUnsubscribe
<1>4. ASSUME NEW h \in Handles, PrepareFromCache(h) \/ PrepareResumes(h)
      PROVE  JobOK(k)'
  BY <1>1, <1>2, <1>4 DEF PrepareFromCache, PrepareResumes, Activate
<1>5. ASSUME NEW h \in Handles, DeltaJobStarts(h) PROVE JobOK(k)'
  <2>1. CASE k = h
    <3>1. job' = [job EXCEPT ![h] = [base |-> cursor[h], rev |-> revision,
                                    seq |-> sequence[h] + 1, valid |-> TRUE]]
          /\ UNCHANGED <<revision, cursor, sequence>>
      BY <1>5 DEF DeltaJobStarts
    <3>2. /\ job'[h].base = cursor[h] /\ job'[h].rev = revision
          /\ job'[h].seq = sequence[h] + 1
      BY <3>1
    <3>3. cursor[h] <= revision /\ revision <= revision
      BY DEF ReachedInv, ServerTypes
    <3> QED
      BY <2>1, <3>1, <3>2, <3>3 DEF JobOK
  <2>2. CASE k # h
    BY <1>1, <1>5, <2>2 DEF DeltaJobStarts
  <2> QED
    BY <2>1, <2>2
<1>6. ASSUME NEW h \in Handles, DeltaJobCompletes(h) PROVE JobOK(k)'
  BY <1>1, <1>2, <1>6 DEF DeltaJobCompletes
<1>7. CASE RemoveHub \/ Drop
  BY <1>2, <1>7 DEF RemoveHub, Drop
<1>8. ASSUME NEW r \in Revision, NEW lost, SendCurrentDeltas(r, lost),
             UNCHANGED worker
      PROVE  JobOK(k)'
  <2>1. worker[k] = "building" => phase[k] = "ready"
    BY DEF HandleInv, HandleOK
  <2>2. phase[k] = "ready" => job'[k] = Overtaken(job[k])
    BY <1>8 DEF SendCurrentDeltas
  <2>3. job'[k] = Overtaken(job[k]) => ~job'[k].valid
    BY DEF Overtaken
  <2> QED
    BY <1>8, <2>1, <2>2, <2>3 DEF JobOK
<1>9. CASE CoordinatorUpdate \/ Heartbeat
  BY <1>8, <1>9 DEF CoordinatorUpdate, Heartbeat, ServerTypes
<1>10. CASE BuildCompletes \/ BuildFails
  BY <1>1, <1>10 DEF BuildCompletes, BuildFails
<1>11. ASSUME NEW h \in Handles,
              \/ ServeSubscribe(h) \/ PrepareByBuilding(h)
              \/ DeliverResult(h) \/ PromiseResolves(h) \/ DeliverError(h)
              \/ DeliverSnapshot(h) \/ DeliverDelta(h) \/ DiscardFrame(h)
       PROVE  JobOK(k)'
  <2>1. UNCHANGED <<revision, worker, job, cursor, sequence>>
    BY <1>11 DEF ServeSubscribe, PrepareByBuilding, DeliverResult,
      PromiseResolves, DeliverError, DeliverSnapshot, DeliverDelta, DiscardFrame
  <2> QED
    BY <1>1, <2>1
<1>12. CASE \/ AddEntity \/ InstallHub \/ HassSetsMapState \/ ResyncTimer
            \/ RetryTimer \/ Reconnect \/ CacheExpires \/ UnloadPlatforms
            \/ HassSetsOtherState \/ Detach \/ Attach
  <2>1. UNCHANGED <<revision, worker, job, cursor, sequence>>
    BY <1>12 DEF AddEntity, InstallHub, HassSetsMapState, ResyncTimer, RetryTimer,
      Reconnect, CacheExpires, UnloadPlatforms, HassSetsOtherState, Detach, Attach
  <2> QED
    BY <1>1, <2>1
<1> QED
  BY <1>3, <1>4, <1>5, <1>6, <1>7, <1>9, <1>10, <1>11, <1>12
  DEF Next, HubStep, BrowserStep, Environment

(* The history of a served subscription keeps ending at the cursor. *)
LEMMA HistoryStep ==
  ASSUME TypeOK, TypeOK', StreamInv, Next
  PROVE  HistoryInv'
<1> SUFFICES ASSUME NEW k \in Handles, Served(k)'
             PROVE  /\ Len(sent'[k]) = sequence'[k] + 1
                    /\ sent'[k][sequence'[k] + 1] = cursor'[k]
                    /\ \A n \in 1 .. Len(sent'[k]) : sent'[k][n] <= revision'
  BY JobStep DEF HistoryInv, HistoryOK, JobOK
<1>1. StepAt(k) /\ HistoryOK(k)
  BY StepOfNext DEF StreamInv, HistoryInv
<1>2. /\ revision \in Int /\ revision' \in Int /\ revision <= revision'
      /\ sent[k] \in Seq(Revision) /\ sequence[k] \in Nat
      /\ \A n \in 1 .. Len(sent[k]) : sent[k][n] \in Int
  BY <1>1 DEF StepAt, TypeOK, ServerTypes, SubscriberTypes
<1>3. CASE QuietAt(k)
  BY <1>1, <1>2, <1>3 DEF QuietAt, HistoryOK
<1>4. CASE TakenAt(k)
  BY <1>1, <1>2, <1>4 DEF TakenAt, HistoryOK, Served
<1>5. CASE RefusedAt(k) \/ LostAt(k)
  BY <1>5 DEF RefusedAt, LostAt, Served
<1>6. CASE ActivatedAt(k)
  BY <1>2, <1>6 DEF ActivatedAt
<1>7. CASE ExtendedAt(k)
  <2>1. PICK r \in Revision :
          /\ phase[k] = "ready" /\ r <= revision' /\ cursor'[k] = r
          /\ sequence'[k] = sequence[k] + 1 /\ sent'[k] = Append(sent[k], r)
    BY <1>7 DEF ExtendedAt
  <2>2. Len(sent[k]) = sequence[k] + 1
        /\ \A n \in 1 .. Len(sent[k]) : sent[k][n] <= revision'
    BY <1>1, <1>2, <2>1 DEF HistoryOK, Served
  <2>3. /\ Len(sent'[k]) = sequence[k] + 2
        /\ \A n \in 1 .. sequence[k] + 1 : sent'[k][n] = sent[k][n]
        /\ sent'[k][sequence[k] + 2] = r
    BY <1>2, <2>1, <2>2, AppendElements
  <2>4. ASSUME NEW n \in 1 .. Len(sent'[k]) PROVE sent'[k][n] <= revision'
    <3>1. n \in 1 .. sequence[k] + 1 \/ n = sequence[k] + 2
      BY <1>2, <2>3
    <3> QED
      BY <2>1, <2>2, <2>3, <3>1
  <2>5. Len(sent'[k]) = sequence'[k] + 1 /\ sequence'[k] + 1 = sequence[k] + 2
    BY <1>2, <2>1, <2>3
  <2> QED
    BY <2>1, <2>3, <2>4, <2>5
<1> QED
  BY <1>1, <1>3, <1>4, <1>5, <1>6, <1>7 DEF StepAt

(* What any step does to the card: nothing, a subscription given up or begun,
   a snapshot or the next delta. *)
CardStopped == current' = NoHandle /\ view' = NoRevision
CardStarted ==
  \E h \in Handles : current' = h /\ ~Served(h)' /\ view' = NoRevision
CardFollows(h) == DeliverDelta(h) /\ InSequence(Head(inbox[h]).seq)
CardStep ==
  \/ UNCHANGED <<current, cardSequence, view>>
  \/ UNCHANGED revision /\ CardStopped
  \/ UNCHANGED revision /\ CardStarted
  \/ \E h \in Handles : DeliverSnapshot(h)
  \/ \E h \in Handles : CardFollows(h)

(* ensureLiveSubscription follows no delta. *)
LEMMA EnsureCard ==
  ASSUME NEW live, NEW retrying, Ensure(live, retrying), UNCHANGED <<revision, phase>>
  PROVE  CardStep
<1>1. ASSUME NEW h \in Handles, Free(h), current' = h, ResetLiveState
      PROVE  CardStep
  BY <1>1 DEF CardStep, CardStarted, Free, Served, ResetLiveState
<1> QED
  BY <1>1 DEF Ensure, CardStep, CardStopped, StopSubscription, ResetLiveState

(* What a step does to the card is one of these. *)
LEMMA CardOfNext ==
  ASSUME TypeOK, StreamInv, Next
  PROVE  CardStep
<1>1. CASE HubStep
  BY <1>1 DEF HubStep, ServeSubscribe, ServeUnsubscribe, PrepareFromCache,
    PrepareByBuilding, PrepareResumes, DeltaJobStarts, DeltaJobCompletes,
    BuildCompletes, RemoveHub, AddEntity, InstallHub, CardStep
<1>2. ASSUME NEW h \in Handles,
             DeliverResult(h) \/ PromiseResolves(h) \/ DeliverError(h)
               \/ DiscardFrame(h)
      PROVE  CardStep
  BY <1>2 DEF DeliverResult, PromiseResolves, DeliverError, DiscardFrame, CardStep
<1>3. ASSUME NEW h \in Handles, DeliverDelta(h) PROVE CardStep
  BY <1>3 DEF DeliverDelta, CardStep, CardFollows, CardStopped,
    ScheduleResubscribe, StopSubscription, ResetLiveState
<1>4. CASE HassSetsMapState \/ HassSetsOtherState \/ ResyncTimer \/ RetryTimer
  <2>1. (\E live, retrying : Ensure(live, retrying)) /\ UNCHANGED <<revision, phase>>
    BY <1>4 DEF HassSetsMapState, HassSetsOtherState, ResyncTimer, RetryTimer
  <2> QED
    BY <2>1, EnsureCard
<1>5. CASE Detach
  BY <1>5 DEF Detach, CardStep, CardStopped, StopSubscription, ResetLiveState
<1>6. CASE Reconnect
  BY <1>6 DEF Reconnect, CardStep
<1>7. CASE CoordinatorUpdate \/ Heartbeat \/ BuildFails \/ CacheExpires
             \/ UnloadPlatforms \/ Drop \/ Attach
  BY <1>7 DEF CoordinatorUpdate, Heartbeat, BuildFails, CacheExpires,
    UnloadPlatforms, Drop, Attach, CardStep
<1> QED
  BY <1>1, <1>2, <1>3, <1>4, <1>5, <1>6, <1>7
  DEF Next, BrowserStep, Environment, CardStep

(* A frame at the head of the inbox of the card's subscription is one of the
   frames of a served subscription. *)
LEMMA HeadFrame ==
  ASSUME TypeOK, StreamInv, NEW h \in Handles, inbox[h] # <<>>,
         IsFrame(Head(inbox[h])), lib[h] # "none"
  PROVE  /\ Served(h) /\ Head(inbox[h]) = inbox[h][1] /\ inbox[h][1] \in Frame
         /\ 1 \in 1 .. Len(inbox[h])
         /\ FrameAgrees(inbox[h][1], sequence[h], sent[h])
         /\ \A j \in 2 .. Len(inbox[h]) : inbox[h][j].kind # "snapshot"
<1>1. Head(inbox[h]) = inbox[h][1] /\ 1 \in 1 .. Len(inbox[h])
  BY DEF TypeOK, LinkTypes
<1>2. Served(h)
  BY <1>1 DEF StreamInv, HandleInv, HandleOK, NoFrames
<1>3. WireOK(h)
  BY DEF StreamInv, WireInv
<1>4. inbox[h][1] \in Frame /\ FrameAgrees(inbox[h][1], sequence[h], sent[h])
  BY <1>1, <1>2, <1>3, FrameTyped DEF WireOK
<1>5. ASSUME NEW j \in 2 .. Len(inbox[h]) PROVE inbox[h][j].kind # "snapshot"
  <2>1. j \in 1 .. Len(inbox[h]) /\ 1 \in 1 .. j - 1
    BY <1>1, <1>5 DEF TypeOK, LinkTypes
  <2> QED
    BY <1>1, <1>2, <1>3, <2>1 DEF WireOK, IsFrame
<1> QED
  BY <1>1, <1>2, <1>4, <1>5

(* The next delta leads the card from what it shows to a later revision. *)
LEMMA FollowsForward ==
  ASSUME TypeOK, StreamInv, NEW h \in Handles, CardFollows(h)
  PROVE  /\ Served(h) /\ ~SnapshotPending(h)
         /\ cardSequence' \in 0 .. sequence[h]
         /\ view' = sent[h][cardSequence' + 1]
         /\ view < view' /\ view' <= revision /\ view' \in Revision
<1> DEFINE f == inbox[h][1]
<1>1. /\ inbox[h] # <<>> /\ Head(inbox[h]).kind = "delta" /\ lib[h] # "none"
      /\ current = h /\ InSequence(Head(inbox[h]).seq)
      /\ cardSequence' = Head(inbox[h]).seq
      /\ view' = Patched(view, Head(inbox[h]))
  BY DEF CardFollows, DeliverDelta, Arrives
<1>2. /\ Served(h) /\ Head(inbox[h]) = f /\ f \in Frame
      /\ FrameAgrees(f, sequence[h], sent[h])
      /\ \A j \in 2 .. Len(inbox[h]) : inbox[h][j].kind # "snapshot"
  BY <1>1, HeadFrame DEF IsFrame
<1>3. f.kind = "delta" /\ ~SnapshotPending(h)
  BY <1>1, <1>2 DEF SnapshotPending, TypeOK, LinkTypes
<1>4. CardOK(h) /\ HistoryOK(h)
  BY DEF StreamInv, CardInv, HistoryInv
<1>5. cardSequence \in 0 .. sequence[h] /\ view = sent[h][cardSequence + 1]
  BY <1>1, <1>2, <1>3, <1>4 DEF CardOK
<1> HIDE DEF f
<1>6. f.seq = cardSequence + 1 /\ cardSequence \in Nat
  BY <1>1, <1>2, <1>5 DEF InSequence, TypeOK, SubscriberTypes
<1>7. /\ f.seq <= sequence[h] /\ f.base = view /\ f.rev = sent[h][f.seq + 1]
      /\ f.base < f.rev /\ f.rev \in Revision
  BY <1>2, <1>3, <1>5, <1>6 DEF FrameAgrees, Frame
<1>8. view' = f.rev /\ cardSequence' = f.seq
  BY <1>1, <1>2, <1>7 DEF Patched
<1>9. f.seq + 1 \in 1 .. Len(sent[h])
  BY <1>2, <1>4, <1>6, <1>7 DEF HistoryOK, TypeOK, SubscriberTypes
<1>10. f.rev <= revision
  BY <1>2, <1>4, <1>7, <1>9 DEF HistoryOK
<1>11. cardSequence' \in 0 .. sequence[h]
  BY <1>6, <1>7, <1>8 DEF TypeOK, SubscriberTypes
<1> QED
  BY <1>2, <1>3, <1>7, <1>8, <1>10, <1>11

(* The snapshot starts the card at a revision the mower has had. *)
LEMMA SnapshotStarts ==
  ASSUME TypeOK, StreamInv, NEW h \in Handles, DeliverSnapshot(h)
  PROVE  /\ Served(h) /\ SnapshotPending(h) /\ Served(h)'
         /\ ~SnapshotPending(h)' /\ current = h /\ current' = h
         /\ cardSequence' = 0 /\ view' = sent[h][1]
         /\ view' \in Revision /\ view' <= revision
         /\ sequence' = sequence /\ sent' = sent /\ revision' = revision
<1> DEFINE f == inbox[h][1]
<1>1. /\ inbox[h] # <<>> /\ Head(inbox[h]).kind = "snapshot" /\ lib[h] # "none"
      /\ current = h /\ Take(h)
      /\ cardSequence' = Head(inbox[h]).seq /\ view' = Head(inbox[h]).rev
      /\ UNCHANGED <<current, revision, phase, sequence, sent>>
  BY DEF DeliverSnapshot, Arrives
<1>2. /\ Served(h) /\ Head(inbox[h]) = f /\ f \in Frame
      /\ 1 \in 1 .. Len(inbox[h])
      /\ FrameAgrees(f, sequence[h], sent[h])
      /\ \A j \in 2 .. Len(inbox[h]) : inbox[h][j].kind # "snapshot"
  BY <1>1, HeadFrame DEF IsFrame
<1>3. f.seq = 0 /\ f.rev = sent[h][1] /\ f.rev \in Revision
  BY <1>1, <1>2 DEF FrameAgrees, Frame
<1>4. SnapshotPending(h) /\ Served(h)'
  BY <1>1, <1>2 DEF SnapshotPending, Served
<1>5. ~SnapshotPending(h)'
  <2>1. \A i \in 1 .. Len(inbox'[h]) :
          i + 1 \in 2 .. Len(inbox[h]) /\ inbox'[h][i] = inbox[h][i + 1]
    BY <1>1, TakeFrames
  <2> QED
    BY <1>2, <2>1 DEF SnapshotPending
<1>6. HistoryOK(h)
  BY DEF StreamInv, HistoryInv
<1>7. 1 \in 1 .. Len(sent[h])
  BY <1>2, <1>6 DEF HistoryOK, TypeOK, SubscriberTypes
<1>8. sent[h][1] <= revision
  BY <1>2, <1>6, <1>7 DEF HistoryOK
<1> QED
  BY <1>1, <1>2, <1>3, <1>4, <1>5, <1>8

(* A step that leaves the card alone does not synchronise it. *)
LEMMA QuietSynced ==
  ASSUME TypeOK, StreamInv, Next, NEW k \in Handles, current = k,
         UNCHANGED <<current, cardSequence, view>>, Served(k)', ~SnapshotPending(k)'
  PROVE  \/ Served(k) /\ ~SnapshotPending(k)
         \/ DeliverSnapshot(k)
<1>1. StepAt(k) /\ Len(inbox[k]) \in Nat /\ inbox[k] \in Seq(Frame \cup Reply)
  BY StepOfNext DEF TypeOK, LinkTypes
<1>2. CASE QuietAt(k)
  BY <1>2 DEF QuietAt, SnapshotPending
<1>3. CASE TakenAt(k)
  <2>1. Served(k)
    BY <1>3 DEF TakenAt, Served
  <2>2. ASSUME NEW i \in 1 .. Len(inbox[k]), inbox[k][i].kind = "snapshot", i # 1
        PROVE  SnapshotPending(k)'
    <3>1. i - 1 \in 1 .. Len(inbox'[k]) /\ inbox'[k][i - 1] = inbox[k][i]
      BY <1>1, <1>3, <2>2, HeadTailProperties DEF TakenAt
    <3> QED
      BY <2>2, <3>1 DEF SnapshotPending
  <2>3. Head(inbox[k]) = inbox[k][1]
    BY <1>1, <1>3 DEF TakenAt
  <2> QED
    BY <1>3, <2>1, <2>2, <2>3 DEF TakenAt, SnapshotPending
<1>4. CASE RefusedAt(k) \/ LostAt(k)
  BY <1>4 DEF RefusedAt, LostAt, Served
<1>5. CASE ActivatedAt(k)
  <2> DEFINE last == Len(inbox[k]) + 2
  <2>1. PICK r \in Revision :
          inbox'[k] = inbox[k] \o << ResultReply, SnapshotFrame(r) >>
    BY <1>5 DEF ActivatedAt
  <2>2. << ResultReply, SnapshotFrame(r) >> \in Seq(Frame \cup Reply)
    BY MessageTypes
  <2>3. Len(inbox'[k]) = last /\ inbox'[k][last] = SnapshotFrame(r)
    BY <1>1, <2>1, <2>2, ConcatPair
  <2>4. last \in 1 .. Len(inbox'[k]) /\ inbox'[k][last].kind = "snapshot"
    BY <1>1, <2>3, MessageKinds
  <2> QED
    BY <2>4 DEF SnapshotPending
<1>6. CASE ExtendedAt(k)
  <2>1. PICK r \in Revision :
          /\ phase[k] = "ready"
          /\ \/ inbox'[k] = inbox[k]
             \/ inbox'[k] = Append(inbox[k],
                                   DeltaFrame(sequence[k] + 1, cursor[k], r))
    BY <1>6 DEF ExtendedAt
  <2>2. DeltaFrame(sequence[k] + 1, cursor[k], r) \in Frame \cup Reply
    BY MessageTypes DEF TypeOK, SubscriberTypes
  <2>3. \A i \in 1 .. Len(inbox[k]) :
          i \in 1 .. Len(inbox'[k]) /\ inbox'[k][i] = inbox[k][i]
    BY <1>1, <2>1, <2>2, AppendElements
  <2> QED
    BY <2>1, <2>3 DEF SnapshotPending, Served
<1> QED
  BY <1>1, <1>2, <1>3, <1>4, <1>5, <1>6 DEF StepAt

(* The card keeps showing the step of the history it counts. *)
LEMMA CardInvStep ==
  ASSUME TypeOK, TypeOK', StreamInv, Next
  PROVE  CardInv'
<1> SUFFICES ASSUME NEW k \in Handles, current' = k, Served(k)',
                    ~SnapshotPending(k)'
             PROVE  /\ cardSequence' \in 0 .. sequence'[k]
                    /\ view' = sent'[k][cardSequence' + 1]
  BY DEF CardInv, CardOK
<1>1. ASSUME NEW h \in Handles, DeliverSnapshot(h)
      PROVE  /\ cardSequence' \in 0 .. sequence'[k]
             /\ view' = sent'[k][cardSequence' + 1]
  <2>1. /\ current' = h /\ cardSequence' = 0 /\ view' = sent[h][1]
        /\ sequence' = sequence /\ sent' = sent
    BY <1>1, SnapshotStarts
  <2>2. k = h /\ sequence[k] \in Nat
    BY <2>1 DEF TypeOK, SubscriberTypes
  <2> QED
    BY <2>1, <2>2
<1>2. ASSUME NEW h \in Handles, CardFollows(h)
      PROVE  /\ cardSequence' \in 0 .. sequence'[k]
             /\ view' = sent'[k][cardSequence' + 1]
  <2>1. k = h /\ UNCHANGED <<sequence, sent>>
    BY <1>2 DEF CardFollows, DeliverDelta
  <2> QED
    BY <1>2, <2>1, FollowsForward
<1>3. CASE UNCHANGED <<current, cardSequence, view>>
  <2>1. CASE DeliverSnapshot(k)
    BY <1>1, <2>1
  <2>2. CASE Served(k) /\ ~SnapshotPending(k)
    <3>1. /\ cardSequence \in 0 .. sequence[k] /\ view = sent[k][cardSequence + 1]
          /\ HistoryOK(k) /\ StepAt(k) /\ sequence[k] \in Nat
          /\ sent[k] \in Seq(Revision)
      BY <1>3, <2>2, StepOfNext
      DEF StreamInv, CardInv, CardOK, HistoryInv, TypeOK, SubscriberTypes
    <3>2. CASE QuietAt(k) \/ TakenAt(k)
      BY <1>3, <3>1, <3>2 DEF QuietAt, TakenAt
    <3>3. CASE RefusedAt(k) \/ LostAt(k)
      BY <3>3 DEF RefusedAt, LostAt, Served
    <3>4. CASE ActivatedAt(k)
      BY <2>2, <3>4 DEF ActivatedAt
    <3>5. CASE ExtendedAt(k)
      <4>1. PICK r \in Revision :
              sequence'[k] = sequence[k] + 1 /\ sent'[k] = Append(sent[k], r)
        BY <3>5 DEF ExtendedAt
      <4>2. cardSequence + 1 \in 1 .. Len(sent[k])
        BY <2>2, <3>1 DEF HistoryOK
      <4>3. sent'[k][cardSequence + 1] = sent[k][cardSequence + 1]
        BY <3>1, <4>1, <4>2, AppendElements
      <4>4. cardSequence \in 0 .. sequence'[k]
        BY <3>1, <4>1
      <4> QED
        BY <1>3, <3>1, <4>3, <4>4
    <3> QED
      BY <3>1, <3>2, <3>3, <3>4, <3>5 DEF StepAt
  <2> QED
    BY <1>3, <2>1, <2>2, QuietSynced
<1>4. CASE CardStopped \/ CardStarted
  BY <1>4 DEF CardStopped, CardStarted
<1> QED
  BY <1>1, <1>2, <1>3, <1>4, CardOfNext DEF CardStep

(* No step garbles what the card shows. *)
LEMMA ViewStep ==
  ASSUME TypeOK, StreamInv, Next
  PROVE  NeverGarbled'
<1>1. ASSUME NEW h \in Handles, DeliverSnapshot(h) PROVE NeverGarbled'
  BY <1>1, SnapshotStarts DEF NeverGarbled
<1>2. ASSUME NEW h \in Handles, CardFollows(h) PROVE NeverGarbled'
  BY <1>2, FollowsForward DEF NeverGarbled
<1>3. CASE UNCHANGED <<current, cardSequence, view>>
  BY <1>3 DEF StreamInv, NeverGarbled
<1>4. CASE CardStopped \/ CardStarted
  BY <1>4 DEF CardStopped, CardStarted, NeverGarbled
<1> QED
  BY <1>1, <1>2, <1>3, <1>4, CardOfNext DEF CardStep

(* StreamInv is inductive, given the types. *)
LEMMA InvNext == TypeOK /\ TypeOK' /\ StreamInv /\ [Next]_vars => StreamInv'
<1> SUFFICES ASSUME TypeOK, TypeOK', StreamInv, [Next]_vars PROVE StreamInv'
  OBVIOUS
<1>1. CASE Next
  BY <1>1, HandleStep, ReachedStep, HistoryStep, WireStep, CardInvStep, ViewStep,
    OrderStep DEF StreamInv
<1>2. CASE UNCHANGED vars
  BY <1>2 DEF vars, StreamInv, HandleInv, HandleOK, Refused, NoFrames, Served,
    ReachedInv, HistoryInv, HistoryOK, WireInv, WireOK, CardInv, CardOK,
    SnapshotPending, NeverGarbled, FramesInSequence, NumberedByHub, InOrder
<1> QED
  BY <1>1, <1>2

(* The inductive invariant holds of every behaviour ... *)
THEOREM StreamInvariant == Spec => []StreamInv
<1> QED
  BY TypeInit, TypeCorrect, InvInit, InvNext, PTL DEF Spec

(* ... so a card never shows what no reported state looked like ... *)
THEOREM ViewNeverGarbled == Spec => []NeverGarbled
<1>1. StreamInv => NeverGarbled
  BY DEF StreamInv
<1> QED
  BY <1>1, StreamInvariant, PTL

(* ... and the frames of every subscription carry increasing numbers. *)
THEOREM FramesStayInSequence == Spec => []FramesInSequence
<1>1. StreamInv => FramesInSequence
  BY DEF StreamInv
<1> QED
  BY <1>1, StreamInvariant, PTL

-----------------------------------------------------------------------------
(* The stream implements LiveView. *)

(* Only an update of the coordinator changes the mower's state. *)
LEMMA RevisionSteps ==
  ASSUME Next, ~CoordinatorUpdate
  PROVE  UNCHANGED revision
<1>1. HubStep => UNCHANGED revision
  BY DEF HubStep, ServeSubscribe, ServeUnsubscribe, PrepareFromCache,
    PrepareByBuilding, PrepareResumes, DeltaJobStarts, DeltaJobCompletes,
    BuildCompletes, RemoveHub, AddEntity, InstallHub
<1>2. BrowserStep => UNCHANGED revision
  BY DEF BrowserStep, DeliverResult, PromiseResolves, DeliverError,
    DeliverSnapshot, DeliverDelta, DiscardFrame, HassSetsMapState, ResyncTimer,
    RetryTimer, Reconnect
<1>3. Environment => UNCHANGED revision
  BY DEF Environment, Heartbeat, BuildFails, CacheExpires, UnloadPlatforms,
    HassSetsOtherState, Drop, Detach, Attach
<1> QED
  BY <1>1, <1>2, <1>3 DEF Next

(* Every step is one of the abstract viewer, or none. *)
LEMMA ViewerStep ==
  ASSUME TypeOK, TypeOK', StreamInv, [Next]_vars
  PROVE  [LV!Next]_LV!vars
<1> USE DEF LV!Next, LV!vars, LV!Blank, LV!Advance, LV!Synchronise, LV!Follow,
      LV!LoseTrack
<1>1. CASE UNCHANGED vars
  BY <1>1 DEF vars, Synced, Served, SnapshotPending
<1>2. ASSUME Next, NEW h \in Handles, DeliverSnapshot(h)
      PROVE  [LV!Next]_LV!vars
  BY <1>2, SnapshotStarts DEF Synced, TypeOK, ServerTypes
<1>3. ASSUME Next, NEW h \in Handles, CardFollows(h)
      PROVE  [LV!Next]_LV!vars
  <2>1. /\ Served(h) /\ ~SnapshotPending(h) /\ view < view' /\ view' <= revision
        /\ view' \in Revision
    BY <1>3, FollowsForward
  <2>2. current = h /\ UNCHANGED <<current, revision, phase>> /\ inbox[h] # <<>>
        /\ Take(h)
    BY <1>3 DEF CardFollows, DeliverDelta, Arrives
  <2>3. ~SnapshotPending(h)'
    <3>1. \A i \in 1 .. Len(inbox'[h]) :
            i + 1 \in 1 .. Len(inbox[h]) /\ inbox'[h][i] = inbox[h][i + 1]
      BY <2>2, TakeFrames
    <3> QED
      BY <2>1, <3>1 DEF SnapshotPending
  <2>4. Synced /\ Synced'
    BY <2>1, <2>2, <2>3 DEF Synced, Served
  <2>5. view' \in view + 1 .. revision
    BY <2>1 DEF TypeOK, ServerTypes, CardTypes
  <2> QED
    BY <2>2, <2>4, <2>5
<1>4. CASE UNCHANGED revision /\ (CardStopped \/ CardStarted)
  <2>1. ~Synced' /\ view' = NoRevision
    BY <1>4 DEF CardStopped, CardStarted, Synced
  <2> QED
    BY <1>4, <2>1
<1>5. CASE Next /\ UNCHANGED <<current, cardSequence, view>>
           /\ ~(\E h \in Handles : DeliverSnapshot(h))
  <2>1. Synced' => Synced
    BY <1>5, QuietSynced DEF Synced
  <2>2. CASE CoordinatorUpdate
    <3>1. /\ revision < MaxRevision /\ revision' = revision + 1
          /\ UNCHANGED phase
      BY <2>2 DEF CoordinatorUpdate
    <3>2. PICK lost : SendCurrentDeltas(revision + 1, lost)
      BY <2>2 DEF CoordinatorUpdate
    <3>3. ASSUME NEW k \in Handles, SnapshotPending(k)' PROVE SnapshotPending(k)
      <4> DEFINE frame == DeltaFrame(sequence[k] + 1, cursor[k], revision + 1)
      <4>1. PICK i \in 1 .. Len(inbox'[k]) : inbox'[k][i].kind = "snapshot"
        BY <3>3 DEF SnapshotPending
      <4>2. inbox'[k] = inbox[k] \/ inbox'[k] = Append(inbox[k], frame)
        BY <3>2 DEF SendCurrentDeltas
      <4>3. /\ revision + 1 \in Revision /\ sequence[k] + 1 \in Nat
            /\ cursor[k] \in Revision /\ i \in Nat
        <5>1. revision + 1 \in Revision
          BY <3>1 DEF TypeOK, ServerTypes
        <5>2. sequence[k] + 1 \in Nat /\ cursor[k] \in Revision
          BY DEF TypeOK, SubscriberTypes
        <5> QED
          BY <4>1, <5>1, <5>2
      <4>4. frame.kind = "delta"
        BY <4>3, MessageKinds
      <4>5. i \in 1 .. Len(inbox[k]) /\ inbox'[k][i] = inbox[k][i]
        BY <4>1, <4>2, <4>3, <4>4, ExtendedInbox
      <4> QED
        BY <4>1, <4>5 DEF SnapshotPending
    <3>4. Synced => Synced'
      BY <1>5, <3>1, <3>3 DEF Synced, Served
    <3>5. Synced' = Synced
      BY <2>1, <3>4 DEF Synced
    <3> QED
      BY <1>5, <3>1, <3>5
  <2>3. CASE ~CoordinatorUpdate
    <3>1. UNCHANGED revision
      BY <1>5, <2>3, RevisionSteps
    <3>2. Synced' = Synced \/ ~Synced'
      BY <2>1 DEF Synced
    <3> QED
      BY <1>5, <3>1, <3>2
  <2> QED
    BY <2>2, <2>3
<1> QED
  BY <1>1, <1>2, <1>3, <1>4, <1>5, CardOfNext DEF CardStep

(* The stream implements the abstract viewer: the card shows whole states the
   mower has been in, and follows it forward between two snapshots. *)
THEOREM StreamImplementsLiveView == Spec => ImplementsLiveView
<1>1. Init => LV!Init
  BY DEF Init, LV!Init, LV!Blank, Synced
<1>2. TypeOK /\ TypeOK' /\ StreamInv /\ [Next]_vars => [LV!Next]_LV!vars
  BY ViewerStep
<1> QED
  BY <1>1, <1>2, TypeCorrect, StreamInvariant, PTL
  DEF Spec, ImplementsLiveView, LV!Spec
=============================================================================
