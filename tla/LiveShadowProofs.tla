-------------------------- MODULE LiveShadowProofs ---------------------------
(***************************************************************************)
(* What TLAPS proves of LiveShadow, for any fields, values, keys and       *)
(* bounds: the types, and that waiting telemetry always has its flush.     *)
(***************************************************************************)
EXTENDS LiveShadow, SequenceTheorems, TLAPS

(* What is known of documents: membership, and what a restriction or an update
   of one is. *)
LEMMA DocIs ==
  ASSUME NEW d
  PROVE  d \in Doc <=> /\ DOMAIN d \subseteq Fields
                       /\ d \in [DOMAIN d -> Values]
BY DEF Doc

LEMMA EmptyIsDoc == Empty \in Doc
<1>1. Empty \in [{} -> Values]
  BY DEF Empty
<1> QED
  BY <1>1 DEF Doc

LEMMA RestrictIsDoc ==
  ASSUME NEW d \in Doc, NEW S
  PROVE  Restrict(d, DOMAIN d \cap S) \in Doc
<1>1. DOMAIN d \subseteq Fields /\ d \in [DOMAIN d -> Values]
  BY DocIs
<1>2. Restrict(d, DOMAIN d \cap S) \in [DOMAIN d \cap S -> Values]
  BY <1>1 DEF Restrict
<1>3. DOMAIN d \cap S \in SUBSET Fields
  BY <1>1
<1> QED
  BY <1>2, <1>3 DEF Doc

LEMMA OverIsDoc ==
  ASSUME NEW new \in Doc, NEW old \in Doc
  PROVE  Over(new, old) \in Doc
<1>1. /\ DOMAIN new \subseteq Fields /\ new \in [DOMAIN new -> Values]
      /\ DOMAIN old \subseteq Fields /\ old \in [DOMAIN old -> Values]
  BY DocIs
<1>2. Over(new, old) \in [DOMAIN new \cup DOMAIN old -> Values]
  BY <1>1 DEF Over
<1>3. DOMAIN new \cup DOMAIN old \in SUBSET Fields
  BY <1>1
<1> QED
  BY <1>2, <1>3 DEF Doc

LEMMA MowerIsDoc ==
  ASSUME NEW m \in [Fields -> Values], NEW F \in SUBSET Fields
  PROVE  m \in Doc /\ Restrict(m, F) \in Doc
<1>1. m \in Doc
  BY DEF Doc
<1>2. Restrict(m, F) \in [F -> Values]
  BY DEF Restrict
<1> QED
  BY <1>1, <1>2 DEF Doc

LEMMA WireIsDocs ==
  /\ <<>> \in Seq(Doc)
  /\ \A d \in Doc : <<d>> \in Seq(Doc)
<1>1. <<>> \in Seq(Doc)
  BY EmptySeq
<1>2. ASSUME NEW D, NEW d \in D PROVE <<d>> \in Seq(D)
  OBVIOUS
<1> QED
  BY <1>1, <1>2

(* Collecting a fragment keeps documents documents. *)
LEMMA CollectedIsDoc ==
  ASSUME pending \in Doc, tele \in Doc, NEW d \in Doc
  PROVE  Changed(d) \in Doc /\ Collected(Changed(d)) \in Doc
<1>1. Changed(d) \in Doc
  <2> DEFINE S == {f \in DOMAIN d : At(d, KeyOf[f]) # Baseline(KeyOf[f])}
  <2>1. S = DOMAIN d \cap S
    OBVIOUS
  <2> HIDE DEF S
  <2>2. Restrict(d, S) \in Doc
    BY <2>1, RestrictIsDoc
  <2> QED
    BY <2>2 DEF Changed, S
<1> HIDE DEF Changed
<1>2. \A n \in Doc : Collected(n) \in Doc
  <2> TAKE n \in Doc
  <2> DEFINE S == {f \in DOMAIN pending : KeyOf[f] \notin KeysOf(n)}
  <2>1. S = DOMAIN pending \cap S
    OBVIOUS
  <2> HIDE DEF S
  <2>2. Restrict(pending, S) \in Doc
    BY <2>1, RestrictIsDoc
  <2>3. Over(n, Restrict(pending, S)) \in Doc
    BY <2>2, OverIsDoc
  <2> QED
    BY <2>3 DEF Collected, S
<1> QED
  BY <1>1, <1>2

-----------------------------------------------------------------------------
(* A published document and flag keep the types of what is published. *)
LEMMA TypePublish ==
  ASSUME NEW d \in Doc, NEW g \in Flag, Publish(d, g)
  PROVE  tele' \in Doc /\ shown' \in Flag /\ elapsed' \in 0 .. Interval - 1
BY LiveShadowAssumption DEF Publish, LiveShadowAssumption

LEMMA TypeConnection ==
  ASSUME TypeOK, NEW b \in BOOLEAN, HandleConnection(b)
  PROVE  /\ connected' \in BOOLEAN
         /\ tele' \in Doc /\ shown' \in Flag /\ elapsed' \in 0 .. Interval - 1
<1>1. connected' \in BOOLEAN
  BY Zenon DEF HandleConnection
<1>2. CASE shown = "unknown"
  BY <1>1, <1>2 DEF HandleConnection, TypeOK, dataVars
<1>3. CASE shown # "unknown"
  <2>1. Publish(tele, FlagOf(b)) /\ FlagOf(b) \in Flag /\ tele \in Doc
    BY <1>3 DEF HandleConnection, FlagOf, Flag, TypeOK
  <2> QED
    BY <1>1, <2>1, TypePublish
<1> QED
  BY <1>2, <1>3

LEMMA TypeFlushPublishes ==
  ASSUME NEW d \in Doc, NEW idle \in Flush, FlushPublishes(d, idle)
  PROVE  /\ tele' \in Doc /\ shown' \in Flag /\ elapsed' \in 0 .. Interval - 1
         /\ flush' \in Flush /\ flushDoc' \in Doc
<1>1. Publish(d, "up") /\ "up" \in Flag
  BY DEF FlushPublishes, Flag
<1>2. flush' \in Flush
  BY DEF FlushPublishes, Flush
<1>3. flushDoc' \in Doc
  BY EmptyIsDoc DEF FlushPublishes
<1> QED
  BY <1>1, <1>2, <1>3, TypePublish

LEMMA AgainType == Again \in Flush
BY DEF Again, Flush

(* Every variable keeps its type: steps of the mower and its session ... *)
LEMMA TypeOfSession ==
  ASSUME TypeOK,
         MowerReports \/ FullReport \/ LinkLost \/ ConnectionFails \/ Reconnects
  PROVE  TypeOK'
<1>1. CASE MowerReports
  <2>1. PICK f \in Fields, v \in Values :
          /\ mower' = [mower EXCEPT ![f] = v]
          /\ \/ UNCHANGED wire
             \/ \E F \in SUBSET Fields : wire' = Append(wire, Restrict(mower', F))
    BY <1>1 DEF MowerReports
  <2>2. mower' \in [Fields -> Values]
    BY <2>1 DEF TypeOK
  <2>3. wire' \in Seq(Doc)
    <3>1. CASE UNCHANGED wire
      BY <3>1 DEF TypeOK
    <3>2. ASSUME NEW F \in SUBSET Fields,
                 wire' = Append(wire, Restrict(mower', F))
          PROVE  wire' \in Seq(Doc)
      <4>1. Restrict(mower', F) \in Doc
        BY <2>2, MowerIsDoc
      <4> QED
        BY <3>2, <4>1, AppendProperties DEF TypeOK
    <3> QED
      BY <2>1, <3>1, <3>2
  <2> QED
    BY <1>1, <2>2, <2>3 DEF MowerReports, TypeOK, dataVars, flushVars, pollVars,
      probeVars
<1>2. CASE FullReport
  <2>1. mower \in Doc
    BY MowerIsDoc DEF TypeOK
  <2>2. wire' \in Seq(Doc)
    BY <1>2, <2>1, WireIsDocs, Zenon DEF FullReport, TypeOK
  <2> QED
    BY <1>2, <2>2 DEF FullReport, TypeOK, mowerVars, dataVars, flushVars,
      pollVars, probeVars
<1>3. CASE LinkLost
  <2>1. wire' \in Seq(Doc) /\ link' \in BOOLEAN
    BY <1>3, WireIsDocs, Zenon DEF LinkLost
  <2> QED
    BY <1>3, <2>1 DEF LinkLost, TypeOK, mowerVars, dataVars, flushVars, pollVars,
      probeVars
<1>4. CASE ConnectionFails
  <2>1. HandleConnection(FALSE)
    BY <1>4 DEF ConnectionFails
  <2>2. /\ connected' \in BOOLEAN
        /\ tele' \in Doc /\ shown' \in Flag /\ elapsed' \in 0 .. Interval - 1
    BY <2>1, TypeConnection
  <2> QED
    BY <1>4, <2>2 DEF ConnectionFails, TypeOK, mowerVars, flushVars, pollVars,
      probeVars
<1>5. CASE Reconnects
  <2>1. HandleConnection(TRUE)
    BY <1>5 DEF Reconnects
  <2>2. /\ connected' \in BOOLEAN
        /\ tele' \in Doc /\ shown' \in Flag /\ elapsed' \in 0 .. Interval - 1
    BY <2>1, TypeConnection
  <2>3. mower \in Doc
    BY MowerIsDoc DEF TypeOK
  <2>4. wire' \in Seq(Doc)
    BY <1>5, <2>3, WireIsDocs, Zenon DEF Reconnects
  <2> QED
    BY <1>5, <2>2, <2>4 DEF Reconnects, TypeOK, mowerVars, flushVars, pollVars,
      probeVars
<1> QED
  BY <1>1, <1>2, <1>3, <1>4, <1>5

(* ... of the fragments and their flush ... *)
LEMMA TypeOfFlush ==
  ASSUME TypeOK,
         \/ HandleFragment \/ FlushWakes \/ FlushLearned \/ FlushFails
         \/ FlushMirrors \/ FlushFetched
  PROVE  TypeOK'
<1> USE DEF mowerVars, linkVars, dataVars, flushVars, pollVars, probeVars
<1>1. CASE HandleFragment
  <2>1. Head(wire) \in Doc /\ wire' \in Seq(Doc)
    BY <1>1, HeadTailProperties DEF HandleFragment, TypeOK
  <2>2. Collected(Changed(Head(wire))) \in Doc
    BY <2>1, CollectedIsDoc DEF TypeOK
  <2>3. pending' \in Doc
    BY <1>1, <2>2 DEF HandleFragment
  <2>4. flush' \in Flush
    BY <1>1 DEF HandleFragment, TypeOK, Flush
  <2> QED
    BY <1>1, <2>1, <2>3, <2>4 DEF HandleFragment, TypeOK
<1>2. CASE FlushWakes
  <2>1. Over(pending, tele) \in Doc
    BY OverIsDoc DEF TypeOK
  <2>2. pending' \in Doc
    BY <1>2, EmptyIsDoc DEF FlushWakes
  <2>3. CASE FlushPublishes(Over(pending, tele), "none")
    <3>1. "none" \in Flush
      BY DEF Flush
    <3>2. /\ tele' \in Doc /\ shown' \in Flag
          /\ elapsed' \in 0 .. Interval - 1
          /\ flush' \in Flush /\ flushDoc' \in Doc
      BY <2>1, <2>3, <3>1, TypeFlushPublishes
    <3> QED
      BY <1>2, <2>2, <3>2 DEF FlushWakes, TypeOK
  <2>4. CASE flush' = "learning" /\ flushDoc' = Over(pending, tele)
             /\ UNCHANGED dataVars
    BY <1>2, <2>1, <2>2, <2>4 DEF FlushWakes, TypeOK, Flush
  <2> QED
    BY <1>2, <2>3, <2>4 DEF FlushWakes
<1>3. CASE FlushLearned
  <2>1. FlushPublishes(flushDoc, Again) /\ flushDoc \in Doc
    BY <1>3 DEF FlushLearned, TypeOK
  <2>2. /\ tele' \in Doc /\ shown' \in Flag /\ elapsed' \in 0 .. Interval - 1
        /\ flush' \in Flush /\ flushDoc' \in Doc
    BY <2>1, AgainType, TypeFlushPublishes
  <2> QED
    BY <1>3, <2>2 DEF FlushLearned, TypeOK
<1>4. CASE FlushFails
  BY <1>4, AgainType, EmptyIsDoc, LiveShadowAssumption
  DEF FlushFails, TypeOK, LiveShadowAssumption
<1>5. CASE FlushMirrors
  <2>1. Publish(flushDoc, "up") /\ flushDoc \in Doc /\ "up" \in Flag
    BY <1>5 DEF FlushMirrors, TypeOK, Flag
  <2>2. tele' \in Doc /\ shown' \in Flag /\ elapsed' \in 0 .. Interval - 1
    BY <2>1, TypePublish
  <2>3. flush' \in Flush /\ flushDoc' \in Doc
    BY <1>5, AgainType, EmptyIsDoc DEF FlushMirrors, Flush
  <2> QED
    BY <1>5, <2>2, <2>3 DEF FlushMirrors, TypeOK
<1>6. CASE FlushFetched
  <2>1. tele' \in Doc /\ shown' \in Flag /\ elapsed' \in 0 .. Interval - 1
    BY <1>6, TypePublish DEF FlushFetched, TypeOK
  <2> QED
    BY <1>6, <2>1, AgainType DEF FlushFetched, TypeOK
<1> QED
  BY <1>1, <1>2, <1>3, <1>4, <1>5, <1>6

(* ... of the poll, the probe and the world outside. *)
LEMMA TypeOfPoll ==
  ASSUME TypeOK,
         \/ Tick \/ RefreshRequested \/ PollRereads \/ PollCompletes
         \/ PollFails \/ ProbeStarts \/ ProbeCompletes \/ BecomesCalm
  PROVE  TypeOK'
<1> USE DEF mowerVars, linkVars, dataVars, flushVars, pollVars, probeVars
<1>1. CASE Tick
  <2>1. elapsed' \in 0 .. Interval - 1
    BY <1>1, LiveShadowAssumption DEF Tick, TypeOK, LiveShadowAssumption
  <2>2. asked' \in BOOLEAN /\ polling' \in BOOLEAN
    BY <1>1, Zenon DEF Tick, StartPoll, TypeOK
  <2>3. pollDoc' \in Doc
    BY <1>1 DEF Tick, StartPoll, TypeOK
  <2> QED
    BY <1>1, <2>1, <2>2, <2>3 DEF Tick, TypeOK
<1>2. CASE RefreshRequested
  <2>1. polling' \in BOOLEAN
    BY <1>2, Zenon DEF RefreshRequested, StartPoll
  <2> QED
    BY <1>2, <2>1 DEF RefreshRequested, StartPoll, TypeOK
<1>3. CASE PollRereads
  BY <1>3 DEF PollRereads, TypeOK
<1>4. CASE PollCompletes
  <2>1. Publish(pollDoc, FlagOf(connected)) /\ pollDoc \in Doc
    BY <1>4 DEF PollCompletes, TypeOK
  <2>2. FlagOf(connected) \in Flag
    BY DEF FlagOf, Flag
  <2>3. tele' \in Doc /\ shown' \in Flag /\ elapsed' \in 0 .. Interval - 1
    BY <2>1, <2>2, TypePublish
  <2>4. polling' \in BOOLEAN
    BY <1>4, Zenon DEF PollCompletes, PollEnds
  <2> QED
    BY <1>4, <2>3, <2>4, EmptyIsDoc DEF PollCompletes, PollEnds, TypeOK
<1>5. CASE PollFails
  <2>1. elapsed' \in 0 .. Interval - 1 /\ faults' \in 0 .. MaxFaults
    BY <1>5, LiveShadowAssumption DEF PollFails, TypeOK, LiveShadowAssumption
  <2>2. polling' \in BOOLEAN
    BY <1>5, Zenon DEF PollFails, PollEnds
  <2> QED
    BY <1>5, <2>1, <2>2, EmptyIsDoc DEF PollFails, PollEnds, TypeOK
<1>6. CASE ProbeStarts
  <2>1. probing' \in BOOLEAN
    BY <1>6, Zenon DEF ProbeStarts
  <2>2. probes' \in 0 .. MaxProbes
    BY <1>6, LiveShadowAssumption DEF ProbeStarts, TypeOK, LiveShadowAssumption
  <2> QED
    BY <1>6, <2>1, <2>2 DEF ProbeStarts, TypeOK
<1>7. CASE ProbeCompletes
  <2>1. Publish(probeDoc, probeShown) /\ probeDoc \in Doc /\ probeShown \in Flag
    BY <1>7 DEF ProbeCompletes, TypeOK
  <2>2. tele' \in Doc /\ shown' \in Flag /\ elapsed' \in 0 .. Interval - 1
    BY <2>1, TypePublish
  <2>3. probing' \in BOOLEAN
    BY <1>7, Zenon DEF ProbeCompletes
  <2>4. probeShown' \in Flag
    BY <1>7 DEF ProbeCompletes, Flag
  <2> QED
    BY <1>7, <2>2, <2>3, <2>4, EmptyIsDoc DEF ProbeCompletes, TypeOK
<1>8. CASE BecomesCalm
  <2>1. calm' \in BOOLEAN
    BY <1>8, Zenon DEF BecomesCalm
  <2> QED
    BY <1>8, <2>1 DEF BecomesCalm, TypeOK
<1> QED
  BY <1>1, <1>2, <1>3, <1>4, <1>5, <1>6, <1>7, <1>8

(* What every variable of the coordinator may hold. *)
THEOREM TypeCorrect == Spec => []TypeOK
<1>1. Init => TypeOK
  <2> SUFFICES ASSUME Init PROVE TypeOK
    OBVIOUS
  <2>1. /\ calm \in BOOLEAN /\ link \in BOOLEAN /\ asked \in BOOLEAN
        /\ connected \in BOOLEAN /\ polling \in BOOLEAN /\ probing \in BOOLEAN
    BY Zenon DEF Init
  <2>2. wire \in Seq(Doc)
    BY WireIsDocs, Zenon DEF Init
  <2>3. /\ tele \in Doc /\ pending \in Doc /\ flushDoc \in Doc
        /\ pollDoc \in Doc /\ probeDoc \in Doc
    BY EmptyIsDoc, Zenon DEF Init
  <2>4. /\ shown \in Flag /\ probeShown \in Flag /\ flush \in Flush
        /\ mower \in [Fields -> Values]
    BY DEF Init, Flag, Flush
  <2>5. /\ elapsed \in 0 .. Interval - 1
        /\ faults \in 0 .. MaxFaults /\ probes \in 0 .. MaxProbes
    BY LiveShadowAssumption DEF Init, LiveShadowAssumption
  <2> QED
    BY <2>1, <2>2, <2>3, <2>4, <2>5 DEF TypeOK
<1>2. TypeOK /\ [Next]_vars => TypeOK'
  <2> SUFFICES ASSUME TypeOK, [Next]_vars PROVE TypeOK'
    OBVIOUS
  <2>1. CASE Next
    BY <2>1, TypeOfSession, TypeOfFlush, TypeOfPoll DEF Next
  <2>2. CASE UNCHANGED vars
    BY <2>2 DEF TypeOK, vars, mowerVars, linkVars, dataVars, flushVars, pollVars,
      probeVars
  <2> QED
    BY <2>1, <2>2
<1> QED
  BY <1>1, <1>2, PTL DEF Spec

-----------------------------------------------------------------------------
(* Nothing is collected from a fragment without news. *)
LEMMA CollectedNothing ==
  ASSUME pending \in Doc
  PROVE  Collected(Empty) = pending
<1>1. DOMAIN Empty = {} /\ KeysOf(Empty) = {}
  BY DEF Empty, KeysOf
<1>2. pending = [f \in DOMAIN pending |-> pending[f]]
  BY DocIs
<1> QED
  BY <1>1, <1>2 DEF Collected, Over, Restrict

(* Telemetry waiting to be published always has a flush task that will do it:
   the handler starts one, and a task that ends, by the end of its loop or by an
   exception, starts over when something arrived while it awaited. *)
THEOREM WaitingIsFlushed == Spec => []PendingIsFlushed
<1>1. Init => PendingIsFlushed
  BY DEF Init, PendingIsFlushed
<1>2. TypeOK /\ PendingIsFlushed /\ [Next]_vars => PendingIsFlushed'
  <2> SUFFICES ASSUME TypeOK, PendingIsFlushed, [Next]_vars
               PROVE  PendingIsFlushed'
    OBVIOUS
  <2> USE DEF PendingIsFlushed, flushVars
  <2>1. CASE HandleFragment
    <3> DEFINE news == Changed(Head(wire))
    <3>1. /\ pending' = Collected(news)
          /\ flush' = IF news # Empty /\ flush = "none" THEN "sleep" ELSE flush
      BY <2>1 DEF HandleFragment
    <3>2. news = Empty => pending' = pending /\ flush' = flush
      BY <3>1, CollectedNothing DEF TypeOK
    <3>3. news # Empty => flush' # "none"
      BY <3>1
    <3> QED
      BY <3>2, <3>3
  <2>2. CASE FlushWakes
    BY <2>2 DEF FlushWakes
  <2>3. CASE FlushLearned \/ FlushFails \/ FlushMirrors \/ FlushFetched
    <3>1. flush' \in {"mirroring", "fetching", Again} /\ pending' = pending
      BY <2>3 DEF FlushLearned, FlushPublishes, FlushFails, FlushMirrors,
        FlushFetched
    <3> QED
      BY <3>1 DEF Again
  <2>4. CASE MowerReports \/ FullReport \/ LinkLost \/ ConnectionFails
             \/ Reconnects
    BY <2>4 DEF MowerReports, FullReport, LinkLost, ConnectionFails, Reconnects
  <2>5. CASE Tick \/ RefreshRequested \/ PollRereads \/ PollCompletes
             \/ PollFails \/ ProbeStarts \/ ProbeCompletes \/ BecomesCalm
    BY <2>5 DEF Tick, RefreshRequested, PollRereads, PollCompletes, PollFails,
      ProbeStarts, ProbeCompletes, BecomesCalm
  <2>6. CASE UNCHANGED vars
    BY <2>6 DEF vars
  <2> QED
    BY <2>1, <2>2, <2>3, <2>4, <2>5, <2>6 DEF Next
<1> QED
  BY <1>1, <1>2, TypeCorrect, PTL DEF Spec
=============================================================================
