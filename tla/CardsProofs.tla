---------------------------- MODULE CardsProofs ----------------------------
(***************************************************************************)
(* What TLAPS proves of the card.  Of CardButtons, for any cards and any    *)
(* number of edits, failures and plug edits: the types, that the saves of   *)
(* the only editor end with its copy in the options, and that its edits     *)
(* never flicker away.  Of CardSession, for any tabs, any clock and any     *)
(* number of losses: the types, that a duration grows, and that a complete  *)
(* session stays complete until the mower mows again.                       *)
(***************************************************************************)
EXTENDS CardParts, SequenceTheorems, TLAPS

(***************************************************************************)
(* Sequences.                                                              *)
(***************************************************************************)

(* The elements after an append. *)
LEMMA AppendElements ==
  ASSUME NEW S, NEW s \in Seq(S), NEW m \in S
  PROVE  /\ Len(s) \in Nat /\ Len(Append(s, m)) = Len(s) + 1
         /\ \A i \in 1 .. Len(s) : Append(s, m)[i] = s[i]
         /\ Append(s, m)[Len(s) + 1] = m
  OBVIOUS

(* The elements of a tail. *)
LEMMA TailElements ==
  ASSUME NEW S, NEW s \in Seq(S), s # <<>>
  PROVE  /\ Head(s) = s[1] /\ Head(s) \in S /\ 1 \in 1 .. Len(s) /\ Len(s) \in Nat
         /\ Tail(s) \in Seq(S) /\ Len(Tail(s)) = Len(s) - 1
         /\ \A i \in 1 .. Len(Tail(s)) : i + 1 \in 1 .. Len(s) /\ Tail(s)[i] = s[i + 1]
OBVIOUS

(***************************************************************************)
(* The custom actions of the buttons.                                      *)
(***************************************************************************)

(***************************************************************************)
(* What is on its way to a card.                                           *)
(***************************************************************************)

LEMMA MessageTypes ==
  /\ \A a \in SUBSET Buttons!Edits : Buttons!State(a) \in Buttons!Messages /\ Buttons!State(a).type = "state"
                             /\ Buttons!State(a).actions = a
  /\ \A ok \in BOOLEAN : Buttons!Result(ok) \in Buttons!Messages /\ Buttons!Result(ok).type = "result"
  /\ \A m \in Buttons!Messages : m.type = "state" => m.actions \in SUBSET Buttons!Edits
BY DEF Buttons!State, Buttons!Result, Buttons!Messages

LEMMA EndsAppended ==
  ASSUME NEW box \in Seq(Buttons!Messages), NEW m \in Buttons!Messages
  PROVE  /\ m.type = "state" => Buttons!Ends(Append(box, m)) = Buttons!Ends(box)
         /\ m.type = "result" => Buttons!Ends(Append(box, m)) = Buttons!Ends(box) \cup {Len(box) + 1}
<1>1. /\ Len(box) \in Nat /\ DOMAIN box = 1 .. Len(box)
      /\ DOMAIN Append(box, m) = 1 .. Len(box) + 1
      /\ \A i \in 1 .. Len(box) : Append(box, m)[i] = box[i]
      /\ Append(box, m)[Len(box) + 1] = m
  BY AppendElements
<1> QED
  BY <1>1 DEF Buttons!Ends

LEMMA EndsOfTail ==
  ASSUME NEW box \in Seq(Buttons!Messages), box # <<>>
  PROVE  Buttons!Ends(Tail(box)) = {i \in DOMAIN Tail(box) : i + 1 \in Buttons!Ends(box)}
<1>1. /\ DOMAIN box = 1 .. Len(box) /\ DOMAIN Tail(box) = 1 .. Len(Tail(box))
      /\ \A i \in 1 .. Len(Tail(box)) : i + 1 \in 1 .. Len(box) /\ Tail(box)[i] = box[i + 1]
  BY TailElements
<1> QED
  BY <1>1 DEF Buttons!Ends

(* One card changes. *)
LEMMA OneChanged ==
  ASSUME Buttons!TypeOK, NEW c \in Cards, NEW d \in Buttons!CardStates, page' = [page EXCEPT ![c] = d]
  PROVE  /\ page' \in [Cards -> Buttons!CardStates] /\ page'[c] = d
         /\ \A e \in Cards : e # c => page'[e] = page[e]
         /\ Buttons!OneCall(d) => \A e \in Cards : Buttons!OneCall(page'[e])
BY DEF Buttons!TypeOK

(* A state goes to every card, after all that is on its way. *)
LEMMA PushedFacts ==
  ASSUME Buttons!TypeOK, NEW a \in SUBSET Buttons!Edits
  PROVE  /\ Buttons!Pushed(a, page) \in [Cards -> Buttons!CardStates]
         /\ \A c \in Cards :
              /\ Buttons!Pushed(a, page)[c] = [page[c] EXCEPT !.inbox = Append(@, Buttons!State(a))]
              /\ Buttons!Pushed(a, page)[c].inbox = Append(page[c].inbox, Buttons!State(a))
              /\ Buttons!Pushed(a, page)[c].actions = page[c].actions
              /\ Buttons!Pushed(a, page)[c].known = page[c].known
              /\ Buttons!Pushed(a, page)[c].queue = page[c].queue
              /\ Buttons!Pushed(a, page)[c].call = page[c].call
              /\ Buttons!Ends(Buttons!Pushed(a, page)[c].inbox) = Buttons!Ends(page[c].inbox)
<1>1. ASSUME NEW c \in Cards
      PROVE  /\ page[c] \in Buttons!CardStates /\ page[c].inbox \in Seq(Buttons!Messages)
             /\ Append(page[c].inbox, Buttons!State(a)) \in Seq(Buttons!Messages)
             /\ Buttons!Ends(Append(page[c].inbox, Buttons!State(a))) = Buttons!Ends(page[c].inbox)
  <2>1. page[c] \in Buttons!CardStates /\ page[c].inbox \in Seq(Buttons!Messages)
    BY DEF Buttons!TypeOK, Buttons!CardStates
  <2> QED
    BY <2>1, MessageTypes, EndsAppended, AppendProperties
<1>2. ASSUME NEW c \in Cards
      PROVE  [page[c] EXCEPT !.inbox = Append(@, Buttons!State(a))] \in Buttons!CardStates
  BY <1>1 DEF Buttons!CardStates
<1> QED
  BY <1>1, <1>2 DEF Buttons!Pushed, Buttons!CardStates

LEMMA PushedOneCall ==
  ASSUME Buttons!TypeOK, NEW a \in SUBSET Buttons!Edits, NEW c \in Cards
  PROVE  Buttons!OneCall(Buttons!Pushed(a, page)[c])
<1> DEFINE d == Buttons!Pushed(a, page)[c]
<1>1. d.call = page[c].call /\ Buttons!Ends(d.inbox) = Buttons!Ends(page[c].inbox)
  BY PushedFacts
<1>2. Buttons!OneCall(page[c])
  BY DEF Buttons!TypeOK
<1> HIDE DEF d
<1>3. Buttons!OneCall(d)
  BY <1>1, <1>2 DEF Buttons!OneCall
<1> QED
  BY <1>3 DEF d

(* A new hass: the copy is kept or is what the card knows of the options. *)
LEMMA SyncedFacts ==
  ASSUME NEW d \in Buttons!CardStates, NEW waiting \in BOOLEAN
  PROVE  /\ Buttons!Synced(d, waiting) \in Buttons!CardStates
         /\ Buttons!Synced(d, waiting).known = d.known /\ Buttons!Synced(d, waiting).queue = d.queue
         /\ Buttons!Synced(d, waiting).call = d.call /\ Buttons!Synced(d, waiting).inbox = d.inbox
         /\ Buttons!Synced(d, waiting).actions = IF waiting THEN d.actions ELSE d.known
BY DEF Buttons!Synced, Buttons!CardStates

(***************************************************************************)
(* Types.                                                                  *)
(***************************************************************************)

Payloads == Seq(SUBSET Buttons!Edits)

LEMMA CardTypes ==
  ASSUME Buttons!TypeOK, NEW c \in Cards
  PROVE  /\ page[c] \in Buttons!CardStates
         /\ page[c].actions \in SUBSET Buttons!Edits /\ page[c].known \in SUBSET Buttons!Edits
         /\ page[c].queue \in Payloads /\ page[c].call \in Payloads
         /\ page[c].inbox \in Seq(Buttons!Messages) /\ Buttons!OneCall(page[c])
BY DEF Buttons!TypeOK, Buttons!CardStates, Payloads

LEMMA ButtonsTypeInit == ASSUME Buttons!Init PROVE Buttons!TypeOK
<1>1. Buttons!Blank \in Buttons!CardStates /\ Buttons!Ends(Buttons!Blank.inbox) = {} /\ Len(Buttons!Blank.call) = 0
  BY EmptySeq DEF Buttons!Blank, Buttons!CardStates, Buttons!Ends
<1>2. saves \in [edit : 0 .. MaxEdits, fault : Nat, plug : Nat]
  BY CardPartsAssumption DEF Buttons!Init
<1>3. page = [c \in Cards |-> Buttons!Blank] /\ Buttons!OneCall(Buttons!Blank)
  BY <1>1 DEF Buttons!Init, Buttons!OneCall
<1>4. page \in [Cards -> Buttons!CardStates] /\ \A c \in Cards : Buttons!OneCall(page[c])
  BY <1>1, <1>3
<1> QED
  BY <1>2, <1>4 DEF Buttons!Init, Buttons!TypeOK

(* What an edit leaves its card with. *)
LEMMA EditFacts ==
  ASSUME Buttons!TypeOK, NEW c \in Cards, Buttons!Edit(c)
  PROVE  \E new \in SUBSET Buttons!Edits : \E d \in Buttons!CardStates :
           /\ page' = [page EXCEPT ![c] = d] /\ Buttons!OneCall(d)
           /\ d = [page[c] EXCEPT !.actions = new, !.queue = Append(@, new)]
<1>1. saves.edit + 1 \in Buttons!Edits /\ saves'.edit = saves.edit + 1
  BY CardPartsAssumption DEF Buttons!Edit, Buttons!TypeOK, Buttons!Edits
<1>2. PICK new \in SUBSET Buttons!Edits :
        page' = [page EXCEPT ![c].actions = new, ![c].queue = Append(@, new)]
  BY <1>1, CardTypes DEF Buttons!Edit
<1> DEFINE d == [page[c] EXCEPT !.actions = new, !.queue = Append(@, new)]
<1>3. Append(page[c].queue, new) \in Payloads
  BY CardTypes, AppendProperties DEF Payloads
<1>4. d \in Buttons!CardStates /\ d.call = page[c].call /\ d.inbox = page[c].inbox
  BY <1>3, CardTypes DEF Buttons!CardStates, Payloads
<1>5. Buttons!OneCall(d)
  BY <1>4, CardTypes DEF Buttons!OneCall
<1>6. page' = [page EXCEPT ![c] = d]
  BY <1>2 DEF Buttons!TypeOK
<1> HIDE DEF d
<1>7. d = [page[c] EXCEPT !.actions = new, !.queue = Append(@, new)]
  BY DEF d
<1> QED
  BY <1>4, <1>5, <1>6, <1>7

LEMMA SaveFacts ==
  ASSUME Buttons!TypeOK, NEW c \in Cards, Buttons!Save(c)
  PROVE  \E d \in Buttons!CardStates :
           /\ page' = [page EXCEPT ![c] = d] /\ Buttons!OneCall(d)
           /\ d = [page[c] EXCEPT !.queue = Tail(@), !.call = <<Head(page[c].queue)>>]
           /\ page[c].queue # <<>> /\ Buttons!Ends(page[c].inbox) = {}
<1> DEFINE d == [page[c] EXCEPT !.queue = Tail(@), !.call = <<Head(page[c].queue)>>]
<1>1. page[c].queue # <<>> /\ Buttons!Ends(page[c].inbox) = {}
      /\ page' = [page EXCEPT ![c].queue = Tail(@), ![c].call = <<Head(page[c].queue)>>]
  BY DEF Buttons!Save
<1>2. Tail(page[c].queue) \in Payloads /\ Head(page[c].queue) \in SUBSET Buttons!Edits
  BY <1>1, CardTypes, TailElements DEF Payloads
<1>3. <<Head(page[c].queue)>> \in Payloads /\ Len(<<Head(page[c].queue)>>) = 1
  BY <1>2 DEF Payloads
<1>4. d \in Buttons!CardStates /\ d.inbox = page[c].inbox /\ d.call = <<Head(page[c].queue)>>
  BY <1>2, <1>3, CardTypes DEF Buttons!CardStates, Payloads
<1>5. Buttons!OneCall(d)
  BY <1>1, <1>3, <1>4 DEF Buttons!OneCall
<1>6. page' = [page EXCEPT ![c] = d]
  BY <1>1 DEF Buttons!TypeOK
<1> HIDE DEF d
<1>7. d = [page[c] EXCEPT !.queue = Tail(@), !.call = <<Head(page[c].queue)>>]
  BY DEF d
<1> QED
  BY <1>1, <1>4, <1>5, <1>6, <1>7

(* The inbox after its first message is handled: still at most one result. *)
LEMMA HandledOneCall ==
  ASSUME NEW d, d.inbox \in Seq(Buttons!Messages), d.inbox # <<>>, Buttons!OneCall(d),
         NEW e, e.call = d.call, e.inbox = Tail(d.inbox)
  PROVE  Buttons!OneCall(e)
<1>1. Buttons!Ends(e.inbox) = {i \in DOMAIN e.inbox : i + 1 \in Buttons!Ends(d.inbox)}
  BY EndsOfTail
<1>2. \A i \in DOMAIN e.inbox : i \in Nat
  BY TailElements
<1>3. \A i, j \in Buttons!Ends(e.inbox) : i = j
  <2> SUFFICES ASSUME NEW i \in Buttons!Ends(e.inbox), NEW j \in Buttons!Ends(e.inbox) PROVE i = j
    OBVIOUS
  <2>1. i + 1 = j + 1 /\ i \in Nat /\ j \in Nat
    BY <1>1, <1>2 DEF Buttons!OneCall
  <2> QED
    BY <2>1
<1>4. Buttons!Ends(e.inbox) # {} => Buttons!Ends(d.inbox) # {}
  BY <1>1
<1> QED
  BY <1>3, <1>4 DEF Buttons!OneCall

LEMMA StateFacts ==
  ASSUME Buttons!TypeOK, NEW c \in Cards, Buttons!StateArrives(c)
  PROVE  \E d \in Buttons!CardStates :
           /\ page' = [page EXCEPT ![c] = d] /\ Buttons!OneCall(d)
           /\ page[c].inbox # <<>> /\ Head(page[c].inbox).type = "state"
           /\ d.known = Head(page[c].inbox).actions /\ d.inbox = Tail(page[c].inbox)
           /\ d.queue = page[c].queue /\ d.call = page[c].call
           /\ d.actions = IF Buttons!Pending(c) THEN page[c].actions ELSE d.known
<1> DEFINE e == [page[c] EXCEPT !.known = Head(page[c].inbox).actions, !.inbox = Tail(@)]
           d == Buttons!Synced(e, Buttons!Pending(c))
<1>1. page[c].inbox # <<>> /\ Head(page[c].inbox).type = "state"
      /\ page' = [page EXCEPT ![c] = d]
  <2>1. page[c].inbox # <<>> /\ Head(page[c].inbox).type = "state"
    BY DEF Buttons!StateArrives
  <2>2. page' = [page EXCEPT ![c] = d]
    BY Zenon DEF Buttons!StateArrives
  <2> QED
    BY <2>1, <2>2
<1>2. Head(page[c].inbox).actions \in SUBSET Buttons!Edits /\ Tail(page[c].inbox) \in Seq(Buttons!Messages)
  BY <1>1, CardTypes, TailElements, MessageTypes
<1>3. /\ e \in Buttons!CardStates /\ e.known = Head(page[c].inbox).actions
      /\ e.inbox = Tail(page[c].inbox) /\ e.queue = page[c].queue
      /\ e.call = page[c].call /\ e.actions = page[c].actions
  BY <1>2, CardTypes DEF Buttons!CardStates
<1> HIDE DEF e
<1>4. Buttons!Pending(c) \in BOOLEAN
  BY DEF Buttons!Pending
<1>5. /\ d \in Buttons!CardStates /\ d.known = e.known /\ d.queue = e.queue
      /\ d.call = e.call /\ d.inbox = e.inbox
      /\ d.actions = IF Buttons!Pending(c) THEN e.actions ELSE e.known
  BY <1>3, <1>4, SyncedFacts
<1> HIDE DEF d
<1>6. Buttons!OneCall(d)
  BY <1>1, <1>3, <1>5, CardTypes, HandledOneCall
<1> QED
  BY <1>1, <1>3, <1>5, <1>6

LEMMA EndFacts ==
  ASSUME Buttons!TypeOK, NEW c \in Cards, Buttons!SaveEnds(c)
  PROVE  \E d \in Buttons!CardStates :
           /\ page' = [page EXCEPT ![c] = d] /\ Buttons!OneCall(d)
           /\ page[c].inbox # <<>> /\ Head(page[c].inbox).type = "result"
           /\ d = [page[c] EXCEPT !.inbox = Tail(@)]
<1> DEFINE d == [page[c] EXCEPT !.inbox = Tail(@)]
<1>1. page[c].inbox # <<>> /\ Head(page[c].inbox).type = "result"
      /\ page' = [page EXCEPT ![c] = d]
  BY DEF Buttons!SaveEnds, Buttons!TypeOK
<1>2. Tail(page[c].inbox) \in Seq(Buttons!Messages)
  BY <1>1, CardTypes, TailElements
<1>3. d \in Buttons!CardStates /\ d.call = page[c].call /\ d.inbox = Tail(page[c].inbox)
  BY <1>2, CardTypes DEF Buttons!CardStates
<1> HIDE DEF d
<1>4. Buttons!OneCall(d)
  BY <1>1, <1>3, CardTypes, HandledOneCall
<1>5. d = [page[c] EXCEPT !.inbox = Tail(@)]
  BY DEF d
<1> QED
  BY <1>1, <1>3, <1>4, <1>5

LEMMA OtherFacts ==
  ASSUME Buttons!TypeOK, NEW c \in Cards, Buttons!OtherState(c)
  PROVE  \E d \in Buttons!CardStates :
           /\ page' = [page EXCEPT ![c] = d] /\ Buttons!OneCall(d)
           /\ d.known = page[c].known /\ d.inbox = page[c].inbox
           /\ d.queue = page[c].queue /\ d.call = page[c].call
           /\ d.actions = IF Buttons!Pending(c) THEN page[c].actions ELSE d.known
<1> DEFINE d == Buttons!Synced(page[c], Buttons!Pending(c))
<1>1. page' = [page EXCEPT ![c] = d]
  BY DEF Buttons!OtherState, Buttons!TypeOK
<1>2. Buttons!Pending(c) \in BOOLEAN
  BY DEF Buttons!Pending
<1>3. /\ d \in Buttons!CardStates /\ d.known = page[c].known /\ d.queue = page[c].queue
      /\ d.call = page[c].call /\ d.inbox = page[c].inbox
      /\ d.actions = IF Buttons!Pending(c) THEN page[c].actions ELSE page[c].known
  BY <1>2, CardTypes, SyncedFacts
<1> HIDE DEF d
<1>4. Buttons!OneCall(d)
  BY <1>3, CardTypes DEF Buttons!OneCall
<1> QED
  BY <1>1, <1>3, <1>4

(* The result of a call is the last message and the only result. *)
LEMMA ResultFacts ==
  ASSUME NEW d \in Buttons!CardStates, d.call # <<>>, Buttons!OneCall(d), NEW ok \in BOOLEAN,
         NEW e, e = [d EXCEPT !.call = <<>>, !.inbox = Append(@, Buttons!Result(ok))]
  PROVE  /\ e \in Buttons!CardStates /\ Buttons!OneCall(e) /\ e.call = <<>>
         /\ e.inbox = Append(d.inbox, Buttons!Result(ok))
         /\ e.queue = d.queue /\ e.actions = d.actions /\ e.known = d.known
         /\ Buttons!Ends(e.inbox) = {Len(d.inbox) + 1}
<1>1. d.inbox \in Seq(Buttons!Messages) /\ Buttons!Result(ok) \in Buttons!Messages /\ Buttons!Result(ok).type = "result"
  BY MessageTypes DEF Buttons!CardStates
<1>2. Append(d.inbox, Buttons!Result(ok)) \in Seq(Buttons!Messages)
      /\ Buttons!Ends(Append(d.inbox, Buttons!Result(ok))) = Buttons!Ends(d.inbox) \cup {Len(d.inbox) + 1}
  BY <1>1, AppendProperties, EndsAppended
<1>3. e \in Buttons!CardStates /\ e.call = <<>> /\ e.inbox = Append(d.inbox, Buttons!Result(ok))
      /\ e.queue = d.queue /\ e.actions = d.actions /\ e.known = d.known
  BY <1>2, EmptySeq DEF Buttons!CardStates
<1>4. Buttons!Ends(e.inbox) = {Len(d.inbox) + 1}
  BY <1>2, <1>3 DEF Buttons!OneCall
<1> QED
  BY <1>3, <1>4 DEF Buttons!OneCall

LEMMA HandleFacts ==
  ASSUME Buttons!TypeOK, NEW c \in Cards, Buttons!HandleSave(c)
  PROVE  LET a == Head(page[c].call)
             d == [Buttons!Pushed(a, page)[c] EXCEPT !.call = <<>>, !.inbox = Append(@, Buttons!Result(TRUE))]
         IN  /\ a \in SUBSET Buttons!Edits /\ page[c].call # <<>>
             /\ page' = [Buttons!Pushed(a, page) EXCEPT ![c] = d]
             /\ d \in Buttons!CardStates /\ Buttons!OneCall(d)
<1> DEFINE a == Head(page[c].call)
           P == Buttons!Pushed(a, page)
           d == [P[c] EXCEPT !.call = <<>>, !.inbox = Append(@, Buttons!Result(TRUE))]
<1>1. page[c].call # <<>>
      /\ page' = [P EXCEPT ![c].call = <<>>, ![c].inbox = Append(@, Buttons!Result(TRUE))]
  BY DEF Buttons!HandleSave
<1>2. a \in SUBSET Buttons!Edits
  BY <1>1, CardTypes, TailElements DEF Payloads
<1>3. /\ P \in [Cards -> Buttons!CardStates] /\ P[c].call = page[c].call
      /\ Buttons!Ends(P[c].inbox) = Buttons!Ends(page[c].inbox)
  BY <1>2, PushedFacts
<1>4. P[c] \in Buttons!CardStates /\ P[c].call # <<>> /\ Buttons!OneCall(P[c])
  BY <1>1, <1>3, CardTypes DEF Buttons!OneCall
<1>5. page' = [P EXCEPT ![c] = d]
  BY <1>1, <1>3
<1>6. TRUE \in BOOLEAN
  OBVIOUS
<1> HIDE DEF P, a
<1>7. d \in Buttons!CardStates /\ Buttons!OneCall(d)
  BY <1>4, <1>6, ResultFacts
<1> QED
  BY <1>1, <1>2, <1>5, <1>7 DEF P, a

LEMMA ButtonsTypeStep ==
  ASSUME Buttons!TypeOK, [Buttons!Next]_(Buttons!vars)
  PROVE  Buttons!TypeOK'
<1>1. ASSUME NEW c \in Cards, NEW d \in Buttons!CardStates, page' = [page EXCEPT ![c] = d],
             Buttons!OneCall(d), UNCHANGED <<options, applied, suspended, overtaken>>,
             saves' \in [edit : 0 .. MaxEdits, fault : Nat, plug : Nat],
             editors' \subseteq Cards
      PROVE  Buttons!TypeOK'
  BY <1>1, OneChanged DEF Buttons!TypeOK
<1>2. ASSUME NEW c \in Cards, Buttons!Edit(c) PROVE Buttons!TypeOK'
  <2>1. saves' \in [edit : 0 .. MaxEdits, fault : Nat, plug : Nat]
    BY <1>2, CardPartsAssumption DEF Buttons!Edit, Buttons!TypeOK
  <2>2. editors' \subseteq Cards /\ UNCHANGED <<options, applied, suspended, overtaken>>
    BY <1>2 DEF Buttons!Edit, Buttons!TypeOK
  <2>3. PICK d \in Buttons!CardStates : page' = [page EXCEPT ![c] = d] /\ Buttons!OneCall(d)
    BY <1>2, EditFacts
  <2> QED
    BY <1>1, <2>1, <2>2, <2>3
<1>3. ASSUME NEW c \in Cards,
             Buttons!Save(c) \/ Buttons!StateArrives(c) \/ Buttons!SaveEnds(c) \/ Buttons!OtherState(c)
      PROVE  Buttons!TypeOK'
  <2>1. \E d \in Buttons!CardStates : page' = [page EXCEPT ![c] = d] /\ Buttons!OneCall(d)
    <3>1. CASE Buttons!Save(c)
      BY <3>1, SaveFacts
    <3>2. CASE Buttons!StateArrives(c)
      BY <3>2, StateFacts
    <3>3. CASE Buttons!SaveEnds(c)
      BY <3>3, EndFacts
    <3>4. CASE Buttons!OtherState(c)
      BY <3>4, OtherFacts
    <3> QED
      BY <1>3, <3>1, <3>2, <3>3, <3>4
  <2>2. UNCHANGED <<options, applied, suspended, saves, editors, overtaken>>
    BY <1>3 DEF Buttons!Save, Buttons!StateArrives, Buttons!SaveEnds, Buttons!OtherState
  <2> QED
    BY <1>1, <2>1, <2>2 DEF Buttons!TypeOK
<1>4. ASSUME NEW c \in Cards, Buttons!HandleSave(c) PROVE Buttons!TypeOK'
  <2> DEFINE a == Head(page[c].call)
             d == [Buttons!Pushed(a, page)[c] EXCEPT !.call = <<>>,
                                             !.inbox = Append(@, Buttons!Result(TRUE))]
  <2>1. /\ a \in SUBSET Buttons!Edits /\ page' = [Buttons!Pushed(a, page) EXCEPT ![c] = d]
        /\ d \in Buttons!CardStates /\ Buttons!OneCall(d)
    BY <1>4, HandleFacts
  <2> HIDE DEF d, a
  <2>2. /\ Buttons!Pushed(a, page) \in [Cards -> Buttons!CardStates]
        /\ \A e \in Cards : Buttons!OneCall(Buttons!Pushed(a, page)[e])
    <3>1. ASSUME NEW e \in Cards PROVE Buttons!OneCall(Buttons!Pushed(a, page)[e])
      BY <2>1, PushedOneCall
    <3> QED
      BY <2>1, <3>1, PushedFacts
  <2>3. page' \in [Cards -> Buttons!CardStates] /\ \A e \in Cards : Buttons!OneCall(page'[e])
    BY <2>1, <2>2
  <2> QED
    BY <1>4, <2>1, <2>3 DEF Buttons!HandleSave, Buttons!TypeOK, a
<1>5. ASSUME NEW c \in Cards, Buttons!SaveFails(c) PROVE Buttons!TypeOK'
  <2> DEFINE d == [page[c] EXCEPT !.call = <<>>, !.inbox = Append(@, Buttons!Result(FALSE))]
  <2>1. page' = [page EXCEPT ![c] = d] /\ page[c].call # <<>>
    BY <1>5 DEF Buttons!SaveFails, Buttons!TypeOK
  <2>2. FALSE \in BOOLEAN
    OBVIOUS
  <2>3. d \in Buttons!CardStates /\ Buttons!OneCall(d)
    BY <2>1, <2>2, CardTypes, ResultFacts
  <2> HIDE DEF d
  <2>4. saves' \in [edit : 0 .. MaxEdits, fault : Nat, plug : Nat]
    BY <1>5 DEF Buttons!SaveFails, Buttons!TypeOK
  <2> QED
    BY <1>1, <1>5, <2>1, <2>3, <2>4 DEF Buttons!SaveFails, Buttons!TypeOK
<1>6. CASE Buttons!PlugChanged
  <2>1. saves' \in [edit : 0 .. MaxEdits, fault : Nat, plug : Nat]
    BY <1>6 DEF Buttons!PlugChanged, Buttons!TypeOK
  <2> QED
    BY <1>6, <2>1 DEF Buttons!PlugChanged, Buttons!TypeOK
<1>7. CASE Buttons!ApplyResumes
  <2>1. PICK a \in suspended : /\ suspended' = suspended \ {a} /\ applied' = a
                               /\ page' = Buttons!Pushed(a, page)
                               /\ overtaken' = (overtaken \/ a # options)
                               /\ UNCHANGED <<options, saves, editors>>
    BY <1>7 DEF Buttons!ApplyResumes
  <2>2. a \in SUBSET Buttons!Edits
    BY DEF Buttons!TypeOK
  <2>3. \A e \in Cards : Buttons!OneCall(page'[e])
    BY <2>1, <2>2, PushedOneCall
  <2>4. page' \in [Cards -> Buttons!CardStates]
    BY <2>1, <2>2, PushedFacts
  <2>5. overtaken' \in BOOLEAN
    BY <2>1 DEF Buttons!TypeOK
  <2> QED
    BY <2>1, <2>2, <2>3, <2>4, <2>5 DEF Buttons!TypeOK
<1>8. CASE UNCHANGED Buttons!vars
  BY <1>8 DEF Buttons!vars, Buttons!TypeOK
<1> QED
  BY <1>2, <1>3, <1>4, <1>5, <1>6, <1>7, <1>8 DEF Buttons!Next

(* What options, cards and messages may hold; a card makes one call at a time, and
   the next one only when it has had the result. *)
THEOREM ButtonsTypeCorrect == Buttons!Spec => []Buttons!TypeOK
<1>1. Buttons!Init => Buttons!TypeOK
  BY ButtonsTypeInit
<1>2. Buttons!TypeOK /\ [Buttons!Next]_(Buttons!vars) => Buttons!TypeOK'
  BY ButtonsTypeStep
<1> QED
  BY <1>1, <1>2, PTL DEF Buttons!Spec

(***************************************************************************)
(* The only editor.                                                        *)
(***************************************************************************)

LEMMA ButtonInit == ASSUME Buttons!Init PROVE Buttons!ButtonInv
<1>1. DOMAIN Buttons!Blank.inbox = {} /\ Buttons!Ends(Buttons!Blank.inbox) = {}
  BY DEF Buttons!Blank, Buttons!Ends
<1>2. \A c \in Cards : page[c] = Buttons!Blank
  BY DEF Buttons!Init
<1>3. Buttons!Follows(Buttons!Blank)
  BY <1>1 DEF Buttons!Follows, Buttons!Blank, Buttons!Init
<1> QED
  BY <1>2, <1>3 DEF Buttons!ButtonInv, Buttons!AloneInv, Buttons!Init, Buttons!Blank

(* A state of what the options hold arrives at the end. *)
LEMMA FollowsPushed ==
  ASSUME NEW d \in Buttons!CardStates, NEW e \in Buttons!CardStates, Buttons!Follows(d),
         options \in SUBSET Buttons!Edits,
         e.inbox = Append(d.inbox, Buttons!State(options)),
         e.queue = d.queue, e.call = d.call, e.actions = d.actions, e.known = d.known
  PROVE  Buttons!Follows(e)
<1>1. d.inbox \in Seq(Buttons!Messages) /\ Buttons!State(options) \in Buttons!Messages /\ Buttons!State(options).type = "state"
  BY MessageTypes DEF Buttons!CardStates
<1>2. /\ DOMAIN d.inbox = 1 .. Len(d.inbox) /\ DOMAIN e.inbox = 1 .. Len(d.inbox) + 1
      /\ Len(d.inbox) \in Nat
      /\ \A i \in DOMAIN d.inbox : e.inbox[i] = d.inbox[i]
      /\ e.inbox[Len(d.inbox) + 1] = Buttons!State(options)
  BY <1>1, AppendElements
<1>3. Buttons!Ends(e.inbox) = Buttons!Ends(d.inbox)
  BY <1>1, EndsAppended
<1>4. \A i \in Buttons!Ends(d.inbox) : i \in DOMAIN d.inbox /\ (i # 1 => i - 1 \in DOMAIN d.inbox)
  BY <1>2 DEF Buttons!Ends
<1>5. Buttons!Ends(e.inbox) = {} => /\ e.known = options
                                    /\ \A i \in DOMAIN e.inbox : e.inbox[i] = Buttons!State(options)
  BY <1>2, <1>3 DEF Buttons!Follows
<1>6. ASSUME NEW i \in Buttons!Ends(e.inbox)
      PROVE  /\ IF i = 1 THEN e.known = options ELSE e.inbox[i - 1] = Buttons!State(options)
             /\ \A j \in DOMAIN e.inbox : j > i => e.inbox[j] = Buttons!State(options)
  BY <1>2, <1>3, <1>4 DEF Buttons!Follows
<1> QED
  BY <1>5, <1>6 DEF Buttons!Follows

(* The first message is handled, and the card knows what a state says. *)
LEMMA FollowsHandled ==
  ASSUME NEW d \in Buttons!CardStates, NEW e \in Buttons!CardStates, Buttons!OneCall(d), Buttons!Follows(d),
         options \in SUBSET Buttons!Edits, d.inbox # <<>>, e.inbox = Tail(d.inbox),
         e.queue = d.queue, e.call = d.call,
         \/ e.actions = d.actions
         \/ e.actions = options /\ d.queue = <<>> /\ d.call = <<>>,
         \/ Head(d.inbox).type = "state" /\ e.known = Head(d.inbox).actions
         \/ Head(d.inbox).type = "result" /\ e.known = d.known
  PROVE  Buttons!Follows(e)
<1>1. d.inbox \in Seq(Buttons!Messages)
  BY DEF Buttons!CardStates
<1>2. /\ Head(d.inbox) = d.inbox[1] /\ 1 \in DOMAIN d.inbox
      /\ DOMAIN d.inbox = 1 .. Len(d.inbox) /\ DOMAIN e.inbox = 1 .. Len(e.inbox)
      /\ Len(d.inbox) \in Nat /\ Len(e.inbox) = Len(d.inbox) - 1
      /\ \A i \in DOMAIN e.inbox : i + 1 \in DOMAIN d.inbox /\ e.inbox[i] = d.inbox[i + 1]
  BY <1>1, TailElements
<1>3. Buttons!Ends(e.inbox) = {i \in DOMAIN e.inbox : i + 1 \in Buttons!Ends(d.inbox)}
  BY <1>1, EndsOfTail
<1>4. Buttons!State(options).actions = options /\ Buttons!State(options).type # "result"
  BY MessageTypes
<1>5. 1 \in Buttons!Ends(d.inbox) <=> Head(d.inbox).type = "result"
  BY <1>2 DEF Buttons!Ends
<1>6. \A i \in Buttons!Ends(d.inbox) : i \in DOMAIN d.inbox
  BY DEF Buttons!Ends
<1>7. ASSUME Buttons!Ends(e.inbox) = {}
      PROVE  e.known = options /\ \A i \in DOMAIN e.inbox : e.inbox[i] = Buttons!State(options)
  <2>1. CASE 1 \in Buttons!Ends(d.inbox)
    <3>1. d.known = options /\ \A j \in DOMAIN d.inbox : j > 1 => d.inbox[j] = Buttons!State(options)
      BY <2>1 DEF Buttons!Follows
    <3>2. \A i \in DOMAIN e.inbox : i + 1 > 1
      BY <1>2
    <3> QED
      BY <1>2, <1>5, <2>1, <3>1, <3>2
  <2>2. CASE 1 \notin Buttons!Ends(d.inbox)
    <3>1. Buttons!Ends(d.inbox) = {}
      <4> SUFFICES ASSUME NEW i \in Buttons!Ends(d.inbox) PROVE FALSE
        OBVIOUS
      <4>1. i \in 2 .. Len(d.inbox) /\ i - 1 \in DOMAIN e.inbox /\ (i - 1) + 1 = i
        BY <1>2, <1>6, <2>2
      <4> QED
        BY <1>3, <1>7, <4>1
    <3>2. \A i \in DOMAIN d.inbox : d.inbox[i] = Buttons!State(options)
      BY <3>1 DEF Buttons!Follows
    <3> QED
      BY <1>2, <1>4, <1>5, <2>2, <3>2
  <2> QED
    BY <2>1, <2>2
<1>8. ASSUME NEW i \in Buttons!Ends(e.inbox)
      PROVE  /\ IF i = 1 THEN e.known = options ELSE e.inbox[i - 1] = Buttons!State(options)
             /\ \A j \in DOMAIN e.inbox : j > i => e.inbox[j] = Buttons!State(options)
  <2>1. i \in DOMAIN e.inbox /\ i + 1 \in Buttons!Ends(d.inbox) /\ i \in Nat /\ i >= 1
        /\ i + 1 # 1 /\ (i + 1) - 1 = i
    BY <1>2, <1>3
  <2>2. /\ d.inbox[i] = Buttons!State(options)
        /\ \A j \in DOMAIN d.inbox : j > i + 1 => d.inbox[j] = Buttons!State(options)
    BY <2>1 DEF Buttons!Follows
  <2>3. 1 \notin Buttons!Ends(d.inbox)
    BY <2>1 DEF Buttons!OneCall
  <2>4. i = 1 => e.known = options
    BY <1>2, <1>4, <1>5, <2>2, <2>3
  <2>5. i # 1 => e.inbox[i - 1] = Buttons!State(options)
    <3>1. i # 1 => i - 1 \in DOMAIN e.inbox /\ (i - 1) + 1 = i
      BY <1>2, <2>1
    <3> QED
      BY <1>2, <2>2, <3>1
  <2>6. \A j \in DOMAIN e.inbox : j > i => e.inbox[j] = Buttons!State(options)
    BY <1>2, <2>1, <2>2
  <2> QED
    BY <2>4, <2>5, <2>6
<1>9. e.actions = IF e.queue # <<>> THEN e.queue[Len(e.queue)]
                  ELSE IF e.call # <<>> THEN Head(e.call) ELSE options
  BY DEF Buttons!Follows
<1> QED
  BY <1>7, <1>8, <1>9 DEF Buttons!Follows

(* Who is alone now was alone before. *)
LEMMA AloneBefore ==
  ASSUME Buttons!TypeOK, [Buttons!Next]_(Buttons!vars), NEW c \in Cards, Buttons!Alone(c)'
  PROVE  Buttons!Alone(c)
<1>1. ASSUME NEW d \in Cards, Buttons!Edit(d) PROVE Buttons!Alone(c)
  <2>1. /\ saves' = [saves EXCEPT !.edit = @ + 1] /\ editors' = editors \cup {d}
        /\ overtaken' = overtaken
    BY <1>1 DEF Buttons!Edit
  <2>2. saves'.fault = saves.fault
    BY <2>1 DEF Buttons!TypeOK
  <2> QED
    BY <2>1, <2>2 DEF Buttons!Alone
<1>2. ASSUME NEW d \in Cards,
             \/ Buttons!Save(d) \/ Buttons!StateArrives(d) \/ Buttons!SaveEnds(d) \/ Buttons!OtherState(d)
             \/ Buttons!HandleSave(d)
      PROVE  Buttons!Alone(c)
  <2>1. UNCHANGED <<saves, editors, overtaken>>
    <3>1. CASE Buttons!Save(d)
      BY <3>1 DEF Buttons!Save
    <3>2. CASE Buttons!StateArrives(d)
      BY <3>2 DEF Buttons!StateArrives
    <3>3. CASE Buttons!SaveEnds(d)
      BY <3>3 DEF Buttons!SaveEnds
    <3>4. CASE Buttons!OtherState(d)
      BY <3>4 DEF Buttons!OtherState
    <3>5. CASE Buttons!HandleSave(d)
      BY <3>5 DEF Buttons!HandleSave
    <3> QED
      BY <1>2, <3>1, <3>2, <3>3, <3>4, <3>5
  <2> QED
    BY <2>1 DEF Buttons!Alone
<1>3. ASSUME NEW d \in Cards, Buttons!SaveFails(d) PROVE Buttons!Alone(c)
  BY <1>3 DEF Buttons!Alone, Buttons!SaveFails, Buttons!TypeOK
<1>4. CASE Buttons!PlugChanged
  BY <1>4 DEF Buttons!Alone, Buttons!PlugChanged, Buttons!TypeOK
<1>5. CASE Buttons!ApplyResumes
  BY <1>5 DEF Buttons!Alone, Buttons!ApplyResumes, Buttons!TypeOK
<1>6. CASE UNCHANGED Buttons!vars
  BY <1>6 DEF Buttons!Alone, Buttons!vars
<1> QED
  BY <1>1, <1>2, <1>3, <1>4, <1>5, <1>6 DEF Buttons!Next

(* A card changes while the options stay. *)
LEMMA CardAlone ==
  ASSUME Buttons!TypeOK, NEW c \in Cards, Buttons!AloneInv(c), UNCHANGED <<options, applied>>,
         NEW d \in Cards, NEW e \in Buttons!CardStates, page' = [page EXCEPT ![d] = e],
         d = c => Buttons!Follows(e),
         d # c => e.queue = <<>> /\ e.call = <<>>
  PROVE  Buttons!AloneInv(c)'
<1>1. page'[d] = e /\ \A b \in Cards : b # d => page'[b] = page[b]
  BY OneChanged
<1>2. Buttons!Follows(page'[c])
  BY <1>1 DEF Buttons!AloneInv
<1>3. Buttons!Follows(page[c])'
  BY <1>2 DEF Buttons!Follows
<1> QED
  BY <1>1, <1>3 DEF Buttons!AloneInv

(* An edit, and a save on its way. *)
LEMMA FollowsEdited ==
  ASSUME NEW d \in Buttons!CardStates, Buttons!Follows(d), NEW new \in SUBSET Buttons!Edits, NEW e,
         e = [d EXCEPT !.actions = new, !.queue = Append(@, new)]
  PROVE  Buttons!Follows(e)
<1>1. /\ e.actions = new /\ e.queue = Append(d.queue, new) /\ d.queue \in Seq(SUBSET Buttons!Edits)
      /\ e.call = d.call /\ e.inbox = d.inbox /\ e.known = d.known
  BY DEF Buttons!CardStates
<1>2. e.queue # <<>> /\ e.queue[Len(e.queue)] = new
  BY <1>1, AppendElements
<1> QED
  BY <1>1, <1>2 DEF Buttons!Follows

LEMMA FollowsSaving ==
  ASSUME NEW d \in Buttons!CardStates, Buttons!Follows(d), d.queue # <<>>, NEW e,
         e = [d EXCEPT !.queue = Tail(@), !.call = <<Head(d.queue)>>]
  PROVE  Buttons!Follows(e)
<1>1. /\ e.actions = d.actions /\ e.queue = Tail(d.queue) /\ d.queue \in Seq(SUBSET Buttons!Edits)
      /\ e.call = <<Head(d.queue)>> /\ e.inbox = d.inbox /\ e.known = d.known
  BY DEF Buttons!CardStates
<1>2. e.call # <<>> /\ Head(e.call) = Head(d.queue)
  BY <1>1
<1>3. d.actions = d.queue[Len(d.queue)]
  BY DEF Buttons!Follows
<1>4. e.actions = IF e.queue # <<>> THEN e.queue[Len(e.queue)] ELSE Head(e.call)
  <2>1. CASE Len(d.queue) = 1
    BY <1>1, <1>2, <1>3, <2>1, TailElements
  <2>2. CASE Len(d.queue) # 1
    <3>1. /\ Len(Tail(d.queue)) = Len(d.queue) - 1 /\ Len(d.queue) > 1 /\ Len(d.queue) \in Nat
          /\ \A i \in 1 .. Len(Tail(d.queue)) : Tail(d.queue)[i] = d.queue[i + 1]
      BY <1>1, <2>2, TailElements
    <3>2. Tail(d.queue)[Len(d.queue) - 1] = d.queue[Len(d.queue)] /\ Tail(d.queue) # <<>>
      BY <3>1
    <3> QED
      BY <1>1, <1>3, <3>1, <3>2
  <2> QED
    BY <2>1, <2>2
<1> QED
  BY <1>1, <1>2, <1>4 DEF Buttons!Follows

(* The handler stores the copy; its state and the result are the last messages. *)
LEMMA FollowsStored ==
  ASSUME Buttons!TypeOK, NEW c \in Cards, Buttons!HandleSave(c), Buttons!AloneInv(c)
  PROVE  Buttons!AloneInv(c)'
<1> DEFINE a == Head(page[c].call)
           d == [Buttons!Pushed(a, page)[c] EXCEPT !.call = <<>>, !.inbox = Append(@, Buttons!Result(TRUE))]
           box == Append(page[c].inbox, Buttons!State(a))
<1>1. /\ a \in SUBSET Buttons!Edits /\ page[c].call # <<>>
      /\ page' = [Buttons!Pushed(a, page) EXCEPT ![c] = d] /\ d \in Buttons!CardStates
  BY HandleFacts
<1>2. options' = a /\ applied' = a
  BY DEF Buttons!HandleSave
<1>3. /\ Buttons!Pushed(a, page) \in [Cards -> Buttons!CardStates]
      /\ \A b \in Cards :
            Buttons!Pushed(a, page)[b].queue = page[b].queue /\ Buttons!Pushed(a, page)[b].call = page[b].call
      /\ Buttons!Pushed(a, page)[c].inbox = box
      /\ Buttons!Pushed(a, page)[c].actions = page[c].actions
      /\ Buttons!OneCall(Buttons!Pushed(a, page)[c])
  BY <1>1, PushedFacts, PushedOneCall
<1>4. /\ page'[c] = d /\ d.call = <<>> /\ d.queue = page[c].queue
      /\ d.inbox = Append(box, Buttons!Result(TRUE))
      /\ d.actions = page[c].actions
      /\ Buttons!Ends(d.inbox) = {Len(box) + 1}
  <2>1. page'[c] = d
    BY <1>1, <1>3
  <2>2. TRUE \in BOOLEAN /\ Buttons!Pushed(a, page)[c] \in Buttons!CardStates
        /\ Buttons!Pushed(a, page)[c].call # <<>>
    BY <1>1, <1>3
  <2>3. /\ d.call = <<>> /\ d.queue = Buttons!Pushed(a, page)[c].queue
        /\ d.inbox = Append(box, Buttons!Result(TRUE))
        /\ d.actions = Buttons!Pushed(a, page)[c].actions
        /\ Buttons!Ends(d.inbox) = {Len(box) + 1}
    <3> DEFINE p == Buttons!Pushed(a, page)[c]
    <3>1. /\ p \in Buttons!CardStates /\ p.call # <<>> /\ Buttons!OneCall(p) /\ p.inbox = box
          /\ d = [p EXCEPT !.call = <<>>, !.inbox = Append(@, Buttons!Result(TRUE))]
      BY <1>3, <2>2
    <3> HIDE DEF p, d, a, box
    <3>2. /\ d.call = <<>> /\ d.queue = p.queue /\ d.actions = p.actions
          /\ d.inbox = Append(p.inbox, Buttons!Result(TRUE))
          /\ Buttons!Ends(d.inbox) = {Len(p.inbox) + 1}
      BY <2>2, <3>1, ResultFacts
    <3> QED
      BY <3>1, <3>2 DEF p
  <2> QED
    BY <1>3, <2>1, <2>3
<1>5. \A b \in Cards \ {c} : page'[b].queue = <<>> /\ page'[b].call = <<>>
  BY <1>1, <1>3 DEF Buttons!AloneInv
<1> HIDE DEF d
<1>6. /\ Len(page[c].inbox) \in Nat /\ Len(box) = Len(page[c].inbox) + 1
      /\ box \in Seq(Buttons!Messages) /\ box[Len(box)] = Buttons!State(a)
  BY <1>1, CardTypes, MessageTypes, AppendElements, AppendProperties
<1> HIDE DEF box
<1>7. /\ DOMAIN d.inbox = 1 .. Len(box) + 1 /\ d.inbox[Len(box)] = Buttons!State(a)
  <2>1. Buttons!Result(TRUE) \in Buttons!Messages
    BY MessageTypes
  <2>2. /\ Len(Append(box, Buttons!Result(TRUE))) = Len(box) + 1
        /\ \A i \in 1 .. Len(box) : Append(box, Buttons!Result(TRUE))[i] = box[i]
    BY <1>6, <2>1, AppendElements
  <2>3. d.inbox \in Seq(Buttons!Messages) /\ d.inbox = Append(box, Buttons!Result(TRUE))
    BY <1>1, <1>4 DEF Buttons!CardStates
  <2>4. Len(box) \in 1 .. Len(box)
    BY <1>6
  <2>5. d.inbox[Len(box)] = Buttons!State(a)
    BY <1>6, <2>2, <2>3, <2>4
  <2>6. DOMAIN d.inbox = 1 .. Len(d.inbox)
    BY <2>3
  <2> QED
    BY <2>2, <2>3, <2>5, <2>6
<1>8. d.actions = IF d.queue # <<>> THEN d.queue[Len(d.queue)] ELSE a
  BY <1>1, <1>4 DEF Buttons!AloneInv, Buttons!Follows
<1> HIDE DEF a
<1>9. Buttons!Follows(page[c])'
  <2>1. /\ Len(box) + 1 # 1 /\ (Len(box) + 1) - 1 = Len(box)
        /\ \A j \in DOMAIN d.inbox : ~(j > Len(box) + 1)
    BY <1>6, <1>7
  <2>2. /\ Buttons!Ends(page'[c].inbox) # {}
        /\ \A i \in Buttons!Ends(page'[c].inbox) :
             /\ i # 1 /\ page'[c].inbox[i - 1] = Buttons!State(options')
             /\ \A j \in DOMAIN page'[c].inbox : ~(j > i)
    BY <1>2, <1>4, <1>7, <2>1
  <2>3. page'[c].actions = IF page'[c].queue # <<>>
                           THEN page'[c].queue[Len(page'[c].queue)]
                           ELSE IF page'[c].call # <<>> THEN Head(page'[c].call) ELSE options'
    BY <1>2, <1>4, <1>8
  <2> QED
    BY <2>2, <2>3 DEF Buttons!Follows
<1> QED
  BY <1>2, <1>5, <1>9 DEF Buttons!AloneInv

(* What the last run of a plug's edit applies is what the options hold. *)
LEMMA FollowsResumed ==
  ASSUME Buttons!TypeOK, NEW c \in Cards, Buttons!AloneInv(c), page' = Buttons!Pushed(options, page),
         options' = options, applied' = options
  PROVE  Buttons!AloneInv(c)'
<1>1. options \in SUBSET Buttons!Edits
  BY DEF Buttons!TypeOK
<1>2. Buttons!Follows(page'[c])
  <2> DEFINE e == Buttons!Pushed(options, page)[c]
  <2>1. /\ e \in Buttons!CardStates /\ e.inbox = Append(page[c].inbox, Buttons!State(options))
        /\ e.queue = page[c].queue /\ e.call = page[c].call
        /\ e.actions = page[c].actions /\ e.known = page[c].known
    BY <1>1, PushedFacts
  <2> HIDE DEF e
  <2>2. Buttons!Follows(e)
    BY <1>1, <2>1, CardTypes, FollowsPushed DEF Buttons!AloneInv
  <2> QED
    BY <2>2 DEF e
<1>3. Buttons!Follows(page[c])'
  BY <1>2 DEF Buttons!Follows
<1>4. \A b \in Cards : page'[b].queue = page[b].queue /\ page'[b].call = page[b].call
  BY <1>1, PushedFacts
<1> QED
  BY <1>3, <1>4 DEF Buttons!AloneInv

(* When no save is pending the card knows what the options hold, and so does
   whatever state arrives. *)
LEMMA KnownWhenIdle ==
  ASSUME Buttons!TypeOK, NEW c \in Cards, Buttons!Follows(page[c]), ~Buttons!Pending(c)
  PROVE  /\ page[c].queue = <<>> /\ page[c].call = <<>>
         /\ page[c].actions = options /\ page[c].known = options
         /\ page[c].inbox # <<>> => Head(page[c].inbox).actions = options
<1>1. page[c].queue = <<>> /\ page[c].call = <<>> /\ Buttons!Ends(page[c].inbox) = {}
  BY DEF Buttons!Pending
<1>2. /\ page[c].actions = options /\ page[c].known = options
      /\ \A i \in DOMAIN page[c].inbox : page[c].inbox[i] = Buttons!State(options)
  BY <1>1 DEF Buttons!Follows
<1>3. page[c].inbox # <<>> => Head(page[c].inbox) = Buttons!State(options)
  BY <1>2, CardTypes, TailElements
<1>4. Buttons!State(options).actions = options
  BY MessageTypes DEF Buttons!TypeOK
<1> QED
  BY <1>1, <1>2, <1>3, <1>4

(* A step keeps the hub of the argument for who is alone after it. *)
LEMMA ButtonStep ==
  ASSUME Buttons!TypeOK, Buttons!ButtonInv, [Buttons!Next]_(Buttons!vars)
  PROVE  Buttons!ButtonInv'
<1> SUFFICES ASSUME NEW c \in Cards, Buttons!Alone(c)' PROVE Buttons!AloneInv(c)'
  BY DEF Buttons!ButtonInv
<1>1. Buttons!AloneInv(c)
  BY AloneBefore DEF Buttons!ButtonInv
<1>2. Buttons!Follows(page[c]) /\ page[c] \in Buttons!CardStates /\ Buttons!OneCall(page[c])
      /\ options \in SUBSET Buttons!Edits
  BY <1>1, CardTypes DEF Buttons!AloneInv, Buttons!TypeOK
<1>3. \A d \in Cards : d # c => page[d].queue = <<>> /\ page[d].call = <<>>
  BY <1>1 DEF Buttons!AloneInv
<1>4. ASSUME NEW d \in Cards, Buttons!Edit(d) PROVE Buttons!AloneInv(c)'
  <2>1. d = c /\ UNCHANGED <<options, applied>>
    BY <1>4 DEF Buttons!Edit, Buttons!Alone
  <2>2. PICK new \in SUBSET Buttons!Edits : \E e \in Buttons!CardStates :
          /\ page' = [page EXCEPT ![d] = e]
          /\ e = [page[d] EXCEPT !.actions = new, !.queue = Append(@, new)]
    BY <1>4, EditFacts
  <2>3. PICK e \in Buttons!CardStates :
          /\ page' = [page EXCEPT ![d] = e]
          /\ e = [page[d] EXCEPT !.actions = new, !.queue = Append(@, new)]
    BY <2>2
  <2>4. Buttons!Follows(e)
    BY <1>2, <2>1, <2>3, FollowsEdited
  <2> QED
    BY <1>1, <2>1, <2>3, <2>4, CardAlone
<1>5. ASSUME NEW d \in Cards, Buttons!Save(d) PROVE Buttons!AloneInv(c)'
  <2>1. PICK e \in Buttons!CardStates :
          /\ page' = [page EXCEPT ![d] = e] /\ page[d].queue # <<>>
          /\ e = [page[d] EXCEPT !.queue = Tail(@), !.call = <<Head(page[d].queue)>>]
    BY <1>5, SaveFacts
  <2>2. d = c /\ UNCHANGED <<options, applied>>
    BY <1>3, <1>5, <2>1 DEF Buttons!Save
  <2>3. Buttons!Follows(e)
    BY <1>2, <2>1, <2>2, FollowsSaving
  <2> QED
    BY <1>1, <2>1, <2>2, <2>3, CardAlone
<1>6. ASSUME NEW d \in Cards, Buttons!StateArrives(d) PROVE Buttons!AloneInv(c)'
  <2>1. PICK e \in Buttons!CardStates :
          /\ page' = [page EXCEPT ![d] = e]
          /\ page[d].inbox # <<>> /\ Head(page[d].inbox).type = "state"
          /\ e.known = Head(page[d].inbox).actions /\ e.inbox = Tail(page[d].inbox)
          /\ e.queue = page[d].queue /\ e.call = page[d].call
          /\ e.actions = IF Buttons!Pending(d) THEN page[d].actions ELSE e.known
    BY <1>6, StateFacts
  <2>2. UNCHANGED <<options, applied>>
    BY <1>6 DEF Buttons!StateArrives
  <2>3. ASSUME d = c PROVE Buttons!Follows(e)
    <3>1. \/ e.actions = page[c].actions
          \/ e.actions = options /\ page[c].queue = <<>> /\ page[c].call = <<>>
      BY <1>2, <2>1, <2>3, KnownWhenIdle
    <3>2. /\ page[c].inbox # <<>> /\ e.inbox = Tail(page[c].inbox)
          /\ e.queue = page[c].queue /\ e.call = page[c].call
          /\ Head(page[c].inbox).type = "state" /\ e.known = Head(page[c].inbox).actions
      BY <2>1, <2>3
    <3> QED
      BY <1>2, <3>1, <3>2, FollowsHandled
  <2> QED
    BY <1>1, <1>3, <2>1, <2>2, <2>3, CardAlone
<1>7. ASSUME NEW d \in Cards, Buttons!SaveEnds(d) PROVE Buttons!AloneInv(c)'
  <2>1. PICK e \in Buttons!CardStates :
          /\ page' = [page EXCEPT ![d] = e]
          /\ page[d].inbox # <<>> /\ Head(page[d].inbox).type = "result"
          /\ e = [page[d] EXCEPT !.inbox = Tail(@)]
    BY <1>7, EndFacts
  <2>2. UNCHANGED <<options, applied>>
    BY <1>7 DEF Buttons!SaveEnds
  <2>3. /\ e.inbox = Tail(page[d].inbox) /\ e.queue = page[d].queue
        /\ e.call = page[d].call /\ e.known = page[d].known
        /\ e.actions = page[d].actions
    BY <2>1, CardTypes DEF Buttons!CardStates
  <2>4. ASSUME d = c PROVE Buttons!Follows(e)
    <3>1. /\ page[c].inbox # <<>> /\ e.inbox = Tail(page[c].inbox)
          /\ e.queue = page[c].queue /\ e.call = page[c].call
          /\ Head(page[c].inbox).type = "result" /\ e.known = page[c].known
          /\ e.actions = page[c].actions
      BY <2>1, <2>3, <2>4
    <3> QED
      BY <1>2, <3>1, FollowsHandled
  <2> QED
    BY <1>1, <1>3, <2>1, <2>2, <2>3, <2>4, CardAlone
<1>8. ASSUME NEW d \in Cards, Buttons!OtherState(d) PROVE Buttons!AloneInv(c)'
  <2>1. PICK e \in Buttons!CardStates :
          /\ page' = [page EXCEPT ![d] = e]
          /\ e.known = page[d].known /\ e.inbox = page[d].inbox
          /\ e.queue = page[d].queue /\ e.call = page[d].call
          /\ e.actions = IF Buttons!Pending(d) THEN page[d].actions ELSE e.known
    BY <1>8, OtherFacts
  <2>2. UNCHANGED <<options, applied>>
    BY <1>8 DEF Buttons!OtherState
  <2>3. ASSUME d = c PROVE Buttons!Follows(e)
    <3>1. e.actions = page[c].actions
      BY <1>2, <2>1, <2>3, KnownWhenIdle
    <3> QED
      BY <1>2, <2>1, <2>3, <3>1 DEF Buttons!Follows
  <2> QED
    BY <1>1, <1>3, <2>1, <2>2, <2>3, CardAlone
<1>9. ASSUME NEW d \in Cards, Buttons!HandleSave(d) PROVE Buttons!AloneInv(c)'
  <2>1. page[d].call # <<>>
    BY <1>9 DEF Buttons!HandleSave
  <2>2. d = c
    BY <1>3, <2>1
  <2> QED
    BY <1>1, <1>9, <2>2, FollowsStored
<1>10. ASSUME NEW d \in Cards, Buttons!SaveFails(d) PROVE FALSE
  <2>1. saves' = [saves EXCEPT !.fault = @ + 1]
    BY <1>10 DEF Buttons!SaveFails
  <2>2. saves'.fault = saves.fault + 1 /\ saves.fault \in Nat
    BY <2>1 DEF Buttons!TypeOK
  <2> QED
    BY <2>2 DEF Buttons!Alone
<1>11. CASE Buttons!PlugChanged \/ UNCHANGED Buttons!vars
  <2>1. UNCHANGED <<options, applied, page>>
    BY <1>11 DEF Buttons!PlugChanged, Buttons!vars
  <2>2. Buttons!Follows(page[c])'
    BY <1>2, <2>1 DEF Buttons!Follows
  <2> QED
    BY <1>1, <2>1, <2>2 DEF Buttons!AloneInv
<1>12. CASE Buttons!ApplyResumes
  <2>1. /\ page' = Buttons!Pushed(options, page) /\ applied' = options /\ options' = options
    BY <1>12 DEF Buttons!ApplyResumes, Buttons!Alone
  <2> QED
    BY <1>1, <2>1, FollowsResumed
<1> QED
  BY <1>4, <1>5, <1>6, <1>7, <1>8, <1>9, <1>10, <1>11, <1>12 DEF Buttons!Next

THEOREM ButtonInvariant == Buttons!Spec => []Buttons!ButtonInv
<1>1. Buttons!Init => Buttons!ButtonInv
  BY ButtonInit
<1>2. Buttons!TypeOK /\ Buttons!ButtonInv /\ [Buttons!Next]_(Buttons!vars) => Buttons!ButtonInv'
  BY ButtonStep
<1> QED
  BY <1>1, <1>2, ButtonsTypeCorrect, PTL DEF Buttons!Spec

(* Of the only editor: when its saves have ended, the options hold its copy. *)
LEMMA StoredWhenIdle == Buttons!TypeOK /\ Buttons!ButtonInv => LastEditStands
<1> SUFFICES ASSUME Buttons!TypeOK, Buttons!ButtonInv, NEW c \in Cards,
                    editors = {c}, saves.fault = 0, ~Buttons!Pending(c), ~overtaken
             PROVE  options = page[c].actions /\ applied = options
  BY DEF LastEditStands, Buttons!LastEditStands
<1>1. Buttons!AloneInv(c)
  BY DEF Buttons!ButtonInv, Buttons!Alone
<1> QED
  BY <1>1, KnownWhenIdle DEF Buttons!AloneInv

(* When the saves of the only editor have ended and none has failed, the options
   and the coordinator hold the copy it shows. *)
THEOREM LastEditIsStored == Buttons!Spec => []LastEditStands
BY StoredWhenIdle, ButtonsTypeCorrect, ButtonInvariant, PTL

(* A step changes the copy of the only editor by its own edits alone. *)
OwnEdits ==
    \A c \in Cards :
       editors' = {c} /\ saves'.fault = 0 /\ ~overtaken' /\ saves'.edit = saves.edit
           => page'[c].actions = page[c].actions

LEMMA OwnEditsAlone ==
  ASSUME Buttons!TypeOK, Buttons!ButtonInv, [Buttons!Next]_(Buttons!vars)
  PROVE  OwnEdits
<1> SUFFICES ASSUME NEW c \in Cards, editors' = {c}, saves'.fault = 0, ~overtaken',
                    saves'.edit = saves.edit
             PROVE  page'[c].actions = page[c].actions
  BY DEF OwnEdits
<1>1. Buttons!AloneInv(c) /\ Buttons!Follows(page[c])
  BY AloneBefore DEF Buttons!ButtonInv, Buttons!Alone, Buttons!AloneInv
<1>2. ASSUME NEW d \in Cards, Buttons!Edit(d) PROVE FALSE
  <2>1. saves' = [saves EXCEPT !.edit = @ + 1]
    BY <1>2 DEF Buttons!Edit
  <2>2. saves'.edit = saves.edit + 1 /\ saves.edit \in Nat
    BY <2>1, CardPartsAssumption DEF Buttons!TypeOK
  <2> QED
    BY <2>2
<1>3. ASSUME NEW d \in Cards, NEW e \in Buttons!CardStates, page' = [page EXCEPT ![d] = e],
             d = c => e.actions = page[c].actions
      PROVE  page'[c].actions = page[c].actions
  BY <1>3, OneChanged
<1>4. ASSUME NEW d \in Cards, Buttons!Save(d) PROVE page'[c].actions = page[c].actions
  <2>1. PICK e \in Buttons!CardStates :
          /\ page' = [page EXCEPT ![d] = e]
          /\ e = [page[d] EXCEPT !.queue = Tail(@), !.call = <<Head(page[d].queue)>>]
    BY <1>4, SaveFacts
  <2>2. e.actions = page[d].actions
    BY <2>1, CardTypes DEF Buttons!CardStates
  <2> QED
    BY <1>3, <2>1, <2>2
<1>5. ASSUME NEW d \in Cards, Buttons!StateArrives(d) PROVE page'[c].actions = page[c].actions
  <2>1. PICK e \in Buttons!CardStates :
          /\ page' = [page EXCEPT ![d] = e] /\ page[d].inbox # <<>>
          /\ e.known = Head(page[d].inbox).actions
          /\ e.actions = IF Buttons!Pending(d) THEN page[d].actions ELSE e.known
    BY <1>5, StateFacts
  <2>2. d = c => e.actions = page[c].actions
    BY <1>1, <2>1, KnownWhenIdle
  <2> QED
    BY <1>3, <2>1, <2>2
<1>6. ASSUME NEW d \in Cards, Buttons!SaveEnds(d) PROVE page'[c].actions = page[c].actions
  <2>1. PICK e \in Buttons!CardStates :
          /\ page' = [page EXCEPT ![d] = e] /\ e = [page[d] EXCEPT !.inbox = Tail(@)]
    BY <1>6, EndFacts
  <2>2. e.actions = page[d].actions
    BY <2>1, CardTypes DEF Buttons!CardStates
  <2> QED
    BY <1>3, <2>1, <2>2
<1>7. ASSUME NEW d \in Cards, Buttons!OtherState(d) PROVE page'[c].actions = page[c].actions
  <2>1. PICK e \in Buttons!CardStates :
          /\ page' = [page EXCEPT ![d] = e] /\ e.known = page[d].known
          /\ e.actions = IF Buttons!Pending(d) THEN page[d].actions ELSE e.known
    BY <1>7, OtherFacts
  <2>2. d = c => e.actions = page[c].actions
    BY <1>1, <2>1, KnownWhenIdle
  <2> QED
    BY <1>3, <2>1, <2>2
<1>8. ASSUME NEW d \in Cards, Buttons!HandleSave(d) PROVE page'[c].actions = page[c].actions
  <2> DEFINE a == Head(page[d].call)
             e == [Buttons!Pushed(a, page)[d] EXCEPT !.call = <<>>,
                                             !.inbox = Append(@, Buttons!Result(TRUE))]
  <2>1. a \in SUBSET Buttons!Edits /\ page' = [Buttons!Pushed(a, page) EXCEPT ![d] = e]
    BY <1>8, HandleFacts
  <2>2. /\ Buttons!Pushed(a, page) \in [Cards -> Buttons!CardStates]
        /\ Buttons!Pushed(a, page)[c].actions = page[c].actions
        /\ Buttons!Pushed(a, page)[d].actions = page[d].actions
    BY <2>1, PushedFacts
  <2> HIDE DEF a
  <2>3. Buttons!Pushed(a, page)[d] \in Buttons!CardStates /\ e.actions = Buttons!Pushed(a, page)[d].actions
    BY <2>2 DEF Buttons!CardStates
  <2> HIDE DEF e
  <2> QED
    BY <2>1, <2>2, <2>3
<1>9. ASSUME NEW d \in Cards, Buttons!SaveFails(d) PROVE page'[c].actions = page[c].actions
  <2> DEFINE e == [page[d] EXCEPT !.call = <<>>, !.inbox = Append(@, Buttons!Result(FALSE))]
  <2>1. page' = [page EXCEPT ![d] = e]
    BY <1>9 DEF Buttons!SaveFails, Buttons!TypeOK
  <2>2. e.actions = page[d].actions
    BY CardTypes DEF Buttons!CardStates
  <2> HIDE DEF e
  <2> QED
    BY <2>1, <2>2 DEF Buttons!TypeOK
<1>10. CASE Buttons!PlugChanged \/ UNCHANGED Buttons!vars
  BY <1>10 DEF Buttons!PlugChanged, Buttons!vars
<1>11. CASE Buttons!ApplyResumes
  <2>1. PICK a \in suspended : page' = Buttons!Pushed(a, page)
    BY <1>11 DEF Buttons!ApplyResumes
  <2>2. a \in SUBSET Buttons!Edits
    BY DEF Buttons!TypeOK
  <2> QED
    BY <2>1, <2>2, PushedFacts
<1> QED
  BY <1>2, <1>4, <1>5, <1>6, <1>7, <1>8, <1>9, <1>10, <1>11 DEF Buttons!Next

(* Whatever states and results arrive, in whatever order with its own edits, the
   copy of the only editor changes with its edits alone. *)
THEOREM EditsNeverFlicker == Buttons!Spec => EditsStay
<1>1. Buttons!TypeOK /\ Buttons!ButtonInv /\ [Buttons!Next]_(Buttons!vars)
        => [OwnEdits]_(Buttons!vars)
  BY OwnEditsAlone
<1>2. Buttons!Spec => [][OwnEdits]_(Buttons!vars)
  BY <1>1, ButtonsTypeCorrect, ButtonInvariant, PTL DEF Buttons!Spec
<1> QED
  BY <1>2 DEF EditsStay, Buttons!EditsStay, OwnEdits

(***************************************************************************)
(* The mowing session.                                                     *)
(***************************************************************************)

Number == Nat \cup {Session!None}
Mowers == [status : {"mowing", "paused", "docked"}, time : Nat, progress : Nat, run : Nat]
Seen   == [status : Session!Statuses, time : Number, progress : Number, run : Nat]

TabStates == [open : BOOLEAN, seen : Seen, latched : {"unread", "no", "yes"},
              saw : Nat, best : Number]

Records == [open : BOOLEAN, running : BOOLEAN, area : Number, duration : Number,
            updatedAt : Number]

(***************************************************************************)
(* A duration never runs ahead of the clock: it is at most the time at     *)
(* which it was written.                                                   *)
(***************************************************************************)
Timely(s) ==
    /\ s \in Records
    /\ s.running => s.open
    /\ s.area <= now /\ s.updatedAt <= now /\ s.duration <= s.updatedAt

SessionTypes ==
    /\ now \in Nat /\ now <= MaxEvents
    /\ mower \in Mowers /\ mower.time <= now
    /\ linked \in BOOLEAN /\ latch \in BOOLEAN /\ unlatched \in BOOLEAN
    /\ tab \in [Tabs -> TabStates]
    /\ \A t \in Tabs : tab[t].seen.time <= now
    /\ Timely(session)

(***************************************************************************)
(* What the tabs know of the latch.  A closed tab has not read it; an open *)
(* one shows complete only if the latch is stored or was let go by a tab   *)
(* that saw the mower set off since; and of a set-off that it saw itself   *)
(* only if it saw the progress of a completion.                            *)
(***************************************************************************)
TabKnows(t) ==
    /\ ~tab[t].open => tab[t].latched = "unread"
    /\ tab[t].open => /\ tab[t].latched # "unread"
                      /\ tab[t].saw <= tab[t].seen.run /\ tab[t].seen.run <= mower.run
                      /\ tab[t].latched = "yes" =>
                           /\ latch \/ unlatched
                           /\ tab[t].saw = tab[t].seen.run
                              => tab[t].best >= Session!High \/ tab[t].saw = 0

SessionInv == SessionTypes /\ \A t \in Tabs : TabKnows(t)

-----------------------------------------------------------------------------
LEMMA NumberFacts ==
  /\ Session!None \in Number /\ Session!None \in Int /\ \A n \in Number : n \in Int /\ n >= Session!None
  /\ \A a, b \in Number : /\ Session!Larger(a, b) \in Number
                          /\ Session!Larger(a, b) >= a /\ Session!Larger(a, b) >= b
                          /\ Session!Larger(a, b) \in {a, b}
BY DEF Number, Session!None, Session!Larger

(* Whatever a tab receives: the mower's state, or nothing of an unavailable one. *)
LEMMA SensorFacts ==
  ASSUME SessionTypes
  PROVE  /\ Session!Sensors \in Seen /\ Session!Sensors.run = mower.run /\ Session!Sensors.time <= now
         /\ mower \in Seen
<1> DEFINE gone == [mower EXCEPT !.status = "unavailable", !.time = Session!None, !.progress = Session!None]
<1>1. mower \in Mowers /\ mower.time <= now /\ now \in Nat
  BY DEF SessionTypes
<1>2. mower \in Seen
  BY <1>1 DEF Mowers, Seen, Session!Statuses, Number
<1>3. gone \in Seen /\ gone.run = mower.run /\ gone.time = Session!None
  BY <1>1 DEF Mowers, Seen, Session!Statuses, Number, Session!None
<1>4. Session!Sensors = mower \/ Session!Sensors = gone
  BY DEF Session!Sensors
<1> HIDE DEF gone
<1> QED
  BY <1>1, <1>2, <1>3, <1>4 DEF Session!None

(* What of a stored record goes on by itself: at least what is stored, and
   never ahead of the clock. *)
LEMMA ProjectedFacts ==
  ASSUME SessionTypes, NEW s, Timely(s)
  PROVE  /\ Session!Projected(s) \in Number /\ Session!Projected(s) >= s.duration /\ Session!Projected(s) <= now
         /\ s.duration = Session!None <=> Session!Projected(s) = Session!None
<1>1. /\ s.duration \in Number /\ s.updatedAt \in Number /\ s.running \in BOOLEAN
      /\ s.updatedAt <= now /\ s.duration <= s.updatedAt /\ now \in Nat
  BY DEF Timely, Records, SessionTypes
<1>2. CASE s.duration = Session!None
  BY <1>1, <1>2 DEF Session!Projected, Session!None
<1>3. CASE s.duration # Session!None
  <2>1. s.duration \in Nat /\ s.updatedAt \in Nat
    BY <1>1, <1>3 DEF Number, Session!None
  <2>2. \/ Session!Projected(s) = s.duration + (now - s.updatedAt)
        \/ Session!Projected(s) = s.duration + 0
    BY <1>3 DEF Session!Projected
  <2> QED
    BY <1>1, <2>1, <2>2 DEF Number, Session!None
<1> QED
  BY <1>2, <1>3

(* The record after an update is again one that is not ahead of the clock, and
   that of an open session is neither below the record before nor below what is
   seen. *)
LEMMA ResolvedFacts ==
  ASSUME SessionTypes, NEW s, Timely(s), NEW seen \in Seen, seen.time <= now
  PROVE  /\ Timely(Session!Resolved(s, seen))
         /\ Session!Resolved(s, seen).open =>
              /\ Session!Resolved(s, seen).duration >= seen.time
              /\ s.open => Session!Resolved(s, seen).duration >= s.duration
<1>1. /\ now \in Nat /\ s.area \in Number /\ s.area <= now /\ s.duration \in Number
      /\ s.duration <= now /\ s.open \in BOOLEAN /\ s.running \in BOOLEAN
      /\ s.updatedAt \in Number
  <2>1. /\ s.updatedAt \in Number /\ s.updatedAt <= now /\ s.duration <= s.updatedAt
        /\ s.duration \in Number /\ now \in Nat
        /\ s.area \in Number /\ s.area <= now /\ s.open \in BOOLEAN /\ s.running \in BOOLEAN
    BY DEF SessionTypes, Timely, Records
  <2> QED
    BY <2>1 DEF Number, Session!None
<1>2. seen.time \in Number /\ seen.time <= now
  BY DEF Seen
<1>3. Session!Projected(s) \in Number /\ Session!Projected(s) >= s.duration /\ Session!Projected(s) <= now
  BY ProjectedFacts
<1> HIDE DEF Number
<1>4. CASE seen.status = "mowing"
  <2> DEFINE area  == IF s.open THEN s.area ELSE Session!None
             known == IF s.open THEN Session!Projected(s) ELSE Session!None
             a == Session!Larger(area, seen.time)
             d == Session!Larger(0, Session!Larger(known, seen.time))
  <2>1. Session!Resolved(s, seen) = [open |-> TRUE, running |-> TRUE, updatedAt |-> now,
                             area |-> a, duration |-> d]
    BY <1>4 DEF Session!Resolved, Session!ActiveSession
  <2>2. area \in Number /\ area <= now /\ known \in Number /\ known <= now
        /\ (s.open => known >= s.duration)
    BY <1>1, <1>3, NumberFacts DEF Session!None
  <2> HIDE DEF area, known
  <2>3. a \in Number /\ a <= now
    BY <1>2, <2>2, NumberFacts
  <2>4. 0 \in Number
    BY DEF Number
  <2>5. /\ Session!Larger(known, seen.time) \in Number
        /\ Session!Larger(known, seen.time) >= known /\ Session!Larger(known, seen.time) >= seen.time
        /\ Session!Larger(known, seen.time) <= now
    BY <1>2, <2>2, NumberFacts
  <2>6. /\ d \in Number /\ d <= now /\ d >= Session!Larger(known, seen.time)
    BY <1>1, <2>5 DEF Session!Larger, Number, Session!None
  <2>7. d >= known /\ d >= seen.time
    BY <1>2, <2>2, <2>5, <2>6 DEF Number, Session!None
  <2>8. s.open => d >= s.duration
    BY <1>1, <2>2, <2>6, <2>7 DEF Number, Session!None
  <2>9. now \in Number
    BY <1>1 DEF Number
  <2> HIDE DEF a, d
  <2> QED
    BY <1>1, <2>1, <2>3, <2>6, <2>7, <2>8, <2>9 DEF Timely, Records
<1>5. CASE seen.status = "paused"
  <2> DEFINE a == IF seen.time = Session!None THEN s.area ELSE seen.time
             d == Session!Larger(Session!Projected(s), seen.time)
  <2>1. Session!Resolved(s, seen) = [open |-> TRUE, running |-> FALSE, updatedAt |-> now,
                             area |-> a, duration |-> d]
    BY <1>5 DEF Session!Resolved, Session!PausedSession
  <2>2. a \in Number /\ a <= now
    BY <1>1, <1>2
  <2>3. d \in Number /\ d <= now /\ d >= Session!Projected(s) /\ d >= seen.time
    BY <1>2, <1>3, NumberFacts
  <2>4. d >= s.duration
    BY <1>1, <1>3, <2>3 DEF Number, Session!None
  <2>5. now \in Number
    BY <1>1 DEF Number
  <2> HIDE DEF a, d
  <2> QED
    BY <1>1, <2>1, <2>2, <2>3, <2>4, <2>5 DEF Timely, Records
<1>6. CASE seen.status \notin {"mowing", "paused"}
  <2> DEFINE longest == Session!Larger(Session!Projected(s), seen.time)
             a == IF s.area = Session!None /\ seen.time > 0 THEN seen.time ELSE s.area
             d == IF s.running /\ longest > 0 THEN longest
                  ELSE IF s.duration = Session!None /\ seen.time > 0 THEN seen.time
                  ELSE s.duration
  <2>1. Session!Resolved(s, seen) = [open |-> FALSE, running |-> FALSE, updatedAt |-> now,
                             area |-> a, duration |-> d]
    BY <1>6 DEF Session!Resolved, Session!EndedSession
  <2>2. longest \in Number /\ longest <= now
    BY <1>2, <1>3, NumberFacts
  <2> HIDE DEF longest
  <2>3. a \in Number /\ a <= now
    BY <1>1, <1>2
  <2>4. d \in Number /\ d <= now
    BY <1>1, <1>2, <2>2
  <2>5. now \in Number
    BY <1>1 DEF Number
  <2> HIDE DEF a, d
  <2> QED
    BY <1>1, <2>1, <2>3, <2>4, <2>5 DEF Timely, Records
<1> QED
  BY <1>4, <1>5, <1>6
-----------------------------------------------------------------------------
LEMMA InitialSession == Session!Init => SessionInv
<1> SUFFICES ASSUME Session!Init PROVE SessionInv
  OBVIOUS
<1> DEFINE docked == [status |-> "docked", time |-> 0, progress |-> 0, run |-> 0]
<1>1. docked \in Mowers /\ docked \in Seen /\ docked.time = 0 /\ mower = docked
  BY DEF Session!Init, Mowers, Seen, Session!Statuses, Number
<1>2. Session!Closed \in TabStates /\ Session!Closed.open = FALSE /\ Session!Closed.latched = "unread"
      /\ Session!Closed.seen.time = 0
  BY <1>1 DEF Session!Closed, TabStates, Number
<1>3. now = 0 /\ Timely(session)
  BY DEF Session!Init, Session!NoSession, Timely, Records, Number, Session!None
<1>4. linked = TRUE /\ latch = FALSE /\ unlatched = FALSE
      /\ tab = [t \in Tabs |-> Session!Closed]
  BY DEF Session!Init
<1> HIDE DEF docked
<1>5. tab \in [Tabs -> TabStates] /\ \A t \in Tabs : tab[t] = Session!Closed
  BY <1>2, <1>4
<1>6. linked \in BOOLEAN /\ latch \in BOOLEAN /\ unlatched \in BOOLEAN
  BY <1>4, Zenon
<1>7. now \in Nat /\ now <= MaxEvents /\ mower.time <= now
  BY <1>1, <1>3, CardPartsAssumption
<1>8. ASSUME NEW t \in Tabs
      PROVE  tab[t].seen.time <= now
  <2>1. tab[t].seen.time = 0 /\ now = 0
    BY <1>2, <1>3, <1>5, Zenon
  <2> QED
    BY <2>1
<1>9. SessionTypes
  BY <1>1, <1>3, <1>5, <1>6, <1>7, <1>8 DEF SessionTypes
<1> QED
  BY <1>2, <1>5, <1>9 DEF SessionInv, TabKnows

(* Time passes, and a record that was timely stays so. *)
LEMMA StaysTimely ==
  ASSUME SessionTypes, NEW s, Timely(s), now' \in Nat, now' >= now
  PROVE  Timely(s)'
<1>1. /\ now \in Nat /\ s.area \in Number /\ s.updatedAt \in Number
      /\ s.area <= now /\ s.updatedAt <= now
  BY DEF SessionTypes, Timely, Records
<1> QED
  BY <1>1 DEF Timely, Number, Session!None

(* A step of the mower leaves the tabs and what is stored alone. *)
LEMMA WorldKeeps ==
  ASSUME SessionInv, UNCHANGED <<tab, session, latch, unlatched>>,
         now' \in Nat, now' >= now, now' <= MaxEvents,
         linked' \in BOOLEAN, mower' \in Mowers, mower'.time <= now',
         mower'.run >= mower.run
  PROVE  SessionInv'
<1>1. Timely(session)' 
  BY StaysTimely DEF SessionInv, SessionTypes
<1>2. \A t \in Tabs : tab'[t].seen.time <= now'
  BY DEF SessionInv, SessionTypes, TabStates, Seen, Number, Session!None
<1>3. SessionTypes'
  BY <1>1, <1>2 DEF SessionInv, SessionTypes
<1>4. ASSUME NEW t \in Tabs
      PROVE  TabKnows(t)'
  <2>1. TabKnows(t) /\ tab' = tab /\ latch' = latch /\ unlatched' = unlatched
    BY DEF SessionInv
  <2>2. tab[t].seen.run \in Nat /\ mower.run \in Nat /\ mower'.run \in Nat
    BY DEF SessionInv, SessionTypes, TabStates, Seen, Mowers
  <2> QED
    BY <2>1, <2>2 DEF TabKnows
<1> QED
  BY <1>3, <1>4 DEF SessionInv

LEMMA MowerStep ==
  ASSUME SessionInv, Session!TimePasses \/ Session!SetsOff \/ Session!Pauses \/ Session!Docks \/ Session!Availability
  PROVE  SessionInv'
<1>1. /\ now \in Nat /\ now <= MaxEvents /\ mower \in Mowers
      /\ mower.time <= now /\ linked \in BOOLEAN
      /\ mower.time \in Nat /\ mower.run \in Nat /\ mower.progress \in Nat
      /\ mower.status \in {"mowing", "paused", "docked"}
      /\ mower = [status |-> mower.status, time |-> mower.time,
                  progress |-> mower.progress, run |-> mower.run]
  BY DEF SessionInv, SessionTypes, Mowers
<1>2. CASE Session!TimePasses
  <2>1. now' = now + 1 /\ now + mower.run < MaxEvents /\ linked' = linked
        /\ UNCHANGED <<tab, session, latch, unlatched>>
    BY <1>2 DEF Session!TimePasses, Session!World
  <2>2. \/ mower' = mower
        \/ \E p \in {mower.progress, Session!Larger(mower.progress, Session!Low), Session!High} :
              mower' = [status |-> mower.status, time |-> mower.time + 1,
                        progress |-> p, run |-> mower.run]
    BY <1>1, <1>2 DEF Session!TimePasses, Session!World
  <2>3. mower' \in Mowers /\ mower'.time <= now + 1 /\ mower'.run = mower.run
    BY <1>1, <2>2 DEF Mowers, Session!Larger, Session!Low, Session!High
  <2>4. now' <= MaxEvents
    BY <1>1, <2>1, CardPartsAssumption DEF Mowers
  <2> QED
    BY <1>1, <2>1, <2>3, <2>4, WorldKeeps
<1>3. CASE Session!SetsOff
  <2>1. now' = now /\ linked' = linked /\ UNCHANGED <<tab, session, latch, unlatched>>
    BY <1>3 DEF Session!SetsOff, Session!World
  <2>2. \/ mower' = [status |-> "mowing", time |-> 0, progress |-> 0, run |-> mower.run + 1]
        \/ mower' = [status |-> "mowing", time |-> mower.time,
                     progress |-> mower.progress, run |-> mower.run + 1]
    BY <1>1, <1>3 DEF Session!SetsOff, Session!World
  <2>3. mower' \in Mowers /\ mower'.time <= now /\ mower'.run >= mower.run
    BY <1>1, <2>2 DEF Mowers
  <2> QED
    BY <1>1, <2>1, <2>3, WorldKeeps
<1>4. CASE Session!Pauses \/ Session!Docks
  <2>1. now' = now /\ linked' = linked /\ UNCHANGED <<tab, session, latch, unlatched>>
    BY <1>4 DEF Session!Pauses, Session!Docks, Session!World
  <2>2. \E s \in {"paused", "docked"} :
          \/ mower' = [status |-> s, time |-> 0, progress |-> 0, run |-> mower.run]
          \/ mower' = [status |-> s, time |-> mower.time,
                       progress |-> mower.progress, run |-> mower.run]
    BY <1>1, <1>4 DEF Session!Pauses, Session!Docks, Session!World
  <2>3. mower' \in Mowers /\ mower'.time <= now /\ mower'.run >= mower.run
    BY <1>1, <2>2 DEF Mowers
  <2> QED
    BY <1>1, <2>1, <2>3, WorldKeeps
<1>5. CASE Session!Availability
  <2>1. /\ now' = now /\ linked' \in BOOLEAN /\ mower' = mower
        /\ UNCHANGED <<tab, session, latch, unlatched>>
    BY <1>5 DEF Session!Availability, Session!World
  <2> QED
    BY <1>1, <2>1, WorldKeeps
<1> QED
  BY <1>2, <1>3, <1>4, <1>5

(* What a tab that receives the sensors makes of the latch. *)
LEMMA LatchFacts ==
  ASSUME SessionInv, NEW t \in Tabs, NEW seen \in Seen
  PROVE  /\ Session!Latched(t, seen) \in BOOLEAN /\ Session!ReadLatch(t) \in BOOLEAN
         /\ Session!StoredLatch(t, seen) \in BOOLEAN
         /\ seen.status = "mowing" => ~Session!Latched(t, seen)
         /\ Session!Latched(t, seen) => Session!ReadLatch(t) \/ seen.progress >= Session!High
         /\ Session!Latched(t, seen) /\ ~Session!ReadLatch(t) => Session!StoredLatch(t, seen)
         /\ Session!StoredLatch(t, seen) # latch =>
              /\ Session!StoredLatch(t, seen) = Session!Latched(t, seen)
              /\ ~Session!Latched(t, seen) => seen.status = "mowing"
         /\ Session!ReadLatch(t) => latch \/ tab[t].latched = "yes"
         /\ tab[t].latched = "yes" => Session!ReadLatch(t)
         /\ Session!ReadLatch(t) /\ seen.status # "mowing" => Session!Latched(t, seen)
<1>1. latch \in BOOLEAN
  BY DEF SessionInv, SessionTypes
<1>2. Session!ReadLatch(t) \in BOOLEAN /\ (Session!ReadLatch(t) => latch \/ tab[t].latched = "yes")
      /\ (tab[t].latched = "yes" => Session!ReadLatch(t))
  BY <1>1, Zenon DEF Session!ReadLatch
<1>3. /\ Session!Latched(t, seen) \in BOOLEAN
      /\ seen.status = "mowing" => ~Session!Latched(t, seen)
      /\ Session!Latched(t, seen) => Session!ReadLatch(t) \/ seen.progress >= Session!High
      /\ Session!ReadLatch(t) /\ seen.status # "mowing" => Session!Latched(t, seen)
  BY <1>2 DEF Session!Latched
<1>4. /\ Session!StoredLatch(t, seen) \in BOOLEAN
      /\ Session!Latched(t, seen) /\ ~Session!ReadLatch(t) => Session!StoredLatch(t, seen)
      /\ Session!StoredLatch(t, seen) # latch =>
           /\ Session!StoredLatch(t, seen) = Session!Latched(t, seen)
           /\ Session!Latched(t, seen) # Session!ReadLatch(t)
  BY <1>1, <1>2, <1>3, Zenon DEF Session!StoredLatch
<1> QED
  BY <1>2, <1>3, <1>4
(* A tab that receives the sensors, or is opened and reads them. *)
LEMMA UpdateStep ==
  ASSUME SessionInv, NEW t \in Tabs, NEW opened \in BOOLEAN,
         Session!Update(t, Session!Sensors, opened), opened = ~tab[t].open
  PROVE  /\ SessionInv'
         /\ tab'[t].seen = Session!Sensors /\ session' = Session!Resolved(session, Session!Sensors)
         /\ \A u \in Tabs : u # t => tab'[u] = tab[u]
         /\ tab[t].latched = "yes" =>
               tab'[t].latched = "yes" \/ tab'[t].seen.status = "mowing"
<1> DEFINE seen == Session!Sensors
           best == IF ~opened /\ tab[t].seen.run = seen.run
                   THEN Session!Larger(tab[t].best, seen.progress) ELSE seen.progress
           saw == IF seen.status = "mowing" THEN seen.run
                  ELSE IF opened THEN 0 ELSE tab[t].saw
           next == [open |-> TRUE, seen |-> seen,
                    latched |-> IF Session!Latched(t, seen) THEN "yes" ELSE "no",
                    saw |-> saw, best |-> best]
<1>1. /\ seen \in Seen /\ seen.run = mower.run /\ seen.time <= now
      /\ seen.progress \in Number /\ seen.run \in Nat /\ mower.run \in Nat
  BY SensorFacts DEF SessionInv, SessionTypes, Mowers, Seen
<1>2. /\ session' = Session!Resolved(session, seen)
      /\ latch' = Session!StoredLatch(t, seen)
      /\ unlatched' = IF latch' # latch /\ latch' THEN FALSE
                      ELSE unlatched \/ seen.status = "mowing"
      /\ tab' = [tab EXCEPT ![t] = next]
      /\ UNCHANGED <<now, mower, linked>>
  BY DEF Session!Update
<1> HIDE DEF seen
<1>3. /\ Session!Latched(t, seen) \in BOOLEAN /\ Session!ReadLatch(t) \in BOOLEAN
      /\ Session!StoredLatch(t, seen) \in BOOLEAN
      /\ seen.status = "mowing" => ~Session!Latched(t, seen)
      /\ Session!Latched(t, seen) => Session!ReadLatch(t) \/ seen.progress >= Session!High
      /\ Session!Latched(t, seen) /\ ~Session!ReadLatch(t) => Session!StoredLatch(t, seen)
      /\ Session!StoredLatch(t, seen) # latch =>
           /\ Session!StoredLatch(t, seen) = Session!Latched(t, seen)
           /\ ~Session!Latched(t, seen) => seen.status = "mowing"
      /\ Session!ReadLatch(t) => latch \/ tab[t].latched = "yes"
      /\ tab[t].latched = "yes" => Session!ReadLatch(t)
      /\ Session!ReadLatch(t) /\ seen.status # "mowing" => Session!Latched(t, seen)
  BY <1>1, LatchFacts
<1>4. /\ tab \in [Tabs -> TabStates] /\ latch \in BOOLEAN /\ unlatched \in BOOLEAN
      /\ tab[t] \in TabStates /\ TabKnows(t) /\ SessionTypes /\ Timely(session)
  BY DEF SessionInv, SessionTypes
<1>5. /\ tab[t].best \in Number /\ tab[t].saw \in Nat /\ tab[t].seen.run \in Nat
      /\ tab[t].open \in BOOLEAN /\ tab[t].latched \in {"unread", "no", "yes"}
  BY <1>4 DEF TabStates, Seen
<1>6. best \in Number /\ saw \in Nat
  BY <1>1, <1>5, NumberFacts
<1> HIDE DEF best, saw
<1>7. next \in TabStates /\ next.open = TRUE /\ next.seen = seen
      /\ next.latched = (IF Session!Latched(t, seen) THEN "yes" ELSE "no")
      /\ next.saw = saw /\ next.best = best
  BY <1>1, <1>6 DEF TabStates
<1> HIDE DEF next
<1>8. /\ tab' \in [Tabs -> TabStates] /\ tab'[t] = next
      /\ \A u \in Tabs : u # t => tab'[u] = tab[u]
  BY <1>2, <1>4, <1>7
<1>9. /\ latch' \in BOOLEAN /\ unlatched' \in BOOLEAN
      /\ latch \/ unlatched => latch' \/ unlatched'
      /\ Session!Latched(t, seen) => latch' \/ unlatched'
  <2>1. latch' \in BOOLEAN
    BY <1>2, <1>3
  <2>2. unlatched' \in BOOLEAN
    BY <1>2, <1>4, <2>1, Zenon
  <2>3. CASE latch' # latch /\ latch'
    BY <2>1, <2>2, <2>3, Zenon
  <2>4. CASE latch' # latch /\ ~latch'
    <3>1. seen.status = "mowing" /\ unlatched' /\ ~Session!Latched(t, seen)
      BY <1>2, <1>3, <2>4, Zenon
    <3> QED
      BY <2>1, <2>2, <3>1, Zenon
  <2>5. CASE latch' = latch
    <3>1. unlatched => unlatched'
      BY <1>2, <2>5, Zenon
    <3>2. Session!Latched(t, seen) => latch \/ tab[t].latched = "yes" \/ latch'
      BY <1>2, <1>3
    <3>3. tab[t].latched = "yes" => latch \/ unlatched
      BY <1>4, <1>5 DEF TabKnows
    <3> QED
      BY <2>1, <2>2, <2>5, <3>1, <3>2, <3>3, Zenon
  <2> QED
    BY <2>3, <2>4, <2>5, Zenon
<1>10. Timely(Session!Resolved(session, seen)) 
  BY <1>1, <1>4, ResolvedFacts
<1>11. SessionTypes'
  <2>1. Timely(session)'
    BY <1>2, <1>10 DEF Timely
  <2>2. \A u \in Tabs : tab'[u].seen.time <= now'
    BY <1>1, <1>2, <1>7, <1>8 DEF SessionInv, SessionTypes
  <2> QED
    BY <1>2, <1>8, <1>9, <2>1, <2>2 DEF SessionInv, SessionTypes
<1>12. ASSUME NEW u \in Tabs, u # t
       PROVE  TabKnows(u)'
  <2>1. TabKnows(u)
    BY DEF SessionInv
  <2>2. tab'[u] = tab[u] /\ mower' = mower
    BY <1>2, <1>8, <1>12
  <2> QED
    BY <1>9, <2>1, <2>2 DEF TabKnows
<1>13. TabKnows(t)'
  <2>1. saw <= seen.run
    <3>1. tab[t].open => tab[t].saw <= mower.run
      BY <1>1, <1>4, <1>5 DEF TabKnows
    <3>2. saw = seen.run \/ saw = 0 \/ (tab[t].open /\ saw = tab[t].saw)
      BY <1>5, Zenon DEF saw
    <3> QED
      BY <1>1, <1>5, <3>1, <3>2
  <2>2. ASSUME Session!Latched(t, seen), saw = seen.run, saw # 0
        PROVE  best >= Session!High
    <3>1. ~opened /\ saw = tab[t].saw /\ tab[t].open
      BY <1>3, <1>5, <2>2 DEF saw
    <3>2. tab[t].seen.run = seen.run /\ tab[t].saw = tab[t].seen.run
          /\ tab[t].latched # "unread"
      BY <1>1, <1>4, <1>5, <2>2, <3>1 DEF TabKnows
    <3>3. best >= tab[t].best /\ best >= seen.progress
      BY <1>1, <1>5, <3>1, <3>2, NumberFacts DEF best
    <3>4. CASE seen.progress >= Session!High
      BY <1>1, <1>6, <3>3, <3>4 DEF Session!High, Number, Session!None
    <3>5. CASE ~(seen.progress >= Session!High)
      <4>1. Session!ReadLatch(t)
        BY <1>3, <2>2, <3>5
      <4>2. tab[t].latched = "yes"
        BY <3>2, <4>1 DEF Session!ReadLatch
      <4>3. tab[t].best >= Session!High
        BY <1>4, <2>2, <3>1, <3>2, <4>2 DEF TabKnows
      <4> QED
        BY <1>5, <1>6, <3>3, <4>3 DEF Session!High, Number, Session!None
    <3> QED
      BY <3>4, <3>5
  <2> QED
    BY <1>1, <1>2, <1>7, <1>8, <1>9, <2>1, <2>2 DEF TabKnows
<1>14. tab[t].latched = "yes" => tab'[t].latched = "yes" \/ seen.status = "mowing"
  BY <1>3, <1>7, <1>8
<1> QED
  BY <1>2, <1>7, <1>8, <1>11, <1>12, <1>13, <1>14 DEF SessionInv, seen

LEMMA CloseStep ==
  ASSUME SessionInv, NEW t \in Tabs, Session!CloseTab(t)
  PROVE  /\ SessionInv' /\ session' = session /\ ~tab'[t].open
         /\ \A u \in Tabs : u # t => tab'[u] = tab[u]
<1>1. /\ tab' = [tab EXCEPT ![t] = Session!Closed]
      /\ UNCHANGED <<now, mower, linked, session, latch, unlatched>>
  BY DEF Session!CloseTab
<1>2. /\ SessionTypes /\ tab \in [Tabs -> TabStates] /\ mower \in Seen
      /\ mower.time <= now
  BY SensorFacts DEF SessionInv, SessionTypes
<1>3. /\ Session!Closed \in TabStates /\ Session!Closed.open = FALSE /\ Session!Closed.latched = "unread"
      /\ Session!Closed.seen = mower
  BY <1>2 DEF Session!Closed, TabStates, Number
<1>4. /\ tab' \in [Tabs -> TabStates] /\ tab'[t] = Session!Closed
      /\ \A u \in Tabs : u # t => tab'[u] = tab[u]
  BY <1>1, <1>2, <1>3
<1>5. \A u \in Tabs : tab'[u].seen.time <= now
  BY <1>2, <1>3, <1>4 DEF SessionTypes
<1>6. Timely(session)'
  BY <1>1, <1>2 DEF SessionTypes, Timely
<1>7. SessionTypes'
  BY <1>1, <1>2, <1>4, <1>5, <1>6 DEF SessionTypes
<1>8. ASSUME NEW u \in Tabs
      PROVE  TabKnows(u)'
  <2>1. CASE u = t
    BY <1>3, <1>4, <2>1 DEF TabKnows
  <2>2. CASE u # t
    BY <1>1, <1>4, <2>2 DEF SessionInv, TabKnows
  <2> QED
    BY <2>1, <2>2
<1> QED
  BY <1>1, <1>3, <1>4, <1>7, <1>8 DEF SessionInv

(* The timer of the panel, and steps that change nothing. *)
LEMMA TimerStep ==
  ASSUME SessionInv, UNCHANGED <<now, mower, linked, tab, latch, unlatched>>,
         session' = session \/ \E t \in Tabs : session' = Session!Resolved(session, tab[t].seen)
  PROVE  SessionInv'
<1>1. SessionTypes /\ Timely(session)
  BY DEF SessionInv, SessionTypes
<1>2. \A t \in Tabs : tab[t].seen \in Seen /\ tab[t].seen.time <= now
  BY DEF SessionInv, SessionTypes, TabStates
<1>3. Timely(session')
  BY <1>1, <1>2, ResolvedFacts
<1>4. Timely(session)'
  BY <1>3 DEF Timely
<1>5. SessionTypes'
  BY <1>1, <1>4 DEF SessionTypes
<1> QED
  BY <1>5 DEF SessionInv, TabKnows

-----------------------------------------------------------------------------
LEMMA SessionInductive == SessionInv /\ [Session!Next]_(Session!vars) => SessionInv'
<1> SUFFICES ASSUME SessionInv, [Session!Next]_(Session!vars) PROVE SessionInv'
  OBVIOUS
<1>1. CASE Session!TimePasses \/ Session!SetsOff \/ Session!Pauses \/ Session!Docks \/ Session!Availability
  BY <1>1, MowerStep
<1>2. ASSUME NEW t \in Tabs, Session!Receive(t)
      PROVE  SessionInv'
  BY <1>2, UpdateStep DEF Session!Receive
<1>3. ASSUME NEW t \in Tabs, Session!OpenTab(t)
      PROVE  SessionInv'
  BY <1>3, UpdateStep DEF Session!OpenTab
<1>4. ASSUME NEW t \in Tabs, Session!CloseTab(t)
      PROVE  SessionInv'
  BY <1>4, CloseStep
<1>5. ASSUME NEW t \in Tabs, Session!InfoTimer(t)
      PROVE  SessionInv'
  BY <1>5, TimerStep DEF Session!InfoTimer
<1>6. CASE UNCHANGED Session!vars
  BY <1>6, TimerStep DEF Session!vars
<1> QED
  BY <1>1, <1>2, <1>3, <1>4, <1>5, <1>6 DEF Session!Next

(* Every step keeps the record, or resolves it from what the tab that it
   updates sees; a tab it does not update, or closes, is as good as before. *)
LEMMA StepFacts ==
  ASSUME SessionInv, [Session!Next]_(Session!vars)
  PROVE  /\ \/ session' = session
            \/ \E t \in Tabs, seen \in Seen :
                  /\ seen.time <= now /\ session' = Session!Resolved(session, seen)
                  /\ \A u \in Tabs : tab'[u] # tab[u] => tab'[u].seen = seen
         /\ \A u \in Tabs :
               tab'[u] # tab[u] /\ tab'[u].open =>
                 /\ \E seen \in Seen : /\ seen.time <= now /\ tab'[u].seen = seen
                                       /\ session' = Session!Resolved(session, seen)
                 /\ tab[u].latched = "yes" =>
                      tab'[u].latched = "yes" \/ tab'[u].seen.status = "mowing"
<1>1. CASE Session!TimePasses \/ Session!SetsOff \/ Session!Pauses \/ Session!Docks \/ Session!Availability \/ UNCHANGED Session!vars
  <2>1. session' = session /\ tab' = tab
    BY <1>1 DEF Session!TimePasses, Session!SetsOff, Session!Pauses, Session!Docks, Session!Availability, Session!World, Session!vars
  <2> QED
    BY <2>1
<1>2. ASSUME NEW t \in Tabs, Session!Receive(t) \/ Session!OpenTab(t)
      PROVE  /\ tab'[t].seen = Session!Sensors /\ session' = Session!Resolved(session, Session!Sensors)
             /\ \A u \in Tabs : u # t => tab'[u] = tab[u]
             /\ tab[t].latched = "yes" =>
                   tab'[t].latched = "yes" \/ tab'[t].seen.status = "mowing"
  BY <1>2, UpdateStep DEF Session!Receive, Session!OpenTab
<1>3. Session!Sensors \in Seen /\ Session!Sensors.time <= now
  BY SensorFacts DEF SessionInv
<1>4. ASSUME NEW t \in Tabs, Session!CloseTab(t)
      PROVE  /\ session' = session /\ ~tab'[t].open
             /\ \A u \in Tabs : u # t => tab'[u] = tab[u]
  BY <1>4, CloseStep
<1>5. ASSUME NEW t \in Tabs, Session!InfoTimer(t)
      PROVE  /\ tab[t].seen \in Seen /\ tab[t].seen.time <= now
             /\ session' = Session!Resolved(session, tab[t].seen) /\ tab' = tab
  BY <1>5 DEF Session!InfoTimer, SessionInv, SessionTypes, TabStates
<1>6. CASE \E t \in Tabs : Session!Receive(t) \/ Session!OpenTab(t)
  BY <1>2, <1>3, <1>6
<1>7. CASE \E t \in Tabs : Session!CloseTab(t)
  BY <1>4, <1>7
<1>8. CASE \E t \in Tabs : Session!InfoTimer(t)
  BY <1>5, <1>8
<1> QED
  BY <1>1, <1>6, <1>7, <1>8 DEF Session!Next

LEMMA SessionInvariant == Session!Spec => []SessionInv
BY InitialSession, SessionInductive, PTL DEF Session!Spec

(* Every variable keeps its type, and a duration is at most the time there is. *)
THEOREM SessionTypeCorrect == Session!Spec => []Session!TypeOK
<1>1. SessionInv => Session!TypeOK
  <2> SUFFICES ASSUME SessionInv PROVE Session!TypeOK
    OBVIOUS
  <2>1. /\ now \in Nat /\ now <= MaxEvents /\ mower \in Mowers /\ linked \in BOOLEAN
        /\ latch \in BOOLEAN /\ tab \in [Tabs -> TabStates] /\ Timely(session)
    BY DEF SessionInv, SessionTypes
  <2>2. /\ session \in Records /\ session.area <= MaxEvents
        /\ session.updatedAt <= MaxEvents /\ session.duration <= MaxEvents
        /\ session.running => session.open
    BY <2>1, CardPartsAssumption DEF Timely, Records, Number, Session!None
  <2>3. \A n \in Number : n <= MaxEvents => n \in Session!Numbers
                                            /\ n \in {Session!None} \cup 0 .. MaxEvents
    BY CardPartsAssumption DEF Number, Session!Numbers, Session!None
  <2>4. session \in [open : BOOLEAN, running : BOOLEAN, area : Session!Numbers,
                     duration : Session!Numbers, updatedAt : {Session!None} \cup 0 .. MaxEvents]
    BY <2>2, <2>3 DEF Records
  <2>5. \A t \in Tabs : /\ tab[t].open \in BOOLEAN /\ tab[t].seen.status \in Session!Statuses
                        /\ tab[t].latched \in {"unread", "no", "yes"}
    BY <2>1 DEF TabStates, Seen
  <2> QED
    BY <2>1, <2>2, <2>4, <2>5 DEF Session!TypeOK, Mowers, Session!Statuses
<1> QED
  BY <1>1, SessionInvariant, PTL

(* The duration of an open session never falls, nor below what is seen: of       *)
(* resolveMowingSessionInfo, whichever tab runs it on whatever sensors.          *)
THEOREM DurationsGrow == Session!Spec => DurationGrows
<1>1. SessionInv /\ [Session!Next]_(Session!vars) =>
        [/\ session.open /\ session'.open => session'.duration >= session.duration
         /\ \A t \in Tabs :
              tab'[t] # tab[t] /\ tab'[t].open /\ session'.open
                 => session'.duration >= tab'[t].seen.time]_(Session!vars)
  <2> SUFFICES ASSUME SessionInv, [Session!Next]_(Session!vars)
               PROVE  /\ session.open /\ session'.open
                           => session'.duration >= session.duration
                      /\ \A t \in Tabs :
                           tab'[t] # tab[t] /\ tab'[t].open /\ session'.open
                              => session'.duration >= tab'[t].seen.time
    OBVIOUS
  <2>1. /\ SessionTypes /\ Timely(session) /\ session.duration \in Int
    BY DEF SessionInv, SessionTypes, Timely, Records, Number, Session!None
  <2>2. \A seen \in Seen : seen.time <= now /\ Session!Resolved(session, seen).open =>
          /\ Session!Resolved(session, seen).duration >= seen.time
          /\ session.open => Session!Resolved(session, seen).duration >= session.duration
    BY <2>1, ResolvedFacts
  <2> QED
    BY <2>1, <2>2, StepFacts
<1> QED
  BY <1>1, SessionInvariant, PTL DEF Session!Spec, DurationGrows, Session!DurationGrows

(* A finished task stays complete until the mower sets off, is kept for pages   *)
(* to come, and was seen to be finished: of updateMowingProgressStatus.         *)
THEOREM StaysComplete == Session!Spec => CompleteUntilMowing
<1> DEFINE Shown == \A t \in Tabs :
             /\ /\ tab[t].latched = "yes" /\ tab'[t].open
                /\ tab'[t].seen.run = tab[t].seen.run
                => tab'[t].latched = "yes" \/ tab'[t].seen.status = "mowing"
             /\ tab'[t].open /\ tab'[t].latched = "yes" =>
                   /\ latch' \/ unlatched'
                   /\ tab'[t].saw = tab'[t].seen.run
                      => tab'[t].best >= Session!High \/ tab'[t].saw = 0
<1>1. SessionInv /\ [Session!Next]_(Session!vars) => [Shown]_(Session!vars)
  <2> SUFFICES ASSUME SessionInv, [Session!Next]_(Session!vars), NEW t \in Tabs
               PROVE  /\ tab[t].latched = "yes" /\ tab'[t].open
                           => tab'[t].latched = "yes" \/ tab'[t].seen.status = "mowing"
                      /\ tab'[t].open /\ tab'[t].latched = "yes" =>
                           /\ latch' \/ unlatched'
                           /\ tab'[t].saw = tab'[t].seen.run
                              => tab'[t].best >= Session!High \/ tab'[t].saw = 0
    OBVIOUS
  <2>1. TabKnows(t)'
    BY SessionInductive DEF SessionInv
  <2>2. tab[t].latched = "yes" /\ tab'[t].open
           => tab'[t].latched = "yes" \/ tab'[t].seen.status = "mowing"
    BY StepFacts
  <2> QED
    BY <2>1, <2>2 DEF TabKnows
<1> QED
  BY <1>1, SessionInvariant, PTL DEF Session!Spec, CompleteUntilMowing, Session!CompleteUntilMowing

(***************************************************************************)
(* The parts side by side: what is promised of each holds of all.          *)
(***************************************************************************)

LEMMA EachPart ==
  /\ CardsInit => Init /\ Buttons!Init /\ Session!Init
  /\ [CardsNext]_cardsVars =>
        [Next]_vars /\ [Buttons!Next]_(Buttons!vars) /\ [Session!Next]_(Session!vars)
<1>1. CardsInit => Init /\ Buttons!Init /\ Session!Init
  BY DEF CardsInit
<1>2. /\ UNCHANGED buttonVars => UNCHANGED Buttons!vars
      /\ UNCHANGED sessionVars => UNCHANGED Session!vars
  BY DEF Buttons!vars, buttonVars, Session!vars, sessionVars
<1>3. ASSUME [CardsNext]_cardsVars
      PROVE  [Next]_vars /\ [Buttons!Next]_(Buttons!vars) /\ [Session!Next]_(Session!vars)
  <2>1. CardsNext \/ (UNCHANGED vars /\ UNCHANGED buttonVars /\ UNCHANGED sessionVars)
    BY <1>3 DEF cardsVars
  <2>2. /\ Next \/ UNCHANGED vars
        /\ Buttons!Next \/ UNCHANGED buttonVars
        /\ Session!Next \/ UNCHANGED sessionVars
    BY <2>1 DEF CardsNext
  <2> QED
    BY <1>2, <2>2
<1> QED
  BY <1>1, <1>3

(* In the system whose parts run side by side, no edit of the only editor is *)
(* lost or flickers, a duration grows and a complete session stays complete; *)
(* and its path is one of LivePath.                                          *)
THEOREM PartsStand ==
  CardsSpec => /\ []LastEditStands /\ EditsStay
               /\ DurationGrows /\ CompleteUntilMowing /\ Spec
<1>1. CardsSpec => Session!Spec /\ Spec
  BY EachPart, PTL DEF CardsSpec, Session!Spec, Spec
<1>2. Buttons!Init => Buttons!TypeOK /\ Buttons!ButtonInv
  BY ButtonsTypeInit, ButtonInit
<1>3. /\ Buttons!TypeOK /\ Buttons!ButtonInv /\ [Buttons!Next]_(Buttons!vars)
           => Buttons!TypeOK' /\ Buttons!ButtonInv' /\ [OwnEdits]_(Buttons!vars)
      /\ Buttons!TypeOK /\ Buttons!ButtonInv => LastEditStands
  BY ButtonsTypeStep, ButtonStep, OwnEditsAlone, StoredWhenIdle
<1>4. CardsSpec => []LastEditStands /\ [][OwnEdits]_(Buttons!vars)
  BY EachPart, <1>2, <1>3, PTL DEF CardsSpec
<1>5. CardsSpec => EditsStay
  BY <1>4 DEF EditsStay, Buttons!EditsStay, OwnEdits
<1> QED
  BY <1>1, <1>4, <1>5, DurationsGrow, StaysComplete, PTL
=============================================================================
