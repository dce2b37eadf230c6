------------------------ MODULE AnnouncementsProofs ------------------------
(***************************************************************************)
(* What TLAPS proves of Announcements, for any messages, contents, cards   *)
(* and bounds: the types; that an acknowledged marker is durable; that a   *)
(* popup that was closed stays closed; that a card takes back no marker.   *)
(***************************************************************************)
EXTENDS Announcements, Integers, SequenceTheorems, WellFoundedInduction, TLAPS

(***************************************************************************)
(* Sequences.                                                              *)
(***************************************************************************)

(* The elements after an append. *)
LEMMA AppendElements ==
  ASSUME NEW S, NEW s \in Seq(S), NEW m \in S
  PROVE  /\ Len(s) \in Nat /\ Len(Append(s, m)) = Len(s) + 1
         /\ \A i \in 1 .. Len(s) : Append(s, m)[i] = s[i]
         /\ Append(s, m)[Len(s) + 1] = m
  OBVIOUS

(* The elements of a tail. *)
LEMMA TailElements ==
  ASSUME NEW S, NEW s \in Seq(S), s # <<>>
  PROVE  /\ Head(s) = s[1] /\ Head(s) \in S /\ 1 \in 1 .. Len(s) /\ Len(s) \in Nat
         /\ Tail(s) \in Seq(S) /\ Len(Tail(s)) = Len(s) - 1
         /\ \A i \in 1 .. Len(Tail(s)) : i + 1 \in 1 .. Len(s) /\ Tail(s)[i] = s[i + 1]
OBVIOUS

(***************************************************************************)
(* What the operators of the model return.                                 *)
(***************************************************************************)

LEMMA ActiveFacts ==
  ASSUME NEW f \in Feeds
  PROVE  /\ Active(f) \subseteq Keys
         /\ \A k \in Active(f) : k[1] \in Ids /\ f[k[1]] = k[2]
         /\ \A id \in Ids : f[id] # 0 => <<id, f[id]>> \in Active(f)
BY DEF Active, Feeds, Keys

LEMMA KeyFacts ==
  ASSUME NEW k \in Keys, NEW f \in Feeds, f[k[1]] = k[2]
  PROVE  k = <<k[1], f[k[1]]>> /\ k[1] \in Ids /\ f[k[1]] # 0 /\ k \in Active(f)
<1>1. k = <<k[1], k[2]>> /\ k[1] \in Ids /\ k[2] \in Versions
  BY DEF Keys
<1>2. k[2] # 0
  BY <1>1, AnnouncementsAssumption
<1> QED
  BY <1>1, <1>2, ActiveFacts

(* What is handed to the store is data, and holds what is in memory of the
   messages in the feed. *)
LEMMA DataFacts ==
  ASSUME NEW f \in Feeds, NEW read \in SUBSET Keys, NEW seen \in SUBSET Keys
  PROVE  /\ Data(f, read, seen) \in Stores
         /\ Data(f, read, seen) # NoData
         /\ Data(f, read, seen).read = read \cap Active(f)
         /\ Data(f, read, seen).seen = seen \cap Active(f)
<1>1. Data(f, read, seen) \in Stores
  BY ActiveFacts DEF Data, Stores
<1>2. DOMAIN Data(f, read, seen) = {"items", "read", "seen"} /\ DOMAIN NoData = {"none"}
  BY DEF Data, NoData
<1>3. Data(f, read, seen) # NoData
  BY <1>2
<1> QED
  BY <1>1, <1>3 DEF Data

(* A save makes the file what was handed to the store. *)
LEMMA WriteFacts ==
  ASSUME TypeOK
  PROVE  /\ Handed \in Stores
         /\ WriteStore => stored' = Handed /\ Handed' = Handed /\ unsaved' = NoData
BY DEF TypeOK, Handed, WriteStore

LEMMA ResponseFacts ==
  ASSUME NEW f \in Feeds, NEW read, NEW seen
  PROVE  /\ Response(f, read, seen) \in Bodies
         /\ Response(f, read, seen).items = f
         /\ \A id \in Ids : id \in Response(f, read, seen).read <=> <<id, f[id]>> \in read
         /\ \A id \in Ids : id \in Response(f, read, seen).seen <=> <<id, f[id]>> \in seen
BY DEF Response, Bodies

Answers == [card : Cards, kind : {"get", "mark"}, body : Bodies]

(* An answer is the last to arrive; a call whose page is gone has none. *)
LEMMA AnswerFacts ==
  ASSUME NEW c \in Callers, NEW kind \in {"get", "mark"}, NEW body \in Bodies,
         answers \in Seq(Answers), Answer(c, kind, body)
  PROVE  /\ answers' \in Seq(Answers)
         /\ \A i \in 1 .. Len(answers) : i \in 1 .. Len(answers') /\ answers'[i] = answers[i]
         /\ \A i \in 1 .. Len(answers') :
              \/ i \in 1 .. Len(answers) /\ answers'[i] = answers[i]
              \/ i = Len(answers) + 1 /\ answers'[i].body = body
<1>1. CASE c \notin Cards
  BY <1>1 DEF Answer
<1>2. CASE c \in Cards
  <2> DEFINE a == [card |-> c, kind |-> kind, body |-> body]
  <2>1. a \in Answers /\ a.body = body
    BY <1>2 DEF Answers
  <2> HIDE DEF a
  <2>2. answers' = Append(answers, a)
    BY <1>2 DEF Answer, a
  <2> QED
    BY <2>1, <2>2, AppendElements
<1> QED
  BY <1>1, <1>2

LEMMA LeastIs ==
  ASSUME NEW S \in SUBSET Nat, S # {}
  PROVE  Least(S) \in S
<1> DEFINE R == OpToRel(<, Nat)
<1>1. PICK x \in S : \A y \in S : <<y, x>> \notin R
  <2> HIDE DEF R
  <2>1. IsWellFoundedOn(R, Nat)
    BY NatLessThanWellFounded DEF R
  <2> QED
    BY <2>1, WFMin
<1>2. R = {ss \in Nat \X Nat : ss[1] < ss[2]}
  BY DEF OpToRel
<1> HIDE DEF R
<1>3. \A y \in S : ~(y < x)
  BY <1>1, <1>2
<1>4. \A y \in S : x <= y
  BY <1>3
<1> QED
  BY <1>4 DEF Least

(* A popup that opens is of a content the answer has, does not show as seen and
   the page has not opened. *)
LEMMA PopupFacts ==
  ASSUME NEW c \in Cards, NEW body \in Bodies,
         displayed \subseteq Ids, MaybeShowPopup(c, body)
  PROVE  /\ displayed \subseteq displayed' /\ displayed' \subseteq Ids
         /\ \A p \in popups' :
              \/ p \in popups
              \/ /\ p \in [id : Ids, version : Versions, card : Cards]
                 /\ p.id \in displayed' /\ p.id \notin body.seen \cup displayed
                 /\ p.version = body.items[p.id]
<1> DEFINE wanted == {id \in Ids : body.items[id] # 0 /\ id \notin body.seen}
           id     == Least(wanted)
<1>1. CASE wanted # {} /\ id \notin displayed
  <2>1. id \in wanted
    BY <1>1, LeastIs, AnnouncementsAssumption
  <2>2. displayed' = displayed \cup {id}
        /\ popups' = popups \cup {[id |-> id, version |-> body.items[id], card |-> c]}
    BY <1>1 DEF MaybeShowPopup
  <2>3. body.items[id] \in Versions
    BY <2>1 DEF Bodies, Feeds
  <2> HIDE DEF id
  <2> QED
    BY <1>1, <2>1, <2>2, <2>3
<1>2. CASE ~(wanted # {} /\ id \notin displayed)
  BY <1>2 DEF MaybeShowPopup
<1> QED
  BY <1>1, <1>2

Marks == [card : Callers, keys : SUBSET Keys, popup : BOOLEAN]

(* A call that marks has its markers in memory and has handed all of memory to
   the store before it waits. *)
LEMMA MarkFacts ==
  ASSUME TypeOK, NEW c \in Cards, NEW ids, NEW popupSeen \in BOOLEAN,
         MarkRead(c, ids, popupSeen)
  PROVE  /\ readKeys \subseteq readKeys' /\ readKeys' \subseteq Keys
         /\ seenKeys \subseteq seenKeys' /\ seenKeys' \subseteq Keys
         /\ unsaved' = Data(items, readKeys', seenKeys') /\ unsaved' \in Stores
         /\ Handed' = unsaved'
         /\ \A m \in marks' :
              \/ m \in marks
              \/ /\ m \in Marks /\ m.keys \subseteq readKeys'
                 /\ m.popup => m.keys \subseteq seenKeys'
                 /\ \A k \in m.keys : k[1] \in ids
         /\ UNCHANGED <<items, stored, refreshing, fetched>>
<1> DEFINE keys == {k \in Active(items) : k[1] \in ids}
           m == [card |-> c, keys |-> keys, popup |-> popupSeen]
<1>1. keys \subseteq Keys
  BY ActiveFacts DEF TypeOK
<1>2. /\ readKeys' = readKeys \cup keys
      /\ seenKeys' = IF popupSeen THEN seenKeys \cup keys ELSE seenKeys
      /\ unsaved' = Data(items, readKeys', seenKeys')
      /\ marks' = marks \cup {m}
      /\ UNCHANGED <<items, stored, refreshing, fetched>>
  BY DEF MarkRead
<1>3. m \in Marks
  BY <1>1 DEF Marks, Callers
<1>4. \A k \in keys : k[1] \in ids
  OBVIOUS
<1> HIDE DEF keys
<1>5. readKeys \subseteq readKeys' /\ readKeys' \subseteq Keys
      /\ seenKeys \subseteq seenKeys' /\ seenKeys' \subseteq Keys
  BY <1>1, <1>2 DEF TypeOK
<1>6. unsaved' \in Stores /\ unsaved' # NoData
  BY <1>2, <1>5, DataFacts DEF TypeOK
<1>7. Handed' = unsaved'
  BY <1>6 DEF Handed
<1>8. /\ m.keys = keys /\ m.keys \subseteq readKeys'
      /\ m.popup => m.keys \subseteq seenKeys'
  <2>1. popupSeen => keys \subseteq seenKeys'
    BY <1>2
  <2>2. m.popup => popupSeen
    BY Zenon
  <2> QED
    BY <1>2, <2>1, <2>2
<1> HIDE DEF m
<1> QED
  BY <1>2, <1>3, <1>4, <1>5, <1>6, <1>7, <1>8

(***************************************************************************)
(* Types.                                                                  *)
(***************************************************************************)

LEMMA TypeInit == ASSUME Init PROVE TypeOK
<1> PICK s \in Starts : feed = s.feed /\ card = [c \in s.cards |-> Blank]
  BY DEF Init
<1>1. items \in Feeds /\ items = [id \in Ids |-> 0]
  BY DEF Init, Feeds
<1>2. Blank \in Copies
  BY <1>1 DEF Blank, Copies, Init
<1>3. card \in [s.cards -> Copies] /\ DOMAIN card = s.cards
  BY <1>2
<1>4. s.feed \in Feeds /\ s.cards \subseteq Cards
  BY AnnouncementsAssumption
<1>5. stored \in Stores
  BY <1>1 DEF Init, Stores
<1>6. refreshing \in Seq(Callers)
  BY DEF Init, Callers
<1>7. answers \in Seq(Answers)
  BY EmptySeq DEF Init
<1>8. acked \in [read : SUBSET Keys, seen : SUBSET Keys]
  BY DEF Init
<1> QED
  BY <1>1, <1>3, <1>4, <1>5, <1>6, <1>7, <1>8 DEF TypeOK, Init, Answers

LEMMA BlankIsCopy == Blank \in Copies
<1>1. [id \in Ids |-> 0] \in Feeds
  BY DEF Feeds
<1> QED
  BY <1>1 DEF Blank, Copies

LEMMA AppliedFacts ==
  ASSUME NEW c \in DOMAIN card, card[c] \in Copies, NEW body \in Bodies
  PROVE  /\ Applied(c, body) \in Copies
         /\ [Applied(c, body) EXCEPT !.loading = FALSE] \in Copies
         /\ Applied(c, body).items = body.items /\ Applied(c, body).read = body.read
         /\ [Applied(c, body) EXCEPT !.loading = FALSE].items = body.items
         /\ [Applied(c, body) EXCEPT !.loading = FALSE].read = body.read
BY DEF Applied, Copies, Bodies

LEMMA TypeStep ==
  ASSUME TypeOK, [Next]_vars
  PROVE  TypeOK'
<1>0. /\ answers \in Seq(Answers)
      /\ \A c \in DOMAIN card : c \in Cards /\ c \in Callers /\ card[c] \in Copies
      /\ Timer \in Callers /\ marks \subseteq Marks
      /\ CurrentResponse \in Bodies
  <2>1. CurrentResponse \in Bodies
    BY ResponseFacts DEF TypeOK, CurrentResponse
  <2> QED
    BY <2>1 DEF TypeOK, Answers, Callers, Marks
<1>1. ASSUME NEW id \in Ids, ChangeFeed(id) PROVE TypeOK'
  <2>1. feed' \in Feeds
    BY <1>1 DEF ChangeFeed, TypeOK, Feeds
  <2> QED
    BY <1>1, <2>1 DEF ChangeFeed, TypeOK, backend, page, history
<1>2. CASE ScheduledRefresh
  <2>1. refreshing' \in Seq(Callers)
    BY <1>2, <1>0, AppendElements DEF ScheduledRefresh, TypeOK
  <2> QED
    BY <1>2, <2>1 DEF ScheduledRefresh, TypeOK, page, history
<1>3. CASE FetchFeed
  <2>1. Data(feed, readKeys, seenKeys) \in Stores
    BY DataFacts DEF TypeOK
  <2>2. acked' \in [read : SUBSET Keys, seen : SUBSET Keys]
    BY <1>3 DEF FetchFeed, TypeOK
  <2> QED
    BY <1>3, <2>1, <2>2 DEF FetchFeed, TypeOK, page
<1>4. CASE FetchFails
  <2>1. refreshing' \in Seq(Callers) /\ Head(refreshing) \in Callers
    BY <1>4, TailElements DEF FetchFails, TypeOK
  <2>2. answers' \in Seq(Answers)
    BY <1>4, <1>0, <2>1, AnswerFacts DEF FetchFails
  <2> QED
    BY <1>4, <2>1, <2>2 DEF FetchFails, TypeOK, history, Answers
<1>5. CASE RefreshSaved
  <2>1. refreshing' \in Seq(Callers) /\ Head(refreshing) \in Callers
    BY <1>5, TailElements DEF RefreshSaved, TypeOK
  <2>2. answers' \in Seq(Answers)
    BY <1>5, <1>0, <2>1, AnswerFacts DEF RefreshSaved
  <2>3. stored' \in Stores /\ unsaved' = NoData
    BY <1>5, WriteFacts DEF RefreshSaved
  <2> QED
    BY <1>5, <2>1, <2>2, <2>3 DEF RefreshSaved, TypeOK, history, Answers
<1>6. ASSUME NEW m \in marks, MarkSaved(m) PROVE TypeOK'
  <2>1. m \in Marks
    BY <1>0
  <2>2. answers' \in Seq(Answers)
    BY <1>6, <1>0, <2>1, AnswerFacts DEF MarkSaved, Marks
  <2>3. stored' \in Stores /\ unsaved' = NoData
    BY <1>6, WriteFacts DEF MarkSaved
  <2>4. acked' \in [read : SUBSET Keys, seen : SUBSET Keys]
    BY <1>6, <2>1 DEF MarkSaved, TypeOK, Marks
  <2>5. marks' \subseteq marks
    BY <1>6 DEF MarkSaved
  <2> QED
    BY <1>6, <2>2, <2>3, <2>4, <2>5 DEF MarkSaved, TypeOK, Answers
<1>7. CASE Restart
  <2>1. stored \in Stores
    BY DEF TypeOK
  <2>2. card' \in [DOMAIN card' -> Copies] /\ DOMAIN card' = DOMAIN card
    BY <1>7, <1>0 DEF Restart, Copies
  <2>3. <<Timer>> \in Seq(Callers) /\ <<>> \in Seq(Answers)
    BY <1>0, EmptySeq
  <2>4. acked' \in [read : SUBSET Keys, seen : SUBSET Keys]
    BY <1>7 DEF Restart, TypeOK
  <2> QED
    BY <1>7, <2>1, <2>2, <2>3, <2>4 DEF Restart, TypeOK, Stores, Answers
<1>8. ASSUME NEW c \in DOMAIN card, LoadAnnouncements(c) PROVE TypeOK'
  <2>1. card' \in [DOMAIN card' -> Copies] /\ DOMAIN card' = DOMAIN card
    BY <1>8, <1>0 DEF LoadAnnouncements, TypeOK, Copies
  <2>2. refreshing' \in Seq(Callers)
    BY <1>8, <1>0, AppendElements DEF LoadAnnouncements, TypeOK
  <2>3. answers' \in Seq(Answers)
    BY <1>8, <1>0, AnswerFacts DEF LoadAnnouncements
  <2> QED
    BY <1>8, <2>1, <2>2, <2>3 DEF LoadAnnouncements, TypeOK, history, Answers
<1>9. ASSUME NEW c \in Cards, NEW ids, NEW popupSeen \in BOOLEAN,
             MarkRead(c, ids, popupSeen), popups' \subseteq popups,
             UNCHANGED <<feed, answers, card, displayed, acked, restarted>>
      PROVE  TypeOK'
  <2>1. \A m \in marks' : m \in marks \/ m \in Marks
    BY <1>9, MarkFacts
  <2>2. readKeys' \subseteq Keys /\ seenKeys' \subseteq Keys /\ unsaved' \in Stores
        /\ UNCHANGED <<items, stored, refreshing, fetched>>
    BY <1>9, MarkFacts
  <2>3. marks' \subseteq Marks
    BY <1>0, <2>1
  <2> QED
    BY <1>9, <2>2, <2>3 DEF TypeOK, Marks
<1>10. ASSUME MarkFails, popups' \subseteq popups, UNCHANGED displayed PROVE TypeOK'
  BY <1>10 DEF MarkFails, TypeOK, backend, history
<1>11. ASSUME NEW c \in DOMAIN card, OpenPanel(c) PROVE TypeOK'
  BY <1>0, <1>9, <1>10, <1>11 DEF OpenPanel, history
<1>12. ASSUME NEW p \in popups, ClosePopup(p) PROVE TypeOK'
  <2>1. p.card \in Cards
    BY DEF TypeOK
  <2> QED
    BY <1>9, <1>10, <1>12, <2>1 DEF ClosePopup, history
<1>13. ASSUME NEW c \in DOMAIN card, Detach(c) \/ Attach(c) PROVE TypeOK'
  <2>1. card' \in [DOMAIN card' -> Copies] /\ DOMAIN card' = DOMAIN card
    <3>1. [card[c] EXCEPT !.mounted = FALSE] \in Copies
          /\ [card[c] EXCEPT !.mounted = TRUE, !.loading = TRUE] \in Copies
      BY <1>0 DEF Copies
    <3>2. \/ card' = [card EXCEPT ![c] = [card[c] EXCEPT !.mounted = FALSE]]
          \/ card' = [card EXCEPT ![c] = [card[c] EXCEPT !.mounted = TRUE, !.loading = TRUE]]
      BY <1>13 DEF Detach, Attach
    <3> QED
      BY <1>0, <3>1, <3>2 DEF TypeOK
  <2>2. refreshing' \in Seq(Callers)
    BY <1>13, <1>0, AppendElements DEF Detach, Attach, TypeOK, backend
  <2> QED
    BY <1>13, <2>1, <2>2 DEF Detach, Attach, TypeOK, backend, history
<1>14. CASE GetAnswered
  <2> DEFINE a == Head(answers)
  <2>1. a \in Answers /\ answers' \in Seq(Answers)
    BY <1>14, <1>0, TailElements DEF GetAnswered
  <2>2. a.card \in Cards /\ a.body \in Bodies /\ MaybeShowPopup(a.card, a.body)
    BY <1>14, <2>1 DEF GetAnswered, Answers
  <2>3. displayed' \subseteq Ids
        /\ \A p \in popups' : p \in popups \/ p \in [id : Ids, version : Versions, card : Cards]
    BY <2>2, PopupFacts DEF TypeOK
  <2>4. card' = [card EXCEPT ![a.card] = [Applied(a.card, a.body) EXCEPT !.loading = FALSE]]
    BY <1>14 DEF GetAnswered
  <2> HIDE DEF a
  <2>5. card' \in [DOMAIN card' -> Copies] /\ DOMAIN card' = DOMAIN card
    BY <1>0, <2>2, <2>4, AppliedFacts DEF TypeOK
  <2> QED
    BY <1>14, <2>1, <2>3, <2>5 DEF GetAnswered, TypeOK, backend, history, Answers
<1>15. CASE MarkAnswered
  <2> DEFINE a == Head(answers)
  <2>1. a \in Answers /\ answers' \in Seq(Answers)
    BY <1>15, <1>0, TailElements DEF MarkAnswered
  <2>2. a.body \in Bodies /\ card' = [card EXCEPT ![a.card] = Applied(a.card, a.body)]
    BY <1>15, <2>1 DEF MarkAnswered, Answers
  <2> HIDE DEF a
  <2>3. card' \in [DOMAIN card' -> Copies] /\ DOMAIN card' = DOMAIN card
    BY <1>0, <2>2, AppliedFacts DEF TypeOK
  <2> QED
    BY <1>15, <2>1, <2>3 DEF MarkAnswered, TypeOK, backend, history, Answers
<1>16. CASE ReloadPage
  <2>1. card' \in [DOMAIN card' -> Copies] /\ DOMAIN card' = DOMAIN card
    BY <1>16, BlankIsCopy DEF ReloadPage
  <2>2. refreshing' \in Seq(Callers)
    BY <1>16, <1>0 DEF ReloadPage, TypeOK
  <2>3. marks' \subseteq Marks
    BY <1>16, <1>0 DEF ReloadPage, Marks
  <2>4. <<>> \in Seq(Answers)
    BY EmptySeq
  <2> QED
    BY <1>16, <2>1, <2>2, <2>3, <2>4 DEF ReloadPage, TypeOK, history, Answers, Marks
<1>17. CASE UNCHANGED vars
  BY <1>17 DEF vars, backend, page, history, TypeOK
<1> QED
  BY <1>1, <1>2, <1>3, <1>4, <1>5, <1>6, <1>7, <1>8, <1>11, <1>12, <1>13, <1>14,
    <1>15, <1>16, <1>17 DEF Next

(* What every variable of the backend and of the page may hold; copies and answers
   are of the messages of a feed. *)
THEOREM TypeCorrect == Spec => []TypeOK
<1>1. Init => TypeOK
  BY TypeInit
<1>2. TypeOK /\ [Next]_vars => TypeOK'
  BY TypeStep
<1> QED
  BY <1>1, <1>2, PTL DEF Spec

(***************************************************************************)
(* Acknowledged markers.                                                   *)
(***************************************************************************)

LEMMA AckInit == ASSUME Init PROVE AckInv
BY DEF Init, AckInv, Handed

LEMMA AckStep ==
  ASSUME TypeOK, AckInv, [Next]_vars
  PROVE  AckInv'
<1>1. CASE UNCHANGED <<items, readKeys, seenKeys, stored, unsaved, marks, acked>>
  BY <1>1 DEF AckInv, Handed, Active
<1>2. CASE FetchFeed
  <2>1. /\ items' = feed /\ unsaved' = Data(feed, readKeys, seenKeys)
        /\ acked'.read = acked.read \cap Active(feed)
        /\ acked'.seen = acked.seen \cap Active(feed)
        /\ UNCHANGED <<readKeys, seenKeys, stored, marks>>
    BY <1>2 DEF FetchFeed
  <2>2. Handed' = Data(feed, readKeys, seenKeys)
    BY <2>1, DataFacts DEF Handed, TypeOK
  <2>3. Handed'.read = readKeys \cap Active(feed) /\ Handed'.seen = seenKeys \cap Active(feed)
    BY <2>2, DataFacts DEF TypeOK
  <2>4. Active(items)' = Active(feed)
    BY <2>1 DEF Active
  <2> QED
    BY <2>1, <2>3, <2>4 DEF AckInv
<1>3. CASE RefreshSaved
  <2>1. stored' = Handed /\ Handed' = Handed
    BY <1>3, WriteFacts DEF RefreshSaved
  <2>2. UNCHANGED <<items, readKeys, seenKeys, marks, acked>>
    BY <1>3 DEF RefreshSaved, history
  <2>3. Active(items)' = Active(items)
    BY <2>2 DEF Active
  <2> QED
    BY <2>1, <2>2, <2>3 DEF AckInv
<1>4. ASSUME NEW m \in marks, MarkSaved(m) PROVE AckInv'
  <2>1. stored' = Handed /\ Handed' = Handed
    BY <1>4, WriteFacts DEF MarkSaved
  <2>2. UNCHANGED <<items, readKeys, seenKeys>> /\ marks' \subseteq marks
    BY <1>4 DEF MarkSaved
  <2>3. Active(items)' = Active(items)
    BY <2>2 DEF Active
  <2>4. /\ acked'.read = acked.read \cup (m.keys \cap Active(items))
        /\ \/ acked'.seen = acked.seen
           \/ m.popup /\ acked'.seen = acked.seen \cup (m.keys \cap Active(items))
    BY <1>4 DEF MarkSaved
  <2> QED
    BY <2>1, <2>2, <2>3, <2>4 DEF AckInv
<1>5. CASE Restart
  <2>1. /\ items' = stored.items /\ readKeys' = stored.read /\ seenKeys' = stored.seen
        /\ stored' = stored /\ marks' = {} /\ Handed' = stored
        /\ acked'.read = acked.read \cap Active(stored.items)
        /\ acked'.seen = acked.seen \cap Active(stored.items)
    BY <1>5 DEF Restart, Handed
  <2>2. Active(items)' = Active(stored.items)
    BY <2>1 DEF Active
  <2> QED
    BY <2>1, <2>2 DEF AckInv
<1>6. ASSUME NEW c \in Cards, NEW ids, NEW popupSeen \in BOOLEAN,
             MarkRead(c, ids, popupSeen), UNCHANGED acked
      PROVE  AckInv'
  <2>1. /\ readKeys \subseteq readKeys' /\ seenKeys \subseteq seenKeys'
        /\ readKeys' \subseteq Keys /\ seenKeys' \subseteq Keys
        /\ Handed' = Data(items, readKeys', seenKeys')
        /\ UNCHANGED <<items, stored>>
    BY <1>6, MarkFacts
  <2>2. /\ Handed'.read = readKeys' \cap Active(items)
        /\ Handed'.seen = seenKeys' \cap Active(items)
    BY <2>1, DataFacts DEF TypeOK
  <2>3. \A m \in marks' :
          \/ m \in marks
          \/ /\ m.keys \subseteq readKeys'
             /\ m.popup => m.keys \subseteq seenKeys'
    BY <1>6, MarkFacts
  <2>4. Active(items)' = Active(items)
    BY <2>1 DEF Active
  <2> QED
    BY <1>6, <2>1, <2>2, <2>3, <2>4 DEF AckInv
<1>7. ASSUME NEW c \in DOMAIN card, OpenPanel(c) PROVE AckInv'
  BY <1>1, <1>6, <1>7 DEF OpenPanel, MarkFails, backend, history, TypeOK
<1>8. ASSUME NEW p \in popups, ClosePopup(p) PROVE AckInv'
  <2>1. p.card \in Cards
    BY DEF TypeOK
  <2> QED
    BY <1>1, <1>6, <1>8, <2>1 DEF ClosePopup, MarkFails, backend, history
<1>9. CASE ReloadPage
  <2>1. UNCHANGED <<items, readKeys, seenKeys, stored, unsaved, acked>>
    BY <1>9 DEF ReloadPage, history
  <2>2. \A m \in marks' : \E n \in marks : m.keys = n.keys /\ (m.popup <=> n.popup)
    BY <1>9 DEF ReloadPage, TypeOK
  <2> QED
    BY <2>1, <2>2 DEF AckInv, Handed, Active
<1>10. ASSUME \/ \E id \in Ids : ChangeFeed(id)
              \/ ScheduledRefresh \/ FetchFails \/ GetAnswered \/ MarkAnswered
              \/ \E c \in DOMAIN card : LoadAnnouncements(c) \/ Detach(c) \/ Attach(c)
              \/ UNCHANGED vars
       PROVE  AckInv'
  BY <1>1, <1>10 DEF ChangeFeed, ScheduledRefresh, FetchFails, GetAnswered,
    MarkAnswered, LoadAnnouncements, Detach, Attach, vars, backend, page, history
<1> QED
  BY <1>2, <1>3, <1>4, <1>5, <1>7, <1>8, <1>9, <1>10 DEF Next

(* A marker that was acknowledged is in memory and in the file as long as its
   message stays in the cached feed, whatever is refreshed, saved or restarted. *)
THEOREM AcknowledgedIsDurable == Spec => []AckDurable
<1>1. Init => AckInv
  BY AckInit
<1>2. TypeOK /\ AckInv /\ [Next]_vars => AckInv'
  BY AckStep
<1>3. AckInv => AckDurable
  BY DEF AckInv, AckDurable
<1> QED
  BY <1>1, <1>2, <1>3, TypeCorrect, PTL DEF Spec

(***************************************************************************)
(* What a step does to the copies of the cards and to the answers.         *)
(***************************************************************************)

SameCopies == /\ DOMAIN card' = DOMAIN card
              /\ \A c \in DOMAIN card :
                    card'[c].items = card[c].items /\ card'[c].read = card[c].read

(* At most one answer is sent, after all others, and it is of this state. *)
Arrives == /\ answers' \in Seq(Answers)
           /\ \A i \in 1 .. Len(answers') :
                \/ i \in 1 .. Len(answers) /\ answers'[i] = answers[i]
                \/ i = Len(answers) + 1 /\ answers'[i].body = CurrentResponse

(* The first answer is handled; a card it does not go to keeps its copy. *)
Handles == /\ answers # <<>> /\ answers' = Tail(answers) /\ DOMAIN card' = DOMAIN card
           /\ \A c \in DOMAIN card :
                \/ card'[c].items = card[c].items /\ card'[c].read = card[c].read
                \/ /\ card'[c].items = Head(answers).body.items
                   /\ card'[c].read = Head(answers).body.read

LEMMA PageStep ==
  ASSUME TypeOK, [Next]_vars
  PROVE  \/ Restart \/ ReloadPage
         \/ /\ readKeys \subseteq readKeys' /\ restarted' = restarted
            /\ (SameCopies /\ Arrives) \/ Handles
<1>0. /\ answers \in Seq(Answers) /\ Len(answers) \in Nat
      /\ \A c \in DOMAIN card : c \in Callers /\ card[c] \in Copies
      /\ CurrentResponse \in Bodies /\ marks \subseteq Marks
  <2>1. answers \in Seq(Answers)
    BY DEF TypeOK, Answers
  <2>2. CurrentResponse \in Bodies
    BY ResponseFacts DEF TypeOK, CurrentResponse
  <2> QED
    BY <2>1, <2>2 DEF TypeOK, Callers, Marks
<1>1. ASSUME UNCHANGED <<readKeys, answers, card, restarted>>
      PROVE  SameCopies /\ Arrives
  BY <1>0, <1>1 DEF SameCopies, Arrives
<1>2. ASSUME NEW c \in Callers, NEW kind \in {"get", "mark"},
             Answer(c, kind, CurrentResponse)
      PROVE  Arrives
  BY <1>0, <1>2, AnswerFacts DEF Arrives
<1>3. CASE \/ \E id \in Ids : ChangeFeed(id)
           \/ ScheduledRefresh \/ FetchFeed \/ UNCHANGED vars
  BY <1>1, <1>3 DEF ChangeFeed, ScheduledRefresh, FetchFeed, vars, backend, page, history
<1>4. CASE FetchFails \/ RefreshSaved
  <2>1. Head(refreshing) \in Callers /\ Answer(Head(refreshing), "get", CurrentResponse)
        /\ UNCHANGED <<readKeys, card, restarted>>
    BY <1>4, TailElements DEF FetchFails, RefreshSaved, TypeOK, history
  <2> QED
    BY <1>2, <2>1 DEF SameCopies
<1>5. ASSUME NEW m \in marks, MarkSaved(m)
      PROVE  SameCopies /\ Arrives /\ UNCHANGED <<readKeys, restarted>>
  <2>1. m.card \in Callers
    BY <1>0 DEF Marks
  <2> QED
    BY <1>2, <1>5, <2>1 DEF MarkSaved, SameCopies
<1>6. ASSUME NEW c \in DOMAIN card, LoadAnnouncements(c)
      PROVE  SameCopies /\ Arrives /\ UNCHANGED <<readKeys, restarted>>
  <2>1. Arrives
    BY <1>0, <1>2, <1>6 DEF LoadAnnouncements, Arrives
  <2>2. card' = [card EXCEPT ![c] = [card[c] EXCEPT !.loading = TRUE]]
    BY <1>6 DEF LoadAnnouncements
  <2>3. SameCopies
    BY <1>0, <2>2 DEF SameCopies, Copies, TypeOK
  <2> QED
    BY <1>6, <2>1, <2>3 DEF LoadAnnouncements, history
<1>7. ASSUME NEW c \in DOMAIN card, Detach(c) \/ Attach(c)
      PROVE  SameCopies /\ Arrives /\ UNCHANGED <<readKeys, restarted>>
  <2>1. \/ card' = [card EXCEPT ![c] = [card[c] EXCEPT !.mounted = FALSE]]
        \/ card' = [card EXCEPT ![c] = [card[c] EXCEPT !.mounted = TRUE, !.loading = TRUE]]
    BY <1>7 DEF Detach, Attach
  <2>2. SameCopies
    <3>1. PICK flags \in Copies :
            /\ card' = [card EXCEPT ![c] = flags]
            /\ flags.items = card[c].items /\ flags.read = card[c].read
      BY <1>0, <2>1 DEF Copies
    <3> QED
      BY <3>1 DEF SameCopies, TypeOK
  <2> QED
    BY <1>0, <1>7, <2>2 DEF Detach, Attach, backend, history, Arrives
<1>8. ASSUME NEW c \in Cards, NEW ids, NEW popupSeen \in BOOLEAN,
             MarkRead(c, ids, popupSeen)
      PROVE  readKeys \subseteq readKeys'
  BY <1>8, MarkFacts
<1>9. ASSUME NEW c \in DOMAIN card, OpenPanel(c)
      PROVE  SameCopies /\ Arrives /\ readKeys \subseteq readKeys' /\ restarted' = restarted
  <2>1. c \in Cards
    BY DEF TypeOK
  <2>2. UNCHANGED <<answers, card, restarted>>
    BY <1>9 DEF OpenPanel, MarkFails, history
  <2>3. readKeys \subseteq readKeys'
    BY <1>8, <1>9, <2>1 DEF OpenPanel, MarkFails, backend
  <2> QED
    BY <1>0, <2>2, <2>3 DEF SameCopies, Arrives
<1>10. ASSUME NEW p \in popups, ClosePopup(p)
       PROVE  SameCopies /\ Arrives /\ readKeys \subseteq readKeys' /\ restarted' = restarted
  <2>1. p.card \in Cards
    BY DEF TypeOK
  <2>2. UNCHANGED <<answers, card, restarted>>
    BY <1>10 DEF ClosePopup, MarkFails, history
  <2>3. readKeys \subseteq readKeys'
    BY <1>8, <1>10, <2>1 DEF ClosePopup, MarkFails, backend
  <2> QED
    BY <1>0, <2>2, <2>3 DEF SameCopies, Arrives
<1>11. CASE GetAnswered \/ MarkAnswered
  <2> DEFINE a == Head(answers)
  <2>1. /\ answers # <<>> /\ answers' = Tail(answers) /\ UNCHANGED <<readKeys, restarted>>
        /\ \/ card' = [card EXCEPT ![a.card] =
                         [Applied(a.card, a.body) EXCEPT !.loading = FALSE]]
           \/ card' = [card EXCEPT ![a.card] = Applied(a.card, a.body)]
    BY <1>11 DEF GetAnswered, MarkAnswered, backend, history
  <2>2. a \in Answers
    BY <1>0, <2>1, TailElements
  <2>3. a.body \in Bodies
    BY <2>2 DEF Answers
  <2> HIDE DEF a
  <2>4. DOMAIN card' = DOMAIN card
    BY <2>1 DEF TypeOK
  <2>5. ASSUME NEW c \in DOMAIN card, c # a.card PROVE card'[c] = card[c]
    BY <2>1, <2>5 DEF TypeOK
  <2>6. ASSUME a.card \in DOMAIN card
        PROVE  card'[a.card].items = a.body.items /\ card'[a.card].read = a.body.read
    <3>1. \/ card'[a.card] = [Applied(a.card, a.body) EXCEPT !.loading = FALSE]
          \/ card'[a.card] = Applied(a.card, a.body)
      BY <2>1, <2>6 DEF TypeOK
    <3>2. card[a.card] \in Copies
      BY <1>0, <2>6
    <3>3. /\ Applied(a.card, a.body).items = a.body.items
          /\ Applied(a.card, a.body).read = a.body.read
          /\ [Applied(a.card, a.body) EXCEPT !.loading = FALSE].items = a.body.items
          /\ [Applied(a.card, a.body) EXCEPT !.loading = FALSE].read = a.body.read
      BY <2>3, <2>6, <3>2, AppliedFacts
    <3> QED
      BY <3>1, <3>3
  <2> QED
    BY <2>1, <2>4, <2>5, <2>6 DEF Handles, a
<1> QED
  BY <1>3, <1>4, <1>5, <1>6, <1>7, <1>9, <1>10, <1>11 DEF Next

(***************************************************************************)
(* Read markers.                                                           *)
(***************************************************************************)

(* Whoever shows as read only what memory has, is kept by an answer of now. *)
LEMMA CurrentKeeps ==
  ASSUME TypeOK, NEW copy, copy.read \subseteq Ids, ReadIn(copy) \subseteq readKeys
  PROVE  Keeps(CurrentResponse, copy)
<1> SUFFICES ASSUME NEW id \in copy.read, CurrentResponse.items[id] = copy.items[id]
             PROVE  id \in CurrentResponse.read
  BY DEF Keeps
<1>1. CurrentResponse.items = items
      /\ (<<id, items[id]>> \in readKeys => id \in CurrentResponse.read)
  BY ResponseFacts DEF TypeOK, CurrentResponse
<1>2. <<id, copy.items[id]>> \in readKeys
  BY DEF ReadIn
<1> QED
  BY <1>1, <1>2

LEMMA CurrentIsRead ==
  ASSUME TypeOK
  PROVE  ReadIn(CurrentResponse) \subseteq readKeys
<1>1. /\ CurrentResponse \in Bodies /\ CurrentResponse.items = items
      /\ \A id \in Ids : id \in CurrentResponse.read => <<id, items[id]>> \in readKeys
  BY ResponseFacts DEF TypeOK, CurrentResponse
<1> QED
  BY <1>1 DEF ReadIn, Bodies

LEMMA OrderAppended ==
  ASSUME TypeOK, OrderInv, SameCopies, Arrives, readKeys \subseteq readKeys',
         restarted' = restarted
  PROVE  OrderInv'
<1> SUFFICES ASSUME ~restarted
             PROVE  /\ \A c \in DOMAIN card' : ReadIn(card'[c]) \subseteq readKeys'
                    /\ \A i \in DOMAIN answers' :
                         /\ ReadIn(answers'[i].body) \subseteq readKeys'
                         /\ \A c \in DOMAIN card' : Keeps(answers'[i].body, card'[c])
                         /\ \A j \in 1 .. i - 1 : Keeps(answers'[i].body, answers'[j].body)
  BY DEF OrderInv, Keeps, ReadIn
<1> DEFINE n == Len(answers)
<1>1. /\ answers \in Seq(Answers) /\ n \in Nat /\ DOMAIN answers = 1 .. n
      /\ DOMAIN answers' = 1 .. Len(answers')
  BY DEF TypeOK, Answers, Arrives
<1>2. ASSUME NEW c \in DOMAIN card'
      PROVE  /\ c \in DOMAIN card /\ ReadIn(card'[c]) = ReadIn(card[c])
             /\ \A later : Keeps(later, card'[c]) <=> Keeps(later, card[c])
  BY DEF SameCopies, ReadIn, Keeps
<1>3. ASSUME NEW c \in DOMAIN card PROVE Keeps(CurrentResponse, card[c])
  <2>1. card[c].read \subseteq Ids
    BY DEF TypeOK, Copies
  <2> QED
    BY <2>1, CurrentKeeps DEF OrderInv
<1>4. ASSUME NEW i \in 1 .. n PROVE Keeps(CurrentResponse, answers[i].body)
  <2>1. answers[i] \in Answers /\ ReadIn(answers[i].body) \subseteq readKeys
    BY <1>1 DEF OrderInv
  <2>2. answers[i].body.read \subseteq Ids
    BY <2>1 DEF Answers, Bodies
  <2> QED
    BY <2>1, <2>2, CurrentKeeps
<1>5. ASSUME NEW i \in 1 .. Len(answers')
      PROVE  /\ ReadIn(answers'[i].body) \subseteq readKeys'
             /\ \A c \in DOMAIN card' : Keeps(answers'[i].body, card'[c])
             /\ \A j \in 1 .. i - 1 : Keeps(answers'[i].body, answers'[j].body)
  <2>1. CASE i \in 1 .. n /\ answers'[i] = answers[i]
    <3>1. /\ ReadIn(answers[i].body) \subseteq readKeys
          /\ \A c \in DOMAIN card : Keeps(answers[i].body, card[c])
          /\ \A j \in 1 .. i - 1 : Keeps(answers[i].body, answers[j].body)
      BY <1>1, <2>1 DEF OrderInv
    <3>2. \A j \in 1 .. i - 1 : answers'[j] = answers[j]
      BY <1>1, <2>1 DEF Arrives
    <3> QED
      BY <1>2, <2>1, <3>1, <3>2
  <2>2. CASE i = n + 1 /\ answers'[i].body = CurrentResponse
    <3>1. \A j \in 1 .. i - 1 : j \in 1 .. n /\ answers'[j] = answers[j]
      BY <1>1, <2>2 DEF Arrives
    <3>2. ReadIn(answers'[i].body) \subseteq readKeys'
      BY <2>2, CurrentIsRead
    <3> QED
      BY <1>2, <1>3, <1>4, <2>2, <3>1, <3>2
  <2> QED
    BY <2>1, <2>2 DEF Arrives
<1> QED
  BY <1>1, <1>2, <1>5 DEF OrderInv

LEMMA OrderHandled ==
  ASSUME TypeOK, OrderInv, Handles, readKeys \subseteq readKeys', restarted' = restarted
  PROVE  OrderInv'
<1> SUFFICES ASSUME ~restarted
             PROVE  /\ \A c \in DOMAIN card' : ReadIn(card'[c]) \subseteq readKeys'
                    /\ \A i \in DOMAIN answers' :
                         /\ ReadIn(answers'[i].body) \subseteq readKeys'
                         /\ \A c \in DOMAIN card' : Keeps(answers'[i].body, card'[c])
                         /\ \A j \in 1 .. i - 1 : Keeps(answers'[i].body, answers'[j].body)
  BY DEF OrderInv, Keeps, ReadIn
<1>1. /\ answers \in Seq(Answers) /\ answers # <<>> /\ DOMAIN answers = 1 .. Len(answers)
      /\ answers' \in Seq(Answers) /\ answers' = Tail(answers)
      /\ DOMAIN answers' = 1 .. Len(answers')
  BY TailElements DEF TypeOK, Answers, Handles
<1>2. /\ Head(answers) = answers[1] /\ 1 \in 1 .. Len(answers)
      /\ Len(answers) \in Nat /\ Len(answers') = Len(answers) - 1
      /\ \A i \in 1 .. Len(answers') :
           i + 1 \in 1 .. Len(answers) /\ answers'[i] = answers[i + 1]
  BY <1>1, TailElements
<1>3. ASSUME NEW c \in DOMAIN card'
      PROVE  /\ c \in DOMAIN card
             /\ \/ /\ ReadIn(card'[c]) = ReadIn(card[c])
                   /\ \A later : Keeps(later, card'[c]) <=> Keeps(later, card[c])
                \/ /\ ReadIn(card'[c]) = ReadIn(answers[1].body)
                   /\ \A later : Keeps(later, card'[c]) <=> Keeps(later, answers[1].body)
  BY <1>2 DEF Handles, ReadIn, Keeps
<1>4. \A c \in DOMAIN card' : ReadIn(card'[c]) \subseteq readKeys'
  BY <1>1, <1>2, <1>3 DEF OrderInv
<1>5. ASSUME NEW i \in 1 .. Len(answers')
      PROVE  /\ ReadIn(answers'[i].body) \subseteq readKeys'
             /\ \A c \in DOMAIN card' : Keeps(answers'[i].body, card'[c])
             /\ \A j \in 1 .. i - 1 : Keeps(answers'[i].body, answers'[j].body)
  <2>1. /\ i + 1 \in DOMAIN answers /\ answers'[i] = answers[i + 1] /\ i \in Nat
        /\ 1 \in 1 .. (i + 1) - 1
    BY <1>1, <1>2
  <2>2. /\ ReadIn(answers[i + 1].body) \subseteq readKeys
        /\ \A c \in DOMAIN card : Keeps(answers[i + 1].body, card[c])
        /\ \A j \in 1 .. (i + 1) - 1 : Keeps(answers[i + 1].body, answers[j].body)
    BY <2>1 DEF OrderInv
  <2>3. \A j \in 1 .. i - 1 : j + 1 \in 1 .. (i + 1) - 1 /\ answers'[j] = answers[j + 1]
    BY <1>2, <2>1
  <2> QED
    BY <1>3, <2>1, <2>2, <2>3
<1> QED
  BY <1>1, <1>4, <1>5

LEMMA OrderInit == ASSUME Init PROVE OrderInv
<1>1. DOMAIN answers = {}
  BY DEF Init
<1>2. \A c \in DOMAIN card : card[c].read = {}
  BY DEF Init, Blank
<1> QED
  BY <1>1, <1>2 DEF OrderInv, ReadIn

LEMMA OrderStep ==
  ASSUME TypeOK, OrderInv, [Next]_vars
  PROVE  OrderInv'
<1>1. CASE Restart
  BY <1>1 DEF Restart, OrderInv
<1>2. CASE ReloadPage
  <2>1. DOMAIN answers' = {} /\ \A c \in DOMAIN card' : card'[c].read = {}
    BY <1>2 DEF ReloadPage, Blank
  <2> QED
    BY <2>1 DEF OrderInv, ReadIn
<1> QED
  BY <1>1, <1>2, PageStep, OrderAppended, OrderHandled

LEMMA ReadStays ==
  ASSUME TypeOK, OrderInv, [Next]_vars
  PROVE  \A c \in DOMAIN card : \A id \in card[c].read :
           ~restarted' /\ card'[c].items[id] = card[c].items[id] => id \in card'[c].read
<1> SUFFICES ASSUME NEW c \in DOMAIN card, NEW id \in card[c].read, ~restarted',
                    card'[c].items[id] = card[c].items[id]
             PROVE  id \in card'[c].read
  OBVIOUS
<1>1. CASE Restart
  BY <1>1 DEF Restart
<1>2. CASE ReloadPage
  <2>1. id \in Ids /\ card[c].items[id] = 0 /\ ~restarted
    BY <1>2 DEF ReloadPage, Blank, TypeOK, Copies, history
  <2>2. <<id, card[c].items[id]>> \in Keys
    BY <2>1 DEF OrderInv, ReadIn, TypeOK
  <2> QED
    BY <2>1, <2>2, AnnouncementsAssumption DEF Keys
<1>3. CASE SameCopies
  BY <1>3 DEF SameCopies
<1>4. CASE Handles /\ restarted' = restarted
  <2>1. 1 \in DOMAIN answers /\ Head(answers) = answers[1]
    BY <1>4, TailElements DEF TypeOK, Handles
  <2>2. Keeps(Head(answers).body, card[c])
    BY <1>4, <2>1 DEF OrderInv
  <2> QED
    BY <1>4, <2>2 DEF Handles, Keeps
<1> QED
  BY <1>1, <1>2, <1>3, <1>4, PageStep

(* No card takes back the read marker of a content it goes on showing, unless Home
   Assistant has restarted: answers reach it in the order of the backend's
   states, and memory forgets no marker. *)
THEOREM ReadMarkersStay == Spec => MarkerNotReverted
<1>1. Init => OrderInv
  BY OrderInit
<1>2. TypeOK /\ OrderInv /\ [Next]_vars => OrderInv'
  BY OrderStep
<1>3. TypeOK /\ OrderInv /\ [Next]_vars
        => [\A c \in DOMAIN card : \A id \in card[c].read :
              ~restarted' /\ card'[c].items[id] = card[c].items[id]
                => id \in card'[c].read]_vars
  BY ReadStays
<1> QED
  BY <1>1, <1>2, <1>3, TypeCorrect, PTL DEF Spec, MarkerNotReverted

(***************************************************************************)
(* Popups that were closed.                                                *)
(***************************************************************************)

(* The backend has in memory what it was told of closed popups. *)
LEMMA ClosedIsSeen == ASSUME TypeOK, AckInv PROVE Closed \subseteq seenKeys /\ Closed \subseteq Keys
BY DEF Closed, AckInv, TypeOK

LEMMA ClosedKept ==
  ASSUME TypeOK, AckInv, ClosedInv, Arrives,
         displayed \subseteq displayed', \A p \in popups' : p.id \in displayed',
         \A k \in Closed' : k \in Closed \/ k[1] \in displayed
  PROVE  ClosedInv'
<1>1. /\ answers \in Seq(Answers) /\ DOMAIN answers = 1 .. Len(answers)
      /\ DOMAIN answers' = 1 .. Len(answers')
  BY DEF TypeOK, Answers, Arrives
<1>2. ASSUME NEW i \in DOMAIN answers', NEW k \in Closed',
             answers'[i].body.items[k[1]] = k[2]
      PROVE  k[1] \in answers'[i].body.seen \cup displayed'
  <2>1. CASE k[1] \in displayed
    BY <2>1
  <2>2. CASE k \in Closed
    <3>1. CASE i \in 1 .. Len(answers) /\ answers'[i] = answers[i]
      BY <1>1, <1>2, <2>2, <3>1 DEF ClosedInv
    <3>2. CASE answers'[i].body = CurrentResponse
      <4>1. k \in seenKeys /\ k = <<k[1], k[2]>> /\ k[1] \in Ids
        BY <2>2, ClosedIsSeen DEF Keys
      <4>2. CurrentResponse.items = items
            /\ (<<k[1], items[k[1]]>> \in seenKeys => k[1] \in CurrentResponse.seen)
        BY <4>1, ResponseFacts DEF TypeOK, CurrentResponse
      <4>3. k[1] \in CurrentResponse.seen
        BY <1>2, <3>2, <4>1, <4>2
      <4> QED
        BY <3>2, <4>3
    <3> QED
      BY <1>1, <3>1, <3>2 DEF Arrives
  <2> QED
    BY <1>2, <2>1, <2>2
<1> QED
  BY <1>2 DEF ClosedInv

LEMMA ClosedStep ==
  ASSUME TypeOK, AckInv, ClosedInv, [Next]_vars
  PROVE  ClosedInv'
<1>0. /\ answers \in Seq(Answers)
      /\ CurrentResponse \in Bodies /\ marks \subseteq Marks
      /\ \A c \in DOMAIN card : c \in Callers
      /\ \A p \in popups : p.id \in displayed /\ p.card \in Cards
  <2>1. CurrentResponse \in Bodies
    BY ResponseFacts DEF TypeOK, CurrentResponse
  <2> QED
    BY <2>1 DEF TypeOK, Answers, Callers, Marks, ClosedInv
<1>1. ASSUME UNCHANGED <<answers, popups, displayed>>, Closed' \subseteq Closed
      PROVE  ClosedInv'
  BY <1>0, <1>1, ClosedKept DEF Arrives
<1>2. ASSUME NEW c \in Callers, NEW kind \in {"get", "mark"},
             Answer(c, kind, CurrentResponse), UNCHANGED <<popups, displayed>>,
             Closed' \subseteq Closed
      PROVE  ClosedInv'
  <2>1. Arrives
    BY <1>0, <1>2, AnswerFacts DEF Arrives
  <2> QED
    BY <1>0, <1>2, <2>1, ClosedKept
<1>3. CASE \/ \E id \in Ids : ChangeFeed(id)
           \/ ScheduledRefresh \/ UNCHANGED vars
           \/ \E c \in DOMAIN card : Detach(c) \/ Attach(c)
  <2>1. UNCHANGED <<answers, popups, displayed, marks, acked>>
    BY <1>3 DEF ChangeFeed, ScheduledRefresh, Detach, Attach, vars, backend, page, history
  <2> QED
    BY <1>1, <2>1 DEF Closed
<1>4. CASE FetchFeed
  <2>1. UNCHANGED <<answers, popups, displayed, marks>> /\ acked'.seen \subseteq acked.seen
    BY <1>4 DEF FetchFeed, page
  <2> QED
    BY <1>1, <2>1 DEF Closed
<1>5. CASE FetchFails \/ RefreshSaved
  <2>1. Head(refreshing) \in Callers /\ Answer(Head(refreshing), "get", CurrentResponse)
        /\ UNCHANGED <<popups, displayed, marks, acked>>
    BY <1>5, TailElements DEF FetchFails, RefreshSaved, TypeOK, history
  <2>2. Closed' = Closed
    BY <2>1 DEF Closed
  <2> QED
    BY <1>2, <2>1, <2>2
<1>6. ASSUME NEW m \in marks, MarkSaved(m) PROVE ClosedInv'
  <2>1. m.card \in Callers
    BY <1>0 DEF Marks
  <2>2. /\ marks' = marks \ {m}
        /\ \/ acked'.seen = acked.seen
           \/ m.popup /\ acked'.seen = acked.seen \cup (m.keys \cap Active(items))
        /\ Answer(m.card, "mark", CurrentResponse) /\ UNCHANGED <<popups, displayed>>
    BY <1>6 DEF MarkSaved
  <2>3. Closed' \subseteq Closed
    BY <2>2 DEF Closed
  <2> QED
    BY <1>2, <2>1, <2>2, <2>3
<1>7. CASE Restart
  BY <1>7, <1>0 DEF Restart, ClosedInv
<1>8. ASSUME NEW c \in DOMAIN card, LoadAnnouncements(c) PROVE ClosedInv'
  <2>1. UNCHANGED <<popups, displayed, marks, acked>>
    BY <1>8 DEF LoadAnnouncements, history
  <2>2. Closed' = Closed
    BY <2>1 DEF Closed
  <2>3. CASE UNCHANGED answers
    BY <1>1, <2>1, <2>2, <2>3
  <2>4. CASE Answer(c, "get", CurrentResponse)
    BY <1>0, <1>2, <2>1, <2>2, <2>4
  <2> QED
    BY <1>8, <2>3, <2>4 DEF LoadAnnouncements
<1>9. ASSUME NEW c \in DOMAIN card, OpenPanel(c) PROVE ClosedInv'
  <2>1. UNCHANGED <<answers, popups, displayed, acked>>
    BY <1>9 DEF OpenPanel, MarkFails, history
  <2>2. \A m \in marks' : m \in marks \/ ~m.popup
    <3>1. CASE MarkRead(c, Unread(c), FALSE)
      <4>1. PICK keys : marks' = marks \cup {[card |-> c, keys |-> keys, popup |-> FALSE]}
        BY <3>1 DEF MarkRead
      <4> QED
        BY <4>1
    <3>2. CASE marks' = marks
      BY <3>2
    <3> QED
      BY <1>9, <3>1, <3>2 DEF OpenPanel, MarkFails, backend
  <2> QED
    BY <1>1, <2>1, <2>2 DEF Closed
<1>10. ASSUME NEW p \in popups, ClosePopup(p) PROVE ClosedInv'
  <2>1. UNCHANGED <<answers, displayed, acked>> /\ popups' \subseteq popups
    BY <1>10 DEF ClosePopup, MarkFails, history
  <2>2. p.id \in displayed /\ p.card \in Cards
    BY <1>0
  <2>3. \A m \in marks' : m \in marks \/ \A k \in m.keys : k[1] \in displayed
    <3>1. CASE MarkRead(p.card, {p.id}, TRUE)
      BY <2>2, <3>1, MarkFacts
    <3>2. CASE marks' = marks
      BY <3>2
    <3> QED
      BY <1>10, <3>1, <3>2 DEF ClosePopup, MarkFails, backend
  <2>4. \A k \in Closed' : k \in Closed \/ k[1] \in displayed
    BY <2>1, <2>3 DEF Closed
  <2>5. Arrives
    BY <1>0, <2>1 DEF Arrives
  <2> QED
    BY <1>0, <2>1, <2>4, <2>5, ClosedKept
<1>11. ASSUME answers # <<>>, answers' = Tail(answers), UNCHANGED <<marks, acked>>,
              displayed \subseteq displayed', \A p \in popups' : p.id \in displayed'
       PROVE  ClosedInv'
  <2>1. /\ DOMAIN answers = 1 .. Len(answers) /\ DOMAIN answers' = 1 .. Len(answers')
        /\ \A i \in 1 .. Len(answers') :
             i + 1 \in 1 .. Len(answers) /\ answers'[i] = answers[i + 1]
    BY <1>0, <1>11, TailElements
  <2>2. Closed' = Closed
    BY <1>11 DEF Closed
  <2>3. ASSUME NEW i \in DOMAIN answers', NEW k \in Closed,
               answers'[i].body.items[k[1]] = k[2]
        PROVE  k[1] \in answers'[i].body.seen \cup displayed
    BY <2>1, <2>3 DEF ClosedInv
  <2> QED
    BY <1>11, <2>2, <2>3 DEF ClosedInv
<1>12. CASE GetAnswered
  <2> DEFINE a == Head(answers)
  <2>1. a \in Answers
    BY <1>0, <1>12, TailElements DEF GetAnswered
  <2>2. a.card \in Cards /\ a.body \in Bodies /\ MaybeShowPopup(a.card, a.body)
    BY <1>12, <2>1 DEF GetAnswered, Answers
  <2> HIDE DEF a
  <2>3. /\ displayed \subseteq displayed'
        /\ \A p \in popups' : p \in popups \/ p.id \in displayed'
    BY <2>2, PopupFacts DEF TypeOK
  <2> QED
    BY <1>0, <1>11, <1>12, <2>3 DEF GetAnswered, backend, history
<1>13. CASE MarkAnswered
  BY <1>0, <1>11, <1>13 DEF MarkAnswered, backend, history
<1>14. CASE ReloadPage
  BY <1>14 DEF ReloadPage, ClosedInv
<1> QED
  BY <1>3, <1>4, <1>5, <1>6, <1>7, <1>8, <1>9, <1>10, <1>12, <1>13, <1>14 DEF Next

(* Only the answer of a get opens a popup: of a content it has, that it does not
   show as seen and whose id the page has not opened. *)
LEMMA OpensUnseen ==
  ASSUME TypeOK, ClosedInv, [Next]_vars
  PROVE  \A p \in popups' \ popups : <<p.id, p.version>> \notin acked.seen
<1> SUFFICES ASSUME NEW p \in popups' \ popups PROVE <<p.id, p.version>> \notin acked.seen
  OBVIOUS
<1>1. GetAnswered
  BY DEF Next, ChangeFeed, ScheduledRefresh, FetchFeed, FetchFails, RefreshSaved,
    MarkSaved, Restart, LoadAnnouncements, OpenPanel, Detach, Attach, MarkAnswered,
    ClosePopup, ReloadPage, vars, page
<1> DEFINE a == Head(answers)
<1>2. a \in Answers /\ a = answers[1] /\ 1 \in DOMAIN answers
  <2>1. answers \in Seq(Answers) /\ answers # <<>>
    BY <1>1 DEF GetAnswered, TypeOK, Answers
  <2> QED
    BY <2>1, TailElements
<1>3. a.card \in Cards /\ a.body \in Bodies /\ MaybeShowPopup(a.card, a.body)
  BY <1>1, <1>2 DEF GetAnswered, Answers
<1> HIDE DEF a
<1>4. p.id \notin a.body.seen \cup displayed /\ p.version = a.body.items[p.id]
  BY <1>3, PopupFacts DEF TypeOK
<1>5. ASSUME <<p.id, p.version>> \in acked.seen PROVE FALSE
  <2>1. <<p.id, p.version>> \in Closed
    BY <1>5 DEF Closed
  <2>2. p.id \in a.body.seen \cup displayed
    BY <1>2, <1>4, <2>1 DEF ClosedInv
  <2> QED
    BY <1>4, <2>2
<1> QED
  BY <1>5

(* A popup that was closed, and whose call was answered, never comes back for the
   same content: not from another card, not after a reload or a restart. *)
THEOREM ClosedPopupsStayClosed == Spec => ClosedStaysClosed
<1>1. Init => AckInv /\ ClosedInv
  <2>1. Init => DOMAIN answers = {} /\ popups = {}
    BY DEF Init
  <2> QED
    BY <2>1, AckInit DEF ClosedInv
<1>2. TypeOK /\ AckInv /\ ClosedInv /\ [Next]_vars => AckInv' /\ ClosedInv'
  BY AckStep, ClosedStep
<1>3. TypeOK /\ ClosedInv /\ [Next]_vars
        => [\A p \in popups' \ popups : <<p.id, p.version>> \notin acked.seen]_vars
  BY OpensUnseen
<1> QED
  BY <1>1, <1>2, <1>3, TypeCorrect, PTL DEF Spec, ClosedStaysClosed
=============================================================================
