--------------------------- MODULE Announcements ---------------------------
(***************************************************************************)
(* The announcements of a dashboard page: the feed a cloud service keeps,  *)
(* the copy Home Assistant caches with the markers "read" and "popup seen" *)
(* (announcements.py), and the cards of one browser page that poll it,     *)
(* count what is unread, open the popup of a message once per page and     *)
(* mark what the user has read (anthbot-map-card.js).                      *)
(*                                                                         *)
(* A message is its id and the version of its content, so that a marker of *)
(* the backend is bound to a content as the digest in its key is; version  *)
(* 0 is "not in the feed".  Every message asks for a popup.  The calls of  *)
(* a page share one websocket: answers arrive in the order in which the    *)
(* backend computed them.                                                  *)
(***************************************************************************)
EXTENDS Naturals, Sequences, FiniteSets

CONSTANTS
    Ids,          \* message ids, naturals: the feed lists them in this order
    Versions,     \* content versions, 1 .. n
    Cards,        \* card instances a page may hold
    Timer,        \* the backend's own periodic refresh, not a card
    MaxEdits,     \* bound: changes of the cloud feed
    MaxFaults,    \* bound: restarts, page reloads, failed calls and fetches
    Starts        \* the first feeds, the cards of the page, the bounds spent

VARIABLES
    feed,         \* cloud: [Ids -> version or 0]
    edits,        \* counts changes of the feed
    faults,       \* counts restarts, reloads and failures
    items,        \* runtime.items: [Ids -> version or 0]
    readKeys,     \* runtime.read_keys, as <<id, version>>
    seenKeys,     \* runtime.popup_seen_keys
    stored,       \* the file behind runtime.store
    unsaved,      \* data handed to the store and not written yet, or NoData
    refreshing,   \* async_refresh calls in the order they queue on the lock
    fetched,      \* the head of refreshing has its answer and is saving
    marks,        \* async_mark_read calls that wait for their save
    answers,      \* answers on their way to the page
    card,         \* the cards of the page and the copy each holds
    displayed,    \* window.__anthbotAnnouncementPopupIdsBeta7
    popups,       \* popup hosts in the document
    acked,        \* history: markers whose call was answered and whose
                  \* message has been in every feed cached since
    restarted     \* history: Home Assistant was restarted

backend == <<items, readKeys, seenKeys, stored, unsaved, refreshing, fetched, marks>>
page    == <<answers, card, displayed, popups>>
history == <<acked, restarted>>
vars    == <<feed, edits, faults, backend, page, history>>

Feeds  == [Ids -> Versions \cup {0}]
Keys   == Ids \X Versions
NoData == [none |-> TRUE]

Active(f)     == {<<id, f[id]>> : id \in {i \in Ids : f[i] # 0}}
IdsOf(keys)   == {id \in Ids : <<id, items[id]>> \in keys}
Least(S)      == CHOOSE x \in S : \A y \in S : x <= y

Blank == [items |-> [id \in Ids |-> 0], read |-> {}, seen |-> {},
          mounted |-> TRUE, loading |-> FALSE]

\* A version is never 0, which stands for a message that is not in the feed.
ASSUME AnnouncementsAssumption ==
    /\ Ids \subseteq Nat /\ Versions \subseteq Nat \ {0}
    /\ \A s \in Starts : s.feed \in Feeds /\ s.cards \subseteq Cards

Callers == Cards \cup {Timer}
Stores  == [items : Feeds, read : SUBSET Keys, seen : SUBSET Keys]
Bodies  == [items : Feeds, read : SUBSET Ids, seen : SUBSET Ids]
Copies  == [items : Feeds, read : SUBSET Ids, seen : SUBSET Ids,
            mounted : BOOLEAN, loading : BOOLEAN]

TypeOK ==
    /\ feed \in Feeds
    /\ items \in Feeds
    /\ readKeys \subseteq Keys
    /\ seenKeys \subseteq Keys
    /\ stored \in Stores
    /\ unsaved \in Stores \cup {NoData}
    /\ refreshing \in Seq(Callers)
    /\ fetched \in BOOLEAN
    /\ marks \subseteq [card : Callers, keys : SUBSET Keys, popup : BOOLEAN]
    /\ answers \in Seq([card : Cards, kind : {"get", "mark"}, body : Bodies])
    /\ card \in [DOMAIN card -> Copies]
    /\ DOMAIN card \subseteq Cards
    /\ displayed \subseteq Ids
    /\ popups \subseteq [id : Ids, version : Versions, card : Cards]
    /\ acked \in [read : SUBSET Keys, seen : SUBSET Keys]
    /\ restarted \in BOOLEAN

Init ==
    /\ \E s \in Starts :
          /\ feed = s.feed
          /\ edits = s.edits
          /\ faults = s.faults
          /\ card = [c \in s.cards |-> Blank]
    /\ items = [id \in Ids |-> 0]
    /\ readKeys = {}
    /\ seenKeys = {}
    /\ stored = [items |-> items, read |-> {}, seen |-> {}]
    /\ unsaved = NoData
    /\ refreshing = <<Timer>>
    /\ fetched = FALSE
    /\ marks = {}
    /\ answers = <<>>
    /\ displayed = {}
    /\ popups = {}
    /\ acked = [read |-> {}, seen |-> {}]
    /\ restarted = FALSE

Fault == faults < MaxFaults /\ faults' = faults + 1

-----------------------------------------------------------------------------
(* The cloud's feed: a message is edited, filtered out, or listed again.   *)

ChangeFeed(id) ==
    /\ edits < MaxEdits
    /\ edits' = edits + 1
    /\ \E v \in Versions \cup {0} : v # feed[id] /\ feed' = [feed EXCEPT ![id] = v]
    /\ UNCHANGED <<faults, backend, page, history>>

-----------------------------------------------------------------------------
(* The backend, announcements.py.                                          *)

\* response(): computed when the call returns, from the state of that moment
Response(f, read, seen) ==
    [items |-> f,
     read  |-> {id \in Ids : <<id, f[id]>> \in read},
     seen  |-> {id \in Ids : <<id, f[id]>> \in seen}]

CurrentResponse == Response(items, readKeys, seenKeys)

\* async_save: only the markers of messages in the cached feed are kept
Data(f, read, seen) ==
    [items |-> f, read |-> read \cap Active(f), seen |-> seen \cap Active(f)]

\* Store.async_save writes the last data handed to it; a caller that finds
\* nothing left to write returns at once
WriteStore ==
    /\ stored' = IF unsaved = NoData THEN stored ELSE unsaved
    /\ unsaved' = NoData

Answer(c, kind, body) ==
    answers' = IF c \in Cards
               THEN Append(answers, [card |-> c, kind |-> kind, body |-> body])
               ELSE answers

\* _scheduled, and the refresh started with the integration
ScheduledRefresh ==
    /\ refreshing = <<>>                     \* bound: not while another one queues
    /\ refreshing' = Append(refreshing, Timer)
    /\ UNCHANGED <<feed, edits, faults, items, readKeys, seenKeys, stored, unsaved,
                   fetched, marks, page, history>>

\* async_refresh under the lock: the feed replaces the cache, and is saved
FetchFeed ==
    /\ refreshing # <<>> /\ ~fetched
    /\ items' = feed
    /\ unsaved' = Data(feed, readKeys, seenKeys)
    /\ fetched' = TRUE
    /\ acked' = [read |-> acked.read \cap Active(feed), seen |-> acked.seen \cap Active(feed)]
    /\ UNCHANGED <<feed, edits, faults, readKeys, seenKeys, stored, refreshing, marks, page, restarted>>

\* ... or the fetch fails: last_error, the cache stands, the call is answered
FetchFails ==
    /\ refreshing # <<>> /\ ~fetched /\ Fault
    /\ refreshing' = Tail(refreshing)
    /\ Answer(Head(refreshing), "get", CurrentResponse)
    /\ UNCHANGED <<feed, edits, items, readKeys, seenKeys, stored, unsaved, fetched,
                   marks, card, displayed, popups, history>>

(* Mutant: async_get answers with the markers the file had before its save. *)
RefreshSavedStale ==
    /\ refreshing # <<>> /\ fetched
    /\ WriteStore
    /\ fetched' = FALSE
    /\ refreshing' = Tail(refreshing)
    /\ Answer(Head(refreshing), "get", Response(items, stored.read, stored.seen))
    /\ UNCHANGED <<feed, edits, faults, items, readKeys, seenKeys, marks,
                   card, displayed, popups, history>>

\* the save returns, the lock is released and async_get answers
RefreshSaved ==
    /\ refreshing # <<>> /\ fetched
    /\ WriteStore
    /\ fetched' = FALSE
    /\ refreshing' = Tail(refreshing)
    /\ Answer(Head(refreshing), "get", CurrentResponse)
    /\ UNCHANGED <<feed, edits, faults, items, readKeys, seenKeys, marks,
                   card, displayed, popups, history>>

(* Mutant: async_mark_read does not hand its markers to the store. *)
MarkReadUnsaved(c, ids, popupSeen) ==
    LET keys == {k \in Active(items) : k[1] \in ids}
    IN  /\ readKeys' = readKeys \cup keys
        /\ seenKeys' = IF popupSeen THEN seenKeys \cup keys ELSE seenKeys
        /\ marks' = marks \cup {[card |-> c, keys |-> keys, popup |-> popupSeen]}
        /\ UNCHANGED <<items, stored, unsaved, refreshing, fetched>>

(* Mutant: popup_seen is ignored. *)
MarkReadOnly(c, ids, popupSeen) ==
    LET keys == {k \in Active(items) : k[1] \in ids}
    IN  /\ readKeys' = readKeys \cup keys
        /\ unsaved' = Data(items, readKeys', seenKeys)
        /\ marks' = marks \cup {[card |-> c, keys |-> keys, popup |-> popupSeen]}
        /\ UNCHANGED <<items, seenKeys, stored, refreshing, fetched>>

\* async_mark_read up to its await: ids become keys of the cached contents
MarkRead(c, ids, popupSeen) ==
    LET keys == {k \in Active(items) : k[1] \in ids}
    IN  /\ readKeys' = readKeys \cup keys
        /\ seenKeys' = IF popupSeen THEN seenKeys \cup keys ELSE seenKeys
        /\ unsaved' = Data(items, readKeys', seenKeys')
        /\ marks' = marks \cup {[card |-> c, keys |-> keys, popup |-> popupSeen]}
        /\ UNCHANGED <<items, stored, refreshing, fetched>>

\* ... and from its await on
MarkSaved(m) ==
    /\ WriteStore
    /\ marks' = marks \ {m}
    /\ Answer(m.card, "mark", CurrentResponse)
    /\ acked' = [read |-> acked.read \cup (m.keys \cap Active(items)),
                 seen |-> IF m.popup THEN acked.seen \cup (m.keys \cap Active(items))
                          ELSE acked.seen]
    /\ UNCHANGED <<feed, edits, faults, items, readKeys, seenKeys, refreshing, fetched,
                   card, displayed, popups, restarted>>

(* Mutant: a call that fails leaves announcementsLoading set. *)
RestartLoading ==
    /\ Fault
    /\ items' = stored.items
    /\ readKeys' = stored.read
    /\ seenKeys' = stored.seen
    /\ unsaved' = NoData
    /\ refreshing' = <<Timer>>
    /\ fetched' = FALSE
    /\ marks' = {}
    /\ answers' = <<>>
    /\ acked' = [read |-> acked.read \cap Active(stored.items),
                 seen |-> acked.seen \cap Active(stored.items)]
    /\ restarted' = TRUE
    /\ UNCHANGED <<feed, edits, stored, card, displayed, popups>>

\* Home Assistant restarts: async_load reads the file, the page's calls fail
Restart ==
    /\ Fault
    /\ items' = stored.items
    /\ readKeys' = stored.read
    /\ seenKeys' = stored.seen
    /\ unsaved' = NoData
    /\ refreshing' = <<Timer>>
    /\ fetched' = FALSE
    /\ marks' = {}
    /\ answers' = <<>>
    /\ card' = [c \in DOMAIN card |-> [card[c] EXCEPT !.loading = FALSE]]
    /\ acked' = [read |-> acked.read \cap Active(stored.items),
                 seen |-> acked.seen \cap Active(stored.items)]
    /\ restarted' = TRUE
    /\ UNCHANGED <<feed, edits, stored, displayed, popups>>

-----------------------------------------------------------------------------
(* The card, anthbot-map-card.js.                                          *)

\* loadAnnouncements: one call of a card at a time.  The poll asks for the
\* cached feed (refresh is false) and the backend fetches it when it is stale;
\* focus and mounting ask for a refresh.
LoadAnnouncements(c) ==
    /\ card[c].mounted /\ ~card[c].loading
    /\ card' = [card EXCEPT ![c].loading = TRUE]
    /\ \/ /\ Answer(c, "get", CurrentResponse)
          /\ UNCHANGED refreshing
       \/ /\ refreshing' = Append(refreshing, c)
          /\ UNCHANGED answers
    /\ UNCHANGED <<feed, edits, faults, items, readKeys, seenKeys, stored, unsaved,
                   fetched, marks, displayed, popups, history>>

\* applyAnnouncementResponse replaces everything the card holds
Applied(c, body) ==
    [card[c] EXCEPT !.items = body.items, !.read = body.read, !.seen = body.seen]

(* Mutant: only the first message of the feed is looked at. *)
MaybeShowFirstPopup(c, body) ==
    LET listed == {id \in Ids : body.items[id] # 0}
        id     == Least(listed)
    IN  IF listed # {} /\ id \notin body.seen /\ id \notin displayed
        THEN /\ displayed' = displayed \cup {id}
             /\ popups' = popups \cup {[id |-> id, version |-> body.items[id], card |-> c]}
        ELSE UNCHANGED <<displayed, popups>>

\* maybeShowAnnouncementPopup: only the first message that still wants a popup
\* is looked at, and it opens unless a card of this page opened it before
MaybeShowPopup(c, body) ==
    LET wanted == {id \in Ids : body.items[id] # 0 /\ id \notin body.seen}
        id     == Least(wanted)
    IN  IF wanted # {} /\ id \notin displayed
        THEN /\ displayed' = displayed \cup {id}
             /\ popups' = popups \cup {[id |-> id, version |-> body.items[id], card |-> c]}
        ELSE UNCHANGED <<displayed, popups>>

\* the answer of a get: apply, badges, popup, and loading ends (finally)
GetAnswered ==
    /\ answers # <<>> /\ Head(answers).kind = "get"
    /\ LET a == Head(answers)
       IN  /\ card' = [card EXCEPT ![a.card] = [Applied(a.card, a.body) EXCEPT !.loading = FALSE]]
           /\ MaybeShowPopup(a.card, a.body)
    /\ answers' = Tail(answers)
    /\ UNCHANGED <<feed, edits, faults, backend, history>>

\* the answer of a mark: apply and badges
MarkAnswered ==
    /\ answers # <<>> /\ Head(answers).kind = "mark"
    /\ card' = [card EXCEPT ![Head(answers).card] = Applied(Head(answers).card, Head(answers).body)]
    /\ answers' = Tail(answers)
    /\ UNCHANGED <<feed, edits, faults, backend, displayed, popups, history>>

\* a call that fails: a marker is convenience state, the error is dropped
MarkFails ==
    /\ Fault
    /\ UNCHANGED <<feed, edits, backend, answers, card, history>>

\* closePopup: the host is removed and its id marked, whatever the card shows
ClosePopup(p) ==
    /\ popups' = popups \ {p}
    /\ UNCHANGED displayed
    /\ \/ /\ MarkRead(p.card, {p.id}, TRUE)
          /\ UNCHANGED <<feed, edits, faults, answers, card, history>>
       \/ MarkFails

\* the panel of announcements is opened: markCurrentlyVisibleAnnouncementsRead
Unread(c) == {id \in Ids : card[c].items[id] # 0} \ card[c].read

OpenPanel(c) ==
    /\ card[c].mounted /\ Unread(c) # {}
    /\ popups = {}                       \* the overlay of a popup covers the page
    /\ marks = {} /\ answers = <<>>       \* bound: no other call is pending
    /\ UNCHANGED <<displayed, popups>>
    /\ \/ /\ MarkRead(c, Unread(c), FALSE)
          /\ UNCHANGED <<feed, edits, faults, answers, card, history>>
       \/ MarkFails

\* disconnectedCallback: the timers stop; calls under way still answer
Detach(c) ==
    /\ card[c].mounted /\ Fault
    /\ card' = [card EXCEPT ![c].mounted = FALSE]
    /\ UNCHANGED <<feed, edits, backend, answers, displayed, popups, history>>

\* connectedCallback: the poll timer, and a refresh unless a load is under way
Attach(c) ==
    /\ ~card[c].mounted
    /\ card' = [card EXCEPT ![c].mounted = TRUE, ![c].loading = TRUE]
    /\ refreshing' = IF card[c].loading THEN refreshing ELSE Append(refreshing, c)
    /\ UNCHANGED <<feed, edits, faults, items, readKeys, seenKeys, stored, unsaved,
                   fetched, marks, answers, displayed, popups, history>>

\* the page is loaded anew: its copies, its popups and the set of displayed
\* ids are gone; calls under way finish on the backend and answer nobody
ReloadPage ==
    /\ Fault
    /\ card' = [c \in DOMAIN card |-> Blank]
    /\ displayed' = {}
    /\ popups' = {}
    /\ answers' = <<>>
    /\ refreshing' = [i \in DOMAIN refreshing |-> Timer]
    /\ marks' = {[m EXCEPT !.card = Timer] : m \in marks}
    /\ UNCHANGED <<feed, edits, items, readKeys, seenKeys, stored, unsaved, fetched, history>>

-----------------------------------------------------------------------------
Next ==
    \/ \E id \in Ids : ChangeFeed(id)
    \/ ScheduledRefresh \/ FetchFeed \/ FetchFails \/ RefreshSaved
    \/ \E m \in marks : MarkSaved(m)
    \/ Restart
    \/ \E c \in DOMAIN card : LoadAnnouncements(c) \/ OpenPanel(c) \/ Detach(c) \/ Attach(c)
    \/ GetAnswered \/ MarkAnswered
    \/ \E p \in popups : ClosePopup(p)
    \/ ReloadPage

\* The timers of a mounted, visible page and of the backend keep firing, every
\* call returns, every answer is handled.  Nothing is assumed of the user, of
\* the cloud's editors or of faults.
Fairness ==
    /\ WF_vars(ScheduledRefresh)
    /\ WF_vars(FetchFeed)
    /\ WF_vars(RefreshSaved)
    /\ WF_vars(\E m \in marks : MarkSaved(m))
    /\ WF_vars(GetAnswered)
    /\ WF_vars(MarkAnswered)
    /\ \A c \in Cards : WF_vars(c \in DOMAIN card /\ LoadAnnouncements(c))

Spec == Init /\ [][Next]_vars /\ Fairness

-----------------------------------------------------------------------------
\* Safety.  A marker whose call was answered is in memory and in the file as
\* long as its message stays in the cached feed: refreshes, saves of other
\* calls and restarts do not lose it (async_save, async_mark_read, async_load).
AckDurable ==
    /\ acked.read \subseteq readKeys \cap stored.read
    /\ acked.seen \subseteq seenKeys \cap stored.seen

\* A popup the user has closed, and whose call was answered, does not come back
\* for the same content: not from another card of the page, not after a page
\* reload, not after a restart (maybeShowAnnouncementPopup, closePopup).
ClosedStaysClosed ==
    [][\A p \in popups' \ popups : <<p.id, p.version>> \notin acked.seen]_vars

\* A card never takes back the read marker of a content it goes on showing: no
\* older answer is applied over a newer one, and memory forgets no marker.  (A
\* restart does lose the markers whose save was still under way.)
MarkerNotReverted ==
    [][\A c \in DOMAIN card : \A id \in card[c].read :
          ~restarted' /\ card'[c].items[id] = card[c].items[id]
              => id \in card'[c].read]_vars

-----------------------------------------------------------------------------
(* Inductive invariants, for the proofs.                                   *)

\* What the file will hold when the save under way is done.
Handed == IF unsaved = NoData THEN stored ELSE unsaved

\* What is in memory of a message in the cached feed has been handed to the
\* store, so that whoever writes next, writes it; what is acknowledged has been
\* written before, and a call that waits has its markers in memory.
AckInv ==
    /\ readKeys \cap Active(items) \subseteq Handed.read
    /\ seenKeys \cap Active(items) \subseteq Handed.seen
    /\ acked.read \cup acked.seen \subseteq Active(items)
    /\ acked.read \subseteq readKeys \cap stored.read
    /\ acked.seen \subseteq seenKeys \cap stored.seen
    /\ \A m \in marks : m.keys \subseteq readKeys /\ (m.popup => m.keys \subseteq seenKeys)

\* The contents whose popup has been closed, as far as the backend was told.
Closed == acked.seen \cup UNION {m.keys : m \in {n \in marks : n.popup}}

\* An answer that was computed before a popup was closed reaches a page that
\* remembers to have opened it.
ClosedInv ==
    /\ \A p \in popups : p.id \in displayed
    /\ \A i \in DOMAIN answers : \A k \in Closed :
          answers[i].body.items[k[1]] = k[2]
              => k[1] \in answers[i].body.seen \cup displayed

\* The contents a copy of the feed, a card's or an answer's, shows as read; and
\* that a later copy shows as read what an earlier one does, where it has it.
ReadIn(copy) == {<<id, copy.items[id]>> : id \in copy.read}
Keeps(later, earlier) ==
    \A id \in earlier.read :
        later.items[id] = earlier.items[id] => id \in later.read

\* The answers on their way to the page are in the order of the backend's
\* states, after what the cards show, and memory is ahead of all.
OrderInv ==
    ~restarted =>
        /\ \A c \in DOMAIN card : ReadIn(card[c]) \subseteq readKeys
        /\ \A i \in DOMAIN answers :
              /\ ReadIn(answers[i].body) \subseteq readKeys
              /\ \A c \in DOMAIN card : Keeps(answers[i].body, card[c])
              /\ \A j \in 1 .. i - 1 : Keeps(answers[i].body, answers[j].body)

-----------------------------------------------------------------------------
\* Liveness.  While a card stays mounted its copy is, again and again, what the
\* backend would answer, and the backend's cache is the cloud's feed.
CardFollowsBackend ==
    \A c \in Cards :
        []<>( \/ c \notin DOMAIN card
              \/ ~card[c].mounted
              \/ /\ items = feed
                 /\ card[c].items = items
                 /\ card[c].read = IdsOf(readKeys)
                 /\ card[c].seen = IdsOf(seenKeys) )

Wanted(id) ==
    /\ \E c \in DOMAIN card : card[c].mounted
    /\ feed[id] # 0
    /\ <<id, feed[id]>> \notin seenKeys

\* Every message that wants a popup gets one on a page that stays open, unless an
\* earlier message stands before it: one whose popup this page has opened and
\* whose popup_seen marker the backend does not have.
PopupAppears ==
    \A id \in Ids :
        Wanted(id) ~>
            ( \/ id \in displayed
              \/ ~Wanted(id)
              \/ \E j \in displayed : j < id /\ Wanted(j) )
=============================================================================
