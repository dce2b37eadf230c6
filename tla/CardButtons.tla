---------------------------- MODULE CardButtons ----------------------------
(***************************************************************************)
(* The custom actions of the dashboard card's buttons.  Each card edits its *)
(* own copy at once and saves the whole copy through a queue of service     *)
(* calls (persistCustomButtonActions); the backend keeps it in the options  *)
(* of the config entry and applies it to the coordinator, whose state comes *)
(* back to every card (syncCustomButtonActionsFromServer).  An edit of the  *)
(* charging plug, saved in the same options, can suspend such an            *)
(* application halfway (async_update_battery_saver_config).                 *)
(*                                                                         *)
(* An edit gives one button its action and leaves the others alone, so the *)
(* actions are the set of the edits they hold; "clear" empties it.  A card's *)
(* websocket delivers states and results in the order they were sent.       *)
(***************************************************************************)
EXTENDS Naturals, Sequences, FiniteSets

CONSTANTS
    Cards,        \* dashboard cards of one mower, on pages of their own
    MaxEdits,     \* bound: edits of all cards together
    MaxFaults,    \* bound: failing calls
    MaxPlugs      \* bound: edits of the charging plug

VARIABLES
    options,      \* entry.options: the actions stored
    applied,      \* coordinator._custom_button_config
    suspended,    \* _async_update_entry_options runs that wait for a save,
                  \* each with the actions it read from the options before
    card,         \* [Cards -> the state of a card]
    count,        \* bounds: edits, faults, plug edits so far
    editors,      \* history: cards that have edited
    overtaken     \* history: a suspended run applied actions that were stale

vars == <<options, applied, suspended, card, count, editors, overtaken>>

Edits == 1 .. MaxEdits

\* [type, actions]: a state pushed to a card, or the result of its call
State(actions) == [type |-> "state", actions |-> actions]
Result(ok)     == [type |-> "result", ok |-> ok]

Blank == [actions |-> {},        \* customButtonActions
          known   |-> {},        \* entity attributes of the last hass
          queue   |-> <<>>,      \* payloads of calls not made yet
          call    |-> <<>>,      \* the payload of the call under way
          inbox   |-> <<>>]      \* states and results on their way

\* customButtonSavePending counts the saves queued and under way, and the one
\* whose result is on its way; what matters is whether there is one
Ends(box)  == {i \in DOMAIN box : box[i].type = "result"}
Pending(c) == card[c].queue # <<>> \/ card[c].call # <<>> \/ Ends(card[c].inbox) # {}

Messages   == [type : {"state"}, actions : SUBSET Edits] \cup [type : {"result"}, ok : BOOLEAN]

CardStates == [actions : SUBSET Edits, known : SUBSET Edits,
               queue : Seq(SUBSET Edits), call : Seq(SUBSET Edits), inbox : Seq(Messages)]

\* A card makes one call at a time.
OneCall(d) == /\ Len(d.call) <= 1
              /\ Ends(d.inbox) # {} => d.call = <<>>
              /\ \A i, j \in Ends(d.inbox) : i = j

TypeOK ==
    /\ options \in SUBSET Edits
    /\ applied \in SUBSET Edits
    /\ suspended \subseteq SUBSET Edits
    /\ card \in [Cards -> CardStates]
    /\ \A c \in Cards : OneCall(card[c])
    /\ count \in [edit : 0 .. MaxEdits, fault : Nat, plug : Nat]
    /\ editors \subseteq Cards
    /\ overtaken \in BOOLEAN

Init ==
    /\ options = {}
    /\ applied = {}
    /\ suspended = {}
    /\ card = [c \in Cards |-> Blank]
    /\ count = [edit |-> 0, fault |-> 0, plug |-> 0]
    /\ editors = {}
    /\ overtaken = FALSE

-----------------------------------------------------------------------------
(* The card.                                                               *)

\* saveRow, and persistCustomButtonActions: the payload is the copy of now
Edit(c) ==
    /\ count.edit < MaxEdits
    /\ count' = [count EXCEPT !.edit = @ + 1]
    /\ \E new \in {card[c].actions \cup {count'.edit}, {}} :
          card' = [card EXCEPT ![c].actions = new, ![c].queue = Append(@, new)]
    /\ editors' = editors \cup {c}
    /\ UNCHANGED <<options, applied, suspended, overtaken>>

(* Mutant: of several saves that wait, the last one is the first to go. *)
SaveLast(c) ==
    /\ card[c].queue # <<>> /\ card[c].call = <<>> /\ Ends(card[c].inbox) = {}
    /\ LET n == Len(card[c].queue)
       IN  card' = [card EXCEPT ![c].queue = SubSeq(@, 1, n - 1), ![c].call = <<card[c].queue[n]>>]
    /\ UNCHANGED <<options, applied, suspended, count, editors, overtaken>>

\* the next save of the queue, once the one before it has ended
Save(c) ==
    /\ card[c].queue # <<>> /\ card[c].call = <<>> /\ Ends(card[c].inbox) = {}
    /\ card' = [card EXCEPT ![c].queue = Tail(@), ![c].call = <<Head(card[c].queue)>>]
    /\ UNCHANGED <<options, applied, suspended, count, editors, overtaken>>

(* Mutant: pending saves do not keep the server's copy away. *)
SyncedAlways(d, pending) == [d EXCEPT !.actions = d.known]

(* Mutant: a card that has actions keeps them. *)
SyncedWhenEmpty(d, pending) ==
    IF pending \/ d.actions # {} THEN d ELSE [d EXCEPT !.actions = d.known]

\* syncCustomButtonActionsFromServer, called with every new hass: what the
\* server has is taken over unless a save is pending
Synced(d, pending) == IF pending THEN d ELSE [d EXCEPT !.actions = d.known]

\* a state arrives, and with it a new hass
StateArrives(c) ==
    /\ card[c].inbox # <<>> /\ Head(card[c].inbox).type = "state"
    /\ LET d == [card[c] EXCEPT !.known = Head(card[c].inbox).actions, !.inbox = Tail(@)]
       IN  card' = [card EXCEPT ![c] = Synced(d, Pending(c))]
    /\ UNCHANGED <<options, applied, suspended, count, editors, overtaken>>

\* the result of a save, or its failure, ends it (finally)
SaveEnds(c) ==
    /\ card[c].inbox # <<>> /\ Head(card[c].inbox).type = "result"
    /\ card' = [card EXCEPT ![c].inbox = Tail(@)]
    /\ UNCHANGED <<options, applied, suspended, count, editors, overtaken>>

\* any other entity changes: a new hass with the states the card has
OtherState(c) ==
    /\ card' = [card EXCEPT ![c] = Synced(@, Pending(c))]
    /\ UNCHANGED <<options, applied, suspended, count, editors, overtaken>>

-----------------------------------------------------------------------------
(* The backend.                                                            *)

\* the coordinator writes its Map entity; the state goes to every card, before
\* what is sent after it
Pushed(actions, cards) ==
    [c \in Cards |-> [cards[c] EXCEPT !.inbox = Append(@, State(actions))]]

\* _handle_set_custom_button_actions: options, then the coordinator, with no
\* suspension in between; then the result of the call
HandleSave(c) ==
    /\ card[c].call # <<>>
    /\ options' = Head(card[c].call)
    /\ applied' = Head(card[c].call)
    /\ LET pushed == Pushed(Head(card[c].call), card)
       IN  card' = [pushed EXCEPT ![c].call = <<>>, ![c].inbox = Append(@, Result(TRUE))]
    /\ UNCHANGED <<suspended, count, editors, overtaken>>

\* the call fails: the connection is lost, or the actions are refused
SaveFails(c) ==
    /\ card[c].call # <<>> /\ count.fault < MaxFaults
    /\ count' = [count EXCEPT !.fault = @ + 1]
    /\ card' = [card EXCEPT ![c].call = <<>>, ![c].inbox = Append(@, Result(FALSE))]
    /\ UNCHANGED <<options, applied, suspended, editors, overtaken>>

\* a new plug is saved: the run that applies it has read the actions and waits
\* for the battery saver's state to be written
PlugChanged ==
    /\ count.plug < MaxPlugs
    /\ count' = [count EXCEPT !.plug = @ + 1]
    /\ suspended' = suspended \cup {options}
    /\ UNCHANGED <<options, applied, card, editors, overtaken>>

\* ... and goes on with the actions it has read before
ApplyResumes ==
    \E actions \in suspended :
        /\ suspended' = suspended \ {actions}
        /\ applied' = actions
        /\ overtaken' = (overtaken \/ actions # options)
        /\ card' = Pushed(actions, card)
        /\ UNCHANGED <<options, count, editors>>

-----------------------------------------------------------------------------
Next ==
    \/ \E c \in Cards :
          \/ Edit(c) \/ Save(c) \/ StateArrives(c) \/ SaveEnds(c) \/ OtherState(c)
          \/ HandleSave(c) \/ SaveFails(c)
    \/ PlugChanged \/ ApplyResumes

\* Promises resume, calls return, states are delivered, and Home Assistant goes
\* on sending new states of other entities.
Fairness ==
    /\ \A c \in Cards :
          /\ WF_vars(Save(c))
          /\ WF_vars(StateArrives(c))
          /\ WF_vars(SaveEnds(c))
          /\ WF_vars(OtherState(c))
          /\ WF_vars(HandleSave(c))
    /\ WF_vars(ApplyResumes)

Spec == Init /\ [][Next]_vars /\ Fairness

-----------------------------------------------------------------------------
\* A card that is the only editor never shows an older copy than its own: no edit
\* of its user flickers away while saves, states of earlier saves and results
\* arrive; only the user takes actions off.
EditsStay ==
    [][\A c \in Cards :
          editors' = {c} /\ count'.fault = 0 /\ ~overtaken' /\ count'.edit = count.edit
              => card'[c].actions = card[c].actions]_vars

\* When the saves of the only editor have ended, the options hold its copy: calls
\* are applied in the order of the edits, and none is dropped.
LastEditStands ==
    \A c \in Cards :
        editors = {c} /\ count.fault = 0 /\ ~Pending(c) /\ ~overtaken
            => options = card[c].actions /\ applied = options

\* Nobody but c has edited, and nothing went wrong.
Alone(c) == editors \subseteq {c} /\ count.fault = 0 /\ ~overtaken

\* For the proofs: the last save that waits, the one under way or the options hold
\* the copy of the only editor; and what is on its way to it is what the options
\* hold, except what was sent before the result of a save.
Follows(d) ==
    /\ d.actions = IF d.queue # <<>> THEN d.queue[Len(d.queue)]
                   ELSE IF d.call # <<>> THEN Head(d.call) ELSE options
    /\ Ends(d.inbox) = {} => /\ d.known = options
                             /\ \A i \in DOMAIN d.inbox : d.inbox[i] = State(options)
    /\ \A i \in Ends(d.inbox) :
         /\ IF i = 1 THEN d.known = options ELSE d.inbox[i - 1] = State(options)
         /\ \A j \in DOMAIN d.inbox : j > i => d.inbox[j] = State(options)

AloneInv(c) ==
    /\ applied = options
    /\ \A d \in Cards \ {c} : card[d].queue = <<>> /\ card[d].call = <<>>
    /\ Follows(card[c])

ButtonInv == \A c \in Cards : Alone(c) => AloneInv(c)

\* However cards edit and fail, in the end every card shows what the backend has
\* applied; and that is what the options hold, unless the edit of a plug was
\* suspended while the actions were saved.
CardsAgree ==
    <>[](/\ \A c \in Cards : card[c].actions = applied
         /\ applied = options \/ overtaken)
=============================================================================
