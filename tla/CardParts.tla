------------------------------ MODULE CardParts ------------------------------
(* Three of the things the dashboard's cards hold, side by side: the path of   *)
(* the mower on its way to a card; the buttons' custom actions, edited by      *)
(* several cards; and the record of the last mowing session, written by        *)
(* several tabs.  They have no state in common, so a behaviour is one of the   *)
(* path, one of the buttons or one of the session; `part' says which.          *)
EXTENDS LivePath

CONSTANTS Cards, MaxEdits, MaxFaults, MaxPlugs, Tabs, MaxEvents

ASSUME CardPartsAssumption == MaxEdits \in Nat /\ MaxEvents \in Nat

VARIABLES part,
          options, applied, suspended, page, saves, editors, overtaken,
          now, mower, linked, tab, session, latch, unlatched

Buttons == INSTANCE CardButtons WITH card <- page, count <- saves
Session == INSTANCE CardSession

buttonVars  == <<options, applied, suspended, page, saves, editors, overtaken>>
sessionVars == <<now, mower, linked, tab, session, latch, unlatched>>
cardsVars   == <<part, vars, buttonVars, sessionVars>>

CardsInit ==
    /\ part \in {"path", "buttons", "session"}
    /\ Init /\ Buttons!Init /\ Session!Init

CardsNext ==
    \/ part = "path" /\ Next /\ UNCHANGED <<part, buttonVars, sessionVars>>
    \/ part = "buttons" /\ Buttons!Next /\ UNCHANGED <<part, vars, sessionVars>>
    \/ part = "session" /\ Session!Next /\ UNCHANGED <<part, vars, buttonVars>>

CardsSpec ==
    /\ CardsInit /\ [][CardsNext]_cardsVars
    /\ part = "buttons" => Buttons!Fairness

(* What is promised of the buttons and of the session, stated in their modules: *)
(* no edit is lost, none flickers away, the cards agree in the end; a duration  *)
(* does not fall, and a finished task stays finished until the next.            *)
LastEditStands      == Buttons!LastEditStands
EditsStay           == Buttons!EditsStay
CardsAgree          == Buttons!CardsAgree
DurationGrows       == Session!DurationGrows
CompleteUntilMowing == Session!CompleteUntilMowing
==============================================================================
