------------------------------ MODULE LiveView -------------------------------
(***************************************************************************)
(* What the live-map stream promises a card, without its mechanism.  A     *)
(* mower's state moves through revisions.  A viewer is blank or shows one  *)
(* of them, whole; a snapshot may start it at any revision the mower has   *)
(* had, and as long as it stays synchronised it only moves forward.        *)
(***************************************************************************)
EXTENDS Integers

CONSTANT MaxRevision   \* bound on the revisions

VARIABLES
  revision,  \* the mower's state
  view,      \* what the viewer shows
  synced     \* whether the viewer follows the mower

vars == <<revision, view, synced>>

Revision == 0 .. MaxRevision
Blank == -1

Init == revision = 0 /\ view = Blank /\ synced = FALSE

Advance ==
  /\ revision < MaxRevision
  /\ revision' = revision + 1
  /\ UNCHANGED view
  /\ synced' = synced

(* The viewer starts from a snapshot that may be older than the mower. *)
Synchronise ==
  /\ ~synced /\ synced'
  /\ view' \in 0 .. revision
  /\ UNCHANGED revision

Follow ==
  /\ synced /\ synced'
  /\ view' \in view + 1 .. revision
  /\ UNCHANGED revision

(* The viewer loses track of the mower: it keeps what it shows, or clears. *)
LoseTrack ==
  /\ ~synced'
  /\ view' \in {view, Blank}
  /\ UNCHANGED revision

Next == Advance \/ Synchronise \/ Follow \/ LoseTrack

Spec == Init /\ [][Next]_vars
=============================================================================
