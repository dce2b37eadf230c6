---------------------------- MODULE MCLiveShadow ----------------------------
(* Instances of LiveShadow for TLC. *)
EXTENDS LiveShadow

(* Every field is a top-level key of its own. *)
FlatKeys == [f \in Fields |-> f]
=============================================================================
