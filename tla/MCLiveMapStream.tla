-------------------------- MODULE MCLiveMapStream --------------------------
(* Instances of LiveMapStream for TLC. *)
EXTENDS LiveMapStream, TLC

(* Successive pairs of revisions differ only in what the snapshot cache does
   not compare. *)
PairedContext == [r \in Revision |-> r \div 2]

HandleSymmetry == Permutations(Handles)
=============================================================================
