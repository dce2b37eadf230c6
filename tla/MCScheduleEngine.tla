--------------------------- MODULE MCScheduleEngine ---------------------------
(* Instances of ScheduleEngine for TLC. *)
EXTENDS ScheduleEngine

(* Rules due one minute after the other. *)
Staggered == [r \in Rules |-> {r - 1}]

Quiet == [k \in Kinds |-> 0]
Disturbed == [Quiet EXCEPT !["override"] = 1, !["start"] = 1, !["fault"] = 1]
Everything == [k \in Kinds |-> 1]
OneEdit == [Quiet EXCEPT !["edit"] = 1]
=============================================================================
