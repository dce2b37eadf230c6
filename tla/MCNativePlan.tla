---------------------------- MODULE MCNativePlan ----------------------------
(* An instance of NativePlan for TLC: a model that takes whole plans and of  *)
(* its plan only reports the revision of the file; one edit in the app.       *)
EXTENDS NativePlan, TLC

CONSTANTS c1

FileStarts ==
    { [family |-> [command |-> "list", report |-> "revision"],
       plan   |-> <<[id |-> 0, when |-> 1, extra |-> 1, locked |-> FALSE]>>,
       count  |-> [app |-> 0, call |-> 0, fault |-> 0, restart |-> 0]] }
==============================================================================
