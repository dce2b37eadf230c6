--------------------------- MODULE MCAnnouncements ---------------------------
(* An instance of Announcements for TLC. *)
EXTENDS Announcements

CONSTANTS c1, c2

Feed(a, b) == <<a, b>>

(* One card and two messages, an edit and a fault to come; or two cards and  *)
(* one message, a fault to come.  Without cards nothing is to come.           *)
FirstFeeds ==
    { [feed |-> Feed(1, 1), cards |-> {c1}, edits |-> 0, faults |-> 0],
      [feed |-> Feed(1, 0), cards |-> {c1, c2}, edits |-> 1, faults |-> 0],
      [feed |-> Feed(0, 0), cards |-> {}, edits |-> 1, faults |-> 1] }
==============================================================================
