----------------------------- MODULE EventTable -----------------------------
(***************************************************************************)
(* What the table of CDC events on the page promises: it shows the events  *)
(* the page was given, the latest first, and forgets only what no longer   *)
(* fits.  Abstract specification, implemented by EventFeed.                *)
(***************************************************************************)
EXTENDS Integers, Sequences

CONSTANTS
    Events,      \* events there can be
    MaxRows      \* rows the table has room for

VARIABLES
    shown,       \* the events in the table, the latest first
    total        \* how many have been shown in all

vars == <<shown, total>>

Init == shown = <<>> /\ total = 0

\* A new event comes on top; at most the last one goes.
Show(e) ==
    /\ shown' = <<e>> \o (IF Len(shown) < MaxRows THEN shown
                          ELSE SubSeq(shown, 1, MaxRows - 1))
    /\ total' = total + 1

Next == \E e \in Events : Show(e)

Spec == Init /\ [][Next]_vars
=============================================================================
