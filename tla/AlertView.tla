----------------------------- MODULE AlertView ------------------------------
(***************************************************************************)
(* What a message of the theme promises its reader, without saying how     *)
(* the element keeps its page up to date: a type is shown only if it is    *)
(* the one asked for at that moment, and a message that the reader closed  *)
(* comes back only when another type is shown.  Safety only: that a type   *)
(* asked for is shown in the end is no part of it.                         *)
(***************************************************************************)
CONSTANTS Types, NoType

VARIABLES
    asked,  \* the type asked for by the markup or by a script of the page
    shown,  \* the type in which the message is shown, NoType before the first
    closed, \* the reader has closed it
    live    \* the element follows what it is asked for

vars == <<asked, shown, closed, live>>

Init ==
    /\ asked = NoType
    /\ shown = NoType
    /\ closed = FALSE
    /\ live = FALSE

Ask(t) ==
    /\ asked' = t
    /\ UNCHANGED <<shown, closed, live>>

\* The element is created, with its first type or with the one asked before.
Begin ==
    /\ ~live
    /\ live' = TRUE
    /\ UNCHANGED <<asked, shown, closed>>

CatchUp ==
    /\ live
    /\ shown # asked
    /\ shown' = asked
    /\ closed' = FALSE
    /\ UNCHANGED <<asked, live>>

Close ==
    /\ shown # NoType
    /\ closed' = TRUE
    /\ UNCHANGED <<asked, shown, live>>

Next == (\E t \in Types : Ask(t)) \/ Begin \/ CatchUp \/ Close

Safety == Init /\ [][Next]_vars
=============================================================================
