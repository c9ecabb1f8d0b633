--------------------------- MODULE LoginDatePromise ---------------------------
(***************************************************************************)
(* What the date of the last login promises, without tasks, threads and    *)
(* transactions: only the end of a login touches it, once, for its own     *)
(* user, in one step, and what it puts in place is a moment of that login; *)
(* or it leaves the date as it was.                                        *)
(***************************************************************************)
EXTENDS Naturals

CONSTANTS Requests, Users

VARIABLES
    clock,
    user,    \* who logs in with a request
    phase,   \* "idle", "open" or "over"
    began,   \* when the login began
    stored   \* the date of the last login of a user, 0 if there is none

vars == <<clock, user, phase, began, stored>>

Init ==
    /\ clock = 1
    /\ user \in [Requests -> Users]
    /\ phase = [r \in Requests |-> "idle"]
    /\ began = [r \in Requests |-> 0]
    /\ stored = [u \in Users |-> 0]

Begin(r) ==
    /\ phase[r] = "idle"
    /\ phase' = [phase EXCEPT ![r] = "open"]
    /\ began' = [began EXCEPT ![r] = clock]
    /\ UNCHANGED <<clock, user, stored>>

End(r) ==
    /\ phase[r] = "open"
    /\ phase' = [phase EXCEPT ![r] = "over"]
    /\ \E date \in began[r] .. clock \cup {stored[user[r]]} :
          stored' = [stored EXCEPT ![user[r]] = date]
    /\ UNCHANGED <<clock, user, began>>

Tick ==
    /\ clock' = clock + 1
    /\ UNCHANGED <<user, phase, began, stored>>

Next == Tick \/ \E r \in Requests : Begin(r) \/ End(r)

Safety == Init /\ [][Next]_vars
=============================================================================
