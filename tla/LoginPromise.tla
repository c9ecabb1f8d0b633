---------------------------- MODULE LoginPromise ----------------------------
(***************************************************************************)
(* What a login form promises, without notes, pages, messages or the way   *)
(* from one check to the next: an attempt gets in only if its account was  *)
(* fit at some moment after the form was sent and its password proves the  *)
(* account; a right password of a fit account is refused by nobody but the *)
(* directory; past the captcha, an attempt is turned away only if its      *)
(* account was locked at some moment since; and failures are counted one   *)
(* by one, only for refusals, when the refusal is answered.                *)
(***************************************************************************)
EXTENDS Naturals

CONSTANTS Sessions, Users, NoUser, MaxFailures

VARIABLES
    phase,     \* "idle", or how far the attempt of a session has come
    attempt,   \* the last attempt of a session
    failures,  \* failures of an account
    enabled    \* the enabled accounts

vars == <<phase, attempt, failures, enabled>>

\* An attempt can only prove an account there is.
Attempts ==
    {a \in [user: Users \cup {NoUser}, whole: BOOLEAN, directory: BOOLEAN,
            proven: BOOLEAN] :
        a.proven => a.user \in Users}

Locked(u) == failures[u] = MaxFailures
Fit(u)  == u \in enabled /\ ~Locked(u)
Shut(u) == u \in Users /\ Locked(u)

Move(s, from, to) ==
    /\ phase[s] \in from
    /\ phase' = [phase EXCEPT ![s] = to]

Init ==
    /\ phase = [s \in Sessions |-> "idle"]
    /\ attempt \in [Sessions -> Attempts]
    /\ failures = [u \in Users |-> 0]
    /\ enabled = Users

Ask(s) ==
    /\ Move(s, {"idle"}, "asked")
    /\ \E a \in Attempts : attempt' = [attempt EXCEPT ![s] = a]
    /\ UNCHANGED <<failures, enabled>>

\* The captcha is passed, or was not asked for.
Hear(s) ==
    /\ Move(s, {"asked"}, "heard")
    /\ UNCHANGED <<attempt, failures, enabled>>

\* The account is found fit; the realm's own password must be right by now, the
\* directory is still to be asked about its own.
Clear(s) ==
    /\ Move(s, {"heard"}, "cleared")
    /\ Fit(attempt[s].user)
    /\ attempt[s].directory \/ attempt[s].proven
    /\ UNCHANGED <<attempt, failures, enabled>>

Admit(s) ==
    /\ Move(s, {"cleared"}, "in")
    /\ attempt[s].proven
    /\ UNCHANGED <<attempt, failures, enabled>>

Refuse(s) ==
    /\ \/ /\ Move(s, {"heard"}, "refused")
          /\ ~(Fit(attempt[s].user) /\ attempt[s].proven)
       \/ /\ Move(s, {"cleared"}, "refused")
          /\ attempt[s].directory
    /\ UNCHANGED <<attempt, failures, enabled>>

\* The account is found locked; the attempt is lost, also if the lock goes.
Doom(s) ==
    /\ Move(s, {"heard"}, "doomed")
    /\ Shut(attempt[s].user)
    /\ attempt[s].directory
    /\ UNCHANGED <<attempt, failures, enabled>>

\* Without a verdict on the password: a captcha, a form that is not whole, a
\* lock, a fault of the directory.
TurnAway(s) ==
    /\ \/ Move(s, {"asked", "doomed"}, "away")
       \/ /\ Move(s, {"heard"}, "away")
          /\ Shut(attempt[s].user) \/ ~attempt[s].whole
       \/ /\ Move(s, {"cleared"}, "away")
          /\ attempt[s].directory
    /\ UNCHANGED <<attempt, failures, enabled>>

\* A refusal counts against the account, if there is one that is not locked.
AnswerRefusal(s) ==
    /\ Move(s, {"refused"}, "idle")
    /\ failures' =
         [u \in Users |-> IF u = attempt[s].user /\ ~Locked(u) THEN failures[u] + 1
                                                               ELSE failures[u]]
    /\ UNCHANGED <<attempt, enabled>>

AnswerTurnedAway(s) ==
    /\ Move(s, {"away"}, "idle")
    /\ UNCHANGED <<attempt, failures, enabled>>

StartAgain(s) ==
    /\ Move(s, {"in"}, "idle")
    /\ UNCHANGED <<attempt, failures, enabled>>

Forget(u) ==
    /\ failures' = [failures EXCEPT ![u] = 0]
    /\ UNCHANGED <<phase, attempt, enabled>>

SetEnabled(u) ==
    /\ enabled' \in {enabled \cup {u}, enabled \ {u}}
    /\ UNCHANGED <<phase, attempt, failures>>

Next ==
    \/ \E s \in Sessions : \/ Ask(s) \/ Hear(s) \/ Clear(s) \/ Admit(s)
                           \/ Refuse(s) \/ Doom(s) \/ TurnAway(s) \/ AnswerRefusal(s)
                           \/ AnswerTurnedAway(s) \/ StartAgain(s)
    \/ \E u \in Users : Forget(u) \/ SetEnabled(u)

Safety == Init /\ [][Next]_vars
=============================================================================
