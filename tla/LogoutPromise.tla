---------------------------- MODULE LogoutPromise ----------------------------
(***************************************************************************)
(* What the gateway may rely on: a call that is answered with ok ends, at  *)
(* one moment, all the sessions that its user had when it was made and has *)
(* still, perhaps younger ones of this user, and no others; a call that    *)
(* fails, or that names nobody, ends none.  Apart from that only a logout  *)
(* ends a session, and none begins twice.                                  *)
(***************************************************************************)
CONSTANTS Calls, Users, Unknown, Sids

VARIABLES
    state,   \* "idle", "working", "ok" or "error"
    callee,  \* the user a call names
    due,     \* the sessions this user had when it was made
    owner,   \* the user of a session there is, else Unknown
    used     \* the sessions that have begun so far

vars == <<state, callee, due, owner, used>>

Sessions(u) == {i \in used : owner[i] = u}

Init ==
    /\ state = [c \in Calls |-> "idle"]
    /\ callee = [c \in Calls |-> Unknown]
    /\ due = [c \in Calls |-> {}]
    /\ owner = [i \in Sids |-> Unknown]
    /\ used = {}

Goto(c, step) == state' = [state EXCEPT ![c] = step]

Ask(c, u) ==
    /\ state[c] # "working"
    /\ callee' = [callee EXCEPT ![c] = u]
    /\ due' = [due EXCEPT ![c] = IF u \in Users THEN Sessions(u) ELSE {}]
    /\ Goto(c, IF u \in Users THEN "working" ELSE "ok")
    /\ UNCHANGED <<owner, used>>

\* All of it or nothing.
EndSessions(c) ==
    /\ state[c] = "working"
    /\ \E S \in SUBSET Sessions(callee[c]) :
          /\ due[c] \cap Sessions(callee[c]) \subseteq S
          /\ owner' = [i \in Sids |-> IF i \in S THEN Unknown ELSE owner[i]]
    /\ Goto(c, "ok")
    /\ UNCHANGED <<callee, due, used>>

GiveUp(c) ==
    /\ state[c] = "working"
    /\ Goto(c, "error")
    /\ UNCHANGED <<callee, due, owner, used>>

Login(u, i) ==
    /\ i \notin used
    /\ used' = used \cup {i}
    /\ owner' = [owner EXCEPT ![i] = u]
    /\ UNCHANGED <<state, callee, due>>

Logout(i) ==
    /\ i \in used
    /\ owner' = [owner EXCEPT ![i] = Unknown]
    /\ UNCHANGED <<state, callee, due, used>>

Next ==
    \/ \E c \in Calls : EndSessions(c) \/ GiveUp(c)
                        \/ \E u \in Users \cup {Unknown} : Ask(c, u)
    \/ \E i \in Sids : Logout(i) \/ \E u \in Users : Login(u, i)

Safety == Init /\ [][Next]_vars
=============================================================================
