----------------------------- MODULE LogoutApiProofs -----------------------------
(***************************************************************************)
(* Theorems about LogoutApi, for any number of calls, users and sessions.  *)
(***************************************************************************)
EXTENDS LogoutApi, TLAPS

\* What a call knows about is sessions of its user, or ended ones: identifiers
\* are not reused, so a session never changes hands.
OfTheUser ==
    \A c \in Calls : \A i \in standing[c] \cup removals[c] :
        i \in used /\ owner[i] \in {target[c], Unknown}

Inv == TypeOK /\ OfTheUser /\ StandingSessionsEnd

LEMMA InitInv == Init => Inv
  BY LogoutApiAssumption DEF Init, Inv, TypeOK, OfTheUser, StandingSessionsEnd, Steps

\* One step per action; Reply is the one that ends sessions.
LEMMA StepInv == ASSUME Inv, [Next]_vars PROVE Inv'
  <1> USE LogoutApiAssumption
  <1>1. ASSUME NEW c \in Calls, Request(c) PROVE Inv'
    <2>1. CASE \E u \in Users : Begin(c, u, "stream")
      BY <2>1 DEF Inv, TypeOK, OfTheUser, StandingSessionsEnd, Steps, Begin, Goto, SessionsOf
    <2>2. CASE Begin(c, Unknown, "ok")
      BY <2>2 DEF Inv, TypeOK, OfTheUser, StandingSessionsEnd, Steps, Begin, Goto, SessionsOf
    <2> QED BY <1>1, <2>1, <2>2 DEF Request
  <1>2. ASSUME NEW c \in Calls, BackchannelLogout(c) PROVE Inv'
    BY <1>2 DEF Inv, TypeOK, OfTheUser, StandingSessionsEnd, Steps, BackchannelLogout, SessionsOf
  <1>3. ASSUME NEW c \in Calls, Reply(c) PROVE Inv'
    <2>1. TypeOK' /\ OfTheUser'
      BY <1>3 DEF Inv, TypeOK, OfTheUser, Steps, Reply, Goto
    <2>2. ASSUME NEW i \in standing[c] PROVE owner'[i] = Unknown
      BY <1>3, <2>2 DEF Inv, TypeOK, OfTheUser, Reply, StreamEnded, SessionsOf
    <2>3. StandingSessionsEnd'
      BY <1>3, <2>2 DEF Inv, TypeOK, StandingSessionsEnd, Reply, Goto
    <2> QED BY <2>1, <2>3 DEF Inv
  <1>4. ASSUME NEW c \in Calls, Fail(c) PROVE Inv'
    BY <1>4 DEF Inv, TypeOK, OfTheUser, StandingSessionsEnd, Steps, Fail, Goto
  <1>5. ASSUME NEW u \in Users, NEW i \in Sids, Login(u, i) PROVE Inv'
    BY <1>5 DEF Inv, TypeOK, OfTheUser, StandingSessionsEnd, Login
  <1>6. ASSUME NEW i \in Sids, Logout(i) PROVE Inv'
    BY <1>6 DEF Inv, TypeOK, OfTheUser, StandingSessionsEnd, Logout
  <1>7. CASE UNCHANGED vars
    BY <1>7 DEF Inv, TypeOK, OfTheUser, StandingSessionsEnd, vars, Steps
  <1> QED BY <1>1, <1>2, <1>3, <1>4, <1>5, <1>6, <1>7 DEF Next

\* The inductive invariant.
THEOREM Invariance == Spec => []Inv
  <1>1. Inv /\ [Next]_vars => Inv'
    BY StepInv
  <1> QED BY InitInv, <1>1, PTL DEF Spec

\* Every reachable state is well typed, and a call streams only over the sessions
\* of a user that exists.
THEOREM TypeCorrect == Spec => []TypeOK
  <1>1. Inv => TypeOK
    BY DEF Inv
  <1> QED BY Invariance, <1>1, PTL

\* When logoutUser has replied, no session is left that its user had when the
\* call began, whatever concurrent calls, logins and logouts did.
THEOREM StandingSessionsAreEnded == Spec => []StandingSessionsEnd
  <1>1. Inv => StandingSessionsEnd
    BY DEF Inv
  <1> QED BY Invariance, <1>1, PTL

\* What the commit of a call does to a session of another user: nothing.
Untouched ==
    \A c \in Calls, i \in Sids :
        /\ pc[c] = "stream" /\ pc'[c] = "ok"
        /\ owner[i] \notin {target[c], Unknown}
        => owner'[i] = owner[i]

\* The transaction of logoutUser removes sessions of the user in its path only.
THEOREM OtherSessionsAreKept == Spec => OthersKept
  <1>1. ASSUME Inv, [Next]_vars PROVE [Untouched]_vars
    <2> SUFFICES ASSUME NEW c \in Calls, NEW i \in Sids,
                        pc[c] = "stream", pc'[c] = "ok",
                        owner[i] \notin {target[c], Unknown}
                 PROVE  owner'[i] = owner[i]
      BY DEF Untouched
    <2>1. CASE Reply(c)
      BY <1>1, <2>1 DEF Inv, TypeOK, OfTheUser, Reply
    <2>2. CASE ~Reply(c)
      BY <1>1, <2>2 DEF Inv, TypeOK, Next, vars, Steps, Request, Begin, BackchannelLogout,
                        Reply, Fail, Login, Logout, Goto
    <2> QED BY <2>1, <2>2
  <1>2. Spec => [][Untouched]_vars
    BY Invariance, <1>1, PTL DEF Spec
  <1> QED BY <1>2 DEF OthersKept, Untouched

-----------------------------------------------------------------------------
(* The refinement of LogoutPromise *)

States == [c \in Calls |-> IF pc[c] = "stream" THEN "working" ELSE pc[c]]

\* A call that goes to another step is seen to do so.
LEMMA StateAfter ==
    ASSUME TypeOK, NEW c \in Calls, NEW step, Goto(c, step)
    PROVE  States' = [States EXCEPT ![c] =
                        IF step = "stream" THEN "working" ELSE step]
  BY DEF TypeOK, Goto, States

\* The two ways to name the sessions of a user agree on a well-typed state.
LEMMA SameSessions ==
    ASSUME TypeOK, NEW u \in Users
    PROVE  SessionsOf(u) = Promise!Sessions(u)
  BY LogoutApiAssumption DEF TypeOK, SessionsOf, Promise!Sessions

\* What the transaction removes at the end of the stream is what it may remove
\* and all that it must.
LEMMA RemovalsFit ==
    ASSUME Inv, NEW c \in Calls, pc[c] = "stream", StreamEnded(c)
    PROVE  \E S \in SUBSET Promise!Sessions(target[c]) :
             /\ standing[c] \cap Promise!Sessions(target[c]) \subseteq S
             /\ \A i \in Sids : (i \in removals[c] /\ owner[i] # Unknown) <=> i \in S
  <1> DEFINE S == {i \in removals[c] : owner[i] # Unknown}
  <1>1. target[c] \in Users /\ removals[c] \subseteq Sids
    BY DEF Inv, TypeOK
  <1>2. SessionsOf(target[c]) = Promise!Sessions(target[c])
    BY <1>1, SameSessions DEF Inv
  <1>3. \A i \in S : owner[i] = target[c] /\ i \in used
    BY DEF Inv, OfTheUser
  <1>4. S \in SUBSET Promise!Sessions(target[c])
    BY <1>3 DEF Promise!Sessions
  <1>5. standing[c] \cap Promise!Sessions(target[c]) \subseteq S
    BY <1>1, <1>2, LogoutApiAssumption DEF StreamEnded, SessionsOf
  <1> QED
    BY <1>4, <1>5

LEMMA ReplySimulates ==
    ASSUME Inv, NEW c \in Calls, Reply(c)
    PROVE  Promise!EndSessions(c)
  <1>1. pc[c] = "stream" /\ StreamEnded(c) /\ TypeOK
    BY DEF Reply, Inv
  <1>2. PICK S \in SUBSET Promise!Sessions(target[c]) :
             /\ standing[c] \cap Promise!Sessions(target[c]) \subseteq S
             /\ \A i \in Sids : (i \in removals[c] /\ owner[i] # Unknown) <=> i \in S
    BY <1>1, RemovalsFit
  <1>3. owner' = [i \in Sids |-> IF i \in S THEN Unknown ELSE owner[i]]
    BY <1>2 DEF Reply
  <1>4. States' = [States EXCEPT ![c] = "ok"]
    BY <1>1, StateAfter DEF Reply
  <1>5. States[c] = "working" /\ UNCHANGED <<target, standing, used>>
    BY <1>1 DEF Reply, States
  <1> QED
    BY <1>2, <1>3, <1>4, <1>5 DEF Promise!EndSessions, Promise!Goto, States

LEMMA RequestSimulates ==
    ASSUME Inv, NEW c \in Calls, Request(c)
    PROVE  \E u \in Users \cup {Unknown} : Promise!Ask(c, u)
  <1> USE LogoutApiAssumption
  <1>1. TypeOK /\ pc[c] # "stream"
    BY DEF Request, Inv
  <1>2. States[c] # "working"
    BY <1>1 DEF States, TypeOK, Steps
  <1>3. ASSUME NEW u \in Users, Begin(c, u, "stream") PROVE Promise!Ask(c, u)
    <2>1. States' = [States EXCEPT ![c] = "working"]
      BY <1>1, <1>3, StateAfter DEF Begin
    <2>2. standing' = [standing EXCEPT ![c] = Promise!Sessions(u)]
      BY <1>1, <1>3, SameSessions DEF Begin
    <2> QED
      BY <1>2, <1>3, <2>1, <2>2 DEF Begin, Promise!Ask, Promise!Goto, States
  <1>4. ASSUME Begin(c, Unknown, "ok") PROVE Promise!Ask(c, Unknown)
    <2>1. States' = [States EXCEPT ![c] = "ok"]
      BY <1>1, <1>4, StateAfter DEF Begin
    <2>2. standing' = [standing EXCEPT ![c] = {}]
      BY <1>4 DEF Begin, SessionsOf
    <2> QED
      BY <1>2, <1>4, <2>1, <2>2 DEF Begin, Promise!Ask, Promise!Goto, States
  <1> QED
    BY <1>3, <1>4 DEF Request

LEMMA StepSimulates == Inv /\ [Next]_vars => [Promise!Next]_(Promise!vars)
  <1> SUFFICES ASSUME Inv, [Next]_vars PROVE Promise!Next \/ UNCHANGED Promise!vars
    OBVIOUS
  <1>1. ASSUME NEW c \in Calls, Request(c) PROVE Promise!Next
    BY <1>1, RequestSimulates DEF Promise!Next
  <1>2. ASSUME NEW c \in Calls, BackchannelLogout(c) PROVE UNCHANGED Promise!vars
    BY <1>2 DEF BackchannelLogout, Promise!vars
  <1>3. ASSUME NEW c \in Calls, Reply(c) PROVE Promise!Next
    BY <1>3, ReplySimulates DEF Promise!Next
  <1>4. ASSUME NEW c \in Calls, Fail(c) PROVE Promise!Next
    <2>1. States' = [States EXCEPT ![c] = "error"] /\ States[c] = "working"
      BY <1>4, StateAfter DEF Fail, Inv, States
    <2>2. Promise!GiveUp(c)
      BY <1>4, <2>1 DEF Fail, Promise!GiveUp, Promise!Goto, States
    <2> QED
      BY <2>2 DEF Promise!Next
  <1>5. ASSUME NEW u \in Users, NEW i \in Sids, Login(u, i) PROVE Promise!Next
    <2>1. Promise!Login(u, i)
      BY <1>5 DEF Login, Promise!Login
    <2> QED
      BY <2>1 DEF Promise!Next
  <1>6. ASSUME NEW i \in Sids, Logout(i) PROVE Promise!Next
    <2>1. Promise!Logout(i)
      BY <1>6 DEF Logout, Promise!Logout, Inv, TypeOK
    <2> QED
      BY <2>1 DEF Promise!Next
  <1>7. CASE UNCHANGED vars
    BY <1>7 DEF vars, Promise!vars
  <1> QED
    BY <1>1, <1>2, <1>3, <1>4, <1>5, <1>6, <1>7 DEF Next

\* logoutUser implements LogoutPromise for any number of calls, users and
\* sessions: seen from outside it ends the sessions of its user in one step.
THEOREM PromiseIsKept == Spec => KeepsLogoutPromise
  <1>1. Init => Promise!Init
    BY DEF Init, Promise!Init
  <1> QED
    BY <1>1, Invariance, StepSimulates, PTL
       DEF Spec, KeepsLogoutPromise, Promise!Safety

=============================================================================
