------------------------------- MODULE LogoutApi -------------------------------
(***************************************************************************)
(* CustomResourceProvider: GET logout/{userId}, by which the gateway ends  *)
(* the sessions of a user.  The call streams over the user's sessions and  *)
(* removes them one by one in its transaction, while users log in and out  *)
(* and other calls run.                                                    *)
(***************************************************************************)
CONSTANTS
    Calls,      \* concurrent calls of the endpoint
    Users,      \* users of the realm
    Unknown,    \* a user id no user has
    Sids        \* identifiers of user sessions, each used once

ASSUME LogoutApiAssumption == Unknown \notin Users

VARIABLES
    pc,         \* where a call is
    target,     \* the userId of its path
    standing,   \* history: the user's sessions when the call began
    removals,   \* sessions its transaction will remove
    owner,      \* the user of a session that exists, else Unknown
    used        \* identifiers that have been given to a session

vars == <<pc, target, standing, removals, owner, used>>

Steps == {"idle", "stream", "ok", "error"}

Goto(c, step) == pc' = [pc EXCEPT ![c] = step]

\* Mutant: the sessions of the realm.
EverySession(u) == {i \in Sids : owner[i] # Unknown}

\* getUserSessionsStream(realm, user)
SessionsOf(u) == {i \in Sids : owner[i] = u /\ u # Unknown}

-----------------------------------------------------------------------------
(* logoutUser *)

\* The call as getUserById leaves it, and the sessions of the user there are.
Begin(c, u, step) ==
    /\ target' = [target EXCEPT ![c] = u]
    /\ standing' = [standing EXCEPT ![c] = SessionsOf(u)]
    /\ removals' = [removals EXCEPT ![c] = {}]
    /\ Goto(c, step)
    /\ UNCHANGED <<owner, used>>

\* Mutant: the user is not tested for null.
RequestUntested(c) ==
    /\ pc[c] # "stream"
    /\ \E u \in Users \cup {Unknown} : Begin(c, u, "stream")

\* Without a user the call has nothing to do, and replies all the same.
Request(c) ==
    /\ pc[c] # "stream"
    /\ \/ \E u \in Users : Begin(c, u, "stream")
       \/ Begin(c, Unknown, "ok")

\* backchannelLogout of the next session of the stream.
BackchannelLogout(c) ==
    /\ pc[c] = "stream"
    /\ \E i \in SessionsOf(target[c]) \ removals[c] :
         removals' = [removals EXCEPT ![c] = @ \cup {i}]
    /\ UNCHANGED <<pc, target, standing, owner, used>>

\* Mutant: findFirst for forEach.
FirstVisited(c) == standing[c] = {} \/ removals[c] # {}

\* A stream over the store gives what is there throughout; a session that is
\* created meanwhile may be given or not.
StreamEnded(c) == standing[c] \cap SessionsOf(target[c]) \subseteq removals[c]

\* The transaction commits and the reply says that the user is logged out.
Reply(c) ==
    /\ pc[c] = "stream"
    /\ StreamEnded(c)
    /\ owner' = [i \in Sids |-> IF i \in removals[c] THEN Unknown ELSE owner[i]]
    /\ Goto(c, "ok")
    /\ UNCHANGED <<target, standing, removals, used>>

\* Mutant: each logout of the stream is committed on its own.
FailHalfway(c) ==
    /\ pc[c] = "stream"
    /\ owner' = [i \in Sids |-> IF i \in removals[c] THEN Unknown ELSE owner[i]]
    /\ Goto(c, "error")
    /\ removals' = [removals EXCEPT ![c] = {}]
    /\ UNCHANGED <<target, standing, used>>

\* A logout or the commit fails: nothing is removed, the gateway sees an error.
Fail(c) ==
    /\ pc[c] = "stream"
    /\ Goto(c, "error")
    /\ removals' = [removals EXCEPT ![c] = {}]
    /\ UNCHANGED <<target, standing, owner, used>>

-----------------------------------------------------------------------------
(* The users *)

Login(u, i) ==
    /\ i \notin used
    /\ owner' = [owner EXCEPT ![i] = u]
    /\ used' = used \cup {i}
    /\ UNCHANGED <<pc, target, standing, removals>>

Logout(i) ==
    /\ owner[i] # Unknown
    /\ owner' = [owner EXCEPT ![i] = Unknown]
    /\ UNCHANGED <<pc, target, standing, removals, used>>

Init ==
    /\ pc = [c \in Calls |-> "idle"]
    /\ target = [c \in Calls |-> Unknown]
    /\ standing = [c \in Calls |-> {}]
    /\ removals = [c \in Calls |-> {}]
    /\ owner = [i \in Sids |-> Unknown]
    /\ used = {}

Next ==
    \/ \E c \in Calls : Request(c) \/ BackchannelLogout(c) \/ Reply(c) \/ Fail(c)
    \/ \E i \in Sids : Logout(i) \/ \E u \in Users : Login(u, i)

Spec == Init /\ [][Next]_vars

-----------------------------------------------------------------------------
(* Properties *)

TypeOK ==
    /\ pc \in [Calls -> Steps]
    /\ target \in [Calls -> Users \cup {Unknown}]
    /\ standing \in [Calls -> SUBSET Sids]
    /\ removals \in [Calls -> SUBSET Sids]
    /\ owner \in [Sids -> Users \cup {Unknown}]
    /\ used \subseteq Sids
    /\ \A i \in Sids \ used : owner[i] = Unknown
    /\ \A c \in Calls : pc[c] = "stream" => target[c] \in Users

\* After the reply, no session is left that the user had when the call began,
\* whatever other calls and the user did meanwhile; identifiers are not reused,
\* so this stays so.
StandingSessionsEnd ==
    \A c \in Calls : pc[c] = "ok" =>
        \A i \in standing[c] : owner[i] = Unknown

\* A call ends sessions of its own user only.
OthersKept ==
    [][\A c \in Calls, i \in Sids :
         /\ pc[c] = "stream" /\ pc'[c] = "ok"
         /\ owner[i] \notin {target[c], Unknown}
         => owner'[i] = owner[i]]_vars

\* LogoutPromise sees neither the stream nor what a transaction has gathered.
Promise == INSTANCE LogoutPromise WITH
    state  <- [c \in Calls |-> IF pc[c] = "stream" THEN "working" ELSE pc[c]],
    callee <- target,
    due    <- standing

\* The call, which visits the sessions one by one while users come and go and
\* other calls visit the same sessions, keeps the promise of LogoutPromise: it
\* ends them at one moment, all that were due and none of another user, or, if
\* it fails or the user is unknown, none at all.
KeepsLogoutPromise == Promise!Safety

=============================================================================
