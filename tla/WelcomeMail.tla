----------------------------- MODULE WelcomeMail -----------------------------
(***************************************************************************)
(* KCEventListener.onEvent(AdminEvent): the mail to a user whom an         *)
(* administrator creates.  Keycloak inserts the user, tells the listener,  *)
(* which sends the mail within the call, and commits after that; an        *)
(* exception of the listener is logged and changes nothing else.           *)
(***************************************************************************)
CONSTANTS
    Requests,   \* requests of administrators to create a user, each used once
    Names,      \* user names, unique in the realm
    NoRequest

ASSUME WelcomeMailAssumption == NoRequest \notin Requests

VARIABLES
    pc,         \* where a request is
    name,       \* the user name it asks for
    type,       \* the first value of the user's KULLANICITIPI
    outcome,    \* history: what the listener came to
    creator     \* the committed users, each with the request that created it

vars == <<pc, name, type, outcome, creator>>

Types    == {"PERSONEL", "other", "missing"}
Steps    == {"idle", "inserted", "heard", "created", "failed"}
Outcomes == {"none", "exception", "staff", "sent", "refused"}

Goto(r, step) == pc' = [pc EXCEPT ![r] = step]

\* The unique index of user names, on rows that are committed or not.
Taken(n)   == creator[n] # NoRequest
Pending(n) == \E r \in Requests : pc[r] \in {"inserted", "heard"} /\ name[r] = n

-----------------------------------------------------------------------------
(* The request *)

\* The user is inserted.  A taken name fails the request before its event; one
\* that another transaction inserts makes it wait for that.
Insert(r) ==
    /\ pc[r] = "idle"
    /\ \E n \in Names, t \in Types :
         /\ ~Pending(n)
         /\ name' = [name EXCEPT ![r] = n]
         /\ type' = [type EXCEPT ![r] = t]
         /\ Goto(r, IF Taken(n) THEN "failed" ELSE "inserted")
    /\ UNCHANGED <<outcome, creator>>

\* The listener ends one way or the other, and the request goes on.
Heard(r, result) ==
    /\ pc[r] = "inserted"
    /\ Goto(r, "heard")
    /\ outcome' = [outcome EXCEPT ![r] = result]
    /\ UNCHANGED <<name, type, creator>>

\* The attribute is dereferenced untested.
MissingType(r) == type[r] = "missing" /\ Heard(r, "exception")

Staff(r) == type[r] = "PERSONEL" /\ Heard(r, "staff")

\* Mutant: staff is written to as well.
SendToAll(r) == type[r] # "missing" /\ Heard(r, "sent")

Send(r) == type[r] = "other" /\ Heard(r, "sent")

\* EmailException: the mail server, or the lack of an address, is only logged.
SendFails(r) == type[r] = "other" /\ Heard(r, "refused")

OnEvent(r) == MissingType(r) \/ Staff(r) \/ Send(r) \/ SendFails(r)

\* Mutant: the transaction does not wait for the listener.
CommitUnheard(r) ==
    /\ pc[r] \in {"inserted", "heard"}
    /\ creator' = [creator EXCEPT ![name[r]] = r]
    /\ Goto(r, "created")
    /\ UNCHANGED <<name, type, outcome>>

Commit(r) ==
    /\ pc[r] = "heard"
    /\ creator' = [creator EXCEPT ![name[r]] = r]
    /\ Goto(r, "created")
    /\ UNCHANGED <<name, type, outcome>>

\* The commit fails, or the server stops before it.
Rollback(r) ==
    /\ pc[r] \in {"inserted", "heard"}
    /\ Goto(r, "failed")
    /\ UNCHANGED <<name, type, outcome, creator>>

\* An administrator deletes a user.
Delete(n) ==
    /\ Taken(n)
    /\ creator' = [creator EXCEPT ![n] = NoRequest]
    /\ UNCHANGED <<pc, name, type, outcome>>

Init ==
    /\ pc = [r \in Requests |-> "idle"]
    /\ name \in [Requests -> Names]
    /\ type = [r \in Requests |-> "missing"]
    /\ outcome = [r \in Requests |-> "none"]
    /\ creator = [n \in Names |-> NoRequest]

Next ==
    \/ \E r \in Requests : Insert(r) \/ OnEvent(r) \/ Commit(r) \/ Rollback(r)
    \/ \E n \in Names : Delete(n)

Spec == Init /\ [][Next]_vars

-----------------------------------------------------------------------------
(* Properties *)

TypeOK ==
    /\ pc \in [Requests -> Steps]
    /\ name \in [Requests -> Names]
    /\ type \in [Requests -> Types]
    /\ outcome \in [Requests -> Outcomes]
    /\ creator \in [Names -> Requests \cup {NoRequest}]
    /\ \A r \in Requests : pc[r] \in {"heard", "created"} => outcome[r] # "none"

\* Among the users there are, whatever creations were rolled back, repeated or
\* undone by a deletion: staff got no mail, and everybody else with a type got
\* one at their own creation unless the mail server refused it.
RegisteredAreWelcomed ==
    \A n \in Names : Taken(n) =>
        LET r == creator[n]
        IN  /\ name[r] = n
            /\ type[r] = "PERSONEL" => outcome[r] # "sent"
            /\ type[r] = "other" => outcome[r] \in {"sent", "refused"}

=============================================================================
