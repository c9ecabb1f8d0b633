----------------------------- MODULE IpRestricted -----------------------------
(***************************************************************************)
(* IPAuthenticator: a login is let in from the addresses that the user's   *)
(* group lists, unless the group has an exception.  The group, its list    *)
(* and the exception are three reads, of three tables that are edited      *)
(* meanwhile; the singleton serves all sessions.                           *)
(***************************************************************************)
CONSTANTS
    Sessions,     \* authentication sessions of the user
    Groups,       \* groups of the realm
    Addresses,    \* client addresses
    Padded,       \* an entry that is no address: split(",") does not trim
    Values,       \* values of the attribute IP_ADRES: what split makes of them
    NoGroup, NoValue

ASSUME IpRestrictedAssumption ==
    /\ Padded \notin Addresses
    /\ Values \subseteq SUBSET (Addresses \cup {Padded})
    /\ NoGroup \notin Groups
    /\ NoValue \notin Values

VARIABLES
    pc,          \* where a session is in authenticate()
    remote,      \* address of the client
    group,       \* the group findFirst gave
    value,       \* the value of IP_ADRES read from it
    members,     \* groups of the user
    ipAdres,     \* values of the attribute IP_ADRES of each group
    istisna,     \* groups with an active exception of the IP type
    seen         \* history: what a group was at some moment of the attempt

session == <<pc, remote, group, value>>
realm   == <<members, ipAdres, istisna>>
vars    == <<session, realm, seen>>

Steps == {"start", "attributes", "exception", "success", "fork"}

Goto(s, step) == pc' = [pc EXCEPT ![s] = step]

-----------------------------------------------------------------------------
(* History: what a group said of a client at some moment of its attempt.   *)

Facts == {"listed", "unlisted", "excepted", "unexcepted"}

Holds(g, fact, a) ==
    \/ fact = "listed" /\ (ipAdres[g] = {} \/ \E v \in ipAdres[g] : a \in v)
    \/ fact = "unlisted" /\ \E v \in ipAdres[g] : a \notin v
    \/ fact = "excepted" /\ g \in istisna
    \/ fact = "unexcepted" /\ g \notin istisna

FactsOf(a) == {p \in Groups \X Facts : Holds(p[1], p[2], a)}

Observe ==
    seen' = [s \in Sessions |->
       FactsOf(remote[s])'
         \cup (IF pc'[s] = "start" /\ pc[s] # "start" THEN {} ELSE seen[s])]

-----------------------------------------------------------------------------
(* authenticate() *)

\* Mutant: no test of isEmpty().
PickUnchecked(s) ==
    /\ pc[s] = "start"
    /\ \E g \in members \cup {NoGroup} : group' = [group EXCEPT ![s] = g]
    /\ Goto(s, "attributes")
    /\ UNCHANGED <<remote, value, realm>>
    /\ Observe

PickGroup(s) ==
    /\ pc[s] = "start"
    /\ \/ members = {} /\ Goto(s, "fork") /\ UNCHANGED group
       \/ \E g \in members : group' = [group EXCEPT ![s] = g]
                             /\ Goto(s, "attributes")
    /\ UNCHANGED <<remote, value, realm>>
    /\ Observe

\* get(0) of the values, whose order the store does not fix.
ReadAttributes(s) ==
    /\ pc[s] = "attributes"
    /\ \/ ipAdres[group[s]] = {} /\ Goto(s, "success") /\ UNCHANGED value
       \/ \E v \in ipAdres[group[s]] : value' = [value EXCEPT ![s] = v]
                                       /\ Goto(s, "exception")
    /\ UNCHANGED <<remote, group, realm>>
    /\ Observe

\* Mutants: a query without organizasyon_id; a query that matches no row.
AnyGroupHaveIPException(g) == istisna # {}
NeverIPException(g) == FALSE

isGroupHaveIPException(g) == g \in istisna

CheckAddress(s) ==
    /\ pc[s] = "exception"
    /\ Goto(s, IF isGroupHaveIPException(group[s]) \/ remote[s] \in value[s]
               THEN "success" ELSE "fork")
    /\ UNCHANGED <<remote, group, value, realm>>
    /\ Observe

\* A new attempt: the fork starts the flow again, from this or another client.
Start(s) ==
    /\ pc[s] \in {"success", "fork"}
    /\ Goto(s, "start")
    /\ \E a \in Addresses : remote' = [remote EXCEPT ![s] = a]
    /\ group' = [group EXCEPT ![s] = NoGroup]
    /\ value' = [value EXCEPT ![s] = NoValue]
    /\ UNCHANGED realm
    /\ Observe

-----------------------------------------------------------------------------
(* Administrators, and the application that writes the table istisna *)

ToggleMember(g) ==
    /\ members' = IF g \in members THEN members \ {g} ELSE members \cup {g}
    /\ UNCHANGED <<session, ipAdres, istisna>>
    /\ Observe

ToggleValue(g, v) ==
    /\ ipAdres' = [ipAdres EXCEPT ![g] = IF v \in @ THEN @ \ {v} ELSE @ \cup {v}]
    /\ UNCHANGED <<session, members, istisna>>
    /\ Observe

ToggleException(g) ==
    /\ istisna' = IF g \in istisna THEN istisna \ {g} ELSE istisna \cup {g}
    /\ UNCHANGED <<session, members, ipAdres>>
    /\ Observe

-----------------------------------------------------------------------------
(* The specification *)

Attempt(s) == PickGroup(s) \/ ReadAttributes(s) \/ CheckAddress(s) \/ Start(s)

Edit ==
    \E g \in Groups :
        ToggleMember(g) \/ ToggleException(g) \/ \E v \in Values : ToggleValue(g, v)

Init ==
    /\ pc = [s \in Sessions |-> "start"]
    /\ remote \in [Sessions -> Addresses]
    /\ group = [s \in Sessions |-> NoGroup]
    /\ value = [s \in Sessions |-> NoValue]
    /\ members = {}
    /\ ipAdres = [g \in Groups |-> {}]
    /\ istisna = {}
    /\ seen = [s \in Sessions |-> FactsOf(remote[s])]

Next == (\E s \in Sessions : Attempt(s)) \/ Edit

Spec == Init /\ [][Next]_vars

-----------------------------------------------------------------------------
(* Properties *)

TypeOK ==
    /\ pc \in [Sessions -> Steps]
    /\ remote \in [Sessions -> Addresses]
    /\ group \in [Sessions -> Groups \cup {NoGroup}]
    /\ value \in [Sessions -> Values \cup {NoValue}]
    /\ members \subseteq Groups
    /\ ipAdres \in [Groups -> SUBSET Values]
    /\ istisna \subseteq Groups
    /\ seen \in [Sessions -> SUBSET (Groups \X Facts)]
    /\ \A s \in Sessions :
         /\ pc[s] \in {"attributes", "exception"} => group[s] \in Groups
         /\ pc[s] = "exception" => value[s] \in Values

\* Whoever is let in was allowed, at some one moment of the attempt, by one
\* group: by its list or by its exception, never by mixing the two of an old
\* list and a newer exception, of two groups or of two clients.
AdmittedWasAllowed ==
    \A s \in Sessions : pc[s] = "success" =>
        \E fact \in {"listed", "excepted"} : <<group[s], fact>> \in seen[s]

\* Whoever is sent back while in a group was missing from the group's list at
\* some moment of the attempt, and the group had no exception at some other.
\* (Not at one and the same moment: the list is read before the exception.)
RefusedForCause ==
    \A s \in Sessions : pc[s] = "fork" /\ group[s] # NoGroup =>
        \A fact \in {"unlisted", "unexcepted"} : <<group[s], fact>> \in seen[s]

=============================================================================
