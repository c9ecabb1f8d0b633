---------------------------- MODULE TokenMappers ----------------------------
(***************************************************************************)
(* The claims that the mappers put into one token of a user: all groups    *)
(* (GroupsWithAttributesMapper), the first value of the attribute          *)
(* KULLANICIGRUPISLEMTIPI among all attributes (UserAttributesMapper), and *)
(* the groups the user may act in (ActionableGroupsMapper).  Each mapper   *)
(* reads on its own, and the last one reads four times: the attribute, the *)
(* groups, the rows of another application's tables, and the groups these  *)
(* name; the name of each group is read when it is put into a claim.       *)
(* Administrators and the other application edit all of it in between, and *)
(* rename the groups.                                                      *)
(*                                                                         *)
(* The realm, its caches and the tables islem_grup... are external: an     *)
(* edit is seen by the next read, and a group that was read can be used    *)
(* after its deletion.  Attributes of groups are left out.                 *)
(***************************************************************************)
EXTENDS Naturals, Sequences

CONSTANTS
    Groups,   \* identifiers of groups
    Names,    \* names of groups; groups under different parents may share one
    MaxEdits  \* bound of the edits by others

ASSUME MaxEditsAssumption == MaxEdits \in Nat

\* Two values that the code compares with, and one for every other value.
ActionTypes == {"AIDIYET_GRUP", "ISLEM_GRUP_AIDIYET_GRUP", "ISLEM_GRUP"}

\* The values of the attribute, none if the user does not have it.
AttributeValues ==
    {<<>>} \union {<<t>> : t \in ActionTypes}
           \union {<<p[1], p[2]>> : p \in {q \in ActionTypes \X ActionTypes : q[1] # q[2]}}

Values(s) == {s[i] : i \in DOMAIN s}

VARIABLES
    existing,      \* the groups of the realm
    name,          \* the name of each group
    member,        \* the groups of the user
    rows,          \* the groups the tables name for the user
    actionType,    \* the values of the user's attribute
    edits,         \* how many edits were made
    pc,            \* the next step of the token request
    groupsClaim,   \* the claims, functions from names to groups
    attributeClaim,
    actionClaim,
    types,         \* the values of the attribute as the mapper read them
    ids,           \* the identifiers left to look up
    gathered,      \* the groups that are gathered for a claim and not put there yet
    nullGathered,  \* among them the null of an identifier without a group
    memberSeen, memberStood, \* the user's groups at some, at every moment of the request
    rowSeen, rowStood, \* the groups that rows name, likewise; deleted ones stand no more
    deleted,       \* groups deleted before or during the request
    nameSeen       \* the names that each group bore during the request

realm == <<existing, name, member, rows, actionType, edits>>
claims == <<groupsClaim, attributeClaim, actionClaim>>
local == <<types, ids, gathered, nullGathered>>
history == <<memberSeen, memberStood, rowSeen, rowStood, deleted,
             nameSeen>>
vars == <<existing, name, member, rows, actionType, edits, pc, groupsClaim, attributeClaim,
          actionClaim, types, ids, gathered, nullGathered, memberSeen, memberStood,
          rowSeen, rowStood, deleted, nameSeen>>

NoClaim == <<>>

\* getGroupsWithAttributes puts one group after the other under the name it bears
\* at that moment, in the place of a group put there before; a set has no order.
Put(f, n, g) == [m \in DOMAIN f \union {n} |-> IF m = n THEN g ELSE f[m]]
-----------------------------------------------------------------------------
Init ==
    /\ existing \in SUBSET Groups
    /\ name \in [Groups -> Names]
    /\ member \in SUBSET existing
    /\ rows \in SUBSET Groups
    /\ actionType \in AttributeValues
    /\ edits = 0
    /\ pc = "groups"
    /\ groupsClaim = NoClaim /\ attributeClaim = "none" /\ actionClaim = NoClaim
    /\ types = {} /\ ids = {} /\ gathered = {} /\ nullGathered = FALSE
    /\ memberSeen = member /\ memberStood = member
    /\ rowSeen = rows /\ rowStood = rows \intersect existing
    /\ deleted = Groups \ existing
    /\ nameSeen = [g \in Groups |-> {name[g]}]

\* Edits by others.
Edit ==
    /\ edits < MaxEdits
    /\ edits' = edits + 1
    /\ UNCHANGED <<pc, claims, local>>

Join(g) ==
    /\ Edit
    /\ g \in existing
    /\ member' = member \union {g}
    /\ memberSeen' = memberSeen \union {g}
    /\ UNCHANGED <<existing, name, rows, actionType, memberStood, rowSeen, rowStood,
                   deleted, nameSeen>>

Leave(g) ==
    /\ Edit
    /\ member' = member \ {g}
    /\ memberStood' = memberStood \ {g}
    /\ UNCHANGED <<existing, name, rows, actionType, memberSeen, rowSeen, rowStood,
                   deleted, nameSeen>>

Grant(g) ==
    /\ Edit
    /\ g \in existing
    /\ rows' = rows \union {g}
    /\ rowSeen' = rowSeen \union {g}
    /\ UNCHANGED <<existing, name, member, actionType, memberSeen, memberStood, rowStood,
                   deleted, nameSeen>>

Revoke(g) ==
    /\ Edit
    /\ rows' = rows \ {g}
    /\ rowStood' = rowStood \ {g}
    /\ UNCHANGED <<existing, name, member, actionType, memberSeen, memberStood, rowSeen,
                   deleted, nameSeen>>

\* The realm forgets the group and who was in it; the tables know nothing of it.
Delete(g) ==
    /\ Edit
    /\ g \in existing
    /\ existing' = existing \ {g}
    /\ member' = member \ {g}
    /\ memberStood' = memberStood \ {g}
    /\ rowStood' = rowStood \ {g}
    /\ deleted' = deleted \union {g}
    /\ UNCHANGED <<name, rows, actionType, memberSeen, rowSeen, nameSeen>>

Rename(g, n) ==
    /\ Edit
    /\ g \in existing
    /\ name' = [name EXCEPT ![g] = n]
    /\ nameSeen' = [nameSeen EXCEPT ![g] = @ \union {n}]
    /\ UNCHANGED <<existing, member, rows, actionType, memberSeen, memberStood, rowSeen,
                   rowStood, deleted>>

SetActionType(v) ==
    /\ Edit
    /\ actionType' = v
    /\ UNCHANGED <<existing, name, member, rows, history>>
-----------------------------------------------------------------------------
\* GroupsWithAttributesMapper.setClaim: the groups of the user, then group by group.
MapGroups ==
    /\ pc = "groups"
    /\ pc' = "naming"
    /\ gathered' = member
    /\ UNCHANGED <<realm, claims, types, ids, nullGathered, history>>

PutGroup(g) ==
    /\ pc = "naming"
    /\ g \in gathered
    /\ gathered' = gathered \ {g}
    /\ groupsClaim' = Put(groupsClaim, name[g], g)
    /\ UNCHANGED <<realm, pc, attributeClaim, actionClaim, types, ids, nullGathered, history>>

GroupsMapped ==
    /\ pc = "naming"
    /\ gathered = {}
    /\ pc' = "attributes"
    /\ UNCHANGED <<realm, claims, local, history>>

\* Mutant: an attribute that is absent is claimed as null.
MapAbsentAttribute ==
    /\ pc = "attributes"
    /\ pc' = "type"
    /\ attributeClaim' = IF actionType = <<>> THEN "null" ELSE Head(actionType)
    /\ UNCHANGED <<realm, groupsClaim, actionClaim, local, history>>

\* UserAttributesMapper.setClaim: of several values the first.
MapAttributes ==
    /\ pc = "attributes"
    /\ pc' = "type"
    /\ attributeClaim' = IF actionType = <<>> THEN "none" ELSE Head(actionType)
    /\ UNCHANGED <<realm, groupsClaim, actionClaim, local, history>>

\* ActionableGroupsMapper.setClaim, read by read.
ReadType ==
    /\ pc = "type"
    /\ pc' = "own groups"
    /\ types' = Values(actionType)
    /\ UNCHANGED <<realm, claims, ids, gathered, nullGathered, history>>

\* Mutant: no type leaves the rows out.
ReadGroupsAndQuery ==
    /\ pc = "own groups"
    /\ pc' = "query"
    /\ gathered' = member
    /\ UNCHANGED <<realm, claims, types, ids, nullGathered, history>>

\* Mutant: the second type is looked for before the first.
ReadGroupsSwapped ==
    /\ pc = "own groups"
    /\ pc' = IF "ISLEM_GRUP_AIDIYET_GRUP" \in types THEN "query"
             ELSE IF "AIDIYET_GRUP" \in types THEN "claim" ELSE "query"
    /\ gathered' = member
    /\ UNCHANGED <<realm, claims, types, ids, nullGathered, history>>

\* The groups of the user are read in any case.
ReadGroups ==
    /\ pc = "own groups"
    /\ pc' = IF "AIDIYET_GRUP" \in types THEN "claim" ELSE "query"
    /\ gathered' = member
    /\ UNCHANGED <<realm, claims, types, ids, nullGathered, history>>

\* Mutant: the groups of the user are kept for every type.
QueryRowsKeepingOwn ==
    /\ pc = "query"
    /\ pc' = "lookup"
    /\ ids' = rows
    /\ UNCHANGED <<realm, claims, types, gathered, nullGathered, history>>

\* Mutant: they are kept for none.
QueryRowsOnly ==
    /\ pc = "query"
    /\ pc' = "lookup"
    /\ ids' = rows
    /\ gathered' = {}
    /\ UNCHANGED <<realm, claims, types, nullGathered, history>>

\* getActionGroupsOfUser: the query, then one lookup after the other.  Only the
\* second type keeps the groups of the user.
QueryRows ==
    /\ pc = "query"
    /\ pc' = "lookup"
    /\ ids' = rows
    /\ gathered' = IF "ISLEM_GRUP_AIDIYET_GRUP" \in types THEN gathered ELSE {}
    /\ UNCHANGED <<realm, claims, types, nullGathered, history>>

Lookup(g) ==
    /\ pc = "lookup"
    /\ g \in ids
    /\ ids' = ids \ {g}
    /\ IF g \in existing
       THEN gathered' = gathered \union {g} /\ UNCHANGED nullGathered
       ELSE nullGathered' = TRUE /\ UNCHANGED gathered
    /\ UNCHANGED <<realm, pc, claims, types, history>>

LookedUp ==
    /\ pc = "lookup"
    /\ ids = {}
    /\ pc' = "claim"
    /\ UNCHANGED <<realm, claims, local, history>>

\* getGroupsWithAttributes dereferences what was gathered, the null included,
\* whenever the order of the set comes to it.
PutActionGroup(g) ==
    /\ pc = "claim"
    /\ g \in gathered
    /\ gathered' = gathered \ {g}
    /\ actionClaim' = Put(actionClaim, name[g], g)
    /\ UNCHANGED <<realm, pc, groupsClaim, attributeClaim, types, ids, nullGathered, history>>

PutNull ==
    /\ pc = "claim"
    /\ nullGathered
    /\ pc' = "failed"
    /\ UNCHANGED <<realm, claims, local, history>>

ActionGroupsMapped ==
    /\ pc = "claim"
    /\ gathered = {}
    /\ ~nullGathered
    /\ pc' = "done"
    /\ UNCHANGED <<realm, claims, local, history>>

Request ==
    \/ MapGroups \/ GroupsMapped \/ MapAttributes \/ ReadType \/ ReadGroups \/ QueryRows
    \/ \E g \in Groups : PutGroup(g) \/ Lookup(g) \/ PutActionGroup(g)
    \/ LookedUp \/ PutNull \/ ActionGroupsMapped

Others ==
    \/ \E g \in Groups : Join(g) \/ Leave(g) \/ Grant(g) \/ Revoke(g) \/ Delete(g)
    \/ \E g \in Groups, n \in Names : Rename(g, n)
    \/ \E v \in AttributeValues : SetActionType(v)

Next == Request \/ Others

Spec == Init /\ [][Next]_vars
-----------------------------------------------------------------------------
TypeOK ==
    /\ existing \subseteq Groups /\ member \subseteq existing /\ rows \subseteq Groups
    /\ name \in [Groups -> Names]
    /\ actionType \in AttributeValues
    /\ edits \in 0 .. MaxEdits
    /\ pc \in {"groups", "naming", "attributes", "type", "own groups", "query", "lookup",
               "claim", "done", "failed"}
    /\ DOMAIN groupsClaim \subseteq Names
    /\ DOMAIN actionClaim \subseteq Names
    /\ attributeClaim \in ActionTypes \union {"none"}
    /\ types \subseteq ActionTypes
    /\ ids \subseteq Groups /\ gathered \subseteq Groups
    /\ nullGathered \in BOOLEAN

\* The mapper takes the groups of the user unless no value of the attribute it
\* read names them, and the rows unless the value AIDIYET_GRUP was among them.
OwnCount == types \intersect {"AIDIYET_GRUP", "ISLEM_GRUP_AIDIYET_GRUP"} # {}
RowsCount == "AIDIYET_GRUP" \notin types

\* The groups the claim may name, and those it must: what the attribute asks for,
\* as it was at some moment, and at every moment, while the token was made.
Allowed == (IF OwnCount THEN memberSeen ELSE {}) \union (IF RowsCount THEN rowSeen ELSE {})
Standing == (IF OwnCount THEN memberStood ELSE {}) \union (IF RowsCount THEN rowStood ELSE {})

\* Every group of the claim was, while the token was made, a group of the user or
\* of a row, of the kind that the attribute asks for, and bore the name under
\* which it is claimed, though the reads see many different moments.
ClaimWasTrue ==
    pc = "done" =>
        \A n \in DOMAIN actionClaim :
            actionClaim[n] \in Allowed /\ n \in nameSeen[actionClaim[n]]

\* A group that stood from the beginning to the end, and kept its name, is claimed
\* under it, unless another group that the claim may name bore it too.
StandingClaimed ==
    pc = "done" =>
        \A g \in Standing, n \in Names :
            nameSeen[g] = {n} =>
                /\ n \in DOMAIN actionClaim
                /\ (\A h \in Allowed \ {g} : n \notin nameSeen[h]) => actionClaim[n] = g

\* A token is not made only because a row names a group that was deleted, and
\* never for a user whose own groups are all that counts.
FailedForDeleted ==
    pc = "failed" => RowsCount /\ deleted \intersect rowSeen # {}

\* Two mappers of one token tell the same.  If only the user's own groups count,
\* whatever one claim says under a name the other says too, unless a group that
\* bore this name was joined, left or renamed while the token was made, or two
\* groups of the user bore it.
Changed(g) == g \notin memberStood \/ nameSeen[g] # {name[g]}
Bearers(n) == {g \in memberSeen : n \in nameSeen[g]}
ToldAlike(n) ==
    /\ n \in DOMAIN groupsClaim /\ n \in DOMAIN actionClaim
    /\ groupsClaim[n] = actionClaim[n] \/ \E g, h \in Bearers(n) : g # h
ClaimsAgree ==
    pc = "done" /\ ~RowsCount =>
        \A n \in (DOMAIN groupsClaim) \union DOMAIN actionClaim :
            ToldAlike(n) \/ \E g \in Bearers(n) : Changed(g)
=============================================================================
