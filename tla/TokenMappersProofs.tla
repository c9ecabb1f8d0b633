------------------------- MODULE TokenMappersProofs -------------------------
(***************************************************************************)
(* Theorems about the claims of a token, for any groups under any names    *)
(* and any number of edits.                                                *)
(***************************************************************************)
EXTENDS TokenMappers, TLAPS

Steps == {"groups", "naming", "attributes", "type", "own groups", "query", "lookup",
          "claim", "done", "failed"}

Types ==
    /\ existing \subseteq Groups /\ member \subseteq existing /\ rows \subseteq Groups
    /\ name \in [Groups -> Names]
    /\ actionType \in AttributeValues
    /\ edits \in 0 .. MaxEdits
    /\ pc \in Steps
    /\ DOMAIN groupsClaim \subseteq Names
    /\ DOMAIN actionClaim \subseteq Names
    /\ attributeClaim \in ActionTypes \union {"none"}
    /\ types \subseteq ActionTypes
    /\ ids \subseteq Groups /\ gathered \subseteq Groups
    /\ nullGathered \in BOOLEAN
    /\ memberSeen \subseteq Groups /\ rowSeen \subseteq Groups

\* What the history says of the realm at present.
HistoryRight ==
    /\ memberStood \subseteq member /\ member \subseteq memberSeen
    /\ rowStood \subseteq rows /\ rows \subseteq rowSeen
    /\ rowStood \subseteq existing
    /\ Groups \ existing \subseteq deleted
    /\ nameSeen \in [Groups -> SUBSET Names]
    /\ \A g \in Groups : name[g] \in nameSeen[g]

\* How far the last mapper has come, and what it has by then.  A group that stands
\* is gathered or is still to be looked up; a null is of a deleted group.
Progress ==
    /\ pc \in {"groups", "naming", "attributes", "type", "own groups", "query"} => ~nullGathered
    /\ pc = "query" =>
         /\ RowsCount
         /\ gathered \subseteq memberSeen /\ memberStood \subseteq gathered
    /\ pc = "lookup" =>
         /\ RowsCount
         /\ gathered \subseteq Allowed /\ Standing \subseteq gathered \union ids
         /\ ids \subseteq rowSeen
    /\ pc = "claim" => gathered \subseteq Allowed
    /\ nullGathered => RowsCount /\ deleted \intersect rowSeen # {}

\* Every group of the claim f is one of A and bore the name it is under; every
\* group of S that kept its name has its name in f.
Sound(f, A, seen) == \A n \in DOMAIN f : f[n] \in A /\ n \in seen[f[n]]
Complete(f, S, seen) == \A g \in S, n \in Names : seen[g] = {n} => n \in DOMAIN f

GroupsClaimed ==
    /\ pc = "groups" => groupsClaim = NoClaim
    /\ pc = "naming" => gathered \subseteq memberSeen
    /\ Sound(groupsClaim, memberSeen, nameSeen)
    /\ pc = "naming" => Complete(groupsClaim, memberStood \ gathered, nameSeen)
    /\ pc \notin {"groups", "naming"} => Complete(groupsClaim, memberStood, nameSeen)

ActionGroupsClaimed ==
    /\ pc \notin {"claim", "done", "failed"} => actionClaim = NoClaim
    /\ pc \in {"claim", "done"} => Sound(actionClaim, Allowed, nameSeen)
    /\ pc = "claim" => Complete(actionClaim, Standing \ gathered, nameSeen)
    /\ pc = "done" => Complete(actionClaim, Standing, nameSeen)

Inv ==
    /\ Types
    /\ HistoryRight
    /\ Progress
    /\ GroupsClaimed
    /\ ActionGroupsClaimed
    /\ FailedForDeleted

\* A claim of nothing, and a claim with one more group.
LEMMA EmptyClaim ==
    /\ DOMAIN NoClaim = {}
    /\ \A A, seen : Sound(NoClaim, A, seen)
    /\ \A seen : Complete(NoClaim, {}, seen)
  BY DEF NoClaim, Sound, Complete

LEMMA PutKeeps ==
    ASSUME NEW f, NEW A, NEW S, NEW seen, NEW g \in A, NEW n \in Names, n \in seen[g],
           Sound(f, A, seen), Complete(f, S \ {g}, seen)
    PROVE  /\ DOMAIN Put(f, n, g) = DOMAIN f \union {n}
           /\ Sound(Put(f, n, g), A, seen)
           /\ Complete(Put(f, n, g), S, seen)
<1>1. DOMAIN Put(f, n, g) = DOMAIN f \union {n}
  BY DEF Put
<1>2. \A m \in DOMAIN f \union {n} : Put(f, n, g)[m] = IF m = n THEN g ELSE f[m]
  BY DEF Put
<1>3. Sound(Put(f, n, g), A, seen)
  BY <1>1, <1>2 DEF Sound
<1>4. ASSUME NEW h \in S, NEW m \in Names, seen[h] = {m} PROVE m \in DOMAIN Put(f, n, g)
  <2>1. CASE h = g
    BY <1>1, <1>4, <2>1
  <2>2. CASE h # g
    BY <1>1, <1>4, <2>2 DEF Complete
  <2> QED BY <2>1, <2>2
<1> QED BY <1>1, <1>3, <1>4 DEF Complete

\* Edits let more be claimed and ask for less.
LEMMA SoundWidens ==
    ASSUME NEW f, NEW A, NEW B, NEW seen, NEW later, A \subseteq Groups, A \subseteq B,
           \A g \in Groups : seen[g] \subseteq later[g], Sound(f, A, seen)
    PROVE  Sound(f, B, later)
  BY DEF Sound

LEMMA CompleteNarrows ==
    ASSUME NEW f, NEW S, NEW T, NEW seen, NEW later, T \subseteq S, T \subseteq Groups,
           \A g \in Groups : seen[g] # {} /\ seen[g] \subseteq later[g],
           Complete(f, S, seen)
    PROVE  Complete(f, T, later)
<1> SUFFICES ASSUME NEW g \in T, NEW n \in Names, later[g] = {n} PROVE n \in DOMAIN f
  BY DEF Complete
<1>1. seen[g] = {n}
  OBVIOUS
<1> QED BY <1>1 DEF Complete

LEMMA InitInv == Init => Inv
<1> SUFFICES ASSUME Init PROVE Inv
  OBVIOUS
<1>1. edits \in 0 .. MaxEdits
  BY MaxEditsAssumption DEF Init
<1>2. Types
  BY <1>1, EmptyClaim DEF Init, Types, Steps, ActionTypes
<1>3. HistoryRight
  BY DEF Init, HistoryRight
<1>4. Progress /\ FailedForDeleted
  BY DEF Init, Progress, FailedForDeleted
<1>5. GroupsClaimed /\ ActionGroupsClaimed
  BY EmptyClaim DEF Init, GroupsClaimed, ActionGroupsClaimed
<1> QED BY <1>2, <1>3, <1>4, <1>5 DEF Inv

\* What the proofs use of an edit: it leaves the request alone, and what was seen
\* only grows, what stood only shrinks.
LEMMA EditInv ==
    ASSUME Inv, Others PROVE Inv'
<1> USE MaxEditsAssumption DEF Edit, claims, local, history
<1> USE DEF Others
<1>1. /\ UNCHANGED <<pc, groupsClaim, attributeClaim, actionClaim, types, ids, gathered,
                     nullGathered>>
      /\ edits < MaxEdits /\ edits' = edits + 1
  BY DEF Join, Leave, Grant, Revoke, Delete, Rename, SetActionType
<1>2. /\ memberSeen \subseteq memberSeen' /\ memberStood' \subseteq memberStood
      /\ rowSeen \subseteq rowSeen' /\ rowStood' \subseteq rowStood
      /\ deleted \subseteq deleted'
  BY DEF Join, Leave, Grant, Revoke, Delete, Rename, SetActionType
<1>3. /\ existing' \subseteq Groups /\ member' \subseteq existing' /\ rows' \subseteq Groups
      /\ memberSeen' \subseteq Groups /\ rowSeen' \subseteq Groups
  BY DEF Join, Leave, Grant, Revoke, Delete, Rename, SetActionType, Inv, Types
<1>4. /\ name' \in [Groups -> Names] /\ nameSeen' \in [Groups -> SUBSET Names]
      /\ \A g \in Groups : nameSeen[g] \subseteq nameSeen'[g] /\ name'[g] \in nameSeen'[g]
  BY DEF Join, Leave, Grant, Revoke, Delete, Rename, SetActionType, Inv, Types, HistoryRight
<1>5. HistoryRight'
  <2>1. /\ memberStood' \subseteq member' /\ member' \subseteq memberSeen'
        /\ rowStood' \subseteq rows' /\ rows' \subseteq rowSeen'
        /\ rowStood' \subseteq existing' /\ Groups \ existing' \subseteq deleted'
    BY DEF Join, Leave, Grant, Revoke, Delete, Rename, SetActionType, Inv, Types, HistoryRight
  <2> QED BY <1>4, <2>1 DEF HistoryRight
<1>6. (OwnCount' <=> OwnCount) /\ (RowsCount' <=> RowsCount)
  BY <1>1 DEF OwnCount, RowsCount
<1>7. /\ Allowed \subseteq Allowed' /\ Standing' \subseteq Standing
      /\ Allowed \subseteq Groups /\ Standing' \subseteq Groups
      /\ memberStood' \subseteq Groups
  <2>1. memberStood' \subseteq Groups /\ rowStood' \subseteq Groups
    BY <1>2 DEF Inv, Types, HistoryRight
  <2> QED BY <1>2, <1>6, <2>1 DEF Allowed, Standing, Inv, Types
<1>8. Types'
  <2>1. edits' \in 0 .. MaxEdits
    BY <1>1 DEF Inv, Types
  <2>2. actionType' \in AttributeValues
    BY DEF Join, Leave, Grant, Revoke, Delete, Rename, SetActionType, Inv, Types
  <2> QED BY <1>1, <1>3, <1>4, <2>1, <2>2 DEF Inv, Types
<1>9. Progress' /\ FailedForDeleted'
  BY <1>1, <1>2, <1>6, <1>7 DEF Inv, Progress, FailedForDeleted
<1>10. \A g \in Groups : nameSeen[g] # {} /\ nameSeen[g] \subseteq nameSeen'[g]
  BY <1>4 DEF Inv, HistoryRight
<1>11. GroupsClaimed'
  <2>1. Sound(groupsClaim, memberSeen', nameSeen')
    BY <1>2, <1>10, SoundWidens DEF Inv, Types, GroupsClaimed
  <2>2. \A S : Complete(groupsClaim, memberStood \ S, nameSeen)
                 => Complete(groupsClaim, memberStood' \ S, nameSeen')
    <3> TAKE S
    <3>1. memberStood' \ S \subseteq memberStood \ S /\ memberStood' \ S \subseteq Groups
      BY <1>2, <1>7
    <3> QED BY <1>10, <3>1, CompleteNarrows
  <2>3. Complete(groupsClaim, memberStood, nameSeen)
          => Complete(groupsClaim, memberStood', nameSeen')
    BY <1>2, <1>7, <1>10, CompleteNarrows
  <2>4. pc = "naming" => Complete(groupsClaim, memberStood' \ gathered, nameSeen')
    BY <2>2 DEF Inv, GroupsClaimed
  <2>5. pc \notin {"groups", "naming"} => Complete(groupsClaim, memberStood', nameSeen')
    BY <2>3 DEF Inv, GroupsClaimed
  <2> QED BY <1>1, <1>2, <2>1, <2>4, <2>5 DEF Inv, GroupsClaimed
<1>12. ActionGroupsClaimed'
  <2>1. Sound(actionClaim, Allowed, nameSeen) => Sound(actionClaim, Allowed', nameSeen')
    BY <1>7, <1>10, SoundWidens
  <2>2. \A S : Complete(actionClaim, Standing \ S, nameSeen)
                 => Complete(actionClaim, Standing' \ S, nameSeen')
    <3> TAKE S
    <3>1. Standing' \ S \subseteq Standing \ S /\ Standing' \ S \subseteq Groups
      BY <1>7
    <3> QED BY <1>10, <3>1, CompleteNarrows
  <2>3. Complete(actionClaim, Standing, nameSeen) => Complete(actionClaim, Standing', nameSeen')
    BY <1>7, <1>10, CompleteNarrows
  <2> QED BY <1>1, <2>1, <2>2, <2>3 DEF Inv, ActionGroupsClaimed
<1> QED BY <1>5, <1>8, <1>9, <1>11, <1>12 DEF Inv

\* The values that the attribute has are types, the first one among them.
LEMMA ValuesAreTypes ==
    ASSUME NEW v \in AttributeValues
    PROVE  Values(v) \subseteq ActionTypes /\ (v # <<>> => Head(v) \in ActionTypes)
  BY DEF AttributeValues, Values

LEMMA RequestInv == ASSUME Inv, Request PROVE Inv'
<1> USE DEF realm, claims, local, history
<1>1. CASE MapGroups
  BY <1>1, EmptyClaim DEF MapGroups, Inv, Types, Steps, HistoryRight, Progress, GroupsClaimed,
              ActionGroupsClaimed, FailedForDeleted, Complete
<1>2. ASSUME NEW g \in Groups, PutGroup(g) PROVE Inv'
  <2>1. /\ pc = "naming" /\ g \in gathered /\ gathered' = gathered \ {g}
        /\ groupsClaim' = Put(groupsClaim, name[g], g)
        /\ UNCHANGED <<realm, pc, attributeClaim, actionClaim, types, ids, nullGathered,
                       history>>
    BY <1>2 DEF PutGroup
  <2>2. name[g] \in Names /\ name[g] \in nameSeen[g] /\ g \in memberSeen
    BY <2>1 DEF Inv, Types, HistoryRight, GroupsClaimed
  <2>3. (memberStood \ gathered') \ {g} = memberStood \ gathered
    BY <2>1
  <2>4. /\ DOMAIN groupsClaim' \subseteq Names
        /\ Sound(groupsClaim', memberSeen, nameSeen)
        /\ Complete(groupsClaim', memberStood \ gathered', nameSeen)
    <3>1. Sound(groupsClaim, memberSeen, nameSeen) /\ Complete(groupsClaim, memberStood \ gathered, nameSeen)
      BY <2>1 DEF Inv, GroupsClaimed
    <3>2. Complete(groupsClaim, (memberStood \ gathered') \ {g}, nameSeen)
      BY <2>3, <3>1
    <3>3. /\ DOMAIN Put(groupsClaim, name[g], g) = DOMAIN groupsClaim \union {name[g]}
          /\ Sound(Put(groupsClaim, name[g], g), memberSeen, nameSeen)
          /\ Complete(Put(groupsClaim, name[g], g), memberStood \ gathered', nameSeen)
      BY <2>2, <3>1, <3>2, PutKeeps
    <3> QED BY <2>1, <2>2, <3>3 DEF Inv, Types
  <2>5. Types' /\ HistoryRight'
    BY <2>1, <2>4 DEF Inv, Types, HistoryRight
  <2>6. GroupsClaimed'
    BY <2>1, <2>4 DEF Inv, GroupsClaimed
  <2>7. Progress' /\ ActionGroupsClaimed' /\ FailedForDeleted'
    BY <2>1 DEF Inv, Progress, ActionGroupsClaimed, FailedForDeleted, RowsCount
  <2> QED BY <2>5, <2>6, <2>7 DEF Inv
<1>3. CASE GroupsMapped
  <2>1. memberStood \ {} = memberStood
    OBVIOUS
  <2> QED
    BY <1>3, <2>1 DEF GroupsMapped, Inv, Types, Steps, HistoryRight, Progress, GroupsClaimed,
                      ActionGroupsClaimed, FailedForDeleted, RowsCount
<1>4. CASE MapAttributes
  <2>1. attributeClaim' \in ActionTypes \union {"none"}
    BY <1>4, ValuesAreTypes DEF MapAttributes, Inv, Types
  <2> QED
    BY <1>4, <2>1 DEF MapAttributes, Inv, Types, Steps, HistoryRight, Progress, GroupsClaimed,
                      ActionGroupsClaimed, FailedForDeleted, RowsCount
<1>5. CASE ReadType
  <2>1. types' \subseteq ActionTypes
    BY <1>5, ValuesAreTypes DEF ReadType, Inv, Types
  <2> QED
    BY <1>5, <2>1 DEF ReadType, Inv, Types, Steps, HistoryRight, Progress, GroupsClaimed,
                      ActionGroupsClaimed, FailedForDeleted
<1>6. CASE ReadGroups
  <2>1. Allowed' = Allowed /\ Standing' = Standing /\ (RowsCount' <=> RowsCount)
    BY <1>6 DEF ReadGroups, Allowed, Standing, OwnCount, RowsCount
  <2>2. "AIDIYET_GRUP" \in types => Allowed = memberSeen /\ Standing = memberStood
    BY DEF Allowed, Standing, OwnCount, RowsCount
  <2>3. Types' /\ HistoryRight'
    BY <1>6 DEF ReadGroups, Inv, Types, Steps, HistoryRight
  <2>4. Progress'
    BY <1>6, <2>1, <2>2 DEF ReadGroups, Inv, HistoryRight, Progress, RowsCount
  <2>5. GroupsClaimed' /\ FailedForDeleted'
    BY <1>6 DEF ReadGroups, Inv, GroupsClaimed, FailedForDeleted
  <2>6. ActionGroupsClaimed'
    <3>1. pc' = "claim" => Standing \ gathered' = {}
      BY <1>6, <2>2 DEF ReadGroups, Inv, HistoryRight
    <3>2. actionClaim' = NoClaim /\ pc' \in {"query", "claim"}
      BY <1>6 DEF ReadGroups, Inv, ActionGroupsClaimed
    <3> QED BY <2>1, <3>1, <3>2, EmptyClaim DEF ActionGroupsClaimed
  <2> QED BY <2>3, <2>4, <2>5, <2>6 DEF Inv
<1>7. CASE QueryRows
  <2>1. Allowed' = Allowed /\ Standing' = Standing /\ (RowsCount' <=> RowsCount)
    BY <1>7 DEF QueryRows, Allowed, Standing, OwnCount, RowsCount
  <2>2. RowsCount /\ (OwnCount <=> "ISLEM_GRUP_AIDIYET_GRUP" \in types)
    BY <1>7 DEF QueryRows, Inv, Progress, RowsCount, OwnCount
  <2>3. Types' /\ HistoryRight'
    BY <1>7 DEF QueryRows, Inv, Types, Steps, HistoryRight
  <2>4. gathered' \subseteq Allowed /\ Standing \subseteq gathered' \union ids'
    BY <1>7, <2>2 DEF QueryRows, Inv, HistoryRight, Progress, Allowed, Standing
  <2>5. Progress'
    BY <1>7, <2>1, <2>2, <2>4 DEF QueryRows, Inv, HistoryRight, Progress
  <2> QED
    BY <1>7, <2>3, <2>5 DEF QueryRows, Inv, GroupsClaimed, ActionGroupsClaimed, FailedForDeleted
\* A lookup that finds nothing found a deleted group, one that stands is found.
<1>8. ASSUME NEW g \in Groups, Lookup(g) PROVE Inv'
  <2>1. Allowed' = Allowed /\ Standing' = Standing /\ (RowsCount' <=> RowsCount)
    BY <1>8 DEF Lookup, Allowed, Standing, OwnCount, RowsCount
  <2>2. RowsCount /\ g \in rowSeen /\ rowSeen \subseteq Allowed
    BY <1>8 DEF Lookup, Inv, Progress, Allowed
  <2>3. Types' /\ HistoryRight'
    BY <1>8 DEF Lookup, Inv, Types, HistoryRight
  <2>4. GroupsClaimed' /\ ActionGroupsClaimed' /\ FailedForDeleted'
    BY <1>8 DEF Lookup, Inv, GroupsClaimed, ActionGroupsClaimed, FailedForDeleted
  <2>5. CASE g \in existing
    <3>1. Progress'
      BY <1>8, <2>1, <2>2, <2>5 DEF Lookup, Inv, Progress
    <3> QED BY <2>3, <2>4, <3>1 DEF Inv
  <2>6. CASE g \notin existing
    <3>1. g \in deleted \intersect rowSeen
      BY <2>2, <2>6 DEF Inv, HistoryRight
    <3>2. Standing \subseteq gathered' \union ids'
      <4>1. gathered' = gathered /\ ids' = ids \ {g} /\ Standing \subseteq gathered \union ids
        BY <1>8, <2>6 DEF Lookup, Inv, Progress
      <4>2. g \in Standing => g \in memberStood \/ g \in rowStood
        BY DEF Standing
      <4>3. g \notin Standing
        BY <4>2, <2>6 DEF Inv, Types, HistoryRight
      <4> QED BY <4>1, <4>3
    <3>3. Progress'
      BY <1>8, <2>1, <2>2, <2>6, <3>1, <3>2 DEF Lookup, Inv, Progress
    <3> QED BY <2>3, <2>4, <3>3 DEF Inv
  <2> QED BY <2>5, <2>6
<1>9. CASE LookedUp
  <2>1. Allowed' = Allowed /\ Standing' = Standing /\ (RowsCount' <=> RowsCount)
    BY <1>9 DEF LookedUp, Allowed, Standing, OwnCount, RowsCount
  <2>2. Types' /\ HistoryRight'
    BY <1>9 DEF LookedUp, Inv, Types, Steps, HistoryRight
  <2>3. Progress' /\ GroupsClaimed' /\ FailedForDeleted'
    BY <1>9, <2>1 DEF LookedUp, Inv, Progress, GroupsClaimed, FailedForDeleted
  <2>4. Standing \ gathered = {} /\ actionClaim = NoClaim
    BY <1>9 DEF LookedUp, Inv, Progress, ActionGroupsClaimed
  <2>5. ActionGroupsClaimed'
    BY <1>9, <2>1, <2>4, EmptyClaim DEF LookedUp, ActionGroupsClaimed
  <2> QED BY <2>2, <2>3, <2>5 DEF Inv
<1>10. ASSUME NEW g \in Groups, PutActionGroup(g) PROVE Inv'
  <2>1. /\ pc = "claim" /\ g \in gathered /\ gathered' = gathered \ {g}
        /\ actionClaim' = Put(actionClaim, name[g], g)
        /\ UNCHANGED <<realm, pc, groupsClaim, attributeClaim, types, ids, nullGathered,
                       history>>
    BY <1>10 DEF PutActionGroup
  <2>2. name[g] \in Names /\ name[g] \in nameSeen[g] /\ g \in Allowed
    BY <2>1 DEF Inv, Types, HistoryRight, Progress
  <2>3. (Standing \ gathered') \ {g} = Standing \ gathered
    BY <2>1
  <2>4. /\ DOMAIN actionClaim' \subseteq Names
        /\ Sound(actionClaim', Allowed, nameSeen)
        /\ Complete(actionClaim', Standing \ gathered', nameSeen)
    <3>1. Sound(actionClaim, Allowed, nameSeen) /\ Complete(actionClaim, Standing \ gathered, nameSeen)
      BY <2>1 DEF Inv, ActionGroupsClaimed
    <3>2. Complete(actionClaim, (Standing \ gathered') \ {g}, nameSeen)
      BY <2>3, <3>1
    <3>3. /\ DOMAIN Put(actionClaim, name[g], g) = DOMAIN actionClaim \union {name[g]}
          /\ Sound(Put(actionClaim, name[g], g), Allowed, nameSeen)
          /\ Complete(Put(actionClaim, name[g], g), Standing \ gathered', nameSeen)
      BY <2>2, <3>1, <3>2, PutKeeps
    <3> QED BY <2>1, <2>2, <3>3 DEF Inv, Types
  <2>5. Allowed' = Allowed /\ Standing' = Standing /\ (RowsCount' <=> RowsCount)
    BY <2>1 DEF Allowed, Standing, OwnCount, RowsCount
  <2>6. Types' /\ HistoryRight'
    BY <2>1, <2>4 DEF Inv, Types, HistoryRight
  <2>7. ActionGroupsClaimed'
    BY <2>1, <2>4, <2>5 DEF Inv, ActionGroupsClaimed
  <2>8. Progress' /\ GroupsClaimed' /\ FailedForDeleted'
    BY <2>1, <2>5 DEF Inv, Progress, GroupsClaimed, FailedForDeleted
  <2> QED BY <2>6, <2>7, <2>8 DEF Inv
<1>11. CASE PutNull
  BY <1>11 DEF PutNull, Inv, Types, Steps, HistoryRight, Progress, GroupsClaimed,
               ActionGroupsClaimed, FailedForDeleted, RowsCount
<1>12. CASE ActionGroupsMapped
  <2>1. Standing \ {} = Standing
    OBVIOUS
  <2>2. Allowed' = Allowed /\ Standing' = Standing
    BY <1>12 DEF ActionGroupsMapped, Allowed, Standing, OwnCount, RowsCount
  <2> QED
    BY <1>12, <2>1, <2>2
    DEF ActionGroupsMapped, Inv, Types, Steps, HistoryRight, Progress, GroupsClaimed,
        ActionGroupsClaimed, FailedForDeleted, RowsCount
<1> QED
  BY <1>1, <1>2, <1>3, <1>4, <1>5, <1>6, <1>7, <1>8, <1>9, <1>10, <1>11, <1>12 DEF Request

LEMMA Invariance == Spec => []Inv
<1>1. Inv /\ [Next]_vars => Inv'
  <2> SUFFICES ASSUME Inv, [Next]_vars PROVE Inv'
    OBVIOUS
  <2>1. CASE UNCHANGED vars
    BY <2>1 DEF vars, Inv, Types, HistoryRight, Progress, GroupsClaimed, ActionGroupsClaimed,
                FailedForDeleted, Allowed, Standing, OwnCount, RowsCount
  <2> QED BY <2>1, EditInv, RequestInv DEF Next
<1> QED BY <1>1, InitInv, PTL DEF Spec

\* All variables keep to their types; claims are under names of groups.
THEOREM TypeCorrect == Spec => []TypeOK
<1>1. Inv => TypeOK
  BY DEF Inv, Types, TypeOK, Steps
<1> QED BY <1>1, Invariance, PTL

\* Whoever edits and renames what in between, every group of the claim was a group
\* of the user or of a row, under its name, while the token was made.
THEOREM ClaimsAreTrue == Spec => []ClaimWasTrue
<1>1. Inv => ClaimWasTrue
  BY DEF Inv, ActionGroupsClaimed, Sound, ClaimWasTrue
<1> QED BY <1>1, Invariance, PTL

\* A group that stood all the time under one name is claimed, or another group that
\* bore this name is.
THEOREM StandingAreClaimed == Spec => []StandingClaimed
<1>1. Inv => StandingClaimed
  <2> SUFFICES ASSUME Inv, pc = "done", NEW g \in Standing, NEW n \in Names, nameSeen[g] = {n}
               PROVE  /\ n \in DOMAIN actionClaim
                      /\ (\A h \in Allowed \ {g} : n \notin nameSeen[h]) => actionClaim[n] = g
    BY DEF StandingClaimed
  <2>1. n \in DOMAIN actionClaim
    BY DEF Inv, ActionGroupsClaimed, Complete
  <2>2. actionClaim[n] \in Allowed /\ n \in nameSeen[actionClaim[n]]
    BY <2>1 DEF Inv, ActionGroupsClaimed, Sound
  <2> QED BY <2>1, <2>2
<1> QED BY <1>1, Invariance, PTL

\* A token fails only over a row that names a deleted group.
THEOREM FailuresAreOfDeleted == Spec => []FailedForDeleted
<1>1. Inv => FailedForDeleted
  BY DEF Inv
<1> QED BY <1>1, Invariance, PTL

\* If only the user's own groups count, the two claims differ under no name but one
\* that a group bore which was joined, left or renamed, or that two groups bore.
THEOREM BothClaimsAgree == Spec => []ClaimsAgree
<1>1. Inv => ClaimsAgree
  <2> SUFFICES ASSUME Inv, pc = "done", ~RowsCount,
                      NEW n \in (DOMAIN groupsClaim) \union DOMAIN actionClaim,
                      \A g \in Bearers(n) : ~Changed(g)
               PROVE  ToldAlike(n)
    BY DEF ClaimsAgree
  <2>1. Allowed = memberSeen /\ Standing = memberStood
    BY DEF Allowed, Standing, OwnCount, RowsCount
  <2>2. /\ Sound(groupsClaim, memberSeen, nameSeen)
        /\ Sound(actionClaim, memberSeen, nameSeen)
        /\ Complete(groupsClaim, memberStood, nameSeen)
        /\ Complete(actionClaim, memberStood, nameSeen)
    BY <2>1 DEF Inv, GroupsClaimed, ActionGroupsClaimed
  <2>3. /\ n \in DOMAIN groupsClaim => groupsClaim[n] \in Bearers(n)
        /\ n \in DOMAIN actionClaim => actionClaim[n] \in Bearers(n)
    BY <2>2 DEF Sound, Bearers
  <2>4. PICK g \in Bearers(n) : TRUE
    BY <2>3
  <2>5. g \in memberStood /\ nameSeen[g] = {n} /\ n \in Names
    BY <2>4 DEF Changed, Bearers, Inv, Types
  <2>6. n \in DOMAIN groupsClaim /\ n \in DOMAIN actionClaim
    BY <2>2, <2>5 DEF Complete
  <2> QED BY <2>3, <2>6 DEF ToldAlike
<1> QED BY <1>1, Invariance, PTL
=============================================================================
