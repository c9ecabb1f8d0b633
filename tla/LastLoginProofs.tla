---------------------------- MODULE LastLoginProofs ----------------------------
(***************************************************************************)
(* Safety of LastLogin, for any number of requests and users and any bound *)
(* of the clock.                                                           *)
(***************************************************************************)
EXTENDS LastLogin, TLAPS

\* Dates are in order: what was stored, then the event, then the task, then now.
InOrder(r) ==
    /\ pc[r] # "idle" => 1 <= began[r] /\ began[r] <= clock /\ before[r] <= began[r]
    /\ date[r] # 0 => began[r] <= date[r] /\ date[r] <= clock

NoneAhead == \A u \in Users : stored[u] <= clock

Inv ==
    /\ TypeOK
    /\ \A r \in Requests : InOrder(r)
    /\ NoneAhead
    /\ StoredDuringLogin

LEMMA InitInv == Init => Inv
  BY LastLoginAssumption
  DEF Init, Inv, TypeOK, InOrder, NoneAhead, StoredDuringLogin, Steps, TaskSteps, Times

\* A step that ends no transaction leaves the stored dates, and the logins they
\* are of, as they are.
LEMMA SameStore ==
    ASSUME StoredDuringLogin, UNCHANGED <<stored, user>>,
           \A r \in Requests : pc[r] \in {"committed", "closed"} =>
               /\ pc'[r] \in {"committed", "closed"}
               /\ began'[r] = began[r] /\ ended'[r] = ended[r]
    PROVE  StoredDuringLogin'
  BY DEF StoredDuringLogin

LEMMA OnEventInv == ASSUME Inv, NEW r \in Requests, OnEvent(r) PROVE Inv'
  <1> USE LastLoginAssumption DEF Inv, TypeOK, OnEvent, Goto
  <1>1. TypeOK'
    BY DEF Steps, TaskSteps, Times
  <1>2. \A s \in Requests : InOrder(s)'
    BY DEF InOrder, NoneAhead, Times
  <1>3. NoneAhead'
    BY DEF NoneAhead
  <1>4. StoredDuringLogin'
    BY SameStore
  <1> QED BY <1>1, <1>2, <1>3, <1>4

\* The date that a commit stores was written between the event and now.
LEMMA CommitInv == ASSUME Inv, NEW r \in Requests, Commit(r) PROVE Inv'
  <1> USE LastLoginAssumption DEF Inv, TypeOK, Commit, Goto
  <1>1. TypeOK'
    BY DEF Steps, TaskSteps, Times
  <1>2. \A s \in Requests : InOrder(s)'
    BY DEF InOrder
  <1>3. NoneAhead'
    BY DEF NoneAhead, InOrder, Times
  <1>4. StoredDuringLogin'
    <2> SUFFICES ASSUME NEW u \in Users, stored'[u] # 0
                 PROVE  \E s \in Requests :
                          /\ user'[s] = u /\ pc'[s] \in {"committed", "closed"}
                          /\ began'[s] <= stored'[u] /\ stored'[u] <= ended'[s]
      BY DEF StoredDuringLogin
    <2>1. CASE u = user[r] /\ date[r] # 0
      <3>1. stored'[u] = date[r] /\ ended'[r] = clock
        BY <2>1
      <3>2. began'[r] <= date[r] /\ date[r] <= clock
        BY <2>1 DEF InOrder
      <3> QED BY <2>1, <3>1, <3>2
    <2>2. CASE ~(u = user[r] /\ date[r] # 0)
      <3>1. stored'[u] = stored[u]
        BY <2>2
      <3>2. PICK s \in Requests :
              /\ user[s] = u /\ pc[s] \in {"committed", "closed"}
              /\ began[s] <= stored[u] /\ stored[u] <= ended[s]
        BY <3>1 DEF StoredDuringLogin
      <3>3. s # r
        BY <3>2
      <3> QED BY <3>1, <3>2, <3>3
    <2> QED BY <2>1, <2>2
  <1> QED BY <1>1, <1>2, <1>3, <1>4

LEMMA RollbackInv == ASSUME Inv, NEW r \in Requests, Rollback(r) PROVE Inv'
  <1> USE LastLoginAssumption DEF Inv, TypeOK, Rollback, Goto
  <1>1. TypeOK'
    BY DEF Steps, TaskSteps, Times
  <1>2. (\A s \in Requests : InOrder(s)') /\ NoneAhead'
    BY DEF InOrder, NoneAhead
  <1>3. StoredDuringLogin'
    BY SameStore
  <1> QED BY <1>1, <1>2, <1>3

LEMMA CloseInv == ASSUME Inv, NEW r \in Requests, Close(r) PROVE Inv'
  <1> USE LastLoginAssumption DEF Inv, TypeOK, Close, Goto
  <1>1. TypeOK'
    BY DEF Steps
  <1>2. (\A s \in Requests : InOrder(s)') /\ NoneAhead'
    BY DEF InOrder, NoneAhead
  <1>3. StoredDuringLogin'
    BY SameStore
  <1> QED BY <1>1, <1>2, <1>3

LEMMA SetAttributeInv == ASSUME Inv, NEW r \in Requests, SetAttribute(r) PROVE Inv'
  <1> USE LastLoginAssumption DEF Inv, TypeOK, SetAttribute
  <1>1. TypeOK'
    BY DEF Steps, TaskSteps, Times
  <1>2. (\A s \in Requests : InOrder(s)') /\ NoneAhead'
    BY DEF InOrder, NoneAhead
  <1>3. StoredDuringLogin'
    BY SameStore
  <1> QED BY <1>1, <1>2, <1>3

LEMMA TaskThrowsInv == ASSUME Inv, NEW r \in Requests, TaskThrows(r) PROVE Inv'
  <1> USE LastLoginAssumption DEF Inv, TypeOK, TaskThrows
  <1>1. TypeOK'
    BY DEF TaskSteps
  <1>2. (\A s \in Requests : InOrder(s)') /\ NoneAhead'
    BY DEF InOrder, NoneAhead
  <1>3. StoredDuringLogin'
    BY SameStore
  <1> QED BY <1>1, <1>2, <1>3

LEMMA TickInv == ASSUME Inv, Tick PROVE Inv'
  <1> USE LastLoginAssumption DEF Inv, TypeOK, Tick
  <1>1. TypeOK'
    OBVIOUS
  <1>2. (\A s \in Requests : InOrder(s)') /\ NoneAhead'
    BY DEF InOrder, NoneAhead, Times
  <1>3. StoredDuringLogin'
    BY SameStore
  <1> QED BY <1>1, <1>2, <1>3

LEMMA StepInv == Inv /\ [Next]_vars => Inv'
  <1> SUFFICES ASSUME Inv, [Next]_vars PROVE Inv'
    OBVIOUS
  <1>1. CASE UNCHANGED vars
    BY <1>1 DEF vars, Inv, TypeOK, InOrder, NoneAhead, StoredDuringLogin, Steps, TaskSteps
  <1> QED
    BY <1>1, OnEventInv, CommitInv, RollbackInv, CloseInv, SetAttributeInv,
       TaskThrowsInv, TickInv DEF Next, Finish

\* The inductive invariant: dates are in order, and none is ahead of the clock.
THEOREM Invariance == Spec => []Inv
  BY InitInv, StepInv, PTL DEF Spec

\* Every reachable state is well typed.
THEOREM TypeCorrect == Spec => []TypeOK
  <1>1. Inv => TypeOK
    BY DEF Inv
  <1> QED BY Invariance, <1>1, PTL

\* What setUserLastLoginTime leaves in the database is a moment of a login of
\* the user, however late its task runs and however logins overlap.
THEOREM DateIsOfALogin == Spec => []StoredDuringLogin
  <1>1. Inv => StoredDuringLogin
    BY DEF Inv
  <1> QED BY Invariance, <1>1, PTL

\* No login replaces a date that was there before its event by an older one.
THEOREM OnlyOverlapRegresses == Spec => NoOlderThanBefore
  <1> DEFINE A == \A r \in Requests :
                    /\ pc[r] = "open" /\ pc'[r] = "committed"
                    /\ stored'[user[r]] # stored[user[r]]
                    => stored'[user[r]] >= before[r]
  <1>1. ASSUME Inv, [Next]_vars PROVE [A]_vars
    <2> SUFFICES ASSUME NEW r \in Requests,
                        pc[r] = "open", pc'[r] = "committed",
                        stored'[user[r]] # stored[user[r]]
                 PROVE  stored'[user[r]] >= before[r]
      OBVIOUS
    <2>1. Commit(r)
      BY <1>1 DEF Inv, TypeOK, Next, Finish, vars, OnEvent, Commit, Rollback, Close,
                  SetAttribute, TaskThrows, Tick, Goto
    <2>2. stored'[user[r]] = date[r] /\ date[r] # 0
      BY <1>1, <2>1 DEF Inv, TypeOK, Commit
    <2>3. before[r] <= began[r] /\ began[r] <= date[r]
      BY <1>1, <2>2 DEF Inv, InOrder
    <2> QED BY <1>1, <2>2, <2>3 DEF Inv, TypeOK, Times
  <1>2. Spec => [][A]_vars
    BY Invariance, <1>1, PTL DEF Spec
  <1> QED BY <1>2 DEF NoOlderThanBefore

-----------------------------------------------------------------------------
(* The refinement of LoginDatePromise *)

LEMMA InitPromise == Init => Promise!Init
  BY DEF Init, Promise!Init, Phase

\* Tasks, and what comes after the commit, are not seen.
LEMMA HiddenSteps ==
    ASSUME Inv, NEW r \in Requests, Close(r) \/ SetAttribute(r) \/ TaskThrows(r)
    PROVE  UNCHANGED Promise!vars
  <1>1. UNCHANGED <<clock, user, began, stored>>
    BY DEF Close, SetAttribute, TaskThrows
  <1>2. Phase' = Phase
    BY DEF Inv, TypeOK, Close, SetAttribute, TaskThrows, Goto, Phase
  <1> QED BY <1>1, <1>2 DEF Promise!vars

LEMMA OnEventBegins == ASSUME Inv, NEW r \in Requests, OnEvent(r) PROVE Promise!Begin(r)
  BY DEF Inv, TypeOK, OnEvent, Goto, Phase, Promise!Begin

\* The date that a commit stores was written while the login was going on.
LEMMA CommitEnds == ASSUME Inv, NEW r \in Requests, Commit(r) PROVE Promise!End(r)
  <1> USE DEF Inv, TypeOK, Commit
  <1> DEFINE date_r == IF date[r] # 0 THEN date[r] ELSE stored[user[r]]
  <1>1. Phase[r] = "open" /\ Phase' = [Phase EXCEPT ![r] = "over"]
    BY DEF Goto, Phase
  <1>2. date_r \in began[r] .. clock \cup {stored[user[r]]}
    BY DEF InOrder, Times
  <1>3. stored' = [stored EXCEPT ![user[r]] = date_r]
    OBVIOUS
  <1> QED BY <1>1, <1>2, <1>3 DEF Promise!End

LEMMA RollbackEnds == ASSUME Inv, NEW r \in Requests, Rollback(r) PROVE Promise!End(r)
  <1> USE DEF Inv, TypeOK, Rollback
  <1>1. Phase[r] = "open" /\ Phase' = [Phase EXCEPT ![r] = "over"]
    BY DEF Goto, Phase
  <1>2. stored' = [stored EXCEPT ![user[r]] = stored[user[r]]]
    OBVIOUS
  <1> QED BY <1>1, <1>2 DEF Promise!End

\* A commit or a rollback is the end of a login in the promise, an event its
\* beginning; the steps of the task and of the closing session are hidden.
LEMMA StepSimulates == Inv /\ [Next]_vars => [Promise!Next]_Promise!vars
  <1> SUFFICES ASSUME Inv, [Next]_vars PROVE [Promise!Next]_Promise!vars
    OBVIOUS
  <1>1. CASE UNCHANGED vars
    BY <1>1 DEF vars, Promise!vars, Phase
  <1>2. CASE Tick
    <2>1. Promise!Tick
      BY <1>2 DEF Tick, Promise!Tick, Phase
    <2> QED BY <2>1 DEF Promise!Next
  <1>3. CASE \E r \in Requests : OnEvent(r) \/ Commit(r) \/ Rollback(r)
    BY <1>3, OnEventBegins, CommitEnds, RollbackEnds DEF Promise!Next
  <1>4. CASE \E r \in Requests : Close(r) \/ SetAttribute(r) \/ TaskThrows(r)
    BY <1>4, HiddenSteps
  <1> QED BY <1>1, <1>2, <1>3, <1>4 DEF Next, Finish

\* The stored date changes only at the end of a login, for its user, to a moment
\* of that login, whatever the pool does with the tasks.
THEOREM PromiseIsKept == Spec => KeepsDatePromise
  <1>1. Spec => Promise!Init
    BY InitPromise, PTL DEF Spec
  <1>2. Spec => [][Promise!Next]_Promise!vars
    BY Invariance, StepSimulates, PTL DEF Spec
  <1> QED BY <1>1, <1>2 DEF KeepsDatePromise, Promise!Safety

=============================================================================
