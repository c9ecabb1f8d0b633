--------------------------- MODULE WelcomeMailProofs ---------------------------
(***************************************************************************)
(* Safety of WelcomeMail, for any number of requests and user names.       *)
(***************************************************************************)
EXTENDS WelcomeMail, TLAPS

\* What the listener came to answers to the type it saw.
HeardByType ==
    \A r \in Requests : pc[r] \in {"heard", "created"} =>
        /\ outcome[r] # "none"
        /\ type[r] = "PERSONEL" => outcome[r] = "staff"
        /\ type[r] = "other" => outcome[r] \in {"sent", "refused"}

\* A user was created by a request that is over, under the name it asked for.
CreatorDone ==
    \A n \in Names : Taken(n) => pc[creator[n]] = "created" /\ name[creator[n]] = n

Inv == TypeOK /\ HeardByType /\ CreatorDone

LEMMA InitInv == Init => Inv
  BY WelcomeMailAssumption
  DEF Init, Inv, TypeOK, HeardByType, CreatorDone, Taken, Types, Steps, Outcomes

LEMMA InsertInv == ASSUME Inv, NEW r \in Requests, Insert(r) PROVE Inv'
  <1> USE WelcomeMailAssumption DEF Inv, TypeOK, Insert, Goto, Steps
  <1>1. TypeOK'
    OBVIOUS
  <1>2. HeardByType'
    BY DEF HeardByType
  <1>3. CreatorDone'
    BY DEF CreatorDone, Taken
  <1> QED BY <1>1, <1>2, <1>3

LEMMA OnEventInv == ASSUME Inv, NEW r \in Requests, OnEvent(r) PROVE Inv'
  <1> USE WelcomeMailAssumption DEF Inv, TypeOK, Heard, Goto, Steps, Outcomes
  <1>1. PICK result \in Outcomes :
          /\ Heard(r, result)
          /\ result # "none"
          /\ type[r] = "PERSONEL" => result = "staff"
          /\ type[r] = "other" => result \in {"sent", "refused"}
    BY DEF OnEvent, MissingType, Staff, Send, SendFails
  <1>2. TypeOK'
    BY <1>1
  <1>3. HeardByType'
    BY <1>1 DEF HeardByType
  <1>4. CreatorDone'
    BY <1>1 DEF CreatorDone, Taken
  <1> QED BY <1>2, <1>3, <1>4

\* The commit is the one step that adds to the users there are.
LEMMA CommitInv == ASSUME Inv, NEW r \in Requests, Commit(r) PROVE Inv'
  <1> USE WelcomeMailAssumption DEF Inv, TypeOK, Commit, Goto, Steps
  <1>1. TypeOK'
    BY DEF HeardByType
  <1>2. HeardByType'
    BY DEF HeardByType
  <1>3. CreatorDone'
    BY DEF CreatorDone, Taken
  <1> QED BY <1>1, <1>2, <1>3

LEMMA RollbackInv == ASSUME Inv, NEW r \in Requests, Rollback(r) PROVE Inv'
  <1> USE WelcomeMailAssumption DEF Inv, TypeOK, Rollback, Goto, Steps
  <1>1. TypeOK' /\ HeardByType'
    BY DEF HeardByType
  <1>2. CreatorDone'
    BY DEF CreatorDone, Taken
  <1> QED BY <1>1, <1>2

LEMMA DeleteInv == ASSUME Inv, NEW n \in Names, Delete(n) PROVE Inv'
  BY WelcomeMailAssumption DEF Inv, TypeOK, Delete, HeardByType, CreatorDone, Taken

LEMMA StepInv == Inv /\ [Next]_vars => Inv'
  <1>1. ASSUME Inv, UNCHANGED vars PROVE Inv'
    BY <1>1 DEF vars, Inv, TypeOK, HeardByType, CreatorDone, Taken, Types, Steps, Outcomes
  <1> QED
    BY <1>1, InsertInv, OnEventInv, CommitInv, RollbackInv, DeleteInv DEF Next

\* The inductive invariant.
THEOREM Invariance == Spec => []Inv
  BY InitInv, StepInv, PTL DEF Spec

\* Every reachable state is well typed, and no request passes the listener
\* without a result of it.
THEOREM TypeCorrect == Spec => []TypeOK
  <1>1. Inv => TypeOK
    BY DEF Inv
  <1> QED BY Invariance, <1>1, PTL

\* Of the users there are, staff got no mail of the listener, and the others
\* with a type got theirs unless the mail server refused it.
THEOREM WelcomeHolds == Spec => []RegisteredAreWelcomed
  <1>1. Inv => RegisteredAreWelcomed
    BY WelcomeMailAssumption
    DEF Inv, TypeOK, HeardByType, CreatorDone, RegisteredAreWelcomed, Taken
  <1> QED BY Invariance, <1>1, PTL

=============================================================================
