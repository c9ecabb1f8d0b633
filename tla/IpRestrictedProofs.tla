-------------------------- MODULE IpRestrictedProofs --------------------------
(***************************************************************************)
(* Safety of IpRestricted for any number of sessions, groups, addresses    *)
(* and address lists.                                                      *)
(***************************************************************************)
EXTENDS IpRestricted, TLAPS

\* What the attempt has seen bears out how far it has come; an attempt that
\* begins has no group yet.
BorneOut(s) ==
    LET saw(fact) == <<group[s], fact>> \in seen[s]
    IN  /\ pc[s] = "start" => group[s] = NoGroup
        /\ pc[s] = "exception" =>
             saw(IF remote[s] \in value[s] THEN "listed" ELSE "unlisted")
        /\ pc[s] = "success" => saw("listed") \/ saw("excepted")
        /\ pc[s] = "fork" /\ group[s] # NoGroup =>
             saw("unlisted") /\ saw("unexcepted")

Inv == TypeOK /\ \A s \in Sessions : BorneOut(s)

LEMMA FactTypes == \A a : FactsOf(a) \subseteq Groups \X Facts
  BY DEF FactsOf

LEMMA ObserveTypes == TypeOK /\ Observe => seen' \in [Sessions -> SUBSET (Groups \X Facts)]
  <1> SUFFICES ASSUME TypeOK, Observe, NEW s \in Sessions
               PROVE  seen'[s] \subseteq Groups \X Facts
    BY DEF Observe
  <1>1. FactsOf(remote[s])' \subseteq Groups \X Facts
    BY DEF FactsOf
  <1> QED
    BY <1>1 DEF Observe, TypeOK

\* What is so after the step is seen, and nothing seen is forgotten before the
\* next attempt.
LEMMA Seeing ==
    ASSUME Observe, NEW s \in Sessions, NEW g \in Groups
    PROVE  /\ \A fact \in Facts : Holds(g, fact, remote[s])'
                => <<g, fact>> \in seen'[s]
           /\ ~(pc'[s] = "start" /\ pc[s] # "start") => seen[s] \subseteq seen'[s]
  BY DEF Observe, FactsOf

\* A session that a step does not move keeps what bears it out.
LEMMA Bystander ==
    ASSUME Observe, NEW t \in Sessions, BorneOut(t),
           pc'[t] = pc[t], remote'[t] = remote[t], group'[t] = group[t],
           value'[t] = value[t]
    PROVE  BorneOut(t)'
  <1>1. seen[t] \subseteq seen'[t]
    BY DEF Observe
  <1> QED
    BY <1>1 DEF BorneOut

LEMMA InitialInv == Init => Inv
  <1> SUFFICES ASSUME Init PROVE Inv
    OBVIOUS
  <1>1. seen \in [Sessions -> SUBSET (Groups \X Facts)]
    BY FactTypes DEF Init
  <1> QED
    BY <1>1 DEF Init, Inv, TypeOK, BorneOut, Steps

LEMMA AttemptStep ==
    ASSUME Inv, NEW s \in Sessions, Attempt(s)
    PROVE  Inv'
  <1> USE DEF Inv, TypeOK, Goto, Steps
  <1> Observe
    BY DEF Attempt, PickGroup, ReadAttributes, CheckAddress, Start
  <1>0. seen' \in [Sessions -> SUBSET (Groups \X Facts)]
    BY ObserveTypes
  <1>1. CASE PickGroup(s)
    <2>1. TypeOK'
      BY <1>0, <1>1 DEF PickGroup, realm
    <2>2. ASSUME NEW t \in Sessions PROVE BorneOut(t)'
      <3>1. CASE t # s
        BY <1>1, <3>1, Bystander DEF PickGroup
      <3>2. CASE t = s /\ pc'[s] = "fork" /\ group'[s] = NoGroup
        BY <3>2 DEF BorneOut
      <3>3. CASE t = s /\ pc'[s] = "attributes"
        BY <3>3 DEF BorneOut
      <3>4. pc[s] = "start" => group[s] = NoGroup
        BY DEF BorneOut
      <3> QED
        BY <1>1, <3>1, <3>2, <3>3, <3>4 DEF PickGroup
    <2> QED
      BY <2>1, <2>2
  <1>2. CASE ReadAttributes(s)
    <2>1. group[s] \in Groups /\ UNCHANGED <<remote, group, realm>>
      BY <1>2 DEF ReadAttributes
    <2>2. TypeOK'
      BY <1>0, <1>2, <2>1 DEF ReadAttributes, realm
    <2>3. ASSUME NEW t \in Sessions PROVE BorneOut(t)'
      <3>1. CASE t # s
        BY <1>2, <3>1, Bystander DEF ReadAttributes
      <3>2. CASE t = s /\ ipAdres[group[s]] = {} /\ pc'[s] = "success"
        BY <2>1, <3>2, Seeing DEF BorneOut, Holds, Facts, realm
      <3>3. CASE /\ t = s /\ pc'[s] = "exception"
                 /\ \E v \in ipAdres[group[s]] : value'[s] = v
        BY <2>1, <3>3, Seeing DEF BorneOut, Holds, Facts, realm
      <3> QED
        BY <1>2, <3>1, <3>2, <3>3 DEF ReadAttributes
    <2> QED
      BY <2>2, <2>3
  <1>3. CASE CheckAddress(s)
    <2>1. UNCHANGED <<remote, group, value, realm>> /\ group[s] \in Groups
      BY <1>3 DEF CheckAddress
    <2>2. TypeOK'
      BY <1>0, <1>3, <2>1 DEF CheckAddress, realm
    <2>3. ASSUME NEW t \in Sessions PROVE BorneOut(t)'
      <3>1. CASE t # s
        BY <1>3, <2>1, <3>1, Bystander DEF CheckAddress
      <3>2. CASE t = s
        BY <1>3, <2>1, <3>2, Seeing
           DEF CheckAddress, BorneOut, Holds, Facts, realm, isGroupHaveIPException
      <3> QED
        BY <3>1, <3>2
    <2> QED
      BY <2>2, <2>3
  <1>4. CASE Start(s)
    <2>1. TypeOK'
      BY <1>0, <1>4 DEF Start, realm
    <2>2. ASSUME NEW t \in Sessions PROVE BorneOut(t)'
      <3>1. CASE t # s
        BY <1>4, <3>1, Bystander DEF Start
      <3>2. CASE t = s
        BY <1>4, <3>2 DEF Start, BorneOut
      <3> QED
        BY <3>1, <3>2
    <2> QED
      BY <2>1, <2>2
  <1> QED
    BY <1>1, <1>2, <1>3, <1>4 DEF Attempt


LEMMA EditStep ==
    ASSUME Inv, Edit
    PROVE  Inv'
  <1> Observe
    BY DEF Edit, ToggleMember, ToggleValue, ToggleException
  <1>1. seen' \in [Sessions -> SUBSET (Groups \X Facts)]
    BY ObserveTypes DEF Inv
  <1>2. UNCHANGED session
    BY DEF Edit, ToggleMember, ToggleValue, ToggleException
  <1>3. /\ members' \subseteq Groups
        /\ ipAdres' \in [Groups -> SUBSET Values]
        /\ istisna' \subseteq Groups
    BY DEF Edit, ToggleMember, ToggleValue, ToggleException, Inv, TypeOK
  <1>4. TypeOK'
    BY <1>1, <1>2, <1>3 DEF Inv, TypeOK, session
  <1>5. \A s \in Sessions : BorneOut(s)'
    BY <1>2, Bystander DEF Inv, session
  <1> QED
    BY <1>4, <1>5 DEF Inv

LEMMA InvStep == Inv /\ [Next]_vars => Inv'
  <1> SUFFICES ASSUME Inv, [Next]_vars PROVE Inv'
    OBVIOUS
  <1>1. CASE UNCHANGED vars
    BY <1>1 DEF vars, session, realm, Inv, TypeOK, BorneOut
  <1> QED
    BY <1>1, AttemptStep, EditStep DEF Next

THEOREM Invariance == Spec => []Inv
  BY InitialInv, InvStep, PTL DEF Spec

(* Every reachable state is well typed: in particular what an attempt has   *)
(* read stays a group, a list and an answer, whatever is edited meanwhile.  *)
THEOREM TypeCorrect == Spec => []TypeOK
  <1>1. Inv => TypeOK
    BY DEF Inv
  <1> QED
    BY <1>1, Invariance, PTL

(* Whoever is let in was allowed by the list or by the exception of one     *)
(* group at one moment of the attempt, although the two are read apart.     *)
THEOREM AdmissionIsJustified == Spec => []AdmittedWasAllowed
  <1>1. Inv => AdmittedWasAllowed
    BY DEF Inv, BorneOut, AdmittedWasAllowed
  <1> QED
    BY <1>1, Invariance, PTL

(* Whoever is sent back while in a group was missing from the list, and     *)
(* without an exception, at moments of the attempt.                         *)
THEOREM RefusalHasCause == Spec => []RefusedForCause
  <1>1. Inv => RefusedForCause
    BY DEF Inv, BorneOut, RefusedForCause
  <1> QED
    BY <1>1, Invariance, PTL

=============================================================================
