------------------------- MODULE ConditionalOtpProofs -------------------------
(***************************************************************************)
(* Safety of ConditionalOtp for any number of concurrent sessions of the   *)
(* user, configurations, roles, attributes and edits.                      *)
(***************************************************************************)
EXTENDS ConditionalOtp, TLAPS

(* Types *)

LEMMA ObserveTypes ==
    ASSUME TypeOK, enrolled' \in BOOLEAN,
           roles' \subseteq Roles, held' \subseteq roles', attrs' \subseteq Attrs,
           NEW started, NEW waived, NEW asked, Observe(started, waived, asked)
    PROVE  /\ namedSeen' \in [Sessions -> SUBSET Exemptions]
           /\ hadSeen' \in [Sessions -> SUBSET Exemptions]
           /\ standing' \in [Sessions -> SUBSET Exemptions]
           /\ excused' \in [Sessions -> BOOLEAN]
           /\ liable' \in [Sessions -> BOOLEAN]
  <1>1. Named' \subseteq Exemptions
    BY DEF Named
  <1>2. Had' \subseteq Exemptions
    BY DEF Had, Exemptions
  <1>3. namedSeen' \in [Sessions -> SUBSET Exemptions]
    BY <1>1 DEF Observe, TypeOK
  <1>4. hadSeen' \in [Sessions -> SUBSET Exemptions]
    BY <1>2 DEF Observe, TypeOK
  <1>5. standing' \in [Sessions -> SUBSET Exemptions]
    BY <1>1 DEF Observe
  <1> QED
    BY <1>3, <1>4, <1>5 DEF Observe

\* What every action tells the history.
LEMMA Observed ==
    /\ \A s \in Sessions : Login(s) =>
         \E waived, asked \in SUBSET Sessions : Observe({}, waived, asked)
    /\ \A s \in Sessions : Restart(s) => Observe({s}, {}, {})
    /\ Edit => \E waived, asked \in SUBSET Sessions : Observe({}, waived, asked)
  <1>1. ASSUME NEW s \in Sessions, Login(s)
        PROVE  \E waived, asked \in SUBSET Sessions : Observe({}, waived, asked)
    <2>1. CASE RemoveRequiredAction(s) \/ AddRequiredAction(s) \/ Configure(s)
      BY <2>1 DEF RemoveRequiredAction, AddRequiredAction, Configure, ObserveStep
    <2>2. CASE ObserveStep
      BY <2>2 DEF ObserveStep
    <2> QED
      BY <1>1, <2>1, <2>2 DEF Login, ConfiguredFor, Authenticate, FindRole,
         VoteForOwnRole, ReadConfigs, VoteForAttribute, VoteForRole,
         LookForAction, OtpForm, RequiredActions
  <1>2. ASSUME Edit
        PROVE  \E waived, asked \in SUBSET Sessions : Observe({}, waived, asked)
    <2>1. CASE RequireEnrolment \/ WaiveEnrolment
      BY <2>1 DEF RequireEnrolment, WaiveEnrolment
    <2>2. CASE ObserveStep
      BY <2>2 DEF ObserveStep
    <2> QED
      BY <1>2, <2>1, <2>2 DEF Edit, EditConfig, CreateOrDeleteRole,
         GrantOrRevoke, SetOrRemoveAttribute, RemoveCredential
  <1> QED
    BY <1>1, <1>2 DEF Restart

LEMMA ConfigTypes ==
    ASSUME TypeOK
    PROVE  /\ \A c \in Present : config[c] \in Config
           /\ NoConf \in Config
           /\ \A c \in Config : c.role \in Roles \cup {None}
  BY DEF TypeOK, Present, Config, NoConf

LEMMA EndVoteTypes ==
    ASSUME TypeOK, NEW s \in Sessions, EndVote(s)
    PROVE  /\ conf' \in [Sessions -> Config] /\ skip' \in [Sessions -> BOOLEAN]
           /\ found' \in [Sessions -> roles \cup {None}]
  BY ConfigTypes DEF EndVote, TypeOK

\* What a step of one session leaves well typed, and what it leaves alone.
LEMMA LoginTypes ==
    ASSUME TypeOK, NEW s \in Sessions, Login(s) \/ Restart(s)
    PROVE  /\ pc' \in [Sessions -> Steps] /\ proved' \in [Sessions -> BOOLEAN]
           /\ todo' \in [Sessions -> SUBSET (Configs \X Config)]
           /\ conf' \in [Sessions -> Config] /\ skip' \in [Sessions -> BOOLEAN]
           /\ found' \in [Sessions -> roles \cup {None}]
           /\ enrolled' \in BOOLEAN /\ totpAction' \in BOOLEAN
           /\ UNCHANGED <<realm, edits>>
           /\ \A t \in Sessions \ {s} :
                /\ pc'[t] = pc[t] /\ proved'[t] = proved[t] /\ todo'[t] = todo[t]
                /\ conf'[t] = conf[t] /\ skip'[t] = skip[t] /\ found'[t] = found[t]
  <1> USE DEF TypeOK, Steps, Goto, user, locals
  <1>1. CASE ConfiguredFor(s) \/ RequiredActions(s) \/ LookForAction(s)
    BY <1>1 DEF ConfiguredFor, RequiredActions, LookForAction
  <1>2. CASE Authenticate(s)
    BY <1>2, ConfigTypes DEF Authenticate, tryConcludeBasedOn
  <1>3. ASSUME NEW here, NEW next \in Steps, FindRole(s, here, next)
        PROVE  /\ pc' \in [Sessions -> Steps] /\ proved' \in [Sessions -> BOOLEAN]
               /\ todo' \in [Sessions -> SUBSET (Configs \X Config)]
               /\ conf' \in [Sessions -> Config] /\ skip' \in [Sessions -> BOOLEAN]
               /\ found' \in [Sessions -> roles \cup {None}]
               /\ UNCHANGED <<realm, user, edits>>
               /\ \A t \in Sessions \ {s} :
                    /\ pc'[t] = pc[t] /\ proved'[t] = proved[t] /\ todo'[t] = todo[t]
                    /\ conf'[t] = conf[t] /\ skip'[t] = skip[t] /\ found'[t] = found[t]
    <2>1. CASE conf[s].role \in roles
      BY <1>3, <2>1 DEF FindRole
    <2>2. CASE conf[s].role \notin roles
      BY <1>3, <2>2, EndVoteTypes DEF FindRole, EndVote
    <2> QED
      BY <2>1, <2>2
  <1>4. CASE VoteForOwnRole(s)
    BY <1>4, EndVoteTypes DEF VoteForOwnRole, EndVote, tryConcludeBasedOn
  <1>5. CASE ReadConfigs(s)
    BY <1>5, ConfigTypes DEF ReadConfigs, Present
  <1>6. CASE VoteForAttribute(s)
    <2>1. PICK x \in todo[s] :
            \/ /\ x[2].role = None
               /\ Match(s, todo[s] \ {x}, x[2].attr \in attrs, FALSE)
               /\ UNCHANGED <<conf, skip>>
            \/ /\ x[2].role # None
               /\ todo' = [todo EXCEPT ![s] = @ \ {x}]
               /\ conf' = [conf EXCEPT ![s] = x[2]]
               /\ skip' = [skip EXCEPT ![s] = x[2].attr \in attrs]
               /\ Goto(s, "findRole")
      BY <1>6 DEF VoteForAttribute
    <2>2. x[2] \in Config
      OBVIOUS
    <2>3. UNCHANGED <<proved, found, realm, user, edits>>
      BY <1>6 DEF VoteForAttribute
    <2>0. todo[s] \ {x} \in SUBSET (Configs \X Config)
      OBVIOUS
    <2>4. CASE x[2].role = None
      <3>1. \/ todo' = [todo EXCEPT ![s] = {}] /\ pc' = [pc EXCEPT ![s] = "remove"]
            \/ /\ todo' = [todo EXCEPT ![s] = todo[s] \ {x}]
               /\ pc' = [pc EXCEPT ![s] = "attribute"]
        BY <2>1, <2>4 DEF Match
      <3>2. todo' \in [Sessions -> SUBSET (Configs \X Config)]
        BY <3>1, <2>0
      <3> QED
        BY <2>1, <2>3, <2>4, <3>1, <3>2
    <2>5. CASE x[2].role # None
      <3>0. todo' = [todo EXCEPT ![s] = todo[s] \ {x}]
        BY <2>1, <2>5
      <3>1. todo' \in [Sessions -> SUBSET (Configs \X Config)]
        BY <2>0, <3>0
      <3>2. conf' \in [Sessions -> Config] /\ pc' \in [Sessions -> Steps]
        BY <2>1, <2>2, <2>5
      <3>4. skip' \in [Sessions -> BOOLEAN]
        <4>1. (x[2].attr \in attrs) \in BOOLEAN
          OBVIOUS
        <4> QED
          BY <2>1, <2>5, <4>1
      <3>3. \A t \in Sessions \ {s} :
              /\ pc'[t] = pc[t] /\ todo'[t] = todo[t]
              /\ conf'[t] = conf[t] /\ skip'[t] = skip[t]
        BY <2>1, <2>5
      <3> QED
        BY <2>3, <3>1, <3>2, <3>3, <3>4
    <2> QED
      BY <2>4, <2>5
  <1>7. CASE VoteForRole(s)
    BY <1>7, EndVoteTypes DEF VoteForRole, EndVote, Match
  <1>8. CASE RemoveRequiredAction(s) \/ AddRequiredAction(s)
    BY <1>8 DEF RemoveRequiredAction, AddRequiredAction
  <1>9. CASE OtpForm(s) \/ Configure(s)
    BY <1>9 DEF OtpForm, Configure
  <1>10. CASE Restart(s)
    BY <1>10, EndVoteTypes DEF Restart, EndVote
  <1>11. "hasRole" \in Steps /\ "hasOwnRole" \in Steps
    OBVIOUS
  <1> QED
    BY <1>1, <1>2, <1>3, <1>4, <1>5, <1>6, <1>7, <1>8, <1>9, <1>10, <1>11 DEF Login

\* A role is in the hand of a session only while it exists; administrators
\* touch nothing else of a session.
LEMMA EditTypes ==
    ASSUME TypeOK, Edit
    PROVE  /\ config' \in [Configs -> Config \cup {None}]
           /\ roles' \subseteq Roles /\ held' \subseteq roles'
           /\ attrs' \subseteq Attrs /\ enrolled' \in BOOLEAN
           /\ totpAction' \in BOOLEAN /\ edits' \in 0..MaxEdits
           /\ found' \in [Sessions -> roles' \cup {None}]
           /\ \A s \in Sessions : \/ found'[s] = found[s]
                                  \/ found'[s] = None /\ found[s] \notin held'
           /\ UNCHANGED <<pc, proved, todo, conf, skip>>
           /\ enrolled' => enrolled
  <1>0. Edited => edits' \in 0..MaxEdits
    BY ConditionalOtpAssumption DEF TypeOK, Edited
  <1> USE DEF TypeOK, Config, user, realm, locals
  <1>1. ASSUME NEW c \in Configs, EditConfig(c)
        PROVE  /\ config' \in [Configs -> Config \cup {None}]
               /\ UNCHANGED <<pc, proved, locals, roles, held, attrs, user>>
    BY <1>1 DEF EditConfig
  <1>2. ASSUME NEW r \in Roles, CreateOrDeleteRole(r) \/ GrantOrRevoke(r)
        PROVE  /\ roles' \subseteq Roles /\ held' \subseteq roles'
               /\ found' \in [Sessions -> roles' \cup {None}]
               /\ \A s \in Sessions : \/ found'[s] = found[s]
                                      \/ found'[s] = None /\ found[s] \notin held'
               /\ UNCHANGED <<pc, proved, todo, conf, skip, config, attrs, user>>
    BY <1>2 DEF CreateOrDeleteRole, GrantOrRevoke, HeldAfterDelete
  <1>3. ASSUME NEW a \in Attrs, SetOrRemoveAttribute(a)
        PROVE  /\ attrs' \subseteq Attrs
               /\ UNCHANGED <<pc, proved, locals, config, roles, held, user>>
    BY <1>3 DEF SetOrRemoveAttribute
  <1>4. ASSUME RemoveCredential \/ RequireEnrolment \/ WaiveEnrolment
        PROVE  /\ enrolled' \in BOOLEAN /\ totpAction' \in BOOLEAN
               /\ enrolled' => enrolled
               /\ UNCHANGED <<pc, proved, locals, realm>>
    <2>1. CASE RemoveCredential
      BY <2>1 DEF RemoveCredential
    <2>2. CASE RequireEnrolment
      BY <2>2 DEF RequireEnrolment
    <2>3. CASE WaiveEnrolment
      BY <2>3 DEF WaiveEnrolment
    <2> QED
      BY <1>4, <2>1, <2>2, <2>3
  <1>5. Edited
    BY DEF Edit, EditConfig, CreateOrDeleteRole, GrantOrRevoke,
       SetOrRemoveAttribute, RemoveCredential, RequireEnrolment, WaiveEnrolment
  <1>6. CASE \E c \in Configs : EditConfig(c)
    BY <1>0, <1>1, <1>5, <1>6
  <1>7. CASE \E r \in Roles : CreateOrDeleteRole(r) \/ GrantOrRevoke(r)
    BY <1>0, <1>2, <1>5, <1>7
  <1>8. CASE \E a \in Attrs : SetOrRemoveAttribute(a)
    BY <1>0, <1>3, <1>5, <1>8
  <1>9. CASE RemoveCredential \/ RequireEnrolment \/ WaiveEnrolment
    BY <1>0, <1>4, <1>5, <1>9
  <1> QED
    BY <1>6, <1>7, <1>8, <1>9 DEF Edit

LEMMA InitialTypes == Init => TypeOK
  <1> SUFFICES ASSUME Init PROVE TypeOK
    OBVIOUS
  <1>1. Named \subseteq Exemptions
    BY DEF Named
  <1>2. Had \subseteq Exemptions
    BY DEF Init, Had, Exemptions
  <1>3. NoConf \in Config
    BY DEF NoConf, Config
  <1> QED
    BY <1>1, <1>2, <1>3, ConditionalOtpAssumption DEF Init, TypeOK, Steps

LEMMA TypeStep == TypeOK /\ [Next]_vars => TypeOK'
  <1> SUFFICES ASSUME TypeOK, [Next]_vars PROVE TypeOK'
    OBVIOUS
  <1>1. ASSUME NEW s \in Sessions, Login(s) \/ Restart(s) PROVE TypeOK'
    <2>1. \E started, waived, asked : Observe(started, waived, asked)
      BY <1>1, Observed
    <2>2. /\ UNCHANGED <<realm, edits>> /\ enrolled' \in BOOLEAN
      BY <1>1, LoginTypes
    <2>3. /\ namedSeen' \in [Sessions -> SUBSET Exemptions]
          /\ hadSeen' \in [Sessions -> SUBSET Exemptions]
          /\ standing' \in [Sessions -> SUBSET Exemptions]
          /\ excused' \in [Sessions -> BOOLEAN]
          /\ liable' \in [Sessions -> BOOLEAN]
      BY <2>1, <2>2, ObserveTypes DEF TypeOK, realm
    <2> QED
      BY <1>1, <2>2, <2>3, LoginTypes DEF TypeOK, realm
  <1>2. CASE Edit
    <2>1. \E started, waived, asked : Observe(started, waived, asked)
      BY <1>2, Observed
    <2>2. /\ namedSeen' \in [Sessions -> SUBSET Exemptions]
          /\ hadSeen' \in [Sessions -> SUBSET Exemptions]
          /\ standing' \in [Sessions -> SUBSET Exemptions]
          /\ excused' \in [Sessions -> BOOLEAN]
          /\ liable' \in [Sessions -> BOOLEAN]
      BY <1>2, <2>1, EditTypes, ObserveTypes
    <2> QED
      BY <1>2, <2>2, EditTypes DEF TypeOK
  <1>3. CASE UNCHANGED vars
    BY <1>3 DEF vars, locals, realm, user, history, TypeOK
  <1> QED
    BY <1>1, <1>2, <1>3 DEF Next

(* Every reachable state is well typed: what a session has read is of the   *)
(* realm's kind, a role it holds in hand still exists, and the user never   *)
(* holds a role that has been deleted.                                      *)
THEOREM TypeCorrect == Spec => []TypeOK
  BY InitialTypes, TypeStep, PTL DEF Spec

-----------------------------------------------------------------------------
(* The inductive invariant *)

\* The history covers the present, and what a session has read of the realm
\* is in its history.
Noted(s) ==
    /\ Named \subseteq namedSeen[s] /\ Had \subseteq hadSeen[s]
    /\ standing[s] \subseteq Named \cap Had
    /\ \A x \in todo[s] : NamedBy(x[2]) \subseteq namedSeen[s]
    /\ NamedBy(conf[s]) \subseteq namedSeen[s]
    /\ found[s] \in {None, conf[s].role}
    /\ pc[s] \notin {"hasOwnRole", "hasRole"} => found[s] = None
    /\ skip[s] \/ At(s, "remove") => Excusable(s)

\* Without an excuse, a session that has sent no code is still held by the
\* required action.
Held(s) ==
    ~proved[s] /\ ~Excusable(s) /\ ~excused[s] =>
      /\ pc[s] \in {"required", "configure"} => totpAction
      /\ pc[s] # "done"

\* An exemption that stands is still to be voted on, or being voted on.
InTodo(s, y) == \E x \in todo[s] : y \in NamedBy(x[2])

InVote(s, y) ==
    /\ y = <<"role", conf[s].role>>
    /\ At(s, "hasRole") => found[s] = conf[s].role

Covered(s) ==
    /\ At(s, "attribute") => \A y \in standing[s] : InTodo(s, y)
    /\ pc[s] \in {"findRole", "hasRole"} =>
          skip[s] \/ \A y \in standing[s] : InTodo(s, y) \/ InVote(s, y)
    /\ At(s, "add") => ~Steady(s)

\* Nobody has asked a covered user for anything.
Spared(s) ==
    Steady(s) /\ ~liable[s] =>
      /\ ~enrolled
      /\ pc[s] \notin {"authenticate", "findOwnRole", "hasOwnRole", "otpForm",
                       "configure"}
      /\ At(s, "required") => ~totpAction

Inv(s) == Noted(s) /\ Held(s) /\ Covered(s) /\ Spared(s)

\* What one step does to the history of a session that it does not start.
LEMMA HistoryStep ==
    ASSUME NEW s \in Sessions, NEW started, NEW waived, NEW asked,
           Observe(started, waived, asked), s \notin started
    PROVE  /\ Named' \subseteq namedSeen'[s] /\ Had' \subseteq hadSeen'[s]
           /\ namedSeen[s] \subseteq namedSeen'[s] /\ hadSeen[s] \subseteq hadSeen'[s]
           /\ standing'[s] \subseteq standing[s] /\ standing'[s] \subseteq Named' \cap Had'
           /\ Excusable(s) => Excusable(s)'
           /\ Steady(s)' => Steady(s)
           /\ excused[s] \/ s \in waived => excused'[s]
           /\ liable[s] \/ s \in asked \/ enrolled' => liable'[s]
  <1>1. /\ namedSeen'[s] = Named' \cup namedSeen[s]
        /\ hadSeen'[s] = Had' \cup hadSeen[s]
        /\ standing'[s] = {x \in Named' \cap Had' : x \in standing[s]}
    BY DEF Observe
  <1>2. /\ excused[s] \/ s \in waived => excused'[s]
        /\ liable[s] \/ s \in asked \/ enrolled' => liable'[s]
    BY DEF Observe
  <1> QED
    BY <1>1, <1>2 DEF Excusable, Steady

\* A vote for skipping excuses the session, and no vote misses an exemption
\* that stands.
LEMMA VoteExcuses ==
    ASSUME TypeOK, NEW s \in Sessions, Noted(s),
           NEW c \in Config, NamedBy(c) \subseteq namedSeen[s]
    PROVE  c.attr \in attrs \/ c.role \in held => Excusable(s)
  <1>1. ASSUME c.attr \in attrs PROVE Excusable(s)
    <2>1. <<"attr", c.attr>> \in NamedBy(c) /\ <<"attr", c.attr>> \in Had
      BY <1>1 DEF TypeOK, NamedBy, Exemptions, Had
    <2> QED
      BY <2>1 DEF Noted, Excusable
  <1>2. ASSUME c.role \in held PROVE Excusable(s)
    <2>1. <<"role", c.role>> \in NamedBy(c) /\ <<"role", c.role>> \in Had
      BY <1>2 DEF TypeOK, NamedBy, Exemptions, Had
    <2> QED
      BY <2>1 DEF Noted, Excusable
  <1> QED
    BY <1>1, <1>2

LEMMA VoteFinds ==
    ASSUME TypeOK, NEW s \in Sessions, Noted(s), NEW c, NEW y \in standing[s],
           y \in NamedBy(c)
    PROVE  \/ y = <<"role", c.role>> /\ c.role \in held
           \/ y = <<"attr", c.attr>> /\ c.attr \in attrs
  <1>1. y \in Had
    BY DEF Noted
  <1>2. CASE y = <<"role", c.role>>
    BY <1>1, <1>2 DEF Had
  <1>3. CASE y = <<"attr", c.attr>>
    BY <1>1, <1>3 DEF Had
  <1> QED
    BY <1>2, <1>3 DEF NamedBy

LEMMA NamedByConfigs ==
    /\ \A c \in Present : NamedBy(config[c]) \subseteq Named
    /\ \A y \in Named : \E c \in Present : y \in NamedBy(config[c])
    /\ NamedBy(NoConf) = {}
  <1>1. <<"role", None>> \notin Exemptions /\ <<"attr", None>> \notin Exemptions
    BY ConditionalOtpAssumption DEF Exemptions
  <1> QED
    BY <1>1 DEF Named, NamedBy, NoConf

LEMMA InvInitially ==
    ASSUME Init, NEW s \in Sessions
    PROVE  Inv(s)
  <1>1. /\ namedSeen[s] = Named /\ hadSeen[s] = Had /\ standing[s] = Named \cap Had
        /\ todo[s] = {} /\ conf[s] = NoConf /\ found[s] = None /\ ~skip[s]
        /\ pc[s] = "start" /\ liable[s] = enrolled
    BY DEF Init
  <1>2. Noted(s)
    BY <1>1, NamedByConfigs DEF Noted, At
  <1> QED
    BY <1>1, <1>2 DEF Inv, Held, Covered, Spared, At

\* A step of somebody else.
LEMMA OtherStep ==
    ASSUME TypeOK, NEW s \in Sessions, Inv(s),
           NEW started, NEW waived, NEW asked, Observe(started, waived, asked),
           s \notin started,
           pc'[s] = pc[s], proved'[s] = proved[s], todo'[s] = todo[s],
           conf'[s] = conf[s], skip'[s] = skip[s],
           found'[s] = found[s] \/ (found'[s] = None /\ found[s] \notin held'),
           totpAction => totpAction' \/ s \in waived,
           totpAction' => totpAction \/ s \in asked
    PROVE  Inv(s)'
  <1>1. Noted(s)'
    <2>1. Excusable(s) => Excusable(s)'
      BY HistoryStep
    <2>2. Named' \subseteq namedSeen'[s] /\ Had' \subseteq hadSeen'[s]
          /\ namedSeen[s] \subseteq namedSeen'[s] /\ standing'[s] \subseteq Named' \cap Had'
      BY HistoryStep
    <2>3. \A x \in todo'[s] : NamedBy(x[2]) \subseteq namedSeen'[s]
      BY <2>2 DEF Inv, Noted
    <2>4. NamedBy(conf'[s]) \subseteq namedSeen'[s]
      BY <2>2 DEF Inv, Noted
    <2> QED
      BY <2>1, <2>2, <2>3, <2>4 DEF Inv, Noted, At
  <1>2. Held(s)'
    BY HistoryStep DEF Inv, Held
  <1>3. Covered(s)'
    <2>1. standing'[s] \subseteq standing[s] /\ standing'[s] \subseteq Had'
      BY HistoryStep
    <2>2. \A y \in standing'[s] : InTodo(s, y) => InTodo(s, y)'
      BY DEF InTodo
    <2>3. \A y \in standing'[s] : InVote(s, y) => InVote(s, y)'
      <3>1. ASSUME NEW y \in standing'[s], InVote(s, y) PROVE InVote(s, y)'
        <4>1. conf[s].role \in held'
          BY <2>1, <3>1 DEF InVote, Had
        <4> QED
          BY <3>1, <4>1 DEF InVote, At
      <3> QED
        BY <3>1
    <2>4. Steady(s)' => Steady(s)
      BY HistoryStep
    <2> QED
      BY <2>1, <2>2, <2>3, <2>4 DEF Inv, Covered, At
  <1>4. Spared(s)'
    BY HistoryStep DEF Inv, Spared, At
  <1> QED
    BY <1>1, <1>2, <1>3, <1>4 DEF Inv

-----------------------------------------------------------------------------
(* The steps of the session itself *)

LEMMA OwnHistory ==
    ASSUME NEW s \in Sessions, Login(s)
    PROVE  /\ Named' \subseteq namedSeen'[s] /\ Had' \subseteq hadSeen'[s]
           /\ namedSeen[s] \subseteq namedSeen'[s]
           /\ standing'[s] \subseteq standing[s] /\ standing'[s] \subseteq Named' \cap Had'
           /\ Excusable(s) => Excusable(s)'
           /\ Steady(s)' => Steady(s)
           /\ excused[s] => excused'[s]
           /\ liable[s] \/ enrolled' => liable'[s]
  BY Observed, HistoryStep

LEMMA NotedOwnStep ==
    ASSUME TypeOK, NEW s \in Sessions, Noted(s), Login(s)
    PROVE  Noted(s)'
  <1> USE DEF At, Goto, locals
  <1>0. /\ Named' \subseteq namedSeen'[s] /\ Had' \subseteq hadSeen'[s]
        /\ namedSeen[s] \subseteq namedSeen'[s] /\ standing'[s] \subseteq Named' \cap Had'
        /\ Excusable(s) => Excusable(s)'
    BY OwnHistory
  <1>n. NamedBy(NoConf) \subseteq namedSeen'[s]
    BY NamedByConfigs
  <1> SUFFICES
        /\ \A x \in todo'[s] : NamedBy(x[2]) \subseteq namedSeen'[s]
        /\ NamedBy(conf'[s]) \subseteq namedSeen'[s]
        /\ found'[s] \in {None, conf'[s].role}
        /\ pc'[s] \notin {"hasOwnRole", "hasRole"} => found'[s] = None
        /\ skip'[s] \/ pc'[s] = "remove" => Excusable(s)
    BY <1>0 DEF Noted
  <1>e. EndVote(s) => conf'[s] = NoConf /\ ~skip'[s] /\ found'[s] = None
    BY DEF EndVote, TypeOK
  <1>1. CASE \/ ConfiguredFor(s) \/ RemoveRequiredAction(s) \/ LookForAction(s)
             \/ AddRequiredAction(s) \/ OtpForm(s) \/ RequiredActions(s)
             \/ Configure(s)
    <2>1. UNCHANGED locals /\ pc'[s] # "remove"
          /\ pc[s] \notin {"hasOwnRole", "hasRole"}
      BY <1>1 DEF ConfiguredFor, RemoveRequiredAction, LookForAction,
         AddRequiredAction, OtpForm, RequiredActions, Configure, TypeOK
    <2> QED
      BY <1>0, <2>1 DEF Noted
  <1>2. CASE Authenticate(s)
    <2>1. UNCHANGED <<todo, skip, found>> /\ pc'[s] # "remove"
          /\ pc[s] = "authenticate"
      BY <1>2 DEF Authenticate, TypeOK, tryConcludeBasedOn
    <2>2. CASE UNCHANGED conf
      BY <1>0, <2>1, <2>2 DEF Noted
    <2>3. CASE conf' = [conf EXCEPT ![s] = config[Own]] /\ Own \in Present
      <3>1. NamedBy(conf'[s]) \subseteq namedSeen'[s]
        BY <1>0, <2>3, NamedByConfigs DEF Noted, TypeOK
      <3>2. found[s] = None
        BY <1>2 DEF Noted, Authenticate
      <3> QED
        BY <1>0, <2>1, <3>1, <3>2 DEF Noted
    <2> QED
      BY <1>2, <2>2, <2>3 DEF Authenticate
  <1>3. CASE \/ FindRole(s, "findOwnRole", "hasOwnRole")
             \/ FindRole(s, "findRole", "hasRole")
    <2>1. CASE conf[s].role \in roles
      <3>1. UNCHANGED <<todo, conf, skip>> /\ pc'[s] # "remove"
            /\ found'[s] = conf[s].role /\ pc'[s] \in {"hasOwnRole", "hasRole"}
        BY <1>3, <2>1 DEF FindRole, TypeOK
      <3> QED
        BY <1>0, <3>1 DEF Noted
    <2>2. CASE conf[s].role \notin roles
      <3>1. EndVote(s) /\ pc'[s] = "failed" /\ todo'[s] = {}
        BY <1>3, <2>2 DEF FindRole, TypeOK
      <3> QED
        BY <1>e, <1>n, <3>1
    <2> QED
      BY <2>1, <2>2
  <1>4. CASE VoteForOwnRole(s)
    <2>1. EndVote(s) /\ UNCHANGED todo /\ pc'[s] # "remove"
      BY <1>4 DEF VoteForOwnRole, tryConcludeBasedOn, TypeOK
    <2> QED
      BY <1>0, <1>e, <1>n, <2>1 DEF Noted
  <1>5. CASE ReadConfigs(s)
    <2>1. /\ todo'[s] = {<<c, config[c]>> : c \in Present}
          /\ UNCHANGED <<conf, skip, found>> /\ pc'[s] = "attribute"
          /\ pc[s] = "setup"
      BY <1>5 DEF ReadConfigs, TypeOK
    <2>2. \A x \in todo'[s] : NamedBy(x[2]) \subseteq namedSeen'[s]
      BY <1>0, <2>1, NamedByConfigs DEF Noted
    <2> QED
      BY <1>0, <2>1, <2>2 DEF Noted
  <1>6. CASE VoteForAttribute(s)
    <2>1. PICK x \in todo[s] :
            \/ /\ x[2].role = None
               /\ Match(s, todo[s] \ {x}, x[2].attr \in attrs, FALSE)
               /\ UNCHANGED <<conf, skip>>
            \/ /\ x[2].role # None
               /\ todo' = [todo EXCEPT ![s] = @ \ {x}]
               /\ conf' = [conf EXCEPT ![s] = x[2]]
               /\ skip' = [skip EXCEPT ![s] = x[2].attr \in attrs]
               /\ Goto(s, "findRole")
      BY <1>6 DEF VoteForAttribute
    <2>2. x[2].attr \in attrs => Excusable(s)
      <3>1. x[2] \in Config /\ NamedBy(x[2]) \subseteq namedSeen[s]
        BY DEF TypeOK, Noted
      <3> QED
        BY <3>1, VoteExcuses
    <2>3. UNCHANGED found /\ pc[s] = "attribute"
      BY <1>6 DEF VoteForAttribute
    <2>4. CASE x[2].role = None
      <3>1. /\ \/ todo'[s] = {} \/ todo'[s] = todo[s] \ {x}
            /\ pc'[s] = "remove" => x[2].attr \in attrs
        BY <2>1, <2>4 DEF Match, SkipsOtp, TypeOK
      <3> QED
        BY <1>0, <2>1, <2>2, <2>3, <2>4, <3>1 DEF Noted
    <2>5. CASE x[2].role # None
      <3>0. skip'[s] => x[2].attr \in attrs
        <4>1. skip' = [skip EXCEPT ![s] = x[2].attr \in attrs]
          BY <2>1, <2>5
        <4> QED
          BY <4>1 DEF TypeOK
      <3>1. todo'[s] = todo[s] \ {x} /\ conf'[s] = x[2] /\ pc'[s] = "findRole"
        BY <2>1, <2>5 DEF TypeOK
      <3>2. NamedBy(x[2]) \subseteq namedSeen'[s]
        BY <1>0 DEF Noted
      <3>3. found'[s] = None
        BY <2>3 DEF Noted
      <3> QED
        BY <1>0, <2>2, <3>0, <3>1, <3>2, <3>3 DEF Noted
    <2> QED
      BY <2>4, <2>5
  <1>7. CASE VoteForRole(s)
    <2>1. /\ EndVote(s)
          /\ todo'[s] = {} \/ todo'[s] = todo[s]
          /\ pc'[s] = "remove" => skip[s] \/ found[s] \in held
      BY <1>7 DEF VoteForRole, Match, SkipsOtp, TypeOK
    <2>2. found[s] \in held => Excusable(s)
      <3>1. found[s] \in held => found[s] = conf[s].role
        BY ConditionalOtpAssumption DEF Noted, TypeOK
      <3>2. conf[s] \in Config
        BY DEF TypeOK
      <3> QED
        BY <3>1, <3>2, VoteExcuses DEF Noted
    <2> QED
      BY <1>0, <1>e, <1>n, <2>1, <2>2 DEF Noted
  <1> QED
    BY <1>1, <1>2, <1>3, <1>4, <1>5, <1>6, <1>7 DEF Login

LEMMA HeldOwnStep ==
    ASSUME TypeOK, NEW s \in Sessions, Noted(s), Held(s), Login(s)
    PROVE  Held(s)'
  <1> USE DEF Held, At, Goto, TypeOK, user
  <1>0. /\ Excusable(s) => Excusable(s)'
        /\ excused[s] => excused'[s]
    BY OwnHistory
  <1>1. CASE ConfiguredFor(s) \/ ReadConfigs(s)
    BY <1>0, <1>1 DEF ConfiguredFor, ReadConfigs
  <1>2. CASE Authenticate(s)
    BY <1>2 DEF Authenticate, tryConcludeBasedOn
  <1>3. CASE \/ FindRole(s, "findOwnRole", "hasOwnRole")
             \/ FindRole(s, "findRole", "hasRole")
    BY <1>3 DEF FindRole
  <1>4. CASE VoteForOwnRole(s)
    <2>1. CASE found[s] \in held
      <3>1. found[s] = conf[s].role /\ conf[s] \in Config
        BY <2>1, ConditionalOtpAssumption DEF Noted
      <3>2. Excusable(s)
        BY <2>1, <3>1, VoteExcuses DEF Noted
      <3> QED
        BY <1>0, <3>2
    <2>2. CASE found[s] \notin held
      BY <1>4, <2>2 DEF VoteForOwnRole, tryConcludeBasedOn
    <2> QED
      BY <2>1, <2>2
  <1>5. CASE VoteForAttribute(s) \/ VoteForRole(s)
    <2>1. pc'[s] \in {"remove", "attribute", "findRole"}
      BY <1>5 DEF VoteForAttribute, VoteForRole, Match
    <2> QED
      BY <2>1
  <1>6. CASE RemoveRequiredAction(s)
    BY <1>0, <1>6 DEF RemoveRequiredAction, Noted
  <1>7. CASE LookForAction(s) \/ AddRequiredAction(s)
    BY <1>7 DEF LookForAction, AddRequiredAction, ActionMissing
  <1>8. CASE OtpForm(s)
    BY <1>0, <1>8 DEF OtpForm
  <1>9. CASE RequiredActions(s)
    BY <1>0, <1>9 DEF RequiredActions
  <1>10. CASE Configure(s)
    BY <1>0, <1>10 DEF Configure
  <1> QED
    BY <1>1, <1>2, <1>3, <1>4, <1>5, <1>6, <1>7, <1>8, <1>9, <1>10 DEF Login

LEMMA CoveredOwnStep ==
    ASSUME TypeOK, NEW s \in Sessions, Noted(s), Covered(s), Login(s)
    PROVE  Covered(s)'
  <1> USE DEF At, Goto
  <1>0. /\ standing'[s] \subseteq standing[s]
        /\ Steady(s)' => Steady(s)
    BY OwnHistory
  <1>1. CASE \/ ConfiguredFor(s) \/ Authenticate(s) \/ VoteForOwnRole(s)
             \/ RemoveRequiredAction(s) \/ AddRequiredAction(s) \/ OtpForm(s)
             \/ RequiredActions(s) \/ Configure(s)
             \/ FindRole(s, "findOwnRole", "hasOwnRole")
    <2>1. pc'[s] \notin {"attribute", "findRole", "hasRole", "add"}
      BY <1>1 DEF ConfiguredFor, Authenticate, VoteForOwnRole, tryConcludeBasedOn,
         RemoveRequiredAction, AddRequiredAction, OtpForm, RequiredActions,
         Configure, FindRole, TypeOK
    <2> QED
      BY <2>1 DEF Covered
  <1>2. CASE ReadConfigs(s)
    <2>1. pc'[s] = "attribute" /\ todo'[s] = {<<c, config[c]>> : c \in Present}
      BY <1>2 DEF ReadConfigs, TypeOK
    <2>2. ASSUME NEW y \in standing'[s] PROVE InTodo(s, y)'
      <3>1. PICK c \in Present : y \in NamedBy(config[c])
        BY <1>0, NamedByConfigs DEF Noted
      <3>2. <<c, config[c]>> \in todo'[s]
        BY <2>1
      <3>3. <<c, config[c]>>[2] = config[c]
        OBVIOUS
      <3>4. \E x \in todo'[s] : y \in NamedBy(x[2])
        BY <3>1, <3>2, <3>3
      <3> QED
        BY <3>4 DEF InTodo
    <2> QED
      BY <2>1, <2>2 DEF Covered
  <1>3. CASE VoteForAttribute(s)
    <2>1. PICK x \in todo[s] :
            \/ /\ x[2].role = None
               /\ Match(s, todo[s] \ {x}, x[2].attr \in attrs, FALSE)
               /\ UNCHANGED <<conf, skip>>
            \/ /\ x[2].role # None
               /\ todo' = [todo EXCEPT ![s] = @ \ {x}]
               /\ conf' = [conf EXCEPT ![s] = x[2]]
               /\ skip' = [skip EXCEPT ![s] = x[2].attr \in attrs]
               /\ Goto(s, "findRole")
      BY <1>3 DEF VoteForAttribute
    <2>2. \A y \in standing[s] : InTodo(s, y)
      BY <1>3 DEF VoteForAttribute, Covered
    <2>3. ASSUME NEW y \in standing[s], y \in NamedBy(x[2])
          PROVE  \/ y = <<"role", x[2].role>> /\ x[2].role \in held
                 \/ x[2].attr \in attrs
      <3> DEFINE c == x[2]
      <3>1. y \in NamedBy(c)
        BY <2>3
      <3> HIDE DEF c
      <3>2. \/ y = <<"role", c.role>> /\ c.role \in held
            \/ c.attr \in attrs
        BY <3>1, VoteFinds
      <3> QED
        BY <3>2 DEF c
    <2>4. CASE x[2].role = None
      <3>1. \/ pc'[s] = "remove"
            \/ /\ pc'[s] = "attribute" /\ todo'[s] = todo[s] \ {x}
               /\ x[2].attr \notin attrs
        BY <2>1, <2>4 DEF Match, SkipsOtp, TypeOK
      <3>2. x[2].role \notin held
        BY <2>4, ConditionalOtpAssumption DEF TypeOK
      <3>3. pc'[s] = "attribute" => \A y \in standing'[s] : InTodo(s, y)'
        BY <1>0, <2>2, <2>3, <3>1, <3>2 DEF InTodo
      <3> QED
        BY <3>1, <3>3 DEF Covered
    <2>5. CASE x[2].role # None
      <3>0. x[2].attr \in attrs => skip'[s]
        <4>1. skip' = [skip EXCEPT ![s] = x[2].attr \in attrs]
          BY <2>1, <2>5
        <4> QED
          BY <4>1 DEF TypeOK
      <3>1. /\ pc'[s] = "findRole" /\ todo'[s] = todo[s] \ {x} /\ conf'[s] = x[2]
        BY <2>1, <2>5 DEF TypeOK
      <3>2. ASSUME ~skip'[s], NEW y \in standing'[s]
            PROVE  InTodo(s, y)' \/ InVote(s, y)'
        <4>1. CASE y \in NamedBy(x[2])
          BY <1>0, <2>3, <3>0, <3>1, <3>2, <4>1 DEF InVote
        <4>2. CASE y \notin NamedBy(x[2])
          BY <1>0, <2>2, <3>1, <4>2 DEF InTodo
        <4> QED
          BY <4>1, <4>2
      <3> QED
        BY <3>1, <3>2 DEF Covered
    <2> QED
      BY <2>4, <2>5
  <1>4. CASE FindRole(s, "findRole", "hasRole")
    <2>1. CASE conf[s].role \in roles
      <3>1. /\ UNCHANGED <<todo, conf, skip>> /\ pc'[s] = "hasRole"
            /\ found'[s] = conf[s].role /\ pc[s] = "findRole"
        BY <1>4, <2>1 DEF FindRole, TypeOK
      <3>2. \A y \in standing'[s] : InTodo(s, y) => InTodo(s, y)'
        BY <3>1 DEF InTodo
      <3>3. \A y \in standing'[s] : InVote(s, y) => InVote(s, y)'
        BY <3>1 DEF InVote
      <3> QED
        BY <1>0, <3>1, <3>2, <3>3 DEF Covered
    <2>2. CASE conf[s].role \notin roles
      <3>1. pc'[s] = "failed"
        BY <1>4, <2>2 DEF FindRole, TypeOK
      <3> QED
        BY <3>1 DEF Covered
    <2> QED
      BY <2>1, <2>2
  <1>5. CASE VoteForRole(s)
    <2>1. /\ pc[s] = "hasRole"
          /\ \/ pc'[s] = "remove"
             \/ /\ pc'[s] = "attribute" /\ todo'[s] = todo[s]
                /\ ~skip[s] /\ found[s] \notin held
      BY <1>5 DEF VoteForRole, Match, SkipsOtp, TypeOK
    <2>2. ASSUME found[s] \notin held, NEW y \in standing[s] PROVE ~InVote(s, y)
      BY <2>1, <2>2 DEF InVote, Noted, Had
    <2>3. pc'[s] = "attribute" => \A y \in standing'[s] : InTodo(s, y)'
      BY <1>0, <2>1, <2>2 DEF Covered, InTodo
    <2> QED
      BY <2>1, <2>3 DEF Covered
  <1>6. CASE LookForAction(s)
    <2>1. /\ pc[s] = "attribute" /\ todo[s] = {}
          /\ pc'[s] \in {"add", "required"}
      BY <1>6 DEF LookForAction, TypeOK
    <2>2. ~Steady(s)
      BY <2>1 DEF Covered, InTodo, Steady
    <2> QED
      BY <1>0, <2>1, <2>2 DEF Covered
  <1> QED
    BY <1>1, <1>2, <1>3, <1>4, <1>5, <1>6 DEF Login

LEMMA SparedOwnStep ==
    ASSUME TypeOK, NEW s \in Sessions, Noted(s), Covered(s), Spared(s), Login(s)
    PROVE  Spared(s)'
  <1> USE DEF At, Goto, Spared, TypeOK, user
  <1>0. /\ Steady(s)' => Steady(s)
        /\ liable[s] \/ enrolled' => liable'[s]
    BY OwnHistory
  <1> SUFFICES ASSUME Steady(s), ~liable[s], ~enrolled'
               PROVE  /\ pc'[s] \notin {"authenticate", "findOwnRole", "hasOwnRole",
                                         "otpForm", "configure"}
                      /\ pc'[s] = "required" => ~totpAction'
    BY <1>0
  <1>1. CASE ConfiguredFor(s) \/ ReadConfigs(s)
    BY <1>1 DEF ConfiguredFor, ReadConfigs
  <1>2. CASE VoteForAttribute(s) \/ VoteForRole(s)
    <2>1. pc'[s] \in {"remove", "attribute", "findRole"}
      BY <1>2 DEF VoteForAttribute, VoteForRole, Match
    <2> QED
      BY <2>1
  <1>3. CASE FindRole(s, "findRole", "hasRole")
    BY <1>3 DEF FindRole
  <1>4. CASE RemoveRequiredAction(s) \/ RequiredActions(s)
    BY <1>4 DEF RemoveRequiredAction, RequiredActions
  <1>5. CASE LookForAction(s)
    BY <1>5 DEF LookForAction, Covered, InTodo, Steady
  <1>6. CASE AddRequiredAction(s)
    BY <1>6 DEF AddRequiredAction, Covered
  <1>7. CASE \/ Authenticate(s) \/ FindRole(s, "findOwnRole", "hasOwnRole")
             \/ VoteForOwnRole(s) \/ OtpForm(s) \/ Configure(s)
    BY <1>7 DEF Authenticate, FindRole, VoteForOwnRole, OtpForm, Configure
  <1> QED
    BY <1>1, <1>2, <1>3, <1>4, <1>5, <1>6, <1>7 DEF Login

-----------------------------------------------------------------------------
(* Every step *)

LEMMA InvOwnStep ==
    ASSUME TypeOK, NEW s \in Sessions, Inv(s), Login(s)
    PROVE  Inv(s)'
  BY NotedOwnStep, HeldOwnStep, CoveredOwnStep, SparedOwnStep DEF Inv

\* A login of another session: it takes the action away only with an excuse
\* for this one, and adds it only if it was not covered itself.
LEMMA InvLoginStep ==
    ASSUME TypeOK, NEW s \in Sessions, NEW t \in Sessions \ {s},
           Inv(s), Inv(t), Login(t) \/ Restart(t)
    PROVE  Inv(s)'
  <1>1. /\ pc'[s] = pc[s] /\ proved'[s] = proved[s] /\ todo'[s] = todo[s]
        /\ conf'[s] = conf[s] /\ skip'[s] = skip[s] /\ found'[s] = found[s]
    BY LoginTypes
  <1>2. CASE RemoveRequiredAction(t)
    <2>1. Excusable(t)
      BY <1>2 DEF RemoveRequiredAction, Inv, Noted
    <2>2. Observe({}, Sessions \ {t}, {}) /\ ~totpAction'
      BY <1>2, <2>1 DEF RemoveRequiredAction
    <2> QED
      BY <1>1, <2>2, OtherStep
  <1>3. CASE AddRequiredAction(t)
    <2>1. ~Steady(t)
      BY <1>3 DEF AddRequiredAction, Inv, Covered
    <2>2. Observe({}, {}, Sessions \ {t}) /\ totpAction'
      BY <1>3, <2>1 DEF AddRequiredAction
    <2> QED
      BY <1>1, <2>2, OtherStep
  <1>4. CASE Configure(t)
    <2>1. CASE Observe({}, Sessions \ {t}, {}) /\ totpAction' = FALSE
      BY <1>1, <2>1, OtherStep
    <2>2. CASE ObserveStep /\ UNCHANGED totpAction
      BY <1>1, <2>2, OtherStep DEF ObserveStep
    <2> QED
      BY <1>4, <2>1, <2>2 DEF Configure
  <1>5. CASE Restart(t)
    <2>1. Observe({t}, {}, {}) /\ UNCHANGED totpAction
      BY <1>5 DEF Restart, user
    <2> QED
      BY <1>1, <2>1, OtherStep
  <1>6. CASE ObserveStep /\ UNCHANGED totpAction
    BY <1>1, <1>6, OtherStep DEF ObserveStep
  <1> QED
    BY <1>2, <1>3, <1>4, <1>5, <1>6 DEF Login, ConfiguredFor, Authenticate,
       FindRole, VoteForOwnRole, ReadConfigs, VoteForAttribute, VoteForRole,
       LookForAction, OtpForm, RequiredActions, user

LEMMA InvEditStep ==
    ASSUME TypeOK, NEW s \in Sessions, Inv(s), Edit
    PROVE  Inv(s)'
  <1>1. /\ pc'[s] = pc[s] /\ proved'[s] = proved[s] /\ todo'[s] = todo[s]
        /\ conf'[s] = conf[s] /\ skip'[s] = skip[s]
        /\ \/ found'[s] = found[s]
           \/ found'[s] = None /\ found[s] \notin held'
    BY EditTypes
  <1>2. CASE RequireEnrolment
    <2>1. Observe({}, {}, Sessions) /\ totpAction'
      BY <1>2 DEF RequireEnrolment
    <2> QED
      BY <1>1, <2>1, OtherStep
  <1>3. CASE WaiveEnrolment
    <2>1. Observe({}, Sessions, {}) /\ ~totpAction'
      BY <1>3 DEF WaiveEnrolment
    <2> QED
      BY <1>1, <2>1, OtherStep
  <1>4. CASE ObserveStep /\ UNCHANGED totpAction
    BY <1>1, <1>4, OtherStep DEF ObserveStep
  <1> QED
    BY <1>2, <1>3, <1>4 DEF Edit, EditConfig, CreateOrDeleteRole, GrantOrRevoke,
       SetOrRemoveAttribute, RemoveCredential, user

\* A session that starts again has everything before it.
LEMMA InvRestart ==
    ASSUME TypeOK, NEW s \in Sessions, Restart(s)
    PROVE  Inv(s)'
  <1>1. /\ pc'[s] = "start" /\ todo'[s] = {} /\ conf'[s] = NoConf
        /\ ~skip'[s] /\ found'[s] = None
    BY DEF Restart, Goto, EndVote, TypeOK
  <1>2. /\ namedSeen'[s] = Named' /\ hadSeen'[s] = Had'
        /\ standing'[s] \subseteq Named' \cap Had'
        /\ enrolled' => liable'[s]
    BY DEF Restart, Observe
  <1>3. NamedBy(conf'[s]) \subseteq namedSeen'[s]
    BY <1>1, NamedByConfigs
  <1> QED
    BY <1>1, <1>2, <1>3 DEF Inv, Noted, Held, Covered, Spared, At

LEMMA InvStep ==
    TypeOK /\ (\A s \in Sessions : Inv(s)) /\ [Next]_vars
    => \A s \in Sessions : Inv(s)'
  <1> SUFFICES ASSUME TypeOK, \A t \in Sessions : Inv(t), [Next]_vars,
                      NEW s \in Sessions
               PROVE  Inv(s)'
    OBVIOUS
  <1>1. CASE Login(s) \/ Restart(s)
    BY <1>1, InvOwnStep, InvRestart
  <1>2. ASSUME NEW t \in Sessions \ {s}, Login(t) \/ Restart(t)
        PROVE  Inv(s)'
    BY <1>2, InvLoginStep
  <1>3. CASE Edit
    BY <1>3, InvEditStep
  <1>4. CASE UNCHANGED vars
    BY <1>4 DEF vars, locals, realm, user, history, Inv, Noted, Held, Covered,
       Spared, InTodo, InVote, Excusable, Steady, At, Named, Had, Present
  <1> QED
    BY <1>1, <1>2, <1>3, <1>4 DEF Next

LEMMA Invariance == Spec => [](TypeOK /\ \A s \in Sessions : Inv(s))
  <1>1. Init => TypeOK /\ \A s \in Sessions : Inv(s)
    BY InitialTypes, InvInitially
  <1>2. /\ TypeOK /\ \A s \in Sessions : Inv(s)
        /\ [Next]_vars
        => (TypeOK /\ \A s \in Sessions : Inv(s))'
    BY TypeStep, InvStep
  <1> QED
    BY <1>1, <1>2, PTL DEF Spec

(* A login ends without a code only with an exemption during it, or if an   *)
(* administrator, an enrolment elsewhere or another login that had an       *)
(* exemption took the requirement away, whatever is edited between the      *)
(* reads of lines 26, 81-83, 87-89 and 100 and the writes of 99 and 102.    *)
THEOREM SecondFactorHolds == Spec => []SecondFactor
  <1>1. TypeOK /\ (\A s \in Sessions : Inv(s)) => SecondFactor
    BY DEF Inv, Held, SecondFactor, At
  <1> QED
    BY <1>1, Invariance, PTL

(* A user covered by one exemption during the whole login is not made to    *)
(* enrol unless somebody who was not covered asked for it: no read between  *)
(* lines 87 and 89 misses the exemption.                                    *)
THEOREM ExemptIsNotEnrolled == Spec => []ExemptNotEnrolled
  <1>1. TypeOK /\ (\A s \in Sessions : Inv(s)) => ExemptNotEnrolled
    BY DEF Inv, Spared, ExemptNotEnrolled, At
  <1> QED
    BY <1>1, Invariance, PTL

=============================================================================
