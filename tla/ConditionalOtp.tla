---------------------------- MODULE ConditionalOtp ----------------------------
(***************************************************************************)
(* ConditionalOtpAuthenticator: the second factor, asked for unless a role *)
(* or an attribute of the user is an exemption.  An enrolled user is asked *)
(* for a code; a user with no OTP credential gets or loses the required    *)
(* action CONFIGURE_TOTP, which Keycloak runs after the flow.              *)
(* One user logs in from several browsers while administrators edit roles, *)
(* attributes, credentials and the configurations of the realm.  Every     *)
(* read and every write of the handlers is a step of its own.              *)
(***************************************************************************)
EXTENDS Naturals

CONSTANTS
    Sessions,   \* authentication sessions of the user
    Configs,    \* names of authenticator configurations of the realm
    Own,        \* the configuration bound to the OTP execution
    Roles,      \* values of the config key skipOtpRole
    Attrs,      \* values of the config key otpControlAttribute
    None,       \* a key that is not set; a configuration that does not exist
    MaxEdits    \* bound: edits of administrators

Config == [role: Roles \cup {None}, attr: Attrs \cup {None}]

ASSUME ConditionalOtpAssumption ==
    /\ Own \in Configs
    /\ None \notin Roles \cup Attrs \cup Config
    /\ MaxEdits \in Nat

VARIABLES
    pc,          \* where a session is between password and login
    proved,      \* the session has sent a valid code
    todo,        \* configurations of the stream that are not yet voted on
    conf,        \* the configuration whose votes are being taken
    skip,        \* skipOTPUserBase
    found,       \* the role of conf, once it is looked up
    config,      \* the authenticator configurations of the realm
    roles,       \* roles that exist in the realm
    held,        \* roles of the user
    attrs,       \* attributes the user has a value of
    enrolled,    \* the user has an OTP credential
    totpAction,  \* CONFIGURE_TOTP is among the user's required actions
    edits,       \* edits of administrators so far
    namedSeen,   \* history: exemptions configured at some moment of the session
    hadSeen,     \* history: exemptions the user had at some moment of it
    standing,    \* history: exemptions configured and had at every moment of it
    excused,     \* history: somebody took the enrolment off the user
    liable       \* history: an enrolment was due at some moment of it

locals  == <<todo, conf, skip, found>>
realm   == <<config, roles, held, attrs>>
user    == <<enrolled, totpAction>>
history == <<namedSeen, hadSeen, standing, excused, liable>>
vars    == <<pc, proved, locals, realm, user, edits, history>>

Steps == {"start", "authenticate", "findOwnRole", "hasOwnRole", "otpForm",
          "setup", "attribute", "findRole", "hasRole", "remove", "add",
          "required", "configure", "done", "failed"}

NoConf  == [role |-> None, attr |-> None]
Present == {c \in Configs : config[c] # None}

-----------------------------------------------------------------------------
(* Exemptions and their history *)

Exemptions == ({"role"} \X Roles) \cup ({"attr"} \X Attrs)

NamedBy(c) ==
    {x \in Exemptions : x = <<"role", c.role>> \/ x = <<"attr", c.attr>>}

\* What the console promises to exempt, and what of it the user has.
Named == {x \in Exemptions : \E c \in Present : x \in NamedBy(config[c])}
Had   == ({"role"} \X held) \cup ({"attr"} \X attrs)

\* The user had, during the session, an exemption configured during it.
Excusable(s) == namedSeen[s] \cap hadSeen[s] # {}

\* One exemption covered the user from the start of the session until now.
Steady(s) == standing[s] # {}

\* After each step: the sessions of started begin here, somebody has taken the
\* enrolment off the user for those of waived, or asked for it in asked.
Observe(started, waived, asked) ==
    /\ namedSeen' = [s \in Sessions |->
         Named' \cup IF s \in started THEN {} ELSE namedSeen[s]]
    /\ hadSeen' = [s \in Sessions |->
         Had' \cup IF s \in started THEN {} ELSE hadSeen[s]]
    /\ standing' = [s \in Sessions |->
         {x \in Named' \cap Had' : s \in started \/ x \in standing[s]}]
    /\ excused' = [s \in Sessions |->
         s \notin started /\ (excused[s] \/ s \in waived)]
    /\ liable' = [s \in Sessions |->
         enrolled' \/ (s \notin started /\ (liable[s] \/ s \in asked))]

ObserveStep == Observe({}, {}, {})

-----------------------------------------------------------------------------
(* One login *)

At(s, step) == pc[s] = step
Goto(s, step) == pc' = [pc EXCEPT ![s] = step]

\* Keycloak asks configuredFor before it calls the authenticator.
ConfiguredFor(s) ==
    /\ At(s, "start")
    /\ Goto(s, IF enrolled THEN "authenticate" ELSE "setup")
    /\ UNCHANGED <<proved, locals, realm, user, edits>>
    /\ ObserveStep

\* Every vote concludes, so authenticate does not vote on the attribute.
tryConcludeBasedOn(vote) == IF vote THEN "required" ELSE "otpForm"

\* context.getAuthenticatorConfig() is null for an execution without one.
Authenticate(s) ==
    /\ At(s, "authenticate")
    /\ \/ /\ Own \notin Present
          /\ Goto(s, "failed")
          /\ UNCHANGED conf
       \/ /\ Own \in Present
          /\ config[Own].role = None
          /\ Goto(s, tryConcludeBasedOn(FALSE))
          /\ UNCHANGED conf
       \/ /\ Own \in Present
          /\ config[Own].role # None
          /\ conf' = [conf EXCEPT ![s] = config[Own]]
          /\ Goto(s, "findOwnRole")
    /\ UNCHANGED <<proved, todo, skip, found, realm, user, edits>>
    /\ ObserveStep

\* The locals of a vote are gone when it is cast.
EndVote(s) ==
    /\ conf' = [conf EXCEPT ![s] = NoConf]
    /\ skip' = [skip EXCEPT ![s] = FALSE]
    /\ found' = [found EXCEPT ![s] = None]

\* getRoleFromString; of a role that is gone, role.getName() throws.
FindRole(s, here, next) ==
    /\ At(s, here)
    /\ \/ /\ conf[s].role \in roles
          /\ found' = [found EXCEPT ![s] = conf[s].role]
          /\ Goto(s, next)
          /\ UNCHANGED <<todo, conf, skip>>
       \/ /\ conf[s].role \notin roles
          /\ Goto(s, "failed")
          /\ EndVote(s)
          /\ todo' = [todo EXCEPT ![s] = {}]
    /\ UNCHANGED <<proved, realm, user, edits>>
    /\ ObserveStep

\* user.hasRole, and the conclusion of authenticate.
VoteForOwnRole(s) ==
    /\ At(s, "hasOwnRole")
    /\ Goto(s, tryConcludeBasedOn(found[s] \in held))
    /\ EndVote(s)
    /\ UNCHANGED <<proved, todo, realm, user, edits>>
    /\ ObserveStep

\* The stream hands out the configurations as they were when it was opened.
ReadConfigs(s) ==
    /\ At(s, "setup")
    /\ todo' = [todo EXCEPT ![s] = {<<c, config[c]>> : c \in Present}]
    /\ Goto(s, "attribute")
    /\ UNCHANGED <<proved, conf, skip, found, realm, user, edits>>
    /\ ObserveStep

\* Mutant: both votes needed.
BothSkip(attribute, role) == attribute /\ role

\* The lambda of isOTPNotRequired.
SkipsOtp(attribute, role) == attribute \/ role

\* anyMatch stops at the first match; left are the configurations after it.
Match(s, left, attribute, role) ==
    \/ /\ SkipsOtp(attribute, role)
       /\ todo' = [todo EXCEPT ![s] = {}]
       /\ Goto(s, "remove")
    \/ /\ ~SkipsOtp(attribute, role)
       /\ todo' = [todo EXCEPT ![s] = left]
       /\ Goto(s, "attribute")

\* The configurations come in no given order.
VoteForAttribute(s) ==
    /\ At(s, "attribute")
    /\ \E x \in todo[s] :
         LET skipOTPUserBase == x[2].attr \in attrs IN
         \/ /\ x[2].role = None
            /\ Match(s, todo[s] \ {x}, skipOTPUserBase, FALSE)
            /\ UNCHANGED <<conf, skip>>
         \/ /\ x[2].role # None
            /\ todo' = [todo EXCEPT ![s] = @ \ {x}]
            /\ conf' = [conf EXCEPT ![s] = x[2]]
            /\ skip' = [skip EXCEPT ![s] = skipOTPUserBase]
            /\ Goto(s, "findRole")
    /\ UNCHANGED <<proved, found, realm, user, edits>>
    /\ ObserveStep

VoteForRole(s) ==
    /\ At(s, "hasRole")
    /\ Match(s, todo[s], skip[s], found[s] \in held)
    /\ EndVote(s)
    /\ UNCHANGED <<proved, realm, user, edits>>
    /\ ObserveStep

\* By a vote that may be stale: it also takes away an action that another
\* session of the user has just added.
RemoveRequiredAction(s) ==
    /\ At(s, "remove")
    /\ totpAction' = FALSE
    /\ Goto(s, "required")
    /\ UNCHANGED <<proved, locals, realm, enrolled, edits>>
    /\ Observe({}, IF Excusable(s) THEN Sessions \ {s} ELSE {}, {})

\* Mutant: noneMatch turned into anyMatch.
ActionThere == totpAction

ActionMissing == ~totpAction

\* No configuration matched.
LookForAction(s) ==
    /\ At(s, "attribute") /\ todo[s] = {}
    /\ Goto(s, IF ActionMissing THEN "add" ELSE "required")
    /\ UNCHANGED <<proved, locals, realm, user, edits>>
    /\ ObserveStep

AddRequiredAction(s) ==
    /\ At(s, "add")
    /\ totpAction' = TRUE
    /\ Goto(s, "required")
    /\ UNCHANGED <<proved, locals, realm, enrolled, edits>>
    /\ Observe({}, {}, IF Steady(s) THEN {} ELSE Sessions \ {s})

\* The form of the base class: a code is right only against a credential.
OtpForm(s) ==
    /\ At(s, "otpForm")
    /\ \/ enrolled /\ Goto(s, "required") /\ proved' = [proved EXCEPT ![s] = TRUE]
       \/ Goto(s, "start") /\ UNCHANGED proved   \* the page is reloaded
    /\ UNCHANGED <<locals, realm, user, edits>>
    /\ ObserveStep

\* Keycloak's own stage after the flow reads the actions of the user.
RequiredActions(s) ==
    /\ At(s, "required")
    /\ Goto(s, IF totpAction THEN "configure" ELSE "done")
    /\ UNCHANGED <<proved, locals, realm, user, edits>>
    /\ ObserveStep

\* Enrolling stores a credential and takes the action off the user.
Configure(s) ==
    /\ At(s, "configure")
    /\ Goto(s, "required")
    /\ UNCHANGED <<locals, realm, edits>>
    /\ \/ /\ enrolled' = TRUE /\ totpAction' = FALSE
          /\ proved' = [proved EXCEPT ![s] = TRUE]
          /\ Observe({}, Sessions \ {s}, {})
       \/ /\ UNCHANGED <<enrolled, totpAction, proved>>   \* reloaded
          /\ ObserveStep

\* The password has been checked again, for a new login or after an error.
Restart(s) ==
    /\ pc[s] # "start"
    /\ Goto(s, "start")
    /\ proved' = [proved EXCEPT ![s] = FALSE]
    /\ todo' = [todo EXCEPT ![s] = {}]
    /\ EndVote(s)
    /\ UNCHANGED <<realm, user, edits>>
    /\ Observe({s}, {}, {})

-----------------------------------------------------------------------------
(* Administrators *)

Edited == edits < MaxEdits /\ edits' = edits + 1

\* The role picker of the console offers roles that exist; a configuration is
\* not touched when its role is deleted.
EditConfig(c) ==
    /\ Edited
    /\ \E new \in [role: roles \cup {None}, attr: Attrs \cup {None}] \cup {None} :
          config' = [config EXCEPT ![c] = new]
    /\ UNCHANGED <<pc, proved, locals, roles, held, attrs, user>>
    /\ ObserveStep

\* Mutant: the mapping of the role to the user outlives the role.
HeldKept(r) == held

HeldAfterDelete(r) == held \ {r}

\* A role looked up before it is deleted is nobody's, also if one of its name
\* is created again.
CreateOrDeleteRole(r) ==
    /\ Edited
    /\ \/ /\ r \in roles
          /\ roles' = roles \ {r} /\ held' = HeldAfterDelete(r)
          /\ found' = [s \in Sessions |-> IF found[s] = r THEN None ELSE found[s]]
       \/ /\ r \notin roles
          /\ roles' = roles \cup {r} /\ UNCHANGED <<held, found>>
    /\ UNCHANGED <<pc, proved, todo, conf, skip, config, attrs, user>>
    /\ ObserveStep

GrantOrRevoke(r) ==
    /\ Edited
    /\ r \in roles
    /\ held' = IF r \in held THEN held \ {r} ELSE held \cup {r}
    /\ UNCHANGED <<pc, proved, locals, config, roles, attrs, user>>
    /\ ObserveStep

SetOrRemoveAttribute(a) ==
    /\ Edited
    /\ attrs' = IF a \in attrs THEN attrs \ {a} ELSE attrs \cup {a}
    /\ UNCHANGED <<pc, proved, locals, config, roles, held, user>>
    /\ ObserveStep

RemoveCredential ==
    /\ Edited
    /\ enrolled
    /\ enrolled' = FALSE
    /\ UNCHANGED <<pc, proved, locals, realm, totpAction>>
    /\ ObserveStep

RequireEnrolment ==
    /\ Edited
    /\ totpAction' = TRUE
    /\ UNCHANGED <<pc, proved, locals, realm, enrolled>>
    /\ Observe({}, {}, Sessions)

WaiveEnrolment ==
    /\ Edited
    /\ totpAction
    /\ totpAction' = FALSE
    /\ UNCHANGED <<pc, proved, locals, realm, enrolled>>
    /\ Observe({}, Sessions, {})

-----------------------------------------------------------------------------
(* The specification *)

Login(s) ==
    \/ ConfiguredFor(s)
    \/ Authenticate(s)
    \/ FindRole(s, "findOwnRole", "hasOwnRole")
    \/ VoteForOwnRole(s)
    \/ ReadConfigs(s)
    \/ VoteForAttribute(s)
    \/ FindRole(s, "findRole", "hasRole")
    \/ VoteForRole(s)
    \/ RemoveRequiredAction(s)
    \/ LookForAction(s)
    \/ AddRequiredAction(s)
    \/ OtpForm(s)
    \/ RequiredActions(s)
    \/ Configure(s)

Edit ==
    \/ \E c \in Configs : EditConfig(c)
    \/ \E r \in Roles : CreateOrDeleteRole(r) \/ GrantOrRevoke(r)
    \/ \E a \in Attrs : SetOrRemoveAttribute(a)
    \/ RemoveCredential
    \/ RequireEnrolment
    \/ WaiveEnrolment

Init ==
    /\ pc = [s \in Sessions |-> "start"]
    /\ proved = [s \in Sessions |-> FALSE]
    /\ todo = [s \in Sessions |-> {}]
    /\ conf = [s \in Sessions |-> NoConf]
    /\ skip = [s \in Sessions |-> FALSE]
    /\ found = [s \in Sessions |-> None]
    /\ config \in [Configs -> Config \cup {None}]
    /\ roles \in SUBSET Roles
    /\ held \in SUBSET roles
    /\ attrs \in SUBSET Attrs
    /\ enrolled \in BOOLEAN
    /\ totpAction \in BOOLEAN
    /\ edits = 0
    /\ namedSeen = [s \in Sessions |-> Named]
    /\ hadSeen = [s \in Sessions |-> Had]
    /\ standing = [s \in Sessions |-> Named \cap Had]
    /\ excused = [s \in Sessions |-> FALSE]
    /\ liable = [s \in Sessions |-> enrolled]

Next ==
    \/ \E s \in Sessions : Login(s) \/ Restart(s)
    \/ Edit

Spec == Init /\ [][Next]_vars

-----------------------------------------------------------------------------
(* Properties *)

TypeOK ==
    /\ pc \in [Sessions -> Steps]
    /\ proved \in [Sessions -> BOOLEAN]
    /\ todo \in [Sessions -> SUBSET (Configs \X Config)]
    /\ conf \in [Sessions -> Config]
    /\ skip \in [Sessions -> BOOLEAN]
    /\ found \in [Sessions -> roles \cup {None}]
    /\ config \in [Configs -> Config \cup {None}]
    /\ roles \subseteq Roles
    /\ held \subseteq roles
    /\ attrs \subseteq Attrs
    /\ enrolled \in BOOLEAN
    /\ totpAction \in BOOLEAN
    /\ edits \in 0..MaxEdits
    /\ namedSeen \in [Sessions -> SUBSET Exemptions]
    /\ hadSeen \in [Sessions -> SUBSET Exemptions]
    /\ standing \in [Sessions -> SUBSET Exemptions]
    /\ excused \in [Sessions -> BOOLEAN]
    /\ liable \in [Sessions -> BOOLEAN]

\* A login that finishes without a code of its own had an exemption during it
\* (configured at one moment and held at one, as its two reads may see them),
\* or the enrolment was taken off the user by an administrator, by an enrolment
\* in another session, or by another login that had an exemption during it: an
\* action added in lines 100-103 is lost to line 99 of nobody else.
SecondFactor ==
    \A s \in Sessions :
       At(s, "done") /\ ~proved[s] => Excusable(s) \/ excused[s]

\* A user whom one and the same exemption covered during the whole login is not
\* made to enrol, unless enrolled already, or asked to by an administrator or by
\* a login that was not so covered: an action left by earlier logins is taken
\* away (line 99), and the separate reads of lines 87-89 do not miss the exemption.
ExemptNotEnrolled ==
    \A s \in Sessions : At(s, "configure") /\ Steady(s) => liable[s]

=============================================================================
