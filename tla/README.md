# Verification of the Keycloak extensions

TLA+ models of the extensions in `src/src/main/java/tr/com/trs/extension` and of the
login theme in `src/themes/ts-keycloak-theme/login`, the TLC runs that check them, and
TLAPS proofs of their safety. Paths below are relative to the first of these
directories, paths of the theme to the second, unless they begin with `src/`.

## The system

The repository is a jar of providers for a Keycloak 23 server and a theme for its login
pages. Keycloak calls each
provider in the thread and the transaction of a request; the providers keep no state
of their own and read and write Keycloak's (authentication sessions, users, groups,
roles, user sessions) and three tables of another application. What is hard in them
is therefore what happens around them: several requests of one user, administrators
who edit what a request has just read, and calls (captcha service, directory, mail
server, a thread pool) that fail, hang or come late. The theme is one JavaScript module of
custom elements, built on the bundled library Lit. What is hard in it is order: parser,
module, microtasks, scripts and reader take turns, and nothing says who comes first.

| Component | Source | State it uses | Operations | What makes it correct |
|---|---|---|---|---|
| username and password authenticator | `authenticator/usernamepassword/`, `src/themes/.../login.ftl` | authentication session (user, note), the event's error, the brute force detector's counts, the browser's page | form shown, form sent (captcha, password check, lock, directory lookup and bind) | a login is by the account named and a password that proves it; a retry is meant to answer a captcha; one failure counted per refusal; a refused login leaves no user; every form is answered |
| conditional OTP authenticator | `authenticator/customotp/` | configurations, roles, attributes, credential, required actions of the user | votes, OTP form, adding and removing the required action | nobody passes without a code or an excuse; nobody whom one exemption covers all the time is made to enrol |
| IP authenticator | `authenticator/iprestricted/` | groups of the user, their attribute `IP_ADRES`, table `istisna` | one check in three reads | let in by one group that allowed it; sent back for a cause |
| logout endpoint | `customapi/` | user sessions | `GET logout/{userId}` | the sessions the user had are gone after the reply, others are not |
| last login listener | `eventlistener/KCEventListener.java`, `onEvent(Event)` | a user attribute, the common thread pool | set the attribute asynchronously | the date stored is of a login; the login does not wait |
| welcome mail listener | `eventlistener/KCEventListener.java`, `onEvent(AdminEvent)` | the user being created, the mail server | send a mail inside the creating transaction | the registered are written to, staff is not |
| token mappers | `custommapper/`, `util/` | groups and an attribute of the user, tables `islem_grup...` | the claims of a token, the last in four reads and one of each name | a claim has what was true while the token was made, and all that was true throughout; the request fails only for rows that name deleted groups |
| login theme components | `resources/assets/js/ts-components.js`, `template.ftl`, the password fields of `login.ftl` and `login-update-password.ftl` | the elements of a page and their pending updates, the password fields, the window | elements are parsed, upgraded, rendered; a message changes its type and is closed; a password is shown and hidden | a message is on the screen in the type asked for until it is closed; one logo and one copyright at every width; the updates run out |
| factories, version, profile | `*Factory.java`, `KCEventListenerProvider`, `PropertiesReader`, `ProfileUtil` | none | registration, console settings, `getId` | - |
| vendored LDAP classes | `src/src/test/java/.../LDAPConfig.java`, `model/` | none | parse and print distinguished names; nothing uses them | - |
| login flow | the realm's configuration | - | the order of the authenticators | not in the repository |
| email theme, container, pom | `src/themes/.../email`, `src/container`, `src/pom.xml` | none | layout, deployment, build | - |

Interaction. Keycloak runs the authenticators in the order of the realm's flow: the
password step sets the user on the session, the OTP step needs that user, the IP step
reads the user's groups. A finished login fires the LOGIN event (last login
listener), then the mappers write its tokens. The gateway calls the logout endpoint.
The admin console triggers the welcome mail. The parts share the user (attributes,
groups, required actions) and the authentication session. The pages of the login steps
are those of the theme: the message an authenticator sets on its form becomes the
`<ts-alert>` of `template.ftl`, its fields become the password fields of the page.

## Modules

One module per component (two for the theme: its element and the page it is on), for
four of them an abstract module with what the component promises (`LoginPromise`,
`LogoutPromise`, `LoginDatePromise`, `AlertView`), one `...Proofs`
module for the theorems, one `MC...` module with the constants for TLC. Every module is parameterised by the sets of sessions,
users, groups and so on. Handlers are cut into actions at the points where another
actor can come in between: a call that leaves the process, or a separate read or write of
shared data. What Keycloak's own classes check in one call (the account, its lock and its
password, at line 94 of the login) is one step. `PROJECT.json` maps every definition to its lines. What is Keycloak's
own (its base class, its transactions, its sessions) is modelled as the extension
relies on it and is marked external there.

**UsernamePassword** (`CustomUsernamePasswordRecaptcha`, `login.ftl`). `pc` is where a
tab's request is, `page` what the browser shows, `form` what it sent, `authUser` and
`userSetBefore` the authentication session, `err` the local `validUserErrorMessage`
(read at line 87, used at 91 and 101), `result` the last challenge put on the
flow context, `failures` and `enabled` the realm. `CaptchaControl` is `captchaControl`
(line 85), `ValidateForm` lines 86 to 98, `ValidateUser` lines 98 to 106,
`LdapLookup` line 111, `LdapBind` lines 112 to 125. `ProcessResult` is Keycloak acting
on the context: only a failure challenge is counted, and not beyond the lock. `FormsOf`
says which fields the page of `login.ftl` sends: no radio buttons and no user name when
the name is hidden, and a captcha field only where `clearForm` had the widget loaded, and
there not always: `login.ftl` has only the widget's div (lines 53 to 55), the field is put
into it by Google's script, and line 145 goes on without a captcha if it is missing.
Passwords are abstracted to what they match.

**LoginPromise** is the form without notes, pages and messages: `Ask`, `Hear` (the captcha
is passed or not asked for), `Clear` (the account is fit, and the realm's own password
right), `Admit`, `Refuse`, `Doom` (the account is found locked), `TurnAway`, the two
answers, `StartAgain`. `UsernamePassword` brings it in with `Phase` (`form` and `user` are
"heard", `user` is "doomed" if `err` remembers a lock, `lookup` and `bind` are "cleared"; a challenge
on the context is what its status makes of it) and `Attempt` (of a form, only the account, the way it asks for, whether it is
whole and whether the password proves the account). The directory lookup that finds somebody
and all pages are stutters. It says more than the invariants: a fit account with the right
password is refused by nobody but the directory; past the captcha, an attempt is turned
away only if its form was not whole, the directory fails, or the account was locked at some
moment since. The lock that `err` remembers from line 87 does decide something: line 101
refuses a directory login on it, though the second look (line 94) found the account fit. `Doom`
is what the code may do with it and no more: it must have been a lock of this account
after the captcha, and the answer counts no failure.

**ConditionalOtp** (`ConditionalOtpAuthenticator`). Every read and write is an action:
`ConfiguredFor` is Keycloak's question to the factory; `Authenticate` reads the configuration (line
26), `FindRole` the role (81), `VoteForOwnRole` whether the user has it (83) and concludes, on
the role alone, because `tryConcludeBasedOn` always does. `ReadConfigs` opens the stream of
line 87, `VoteForAttribute` is line 88, `FindRole` and `VoteForRole` are line 89 with its two reads,
for one configuration after the other, in any order and up to the first match.
`RemoveRequiredAction` (99), `LookForAction` (100) and `AddRequiredAction` (102) are what
follows. `OtpForm`, `RequiredActions` and `Configure` are Keycloak's. Administrators edit
configurations, roles, attributes, the credential and the required action between any two
of them. `namedSeen`, `hadSeen`, `standing`, `excused` and `liable` are history: the exemptions
that were configured, and that the user had, at some moment since the session began; those
that were both all the time; whether somebody took the enrolment off the user, or it was due.
A write is visible to the next read of anybody; that others see it only at the commit of
the request is left out.

**IpRestricted** (`IPAuthenticator`). `PickGroup`, `ReadAttributes` and `CheckAddress`
are the three reads of `authenticate` (lines 20, 25 and 30). The group and the value
come from unordered collections and are chosen nondeterministically. `seen` is history.

**LogoutApi** (`CustomResourceProvider`). `Request` is the lookup, `BackchannelLogout` one
element of the stream, `Reply` the commit and the reply, `Fail` an exception. `standing`
is history: the sessions there were when the call began.

**LogoutPromise** has the call end all its sessions in one step, `EndSessions`, or none,
`GiveUp`. `LogoutApi` brings it in with `due <- standing`: the visits of the stream are
stutters, `Reply` is `EndSessions`, `Fail` is `GiveUp`, and a call for an unknown user is
answered by `Ask` itself.

**LastLogin** (`KCEventListener.onEvent(Event)`). A request is open from the event to its
commit; its task is queued by the event and runs whenever the pool lets it, before the
commit (its write is in the update), after it (lost, though logged) or after the
session's end (an exception nobody looks at). The two threads use one persistence
context that is not made for two; `Rollback` and `TaskThrows` stand for what else that
can lead to. `began`, `ended` and `before` are history.

**LoginDatePromise** knows no task, thread or transaction: a login begins and ends, and its
end may put a moment of the login in place of the stored date. `OnEvent` is `Begin`,
`Commit` and `Rollback` are `End`; what the task does, and `Close`, are stutters.

**WelcomeMail** (`KCEventListener.onEvent(AdminEvent)`). A request inserts a user under a
unique name, the listener runs (`MissingType`, `Staff`, `Send`, `SendFails`), then the
transaction commits or not. Users are deleted and created again.

**TokenMappers** (`setClaim` of the three mappers, with `getGroupsWithAttributes` and
`getUserWithAttributes`). `pc` walks through one token request. `ReadType` and `ReadGroups`
are lines 57 and 58 of `ActionableGroupsMapper`, both taken before a branch is chosen;
`QueryRows` and `Lookup` are the query and one `getGroupById` of `getActionGroupsOfUser`;
`PutGroup` and `PutActionGroup` are one turn of the loop of `getGroupsWithAttributes`, which
reads the name at line 24 and puts the group in the place of another of that name (`Put`);
sets have no order. `PutNull` is the turn that comes to a null. Administrators and the
other application edit memberships, rows, the attribute and the groups between any two
steps, and rename the groups. `memberSeen` and `memberStood`, `rowSeen` and `rowStood`,
`nameSeen` are history: what was there, or was borne, at some, and at every, moment.

**TsAlert** (`<ts-alert>`, lines 197 to 246 of `ts-components.js`, with the update cycle
of Lit, lines 11, 17 and 23). `stage` is how far the element has come: parsed before its
definition and upgraded by `Define` in one go, or parsed after it in three steps
(`Construct`, `AttributeAdded`, `Connect`) with a microtask checkpoint between them.
`WriteType` is the accessor that requests an update, `isUpdatePending` the request,
`PerformUpdate` the microtask: it first gives back a property that was set before the
upgrade (`own`), renders, and writes the class attribute only if its value is another than
the one last written. `Close` adds a class behind the back of that comparison, so
`PerformUpdate` takes it away exactly when the type changes.

**AlertView** is what the element promises, without update cycle, attribute or
stages: `asked`, `shown`, `closed`, `live`, and four actions. `TsAlert` brings it in with
`asked <- Asked, shown <- rendered, live <- stage = "connected"`. Parsing and writes become
`Ask` (nothing, for an attribute that a property overrides), `Connect` and the upgrade by
`Define` become `Begin`, `Construct` becomes nothing, `PerformUpdate` becomes `CatchUp`, or
nothing if the type did not change after all, and `Close` is `Close`.

**LoginPage** extends `TsAlert` by the rest of the page. `element` is the stage of layout,
sidebar, content and the two copyrights in their shadow trees; `fields` counts the
password fields parsed so far, of which `RunModule` takes those that are there into groups
with a button (`toggled`); `clear` are the fields shown in clear. The other scripts of a page
touch nothing of this: the check for a login in another tab (`template.ftl`, line 20), Keycloak's
`passwordVisibility.js` (`login-update-password.ftl`, line 59), which finds none of its own buttons
here, and Google's, which fills the captcha's div. The module is loaded with `async`, so it runs at any point of
the parsing. `Quiet` is the point between two tasks at which the browser may paint, handle
a click or go on parsing. `SidebarShown`, `ContentHeaderShown`, `LogoWidth` and `Columns`
are the media queries of three style sheets. Nothing of the page is sent anywhere: what its forms send is modelled in
`UsernamePassword`.

## Runs

`pass` runs check what holds; each property has a mutant in `PROJECT.json`, a changed
definition that breaks it. `violation` runs refute a sentence of the repository and are
described under "Findings".

| Run | Bounds | Checks |
|---|---|---|
| `login_one_tab` | 1 tab, 2 accounts and an unknown name, 4 kinds of password, lock after 2 | `Authentic`, `StandardRefusalForgetsUser`, `KeepsLoginPromise`, `Answered` |
| `login_two_tabs` | 2 tabs, 1 account, 2 kinds of password, lock after 2 | `CountedOnce`, `KeepsLoginPromise` |
| `otp` | 2 sessions, 2 configurations, 1 role, 1 attribute, 2 edits | `SecondFactor`, `ExemptNotEnrolled` |
| `ip` | 1 session, 2 groups, 2 addresses, 2 lists | `AdmittedWasAllowed`, `RefusedForCause` |
| `logout_api` | 2 calls, 2 users and an unknown id, 3 sessions | `StandingSessionsEnd`, `OthersKept`, `KeepsLogoutPromise` |
| `last_login` | 2 requests, 2 users, clock to 3 | `StoredDuringLogin`, `NoOlderThanBefore`, `KeepsDatePromise`, `LoginNotDelayed` |
| `welcome_mail` | 3 requests, 2 names | `RegisteredAreWelcomed` |
| `token_mappers` | 3 groups of 2 names, 2 edits during the request | `ClaimWasTrue`, `StandingClaimed`, `FailedForDeleted`, `ClaimsAgree` |
| `login_page` | 2 password fields, 4 types of message, widths 449, 450, 1023, 1024 | `MessageShown`, `PageLaidOut`, `KeepsPromise`, `UpdatesRunOut`, `Settles` |

Each pass run checks `TypeOK` of its module too (of the two login runs, the first).

Why the bounds are enough to be of interest. Two tabs are what it takes for one to pass
the lock between two checks of the other, and two failures are a lock that is neither
immediate nor far away; two accounts let one session carry the wrong user. `KeepsLoginPromise`
is checked in both: alone with every kind of password (one that both the realm and the directory know is left to the
other run), and with a second tab that changes
the counts in between. Two OTP
configurations make "any configuration" differ from "its own", and two sessions of one
user can undo each other's required action; the run begins with a user who has no
credential yet, the OTP execution naming both exemptions and the other configuration the
attribute or missing (`MCInit`): an edit leads away from there, an enrolment to the states
with a credential, and the proofs know no such restriction. One session suffices for the IP check because
sessions share nothing they write. Two logins overlap or follow each other; three
seconds let event, task and commit of one fall into different seconds. Three requests for
two names are a conflict, a repetition after a rollback or a deletion, and a bystander.
Three groups are two namesakes and a third; two edits let the groups and the rows, or
the attribute and a membership, or a membership and a name, change between different reads;
but for the names, any state before the request is an initial state. The widths are the two sides of the breakpoints of
the style sheets that decide what is shown; two fields are those of the form that
changes a password. The proofs say that larger numbers change nothing for the safety
properties. The bounds that are not sets of actors are `MaxFailures`, the factor of the
realm, `MaxTime`, at which the clock stops, and `MaxEdits`; requests and session
identifiers are used once. Symmetry is declared over sessions, calls, users, requests,
names and groups of one name, in no run with a liveness property. In `LastLogin`,
`WelcomeMail` and `TokenMappers` everything stops when the requests are used up, so these
runs do not look for deadlock; the other pass runs do.

**Fairness.** `UsernamePassword!FairSpec` has weak fairness of `Local(s)`, the steps the
server takes by itself once a form is there: its thread goes on, and Keycloak's HTTP
client, used for the captcha, has a timeout. Nothing is assumed of browsers,
administrators or the directory, whose configuration (lines 61 to 72) sets no timeout;
`Answered` therefore excepts requests that wait for it. `LastLogin!Spec` has weak
fairness of the end of each request and none of the tasks: the common pool may be busy.
`LoginPage!Spec` has weak fairness of `Browser`, the microtasks and the callbacks of the
parser: an event loop runs the microtasks that a task has left before it does anything
else. Nothing is assumed of the parser, which waits for the network, of the module,
which may never arrive, or of the reader. All other specifications state safety only.

## Findings

Refuted by a run:

- `login_password_only`: a directory login that fails leaves a user on the session; the
  page, reloaded, has no radio buttons, and line 90 dereferences the missing field.
- `login_captcha`: a form that lacks the captcha field, from a page that asks for a captcha, has its
  password checked.
- `last_login_logged`: the log says the time was set when it was lost.

Read in the source while modelling, without a run of their own:

- `loadLDAPUserByUsername` (line 111) is outside the `try`: an unreachable directory ends in
  Keycloak's error page and not in the message of line 120 (`Exception` in `LdapLookup`).
- The setting `allowed_ip_address` of the IP authenticator is offered and never read.
- `logoutUser` replies "User logout edildi" for ids that no user has, and while a session
  that began during the call still stands.
- The two parts of the welcome mail choose their links by `isDev` (line 96) and
  `isStaging` (line 138): except on the staging server they lead to different servers.
- For an enrolled user the attribute is never voted on: the vote on the role (line 27 of
  `ConditionalOtpAuthenticator`) concludes either way, and line 30 is not reached. The help text of
  the setting promises the exemption without this restriction
  (`ConditionalOtpAuthenticatorFactory`, line 103).
- A vote of lines 87 to 91 may be stale when it is acted on. A login that votes "exempt", and loses
  the exemption after that, removes at line 99 the CONFIGURE_TOTP that another session of the user
  has added at line 102 meanwhile, after logging "Kullanıcıya OTP zorunlu hale getirildi"; that session
  finishes with no code. Conversely an exemption that is moved from the role to the attribute
  between lines 88 and 89 is seen in neither place, and the user is made to enrol. `SecondFactor`
  and `ExemptNotEnrolled` say what holds in spite of this.
- Line 101 refuses a directory login for the lock that line 87 remembers, though line 94 has found the
  account fit again; the reader is told to wait, no failure is counted.
- Logins that overlap may leave the older of their dates stored: `NoOlderThanBefore` protects only
  what was stored before the event.
- An OTP execution without a configuration makes line 26 of `ConditionalOtpAuthenticator`
  yield null, and the login is aborted (`Authenticate` has this outcome).
- A role deleted under an OTP configuration aborts logins: `userHasRole` calls
  `role.getName()` (line 82) before it tests `role != null` (line 83). `FindRole` has this outcome.
- The welcome mail leaves at line 140, inside the transaction that creates the user, and
  says that the user has been registered; a commit that fails leaves a mail for a user who
  does not exist (`Rollback` of a request that was heard).
- `ActionableGroupsMapper`: a row that names a deleted group puts a null among the groups
  (line 98), and every token request of such a user fails until the row is removed.
- Claims are keyed by the name of the group: of two groups of one name under
  different parents one is lost, a group renamed between two mappers of a token is in it under two
  names, and an attribute of a group named `id` or `parent_id`
  replaces the identifier (`GroupModelUtil`, lines 19 to 24).
- `KULLANICIGRUPISLEMTIPI` with several values is claimed as its first
  (`UserModelUtil`), while `ActionableGroupsMapper` asks which values there are.
- `template.ftl` line 36 says `defer async`: `async` wins, so a password field that is parsed
  after the module has run never gets the button that shows it.
- A message that a script sets to the type it already has stays closed, though the script
  asked for a message (`TsAlert`, `SetProperty` after `Close`).
- The module moves the autofocused field of `login-update-password.ftl` (line 13), and a field that
  is moved loses the focus.

## Proofs

TLAPS proves, for every value of the constants, all safety properties of the `pass` runs,
the four refinements included:

| Module | Theorems | Argument |
|---|---|---|
| `UsernamePasswordProofs` | `TypeCorrect`, `LoginIsAuthentic`, `RefusalForgets`, `AnswersAreCountedOnce`, `PromiseIsKept` | below |
| `ConditionalOtpProofs` | `TypeCorrect`, `SecondFactorHolds`, `ExemptIsNotEnrolled` | below |
| `IpRestrictedProofs` | `TypeCorrect`, `AdmissionIsJustified`, `RefusalHasCause` | `BorneOut`: what was read is among what was seen |
| `LogoutApiProofs` | `TypeCorrect`, `StandingSessionsAreEnded`, `OtherSessionsAreKept`, `PromiseIsKept` | `OfTheUser`: identifiers are not reused, so a session a call knows about is its user's or ended |
| `LastLoginProofs` | `TypeCorrect`, `DateIsOfALogin`, `OnlyOverlapRegresses`, `PromiseIsKept` | `InOrder`: stored before, event, task, now |
| `TokenMappersProofs` | `TypeCorrect`, `ClaimsAreTrue`, `StandingAreClaimed`, `FailuresAreOfDeleted`, `BothClaimsAgree` | at each step of the request, what is claimed or still to be put there lies between what stood and what was seen, for the branch the attribute takes (`Sound`, `Complete`) |
| `LoginPageProofs` | `TypeCorrect`, `AlertImplementsView`, `PageImplementsAlert`, `PromiseKept`, `MessageAlwaysShown`, `PageAlwaysLaidOut`, `UpdatesAlwaysRunOut` | below |
| `WelcomeMailProofs` | `TypeCorrect`, `WelcomeHolds` | `HeardByType`, `CreatorDone`: who is a user was created by a request that is over, whose listener answered to the type |

Each follows one pattern: an inductive invariant `Inv`, `Init => Inv`, one lemma or step per
action for `Inv /\ [Next]_vars => Inv'`, and the property from `Inv`. None of the properties
is inductive by itself. For `UsernamePassword` the strengthening has four parts:
`NoteMeansHidden` (the note on the session goes with a page without a name),
`Established` (at each point of the handler, what the checks passed so far have shown of
the user and the password), `Coherent` (the challenge on the context fits the point
of the handler) and `Forgotten` (a refusal on its way to the browser has cleared the
user).

`ConditionalOtp` has four as well, for each session: `Noted` (what a vote goes through, has
looked up or has found was configured, and had, at some moment: a vote that ends in the
removal had an exemption), `Held` (without an excuse, a session that has sent no code meets the
required action and is not done), `Covered` (while one exemption stands, a vote cannot run out
of configurations: the one that names it is still to come or is being voted on, and no vote
ends in the addition) and `Spared` (nobody has asked a user so covered for anything: no
credential, no action when the flow ends).

The three `PromiseIsKept` follow one pattern too: initial states map to initial states
and every step maps to a step of the promise or a stutter (`StepSimulates`, one
lemma per kind of step), under what was proved invariant before: typing for the login, the
module's `Inv` for the other two. Where the mapping is more than a
renaming, a lemma says why it is right:

- `UsernamePassword`: `ChecksAreFitness` turns the handler's own checks (the user is found,
  enabled and not locked) into the promise's `Fit`, at the moment of the second reading of the
  lock; `AnswerPhases` reads the outcome of an attempt off the challenge that the handler leaves;
  `StepsAreLocal` and `MoveSimulated` say that a step of one tab moves no other tab's attempt.
- `LogoutApi` (`RemovalsFit`): `Reply` ends what the transaction has gathered, and `Inv` says that this is all
  that was due and still there, and of this user alone.
- `LastLogin` (`CommitEnds`): the date a commit stores was written by the task of this request, after its
  event (`InOrder`).

`UpdatesAlwaysRunOut` is the part of `Settles` that needs no fairness: `Work` counts the
updates that wait and those they will cause, it is 0 exactly on a quiet page, and every step
of `Browser` lowers it. With the weak fairness of `Browser` that is the whole argument for
`Settles`; only its last step, through `ENABLED`, is left to TLC.

The refinement of `AlertView` goes in two steps. `AlertStepSimulates` shows that a step of the element is a
step of `AlertView` or a stutter; it rests on `AlertInv`, whose heart is that an element
with no update pending shows what its property says, and one that was never updated has an
update pending. `AlertImplementsView` is that for the element alone, under any page.
`PageImplementsAlert` shows that the page only ever takes the element's own steps, so
`PromiseKept` follows without looking at the page again, and `MessageAlwaysShown` from the
same invariant. `PageAlwaysLaidOut` adds what the page needs: no element stays
unknown once the module has run, and a rendered one has its copyright with it.

The assumptions are the named `ASSUME`s of the modules: null values are not
members, the bounds are positive, names are users or null. TLC evaluates them in the runs.

Model-checked only: `Answered`, `LoginNotDelayed` and `Settles` (liveness is out of the
prover's reach) and the refuted properties, whose evidence is a counterexample.

## Not modelled

- Audit events and logging, except where a log line is a claim; the radio values a browser
  cannot send from the page; factories and console settings beyond those that an
  authenticator reads; `PropertiesReader`, `ProfileUtil`; the text and the links of the
  welcome mail, which is why that component is only partly modelled.
- Keycloak's caches: a read gives what is committed. The commit itself is one step: that
  Infinispan removes sessions key by key, and may stop half way, is not modelled.
- Attributes of groups in a claim, and all attributes of the user but the one that a mapper
  compares.
- Of the theme: the slider that is bundled in the first line of `ts-components.js` (a
  third-party library), the icon, paddings and pictures, the focus of a field, reflection,
  converters and controllers of Lit, which no element here uses, and pages that remove
  elements again. A script that runs as a microtask of its own between the creation of
  an element and its first update is not modelled either.
- The order of the three authenticators in a flow: it is configuration of a realm and not
  in the repository. `ConditionalOtp` and `IpRestricted` therefore take what the steps before
  them leave behind as an external action.
- The vendored LDAP classes, which nothing in the repository uses; the email theme; the
  build and the deployment.

## Plan

What could be added without inventing anything: the links of the welcome mail as functions of
the two profile switches; the attributes of groups in a claim; an abstract specification
of the IP check and of a token request, whose invariants say the same already; the focus of
the password fields on the page.
