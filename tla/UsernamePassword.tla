--------------------------- MODULE UsernamePassword ---------------------------
(***************************************************************************)
(* CustomUsernamePasswordRecaptcha: the first authenticator of the login   *)
(* flow.  A browser tab holds a page, sends the form of that page, and the *)
(* server answers after a captcha check, the password check of the         *)
(* Keycloak base class and, for a directory account, two calls to LDAP.    *)
(* The handler is cut where it leaves the process (captcha service, user   *)
(* store, directory), so other tabs and administrators run in between.     *)
(***************************************************************************)
EXTENDS Naturals

CONSTANTS
    Sessions,     \* authentication sessions, one per browser tab
    Users,        \* accounts of the realm
    NoUser,       \* null; also a typed name no account has
    Names,        \* the names typed into the form
    Passwords,    \* the passwords typed into the form
    MaxFailures   \* failure factor of the brute force detector

\* A typed password by what it matches: the realm's hash, LDAP, both or none.
Typed     == {"blank", "mkys", "ldap", "both", "wrong"}
MkysMatch == {"mkys", "both"}
LdapMatch == {"ldap", "both"}

ASSUME UsernamePasswordAssumption ==
    /\ NoUser \notin Users
    /\ Names \subseteq Users \cup {NoUser}
    /\ Passwords \subseteq Typed
    /\ MaxFailures \in Nat \ {0}

VARIABLES
    pc,             \* where the session's request is; "page" when it has none
    page,           \* the page the browser shows, kept until it is replaced
    form,           \* the form last sent
    authUser,       \* the user set on the authentication session, or NoUser
    userSetBefore,  \* the note USER_SET_BEFORE_USERNAME_PASSWORD_AUTH
    err,            \* validUserErrorMessage; "none" iff isValidUser
    result,         \* status and page put on the flow context
    failures,       \* login failures of an account, as the detector counts
    enabled         \* enabled accounts

session == <<page, form, authUser, userSetBefore, err, result>>
realm   == <<failures, enabled>>
vars    == <<pc, session, realm>>

Messages == {"none", "noImage", "wrong", "ldapError", "locked", "unexpected"}
Errors   == {"none", "user_not_found", "invalid_user_credentials",
             "user_temporarily_disabled", "user_disabled"}
Statuses == {"none", "failure", "force", "success", "exception"}
Steps    == {"page", "captcha", "form", "user", "lookup", "bind", "result",
             "done"}

Page   == [hidden: BOOLEAN, widget: BOOLEAN, msg: Messages]
Form   == [radio: {"mkysLogin", "ldapLogin", "none"},
           user: Users \cup {NoUser}, password: Typed,
           captcha: {"absent", "blank", "token"}]
Result == [status: Statuses, page: Page]

\* hidden: no user name and no radio buttons; widget: a working captcha.
Plain(hidden) == [hidden |-> hidden, widget |-> FALSE, msg |-> "none"]
NoForm   == [radio |-> "none", user |-> NoUser, password |-> "blank",
             captcha |-> "absent"]
NoResult == [status |-> "none", page |-> Plain(FALSE)]

-----------------------------------------------------------------------------
(* The browser *)

\* What the form of login.ftl sends: no radio and no name when the name is
\* hidden.  The field g-recaptcha-response is put into the form by the script
\* of the captcha service, so also a page with the widget may send none.
FormsOf(p) ==
    {f \in Form :
        /\ f.password \in Passwords
        /\ IF p.hidden THEN f.radio = "none" /\ f.user = NoUser
                       ELSE f.radio # "none" /\ f.user \in Names
        /\ f.captcha # "absent" => p.widget}

Submit(s) ==
    /\ pc[s] = "page"
    /\ page[s].msg # "unexpected"
    /\ \E f \in FormsOf(page[s]) : form' = [form EXCEPT ![s] = f]
    /\ result' = [result EXCEPT ![s] = NoResult]
    /\ pc' = [pc EXCEPT ![s] = "captcha"]
    /\ UNCHANGED <<page, authUser, userSetBefore, err, realm>>

\* The page is fetched again: the base class runs authenticate().
Reload(s) ==
    /\ pc[s] = "page"
    /\ page' = [page EXCEPT ![s] = Plain(authUser[s] # NoUser)]
    /\ userSetBefore' = [userSetBefore EXCEPT ![s] = authUser[s] # NoUser]
    /\ UNCHANGED <<pc, form, authUser, err, result, realm>>

\* The restart link of template.ftl, or a new login after a finished one.
Restart(s) ==
    /\ pc[s] \in {"page", "done"}
    /\ pc' = [pc EXCEPT ![s] = "page"]
    /\ page' = [page EXCEPT ![s] = Plain(FALSE)]
    /\ authUser' = [authUser EXCEPT ![s] = NoUser]
    /\ userSetBefore' = [userSetBefore EXCEPT ![s] = FALSE]
    /\ UNCHANGED <<form, err, result, realm>>

-----------------------------------------------------------------------------
(* Keycloak's checks, as the extension calls them *)

Locked(u) == failures[u] = MaxFailures

\* getUser(): the session's user if the note is set, else the typed name.
Account(s) == IF userSetBefore[s] THEN authUser[s] ELSE form[s].user

\* super.validateUser: who may log in, whatever the password.
UserError(u) ==
    IF u = NoUser        THEN "user_not_found"
    ELSE IF Locked(u)    THEN "user_temporarily_disabled"
    ELSE IF u \in enabled THEN "none"
    ELSE "user_disabled"

\* super.validateForm: a blank password is refused before the lock is looked
\* at, a wrong one after it.
FormError(u, password) ==
    IF u = NoUser THEN "user_not_found"
    ELSE IF password = "blank" THEN "invalid_user_credentials"
    ELSE IF ~Locked(u) /\ password \notin MkysMatch
         THEN "invalid_user_credentials"
    ELSE UserError(u)

\* The user on the session after one of these checks said e: getUser() clears
\* it, unless the note is set, and only a passed check sets it again.
UserAfter(s, e) ==
    IF e = "none" \/ userSetBefore[s] THEN Account(s) ELSE NoUser

\* Mutant: super.validateUser called before the radio is looked at.
UserAfterBoth(s, e) == UserAfter(s, UserError(Account(s)))

\* For a standard login, super.validateForm is the only check that is called.
UserAfterForm(s, e) == UserAfter(s, e)

-----------------------------------------------------------------------------
(* The handler: action() of the base class, validateForm() of the subclass *)

Reply(s, status, msg, widget) ==
    /\ result' = [result EXCEPT ![s] =
         [status |-> status,
          page |-> [hidden |-> FALSE, widget |-> widget, msg |-> msg]]]
    /\ pc' = [pc EXCEPT ![s] = "result"]

Success(s)   == Reply(s, "success", "none", FALSE)
Exception(s) == Reply(s, "exception", "unexpected", FALSE)

Goto(s, step) == pc' = [pc EXCEPT ![s] = step] /\ UNCHANGED result

\* Mutant: the lock counted as a failure.
LockCounted(s) == Reply(s, "failure", "locked", FALSE)

bruteForceAttackValideMessage(s) == Reply(s, "force", "locked", FALSE)

\* Mutant: a refusal is tried again.
WrongAwaited(s) == Goto(s, "form")

\* clearForm() adds the captcha script, which makes the widget work.
userAndPasswordValidMessage(s) == Reply(s, "failure", "wrong", TRUE)

\* The service may refuse a token or fail; both count as not validated.
CaptchaControl(s) ==
    /\ pc[s] = "captcha"
    /\ \/ form[s].captcha # "blank" /\ Goto(s, "form")
       \/ form[s].captcha # "absent" /\ Reply(s, "force", "noImage", TRUE)
    /\ UNCHANGED <<page, form, authUser, userSetBefore, err, realm>>

ValidateForm(s) ==
    /\ pc[s] = "form"
    /\ LET e == FormError(Account(s), form[s].password)
       IN /\ err' = [err EXCEPT ![s] = e]
          /\ authUser' = [authUser EXCEPT ![s] = UserAfterForm(s, e)]
          /\ \/ /\ form[s].radio = "mkysLogin"
                /\ \/ e = "none" /\ Success(s)
                   \/ /\ e = "user_temporarily_disabled"
                      /\ bruteForceAttackValideMessage(s)
                   \/ /\ e \notin {"none", "user_temporarily_disabled"}
                      /\ userAndPasswordValidMessage(s)
             \/ form[s].radio = "ldapLogin" /\ Goto(s, "user")
             \* getFirst("radio") is null
             \/ form[s].radio = "none" /\ Exception(s)
    /\ UNCHANGED <<page, form, userSetBefore, realm>>

\* Mutant: what validateUser says of the account is not looked at.
ValidateUserIgnored(s) ==
    /\ pc[s] = "user"
    /\ authUser' = [authUser EXCEPT ![s] = Account(s)]
    /\ Goto(s, "lookup")
    /\ UNCHANGED <<page, form, userSetBefore, err, realm>>

\* The error message read before this call is not read again after it: an
\* account found locked by ValidateForm is refused here though it is not now.
ValidateUser(s) ==
    /\ pc[s] = "user"
    /\ LET e == UserError(Account(s))
       IN /\ authUser' = [authUser EXCEPT ![s] = UserAfter(s, e)]
          /\ IF err[s] = "user_temporarily_disabled"
             THEN bruteForceAttackValideMessage(s)
             ELSE \/ e # "none" /\ userAndPasswordValidMessage(s)
                  \/ e = "none" /\ Goto(s, "lookup")
    /\ UNCHANGED <<page, form, userSetBefore, err, realm>>

\* Mutant: the catch clause falls through to "return true".
LdapErrorAccepted(s) == Success(s)

\* The GENERIC_AUTHENTICATION_ERROR answer of the catch clause.
LdapError(s) == Reply(s, "failure", "ldapError", TRUE)

\* loadLDAPUserByUsername is called outside the try block; a user it does not
\* find is a null that fails inside it.
LdapLookup(s) ==
    /\ pc[s] = "lookup"
    /\ \/ Goto(s, "bind")
       \/ LdapError(s)
       \/ Exception(s)
    /\ UNCHANGED <<page, form, authUser, userSetBefore, err, realm>>

LdapBind(s) ==
    /\ pc[s] = "bind"
    /\ \/ form[s].password \in LdapMatch /\ Success(s)
       \/ form[s].password \notin LdapMatch /\ userAndPasswordValidMessage(s)
       \/ LdapError(s)
    /\ UNCHANGED <<page, form, authUser, userSetBefore, err, realm>>

\* Mutant: the detector counts on while the account is locked.
CountsUnlocked(u) == u \in Users

Counts(u) == u \in Users /\ ~Locked(u)

\* Keycloak acts on the status the context was left with: only a
\* FAILURE_CHALLENGE is counted, and not beyond the lock.
ProcessResult(s) ==
    /\ pc[s] = "result"
    /\ IF result[s].status = "success"
       THEN pc' = [pc EXCEPT ![s] = "done"] /\ UNCHANGED page
       ELSE /\ pc' = [pc EXCEPT ![s] = "page"]
            /\ page' = [page EXCEPT ![s] = result[s].page]
    /\ IF result[s].status = "failure" /\ Counts(form[s].user)
       THEN failures' = [failures EXCEPT ![form[s].user] = @ + 1]
       ELSE UNCHANGED failures
    /\ UNCHANGED <<form, authUser, userSetBefore, err, result, enabled>>

-----------------------------------------------------------------------------
(* The realm around it *)

\* The lock expires, the failure window passes, or a login clears the count.
ForgetFailures(u) ==
    /\ failures[u] > 0
    /\ failures' = [failures EXCEPT ![u] = 0]
    /\ UNCHANGED <<pc, session, enabled>>

SetEnabled(u) ==
    /\ enabled' = IF u \in enabled THEN enabled \ {u} ELSE enabled \cup {u}
    /\ UNCHANGED <<pc, session, failures>>

Init ==
    /\ pc = [s \in Sessions |-> "page"]
    /\ page = [s \in Sessions |-> Plain(FALSE)]
    /\ form = [s \in Sessions |-> NoForm]
    /\ authUser = [s \in Sessions |-> NoUser]
    /\ userSetBefore = [s \in Sessions |-> FALSE]
    /\ err = [s \in Sessions |-> "none"]
    /\ result = [s \in Sessions |-> NoResult]
    /\ failures = [u \in Users |-> 0]
    /\ enabled = Users

Browser(s) == Submit(s) \/ Reload(s) \/ Restart(s)
Local(s)   == CaptchaControl(s) \/ ValidateForm(s) \/ ValidateUser(s)
                 \/ ProcessResult(s)
Ldap(s)    == LdapLookup(s) \/ LdapBind(s)

Next ==
    \/ \E s \in Sessions : Browser(s) \/ Local(s) \/ Ldap(s)
    \/ \E u \in Users : ForgetFailures(u) \/ SetEnabled(u)

Spec == Init /\ [][Next]_vars

\* The server runs its own steps; the captcha client has Keycloak's socket
\* timeout.  Nothing is assumed of LDAP: its configuration sets no timeout.
FairSpec == Spec /\ \A s \in Sessions : WF_vars(Local(s))

-----------------------------------------------------------------------------
(* Properties *)

TypeOK ==
    /\ pc \in [Sessions -> Steps]
    /\ page \in [Sessions -> Page]
    /\ form \in [Sessions -> Form]
    /\ authUser \in [Sessions -> Users \cup {NoUser}]
    /\ userSetBefore \in [Sessions -> BOOLEAN]
    /\ err \in [Sessions -> Errors]
    /\ result \in [Sessions -> Result]
    /\ failures \in [Users -> 0 .. MaxFailures]
    /\ enabled \in SUBSET Users

\* The password of form f proves the account f names, for the kind of account
\* chosen on the form: the realm's own, or the directory's and no other.
Proves(f) ==
    /\ f.user \in Users
    /\ \/ f.radio = "mkysLogin" /\ f.password \in MkysMatch
       \/ f.radio = "ldapLogin" /\ f.password \in LdapMatch

\* A finished login belongs to the account its form named and to a password
\* that proves it: no refusal recorded by super.validateForm, no earlier user
\* of the session and no directory fault turns into a login (lines 85-125).
Authentic ==
    \A s \in Sessions :
        pc[s] = "done" => Proves(form[s]) /\ authUser[s] = form[s].user

\* However often the handler put a failure on the context, an answered request
\* counts one failure if it ends in a refused credential and none if it ends
\* in a login, a lock message, a captcha message or an exception.
CountsAnswer(s) ==
    pc[s] = "result" /\ pc'[s] # "result" =>
      \A u \in Users :
        failures'[u] = failures[u] +
          (IF /\ pc'[s] = "page" /\ page'[s].msg \in {"wrong", "ldapError"}
              /\ u = form[s].user /\ ~Locked(u)
           THEN 1 ELSE 0)

CountedOnce == [][\A s \in Sessions : CountsAnswer(s)]_vars

\* A refused login to a standard account leaves no user on the session,
\* whatever earlier directory logins of that session left there.
StandardRefusalForgetsUser ==
    \A s \in Sessions :
        /\ pc[s] = "page" /\ page[s].msg \in {"wrong", "locked"}
        /\ form[s].radio = "mkysLogin"
        => authUser[s] = NoUser

\* A form that was sent is answered, unless it waits for the directory.
Answered ==
    \A s \in Sessions :
        pc[s] = "captcha" ~> pc[s] \in {"page", "done", "lookup", "bind"}

\* How LoginPromise sees a request: past the captcha it is heard; a challenge on
\* the context is a verdict, a password that was right is still to be let in; a
\* directory login that remembers a lock is doomed.
Verdict(status) ==
    CASE status = "success" -> "cleared"
      [] status = "failure" -> "refused"
      [] OTHER              -> "away"

Heard(s) ==
    IF pc[s] = "user" /\ err[s] = "user_temporarily_disabled"
    THEN "doomed" ELSE "heard"

Phase(s) ==
    CASE pc[s] = "page"               -> "idle"
      [] pc[s] = "captcha"            -> "asked"
      [] pc[s] \in {"form", "user"}   -> Heard(s)
      [] pc[s] \in {"lookup", "bind"} -> "cleared"
      [] pc[s] = "result"             -> Verdict(result[s].status)
      [] pc[s] = "done"               -> "in"

Attempt(s) == [user      |-> form[s].user,
               whole     |-> form[s].radio # "none",
               directory |-> form[s].radio = "ldapLogin",
               proven    |-> Proves(form[s])]

Promise == INSTANCE LoginPromise WITH
    phase   <- [s \in Sessions |-> Phase(s)],
    attempt <- [s \in Sessions |-> Attempt(s)]

\* The handler keeps the promise of LoginPromise, whatever other tabs do to the
\* counts and administrators to the accounts between its steps: nobody gets in
\* whose account was not fit at some moment after the form was sent, no right
\* password of an account that is fit when it is looked at is refused but by
\* the directory, a lock message (lines 91 and 101) means that the account was
\* locked at some moment after the captcha, if not any longer when it is sent,
\* and a count goes up by one, when a refusal is answered.
KeepsLoginPromise == Promise!Safety

\* Refuted.  "Custom Username Password Authenticator+GoogleCaptcha"
\* (UsernamePasswordFactory, line 31): once a tab has been shown a refusal, the
\* form it sends from that page reaches a password check only with a captcha
\* token (clearForm in one request, captchaControl in the next).
RetryNeedsCaptcha ==
    \A s \in Sessions :
        /\ pc[s] \in {"form", "user", "lookup", "bind"}
        /\ page[s].msg \in {"noImage", "wrong", "ldapError"}
        => form[s].captcha = "token"

\* Refuted.  login.ftl renders a password-only form, with the place for its
\* error message (lines 41-45): sending that form gets a verdict.
PasswordOnlyFormIsHandled ==
    \A s \in Sessions :
        pc[s] = "page" /\ page[s].msg = "unexpected" => ~userSetBefore[s]

=============================================================================
