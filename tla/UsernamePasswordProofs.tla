------------------------ MODULE UsernamePasswordProofs ------------------------
(***************************************************************************)
(* Safety of UsernamePassword for any number of tabs, accounts, passwords  *)
(* and failures.                                                           *)
(***************************************************************************)
EXTENDS UsernamePassword, TLAPS

(* Type correctness *)

LEMMA PageTypes ==
    ASSUME NEW h \in BOOLEAN, NEW w \in BOOLEAN, NEW m \in Messages,
           NEW st \in Statuses
    PROVE  /\ Plain(h) \in Page
           /\ [hidden |-> h, widget |-> w, msg |-> m] \in Page
           /\ [status |-> st,
               page |-> [hidden |-> h, widget |-> w, msg |-> m]] \in Result
  BY DEF Plain, Page, Result, Messages

LEMMA InitialTypes == Init => TypeOK
  <1> SUFFICES ASSUME Init PROVE TypeOK
    OBVIOUS
  <1>1. Plain(FALSE) \in Page
    BY PageTypes DEF Messages, Statuses
  <1>2. NoForm \in Form /\ NoResult \in Result
    BY <1>1 DEF NoForm, Form, Typed, NoResult, Result, Statuses
  <1>3. failures \in [Users -> 0 .. MaxFailures]
    BY UsernamePasswordAssumption DEF Init
  <1> QED
    BY <1>1, <1>2, <1>3 DEF Init, TypeOK, Steps, Errors

LEMMA ErrorTypes ==
    ASSUME NEW u, NEW password
    PROVE  UserError(u) \in Errors /\ FormError(u, password) \in Errors
  BY DEF UserError, FormError, Errors

LEMMA UserTypes ==
    ASSUME TypeOK, NEW s \in Sessions, NEW e
    PROVE  /\ Account(s) \in Users \cup {NoUser}
           /\ UserAfter(s, e) \in Users \cup {NoUser}
           /\ UserAfterForm(s, e) \in Users \cup {NoUser}
  BY DEF TypeOK, Account, UserAfter, UserAfterForm, Form

LEMMA ReplyTypes ==
    ASSUME TypeOK, NEW s \in Sessions, NEW status \in Statuses,
           NEW msg \in Messages, NEW widget \in BOOLEAN,
           Reply(s, status, msg, widget)
    PROVE  result' \in [Sessions -> Result] /\ pc' \in [Sessions -> Steps]
  <1>1. [status |-> status,
         page |-> [hidden |-> FALSE, widget |-> widget, msg |-> msg]] \in Result
    BY PageTypes
  <1> QED
    BY <1>1 DEF Reply, TypeOK, Steps

LEMMA GotoTypes ==
    ASSUME TypeOK, NEW s \in Sessions, NEW step \in Steps, Goto(s, step)
    PROVE  result' \in [Sessions -> Result] /\ pc' \in [Sessions -> Steps]
  BY DEF Goto, TypeOK

\* Every answer of the handler is one of these.
LEMMA AnswerTypes ==
    ASSUME TypeOK, NEW s \in Sessions,
           \/ Success(s)
           \/ Exception(s)
           \/ LdapError(s)
           \/ bruteForceAttackValideMessage(s)
           \/ userAndPasswordValidMessage(s)
           \/ Reply(s, "force", "noImage", TRUE)
    PROVE  result' \in [Sessions -> Result] /\ pc' \in [Sessions -> Steps]
  BY ReplyTypes DEF Success, Exception, LdapError, Statuses, Messages,
       bruteForceAttackValideMessage, userAndPasswordValidMessage

LEMMA TypeStep == TypeOK /\ [Next]_vars => TypeOK'
  <1> SUFFICES ASSUME TypeOK, [Next]_vars PROVE TypeOK'
    OBVIOUS
  <1> USE DEF session, realm
  <1>1. ASSUME NEW s \in Sessions, Submit(s) PROVE TypeOK'
    <2>1. PICK f \in FormsOf(page[s]) : form' = [form EXCEPT ![s] = f]
      BY <1>1 DEF Submit
    <2>2. NoResult \in Result
      BY DEF NoResult, Plain, Result, Page, Statuses, Messages
    <2> QED
      BY <1>1, <2>1, <2>2 DEF Submit, FormsOf, TypeOK, Steps
  <1>2. ASSUME NEW s \in Sessions, Reload(s) PROVE TypeOK'
    <2>1. Plain(authUser[s] # NoUser) \in Page
      BY DEF Plain, Page, Messages
    <2> QED
      BY <1>2, <2>1 DEF Reload, TypeOK
  <1>3. ASSUME NEW s \in Sessions, Restart(s) PROVE TypeOK'
    <2>1. Plain(FALSE) \in Page
      BY DEF Plain, Page, Messages
    <2> QED
      BY <1>3, <2>1 DEF Restart, TypeOK, Steps
  <1>4. ASSUME NEW s \in Sessions, CaptchaControl(s) PROVE TypeOK'
    <2>1. result' \in [Sessions -> Result] /\ pc' \in [Sessions -> Steps]
      BY <1>4, GotoTypes, AnswerTypes DEF CaptchaControl, Steps
    <2> QED
      BY <1>4, <2>1 DEF CaptchaControl, TypeOK
  <1>5. ASSUME NEW s \in Sessions, ValidateForm(s) PROVE TypeOK'
    <2> DEFINE e == FormError(Account(s), form[s].password)
    <2>1. result' \in [Sessions -> Result] /\ pc' \in [Sessions -> Steps]
      <3>1. \/ Success(s) \/ bruteForceAttackValideMessage(s)
            \/ userAndPasswordValidMessage(s) \/ Goto(s, "user")
            \/ Exception(s)
        BY <1>5 DEF ValidateForm
      <3> QED
        BY <3>1, GotoTypes, AnswerTypes DEF Steps
    <2>2. e \in Errors /\ UserAfterForm(s, e) \in Users \cup {NoUser}
      BY ErrorTypes, UserTypes
    <2>3. /\ err' = [err EXCEPT ![s] = e]
          /\ authUser' = [authUser EXCEPT ![s] = UserAfterForm(s, e)]
      BY <1>5 DEF ValidateForm
    <2> QED
      BY <1>5, <2>1, <2>2, <2>3 DEF ValidateForm, TypeOK
  <1>6. ASSUME NEW s \in Sessions, ValidateUser(s) PROVE TypeOK'
    <2> DEFINE e == UserError(Account(s))
    <2>1. result' \in [Sessions -> Result] /\ pc' \in [Sessions -> Steps]
      <3>1. \/ bruteForceAttackValideMessage(s)
            \/ userAndPasswordValidMessage(s) \/ Goto(s, "lookup")
        BY <1>6 DEF ValidateUser
      <3> QED
        BY <3>1, GotoTypes, AnswerTypes DEF Steps
    <2>2. UserAfter(s, e) \in Users \cup {NoUser}
      BY UserTypes
    <2>3. authUser' = [authUser EXCEPT ![s] = UserAfter(s, e)]
      BY <1>6 DEF ValidateUser
    <2> QED
      BY <1>6, <2>1, <2>2, <2>3 DEF ValidateUser, TypeOK
  <1>7. ASSUME NEW s \in Sessions, LdapLookup(s) PROVE TypeOK'
    <2>1. result' \in [Sessions -> Result] /\ pc' \in [Sessions -> Steps]
      BY <1>7, GotoTypes, AnswerTypes DEF LdapLookup, Steps
    <2> QED
      BY <1>7, <2>1 DEF LdapLookup, TypeOK
  <1>8. ASSUME NEW s \in Sessions, LdapBind(s) PROVE TypeOK'
    <2>1. result' \in [Sessions -> Result] /\ pc' \in [Sessions -> Steps]
      BY <1>8, AnswerTypes DEF LdapBind
    <2> QED
      BY <1>8, <2>1 DEF LdapBind, TypeOK
  <1>9. ASSUME NEW s \in Sessions, ProcessResult(s) PROVE TypeOK'
    <2>1. pc' \in [Sessions -> Steps] /\ page' \in [Sessions -> Page]
      BY <1>9 DEF ProcessResult, TypeOK, Steps, Result
    <2>2. failures' \in [Users -> 0 .. MaxFailures]
      BY <1>9, UsernamePasswordAssumption
         DEF ProcessResult, Counts, Locked, TypeOK
    <2> QED
      BY <1>9, <2>1, <2>2 DEF ProcessResult, TypeOK
  <1>10. ASSUME NEW u \in Users, ForgetFailures(u) PROVE TypeOK'
    BY <1>10, UsernamePasswordAssumption DEF ForgetFailures, TypeOK
  <1>11. ASSUME NEW u \in Users, SetEnabled(u) PROVE TypeOK'
    BY <1>11 DEF SetEnabled, TypeOK
  <1>12. CASE UNCHANGED vars
    BY <1>12 DEF vars, TypeOK
  <1> QED
    BY <1>1, <1>2, <1>3, <1>4, <1>5, <1>6, <1>7, <1>8, <1>9, <1>10, <1>11,
       <1>12 DEF Next, Browser, Local, Ldap

(* Every reachable state is well typed; in particular the count of failures *)
(* never passes the lock, whichever tabs the failures come from.            *)
THEOREM TypeCorrect == Spec => []TypeOK
  BY InitialTypes, TypeStep, PTL DEF Spec

-----------------------------------------------------------------------------
(* The inductive invariant *)

\* The strengthening of the invariants above.  Once a user is kept on a tab by
\* the note, its form has no radio and no captcha, and can only fail.
NoteMeansHidden(s) ==
    userSetBefore[s] =>
      /\ pc[s] \notin {"user", "lookup", "bind", "done"}
      /\ pc[s] = "page" /\ page[s].msg # "unexpected"
         => page[s].hidden /\ ~page[s].widget
      /\ pc[s] \in {"captcha", "form"}
         => form[s].radio = "none" /\ form[s].captcha = "absent"
      /\ pc[s] = "result"
         => result[s].status = "exception" /\ result[s].page.msg = "unexpected"

\* What a request has established when it has come this far.
Established(s) ==
    /\ pc[s] = "user" => form[s].radio = "ldapLogin"
    /\ pc[s] \in {"lookup", "bind"} =>
         /\ form[s].radio = "ldapLogin"
         /\ form[s].user \in Users
         /\ authUser[s] = form[s].user
    /\ \/ pc[s] = "result" /\ result[s].status = "success"
       \/ pc[s] = "done"
       => Proves(form[s]) /\ authUser[s] = form[s].user

\* The status and the message put on a context agree.
Coherent(s) ==
    pc[s] = "result" =>
        (result[s].status = "failure"
           <=> result[s].page.msg \in {"wrong", "ldapError"})

\* A standard login that was refused has been forgotten, before and after the
\* refusal reaches the browser.
Forgotten(s) ==
    /\ \/ /\ pc[s] = "result"
          /\ result[s].page.msg \in {"wrong", "locked"}
       \/ /\ pc[s] = "page"
          /\ page[s].msg \in {"wrong", "locked"}
    /\ form[s].radio = "mkysLogin"
    => authUser[s] = NoUser

Inv ==
    \A s \in Sessions :
        /\ NoteMeansHidden(s)
        /\ Established(s)
        /\ Coherent(s)
        /\ Forgotten(s)

\* A request that is not the one of this step is left alone.
Untouched(t) ==
    /\ pc'[t] = pc[t] /\ page'[t] = page[t] /\ form'[t] = form[t]
    /\ authUser'[t] = authUser[t] /\ userSetBefore'[t] = userSetBefore[t]
    /\ result'[t] = result[t]

TabInv(s) ==
    /\ NoteMeansHidden(s) /\ Established(s)
    /\ Coherent(s)
    /\ Forgotten(s)

LEMMA InitialInv == Init => Inv
  <1> SUFFICES ASSUME Init, NEW s \in Sessions PROVE TabInv(s)
    BY DEF Inv, TabInv
  <1>1. pc[s] = "page" /\ ~userSetBefore[s]
    BY DEF Init
  <1>2. page[s].msg = "none" /\ result[s].page.msg = "none"
    BY DEF Init, NoResult, Plain
  <1> QED
    BY <1>1, <1>2 DEF TabInv, NoteMeansHidden, Established,
       Coherent, Forgotten

LEMMA UntouchedInv ==
    ASSUME NEW t \in Sessions, TabInv(t), Untouched(t)
    PROVE  TabInv(t)'
  BY DEF TabInv, Untouched, NoteMeansHidden, Established,
     Coherent, Forgotten, Proves

\* What a passed check says of the account it was asked about.
LEMMA PassedCheck ==
    ASSUME NEW u \in Users \cup {NoUser}, NEW password
    PROVE  /\ UserError(u) = "none" => u \in Users
           /\ FormError(u, password) = "none"
              => u \in Users /\ password \in MkysMatch
  BY DEF UserError, FormError

LEMMA BrowserStep ==
    ASSUME TypeOK, NEW s \in Sessions, TabInv(s), Browser(s)
    PROVE  TabInv(s)'
  <1> USE DEF TabInv, NoteMeansHidden, Established, Coherent,
              Forgotten, TypeOK
  <1>1. CASE Submit(s)
    <2>1. PICK f \in FormsOf(page[s]) : form' = [form EXCEPT ![s] = f]
      BY <1>1 DEF Submit
    <2>2. form'[s] = f /\ pc'[s] = "captcha" /\ result'[s] = NoResult
      BY <1>1, <2>1 DEF Submit
    <2>3. UNCHANGED <<page, authUser, userSetBefore>> /\ pc[s] = "page"
      BY <1>1 DEF Submit
    <2>4. page[s].msg # "unexpected"
      BY <1>1 DEF Submit
    <2>5. /\ page[s].hidden => f.radio = "none"
          /\ f.captcha # "absent" => page[s].widget
      BY DEF FormsOf, Page
    <2>6. NoResult.page.msg = "none"
      BY DEF NoResult, Plain
    <2> QED
      BY <2>2, <2>3, <2>4, <2>5, <2>6 DEF Page
  <1>2. CASE Reload(s)
    <2>1. /\ pc[s] = "page" /\ pc'[s] = "page"
          /\ page'[s] = Plain(authUser[s] # NoUser)
          /\ userSetBefore'[s] = (authUser[s] # NoUser)
          /\ result'[s] = result[s]
      BY <1>2 DEF Reload
    <2> QED
      BY <2>1 DEF Plain
  <1>3. CASE Restart(s)
    <2>1. /\ pc'[s] = "page" /\ page'[s] = Plain(FALSE)
          /\ userSetBefore'[s] = FALSE /\ result'[s] = result[s]
      BY <1>3 DEF Restart
    <2> QED
      BY <2>1 DEF Plain
  <1> QED
    BY <1>1, <1>2, <1>3 DEF Browser

LEMMA Replied ==
    ASSUME TypeOK, NEW s \in Sessions, NEW status, NEW msg, NEW widget,
           Reply(s, status, msg, widget)
    PROVE  /\ pc'[s] = "result"
           /\ result'[s].status = status
           /\ result'[s].page.msg = msg
           /\ result'[s].page.widget = widget
  BY DEF Reply, TypeOK

LEMMA WentTo ==
    ASSUME TypeOK, NEW s \in Sessions, NEW step, Goto(s, step)
    PROVE  pc'[s] = step /\ result'[s] = result[s]
  BY DEF Goto, TypeOK

\* The answers of the handler, by what they leave on the context.
LEMMA Answers ==
    ASSUME TypeOK, NEW s \in Sessions
    PROVE  /\ Success(s) => /\ pc'[s] = "result"
                            /\ result'[s].status = "success"
                            /\ result'[s].page.msg = "none"
           /\ Exception(s) => /\ pc'[s] = "result"
                              /\ result'[s].status = "exception"
                              /\ result'[s].page.msg = "unexpected"
           /\ LdapError(s) => /\ pc'[s] = "result"
                              /\ result'[s].status = "failure"
                              /\ result'[s].page.msg = "ldapError"
                              /\ result'[s].page.widget
           /\ bruteForceAttackValideMessage(s) =>
                              /\ pc'[s] = "result"
                              /\ result'[s].status = "force"
                              /\ result'[s].page.msg = "locked"
           /\ userAndPasswordValidMessage(s) =>
                              /\ pc'[s] = "result"
                              /\ result'[s].status = "failure"
                              /\ result'[s].page.msg = "wrong"
                              /\ result'[s].page.widget
           /\ Reply(s, "force", "noImage", TRUE) =>
                              /\ pc'[s] = "result"
                              /\ result'[s].status = "force"
                              /\ result'[s].page.msg = "noImage"
                              /\ result'[s].page.widget
  BY Replied DEF Success, Exception, LdapError, bruteForceAttackValideMessage,
     userAndPasswordValidMessage

LEMMA CaptchaStep ==
    ASSUME TypeOK, NEW s \in Sessions, TabInv(s), CaptchaControl(s)
    PROVE  TabInv(s)'
  <1> USE DEF TabInv, NoteMeansHidden, Established, Coherent,
              Forgotten
  <1>1. pc[s] = "captcha" /\ UNCHANGED <<page, form, authUser, userSetBefore>>
    BY DEF CaptchaControl
  <1>2. form[s].captcha \in {"absent", "blank", "token"}
    BY DEF TypeOK, Form
  <1>3. CASE form[s].captcha # "blank" /\ Goto(s, "form")
    <2>1. pc'[s] = "form" /\ result'[s] = result[s]
      BY <1>3, WentTo
    <2> QED
      BY <1>1, <1>2, <1>3, <2>1
  <1>4. CASE form[s].captcha # "absent" /\ Reply(s, "force", "noImage", TRUE)
    BY <1>1, <1>4, Answers
  <1> QED
    BY <1>3, <1>4 DEF CaptchaControl

LEMMA ValidateFormStep ==
    ASSUME TypeOK, NEW s \in Sessions, TabInv(s), ValidateForm(s)
    PROVE  TabInv(s)'
  <1> USE DEF TabInv, NoteMeansHidden, Established, Coherent,
              Forgotten
  <1> DEFINE e == FormError(Account(s), form[s].password)
  <1>1. pc[s] = "form" /\ UNCHANGED <<page, form, userSetBefore>>
    BY DEF ValidateForm
  <1>2. authUser'[s] = UserAfterForm(s, e)
    BY DEF ValidateForm, TypeOK
  <1>3. ASSUME form[s].radio # "none"
        PROVE  /\ ~userSetBefore[s]
               /\ authUser'[s] = IF e = "none" THEN form[s].user ELSE NoUser
    <2>1. ~userSetBefore[s]
      BY <1>1, <1>3
    <2> QED
      BY <1>2, <2>1 DEF UserAfterForm, UserAfter, Account
  <1>4. CASE form[s].radio = "mkysLogin" /\ e = "none" /\ Success(s)
    <2>1. authUser'[s] = form[s].user /\ ~userSetBefore[s]
      BY <1>3, <1>4
    <2>2. Account(s) = form[s].user
      BY <2>1 DEF Account
    <2>3. Proves(form[s])
      BY <1>4, <2>2, PassedCheck, UserTypes DEF Proves
    <2> QED
      BY <1>1, <1>4, <2>1, <2>3, Answers DEF Proves
  <1>5. CASE /\ form[s].radio = "mkysLogin"
             /\ e # "none"
             /\ \/ bruteForceAttackValideMessage(s)
                \/ userAndPasswordValidMessage(s)
    <2>1. authUser'[s] = NoUser /\ ~userSetBefore[s]
      BY <1>3, <1>5
    <2> QED
      BY <1>1, <1>5, <2>1, Answers
  <1>6. CASE form[s].radio = "ldapLogin" /\ Goto(s, "user")
    BY <1>1, <1>3, <1>6, WentTo
  <1>7. CASE form[s].radio = "none" /\ Exception(s)
    BY <1>1, <1>7, Answers
  <1> QED
    BY <1>4, <1>5, <1>6, <1>7 DEF ValidateForm

LEMMA ValidateUserStep ==
    ASSUME TypeOK, NEW s \in Sessions, TabInv(s), ValidateUser(s)
    PROVE  TabInv(s)'
  <1> USE DEF TabInv, NoteMeansHidden, Established, Coherent,
              Forgotten
  <1> DEFINE e == UserError(Account(s))
  <1>1. pc[s] = "user" /\ UNCHANGED <<page, form, userSetBefore>>
    BY DEF ValidateUser
  <1>2. form[s].radio = "ldapLogin" /\ ~userSetBefore[s]
    BY <1>1
  <1>3. CASE \/ bruteForceAttackValideMessage(s)
             \/ userAndPasswordValidMessage(s)
    BY <1>1, <1>2, <1>3, Answers
  <1>4. CASE e = "none" /\ Goto(s, "lookup")
    <2>1. authUser'[s] = UserAfter(s, e)
      BY DEF ValidateUser, TypeOK
    <2>2. Account(s) = form[s].user /\ authUser'[s] = form[s].user
      BY <1>2, <1>4, <2>1 DEF UserAfter, Account
    <2>3. form[s].user \in Users
      BY <1>4, <2>2, PassedCheck, UserTypes
    <2> QED
      BY <1>1, <1>2, <1>4, <2>2, <2>3, WentTo
  <1> QED
    BY <1>3, <1>4 DEF ValidateUser

LEMMA LdapStep ==
    ASSUME TypeOK, NEW s \in Sessions, TabInv(s), Ldap(s)
    PROVE  TabInv(s)'
  <1> USE DEF TabInv, NoteMeansHidden, Established, Coherent,
              Forgotten
  <1>1. /\ pc[s] \in {"lookup", "bind"}
        /\ UNCHANGED <<page, form, authUser, userSetBefore>>
    BY DEF Ldap, LdapLookup, LdapBind
  <1>2. /\ ~userSetBefore[s] /\ form[s].radio = "ldapLogin"
        /\ form[s].user \in Users /\ authUser[s] = form[s].user
    BY <1>1
  <1>3. CASE Goto(s, "bind")
    BY <1>1, <1>2, <1>3, WentTo
  <1>4. CASE LdapError(s) \/ Exception(s) \/ userAndPasswordValidMessage(s)
    BY <1>1, <1>2, <1>4, Answers
  <1>5. CASE form[s].password \in LdapMatch /\ Success(s)
    BY <1>1, <1>2, <1>5, Answers DEF Proves
  <1> QED
    BY <1>3, <1>4, <1>5 DEF Ldap, LdapLookup, LdapBind

LEMMA ProcessResultStep ==
    ASSUME TypeOK, NEW s \in Sessions, TabInv(s), ProcessResult(s)
    PROVE  TabInv(s)'
  <1> USE DEF TabInv, NoteMeansHidden, Established, Coherent,
              Forgotten
  <1>1. pc[s] = "result" /\ UNCHANGED <<form, authUser, userSetBefore, result>>
    BY DEF ProcessResult
  <1>2. CASE result[s].status = "success"
    BY <1>1, <1>2 DEF ProcessResult, TypeOK, Proves
  <1>3. CASE result[s].status # "success"
    <2>1. pc'[s] = "page" /\ page'[s] = result[s].page
      BY <1>3 DEF ProcessResult, TypeOK
    <2> QED
      BY <1>1, <1>3, <2>1
  <1> QED
    BY <1>2, <1>3

LEMMA InvStep == TypeOK /\ Inv /\ [Next]_vars => Inv'
  <1> SUFFICES ASSUME TypeOK, Inv, [Next]_vars, NEW t \in Sessions
               PROVE  TabInv(t)'
    BY DEF Inv, TabInv
  <1>0. TabInv(t)
    BY DEF Inv, TabInv
  <1>1. ASSUME NEW s \in Sessions, Browser(s) \/ Local(s) \/ Ldap(s)
        PROVE  TabInv(t)'
    <2>1. CASE s = t
      BY <1>0, <1>1, <2>1, BrowserStep, CaptchaStep, ValidateFormStep,
         ValidateUserStep, LdapStep, ProcessResultStep DEF Local
    <2>2. CASE s # t
      <3>1. Browser(s) => Untouched(t)
        BY <2>2 DEF Browser, Submit, Reload, Restart, Untouched, TypeOK
      <3>2. CaptchaControl(s) \/ Ldap(s) => Untouched(t)
        BY <2>2 DEF CaptchaControl, Ldap, LdapLookup, LdapBind, Untouched,
           Goto, Reply, LdapError, Exception, Success,
           userAndPasswordValidMessage, TypeOK
      <3>3. ValidateForm(s) => Untouched(t)
        BY <2>2 DEF ValidateForm, Untouched, Goto, Reply, Exception, Success,
           userAndPasswordValidMessage, bruteForceAttackValideMessage, TypeOK
      <3>4. ValidateUser(s) => Untouched(t)
        BY <2>2 DEF ValidateUser, Untouched, Goto, Reply,
           userAndPasswordValidMessage, bruteForceAttackValideMessage, TypeOK
      <3>5. ProcessResult(s) => Untouched(t)
        BY <2>2 DEF ProcessResult, Untouched, TypeOK
      <3>6. Untouched(t)
        BY <1>1, <3>1, <3>2, <3>3, <3>4, <3>5 DEF Local
      <3> QED
        BY <1>0, <3>6, UntouchedInv
    <2> QED
      BY <2>1, <2>2
  <1>2. ASSUME NEW u \in Users, ForgetFailures(u) \/ SetEnabled(u)
        PROVE  TabInv(t)'
    <2>1. Untouched(t)
      BY <1>2 DEF ForgetFailures, SetEnabled, session, Untouched
    <2> QED
      BY <1>0, <2>1, UntouchedInv
  <1>3. CASE UNCHANGED vars
    <2>1. Untouched(t)
      BY <1>3 DEF vars, session, Untouched
    <2> QED
      BY <1>0, <2>1, UntouchedInv
  <1> QED
    BY <1>1, <1>2, <1>3 DEF Next

THEOREM Invariance == Spec => [](TypeOK /\ Inv)
  BY InitialTypes, TypeStep, InitialInv, InvStep, PTL DEF Spec

-----------------------------------------------------------------------------
(* The properties *)

(* A finished login is the login of the account its form named, by a        *)
(* password that proves it, whatever happened to the account, to other tabs *)
(* or to the directory while the handler ran.                               *)
THEOREM LoginIsAuthentic == Spec => []Authentic
  <1>1. Inv => Authentic
    BY DEF Inv, Established, Authentic
  <1> QED
    BY <1>1, Invariance, PTL

(* A refused standard login leaves the session without a user.              *)
THEOREM RefusalForgets == Spec => []StandardRefusalForgetsUser
  <1>1. Inv => StandardRefusalForgetsUser
    BY DEF Inv, Forgotten, StandardRefusalForgetsUser
  <1> QED
    BY <1>1, Invariance, PTL

\* The only step that takes a request past its result is ProcessResult.
LEMMA AnswerStep ==
    ASSUME TypeOK, Next, NEW t \in Sessions, pc[t] = "result",
           pc'[t] # "result"
    PROVE  ProcessResult(t)
  <1>1. ASSUME NEW s \in Sessions, Browser(s) PROVE FALSE
    BY <1>1 DEF Browser, Submit, Reload, Restart, TypeOK
  <1>2. ASSUME NEW s \in Sessions,
               CaptchaControl(s) \/ ValidateForm(s) \/ ValidateUser(s) \/ Ldap(s)
        PROVE  FALSE
    <2>1. pc[s] # "result"
      BY <1>2 DEF CaptchaControl, ValidateForm, ValidateUser, Ldap, LdapLookup,
         LdapBind
    <2>2. PICK step : pc' = [pc EXCEPT ![s] = step]
      <3>1. \/ Success(s) \/ Exception(s) \/ LdapError(s)
            \/ bruteForceAttackValideMessage(s)
            \/ userAndPasswordValidMessage(s)
            \/ Reply(s, "force", "noImage", TRUE)
            \/ \E x \in Steps : Goto(s, x)
        BY <1>2 DEF CaptchaControl, ValidateForm, ValidateUser, Ldap,
           LdapLookup, LdapBind, Steps
      <3> QED
        BY <3>1 DEF Success, Exception, LdapError, Reply, Goto,
           bruteForceAttackValideMessage, userAndPasswordValidMessage
    <2> QED
      BY <2>1, <2>2 DEF TypeOK
  <1>3. ASSUME NEW s \in Sessions, ProcessResult(s) PROVE s = t
    BY <1>3 DEF ProcessResult, TypeOK
  <1>4. ASSUME NEW u \in Users, ForgetFailures(u) \/ SetEnabled(u) PROVE FALSE
    BY <1>4 DEF ForgetFailures, SetEnabled
  <1> QED
    BY <1>1, <1>2, <1>3, <1>4 DEF Next, Local

LEMMA CountStep ==
    TypeOK /\ Inv /\ [Next]_vars => [\A s \in Sessions : CountsAnswer(s)]_vars
  <1> SUFFICES ASSUME TypeOK, Inv, Next, NEW s \in Sessions,
                      pc[s] = "result", pc'[s] # "result", NEW u \in Users
               PROVE  failures'[u] = failures[u] +
                        (IF /\ pc'[s] = "page"
                            /\ page'[s].msg \in {"wrong", "ldapError"}
                            /\ u = form[s].user /\ ~Locked(u)
                         THEN 1 ELSE 0)
    BY DEF CountsAnswer
  <1>1. ProcessResult(s)
    BY AnswerStep
  <1>2. pc'[s] = "page" <=> result[s].status # "success"
    BY <1>1 DEF ProcessResult, TypeOK
  <1>3. pc'[s] = "page" => page'[s] = result[s].page
    BY <1>1, <1>2 DEF ProcessResult, TypeOK
  <1>4. result[s].status = "failure"
          <=> result[s].page.msg \in {"wrong", "ldapError"}
    BY DEF Inv, Coherent
  <1>5. failures[u] \in Nat
    BY UsernamePasswordAssumption DEF TypeOK
  <1>6. CASE result[s].status = "failure" /\ Counts(form[s].user)
    <2>1. failures' = [failures EXCEPT ![form[s].user] = @ + 1]
      BY <1>1, <1>6 DEF ProcessResult
    <2> QED
      BY <1>2, <1>3, <1>4, <1>5, <1>6, <2>1 DEF Counts, TypeOK
  <1>7. CASE ~(result[s].status = "failure" /\ Counts(form[s].user))
    <2>1. failures' = failures
      BY <1>1, <1>7 DEF ProcessResult
    <2> QED
      BY <1>2, <1>3, <1>4, <1>5, <1>7, <2>1 DEF Counts
  <1> QED
    BY <1>6, <1>7

(* An answered request is counted once, and only for a refused credential.  *)
THEOREM AnswersAreCountedOnce == Spec => CountedOnce
  BY Invariance, CountStep, PTL DEF Spec, CountedOnce

-----------------------------------------------------------------------------
(* The refinement of LoginPromise *)

\* What is seen of the other tabs in a step of tab s: nothing changes.
SameElsewhere(s) ==
    \A t \in Sessions \ {s} :
        /\ pc'[t] = pc[t] /\ form'[t] = form[t]
        /\ result'[t] = result[t] /\ err'[t] = err[t]

LEMMA StepsAreLocal ==
    ASSUME TypeOK, NEW s \in Sessions, Browser(s) \/ Local(s) \/ Ldap(s)
    PROVE  SameElsewhere(s)
  <1>1. ASSUME Browser(s) PROVE SameElsewhere(s)
    BY <1>1 DEF Browser, Submit, Reload, Restart, SameElsewhere, TypeOK
  <1>2. ASSUME CaptchaControl(s) \/ Ldap(s) PROVE SameElsewhere(s)
    BY <1>2 DEF CaptchaControl, Ldap, LdapLookup, LdapBind, SameElsewhere, Goto,
       Reply, LdapError, Exception, Success, userAndPasswordValidMessage, TypeOK
  <1>3. ASSUME ValidateForm(s) PROVE SameElsewhere(s)
    BY <1>3 DEF ValidateForm, SameElsewhere, Goto, Reply, Exception, Success,
       userAndPasswordValidMessage, bruteForceAttackValideMessage, TypeOK
  <1>4. ASSUME ValidateUser(s) PROVE SameElsewhere(s)
    BY <1>4 DEF ValidateUser, SameElsewhere, Goto, Reply,
       userAndPasswordValidMessage, bruteForceAttackValideMessage, TypeOK
  <1>5. ASSUME ProcessResult(s) PROVE SameElsewhere(s)
    BY <1>5 DEF ProcessResult, SameElsewhere, TypeOK
  <1> QED
    BY <1>1, <1>2, <1>3, <1>4, <1>5 DEF Local

\* A step of one tab moves the phase of its attempt and of no other.
LEMMA MoveSimulated ==
    ASSUME NEW s \in Sessions, SameElsewhere(s), NEW from, NEW to,
           Phase(s) \in from, Phase(s)' = to
    PROVE  Promise!Move(s, from, to)
  <1>1. ASSUME NEW t \in Sessions, t # s PROVE Phase(t)' = Phase(t)
    BY <1>1 DEF SameElsewhere, Phase, Heard, Verdict
  <1> QED
    BY <1>1 DEF Promise!Move

LEMMA PhaseKept ==
    ASSUME NEW s \in Sessions, SameElsewhere(s), Phase(s)' = Phase(s)
    PROVE  [t \in Sessions |-> Phase(t)]' = [t \in Sessions |-> Phase(t)]
  <1>1. ASSUME NEW t \in Sessions PROVE Phase(t)' = Phase(t)
    BY <1>1 DEF SameElsewhere, Phase, Heard, Verdict
  <1> QED
    BY <1>1

\* An attempt is what the form says, as long as no other form is sent.
LEMMA AttemptKept ==
    ASSUME UNCHANGED form
    PROVE  [t \in Sessions |-> Attempt(t)]' = [t \in Sessions |-> Attempt(t)]
  BY DEF Attempt, Proves

LEMMA AttemptTypes ==
    ASSUME NEW f \in Form
    PROVE  [user |-> f.user, whole |-> f.radio # "none",
            directory |-> f.radio = "ldapLogin",
            proven |-> Proves(f)] \in Promise!Attempts
  BY DEF Form, Proves, Promise!Attempts

\* An account passes Keycloak's check exactly when it is fit, and a standard
\* login passes exactly with a right password besides.
LEMMA ChecksAreFitness ==
    ASSUME TypeOK, NEW u \in Users \cup {NoUser}, NEW password
    PROVE  /\ UserError(u) = "none" <=> Promise!Fit(u)
           /\ FormError(u, password) = "none"
                <=> Promise!Fit(u) /\ password \in MkysMatch
  BY UsernamePasswordAssumption
     DEF UserError, FormError, Promise!Fit, Promise!Locked, Locked, TypeOK,
         MkysMatch

\* The check says "locked" only of an account that is.
LEMMA ChecksFindLocks ==
    ASSUME NEW u \in Users \cup {NoUser}, NEW password,
           FormError(u, password) = "user_temporarily_disabled"
    PROVE  Promise!Shut(u)
  BY DEF UserError, FormError, Promise!Shut, Promise!Locked, Locked

\* The phase after an answer of the handler.
LEMMA AnswerPhases ==
    ASSUME TypeOK, NEW s \in Sessions
    PROVE  /\ Success(s) => Phase(s)' = "cleared"
           /\ \/ userAndPasswordValidMessage(s)
              \/ LdapError(s)
              => Phase(s)' = "refused"
           /\ \/ Exception(s)
              \/ bruteForceAttackValideMessage(s)
              \/ Reply(s, "force", "noImage", TRUE)
              => Phase(s)' = "away"
  <1>1. Success(s) => Phase(s)' = "cleared"
    BY Answers DEF Phase, Heard, Verdict
  <1>2. userAndPasswordValidMessage(s) \/ LdapError(s) => Phase(s)' = "refused"
    BY Answers DEF Phase, Heard, Verdict
  <1>3. \/ Exception(s) \/ bruteForceAttackValideMessage(s)
        \/ Reply(s, "force", "noImage", TRUE)
        => Phase(s)' = "away"
    BY Answers DEF Phase, Heard, Verdict
  <1> QED
    BY <1>1, <1>2, <1>3

\* What the promise may do to one attempt.
PromiseMove(s) ==
    \/ Promise!Ask(s) \/ Promise!Hear(s) \/ Promise!Clear(s)
    \/ Promise!Admit(s) \/ Promise!Refuse(s) \/ Promise!Doom(s)
    \/ Promise!TurnAway(s) \/ Promise!AnswerRefusal(s)
    \/ Promise!AnswerTurnedAway(s) \/ Promise!StartAgain(s)
    \/ UNCHANGED Promise!vars

LEMMA BrowserSimulates ==
    ASSUME TypeOK, NEW s \in Sessions, Browser(s)
    PROVE  PromiseMove(s)
  <1>0. SameElsewhere(s)
    BY StepsAreLocal
  <1>1. CASE Submit(s)
    <2>1. PICK f \in FormsOf(page[s]) : form' = [form EXCEPT ![s] = f]
      BY <1>1 DEF Submit
    <2>2. Phase(s) = "idle" /\ Phase(s)' = "asked"
      BY <1>1 DEF Submit, Phase, Heard, TypeOK
    <2>3. Promise!Move(s, {"idle"}, "asked")
      BY <1>0, <2>2, MoveSimulated
    <2>4. f \in Form
      BY DEF FormsOf
    <2> DEFINE a == [user |-> f.user, whole |-> f.radio # "none",
                     directory |-> f.radio = "ldapLogin",
                     proven |-> Proves(f)]
    <2>5. a \in Promise!Attempts
      BY <2>4, AttemptTypes
    <2>6. ASSUME NEW t \in Sessions
          PROVE  Attempt(t)' = IF t = s THEN a ELSE Attempt(t)
      BY <2>1, <2>6 DEF Attempt, Proves, TypeOK
    <2>7. [t \in Sessions |-> Attempt(t)]'
            = [[t \in Sessions |-> Attempt(t)] EXCEPT ![s] = a]
      BY <2>6
    <2>8. UNCHANGED <<failures, enabled>>
      BY <1>1 DEF Submit, realm
    <2> QED
      BY <2>3, <2>5, <2>7, <2>8 DEF PromiseMove, Promise!Ask
  <1>2. CASE Reload(s) \/ (Restart(s) /\ pc[s] = "page")
    <2>1. /\ Phase(s)' = Phase(s)
          /\ UNCHANGED <<form, failures, enabled>>
      BY <1>2 DEF Reload, Restart, Phase, Heard, TypeOK, realm
    <2> QED
      BY <1>0, <2>1, PhaseKept, AttemptKept DEF PromiseMove, Promise!vars
  <1>3. CASE Restart(s) /\ pc[s] = "done"
    <2>1. /\ Phase(s) = "in" /\ Phase(s)' = "idle"
          /\ UNCHANGED <<form, failures, enabled>>
      BY <1>3 DEF Restart, Phase, Heard, TypeOK, realm
    <2> QED
      BY <1>0, <2>1, MoveSimulated, AttemptKept
         DEF PromiseMove, Promise!StartAgain
  <1>4. Restart(s) => pc[s] \in {"page", "done"}
    BY DEF Restart
  <1> QED
    BY <1>1, <1>2, <1>3, <1>4 DEF Browser

\* The handler up to its answer changes neither form nor realm, so its step is a
\* step of the promise if the phases and the account are right.
LEMMA VerdictSimulates ==
    ASSUME NEW s \in Sessions, SameElsewhere(s),
           UNCHANGED <<form, failures, enabled>>,
           \/ Phase(s)' = Phase(s)
           \/ Phase(s) = "asked" /\ Phase(s)' \in {"heard", "away"}
           \/ /\ Phase(s) = "heard" /\ Phase(s)' = "cleared"
              /\ Promise!Fit(form[s].user)
              /\ form[s].radio = "ldapLogin" \/ Proves(form[s])
           \/ /\ Phase(s) = "heard" /\ Phase(s)' = "refused"
              /\ ~(Promise!Fit(form[s].user) /\ Proves(form[s]))
           \/ /\ Phase(s) = "heard" /\ Phase(s)' = "away"
              /\ Promise!Shut(form[s].user) \/ form[s].radio = "none"
           \/ /\ Phase(s) = "heard" /\ Phase(s)' = "doomed"
              /\ Promise!Shut(form[s].user) /\ form[s].radio = "ldapLogin"
           \/ Phase(s) = "doomed" /\ Phase(s)' = "away"
           \/ /\ Phase(s) = "cleared" /\ Phase(s)' \in {"refused", "away"}
              /\ form[s].radio = "ldapLogin"
    PROVE  PromiseMove(s)
  <1> DEFINE A == [t \in Sessions |-> Attempt(t)]
  <1>1. A' = A
    BY AttemptKept
  <1>2. /\ A[s].user = form[s].user
        /\ A[s].whole = (form[s].radio # "none")
        /\ A[s].directory = (form[s].radio = "ldapLogin")
        /\ A[s].proven = Proves(form[s])
    BY DEF Attempt
  <1>3. CASE Phase(s)' = Phase(s)
    BY <1>1, <1>3, PhaseKept DEF PromiseMove, Promise!vars
  <1>4. CASE Phase(s) = "asked" /\ Phase(s)' = "heard"
    <2>1. Promise!Move(s, {"asked"}, "heard")
      BY <1>4, MoveSimulated
    <2> QED
      BY <1>1, <2>1 DEF PromiseMove, Promise!Hear
  <1>5. CASE /\ Phase(s) = "heard" /\ Phase(s)' = "cleared"
             /\ Promise!Fit(form[s].user)
             /\ form[s].radio = "ldapLogin" \/ Proves(form[s])
    <2>1. Promise!Move(s, {"heard"}, "cleared")
      BY <1>5, MoveSimulated
    <2> QED
      BY <1>1, <1>2, <1>5, <2>1 DEF PromiseMove, Promise!Clear
  <1>6. CASE /\ Phase(s) = "heard" /\ Phase(s)' = "refused"
             /\ ~(Promise!Fit(form[s].user) /\ Proves(form[s]))
    <2>1. Promise!Move(s, {"heard"}, "refused")
      BY <1>6, MoveSimulated
    <2> QED
      BY <1>1, <1>2, <1>6, <2>1 DEF PromiseMove, Promise!Refuse
  <1>7. CASE \/ Phase(s) = "asked" /\ Phase(s)' = "away"
             \/ Phase(s) = "doomed" /\ Phase(s)' = "away"
    <2>1. Promise!Move(s, {"asked", "doomed"}, "away")
      BY <1>7, MoveSimulated
    <2> QED
      BY <1>1, <2>1 DEF PromiseMove, Promise!TurnAway
  <1>8. CASE /\ Phase(s) = "heard" /\ Phase(s)' = "away"
             /\ Promise!Shut(form[s].user) \/ form[s].radio = "none"
    <2>1. Promise!Move(s, {"heard"}, "away")
      BY <1>8, MoveSimulated
    <2> QED
      BY <1>1, <1>2, <1>8, <2>1 DEF PromiseMove, Promise!TurnAway
  <1>9. CASE /\ Phase(s) = "heard" /\ Phase(s)' = "doomed"
             /\ Promise!Shut(form[s].user) /\ form[s].radio = "ldapLogin"
    <2>1. Promise!Move(s, {"heard"}, "doomed")
      BY <1>9, MoveSimulated
    <2> QED
      BY <1>1, <1>2, <1>9, <2>1 DEF PromiseMove, Promise!Doom
  <1>10. CASE /\ Phase(s) = "cleared" /\ Phase(s)' \in {"refused", "away"}
              /\ form[s].radio = "ldapLogin"
    <2>1. \/ Promise!Move(s, {"cleared"}, "refused")
          \/ Promise!Move(s, {"cleared"}, "away")
      BY <1>10, MoveSimulated
    <2> QED
      BY <1>1, <1>2, <1>10, <2>1
         DEF PromiseMove, Promise!Refuse, Promise!TurnAway
  <1> QED
    BY <1>3, <1>4, <1>5, <1>6, <1>7, <1>8, <1>9, <1>10

LEMMA CaptchaSimulates ==
    ASSUME TypeOK, NEW s \in Sessions, CaptchaControl(s)
    PROVE  PromiseMove(s)
  <1>1. /\ pc[s] = "captcha" /\ UNCHANGED <<form, failures, enabled>>
        /\ Goto(s, "form") \/ Reply(s, "force", "noImage", TRUE)
    BY DEF CaptchaControl, realm
  <1>2. Phase(s) = "asked"
    BY <1>1 DEF Phase, Heard
  <1>3. Goto(s, "form") => Phase(s)' = "heard"
    BY WentTo DEF Phase, Heard
  <1>4. Phase(s)' \in {"heard", "away"}
    BY <1>1, <1>3, AnswerPhases
  <1>5. SameElsewhere(s)
    BY StepsAreLocal DEF Local
  <1> QED
    BY <1>1, <1>2, <1>4, <1>5, VerdictSimulates

\* A standard login is cleared by the check that compares its password, refused
\* only if that check has found something, and turned away only by a lock.  A
\* directory login that finds a lock is lost from here on.
LEMMA ValidateFormSimulates ==
    ASSUME TypeOK, NEW s \in Sessions, TabInv(s), ValidateForm(s)
    PROVE  PromiseMove(s)
  <1> DEFINE e == FormError(Account(s), form[s].password)
  <1>1. pc[s] = "form" /\ UNCHANGED <<form, failures, enabled>> /\ err'[s] = e
    BY DEF ValidateForm, realm, TypeOK
  <1>2. Phase(s) = "heard"
    BY <1>1 DEF Phase, Heard
  <1>3. form[s].radio # "none" => Account(s) = form[s].user
    BY <1>1 DEF TabInv, NoteMeansHidden, Account
  <1>4. form[s].user \in Users \cup {NoUser}
    BY DEF TypeOK, Form
  <1>5. ASSUME form[s].radio = "mkysLogin"
        PROVE  /\ e = "none" => Promise!Fit(form[s].user) /\ Proves(form[s])
               /\ e # "none" => ~(Promise!Fit(form[s].user) /\ Proves(form[s]))
    <2>1. e = FormError(form[s].user, form[s].password)
      BY <1>3, <1>5
    <2>2. e = "none" => form[s].user \in Users
      BY <1>4, <2>1, PassedCheck
    <2> QED
      BY <1>4, <1>5, <2>1, <2>2, ChecksAreFitness DEF Proves
  <1>6. SameElsewhere(s)
    BY StepsAreLocal DEF Local
  <1>7. ASSUME form[s].radio # "none", e = "user_temporarily_disabled"
        PROVE  Promise!Shut(form[s].user)
    BY <1>3, <1>4, <1>7, ChecksFindLocks
  <1>8. CASE form[s].radio = "mkysLogin" /\ e = "none" /\ Success(s)
    BY <1>1, <1>2, <1>5, <1>6, <1>8, AnswerPhases, VerdictSimulates
  <1>9. CASE /\ form[s].radio = "mkysLogin" /\ e # "none"
             /\ userAndPasswordValidMessage(s)
    BY <1>1, <1>2, <1>5, <1>6, <1>9, AnswerPhases, VerdictSimulates
  <1>10. CASE /\ form[s].radio = "mkysLogin" /\ e = "user_temporarily_disabled"
              /\ bruteForceAttackValideMessage(s)
    BY <1>1, <1>2, <1>6, <1>7, <1>10, AnswerPhases, VerdictSimulates
  <1>11. CASE form[s].radio = "none" /\ Exception(s)
    BY <1>1, <1>2, <1>6, <1>11, AnswerPhases, VerdictSimulates
  <1>12. CASE form[s].radio = "ldapLogin" /\ Goto(s, "user")
    <2>1. Phase(s)' = IF e = "user_temporarily_disabled" THEN "doomed" ELSE "heard"
      BY <1>1, <1>12, WentTo DEF Phase, Heard
    <2> QED
      BY <1>1, <1>2, <1>6, <1>7, <1>12, <2>1, VerdictSimulates
  <1> QED
    BY <1>8, <1>9, <1>10, <1>11, <1>12 DEF ValidateForm

\* A directory login is cleared, or refused, by the account as it is now, unless
\* super.validateForm found it locked.
LEMMA ValidateUserSimulates ==
    ASSUME TypeOK, NEW s \in Sessions, TabInv(s), ValidateUser(s)
    PROVE  PromiseMove(s)
  <1> DEFINE e == UserError(Account(s))
  <1>1. pc[s] = "user" /\ UNCHANGED <<form, failures, enabled>>
    BY DEF ValidateUser, realm
  <1>2. /\ err[s] = "user_temporarily_disabled" => Phase(s) = "doomed"
        /\ err[s] # "user_temporarily_disabled" => Phase(s) = "heard"
    BY <1>1 DEF Phase, Heard
  <1>3. form[s].radio = "ldapLogin" /\ Account(s) = form[s].user
    BY <1>1 DEF TabInv, NoteMeansHidden, Established, Account
  <1>4. e = "none" <=> Promise!Fit(form[s].user)
    BY <1>3, ChecksAreFitness DEF TypeOK, Form
  <1>5. SameElsewhere(s)
    BY StepsAreLocal DEF Local
  <1>6. CASE err[s] = "user_temporarily_disabled"
    <2>1. bruteForceAttackValideMessage(s)
      BY <1>6 DEF ValidateUser
    <2> QED
      BY <1>1, <1>2, <1>5, <1>6, <2>1, AnswerPhases, VerdictSimulates
  <1>7. CASE /\ err[s] # "user_temporarily_disabled"
             /\ e # "none" /\ userAndPasswordValidMessage(s)
    BY <1>1, <1>2, <1>4, <1>5, <1>7, AnswerPhases, VerdictSimulates
  <1>8. CASE /\ err[s] # "user_temporarily_disabled"
             /\ e = "none" /\ Goto(s, "lookup")
    <2>1. Phase(s)' = "cleared"
      BY <1>8, WentTo DEF Phase
    <2> QED
      BY <1>1, <1>2, <1>3, <1>4, <1>5, <1>8, <2>1, VerdictSimulates
  <1> QED
    BY <1>6, <1>7, <1>8 DEF ValidateUser

LEMMA LdapSimulates ==
    ASSUME TypeOK, NEW s \in Sessions, TabInv(s), Ldap(s)
    PROVE  PromiseMove(s)
  <1>1. pc[s] \in {"lookup", "bind"} /\ UNCHANGED <<form, failures, enabled>>
    BY DEF Ldap, LdapLookup, LdapBind, realm
  <1>2. Phase(s) = "cleared" /\ form[s].radio = "ldapLogin"
    BY <1>1 DEF Phase, Heard, TabInv, Established
  <1>3. Goto(s, "bind") => Phase(s)' = "cleared"
    BY WentTo DEF Phase, Heard
  <1>4. Phase(s)' \in {"cleared", "refused", "away"}
    BY <1>3, AnswerPhases DEF Ldap, LdapLookup, LdapBind
  <1>5. SameElsewhere(s)
    BY StepsAreLocal
  <1> QED
    BY <1>1, <1>2, <1>4, <1>5, VerdictSimulates

\* The answer is where the promise counts.
LEMMA AnswerSimulates ==
    ASSUME TypeOK, NEW s \in Sessions, TabInv(s), ProcessResult(s)
    PROVE  PromiseMove(s)
  <1> DEFINE A == [t \in Sessions |-> Attempt(t)]
  <1>1. pc[s] = "result" /\ UNCHANGED <<form, enabled>>
    BY DEF ProcessResult
  <1>2. A' = A /\ A[s].user = form[s].user /\ A[s].proven = Proves(form[s])
    BY <1>1, AttemptKept DEF Attempt
  <1>3. SameElsewhere(s)
    BY StepsAreLocal DEF Local
  <1>4. CASE result[s].status = "success"
    <2>1. Phase(s) = "cleared" /\ Phase(s)' = "in" /\ UNCHANGED failures
      BY <1>1, <1>4 DEF ProcessResult, Phase, Heard, Verdict, TypeOK
    <2>2. Proves(form[s])
      BY <1>1, <1>4 DEF TabInv, Established
    <2>3. Promise!Move(s, {"cleared"}, "in")
      BY <1>3, <2>1, MoveSimulated
    <2> QED
      BY <1>1, <1>2, <2>1, <2>2, <2>3 DEF PromiseMove, Promise!Admit
  <1>5. CASE result[s].status = "failure"
    <2>1. Phase(s) = "refused" /\ Phase(s)' = "idle"
      BY <1>1, <1>5 DEF ProcessResult, Phase, Heard, Verdict, TypeOK
    <2>2. Promise!Move(s, {"refused"}, "idle")
      BY <1>3, <2>1, MoveSimulated
    <2>3. failures' = [u \in Users |->
            IF u = form[s].user /\ ~Promise!Locked(u) THEN failures[u] + 1
                                                      ELSE failures[u]]
      BY <1>5 DEF ProcessResult, Counts, Locked, Promise!Locked, TypeOK
    <2> QED
      BY <1>1, <1>2, <2>2, <2>3 DEF PromiseMove, Promise!AnswerRefusal
  <1>6. CASE result[s].status \notin {"success", "failure"}
    <2>1. /\ Phase(s) = "away" /\ Phase(s)' = "idle"
          /\ UNCHANGED failures
      BY <1>1, <1>6 DEF ProcessResult, Phase, Heard, Verdict, TypeOK
    <2>2. Promise!Move(s, {"away"}, "idle")
      BY <1>3, <2>1, MoveSimulated
    <2> QED
      BY <1>1, <1>2, <2>1, <2>2 DEF PromiseMove, Promise!AnswerTurnedAway
  <1> QED
    BY <1>4, <1>5, <1>6

LEMMA StepSimulates ==
    TypeOK /\ Inv /\ [Next]_vars => [Promise!Next]_(Promise!vars)
  <1> SUFFICES ASSUME TypeOK, Inv, [Next]_vars
               PROVE  [Promise!Next]_(Promise!vars)
    OBVIOUS
  <1>1. ASSUME NEW s \in Sessions, Browser(s) \/ Local(s) \/ Ldap(s)
        PROVE  Promise!Next \/ UNCHANGED Promise!vars
    <2>1. TabInv(s)
      BY DEF Inv, TabInv
    <2>2. PromiseMove(s)
      BY <1>1, <2>1, BrowserSimulates, CaptchaSimulates, ValidateFormSimulates,
         ValidateUserSimulates, LdapSimulates, AnswerSimulates DEF Local
    <2> QED
      BY <2>2 DEF PromiseMove, Promise!Next
  <1>2. ASSUME NEW u \in Users, ForgetFailures(u) \/ SetEnabled(u)
        PROVE  Promise!Next
    <2>1. UNCHANGED <<pc, form, result, err>>
      BY <1>2 DEF ForgetFailures, SetEnabled, session
    <2>2. [t \in Sessions |-> Phase(t)]' = [t \in Sessions |-> Phase(t)]
      BY <2>1 DEF Phase, Heard, Verdict
    <2>3. [t \in Sessions |-> Attempt(t)]' = [t \in Sessions |-> Attempt(t)]
      BY <2>1, AttemptKept
    <2>4. ForgetFailures(u) => Promise!Forget(u)
      BY <2>2, <2>3 DEF ForgetFailures, Promise!Forget
    <2>5. SetEnabled(u) => Promise!SetEnabled(u)
      BY <2>2, <2>3 DEF SetEnabled, Promise!SetEnabled
    <2> QED
      BY <1>2, <2>4, <2>5 DEF Promise!Next
  <1>3. CASE UNCHANGED vars
    <2>1. UNCHANGED <<pc, form, result, err, failures, enabled>>
      BY <1>3 DEF vars, session, realm
    <2> QED
      BY <2>1, AttemptKept DEF Phase, Heard, Verdict, Promise!vars
  <1> QED
    BY <1>1, <1>2, <1>3 DEF Next

(* The authenticator implements LoginPromise: for any number of tabs and     *)
(* accounts, an account was fit at some moment of the request that let it    *)
(* in, only the directory can refuse a right password of an account found    *)
(* fit, and a count goes up only by the answer to a refusal, by one.         *)
THEOREM PromiseIsKept == Spec => KeepsLoginPromise
  <1>1. Init => Promise!Init
    <2> SUFFICES ASSUME Init PROVE Promise!Init
      OBVIOUS
    <2>1. NoForm \in Form
      BY DEF NoForm, Form, Typed
    <2>2. ASSUME NEW s \in Sessions PROVE Attempt(s) \in Promise!Attempts
      BY <2>1, <2>2, AttemptTypes DEF Init, Attempt
    <2>3. ASSUME NEW s \in Sessions PROVE Phase(s) = "idle"
      BY <2>3 DEF Init, Phase
    <2> QED
      BY <2>2, <2>3 DEF Init, Promise!Init
  <1> QED
    BY <1>1, Invariance, StepSimulates, PTL
       DEF Spec, KeepsLoginPromise, Promise!Safety

=============================================================================
