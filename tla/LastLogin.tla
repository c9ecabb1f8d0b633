------------------------------ MODULE LastLogin ------------------------------
(***************************************************************************)
(* KCEventListener.onEvent(Event): the date of a user's last login.  The   *)
(* LOGIN event comes inside the request's transaction; the date is written *)
(* by a task of the common pool, through the user model of the request's   *)
(* session.  The transaction neither waits for the task nor knows of it:   *)
(* only what the task writes before the commit is stored.  The two threads *)
(* share a persistence context that is made for one; a write in its midst  *)
(* is kept, is lost, or makes the commit fail.                             *)
(***************************************************************************)
EXTENDS Naturals

CONSTANTS
    Requests,   \* login requests, each used once
    Users,
    MaxTime     \* bound of the clock, which counts seconds

ASSUME LastLoginAssumption == MaxTime \in Nat \ {0}

VARIABLES
    clock,      \* LocalDateTime.now(); never 0, which stands for no date
    pc,         \* where a request is
    task,       \* where the task of a request is
    user,       \* the user who logs in with a request
    date,       \* USER_SON_GIRIS_TARIHI in the request's persistence context
    stored,     \* USER_SON_GIRIS_TARIHI in the database
    began,      \* history: when the login event came,
    ended,      \* when the transaction ended,
    before      \* and what was stored for the user when the event came

vars == <<clock, pc, task, user, date, stored, began, ended, before>>

Steps     == {"idle", "open", "committed", "closed", "failed"}
TaskSteps == {"none", "queued", "logged", "failed"}
Times     == 0 .. MaxTime

Goto(r, step) == pc' = [pc EXCEPT ![r] = step]

-----------------------------------------------------------------------------
(* The request *)

\* Mutant: the task is made and not started.
OnEventNoTask(r) ==
    /\ pc[r] = "idle"
    /\ before' = [before EXCEPT ![r] = stored[user[r]]]
    /\ began' = [began EXCEPT ![r] = clock]
    /\ Goto(r, "open")
    /\ UNCHANGED <<clock, task, user, date, stored, ended>>

\* onEvent: the event of type LOGIN, with a user; the task is handed over.
OnEvent(r) ==
    /\ pc[r] = "idle"
    /\ before' = [before EXCEPT ![r] = stored[user[r]]]
    /\ began' = [began EXCEPT ![r] = clock]
    /\ task' = [task EXCEPT ![r] = "queued"]
    /\ Goto(r, "open")
    /\ UNCHANGED <<clock, user, date, stored, ended>>

\* Mutant: the event removes the old date, for the task to set the new one.
CommitRemoved(r) ==
    /\ pc[r] = "open"
    /\ stored' = [stored EXCEPT ![user[r]] = date[r]]
    /\ ended' = [ended EXCEPT ![r] = clock]
    /\ Goto(r, "committed")
    /\ UNCHANGED <<clock, task, user, date, began, before>>

\* The date is in the update if the task has written it by now.
Commit(r) ==
    /\ pc[r] = "open"
    /\ stored' = [stored EXCEPT ![user[r]] = IF date[r] # 0 THEN date[r] ELSE @]
    /\ ended' = [ended EXCEPT ![r] = clock]
    /\ Goto(r, "committed")
    /\ UNCHANGED <<clock, task, user, date, began, before>>

\* The commit fails, of itself or because the task writes meanwhile.
Rollback(r) ==
    /\ pc[r] = "open"
    /\ ended' = [ended EXCEPT ![r] = clock]
    /\ Goto(r, "failed")
    /\ UNCHANGED <<clock, task, user, date, stored, began, before>>

\* The session of the request and its entity manager are closed.
Close(r) ==
    /\ pc[r] = "committed"
    /\ Goto(r, "closed")
    /\ UNCHANGED <<clock, task, user, date, stored, began, ended, before>>

-----------------------------------------------------------------------------
(* The task, in a thread of the common pool *)

\* Mutant: the task has a transaction of its own.
SetAttributeAlone(r) ==
    /\ task[r] = "queued"
    /\ task' = [task EXCEPT ![r] = "logged"]
    /\ date' = [date EXCEPT ![r] = clock]
    /\ stored' = [stored EXCEPT ![user[r]] = clock]
    /\ UNCHANGED <<clock, pc, user, began, ended, before>>

\* setSingleAttribute, and the line in the log.  It may return as long as the
\* session is not closed.
SetAttribute(r) ==
    /\ task[r] = "queued"
    /\ pc[r] # "closed"
    /\ task' = [task EXCEPT ![r] = "logged"]
    /\ date' = [date EXCEPT ![r] = clock]
    /\ UNCHANGED <<clock, pc, user, stored, began, ended, before>>

\* Out of the transaction it may throw as well.  Nobody looks at the future
\* that holds the exception.
TaskThrows(r) ==
    /\ task[r] = "queued"
    /\ pc[r] # "open"
    /\ task' = [task EXCEPT ![r] = "failed"]
    /\ UNCHANGED <<clock, pc, user, date, stored, began, ended, before>>

-----------------------------------------------------------------------------

Tick ==
    /\ clock < MaxTime
    /\ clock' = clock + 1
    /\ UNCHANGED <<pc, task, user, date, stored, began, ended, before>>

Init ==
    /\ clock = 1
    /\ pc = [r \in Requests |-> "idle"]
    /\ task = [r \in Requests |-> "none"]
    /\ user \in [Requests -> Users]
    /\ date = [r \in Requests |-> 0]
    /\ stored = [u \in Users |-> 0]
    /\ began = [r \in Requests |-> 0]
    /\ ended = [r \in Requests |-> 0]
    /\ before = [r \in Requests |-> 0]

\* Mutant: setUserLastLoginTime joins the task.
FinishJoined(r) == task[r] # "queued" /\ (Commit(r) \/ Rollback(r) \/ Close(r))

\* The end of a request, which the thread that serves it reaches by itself:
\* setUserLastLoginTime returns as soon as the task is queued.
Finish(r) == Commit(r) \/ Rollback(r) \/ Close(r)

Next ==
    \/ \E r \in Requests :
         OnEvent(r) \/ Finish(r) \/ SetAttribute(r) \/ TaskThrows(r)
    \/ Tick

\* The pool promises nothing: it may be busy with other tasks for good.
Spec == Init /\ [][Next]_vars /\ \A r \in Requests : WF_vars(Finish(r))

-----------------------------------------------------------------------------
(* Properties *)

TypeOK ==
    /\ clock \in 1 .. MaxTime
    /\ pc \in [Requests -> Steps]
    /\ task \in [Requests -> TaskSteps]
    /\ user \in [Requests -> Users]
    /\ date \in [Requests -> Times]
    /\ stored \in [Users -> Times]
    /\ began \in [Requests -> Times]
    /\ ended \in [Requests -> Times]
    /\ before \in [Requests -> Times]
    /\ \A r \in Requests :
         /\ pc[r] = "idle" <=> task[r] = "none"
         /\ date[r] # 0 => task[r] = "logged"

\* The date that is stored for a user is a moment at which a login of that user
\* was going on, and not one at which the task happened to run.
StoredDuringLogin ==
    \A u \in Users : stored[u] # 0 =>
        \E r \in Requests :
            /\ user[r] = u /\ pc[r] \in {"committed", "closed"}
            /\ began[r] <= stored[u] /\ stored[u] <= ended[r]

\* Logins that overlap may store their dates out of order; but no login puts an
\* older date in the place of one that was stored before its event.
NoOlderThanBefore ==
    [][\A r \in Requests :
         /\ pc[r] = "open" /\ pc'[r] = "committed"
         /\ stored'[user[r]] # stored[user[r]]
         => stored'[user[r]] >= before[r]]_vars

\* The task may run before the end of the request or after it: what it does
\* to the database is seen at the commit, or never.
Phase == [r \in Requests |-> IF pc[r] \in {"idle", "open"} THEN pc[r] ELSE "over"]

Promise == INSTANCE LoginDatePromise WITH phase <- Phase

\* Two threads write and commit as they like, yet the date is as if the login
\* itself had set it when it ended: nothing else touches it, for nobody else.
KeepsDatePromise == Promise!Safety

\* The login does not wait for the date: the request ends though no task runs.
LoginNotDelayed ==
    \A r \in Requests : pc[r] = "open" ~> pc[r] \in {"closed", "failed"}

\* Refuted.  "Updated Time Set" (line 67): once a login that logged this is
\* over, a date at least as late is stored.
LoggedTimeIsStored ==
    \A r \in Requests :
        pc[r] = "closed" /\ task[r] = "logged" => stored[user[r]] >= date[r]

=============================================================================
