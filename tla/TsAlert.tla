------------------------------ MODULE TsAlert -------------------------------
(***************************************************************************)
(* The element <ts-alert> of the login theme (ts-components.js) and the    *)
(* update cycle of the library it is bundled with: how the element is      *)
(* created or upgraded, how a property or an attribute that changes leads  *)
(* to one update in a later microtask, how the update writes the class of  *)
(* the message, and how _close() hides the message behind the back of that *)
(* cycle.                                                                  *)
(*                                                                         *)
(* Scripts of a page are external: they may write the attribute and the    *)
(* property of the element, as the element invites them to.  Of a script   *)
(* that runs between the creation of an element and its first update, as a *)
(* microtask of its own, nothing is said here.                             *)
(***************************************************************************)

CONSTANT NoType

\* The colours of the four styles; a message of another type has none.
Colour == [info |-> "blue", success |-> "green", warning |-> "yellow", error |-> "red"]
Types == {"info", "success", "warning", "error"}

ASSUME NoTypeAssumption == NoType \notin Types

VARIABLES
    defined,         \* customElements.define("ts-alert") has run
    stage,           \* how far the element has come
    attribute,       \* the attribute type
    own,             \* a property set on the element before it was upgraded
    type,            \* this.type
    isUpdatePending, \* an update was requested and not yet performed
    hasUpdated,      \* the first update was performed
    rendered,        \* the type in the class attribute, as last committed
    closed           \* the class ts-alert-close is there

alertVars == <<defined, stage, attribute, own, type, isUpdatePending, hasUpdated,
               rendered, closed>>
-----------------------------------------------------------------------------
AlertInit ==
    /\ defined = FALSE
    /\ stage = "absent"
    /\ attribute = NoType
    /\ own = NoType
    /\ type = NoType
    /\ isUpdatePending = FALSE
    /\ hasUpdated = FALSE
    /\ rendered = NoType
    /\ closed = FALSE

\* Mutant: a property without an accessor, which requests nothing.
WriteTypeSilently(t) ==
    /\ type' = t
    /\ UNCHANGED isUpdatePending

\* The setter of the property: an update is requested if the value changes,
\* and several requests make one update.
WriteType(t) ==
    /\ type' = t
    /\ isUpdatePending' = (isUpdatePending \/ t # type)

(***************************************************************************)
(* The element comes from the markup.  Before the definition the parser    *)
(* makes an unknown element of it.  Afterwards it makes the element itself *)
(* and runs the constructor, the callback of the attribute and the         *)
(* callback of the insertion, with a microtask checkpoint between them.    *)
(***************************************************************************)
ParseUndefined(t) ==
    /\ ~defined
    /\ stage = "absent"
    /\ stage' = "undefined"
    /\ attribute' = t
    /\ UNCHANGED <<defined, own, type, isUpdatePending, hasUpdated, rendered, closed>>

\* The constructor requests an update, which waits for the connection.
Construct ==
    /\ defined
    /\ stage = "absent"
    /\ stage' = "constructed"
    /\ type' = "info"
    /\ isUpdatePending' = TRUE
    /\ UNCHANGED <<defined, attribute, own, hasUpdated, rendered, closed>>

AttributeAdded(t) ==
    /\ stage = "constructed"
    /\ stage' = "attributed"
    /\ attribute' = t
    /\ WriteType(t)
    /\ UNCHANGED <<defined, own, hasUpdated, rendered, closed>>

\* connectedCallback lets the waiting update go on.
Connect ==
    /\ stage = "attributed"
    /\ stage' = "connected"
    /\ UNCHANGED <<defined, attribute, own, type, isUpdatePending, hasUpdated, rendered,
                   closed>>

(***************************************************************************)
(* The module defines the element.  One that is there already is upgraded  *)
(* at once, through all three callbacks and without a checkpoint; what was *)
(* set on it before is kept aside for the first update.                    *)
(***************************************************************************)
Define ==
    /\ ~defined
    /\ defined' = TRUE
    /\ IF stage = "undefined"
       THEN /\ stage' = "connected"
            /\ type' = attribute
            /\ isUpdatePending' = TRUE
       ELSE UNCHANGED <<stage, type, isUpdatePending>>
    /\ UNCHANGED <<attribute, own, hasUpdated, rendered, closed>>

\* The first update gives the element what was set on it before its upgrade.
Current == IF ~hasUpdated /\ own # NoType THEN own ELSE type

\* Mutant: the update does not wait for the connection.
PerformUpdateAtOnce ==
    /\ stage \in {"constructed", "attributed", "connected"}
    /\ isUpdatePending
    /\ type' = Current
    /\ own' = NoType
    /\ rendered' = Current
    /\ closed' = (closed /\ rendered = Current)
    /\ isUpdatePending' = FALSE
    /\ hasUpdated' = TRUE
    /\ UNCHANGED <<defined, stage, attribute>>

\* Mutant: the update does not mark itself as done.
PerformUpdateAgain ==
    /\ stage = "connected"
    /\ isUpdatePending
    /\ type' = Current
    /\ own' = NoType
    /\ rendered' = Current
    /\ closed' = (closed /\ rendered = Current)
    /\ hasUpdated' = TRUE
    /\ UNCHANGED <<defined, stage, attribute, isUpdatePending>>

\* The update, in a microtask.  The class attribute is written only if its type
\* is another than the one last written, and then without ts-alert-close.
PerformUpdate ==
    /\ stage = "connected"
    /\ isUpdatePending
    /\ type' = Current
    /\ own' = NoType
    /\ rendered' = Current
    /\ closed' = (closed /\ rendered = Current)
    /\ isUpdatePending' = FALSE
    /\ hasUpdated' = TRUE
    /\ UNCHANGED <<defined, stage, attribute>>

\* A script of the page has an element that is not upgraded or is up and running.
Scriptable == stage = "undefined" \/ (stage = "connected" /\ hasUpdated)

SetProperty(t) ==
    /\ Scriptable
    /\ IF stage = "undefined"
       THEN own' = t /\ UNCHANGED <<type, isUpdatePending>>
       ELSE WriteType(t) /\ UNCHANGED own
    /\ UNCHANGED <<defined, stage, attribute, hasUpdated, rendered, closed>>

SetAttribute(t) ==
    /\ Scriptable
    /\ attribute' = t
    /\ IF stage = "undefined"
       THEN UNCHANGED <<type, isUpdatePending>>
       ELSE WriteType(t)
    /\ UNCHANGED <<defined, stage, own, hasUpdated, rendered, closed>>

\* The reader clicks the button of a message that can be seen.  A click is a
\* task: the microtasks of earlier tasks have run.
Close ==
    /\ stage = "connected"
    /\ hasUpdated
    /\ ~isUpdatePending
    /\ ~closed
    /\ closed' = TRUE
    /\ UNCHANGED <<defined, stage, attribute, own, type, isUpdatePending, hasUpdated,
                   rendered>>

AlertNext ==
    \/ \E t \in Types : \/ ParseUndefined(t) \/ AttributeAdded(t)
                        \/ SetProperty(t) \/ SetAttribute(t)
    \/ Construct \/ Connect \/ Define \/ PerformUpdate \/ Close

AlertSpec == AlertInit /\ [][AlertNext]_alertVars
-----------------------------------------------------------------------------
\* What the element is asked for: a property wins over the attribute.
Asked ==
    IF own # NoType THEN own
    ELSE IF stage \in {"attributed", "connected"} THEN type ELSE attribute

View == INSTANCE AlertView WITH
    asked <- Asked, shown <- rendered, live <- stage = "connected"

\* The element keeps the promise of AlertView: whatever the order of parser,
\* module, updates, scripts and clicks, no type is shown that was not asked for
\* (not even the default of the constructor, for a moment), and a message that
\* was closed appears again only in another type.
KeepsPromise == View!Safety
=============================================================================
