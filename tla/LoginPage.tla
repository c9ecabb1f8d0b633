----------------------------- MODULE LoginPage ------------------------------
(***************************************************************************)
(* A page of the login theme while it loads and is used: the parser that   *)
(* makes the layout, the sidebar, the content with its message and the     *)
(* password fields, in this order (template.ftl); the module               *)
(* ts-components.js, which is fetched asynchronously and runs once, at any *)
(* point of the parsing; the microtasks in which elements render; the      *)
(* reader, who resizes the window, closes the message and looks at a       *)
(* password.  The browser, which runs task after task, is external.        *)
(*                                                                         *)
(* Left out: the slider, paddings and margins, the background picture, and *)
(* the other scripts of a page, which touch nothing of this: the check for *)
(* a login in another tab (template.ftl, line 20) leaves the page, the     *)
(* toggle of Keycloak's own buttons (login-update-password.ftl, line 59)   *)
(* finds none here, a captcha fills its own div.                           *)
(***************************************************************************)
EXTENDS TsAlert, Naturals

CONSTANTS
    Fields, \* how many password fields the page has
    Widths  \* the widths of the window, in pixels

ASSUME FieldsAssumption == Fields \in Nat
ASSUME WidthsAssumption == Widths \subseteq Nat \ {0}

VARIABLES
    element, \* how far each element has come
    fields,  \* so many password fields are parsed
    toggled, \* the fields in a ts-password-group, with a button
    clear,   \* the fields whose type is "text"
    width    \* the width of the window

pageVars == <<element, fields, toggled, clear, width>>
vars == <<defined, stage, attribute, own, type, isUpdatePending, hasUpdated, rendered,
          closed, element, fields, toggled, clear, width>>

\* Elements of the page, and the two that others have in their shadow trees.
Parsed == {"ts-layout", "ts-sidebar", "ts-content"}
Elements == Parsed \union {"sidebar-copyright", "content-copyright"}
Stages == {"absent", "undefined", "upgraded", "rendered"}

\* Between two tasks: no element is being made and no microtask waits.
Quiet ==
    /\ \A e \in Elements : element[e] # "upgraded"
    /\ stage \notin {"constructed", "attributed"}
    /\ ~(stage = "connected" /\ isUpdatePending)
-----------------------------------------------------------------------------
Init ==
    /\ AlertInit
    /\ element = [e \in Elements |-> "absent"]
    /\ fields = 0
    /\ toggled = {}
    /\ clear = {}
    /\ width \in Widths

\* The elements before e in the page.
Before(e) ==
    IF e = "ts-layout" THEN {}
    ELSE IF e = "ts-sidebar" THEN {"ts-layout"} ELSE {"ts-layout", "ts-sidebar"}

ParseElement(e) ==
    /\ Quiet
    /\ element[e] = "absent"
    /\ \A b \in Before(e) : element[b] # "absent"
    /\ element' = [element EXCEPT ![e] = IF defined THEN "upgraded" ELSE "undefined"]
    /\ UNCHANGED <<alertVars, fields, toggled, clear, width>>

\* A page has a message or none; it stands before the form.
ParseMessage ==
    /\ Quiet
    /\ element["ts-content"] # "absent"
    /\ fields = 0
    /\ Construct \/ \E t \in Types : ParseUndefined(t)
    /\ UNCHANGED pageVars

\* The parser goes on with the message it is making.
FinishMessage ==
    /\ \A e \in Elements : element[e] # "upgraded"
    /\ Connect \/ \E t \in Types : AttributeAdded(t)
    /\ UNCHANGED pageVars

ParseField ==
    /\ Quiet
    /\ element["ts-content"] # "absent"
    /\ fields < Fields
    /\ fields' = fields + 1
    /\ UNCHANGED <<alertVars, element, toggled, clear, width>>

\* Mutant: buttons for the fields of the finished page, parsed or not.
RunModuleForAll ==
    /\ Quiet
    /\ Define
    /\ element' = [e \in Elements |->
                     IF element[e] = "undefined" THEN "upgraded" ELSE element[e]]
    /\ toggled' = 1 .. Fields
    /\ UNCHANGED <<fields, clear, width>>

(***************************************************************************)
(* The module: it defines the elements, which upgrades those of the page,  *)
(* and puts every password field that is in the document into a group with *)
(* a button.  Nothing looks for fields that the parser makes afterwards.   *)
(***************************************************************************)
RunModule ==
    /\ Quiet
    /\ Define
    /\ element' = [e \in Elements |->
                     IF element[e] = "undefined" THEN "upgraded" ELSE element[e]]
    /\ toggled' = {i \in 1 .. fields : i \notin clear}
    /\ UNCHANGED <<fields, clear, width>>

\* What rendering e creates in its shadow tree.
Within(e) ==
    IF e = "ts-sidebar" THEN {"sidebar-copyright"}
    ELSE IF e = "ts-content" THEN {"content-copyright"} ELSE {}

\* Mutant: an element that renders asks the layout around it to render again.
RenderElementUpwards(e) ==
    /\ element[e] = "upgraded"
    /\ element' = [x \in Elements |->
                     IF x = e THEN "rendered"
                     ELSE IF x \in Within(e) \union {"ts-layout"} THEN "upgraded"
                     ELSE element[x]]
    /\ UNCHANGED <<alertVars, fields, toggled, clear, width>>

\* The first update of an element, in a microtask.
RenderElement(e) ==
    /\ element[e] = "upgraded"
    /\ element' = [x \in Elements |->
                     IF x = e THEN "rendered"
                     ELSE IF x \in Within(e) THEN "upgraded"
                     ELSE element[x]]
    /\ UNCHANGED <<alertVars, fields, toggled, clear, width>>

RenderMessage == PerformUpdate /\ UNCHANGED pageVars

\* A script may write several times before the microtask runs.
RunScript ==
    /\ \A e \in Elements : element[e] # "upgraded"
    /\ \E t \in Types : SetProperty(t) \/ SetAttribute(t)
    /\ UNCHANGED pageVars

CloseMessage == Quiet /\ Close /\ UNCHANGED pageVars

\* The button of a group shows the password of its field or hides it again.
ClickToggle(i) ==
    /\ Quiet
    /\ i \in toggled
    /\ clear' = IF i \in clear THEN clear \ {i} ELSE clear \union {i}
    /\ UNCHANGED <<alertVars, element, fields, toggled, width>>

Resize(w) ==
    /\ Quiet
    /\ width' = w
    /\ UNCHANGED <<alertVars, element, fields, toggled, clear>>

\* What the browser does by itself once a task or a microtask has been started.
Browser == FinishMessage \/ RenderMessage \/ \E e \in Elements : RenderElement(e)

Next ==
    \/ Browser
    \/ \E e \in Parsed : ParseElement(e)
    \/ ParseMessage \/ ParseField \/ RunModule
    \/ RunScript \/ CloseMessage
    \/ \E i \in 1 .. Fields : ClickToggle(i)
    \/ \E w \in Widths : Resize(w)

Spec == Init /\ [][Next]_vars /\ WF_vars(Browser)
-----------------------------------------------------------------------------
\* The style sheets, at the width of the window.  An element that is not
\* upgraded yet has none.

\* ts-sidebar is shown from 1024 pixels on.
SidebarShown == element["ts-sidebar"] = "undefined" \/ width >= 1024

\* Mutant: max-width in the place of min-width.
ContentHeaderShownToo == width <= 1024

\* ts-content hides its own link and copyright from 1024 pixels on.
ContentHeaderShown == ~(width >= 1024)

Logos ==
    {e \in {"ts-sidebar", "ts-content"} :
        /\ element[e] = "rendered"
        /\ IF e = "ts-sidebar" THEN SidebarShown ELSE ContentHeaderShown}

Copyrights ==
    {e \in {"sidebar-copyright", "content-copyright"} :
        /\ element[e] = "rendered"
        /\ IF e = "sidebar-copyright" THEN SidebarShown ELSE ContentHeaderShown}

\* The block around the logo of ts-content is 450 pixels wide, or all there is.
LogoWidth == IF width >= 450 THEN 450 ELSE width

\* The columns of the grid of ts-layout; below 1024 pixels they follow the content.
ContentSpan == 2
Columns == IF width >= 1024 THEN 3 ELSE ContentSpan

\* The message is on the screen: as the text of an unknown element, or in the
\* slot of the rendered one.  Elements around it must not be waiting to render.
MessageVisible ==
    /\ element["ts-layout"] # "upgraded"
    /\ element["ts-content"] # "upgraded"
    /\ stage = "undefined" \/ (stage = "connected" /\ hasUpdated /\ ~closed)
-----------------------------------------------------------------------------
TypeOK ==
    /\ defined \in BOOLEAN
    /\ stage \in {"absent", "undefined", "constructed", "attributed", "connected"}
    /\ attribute \in Types \union {NoType}
    /\ own \in Types \union {NoType}
    /\ type \in Types \union {NoType}
    /\ isUpdatePending \in BOOLEAN
    /\ hasUpdated \in BOOLEAN
    /\ rendered \in Types \union {NoType}
    /\ closed \in BOOLEAN
    /\ element \in [Elements -> Stages]
    /\ fields \in 0 .. Fields
    /\ toggled \subseteq 1 .. fields
    /\ clear \subseteq 1 .. fields
    /\ width \in Widths

\* Whenever the browser can paint, a message the reader has not closed is on
\* the screen, and once upgraded its colour is that of the type asked for and of
\* no other: an update is neither lost nor left for later.
MessageShown ==
    Quiet /\ stage # "absent" /\ ~closed =>
        /\ MessageVisible
        /\ stage = "connected" =>
             {t \in Types : Colour[t] = Colour[rendered]} = {Asked}

\* Two style sheets divide the page between sidebar and content, each with
\* breakpoints of its own: at every width, once the module has run, there is one
\* logo and one copyright, the columns are filled, and the logo fits.
PageLaidOut ==
    Quiet /\ defined /\ (\A e \in Parsed : element[e] # "absent") =>
        /\ \E e \in Elements : Logos = {e}
        /\ \E e \in Elements : Copyrights = {e}
        /\ Columns = ContentSpan + (IF SidebarShown THEN 1 ELSE 0)
        /\ "ts-content" \in Logos => LogoWidth <= width

\* What is left to do before the page is quiet: the updates of elements that wait,
\* with those of the elements they will create, and the stages of the message.
Due(e) ==
    IF element[e] # "upgraded" THEN 0 ELSE IF Within(e) = {} THEN 1 ELSE 2

MessageDue ==
    IF stage = "constructed" THEN 3
    ELSE IF stage = "attributed" THEN 2
    ELSE IF stage = "connected" /\ isUpdatePending THEN 1 ELSE 0

Work ==
    Due("ts-layout") + Due("ts-sidebar") + Due("ts-content")
        + Due("sidebar-copyright") + Due("content-copyright") + MessageDue

\* Updates lead to updates, of elements in a shadow tree and of properties written
\* meanwhile, but never in a circle: the page is quiet when nothing is left, and
\* each thing the browser does by itself leaves less than there was.
UpdatesRunOut ==
    [][/\ Quiet' <=> Work' = 0
       /\ Browser => Work' < Work]_vars

\* The page gets quiet after whatever has been started: no element waits for an
\* update that nobody makes.
Settles == ~Quiet ~> Quiet
=============================================================================
