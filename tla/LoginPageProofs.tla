-------------------------- MODULE LoginPageProofs ---------------------------
(***************************************************************************)
(* Theorems about the message element and the page around it, for every    *)
(* number of password fields and all widths.                               *)
(***************************************************************************)
EXTENDS LoginPage, TLAPS

(***************************************************************************)
(* The inductive invariant of the element.  Its heart is the last part:    *)
(* an element that has no update pending shows what its property says, and *)
(* one that has never been updated has an update pending.                  *)
(***************************************************************************)
AlertTypes ==
    /\ defined \in BOOLEAN
    /\ stage \in {"absent", "undefined", "constructed", "attributed", "connected"}
    /\ attribute \in Types \union {NoType}
    /\ own \in Types \union {NoType}
    /\ type \in Types \union {NoType}
    /\ isUpdatePending \in BOOLEAN
    /\ hasUpdated \in BOOLEAN
    /\ rendered \in Types \union {NoType}
    /\ closed \in BOOLEAN

BeforeConnection ==
    /\ stage \in {"absent", "constructed"} => attribute = NoType /\ own = NoType
    /\ stage = "undefined" => attribute \in Types
    /\ stage = "attributed" => own = NoType /\ type \in Types
    /\ stage \in {"constructed", "attributed"} => isUpdatePending
    /\ stage # "connected" => ~hasUpdated /\ ~closed /\ rendered = NoType

Connected ==
    stage = "connected" =>
        /\ type \in Types
        /\ hasUpdated => own = NoType /\ rendered \in Types
        /\ ~hasUpdated => isUpdatePending /\ ~closed /\ rendered = NoType
        /\ ~isUpdatePending => rendered = type

AlertInv == AlertTypes /\ BeforeConnection /\ Connected

\* The invariant holds in the beginning.
LEMMA AlertInvInit == AlertInit => AlertInv
  BY DEF AlertInit, AlertInv, AlertTypes, BeforeConnection, Connected

\* Every step of the element preserves it.
LEMMA AlertInvStep == AlertInv /\ [AlertNext]_alertVars => AlertInv'
<1> SUFFICES ASSUME AlertInv, [AlertNext]_alertVars PROVE AlertInv'
  OBVIOUS
<1> USE NoTypeAssumption DEF AlertInv, AlertTypes, BeforeConnection, Connected, Types
<1>1. ASSUME NEW t \in Types, ParseUndefined(t) PROVE AlertInv'
  BY <1>1 DEF ParseUndefined
<1>2. ASSUME NEW t \in Types, AttributeAdded(t) PROVE AlertInv'
  BY <1>2 DEF AttributeAdded, WriteType
<1>3. ASSUME NEW t \in Types, SetProperty(t) PROVE AlertInv'
  <2>1. CASE stage = "undefined"
    BY <1>3, <2>1 DEF SetProperty, Scriptable
  <2>2. CASE stage # "undefined"
    BY <1>3, <2>2 DEF SetProperty, Scriptable, WriteType
  <2> QED BY <2>1, <2>2
<1>4. ASSUME NEW t \in Types, SetAttribute(t) PROVE AlertInv'
  <2>1. CASE stage = "undefined"
    BY <1>4, <2>1 DEF SetAttribute, Scriptable
  <2>2. CASE stage # "undefined"
    BY <1>4, <2>2 DEF SetAttribute, Scriptable, WriteType
  <2> QED BY <2>1, <2>2
<1>5. CASE Construct
  BY <1>5 DEF Construct
<1>6. CASE Connect
  BY <1>6 DEF Connect
<1>7. CASE Define
  BY <1>7 DEF Define
<1>8. CASE PerformUpdate
  BY <1>8 DEF PerformUpdate, Current
<1>9. CASE Close
  BY <1>9 DEF Close
<1>10. CASE UNCHANGED alertVars
  BY <1>10 DEF alertVars
<1> QED
  BY <1>1, <1>2, <1>3, <1>4, <1>5, <1>6, <1>7, <1>8, <1>9, <1>10 DEF AlertNext

\* A step of the element is a step of the promise, or changes nothing a reader
\* or the page can tell.
LEMMA AlertStepSimulates == AlertInv /\ [AlertNext]_alertVars => [View!Next]_(View!vars)
<1> SUFFICES ASSUME AlertInv, [AlertNext]_alertVars PROVE [View!Next]_(View!vars)
  OBVIOUS
<1> USE NoTypeAssumption DEF AlertInv, AlertTypes, BeforeConnection, Connected, Types,
        Asked, View!Next, View!vars
<1>1. ASSUME NEW t \in Types, ParseUndefined(t) PROVE View!Ask(t)
  BY <1>1 DEF ParseUndefined, View!Ask
<1>2. ASSUME NEW t \in Types, AttributeAdded(t) PROVE View!Ask(t)
  BY <1>2 DEF AttributeAdded, WriteType, View!Ask
<1>3. ASSUME NEW t \in Types, SetProperty(t) PROVE View!Ask(t)
  <2>1. CASE stage = "undefined"
    BY <1>3, <2>1 DEF SetProperty, Scriptable, View!Ask
  <2>2. CASE stage # "undefined"
    BY <1>3, <2>2 DEF SetProperty, Scriptable, WriteType, View!Ask
  <2> QED BY <2>1, <2>2
\* An attribute that comes after a property is not what is asked for.
<1>4. ASSUME NEW t \in Types, SetAttribute(t) PROVE View!Ask(t) \/ UNCHANGED View!vars
  <2>1. CASE stage = "undefined" /\ own = NoType
    BY <1>4, <2>1 DEF SetAttribute, Scriptable, View!Ask
  <2>2. CASE stage = "undefined" /\ own # NoType
    BY <1>4, <2>2 DEF SetAttribute, Scriptable
  <2>3. CASE stage # "undefined"
    BY <1>4, <2>3 DEF SetAttribute, Scriptable, WriteType, View!Ask
  <2> QED BY <2>1, <2>2, <2>3
<1>5. CASE Construct
  BY <1>5 DEF Construct
<1>6. CASE Connect
  BY <1>6 DEF Connect, View!Begin
<1>7. CASE Define
  <2>1. CASE stage = "undefined"
    BY <1>7, <2>1 DEF Define, View!Begin
  <2>2. CASE stage # "undefined"
    BY <1>7, <2>2 DEF Define
  <2> QED BY <2>1, <2>2
<1>8. CASE PerformUpdate
  <2>1. Current = Asked /\ Asked' = Asked
    BY <1>8 DEF PerformUpdate, Current
  <2>2. CASE rendered = Current
    BY <1>8, <2>1, <2>2 DEF PerformUpdate
  <2>3. CASE rendered # Current
    BY <1>8, <2>1, <2>3 DEF PerformUpdate, View!CatchUp
  <2> QED BY <2>2, <2>3
<1>9. CASE Close
  BY <1>9 DEF Close, View!Close
<1>10. CASE UNCHANGED alertVars
  BY <1>10 DEF alertVars
<1> QED
  BY <1>1, <1>2, <1>3, <1>4, <1>5, <1>6, <1>7, <1>8, <1>9, <1>10 DEF AlertNext

\* The element implements AlertView: no type is shown that nobody asked for, and
\* a closed message comes back only in another type.
THEOREM AlertImplementsView == AlertSpec => KeepsPromise
<1>1. AlertInit => View!Init
  BY DEF AlertInit, View!Init, Asked
<1> QED
  BY <1>1, AlertInvInit, AlertInvStep, AlertStepSimulates, PTL
  DEF AlertSpec, KeepsPromise, View!Safety
-----------------------------------------------------------------------------
(***************************************************************************)
(* The page.  Its steps are steps of the element or leave the element as   *)
(* it is, so the element's invariant and promise hold on the page; what    *)
(* the page adds is that no element stays unknown once the module has run, *)
(* and that a rendered element has its copyright with it.                  *)
(***************************************************************************)
LEMMA PageStepIsAlertStep == [Next]_vars => [AlertNext]_alertVars
<1> SUFFICES ASSUME [Next]_vars PROVE [AlertNext]_alertVars
  OBVIOUS
<1>1. CASE Browser
  BY <1>1 DEF Browser, FinishMessage, RenderMessage, RenderElement, AlertNext
<1>2. ASSUME NEW e \in Parsed, ParseElement(e) PROVE UNCHANGED alertVars
  BY <1>2 DEF ParseElement
<1>3. CASE ParseMessage \/ RunModule \/ RunScript \/ CloseMessage
  BY <1>3 DEF ParseMessage, RunModule, RunScript, CloseMessage, AlertNext
<1>4. CASE ParseField
  BY <1>4 DEF ParseField
<1>5. ASSUME NEW i \in 1 .. Fields, ClickToggle(i) PROVE UNCHANGED alertVars
  BY <1>5 DEF ClickToggle
<1>6. ASSUME NEW w \in Widths, Resize(w) PROVE UNCHANGED alertVars
  BY <1>6 DEF Resize
<1>7. CASE UNCHANGED vars
  BY <1>7 DEF vars, alertVars
<1> QED
  BY <1>1, <1>2, <1>3, <1>4, <1>5, <1>6, <1>7 DEF Next

\* The page runs the element as its own specification says.
THEOREM PageImplementsAlert == Spec => AlertSpec
<1>1. Init => AlertInit
  BY DEF Init
<1> QED
  BY <1>1, PageStepIsAlertStep, PTL DEF Spec, AlertSpec

\* On the page, too, no type is shown that nobody asked for, and a closed message
\* comes back only in another type.
THEOREM PromiseKept == Spec => KeepsPromise
  BY PageImplementsAlert, AlertImplementsView

\* A copyright is in the shadow tree of an element from its first update on.
InShadow(e, c) ==
    /\ element[c] # "undefined"
    /\ element[e] = "rendered" => element[c] # "absent"

PageInv ==
    /\ AlertInv
    /\ element \in [Elements -> Stages]
    /\ fields \in 0 .. Fields
    /\ toggled \subseteq 1 .. fields
    /\ clear \subseteq toggled
    /\ width \in Widths
    /\ defined => \A e \in Elements : element[e] # "undefined"
    /\ ~defined =>
         toggled = {} /\ \A e \in Elements : element[e] \in {"absent", "undefined"}
    /\ InShadow("ts-sidebar", "sidebar-copyright")
    /\ InShadow("ts-content", "content-copyright")

LEMMA PageInvInit == Init => PageInv
<1> SUFFICES ASSUME Init PROVE PageInv
  OBVIOUS
<1>1. AlertInv
  BY AlertInvInit DEF Init
<1>2. \A e \in Elements : element[e] = "absent"
  BY DEF Init
<1>3. element \in [Elements -> Stages]
  BY DEF Init, Stages
<1>4. ~defined /\ toggled = {} /\ clear = {} /\ fields \in 0 .. Fields /\ width \in Widths
  BY FieldsAssumption DEF Init, AlertInit
<1> QED
  BY <1>1, <1>2, <1>3, <1>4 DEF PageInv, InShadow, Elements, Parsed

\* A step of the message alone.
LEMMA SameElements ==
    ASSUME PageInv, AlertInv', UNCHANGED <<defined, pageVars>> PROVE PageInv'
  BY DEF PageInv, InShadow, pageVars

\* One more field is parsed.
LEMMA OneMore ==
    ASSUME NEW n \in 0 .. Fields, n < Fields
    PROVE  n + 1 \in 0 .. Fields /\ \A i \in 1 .. n : i \in 1 .. n + 1
  BY FieldsAssumption

\* Every step of the page preserves its invariant.
LEMMA PageInvStep == PageInv /\ [Next]_vars => PageInv'
<1> SUFFICES ASSUME PageInv, [Next]_vars PROVE PageInv'
  OBVIOUS
<1>a. AlertInv'
  BY AlertInvStep, PageStepIsAlertStep DEF PageInv
<1> USE FieldsAssumption DEF PageInv, InShadow, Elements, Parsed, Stages
<1>1. CASE RenderMessage
  <2>1. UNCHANGED <<defined, pageVars>>
    BY <1>1 DEF RenderMessage, PerformUpdate
  <2> QED BY <1>a, <2>1, SameElements
<1>2. CASE FinishMessage
  <2>1. UNCHANGED <<defined, pageVars>>
    BY <1>2 DEF FinishMessage, Connect, AttributeAdded
  <2> QED BY <1>a, <2>1, SameElements
<1>3. ASSUME NEW e \in Elements, RenderElement(e) PROVE PageInv'
  <2>1. UNCHANGED <<defined, fields, toggled, clear, width>>
    BY <1>3 DEF RenderElement, alertVars
  <2>2. Within(e) \subseteq Elements
    BY DEF Within
  <2>3. defined
    BY <1>3 DEF RenderElement, AlertInv, AlertTypes
  <2>4. element' \in [Elements -> Stages] /\ \A x \in Elements : element'[x] # "undefined"
    BY <1>3, <2>3 DEF RenderElement
  <2>5. element'["ts-sidebar"] = "rendered" => element'["sidebar-copyright"] # "absent"
    BY <1>3 DEF RenderElement, Within
  <2>6. element'["ts-content"] = "rendered" => element'["content-copyright"] # "absent"
    BY <1>3 DEF RenderElement, Within
  <2> QED BY <1>a, <2>1, <2>3, <2>4, <2>5, <2>6
<1>4. ASSUME NEW e \in Parsed, ParseElement(e) PROVE PageInv'
  <2>1. UNCHANGED <<defined, fields, toggled, clear, width>>
    BY <1>4 DEF ParseElement, alertVars
  <2>2. \A x \in Elements \ {e} : element'[x] = element[x]
    BY <1>4 DEF ParseElement
  <2>3. element'[e] = IF defined THEN "upgraded" ELSE "undefined"
    BY <1>4 DEF ParseElement
  <2>4. element' \in [Elements -> Stages]
    BY <1>4 DEF ParseElement
  <2>5. defined' => \A x \in Elements : element'[x] # "undefined"
    BY <2>1, <2>2, <2>3
  <2>6. ~defined' => \A x \in Elements : element'[x] \in {"absent", "undefined"}
    BY <2>1, <2>2, <2>3
  <2>7. InShadow("ts-sidebar", "sidebar-copyright")'
    BY <2>2, <2>3
  <2>8. InShadow("ts-content", "content-copyright")'
    BY <2>2, <2>3
  <2> QED BY <1>a, <2>1, <2>4, <2>5, <2>6, <2>7, <2>8
<1>5. CASE ParseMessage
  <2>1. UNCHANGED <<defined, pageVars>>
    BY <1>5 DEF ParseMessage, Construct, ParseUndefined
  <2> QED BY <1>a, <2>1, SameElements
<1>6. CASE ParseField
  <2>1. fields \in 0 .. Fields /\ fields < Fields /\ fields' = fields + 1
    BY <1>6 DEF ParseField
  <2>3. fields' \in 0 .. Fields /\ \A i \in 1 .. fields : i \in 1 .. fields'
    BY <2>1, OneMore
  <2>2. UNCHANGED <<defined, element, toggled, clear, width>>
    BY <1>6 DEF ParseField, alertVars
  <2> QED BY <1>a, <2>2, <2>3
<1>7. CASE RunModule
  <2>1. element' \in [Elements -> Stages] /\ \A x \in Elements :
          element'[x] = IF element[x] = "undefined" THEN "upgraded" ELSE element[x]
    BY <1>7 DEF RunModule
  <2>2. ~defined /\ defined' /\ UNCHANGED <<fields, clear, width>>
    BY <1>7 DEF RunModule, Define
  <2>3. toggled' \subseteq 1 .. fields' /\ clear' \subseteq toggled'
    BY <1>7, <2>2 DEF RunModule
  <2>4. \A x \in Elements : element'[x] \notin {"undefined", "rendered"}
    BY <2>1, <2>2
  <2>5. AlertInv' /\ width' \in Widths /\ fields' \in 0 .. Fields
    BY <1>a, <2>2
  <2> QED BY <2>1, <2>2, <2>3, <2>4, <2>5
<1>8. CASE RunScript
  <2>1. UNCHANGED <<defined, pageVars>>
    BY <1>8 DEF RunScript, SetProperty, SetAttribute
  <2> QED BY <1>a, <2>1, SameElements
<1>9. CASE CloseMessage
  <2>1. UNCHANGED <<defined, pageVars>>
    BY <1>9 DEF CloseMessage, Close
  <2> QED BY <1>a, <2>1, SameElements
<1>10. ASSUME NEW i \in 1 .. Fields, ClickToggle(i) PROVE PageInv'
  BY <1>a, <1>10 DEF ClickToggle, alertVars
<1>11. ASSUME NEW w \in Widths, Resize(w) PROVE PageInv'
  BY <1>a, <1>11 DEF Resize, alertVars
<1>12. CASE UNCHANGED vars
  BY <1>a, <1>12 DEF vars
<1> QED
  BY <1>1, <1>2, <1>3, <1>4, <1>5, <1>6, <1>7, <1>8, <1>9, <1>10, <1>11, <1>12
  DEF Next, Browser

LEMMA Invariance == Spec => []PageInv
  BY PageInvInit, PageInvStep, PTL DEF Spec

\* All variables keep to their types, in particular the fields with a button are
\* fields of the page.
THEOREM TypeCorrect == Spec => []TypeOK
<1>1. PageInv => TypeOK
  BY FieldsAssumption DEF PageInv, AlertInv, AlertTypes, TypeOK
<1> QED BY <1>1, Invariance, PTL

\* Each type has a colour of its own.
LEMMA ColoursDiffer ==
    ASSUME NEW s \in Types PROVE {t \in Types : Colour[t] = Colour[s]} = {s}
  BY DEF Types, Colour

\* Whenever the browser can paint, a message that was not closed is visible and
\* has the colour of the type asked for.
THEOREM MessageAlwaysShown == Spec => []MessageShown
<1>1. PageInv => MessageShown
  <2> SUFFICES ASSUME PageInv, Quiet, stage # "absent", ~closed
               PROVE  /\ MessageVisible
                      /\ stage = "connected" =>
                           {t \in Types : Colour[t] = Colour[rendered]} = {Asked}
    BY DEF MessageShown
  <2> USE DEF PageInv, AlertInv, AlertTypes, BeforeConnection, Connected
  <2>1. stage = "undefined" \/ (stage = "connected" /\ hasUpdated)
    BY DEF Quiet
  <2>2. MessageVisible
    BY <2>1 DEF Quiet, MessageVisible, Elements, Parsed
  <2>3. ASSUME stage = "connected" PROVE rendered \in Types /\ Asked = rendered
    BY <2>1, <2>3 DEF Quiet, Asked
  <2> QED BY <2>2, <2>3, ColoursDiffer
<1> QED BY <1>1, Invariance, PTL

\* At every width the rendered page has one logo, one copyright and no empty
\* column, and the logo fits.
THEOREM PageAlwaysLaidOut == Spec => []PageLaidOut
<1>1. PageInv => PageLaidOut
  <2> SUFFICES ASSUME PageInv, Quiet, defined, \A e \in Parsed : element[e] # "absent"
               PROVE  /\ \E e \in Elements : Logos = {e}
                      /\ \E e \in Elements : Copyrights = {e}
                      /\ Columns = ContentSpan + (IF SidebarShown THEN 1 ELSE 0)
                      /\ "ts-content" \in Logos => LogoWidth <= width
    BY DEF PageLaidOut
  <2>1. \A e \in Elements : element[e] = "rendered"
    BY DEF PageInv, InShadow, Quiet, Elements, Parsed, Stages
  <2>2. width \in Nat
    BY WidthsAssumption DEF PageInv
  <2>3. CASE width >= 1024
    <3>1. Logos = {"ts-sidebar"} /\ Copyrights = {"sidebar-copyright"}
      BY <2>1, <2>3
      DEF Logos, Copyrights, SidebarShown, ContentHeaderShown, Elements, Parsed
    <3>2. Columns = ContentSpan + (IF SidebarShown THEN 1 ELSE 0)
      BY <2>3 DEF Columns, ContentSpan, SidebarShown
    <3> QED BY <3>1, <3>2 DEF Elements, Parsed
  <2>4. CASE ~(width >= 1024)
    <3>1. ~SidebarShown
      BY <2>1, <2>4 DEF SidebarShown, Elements, Parsed
    <3>2. Logos = {"ts-content"} /\ Copyrights = {"content-copyright"}
      BY <2>1, <2>4, <3>1
      DEF Logos, Copyrights, ContentHeaderShown, Elements, Parsed
    <3>3. Columns = ContentSpan + (IF SidebarShown THEN 1 ELSE 0)
      BY <2>4, <3>1 DEF Columns, ContentSpan
    <3>4. LogoWidth <= width
      BY <2>2 DEF LogoWidth
    <3> QED BY <3>2, <3>3, <3>4 DEF Elements, Parsed
  <2> QED BY <2>3, <2>4
<1> QED BY <1>1, Invariance, PTL
-----------------------------------------------------------------------------
(***************************************************************************)
(* Updates run out: the part of Settles that needs no fairness.  What is   *)
(* left to do is a number that each step of the browser makes smaller.     *)
(***************************************************************************)
LEMMA DueTypes ==
    /\ \A e \in Elements : Due(e) \in Nat /\ (Due(e) = 0 <=> element[e] # "upgraded")
    /\ MessageDue \in Nat
    /\ MessageDue = 0 <=> /\ stage \notin {"constructed", "attributed"}
                          /\ ~(stage = "connected" /\ isUpdatePending)
<1>1. ASSUME NEW e \in Elements
      PROVE  Due(e) \in Nat /\ (Due(e) = 0 <=> element[e] # "upgraded")
  BY DEF Due
<1>2. /\ MessageDue \in Nat
      /\ MessageDue = 0 <=> /\ stage \notin {"constructed", "attributed"}
                            /\ ~(stage = "connected" /\ isUpdatePending)
  BY DEF MessageDue
<1> QED BY <1>1, <1>2

\* The page is quiet when nothing is left to do.
LEMMA QuietWhenDone == Work \in Nat /\ (Quiet <=> Work = 0)
<1>1. /\ "ts-layout" \in Elements /\ "ts-sidebar" \in Elements
      /\ "ts-content" \in Elements /\ "sidebar-copyright" \in Elements
      /\ "content-copyright" \in Elements
  BY DEF Elements, Parsed
<1>a. /\ Due("ts-layout") \in Nat /\ Due("ts-sidebar") \in Nat
      /\ Due("ts-content") \in Nat /\ Due("sidebar-copyright") \in Nat
      /\ Due("content-copyright") \in Nat /\ MessageDue \in Nat
  BY <1>1, DueTypes
<1>2. Work \in Nat
  BY <1>a DEF Work
<1>3. Work = 0 <=> (\A e \in Elements : Due(e) = 0) /\ MessageDue = 0
  <2>1. (\A e \in Elements : Due(e) = 0) <=>
          /\ Due("ts-layout") = 0 /\ Due("ts-sidebar") = 0 /\ Due("ts-content") = 0
          /\ Due("sidebar-copyright") = 0 /\ Due("content-copyright") = 0
    BY DEF Elements, Parsed
  <2>2. Work = 0 <=>
          /\ Due("ts-layout") = 0 /\ Due("ts-sidebar") = 0 /\ Due("ts-content") = 0
          /\ Due("sidebar-copyright") = 0 /\ Due("content-copyright") = 0
          /\ MessageDue = 0
    BY <1>a DEF Work
  <2> QED BY <2>1, <2>2
<1>4. Quiet <=> (\A e \in Elements : Due(e) = 0) /\ MessageDue = 0
  BY DueTypes DEF Quiet
<1> QED BY <1>2, <1>3, <1>4

\* A stage or an update of the message done leaves one thing less to do.
LEMMA MessageWorkShrinks ==
    ASSUME PageInv, FinishMessage \/ RenderMessage PROVE Work' < Work
<1>1. element' = element
  BY DEF FinishMessage, RenderMessage, pageVars
<1>2. \A e \in Elements : Due(e)' = Due(e)
  BY <1>1 DEF Due, Within
<1>3. MessageDue' < MessageDue
  <2>1. CASE FinishMessage
    BY <2>1 DEF PageInv, AlertInv, BeforeConnection, FinishMessage, Connect, AttributeAdded,
       WriteType, MessageDue
  <2>2. CASE RenderMessage
    BY <2>2 DEF RenderMessage, PerformUpdate, MessageDue
  <2> QED BY <2>1, <2>2
<1>4. MessageDue \in Nat /\ MessageDue' \in Nat
  BY DEF MessageDue
<1> QED
  BY <1>2, <1>3, <1>4, DueTypes DEF Work, Elements, Parsed

\* An element that renders makes one that waits of what is in its shadow tree,
\* which it had been charged with.
LEMMA ElementWorkShrinks ==
    ASSUME PageInv, NEW e \in Elements, RenderElement(e) PROVE Work' < Work
<1>1. MessageDue' = MessageDue
  BY DEF RenderElement, alertVars, MessageDue
<1>2. /\ element[e] = "upgraded"
      /\ \A x \in Elements :
           element'[x] = IF x = e THEN "rendered"
                         ELSE IF x \in Within(e) THEN "upgraded" ELSE element[x]
  BY DEF RenderElement
<1>3. Due(e)' = 0 /\ Due(e) = IF Within(e) = {} THEN 1 ELSE 2
  BY <1>2 DEF Due
<1>4. \A x \in Elements \ {e} : x \notin Within(e) => Due(x)' = Due(x)
  BY <1>2 DEF Due, Within
<1>5. \A x \in Elements \ {e} : x \in Within(e) => Due(x)' = 1
  BY <1>2 DEF Due, Within
<1>6. e \in {"ts-layout", "ts-sidebar", "ts-content", "sidebar-copyright",
            "content-copyright"}
  BY DEF Elements, Parsed
<1>7. /\ Due("ts-layout") \in Nat /\ Due("ts-sidebar") \in Nat
      /\ Due("ts-content") \in Nat /\ Due("sidebar-copyright") \in Nat
      /\ Due("content-copyright") \in Nat /\ MessageDue \in Nat
  BY DueTypes DEF Elements, Parsed
<1>8. CASE e = "ts-sidebar"
  <2>1. Due("ts-sidebar")' = 0 /\ Due("ts-sidebar") = 2
    BY <1>3, <1>8 DEF Within
  <2>2. Due("sidebar-copyright")' = 1
    BY <1>5, <1>8 DEF Within, Elements, Parsed
  <2>3. /\ Due("ts-layout")' = Due("ts-layout")
        /\ Due("ts-content")' = Due("ts-content")
        /\ Due("content-copyright")' = Due("content-copyright")
    BY <1>4, <1>8 DEF Within, Elements, Parsed
  <2> QED BY <1>1, <1>7, <2>1, <2>2, <2>3 DEF Work
<1>9. CASE e = "ts-content"
  <2>1. Due("ts-content")' = 0 /\ Due("ts-content") = 2
    BY <1>3, <1>9 DEF Within
  <2>2. Due("content-copyright")' = 1
    BY <1>5, <1>9 DEF Within, Elements, Parsed
  <2>3. /\ Due("ts-layout")' = Due("ts-layout")
        /\ Due("ts-sidebar")' = Due("ts-sidebar")
        /\ Due("sidebar-copyright")' = Due("sidebar-copyright")
    BY <1>4, <1>9 DEF Within, Elements, Parsed
  <2> QED BY <1>1, <1>7, <2>1, <2>2, <2>3 DEF Work
<1>10. CASE e \in {"ts-layout", "sidebar-copyright", "content-copyright"}
  <2>1. Within(e) = {} /\ Due(e)' = 0 /\ Due(e) = 1
    BY <1>3, <1>10 DEF Within
  <2>2. \A x \in Elements \ {e} : Due(x)' = Due(x)
    BY <1>4, <2>1
  <2> QED BY <1>1, <1>7, <1>10, <2>1, <2>2 DEF Work, Elements, Parsed
<1> QED BY <1>6, <1>8, <1>9, <1>10

\* The browser is done with a page after finitely many updates, whatever the
\* module, the parser and scripts have left it with: every step that it takes by
\* itself leaves less to do, and with nothing left to do the page is quiet.
THEOREM UpdatesAlwaysRunOut == Spec => UpdatesRunOut
<1> DEFINE RunOut == /\ Quiet' <=> Work' = 0
                     /\ Browser => Work' < Work
<1>0. Quiet <=> Work = 0
  BY QuietWhenDone
<1>1. (Quiet <=> Work = 0)'
  BY <1>0, PTL
<1>2. ASSUME PageInv, Browser PROVE Work' < Work
  BY <1>2, MessageWorkShrinks, ElementWorkShrinks DEF Browser
<1>3. PageInv /\ [Next]_vars => [RunOut]_vars
  BY <1>1, <1>2
<1> HIDE DEF RunOut
<1>4. Spec => [][RunOut]_vars
  BY Invariance, <1>3, PTL DEF Spec
<1> QED BY <1>4 DEF UpdatesRunOut, RunOut

=============================================================================
