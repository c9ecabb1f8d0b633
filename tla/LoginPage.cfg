CONSTANTS
    NoType = NoType
    Fields = 2
    Widths <- MCWidths
SPECIFICATION Spec
INVARIANTS
    TypeOK
    MessageShown
    PageLaidOut
PROPERTIES
    KeepsPromise
    UpdatesRunOut
    Settles
