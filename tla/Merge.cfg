SPECIFICATION Spec
CONSTANTS
    Key <- MCKey
    Atom <- MCAtom
    Depth = 6
    Cases <- MCCases
    Quantity <- MCQuantity
    Paths <- MCPaths
INVARIANTS
    OverlayIsExact
    AdoptedFieldsKept
    Reapplied
CHECK_DEADLOCK FALSE
