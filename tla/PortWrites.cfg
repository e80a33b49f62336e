\* Two PATCHes of one port next to the worker's loop.
CONSTANTS
    Ports = {1}
    Codes = {1, 2, 3}
    FirstPorts <- OnePort
    Bodies <- TwoBodies
    Nil = Nil
    Requests = {r1, r2}
    Loop = Loop
    Collectors = {Loop}
    NoObject = NoObject
    NoSnap = NoSnap
    Missing = Missing
    MaxRest = 1
    PagesMayFail = FALSE
    StoreMayFail = TRUE
SPECIFICATION Spec
INVARIANTS
    TypeOK
    PortsAgree
PROPERTIES
    UnaskedFieldsKept
    OnlyPortsRewritten
SYMMETRY Symmetry
