\* Callers that may create one id concurrently.
SPECIFICATION Spec
CONSTANTS
    VmIds = {a, b}
    SafeIds = {a, b}
    safe_vm_id <- MCSafe
    Snaps = {s}
    Procs = {p1, p2}
    Callers = {c1, c2}
    Composers <- MCBare
    Backends = {"File"}
    OneOwnerPerId = FALSE
    None = None
SYMMETRY Symmetry
PROPERTY CreateFailsIfInUse
CHECK_DEADLOCK FALSE
