\* Restores with the Uffd backend while the source VM is operated on.
SPECIFICATION Spec
CONSTANTS
    VmIds = {a, b}
    SafeIds = {a, b}
    safe_vm_id <- MCSafe
    Snaps = {s}
    Procs = {p1, p2}
    Callers = {c1, c2}
    Composers <- MCBare
    Backends = {"Uffd"}
    OneOwnerPerId = TRUE
    None = None
SYMMETRY Symmetry
INVARIANT PagedWhileUp
CHECK_DEADLOCK FALSE
