\* Restored VMs that are renamed; a third id to rename to.
SPECIFICATION Spec
CONSTANTS
    VmIds = {a, b, c}
    SafeIds = {a, b, c}
    safe_vm_id <- MCSafe
    Snaps = {s}
    Procs = {p1, p2}
    Callers = {c1, c2}
    Composers <- MCBare
    Backends = {"Uffd"}
    OneOwnerPerId = TRUE
    None = None
SYMMETRY Symmetry
INVARIANT HandlerFollowsRename
CHECK_DEADLOCK FALSE
