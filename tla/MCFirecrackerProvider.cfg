\* Callers that own the ids they create; four composers, both backends.
SPECIFICATION Spec
CONSTANTS
    VmIds = {a, b}
    SafeIds = {a, b}
    safe_vm_id <- MCSafe
    Snaps = {s}
    Procs = {p1, p2, p3}
    Callers = {c1, c2}
    Composers <- MCComposers
    Backends = {"File", "Uffd"}
    OneOwnerPerId = TRUE
    None = None
SYMMETRY Symmetry
INVARIANTS
    TypeOK
    NoOrphanProcess
    OwnSocket
    DestroyedIsClean
    SnapshotsBacked
    AttachmentsAccounted
    StatusTracksGuest
    NoCallStuck
PROPERTY ImplementsContract
CHECK_DEADLOCK FALSE
