SPECIFICATION Spec
CONSTANTS
    VmIds = {a, b}
    Snaps = {s, t}
    None = None
PROPERTY ImplementsContract
\* Every record may be destroyed; then no operation is accepted any more.
CHECK_DEADLOCK FALSE
