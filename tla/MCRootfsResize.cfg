SPECIFICATION Spec
CONSTANTS
    Slots = {v1, v2}
    Inodes = {i1, i2, i3}
    v1 = v1
    v2 = v2
    Digests = {x, y}
    TemplateLen <- MCTemplateLen
    Targets <- MCTargets
    MaxRotations = 1
    HasMtime = TRUE
    None = None
SYMMETRY Symmetry
VIEW View
INVARIANT FsFillsImage
