SPECIFICATION Spec
CONSTANTS
    a = a
    Staging = Staging
    None = None
    b = b
    Path = {x, y, z}
    MaxCheckpoints = 3
    Byte = {0, 1}
    Address = {a, b}
    Layouts <- AllLayouts
SYMMETRY Symmetry
INVARIANTS Restorable NoDriftIsSame
CHECK_DEADLOCK FALSE
