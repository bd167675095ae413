SPECIFICATION Spec
CONSTANTS
    Users = {demo, a, b}
    DemoUser = demo
    Workspaces = {w1, w2}
    Roles = {"owner", "editor"}
    Requests = {r1}
    Edits = {e1}
    None = None
SYMMETRY Symmetry
CHECK_DEADLOCK FALSE
INVARIANT KeepsAnOwner
PROPERTY NotTakenOver
PROPERTY DemoIsFrozen
