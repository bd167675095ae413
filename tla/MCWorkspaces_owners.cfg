SPECIFICATION Spec
CONSTANTS
    Users = {demo, a, b}
    DemoUser = demo
    Workspaces = {w1}
    Roles = {"owner", "editor"}
    Requests = {r1, r2}
    Edits = {}
    None = None
SYMMETRY Symmetry
CHECK_DEADLOCK FALSE
INVARIANT KeepsAnOwner
