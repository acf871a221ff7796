SPECIFICATION Spec
CONSTANTS
    root = root  team = team  alice = alice  bob = bob
    Files = {f1, f2}
    Users = {alice, bob}
    Folders = {root, team}
    Names = {n1}
    Contents = {c1}
    Blank = c1
    Requests = {r1, r2}
    FolderOwner <- TeamOwner
    Editors <- TeamEditors
    Deleters <- NoEditors
SYMMETRY Symmetric
INVARIANTS AlwaysInParentsTrash
