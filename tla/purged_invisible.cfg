SPECIFICATION AdminSpec
CONSTANTS
    team = team  alice = alice
    Files = {f1, f2}
    Users = {alice}
    Folders = {team}
    Names = {n1}
    Contents = {c1}
    Blank = c1
    Requests = {r1}
    FolderOwner <- CleanupOwner
    Editors <- NoEditors
    Deleters <- NoEditors
    Admin = alice
    CleanupFolder = team
    OrphanName = n1
    Faults = TRUE
    Encrypted = FALSE
INVARIANTS PurgedStaysInvisible
