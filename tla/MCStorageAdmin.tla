--------------------------- MODULE MCStorageAdmin ---------------------------
(* Instances of StorageAdmin for TLC. *)
EXTENDS StorageAdmin, TLC

CONSTANTS team, alice

\* One user, who is the admin too, and whose only folder is the cleanup folder.
CleanupOwner == [d \in Folders |-> alice]
NoEditors    == [d \in Folders |-> {}]

Symmetric == Permutations(Files)

\* from and rewritten are history that no step and no property of StorageAdmin reads.
Seen == <<row, blob, req, issued, purged, adminVars>>
=============================================================================
