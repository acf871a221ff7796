---------------------------- MODULE MCFileStore ----------------------------
(* Instances of FileStore for TLC. *)
EXTENDS FileStore, TLC

CONSTANTS root, team, alice, bob

\* One user with files in the root.
RootOwner  == [d \in Folders |-> Nobody]
NoEditors  == [d \in Folders |-> {}]

\* Two users; alice's folder team is shared with bob, who may edit but not delete.
TeamOwner   == [d \in Folders |-> IF d = root THEN Nobody ELSE alice]
TeamEditors == [d \in Folders |-> IF d = root THEN {} ELSE {bob}]

Symmetric == Permutations(Files) \cup Permutations(Requests)
=============================================================================
