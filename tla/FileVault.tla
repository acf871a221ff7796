------------------------------ MODULE FileVault ------------------------------
(***************************************************************************)
(* What the file store promises about one file, with no word about rows,   *)
(* blobs, requests or owners.  A file is created with its bytes in place;  *)
(* it goes to the trash and comes back; it can only be destroyed after     *)
(* someone condemned it while it was in the trash, and then never returns. *)
(* Its bytes change only when it is rewritten, and go only when condemned. *)
(***************************************************************************)
CONSTANTS Files, Bytes, Absent

VARIABLES
    status,     \* "unborn", "live", "trash" or "gone"
    content,    \* the bytes a reader of the file finds
    condemned,  \* files somebody decided to delete for good
    unsettled   \* files somebody started to rewrite

vvars == <<status, content, condemned, unsettled>>

Exists(f) == status[f] \in {"live", "trash"}

Init ==
    /\ status = [f \in Files |-> "unborn"]
    /\ content = [f \in Files |-> Absent]
    /\ condemned = {} /\ unsettled = {}

Create(f) ==
    /\ status[f] = "unborn"
    /\ status' = [status EXCEPT ![f] = "live"]
    /\ \E b \in Bytes : content' = [content EXCEPT ![f] = b]
    /\ UNCHANGED <<condemned, unsettled>>

Trash(f) ==
    /\ status[f] = "live"
    /\ status' = [status EXCEPT ![f] = "trash"]
    /\ UNCHANGED <<content, condemned, unsettled>>

Restore(f) ==
    /\ status[f] = "trash"
    /\ status' = [status EXCEPT ![f] = "live"]
    /\ UNCHANGED <<content, condemned, unsettled>>

\* From here on the file may vanish whatever its owner does with it.
Condemn(S) ==
    /\ \A f \in S : status[f] = "trash"
    /\ condemned' = condemned \cup S
    /\ UNCHANGED <<status, content, unsettled>>

Destroy(f) ==
    /\ f \in condemned /\ Exists(f)
    /\ status' = [status EXCEPT ![f] = "gone"]
    /\ content' = [content EXCEPT ![f] = Absent]
    /\ UNCHANGED <<condemned, unsettled>>

LoseBytes(f) ==
    /\ f \in condemned /\ Exists(f)
    /\ content' = [content EXCEPT ![f] = Absent]
    /\ UNCHANGED <<status, condemned, unsettled>>

\* In-place writes to the files of S, and what earlier ones still do to others.
Rewrite(S) ==
    /\ unsettled' = unsettled \cup S
    /\ content' \in [Files -> Bytes \cup {Absent}]
    /\ \A f \in Files : content'[f] # content[f] => /\ f \in unsettled'
                                                   /\ Exists(f)
                                                   /\ content'[f] # Absent
    /\ UNCHANGED <<status, condemned>>

Next ==
    \/ \E S \in SUBSET Files : Rewrite(S) \/ Condemn(S)
    \/ \E f \in Files : Create(f) \/ Trash(f) \/ Restore(f) \/ Destroy(f) \/ LoseBytes(f)

Spec == Init /\ [][Next]_vvars
=============================================================================
