---------------------------- MODULE FolderUpload ----------------------------
(***************************************************************************)
(* A dropped folder is turned into requests (prepareFolderUpload): for     *)
(* each file the folders of its path are looked up, one after the other,   *)
(* in two caches the run keeps, and created where they are missing, while  *)
(* other clients create files and folders too.                             *)
(***************************************************************************)
EXTENDS Naturals, FiniteSets, Sequences

CONSTANTS PathNames,       \* names of folders on the paths
          Paths,       \* the folders above each file of the drop, in order
          RootId, NoId,
          MaxRows,     \* bound: rows ever created
          MaxOthers    \* bound: rows other clients create

ASSUME FolderAssumption == /\ Paths \in Seq(Seq(PathNames)) /\ MaxRows \in Nat /\ MaxOthers \in Nat
                           /\ RootId \notin Nat /\ NoId \notin Nat \cup {RootId}

VARIABLES rows,       \* rows on the server: id, parent, name, is it a folder, whose
          next,       \* the file at work
          depth,      \* path parts resolved for it
          parentId,   \* the folder reached
          idsByPath,  \* folderIdsByPath: pairs of a key and an id
          children,   \* childrenByParent: per parent, the rows read or added
          awaiting,   \* "run", "list" or "create"
          prepared,   \* requests made so far
          skipped     \* files left out: a name of their path is a file's

folderVars == <<rows, next, depth, parentId, idsByPath, children, awaiting, prepared, skipped>>
run == <<next, depth, parentId, idsByPath>>

Ids == 1..MaxRows
FolderInit ==
  /\ rows = {} /\ next = 1 /\ depth = 0 /\ parentId = RootId /\ idsByPath = {}
  /\ children = [p \in {RootId} \cup Ids |-> NoId] /\ awaiting = "run"
  /\ prepared = {} /\ skipped = {}

Path == Paths[next]
\* A mutant: the cache is keyed by the folder's name.
NameKey(path, d) == <<path[d]>>
\* The key of a folder in the run's cache: its whole path.
PathKey(path, d) == SubSeq(path, 1, d)

Row(parent, name, isFolder, by) ==
  [id |-> Cardinality(rows) + 1, parent |-> parent, name |-> name, folder |-> isFolder, by |-> by]

NextFile == next' = next + 1 /\ depth' = 0 /\ parentId' = RootId

Descend(id) ==
  /\ parentId' = id /\ depth' = depth + 1 /\ next' = next
  /\ idsByPath' = idsByPath \cup {<<PathKey(Path, depth + 1), id>>}

\* The path is resolved: the file becomes a request for the folder reached.
Prepare ==
  /\ awaiting = "run" /\ next <= Len(Paths) /\ depth = Len(Path)
  /\ prepared' = prepared \cup {[file |-> next, folder |-> parentId]}
  /\ NextFile
  /\ UNCHANGED <<rows, idsByPath, children, awaiting, skipped>>

\* resolveFolderPath: the next part, from the cache or by findOrCreateChildFolder.
ResolvePart ==
  /\ awaiting = "run" /\ next <= Len(Paths) /\ depth < Len(Path)
  /\ LET key == PathKey(Path, depth + 1)
         known == {id \in Ids : <<key, id>> \in idsByPath}
         listed == children[parentId]
         sameName == {r \in listed : r.name = Path[depth + 1]}
     IN \/ /\ known # {}
           /\ \E id \in known : Descend(id)
           /\ UNCHANGED <<awaiting, children, skipped>>
        \/ /\ known = {} /\ listed = NoId
           /\ awaiting' = "list"
           /\ UNCHANGED <<run, children, skipped>>
        \/ /\ known = {} /\ listed # NoId /\ sameName = {}
           /\ awaiting' = "create"
           /\ UNCHANGED <<run, children, skipped>>
        \/ /\ known = {} /\ listed # NoId /\ sameName # {}
           /\ \E r \in sameName :
                IF r.folder THEN Descend(r.id) /\ UNCHANGED skipped
                ELSE NextFile /\ skipped' = skipped \cup {next} /\ UNCHANGED idsByPath
           /\ UNCHANGED <<awaiting, children>>
  /\ UNCHANGED <<rows, prepared>>

\* The answer to the listing, kept for the rest of the run.
ListAnswered ==
  /\ awaiting = "list" /\ awaiting' = "run"
  /\ children' = [children EXCEPT ![parentId] = {r \in rows : r.parent = parentId}]
  /\ UNCHANGED <<rows, run, prepared, skipped>>

CreateAnswered ==
  /\ awaiting = "create" /\ awaiting' = "run" /\ Cardinality(rows) < MaxRows
  /\ LET r == Row(parentId, Path[depth + 1], TRUE, "run")
     IN /\ rows' = rows \cup {r} /\ Descend(r.id)
        /\ children' = [children EXCEPT ![parentId] = @ \cup {r}]
  /\ UNCHANGED <<prepared, skipped>>

\* A listing or a creation fails: the whole drop is given up with a message.
GiveUp ==
  /\ awaiting \in {"list", "create"} /\ awaiting' = "run" /\ next' = Len(Paths) + 1
  /\ prepared' = {}
  /\ UNCHANGED <<rows, depth, parentId, idsByPath, children, skipped>>

OtherCreates ==
  /\ Cardinality(rows) < MaxRows
  /\ Cardinality({r \in rows : r.by = "other"}) < MaxOthers
  /\ \E p \in {RootId} \cup {r.id : r \in {q \in rows : q.folder}}, n \in PathNames, d \in BOOLEAN :
       rows' = rows \cup {Row(p, n, d, "other")}
  /\ UNCHANGED <<run, children, awaiting, prepared, skipped>>

FolderNext == Prepare \/ ResolvePart \/ ListAnswered \/ CreateAnswered \/ GiveUp \/ OtherCreates
FolderSpec == FolderInit /\ [][FolderNext]_folderVars

---------------------------------------------------------------------------
\* The folder lies at the end of the path: each row of a chain that begins below the
\* root is a folder, in the one before it, and bears the next name of the path.
AtPath(id, path) ==
  \E chain \in [0..Len(path) -> {RootId} \cup Ids] :
    /\ chain[0] = RootId /\ chain[Len(path)] = id
    /\ \A d \in 1..Len(path) : \E r \in rows : /\ r.id = chain[d] /\ r.parent = chain[d - 1]
                                               /\ r.name = path[d] /\ r.folder

\* Every request goes to the folder at its file's own path, however many paths
\* share a folder name and whatever others create in between.
PathKept == \A q \in prepared : AtPath(q.folder, Paths[q.file])
=============================================================================
