---------------------------- MODULE ScanReport -----------------------------
(***************************************************************************)
(* The two scan reports of the storage page, the corrupt files and the     *)
(* orphans, with their tick boxes and the calls they lead to: purge the    *)
(* corrupt files, purge the orphans, restore the orphans.  The reports     *)
(* outlive the page, the ticks do not; a call goes through its ids one by  *)
(* one on the server, and its answer drops all of them from the report.    *)
(* Other pages purge and restore the same files, which this page does not  *)
(* hear of, and the orphan scan may take a file with a row for an orphan.  *)
(***************************************************************************)
EXTENDS Naturals, FiniteSets

CONSTANTS Blobs,             \* ids of files
          Unscanned,         \* no scan has ended
          MaxCalls, MaxScans, MaxLeaves, MaxAside    \* bounds

ASSUME ReportAssumption == {MaxCalls, MaxScans, MaxLeaves, MaxAside} \subseteq Nat

VARIABLES row, blob,        \* of each id: "none", "live", "trash"; "none", "sound", "bad"
          report, scan,      \* of each kind: what was found; the scan under way
          scans,
          tickedIds,         \* of each kind
          preview,           \* the corrupt file that is looked at, or nothing
          calls, sent,       \* the calls, and how many there have been
          isPending,         \* of each operation: the call its button waits for, or 0
          left,              \* times the page was left
          aside,             \* how often a row was misread or another page acted
          crossedFiles            \* ghost: files whose report was known to be behind

reportVars == <<row, blob, report, scan, scans, tickedIds, preview, calls, sent, isPending,
                left, aside, crossedFiles>>

Kinds == {"corrupt", "orphan"}
Ops == {"purgeCorrupt", "purgeOrphans", "restoreOrphans"}
KindOf(op) == IF op = "purgeCorrupt" THEN "corrupt" ELSE "orphan"
NoCall == [at |-> "none"]
NoScan == [at |-> "none"]

ReportInit ==
  /\ \E s \in [Blobs -> {<<"live", "sound">>, <<"live", "bad">>, <<"none", "sound">>}] :
       row = [f \in Blobs |-> s[f][1]] /\ blob = [f \in Blobs |-> s[f][2]]
  /\ report = [k \in Kinds |-> Unscanned] /\ scan = [k \in Kinds |-> NoScan] /\ scans = 0
  /\ tickedIds = [k \in Kinds |-> {}] /\ preview = {}
  /\ calls = [n \in 1..MaxCalls |-> NoCall] /\ sent = 0
  /\ isPending = [op \in Ops |-> 0] /\ left = 0 /\ aside = 0 /\ crossedFiles = {}

---------------------------------------------------------------------------
\* Scans.
runCorruptScan == {f \in Blobs : row[f] = "live" /\ blob[f] = "bad"}
runOrphanScan == {f \in Blobs : row[f] = "none" /\ blob[f] # "none"}
\* Files on the disk whose row the orphan scan could not read.
Misread == {f \in Blobs : row[f] # "none" /\ blob[f] # "none"}

\* The ids of calls of these operations whose answer is to come.
InFlight(ops) == UNION {calls[n].ids : n \in {m \in 1..MaxCalls : calls[m].at # "none"
                                                                 /\ calls[m].op \in ops}}

Unticked(k) == [tickedIds EXCEPT ![k] = {}]

CanScan(k) == scan[k] = NoScan

startScan(k) ==
  /\ CanScan(k) /\ scans < MaxScans /\ scans' = scans + 1
  /\ scan' = [scan EXCEPT ![k] = [at |-> "asked"]]
  /\ tickedIds' = Unticked(k)
  /\ crossedFiles' = IF k = "orphan" THEN crossedFiles \cup InFlight({"restoreOrphans"})
                     ELSE crossedFiles
  /\ UNCHANGED <<row, blob, report, preview, calls, sent, isPending, left, aside>>

\* The scan as it should be, and one that fails to read some of the rows.
StorageScan(k) ==
  /\ scan[k].at = "asked"
  /\ \E unread \in SUBSET Misread :
       /\ unread # {} => k = "orphan" /\ aside < MaxAside
       /\ aside' = IF unread = {} THEN aside ELSE aside + 1
       /\ crossedFiles' = crossedFiles \cup unread
       /\ scan' = [scan EXCEPT ![k] =
            [at |-> "answered",
             found |-> IF k = "corrupt" THEN runCorruptScan ELSE runOrphanScan \cup unread]]
  /\ UNCHANGED <<row, blob, report, scans, tickedIds, preview, calls, sent, isPending, left>>

ScanEnds(k) ==
  /\ scan[k].at = "answered"
  /\ report' = [report EXCEPT ![k] = scan[k].found] /\ scan' = [scan EXCEPT ![k] = NoScan]
  /\ UNCHANGED <<row, blob, scans, tickedIds, preview, calls, sent, isPending, left,
                 aside, crossedFiles>>

\* A scan that fails leaves the report there was.
ScanFailed(k) ==
  /\ scan[k] # NoScan /\ scan' = [scan EXCEPT ![k] = NoScan]
  /\ UNCHANGED <<row, blob, report, scans, tickedIds, preview, calls, sent, isPending, left,
                 aside, crossedFiles>>

---------------------------------------------------------------------------
\* The table, hidden during a scan and when there is nothing in it.
Listed(k) == IF ~CanScan(k) \/ report[k] = Unscanned THEN {} ELSE report[k]

toggle(k, f) ==
  /\ f \in Listed(k)
  /\ tickedIds' = [tickedIds EXCEPT ![k] = IF f \in @ THEN @ \ {f} ELSE @ \cup {f}]
  /\ UNCHANGED <<row, blob, report, scan, scans, preview, calls, sent, isPending, left,
                 aside, crossedFiles>>

toggleAll(k) ==
  /\ Listed(k) # {}
  /\ tickedIds' = [tickedIds EXCEPT ![k] =
                   IF Cardinality(@) = Cardinality(Listed(k)) THEN {} ELSE Listed(k)]
  /\ UNCHANGED <<row, blob, report, scan, scans, preview, calls, sent, isPending, left,
                 aside, crossedFiles>>

Mutate(op, ids) ==
  /\ sent < MaxCalls /\ sent' = sent + 1
  /\ calls' = [calls EXCEPT ![sent'] =
                [at |-> "sent", op |-> op, ids |-> ids, todo |-> ids, stat |-> {}, here |-> TRUE]]
  /\ isPending' = [isPending EXCEPT ![op] = sent']
  /\ crossedFiles' = crossedFiles \cup (ids \cap InFlight(Ops \ {op}))
  /\ UNCHANGED <<row, blob, report, scan, scans, tickedIds, left, aside>>

\* Delete and Restore, each disabled only by a call of its own.
Click(op) ==
  /\ Listed(KindOf(op)) # {} /\ tickedIds[KindOf(op)] # {} /\ isPending[op] = 0
  /\ Mutate(op, tickedIds[KindOf(op)]) /\ UNCHANGED preview

OpenPreview(f) ==
  /\ preview = {} /\ f \in Listed("corrupt") /\ preview' = {f}
  /\ UNCHANGED <<row, blob, report, scan, scans, tickedIds, calls, sent, isPending, left, aside,
                 crossedFiles>>

ClosePreview ==
  /\ preview # {} /\ preview' = {}
  /\ UNCHANGED <<row, blob, report, scan, scans, tickedIds, calls, sent, isPending, left, aside,
                 crossedFiles>>

\* The preview deletes its file whatever is under way, and whether it is listed still or not.
PreviewDelete == preview # {} /\ Mutate("purgeCorrupt", preview) /\ preview' = {}

---------------------------------------------------------------------------
\* The server's loops.  Corrupt files lose all their rows first.
Strike(n) ==
  /\ calls[n].at = "sent" /\ calls[n].op = "purgeCorrupt"
  /\ row' = [f \in Blobs |-> IF f \in calls[n].ids /\ row[f] = "live" THEN "trash" ELSE row[f]]
  /\ calls' = [calls EXCEPT ![n].at = "struck"]
  /\ UNCHANGED <<blob, report, scan, scans, tickedIds, preview, sent, isPending, left,
                 aside, crossedFiles>>

RemoveBytes(n, f) ==
  /\ \/ calls[n].at = "struck"
     \/ calls[n].at = "sent" /\ calls[n].op = "purgeOrphans"
  /\ f \in calls[n].todo
  /\ blob' \in {blob, [blob EXCEPT ![f] = "none"]}    \* what cannot be removed stays
  /\ calls' = [calls EXCEPT ![n].todo = @ \ {f}]
  /\ UNCHANGED <<row, report, scan, scans, tickedIds, preview, sent, isPending, left,
                 aside, crossedFiles>>

\* A restored file is looked up on the disk, then gets its row.
Stat(n, f) ==
  /\ calls[n].at = "sent" /\ calls[n].op = "restoreOrphans"
  /\ calls[n].stat = {} /\ f \in calls[n].todo
  /\ \/ calls' = [calls EXCEPT ![n].todo = @ \ {f}]    \* not there, or passed over
     \/ blob[f] # "none" /\ calls' = [calls EXCEPT ![n].stat = {f}]
  /\ UNCHANGED <<row, blob, report, scan, scans, tickedIds, preview, sent, isPending, left,
                 aside, crossedFiles>>

restoreOrphanFile(n, f) ==
  /\ calls[n].at = "sent" /\ calls[n].op = "restoreOrphans" /\ f \in calls[n].stat
  /\ row' = [row EXCEPT ![f] = IF @ = "none" THEN "live" ELSE @]
  /\ calls' = [calls EXCEPT ![n].todo = @ \ {f}, ![n].stat = {}]
  /\ UNCHANGED <<blob, report, scan, scans, tickedIds, preview, sent, isPending, left,
                 aside, crossedFiles>>

\* A mutant: the restored files stay in the report.
StillListed(op, ids) == IF op = "restoreOrphans" THEN report
                        ELSE [report EXCEPT ![KindOf(op)] = IF @ = Unscanned THEN @ ELSE @ \ ids]
Dropped(op, ids) == [report EXCEPT ![KindOf(op)] = IF @ = Unscanned THEN @ ELSE @ \ ids]

Done(n) == isPending' = [op \in Ops |-> IF isPending[op] = n THEN 0 ELSE isPending[op]]

\* The ticks of the page the call was made on are cleared.
Succeeded(n) ==
  /\ calls[n].at # "none" /\ calls[n].todo = {}
  /\ report' = Dropped(calls[n].op, calls[n].ids)
  /\ tickedIds' = IF calls[n].here THEN Unticked(KindOf(calls[n].op)) ELSE tickedIds
  /\ calls' = [calls EXCEPT ![n] = NoCall] /\ Done(n)
  /\ UNCHANGED <<row, blob, scan, scans, preview, sent, left, aside, crossedFiles>>

\* Refused, or the server stops with part of it done, or the answer is unread.
CallFailed(n) ==
  /\ calls[n].at # "none"
  /\ calls' = [calls EXCEPT ![n] = NoCall] /\ Done(n)
  /\ crossedFiles' = crossedFiles \cup calls[n].ids
  /\ UNCHANGED <<row, blob, report, scan, scans, tickedIds, preview, sent, left, aside>>

\* The page is left and opened again, with its reports but nothing of its own state.
Leave ==
  /\ left < MaxLeaves /\ left' = left + 1
  /\ tickedIds' = [k \in Kinds |-> {}] /\ preview' = {} /\ isPending' = [op \in Ops |-> 0]
  /\ crossedFiles' = crossedFiles \cup InFlight(Ops)
  /\ calls' = [n \in 1..MaxCalls |->
                 IF calls[n] = NoCall THEN NoCall ELSE [calls[n] EXCEPT !.here = FALSE]]
  /\ UNCHANGED <<row, blob, report, scan, scans, sent, aside>>

\* Another page, with a report of its own of any age, restores or purges a file.
OtherPage(f) ==
  /\ aside < MaxAside /\ aside' = aside + 1
  /\ \/ row[f] = "none" /\ blob[f] # "none" /\ row' = [row EXCEPT ![f] = "live"]
        /\ UNCHANGED blob
     \/ row[f] = "live" /\ row' = [row EXCEPT ![f] = "trash"] /\ UNCHANGED blob
     \/ blob[f] # "none" /\ blob' = [blob EXCEPT ![f] = "none"] /\ UNCHANGED row
  /\ crossedFiles' = crossedFiles \cup {f}
  /\ UNCHANGED <<report, scan, scans, tickedIds, preview, calls, sent, isPending, left>>

ReportNext ==
  \/ \E k \in Kinds :
       \/ startScan(k) \/ StorageScan(k) \/ ScanEnds(k) \/ ScanFailed(k) \/ toggleAll(k)
       \/ \E f \in Blobs : toggle(k, f)
  \/ \E op \in Ops : Click(op)
  \/ PreviewDelete \/ ClosePreview
  \/ \E f \in Blobs : OpenPreview(f) \/ OtherPage(f)
  \/ \E n \in 1..MaxCalls :
       \/ Strike(n) \/ Succeeded(n) \/ CallFailed(n)
       \/ \E f \in Blobs : RemoveBytes(n, f) \/ Stat(n, f) \/ restoreOrphanFile(n, f)
  \/ Leave

ReportSpec == ReportInit /\ [][ReportNext]_reportVars

---------------------------------------------------------------------------
\* Delete and Restore act on files the table shows: what is ticked is in the report, but
\* for files with a call that failed or that a page left behind had made, and files misread
\* or dealt with by another page.
TickedIsListed ==
  \A k \in Kinds : report[k] # Unscanned => tickedIds[k] \subseteq report[k] \cup crossedFiles

\* A restored file keeps its bytes, unless its restoration was not yet answered, or
\* failed, when its purge or the scan that lists it was asked for, the scan could not read
\* its row, or another page dealt with it.
RestoredKept == \A f \in Blobs : row[f] = "live" /\ blob[f] = "none" => f \in crossedFiles

\* The report's buttons act on what it shows and spare what was restored.
ReportHolds == TickedIsListed /\ RestoredKept

=============================================================================
