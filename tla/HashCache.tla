----------------------------- MODULE HashCache ------------------------------
(***************************************************************************)
(* The cache of hashes (cache.c and search_cache_for_file of main.c) over  *)
(* several runs of the program, also at the same time: the database        *)
(* outlives them, a run can be killed anywhere, files change between and   *)
(* during runs, and every run may ask for another number of segments.      *)
(*                                                                         *)
(* SQLite is modelled as the code uses it.  A statement outside a          *)
(* transaction sees the committed database.  BEGIN is deferred: the first  *)
(* upsert takes the write lock, and fails at once when another run has it, *)
(* as no busy timeout is set.  The upsert and every hash are statements of *)
(* their own.  Nobody sees a transaction before COMMIT, and a killed run   *)
(* leaves nothing of it.  Row ids only grow, because the id of an INSERT   *)
(* OR REPLACE is chosen before the old row is deleted.                     *)
(*                                                                         *)
(* A file's content is the number of times it changed.  Its metadata       *)
(* (size, mtime, ctime) are the number of the last change that shows in    *)
(* them: the times count seconds, so that a change can leave them alone.   *)
(***************************************************************************)
EXTENDS Integers, FiniteSets

CONSTANTS FileCount,    (* the files every run finds                         *)
          Runs,         (* runs of the program that can be active at once    *)
          Segments,     (* the values of config->segments that runs choose   *)
          MaxVersion,   (* bound: how often a file changes                   *)
          MaxStarts     (* bound: how many runs are started                  *)

ASSUME FileCountAssumption == FileCount \in Nat \ {0}
ASSUME SegmentsAssumption == Segments \subseteq 1 .. 20 /\ Segments # {}
ASSUME BoundsAssumption == MaxVersion \in Nat /\ MaxStarts \in Nat

VARIABLES
  disk,         (* the content of each file                                  *)
  metadata,     (* what stat says of each file                               *)
  db,           (* the committed row of each file, with its hashes           *)
  writer,       (* the run that holds the write lock, or NoRun               *)
  txdb,         (* what the writer's transaction has made of db              *)
  starts,       (* runs started so far                                       *)
  pc,           (* where each run is                                         *)
  number,       (* the how manieth run it is (for the properties only)       *)
  segments,     (* config->segments of the run                               *)
  scanned,      (* the metadata of each file when the run scanned it         *)
  results,      (* file_statuses                                             *)
  entries,      (* hash_entries: the entries of each file                    *)
  i,            (* the file the run is at                                    *)
  k,            (* the segment of that file the run is at                    *)
  row_id        (* out_file_id of cache_is_file_valid, row_out of the save   *)

dbVars == <<db, writer, txdb>>
fileVars == <<disk, metadata>>
runVars == <<pc, number, segments, scanned, results, entries, i, k, row_id>>
vars == <<fileVars, dbVars, starts, runVars>>

Files == 0 .. FileCount - 1

NoRun == "none"
ASSUME RunsAssumption == NoRun \notin Runs

NoRow == [id |-> 0, metadata |-> 0, hashes |-> {}]

(* The entry of run r for the segment it is at, decoded from content v.    *)
(* Frames are decoded in order, so that the timestamps grow with k.        *)
Entry(r, v, timestamp) ==
  [by |-> number[r], n |-> segments[r], k |-> k[r], of |-> v, ts |-> timestamp]

(* A segment that failed has timestamp 0 and is of no content              *)
(* (mark_segment_failed).                                                  *)
failed(e) == e.ts = 0

Rows(tables) == {tables[f] : f \in Files} \ {NoRow}

NextId(tables) ==
  1 + CHOOSE m \in {0} \cup {r.id : r \in Rows(tables)} : \A r \in Rows(tables) : r.id <= m

AnyNumber == CHOOSE s \in Segments : TRUE

(* What a run that is not active has for its locals.                       *)
Idle(r) ==
  /\ pc' = [pc EXCEPT ![r] = "off"]
  /\ scanned' = [scanned EXCEPT ![r] = [f \in Files |-> 0]]
  /\ results' = [results EXCEPT ![r] = [f \in Files |-> "AK_STATUS_FILE_PENDING"]]
  /\ entries' = [entries EXCEPT ![r] = [f \in Files |-> {}]]
  /\ i' = [i EXCEPT ![r] = 0]
  /\ k' = [k EXCEPT ![r] = 0]
  /\ row_id' = [row_id EXCEPT ![r] = 0]
  /\ number' = [number EXCEPT ![r] = 0]
  /\ segments' = [segments EXCEPT ![r] = AnyNumber]

Init ==
  /\ disk = [f \in Files |-> 0]
  /\ metadata = disk
  /\ db = [f \in Files |-> NoRow]
  /\ writer = NoRun
  /\ txdb = db
  /\ starts = 0
  /\ pc = [r \in Runs |-> "off"]
  /\ number = [r \in Runs |-> 0]
  /\ segments = [r \in Runs |-> AnyNumber]
  /\ scanned = [r \in Runs |-> [f \in Files |-> 0]]
  /\ results = [r \in Runs |-> [f \in Files |-> "AK_STATUS_FILE_PENDING"]]
  /\ entries = [r \in Runs |-> [f \in Files |-> {}]]
  /\ i = [r \in Runs |-> 0]
  /\ k = [r \in Runs |-> 0]
  /\ row_id = [r \in Runs |-> 0]

-----------------------------------------------------------------------------
(***************************************************************************)
(* A run                                                                   *)
(***************************************************************************)

At(r, state) == pc[r] = state /\ i[r] < FileCount

(* The end of one loop over the files is the beginning of the next.        *)
NextFile(r, state, next) ==
  IF i[r] + 1 < FileCount
    THEN i' = [i EXCEPT ![r] = @ + 1] /\ pc' = [pc EXCEPT ![r] = state]
    ELSE i' = [i EXCEPT ![r] = 0] /\ pc' = [pc EXCEPT ![r] = next]

(* The scan stats every file; cache_open_db finds the database.            *)
Start(r, s) ==
  /\ pc[r] = "off"
  /\ starts < MaxStarts
  /\ starts' = starts + 1
  /\ pc' = [pc EXCEPT ![r] = "lookup"]
  /\ number' = [number EXCEPT ![r] = starts + 1]
  /\ segments' = [segments EXCEPT ![r] = s]
  /\ scanned' = [scanned EXCEPT ![r] = metadata]
  /\ UNCHANGED <<fileVars, dbVars, results, entries, i, k, row_id>>

Miss(r) ==
  /\ NextFile(r, "lookup", "hash")
  /\ UNCHANGED <<fileVars, dbVars, starts, number, segments, scanned, results, entries, k>>

(* cache_is_file_valid finds no row with this path and these metadata.     *)
FileNotValid(r) ==
  /\ At(r, "lookup")
  /\ db[i[r]] = NoRow \/ db[i[r]].metadata # scanned[r][i[r]]
  /\ UNCHANGED row_id
  /\ Miss(r)

FileValid(r) ==
  /\ At(r, "lookup")
  /\ db[i[r]] # NoRow
  /\ db[i[r]].metadata = scanned[r][i[r]]
  /\ row_id' = [row_id EXCEPT ![r] = db[i[r]].id]
  /\ pc' = [pc EXCEPT ![r] = "hashes"]
  /\ UNCHANGED <<fileVars, dbVars, starts, number, segments, scanned, results, entries, i, k>>

(* The hashes with the file id that was read, which may be gone by now.    *)
HashesOf(id) == UNION {row.hashes : row \in {x \in Rows(db) : x.id = id}}

(* cache_get_hashes finds exactly as many as the run needs: a hit.         *)
GetHashes(r) ==
  /\ pc[r] = "hashes"
  /\ Cardinality(HashesOf(row_id[r])) = segments[r]
  /\ entries' = [entries EXCEPT ![r][i[r]] = HashesOf(row_id[r])]
  /\ results' = [results EXCEPT ![r][i[r]] = "AK_STATUS_FILE_CACHED"]
  /\ row_id' = [row_id EXCEPT ![r] = 0]
  /\ NextFile(r, "lookup", "hash")
  /\ UNCHANGED <<fileVars, dbVars, starts, number, segments, scanned, k>>

(* Any other number is a miss, and the file is queued.                     *)
WrongCount(r) ==
  /\ pc[r] = "hashes"
  /\ Cardinality(HashesOf(row_id[r])) # segments[r]
  /\ row_id' = [row_id EXCEPT ![r] = 0]
  /\ Miss(r)

(* ak_video_hash is done with a segment, and after the last one with the   *)
(* file, which is hashed if one segment did not fail.                      *)
SegmentIs(r, e) ==
  /\ entries' = [entries EXCEPT ![r][i[r]] = @ \cup {e}]
  /\ \/ /\ k[r] + 1 < segments[r]
        /\ k' = [k EXCEPT ![r] = @ + 1]
        /\ UNCHANGED <<results, i, pc>>
     \/ /\ k[r] + 1 = segments[r]
        /\ k' = [k EXCEPT ![r] = 0]
        /\ results' = [results EXCEPT ![r][i[r]] =
             IF \A x \in entries[r][i[r]] \cup {e} : failed(x) THEN "AK_IO_FAIL" ELSE "AK_OK"]
        /\ NextFile(r, "hash", "sync")
  /\ UNCHANGED <<fileVars, dbVars, starts, number, segments, scanned, row_id>>

(* The segment is of what is in the file now, or, as the file stays open   *)
(* and parts of it are buffered, of what an earlier segment was of.        *)
HashSegment(r) ==
  /\ At(r, "hash")
  /\ results[r][i[r]] = "AK_STATUS_FILE_PENDING"
  /\ \E v \in {disk[i[r]]} \cup {e.of : e \in {x \in entries[r][i[r]] : ~failed(x)}} :
       SegmentIs(r, Entry(r, v, k[r] + 1))

SegmentFails(r) ==
  /\ At(r, "hash")
  /\ results[r][i[r]] = "AK_STATUS_FILE_PENDING"
  /\ SegmentIs(r, Entry(r, 0, 0))

(* It cannot be hashed, or not further, or a signal interrupts it.         *)
HashFails(r) ==
  /\ At(r, "hash")
  /\ results[r][i[r]] = "AK_STATUS_FILE_PENDING"
  /\ results' = [results EXCEPT ![r][i[r]] = "AK_IO_FAIL"]
  /\ k' = [k EXCEPT ![r] = 0]
  /\ NextFile(r, "hash", "sync")
  /\ UNCHANGED <<fileVars, dbVars, starts, number, segments, scanned, entries, row_id>>

NotQueued(r) ==
  /\ At(r, "hash")
  /\ results[r][i[r]] = "AK_STATUS_FILE_CACHED"
  /\ NextFile(r, "hash", "sync")
  /\ UNCHANGED <<fileVars, dbVars, starts, number, segments, scanned, results, entries, k, row_id>>

-----------------------------------------------------------------------------
(***************************************************************************)
(* cache_sync_results_maybe: one transaction over all files                *)
(***************************************************************************)

(* The tables a statement of run r sees.                                   *)
Tables(r) == IF writer = r THEN txdb ELSE db

(* Mutant: BEGIN is left out, and every statement commits on its own.      *)
WriteAtOnce(r, tables) ==
  /\ txdb' = tables
  /\ db' = tables
  /\ writer' = NoRun

(* A statement that writes does so in the transaction.                     *)
Write(r, tables) ==
  /\ txdb' = tables
  /\ writer' = r
  /\ UNCHANGED db

(* The loop goes on to the next file ...                                   *)
NextSync(r) ==
  /\ i' = [i EXCEPT ![r] = @ + 1]
  /\ k' = [k EXCEPT ![r] = 0]
  /\ pc' = [pc EXCEPT ![r] = "sync"]
  /\ row_id' = [row_id EXCEPT ![r] = 0]

(* Mutant: the last segment is left out.                                   *)
NextInsertShort(r) ==
  \/ k[r] + 2 < segments[r] /\ k' = [k EXCEPT ![r] = @ + 1] /\ UNCHANGED <<i, pc, row_id>>
  \/ k[r] + 2 >= segments[r] /\ NextSync(r)

(* ... and the inner one to the next segment.                              *)
NextInsert(r) ==
  \/ k[r] + 1 < segments[r] /\ k' = [k EXCEPT ![r] = @ + 1] /\ UNCHANGED <<i, pc, row_id>>
  \/ k[r] + 1 = segments[r] /\ NextSync(r)

ResultsStay == UNCHANGED <<fileVars, starts, number, segments, scanned, results, entries>>

SyncPassesOver(r) ==
  /\ At(r, "sync")
  /\ results[r][i[r]] # "AK_OK"
  /\ NextSync(r)
  /\ UNCHANGED dbVars
  /\ ResultsStay

(* Mutant: the row says what the file is now, not what was scanned.        *)
RowAsOfNow(r) ==
  [id |-> NextId(Tables(r)), metadata |-> metadata[i[r]], hashes |-> {}]

(* Mutant: the old row is updated in place, and keeps its hashes.          *)
RowKeepsHashes(r) ==
  LET old == Tables(r)[i[r]]
  IN  [id |-> IF old = NoRow THEN NextId(Tables(r)) ELSE old.id,
       metadata |-> scanned[r][i[r]], hashes |-> old.hashes]

(* INSERT OR REPLACE deletes the file's old row, and with it the hashes.   *)
NewRow(r) == [id |-> NextId(Tables(r)), metadata |-> scanned[r][i[r]], hashes |-> {}]

(* cache_upsert_file                                                       *)
UpsertFile(r) ==
  /\ At(r, "sync")
  /\ results[r][i[r]] = "AK_OK"
  /\ writer \in {NoRun, r}
  /\ Write(r, [Tables(r) EXCEPT ![i[r]] = NewRow(r)])
  /\ row_id' = [row_id EXCEPT ![r] = NewRow(r).id]
  /\ pc' = [pc EXCEPT ![r] = "insert"]
  /\ UNCHANGED <<i, k>>
  /\ ResultsStay

(* Another run is writing: the upsert fails and the file is not saved.     *)
UpsertBusy(r) ==
  /\ At(r, "sync")
  /\ results[r][i[r]] = "AK_OK"
  /\ writer \notin {NoRun, r}
  /\ NextSync(r)
  /\ UNCHANGED dbVars
  /\ ResultsStay

(* The entry to insert, and whether the primary key takes it: one hash per *)
(* file id and timestamp, and the id must be that of a row.                *)
ToInsert(r) == CHOOSE e \in entries[r][i[r]] : e.k = k[r]
KeyIsFree(r) ==
  LET row == Tables(r)[i[r]]
  IN  row.id = row_id[r] /\ \A x \in row.hashes : x.ts # ToInsert(r).ts

(* cache_insert_hash, whose result nobody looks at                         *)
InsertHash(r) ==
  /\ At(r, "insert")
  /\ KeyIsFree(r)
  /\ LET row == Tables(r)[i[r]]
     IN  Write(r, [Tables(r) EXCEPT ![i[r]] =
           [id |-> row.id, metadata |-> row.metadata, hashes |-> row.hashes \cup {ToInsert(r)}]])
  /\ NextInsert(r)
  /\ ResultsStay

InsertRefused(r) ==
  /\ At(r, "insert")
  /\ ~KeyIsFree(r)
  /\ NextInsert(r)
  /\ UNCHANGED dbVars
  /\ ResultsStay

(* COMMIT, and the run goes on to its report and ends.                     *)
Commit(r) ==
  /\ pc[r] = "sync"
  /\ i[r] = FileCount
  /\ IF writer = r THEN db' = txdb /\ writer' = NoRun ELSE UNCHANGED <<db, writer>>
  /\ UNCHANGED <<fileVars, txdb, starts>>
  /\ Idle(r)

(* The process is killed; SQLite drops an open transaction.                *)
Kill(r) ==
  /\ pc[r] # "off"
  /\ IF writer = r THEN writer' = NoRun /\ txdb' = db ELSE UNCHANGED <<writer, txdb>>
  /\ UNCHANGED <<fileVars, db, starts>>
  /\ Idle(r)

(* Somebody changes a file, and stat shows it, or, when the file keeps its *)
(* size within the second, does not.                                       *)
Change(f) ==
  /\ disk[f] < MaxVersion
  /\ disk' = [disk EXCEPT ![f] = @ + 1]
  /\ metadata' \in {metadata, [metadata EXCEPT ![f] = disk[f] + 1]}
  /\ UNCHANGED <<dbVars, starts, runVars>>

Next ==
  \/ \E r \in Runs :
       \/ \E s \in Segments : Start(r, s)
       \/ FileNotValid(r) \/ FileValid(r) \/ GetHashes(r) \/ WrongCount(r)
       \/ HashSegment(r) \/ SegmentFails(r) \/ HashFails(r) \/ NotQueued(r)
       \/ SyncPassesOver(r) \/ UpsertFile(r) \/ UpsertBusy(r)
       \/ InsertHash(r) \/ InsertRefused(r) \/ Commit(r)
       \/ Kill(r)
  \/ \E f \in Files : Change(f)

Spec == Init /\ [][Next]_vars

-----------------------------------------------------------------------------
(***************************************************************************)
(* Properties                                                              *)
(***************************************************************************)

Hits(r) == {f \in Files : results[r][f] = "AK_STATUS_FILE_CACHED"}

(* A hit never brings the hash of a content that the metadata the run has  *)
(* scanned came after, although the row and its hashes are read by two     *)
(* statements, files change between the scan and the hashing and while     *)
(* they are hashed, and slow runs overwrite the rows of faster ones.       *)
HitIsCurrent ==
  \A r \in Runs : \A f \in Hits(r) : \A e \in entries[r][f] : failed(e) \/ e.of >= scanned[r][f]

(* All hashes of a hit come from one hashing by one run: two saves of a    *)
(* file, at the same time or one after the other, never mix.               *)
HitIsOfOneSave ==
  \A r \in Runs : \A f \in Hits(r) : \A d, e \in entries[r][f] :
    d.by = e.by /\ (d.k = e.k => d = e)

(* A hit without a failed segment is exactly what hashing the file with    *)
(* this run's number of segments would bring, each segment once: what a    *)
(* run killed between the upsert and the last insert has written is never  *)
(* part of a hit, nor is the half of a save that is going on.              *)
HitIsWhole ==
  \A r \in Runs : \A f \in Hits(r) :
    (\A e \in entries[r][f] : ~failed(e))
      => {<<e.n, e.k>> : e \in entries[r][f]} = {segments[r]} \X (0 .. segments[r] - 1)

(* The cache works: a file is hashed again only if it was never saved, has *)
(* changed since, was saved with another number of segments or with more   *)
(* than one failed segment, or its row was replaced between the two reads. *)
MissesAreJustified ==
  [][\A r \in Runs : pc[r] \in {"lookup", "hashes"} /\ pc'[r] # "off"
       /\ (i'[r] # i[r] \/ pc'[r] = "hash") =>
       LET f == i[r] IN
         \/ results'[r][f] = "AK_STATUS_FILE_CACHED"
         \/ db[f] = NoRow
         \/ db[f].metadata # scanned[r][f]
         \/ \E e \in db[f].hashes : e.n # segments[r]
         \/ Cardinality(db[f].hashes) < segments[r] /\ \E e \in db[f].hashes : failed(e)
         \/ pc[r] = "hashes" /\ row_id[r] # db[f].id]_vars

(***************************************************************************)
(* What cache.c:409 says, and the code does not keep                       *)
(***************************************************************************)

(* A hit means that the database holds the exact number of segments asked  *)
(* for: those of a run with that many.                                     *)
HitHasItsSegments ==
  \A r \in Runs : \A f \in Hits(r) : \A e \in entries[r][f] : e.n = segments[r]
=============================================================================
