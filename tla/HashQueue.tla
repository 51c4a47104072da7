----------------------------- MODULE HashQueue ------------------------------
(***************************************************************************)
(* The work queue of the hashing phase (struct hashing_thread_ctx of       *)
(* main.c) and the threads that empty it.  The driver fills the queue with *)
(* the files the cache does not know, spawns workers that take the next    *)
(* queue index with an atomic fetch-and-add, and the shutdown callback     *)
(* "poisons" the queue by setting its length to zero.  Each access to a    *)
(* shared atomic is an action of its own; a worker stands between two of   *)
(* them at the point its program counter names.                            *)
(*                                                                         *)
(* The driver's and the signal watcher's part (when workers are spawned,   *)
(* when the queue is poisoned) is left free here; Driver.tla fixes it.     *)
(***************************************************************************)
EXTENDS Integers, Sequences, FiniteSets

CONSTANTS FileCount,    (* number of files the scan found                    *)
          Workers       (* the worker threads that may be created            *)

ASSUME FileCountAssumption == FileCount \in Nat \ {0}
ASSUME WorkersAssumption == IsFiniteSet(Workers)

Files == 0 .. FileCount - 1

(* What ak_video_hash returns (AK_STATUS of defs.h).                       *)
Outcomes == {"AK_OK", "AK_IO_FAIL", "AK_NO_MEM", "AK_SKIP_SHORT_DURATION"}

(* "unset" is the xmalloc'ed cell before the lookup loop reaches it.       *)
Statuses == Outcomes \cup {"unset", "AK_STATUS_FILE_PENDING", "AK_STATUS_FILE_CACHED"}

WorkerStates == {"unborn", "claim", "check", "hash", "count", "exited"}

VARIABLES
  results,          (* file_statuses / results: the status of each file      *)
  entries,          (* hash_entries, one value per file's slice of it        *)
  looked,           (* the index i of the lookup loop                        *)
  pending_indices,  (* file index of each queue slot                         *)
  packaged,         (* thread_ctx has been initialised                       *)
  pending_count,    (* atomic: the length of the queue, 0 once poisoned      *)
  current_idx,      (* atomic: the next queue index to hand out              *)
  completed_count,  (* atomic: files finished, for the progress bar          *)
  wpc,              (* where each worker is                                  *)
  q_idx             (* each worker's local q_idx                             *)

queueVars == <<results, entries, looked, pending_indices, packaged, pending_count,
               current_idx, completed_count, wpc, q_idx>>

QueueTypeOK ==
  /\ results \in [Files -> Statuses]
  /\ entries \in [Files -> {"zero", "partial", "full"}]
  /\ looked \in 0 .. FileCount
  /\ pending_indices \in Seq(Files)
  /\ packaged \in BOOLEAN
  /\ pending_count \in Nat
  /\ current_idx \in Nat
  /\ completed_count \in Nat
  /\ wpc \in [Workers -> WorkerStates]
  /\ q_idx \in [Workers -> Nat]

Init ==
  /\ results = [f \in Files |-> "unset"]
  /\ entries = [f \in Files |-> "zero"]
  /\ looked = 0
  /\ pending_indices = <<>>
  /\ packaged = FALSE
  /\ pending_count = 0
  /\ current_idx = 0
  /\ completed_count = 0
  /\ wpc = [w \in Workers |-> "unborn"]
  /\ q_idx = [w \in Workers |-> 0]

(***************************************************************************)
(* The driver's lookup loop                                                *)
(***************************************************************************)

(* Mutant: the file is queued as well (an else is missing).                *)
CacheHitQueuesToo ==
  /\ looked < FileCount
  /\ results' = [results EXCEPT ![looked] = "AK_STATUS_FILE_CACHED"]
  /\ entries' = [entries EXCEPT ![looked] = "full"]
  /\ pending_indices' = Append(pending_indices, looked)
  /\ looked' = looked + 1
  /\ UNCHANGED <<packaged, pending_count, current_idx, completed_count, wpc, q_idx>>

(* search_cache_for_file succeeded: all hashes of the file were loaded.    *)
CacheHit ==
  /\ looked < FileCount
  /\ results' = [results EXCEPT ![looked] = "AK_STATUS_FILE_CACHED"]
  /\ entries' = [entries EXCEPT ![looked] = "full"]
  /\ looked' = looked + 1
  /\ UNCHANGED <<pending_indices, packaged, pending_count, current_idx,
                 completed_count, wpc, q_idx>>

(* The file is not in the cache, or not with the right number of hashes;   *)
(* in the second case cache_get_hashes has already written some of them.   *)
Enqueue(slice) ==
  /\ looked < FileCount
  /\ results' = [results EXCEPT ![looked] = "AK_STATUS_FILE_PENDING"]
  /\ entries' = [entries EXCEPT ![looked] = slice]
  /\ pending_indices' = Append(pending_indices, looked)
  /\ looked' = looked + 1
  /\ UNCHANGED <<packaged, pending_count, current_idx, completed_count, wpc, q_idx>>

(* The initialiser of thread_ctx.                                          *)
Package ==
  /\ looked = FileCount
  /\ ~packaged
  /\ packaged' = TRUE
  /\ pending_count' = Len(pending_indices)
  /\ current_idx' = 0
  /\ completed_count' = 0
  /\ UNCHANGED <<results, entries, looked, pending_indices, wpc, q_idx>>

(***************************************************************************)
(* hash_worker_thread                                                      *)
(***************************************************************************)

FileOf(w) == pending_indices[q_idx[w] + 1]

(* pthread_create succeeded.                                               *)
Spawn(w) ==
  /\ packaged
  /\ wpc[w] = "unborn"
  /\ wpc' = [wpc EXCEPT ![w] = "claim"]
  /\ UNCHANGED <<results, entries, looked, pending_indices, packaged, pending_count,
                 current_idx, completed_count, q_idx>>

(* Mutant: a load where the code has a fetch-and-add.                      *)
ClaimByLoad(w) ==
  /\ wpc[w] = "claim"
  /\ q_idx' = [q_idx EXCEPT ![w] = current_idx]
  /\ wpc' = [wpc EXCEPT ![w] = "check"]
  /\ UNCHANGED <<results, entries, looked, pending_indices, packaged, pending_count,
                 current_idx, completed_count>>

(* Mutant: the worker waits for work instead of finding the queue empty.   *)
ClaimOnlyWork(w) ==
  /\ wpc[w] = "claim"
  /\ current_idx < pending_count
  /\ q_idx' = [q_idx EXCEPT ![w] = current_idx]
  /\ current_idx' = current_idx + 1
  /\ wpc' = [wpc EXCEPT ![w] = "check"]
  /\ UNCHANGED <<results, entries, looked, pending_indices, packaged, pending_count,
                 completed_count>>

(* atomic_fetch_add of current_idx.                                        *)
Claim(w) ==
  /\ wpc[w] = "claim"
  /\ q_idx' = [q_idx EXCEPT ![w] = current_idx]
  /\ current_idx' = current_idx + 1
  /\ wpc' = [wpc EXCEPT ![w] = "check"]
  /\ UNCHANGED <<results, entries, looked, pending_indices, packaged, pending_count,
                 completed_count>>

(* Mutant: the last slot of the queue is taken for its end.                *)
LeaveOneEarly(w) ==
  /\ wpc[w] = "check"
  /\ q_idx[w] + 1 >= pending_count
  /\ wpc' = [wpc EXCEPT ![w] = "exited"]
  /\ UNCHANGED <<results, entries, looked, pending_indices, packaged, pending_count,
                 current_idx, completed_count, q_idx>>

(* Mutant: the counter of finished files goes up before the check.         *)
LeaveCounts(w) ==
  /\ wpc[w] = "check"
  /\ q_idx[w] >= pending_count
  /\ completed_count' = completed_count + 1
  /\ wpc' = [wpc EXCEPT ![w] = "exited"]
  /\ UNCHANGED <<results, entries, looked, pending_indices, packaged, pending_count,
                 current_idx, q_idx>>

(* The load of pending_count finds the queue exhausted, or poisoned.       *)
Leave(w) ==
  /\ wpc[w] = "check"
  /\ q_idx[w] >= pending_count
  /\ wpc' = [wpc EXCEPT ![w] = "exited"]
  /\ UNCHANGED <<results, entries, looked, pending_indices, packaged, pending_count,
                 current_idx, completed_count, q_idx>>

(* Mutant: the queue's length is read once, so poisoning it has no effect. *)
StartHashUnpoisoned(w) ==
  /\ wpc[w] = "check"
  /\ q_idx[w] < Len(pending_indices)
  /\ entries' = [entries EXCEPT ![FileOf(w)] = "partial"]
  /\ wpc' = [wpc EXCEPT ![w] = "hash"]
  /\ UNCHANGED <<results, looked, pending_indices, packaged, pending_count,
                 current_idx, completed_count, q_idx>>

(* ak_video_hash is called and starts to fill the file's slice.            *)
StartHash(w) ==
  /\ wpc[w] = "check"
  /\ q_idx[w] < pending_count
  /\ entries' = [entries EXCEPT ![FileOf(w)] = "partial"]
  /\ wpc' = [wpc EXCEPT ![w] = "hash"]
  /\ UNCHANGED <<results, looked, pending_indices, packaged, pending_count,
                 current_idx, completed_count, q_idx>>

(* Mutant: AK_OK is returned although a segment was left out.              *)
FinishHashShort(w) ==
  /\ wpc[w] = "hash"
  /\ \E s \in Outcomes : results' = [results EXCEPT ![FileOf(w)] = s]
  /\ wpc' = [wpc EXCEPT ![w] = "count"]
  /\ UNCHANGED <<entries, looked, pending_indices, packaged, pending_count, current_idx,
                 completed_count, q_idx>>

(* Mutant: a file that failed is not counted (a continue on error).        *)
FinishHashSkipsCount(w) ==
  /\ wpc[w] = "hash"
  /\ \E s \in Outcomes :
       /\ results' = [results EXCEPT ![FileOf(w)] = s]
       /\ entries' = [entries EXCEPT ![FileOf(w)] = IF s = "AK_OK" THEN "full" ELSE @]
       /\ wpc' = [wpc EXCEPT ![w] = IF s = "AK_OK" THEN "count" ELSE "claim"]
  /\ UNCHANGED <<looked, pending_indices, packaged, pending_count, current_idx,
                 completed_count, q_idx>>

(* ak_video_hash returns; only with AK_OK has it filled every segment.     *)
FinishHash(w) ==
  /\ wpc[w] = "hash"
  /\ \E s \in Outcomes :
       /\ results' = [results EXCEPT ![FileOf(w)] = s]
       /\ entries' = [entries EXCEPT ![FileOf(w)] = IF s = "AK_OK" THEN "full" ELSE @]
  /\ wpc' = [wpc EXCEPT ![w] = "count"]
  /\ UNCHANGED <<looked, pending_indices, packaged, pending_count, current_idx,
                 completed_count, q_idx>>

(* atomic_fetch_add of completed_count, and back to the head of the loop.  *)
CountDone(w) ==
  /\ wpc[w] = "count"
  /\ completed_count' = completed_count + 1
  /\ wpc' = [wpc EXCEPT ![w] = "claim"]
  /\ UNCHANGED <<results, entries, looked, pending_indices, packaged, pending_count,
                 current_idx, q_idx>>

WorkerStep(w) ==
  Claim(w) \/ Leave(w) \/ StartHash(w) \/ FinishHash(w) \/ CountDone(w)

(***************************************************************************)
(* poison_hash_queue, on the signal watcher's thread                       *)
(***************************************************************************)
Poison ==
  /\ packaged
  /\ pending_count' = 0
  /\ UNCHANGED <<results, entries, looked, pending_indices, packaged, current_idx,
                 completed_count, wpc, q_idx>>

Next ==
  \/ CacheHit
  \/ \E slice \in {"zero", "partial"} : Enqueue(slice)
  \/ Package
  \/ \E w \in Workers : Spawn(w) \/ WorkerStep(w)
  \/ Poison

Spec == Init /\ [][Next]_queueVars

(* A created thread keeps running, and ak_video_hash returns.              *)
WorkerFairness == \A w \in Workers : WF_queueVars(WorkerStep(w))

FairSpec == Spec /\ WorkerFairness

-----------------------------------------------------------------------------
(***************************************************************************)
(* Properties                                                              *)
(***************************************************************************)

Queued == Len(pending_indices)

Settled(f) == results[f] \in Outcomes \cup {"AK_STATUS_FILE_CACHED"}

Hashing(w) == wpc[w] = "hash"

Created(w) == wpc[w] # "unborn"

(* No two workers ever hash the same file: nothing but the fetch-and-add   *)
(* on current_idx keeps two threads of hash_worker_thread out of the same  *)
(* slice of hash_entries and the same ak_file.                             *)
OneWorkerPerFile ==
  \A v, w \in Workers : v # w /\ Hashing(v) /\ Hashing(w) => FileOf(v) # FileOf(w)

(* A status that says "hashed" stands over a complete slice of hashes: no  *)
(* late writer and no file of another worker tears the hashes of a file    *)
(* whose status is AK_OK or CACHED, which are what is saved and compared.  *)
HashedIsWhole ==
  \A f \in Files : results[f] \in {"AK_OK", "AK_STATUS_FILE_CACHED"} => entries[f] = "full"

(* When every created worker has left and the queue was not poisoned, no   *)
(* queued file is left PENDING, however few workers could be created and   *)
(* in whatever order they left.                                            *)
NoFileForgotten ==
  /\ packaged
  /\ pending_count = Queued
  /\ \E w \in Workers : Created(w)
  /\ \A w \in Workers : Created(w) => wpc[w] = "exited"
  => \A f \in Files : Settled(f)

(* The progress bar's counter never runs ahead of the work: it counts the  *)
(* files with a final status, less those whose worker has not yet done the *)
(* increment after storing the status.                                     *)
CountIsExact ==
  packaged =>
    completed_count = Cardinality({f \in Files : results[f] \in Outcomes})
                      - Cardinality({w \in Workers : wpc[w] = "count"})

(* current_idx overshoots the queue by at most one per worker, also when   *)
(* the queue is poisoned, so the size_t counter cannot wrap and hand out   *)
(* an index a second time.                                                 *)
ClaimsBounded ==
  current_idx <= Queued + Cardinality({w \in Workers : wpc[w] \in {"check", "exited"}})

(* The status of a file is settled once: a cached file is never hashed,    *)
(* and a file that was hashed is never hashed again.                       *)
StatusSettlesOnce ==
  [][\A f \in Files : Settled(f) => results'[f] = results[f] /\ entries'[f] = entries[f]]_queueVars

(* Every worker that was created leaves its loop, so that pthread_join     *)
(* returns.                                                                *)
WorkersLeave == \A w \in Workers : Created(w) ~> wpc[w] = "exited"

(***************************************************************************)
(* The queue implements HashJobs                                           *)
(***************************************************************************)

jobOf(f) ==
  IF \E w \in Workers : Hashing(w) /\ FileOf(w) = f THEN "running"
  ELSE CASE results[f] = "unset" -> "unknown"
         [] results[f] = "AK_STATUS_FILE_CACHED" -> "cached"
         [] results[f] = "AK_STATUS_FILE_PENDING" -> "queued"
         [] OTHER -> results[f]

Jobs == INSTANCE HashJobs WITH
          job <- [f \in Files |-> jobOf(f)],
          stopped <- packaged /\ pending_count = 0

(* Each step of the queue is a step of HashJobs or invisible to it: the    *)
(* lock-free claim and check amount to starting a file nobody started.     *)
ImplementsHashJobs == Jobs!Spec

(* The same with liveness: what a worker started is finished.              *)
ImplementsFairHashJobs == Jobs!FairSpec
=============================================================================
