------------------------------- MODULE Driver -------------------------------
(***************************************************************************)
(* One run of the program from the scan to the exit of the process: the    *)
(* driver (anukrta_driver and execute_hash_worker_threads of main.c)       *)
(* composed with the worker pool (HashQueue), the signal watcher           *)
(* (SignalWatch) and the progress bar (ProgressBar).  The four run on      *)
(* threads of their own and meet in the atomics of hashing_thread_ctx and  *)
(* ak_signals_ctx.                                                         *)
(***************************************************************************)
EXTENDS Integers, Sequences, FiniteSets

CONSTANTS FileCount,     (* files found by a scan that finds any             *)
          ThreadCount,   (* config->thread_count                             *)
          Signals,       (* the signals the environment may send             *)
          NDEBUG         (* a release build: assert() is compiled out        *)

ASSUME FilesAssumption == FileCount \in Nat \ {0}
ASSUME ThreadCountAssumption == ThreadCount \in 1 .. 255
ASSUME SignalsAssumption == Signals \subseteq {2, 15}   \* SIGINT, SIGTERM
ASSUME NDEBUGAssumption == NDEBUG \in BOOLEAN

Threads == 0 .. ThreadCount - 1

VARIABLES
  results, entries, looked, pending_indices, packaged, pending_count,
  current_idx, completed_count, wpc, q_idx,
  pending, received, on_shutdown, on_shutdown_data, watch_pc, signo, killed,
  is_active, total_count, mon_pc, shown,
  dpc,             (* where the driver is                                    *)
  cache_enabled,   (* the AK_RUNTIME_FLAG_CACHE the user asked for           *)
  cache_ctx,       (* the database connection: "NULL", "open" or "closed"    *)
  sqlite,          (* the library: "off", "on" or "shutdown"                 *)
  thread_count,    (* final_thread_count of the pool                         *)
  threads_made,    (* threads created                                        *)
  threads_joined,  (* threads joined                                         *)
  synced,          (* files whose hashes were handed to the database         *)
  report,          (* "none", or the files printed as hashed and as skipped  *)
  driver_ret       (* what the driver returned, -1 before                    *)

Q == INSTANCE HashQueue WITH Workers <- Threads
S == INSTANCE SignalWatch
Bar == INSTANCE ProgressBar

queueVars == <<results, entries, looked, pending_indices, packaged, pending_count,
               current_idx, completed_count, wpc, q_idx>>
signalVars == <<pending, received, on_shutdown, on_shutdown_data, watch_pc, signo, killed>>
barVars == <<is_active, total_count, mon_pc, shown>>
poolVars == <<thread_count, threads_made, threads_joined>>
outVars == <<synced, report, driver_ret>>
cacheVars == <<cache_enabled, cache_ctx, sqlite>>
vars == <<queueVars, signalVars, barVars, dpc, cacheVars, poolVars, outVars>>

AK_NO_MEDIA_FOUND == 3

(* While it is here, the driver's frame holds thread_ctx.                  *)
InFrame == {"scan", "open", "lookup", "set_data", "set_callback", "precheck", "abandon",
            "read_count", "assert", "progress", "spawn", "join", "stop_bar", "join_bar",
            "unregister", "postcheck", "sync_and_exit", "sync", "report", "shutdown_sqlite",
            "unwind"}

ended == killed \/ dpc \in {"exited", "aborted"}

Init ==
  /\ Q!Init /\ S!Init /\ Bar!Init
  /\ dpc = "scan"
  /\ cache_enabled \in BOOLEAN
  /\ cache_ctx = "NULL"
  /\ sqlite = "off"
  /\ thread_count = 0
  /\ threads_made = 0
  /\ threads_joined = 0
  /\ synced = {}
  /\ report = "none"
  /\ driver_ret = -1

-----------------------------------------------------------------------------
(***************************************************************************)
(* anukrta_driver up to the pool                                           *)
(***************************************************************************)

At(from, to) == dpc = from /\ dpc' = to

ScanFindsNothing ==
  /\ At("scan", "unwind")
  /\ driver_ret' = AK_NO_MEDIA_FOUND
  /\ UNCHANGED <<queueVars, signalVars, barVars, cacheVars, poolVars, synced, report>>

ScanFindsFiles ==
  /\ At("scan", "open")
  /\ UNCHANGED <<queueVars, signalVars, barVars, cacheVars, poolVars, outVars>>

(* cache_init_once and cache_open_db; opening may fail.                    *)
OpenCache ==
  /\ At("open", "lookup")
  /\ IF cache_enabled
       THEN sqlite' = "on" /\ cache_ctx' \in {"open", "NULL"}
       ELSE UNCHANGED <<sqlite, cache_ctx>>
  /\ UNCHANGED <<queueVars, signalVars, barVars, cache_enabled, poolVars, outVars>>

(* One turn of the lookup loop, of the loop that queues everything when    *)
(* there is no cache.                                                      *)
Lookup ==
  /\ dpc = "lookup"
  /\ \/ cache_ctx = "open" /\ (Q!CacheHit \/ Q!Enqueue("partial"))
     \/ Q!Enqueue("zero")
  /\ UNCHANGED <<signalVars, barVars, dpc, cacheVars, poolVars, outVars>>

Package ==
  /\ At("lookup", "set_data")
  /\ Q!Package
  /\ UNCHANGED <<signalVars, barVars, cacheVars, poolVars, outVars>>

RegisterData ==
  /\ At("set_data", "set_callback")
  /\ S!SetData("thread_ctx")
  /\ UNCHANGED <<queueVars, barVars, cacheVars, poolVars, outVars>>

RegisterCallback ==
  /\ At("set_callback", "precheck")
  /\ S!SetCallback("poison_hash_queue")
  /\ UNCHANGED <<queueVars, barVars, cacheVars, poolVars, outVars>>

(* Mutant: only the callback is relied on.                                 *)
PreSpawnUnchecked ==
  /\ dpc = "precheck"
  /\ dpc' = IF Q!Queued > 0 THEN "read_count" ELSE "unregister"
  /\ UNCHANGED <<queueVars, signalVars, barVars, cacheVars, poolVars, outVars>>

(* The check for a signal that came before the registration.               *)
PreSpawnCheck ==
  /\ dpc = "precheck"
  /\ dpc' = IF S!ak_shutdown_requested THEN "abandon"
            ELSE IF Q!Queued > 0 THEN "read_count" ELSE "unregister"
  /\ UNCHANGED <<queueVars, signalVars, barVars, cacheVars, poolVars, outVars>>

(* Mutant: the early return reports success.                               *)
AbandonWithZero ==
  /\ At("abandon", "unwind")
  /\ S!SetCallback("NULL")
  /\ driver_ret' = 0
  /\ UNCHANGED <<queueVars, barVars, cacheVars, poolVars, synced, report>>

Abandon ==
  /\ At("abandon", "unwind")
  /\ S!SetCallback("NULL")
  /\ driver_ret' = S!ak_shutdown_exit_code
  /\ UNCHANGED <<queueVars, barVars, cacheVars, poolVars, synced, report>>

(***************************************************************************)
(* execute_hash_worker_threads                                             *)
(***************************************************************************)

(* The atomic is read again, after the check above.                        *)
ReadCount ==
  /\ At("read_count", "assert")
  /\ thread_count' = IF ThreadCount < pending_count THEN ThreadCount ELSE pending_count
  /\ UNCHANGED <<queueVars, signalVars, barVars, cacheVars, threads_made, threads_joined,
                 outVars>>

AssertThreadCount ==
  /\ At("assert", IF thread_count > 0 \/ NDEBUG THEN "progress" ELSE "aborted")
  /\ UNCHANGED <<queueVars, signalVars, barVars, cacheVars, poolVars, outVars>>

StartProgress ==
  /\ At("progress", "spawn")
  /\ Bar!Start(pending_count)
  /\ UNCHANGED <<queueVars, signalVars, cacheVars, poolVars, outVars>>

SpawnThread ==
  /\ dpc = "spawn"
  /\ threads_made < thread_count
  /\ Q!Spawn(threads_made)
  /\ threads_made' = threads_made + 1
  /\ UNCHANGED <<signalVars, barVars, dpc, cacheVars, thread_count, threads_joined, outVars>>

(* The loop is over, or pthread_create failed, which ends it early; with   *)
(* no thread at all the join loop is skipped.                              *)
StopSpawning ==
  /\ At("spawn", IF threads_made = 0 THEN "stop_bar" ELSE "join")
  /\ UNCHANGED <<queueVars, signalVars, barVars, cacheVars, poolVars, outVars>>

JoinThread ==
  /\ dpc = "join"
  /\ threads_joined < threads_made
  /\ wpc[threads_joined] = "exited"
  /\ threads_joined' = threads_joined + 1
  /\ UNCHANGED <<queueVars, signalVars, barVars, dpc, cacheVars, thread_count, threads_made,
                 outVars>>

(* Mutant: the last thread is not joined.                                  *)
AllButOneJoined ==
  /\ At("join", "stop_bar")
  /\ threads_joined + 1 >= threads_made
  /\ UNCHANGED <<queueVars, signalVars, barVars, cacheVars, poolVars, outVars>>

AllJoined ==
  /\ At("join", "stop_bar")
  /\ threads_joined = threads_made
  /\ UNCHANGED <<queueVars, signalVars, barVars, cacheVars, poolVars, outVars>>

(* ak_ui_progress_stop: an inactive bar has no thread to wait for.         *)
StopBar ==
  /\ dpc = "stop_bar"
  /\ IF is_active
       THEN dpc' = "join_bar" /\ Bar!Deactivate
       ELSE dpc' = "unregister" /\ UNCHANGED barVars
  /\ UNCHANGED <<queueVars, signalVars, cacheVars, poolVars, outVars>>

JoinBar ==
  /\ At("join_bar", "unregister")
  /\ Bar!Joinable
  /\ UNCHANGED <<queueVars, signalVars, barVars, cacheVars, poolVars, outVars>>

(***************************************************************************)
(* anukrta_driver after the pool                                           *)
(***************************************************************************)

Unregister ==
  /\ At("unregister", "postcheck")
  /\ S!SetCallback("NULL")
  /\ UNCHANGED <<queueVars, barVars, cacheVars, poolVars, outVars>>

(* Mutant: a poisoned queue is taken for a finished one.                   *)
PostHashUnchecked ==
  /\ At("postcheck", "sync")
  /\ UNCHANGED <<queueVars, signalVars, barVars, cacheVars, poolVars, outVars>>

PostHashCheck ==
  /\ At("postcheck", IF S!ak_shutdown_requested THEN "sync_and_exit" ELSE "sync")
  /\ UNCHANGED <<queueVars, signalVars, barVars, cacheVars, poolVars, outVars>>

(* cache_sync_results_maybe: every file with AK_OK, if there is a database. *)
SyncResults ==
  synced' = IF cache_ctx = "open" THEN {f \in Q!Files : results[f] = "AK_OK"} ELSE {}

(* Mutant: an interrupted run saves nothing.                               *)
ExitWithoutSync ==
  /\ At("sync_and_exit", "unwind")
  /\ driver_ret' = S!ak_shutdown_exit_code
  /\ UNCHANGED <<queueVars, signalVars, barVars, cacheVars, poolVars, synced, report>>

SyncAndExit ==
  /\ At("sync_and_exit", "unwind")
  /\ SyncResults
  /\ driver_ret' = S!ak_shutdown_exit_code
  /\ UNCHANGED <<queueVars, signalVars, barVars, cacheVars, poolVars, report>>

Sync ==
  /\ At("sync", "report")
  /\ SyncResults
  /\ UNCHANGED <<queueVars, signalVars, barVars, cacheVars, poolVars, report, driver_ret>>

(* The tree is built, searched and printed; nothing checks for signals.    *)
BuildReport ==
  /\ At("report", "shutdown_sqlite")
  /\ report' = "printed"
  /\ UNCHANGED <<queueVars, signalVars, barVars, cacheVars, poolVars, synced, driver_ret>>

ShutdownSqlite ==
  /\ At("shutdown_sqlite", "unwind")
  /\ sqlite' = IF cache_enabled THEN "shutdown" ELSE sqlite
  /\ driver_ret' = 0
  /\ UNCHANGED <<queueVars, signalVars, barVars, cache_enabled, cache_ctx, poolVars, synced,
                 report>>

(* The AK_AUTO destructors run and the frame, thread_ctx with it, is gone. *)
Unwind ==
  /\ At("unwind", "returned")
  /\ cache_ctx' = IF cache_ctx = "open" THEN "closed" ELSE cache_ctx
  /\ UNCHANGED <<queueVars, signalVars, barVars, cache_enabled, sqlite, poolVars, outVars>>

(* main returns: the process and its remaining threads end.                *)
Exit ==
  /\ At("returned", "exited")
  /\ UNCHANGED <<queueVars, signalVars, barVars, cacheVars, poolVars, outVars>>

DriverStep ==
  \/ ScanFindsNothing \/ ScanFindsFiles \/ OpenCache \/ Lookup \/ Package
  \/ RegisterData \/ RegisterCallback \/ PreSpawnCheck \/ Abandon
  \/ ReadCount \/ AssertThreadCount \/ StartProgress \/ SpawnThread \/ StopSpawning
  \/ JoinThread \/ AllJoined \/ StopBar \/ JoinBar
  \/ Unregister \/ PostHashCheck \/ SyncAndExit \/ Sync \/ BuildReport
  \/ ShutdownSqlite \/ Unwind \/ Exit

-----------------------------------------------------------------------------
(***************************************************************************)
(* The other threads                                                       *)
(***************************************************************************)

Worker(w) ==
  /\ Q!WorkerStep(w)
  /\ UNCHANGED <<signalVars, barVars, dpc, cacheVars, poolVars, outVars>>

Monitor ==
  /\ Bar!Test \/ Bar!Draw(completed_count)
  /\ UNCHANGED <<queueVars, signalVars, dpc, cacheVars, poolVars, outVars>>

(* Mutant: the callback rewinds the queue instead of only emptying it.     *)
RunCallbackRewinds ==
  /\ S!CallbackReturns
  /\ pending_count' = 0 /\ current_idx' = 0
  /\ UNCHANGED <<results, entries, looked, pending_indices, packaged, completed_count, wpc,
                 q_idx, barVars, dpc, cacheVars, poolVars, outVars>>

(* The callback writes through on_shutdown_data; when the frame is gone    *)
(* the write hits memory no later step of the model reads.                 *)
RunCallback ==
  /\ S!CallbackReturns
  /\ IF dpc \in InFrame THEN Q!Poison ELSE UNCHANGED queueVars
  /\ UNCHANGED <<barVars, dpc, cacheVars, poolVars, outVars>>

WatcherSilent ==
  /\ S!SigWait \/ S!Record \/ S!ArmHardKill \/ S!LoadCallback
  /\ UNCHANGED <<queueVars, barVars, dpc, cacheVars, poolVars, outVars>>

Watcher == RunCallback \/ WatcherSilent

SendSignal ==
  /\ \E s \in Signals : S!Raise(s)
  /\ UNCHANGED <<queueVars, barVars, dpc, cacheVars, poolVars, outVars>>

(* The process is over.                                                    *)
Ended == ended /\ UNCHANGED vars

Next ==
  \/ /\ ~ended
     /\ \/ DriverStep
        \/ \E w \in Threads : Worker(w)
        \/ Monitor
        \/ Watcher
        \/ SendSignal
  \/ Ended

Spec == Init /\ [][Next]_vars

(* The system runs every thread of a live process, ak_video_hash returns   *)
(* and so does every call into SQLite.  Nobody has to send a signal.       *)
Fairness ==
  /\ WF_vars(~ended /\ DriverStep)
  /\ \A w \in Threads : WF_vars(~ended /\ Worker(w))
  /\ WF_vars(~ended /\ Monitor)
  /\ WF_vars(~ended /\ Watcher)

FairSpec == Spec /\ Fairness

-----------------------------------------------------------------------------
(***************************************************************************)
(* Properties                                                              *)
(***************************************************************************)

Live(w) == wpc[w] \notin {"unborn", "exited"}

(* The driver never reads file_statuses or hash_entries, and never leaves  *)
(* the pool's frame, while a worker may still write, nor while the monitor *)
(* may still read the counter and the ui context there: also when a create *)
(* failed half way, the queue was poisoned, or the monitor left on its own *)
(* while it was being stopped.                                             *)
ThreadsAreJoined ==
  /\ (\E w \in Threads : Live(w)) => dpc \in {"spawn", "join"}
  /\ mon_pc \in {"test", "draw"} => dpc \in {"spawn", "join", "stop_bar", "join_bar"}

(* Once the watcher has dealt with a signal, no worker is left that could  *)
(* start another file: the signal was seen by the check before the pool,   *)
(* or its callback poisoned the queue (the comment at main.c:388-391).     *)
SignalStopsThePool ==
  watch_pc = "exited" /\ dpc \in {"read_count", "assert", "progress", "spawn", "join"}
    => pending_count = 0

(* A report is printed only over finished work: if the pool ran at all (or *)
(* had nothing to do), no file in it is still PENDING.  A poisoned queue   *)
(* never reaches the report, because the watcher records the signal before *)
(* it runs the callback and the driver checks after the join.              *)
ReportIsOfFinishedWork ==
  report = "printed" /\ (threads_made > 0 \/ Q!Queued = 0) => \A f \in Q!Files : Q!Settled(f)

(* Every file that finished with AK_OK is handed to the database, whole,   *)
(* in an interrupted run as in a complete one (main.c:412-414).            *)
FinishedWorkIsSaved ==
  dpc \in {"returned", "exited"} /\ cache_ctx = "closed" =>
    /\ synced = {f \in Q!Files : results[f] = "AK_OK"}
    /\ \A f \in synced : entries[f] = "full"

(* The exit status tells what happened: 128 + signo for a run a signal cut *)
(* short, which prints no report, and 0 for one that printed it.           *)
ExitStatusIsTruthful ==
  dpc \in {"returned", "exited"} =>
    \/ driver_ret = 0 /\ report = "printed"
    \/ driver_ret = AK_NO_MEDIA_FOUND /\ report = "none"
    \/ received # 0 /\ driver_ret = 128 + received /\ report = "none"

(* The bar stands at 100% only when every queued file has its status, and  *)
(* never beyond.                                                           *)
BarIsHonest ==
  mon_pc # "unborn" =>
    /\ shown <= total_count
    /\ shown = total_count => \A f \in Q!Files : Q!Settled(f)

(* Every run ends: no join waits for a thread that does not leave, with or *)
(* without signals, failed thread creations or a poisoned queue.           *)
ProcessEnds == <>ended

(* The driver uses the pool as HashQueue allows, so all that HashQueue     *)
(* guarantees holds of the composed program.                               *)
ImplementsHashQueue == Q!Spec

(***************************************************************************)
(* What comments and assertions of the source claim, and the code does not *)
(* keep                                                                    *)
(***************************************************************************)

(* main.c:183 asserts that the pool has at least one thread.               *)
PoolHasAThread == dpc = "assert" => thread_count > 0
=============================================================================
