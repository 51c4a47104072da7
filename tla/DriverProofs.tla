---------------------------- MODULE DriverProofs ----------------------------
(***************************************************************************)
(* Theorems about a whole run, for any number of files, threads and        *)
(* signals.                                                                *)
(***************************************************************************)
EXTENDS Driver, FiniteSetTheorems, TLAPS

(* The states in which no thread was created yet, and those in which       *)
(* thread_ctx is initialised.                                              *)
BeforeSpawn == {"scan", "open", "lookup", "set_data", "set_callback", "precheck", "abandon",
                "read_count", "assert", "progress"}

(* What bounds the spawn loop: the driver creates no more threads than it  *)
(* decided on, and it never decides on more than the configuration allows. *)
SpawnInv ==
  /\ looked \in 0 .. FileCount
  /\ pending_indices \in Seq(Q!Files)
  /\ pending_count \in Nat
  /\ thread_count \in 0 .. ThreadCount
  /\ threads_made \in 0 .. thread_count
  /\ dpc \in BeforeSpawn => threads_made = 0

LEMMA SpawnInvInit == Init => SpawnInv
  BY FilesAssumption, ThreadCountAssumption DEF Init, Q!Init, SpawnInv, Q!Files

LEMMA SpawnInvStep == SpawnInv /\ [Next]_vars => SpawnInv'
<1> SUFFICES ASSUME SpawnInv, [Next]_vars PROVE SpawnInv'
  OBVIOUS
<1> USE FilesAssumption, ThreadCountAssumption DEF SpawnInv, BeforeSpawn
<1>1. CASE UNCHANGED vars
  BY <1>1 DEF vars, queueVars, poolVars, Q!Files
<1>2. CASE ScanFindsNothing \/ ScanFindsFiles \/ OpenCache \/ RegisterData \/ RegisterCallback
  BY <1>2 DEF ScanFindsNothing, ScanFindsFiles, OpenCache, RegisterData, RegisterCallback,
              At, queueVars, poolVars, Q!Files
<1>3. CASE PreSpawnCheck \/ Abandon \/ AssertThreadCount \/ StartProgress
  BY <1>3 DEF PreSpawnCheck, Abandon, AssertThreadCount, StartProgress,
              At, queueVars, poolVars, Q!Files
<1>4. CASE Lookup
  <2>1. looked \in Q!Files /\ looked' = looked + 1 /\ looked' \in 0 .. FileCount
    BY <1>4 DEF Lookup, Q!CacheHit, Q!Enqueue, Q!Files
  <2>2. pending_indices' \in {pending_indices, Append(pending_indices, looked)}
    BY <1>4 DEF Lookup, Q!CacheHit, Q!Enqueue
  <2>3. pending_indices' \in Seq(Q!Files)
    BY <2>1, <2>2
  <2>4. UNCHANGED <<pending_count, dpc, poolVars>>
    BY <1>4 DEF Lookup, Q!CacheHit, Q!Enqueue
  <2> QED
    BY <2>1, <2>3, <2>4 DEF poolVars, Q!Files
<1>5. CASE Package
  BY <1>5 DEF Package, Q!Package, At, queueVars, poolVars, Q!Files
<1>6. CASE ReadCount
  BY <1>6 DEF ReadCount, At, queueVars, poolVars, Q!Files
<1>7. CASE SpawnThread
  BY <1>7 DEF SpawnThread, Q!Spawn, queueVars, poolVars, Q!Files
<1>8. CASE StopSpawning \/ JoinThread \/ AllJoined \/ StopBar \/ JoinBar
  BY <1>8 DEF StopSpawning, JoinThread, AllJoined, StopBar, JoinBar,
              At, queueVars, poolVars, Q!Files
<1>9. CASE Unregister \/ PostHashCheck \/ SyncAndExit \/ Sync \/ BuildReport
           \/ ShutdownSqlite \/ Unwind \/ Exit
  BY <1>9 DEF Unregister, PostHashCheck, SyncAndExit, Sync, BuildReport, ShutdownSqlite,
              Unwind, Exit, At, queueVars, poolVars, Q!Files
<1>10. CASE \E w \in Threads : Worker(w)
  BY <1>10 DEF Worker, Q!WorkerStep, Q!Claim, Q!Leave, Q!StartHash, Q!FinishHash,
               Q!CountDone, poolVars, Q!Files
<1>11. CASE Monitor \/ WatcherSilent \/ SendSignal
  BY <1>11 DEF Monitor, WatcherSilent, SendSignal, queueVars, poolVars, Q!Files
<1>12. CASE RunCallback
  BY <1>12 DEF RunCallback, Q!Poison, queueVars, poolVars, Q!Files
<1> QED
  BY <1>1, <1>2, <1>3, <1>4, <1>5, <1>6, <1>7, <1>8, <1>9, <1>10, <1>11, <1>12
     DEF Next, DriverStep, Watcher, Ended

(* The driver's own steps touch the queue only in the lookup loop, when it *)
(* packages the queue and when it creates a worker.                        *)
LEMMA DriverStepIsQueueStep ==
  ASSUME SpawnInv, DriverStep
  PROVE  Q!Next \/ UNCHANGED queueVars
<1>1. CASE Lookup
  BY <1>1 DEF Lookup, Q!Next
<1>2. CASE Package
  BY <1>2 DEF Package, Q!Next
<1>3. CASE SpawnThread
  <2>1. threads_made \in Threads /\ Q!Spawn(threads_made)
    BY <1>3, ThreadCountAssumption DEF SpawnThread, SpawnInv, Threads
  <2> QED
    BY <2>1 DEF Q!Next
<1>4. CASE ScanFindsNothing \/ ScanFindsFiles \/ OpenCache \/ RegisterData \/ RegisterCallback
           \/ PreSpawnCheck \/ Abandon
  BY <1>4 DEF ScanFindsNothing, ScanFindsFiles, OpenCache, RegisterData, RegisterCallback,
              PreSpawnCheck, Abandon
<1>5. CASE ReadCount \/ AssertThreadCount \/ StartProgress \/ StopSpawning \/ JoinThread
           \/ AllJoined \/ StopBar \/ JoinBar
  BY <1>5 DEF ReadCount, AssertThreadCount, StartProgress, StopSpawning, JoinThread,
              AllJoined, StopBar, JoinBar
<1>6. CASE Unregister \/ PostHashCheck \/ SyncAndExit \/ Sync \/ BuildReport
           \/ ShutdownSqlite \/ Unwind \/ Exit
  BY <1>6 DEF Unregister, PostHashCheck, SyncAndExit, Sync, BuildReport, ShutdownSqlite,
              Unwind, Exit
<1> QED
  BY <1>1, <1>2, <1>3, <1>4, <1>5, <1>6 DEF DriverStep

(* Every step of any thread of the program is a step of the pool or leaves *)
(* the pool alone.                                                         *)
LEMMA StepIsQueueStep == SpawnInv /\ [Next]_vars => [Q!Next]_(Q!queueVars)
<1> SUFFICES ASSUME SpawnInv, [Next]_vars PROVE Q!Next \/ UNCHANGED queueVars
  BY DEF Q!queueVars, queueVars
<1>1. CASE UNCHANGED vars
  BY <1>1 DEF vars
<1>2. CASE DriverStep
  BY <1>2, DriverStepIsQueueStep
<1>3. CASE \E w \in Threads : Worker(w)
  BY <1>3 DEF Worker, Q!Next
<1>4. CASE RunCallback
  BY <1>4 DEF RunCallback, Q!Next
<1>5. CASE Monitor \/ WatcherSilent \/ SendSignal
  BY <1>5 DEF Monitor, WatcherSilent, SendSignal
<1> QED
  BY <1>1, <1>2, <1>3, <1>4, <1>5 DEF Next, Watcher, Ended

(* Thread creation that fails half way, the joins, the signals and the     *)
(* progress bar add nothing to what the pool may do: every run of the      *)
(* program is, to the pool, a run of HashQueue.                            *)
THEOREM DriverImplementsHashQueue == Spec => ImplementsHashQueue
<1>1. Init => Q!Init
  BY DEF Init
<1> QED
  BY <1>1, SpawnInvInit, SpawnInvStep, StepIsQueueStep, PTL DEF Spec, ImplementsHashQueue, Q!Spec
-----------------------------------------------------------------------------
(***************************************************************************)
(* The pool in the program                                                 *)
(***************************************************************************)

QP == INSTANCE HashQueueProofs WITH Workers <- Threads

LEMMA ThreadsAreFinite == QP!IsFiniteSet(Threads)
<1>1. IsFiniteSet(Threads)
  BY ThreadCountAssumption, FS_Interval DEF Threads
<1> QED
  BY <1>1 DEF IsFiniteSet, QP!IsFiniteSet

(* The two instances of the queue are the same specification.              *)
LEMMA SameQueue ==
  /\ Q!Init => QP!Init
  /\ Q!Next => QP!Next
<1>1. Q!Init => QP!Init
  BY DEF Q!Init, QP!Init, Q!Files, QP!Files
<1>2. Q!CacheHit => QP!CacheHit
  BY DEF Q!CacheHit, QP!CacheHit
<1>3. ASSUME NEW slice \in {"zero", "partial"}, Q!Enqueue(slice) PROVE QP!Enqueue(slice)
  BY <1>3 DEF Q!Enqueue, QP!Enqueue
<1>4. Q!Package => QP!Package
  BY DEF Q!Package, QP!Package
<1>5. ASSUME NEW w \in Threads, Q!Spawn(w) PROVE QP!Spawn(w)
  BY <1>5 DEF Q!Spawn, QP!Spawn
<1>6. ASSUME NEW w \in Threads, Q!WorkerStep(w) PROVE QP!WorkerStep(w)
  BY <1>6 DEF Q!WorkerStep, Q!Claim, Q!Leave, Q!StartHash, Q!FinishHash, Q!CountDone, Q!FileOf,
              Q!Outcomes, QP!WorkerStep, QP!Claim, QP!Leave, QP!StartHash, QP!FinishHash,
              QP!CountDone, QP!FileOf, QP!Outcomes
<1>7. Q!Poison => QP!Poison
  BY DEF Q!Poison, QP!Poison
<1>8. Q!Next => QP!Next
  BY <1>2, <1>3, <1>4, <1>5, <1>6, <1>7 DEF Q!Next, QP!Next
<1> QED
  BY <1>1, <1>8

(* What the driver builds on.                                              *)
PoolInv == QP!IInv /\ QP!NoFileForgotten /\ QP!CountIsExact

(* The invariant of the pool holds of the program, it forgets no file, its *)
(* counter is exact, and what is settled stays: the theorems of            *)
(* HashQueueProofs, carried over by the refinement.                        *)
THEOREM PoolKeepsItsPromises == Spec => []PoolInv /\ QP!StatusSettlesOnce
<1>1. Spec => QP!Spec
  <2>1. [Q!Next]_(Q!queueVars) => [QP!Next]_(QP!queueVars)
    BY SameQueue DEF Q!queueVars, QP!queueVars
  <2> QED
    BY <2>1, SameQueue, DriverImplementsHashQueue, PTL
       DEF ImplementsHashQueue, Q!Spec, QP!Spec
<1>2. QP!Spec => []PoolInv /\ QP!StatusSettlesOnce
  <2>1. QP!Spec => []QP!IInv
    BY QP!QueueInvariant, FilesAssumption, ThreadsAreFinite, PTL
  <2>2. QP!Spec => []QP!CountIsExact
    BY QP!CountIsExactHolds, FilesAssumption, ThreadsAreFinite, PTL
  <2>3. QP!Spec => []QP!NoFileForgotten
    BY QP!NoFileForgottenHolds, FilesAssumption, ThreadsAreFinite, PTL
  <2>4. QP!Spec => QP!StatusSettlesOnce
    BY QP!StatusSettlesOnceHolds, FilesAssumption, ThreadsAreFinite, PTL
  <2> QED
    BY <2>1, <2>2, <2>3, <2>4, PTL DEF PoolInv
<1> QED
  BY <1>1, <1>2

-----------------------------------------------------------------------------
(***************************************************************************)
(* The inductive invariant                                                 *)
(*                                                                         *)
(* DriverInv adds to the properties what holds them up: which threads      *)
(* exist at each point of the driver, that the monitor's flag is up while  *)
(* it may run, that a recorded signal is one the watcher has taken, and    *)
(* that the queue has its true length until the watcher is through.  What  *)
(* the pool itself keeps is not proved again: it comes from HashQueueProofs *)
(* by the theorem above.                                                   *)
(***************************************************************************)
PoolSteps == {"read_count", "assert", "progress", "spawn", "join"}
Registered == PoolSteps \cup {"precheck", "abandon", "stop_bar", "join_bar", "unregister"}
Exits == {"unwind", "returned", "exited"}
Hashed == {f \in Q!Files : results[f] = "AK_OK"}

(* Threads are created and joined in the order of their indices.           *)
ThreadsInv ==
  /\ threads_joined \in 0 .. threads_made
  /\ \A w \in Threads : w >= threads_made => wpc[w] = "unborn"
  /\ \A w \in Threads : w < threads_joined => wpc[w] = "exited"
  /\ dpc \notin {"spawn", "join"} => threads_joined = threads_made

MonitorInv ==
  /\ is_active \in BOOLEAN
  /\ mon_pc \in {"unborn", "test", "draw", "exited"}
  /\ is_active <=> mon_pc # "unborn" /\ dpc \in {"spawn", "join", "stop_bar"}
  /\ dpc \in BeforeSpawn => mon_pc = "unborn"
  /\ mon_pc \in {"test", "draw"} => dpc \in {"spawn", "join", "stop_bar", "join_bar"}

(* The signal that is recorded is the one sigwait returned.                *)
WatcherInv ==
  /\ pending \subseteq {2, 15}
  /\ watch_pc \in {"sigwait", "record", "arm", "notify", "call", "exited"}
  /\ watch_pc # "sigwait" => signo \in {2, 15}
  /\ received = IF watch_pc \in {"sigwait", "record"} THEN 0 ELSE signo

ShutdownInv ==
  /\ dpc \in Registered => on_shutdown = "poison_hash_queue"
  /\ dpc \in {"scan", "open", "lookup"} => ~packaged
  /\ dpc \notin {"scan", "open", "lookup"} \cup Exits => packaged
  /\ packaged /\ watch_pc # "exited" => pending_count = Q!Queued
  /\ SignalStopsThePool

(* Once the check after the hashing is passed, the work is done.           *)
ReportInv ==
  /\ dpc \in {"abandon", "sync_and_exit"} => received # 0
  /\ dpc \notin {"shutdown_sqlite"} \cup Exits => report = "none"
  /\ dpc = "shutdown_sqlite" => report = "printed"
  /\ dpc \in Exits =>
       \/ driver_ret = 0 /\ report = "printed"
       \/ driver_ret = AK_NO_MEDIA_FOUND /\ report = "none"
       \/ received # 0 /\ driver_ret = 128 + received /\ report = "none"
  /\ dpc \in {"sync", "report", "shutdown_sqlite"} \/ report = "printed" =>
       (threads_made > 0 \/ Q!Queued = 0 => \A f \in Q!Files : Q!Settled(f))

SaveInv ==
  /\ threads_made = 0 => \A f \in Q!Files : results[f] \notin Q!Outcomes
  /\ dpc = "scan" => cache_ctx = "NULL"
  /\ dpc \notin {"returned", "exited"} => cache_ctx # "closed"
  /\ dpc \in BeforeSpawn => synced = {}
  /\ dpc \in {"report", "shutdown_sqlite", "unwind"} /\ cache_ctx = "open" => synced = Hashed
  /\ dpc \in {"returned", "exited"} /\ cache_ctx = "closed" => synced = Hashed

(* The bar counts up to the length of the queue.                           *)
BarInv ==
  /\ mon_pc = "unborn" => shown = -1
  /\ mon_pc # "unborn" => packaged /\ total_count = Q!Queued
  /\ BarIsHonest

DriverInv ==
  /\ ThreadsInv
  /\ MonitorInv
  /\ WatcherInv
  /\ ShutdownInv
  /\ ReportInv
  /\ SaveInv
  /\ BarInv

LEMMA DriverInvInit == Init => DriverInv
<1> SUFFICES ASSUME Init PROVE DriverInv
  OBVIOUS
<1> USE DEF Init
<1>1. ThreadsInv
  BY ThreadCountAssumption DEF ThreadsInv, Q!Init, Threads
<1>2. MonitorInv
  BY DEF MonitorInv, Bar!Init, BeforeSpawn
<1>3. WatcherInv
  BY DEF WatcherInv, S!Init
<1>4. ShutdownInv
  BY DEF ShutdownInv, SignalStopsThePool, Registered, PoolSteps, Q!Init, S!Init
<1>5. ReportInv
  BY DEF ReportInv, Exits
<1>6. SaveInv
  BY DEF SaveInv, BeforeSpawn, Q!Init, Q!Outcomes, Q!Files
<1>7. BarInv
  BY DEF BarInv, BarIsHonest, Bar!Init
<1> QED
  BY <1>1, <1>2, <1>3, <1>4, <1>5, <1>6, <1>7 DEF DriverInv

LEMMA ThreadsStep ==
  ASSUME ThreadsInv, SpawnInv, QP!QueueTypeOK, [Next]_vars
  PROVE  ThreadsInv'
<1> USE ThreadCountAssumption DEF ThreadsInv, Threads
<1>1. CASE UNCHANGED vars
  BY <1>1 DEF vars, queueVars, poolVars
<1>2. CASE ScanFindsNothing \/ ScanFindsFiles \/ OpenCache \/ RegisterData \/ RegisterCallback
           \/ PreSpawnCheck \/ Abandon
  BY <1>2 DEF ScanFindsNothing, ScanFindsFiles, OpenCache, RegisterData, RegisterCallback,
              PreSpawnCheck, Abandon, At, queueVars, poolVars
<1>3. CASE Lookup \/ Package
  BY <1>3 DEF Lookup, Package, At, Q!CacheHit, Q!Enqueue, Q!Package, poolVars
<1>4. CASE ReadCount \/ AssertThreadCount \/ StartProgress
  BY <1>4 DEF ReadCount, AssertThreadCount, StartProgress, At, queueVars, poolVars
<1>5. CASE SpawnThread
  <2>1. /\ dpc = "spawn" /\ dpc' = dpc
        /\ threads_made \in Threads /\ threads_made' = threads_made + 1
        /\ wpc' = [wpc EXCEPT ![threads_made] = "claim"]
        /\ threads_joined' = threads_joined
    BY <1>5 DEF SpawnThread, SpawnInv, Q!Spawn
  <2>2. wpc[threads_made] = "unborn"
    BY <2>1
  <2> QED
    BY <2>1, <2>2 DEF QP!QueueTypeOK, SpawnInv
<1>6. CASE StopSpawning \/ JoinThread \/ AllJoined
  BY <1>6 DEF StopSpawning, JoinThread, AllJoined, At, queueVars, poolVars, SpawnInv
<1>7. CASE StopBar \/ JoinBar
  BY <1>7 DEF StopBar, JoinBar, At, queueVars, poolVars
<1>8. CASE Unregister \/ PostHashCheck \/ SyncAndExit \/ Sync \/ BuildReport
           \/ ShutdownSqlite \/ Unwind \/ Exit
  BY <1>8 DEF Unregister, PostHashCheck, SyncAndExit, Sync, BuildReport, ShutdownSqlite,
              Unwind, Exit, At, queueVars, poolVars
<1>9. ASSUME NEW w \in Threads, Worker(w) PROVE ThreadsInv'
  <2>1. /\ wpc[w] \notin {"unborn", "exited"} /\ UNCHANGED <<dpc, poolVars>>
        /\ \A v \in Threads : v # w => wpc'[v] = wpc[v]
    BY <1>9 DEF Worker, Q!WorkerStep, Q!Claim, Q!Leave, Q!StartHash, Q!FinishHash, Q!CountDone,
                QP!QueueTypeOK
  <2> QED
    BY <2>1 DEF poolVars
<1>10. CASE Monitor \/ WatcherSilent \/ SendSignal
  BY <1>10 DEF Monitor, WatcherSilent, SendSignal, queueVars, poolVars
<1>11. CASE RunCallback
  BY <1>11 DEF RunCallback, Q!Poison, queueVars, poolVars
<1> QED
  BY <1>1, <1>2, <1>3, <1>4, <1>5, <1>6, <1>7, <1>8, <1>9, <1>10, <1>11
     DEF Next, DriverStep, Watcher, Ended

LEMMA MonitorStep ==
  ASSUME MonitorInv, [Next]_vars
  PROVE  MonitorInv'
<1> USE DEF MonitorInv, BeforeSpawn
<1>1. CASE UNCHANGED vars
  BY <1>1 DEF vars, barVars
<1>2. CASE ScanFindsNothing \/ ScanFindsFiles \/ OpenCache \/ Lookup \/ Package
           \/ RegisterData \/ RegisterCallback \/ PreSpawnCheck \/ Abandon
           \/ ReadCount \/ AssertThreadCount
  BY <1>2 DEF ScanFindsNothing, ScanFindsFiles, OpenCache, Lookup, Package, RegisterData,
              RegisterCallback, PreSpawnCheck, Abandon, ReadCount, AssertThreadCount, At, barVars
<1>3. CASE StartProgress
  <2>1. dpc = "progress" /\ dpc' = "spawn" /\ mon_pc = "unborn"
    BY <1>3 DEF StartProgress, At
  <2>2. CASE is_active' = TRUE /\ mon_pc' = "test"
    BY <2>1, <2>2
  <2>3. CASE UNCHANGED <<is_active, mon_pc>>
    BY <2>1, <2>3
  <2> QED
    BY <1>3, <2>2, <2>3 DEF StartProgress, Bar!Start, Bar!barVars
<1>4. CASE SpawnThread \/ StopSpawning \/ JoinThread \/ AllJoined
  BY <1>4 DEF SpawnThread, StopSpawning, JoinThread, AllJoined, At, barVars
<1>5. CASE StopBar
  <2>1. CASE is_active /\ dpc' = "join_bar" /\ is_active' = FALSE /\ mon_pc' = mon_pc
    BY <2>1
  <2>2. CASE ~is_active /\ dpc' = "unregister" /\ UNCHANGED barVars
    BY <1>5, <2>2 DEF StopBar, barVars
  <2> QED
    BY <1>5, <2>1, <2>2 DEF StopBar, Bar!Deactivate
<1>6. CASE JoinBar
  BY <1>6 DEF JoinBar, At, Bar!Joinable, barVars
<1>7. CASE Unregister \/ PostHashCheck \/ SyncAndExit \/ Sync \/ BuildReport
           \/ ShutdownSqlite \/ Unwind \/ Exit
  BY <1>7 DEF Unregister, PostHashCheck, SyncAndExit, Sync, BuildReport, ShutdownSqlite,
              Unwind, Exit, At, barVars
<1>8. CASE (\E w \in Threads : Worker(w)) \/ Watcher \/ SendSignal
  BY <1>8 DEF Worker, Watcher, RunCallback, WatcherSilent, SendSignal, barVars
<1>9. CASE Monitor
  BY <1>9 DEF Monitor, Bar!Test, Bar!Draw
<1> QED
  BY <1>1, <1>2, <1>3, <1>4, <1>5, <1>6, <1>7, <1>8, <1>9 DEF Next, DriverStep, Ended

(* The driver reaches the watcher's variables only through the callback.   *)
LEMMA DriverRegisters ==
  ASSUME DriverStep
  PROVE  UNCHANGED <<pending, received, watch_pc, signo, killed>>
  BY DEF DriverStep, ScanFindsNothing, ScanFindsFiles, OpenCache, Lookup, Package, RegisterData,
         RegisterCallback, PreSpawnCheck, Abandon, ReadCount, AssertThreadCount, StartProgress,
         SpawnThread, StopSpawning, JoinThread, AllJoined, StopBar, JoinBar, Unregister,
         PostHashCheck, SyncAndExit, Sync, BuildReport, ShutdownSqlite, Unwind, Exit,
         S!SetData, S!SetCallback, signalVars

LEMMA WatcherStep ==
  ASSUME WatcherInv, [Next]_vars
  PROVE  WatcherInv'
<1> USE DEF WatcherInv
<1>1. CASE UNCHANGED vars \/ (\E w \in Threads : Worker(w)) \/ Monitor
  BY <1>1 DEF vars, signalVars, Worker, Monitor
<1>2. CASE DriverStep
  BY <1>2, DriverRegisters
<1>3. CASE SendSignal
  BY <1>3, SignalsAssumption DEF SendSignal, S!Raise
<1>4. CASE RunCallback
  BY <1>4 DEF RunCallback, S!CallbackReturns
<1>5. CASE WatcherSilent
  BY <1>5 DEF WatcherSilent, S!SigWait, S!Record, S!ArmHardKill, S!LoadCallback
<1> QED
  BY <1>1, <1>2, <1>3, <1>4, <1>5 DEF Next, Watcher, Ended

LEMMA ShutdownStep ==
  ASSUME ShutdownInv, WatcherInv, QP!QueueTypeOK, [Next]_vars
  PROVE  ShutdownInv'
<1> USE DEF ShutdownInv, SignalStopsThePool, Registered, PoolSteps, Exits
<1>1. CASE UNCHANGED vars
  BY <1>1 DEF vars, queueVars, signalVars, Q!Queued
<1>2. CASE ScanFindsNothing \/ ScanFindsFiles \/ OpenCache
  BY <1>2 DEF ScanFindsNothing, ScanFindsFiles, OpenCache, At, queueVars, signalVars, Q!Queued
<1>3. CASE Lookup
  BY <1>3 DEF Lookup, Q!CacheHit, Q!Enqueue, signalVars, Q!Queued
<1>4. CASE Package
  BY <1>4 DEF Package, At, Q!Package, signalVars, Q!Queued
<1>5. CASE RegisterData \/ RegisterCallback \/ Abandon \/ Unregister
  BY <1>5 DEF RegisterData, RegisterCallback, Abandon, Unregister, At, S!SetData, S!SetCallback,
              queueVars, Q!Queued
<1>6. CASE PreSpawnCheck
  BY <1>6 DEF PreSpawnCheck, S!ak_shutdown_requested, WatcherInv, queueVars, signalVars, Q!Queued
<1>7. CASE ReadCount \/ AssertThreadCount \/ StartProgress
  BY <1>7 DEF ReadCount, AssertThreadCount, StartProgress, At, queueVars, signalVars, Q!Queued
<1>8. CASE SpawnThread \/ StopSpawning \/ JoinThread \/ AllJoined
  BY <1>8 DEF SpawnThread, StopSpawning, JoinThread, AllJoined, At, Q!Spawn, queueVars,
              signalVars, Q!Queued
<1>9. CASE StopBar \/ JoinBar \/ PostHashCheck
  BY <1>9 DEF StopBar, JoinBar, PostHashCheck, At, queueVars, signalVars, Q!Queued
<1>10. CASE SyncAndExit \/ Sync \/ BuildReport \/ ShutdownSqlite \/ Unwind \/ Exit
  BY <1>10 DEF SyncAndExit, Sync, BuildReport, ShutdownSqlite, Unwind, Exit, At, queueVars,
               signalVars, Q!Queued
<1>11. CASE \E w \in Threads : Worker(w)
  BY <1>11 DEF Worker, Q!WorkerStep, Q!Claim, Q!Leave, Q!StartHash, Q!FinishHash, Q!CountDone,
               signalVars, Q!Queued
<1>12. CASE Monitor \/ SendSignal
  BY <1>12 DEF Monitor, SendSignal, S!Raise, queueVars, signalVars, Q!Queued
<1>13. CASE WatcherSilent
  BY <1>13 DEF WatcherSilent, S!SigWait, S!Record, S!ArmHardKill, S!LoadCallback, queueVars,
               Q!Queued
<1>14. CASE RunCallback
  BY <1>14 DEF RunCallback, S!CallbackReturns, Q!Poison, InFrame, queueVars, Q!Queued
<1> QED
  BY <1>1, <1>2, <1>3, <1>4, <1>5, <1>6, <1>7, <1>8, <1>9, <1>10, <1>11, <1>12, <1>13, <1>14
     DEF Next, DriverStep, Watcher, Ended

(* When the pool is over, the queue, the statuses and the hashes stand.    *)
LEMMA AfterThePool ==
  ASSUME ThreadsInv, [Next]_vars, dpc \notin BeforeSpawn \cup {"spawn", "join"}
  PROVE  UNCHANGED <<results, entries, looked, pending_indices, packaged, wpc, threads_made>>
<1> USE DEF BeforeSpawn
<1>1. CASE UNCHANGED vars
  BY <1>1 DEF vars, queueVars, poolVars
<1>2. CASE DriverStep
  BY <1>2
     DEF DriverStep, ScanFindsNothing, ScanFindsFiles, OpenCache, Lookup, Package, RegisterData,
         RegisterCallback, PreSpawnCheck, Abandon, ReadCount, AssertThreadCount, StartProgress,
         SpawnThread, StopSpawning, JoinThread, AllJoined, StopBar, JoinBar, Unregister,
         PostHashCheck, SyncAndExit, Sync, BuildReport, ShutdownSqlite, Unwind, Exit, At,
         queueVars, poolVars
<1>3. ASSUME NEW w \in Threads, Worker(w) PROVE FALSE
  <2>1. wpc[w] \in {"unborn", "exited"}
    BY ThreadCountAssumption DEF ThreadsInv, Threads
  <2> QED
    BY <1>3, <2>1 DEF Worker, Q!WorkerStep, Q!Claim, Q!Leave, Q!StartHash, Q!FinishHash, Q!CountDone
<1>4. CASE Monitor \/ WatcherSilent \/ SendSignal
  BY <1>4 DEF Monitor, WatcherSilent, SendSignal, queueVars, poolVars
<1>5. CASE RunCallback
  BY <1>5 DEF RunCallback, Q!Poison, queueVars, poolVars
<1> QED
  BY <1>1, <1>2, <1>3, <1>4, <1>5 DEF Next, Watcher, Ended

(* The check after the pool lets the driver on only if nothing is left.    *)
LEMMA UninterruptedIsFinished ==
  ASSUME DriverInv, SpawnInv, PoolInv, dpc = "postcheck", received = 0,
         threads_made > 0 \/ Q!Queued = 0, NEW f \in Q!Files
  PROVE  Q!Settled(f)
<1> USE FilesAssumption DEF PoolInv, QP!IInv, Q!Files, QP!Files, Q!Queued, QP!Queued,
                            Q!Settled, QP!Settled, Q!Outcomes, QP!Outcomes
<1>1. packaged /\ pending_count = QP!Queued
  BY DEF DriverInv, WatcherInv, ShutdownInv, Exits
<1>2. CASE threads_made > 0
  <2>1. \A w \in Threads : wpc[w] # "unborn" => wpc[w] = "exited"
    BY ThreadCountAssumption DEF DriverInv, ThreadsInv, Threads
  <2>2. 0 \in Threads /\ wpc[0] = "exited"
    BY <1>2, ThreadCountAssumption DEF DriverInv, ThreadsInv, SpawnInv, Threads
  <2> QED
    BY <1>1, <2>1, <2>2 DEF QP!NoFileForgotten, QP!Created
<1>3. CASE Q!Queued = 0
  <2>1. results[f] # "unset"
    BY <1>1 DEF QP!LookupInv, QP!PackageInv
  <2> QED
    BY <1>3, <2>1 DEF QP!LookupInv
<1> QED
  BY <1>2, <1>3

LEMMA ReportStep ==
  ASSUME DriverInv, SpawnInv, PoolInv, [Next]_vars
  PROVE  ReportInv'
<1>0. ReportInv /\ WatcherInv /\ ThreadsInv
  BY DEF DriverInv
<1> USE DEF ReportInv, Exits, AK_NO_MEDIA_FOUND
<1>1. received # 0 => received' = received
  <2>1. CASE DriverStep \/ UNCHANGED vars \/ (\E w \in Threads : Worker(w)) \/ Monitor
    BY <2>1, DriverRegisters DEF vars, signalVars, Worker, Monitor
  <2>2. CASE Watcher \/ SendSignal
    BY <1>0, <2>2 DEF WatcherInv, Watcher, RunCallback, WatcherSilent, SendSignal, S!Raise,
                      S!SigWait, S!Record, S!ArmHardKill, S!LoadCallback, S!CallbackReturns
  <2> QED
    BY <2>1, <2>2 DEF Next, Ended
<1>2. CASE UNCHANGED <<dpc, report, driver_ret>>
  <2>1. CASE dpc \in {"sync", "report", "shutdown_sqlite"} \/ report = "printed"
    <3>1. UNCHANGED <<results, pending_indices, threads_made>>
      BY <1>0, <2>1, AfterThePool DEF BeforeSpawn
    <3> QED
      BY <1>0, <1>1, <1>2, <3>1 DEF Q!Settled, Q!Queued
  <2>2. CASE ~(dpc \in {"sync", "report", "shutdown_sqlite"} \/ report = "printed")
    BY <1>0, <1>1, <1>2, <2>2
  <2> QED
    BY <2>1, <2>2
<1>3. CASE ScanFindsNothing \/ ScanFindsFiles \/ OpenCache \/ RegisterData \/ RegisterCallback
           \/ ReadCount \/ AssertThreadCount \/ StartProgress
  BY <1>0, <1>3 DEF ScanFindsNothing, ScanFindsFiles, OpenCache, RegisterData, RegisterCallback,
                    ReadCount, AssertThreadCount, StartProgress, At, outVars
<1>4. CASE Package \/ PreSpawnCheck
  BY <1>0, <1>4 DEF Package, PreSpawnCheck, At, S!ak_shutdown_requested, outVars, signalVars
<1>5. CASE Abandon
  BY <1>0, <1>5 DEF Abandon, At, S!ak_shutdown_exit_code, S!SetCallback
<1>6. CASE StopSpawning \/ AllJoined \/ StopBar \/ JoinBar \/ Unregister
  BY <1>0, <1>6 DEF StopSpawning, AllJoined, StopBar, JoinBar, Unregister, At, outVars
<1>7. CASE PostHashCheck
  <2>1. dpc = "postcheck" /\ UNCHANGED <<queueVars, signalVars, poolVars, outVars>>
    BY <1>7 DEF PostHashCheck, At
  <2>2. CASE received # 0 /\ dpc' = "sync_and_exit"
    BY <1>0, <2>1, <2>2 DEF signalVars, outVars
  <2>3. CASE received = 0 /\ dpc' = "sync"
    <3>1. threads_made > 0 \/ Q!Queued = 0 => \A f \in Q!Files : Q!Settled(f)
      BY <2>1, <2>3, UninterruptedIsFinished
    <3> QED
      BY <1>0, <2>1, <2>3, <3>1 DEF queueVars, signalVars, poolVars, outVars, Q!Settled, Q!Queued
  <2> QED
    BY <1>7, <2>2, <2>3 DEF PostHashCheck, At, S!ak_shutdown_requested
<1>8. CASE SyncAndExit
  BY <1>0, <1>8 DEF SyncAndExit, At, S!ak_shutdown_exit_code, signalVars
<1>9. CASE Sync \/ BuildReport \/ ShutdownSqlite
  BY <1>0, <1>9 DEF Sync, BuildReport, ShutdownSqlite, At, queueVars, poolVars, Q!Settled, Q!Queued
<1>10. CASE Unwind \/ Exit
  BY <1>0, <1>10 DEF Unwind, Exit, At, queueVars, signalVars, poolVars, outVars, Q!Settled, Q!Queued
<1> QED
  BY <1>2, <1>3, <1>4, <1>5, <1>6, <1>7, <1>8, <1>9, <1>10
     DEF Next, DriverStep, Watcher, Ended, vars, outVars, Lookup, SpawnThread, JoinThread, Worker,
         Monitor, RunCallback, WatcherSilent, SendSignal

LEMMA SaveStep ==
  ASSUME DriverInv, SpawnInv, PoolInv, [Next]_vars
  PROVE  SaveInv'
<1>0. SaveInv /\ ThreadsInv /\ QP!QueueTypeOK
  BY DEF DriverInv, PoolInv, QP!IInv
<1> USE DEF BeforeSpawn
<1>1. threads_made' = 0 => \A f \in Q!Files : results'[f] \notin Q!Outcomes
  <2> SUFFICES ASSUME threads_made' = 0, NEW f \in Q!Files PROVE results'[f] \notin Q!Outcomes
    OBVIOUS
  <2> USE DEF SaveInv
  <2>1. threads_made = 0
    <3>1. threads_made' \in {threads_made, threads_made + 1} /\ threads_made \in Nat
      BY DEF SpawnInv, Next, DriverStep, Watcher, Ended, vars, poolVars, ScanFindsNothing,
             ScanFindsFiles, OpenCache, Lookup, Package, RegisterData, RegisterCallback,
             PreSpawnCheck, Abandon, ReadCount, AssertThreadCount, StartProgress, SpawnThread,
             StopSpawning, JoinThread, AllJoined, StopBar, JoinBar, Unregister, PostHashCheck,
             SyncAndExit, Sync, BuildReport, ShutdownSqlite, Unwind, Exit, Worker, Monitor,
             RunCallback, WatcherSilent, SendSignal
    <3> QED
      BY <3>1
  <2>2. CASE results' = results
    BY <1>0, <2>1, <2>2
  <2>3. CASE Lookup
    <3>1. results' \in {[results EXCEPT ![looked] = "AK_STATUS_FILE_CACHED"],
                        [results EXCEPT ![looked] = "AK_STATUS_FILE_PENDING"]}
      BY <2>3 DEF Lookup, Q!CacheHit, Q!Enqueue
    <3> QED
      BY <1>0, <2>1, <3>1 DEF QP!QueueTypeOK, QP!Files, Q!Files, Q!Outcomes
  <2>4. ASSUME NEW w \in Threads, Worker(w) PROVE FALSE
    <3>1. wpc[w] = "unborn"
      BY <1>0, <2>1, ThreadCountAssumption DEF ThreadsInv, Threads
    <3> QED
      BY <2>4, <3>1 DEF Worker, Q!WorkerStep, Q!Claim, Q!Leave, Q!StartHash, Q!FinishHash,
                        Q!CountDone
  <2> QED
    BY <2>2, <2>3, <2>4
       DEF Next, DriverStep, Watcher, Ended, vars, queueVars, ScanFindsNothing, ScanFindsFiles,
           OpenCache, Package, Q!Package, RegisterData, RegisterCallback, PreSpawnCheck, Abandon,
           ReadCount, AssertThreadCount, StartProgress, SpawnThread, Q!Spawn, StopSpawning,
           JoinThread, AllJoined, StopBar, JoinBar, Unregister, PostHashCheck, SyncAndExit, Sync,
           BuildReport, ShutdownSqlite, Unwind, Exit, Monitor, RunCallback, Q!Poison,
           WatcherSilent, SendSignal
<1>2. dpc \in {"report", "shutdown_sqlite", "unwind", "returned", "exited"} => Hashed' = Hashed
  BY <1>0, AfterThePool DEF Hashed
<1> USE DEF SaveInv
<1>3. CASE UNCHANGED <<dpc, synced, cache_ctx>>
  BY <1>0, <1>1, <1>2, <1>3
<1>4. CASE ScanFindsNothing \/ ScanFindsFiles
  BY <1>0, <1>1, <1>4 DEF ScanFindsNothing, ScanFindsFiles, At, cacheVars, outVars
<1>5. CASE OpenCache
  BY <1>0, <1>1, <1>5 DEF OpenCache, At, outVars
<1>6. CASE Package \/ RegisterData \/ RegisterCallback \/ PreSpawnCheck
           \/ ReadCount \/ AssertThreadCount \/ StartProgress
  BY <1>0, <1>1, <1>6 DEF Package, RegisterData, RegisterCallback, PreSpawnCheck, ReadCount,
                          AssertThreadCount, StartProgress, At, cacheVars, outVars
<1>7. CASE Abandon
  <2>1. /\ dpc = "abandon" /\ dpc' = "unwind" /\ threads_made = 0
        /\ UNCHANGED <<synced, cache_ctx, results>>
    BY <1>7 DEF Abandon, At, SpawnInv, cacheVars, queueVars
  <2>2. Hashed' = {}
    BY <1>0, <2>1 DEF Hashed, Q!Outcomes
  <2> QED
    BY <1>0, <1>1, <2>1, <2>2
<1>8. CASE StopSpawning \/ AllJoined \/ StopBar \/ JoinBar \/ Unregister \/ PostHashCheck
  BY <1>0, <1>1, <1>8 DEF StopSpawning, AllJoined, StopBar, JoinBar, Unregister, PostHashCheck, At,
                          cacheVars, outVars
<1>9. CASE SyncAndExit \/ Sync
  BY <1>0, <1>1, <1>9 DEF SyncAndExit, Sync, SyncResults, At, Hashed, queueVars, cacheVars
<1>10. CASE BuildReport \/ ShutdownSqlite \/ Unwind \/ Exit
  BY <1>0, <1>1, <1>2, <1>10 DEF BuildReport, ShutdownSqlite, Unwind, Exit, At, cacheVars, outVars
<1> QED
  BY <1>3, <1>4, <1>5, <1>6, <1>7, <1>8, <1>9, <1>10
     DEF Next, DriverStep, Watcher, Ended, vars, outVars, cacheVars, Lookup, SpawnThread,
         JoinThread, Worker, Monitor, RunCallback, WatcherSilent, SendSignal

(* The last assumption is StatusSettlesOnce of this step.                  *)
LEMMA BarStep ==
  ASSUME DriverInv, PoolInv, [Next]_vars,
         [\A f \in QP!Files : QP!Settled(f) =>
            results'[f] = results[f] /\ entries'[f] = entries[f]]_(QP!queueVars)
  PROVE  BarInv'
<1>0. BarInv /\ MonitorInv /\ ShutdownInv /\ QP!PackageInv
  BY DEF DriverInv, PoolInv, QP!IInv
<1> USE DEF BarInv, BarIsHonest
<1>1. \A f \in Q!Files : Q!Settled(f) => Q!Settled(f)'
  BY DEF QP!queueVars, Q!Files, QP!Files, Q!Settled, QP!Settled, Q!Outcomes, QP!Outcomes
<1>2. packaged => packaged' /\ Q!Queued' = Q!Queued
  <2>1. Lookup => ~packaged
    BY <1>0 DEF Lookup, ShutdownInv
  <2>2. ASSUME NEW w \in Threads, Worker(w) PROVE UNCHANGED <<packaged, pending_indices>>
    BY <2>2 DEF Worker, Q!WorkerStep, Q!Claim, Q!Leave, Q!StartHash, Q!FinishHash, Q!CountDone
  <2> QED
    BY <2>1, <2>2
       DEF Next, DriverStep, Watcher, Ended, vars, queueVars, Q!Queued, ScanFindsNothing,
           ScanFindsFiles, OpenCache, Package, Q!Package, RegisterData, RegisterCallback,
           PreSpawnCheck, Abandon, ReadCount, AssertThreadCount, StartProgress, SpawnThread,
           Q!Spawn, StopSpawning, JoinThread, AllJoined, StopBar, JoinBar, Unregister,
           PostHashCheck, SyncAndExit, Sync, BuildReport, ShutdownSqlite, Unwind, Exit, Monitor,
           RunCallback, Q!Poison, WatcherSilent, SendSignal
<1>3. CASE UNCHANGED <<total_count, mon_pc, shown>>
  BY <1>0, <1>1, <1>2, <1>3
<1>4. CASE StartProgress
  <2>1. dpc = "progress" /\ packaged /\ shown = -1 /\ pending_count \in {0, Q!Queued}
    BY <1>0, <1>4 DEF StartProgress, At, MonitorInv, ShutdownInv, BeforeSpawn, Exits,
                      QP!PackageInv, Q!Queued, QP!Queued
  <2>2. CASE pending_count # 0 /\ total_count' = pending_count /\ mon_pc' = "test" /\ shown' = shown
    <3>1. Q!Queued \in Nat
      BY DEF PoolInv, QP!IInv, QP!QueueTypeOK, Q!Queued
    <3> QED
      BY <1>2, <2>1, <2>2, <3>1
  <2> QED
    BY <1>3, <1>4, <2>2 DEF StartProgress, Bar!Start, Bar!barVars
<1>5. CASE Monitor
  <2>1. CASE Bar!Test
    BY <1>0, <1>1, <1>2, <2>1 DEF Bar!Test
  <2>2. CASE Bar!Draw(completed_count)
    <3>1. /\ mon_pc = "draw" /\ mon_pc' # "unborn"
          /\ shown' = completed_count /\ total_count' = total_count
      BY <2>2 DEF Bar!Draw
    <3>2. /\ completed_count <= QP!Queued
          /\ completed_count = QP!Queued => \A f \in QP!Files : QP!Settled(f)
      BY <1>0, <3>1, QP!FullCountMeansSettled, FilesAssumption, ThreadsAreFinite DEF PoolInv
    <3> QED
      BY <1>0, <1>1, <1>2, <3>1, <3>2 DEF Q!Queued, QP!Queued, Q!Files, QP!Files, Q!Settled,
                                        QP!Settled, Q!Outcomes, QP!Outcomes
  <2> QED
    BY <1>5, <2>1, <2>2 DEF Monitor
<1>6. CASE StopBar
  BY <1>3, <1>6 DEF StopBar, Bar!Deactivate, barVars
<1> QED
  BY <1>3, <1>4, <1>5, <1>6
     DEF Next, DriverStep, Watcher, Ended, vars, barVars, ScanFindsNothing, ScanFindsFiles,
         OpenCache, Lookup, Package, RegisterData, RegisterCallback, PreSpawnCheck, Abandon,
         ReadCount, AssertThreadCount, SpawnThread, StopSpawning, JoinThread, AllJoined, JoinBar,
         Unregister, PostHashCheck, SyncAndExit, Sync, BuildReport, ShutdownSqlite, Unwind, Exit,
         Worker, RunCallback, WatcherSilent, SendSignal

-----------------------------------------------------------------------------
(***************************************************************************)
(* The theorems                                                            *)
(***************************************************************************)

(* The parts of the invariant hold each other up, over the pool's own.     *)
THEOREM DriverInvariant == Spec => []DriverInv
<1>1. Init => DriverInv
  BY DriverInvInit
<1> DEFINE Settling == [\A f \in QP!Files : QP!Settled(f) =>
                          results'[f] = results[f] /\ entries'[f] = entries[f]]_(QP!queueVars)
<1>2. DriverInv /\ SpawnInv /\ PoolInv /\ [Next]_vars /\ Settling => DriverInv'
  BY ThreadsStep, MonitorStep, WatcherStep, ShutdownStep, ReportStep, SaveStep, BarStep
     DEF DriverInv, PoolInv, QP!IInv
<1> QED
  BY <1>1, <1>2, SpawnInvInit, SpawnInvStep, PoolKeepsItsPromises, PTL
     DEF Spec, QP!StatusSettlesOnce

(* For any number of threads, created or not, workers run only between the *)
(* first create and the last join, and the monitor until it is joined.     *)
THEOREM ThreadsAreAlwaysJoined == Spec => []ThreadsAreJoined
<1>1. DriverInv /\ PoolInv => ThreadsAreJoined
  BY ThreadCountAssumption DEF DriverInv, ThreadsInv, MonitorInv, ThreadsAreJoined, Live, Threads
<1> QED
  BY <1>1, DriverInvariant, PoolKeepsItsPromises, PTL

(* A signal that the watcher has dealt with leaves the workers nothing.    *)
THEOREM SignalsStopThePool == Spec => []SignalStopsThePool
<1>1. DriverInv => SignalStopsThePool
  BY DEF DriverInv, ShutdownInv
<1> QED
  BY <1>1, DriverInvariant, PTL

(* No report is printed over files that are still PENDING, unless no       *)
(* thread could be created.                                                *)
THEOREM ReportsAreOfFinishedWork == Spec => []ReportIsOfFinishedWork
<1>1. DriverInv => ReportIsOfFinishedWork
  BY DEF DriverInv, ReportInv, ReportIsOfFinishedWork
<1> QED
  BY <1>1, DriverInvariant, PTL

(* All that was hashed is saved, however the run ends.                     *)
THEOREM FinishedWorkIsAlwaysSaved == Spec => []FinishedWorkIsSaved
<1>1. DriverInv /\ PoolInv => FinishedWorkIsSaved
  BY DEF DriverInv, SaveInv, Hashed, FinishedWorkIsSaved, PoolInv, QP!IInv, QP!HashedIsWhole,
         Q!Files, QP!Files
<1> QED
  BY <1>1, DriverInvariant, PoolKeepsItsPromises, PTL

(* The exit status tells a complete run from an interrupted one.           *)
THEOREM ExitStatusIsAlwaysTruthful == Spec => []ExitStatusIsTruthful
<1>1. DriverInv => ExitStatusIsTruthful
  BY DEF DriverInv, ReportInv, Exits, ExitStatusIsTruthful
<1> QED
  BY <1>1, DriverInvariant, PTL

(* The bar never shows more than there is, nor the end before it is there. *)
THEOREM BarIsAlwaysHonest == Spec => []BarIsHonest
<1>1. DriverInv => BarIsHonest
  BY DEF DriverInv, BarInv
<1> QED
  BY <1>1, DriverInvariant, PTL

=============================================================================
