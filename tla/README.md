# anukrta: a TLA+ verification project

anukrta finds duplicate videos. It scans directories for video files, hashes a
few frames of each file with a perceptual hash (a pool of threads does the work),
caches the hashes in SQLite, and groups the files whose hashes are near each
other by Hamming distance. It is a C program of some 5500 lines in `src/src/`;
libav, SQLite and yyjson do the decoding, the storage and the JSON.

This directory models the program's own logic: the command line, the thread pool and its shutdown,
the signal watcher, the progress bar, the driver that runs them, the scan of the
input paths, the hashing of a video, the hash cache, the BK tree, the union-find and the report.
`tlc` checks the models on small instances. `tlapm` proves, for all values of their constants, every safety
property that the runs check: of the pool, the driver, the cache, the command line, the exploration, the hashing, the
BK tree, the union-find and the report, and that the pool, the tree and the union-find implement what
they promise. Liveness is model-checked only.

## 1. The system

### Components

| Component | Source | State | Operations |
|---|---|---|---|
| driver | `main.c` `anukrta_driver`, `execute_hash_worker_threads`, `main` | locals of two stack frames: `files`, `file_statuses`, `hash_entries`, `pending_queue`, `threads`, the thread arguments | scan, open the cache, look up, register the shutdown callback, run the pool, save, report, unwind |
| worker pool | `main.c` `hash_worker_thread`, `poison_hash_queue` | `pending_queue` (read-only), three atomics: `current_idx`, `pending_count`, `completed_count`; the arrays the workers fill | claim a slot, hash a file, store its status, count it; poison |
| signal watcher | `signals.c` | `signo`, `on_shutdown`, `on_shutdown_data` (atomics), the blocked mask, the kernel's pending signals | sigwait, record, unblock, call the callback |
| progress bar | `ui.c` | `is_active`, the monitor thread | start, redraw until stopped or at 100 %, stop and join |
| hash cache | `cache.c` | an SQLite database with the tables `files` and `hashes`; prepared statements; a transaction | open, lookup, save in one transaction, close |
| video hashing | `video.c` | the libav reader (demuxer position, decoder), the working frame, the cached grey frame, the pixel matrix, the segment cursor, the file's slice of entries | open, seek, decode, rotate, convert to grey, crop, scale, hash, mark failed |
| exploration | `explore.c` | the list of files, the list of directories | prune the input paths, walk the directories |
| BK tree | `tree.c` | nodes: hash, file ids, children by distance | insert, search |
| report | `report.c` | union-find (`parent`, `rank`), pairs, groups, unique, skipped | build, elect the best file, print text or JSON |
| command line | `cli.c`, `config.h` | `ak_config` | parse and check options |
| perceptual hash | `hash.c` | none; the sums and the median are locals | DCT, median, bits |
| terminal, logging, utilities | `term.c`, `log.c`, `util.[ch]`, `kvec.h`, `mem.h` | terminal size, log level and lock | |

### How they interact

`main` parses the command line, installs the signal watcher, with the signals blocked in every thread, and
calls `anukrta_driver`. The driver scans, opens the cache and asks it for each
file: a hit fills the file's slice of `hash_entries`, a miss puts the file into
`pending_queue`. Then the driver lends the arrays of its frame to the workers
(by pointer), registers `poison_hash_queue` with the watcher, and runs the pool.
The workers share nothing but the three atomics; they write the arrays at indices
nobody else has. A worker hashes a file with `ak_video_hash`, which fills the file's slice with one
entry per segment; libav asks an interrupt callback during its calls, so that a shutdown cuts a
file short. A signal makes the watcher record the signal number and call
the callback, which sets `pending_count` to 0, so that every further claim is out of range.
After the join, the driver saves what was hashed and either leaves with
128 + signal or builds the BK tree and the report. When it returns,
destructors (`AK_AUTO`) close the cache and free the arrays; watcher and callback may
still be running then.

### What is hard

* Interleavings of the driver, the workers, the watcher and the monitor over relaxed
  and sequentially consistent atomics, on arrays that no lock protects.
* A signal at any point: before the callback is registered, between the check and the
  pool, during the join, after the callback is gone.
* Threads that cannot be created (some or all of them), and frames that must outlive
  the threads that point into them.
* A database that outlives the process: saves cut off between two statements, other numbers of segments,
  files that change between and during runs, with or without a trace in their metadata.
* Videos whose keyframes, durations, time bases and missing frames defeat the arithmetic of the seek targets;
  a decoder that hands frames out late; a dozen calls per segment that may fail and leave their
  buffers to the next segment.
* Pruned searches and path halving: algorithms whose answers must not depend on the
  shape the data happens to have.

The hazards are listed one by one, with their lines, in `PROJECT.json`.

### What makes each component correct

* pool: a file is hashed by at most one worker; a status stands only over a complete slice;
  an unpoisoned pool forgets no file; the counter never shows work that is not done.
* watcher and driver: a signal stops the pool or is seen by a check; no frame dies
  under a live worker or monitor; an interrupted run never reports; finished work is
  saved; the exit status tells the truth.
* BK tree: a search finds exactly what an exhaustive search would.
* report: groups are the connected components of the similarity, each file is in the
  report once.
* cache: a hit is the whole of one save of this very file, of no content older than its metadata, and what was saved
  is found again.
* exploration: no video below an input is lost, none is listed twice by one walk.
* video hashing: a success stands for a full slice with at least one real hash; which frames are hashed
  depends on the video and the options alone; no frame is hashed twice; a hash, its timestamp and its
  rotation belong together; cropping keeps what is not black; an interrupted file is never a success.
* command line: what is accepted is a configuration that the rest of the program asserts, and the
  last use of an option decides.

## 2. The modules

Each base module keeps the state of one component in VARIABLES and has one action per
operation or per step between two points where another thread can come in.
`PROJECT.json` maps every definition to its lines.

| Module | Models | State and actions |
|---|---|---|
| `HashJobs` | what the pool promises: a list of jobs | each job is unknown, cached, queued, running or finished; `Stop` ends the handing out |
| `HashQueue` | the cache lookup that fills the queue, and the workers, `main.c` 106-150 and 303-386 | `CacheHit` and `Enqueue` are the two branches of the lookup loop, `Package` fills `thread_ctx`; per worker `Spawn`, `Claim` (the fetch-and-add), `Leave` and `StartHash` (the two outcomes of the check against `pending_count`), `FinishHash` (the status store), `CountDone` (the increment); `Poison` is `poison_hash_queue` |
| `SignalWatch` | `signals.c` with the kernel's pending set | `SigWait`, `Record`, `ArmHardKill`, `LoadCallback`, `CallbackReturns`; `Raise` is the environment |
| `ProgressBar` | `ui.c` 60-212 | start, the test and the drawing of the monitor, deactivate, join |
| `Driver` | `anukrta_driver`, `execute_hash_worker_threads`, `main` | composes the three above with INSTANCE over shared variables; `dpc` walks through the two functions with every early return and every failed `pthread_create` |
| `HashIndex` | what a search promises: every file within the tolerance | `Add`, `Ask`, `Answer` |
| `BkTree` | `tree.c` | a node is named by its edge distances from the root; insertion descends a node per step, a search visits a node per step, in any order of the stack |
| `Partition` | what union-find promises | `Unite` merges two sets |
| `UnionFind` | `find_set`, `unite_sets` of `report.c` | one iteration of the while loop per step, the two walks of a union separate |
| `Report` | the end of the driver and `ak_report_build` | composes `BkTree` and `UnionFind` (INSTANCE over their variables); `rpc` walks through the loops: insert, search, unite, collect pairs, group, elect the best file |
| `HashCache` | `cache.c`, `search_cache_for_file` | several runs over one database: metadata lookup and hash lookup as two statements; the hashing of a file, a segment per step (`HashSegment`, `SegmentFails`); the deferred transaction of the save, a statement per step (`UpsertFile`, `InsertHash` and their refusals, `Commit`); `Kill` at any step, and `Change` of a file with or without a change of its metadata |
| `Explore` | `explore.c` | resolve each input, sort, compare with the last kept path, walk with a stack of directories, one entry of `readdir` per step |
| `Cli` | `cli.c`, the defaults of `config.c` | `Parse` is a call of `getopt_long` and what the loop does with its option; clusters, attached and separate values, the end mark, and the settling of the threads at the end |
| `FrameHash` | the borders of a picture in `video.c`, median and bits in `hash.c` | operators; a picture is its luma plane and comes with its coefficients |
| `VideoHash` | `ak_video_hash`, `vreader_*` and the frame functions of `video.c` | `step` walks through the reader and the segment loop, an action per call of libav that can fail; the frame in work and the cached grey frame (`grey_frame`) keep what an earlier segment left in them, and a frame knows whether its plane 0 is luma; `RequestShutdown` is the environment |
| `HashCommand` | from `main`'s arguments to the hashes of one file | composes `Cli` and `VideoHash`: the parsed configuration is what the hashing reads |
| `MC*` | - | values of constants, symmetry, a normal form of the initial states (`MCReport`), and which arguments meet which videos (`MCHashCommand`) |
| `HashQueueProofs`, `DriverProofs`, `BkTreeProofs`, `UnionFindProofs`, `ReportProofs`, `HashCommandProofs`, `HashCacheProofs`, `ExploreProofs` | - | theorems |

Data is abstract where no property looks at it. A slice of `hash_entries` is
"empty", "partial" or "full"; a hash is the set of its one bits; a file's content is the number of times
it changed, its metadata the number of the last change that shows in them; a path is the sequence of its characters, of which the models use as many
as the order of bytes needs. A frame of a video is its number in the order of presentation, a picture a few
luma values on both sides of the threshold of black, an option's value a string of which `Numbers` says what
`strtoull` makes of it. Memory exhaustion is left out everywhere
(`xmalloc` ends the process; libav's ENOMEM is an error code and is modelled), and so is what is printed, except for the report's groups.

Memory order: the claims, the poison and the counter are relaxed or sequentially
consistent atomics; each is one indivisible step of the models. Reordering of a worker's plain writes with its
relaxed increment is invisible to the driver, which reads the arrays after
`pthread_join`; the watcher's accesses are kept apart by system calls (comment in
`SignalWatch`).

## 3. The runs

| Run | Instance | What it shows |
|---|---|---|
| `queue` | 3 files, 3 workers | the claim keeps workers apart, statuses stand over whole slices and settle once, the counter is exact, an unpoisoned pool forgets nothing, workers leave, the queue implements `HashJobs` with its liveness |
| `driver` | 2 files, 2 threads, SIGINT at any moment and any number of times, release build | joins come before frames die, a recorded signal stops the pool, reports are of finished work, finished work is saved, the exit status and the bar tell the truth, every run ends, the driver drives the pool as `HashQueue` allows |
| `hash_command` | 20 arguments, vectors of up to 3; 11 streams, all pictures of 2x3 and 1x4 pixels in two shades, turned, all arrays of 5 coefficients from 0 to 2; 2 failing calls | an accepted configuration is sound and the last option wins; a success has hashed something, timestamps climb, the frames depend on the video alone, hash and timestamp belong together, cropping keeps the picture, bits stand above the median, an interrupted file is no success, the command ends |
| `explore` | 6 nodes, up to 3 inputs out of 4, any disappearance | no video lost, the scan ends |
| `cache` | 3 runs, up to 2 at the same time, 1 file, 2 or 3 segments, 1 change | a hit is current, of one save and whole, wherever runs are killed and saves interleave; misses have a reason |
| `bk_tree` | 3 bits, 2 files, 4 entries | pruning loses nothing, the tree implements `HashIndex` |
| `union_find` | 5 items | ranks climb, the forest implements `Partition` |
| `report` | 3 files of 2 segments, 2 bits, threshold 1 | groups are the connected components, every file is reported once, the best one comes first, the report ends |
| `assert_fires`, `cache_segments`, `explore_twice`, `no_video_stream` | as above | counterexamples, section 6 |

Every property of a passing run has a mutant in `PROJECT.json`: a plausible bug in
one definition of the model that makes TLC find the property violated. What a property of a run
rests on is not checked a second time: `ClaimsBounded`, `EdgesAlwaysTellDistance` and `StackStaysAntichain` are
theorems of section 5 and no properties of a run.

### Why the bounds are enough

* Queue: three workers are one more than a race needs (two in the same step and one behind),
  and three files make queues of every length from 0 to 3 against fewer, as many and more
  workers. The rest is proved (section 5).
* Driver: its steps do not look at which file or which worker; two of each tell "some" from "all"
  in the create and join loops. SIGINT may come again while it is pending or after it was taken. SIGTERM is handled
alike (only the status differs), and the safety properties are proved for both (section 5).
* Cache: row ids, timestamps and segments of one file never mix with those of another
  (every statement has the file id or the path); two runs at a time are a saver or a run that is killed in its
  save against another saver or a reader between two statements, and the third start reads what both have left. One
  change suffices for a file that changes between the scan and the hashing or between two segments, with the old metadata or with new ones.
  The properties are proved for any numbers of files, of runs at a time and of changes (section 5).
* BK tree: three bits give distances 0 to 3, so that a node can have siblings on
  both sides of the pruned range; four entries make trees of depth three.
* Union-find: five items reach rank 2 and paths of length two, which halving needs.
* Report: three files are the fewest with similarity that is not transitive. Flipping the same bits in every
  hash changes no distance, so the first hash is taken to be zero (`MCReport`).
* Hash command: three arguments hold an option, its value and one more that repeats, ends or contradicts it. The
  arguments and the videos are not multiplied out: every vector meets a file that is skipped at once, four vectors
  (defaults, two segments, one segment, cropping off) meet every stream, and pictures and coefficients are varied
  with one segment. The streams have late starts, missing frames, fewer frames than segments, no frames, coarse
  time bases, a duration in the container only, black frames, rotations by right and other angles, keyframes before and between the
  targets, and decoders that hold back 0 to 2 frames. One stream's
  pixels are no 8-bit luma, and its first two segments have frames, so that the second meets the cached grey frame of the first. A first failing call lets a later segment meet what it left, and the second
  one makes every segment of a short file fail. Columns are aligned to 2, where libav aligns to 16 or more: both sides of an alignment occur.
* Explore: the tree has a directory, an overlapping sibling in byte order, a nested
  directory with a video's name, closed directories and all kinds of entries; three inputs are what the
  deduplication needs to compare with a path that is not the nearest one.

`CHECK_DEADLOCK FALSE` is used for `cache` and `cache_segments` only, where the bound on starts and
changes ends the behaviours; `Driver`, `Explore`, `Report` and `HashCommand` have an explicit
stuttering step once they have ended.

## 4. Fairness

* Workers (`HashQueue`), and driver, workers, monitor and watcher (`Driver`): weak
  fairness of each thread in a live process. The scheduler runs every ready thread, and
  no step waits for a lock: joins wait for the exit of threads that are fair
  themselves, `sigwait` for a signal. It rests on `ak_video_hash` and SQLite
  returning, which the code takes for granted.
* `HashCommand`: weak fairness of the one thread of the command, since every call of libav returns, be it with an error.
* Nobody has to send a signal, request the shutdown, kill a run, change or remove a file: those actions have no fairness.
* `Report` and `Explore`: weak fairness of the one thread that runs them. The directory tree of `Explore` is finite and without
  cycles, as links are not followed on file systems that tell the type of an entry.

## 5. What is proved

`tlapm` checks these for all values of the constants. The assumptions are named in the modules, TLC evaluates them on
every run, and each says what the surroundings of the code are like:

* `FileCount` and `ItemCount` are positive, there are 1 to 255 threads, 1 to 20 segments, any set of workers unless said
  otherwise, hashes of any finite number of bits (`BitsAssumption`).
* Arguments are any sequences, the value of a numeric option any integer; the marker of an absent value is no numeral
  (`NoValueAssumption`).
* A video has frames with increasing times, each frame a non-empty picture of bytes and more than one coefficient
  (`VideosAssumption`); libav may fail in any call.
* Paths are any sequences of characters; `realpath` returns absolute paths without a doubled or trailing slash, and the parent of
  a path is one (`PathsAssumption`). Whatever exists, but the root, is in a directory (`FileSystemsAssumption`).
* `qsort` is any permutation that puts its elements in order.

* `HashQueueProofs`. The inductive invariant `IInv` joins the type invariant to six facts that
  the properties need and do not imply: `LookupInv` (the slots of the queue are distinct looked-up files),
  `PackageInv` (before `Package` no worker exists), `ClaimInv` (claimed indices are distinct and below
  `current_idx`: the fetch-and-add), `PendingInv` (what is not handed out is PENDING), `ProgressInv`
  (in an unpoisoned queue what is handed out is settled or in a worker's hands, and a worker leaves only
  from behind the end) and `HashedIsWhole`. One lemma per part proves that each step preserves it.
  From it follow `OneWorkerPerFile`, `HashedIsWhole`, `NoFileForgotten`, `StatusSettlesOnce` and, with
  induction on cardinalities of finite sets of workers, `ClaimsBounded` and `CountIsExact`.
  `QueueImplementsHashJobs` maps every step of the queue to a step of `HashJobs` or a stutter: a claim
  is invisible, and the successful check is the start of a job nobody has.
* `DriverProofs`. `DriverImplementsHashQueue`: each step of the whole program is a step of
  `HashQueue` or leaves its variables alone. Its invariant `SpawnInv` bounds the create loop, so that each
  thread is created once. So the queue's theorems hold of the program: `PoolKeepsItsPromises` takes the inductive
  invariant of `HashQueueProofs` over by INSTANCE, and the rest of the proof uses it instead of proving again
  what the workers do. `DriverInv` adds what the driver's own properties need: `ThreadsInv` (threads are made and joined in
  order, and nothing goes on before the last join), `MonitorInv` (`is_active` is true exactly while the monitor may have to be
  joined), `WatcherInv` (`received` is the signal that `sigwait` returned, and is set before the callback
  runs), `ShutdownInv` (between `precheck` and `Unregister` the callback is there, so that an unpoisoned queue means a
  watcher that is not through), `ReportInv`, `SaveInv` and `BarInv` (what was printed, saved and shown, by
  the place of the driver). The interesting step is the check after the join (`UninterruptedIsFinished`): if no signal is recorded the
  watcher has not poisoned the queue, and by the pool's `NoFileForgotten` every file is settled. From `DriverInv` follow
  `ThreadsAreJoined`, `SignalStopsThePool`, `ReportIsOfFinishedWork`, `FinishedWorkIsSaved`,
  `ExitStatusIsTruthful` and `BarIsHonest`.
* `BkTreeProofs`. `EdgesAlwaysTellDistance`, `NothingIsEverPruned`, `StackStaysAntichain` and, from them,
  `TreeImplementsHashIndex`: whatever was inserted, a search answers with exactly the files within its tolerance.
  The inductive invariant `TreeInv` adds to the two properties that whatever is above a node is a node (`PrefixClosed`),
  and that an insertion in its descent has followed the edges of its distances (`CursorInv`), which is
  what makes the node it grafts obey the law of the tree. The pruning rests on the triangle inequality of the Hamming
  distance (`TriangleInequality`, from the cardinality theorems for finite sets): a match below a node lies under an edge within the
  tolerance of the node's own distance, so the child on the way to it is pushed (`MatchIsPushed`). `FoundInv` is
  the converse, that nothing outside the tolerance is listed.
* `UnionFindProofs`. `RanksAlwaysClimb`: no sequence of unions and half-finished walks makes a cycle.
  The invariant `ForestInv` adds that the first root of a union is still a root when it is linked
  (`FirstRootStaysRoot`), although the second walk rewrites links in between. `UnionFindImplementsPartition`: halving a
  path and abandoning or finishing a walk are stutters of `Partition`, and linking two roots is its `Unite`. For that the root of an
  item has to be moved along: it is the end of the way up, a function on numbers (`WayUpExists`), which stops at a root because the
  ranks climb on it and are bounded (`TopIsRoot`), is the only root that links lead to (`TopIsUnique`), stays when an item is
  hung below its grandparent (`TopAfterHalving`), and changes for one set when its root is linked (`TopAfterLinking`).
* `ReportProofs`. The tree and the forest are instances over the report's variables, so their theorems are taken over by INSTANCE:
  each step of the report is a step of `BkTree` and a step of `UnionFind`, or leaves them alone (`TreeTakesItsSteps`,
  `ForestTakesItsSteps`). `ReportInvariant` proves `ReportInv`: the loops are where they should be (`ControlOK`), the invariants of
  the parts hold (`PartsOK`), the tree knows exactly the entries inserted so far (`TreeHolds`, `TreeIsThere`), what the loop over a
  search's matches still has to unite is near the file and the rest is in its set (`MatchesOK`), a walk stays in the set it began in
  (`WalkOK`), near files of finished searches are in one set (`NothingApart`), and no set can be cut in two
  without similar files on both sides (`SetsOK`). The last two say that sets are connected components without any mention of
  paths. `SkippedOK`, `PairsOK`, `GroupsOK` and `ElectOK` follow the sets into the output: a group is what shares a root,
  and the elected file has been compared with all before the cursor. From it follow `GroupsAreAlwaysConnected`,
  `FilesAreReportedOnce` and `BestAlwaysComesFirst`.
* `HashCommandProofs`, the command line. `AcceptedConfigsAreSound`: between two options every field of the configuration is within
  its range (`CliInv`), for any arguments; the number of threads is settled at the end and lies between 1 and 255 on any machine.
  `LastOptionAlwaysWins`: at every point of the parsing each field is what the last use of its options in the sequence applied so far
  asks for, and the verbosity the last level plus the uses after it (`LastInv`). Its step is about appending to a sequence:
  the last position of an option is the new one, or where it was (`LastAfterAppend`, `LevelAfterAppend`).
* `HashCommandProofs`, one frame. `CroppedKeepsPicture`: whatever the picture, no column or row that is lit is cut away, and nothing black is
  left but what the alignment of the buffer costs. The loop over the rows keeps the sides of what is lit so far
  (`SidesAreSides`), a row in between looks only outside of them (`NarrowedIsSides`); `TurnedIsPicture` shows that turning makes
  a picture of a picture. `QuickselectSelects`: a round of the do loop keeps what is left of i at most, and what is right of j
  at least, the pivot (`Splits`, `RoundSplits`); the scans stop within the part, since the pivot or a swapped value
  ends them (`UpStops`, `DownStops`), so no round leaves the array; i and j pass each other within as many rounds as there are values, and
  a pass leaves a shorter part, fenced off from what is left and right of it (`Fenced`, `Selects`). `BitsByCounting` turns the order into
  cardinalities: what exceeds the median exceeds more than half of the values, anything else at most half.
* `HashCommandProofs`, the hashing. `VideoInv` has six parts. `Control` says where the loop is at each step and what the result may be. `Data`
  says that the slice is filled exactly up to the segment the loop is at, each entry failed or of a frame at or
  before the last one taken (`Slice`), and that the frame in work is that last one, later than every stored one, turned once
  it is past the rotation, what cropping has kept of it, that the cached grey frame is of it when it is cloned, and what the matrix holds
  when it is hashed (`WorkingFrame`); that is what
  survives a segment that fails half-way. `LumaInv` says that borders are looked for in luma only, unless a conversion
  brought nothing. `Errors` says that an interruption or an exhausted memory has ended the file.
  `ReaderOK` says that the frames the decoder holds are those in front of the demuxer, and that the frame a segment wants is among
  them or ahead, wherever a seek has landed. `SegmentsOK` says that, without a failing call, the finished segments have the
  frames that `FramesOf` gives them: a function of the video and the options, by recursion over the segments.
  From them follow `OkAlwaysMeansHashed`, `TimestampsAlwaysClimb`, `HashesAreOfTheirFrames`, `CropsAlwaysKeepThePicture`,
  `SegmentsAreAlwaysReproducible`, `BitsAreAlwaysAboveMedian` and `InterruptsAreNeverOk`, for every video, wherever seeks land,
  and but for the reproducible segments for any number of failing calls.
* `HashCommandProofs`, the command. `CommandImplementsVideoHash`: the command calls the hashing with a configuration that `VideoHash` allows
  (by `CliInv`) and otherwise leaves it alone, so `CommandConfigIsSound`, `CommandObeysLastOption` and `CommandHashesAreSound` hold of the
  composition.
* `ExploreProofs`. `ScanLosesNothing`: every video below an input that is there when the scan ends, and that nothing on the way hid, is
  listed. `ExploreInv` says that each wanted video is covered (`Covered`): it is listed, or below a path still to be walked, a
  directory on the stack, or an entry not yet read. The deduplication keeps that because a path it drops lies
  below the kept one it is compared with (`CoveredPathIsBelow`), and reading a directory because one of its entries leads on to the video
  (`NextOnTheWay`). A string on the stack leads to its node for any number of joins (`LeadsToItsNode`, `JoinLeadsTo`), also
  below the root directory, where a slash is doubled. Removals only shrink what is wanted (`WantedEarlier`).
* `HashCacheProofs`. A hit is read by two statements, between which any run may commit. The invariant `CacheInv` says that in each
  table an id names one row (`TablesOK`), that a row which a transaction has changed has an id above all
  committed ones (`DatabaseInv`), that the id a lookup holds names the row that it read or none, and is not above
  the largest one (`LookupOK`), and that what a run has of a file is its own hashing's, of the segments so far, or one save's (`FileOK`). A commit then only brings ids
  that no lookup can hold. While a run
  inserts, the row it has made is its own and holds what has been inserted so far (`InsertOK`), up to one hash for each
  timestamp; all other rows, and so all that is ever committed, are whole saves (`RowIsWhole`). From it follow `HitIsCurrent`, `HitIsOfOneSave`, `HitIsWhole` (by counting: without a failed
  segment a save has a hash for each segment) and `MissesAreJustified`, for any number of files, and of runs at the same time.

Where a definition is a recursive function (the margins of a picture, the rounds of quickselect, the frames of the segments,
the way to a root), two lemmas carry the proof: that the function exists (`IteratesExists`, by the partial functions that satisfy its
equation) and that what holds at the beginning of an interval and passes from each number to the next holds on all of it
(`IntervalInduction`). Both rest on `LeastNat`, a least counterexample in a set of numbers, since the library's induction rules take an
operator and none of the installed provers instantiates those.

Only model-checked: liveness, that is `WorkersLeave`, `ImplementsFairHashJobs`, `ProcessEnds`, `ReportEnds`, `ScanEnds` and
`CommandEnds`; the provers do neither fairness nor ENABLED. Every safety property of a run that passes has a theorem.

## 6. Where the code and what it says disagree

Shown by a run each:

* `assert_fires`: a signal between main.c:402 and main.c:173 leaves the pool with no thread, and the assertion
  at main.c:183 aborts a debug build. (A release build creates no thread, and the check after the pool ends the run properly.)
* `cache_segments`: two failed segments of three share a primary key, so that the file counts as one hashed with two segments,
  while its own run never finds it.
* `explore_twice`: of the inputs `/a`, `/a-` and `/a/v` all are kept, and the videos below the last one are listed twice.
* `no_video_stream`: without a video stream `vreader_init` (video.c:316) returns the successful status of the call
  before, against video.c:261, and the hashing reads `streams[-1]`.

Seen while modelling, without a run of their own:

* signals.c:57-59 loads the callback and calls it later; the driver's clearing it (main.c:399, 410) waits for no call under way,
  so the callback can write to the driver's frame after it is gone.
* report.c:502 returns before the skipped files are collected, so that report.c:408 announces "No duplicates, unique files or
  skipped files were found!" when every file was skipped.
* main.c:477 calls `sqlite3_shutdown` before the connection is closed by its destructor; sqlite3.h:1638 wants connections closed first.
* explore.c:304 says that only regular files get there; a directory falls through, and one named like a video is listed as one.
* explore.c:445 drops an input below a kept one even if the kept one cannot be opened; `NothingIsLost` excludes that case.
* main.c:403: when no thread can be created the error is dropped, the report runs over PENDING files and the status is 0.
* tree.h:29 says "less than" the tolerance, the code compares with `<=`.
* README.md gives 15 for the default threshold, config.h 8.
* cli.c:846: `--dry-run` is announced in the help and ends in `AK_UNREACHABLE`.
* "Second press = hard kill" (signals.c:39) holds only while the watcher thread lives. It ends after the callback (signals.c:62),
  and a signal after that stays pending.
* The metadata that cache.c:292-299 compares have the granularity of seconds: a file rewritten within the same second with the same size keeps its
  hit. The model has such changes (`Change` may leave `metadata` alone), and `HitIsCurrent` says what holds all the same: no hash of a
  hit is of a content that the scanned metadata came after.
* `ak_video_hash` keeps the file open over all its segments (video.c:1174-1340): of a file that is written to meanwhile, the segments can be of different
  contents, and are saved together under the metadata of the scan. `HashSegment` allows for it; `HitIsOfOneSave` speaks of one hashing, not of one content.
* The lookup (main.c:269) compares the number of segments, but not `--detect-bars` or `--skip-duration`: a run
  with other options takes the hashes as they are.
* `--detect-rotation=no` and `--detect-black=no` set their flags (cli.c:831, 837), which only the printing of the configuration reads.
* A failed segment is stored with hash 0 (video.c:1070-1074), and the report compares it like any other (report.c:527-531): unrelated videos that
  both begin with a black frame are grouped, although README.md:95 says that black frames are skipped. A frame without any detail has hash 0 as well.
* Rotations that are no right angle fail an assertion in a debug build, and every segment in a release build.
* ENOMEM while the rotation filter is set up costs only the segment, elsewhere the file.
* `normalise_frame_to_grey8` returns 0, and leaves `frame_out` alone, if `sws_scale` returns 0 (video.c:933-935), although video.c:889 says that it is
  "always set on success". `ScaleNothing` has it: borders are then looked for in bytes that are no luma, the exception in `CropKeepsThePicture`.
  libswscale is not known to return 0 for a whole frame.
* tests/test_cli.c:157 says "Segments max is 50"; the limit is 20 (defs.h:56). The test calls `anu_cli_parse_options`, which is gone.
* util.h:880: a huge `--skip-duration` overflows `llrint`; a coarse time base can round the last target to the end of the stream.
* video.c:1122 skips durations `<=` the minimum, the help says "shorter than".
* config.h:97 gives verbosities 0 to 3, cli.c:26 accepts 0 to 4.
* `--cache no` makes `no` a path, as the value of a switch is optional and must be attached.
* video.c:514 flushes the decoder before each seek. The choice of the frame does not depend on it in the model, because what the decoder
  holds back is contiguous and lies before the target or is the target.

## 7. Not modelled

| Part | Why |
|---|---|
| codecs, filters, scaling | libav's; a conversion to grey makes luma of a picture and scaling leaves it as it is |
| the transform of `hash.c` | sums of products of 32 and 64 bits, beyond TLC's integers; a frame comes with its coefficients |
| `term.c`, `log.c` | output; `log.c` holds one mutex around a line |
| `util.h`, `kvec.h`, `mem.h` | growable arrays and allocation wrappers; sets and sequences in the models |
| `vendor/` | third-party; SQLite is modelled as `cache.c` uses it |
| text and JSON of `report.c` | formatting |
| errors of SQLite inside a transaction, other than BUSY | on a full disk or an I/O error SQLite rolls the whole transaction back by itself, and the loop of cache.c:104 goes on, each statement committing on its own: a kill can then leave a row with a part of its hashes, and a hash may hang on another run's row. The properties of `cache` are claimed without such errors |
| the schema and its version, `sqlite3_shutdown` | one step each, before and after everything that is modelled |
| DT_UNKNOWN file systems | need cyclic trees |

## 8. Plan

Order, the most important behaviour first; 1 to 10 are done.

1. `HashQueue` with `HashJobs`, its proofs.
2. `SignalWatch`, `ProgressBar`, `Driver`, and that it implements `HashQueue`; the proofs of its properties.
3. `BkTree` with `HashIndex`, `UnionFind` with `Partition`, `Report` over both.
4. `HashCache`, `Explore`.
5. `FrameHash` and `VideoHash`, its proofs.
6. `Cli` and `HashCommand`, which composes it with `VideoHash`; their proofs.
7. The proofs of `HashCache`.
8. `Explore`: a proof that the kept paths cover the inputs and the walks find what is below them.
9. `UnionFind`: a proof that it implements `Partition`; `Report`: a proof that groups are connected, from the theorems
   about the tree and the forest.
10. The proofs over recursive functions: the crop, the median, the segments' frames.
11. `HashCache`: statements that fail inside the transaction and roll it back.
12. `Explore`: file systems without `d_type`.
