------------------------------- MODULE Report -------------------------------
(***************************************************************************)
(* From hashes to duplicate groups: the last part of anukrta_driver, which *)
(* fills the BK tree, and ak_report_build of report.c, which searches it   *)
(* for every hash, unites the files it finds and sorts the sets into       *)
(* groups and unique files.  The tree is BkTree's and the sets are         *)
(* UnionFind's; their calls run to the end before the next line does.      *)
(***************************************************************************)
EXTENDS Integers, Sequences, FiniteSets

CONSTANTS FileCount,     (* the files found                                  *)
          segments,      (* config->segments                                 *)
          threshold,     (* config->threshold                                *)
          strategy,      (* config->best_file_strategy: "NONE" or "SMALLEST" *)
          Bits           (* bit positions of a hash                          *)

ASSUME FileCountAssumption == FileCount \in Nat \ {0}
ASSUME segmentsAssumption == segments \in 1 .. 20
ASSUME strategyAssumption == strategy \in {"NONE", "SMALLEST"}
ASSUME BitsAssumption == IsFiniteSet(Bits)
ASSUME thresholdAssumption == threshold \in 0 .. Cardinality(Bits)

Files == 0 .. FileCount - 1

Segs == 0 .. segments - 1

VARIABLES
  tree, op, key, file_id, tol, cursor, stack, groups_out,
  parent, rank, uf_pc, root, root_i, arg,
  results,        (* the status of each file                                 *)
  entries,        (* entries[i][seg]: the hash of a segment                  *)
  rpc,            (* where the driver or ak_report_build is                  *)
  i, seg,         (* the loop indices                                        *)
  matches,        (* segment_results not yet united with file i              *)
  skipped,        (* report.skipped                                          *)
  pairs,          (* the pairs <<file_id, root_id>>                          *)
  unique,         (* report.unique                                           *)
  groups,         (* report.groups: [files, best], best being the first      *)
  metric,         (* what the strategy compares, once files are compared     *)
  best            (* the group in election: its best file, the next to try   *)

T == INSTANCE BkTree WITH FileIds <- Files, MaxEntries <- FileCount * segments
U == INSTANCE UnionFind WITH ItemCount <- FileCount

bkVars == <<tree, op, key, file_id, tol, cursor, stack, groups_out>>
ufVars == <<parent, rank, uf_pc, root, root_i, arg>>
inVars == <<results, entries>>
outVars == <<skipped, pairs, unique, groups, metric, best>>
vars == <<bkVars, ufVars, inVars, rpc, i, seg, matches, outVars>>

Statuses == {"AK_OK", "AK_STATUS_FILE_CACHED", "AK_IO_FAIL", "AK_NO_MEM",
             "AK_SKIP_SHORT_DURATION", "AK_STATUS_FILE_PENDING"}

(* Only whether a file was hashed matters below; one status of each kind   *)
(* stands for the others in the initial states.                            *)
status_is_hashed(s) == s \in {"AK_OK", "AK_STATUS_FILE_CACHED"}

Hashed == {f \in Files : status_is_hashed(results[f])}

NoGroup == [files |-> {}, first |-> 0, next |-> 0]

Init ==
  /\ T!Init /\ file_id = 0
  /\ U!Init
  /\ results \in [Files -> {"AK_OK", "AK_IO_FAIL"}]
  /\ entries \in {e \in [Files -> [Segs -> T!Hash]] :
                   \A f \in Files \ Hashed : e[f] = [s \in Segs |-> {}]}
  /\ rpc = "insert"
  /\ i = 0
  /\ seg = 0
  /\ matches = {}
  /\ skipped = {}
  /\ pairs = {}
  /\ unique = {}
  /\ groups = {}
  /\ metric = [f \in Files |-> 0]
  /\ best = NoGroup

-----------------------------------------------------------------------------
(***************************************************************************)
(* The loops: over the files, and over the segments of a hashed file       *)
(***************************************************************************)

quiet == op = "idle" /\ uf_pc = "idle"

At(state) == rpc = state /\ quiet

InLoop(state) == At(state) /\ i < FileCount

NextFile == i' = i + 1 /\ seg' = 0

NextSegment ==
  IF seg + 1 < segments THEN seg' = seg + 1 /\ UNCHANGED i ELSE NextFile

(* The end of a loop over the files starts the next one at 0.              *)
LoopEnds(state, next) ==
  /\ At(state)
  /\ i = FileCount
  /\ rpc' = next
  /\ i' = 0
  /\ seg' = 0

(***************************************************************************)
(* The driver fills the tree                                               *)
(***************************************************************************)

PassOver ==
  /\ InLoop("insert")
  /\ i \notin Hashed
  /\ NextFile
  /\ UNCHANGED <<bkVars, ufVars, inVars, rpc, matches, outVars>>

InsertSegment ==
  /\ InLoop("insert")
  /\ i \in Hashed
  /\ T!InsertRoot(entries[i][seg], i) \/ T!Insert(entries[i][seg], i)
  /\ NextSegment
  /\ UNCHANGED <<ufVars, inVars, rpc, matches, outVars>>

InsertEnds ==
  /\ LoopEnds("insert", "build")
  /\ UNCHANGED <<bkVars, ufVars, inVars, matches, outVars>>

(***************************************************************************)
(* ak_report_build                                                         *)
(***************************************************************************)

(* Nothing was inserted: the report stays empty.                           *)
ReturnEarly ==
  /\ At("build")
  /\ T!Nodes = {}
  /\ rpc' = "done"
  /\ UNCHANGED <<bkVars, ufVars, inVars, i, seg, matches, outVars>>

StartBuild ==
  /\ At("build")
  /\ T!Nodes # {}
  /\ rpc' = "search"
  /\ UNCHANGED <<bkVars, ufVars, inVars, i, seg, matches, outVars>>

SkipFile ==
  /\ InLoop("search")
  /\ i \notin Hashed
  /\ skipped' = skipped \cup {i}
  /\ NextFile
  /\ UNCHANGED <<bkVars, ufVars, inVars, rpc, matches, pairs, unique, groups, metric, best>>

SearchSegment ==
  /\ InLoop("search")
  /\ i \in Hashed
  /\ T!Search(entries[i][seg], threshold)
  /\ rpc' = "unite"
  /\ UNCHANGED <<ufVars, inVars, i, seg, matches, outVars>>

(* The search is over: its result is what the loop over j goes through.    *)
TakeMatches ==
  /\ T!SearchDone
  /\ matches' = groups_out
  /\ UNCHANGED <<ufVars, inVars, rpc, i, seg, outVars>>

(* Mutant: each match is united with the one before it, not with file i.   *)
UniteRootless ==
  /\ At("unite")
  /\ \E j \in matches :
       /\ U!Unite(arg, j)
       /\ matches' = matches \ {j}
  /\ UNCHANGED <<bkVars, inVars, rpc, i, seg, outVars>>

UniteMatch ==
  /\ At("unite")
  /\ \E j \in matches :
       /\ U!Unite(i, j)
       /\ matches' = matches \ {j}
  /\ UNCHANGED <<bkVars, inVars, rpc, i, seg, outVars>>

MatchesUnited ==
  /\ At("unite")
  /\ matches = {}
  /\ rpc' = "search"
  /\ NextSegment
  /\ UNCHANGED <<bkVars, ufVars, inVars, matches, outVars>>

SearchEnds ==
  /\ LoopEnds("search", "pairs")
  /\ UNCHANGED <<bkVars, ufVars, inVars, matches, outVars>>

(* The loop that pairs every hashed file with its root.                    *)
PairPassesOver ==
  /\ InLoop("pairs")
  /\ i \notin Hashed
  /\ NextFile
  /\ UNCHANGED <<bkVars, ufVars, inVars, rpc, matches, outVars>>

FindRoot ==
  /\ InLoop("pairs")
  /\ i \in Hashed
  /\ U!Find(i)
  /\ NextFile
  /\ UNCHANGED <<bkVars, inVars, rpc, matches, outVars>>

(* Mutant: the parent is taken for the root.                               *)
PairWithParent ==
  /\ InLoop("pairs")
  /\ i \in Hashed
  /\ pairs' = pairs \cup {<<i, parent[i]>>}
  /\ NextFile
  /\ UNCHANGED <<bkVars, ufVars, inVars, rpc, matches, skipped, unique, groups, metric, best>>

AddPair ==
  /\ U!FindDone
  /\ pairs' = pairs \cup {<<arg, root>>}
  /\ UNCHANGED <<bkVars, inVars, rpc, i, seg, matches, skipped, unique, groups, metric, best>>

PairsEnd ==
  /\ LoopEnds("pairs", "group")
  /\ UNCHANGED <<bkVars, ufVars, inVars, matches, outVars>>

(* The sorted pairs are cut where the root changes; i runs over the roots. *)
WithRoot(r) == {f \in Files : <<f, r>> \in pairs}

NoSuchRoot ==
  /\ InLoop("group")
  /\ WithRoot(i) = {}
  /\ NextFile
  /\ UNCHANGED <<bkVars, ufVars, inVars, rpc, matches, outVars>>

(* Mutant: a unique file is kept as a group too, of one.                   *)
UniqueGroup ==
  /\ InLoop("group")
  /\ Cardinality(WithRoot(i)) = 1
  /\ unique' = unique \cup WithRoot(i)
  /\ groups' = groups \cup {[files |-> WithRoot(i), first |-> i]}
  /\ NextFile
  /\ UNCHANGED <<bkVars, ufVars, inVars, rpc, matches, skipped, pairs, metric, best>>

UniqueFile ==
  /\ InLoop("group")
  /\ Cardinality(WithRoot(i)) = 1
  /\ unique' = unique \cup WithRoot(i)
  /\ NextFile
  /\ UNCHANGED <<bkVars, ufVars, inVars, rpc, matches, skipped, pairs, groups, metric, best>>

First(g) == CHOOSE f \in g : \A h \in g : f <= h

(* elect_best_file begins with the first of the group, in order of file    *)
(* id, and with no strategy it stays.  Sizes are looked at here for the    *)
(* first time, so the model picks them now.                                *)
StartGroup ==
  /\ InLoop("group")
  /\ Cardinality(WithRoot(i)) > 1
  /\ best' = [files |-> WithRoot(i), first |-> First(WithRoot(i)),
               next |-> IF strategy = "NONE" THEN FileCount ELSE 0]
  /\ \E m \in [WithRoot(i) -> 0 .. 1] :
       metric' = [f \in Files |-> IF f \in WithRoot(i) THEN m[f] ELSE metric[f]]
  /\ rpc' = "elect"
  /\ UNCHANGED <<bkVars, ufVars, inVars, i, seg, matches, skipped, pairs, unique, groups>>

(* The strategies differ in the field and the sign; SMALLEST stands for    *)
(* them.  Ties go to the smaller path, and the file ids are in an order of *)
(* their own: here the reverse of the order of the paths.                  *)
is_better_file(f, g) == metric[f] < metric[g] \/ (metric[f] = metric[g] /\ f > g)

(* Mutant: every file is compared with the first instead of the best so    *)
(* far.                                                                    *)
TryNextUnchained ==
  /\ At("elect")
  /\ best.next < FileCount
  /\ best' = [best EXCEPT
       !.first = IF best.next \in best.files /\ is_better_file(best.next, First(best.files))
                   THEN best.next ELSE @,
       !.next = @ + 1]
  /\ UNCHANGED <<bkVars, ufVars, inVars, rpc, i, seg, matches, skipped, pairs, unique, groups,
                 metric>>

TryNext ==
  /\ At("elect")
  /\ best.next < FileCount
  /\ best' = [best EXCEPT
       !.first = IF best.next \in best.files /\ is_better_file(best.next, @) THEN best.next ELSE @,
       !.next = @ + 1]
  /\ UNCHANGED <<bkVars, ufVars, inVars, rpc, i, seg, matches, skipped, pairs, unique, groups,
                 metric>>

(* The best file changes places with the first, and the group is pushed.   *)
PushGroup ==
  /\ At("elect")
  /\ best.next = FileCount
  /\ groups' = groups \cup {[files |-> best.files, first |-> best.first]}
  /\ best' = NoGroup
  /\ rpc' = "group"
  /\ NextFile
  /\ UNCHANGED <<bkVars, ufVars, inVars, matches, skipped, pairs, unique, metric>>

GroupsEnd ==
  /\ LoopEnds("group", "done")
  /\ UNCHANGED <<bkVars, ufVars, inVars, matches, outVars>>

(* A call of the tree or of union-find goes on.                            *)
TreeStep ==
  /\ T!AddToNode \/ T!Descend \/ T!Graft \/ \E p \in stack : T!Visit(p)
  /\ UNCHANGED <<ufVars, inVars, rpc, i, seg, matches, outVars>>

UnionStep ==
  /\ U!Halve \/ U!FirstFound \/ U!Link
  /\ UNCHANGED <<bkVars, inVars, rpc, i, seg, matches, outVars>>

Done == rpc = "done" /\ UNCHANGED vars

Next ==
  \/ PassOver \/ InsertSegment \/ InsertEnds
  \/ ReturnEarly \/ StartBuild \/ SkipFile \/ SearchSegment \/ TakeMatches
  \/ UniteMatch \/ MatchesUnited \/ SearchEnds
  \/ PairPassesOver \/ FindRoot \/ AddPair \/ PairsEnd
  \/ NoSuchRoot \/ UniqueFile \/ StartGroup \/ TryNext \/ PushGroup \/ GroupsEnd
  \/ TreeStep \/ UnionStep
  \/ Done

Spec == Init /\ [][Next]_vars

-----------------------------------------------------------------------------
(***************************************************************************)
(* Properties                                                              *)
(***************************************************************************)

(* Two files are similar when some frame of one is within the threshold of *)
(* some frame of the other.                                                *)
Similar(f, g) ==
  \E s, t \in Segs : T!hamming_distance(entries[f][s], entries[g][t]) <= threshold

(* Files that are similar, directly or through others, are in one group,   *)
(* and no group holds files that nothing connects: it cannot be cut in two *)
(* parts without similar files on both sides.                              *)
GroupsAreConnected ==
  rpc = "done" =>
    /\ \A f, g \in Hashed : f # g /\ Similar(f, g) => \E c \in groups : {f, g} \subseteq c.files
    /\ \A c \in groups : \A part \in SUBSET c.files :
         part # {} /\ part # c.files =>
           \E f \in part, g \in c.files \ part : Similar(f, g)

(* Every file found is in the report once: in one group, among the unique  *)
(* files or among the skipped - if any file was hashed.                    *)
EveryFileReportedOnce ==
  rpc = "done" /\ Hashed # {} =>
    /\ (UNION {c.files : c \in groups}) \cup unique \cup skipped = Files
    /\ unique \cap skipped = {}
    /\ \A c \in groups : c.files \cap (unique \cup skipped) = {}
    /\ \A c, d \in groups : c # d => c.files \cap d.files = {}

(* The file tagged BEST is in its group and none of the group is better.   *)
BestComesFirst ==
  rpc = "done" /\ strategy # "NONE" =>
    \A c \in groups : c.first \in c.files /\ \A f \in c.files : ~is_better_file(f, c.first)

(* The report is finished, however the hashes fall.                        *)
ReportEnds == <>(rpc = "done")
=============================================================================
