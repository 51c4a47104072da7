---------------------------- MODULE ReportProofs ----------------------------
(***************************************************************************)
(* What the report promises, for any number of files and segments, any     *)
(* hashes, any threshold and either strategy.  It rests on what BkTree and *)
(* UnionFind promise.                                                      *)
(***************************************************************************)
EXTENDS Report, FiniteSetTheorems, TLAPS

TP == INSTANCE BkTreeProofs WITH FileIds <- Files, MaxEntries <- FileCount * segments
UP == INSTANCE UnionFindProofs WITH ItemCount <- FileCount

-----------------------------------------------------------------------------
(***************************************************************************)
(* The parts                                                               *)
(***************************************************************************)

LEMMA BitsAreFinite == TP!IsFiniteSet(Bits)
<1>1. IsFiniteSet(Bits)
  BY BitsAssumption
<1> QED
  BY <1>1 DEF IsFiniteSet, TP!IsFiniteSet

LEMMA FilesAreItems == FileCount \in Nat \ {0} /\ UP!Items = Files
  BY FileCountAssumption DEF UP!Items, Files

LEMMA ThresholdIsTolerance == threshold \in TP!Tolerances
  BY thresholdAssumption DEF TP!Tolerances, TP!AK_HAMMING_MAX, TP!Cardinality, Cardinality

LEMMA SameDistance == \A a, b : T!hamming_distance(a, b) = TP!hamming_distance(a, b)
  BY DEF T!hamming_distance, TP!hamming_distance, T!Cardinality, TP!Cardinality

LEMMA SameTree ==
  /\ T!Hash = TP!Hash /\ T!Nodes = TP!Nodes
  /\ T!Init => TP!Init
  /\ \A h, f : T!InsertRoot(h, f) => TP!InsertRoot(h, f)
  /\ \A h, f : T!Insert(h, f) => TP!Insert(h, f)
  /\ \A h, t : T!Search(h, t) => TP!Search(h, t)
  /\ \A p : T!Visit(p) => TP!Visit(p)
  /\ T!AddToNode => TP!AddToNode
  /\ T!Descend => TP!Descend
  /\ T!Graft => TP!Graft
  /\ T!SearchDone => TP!SearchDone
<1>1. T!Hash = TP!Hash /\ T!Nodes = TP!Nodes
  BY DEF T!Hash, TP!Hash, T!Nodes, TP!Nodes
<1>2. T!Init => TP!Init
  BY DEF T!Init, TP!Init, T!Root, TP!Root
<1>3. \A h, f : T!InsertRoot(h, f) => TP!InsertRoot(h, f)
  BY DEF T!InsertRoot, TP!InsertRoot, T!Nodes, TP!Nodes, T!Root, TP!Root, T!node_new, TP!node_new,
         T!callVars, TP!callVars
<1>4. \A h, f : T!Insert(h, f) => TP!Insert(h, f)
  BY DEF T!Insert, TP!Insert, T!Nodes, TP!Nodes, T!Root, TP!Root, T!Entries, TP!Entries,
         T!Cardinality, TP!Cardinality
<1>5. \A h, t : T!Search(h, t) => TP!Search(h, t)
  BY DEF T!Search, TP!Search, T!Nodes, TP!Nodes, T!Root, TP!Root
<1>6. \A p : T!Dist(p) = TP!Dist(p)
  BY SameDistance DEF T!Dist, TP!Dist
<1>7. \A p : T!Visit(p) => TP!Visit(p)
  BY <1>6 DEF T!Visit, TP!Visit, T!children, TP!children, T!Nodes, TP!Nodes
<1>8. T!Return <=> TP!Return
  BY DEF T!Return, TP!Return, T!Root, TP!Root
<1>9. T!AddToNode => TP!AddToNode
  BY <1>6, <1>8 DEF T!AddToNode, TP!AddToNode
<1>10. T!Descend => TP!Descend
  BY <1>6 DEF T!Descend, TP!Descend, T!Child, TP!Child, T!Nodes, TP!Nodes
<1>11. T!Graft => TP!Graft
  BY <1>6, <1>8 DEF T!Graft, TP!Graft, T!Child, TP!Child, T!Nodes, TP!Nodes, T!node_new, TP!node_new
<1>12. T!SearchDone => TP!SearchDone
  BY <1>8 DEF T!SearchDone, TP!SearchDone
<1> QED
  BY <1>1, <1>2, <1>3, <1>4, <1>5, <1>7, <1>9, <1>10, <1>11, <1>12

LEMMA SameForest ==
  /\ U!Init => UP!Init
  /\ \A x : U!Find(x) => UP!Find(x)
  /\ \A x, y : U!Unite(x, y) => UP!Unite(x, y)
  /\ U!Halve => UP!Halve
  /\ U!FindDone => UP!FindDone
  /\ U!FirstFound => UP!FirstFound
  /\ U!Link => UP!Link
<1>1. U!Init => UP!Init
  BY DEF U!Init, UP!Init, U!Items, UP!Items
<1>2. \A x : U!Find(x) => UP!Find(x)
  BY DEF U!Find, UP!Find
<1>3. \A x, y : U!Unite(x, y) => UP!Unite(x, y)
  BY DEF U!Unite, UP!Unite
<1>4. U!Halve => UP!Halve
  BY DEF U!Halve, UP!Halve
<1>5. U!FindDone => UP!FindDone
  BY DEF U!FindDone, UP!FindDone, U!AtRoot, UP!AtRoot
<1>6. U!FirstFound => UP!FirstFound
  BY DEF U!FirstFound, UP!FirstFound, U!AtRoot, UP!AtRoot
<1>7. U!Link => UP!Link
  BY DEF U!Link, UP!Link, U!AtRoot, UP!AtRoot
<1> QED
  BY <1>1, <1>2, <1>3, <1>4, <1>5, <1>6, <1>7

-----------------------------------------------------------------------------
(***************************************************************************)
(* The inductive invariant                                                 *)
(***************************************************************************)

(* Where the loops are, and whose call is under way.                       *)
ControlOK ==
  /\ rpc \in {"insert", "build", "search", "unite", "pairs", "group", "elect", "done"}
  /\ i \in 0 .. FileCount
  /\ seg \in Segs
  /\ entries \in [Files -> [Segs -> TP!Hash]]
  /\ rpc = "build" => i = 0 /\ seg = 0
  /\ rpc \in {"unite", "elect"} => i < FileCount
  /\ rpc = "unite" => i \in Hashed
  /\ op = "insert" => rpc = "insert"
  /\ op = "search" => rpc = "unite" /\ uf_pc = "idle"
  /\ uf_pc \in {"find_i", "find_j"} => rpc = "unite"
  /\ uf_pc = "find" => rpc = "pairs" /\ arg \in Hashed /\ arg < i

PartsOK == TP!TreeInv /\ TP!FoundInv /\ UP!ForestInv

(* The segments in front of segment s of file n.                           *)
Before(n, s) == {p \in Hashed \X Segs : p[1] < n \/ (p[1] = n /\ p[2] < s)}

(* The tree holds every segment that was inserted, but for the one whose   *)
(* insertion is under way.                                                 *)
Inserted == IF rpc = "insert" THEN Before(i, seg) ELSE Hashed \X Segs
Pending == IF op = "insert" THEN {<<key, file_id>>} ELSE {}

EntriesOf(S) == {<<entries[p[1]][p[2]], p[1]>> : p \in S}

TreeHolds == TP!Entries \cup Pending = EntriesOf(Inserted)

(* The search is entered with a tree that has nodes, and keeps them.       *)
TreeIsThere == rpc \in {"search", "unite", "pairs", "group", "elect"} => TP!Nodes # {}

(* The files with a segment near segment s of file n.                      *)
Near(n, s) ==
  {g \in Hashed : \E t \in Segs : TP!hamming_distance(entries[g][t], entries[n][s]) <= threshold}

SameSet(x, y) == UP!RootOf(x) = UP!RootOf(y)

(* What was found for the segment is united with its file, or will be.     *)
MatchesOK ==
  /\ op = "search" => key = entries[i][seg] /\ tol = threshold
  /\ rpc = "unite" /\ op # "search" =>
       /\ matches \subseteq Near(i, seg)
       /\ uf_pc # "idle" => arg \in Near(i, seg)
       /\ \A g \in Near(i, seg) : g \in matches \/ SameSet(i, g) \/ (uf_pc # "idle" /\ g = arg)

(* A walk stays in the set it began in.                                    *)
WalkOK ==
  /\ uf_pc = "find_i" => SameSet(root, i)
  /\ uf_pc = "find_j" => SameSet(root_i, i) /\ SameSet(root, arg)
  /\ uf_pc = "find" => SameSet(root, arg)

(* Nothing similar is left apart: every segment that was searched has its  *)
(* file in the set of the files near it.                                   *)
Searched ==
  CASE rpc \in {"insert", "build"} -> {}
    [] rpc \in {"search", "unite"} -> Before(i, seg)
    [] OTHER -> Hashed \X Segs

NothingApart == \A p \in Searched : \A g \in Near(p[1], p[2]) : SameSet(p[1], g)

(* And nothing else is together: a set cannot be cut in two parts without  *)
(* similar files on both sides.                                            *)
CannotCut(S) ==
  \A part \in SUBSET S : part # {} /\ part # S => \E f \in part, g \in S \ part : Similar(f, g)

SetsOK ==
  \A x \in Files : CannotCut(UP!SetOf(x)) /\ (UP!SetOf(x) \subseteq Hashed \/ UP!SetOf(x) = {x})

Finished == rpc = "done" /\ TP!Nodes # {}

SkippedOK ==
  skipped = {f \in Files \ Hashed : \/ rpc \in {"search", "unite"} /\ f < i
                                   \/ rpc \in {"pairs", "group", "elect"}
                                   \/ Finished}

(* Every hashed file is paired with its root, in its turn.                 *)
Paired ==
  CASE rpc = "pairs" -> {f \in Hashed : f < i /\ ~(uf_pc = "find" /\ f = arg)}
    [] rpc \in {"group", "elect", "done"} -> Hashed
    [] OTHER -> {}

PairsOK == pairs = {<<f, UP!RootOf(f)>> : f \in Paired}

(* The roots whose set is in the report already, as a group or as a unique *)
(* file.                                                                   *)
RootsDone == {r \in Files : (rpc \in {"group", "elect"} /\ r < i) \/ Finished}

GroupsOK ==
  /\ \A c \in groups : \E r \in RootsDone : c.files = WithRoot(r) /\ Cardinality(WithRoot(r)) > 1
  /\ \A r \in RootsDone : Cardinality(WithRoot(r)) > 1 => \E c \in groups : c.files = WithRoot(r)
  /\ \A c, d \in groups : c.files = d.files => c = d
  /\ unique = {f \in Files : \E r \in RootsDone : WithRoot(r) = {f}}

NoneBetter(f, files) == \A g \in files : ~is_better_file(g, f)

(* The best so far is better than all that were tried.                     *)
ElectOK ==
  /\ metric \in [Files -> Int]
  /\ rpc = "elect" =>
       /\ best.files = WithRoot(i)
       /\ Cardinality(WithRoot(i)) > 1
       /\ best.first \in best.files
       /\ best.next \in 0 .. FileCount
       /\ strategy # "NONE" => NoneBetter(best.first, {f \in best.files : f < best.next})
  /\ strategy # "NONE" => \A c \in groups : c.first \in c.files /\ NoneBetter(c.first, c.files)

ReportInv ==
  /\ ControlOK /\ PartsOK /\ TreeHolds /\ TreeIsThere /\ MatchesOK /\ WalkOK
  /\ NothingApart /\ SetsOK /\ SkippedOK /\ PairsOK /\ GroupsOK /\ ElectOK

-----------------------------------------------------------------------------
(***************************************************************************)
(* Control                                                                 *)
(***************************************************************************)

LEMMA SegsAreNumbers == segments \in Nat /\ segments >= 1 /\ Segs = 0 .. segments - 1 /\ 0 \in Segs
  BY segmentsAssumption DEF Segs

LEMMA InputsStay ==
  ASSUME [Next]_vars
  PROVE  results' = results /\ entries' = entries /\ Hashed' = Hashed
<1>1. results' = results /\ entries' = entries
  BY DEF Next, vars, PassOver, InsertSegment, InsertEnds, ReturnEarly, StartBuild, SkipFile, SearchSegment,
     TakeMatches, UniteMatch, MatchesUnited, SearchEnds, PairPassesOver, FindRoot, AddPair, PairsEnd,
     NoSuchRoot, UniqueFile, StartGroup, TryNext, PushGroup, GroupsEnd, TreeStep, UnionStep, Done, inVars
<1> QED
  BY <1>1 DEF Hashed, status_is_hashed

LEMMA ControlInit == Init => ControlOK
<1> SUFFICES ASSUME Init PROVE ControlOK
  OBVIOUS
<1>1. entries \in [Files -> [Segs -> TP!Hash]]
  BY SameTree DEF Init
<1> QED
  BY <1>1, FileCountAssumption, SegsAreNumbers DEF Init, ControlOK, T!Init, U!Init

LEMMA LoopAdvances ==
  ASSUME i \in 0 .. FileCount, i < FileCount, seg \in Segs, NextSegment \/ NextFile
  PROVE  /\ i' \in 0 .. FileCount /\ seg' \in Segs
         /\ i <= i'
  BY FileCountAssumption, SegsAreNumbers DEF NextSegment, NextFile

LEMMA ControlStep ==
  ASSUME ControlOK, [Next]_vars
  PROVE  ControlOK'
<1>0. /\ entries' = entries /\ Hashed' = Hashed /\ FileCount \in Nat \ {0} /\ 0 \in Segs
      /\ Hashed \subseteq Files /\ Files = 0 .. FileCount - 1
  BY InputsStay, FileCountAssumption, SegsAreNumbers DEF Hashed, Files
<1> USE <1>0 DEF ControlOK
<1>1. CASE PassOver \/ SkipFile \/ MatchesUnited \/ PairPassesOver \/ NoSuchRoot \/ UniqueFile
  <2>1. /\ quiet /\ i < FileCount /\ (NextSegment \/ NextFile)
        /\ op' = op /\ uf_pc' = uf_pc
        /\ rpc' \in {"insert", "search", "pairs", "group"}
    BY <1>1 DEF PassOver, SkipFile, MatchesUnited, PairPassesOver, NoSuchRoot, UniqueFile, InLoop, At,
       bkVars, ufVars
  <2> QED
    BY <2>1, LoopAdvances DEF quiet
<1>2. CASE InsertSegment
  <2>1. /\ rpc = "insert" /\ rpc' = rpc /\ quiet /\ i < FileCount /\ (NextSegment \/ NextFile)
        /\ op' \in {"idle", "insert"} /\ uf_pc' = uf_pc
    BY <1>2 DEF InsertSegment, InLoop, At, quiet, ufVars, T!InsertRoot, T!Insert, T!callVars
  <2> QED
    BY <2>1, LoopAdvances DEF quiet
<1>3. CASE InsertEnds \/ SearchEnds \/ PairsEnd \/ GroupsEnd
  <2>1. /\ quiet /\ i' = 0 /\ seg' = 0 /\ op' = op /\ uf_pc' = uf_pc
        /\ rpc' \in {"build", "pairs", "group", "done"}
    BY <1>3 DEF InsertEnds, SearchEnds, PairsEnd, GroupsEnd, LoopEnds, At, bkVars, ufVars
  <2> QED
    BY <2>1 DEF quiet
<1>4. CASE ReturnEarly \/ StartBuild
  <2>1. /\ quiet /\ i' = i /\ seg' = seg /\ op' = op /\ uf_pc' = uf_pc /\ rpc' \in {"done", "search"}
    BY <1>4 DEF ReturnEarly, StartBuild, At, bkVars, ufVars
  <2> QED
    BY <2>1 DEF quiet
<1>5. CASE SearchSegment
  BY <1>5 DEF SearchSegment, InLoop, At, quiet, ufVars, T!Search
<1>6. CASE TakeMatches
  BY <1>6 DEF TakeMatches, T!SearchDone, T!Return, ufVars
<1>7. CASE UniteMatch
  BY <1>7 DEF UniteMatch, At, quiet, U!Unite, bkVars
<1>8. CASE FindRoot
  <2>1. /\ i < FileCount /\ i \in Hashed /\ quiet /\ NextFile /\ rpc = "pairs" /\ rpc' = rpc
        /\ op' = op /\ uf_pc' = "find" /\ arg' = i
    BY <1>8 DEF FindRoot, InLoop, At, U!Find, bkVars
  <2>2. i' = i + 1 /\ i' \in 0 .. FileCount /\ seg' \in Segs
    BY <2>1, LoopAdvances DEF NextFile
  <2> QED
    BY <2>1, <2>2 DEF quiet
<1>9. CASE AddPair
  BY <1>9 DEF AddPair, U!FindDone, bkVars
<1>10. CASE StartGroup
  BY <1>10 DEF StartGroup, InLoop, At, quiet, bkVars, ufVars
<1>11. CASE TryNext
  BY <1>11 DEF TryNext, At, quiet, bkVars, ufVars
<1>12. CASE PushGroup
  <2>1. /\ quiet /\ i < FileCount /\ NextFile /\ rpc' = "group" /\ op' = op /\ uf_pc' = uf_pc
    BY <1>12 DEF PushGroup, At, bkVars, ufVars
  <2> QED
    BY <2>1, LoopAdvances DEF quiet
<1>13. CASE TreeStep
  BY <1>13 DEF TreeStep, T!AddToNode, T!Descend, T!Graft, T!Visit, T!Return, ufVars
<1>14. CASE UnionStep
  BY <1>14 DEF UnionStep, U!Halve, U!FirstFound, U!Link, bkVars
<1>15. CASE Done \/ UNCHANGED vars
  BY <1>15 DEF Done, vars, bkVars, ufVars
<1> QED
  BY <1>1, <1>2, <1>3, <1>4, <1>5, <1>6, <1>7, <1>8, <1>9, <1>10, <1>11, <1>12, <1>13, <1>14, <1>15 DEF Next

-----------------------------------------------------------------------------
(***************************************************************************)
(* The parts take steps of their own                                       *)
(***************************************************************************)

LEMMA TreeTakesItsSteps ==
  ASSUME ControlOK, [Next]_vars
  PROVE  [TP!Next]_(TP!treeVars)
<1> USE DEF TP!treeVars, TP!callVars
<1>1. CASE InsertSegment
  <2>1. entries[i][seg] \in TP!Hash /\ i \in Files
    BY <1>1 DEF InsertSegment, InLoop, At, ControlOK, Hashed
  <2> QED
    BY <1>1, <2>1, SameTree DEF InsertSegment, TP!Next
<1>2. CASE SearchSegment
  <2>1. entries[i][seg] \in TP!Hash /\ threshold \in TP!Tolerances
    BY <1>2, ThresholdIsTolerance DEF SearchSegment, InLoop, At, ControlOK, Hashed
  <2> QED
    BY <1>2, <2>1, SameTree DEF SearchSegment, TP!Next
<1>3. CASE TakeMatches
  BY <1>3, SameTree DEF TakeMatches, TP!Next, TP!CallStep
<1>4. CASE TreeStep
  BY <1>4, SameTree DEF TreeStep, TP!Next, TP!CallStep
<1>5. CASE ~(InsertSegment \/ SearchSegment \/ TakeMatches \/ TreeStep)
  <2>1. UNCHANGED bkVars
    BY <1>5 DEF Next, vars, PassOver, InsertEnds, ReturnEarly, StartBuild, SkipFile,
       UniteMatch, MatchesUnited, SearchEnds, PairPassesOver, FindRoot, AddPair, PairsEnd,
       NoSuchRoot, UniqueFile, StartGroup, TryNext, PushGroup, GroupsEnd, UnionStep, Done
  <2> QED
    BY <2>1 DEF bkVars
<1> QED
  BY <1>1, <1>2, <1>3, <1>4, <1>5

LEMMA ForestTakesItsSteps ==
  ASSUME ControlOK, MatchesOK, [Next]_vars
  PROVE  [UP!Next]_(UP!ufVars)
<1>1. CASE UniteMatch
  <2>1. i \in UP!Items /\ matches \subseteq UP!Items
    BY <1>1, FilesAreItems DEF UniteMatch, At, quiet, ControlOK, MatchesOK, Near, Hashed
  <2> QED
    BY <1>1, <2>1, SameForest DEF UniteMatch, UP!Next
<1>2. CASE FindRoot
  <2>1. i \in UP!Items
    BY <1>2, FilesAreItems DEF FindRoot, Hashed
  <2> QED
    BY <1>2, <2>1, SameForest DEF FindRoot, UP!Next
<1>3. CASE AddPair
  BY <1>3, SameForest DEF AddPair, UP!Next, UP!WalkStep
<1>4. CASE UnionStep
  BY <1>4, SameForest DEF UnionStep, UP!Next, UP!WalkStep
<1>5. CASE ~(UniteMatch \/ FindRoot \/ AddPair \/ UnionStep)
  <2>1. UNCHANGED ufVars
    BY <1>5 DEF Next, vars, PassOver, InsertSegment, InsertEnds, ReturnEarly, StartBuild, SkipFile,
       SearchSegment, TakeMatches, MatchesUnited, SearchEnds, PairPassesOver, PairsEnd,
       NoSuchRoot, UniqueFile, StartGroup, TryNext, PushGroup, GroupsEnd, TreeStep, Done
  <2> QED
    BY <2>1 DEF ufVars, UP!ufVars
<1> QED
  BY <1>1, <1>2, <1>3, <1>4, <1>5

LEMMA PartsInit == Init => PartsOK
<1> SUFFICES ASSUME Init PROVE PartsOK
  OBVIOUS
<1>1. TP!Init /\ UP!Init
  BY SameTree, SameForest DEF Init
<1>2. TP!TreeInv
  BY <1>1, BitsAreFinite, TP!TreeInit
<1>3. TP!FoundInv
  BY <1>1 DEF TP!Init, TP!FoundInv
<1>4. UP!ForestInv
  BY <1>1, FileCountAssumption, UP!ForestInit
<1> QED
  BY <1>2, <1>3, <1>4 DEF PartsOK

LEMMA PartsStep ==
  ASSUME ControlOK, PartsOK, MatchesOK, [Next]_vars
  PROVE  PartsOK'
<1>1. TP!TreeInv' /\ TP!FoundInv'
  BY TreeTakesItsSteps, BitsAreFinite, TP!TreeStep, TP!FoundStep DEF PartsOK, TP!TreeInv
<1>2. UP!ForestInv'
  BY ForestTakesItsSteps, FileCountAssumption, UP!ForestStep DEF PartsOK
<1> QED
  BY <1>1, <1>2 DEF PartsOK

-----------------------------------------------------------------------------
(***************************************************************************)
(* The loops over the segments, and what the tree holds                    *)
(***************************************************************************)

LEMMA BeforeGrows ==
  ASSUME i \in Hashed, seg \in Segs, Hashed' = Hashed, NextSegment
  PROVE  Before(i, seg)' = Before(i, seg) \cup {<<i, seg>>}
<1>1. i \in Int /\ seg \in Int /\ \A f \in Hashed : f \in Int
  BY FileCountAssumption, SegsAreNumbers DEF Hashed, Files
<1>2. CASE seg + 1 < segments
  BY <1>1, <1>2, SegsAreNumbers DEF NextSegment, Before
<1>3. CASE ~(seg + 1 < segments)
  <2>1. seg = segments - 1 /\ i' = i + 1 /\ seg' = 0
    BY <1>3, SegsAreNumbers DEF NextSegment, NextFile
  <2>2. ASSUME NEW f \in Hashed, NEW s \in Segs
        PROVE  (f < i' \/ (f = i' /\ s < seg')) <=> (f < i \/ (f = i /\ s < seg) \/ (f = i /\ s = seg))
    BY <1>1, <2>1, SegsAreNumbers
  <2> QED
    BY <2>2 DEF Before
<1> QED
  BY <1>2, <1>3

LEMMA BeforeSkips ==
  ASSUME i \in Files, i \notin Hashed, seg \in Segs, Hashed' = Hashed, NextFile
  PROVE  Before(i, seg)' = Before(i, seg)
<1>1. i \in Int /\ seg \in Int /\ \A f \in Hashed : f \in Int
  BY FileCountAssumption, SegsAreNumbers DEF Hashed, Files
<1> QED
  BY <1>1, SegsAreNumbers DEF NextFile, Before

LEMMA BeforeAll ==
  /\ i = FileCount => Before(i, seg) = Hashed \X Segs
  /\ Before(0, 0) = {}
<1>1. \A f \in Hashed : f \in 0 .. FileCount - 1
  BY DEF Hashed, Files
<1> QED
  BY <1>1, FileCountAssumption, SegsAreNumbers DEF Before

LEMMA InsertedStep ==
  ASSUME ControlOK, [Next]_vars
  PROVE  Inserted' = IF InsertSegment THEN Inserted \cup {<<i, seg>>} ELSE Inserted
<1>0. Hashed' = Hashed /\ FileCount \in Nat \ {0} /\ i \in 0 .. FileCount /\ seg \in Segs
      /\ (i < FileCount => i \in Files)
  BY InputsStay, FileCountAssumption DEF ControlOK, Files
<1>1. CASE InsertSegment
  <2>1. rpc = "insert" /\ rpc' = "insert" /\ i \in Hashed /\ NextSegment
    BY <1>1 DEF InsertSegment, InLoop, At
  <2> QED
    BY <1>0, <1>1, <2>1, BeforeGrows DEF Inserted
<1>2. CASE PassOver
  <2>1. rpc = "insert" /\ rpc' = "insert" /\ i \in Files /\ i \notin Hashed /\ NextFile
    BY <1>0, <1>2 DEF PassOver, InLoop, At
  <2> QED
    BY <1>0, <2>1, BeforeSkips DEF Inserted, InsertSegment
<1>3. CASE InsertEnds
  <2>1. rpc = "insert" /\ rpc' = "build" /\ i = FileCount
    BY <1>3 DEF InsertEnds, LoopEnds, At
  <2>2. ~InsertSegment
    BY <1>0, <2>1 DEF InsertSegment, InLoop
  <2> QED
    BY <1>0, <2>1, <2>2, BeforeAll DEF Inserted
<1>4. CASE rpc # "insert" /\ rpc' # "insert"
  BY <1>0, <1>4 DEF Inserted, InsertSegment, InLoop, At
<1>5. CASE rpc = "insert" /\ UNCHANGED <<i, seg, rpc>>
  <2>1. Inserted' = Inserted
    BY <1>0, <1>5 DEF Inserted, Before
  <2>2. ~InsertSegment
    BY <1>0, <1>5, SegsAreNumbers DEF InsertSegment, NextSegment, NextFile, Hashed, Files
  <2> QED
    BY <2>1, <2>2
<1>6. PassOver \/ InsertSegment \/ InsertEnds \/ (rpc # "insert" /\ rpc' # "insert")
      \/ (rpc = "insert" /\ UNCHANGED <<i, seg, rpc>>)
  <2>1. CASE UnionStep \/ TreeStep \/ TakeMatches \/ AddPair
    BY <2>1 DEF UnionStep, TreeStep, TakeMatches, AddPair
  <2>2. CASE \/ ReturnEarly \/ StartBuild \/ SkipFile \/ SearchSegment \/ UniteMatch \/ MatchesUnited
             \/ SearchEnds \/ PairPassesOver \/ FindRoot \/ PairsEnd \/ NoSuchRoot \/ UniqueFile
             \/ StartGroup \/ TryNext \/ PushGroup \/ GroupsEnd \/ Done
    BY <2>2 DEF ReturnEarly, StartBuild, SkipFile, SearchSegment, UniteMatch, MatchesUnited, SearchEnds,
       PairPassesOver, FindRoot, PairsEnd, NoSuchRoot, UniqueFile, StartGroup, TryNext, PushGroup,
       GroupsEnd, Done, InLoop, LoopEnds, At, vars
  <2>3. CASE UNCHANGED vars
    BY <2>3 DEF vars
  <2> QED
    BY <2>1, <2>2, <2>3 DEF Next
<1> QED
  BY <1>1, <1>2, <1>3, <1>4, <1>5, <1>6

(* The entries of the tree with the one that is on its way.                *)
Known == TP!Entries \cup Pending

LEMMA KnownStep ==
  ASSUME ControlOK, PartsOK, [Next]_vars
  PROVE  Known' = IF InsertSegment THEN Known \cup {<<entries[i][seg], i>>} ELSE Known
<1>0. TP!TreeTypeOK
  BY DEF PartsOK, TP!TreeInv
<1>1. CASE InsertSegment
  <2>1. /\ op = "idle" /\ entries[i][seg] \in TP!Hash /\ i \in Files
        /\ TP!InsertRoot(entries[i][seg], i) \/ TP!Insert(entries[i][seg], i)
    BY <1>1, SameTree DEF InsertSegment, InLoop, At, quiet, ControlOK, Hashed
  <2>2. CASE TP!InsertRoot(entries[i][seg], i)
    <3>1. TP!Entries' = TP!Entries \cup {<<entries[i][seg], i>>}
      BY <2>1, <2>2, BitsAreFinite, TP!InsertRootAddsEntry
    <3>2. op' = "idle"
      BY <2>1, <2>2 DEF TP!InsertRoot, TP!callVars
    <3> QED
      BY <1>1, <2>1, <3>1, <3>2 DEF Known, Pending
  <2>3. CASE TP!Insert(entries[i][seg], i)
    <3>1. op' = "insert" /\ key' = entries[i][seg] /\ file_id' = i /\ tree' = tree
      BY <2>3 DEF TP!Insert
    <3>2. TP!Entries' = TP!Entries
      BY <3>1 DEF TP!Entries, TP!Nodes
    <3> QED
      BY <1>1, <2>1, <3>1, <3>2 DEF Known, Pending
  <2> QED
    BY <2>1, <2>2, <2>3
<1>2. CASE TP!AddToNode \/ TP!Graft
  <2>1. TP!Entries' = TP!Entries \cup {<<key, file_id>>}
    BY <1>0, <1>2, BitsAreFinite, TP!AddToNodeAddsEntry, TP!GraftAddsEntry
  <2>2. op = "insert" /\ op' = "idle"
    BY <1>2 DEF TP!AddToNode, TP!Graft, TP!Return
  <2>3. ~InsertSegment
    BY <2>2 DEF InsertSegment, InLoop, At, quiet
  <2> QED
    BY <2>1, <2>2, <2>3 DEF Known, Pending
<1>3. CASE ~InsertSegment /\ UNCHANGED <<tree, file_id>> /\ (op = "insert" => UNCHANGED <<op, key>>)
           /\ (op # "insert" => op' # "insert")
  <2>1. TP!Entries' = TP!Entries
    BY <1>3 DEF TP!Entries, TP!Nodes
  <2> QED
    BY <1>3, <2>1 DEF Known, Pending
<1>4. \/ InsertSegment
      \/ TP!AddToNode \/ TP!Graft
      \/ UNCHANGED <<tree, file_id>> /\ (op = "insert" => UNCHANGED <<op, key>>) /\ (op # "insert" => op' # "insert")
  <2>1. CASE TreeStep
    <3>1. T!AddToNode \/ T!Descend \/ T!Graft \/ \E p \in stack : T!Visit(p)
      BY <2>1 DEF TreeStep
    <3>2. T!Descend => UNCHANGED <<tree, file_id, op, key>>
      BY DEF T!Descend
    <3>3. \A p : T!Visit(p) => UNCHANGED <<tree, file_id, op, key>>
      BY DEF T!Visit
    <3> QED
      BY <3>1, <3>2, <3>3, SameTree
  <2>2. CASE SearchSegment
    BY <2>2 DEF SearchSegment, T!Search
  <2>3. CASE TakeMatches
    BY <2>3 DEF TakeMatches, T!SearchDone, T!Return
  <2>4. CASE ~(InsertSegment \/ SearchSegment \/ TakeMatches \/ TreeStep)
    <3>1. UNCHANGED bkVars
      BY <2>4 DEF Next, vars, PassOver, InsertEnds, ReturnEarly, StartBuild, SkipFile,
         UniteMatch, MatchesUnited, SearchEnds, PairPassesOver, FindRoot, AddPair, PairsEnd,
         NoSuchRoot, UniqueFile, StartGroup, TryNext, PushGroup, GroupsEnd, UnionStep, Done
    <3> QED
      BY <3>1 DEF bkVars
  <2> QED
    BY <2>1, <2>2, <2>3, <2>4
<1> QED
  BY <1>1, <1>2, <1>3, <1>4

LEMMA EntriesOfMore ==
  ASSUME NEW S, NEW n, NEW s
  PROVE  EntriesOf(S \cup {<<n, s>>}) = EntriesOf(S) \cup {<<entries[n][s], n>>}
<1>1. ASSUME NEW p \in S \cup {<<n, s>>}
      PROVE  <<entries[p[1]][p[2]], p[1]>> \in EntriesOf(S) \cup {<<entries[n][s], n>>}
  BY DEF EntriesOf
<1>2. <<entries[n][s], n>> \in EntriesOf(S \cup {<<n, s>>})
  <2>1. <<n, s>>[1] = n /\ <<n, s>>[2] = s
    OBVIOUS
  <2> QED
    BY <2>1 DEF EntriesOf
<1>3. EntriesOf(S) \subseteq EntriesOf(S \cup {<<n, s>>})
  BY DEF EntriesOf
<1> QED
  BY <1>1, <1>2, <1>3 DEF EntriesOf

LEMMA TreeHoldsInit == Init => TreeHolds
<1> SUFFICES ASSUME Init PROVE TreeHolds
  OBVIOUS
<1>1. TP!Entries = {} /\ Pending = {}
  BY DEF Init, T!Init, TP!Entries, TP!Nodes, Pending
<1>2. Inserted = {}
  BY BeforeAll DEF Init, Inserted
<1> QED
  BY <1>1, <1>2 DEF TreeHolds, EntriesOf

LEMMA TreeHoldsStep ==
  ASSUME ControlOK, PartsOK, TreeHolds, [Next]_vars
  PROVE  TreeHolds'
<1>1. Known = EntriesOf(Inserted)
  BY DEF TreeHolds, Known
<1>2. Known' = EntriesOf(Inserted')
  <2>1. CASE InsertSegment
    <3>1. Known' = Known \cup {<<entries[i][seg], i>>}
      BY <2>1, KnownStep
    <3>2. Inserted' = Inserted \cup {<<i, seg>>}
      BY <2>1, InsertedStep
    <3>3. EntriesOf(Inserted \cup {<<i, seg>>}) = EntriesOf(Inserted) \cup {<<entries[i][seg], i>>}
      BY EntriesOfMore
    <3> QED
      BY <1>1, <3>1, <3>2, <3>3
  <2>2. CASE ~InsertSegment
    BY <1>1, <2>2, KnownStep, InsertedStep
  <2> QED
    BY <2>1, <2>2
<1>3. EntriesOf(Inserted)' = EntriesOf(Inserted')
  BY InputsStay DEF EntriesOf
<1> QED
  BY <1>2, <1>3 DEF TreeHolds, Known

-----------------------------------------------------------------------------
(***************************************************************************)
(* A call that is under way is alone                                       *)
(***************************************************************************)

LEMMA CallsAreKnown ==
  ASSUME PartsOK
  PROVE  op \in {"idle", "insert", "search"} /\ uf_pc \in {"idle", "find", "find_i", "find_j"}
  BY DEF PartsOK, TP!TreeInv, TP!TreeTypeOK, UP!ForestInv, UP!UnionFindTypeOK

LEMMA BusyForest ==
  ASSUME ControlOK, PartsOK, uf_pc # "idle", [Next]_vars
  PROVE  AddPair \/ UnionStep \/ UNCHANGED vars
<1>1. op = "idle"
  BY CallsAreKnown DEF ControlOK
<1>2. ~TreeStep /\ ~TakeMatches
  BY <1>1 DEF TreeStep, TakeMatches, T!AddToNode, T!Descend, T!Graft, T!Visit, T!SearchDone
<1>3. ~quiet
  BY DEF quiet
<1> QED
  BY <1>2, <1>3 DEF Next, PassOver, InsertSegment, InsertEnds, ReturnEarly, StartBuild, SkipFile,
     SearchSegment, UniteMatch, MatchesUnited, SearchEnds, PairPassesOver, FindRoot, PairsEnd,
     NoSuchRoot, UniqueFile, StartGroup, TryNext, PushGroup, GroupsEnd, Done, InLoop, LoopEnds, At

LEMMA BusyTree ==
  ASSUME ControlOK, PartsOK, op # "idle", [Next]_vars
  PROVE  TreeStep \/ TakeMatches \/ UNCHANGED vars
<1>0. uf_pc = "idle"
  BY CallsAreKnown DEF ControlOK
<1>1. ~AddPair /\ ~UnionStep
  BY <1>0 DEF AddPair, UnionStep, U!FindDone, U!Halve, U!FirstFound, U!Link
<1>2. ~quiet
  BY DEF quiet
<1> QED
  BY <1>1, <1>2 DEF Next, PassOver, InsertSegment, InsertEnds, ReturnEarly, StartBuild, SkipFile,
     SearchSegment, UniteMatch, MatchesUnited, SearchEnds, PairPassesOver, FindRoot, PairsEnd,
     NoSuchRoot, UniqueFile, StartGroup, TryNext, PushGroup, GroupsEnd, Done, InLoop, LoopEnds, At

-----------------------------------------------------------------------------
(***************************************************************************)
(* The sets                                                                *)
(***************************************************************************)

(* What a union does: it makes one of two roots the root of both sets.     *)
Joins(a, b) ==
  /\ a \in Files /\ b \in Files /\ a # b
  /\ UP!RootOf(a) = a /\ UP!RootOf(b) = b
  /\ \A x \in Files : UP!RootOf(x)' = IF UP!RootOf(x) = a THEN b ELSE UP!RootOf(x)

RootsKept == \A x \in Files : UP!RootOf(x)' = UP!RootOf(x)

LEMMA LinkOutcome ==
  ASSUME PartsOK, UP!Link
  PROVE  \/ root_i = root /\ RootsKept
         \/ \E a \in Files, b \in Files : {a, b} = {root_i, root} /\ Joins(a, b)
<1>1. CASE root_i = root
  <2>1. parent' = parent
    BY <1>1 DEF UP!Link
  <2>2. \A x : UP!RootOf(x)' = UP!RootOf(x)
    BY <2>1, FileCountAssumption, UP!OtherStepsKeepRoots
  <2> QED
    BY <1>1, <2>2 DEF RootsKept
<1>2. CASE root_i # root
  BY <1>2, FileCountAssumption, FilesAreItems, UP!LinkJoinsRoots DEF PartsOK, Joins
<1> QED
  BY <1>1, <1>2

LEMMA RootsMove ==
  ASSUME ControlOK, PartsOK, MatchesOK, [Next]_vars
  PROVE  \/ RootsKept
         \/ UP!Link /\ UnionStep /\ \E a \in Files, b \in Files : {a, b} = {root_i, root} /\ Joins(a, b)
<1>1. [UP!Next]_(UP!ufVars)
  BY ForestTakesItsSteps
<1>2. CASE UP!Halve
  BY <1>2, FileCountAssumption, FilesAreItems, UP!HalveKeepsRoots DEF PartsOK, RootsKept
<1>3. CASE UP!Link
  <2>1. UnionStep \/ UNCHANGED parent
    <3>1. uf_pc = "find_j" /\ uf_pc' = "idle"
      BY <1>3 DEF UP!Link
    <3>2. CASE AddPair
      BY <3>1, <3>2 DEF AddPair, U!FindDone
    <3>3. CASE UNCHANGED vars
      BY <3>1, <3>3 DEF vars, ufVars
    <3> QED
      BY <3>1, <3>2, <3>3, BusyForest
  <2>2. UNCHANGED parent => RootsKept
    BY FileCountAssumption, UP!OtherStepsKeepRoots DEF RootsKept
  <2> QED
    BY <1>3, <2>1, <2>2, LinkOutcome
<1>4. CASE UNCHANGED parent
  BY <1>4, FileCountAssumption, UP!OtherStepsKeepRoots DEF RootsKept
<1> QED
  BY <1>1, <1>2, <1>3, <1>4 DEF UP!Next, UP!WalkStep, UP!Find, UP!Unite, UP!FindDone, UP!FirstFound, UP!ufVars

(* No set is ever taken apart.                                             *)
LEMMA SameSetStays ==
  ASSUME ControlOK, PartsOK, MatchesOK, [Next]_vars, NEW x \in Files, NEW y \in Files, SameSet(x, y)
  PROVE  SameSet(x, y)'
<1>1. UP!RootOf(x) = UP!RootOf(y)
  BY DEF SameSet
<1>2. UP!RootOf(x)' = UP!RootOf(y)'
  BY <1>1, RootsMove DEF RootsKept, Joins
<1> QED
  BY <1>2 DEF SameSet

LEMMA ForestItems ==
  ASSUME PartsOK
  PROVE  root \in Files /\ root_i \in Files /\ arg \in Files
  BY FilesAreItems DEF PartsOK, UP!ForestInv, UP!UnionFindTypeOK

LEMMA LinkUnites ==
  ASSUME PartsOK, UP!Link
  PROVE  UP!RootOf(root_i)' = UP!RootOf(root)'
<1>1. /\ root_i' = root_i /\ root' = root
  BY DEF UP!Link
<1>2. root \in Files /\ root_i \in Files
  BY ForestItems
<1>3. CASE root_i = root
  BY <1>1, <1>3
<1>4. ASSUME NEW a \in Files, NEW b \in Files, {a, b} = {root_i, root}, Joins(a, b)
      PROVE  UP!RootOf(root_i)' = UP!RootOf(root)'
  <2>1. UP!RootOf(a)' = b /\ UP!RootOf(b)' = b
    BY <1>4 DEF Joins
  <2>2. UP!RootOf(root_i)' = b /\ UP!RootOf(root)' = b
    BY <1>1, <1>4, <2>1
  <2> QED
    BY <2>2
<1> QED
  BY <1>3, <1>4, LinkOutcome

LEMMA WalkInit == Init => WalkOK /\ MatchesOK
  BY DEF Init, T!Init, U!Init, WalkOK, MatchesOK

LEMMA WalkStep ==
  ASSUME ControlOK, PartsOK, MatchesOK, WalkOK, [Next]_vars
  PROVE  WalkOK'
<1>0. root \in Files /\ root_i \in Files /\ arg \in Files
  BY ForestItems
<1>1. CASE UnionStep
  <2>0. UNCHANGED i /\ (uf_pc \in {"find_i", "find_j"} => i \in Files)
    BY <1>1 DEF UnionStep, ControlOK, Hashed
  <2>1. CASE UP!Halve
    <3>1. UNCHANGED <<uf_pc, root_i, arg>> /\ UP!RootOf(root)' = UP!RootOf(root)
          /\ \A x \in Files : UP!RootOf(x)' = UP!RootOf(x)
      BY <2>1, FileCountAssumption, FilesAreItems, UP!HalveKeepsRoots DEF PartsOK, UP!Halve
    <3>2. uf_pc = "find_i" => UP!RootOf(i)' = UP!RootOf(i)
      BY <2>0, <3>1
    <3>3. uf_pc = "find_j" => UP!RootOf(i)' = UP!RootOf(i)
      BY <2>0, <3>1
    <3>4. UP!RootOf(root_i)' = UP!RootOf(root_i) /\ UP!RootOf(arg)' = UP!RootOf(arg)
      BY <1>0, <3>1
    <3> QED
      BY <3>1, <3>2, <3>3, <3>4 DEF WalkOK, SameSet
  <2>2. CASE UP!FirstFound
    <3>1. uf_pc = "find_i" /\ uf_pc' = "find_j" /\ root_i' = root /\ root' = arg /\ UNCHANGED <<parent, arg>>
      BY <2>2 DEF UP!FirstFound
    <3>2. \A x : UP!RootOf(x)' = UP!RootOf(x)
      BY <3>1, FileCountAssumption, UP!OtherStepsKeepRoots
    <3>3. SameSet(root, i)
      BY <3>1 DEF WalkOK
    <3>4. UP!RootOf(root_i)' = UP!RootOf(root) /\ UP!RootOf(root)' = UP!RootOf(arg)
          /\ UP!RootOf(i)' = UP!RootOf(i) /\ UP!RootOf(arg)' = UP!RootOf(arg)
      BY <2>0, <3>1, <3>2
    <3> QED
      BY <3>1, <3>3, <3>4 DEF WalkOK, SameSet
  <2>3. CASE UP!Link
    BY <2>3 DEF UP!Link, WalkOK
  <2> QED
    BY <1>1, <2>1, <2>2, <2>3, SameForest DEF UnionStep
<1>2. CASE AddPair
  BY <1>2 DEF AddPair, U!FindDone, WalkOK
<1>3. CASE UNCHANGED vars
  BY <1>3 DEF vars, ufVars, WalkOK, SameSet, UP!RootOf
<1>4. CASE UniteMatch
  BY <1>4 DEF UniteMatch, U!Unite, WalkOK, SameSet
<1>5. CASE FindRoot
  BY <1>5 DEF FindRoot, U!Find, WalkOK, SameSet
<1>6. CASE uf_pc = "idle" /\ ~UniteMatch /\ ~FindRoot
  <2>1. uf_pc' = "idle"
    BY <1>6 DEF Next, vars, ufVars, PassOver, InsertSegment, InsertEnds, ReturnEarly, StartBuild, SkipFile,
       SearchSegment, TakeMatches, MatchesUnited, SearchEnds, PairPassesOver, PairsEnd, AddPair, UnionStep,
       NoSuchRoot, UniqueFile, StartGroup, TryNext, PushGroup, GroupsEnd, TreeStep, Done,
       U!FindDone, U!Halve, U!FirstFound, U!Link
  <2> QED
    BY <2>1 DEF WalkOK
<1> QED
  BY <1>1, <1>2, <1>3, <1>4, <1>5, <1>6, BusyForest

(* A search that is over has found the files near the segment, and no      *)
(* others: every segment of a hashed file is in the tree.                  *)
LEMMA SearchFinds ==
  ASSUME ControlOK, PartsOK, TreeHolds, MatchesOK, TakeMatches
  PROVE  matches' = Near(i, seg)
<1>1. op = "search" /\ stack = {} /\ matches' = groups_out /\ rpc = "unite"
      /\ key = entries[i][seg] /\ tol = threshold
  BY DEF TakeMatches, T!SearchDone, ControlOK, MatchesOK
<1>2. groups_out = TP!Index!Matches(key, tol)
  BY <1>1, BitsAreFinite, TP!FoundTheMatches DEF PartsOK, TP!TreeInv
<1>3. TP!Entries = EntriesOf(Hashed \X Segs)
  BY <1>1 DEF TreeHolds, Pending, Inserted
<1>4. ASSUME NEW f \in Near(i, seg)
      PROVE  f \in TP!Index!Matches(key, tol)
  <2>1. PICK t \in Segs : TP!hamming_distance(entries[f][t], entries[i][seg]) <= threshold
    BY <1>4 DEF Near
  <2>2. f \in Hashed /\ f \in Files
    BY <1>4 DEF Near, Hashed
  <2>3. <<entries[f][t], f>> \in TP!Entries
    <3>1. <<f, t>> \in Hashed \X Segs /\ <<f, t>>[1] = f /\ <<f, t>>[2] = t
      BY <2>2
    <3> QED
      BY <1>3, <3>1 DEF EntriesOf
  <2>4. \E e \in TP!Entries : e[2] = f /\ TP!hamming_distance(e[1], key) <= tol
    BY <1>1, <2>1, <2>3
  <2> QED
    BY <2>2, <2>4 DEF TP!Index!Matches
<1>5. ASSUME NEW f \in TP!Index!Matches(key, tol)
      PROVE  f \in Near(i, seg)
  <2>1. PICK e \in TP!Entries : e[2] = f /\ TP!hamming_distance(e[1], key) <= tol
    BY <1>5 DEF TP!Index!Matches
  <2>2. PICK p \in Hashed \X Segs : e = <<entries[p[1]][p[2]], p[1]>>
    BY <1>3, <2>1 DEF EntriesOf
  <2>3. p[1] = f /\ e[1] = entries[f][p[2]] /\ p[2] \in Segs /\ f \in Hashed
    BY <2>1, <2>2
  <2> QED
    BY <1>1, <2>1, <2>3 DEF Near
<1> QED
  BY <1>1, <1>2, <1>4, <1>5

LEMMA NearStays ==
  ASSUME [Next]_vars
  PROVE  \A n, s : Near(n, s)' = Near(n, s)
  BY InputsStay DEF Near

LEMMA NearAreFiles == \A n, s : Near(n, s) \subseteq Files /\ Near(n, s) \subseteq Hashed
  BY DEF Near, Hashed

LEMMA MatchesStep ==
  ASSUME ControlOK, PartsOK, TreeHolds, MatchesOK, WalkOK, [Next]_vars
  PROVE  MatchesOK'
<1>0. entries' = entries /\ Near(i, seg) \subseteq Files
  BY InputsStay, NearAreFiles
<1>1. CASE UnionStep
  <2>1. UNCHANGED <<op, key, tol, i, seg, rpc, matches>>
    BY <1>1 DEF UnionStep, bkVars
  <2>2. Near(i, seg)' = Near(i, seg)
    BY <2>1, InputsStay DEF Near
  <2>3. ASSUME rpc = "unite", op # "search"
        PROVE  /\ matches' \subseteq Near(i, seg)
               /\ uf_pc' # "idle" => arg' \in Near(i, seg)
               /\ \A g \in Near(i, seg) :
                    g \in matches' \/ SameSet(i, g)' \/ (uf_pc' # "idle" /\ g = arg')
    <3>1. uf_pc # "idle" /\ arg' = arg /\ i \in Files
      BY <1>1, <2>3 DEF UnionStep, U!Halve, U!FirstFound, U!Link, ControlOK, Hashed
    <3>2. \A g \in Near(i, seg) : SameSet(i, g) => SameSet(i, g)'
      <4> SUFFICES ASSUME NEW g \in Near(i, seg), SameSet(i, g) PROVE SameSet(i, g)'
        OBVIOUS
      <4>1. SameSet(i, g)' <=> UP!RootOf(i)' = UP!RootOf(g)'
        BY DEF SameSet
      <4>2. UP!RootOf(i)' = UP!RootOf(g)'
        <5>1. UP!RootOf(i) = UP!RootOf(g)
          BY DEF SameSet
        <5>2. CASE RootsKept
          BY <1>0, <2>1, <3>1, <5>1, <5>2 DEF RootsKept
        <5>3. ASSUME NEW a, NEW b, Joins(a, b)
              PROVE  UP!RootOf(i)' = UP!RootOf(g)'
          BY <1>0, <2>1, <3>1, <5>1, <5>3 DEF Joins
        <5> QED
          BY <5>2, <5>3, RootsMove
      <4> QED
        BY <4>1, <4>2
    <3>3. CASE uf_pc' # "idle"
      BY <2>1, <2>3, <3>1, <3>2, <3>3 DEF MatchesOK
    <3>4. CASE uf_pc' = "idle"
      <4>1. UP!Link /\ uf_pc = "find_j"
        BY <1>1, <3>1, <3>4, SameForest DEF UnionStep, U!Halve, U!FirstFound, U!Link
      <4>2. SameSet(root_i, i) /\ SameSet(root, arg)
        BY <4>1 DEF WalkOK
      <4>3. SameSet(i, arg)'
        <5>1. root_i' = root_i /\ root' = root /\ arg' = arg /\ i' = i
          BY <2>1, <4>1 DEF UP!Link
        <5>2. root_i \in Files /\ root \in Files /\ arg \in Files
          BY ForestItems
        <5>3. SameSet(root_i, i)' /\ SameSet(root, arg)'
          BY <3>1, <4>2, <5>1, <5>2, SameSetStays DEF SameSet
        <5>4. UP!RootOf(root_i)' = UP!RootOf(root)'
          BY <4>1, LinkUnites
        <5> QED
          BY <5>3, <5>4 DEF SameSet
      <4> QED
        BY <2>1, <2>3, <3>1, <3>2, <3>4, <4>3 DEF MatchesOK
    <3> QED
      BY <3>3, <3>4
  <2> QED
    BY <1>0, <2>1, <2>2, <2>3 DEF MatchesOK
<1>2. CASE SearchSegment
  <2>1. op' = "search" /\ key' = entries[i][seg] /\ tol' = threshold /\ i' = i /\ seg' = seg
    BY <1>2 DEF SearchSegment, T!Search
  <2>2. key' = entries'[i'][seg']
    BY <1>0, <2>1
  <2> QED
    BY <2>1, <2>2 DEF MatchesOK
<1>3. CASE TreeStep
  <2>1. UNCHANGED <<i, seg, rpc, entries>>
    BY <1>3 DEF TreeStep, inVars
  <2>2. CASE \E p \in stack : T!Visit(p)
    BY <2>1, <2>2 DEF T!Visit, MatchesOK
  <2>3. CASE T!AddToNode \/ T!Descend \/ T!Graft
    BY <2>1, <2>3 DEF T!AddToNode, T!Descend, T!Graft, T!Return, ControlOK, MatchesOK
  <2> QED
    BY <1>3, <2>2, <2>3 DEF TreeStep
<1>4. CASE TakeMatches
  <2>1. op' = "idle" /\ UNCHANGED <<i, seg, uf_pc>> /\ uf_pc = "idle"
    BY <1>4 DEF TakeMatches, T!SearchDone, T!Return, ControlOK, ufVars
  <2>2. matches' = Near(i, seg) /\ Near(i, seg)' = Near(i, seg)
    BY <1>4, <2>1, SearchFinds, InputsStay DEF Near
  <2> QED
    BY <2>1, <2>2 DEF MatchesOK
<1>5. CASE UniteMatch
  <2>1. /\ op = "idle" /\ op' = "idle" /\ rpc = "unite" /\ uf_pc = "idle"
        /\ UNCHANGED <<i, seg, parent>>
    BY <1>5 DEF UniteMatch, At, quiet, bkVars, U!Unite
  <2>2. PICK g \in matches : arg' = g /\ uf_pc' = "find_i" /\ matches' = matches \ {g}
    BY <1>5 DEF UniteMatch, U!Unite
  <2>3. Near(i, seg)' = Near(i, seg)
    BY <2>1, InputsStay DEF Near
  <2>4. \A h : SameSet(i, h)' <=> SameSet(i, h)
    BY <2>1 DEF SameSet, UP!RootOf
  <2>5. matches \subseteq Near(i, seg) /\ \A h \in Near(i, seg) : h \in matches \/ SameSet(i, h)
    BY <2>1 DEF MatchesOK
  <2> QED
    BY <2>1, <2>2, <2>3, <2>4, <2>5 DEF MatchesOK
<1>6. CASE InsertSegment
  BY <1>6 DEF InsertSegment, InLoop, At, quiet, T!InsertRoot, T!Insert, T!callVars, MatchesOK
<1>7. CASE AddPair
  BY <1>7 DEF AddPair, U!FindDone, bkVars, MatchesOK, ControlOK
<1>8. CASE \/ PassOver \/ InsertEnds \/ ReturnEarly \/ StartBuild \/ SkipFile \/ MatchesUnited
           \/ SearchEnds \/ PairPassesOver \/ FindRoot \/ PairsEnd \/ NoSuchRoot \/ UniqueFile
           \/ StartGroup \/ TryNext \/ PushGroup \/ GroupsEnd
  <2>1. op' = "idle" /\ rpc' # "unite"
    BY <1>8 DEF PassOver, InsertEnds, ReturnEarly, StartBuild, SkipFile, MatchesUnited, SearchEnds,
       PairPassesOver, FindRoot, PairsEnd, NoSuchRoot, UniqueFile, StartGroup, TryNext, PushGroup,
       GroupsEnd, InLoop, LoopEnds, At, quiet, bkVars
  <2> QED
    BY <2>1 DEF MatchesOK
<1>9. CASE Done \/ UNCHANGED vars
  <2>1. UNCHANGED <<i, seg, rpc, matches, results, entries>>
    BY <1>9 DEF Done, vars, inVars
  <2>2. UNCHANGED <<op, key, tol>>
    BY <1>9 DEF Done, vars, bkVars
  <2>3. UNCHANGED <<uf_pc, arg, parent>>
    BY <1>9 DEF Done, vars, ufVars
  <2>4. Near(i, seg)' = Near(i, seg)
    BY <2>1 DEF Near, Hashed
  <2>5. \A h : SameSet(i, h)' <=> SameSet(i, h)
    BY <2>1, <2>3 DEF SameSet, UP!RootOf
  <2> QED
    BY <2>1, <2>2, <2>3, <2>4, <2>5 DEF MatchesOK
<1> QED
  BY <1>1, <1>2, <1>3, <1>4, <1>5, <1>6, <1>7, <1>8, <1>9 DEF Next

-----------------------------------------------------------------------------
(***************************************************************************)
(* Nothing similar is left apart                                           *)
(***************************************************************************)

LEMMA NothingApartInit == Init => NothingApart
  BY DEF Init, NothingApart, Searched

(* The loop over the segments goes on only when all matches are united.    *)
LEMMA SearchedStep ==
  ASSUME ControlOK, PartsOK, TreeHolds, MatchesOK, [Next]_vars
  PROVE  Searched' = Searched \/ (MatchesUnited /\ Searched' = Searched \cup {<<i, seg>>})
<1>0. Hashed' = Hashed /\ FileCount \in Nat \ {0} /\ i \in 0 .. FileCount /\ seg \in Segs
      /\ (i < FileCount => i \in Files)
  BY InputsStay, FileCountAssumption DEF ControlOK, Files
<1>1. CASE MatchesUnited
  <2>1. rpc = "unite" /\ rpc' = "search" /\ i \in Hashed /\ NextSegment
    BY <1>1 DEF MatchesUnited, At, ControlOK
  <2> QED
    BY <1>0, <1>1, <2>1, BeforeGrows DEF Searched
<1>2. CASE SkipFile
  <2>1. rpc = "search" /\ rpc' = "search" /\ i \in Files /\ i \notin Hashed /\ NextFile
    BY <1>0, <1>2 DEF SkipFile, InLoop, At
  <2> QED
    BY <1>0, <2>1, BeforeSkips DEF Searched
<1>3. CASE SearchEnds
  <2>1. rpc = "search" /\ rpc' = "pairs" /\ i = FileCount
    BY <1>3 DEF SearchEnds, LoopEnds, At
  <2> QED
    BY <1>0, <2>1, BeforeAll DEF Searched
<1>4. CASE StartBuild
  <2>1. rpc = "build" /\ rpc' = "search" /\ i' = i /\ seg' = seg /\ i = 0 /\ seg = 0
    BY <1>4 DEF StartBuild, At, ControlOK
  <2>2. Searched = {} /\ Searched' = Before(i, seg)'
    BY <2>1 DEF Searched
  <2>3. Before(i, seg)' = Before(0, 0)
    BY <1>0, <2>1 DEF Before
  <2> QED
    BY <2>2, <2>3, BeforeAll
<1>5. CASE ReturnEarly
  <2>1. rpc = "build" /\ rpc' = "done" /\ T!Nodes = {} /\ op = "idle"
    BY <1>5 DEF ReturnEarly, At, quiet
  <2>2. EntriesOf(Hashed \X Segs) = {}
    BY <2>1, SameTree DEF TreeHolds, TP!Entries, Pending, Inserted
  <2>3. Hashed \X Segs = {}
    BY <2>2 DEF EntriesOf
  <2> QED
    BY <1>0, <2>1, <2>3 DEF Searched
<1>6. CASE InsertSegment \/ PassOver \/ InsertEnds
  BY <1>6 DEF InsertSegment, PassOver, InsertEnds, InLoop, LoopEnds, At, Searched
<1>7. CASE rpc \in {"search", "unite"} /\ rpc' \in {"search", "unite"} /\ UNCHANGED <<i, seg>>
  BY <1>0, <1>7 DEF Searched, Before
<1>8. CASE rpc \in {"pairs", "group", "elect", "done"} /\ rpc' \in {"pairs", "group", "elect", "done"}
  BY <1>0, <1>8 DEF Searched
<1>9. CASE UNCHANGED <<i, seg, rpc>>
  BY <1>0, <1>9 DEF Searched, Before
<1>10. CASE SearchSegment \/ UniteMatch
  BY <1>7, <1>10 DEF SearchSegment, UniteMatch, InLoop, At
<1>11. CASE PairPassesOver \/ FindRoot \/ PairsEnd \/ NoSuchRoot \/ UniqueFile \/ StartGroup
            \/ TryNext \/ PushGroup \/ GroupsEnd
  BY <1>8, <1>11 DEF PairPassesOver, FindRoot, PairsEnd, NoSuchRoot, UniqueFile, StartGroup, TryNext,
     PushGroup, GroupsEnd, InLoop, LoopEnds, At
<1>12. CASE TakeMatches \/ AddPair \/ TreeStep \/ UnionStep \/ Done \/ UNCHANGED vars
  BY <1>9, <1>12 DEF TakeMatches, AddPair, TreeStep, UnionStep, Done, vars
<1> QED
  BY <1>1, <1>2, <1>3, <1>4, <1>5, <1>6, <1>10, <1>11, <1>12 DEF Next

LEMMA NothingApartStep ==
  ASSUME ControlOK, PartsOK, TreeHolds, MatchesOK, NothingApart, [Next]_vars
  PROVE  NothingApart'
<1>1. \A p \in Searched' : \A g \in Near(p[1], p[2]) : SameSet(p[1], g)
  <2>1. CASE MatchesUnited
    <3>1. rpc = "unite" /\ op # "search" /\ uf_pc = "idle" /\ matches = {}
      BY <2>1 DEF MatchesUnited, At, quiet
    <3>2. \A g \in Near(i, seg) : SameSet(i, g)
      BY <3>1 DEF MatchesOK
    <3>3. \A p \in {<<i, seg>>} : \A g \in Near(p[1], p[2]) : SameSet(p[1], g)
      BY <3>2
    <3> QED
      BY <3>3, SearchedStep DEF NothingApart
  <2>2. CASE ~MatchesUnited
    BY <2>2, SearchedStep DEF NothingApart
  <2> QED
    BY <2>1, <2>2
<1>2. \A p \in Searched' : p[1] \in Files
  BY InputsStay DEF Searched, Before, Hashed
<1>3. ASSUME NEW p \in Searched', NEW g \in Near(p[1], p[2])
      PROVE  SameSet(p[1], g)'
  <2>1. p[1] \in Files /\ g \in Files /\ SameSet(p[1], g)
    BY <1>1, <1>2, <1>3, NearAreFiles
  <2> QED
    BY <2>1, SameSetStays
<1>4. \A n, s : Near(n, s)' = Near(n, s)
  BY NearStays
<1> QED
  BY <1>3, <1>4 DEF NothingApart

-----------------------------------------------------------------------------
(***************************************************************************)
(* And nothing else is together                                            *)
(***************************************************************************)

LEMMA NearIsSimilar ==
  ASSUME ControlOK, rpc = "unite", NEW g \in Near(i, seg)
  PROVE  Similar(i, g) /\ Similar(g, i)
<1>1. PICK t \in Segs : TP!hamming_distance(entries[g][t], entries[i][seg]) <= threshold
  BY DEF Near
<1>2. g \in Files /\ i \in Files /\ seg \in Segs
  BY DEF ControlOK, Near, Hashed
<1>3. entries[g][t] \in TP!Hash /\ entries[i][seg] \in TP!Hash
  BY <1>1, <1>2 DEF ControlOK
<1>4. TP!hamming_distance(entries[i][seg], entries[g][t]) <= threshold
  BY <1>1, <1>3, BitsAreFinite, TP!DistanceIsSymmetric
<1> QED
  BY <1>1, <1>2, <1>4, SameDistance DEF Similar

(* Two sets that cannot be cut, similar in one place, cannot be cut        *)
(* together.                                                               *)
LEMMA JoinedCannotBeCut ==
  ASSUME NEW A, NEW B, CannotCut(A), CannotCut(B),
         NEW f \in A, NEW g \in B, Similar(f, g), Similar(g, f)
  PROVE  CannotCut(A \cup B)
<1> SUFFICES ASSUME NEW part \in SUBSET (A \cup B), part # {}, part # A \cup B
             PROVE  \E x \in part, y \in (A \cup B) \ part : Similar(x, y)
  BY DEF CannotCut
<1>1. CASE A \cap part # {} /\ A \cap part # A
  <2>1. \E x \in A \cap part, y \in A \ (A \cap part) : Similar(x, y)
    BY <1>1 DEF CannotCut
  <2> QED
    BY <2>1
<1>2. CASE B \cap part # {} /\ B \cap part # B
  <2>1. \E x \in B \cap part, y \in B \ (B \cap part) : Similar(x, y)
    BY <1>2 DEF CannotCut
  <2> QED
    BY <2>1
<1>3. CASE A \cap part = A /\ B \cap part = {}
  BY <1>3
<1>4. CASE A \cap part = {} /\ B \cap part = B
  BY <1>4
<1> QED
  BY <1>1, <1>2, <1>3, <1>4

LEMMA SetsInit == Init => SetsOK
<1> SUFFICES ASSUME Init, NEW x \in Files
             PROVE  CannotCut(UP!SetOf(x)) /\ (UP!SetOf(x) \subseteq Hashed \/ UP!SetOf(x) = {x})
  BY DEF SetsOK
<1>1. UP!ForestInv /\ \A y \in Files : parent[y] = y
  BY PartsInit, SameForest, FilesAreItems DEF PartsOK, Init, UP!Init
<1>2. \A y \in Files : UP!RootOf(y) = y
  BY <1>1, FileCountAssumption, FilesAreItems, UP!RootsOfForest
<1>3. UP!SetOf(x) = {x}
  BY <1>2, FilesAreItems DEF UP!SetOf
<1> QED
  BY <1>3 DEF CannotCut

LEMMA SetsOKStep ==
  ASSUME ControlOK, PartsOK, MatchesOK, WalkOK, SetsOK, [Next]_vars
  PROVE  SetsOK'
<1>0. Hashed' = Hashed /\ entries' = entries
  BY InputsStay
<1>1. \A S : CannotCut(S)' <=> CannotCut(S)
  BY <1>0 DEF CannotCut, Similar
<1>2. CASE RootsKept
  <2>1. \A x \in UP!Items : UP!RootOf(x)' = UP!RootOf(x)
    BY <1>2, FilesAreItems DEF RootsKept
  <2>2. \A x \in Files : UP!SetOf(x)' = UP!SetOf(x)
    BY <2>1, FileCountAssumption, FilesAreItems, UP!SetsStay
  <2> QED
    BY <1>0, <1>1, <2>2 DEF SetsOK
<1>3. ASSUME UP!Link, UnionStep, NEW a \in Files, NEW b \in Files, {a, b} = {root_i, root}, Joins(a, b)
      PROVE  SetsOK'
  <2>1. /\ uf_pc = "find_j" /\ rpc = "unite" /\ op # "search" /\ i \in Hashed /\ i \in Files
        /\ arg \in Near(i, seg)
    BY <1>3 DEF UP!Link, ControlOK, MatchesOK, Hashed
  <2>2. SameSet(root_i, i) /\ SameSet(root, arg) /\ arg \in Hashed /\ arg \in Files
    BY <2>1, NearAreFiles DEF WalkOK
  <2>3. Similar(i, arg) /\ Similar(arg, i)
    BY <2>1, NearIsSimilar
  <2>4. i \in UP!SetOf(root_i) /\ arg \in UP!SetOf(root)
    BY <2>1, <2>2, FilesAreItems DEF SameSet, UP!SetOf
  <2>5. root_i \in Files /\ root \in Files
    BY ForestItems
  <2>6. UP!SetOf(root_i) \subseteq Hashed /\ UP!SetOf(root) \subseteq Hashed
    BY <2>1, <2>2, <2>4, <2>5 DEF SetsOK
  <2>7. CannotCut(UP!SetOf(root_i) \cup UP!SetOf(root))
    <3>1. CannotCut(UP!SetOf(root_i)) /\ CannotCut(UP!SetOf(root))
      BY <2>5 DEF SetsOK
    <3> QED
      BY <2>3, <2>4, <3>1, JoinedCannotBeCut
  <2>8. UP!SetOf(a) \cup UP!SetOf(b) = UP!SetOf(root_i) \cup UP!SetOf(root)
    BY <1>3
  <2>9. \A x \in Files :
          UP!SetOf(x)' = IF UP!RootOf(x) \in {a, b} THEN UP!SetOf(a) \cup UP!SetOf(b) ELSE UP!SetOf(x)
    <3>1. /\ a \in UP!Items /\ b \in UP!Items /\ a # b /\ UP!RootOf(a) = a /\ UP!RootOf(b) = b
          /\ \A x \in UP!Items : UP!RootOf(x)' = IF UP!RootOf(x) = a THEN b ELSE UP!RootOf(x)
      BY <1>3, FilesAreItems DEF Joins
    <3> QED
      BY <3>1, FileCountAssumption, FilesAreItems, UP!SetsMerge
  <2>10. ASSUME NEW x \in Files
         PROVE  CannotCut(UP!SetOf(x)') /\ (UP!SetOf(x)' \subseteq Hashed \/ UP!SetOf(x)' = {x})
    <3>1. CASE UP!RootOf(x) \in {a, b}
      <4>1. UP!SetOf(x)' = UP!SetOf(root_i) \cup UP!SetOf(root)
        BY <2>8, <2>9, <3>1
      <4> QED
        BY <2>6, <2>7, <4>1
    <3>2. CASE UP!RootOf(x) \notin {a, b}
      BY <2>9, <3>2 DEF SetsOK
    <3> QED
      BY <3>1, <3>2
  <2>11. \A x \in Files : CannotCut(UP!SetOf(x))' <=> CannotCut(UP!SetOf(x)')
    BY <1>0 DEF CannotCut, Similar
  <2> QED
    BY <1>0, <2>10, <2>11 DEF SetsOK
<1> QED
  BY <1>2, <1>3, RootsMove

-----------------------------------------------------------------------------
(***************************************************************************)
(* The output                                                              *)
(***************************************************************************)

LEMMA TreeRests ==
  ASSUME ControlOK, PartsOK, rpc # "insert", [Next]_vars
  PROVE  tree' = tree /\ TP!Nodes' = TP!Nodes
<1>1. CASE op # "idle"
  <2>1. op = "search"
    BY <1>1, CallsAreKnown DEF ControlOK
  <2>2. TreeStep => tree' = tree
    BY <2>1 DEF TreeStep, T!AddToNode, T!Graft, T!Descend, T!Visit
  <2>3. TakeMatches => tree' = tree
    BY DEF TakeMatches, T!SearchDone
  <2>4. UNCHANGED vars => tree' = tree
    BY DEF vars, bkVars
  <2> QED
    BY <1>1, <2>2, <2>3, <2>4, BusyTree DEF TP!Nodes
<1>2. CASE op = "idle"
  <2>1. ~TreeStep /\ ~TakeMatches /\ ~InsertSegment
    BY <1>2 DEF TreeStep, TakeMatches, T!AddToNode, T!Descend, T!Graft, T!Visit, T!SearchDone,
       InsertSegment, InLoop, At
  <2>2. CASE SearchSegment
    BY <2>2 DEF SearchSegment, T!Search, TP!Nodes
  <2>3. CASE ~SearchSegment
    <3>1. UNCHANGED bkVars
      BY <2>1, <2>3 DEF Next, vars, PassOver, InsertEnds, ReturnEarly, StartBuild, SkipFile,
         UniteMatch, MatchesUnited, SearchEnds, PairPassesOver, FindRoot, AddPair, PairsEnd,
         NoSuchRoot, UniqueFile, StartGroup, TryNext, PushGroup, GroupsEnd, UnionStep, Done
    <3> QED
      BY <3>1 DEF bkVars, TP!Nodes
  <2> QED
    BY <2>2, <2>3
<1> QED
  BY <1>1, <1>2

LEMMA TreeIsThereStep ==
  ASSUME ControlOK, PartsOK, TreeIsThere, [Next]_vars
  PROVE  TreeIsThere'
<1>1. CASE rpc \in {"search", "unite", "pairs", "group", "elect"}
  <2>1. TP!Nodes' = TP!Nodes
    BY <1>1, TreeRests
  <2> QED
    BY <1>1, <2>1 DEF TreeIsThere
<1>2. CASE StartBuild
  <2>1. TP!Nodes # {} /\ TP!Nodes' = TP!Nodes
    BY <1>2, SameTree, TreeRests DEF StartBuild, At
  <2> QED
    BY <2>1 DEF TreeIsThere
<1>3. CASE rpc' \notin {"search", "unite", "pairs", "group", "elect"}
  BY <1>3 DEF TreeIsThere
<1>4. \/ rpc \in {"search", "unite", "pairs", "group", "elect"} \/ StartBuild
      \/ rpc' \notin {"search", "unite", "pairs", "group", "elect"}
  <2>1. rpc \in {"insert", "build", "done", "search", "unite", "pairs", "group", "elect"}
    BY DEF ControlOK
  <2>2. CASE rpc \in {"insert", "build", "done"} /\ ~StartBuild
    <3>1. rpc' = rpc \/ InsertEnds \/ ReturnEarly
      BY <2>2 DEF Next, vars, PassOver, InsertSegment, SkipFile, SearchSegment, TakeMatches, UniteMatch,
         MatchesUnited, SearchEnds, PairPassesOver, FindRoot, AddPair, PairsEnd, NoSuchRoot, UniqueFile,
         StartGroup, TryNext, PushGroup, GroupsEnd, TreeStep, UnionStep, Done, InLoop, LoopEnds, At
    <3> QED
      BY <2>2, <3>1 DEF InsertEnds, ReturnEarly, LoopEnds, At
  <2> QED
    BY <2>1, <2>2
<1> QED
  BY <1>1, <1>2, <1>3, <1>4

(* A report that is given up early had nothing to report.                  *)
LEMMA NothingHashed ==
  ASSUME ControlOK, TreeHolds, rpc # "insert", TP!Nodes = {}
  PROVE  Hashed = {}
<1>1. op # "insert"
  BY DEF ControlOK
<1>2. EntriesOf(Hashed \X Segs) = {}
  BY <1>1 DEF TreeHolds, TP!Entries, Pending, Inserted
<1>3. \A f \in Hashed : <<f, 0>> \notin Hashed \X Segs
  BY <1>2 DEF EntriesOf
<1> QED
  BY <1>3, SegsAreNumbers

LEMMA SkippedStep ==
  ASSUME ControlOK, PartsOK, TreeHolds, TreeIsThere, SkippedOK, [Next]_vars
  PROVE  SkippedOK'
<1>0. Hashed' = Hashed /\ FileCount \in Nat \ {0} /\ i \in 0 .. FileCount /\ seg \in Segs
      /\ Files = 0 .. FileCount - 1 /\ Hashed \subseteq Files
  BY InputsStay, FileCountAssumption DEF ControlOK, Files, Hashed
<1> DEFINE Over(f) == \/ rpc \in {"search", "unite"} /\ f < i
                      \/ rpc \in {"pairs", "group", "elect"}
                      \/ Finished
<1>1. CASE SkipFile
  <2>1. rpc = "search" /\ rpc' = rpc /\ i < FileCount /\ i \notin Hashed /\ i' = i + 1
        /\ skipped' = skipped \cup {i}
    BY <1>1 DEF SkipFile, InLoop, At, NextFile
  <2> QED
    BY <1>0, <2>1 DEF SkippedOK, Finished
<1>2. CASE MatchesUnited
  <2>1. rpc = "unite" /\ rpc' = "search" /\ i \in Hashed /\ i' \in {i, i + 1} /\ skipped' = skipped
    BY <1>2 DEF MatchesUnited, At, NextSegment, NextFile, outVars, ControlOK
  <2>2. \A f \in Files \ Hashed : f < i' <=> f < i
    BY <1>0, <2>1
  <2> QED
    BY <1>0, <2>1, <2>2 DEF SkippedOK, Finished
<1>3. CASE SearchEnds
  <2>1. rpc = "search" /\ rpc' = "pairs" /\ i = FileCount /\ skipped' = skipped
    BY <1>3 DEF SearchEnds, LoopEnds, At, outVars
  <2> QED
    BY <1>0, <2>1 DEF SkippedOK, Finished
<1>4. CASE StartBuild
  <2>1. rpc = "build" /\ rpc' = "search" /\ i' = 0 /\ skipped' = skipped
    BY <1>4 DEF StartBuild, At, outVars, ControlOK
  <2> QED
    BY <1>0, <2>1 DEF SkippedOK, Finished
<1>5. CASE ReturnEarly
  <2>1. rpc = "build" /\ rpc' = "done" /\ skipped' = skipped /\ TP!Nodes' = {}
    BY <1>5, SameTree, TreeRests DEF ReturnEarly, At, outVars
  <2> QED
    BY <1>0, <2>1 DEF SkippedOK, Finished
<1>6. CASE GroupsEnd
  <2>1. rpc = "group" /\ rpc' = "done" /\ skipped' = skipped /\ TP!Nodes' # {}
    BY <1>6, TreeRests DEF GroupsEnd, LoopEnds, At, outVars, TreeIsThere
  <2> QED
    BY <1>0, <2>1 DEF SkippedOK, Finished
<1>7. CASE InsertSegment \/ PassOver \/ InsertEnds
  <2>1. rpc = "insert" /\ rpc' \in {"insert", "build"} /\ skipped' = skipped
    BY <1>7 DEF InsertSegment, PassOver, InsertEnds, InLoop, LoopEnds, At, outVars
  <2> QED
    BY <1>0, <2>1 DEF SkippedOK, Finished
<1>8. CASE SearchSegment \/ UniteMatch
  <2>1. rpc \in {"search", "unite"} /\ rpc' = "unite" /\ i' = i /\ skipped' = skipped
    BY <1>8 DEF SearchSegment, UniteMatch, InLoop, At, outVars
  <2> QED
    BY <1>0, <2>1 DEF SkippedOK, Finished
<1>9. CASE PairPassesOver \/ FindRoot \/ PairsEnd \/ NoSuchRoot \/ UniqueFile \/ StartGroup
           \/ TryNext \/ PushGroup
  <2>1. rpc \in {"pairs", "group", "elect"} /\ rpc' \in {"pairs", "group", "elect"} /\ skipped' = skipped
    BY <1>9 DEF PairPassesOver, FindRoot, PairsEnd, NoSuchRoot, UniqueFile, StartGroup, TryNext,
       PushGroup, InLoop, LoopEnds, At, outVars
  <2> QED
    BY <1>0, <2>1 DEF SkippedOK, Finished
<1>10. CASE TakeMatches \/ AddPair \/ TreeStep \/ UnionStep \/ Done \/ UNCHANGED vars
  <2>1. UNCHANGED <<rpc, i, skipped>>
    BY <1>10 DEF TakeMatches, AddPair, TreeStep, UnionStep, Done, vars, outVars
  <2>2. rpc = "done" => TP!Nodes' = TP!Nodes
    BY TreeRests
  <2> QED
    BY <1>0, <2>1, <2>2 DEF SkippedOK, Finished
<1> QED
  BY <1>1, <1>2, <1>3, <1>4, <1>5, <1>6, <1>7, <1>8, <1>9, <1>10 DEF Next

LEMMA PairedStep ==
  ASSUME ControlOK, PartsOK, TreeHolds, [Next]_vars
  PROVE  Paired' = IF AddPair THEN Paired \cup {arg} ELSE Paired
<1>0. Hashed' = Hashed /\ FileCount \in Nat \ {0} /\ i \in 0 .. FileCount
      /\ Files = 0 .. FileCount - 1 /\ Hashed \subseteq Files
  BY InputsStay, FileCountAssumption DEF ControlOK, Files, Hashed
<1>1. CASE AddPair
  <2>1. rpc = "pairs" /\ rpc' = rpc /\ i' = i /\ uf_pc = "find" /\ uf_pc' = "idle" /\ arg \in Hashed /\ arg < i
    BY <1>1 DEF AddPair, U!FindDone, ControlOK
  <2> QED
    BY <1>0, <1>1, <2>1 DEF Paired
<1>2. CASE FindRoot
  <2>1. rpc = "pairs" /\ rpc' = rpc /\ i' = i + 1 /\ uf_pc = "idle" /\ uf_pc' = "find" /\ arg' = i
    BY <1>2 DEF FindRoot, U!Find, InLoop, At, quiet, NextFile
  <2>2. ~AddPair
    BY <2>1 DEF AddPair, U!FindDone
  <2> QED
    BY <1>0, <2>1, <2>2 DEF Paired
<1>3. CASE PairPassesOver
  <2>1. rpc = "pairs" /\ rpc' = rpc /\ i' = i + 1 /\ uf_pc = "idle" /\ uf_pc' = "idle" /\ i \notin Hashed
    BY <1>3 DEF PairPassesOver, InLoop, At, quiet, NextFile, ufVars
  <2>2. ~AddPair
    BY <2>1 DEF AddPair, U!FindDone
  <2> QED
    BY <1>0, <2>1, <2>2 DEF Paired
<1>4. CASE SearchEnds
  <2>1. rpc = "search" /\ rpc' = "pairs" /\ i' = 0 /\ uf_pc = "idle"
    BY <1>4 DEF SearchEnds, LoopEnds, At, quiet
  <2>2. ~AddPair
    BY <2>1 DEF AddPair, U!FindDone
  <2> QED
    BY <1>0, <2>1, <2>2 DEF Paired
<1>5. CASE PairsEnd
  <2>1. rpc = "pairs" /\ rpc' = "group" /\ i = FileCount /\ uf_pc = "idle"
    BY <1>5 DEF PairsEnd, LoopEnds, At, quiet
  <2>2. ~AddPair
    BY <2>1 DEF AddPair, U!FindDone
  <2> QED
    BY <1>0, <2>1, <2>2 DEF Paired
<1>6. CASE ReturnEarly
  <2>1. rpc = "build" /\ rpc' = "done" /\ TP!Nodes = {} /\ uf_pc = "idle"
    BY <1>6, SameTree DEF ReturnEarly, At, quiet
  <2>2. ~AddPair
    BY <2>1 DEF AddPair, U!FindDone
  <2> QED
    BY <1>0, <2>1, <2>2, NothingHashed DEF Paired
<1>7. CASE InsertSegment \/ PassOver \/ InsertEnds \/ StartBuild \/ SkipFile \/ SearchSegment
           \/ UniteMatch \/ MatchesUnited
  <2>1. /\ rpc \in {"insert", "build", "search", "unite"} /\ rpc' \in {"insert", "build", "search", "unite"}
        /\ uf_pc = "idle"
    BY <1>7 DEF InsertSegment, PassOver, InsertEnds, StartBuild, SkipFile, SearchSegment, UniteMatch,
       MatchesUnited, InLoop, LoopEnds, At, quiet
  <2>2. ~AddPair
    BY <2>1 DEF AddPair, U!FindDone
  <2> QED
    BY <1>0, <2>1, <2>2 DEF Paired
<1>8. CASE NoSuchRoot \/ UniqueFile \/ StartGroup \/ TryNext \/ PushGroup \/ GroupsEnd
  <2>1. /\ rpc \in {"group", "elect", "done"} /\ rpc' \in {"group", "elect", "done"} /\ uf_pc = "idle"
    BY <1>8 DEF NoSuchRoot, UniqueFile, StartGroup, TryNext, PushGroup, GroupsEnd, InLoop, LoopEnds, At, quiet
  <2>2. ~AddPair
    BY <2>1 DEF AddPair, U!FindDone
  <2> QED
    BY <1>0, <2>1, <2>2 DEF Paired
<1>9. CASE ~AddPair /\ (TakeMatches \/ TreeStep \/ UnionStep \/ Done \/ UNCHANGED vars)
  <2>1. UNCHANGED <<rpc, i>> /\ (UNCHANGED <<uf_pc, arg>> \/ UnionStep)
    BY <1>9 DEF TakeMatches, TreeStep, UnionStep, Done, vars, ufVars
  <2>2. UnionStep => UNCHANGED arg /\ (uf_pc = "find" <=> uf_pc' = "find")
    BY DEF UnionStep, U!Halve, U!FirstFound, U!Link
  <2> QED
    BY <1>0, <1>9, <2>1, <2>2 DEF Paired
<1> QED
  BY <1>1, <1>2, <1>3, <1>4, <1>5, <1>6, <1>7, <1>8, <1>9 DEF Next

LEMMA PairsStep ==
  ASSUME ControlOK, PartsOK, TreeHolds, MatchesOK, WalkOK, PairsOK, [Next]_vars
  PROVE  PairsOK'
<1>0. Hashed' = Hashed /\ Paired \subseteq Hashed /\ Hashed \subseteq Files
  BY InputsStay DEF Paired, Hashed
<1>1. CASE AddPair
  <2>1. pairs' = pairs \cup {<<arg, root>>} /\ parent' = parent /\ parent[root] = root /\ uf_pc = "find"
    BY <1>1 DEF AddPair, U!FindDone, U!AtRoot
  <2>2. UP!RootOf(arg) = root
    <3>1. UP!RootOf(root) = root
      BY <2>1, ForestItems, FileCountAssumption, FilesAreItems, UP!RootsOfForest DEF PartsOK
    <3> QED
      BY <2>1, <3>1 DEF WalkOK, SameSet
  <2>3. \A x : UP!RootOf(x)' = UP!RootOf(x)
    BY <2>1, FileCountAssumption, UP!OtherStepsKeepRoots
  <2>4. Paired' = Paired \cup {arg}
    BY <1>1, PairedStep
  <2>5. pairs' = {<<f, UP!RootOf(f)>> : f \in Paired \cup {arg}}
    BY <2>1, <2>2 DEF PairsOK
  <2> QED
    BY <2>3, <2>4, <2>5 DEF PairsOK
<1>2. CASE ~AddPair
  <2>1. pairs' = pairs
    BY <1>2 DEF Next, vars, outVars, PassOver, InsertSegment, InsertEnds, ReturnEarly, StartBuild, SkipFile,
       SearchSegment, TakeMatches, UniteMatch, MatchesUnited, SearchEnds, PairPassesOver, FindRoot, PairsEnd,
       NoSuchRoot, UniqueFile, StartGroup, TryNext, PushGroup, GroupsEnd, TreeStep, UnionStep, Done
  <2>2. Paired' = Paired
    BY <1>2, PairedStep
  <2>3. \A f \in Paired : UP!RootOf(f)' = UP!RootOf(f)
    <3>1. CASE RootsKept
      BY <1>0, <3>1 DEF RootsKept
    <3>2. CASE UP!Link
      BY <3>2 DEF UP!Link, ControlOK, Paired
    <3> QED
      BY <3>1, <3>2, RootsMove
  <2> QED
    BY <2>1, <2>2, <2>3 DEF PairsOK
<1> QED
  BY <1>1, <1>2

-----------------------------------------------------------------------------
(***************************************************************************)
(* The groups                                                              *)
(***************************************************************************)

LEMMA WithRootIsFinite == \A r : IsFiniteSet(WithRoot(r)) /\ WithRoot(r) \subseteq Files
<1>1. IsFiniteSet(Files)
  BY FileCountAssumption, FS_Interval DEF Files
<1> QED
  BY <1>1, FS_Subset DEF WithRoot

LEMMA FewWithRoot ==
  /\ \A r : WithRoot(r) = {} => Cardinality(WithRoot(r)) = 0
  /\ \A r : Cardinality(WithRoot(r)) = 1 => \E x \in Files : WithRoot(r) = {x}
  /\ \A r, x : WithRoot(r) = {x} => Cardinality(WithRoot(r)) = 1
  /\ \A r : Cardinality(WithRoot(r)) \in Nat /\ (WithRoot(r) # {} => Cardinality(WithRoot(r)) >= 1)
<1>1. \A r : Cardinality(WithRoot(r)) \in Nat
  BY WithRootIsFinite, FS_CardinalityType
<1>2. \A r : WithRoot(r) = {} <=> Cardinality(WithRoot(r)) = 0
  BY WithRootIsFinite, FS_EmptySet
<1>3. \A r : Cardinality(WithRoot(r)) = 1 => \E x : WithRoot(r) = {x}
  BY WithRootIsFinite, FS_Singleton
<1>4. \A r, x : WithRoot(r) = {x} => Cardinality(WithRoot(r)) = 1
  BY FS_Singleton
<1>5. \A r : Cardinality(WithRoot(r)) = 1 => \E x \in Files : WithRoot(r) = {x}
  BY <1>3, WithRootIsFinite
<1> QED
  BY <1>1, <1>2, <1>4, <1>5

(* A file has one root.                                                    *)
LEMMA RootsApart ==
  ASSUME PairsOK
  PROVE  \A r, q : r # q => WithRoot(r) \cap WithRoot(q) = {}
  BY DEF PairsOK, WithRoot

LEMMA RootsDoneStep ==
  ASSUME ControlOK, PartsOK, TreeIsThere, [Next]_vars
  PROVE  RootsDone' = IF NoSuchRoot \/ UniqueFile \/ PushGroup THEN RootsDone \cup {i} ELSE RootsDone
<1>0. FileCount \in Nat \ {0} /\ i \in 0 .. FileCount /\ Files = 0 .. FileCount - 1
  BY FileCountAssumption DEF ControlOK, Files
<1>1. CASE NoSuchRoot \/ UniqueFile \/ PushGroup
  <2>1. rpc \in {"group", "elect"} /\ rpc' = "group" /\ i < FileCount /\ i' = i + 1
    BY <1>1 DEF NoSuchRoot, UniqueFile, PushGroup, InLoop, At, NextFile, ControlOK
  <2> QED
    BY <1>0, <1>1, <2>1 DEF RootsDone, Finished
<1>2. CASE GroupsEnd
  <2>1. rpc = "group" /\ rpc' = "done" /\ i = FileCount /\ TP!Nodes' # {}
    BY <1>2, TreeRests DEF GroupsEnd, LoopEnds, At, TreeIsThere
  <2>2. ~(NoSuchRoot \/ UniqueFile \/ PushGroup)
    BY <2>1 DEF NoSuchRoot, UniqueFile, PushGroup, InLoop, At
  <2> QED
    BY <1>0, <2>1, <2>2 DEF RootsDone, Finished
<1>3. CASE PairsEnd
  <2>1. rpc = "pairs" /\ rpc' = "group" /\ i' = 0
    BY <1>3 DEF PairsEnd, LoopEnds, At
  <2>2. ~(NoSuchRoot \/ UniqueFile \/ PushGroup)
    BY <2>1 DEF NoSuchRoot, UniqueFile, PushGroup, InLoop, At
  <2> QED
    BY <1>0, <2>1, <2>2 DEF RootsDone, Finished
<1>4. CASE ReturnEarly
  <2>1. rpc = "build" /\ rpc' = "done" /\ TP!Nodes' = {}
    BY <1>4, SameTree, TreeRests DEF ReturnEarly, At
  <2>2. ~(NoSuchRoot \/ UniqueFile \/ PushGroup)
    BY <2>1 DEF NoSuchRoot, UniqueFile, PushGroup, InLoop, At
  <2> QED
    BY <1>0, <2>1, <2>2 DEF RootsDone, Finished
<1>5. CASE InsertSegment \/ PassOver \/ InsertEnds \/ StartBuild \/ SkipFile \/ SearchSegment
           \/ UniteMatch \/ MatchesUnited \/ SearchEnds \/ PairPassesOver \/ FindRoot
  <2>1. /\ rpc \in {"insert", "build", "search", "unite", "pairs"}
        /\ rpc' \in {"insert", "build", "search", "unite", "pairs"}
    BY <1>5 DEF InsertSegment, PassOver, InsertEnds, StartBuild, SkipFile, SearchSegment, UniteMatch,
       MatchesUnited, SearchEnds, PairPassesOver, FindRoot, InLoop, LoopEnds, At
  <2>2. ~(NoSuchRoot \/ UniqueFile \/ PushGroup)
    BY <2>1 DEF NoSuchRoot, UniqueFile, PushGroup, InLoop, At
  <2> QED
    BY <1>0, <2>1, <2>2 DEF RootsDone, Finished
<1>6. CASE StartGroup \/ TryNext
  <2>1. rpc \in {"group", "elect"} /\ rpc' \in {"group", "elect"} /\ i' = i
    BY <1>6 DEF StartGroup, TryNext, InLoop, At
  <2>2. ~(NoSuchRoot \/ UniqueFile \/ PushGroup)
    BY <1>0, <2>1 DEF NoSuchRoot, UniqueFile, PushGroup, NextFile
  <2> QED
    BY <1>0, <2>1, <2>2 DEF RootsDone, Finished
<1>7. CASE TakeMatches \/ AddPair \/ TreeStep \/ UnionStep \/ Done \/ UNCHANGED vars
  <2>1. UNCHANGED <<rpc, i>>
    BY <1>7 DEF TakeMatches, AddPair, TreeStep, UnionStep, Done, vars
  <2>2. rpc = "done" => TP!Nodes' = TP!Nodes
    BY TreeRests
  <2>3. ~(NoSuchRoot \/ UniqueFile \/ PushGroup)
    BY <1>0, <2>1 DEF NoSuchRoot, UniqueFile, PushGroup, NextFile
  <2> QED
    BY <1>0, <2>1, <2>2, <2>3 DEF RootsDone, Finished
<1> QED
  BY <1>1, <1>2, <1>3, <1>4, <1>5, <1>6, <1>7 DEF Next

LEMMA WithRootStays ==
  ASSUME ControlOK, [Next]_vars
  PROVE  RootsDone # {} => \A r : WithRoot(r)' = WithRoot(r)
<1>1. CASE AddPair
  BY <1>1 DEF AddPair, U!FindDone, ControlOK, RootsDone, Finished
<1>2. CASE ~AddPair
  <2>1. pairs' = pairs
    BY <1>2 DEF Next, vars, outVars, PassOver, InsertSegment, InsertEnds, ReturnEarly, StartBuild, SkipFile,
       SearchSegment, TakeMatches, UniteMatch, MatchesUnited, SearchEnds, PairPassesOver, FindRoot, PairsEnd,
       NoSuchRoot, UniqueFile, StartGroup, TryNext, PushGroup, GroupsEnd, TreeStep, UnionStep, Done
  <2> QED
    BY <2>1 DEF WithRoot
<1> QED
  BY <1>1, <1>2

LEMMA OutputInit == Init => TreeIsThere /\ SkippedOK /\ PairsOK /\ GroupsOK /\ ElectOK
<1> SUFFICES ASSUME Init PROVE TreeIsThere /\ SkippedOK /\ PairsOK /\ GroupsOK /\ ElectOK
  OBVIOUS
<1> USE DEF Init
<1>1. RootsDone = {} /\ Paired = {}
  BY DEF RootsDone, Paired, Finished
<1>2. TreeIsThere /\ SkippedOK
  BY DEF TreeIsThere, SkippedOK, Finished
<1>3. PairsOK
  BY <1>1 DEF PairsOK
<1>4. GroupsOK
  BY <1>1 DEF GroupsOK
<1>5. ElectOK
  BY DEF ElectOK
<1> QED
  BY <1>2, <1>3, <1>4, <1>5

LEMMA GroupsStep ==
  ASSUME ControlOK, PartsOK, TreeIsThere, PairsOK, GroupsOK, ElectOK, [Next]_vars
  PROVE  GroupsOK'
<1>0. i \in 0 .. FileCount /\ FileCount \in Nat /\ Files = 0 .. FileCount - 1
  BY FileCountAssumption DEF ControlOK, Files
<1>1. CASE NoSuchRoot
  <2>1. WithRoot(i) = {} /\ groups' = groups /\ unique' = unique /\ \A r : WithRoot(r)' = WithRoot(r)
    BY <1>1 DEF NoSuchRoot, InLoop, At, outVars, WithRoot
  <2>2. RootsDone' = RootsDone \cup {i}
    BY <1>1, RootsDoneStep
  <2>3. ~(Cardinality(WithRoot(i)) > 1) /\ \A f : WithRoot(i) # {f}
    <3>1. Cardinality(WithRoot(i)) = 0
      BY <2>1, FewWithRoot
    <3> QED
      BY <2>1, <3>1
  <2>4. unique' = {f \in Files : \E r \in RootsDone' : WithRoot(r)' = {f}}
    BY <2>1, <2>2, <2>3 DEF GroupsOK
  <2> QED
    BY <2>1, <2>2, <2>3, <2>4 DEF GroupsOK
<1>2. CASE UniqueFile
  <2>1. /\ Cardinality(WithRoot(i)) = 1 /\ groups' = groups /\ unique' = unique \cup WithRoot(i)
        /\ \A r : WithRoot(r)' = WithRoot(r)
    BY <1>2 DEF UniqueFile, InLoop, At, WithRoot
  <2>2. RootsDone' = RootsDone \cup {i}
    BY <1>2, RootsDoneStep
  <2>3. PICK x \in Files : WithRoot(i) = {x}
    BY <2>1, FewWithRoot
  <2>4. ~(Cardinality(WithRoot(i)) > 1)
    BY <2>1
  <2>5. unique' = {f \in Files : \E r \in RootsDone' : WithRoot(r)' = {f}}
    BY <2>1, <2>2, <2>3 DEF GroupsOK
  <2> QED
    BY <2>1, <2>2, <2>4, <2>5 DEF GroupsOK
<1>3. CASE PushGroup
  <2>1. /\ rpc = "elect" /\ i < FileCount /\ unique' = unique /\ \A r : WithRoot(r)' = WithRoot(r)
        /\ groups' = groups \cup {[files |-> best.files, first |-> best.first]}
    BY <1>3 DEF PushGroup, At, WithRoot, ControlOK
  <2>2. best.files = WithRoot(i) /\ Cardinality(WithRoot(i)) > 1
    BY <2>1 DEF ElectOK
  <2> DEFINE new == [files |-> best.files, first |-> best.first]
  <2>3. new.files = WithRoot(i)
    BY <2>2
  <2>4. RootsDone' = RootsDone \cup {i}
    BY <1>3, RootsDoneStep
  <2>5. WithRoot(i) # {} /\ \A f : WithRoot(i) # {f}
    <3> DEFINE n == Cardinality(WithRoot(i))
    <3>1. n > 1
      BY <2>2
    <3>2. (WithRoot(i) = {} => n = 0) /\ \A f : WithRoot(i) = {f} => n = 1
      BY FewWithRoot
    <3> HIDE DEF n
    <3>3. n # 0 /\ n # 1
      BY <3>1
    <3> QED
      BY <3>2, <3>3, Zenon
  <2>6. \A r \in RootsDone : r # i
    BY <1>0, <2>1 DEF RootsDone, Finished
  <2>7. \A c \in groups : c.files # WithRoot(i)
    BY <2>5, <2>6, RootsApart DEF GroupsOK
  <2>8. groups' = groups \cup {new}
    BY <2>1
  <2> HIDE DEF new
  <2>9. unique' = {f \in Files : \E r \in RootsDone' : WithRoot(r)' = {f}}
    BY <2>1, <2>4, <2>5 DEF GroupsOK
  <2>10. \A c, d \in groups' : c.files = d.files => c = d
    BY <2>3, <2>7, <2>8 DEF GroupsOK
  <2>11. \A c \in groups' : \E r \in RootsDone' : c.files = WithRoot(r) /\ Cardinality(WithRoot(r)) > 1
    BY <2>2, <2>3, <2>4, <2>8 DEF GroupsOK
  <2>12. \A r \in RootsDone' : Cardinality(WithRoot(r)) > 1 => \E c \in groups' : c.files = WithRoot(r)
    BY <2>3, <2>4, <2>8 DEF GroupsOK
  <2> QED
    BY <2>1, <2>9, <2>10, <2>11, <2>12 DEF GroupsOK
<1>4. CASE ~(NoSuchRoot \/ UniqueFile \/ PushGroup)
  <2>1. RootsDone' = RootsDone
    BY <1>4, RootsDoneStep
  <2>2. groups' = groups /\ unique' = unique
    BY <1>4 DEF Next, vars, outVars, PassOver, InsertSegment, InsertEnds, ReturnEarly, StartBuild, SkipFile,
       SearchSegment, TakeMatches, UniteMatch, MatchesUnited, SearchEnds, PairPassesOver, FindRoot, AddPair,
       PairsEnd, StartGroup, TryNext, GroupsEnd, TreeStep, UnionStep, Done
  <2>3. \A r \in RootsDone : WithRoot(r)' = WithRoot(r)
    BY WithRootStays
  <2> QED
    BY <2>1, <2>2, <2>3 DEF GroupsOK
<1> QED
  BY <1>1, <1>2, <1>3, <1>4

-----------------------------------------------------------------------------
(***************************************************************************)
(* The election                                                            *)
(***************************************************************************)

LEMMA BetterIsOrder ==
  ASSUME metric \in [Files -> Int], NEW f \in Files, NEW g \in Files, NEW h \in Files
  PROVE  /\ ~is_better_file(f, f)
         /\ is_better_file(f, g) /\ is_better_file(g, h) => is_better_file(f, h)
  BY FileCountAssumption DEF is_better_file, Files

LEMMA FirstIsInGroup ==
  ASSUME NEW g, g \subseteq Files, g # {}
  PROVE  First(g) \in g
<1>1. g \subseteq Nat
  BY FileCountAssumption DEF Files
<1>2. \E f \in g : \A h \in g : f <= h
  BY <1>1, FileCountAssumption, UP!LeastNat
<1> QED
  BY <1>2, Zenon DEF First

LEMMA StartGroupElects ==
  ASSUME ControlOK, PartsOK, TreeIsThere, PairsOK, GroupsOK, ElectOK, StartGroup
  PROVE  ElectOK'
<1>1. /\ rpc = "group" /\ i < FileCount /\ Cardinality(WithRoot(i)) > 1 /\ i' = i /\ pairs' = pairs
      /\ groups' = groups /\ rpc' = "elect"
      /\ best' = [files |-> WithRoot(i), first |-> First(WithRoot(i)),
                  next |-> IF strategy = "NONE" THEN FileCount ELSE 0]
  BY DEF StartGroup, InLoop, At
<1>2. \A r : WithRoot(r)' = WithRoot(r)
  BY <1>1 DEF WithRoot
<1>3. PICK m \in [WithRoot(i) -> 0 .. 1] :
        metric' = [f \in Files |-> IF f \in WithRoot(i) THEN m[f] ELSE metric[f]]
  BY DEF StartGroup
<1>4. metric' \in [Files -> Int]
  BY <1>3 DEF ElectOK
<1>5. WithRoot(i) \subseteq Files /\ WithRoot(i) # {}
  BY <1>1, FewWithRoot, WithRootIsFinite
<1>6. First(WithRoot(i)) \in WithRoot(i)
  BY <1>5, FirstIsInGroup
<1>7. best'.files = WithRoot(i) /\ best'.first \in WithRoot(i) /\ best'.next \in 0 .. FileCount
      /\ (strategy # "NONE" => best'.next = 0)
  BY <1>1, <1>6, FileCountAssumption
<1>8. strategy # "NONE" => {f \in best'.files : f < best'.next} = {}
  BY <1>5, <1>7, FileCountAssumption DEF Files
<1>9. ASSUME strategy # "NONE", NEW c \in groups
      PROVE  c.first \in c.files /\ \A g \in c.files : ~is_better_file(g, c.first)'
  <2>1. PICK r \in RootsDone : c.files = WithRoot(r)
    BY <1>9 DEF GroupsOK
  <2>2. r # i
    BY <1>1, FileCountAssumption DEF RootsDone, Finished, ControlOK
  <2>3. c.files \cap WithRoot(i) = {} /\ c.files \subseteq Files
    BY <2>1, <2>2, RootsApart, WithRootIsFinite
  <2>4. c.first \in c.files /\ \A g \in c.files : ~is_better_file(g, c.first)
    BY <1>9 DEF ElectOK, NoneBetter
  <2>5. \A g \in c.files : metric'[g] = metric[g]
    BY <1>3, <2>3
  <2> QED
    BY <2>4, <2>5 DEF is_better_file
<1> QED
  BY <1>1, <1>2, <1>4, <1>7, <1>8, <1>9 DEF ElectOK, NoneBetter

LEMMA TryNextElects ==
  ASSUME ControlOK, ElectOK, TryNext
  PROVE  ElectOK'
<1>1. /\ rpc = "elect" /\ rpc' = rpc /\ best.next < FileCount /\ i' = i /\ pairs' = pairs
      /\ groups' = groups /\ metric' = metric
      /\ best' = [best EXCEPT
           !.first = IF best.next \in best.files /\ is_better_file(best.next, @) THEN best.next ELSE @,
           !.next = @ + 1]
  BY DEF TryNext, At
<1>2. /\ best.files = WithRoot(i) /\ Cardinality(WithRoot(i)) > 1 /\ best.first \in best.files
      /\ best.next \in 0 .. FileCount /\ metric \in [Files -> Int]
      /\ strategy # "NONE" => NoneBetter(best.first, {f \in best.files : f < best.next})
      /\ strategy # "NONE" => \A c \in groups : c.first \in c.files /\ NoneBetter(c.first, c.files)
  BY <1>1 DEF ElectOK
<1>3. best.files \subseteq Files
  BY <1>2, WithRootIsFinite
<1>4. \A r : WithRoot(r)' = WithRoot(r)
  BY <1>1 DEF WithRoot
<1>5. \A f, g : is_better_file(f, g)' = is_better_file(f, g)
  BY <1>1 DEF is_better_file
<1>6. /\ best'.files = best.files /\ best'.next = best.next + 1
      /\ best'.first = IF best.next \in best.files /\ is_better_file(best.next, best.first)
                         THEN best.next ELSE best.first
  BY <1>1
<1>7. ASSUME strategy # "NONE", NEW g \in best.files, g < best.next + 1
      PROVE  ~is_better_file(g, best'.first)
  <2>1. g < best.next \/ g = best.next
    BY <1>2, <1>3, <1>7, FileCountAssumption DEF Files
  <2>2. g < best.next => ~is_better_file(g, best.first)
    BY <1>2, <1>7 DEF NoneBetter
  <2>3. g \in Files /\ best.first \in Files
    BY <1>2, <1>3
  <2>4. CASE best.next \in best.files /\ is_better_file(best.next, best.first)
    <3>1. best'.first = best.next /\ best.next \in Files
      BY <1>3, <1>6, <2>4
    <3> QED
      BY <1>2, <2>1, <2>2, <2>3, <2>4, <3>1, BetterIsOrder
  <2>5. CASE ~(best.next \in best.files /\ is_better_file(best.next, best.first))
    BY <1>6, <1>7, <2>1, <2>2, <2>5
  <2> QED
    BY <2>4, <2>5
<1>8. best'.next \in 0 .. FileCount
  BY <1>1, <1>2, <1>6, FileCountAssumption
<1>9. strategy # "NONE" => NoneBetter(best.first, {f \in best.files : f < best.next})'
  BY <1>5, <1>6, <1>7 DEF NoneBetter
<1>10. strategy # "NONE" => \A c \in groups' : c.first \in c.files /\ NoneBetter(c.first, c.files)'
  BY <1>1, <1>2, <1>5 DEF NoneBetter
<1>11. best'.files = WithRoot(i)' /\ Cardinality(WithRoot(i)') > 1 /\ best'.first \in best'.files
  BY <1>1, <1>2, <1>4, <1>6
<1> QED
  BY <1>1, <1>2, <1>8, <1>9, <1>10, <1>11 DEF ElectOK

LEMMA ElectStep ==
  ASSUME ControlOK, PartsOK, TreeIsThere, PairsOK, GroupsOK, ElectOK, [Next]_vars
  PROVE  ElectOK'
<1>1. CASE StartGroup
  BY <1>1, StartGroupElects
<1>2. CASE TryNext
  BY <1>2, TryNextElects
<1>3. CASE PushGroup
  <2>1. /\ rpc = "elect" /\ rpc' = "group" /\ best.next = FileCount /\ metric' = metric
        /\ groups' = groups \cup {[files |-> best.files, first |-> best.first]}
    BY <1>3 DEF PushGroup, At
  <2>2. best.files = WithRoot(i) /\ best.files \subseteq Files /\ best.first \in best.files
    BY <2>1, WithRootIsFinite DEF ElectOK
  <2>3. {f \in best.files : f < best.next} = best.files
    BY <2>1, <2>2, FileCountAssumption DEF Files
  <2>4. \A f, g : is_better_file(f, g)' = is_better_file(f, g)
    BY <2>1 DEF is_better_file
  <2>5. strategy # "NONE" => NoneBetter(best.first, best.files)
    BY <2>1, <2>3 DEF ElectOK
  <2>6. strategy # "NONE" => \A c \in groups' : c.first \in c.files /\ NoneBetter(c.first, c.files)
    BY <2>1, <2>2, <2>5 DEF ElectOK
  <2>7. strategy # "NONE" => \A c \in groups' : c.first \in c.files /\ NoneBetter(c.first, c.files)'
    BY <2>4, <2>6 DEF NoneBetter
  <2> QED
    BY <2>1, <2>7 DEF ElectOK
<1>4. CASE ~(StartGroup \/ TryNext \/ PushGroup)
  <2>1. groups' = groups /\ metric' = metric /\ best' = best
    BY <1>4 DEF Next, vars, outVars, PassOver, InsertSegment, InsertEnds, ReturnEarly, StartBuild, SkipFile,
       SearchSegment, TakeMatches, UniteMatch, MatchesUnited, SearchEnds, PairPassesOver, FindRoot, AddPair,
       PairsEnd, NoSuchRoot, UniqueFile, GroupsEnd, TreeStep, UnionStep, Done
  <2>2. rpc' # "elect" \/ UNCHANGED <<rpc, i, pairs>>
    BY <1>4 DEF Next, vars, outVars, PassOver, InsertSegment, InsertEnds, ReturnEarly, StartBuild, SkipFile,
       SearchSegment, TakeMatches, UniteMatch, MatchesUnited, SearchEnds, PairPassesOver, FindRoot, AddPair,
       PairsEnd, NoSuchRoot, UniqueFile, GroupsEnd, TreeStep, UnionStep, Done, InLoop, LoopEnds, At,
       U!FindDone, ControlOK
  <2>3. \A f, g : is_better_file(f, g)' = is_better_file(f, g)
    BY <2>1 DEF is_better_file
  <2> QED
    BY <2>1, <2>2, <2>3 DEF ElectOK, NoneBetter, WithRoot
<1> QED
  BY <1>1, <1>2, <1>3, <1>4

-----------------------------------------------------------------------------
(***************************************************************************)
(* The theorems                                                            *)
(***************************************************************************)

(* The invariant the three theorems below follow from.                     *)
THEOREM ReportInvariant == Spec => []ReportInv
<1>1. Init => ReportInv
  BY ControlInit, PartsInit, TreeHoldsInit, WalkInit, NothingApartInit, SetsInit, OutputInit DEF ReportInv
<1>2. ReportInv /\ [Next]_vars => ReportInv'
  BY ControlStep, PartsStep, TreeHoldsStep, TreeIsThereStep, MatchesStep, WalkStep, NothingApartStep,
     SetsOKStep, SkippedStep, PairsStep, GroupsStep, ElectStep DEF ReportInv
<1> QED
  BY <1>1, <1>2, PTL DEF Spec

(* In a finished report the files paired with a root are its set.          *)
LEMMA WithRootIsSet ==
  ASSUME ReportInv, rpc = "done", NEW f \in Hashed
  PROVE  WithRoot(UP!RootOf(f)) = UP!SetOf(f) /\ UP!RootOf(f) \in Files
<1>0. f \in Files
  BY DEF Hashed
<1>1. pairs = {<<g, UP!RootOf(g)>> : g \in Hashed}
  BY DEF ReportInv, PairsOK, Paired
<1>2. WithRoot(UP!RootOf(f)) = {g \in Hashed : UP!RootOf(g) = UP!RootOf(f)}
  BY <1>1 DEF WithRoot, Hashed
<1>3. UP!SetOf(f) \subseteq Hashed
  BY <1>0 DEF ReportInv, SetsOK
<1>4. UP!SetOf(f) = {g \in Hashed : UP!RootOf(g) = UP!RootOf(f)}
  BY <1>3, FilesAreItems DEF UP!SetOf, Hashed
<1>5. UP!RootOf(f) \in Files
  BY <1>0, FileCountAssumption, FilesAreItems, UP!RootsOfForest DEF ReportInv, PartsOK
<1> QED
  BY <1>2, <1>4, <1>5

LEMMA SomeNodes ==
  ASSUME ReportInv, rpc = "done", Hashed # {}
  PROVE  RootsDone = Files
<1>1. TP!Nodes # {}
  BY NothingHashed DEF ReportInv
<1> QED
  BY <1>1 DEF RootsDone, Finished

(* The files of a root have it as their root.                              *)
LEMMA RootOfWithRoot ==
  ASSUME ReportInv, rpc = "done", NEW r, NEW f \in WithRoot(r)
  PROVE  f \in Hashed /\ UP!RootOf(f) = r
  BY DEF ReportInv, PairsOK, Paired, WithRoot

LEMMA ConnectedGroups == ReportInv => GroupsAreConnected
<1> SUFFICES ASSUME ReportInv, rpc = "done"
             PROVE  /\ \A f, g \in Hashed :
                         f # g /\ Similar(f, g) => \E c \in groups : {f, g} \subseteq c.files
                    /\ \A c \in groups : CannotCut(c.files)
  BY DEF GroupsAreConnected, CannotCut
<1>1. ASSUME NEW f \in Hashed, NEW g \in Hashed, f # g, Similar(f, g)
      PROVE  \E c \in groups : {f, g} \subseteq c.files
  <2>1. PICK s \in Segs, t \in Segs : TP!hamming_distance(entries[f][s], entries[g][t]) <= threshold
    BY <1>1, SameDistance DEF Similar
  <2>2. f \in Near(g, t)
    BY <2>1 DEF Near
  <2>3. SameSet(g, f)
    <3>1. <<g, t>> \in Searched
      BY <2>1 DEF Searched
    <3>2. <<g, t>>[1] = g /\ <<g, t>>[2] = t
      OBVIOUS
    <3> QED
      BY <2>2, <3>1, <3>2 DEF ReportInv, NothingApart
  <2> DEFINE r == UP!RootOf(f)
  <2>4. f \in WithRoot(r) /\ g \in WithRoot(r) /\ r \in Files
    BY <2>3, WithRootIsSet, FilesAreItems DEF SameSet, UP!SetOf, Hashed
  <2> HIDE DEF r
  <2>5. Cardinality(WithRoot(r)) > 1
    <3> DEFINE n == Cardinality(WithRoot(r))
    <3>1. n \in Nat /\ n >= 1
      BY <2>4, FewWithRoot
    <3>2. n # 1
      BY <1>1, <2>4, FewWithRoot
    <3> HIDE DEF n
    <3>3. n > 1
      BY <3>1, <3>2
    <3> QED
      BY <3>3 DEF n
  <2>6. RootsDone = Files
    BY SomeNodes
  <2>7. \E c \in groups : c.files = WithRoot(r)
    BY <2>4, <2>5, <2>6 DEF ReportInv, GroupsOK
  <2> QED
    BY <2>4, <2>7
<1>2. ASSUME NEW c \in groups
      PROVE  CannotCut(c.files)
  <2>1. PICK r \in RootsDone : c.files = WithRoot(r) /\ Cardinality(WithRoot(r)) > 1
    BY DEF ReportInv, GroupsOK
  <2>2. PICK f : f \in WithRoot(r)
    <3>1. WithRoot(r) # {}
      BY <2>1, FewWithRoot
    <3> QED
      BY <3>1
  <2>3. f \in Hashed /\ UP!RootOf(f) = r
    BY <2>2, RootOfWithRoot
  <2>4. c.files = UP!SetOf(f)
    BY <2>1, <2>3, WithRootIsSet
  <2> QED
    BY <2>3, <2>4 DEF ReportInv, SetsOK, Hashed
<1> QED
  BY <1>1, <1>2

LEMMA ReportedOnce == ReportInv => EveryFileReportedOnce
<1> SUFFICES ASSUME ReportInv, rpc = "done", Hashed # {}
             PROVE  /\ (UNION {c.files : c \in groups}) \cup unique \cup skipped = Files
                    /\ unique \cap skipped = {}
                    /\ \A c \in groups : c.files \cap (unique \cup skipped) = {}
                    /\ \A c, d \in groups : c # d => c.files \cap d.files = {}
  BY DEF EveryFileReportedOnce
<1>1. RootsDone = Files
  BY SomeNodes
<1>2. skipped = Files \ Hashed
  <2>1. Finished
    BY NothingHashed DEF ReportInv, Finished
  <2> QED
    BY <2>1 DEF ReportInv, SkippedOK
<1>3. \A c \in groups : c.files \subseteq Hashed
  BY RootOfWithRoot DEF ReportInv, GroupsOK
<1>4. \A f \in unique : f \in Hashed /\ WithRoot(UP!RootOf(f)) = {f}
  <2> SUFFICES ASSUME NEW f \in unique PROVE f \in Hashed /\ WithRoot(UP!RootOf(f)) = {f}
    OBVIOUS
  <2>1. PICK r \in RootsDone : WithRoot(r) = {f}
    BY DEF ReportInv, GroupsOK
  <2> QED
    BY <2>1, RootOfWithRoot
<1>5. \A f \in Hashed : f \in unique \/ \E c \in groups : f \in c.files
  <2> SUFFICES ASSUME NEW f \in Hashed PROVE f \in unique \/ \E c \in groups : f \in c.files
    OBVIOUS
  <2> DEFINE r == UP!RootOf(f)
  <2>1. f \in WithRoot(r) /\ r \in RootsDone /\ f \in Files
    BY <1>1, WithRootIsSet, FilesAreItems DEF UP!SetOf, Hashed
  <2> HIDE DEF r
  <2>2. CASE Cardinality(WithRoot(r)) > 1
    BY <2>1, <2>2 DEF ReportInv, GroupsOK
  <2>3. CASE ~(Cardinality(WithRoot(r)) > 1)
    <3>1. Cardinality(WithRoot(r)) = 1
      <4> DEFINE n == Cardinality(WithRoot(r))
      <4>1. n \in Nat /\ n >= 1 /\ ~(n > 1)
        BY <2>1, <2>3, FewWithRoot
      <4> HIDE DEF n
      <4>2. n = 1
        BY <4>1
      <4> QED
        BY <4>2 DEF n
    <3>2. WithRoot(r) = {f}
      BY <2>1, <3>1, FewWithRoot
    <3> QED
      BY <2>1, <3>2 DEF ReportInv, GroupsOK
  <2> QED
    BY <2>2, <2>3
<1>6. ASSUME NEW c \in groups, NEW f \in c.files, f \in unique
      PROVE  FALSE
  <2>1. PICK r \in RootsDone : c.files = WithRoot(r) /\ Cardinality(WithRoot(r)) > 1
    BY DEF ReportInv, GroupsOK
  <2>2. WithRoot(r) = {f}
    BY <1>4, <1>6, <2>1, RootOfWithRoot
  <2>3. Cardinality(WithRoot(r)) = 1
    BY <2>2, FewWithRoot
  <2> QED
    BY <2>1, <2>3
<1>7. ASSUME NEW c \in groups, NEW d \in groups, c # d, NEW f \in c.files, f \in d.files
      PROVE  FALSE
  <2>1. PICK r \in RootsDone, q \in RootsDone : c.files = WithRoot(r) /\ d.files = WithRoot(q)
    BY DEF ReportInv, GroupsOK
  <2>2. r = q
    BY <1>7, <2>1, RootOfWithRoot
  <2> QED
    BY <1>7, <2>1, <2>2 DEF ReportInv, GroupsOK
<1>8. unique \subseteq Files /\ Hashed \subseteq Files
  BY DEF ReportInv, GroupsOK, Hashed
<1> DEFINE grouped == UNION {c.files : c \in groups}
<1>9. \A f : f \in grouped <=> \E c \in groups : f \in c.files
  OBVIOUS
<1> HIDE DEF grouped
<1>10. grouped \cup unique = Hashed
  BY <1>3, <1>4, <1>5, <1>9
<1>11. grouped \cup unique \cup skipped = Files
  BY <1>2, <1>8, <1>10
<1>12. unique \cap skipped = {}
  BY <1>2, <1>4
<1>13. \A c \in groups : c.files \cap (unique \cup skipped) = {}
  BY <1>2, <1>3, <1>6
<1>14. \A c, d \in groups : c # d => c.files \cap d.files = {}
  BY <1>7
<1>15. (UNION {c.files : c \in groups}) \cup unique \cup skipped = Files
  BY <1>11 DEF grouped
<1> QED
  BY <1>12, <1>13, <1>14, <1>15, Zenon

LEMMA BestFirst == ReportInv => BestComesFirst
  BY DEF ReportInv, ElectOK, NoneBetter, BestComesFirst

(* ak_report_build: similar files share a group, and only files that a     *)
(* chain of similar files connects do.                                     *)
THEOREM GroupsAreAlwaysConnected == Spec => []GroupsAreConnected
  BY ReportInvariant, ConnectedGroups, PTL

(* ak_report_build: once a file was hashed, each file found is in the      *)
(* report exactly once.                                                    *)
THEOREM FilesAreReportedOnce == Spec => []EveryFileReportedOnce
  BY ReportInvariant, ReportedOnce, PTL

(* elect_best_file: no file of a group is better than the one it puts      *)
(* first.                                                                  *)
THEOREM BestAlwaysComesFirst == Spec => []BestComesFirst
  BY ReportInvariant, BestFirst, PTL
=============================================================================
