---------------------------- MODULE BkTreeProofs ----------------------------
(***************************************************************************)
(* Insertion and search of the BK tree, for hashes of any finite number of *)
(* bits, any number of files and trees of any size.                        *)
(***************************************************************************)
EXTENDS BkTree, FiniteSetTheorems, TLAPS

-----------------------------------------------------------------------------
(* The Hamming distance is a metric on hashes.                             *)

LEMMA DistanceIsNat ==
  ASSUME NEW a \in Hash, NEW b \in Hash
  PROVE  hamming_distance(a, b) \in 0 .. AK_HAMMING_MAX
<1> DEFINE d == (a \ b) \cup (b \ a)
<1>1. IsFiniteSet(Bits) /\ d \subseteq Bits
  BY BitsAssumption DEF Hash
<1>2. IsFiniteSet(d) /\ Cardinality(d) <= Cardinality(Bits)
  BY <1>1, FS_Subset
<1>3. Cardinality(d) \in Nat /\ Cardinality(Bits) \in Nat
  BY <1>1, <1>2, FS_CardinalityType
<1> QED
  BY <1>2, <1>3 DEF hamming_distance, AK_HAMMING_MAX

LEMMA DistanceIsSymmetric ==
  ASSUME NEW a, NEW b
  PROVE  hamming_distance(a, b) = hamming_distance(b, a)
<1>1. (a \ b) \cup (b \ a) = (b \ a) \cup (a \ b)
  OBVIOUS
<1> QED
  BY <1>1 DEF hamming_distance

LEMMA TriangleInequality ==
  ASSUME NEW a \in Hash, NEW b \in Hash, NEW c \in Hash
  PROVE  hamming_distance(a, c) <= hamming_distance(a, b) + hamming_distance(b, c)
<1> DEFINE ab == (a \ b) \cup (b \ a)
           bc == (b \ c) \cup (c \ b)
           ac == (a \ c) \cup (c \ a)
<1>1. ac \subseteq ab \cup bc /\ ab \subseteq Bits /\ bc \subseteq Bits
  BY DEF Hash
<1>2. IsFiniteSet(ab) /\ IsFiniteSet(bc)
  BY <1>1, BitsAssumption, FS_Subset
<1>3. /\ IsFiniteSet(ab \cup bc)
      /\ Cardinality(ab \cup bc) = Cardinality(ab) + Cardinality(bc) - Cardinality(ab \cap bc)
  BY <1>2, FS_Union
<1>4. IsFiniteSet(ab \cap bc)
  <2>1. ab \cap bc \subseteq ab
    OBVIOUS
  <2> QED
    BY <1>2, <2>1, FS_Subset
<1>5. IsFiniteSet(ac) /\ Cardinality(ac) <= Cardinality(ab \cup bc)
  BY <1>1, <1>3, FS_Subset
<1>6. /\ Cardinality(ab) \in Nat /\ Cardinality(bc) \in Nat
      /\ Cardinality(ab \cap bc) \in Nat /\ Cardinality(ac) \in Nat
  BY <1>2, <1>4, <1>5, FS_CardinalityType
<1>7. Cardinality(ac) <= Cardinality(ab) + Cardinality(bc)
  BY <1>3, <1>5, <1>6
<1> QED
  BY <1>7 DEF hamming_distance

-----------------------------------------------------------------------------
(* Positions: sequences of edge distances.                                 *)

Edge == 1 .. AK_HAMMING_MAX

Prefix(q, n) == SubSeq(q, 1, n)

(* What is above a child is its parent and what is above that.             *)
LEMMA AboveChild ==
  ASSUME NEW p \in Seq(Edge), NEW c \in Seq(Edge), NEW d \in Edge, Below(p, Child(c, d))
  PROVE  \/ p = c /\ Child(c, d)[Len(p) + 1] = d
         \/ Below(p, c) /\ Child(c, d)[Len(p) + 1] = c[Len(p) + 1]
<1>1. Len(p) <= Len(c) /\ Len(Child(c, d)) = Len(c) + 1
  BY DEF Below, Child
<1>2. p = SubSeq(Child(c, d), 1, Len(p))
  BY DEF Below
<1>3. SubSeq(Child(c, d), 1, Len(p)) = SubSeq(c, 1, Len(p))
  BY <1>1 DEF Child
<1>4. CASE Len(p) = Len(c)
  <2>1. SubSeq(c, 1, Len(c)) = c
    OBVIOUS
  <2>2. p = c
    BY <1>2, <1>3, <1>4, <2>1
  <2>3. Child(c, d)[Len(c) + 1] = d
    BY DEF Child
  <2> QED
    BY <2>2, <2>3
<1>5. CASE Len(p) < Len(c)
  <2>1. Below(p, c)
    BY <1>2, <1>3, <1>5 DEF Below
  <2>2. Child(c, d)[Len(p) + 1] = c[Len(p) + 1]
    BY <1>1, <1>5 DEF Child
  <2> QED
    BY <2>1, <2>2
<1> QED
  BY <1>1, <1>4, <1>5

(* The child on the way from p down to q.                                  *)
LEMMA ChildOnTheWay ==
  ASSUME NEW p \in Seq(Edge), NEW q \in Seq(Edge), Below(p, q)
  PROVE  LET c == Prefix(q, Len(p) + 1) IN
           /\ c \in Seq(Edge) /\ Len(c) = Len(p) + 1 /\ Len(c) <= Len(q)
           /\ SubSeq(c, 1, Len(p)) = p
           /\ c[Len(c)] = q[Len(p) + 1]
           /\ c = q \/ Below(c, q)
<1> DEFINE n == Len(p) + 1
           c == Prefix(q, n)
<1>1. n \in 1 .. Len(q) /\ Len(p) \in Nat
  BY DEF Below
<1>2. c \in Seq(Edge) /\ Len(c) = n /\ \A k \in 1 .. n : c[k] = q[k]
  BY <1>1 DEF Prefix
<1>3. SubSeq(c, 1, Len(p)) = SubSeq(q, 1, Len(p))
  BY <1>1, <1>2
<1>4. SubSeq(c, 1, Len(p)) = p
  BY <1>3 DEF Below
<1>5. c = q \/ Below(c, q)
  <2>1. CASE n = Len(q)
    BY <2>1 DEF Prefix
  <2>2. CASE n < Len(q)
    BY <1>2, <2>2 DEF Below, Prefix
  <2> QED
    BY <1>1, <2>1, <2>2
<1> QED
  BY <1>1, <1>2, <1>4, <1>5

-----------------------------------------------------------------------------
(* The inductive invariant.                                                *)

(* Whatever is above a node is a node.                                     *)
PrefixClosed == \A q \in Nodes : \A n \in 0 .. Len(q) : Prefix(q, n) \in Nodes

(* The descent of an insertion has followed the edges of its distances: a  *)
(* node that is put below the cursor obeys EdgesTellDistance.              *)
CursorInv ==
  op = "insert" =>
    \A p \in Nodes : Below(p, cursor) => hamming_distance(tree[p].hash, key) = cursor[Len(p) + 1]

TreeInv ==
  /\ TreeTypeOK
  /\ PrefixClosed
  /\ EdgesTellDistance
  /\ CursorInv
  /\ NothingPruned

LEMMA TreeInit == Init => TreeInv
<1> SUFFICES ASSUME Init PROVE TreeInv
  OBVIOUS
<1>1. Nodes = {}
  BY DEF Init, Nodes
<1>2. TreeTypeOK
  <2>1. {} \in Hash /\ 0 \in Tolerances
    <3>1. AK_HAMMING_MAX \in Nat
      BY BitsAssumption, FS_CardinalityType DEF AK_HAMMING_MAX
    <3> QED
      BY <3>1 DEF Hash, Tolerances
  <2> QED
    BY <1>1, <2>1 DEF Init, TreeTypeOK
<1> QED
  BY <1>1, <1>2 DEF Init, TreeInv, PrefixClosed, EdgesTellDistance, CursorInv, NothingPruned

(* A step that adds no node leaves the hashes where they are.              *)
LEMMA SameNodes ==
  ASSUME TreeTypeOK, AddToNode
  PROVE  /\ Nodes' = Nodes
         /\ \A p \in Nodes : tree'[p].hash = tree[p].hash
         /\ \A p \in Nodes : tree'[p] \in [hash : Hash, exact_dupe_file_ids : SUBSET FileIds]
<1>1. cursor \in Nodes /\ file_id \in FileIds
  BY DEF AddToNode, TreeTypeOK
<1>2. tree' = [tree EXCEPT ![cursor].exact_dupe_file_ids = @ \cup {file_id}]
  BY DEF AddToNode
<1>3. \A p \in Nodes : tree[p] \in [hash : Hash, exact_dupe_file_ids : SUBSET FileIds]
  BY DEF TreeTypeOK
<1> QED
  BY <1>1, <1>2, <1>3 DEF Nodes

(* The new node of a grafting insertion.                                   *)
LEMMA GraftAdds ==
  ASSUME TreeTypeOK, Graft
  PROVE  LET d == Dist(cursor)
             c == Child(cursor, d)
         IN /\ cursor \in Nodes /\ cursor \in Seq(Edge) /\ d \in Edge /\ c \in Seq(Edge)
            /\ c \notin Nodes /\ Nodes' = Nodes \cup {c}
            /\ \A p \in Nodes : tree'[p] = tree[p]
            /\ tree'[c] = node_new(key, file_id)
            /\ hamming_distance(tree[cursor].hash, key) = d
<1> DEFINE d == Dist(cursor)
           c == Child(cursor, d)
<1>1. cursor \in Nodes /\ cursor \in Seq(Edge) /\ key \in Hash
  BY DEF Graft, TreeTypeOK, Edge
<1>2. d \in Edge /\ hamming_distance(tree[cursor].hash, key) = d
  <2>1. tree[cursor].hash \in Hash
    BY <1>1 DEF TreeTypeOK
  <2>2. hamming_distance(tree[cursor].hash, key) \in 0 .. AK_HAMMING_MAX
    BY <1>1, <2>1, DistanceIsNat
  <2>3. AK_HAMMING_MAX \in Nat
    BY BitsAssumption, FS_CardinalityType DEF AK_HAMMING_MAX
  <2>4. d # 0 /\ d = hamming_distance(tree[cursor].hash, key)
    BY DEF Graft, Dist
  <2> QED
    BY <2>2, <2>3, <2>4 DEF Edge
<1>3. c \in Seq(Edge)
  BY <1>1, <1>2 DEF Child
<1>4. c \notin Nodes /\ tree' = [p \in Nodes \cup {c} |->
                                   IF p \in Nodes THEN tree[p] ELSE node_new(key, file_id)]
  BY DEF Graft
<1> HIDE DEF d, c
<1>5. Nodes' = Nodes \cup {c}
  BY <1>4 DEF Nodes
<1> QED
  BY <1>1, <1>2, <1>3, <1>4, <1>5 DEF d, c

LEMMA DescendGoesOn ==
  ASSUME TreeTypeOK, Descend
  PROVE  LET d == Dist(cursor) IN
           /\ cursor \in Nodes /\ cursor \in Seq(Edge) /\ d \in Edge
           /\ cursor' = Child(cursor, d) /\ cursor' \in Nodes
           /\ hamming_distance(tree[cursor].hash, key) = d
<1>1. cursor \in Nodes /\ cursor \in Seq(Edge) /\ key \in Hash
  BY DEF Descend, TreeTypeOK, Edge
<1>2. tree[cursor].hash \in Hash
  BY <1>1 DEF TreeTypeOK
<1>3. hamming_distance(tree[cursor].hash, key) \in 0 .. AK_HAMMING_MAX
  BY <1>1, <1>2, DistanceIsNat
<1>4. AK_HAMMING_MAX \in Nat
  BY BitsAssumption, FS_CardinalityType DEF AK_HAMMING_MAX
<1>5. Dist(cursor) \in Edge
  BY <1>3, <1>4 DEF Descend, Dist, Edge
<1>6. cursor' = Child(cursor, Dist(cursor)) /\ cursor' \in Nodes
  BY DEF Descend
<1> QED
  BY <1>1, <1>5, <1>6 DEF Dist

LEMMA RootIsNode ==
  ASSUME Nodes \subseteq Seq(Edge), PrefixClosed, Nodes # {}
  PROVE  Root \in Nodes
<1>1. PICK q \in Nodes : q \in Seq(Edge)
  OBVIOUS
<1>2. Prefix(q, 0) \in Nodes
  <2>1. 0 \in 0 .. Len(q)
    BY <1>1
  <2> QED
    BY <2>1 DEF PrefixClosed
<1>3. Prefix(q, 0) = << >>
  BY <1>1 DEF Prefix
<1> QED
  BY <1>2, <1>3 DEF Root

LEMMA TreeTypeStep ==
  ASSUME TreeInv, [Next]_treeVars
  PROVE  TreeTypeOK'
<1> USE DEF TreeInv, TreeTypeOK
<1>0. {} \in Hash /\ 0 \in Tolerances
  <2>1. AK_HAMMING_MAX \in Nat
    BY BitsAssumption, FS_CardinalityType DEF AK_HAMMING_MAX
  <2> QED
    BY <2>1 DEF Hash, Tolerances
<1>1. ASSUME NEW h \in Hash, NEW f \in FileIds, InsertRoot(h, f)
      PROVE  TreeTypeOK'
  <2>1. Nodes' = {Root} /\ tree'[Root] = node_new(h, f)
    BY <1>1 DEF InsertRoot, Nodes
  <2>2. Root \in Seq(1 .. AK_HAMMING_MAX)
    BY DEF Root
  <2>3. node_new(h, f) \in [hash : Hash, exact_dupe_file_ids : SUBSET FileIds]
    BY DEF node_new
  <2>4. UNCHANGED callVars /\ op = "idle" /\ stack = {}
    BY <1>1 DEF InsertRoot, Nodes
  <2>5. /\ Nodes' \subseteq Seq(1 .. AK_HAMMING_MAX)
        /\ \A p \in Nodes' : tree'[p] \in [hash : Hash, exact_dupe_file_ids : SUBSET FileIds]
    BY <2>1, <2>2, <2>3
  <2>6. UNCHANGED <<op, key, file_id, tol, cursor, stack, groups_out>>
    BY <2>4 DEF callVars
  <2> QED
    BY <2>4, <2>5, <2>6
<1>2. ASSUME NEW h \in Hash, NEW f \in FileIds, Insert(h, f)
      PROVE  TreeTypeOK'
  <2>1. Root \in Nodes
    BY <1>2, RootIsNode DEF Insert, Edge
  <2> QED
    BY <1>2, <2>1 DEF Insert, Nodes
<1>3. CASE AddToNode
  BY <1>0, <1>3, SameNodes DEF AddToNode, Return, Nodes
<1>4. CASE Descend
  BY <1>4 DEF Descend, Nodes
<1>5. CASE Graft
  <2>1. /\ Nodes' \subseteq Seq(1 .. AK_HAMMING_MAX)
        /\ \A p \in Nodes' : tree'[p] \in [hash : Hash, exact_dupe_file_ids : SUBSET FileIds]
    BY <1>5, GraftAdds DEF Edge, node_new
  <2>2. Nodes \subseteq Nodes'
    BY <1>5, GraftAdds
  <2> QED
    BY <1>0, <1>5, <2>1, <2>2 DEF Graft, Return
<1>6. ASSUME NEW h \in Hash, NEW t \in Tolerances, Search(h, t)
      PROVE  TreeTypeOK'
  BY <1>6 DEF Search, Nodes
<1>7. ASSUME NEW p \in stack, Visit(p)
      PROVE  TreeTypeOK'
  BY <1>7 DEF Visit, Nodes, children
<1>8. CASE SearchDone
  BY <1>0, <1>8 DEF SearchDone, Return, Nodes
<1>9. CASE UNCHANGED treeVars
  BY <1>9 DEF treeVars, callVars, Nodes
<1> QED
  BY <1>1, <1>2, <1>3, <1>4, <1>5, <1>6, <1>7, <1>8, <1>9 DEF Next, CallStep

(* The actions that leave the nodes and their hashes alone.                *)
StillTree == \/ \E h \in Hash, f \in FileIds : Insert(h, f)
             \/ \E h \in Hash, t \in Tolerances : Search(h, t)
             \/ AddToNode \/ Descend \/ (\E p \in stack : Visit(p)) \/ SearchDone
             \/ UNCHANGED treeVars

LEMMA StillTreeKeepsHashes ==
  ASSUME TreeTypeOK, StillTree
  PROVE  Nodes' = Nodes /\ \A p \in Nodes : tree'[p].hash = tree[p].hash
<1>1. CASE AddToNode
  BY <1>1, SameNodes
<1>2. CASE UNCHANGED tree
  BY <1>2 DEF Nodes
<1> QED
  BY <1>1, <1>2 DEF StillTree, Insert, Search, Descend, Visit, SearchDone, treeVars

LEMMA TreeSteps ==
  ASSUME [Next]_treeVars
  PROVE  StillTree \/ Graft \/ \E h \in Hash, f \in FileIds : InsertRoot(h, f)
  BY DEF Next, CallStep, StillTree

LEMMA InsertRootAdds ==
  ASSUME NEW h \in Hash, NEW f \in FileIds, InsertRoot(h, f)
  PROVE  Nodes' = {Root} /\ op' = op /\ op = "idle"
  BY DEF InsertRoot, Nodes, callVars

LEMMA PrefixStep ==
  ASSUME TreeInv, [Next]_treeVars
  PROVE  PrefixClosed'
<1>1. CASE StillTree
  <2>1. Nodes' = Nodes
    BY <1>1, StillTreeKeepsHashes DEF TreeInv
  <2> QED
    BY <2>1 DEF TreeInv, PrefixClosed
<1>2. CASE Graft
  <2> DEFINE d == Dist(cursor)
             c == Child(cursor, d)
  <2>1. /\ cursor \in Nodes /\ cursor \in Seq(Edge) /\ d \in Edge /\ c \in Seq(Edge)
        /\ Nodes' = Nodes \cup {c}
    BY <1>2, GraftAdds DEF TreeInv
  <2>2. ASSUME NEW n \in 0 .. Len(c)
        PROVE  Prefix(c, n) \in Nodes'
    <3>1. c = Append(cursor, d) /\ Len(c) = Len(cursor) + 1
      BY <2>1 DEF Child
    <3>2. CASE n = Len(c)
      <4>1. SubSeq(c, 1, Len(c)) = c
        BY <2>1
      <4> QED
        BY <2>1, <3>2, <4>1 DEF Prefix
    <3>3. CASE n \in 0 .. Len(cursor)
      <4>1. Prefix(c, n) = Prefix(cursor, n)
        BY <2>1, <3>1, <3>3 DEF Prefix
      <4> QED
        BY <2>1, <3>3, <4>1 DEF TreeInv, PrefixClosed
    <3> QED
      BY <2>1, <3>1, <3>2, <3>3
  <2> HIDE DEF d, c
  <2> QED
    BY <2>1, <2>2 DEF TreeInv, PrefixClosed
<1>3. CASE \E h \in Hash, f \in FileIds : InsertRoot(h, f)
  <2>1. Nodes' = {<< >>}
    BY <1>3, InsertRootAdds DEF Root
  <2>2. Len(<< >>) = 0 /\ SubSeq(<< >>, 1, 0) = << >>
    OBVIOUS
  <2>3. ASSUME NEW n \in 0 .. Len(<< >>)
        PROVE  Prefix(<< >>, n) = << >>
    BY <2>2 DEF Prefix
  <2> QED
    BY <2>1, <2>3 DEF PrefixClosed
<1> QED
  BY <1>1, <1>2, <1>3, TreeSteps

LEMMA EdgesStep ==
  ASSUME TreeInv, [Next]_treeVars
  PROVE  EdgesTellDistance'
<1>1. CASE StillTree
  <2>1. Nodes' = Nodes /\ \A p \in Nodes : tree'[p].hash = tree[p].hash
    BY <1>1, StillTreeKeepsHashes DEF TreeInv
  <2> QED
    BY <2>1 DEF TreeInv, EdgesTellDistance
<1>2. CASE Graft
  <2> DEFINE d == Dist(cursor)
             c == Child(cursor, d)
  <2>1. /\ cursor \in Nodes /\ cursor \in Seq(Edge) /\ d \in Edge /\ c \in Seq(Edge)
        /\ c \notin Nodes /\ Nodes' = Nodes \cup {c}
        /\ \A p \in Nodes : tree'[p] = tree[p]
        /\ tree'[c] = node_new(key, file_id)
        /\ hamming_distance(tree[cursor].hash, key) = d
    BY <1>2, GraftAdds DEF TreeInv
  <2>2. Nodes \subseteq Seq(Edge) /\ op = "insert"
    BY <1>2 DEF Graft, TreeInv, TreeTypeOK, Edge
  <2>3. tree'[c].hash = key
    BY <2>1 DEF node_new
  <2>4. ASSUME NEW p \in Nodes, Below(p, c)
        PROVE  hamming_distance(tree[p].hash, key) = c[Len(p) + 1]
    <3>1. CASE p = cursor /\ c[Len(p) + 1] = d
      BY <2>1, <3>1
    <3>2. CASE Below(p, cursor) /\ c[Len(p) + 1] = cursor[Len(p) + 1]
      BY <2>2, <3>2 DEF TreeInv, CursorInv
    <3> QED
      BY <2>1, <2>2, <2>4, <3>1, <3>2, AboveChild
  <2>5. ASSUME NEW q \in Nodes PROVE ~Below(c, q)
    <3>1. SUFFICES ASSUME Below(c, q) PROVE FALSE
      OBVIOUS
    <3>2. Len(c) \in 0 .. Len(q) /\ Prefix(q, Len(c)) = c
      BY <2>1, <2>2, <3>1 DEF Below, Prefix
    <3> QED
      BY <2>1, <3>2 DEF TreeInv, PrefixClosed
  <2>6. ~Below(c, c)
    BY <2>1 DEF Below
  <2> HIDE DEF d, c
  <2>7. SUFFICES ASSUME NEW p \in Nodes', NEW q \in Nodes', Below(p, q)
                 PROVE  hamming_distance(tree'[p].hash, tree'[q].hash) = q[Len(p) + 1]
    BY DEF EdgesTellDistance, Below
  <2>8. CASE p \in Nodes /\ q \in Nodes
    BY <2>1, <2>7, <2>8 DEF TreeInv, EdgesTellDistance
  <2>9. CASE p \in Nodes /\ q = c
    BY <2>1, <2>3, <2>4, <2>7, <2>9
  <2> QED
    BY <2>1, <2>5, <2>6, <2>7, <2>8, <2>9
<1>3. CASE \E h \in Hash, f \in FileIds : InsertRoot(h, f)
  <2>1. Nodes' = {Root}
    BY <1>3, InsertRootAdds
  <2>2. ~Below(Root, Root)
    BY DEF Below, Root
  <2> QED
    BY <2>1, <2>2 DEF EdgesTellDistance, Below
<1> QED
  BY <1>1, <1>2, <1>3, TreeSteps

LEMMA CursorStep ==
  ASSUME TreeInv, [Next]_treeVars
  PROVE  CursorInv'
<1>1. CASE \E h \in Hash, f \in FileIds : Insert(h, f)
  <2>1. cursor' = Root /\ Nodes' = Nodes
    BY <1>1 DEF Insert, Nodes
  <2>2. ASSUME NEW p \in Nodes PROVE ~Below(p, Root)
    <3>1. p \in Seq(Edge)
      BY DEF TreeInv, TreeTypeOK, Edge
    <3> QED
      BY <3>1 DEF Below, Root
  <2> QED
    BY <2>1, <2>2 DEF CursorInv, Below
<1>2. CASE Descend
  <2> DEFINE d == Dist(cursor)
  <2>1. /\ cursor \in Seq(Edge) /\ d \in Edge /\ cursor' = Child(cursor, d)
        /\ hamming_distance(tree[cursor].hash, key) = d
    BY <1>2, DescendGoesOn DEF TreeInv
  <2>2. op = "insert" /\ UNCHANGED <<tree, key>> /\ Nodes' = Nodes
    BY <1>2 DEF Descend, Nodes
  <2>3. Nodes \subseteq Seq(Edge)
    BY DEF TreeInv, TreeTypeOK, Edge
  <2> HIDE DEF d
  <2>4. ASSUME NEW p \in Nodes, Below(p, cursor')
        PROVE  hamming_distance(tree[p].hash, key) = cursor'[Len(p) + 1]
    <3>1. CASE p = cursor /\ cursor'[Len(p) + 1] = d
      BY <2>1, <3>1
    <3>2. CASE Below(p, cursor) /\ cursor'[Len(p) + 1] = cursor[Len(p) + 1]
      BY <2>2, <3>2 DEF TreeInv, CursorInv
    <3> QED
      BY <2>1, <2>3, <2>4, <3>1, <3>2, AboveChild
  <2> QED
    BY <2>2, <2>4 DEF CursorInv, Below
<1>3. CASE UNCHANGED treeVars
  BY <1>3 DEF treeVars, callVars, TreeInv, CursorInv, Nodes, Below
<1>4. CASE op' # "insert"
  BY <1>4 DEF CursorInv
<1>5. ASSUME NEW h \in Hash, NEW f \in FileIds, InsertRoot(h, f)
      PROVE  op' # "insert"
  BY <1>5, InsertRootAdds
<1>6. ASSUME NEW h \in Hash, NEW t \in Tolerances, Search(h, t)
      PROVE  op' # "insert"
  BY <1>6 DEF Search
<1>7. AddToNode \/ Graft \/ SearchDone => op' # "insert"
  BY DEF AddToNode, Graft, SearchDone, Return
<1>8. ASSUME NEW p \in stack, Visit(p)
      PROVE  op' # "insert"
  BY <1>8 DEF Visit
<1> QED
  BY <1>1, <1>2, <1>3, <1>4, <1>5, <1>6, <1>7, <1>8 DEF Next, CallStep

-----------------------------------------------------------------------------
(* The search.                                                             *)

(***************************************************************************)
(* The triangle inequality at work: a match q below p hangs below a child  *)
(* of p whose edge is within the tolerance of the distance from p to the   *)
(* hash, and that child is pushed.                                         *)
(***************************************************************************)
LEMMA MatchIsPushed ==
  ASSUME TreeInv, NEW p \in Nodes, NEW q \in Nodes, Below(p, q), Dist(q) <= tol
  PROVE  LET c == Prefix(q, Len(p) + 1) IN
           /\ c \in children(p)
           /\ c[Len(c)] \in Dist(p) - tol .. Dist(p) + tol
           /\ c = q \/ Below(c, q)
<1> DEFINE c == Prefix(q, Len(p) + 1)
           e == c[Len(c)]
           pq == hamming_distance(tree[p].hash, tree[q].hash)
<1>1. p \in Seq(Edge) /\ q \in Seq(Edge) /\ key \in Hash /\ tree[p].hash \in Hash /\ tree[q].hash \in Hash
  BY DEF TreeInv, TreeTypeOK, Edge
<1>2. /\ c \in Seq(Edge) /\ Len(c) = Len(p) + 1 /\ Len(c) <= Len(q) /\ SubSeq(c, 1, Len(p)) = p
      /\ e = q[Len(p) + 1] /\ (c = q \/ Below(c, q))
  BY <1>1, ChildOnTheWay
<1>3. c \in Nodes
  <2>1. Len(p) + 1 \in 0 .. Len(q)
    BY <1>1, <1>2
  <2> QED
    BY <2>1 DEF TreeInv, PrefixClosed
<1>4. c \in children(p)
  BY <1>2, <1>3 DEF children
<1>5. e = pq
  BY <1>2 DEF TreeInv, EdgesTellDistance
<1>6. /\ pq <= Dist(p) + Dist(q)
      /\ Dist(p) <= pq + Dist(q)
  <2>1. pq <= hamming_distance(tree[p].hash, key) + hamming_distance(key, tree[q].hash)
    BY <1>1, TriangleInequality
  <2>2. hamming_distance(key, tree[q].hash) = Dist(q)
    BY DistanceIsSymmetric DEF Dist
  <2>3. hamming_distance(tree[p].hash, key) <= pq + hamming_distance(tree[q].hash, key)
    BY <1>1, TriangleInequality
  <2> QED
    BY <2>1, <2>2, <2>3 DEF Dist
<1>7. pq \in Nat /\ Dist(p) \in Nat /\ Dist(q) \in Nat /\ tol \in Nat
  <2>1. \A a, b \in Hash : hamming_distance(a, b) \in Nat
    BY DistanceIsNat
  <2>2. tol \in Nat
    BY DEF TreeInv, TreeTypeOK, Tolerances
  <2> QED
    BY <1>1, <2>1, <2>2 DEF Dist
<1> HIDE DEF e, pq
<1>8. e \in Dist(p) - tol .. Dist(p) + tol
  BY <1>5, <1>6, <1>7
<1> QED
  BY <1>2, <1>4, <1>8 DEF e

LEMMA PruneStep ==
  ASSUME TreeInv, [Next]_treeVars
  PROVE  NothingPruned'
<1>1. ASSUME NEW h \in Hash, NEW t \in Tolerances, Search(h, t)
      PROVE  NothingPruned'
  <2>1. Nodes' = Nodes /\ stack' = Nodes \cap {Root}
    BY <1>1 DEF Search, Nodes
  <2>2. ASSUME NEW q \in Nodes
        PROVE  Root \in Nodes /\ (Root = q \/ Below(Root, q))
    <3>1. Nodes \subseteq Seq(Edge) /\ q \in Seq(Edge)
      BY DEF TreeInv, TreeTypeOK, Edge
    <3>2. Root \in Nodes
      BY <3>1, RootIsNode DEF TreeInv
    <3>3. Len(Root) = 0 /\ SubSeq(q, 1, Len(Root)) = Root
      BY <3>1 DEF Root
    <3>4. Len(q) = 0 => q = Root
      BY <3>1 DEF Root
    <3>5. Len(q) \in Nat
      BY <3>1
    <3> QED
      BY <3>2, <3>3, <3>4, <3>5 DEF Below
  <2> QED
    BY <2>1, <2>2 DEF NothingPruned, Below
<1>2. ASSUME NEW p \in stack, Visit(p)
      PROVE  NothingPruned'
  <2>1. /\ op = "search" /\ p \in Nodes /\ Nodes' = Nodes
        /\ UNCHANGED <<tree, key, tol>>
        /\ groups_out' = groups_out \cup
                           IF Dist(p) <= tol THEN tree[p].exact_dupe_file_ids ELSE {}
        /\ stack' = (stack \ {p}) \cup
                    {c \in children(p) : c[Len(c)] \in Dist(p) - tol .. Dist(p) + tol}
    BY <1>2 DEF Visit, Nodes, TreeInv, TreeTypeOK
  <2>2. SUFFICES ASSUME NEW q \in Nodes, Dist(q) <= tol
                 PROVE  \/ tree[q].exact_dupe_file_ids \subseteq groups_out'
                        \/ \E r \in stack' : r = q \/ Below(r, q)
    BY <2>1 DEF NothingPruned, Dist, Below
  <2>3. CASE tree[q].exact_dupe_file_ids \subseteq groups_out
    BY <2>1, <2>3
  <2>4. ASSUME NEW r \in stack, r = q \/ Below(r, q)
        PROVE  \/ tree[q].exact_dupe_file_ids \subseteq groups_out'
               \/ \E s \in stack' : s = q \/ Below(s, q)
    <3>1. CASE r # p
      BY <2>1, <2>4, <3>1
    <3>2. CASE r = p /\ r = q
      BY <2>1, <2>2, <3>2
    <3>3. CASE r = p /\ Below(p, q)
      <4> DEFINE c == Prefix(q, Len(p) + 1)
      <4>1. /\ c \in children(p) /\ c[Len(c)] \in Dist(p) - tol .. Dist(p) + tol
            /\ c = q \/ Below(c, q)
        BY <2>1, <2>2, <3>3, MatchIsPushed
      <4> HIDE DEF c
      <4>2. c \in stack'
        BY <2>1, <4>1
      <4> QED
        BY <4>1, <4>2
    <3> QED
      BY <2>4, <3>1, <3>2, <3>3
  <2> QED
    BY <2>1, <2>2, <2>3, <2>4 DEF TreeInv, NothingPruned
<1>3. CASE UNCHANGED treeVars
  BY <1>3 DEF treeVars, callVars, TreeInv, NothingPruned, Nodes, Dist, Below
<1>4. CASE op' # "search"
  BY <1>4 DEF NothingPruned
<1>5. ASSUME NEW h \in Hash, NEW f \in FileIds, InsertRoot(h, f) \/ Insert(h, f)
      PROVE  op' # "search"
  BY <1>5, InsertRootAdds DEF Insert
<1>6. AddToNode \/ Descend \/ Graft \/ SearchDone => op' # "search"
  BY DEF AddToNode, Descend, Graft, SearchDone, Return
<1> QED
  BY <1>1, <1>2, <1>3, <1>4, <1>5, <1>6 DEF Next, CallStep

LEMMA TreeStep ==
  ASSUME TreeInv, [Next]_treeVars
  PROVE  TreeInv'
  BY TreeTypeStep, PrefixStep, EdgesStep, CursorStep, PruneStep DEF TreeInv

(* Every position is a sequence of distances that hashes can have.         *)
THEOREM TreeTypeCorrect == Spec => []TreeTypeOK
<1>1. TreeInv => TreeTypeOK
  BY DEF TreeInv
<1> QED
  BY <1>1, TreeInit, TreeStep, PTL DEF Spec

(***************************************************************************)
(* The law of the BK tree (tree.c:48-86): everything below an edge of      *)
(* distance d has that distance to the node the edge leaves, in every tree *)
(* that insertions can build.                                              *)
(***************************************************************************)
THEOREM EdgesAlwaysTellDistance == Spec => []EdgesTellDistance
<1>1. TreeInv => EdgesTellDistance
  BY DEF TreeInv
<1> QED
  BY <1>1, TreeInit, TreeStep, PTL DEF Spec

(***************************************************************************)
(* A search (tree.c:98-135) loses no match: what it has not found yet is  *)
(* on its stack or below a node on it, so with an empty stack every file   *)
(* within the tolerance is found.                                          *)
(***************************************************************************)
THEOREM NothingIsEverPruned == Spec => []NothingPruned
<1>1. TreeInv => NothingPruned
  BY DEF TreeInv
<1> QED
  BY <1>1, TreeInit, TreeStep, PTL DEF Spec

-----------------------------------------------------------------------------
(* The stack.                                                              *)

LEMMA BelowIsTransitive ==
  ASSUME NEW p \in Seq(Edge), NEW q \in Seq(Edge), NEW r \in Seq(Edge), Below(p, q), Below(q, r)
  PROVE  Below(p, r)
<1>1. Len(p) < Len(q) /\ Len(q) < Len(r)
  BY DEF Below
<1>2. SubSeq(SubSeq(r, 1, Len(q)), 1, Len(p)) = SubSeq(r, 1, Len(p))
  BY <1>1
<1>3. SubSeq(r, 1, Len(q)) = q /\ SubSeq(q, 1, Len(p)) = p
  BY DEF Below
<1> QED
  BY <1>1, <1>2, <1>3 DEF Below

(* Whatever is above a child is its parent or above it.                    *)
LEMMA AboveAChild ==
  ASSUME NEW p \in Nodes, NEW c \in children(p), NEW r \in Nodes,
         Nodes \subseteq Seq(Edge), Below(r, c)
  PROVE  r = p \/ Below(r, p)
<1>1. /\ p \in Seq(Edge) /\ c \in Seq(Edge) /\ r \in Seq(Edge)
      /\ Len(c) = Len(p) + 1 /\ SubSeq(c, 1, Len(p)) = p
  BY DEF children
<1>2. Len(r) <= Len(p) /\ SubSeq(c, 1, Len(r)) = r
  BY <1>1 DEF Below
<1>3. SubSeq(p, 1, Len(r)) = r
  <2>1. SubSeq(SubSeq(c, 1, Len(p)), 1, Len(r)) = SubSeq(c, 1, Len(r))
    BY <1>1, <1>2
  <2> QED
    BY <1>1, <1>2, <2>1
<1>4. CASE Len(r) = Len(p)
  <2>1. SubSeq(p, 1, Len(p)) = p
    BY <1>1
  <2> QED
    BY <1>3, <1>4, <2>1
<1>5. CASE Len(r) < Len(p)
  BY <1>3, <1>5 DEF Below
<1>6. Len(r) \in Nat /\ Len(p) \in Nat
  BY <1>1
<1>7. Len(r) = Len(p) \/ Len(r) < Len(p)
  BY <1>2, <1>6
<1> QED
  BY <1>4, <1>5, <1>7

LEMMA VisitKeepsAntichain ==
  ASSUME TreeTypeOK, StackIsAntichain, NEW p \in stack, Visit(p)
  PROVE  StackIsAntichain'
<1>1. /\ StackIsAntichain /\ p \in Nodes /\ stack \subseteq Nodes /\ Nodes \subseteq Seq(Edge)
  BY DEF Visit, TreeTypeOK, Edge
<1>2. stack' \subseteq (stack \ {p}) \cup children(p)
  BY DEF Visit
<1>3. children(p) \subseteq Nodes /\ \A c \in children(p) : Below(p, c)
  <2>1. ASSUME NEW c \in children(p) PROVE Below(p, c)
    BY <1>1 DEF children, Below
  <2> QED
    BY <2>1 DEF children
<1>4. SUFFICES ASSUME NEW q \in (stack \ {p}) \cup children(p),
                      NEW r \in (stack \ {p}) \cup children(p), Below(q, r)
               PROVE  FALSE
  BY <1>2 DEF StackIsAntichain, Below
<1>5. CASE q \in stack \ {p} /\ r \in stack \ {p}
  BY <1>1, <1>4, <1>5 DEF StackIsAntichain
<1>6. CASE q \in stack \ {p} /\ r \in children(p)
  BY <1>1, <1>4, <1>6, AboveAChild DEF StackIsAntichain
<1>7. CASE q \in children(p) /\ r \in stack \ {p}
  BY <1>1, <1>3, <1>4, <1>7, BelowIsTransitive DEF StackIsAntichain
<1>8. CASE q \in children(p) /\ r \in children(p)
  <2>1. Len(q) = Len(p) + 1 /\ Len(r) = Len(p) + 1 /\ Len(p) \in Nat
    BY <1>1, <1>8 DEF children
  <2> QED
    BY <1>4, <2>1 DEF Below
<1> QED
  BY <1>4, <1>5, <1>6, <1>7, <1>8

(***************************************************************************)
(* A search (tree.c:98-135) never has a node and one above it on its stack *)
(* at once, so no node is pushed twice: the search ends however large and  *)
(* deep the tree.                                                          *)
(***************************************************************************)
THEOREM StackStaysAntichain == Spec => []StackIsAntichain
<1>1. Init => StackIsAntichain
  BY DEF Init, StackIsAntichain
<1>2. TreeInv /\ StackIsAntichain /\ [Next]_treeVars => StackIsAntichain'
  <2> SUFFICES ASSUME TreeInv, StackIsAntichain, [Next]_treeVars
               PROVE  StackIsAntichain'
    OBVIOUS
  <2>1. ASSUME NEW h \in Hash, NEW f \in FileIds, InsertRoot(h, f) \/ Insert(h, f)
        PROVE  stack' = stack
    BY <2>1 DEF InsertRoot, Insert, callVars
  <2>2. ASSUME NEW h \in Hash, NEW t \in Tolerances, Search(h, t)
        PROVE  StackIsAntichain'
    <3>1. stack' \subseteq {Root}
      BY <2>2 DEF Search
    <3>2. ~Below(Root, Root)
      BY DEF Below, Root
    <3> QED
      BY <3>1, <3>2 DEF StackIsAntichain, Below
  <2>3. AddToNode \/ Descend \/ Graft \/ SearchDone \/ UNCHANGED treeVars => stack' = stack
    BY DEF AddToNode, Descend, Graft, SearchDone, Return, treeVars, callVars
  <2>4. ASSUME NEW p \in stack, Visit(p)
        PROVE  StackIsAntichain'
    BY <2>4, VisitKeepsAntichain DEF TreeInv
  <2>5. stack' = stack => StackIsAntichain'
    BY DEF StackIsAntichain, Below
  <2> QED
    BY <2>1, <2>2, <2>3, <2>4, <2>5 DEF Next, CallStep
<1> QED
  BY <1>1, <1>2, TreeInit, TreeStep, PTL DEF Spec

-----------------------------------------------------------------------------
(* The index that the tree implements.                                     *)

(* What a search has found so far is within its tolerance.                 *)
FoundInv ==
  op = "search" =>
    \A f \in groups_out : \E p \in Nodes : f \in tree[p].exact_dupe_file_ids /\ Dist(p) <= tol

LEMMA FoundStep ==
  ASSUME TreeTypeOK, FoundInv, [Next]_treeVars
  PROVE  FoundInv'
<1>1. ASSUME NEW h \in Hash, NEW f \in FileIds, InsertRoot(h, f) \/ Insert(h, f)
      PROVE  op' # "search"
  BY <1>1, InsertRootAdds DEF Insert
<1>2. AddToNode \/ Descend \/ Graft \/ SearchDone => op' # "search"
  BY DEF AddToNode, Descend, Graft, SearchDone, Return
<1>3. ASSUME NEW h \in Hash, NEW t \in Tolerances, Search(h, t)
      PROVE  FoundInv'
  BY <1>3 DEF Search, FoundInv
<1>4. ASSUME NEW p \in stack, Visit(p)
      PROVE  FoundInv'
  <2>1. /\ op = "search" /\ p \in Nodes /\ UNCHANGED <<tree, key, tol>> /\ Nodes' = Nodes
        /\ groups_out' = groups_out \cup
                           IF Dist(p) <= tol THEN tree[p].exact_dupe_file_ids ELSE {}
    BY <1>4 DEF Visit, TreeTypeOK, Nodes
  <2> QED
    BY <2>1 DEF FoundInv, Dist
<1>5. CASE UNCHANGED treeVars
  BY <1>5 DEF treeVars, callVars, FoundInv, Nodes, Dist
<1>6. op' # "search" => FoundInv'
  BY DEF FoundInv
<1> QED
  BY <1>1, <1>2, <1>3, <1>4, <1>5, <1>6 DEF Next, CallStep

LEMMA InEntries ==
  ASSUME NEW h, NEW f
  PROVE  <<h, f>> \in Entries <=>
           \E p \in Nodes : tree[p].hash = h /\ f \in tree[p].exact_dupe_file_ids
  BY DEF Entries

(* A search that has emptied its stack has found the matches, no others.   *)
LEMMA FoundTheMatches ==
  ASSUME TreeTypeOK, NothingPruned, FoundInv, op = "search", stack = {}
  PROVE  groups_out = Index!Matches(key, tol)
<1>1. ASSUME NEW f \in groups_out
      PROVE  f \in Index!Matches(key, tol)
  <2>1. PICK p \in Nodes : f \in tree[p].exact_dupe_file_ids /\ Dist(p) <= tol
    BY <1>1 DEF FoundInv
  <2>2. <<tree[p].hash, f>> \in Entries
    BY <2>1, InEntries
  <2>3. f \in FileIds
    BY <1>1 DEF TreeTypeOK
  <2> QED
    BY <2>1, <2>2, <2>3 DEF Index!Matches, Dist
<1>2. ASSUME NEW f \in Index!Matches(key, tol)
      PROVE  f \in groups_out
  <2>1. PICK e \in Entries : e[2] = f /\ hamming_distance(e[1], key) <= tol
    BY <1>2 DEF Index!Matches
  <2>2. PICK p \in Nodes : \E g \in tree[p].exact_dupe_file_ids : e = <<tree[p].hash, g>>
    BY <2>1 DEF Entries
  <2>3. f \in tree[p].exact_dupe_file_ids /\ Dist(p) <= tol
    BY <2>1, <2>2 DEF Dist
  <2> QED
    BY <2>3 DEF NothingPruned
<1> QED
  BY <1>1, <1>2

(* Where an insertion puts its file, one entry is added and none is lost.  *)
LEMMA InsertRootAddsEntry ==
  ASSUME NEW h \in Hash, NEW f \in FileIds, InsertRoot(h, f)
  PROVE  Entries' = Entries \cup {<<h, f>>}
<1>1. Nodes = {} /\ Nodes' = {Root} /\ tree'[Root] = node_new(h, f)
  BY DEF InsertRoot, Nodes
<1>2. Entries = {}
  BY <1>1 DEF Entries
<1>3. Entries' = {<<h, f>>}
  BY <1>1 DEF Entries, node_new
<1> QED
  BY <1>2, <1>3

(* Distance 0 is equality.                                                 *)
LEMMA DistanceZero ==
  ASSUME NEW a \in Hash, NEW b \in Hash, hamming_distance(a, b) = 0
  PROVE  a = b
<1>1. IsFiniteSet((a \ b) \cup (b \ a))
  BY BitsAssumption, FS_Subset DEF Hash
<1>2. (a \ b) \cup (b \ a) = {}
  BY <1>1, FS_EmptySet DEF hamming_distance
<1> QED
  BY <1>2

LEMMA AddToNodeAddsEntry ==
  ASSUME TreeTypeOK, AddToNode
  PROVE  Entries' = Entries \cup {<<key, file_id>>}
<1>1. cursor \in Nodes /\ key \in Hash /\ tree[cursor].hash \in Hash
  BY DEF AddToNode, TreeTypeOK
<1>2. tree[cursor].hash = key
  BY <1>1, DistanceZero DEF AddToNode, Dist
<1>3. /\ Nodes' = Nodes
      /\ \A p \in Nodes : tree'[p].hash = tree[p].hash
      /\ \A p \in Nodes : tree'[p].exact_dupe_file_ids =
                            IF p = cursor THEN tree[p].exact_dupe_file_ids \cup {file_id}
                                          ELSE tree[p].exact_dupe_file_ids
  <2>1. tree' = [tree EXCEPT ![cursor].exact_dupe_file_ids = @ \cup {file_id}]
    BY DEF AddToNode
  <2>2. \A p \in Nodes : tree[p] \in [hash : Hash, exact_dupe_file_ids : SUBSET FileIds]
    BY DEF TreeTypeOK
  <2> QED
    BY <1>1, <2>1, <2>2, SameNodes DEF Nodes
<1>4. ASSUME NEW e \in Entries'
      PROVE  e \in Entries \cup {<<key, file_id>>}
  <2>1. PICK p \in Nodes : \E f \in tree'[p].exact_dupe_file_ids : e = <<tree'[p].hash, f>>
    BY <1>3, <1>4 DEF Entries
  <2>2. PICK f \in tree'[p].exact_dupe_file_ids : e = <<tree[p].hash, f>>
    BY <1>3, <2>1
  <2>3. f \in tree[p].exact_dupe_file_ids \/ (p = cursor /\ f = file_id)
    BY <1>3, <2>2
  <2>4. CASE f \in tree[p].exact_dupe_file_ids
    BY <2>2, <2>4 DEF Entries
  <2>5. CASE p = cursor /\ f = file_id
    BY <1>2, <2>2, <2>5
  <2> QED
    BY <2>3, <2>4, <2>5
<1>5. ASSUME NEW e \in Entries
      PROVE  e \in Entries'
  <2>1. PICK p \in Nodes : \E f \in tree[p].exact_dupe_file_ids : e = <<tree[p].hash, f>>
    BY <1>5 DEF Entries
  <2>2. PICK f \in tree[p].exact_dupe_file_ids : e = <<tree'[p].hash, f>>
    BY <1>3, <2>1
  <2>3. f \in tree'[p].exact_dupe_file_ids
    BY <1>3, <2>2
  <2> QED
    BY <1>3, <2>2, <2>3 DEF Entries
<1>6. <<key, file_id>> \in Entries'
  <2>1. file_id \in tree'[cursor].exact_dupe_file_ids /\ tree'[cursor].hash = key
    BY <1>1, <1>2, <1>3
  <2> QED
    BY <1>1, <1>3, <2>1 DEF Entries
<1> QED
  BY <1>4, <1>5, <1>6

LEMMA GraftAddsEntry ==
  ASSUME TreeTypeOK, Graft
  PROVE  Entries' = Entries \cup {<<key, file_id>>}
<1> DEFINE c == Child(cursor, Dist(cursor))
<1>1. /\ c \notin Nodes /\ Nodes' = Nodes \cup {c}
      /\ \A p \in Nodes : tree'[p] = tree[p]
      /\ tree'[c] = node_new(key, file_id)
  BY GraftAdds
<1> HIDE DEF c
<1>2. tree'[c].hash = key /\ tree'[c].exact_dupe_file_ids = {file_id}
  BY <1>1 DEF node_new
<1>3. ASSUME NEW e
      PROVE  e \in Entries' <=> e \in Entries \cup {<<key, file_id>>}
  BY <1>1, <1>2 DEF Entries
<1> QED
  BY <1>3

(* Insertions add, a search asks and then answers, everything else is      *)
(* within a call and changes nothing that a caller of the index sees.      *)
LEMMA StepOfTheIndex ==
  ASSUME TreeInv, FoundInv, [Next]_treeVars
  PROVE  [Index!Next]_(Index!indexVars)
<1> USE DEF Index!indexVars
<1>1. key \in Hash /\ file_id \in FileIds /\ TreeTypeOK /\ NothingPruned
  BY DEF TreeInv, TreeTypeOK
<1>2. ASSUME NEW h \in Hash, NEW f \in FileIds, InsertRoot(h, f)
      PROVE  Index!Next
  <2>1. Index!Add(h, f)
    BY <1>2, InsertRootAdds, InsertRootAddsEntry DEF InsertRoot, callVars, Index!Add
  <2> QED
    BY <2>1 DEF Index!Next
<1>3. ASSUME NEW h \in Hash, NEW f \in FileIds, Insert(h, f)
      PROVE  UNCHANGED Index!indexVars
  BY <1>3 DEF Insert, Entries, Nodes
<1>4. CASE AddToNode
  <2>1. Index!Add(key, file_id)
    BY <1>1, <1>4, AddToNodeAddsEntry DEF AddToNode, Return, Index!Add
  <2> QED
    BY <1>1, <2>1 DEF Index!Next
<1>5. CASE Descend
  BY <1>5 DEF Descend, Entries, Nodes
<1>6. CASE Graft
  <2>1. Index!Add(key, file_id)
    BY <1>1, <1>6, GraftAddsEntry DEF Graft, Return, Index!Add
  <2> QED
    BY <1>1, <2>1 DEF Index!Next
<1>7. ASSUME NEW h \in Hash, NEW t \in Tolerances, Search(h, t)
      PROVE  Index!Next
  <2>1. Index!Ask(h, t)
    BY <1>7 DEF Search, Entries, Nodes, Index!Ask
  <2> QED
    BY <2>1 DEF Index!Next
<1>8. ASSUME NEW p \in stack, Visit(p)
      PROVE  UNCHANGED Index!indexVars
  BY <1>8 DEF Visit, Entries, Nodes
<1>9. CASE SearchDone
  <2>1. groups_out = Index!Matches(key, tol) /\ op = "search" /\ op' = "idle"
    BY <1>1, <1>9, FoundTheMatches DEF SearchDone, Return
  <2>2. groups_out' = groups_out /\ Entries' = Entries
    BY <1>9 DEF SearchDone, Return, Entries, Nodes
  <2>3. Index!Answer
    BY <2>1, <2>2 DEF Index!Answer
  <2> QED
    BY <2>3 DEF Index!Next
<1>10. CASE UNCHANGED treeVars
  BY <1>10 DEF treeVars, callVars, Entries, Nodes
<1> QED
  BY <1>2, <1>3, <1>4, <1>5, <1>6, <1>7, <1>8, <1>9, <1>10 DEF Next, CallStep

(***************************************************************************)
(* The tree is an index (HashIndex): a search (tree.c:98-135) answers with *)
(* exactly the files that have a hash within its tolerance, whatever was   *)
(* inserted (tree.c:48-86) and in whatever order.                          *)
(***************************************************************************)
THEOREM TreeImplementsHashIndex == Spec => ImplementsHashIndex
<1>1. Init => FoundInv /\ Index!Init
  BY DEF Init, FoundInv, Index!Init, Entries, Nodes
<1>2. TreeInv => TreeTypeOK
  BY DEF TreeInv
<1> QED
  BY <1>1, <1>2, TreeInit, TreeStep, FoundStep, StepOfTheIndex, PTL
  DEF Spec, ImplementsHashIndex, Index!Spec
=============================================================================
