------------------------------- MODULE BkTree -------------------------------
(***************************************************************************)
(* The BK tree of hashes (tree.c).  A node is named by its position: the   *)
(* sequence of edge distances that leads to it from the root, so that the  *)
(* child of p along an edge of distance d is Append(p, d) and the tree is  *)
(* a function from positions to nodes.  The recursion of an insertion and  *)
(* the loop of a search are taken one node at a time.                      *)
(*                                                                         *)
(* A hash is the set of its one bits.  The order of a node's children and  *)
(* of exact_dupe_file_ids decides only in which order a search visits and  *)
(* lists; both are sets here, and so is the stack of a search.             *)
(***************************************************************************)
EXTENDS Integers, Sequences, FiniteSets

CONSTANTS Bits,        (* the bit positions of a hash, 64 in the program     *)
          FileIds,     (* the files that may be inserted                     *)
          MaxEntries   (* bound: entries a tree may be given                 *)

ASSUME BitsAssumption == IsFiniteSet(Bits)

Hash == SUBSET Bits

AK_HAMMING_MAX == Cardinality(Bits)

(* The number of one bits of a XOR b.                                      *)
hamming_distance(a, b) == Cardinality((a \ b) \cup (b \ a))

Tolerances == 0 .. AK_HAMMING_MAX

VARIABLES
  tree,          (* position -> [hash, exact_dupe_file_ids]                  *)
  op,            (* the call under way: "idle", "insert" or "search"         *)
  key,           (* its hash                                                 *)
  file_id,       (* the insertion's file                                     *)
  tol,           (* the search's tolerance                                   *)
  cursor,        (* the insertion's node                                     *)
  stack,         (* nodes the search has still to visit                      *)
  groups_out     (* files the search has found                               *)

callVars == <<op, key, file_id, tol, cursor, stack, groups_out>>
treeVars == <<tree, callVars>>

Nodes == DOMAIN tree

Root == <<>>

node_new(h, f) == [hash |-> h, exact_dupe_file_ids |-> {f}]

(* hash of the call against the hash of the node at p.                     *)
Dist(p) == hamming_distance(tree[p].hash, key)

Child(p, d) == Append(p, d)

children(p) == {c \in Nodes : Len(c) = Len(p) + 1 /\ SubSeq(c, 1, Len(p)) = p}

Entries == UNION {{<<tree[p].hash, f>> : f \in tree[p].exact_dupe_file_ids} : p \in Nodes}

TreeTypeOK ==
  /\ Nodes \subseteq Seq(1 .. AK_HAMMING_MAX)
  /\ \A p \in Nodes : tree[p] \in [hash : Hash, exact_dupe_file_ids : SUBSET FileIds]
  /\ op \in {"idle", "insert", "search"}
  /\ key \in Hash
  /\ file_id \in FileIds
  /\ tol \in Tolerances
  /\ op = "insert" => cursor \in Nodes
  /\ stack \subseteq Nodes
  /\ groups_out \subseteq FileIds

Init ==
  /\ tree = << >>
  /\ op = "idle"
  /\ key = {}
  /\ file_id \in FileIds
  /\ tol = 0
  /\ cursor = Root
  /\ stack = {}
  /\ groups_out = {}

(***************************************************************************)
(* bk_tree_insert                                                          *)
(***************************************************************************)

(* The first hash becomes the root.                                        *)
InsertRoot(h, f) ==
  /\ op = "idle"
  /\ Nodes = {}
  /\ tree' = [p \in {Root} |-> node_new(h, f)]
  /\ UNCHANGED callVars

Insert(h, f) ==
  /\ op = "idle"
  /\ Nodes # {}
  /\ Cardinality(Entries) < MaxEntries
  /\ op' = "insert"
  /\ key' = h
  /\ file_id' = f
  /\ cursor' = Root
  /\ UNCHANGED <<tree, tol, stack, groups_out>>

(* The call returns, and its arguments and locals are gone.                *)
Return ==
  /\ op' = "idle"
  /\ key' = {}
  /\ tol' = 0
  /\ cursor' = Root
  /\ UNCHANGED <<file_id, stack, groups_out>>

(* An exact match: the file joins the node.                                *)
AddToNode ==
  /\ op = "insert"
  /\ Dist(cursor) = 0
  /\ tree' = [tree EXCEPT ![cursor].exact_dupe_file_ids = @ \cup {file_id}]
  /\ Return

(* There is a child at this distance: recurse into it.                     *)
Descend ==
  /\ op = "insert"
  /\ Dist(cursor) # 0
  /\ Child(cursor, Dist(cursor)) \in Nodes
  /\ cursor' = Child(cursor, Dist(cursor))
  /\ UNCHANGED <<tree, op, key, file_id, tol, stack, groups_out>>

(* There is none: the hash becomes it.                                     *)
Graft ==
  /\ op = "insert"
  /\ Dist(cursor) # 0
  /\ Child(cursor, Dist(cursor)) \notin Nodes
  /\ tree' = [p \in Nodes \cup {Child(cursor, Dist(cursor))} |->
                IF p \in Nodes THEN tree[p] ELSE node_new(key, file_id)]
  /\ Return

(***************************************************************************)
(* bk_tree_search                                                          *)
(***************************************************************************)

(* With an empty tree the search ends at once and finds nothing.           *)
Search(h, t) ==
  /\ op = "idle"
  /\ op' = "search"
  /\ key' = h
  /\ tol' = t
  /\ stack' = Nodes \cap {Root}
  /\ groups_out' = {}
  /\ UNCHANGED <<tree, file_id, cursor>>

(* Mutants: the range of the children leaves out its upper end; a match    *)
(* must be nearer than the tolerance.                                      *)
VisitNarrow(p) ==
  /\ op = "search"
  /\ p \in stack
  /\ groups_out' = groups_out \cup IF Dist(p) <= tol THEN tree[p].exact_dupe_file_ids ELSE {}
  /\ stack' = (stack \ {p}) \cup
              {c \in children(p) : c[Len(c)] \in Dist(p) - tol .. Dist(p) + tol - 1}
  /\ UNCHANGED <<tree, op, key, file_id, tol, cursor>>

VisitStrict(p) ==
  /\ op = "search"
  /\ p \in stack
  /\ groups_out' = groups_out \cup IF Dist(p) < tol THEN tree[p].exact_dupe_file_ids ELSE {}
  /\ stack' = (stack \ {p}) \cup
              {c \in children(p) : c[Len(c)] \in Dist(p) - tol .. Dist(p) + tol}
  /\ UNCHANGED <<tree, op, key, file_id, tol, cursor>>

(* A node is popped; only the children whose edge is within the tolerance  *)
(* of its distance to the hash can hold a match.                           *)
Visit(p) ==
  /\ op = "search"
  /\ p \in stack
  /\ groups_out' = groups_out \cup IF Dist(p) <= tol THEN tree[p].exact_dupe_file_ids ELSE {}
  /\ stack' = (stack \ {p}) \cup
              {c \in children(p) : c[Len(c)] \in Dist(p) - tol .. Dist(p) + tol}
  /\ UNCHANGED <<tree, op, key, file_id, tol, cursor>>

SearchDone ==
  /\ op = "search"
  /\ stack = {}
  /\ Return
  /\ UNCHANGED tree

CallStep ==
  AddToNode \/ Descend \/ Graft \/ (\E p \in stack : Visit(p)) \/ SearchDone

Next ==
  \/ \E h \in Hash, f \in FileIds : InsertRoot(h, f) \/ Insert(h, f)
  \/ \E h \in Hash, t \in Tolerances : Search(h, t)
  \/ CallStep

Spec == Init /\ [][Next]_treeVars

-----------------------------------------------------------------------------
(***************************************************************************)
(* Properties                                                              *)
(***************************************************************************)

Below(p, q) == Len(p) < Len(q) /\ SubSeq(q, 1, Len(p)) = p

(* The law of a BK tree: everything below an edge of distance d has that   *)
(* distance to the node the edge leaves.  Both the descent of later        *)
(* insertions and the pruning of searches rely on it.                      *)
EdgesTellDistance ==
  \A p, q \in Nodes : Below(p, q) => hamming_distance(tree[p].hash, tree[q].hash) = q[Len(p) + 1]

(* While a search runs, no file it should find is lost: it was found, or   *)
(* the node that holds it is on the stack or below a node on it.  This is  *)
(* what the pruning by the triangle inequality must not break.             *)
NothingPruned ==
  op = "search" =>
    \A q \in Nodes : Dist(q) <= tol =>
      \/ tree[q].exact_dupe_file_ids \subseteq groups_out
      \/ \E p \in stack : p = q \/ Below(p, q)

(* A node is visited once: the stack never holds a node together with one  *)
(* above it, so every search ends.                                         *)
StackIsAntichain == \A p, q \in stack : ~Below(p, q)

Index == INSTANCE HashIndex WITH
           distance <- hamming_distance,
           entries <- Entries,
           query <- IF op = "search" THEN <<key, tol>> ELSE <<>>,
           answer <- IF op = "search" THEN {} ELSE groups_out

(* A search returns exactly the files with a hash within the tolerance,    *)
(* and an insertion adds its pair and loses none.                          *)
ImplementsHashIndex == Index!Spec
=============================================================================
