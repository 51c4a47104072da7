----------------------------- MODULE UnionFind ------------------------------
(***************************************************************************)
(* The union-find of the report (find_set and unite_sets of report.c): a   *)
(* forest of parent indices with union by rank, in which every walk to a   *)
(* root halves the path it takes.  The while loop of find_set is taken one *)
(* iteration at a time.                                                    *)
(***************************************************************************)
EXTENDS Integers, FiniteSets

CONSTANTS ItemCount

ASSUME ItemCountAssumption == ItemCount \in Nat \ {0}

Items == 0 .. ItemCount - 1

VARIABLES
  parent,       (* parent[x] = x for a root                                  *)
  rank,         (* bounds the height of the tree below a root                *)
  uf_pc,        (* "idle", "find", or in unite_sets "find_i" or "find_j"     *)
  root,         (* where the walk of find_set stands                         *)
  root_i,       (* the root of the first argument of unite_sets              *)
  arg           (* the argument of find_set, the second one of unite_sets    *)

ufVars == <<parent, rank, uf_pc, root, root_i, arg>>

UnionFindTypeOK ==
  /\ parent \in [Items -> Items]
  /\ rank \in [Items -> Nat]
  /\ uf_pc \in {"idle", "find", "find_i", "find_j"}
  /\ root \in Items
  /\ root_i \in Items
  /\ arg \in Items

Init ==
  /\ parent = [x \in Items |-> x]
  /\ rank = [x \in Items |-> 0]
  /\ uf_pc = "idle"
  /\ root = 0
  /\ root_i = 0
  /\ arg = 0

(* Calls of find_set(i) and unite_sets(i, j).                              *)
Find(i) ==
  /\ uf_pc = "idle"
  /\ uf_pc' = "find"
  /\ root' = i
  /\ arg' = i
  /\ UNCHANGED <<parent, rank, root_i>>

Unite(i, j) ==
  /\ uf_pc = "idle"
  /\ uf_pc' = "find_i"
  /\ root' = i
  /\ arg' = j
  /\ UNCHANGED <<parent, rank, root_i>>

(* Mutant: the node is hung below its grandparent, the walk stays.         *)
HalveStays ==
  /\ uf_pc # "idle"
  /\ parent[root] # root
  /\ parent' = [parent EXCEPT ![root] = parent[parent[root]]]
  /\ UNCHANGED <<rank, uf_pc, root, root_i, arg>>

(* One iteration of find_set: the node is hung below its grandparent.      *)
Halve ==
  /\ uf_pc # "idle"
  /\ parent[root] # root
  /\ parent' = [parent EXCEPT ![root] = parent[parent[root]]]
  /\ root' = parent[parent[root]]
  /\ UNCHANGED <<rank, uf_pc, root_i, arg>>

AtRoot == parent[root] = root

(* find_set returns root.                                                  *)
FindDone ==
  /\ uf_pc = "find"
  /\ AtRoot
  /\ uf_pc' = "idle"
  /\ UNCHANGED <<parent, rank, root, root_i, arg>>

FirstFound ==
  /\ uf_pc = "find_i"
  /\ AtRoot
  /\ uf_pc' = "find_j"
  /\ root_i' = root
  /\ root' = arg
  /\ UNCHANGED <<parent, rank, arg>>

(* Mutants: ranks are not looked at; the argument of the union is hung      *)
(* instead of its root.                                                    *)
LinkByIndex ==
  /\ uf_pc = "find_j"
  /\ AtRoot
  /\ uf_pc' = "idle"
  /\ parent' = IF root_i = root THEN parent ELSE [parent EXCEPT ![root] = root_i]
  /\ rank' = IF root_i # root /\ rank[root_i] = rank[root]
               THEN [rank EXCEPT ![root_i] = @ + 1] ELSE rank
  /\ UNCHANGED <<root, root_i, arg>>

LinkArgument ==
  /\ uf_pc = "find_j"
  /\ AtRoot
  /\ uf_pc' = "idle"
  /\ parent' = IF root_i = root THEN parent ELSE [parent EXCEPT ![arg] = root_i]
  /\ rank' = IF root_i # root /\ rank[root_i] = rank[root]
               THEN [rank EXCEPT ![root_i] = @ + 1] ELSE rank
  /\ UNCHANGED <<root, root_i, arg>>

(* unite_sets knows both roots and hangs one below the other.              *)
Link ==
  /\ uf_pc = "find_j"
  /\ AtRoot
  /\ uf_pc' = "idle"
  /\ parent' = IF root_i = root THEN parent
               ELSE IF rank[root_i] < rank[root] THEN [parent EXCEPT ![root_i] = root]
               ELSE [parent EXCEPT ![root] = root_i]
  /\ rank' = IF root_i # root /\ rank[root_i] = rank[root]
               THEN [rank EXCEPT ![root_i] = @ + 1] ELSE rank
  /\ UNCHANGED <<root, root_i, arg>>

WalkStep == Halve \/ FindDone \/ FirstFound \/ Link

Next ==
  \/ \E i \in Items : Find(i)
  \/ \E i, j \in Items : Unite(i, j)
  \/ WalkStep

Spec == Init /\ [][Next]_ufVars

-----------------------------------------------------------------------------
(***************************************************************************)
(* Properties                                                              *)
(***************************************************************************)

(* The root above x: ItemCount steps up reach it, and stay there.          *)
RootOf(x) ==
  LET up[n \in 0 .. ItemCount] == IF n = 0 THEN x ELSE parent[up[n - 1]]
  IN  up[ItemCount]

SetOf(x) == {y \in Items : RootOf(y) = RootOf(x)}

(* Ranks grow along every parent link, also after a node was hung below    *)
(* its grandparent: there is no cycle, and no walk of find_set is endless. *)
RanksClimb == \A x \in Items : parent[x] # x => rank[x] < rank[parent[x]]

Sets == INSTANCE Partition WITH sets <- {SetOf(x) : x \in Items}

(* Halving is invisible, and unite_sets merges the two sets and no other.  *)
ImplementsPartition == Sets!Spec
=============================================================================
