-------------------------- MODULE UnionFindProofs ---------------------------
(***************************************************************************)
(* The forest of find_set and unite_sets, for any number of items.         *)
(***************************************************************************)
EXTENDS UnionFind, FiniteSetTheorems, WellFoundedInduction, TLAPS

(* The root found for the first argument is still one when the second walk *)
(* has halved paths of its own; RanksClimb needs it, as unite_sets links   *)
(* root_i without another look.                                            *)
FirstStaysRoot == uf_pc = "find_j" => parent[root_i] = root_i

ForestInv ==
  /\ UnionFindTypeOK
  /\ RanksClimb
  /\ FirstStaysRoot

LEMMA ForestInit == Init => ForestInv
  BY ItemCountAssumption
  DEF Init, ForestInv, UnionFindTypeOK, RanksClimb, FirstStaysRoot, Items

LEMMA ForestTypeStep ==
  ASSUME ForestInv, [Next]_ufVars
  PROVE  UnionFindTypeOK'
<1> USE DEF ForestInv, UnionFindTypeOK
<1>1. CASE \E i \in Items : Find(i)
  BY <1>1 DEF Find
<1>2. CASE \E i, j \in Items : Unite(i, j)
  BY <1>2 DEF Unite
<1>3. CASE Halve
  BY <1>3 DEF Halve
<1>4. CASE FindDone
  BY <1>4 DEF FindDone
<1>5. CASE FirstFound
  BY <1>5 DEF FirstFound
<1>6. CASE Link
  BY <1>6 DEF Link
<1>7. CASE UNCHANGED ufVars
  BY <1>7 DEF ufVars
<1> QED
  BY <1>1, <1>2, <1>3, <1>4, <1>5, <1>6, <1>7 DEF Next, WalkStep

(* Halving hangs a node below its grandparent, whose rank is higher still. *)
LEMMA HalveClimbs ==
  ASSUME ForestInv, Halve
  PROVE  RanksClimb'
<1> SUFFICES ASSUME NEW x \in Items, parent'[x] # x
             PROVE  rank'[x] < rank'[parent'[x]]
  BY DEF RanksClimb
<1> USE DEF ForestInv, UnionFindTypeOK, RanksClimb
<1>1. rank' = rank /\ parent' = [parent EXCEPT ![root] = parent[parent[root]]]
  BY DEF Halve
<1>2. CASE x # root
  BY <1>1, <1>2
<1>3. CASE x = root
  <2> DEFINE above == parent[root]
  <2>1. above \in Items /\ rank[root] < rank[above]
    BY DEF Halve
  <2>2. rank[above] <= rank[parent[above]]
    BY <2>1
  <2>3. parent'[root] = parent[above] /\ parent[above] \in Items
    BY <1>1, <2>1
  <2> QED
    BY <1>1, <1>3, <2>1, <2>2, <2>3
<1> QED
  BY <1>2, <1>3

(* The link goes from a root of lower rank to one of higher rank, or the   *)
(* rank of the latter grows; nothing is above it that could be outgrown.   *)
LEMMA LinkClimbs ==
  ASSUME ForestInv, Link
  PROVE  RanksClimb'
<1> USE DEF ForestInv, UnionFindTypeOK, RanksClimb
<1>1. parent[root] = root /\ parent[root_i] = root_i /\ root \in Items /\ root_i \in Items
  BY DEF Link, AtRoot, FirstStaysRoot
<1>2. CASE root_i = root
  BY <1>2 DEF Link
<1>3. CASE root_i # root /\ rank[root_i] < rank[root]
  <2>1. parent' = [parent EXCEPT ![root_i] = root] /\ rank' = rank
    BY <1>1, <1>3 DEF Link
  <2> QED
    BY <1>1, <1>3, <2>1
<1>4. CASE root_i # root /\ rank[root_i] > rank[root]
  <2>1. parent' = [parent EXCEPT ![root] = root_i] /\ rank' = rank
    BY <1>1, <1>4 DEF Link
  <2> QED
    BY <1>1, <1>4, <2>1
<1>5. CASE root_i # root /\ rank[root_i] = rank[root]
  <2>1. /\ parent' = [parent EXCEPT ![root] = root_i]
        /\ rank' = [rank EXCEPT ![root_i] = @ + 1]
    BY <1>1, <1>5 DEF Link
  <2>2. SUFFICES ASSUME NEW x \in Items, parent'[x] # x
                 PROVE  rank'[x] < rank'[parent'[x]]
    OBVIOUS
  <2>3. x # root_i
    BY <1>1, <1>5, <2>1, <2>2
  <2>4. CASE x = root
    BY <1>1, <1>5, <2>1, <2>4
  <2>5. CASE x # root
    <3>1. parent'[x] = parent[x] /\ rank'[x] = rank[x] /\ rank[x] < rank[parent[x]]
      BY <2>1, <2>2, <2>3, <2>5
    <3>2. parent[x] \in Items /\ rank'[parent[x]] >= rank[parent[x]]
      BY <2>1, <2>2
    <3> QED
      BY <2>1, <3>1, <3>2
  <2> QED
    BY <2>4, <2>5
<1> QED
  BY <1>1, <1>2, <1>3, <1>4, <1>5

LEMMA ForestStep ==
  ASSUME ForestInv, [Next]_ufVars
  PROVE  ForestInv'
<1>1. UnionFindTypeOK'
  BY ForestTypeStep
<1>2. RanksClimb'
  <2>1. CASE Halve
    BY <2>1, HalveClimbs
  <2>2. CASE Link
    BY <2>2, LinkClimbs
  <2>3. CASE UNCHANGED <<parent, rank>>
    BY <2>3 DEF ForestInv, RanksClimb
  <2> QED
    BY <2>1, <2>2, <2>3 DEF Next, WalkStep, Find, Unite, FindDone, FirstFound, ufVars
<1>3. FirstStaysRoot'
  <2> USE DEF ForestInv, UnionFindTypeOK, FirstStaysRoot
  <2>1. CASE Halve
    BY <2>1 DEF Halve
  <2>2. CASE FirstFound
    BY <2>2 DEF FirstFound, AtRoot
  <2>3. CASE Link \/ FindDone \/ (\E i \in Items : Find(i)) \/ (\E i, j \in Items : Unite(i, j))
    BY <2>3 DEF Link, FindDone, Find, Unite
  <2>4. CASE UNCHANGED ufVars
    BY <2>4 DEF ufVars
  <2> QED
    BY <2>1, <2>2, <2>3, <2>4 DEF Next, WalkStep
<1> QED
  BY <1>1, <1>2, <1>3 DEF ForestInv

(* Ranks, parents and walks keep their types.                              *)
THEOREM UnionFindTypeCorrect == Spec => []UnionFindTypeOK
<1>1. ForestInv => UnionFindTypeOK
  BY DEF ForestInv
<1> QED
  BY <1>1, ForestInit, ForestStep, PTL DEF Spec

(***************************************************************************)
(* Ranks climb along every link, whatever unions and walks came before: a  *)
(* walk of find_set (report.c:29) meets no item twice, for any number of   *)
(* files.                                                                  *)
(***************************************************************************)
THEOREM RanksAlwaysClimb == Spec => []RanksClimb
<1>1. ForestInv => RanksClimb
  BY DEF ForestInv
<1> QED
  BY <1>1, ForestInit, ForestStep, PTL DEF Spec

(***************************************************************************)
(* Halving makes no root a child: the first root that unite_sets found is  *)
(* a root when it links (report.c:37-51), although the second walk has     *)
(* rewritten links in between.                                             *)
(***************************************************************************)
THEOREM FirstRootStaysRoot == Spec => []FirstStaysRoot
<1>1. ForestInv => FirstStaysRoot
  BY DEF ForestInv
<1> QED
  BY <1>1, ForestInit, ForestStep, PTL DEF Spec

-----------------------------------------------------------------------------
(***************************************************************************)
(* Induction: a set of numbers has a least member.                         *)
(***************************************************************************)
NatLess == {p \in Nat \X Nat : p[1] < p[2]}

LEMMA NatLessWellFounded == IsWellFoundedOn(NatLess, Nat)
  BY NatLessThanWellFounded DEF OpToRel, NatLess

LEMMA LeastNat ==
  ASSUME NEW T, T \subseteq Nat, T # {}
  PROVE  \E m \in T : \A n \in T : m <= n
<1>1. PICK m \in T : \A n \in T : ~(<<n, m>> \in NatLess)
  BY NatLessWellFounded, WFMin
<1>2. ASSUME NEW n \in T
      PROVE  m <= n
  <2>1. m \in Nat /\ n \in Nat
    OBVIOUS
  <2>2. ~(n < m)
    BY <1>1, <2>1 DEF NatLess
  <2> QED
    BY <2>1, <2>2
<1> QED
  BY <1>2

-----------------------------------------------------------------------------
(***************************************************************************)
(* The way up from an item, for any forest par whose ranks rk climb        *)
(***************************************************************************)
WayUp(par, x, N, up) ==
  /\ up = [n \in 0 .. N |-> IF n = 0 THEN x ELSE par[up[n - 1]]]

TopOf(par, x) ==
  LET up[n \in 0 .. ItemCount] == IF n = 0 THEN x ELSE par[up[n - 1]]
  IN  up[ItemCount]

(* The recursion of RootOf defines a function: a partial one can always be *)
(* taken a step further.                                                   *)
LEMMA WayUpExists ==
  ASSUME NEW par, NEW x, NEW N \in Nat
  PROVE  \E up : WayUp(par, x, N, up)
<1> DEFINE T == {n \in Nat : ~\E up : WayUp(par, x, n, up)}
<1>1. SUFFICES ASSUME T # {} PROVE FALSE
  OBVIOUS
<1>2. PICK m \in T : \A n \in T : m <= n
  BY <1>1, LeastNat
<1>3. CASE m = 0
  <2> DEFINE up == [n \in 0 .. 0 |-> x]
  <2>1. up = [n \in 0 .. 0 |-> IF n = 0 THEN x ELSE par[up[n - 1]]]
    OBVIOUS
  <2>2. WayUp(par, x, 0, up)
    BY <2>1 DEF WayUp
  <2> HIDE DEF up
  <2> QED
    BY <1>2, <1>3, <2>2
<1>4. CASE m # 0
  <2>1. m - 1 \in Nat /\ m - 1 \notin T
    BY <1>2, <1>4
  <2>2. PICK up : WayUp(par, x, m - 1, up)
    BY <2>1
  <2> DEFINE higher == [n \in 0 .. m |-> IF n = m THEN par[up[m - 1]] ELSE up[n]]
  <2>3. \A n \in 0 .. m - 1 : up[n] = IF n = 0 THEN x ELSE par[up[n - 1]]
    BY <2>2 DEF WayUp
  <2>4. ASSUME NEW n \in 0 .. m
        PROVE  higher[n] = IF n = 0 THEN x ELSE par[higher[n - 1]]
    <3>1. CASE n = m
      BY <1>4, <2>1, <3>1
    <3>2. CASE n # m
      <4>1. n \in 0 .. m - 1 /\ (n # 0 => n - 1 \in 0 .. m /\ n - 1 # m)
        BY <2>1, <3>2
      <4> QED
        BY <2>3, <3>2, <4>1
    <3> QED
      BY <3>1, <3>2
  <2>5. higher = [n \in 0 .. m |-> higher[n]]
    OBVIOUS
  <2> HIDE DEF higher
  <2>6. WayUp(par, x, m, higher)
    BY <2>4, <2>5 DEF WayUp
  <2> QED
    BY <1>2, <2>6
<1> QED
  BY <1>3, <1>4

LEMMA TopOfWay ==
  ASSUME NEW par, NEW x
  PROVE  \E up : WayUp(par, x, ItemCount, up) /\ TopOf(par, x) = up[ItemCount]
<1> DEFINE up == CHOOSE up : up = [n \in 0 .. ItemCount |-> IF n = 0 THEN x ELSE par[up[n - 1]]]
<1>1. \E u : WayUp(par, x, ItemCount, u)
  BY WayUpExists, ItemCountAssumption
<1>2. up = [n \in 0 .. ItemCount |-> IF n = 0 THEN x ELSE par[up[n - 1]]]
  BY <1>1, Zenon DEF WayUp
<1>3. TopOf(par, x) = up[ItemCount]
  BY DEF TopOf
<1>4. WayUp(par, x, ItemCount, up)
  BY <1>2 DEF WayUp
<1> QED
  BY <1>3, <1>4

Forest(par, rk) ==
  /\ par \in [Items -> Items] /\ rk \in [Items -> Nat]
  /\ \A x \in Items : par[x] # x => rk[x] < rk[par[x]]

LEMMA WayIsInItems ==
  ASSUME NEW par, NEW rk, Forest(par, rk), NEW x \in Items, NEW up, WayUp(par, x, ItemCount, up)
  PROVE  /\ up \in [0 .. ItemCount -> Items]
         /\ up[0] = x
         /\ \A n \in 1 .. ItemCount : up[n] = par[up[n - 1]]
<1>0. ItemCount \in Nat
  BY ItemCountAssumption
<1>1. up = [n \in 0 .. ItemCount |-> IF n = 0 THEN x ELSE par[up[n - 1]]]
  BY DEF WayUp
<1>2. up[0] = x /\ \A n \in 1 .. ItemCount : up[n] = par[up[n - 1]]
  <2>1. \A n \in 0 .. ItemCount : up[n] = IF n = 0 THEN x ELSE par[up[n - 1]]
    BY <1>1
  <2> QED
    BY <1>0, <2>1
<1> DEFINE T == {n \in 0 .. ItemCount : up[n] \notin Items}
<1>3. T = {}
  <2>1. SUFFICES ASSUME T # {} PROVE FALSE
    OBVIOUS
  <2>2. T \subseteq Nat
    BY <1>0
  <2>3. PICK m \in T : \A n \in T : m <= n
    BY <2>1, <2>2, LeastNat
  <2>4. m \in 0 .. ItemCount /\ m # 0
    BY <1>2
  <2>5. m - 1 \in 0 .. ItemCount /\ m \in 1 .. ItemCount /\ ~(m <= m - 1)
    BY <1>0, <2>4
  <2>6. up[m - 1] \in Items
    BY <2>3, <2>5
  <2> QED
    BY <1>2, <2>3, <2>5, <2>6 DEF Forest
<1>4. \A n \in 0 .. ItemCount : up[n] \in Items
  BY <1>3
<1> QED
  BY <1>1, <1>2, <1>4

(* Ranks climb until a root is reached; there are not more steps before it *)
(* than there are items.                                                   *)
LEMMA TopIsRoot ==
  ASSUME NEW par, NEW rk, Forest(par, rk), NEW x \in Items
  PROVE  TopOf(par, x) \in Items /\ par[TopOf(par, x)] = TopOf(par, x)
<1>0. ItemCount \in Nat /\ ItemCount >= 1
  BY ItemCountAssumption
<1>1. PICK up : WayUp(par, x, ItemCount, up) /\ TopOf(par, x) = up[ItemCount]
  BY TopOfWay
<1>2. /\ up \in [0 .. ItemCount -> Items]
      /\ \A n \in 1 .. ItemCount : up[n] = par[up[n - 1]]
  BY <1>1, WayIsInItems
<1>3. SUFFICES ASSUME par[up[ItemCount]] # up[ItemCount] PROVE FALSE
  BY <1>0, <1>1, <1>2
<1>4. ASSUME NEW m \in 0 .. ItemCount
      PROVE  par[up[m]] # up[m]
  <2> DEFINE T == {k \in Nat : k <= ItemCount /\ par[up[ItemCount - k]] = up[ItemCount - k]}
  <2>1. SUFFICES ASSUME par[up[m]] = up[m] PROVE FALSE
    OBVIOUS
  <2>2. ItemCount - m \in T
    <3>1. ItemCount - (ItemCount - m) = m /\ ItemCount - m \in Nat /\ ItemCount - m <= ItemCount
      BY <1>0
    <3> QED
      BY <2>1, <3>1
  <2>3. PICK k \in T : \A n \in T : k <= n
    BY <2>2, LeastNat
  <2>4. k \in Nat /\ k <= ItemCount /\ k # 0
    <3>1. ItemCount - 0 = ItemCount
      BY <1>0
    <3> QED
      BY <1>3, <3>1
  <2> DEFINE n == ItemCount - k
  <2>5. n \in 0 .. ItemCount /\ n + 1 \in 1 .. ItemCount /\ (n + 1) - 1 = n /\ ItemCount - (k - 1) = n + 1
    BY <1>0, <2>4
  <2>6. par[up[n]] = up[n]
    OBVIOUS
  <2>7. up[n + 1] = up[n]
    BY <1>2, <2>5, <2>6
  <2>8. k - 1 \in T
    <3>1. k - 1 \in Nat /\ k - 1 <= ItemCount
      BY <1>0, <2>4
    <3>2. par[up[ItemCount - (k - 1)]] = up[ItemCount - (k - 1)]
      BY <2>5, <2>6, <2>7
    <3> QED
      BY <3>1, <3>2
  <2>9. k <= k - 1
    BY <2>3, <2>8
  <2> QED
    BY <2>4, <2>9
<1>5. ASSUME NEW m \in 1 .. ItemCount
      PROVE  rk[up[m - 1]] < rk[up[m]]
  <2>1. m - 1 \in 0 .. ItemCount
    BY <1>0
  <2>2. par[up[m - 1]] # up[m - 1] /\ up[m - 1] \in Items /\ up[m] = par[up[m - 1]]
    BY <1>2, <1>4, <2>1
  <2> QED
    BY <2>2 DEF Forest
<1> DEFINE T == {b \in 0 .. ItemCount : \E a \in 0 .. ItemCount : a < b /\ rk[up[a]] >= rk[up[b]]}
<1>6. T = {}
  <2>1. SUFFICES ASSUME T # {} PROVE FALSE
    OBVIOUS
  <2>2. T \subseteq Nat
    BY <1>0
  <2>3. PICK b \in T : \A n \in T : b <= n
    BY <2>1, <2>2, LeastNat
  <2>4. PICK a \in 0 .. ItemCount : a < b /\ rk[up[a]] >= rk[up[b]]
    OBVIOUS
  <2>5. b \in 1 .. ItemCount /\ b - 1 \in 0 .. ItemCount /\ b \in 0 .. ItemCount
    BY <1>0, <2>4
  <2>6. /\ rk[up[a]] \in Nat /\ rk[up[b]] \in Nat /\ rk[up[b - 1]] \in Nat
        /\ rk[up[b - 1]] < rk[up[b]]
    BY <1>2, <1>5, <2>4, <2>5 DEF Forest
  <2>7. a < b - 1
    BY <2>4, <2>5, <2>6
  <2>8. b - 1 \in T
    BY <2>4, <2>5, <2>6, <2>7
  <2>9. b <= b - 1
    BY <2>3, <2>8
  <2> QED
    BY <2>5, <2>9
<1>7. \A a, b \in 0 .. ItemCount : a # b => up[a] # up[b]
  <2>1. SUFFICES ASSUME NEW a \in 0 .. ItemCount, NEW b \in 0 .. ItemCount, a < b, up[a] = up[b]
                 PROVE  FALSE
    BY <1>0
  <2>2. rk[up[a]] \in Nat
    BY <1>2 DEF Forest
  <2>3. b \in T
    BY <2>1, <2>2
  <2> QED
    BY <1>6, <2>3
<1>8. /\ IsFiniteSet(0 .. ItemCount) /\ Cardinality(0 .. ItemCount) = ItemCount + 1
      /\ IsFiniteSet(Items) /\ Cardinality(Items) = ItemCount
  <2>1. 0 \in Int /\ ItemCount \in Int /\ ItemCount - 1 \in Int
    BY <1>0
  <2>2. /\ IsFiniteSet(0 .. ItemCount)
        /\ Cardinality(0 .. ItemCount) = IF 0 > ItemCount THEN 0 ELSE ItemCount - 0 + 1
    BY <2>1, FS_Interval
  <2>3. /\ IsFiniteSet(0 .. ItemCount - 1)
        /\ Cardinality(0 .. ItemCount - 1) = IF 0 > ItemCount - 1 THEN 0 ELSE (ItemCount - 1) - 0 + 1
    BY <2>1, FS_Interval
  <2> QED
    BY <1>0, <2>2, <2>3 DEF Items
<1>9. \E a, b \in 0 .. ItemCount : a # b /\ up[a] = up[b]
  <2> DEFINE S == 0 .. ItemCount
  <2>1. IsFiniteSet(S) /\ IsFiniteSet(Items) /\ up \in [S -> Items]
    BY <1>2, <1>8
  <2>2. Cardinality(Items) < Cardinality(S)
    BY <1>0, <1>8
  <2> HIDE DEF S
  <2>3. \E a, b \in S : a # b /\ up[a] = up[b]
    BY <2>1, <2>2, FS_PigeonHole
  <2> QED
    BY <2>3 DEF S
<1> QED
  BY <1>7, <1>9

IsTop(par, F) == \A y \in Items : F[y] = IF par[y] = y THEN y ELSE F[par[y]]

(* The root above is the only function that a root maps to itself and that *)
(* does not change along a link.                                           *)
LEMMA TopIsUnique ==
  ASSUME NEW par, NEW rk, Forest(par, rk), NEW F,
         IsTop(par, F), NEW x \in Items
  PROVE  TopOf(par, x) = F[x]
<1>0. ItemCount \in Nat
  BY ItemCountAssumption
<1>1. PICK up : WayUp(par, x, ItemCount, up) /\ TopOf(par, x) = up[ItemCount]
  BY TopOfWay
<1>2. /\ up \in [0 .. ItemCount -> Items] /\ up[0] = x
      /\ \A n \in 1 .. ItemCount : up[n] = par[up[n - 1]]
  BY <1>1, WayIsInItems
<1> DEFINE T == {n \in 0 .. ItemCount : F[up[n]] # F[x]}
<1>3. T = {}
  <2>1. SUFFICES ASSUME T # {} PROVE FALSE
    OBVIOUS
  <2>2. T \subseteq Nat
    BY <1>0
  <2>3. PICK m \in T : \A n \in T : m <= n
    BY <2>1, <2>2, LeastNat
  <2>4. m \in 0 .. ItemCount /\ m # 0
    BY <1>2
  <2>5. m - 1 \in 0 .. ItemCount /\ m \in 1 .. ItemCount /\ ~(m <= m - 1)
    BY <1>0, <2>4
  <2>6. F[up[m - 1]] = F[x] /\ up[m - 1] \in Items /\ up[m] = par[up[m - 1]]
    BY <1>2, <2>3, <2>5
  <2>7. F[up[m - 1]] = F[up[m]]
    BY <2>6 DEF IsTop
  <2> QED
    BY <2>3, <2>6, <2>7
<1>4. F[up[ItemCount]] = F[x]
  BY <1>0, <1>3
<1>5. TopOf(par, x) \in Items /\ par[TopOf(par, x)] = TopOf(par, x)
  BY TopIsRoot
<1> QED
  BY <1>1, <1>4, <1>5 DEF IsTop

LEMMA TopAlongLink ==
  ASSUME NEW par, NEW rk, Forest(par, rk), NEW x \in Items
  PROVE  TopOf(par, x) = IF par[x] = x THEN x ELSE TopOf(par, par[x])
<1>0. ItemCount \in Nat /\ ItemCount >= 1
  BY ItemCountAssumption
<1>1. PICK up : WayUp(par, x, ItemCount, up) /\ TopOf(par, x) = up[ItemCount]
  BY TopOfWay
<1>2. /\ up \in [0 .. ItemCount -> Items] /\ up[0] = x
      /\ \A n \in 1 .. ItemCount : up[n] = par[up[n - 1]]
  BY <1>1, WayIsInItems
<1>3. par[x] \in Items
  BY DEF Forest
<1>4. PICK next : WayUp(par, par[x], ItemCount, next) /\ TopOf(par, par[x]) = next[ItemCount]
  BY TopOfWay
<1>5. /\ next \in [0 .. ItemCount -> Items] /\ next[0] = par[x]
      /\ \A n \in 1 .. ItemCount : next[n] = par[next[n - 1]]
  BY <1>3, <1>4, WayIsInItems
<1> DEFINE T == {n \in 0 .. ItemCount : next[n] # par[up[n]]}
<1>6. T = {}
  <2>1. SUFFICES ASSUME T # {} PROVE FALSE
    OBVIOUS
  <2>2. T \subseteq Nat
    BY <1>0
  <2>3. PICK m \in T : \A n \in T : m <= n
    BY <2>1, <2>2, LeastNat
  <2>4. m \in 0 .. ItemCount /\ m # 0
    BY <1>2, <1>5
  <2>5. m - 1 \in 0 .. ItemCount /\ m \in 1 .. ItemCount /\ ~(m <= m - 1)
    BY <1>0, <2>4
  <2>6. next[m - 1] = par[up[m - 1]]
    BY <2>3, <2>5
  <2>7. next[m] = par[next[m - 1]] /\ up[m] = par[up[m - 1]]
    BY <1>2, <1>5, <2>5
  <2> QED
    BY <2>3, <2>6, <2>7
<1>7. next[ItemCount] = par[up[ItemCount]]
  BY <1>0, <1>6
<1>8. TopOf(par, par[x]) = TopOf(par, x)
  BY <1>1, <1>4, <1>7, TopIsRoot
<1>9. ASSUME par[x] = x
      PROVE  TopOf(par, x) = x
  <2> DEFINE S == {n \in 0 .. ItemCount : up[n] # x}
  <2>1. S = {}
    <3>1. SUFFICES ASSUME S # {} PROVE FALSE
      OBVIOUS
    <3>2. S \subseteq Nat
      BY <1>0
    <3>3. PICK m \in S : \A n \in S : m <= n
      BY <3>1, <3>2, LeastNat
    <3>4. m \in 0 .. ItemCount /\ m # 0
      BY <1>2
    <3>5. m - 1 \in 0 .. ItemCount /\ m \in 1 .. ItemCount /\ ~(m <= m - 1)
      BY <1>0, <3>4
    <3>6. up[m - 1] = x /\ up[m] = par[up[m - 1]]
      BY <1>2, <3>3, <3>5
    <3> QED
      BY <1>9, <3>3, <3>6
  <2>2. up[ItemCount] = x
    BY <1>0, <2>1
  <2> QED
    BY <1>1, <2>2
<1> QED
  BY <1>8, <1>9

(* A link is made from a root to another root, or to an item further up on *)
(* the same way.                                                           *)
HangsBelow(next, par, a, b) == next = [par EXCEPT ![a] = b]

HalvesAt(next, par, a) == next = [par EXCEPT ![a] = par[par[a]]]

LEMMA TopAfterHalving ==
  ASSUME NEW par, NEW rk, Forest(par, rk), NEW a \in Items, par[a] # a,
         NEW next, HalvesAt(next, par, a), Forest(next, rk),
         NEW x \in Items
  PROVE  TopOf(next, x) = TopOf(par, x)
<1>0. next = [par EXCEPT ![a] = par[par[a]]]
  BY DEF HalvesAt
<1> DEFINE F == [y \in Items |-> TopOf(par, y)]
<1>1. par \in [Items -> Items] /\ rk \in [Items -> Nat] /\ par[a] \in Items /\ par[par[a]] \in Items
  BY DEF Forest
<1>2. par[par[a]] # a
  <2>1. rk[a] < rk[par[a]] /\ rk[par[a]] <= rk[par[par[a]]]
    BY <1>1 DEF Forest
  <2>2. rk[a] \in Nat /\ rk[par[a]] \in Nat /\ rk[par[par[a]]] \in Nat
    BY <1>1
  <2> QED
    BY <2>1, <2>2
<1>3. \A y \in Items : F[y] = IF par[y] = y THEN y ELSE F[par[y]]
  BY <1>1, TopAlongLink
<1> HIDE DEF F
<1>4. ASSUME NEW y \in Items
      PROVE  F[y] = IF next[y] = y THEN y ELSE F[next[y]]
  <2>1. CASE y # a
    BY <1>0, <1>1, <1>3, <2>1
  <2>2. CASE y = a
    <3>1. next[a] = par[par[a]]
      BY <1>0, <1>1
    <3>2. F[a] = F[par[a]] /\ F[par[a]] = F[par[par[a]]]
      BY <1>1, <1>3
    <3> QED
      BY <1>2, <2>2, <3>1, <3>2
  <2> QED
    BY <2>1, <2>2
<1>5. IsTop(next, F)
  BY <1>4 DEF IsTop
<1>6. TopOf(next, x) = F[x]
  BY <1>5, TopIsUnique
<1> QED
  BY <1>6 DEF F

LEMMA TopAfterLinking ==
  ASSUME NEW par, NEW rk, Forest(par, rk), NEW a \in Items, NEW b \in Items,
         a # b, par[a] = a, par[b] = b,
         NEW next, HangsBelow(next, par, a, b), NEW rk2, Forest(next, rk2),
         NEW x \in Items
  PROVE  TopOf(next, x) = IF TopOf(par, x) = a THEN b ELSE TopOf(par, x)
<1>0. next = [par EXCEPT ![a] = b]
  BY DEF HangsBelow
<1> DEFINE F == [y \in Items |-> IF TopOf(par, y) = a THEN b ELSE TopOf(par, y)]
<1>1. par \in [Items -> Items]
  BY DEF Forest
<1>2. \A y \in Items : TopOf(par, y) = IF par[y] = y THEN y ELSE TopOf(par, par[y])
  BY <1>1, TopAlongLink
<1>3. ASSUME NEW y \in Items
      PROVE  F[y] = IF next[y] = y THEN y ELSE F[next[y]]
  <2>1. CASE y = a
    BY <1>0, <1>1, <1>2, <2>1
  <2>2. CASE y # a /\ par[y] = y
    BY <1>0, <1>1, <1>2, <2>2
  <2>3. CASE y # a /\ par[y] # y
    <3>1. next[y] = par[y] /\ par[y] \in Items /\ TopOf(par, y) = TopOf(par, par[y])
      BY <1>0, <1>1, <1>2, <2>3
    <3> QED
      BY <2>3, <3>1
  <2> QED
    BY <2>1, <2>2, <2>3
<1> HIDE DEF F
<1>4. IsTop(next, F)
  BY <1>3 DEF IsTop
<1>5. TopOf(next, x) = F[x]
  BY <1>4, TopIsUnique
<1> QED
  BY <1>5 DEF F

-----------------------------------------------------------------------------
(***************************************************************************)
(* The refinement                                                          *)
(***************************************************************************)
LEMMA ForestOfState == ForestInv => Forest(parent, rank)
  BY DEF ForestInv, Forest, UnionFindTypeOK, RanksClimb

LEMMA RootIsTop == \A x : RootOf(x) = TopOf(parent, x)
  BY DEF RootOf, TopOf

LEMMA NextRootIsTop == \A x : RootOf(x)' = TopOf(parent', x)
  BY DEF RootOf, TopOf

AllSets == {SetOf(x) : x \in Items}

LEMMA SingletonsFirst == Init => Sets!Init
<1> SUFFICES ASSUME Init PROVE AllSets = {{x} : x \in Items}
  BY DEF Sets!Init, AllSets
<1>1. Forest(parent, rank)
  BY ForestInit, ForestOfState
<1>2. ASSUME NEW x \in Items
      PROVE  RootOf(x) = x
  <2>1. parent[x] = x
    BY DEF Init
  <2> QED
    BY <1>1, <2>1, RootIsTop, TopAlongLink
<1>3. \A x \in Items : SetOf(x) = {x}
  BY <1>2 DEF SetOf
<1> QED
  BY <1>3 DEF AllSets

LEMMA SetsStay ==
  ASSUME \A x \in Items : RootOf(x)' = RootOf(x)
  PROVE  \A x \in Items : SetOf(x)' = SetOf(x)
  BY DEF SetOf

LEMMA RootsStay ==
  ASSUME \A x \in Items : RootOf(x)' = RootOf(x)
  PROVE  UNCHANGED AllSets
  BY SetsStay DEF AllSets

(* Two roots a and b: their sets are merged, the others stay.              *)
LEMMA SetsMerge ==
  ASSUME NEW a \in Items, NEW b \in Items, a # b, RootOf(a) = a, RootOf(b) = b,
         \A x \in Items : RootOf(x)' = IF RootOf(x) = a THEN b ELSE RootOf(x)
  PROVE  \A x \in Items :
           SetOf(x)' = IF RootOf(x) \in {a, b} THEN SetOf(a) \cup SetOf(b) ELSE SetOf(x)
<1> SUFFICES ASSUME NEW x \in Items
             PROVE  SetOf(x)' = IF RootOf(x) \in {a, b} THEN SetOf(a) \cup SetOf(b) ELSE SetOf(x)
  OBVIOUS
<1>1. SetOf(x)' = {y \in Items : RootOf(y)' = RootOf(x)'}
  BY DEF SetOf
<1>2. CASE RootOf(x) \in {a, b}
  <2>1. SetOf(a) \cup SetOf(b) = {y \in Items : RootOf(y) \in {a, b}}
    BY DEF SetOf
  <2> QED
    BY <1>1, <1>2, <2>1
<1>3. CASE RootOf(x) \notin {a, b}
  BY <1>1, <1>3 DEF SetOf
<1> QED
  BY <1>2, <1>3

LEMMA RootsMerge ==
  ASSUME NEW a \in Items, NEW b \in Items, a # b, RootOf(a) = a, RootOf(b) = b,
         \A x \in Items : RootOf(x) \in Items /\ RootOf(RootOf(x)) = RootOf(x),
         \A x \in Items : RootOf(x)' = IF RootOf(x) = a THEN b ELSE RootOf(x)
  PROVE  Sets!Unite(a, b)
<1> DEFINE joined == {s \in AllSets : a \in s \/ b \in s}
           both == {y \in Items : RootOf(y) \in {a, b}}
<1>1. UNION joined = both
  <2>1. ASSUME NEW y \in both
        PROVE  y \in UNION joined
    <3>1. SetOf(y) \in AllSets /\ y \in SetOf(y) /\ (a \in SetOf(y) \/ b \in SetOf(y))
      BY DEF AllSets, SetOf
    <3> QED
      BY <3>1
  <2>2. ASSUME NEW s \in joined, NEW y \in s
        PROVE  y \in both
    <3>1. PICK x \in Items : s = SetOf(x)
      BY DEF AllSets
    <3> QED
      BY <2>2, <3>1 DEF SetOf
  <2> QED
    BY <2>1, <2>2
<1>2. \A x \in Items : SetOf(x)' = IF RootOf(x) \in {a, b} THEN both ELSE SetOf(x)
  <2>1. both = SetOf(a) \cup SetOf(b)
    BY DEF SetOf
  <2>2. \A x \in Items :
          SetOf(x)' = IF RootOf(x) \in {a, b} THEN SetOf(a) \cup SetOf(b) ELSE SetOf(x)
    BY SetsMerge
  <2> QED
    BY <2>1, <2>2
<1>3. AllSets' = (AllSets \ joined) \cup {both}
  <2>1. ASSUME NEW s \in AllSets'
        PROVE  s \in (AllSets \ joined) \cup {both}
    <3>1. PICK x \in Items : s = SetOf(x)'
      BY DEF AllSets
    <3>2. CASE RootOf(x) \in {a, b}
      BY <1>2, <3>1, <3>2
    <3>3. CASE RootOf(x) \notin {a, b}
      <4>1. s = SetOf(x) /\ a \notin s /\ b \notin s
        BY <1>2, <3>1, <3>3 DEF SetOf
      <4> QED
        BY <4>1 DEF AllSets
    <3> QED
      BY <3>2, <3>3
  <2>2. ASSUME NEW s \in AllSets \ joined
        PROVE  s \in AllSets'
    <3>1. PICK x \in Items : s = SetOf(x)
      BY DEF AllSets
    <3>2. RootOf(x) \notin {a, b}
      BY <2>2, <3>1 DEF SetOf
    <3>3. s = SetOf(x)'
      BY <1>2, <3>1, <3>2
    <3> QED
      BY <3>3 DEF AllSets
  <2>3. both \in AllSets'
    <3>1. both = SetOf(a)'
      BY <1>2
    <3> QED
      BY <3>1 DEF AllSets
  <2> QED
    BY <2>1, <2>2, <2>3
<1> QED
  BY <1>1, <1>3 DEF Sets!Unite, AllSets

(* What a caller may know of the roots: every item has one, halving moves  *)
(* none, and a link makes one of two roots the root of the other's set.    *)
LEMMA RootsOfForest ==
  ASSUME ForestInv, NEW x \in Items
  PROVE  /\ RootOf(x) \in Items
         /\ parent[RootOf(x)] = RootOf(x)
         /\ RootOf(RootOf(x)) = RootOf(x)
         /\ parent[x] = x => RootOf(x) = x
         /\ RootOf(parent[x]) = RootOf(x)
<1>1. Forest(parent, rank)
  BY ForestOfState
<1>2. RootOf(x) \in Items /\ parent[RootOf(x)] = RootOf(x)
  BY <1>1, TopIsRoot, RootIsTop
<1>3. RootOf(RootOf(x)) = RootOf(x)
  BY <1>1, <1>2, TopAlongLink, RootIsTop
<1>4. parent[x] = x => RootOf(x) = x
  BY <1>1, TopAlongLink, RootIsTop
<1>5. RootOf(parent[x]) = RootOf(x)
  BY <1>1, TopAlongLink, RootIsTop
<1> QED
  BY <1>2, <1>3, <1>4, <1>5

LEMMA NextForest ==
  ASSUME ForestInv, [Next]_ufVars
  PROVE  Forest(parent, rank) /\ Forest(parent', rank')
  BY ForestStep, ForestOfState DEF ForestInv, Forest, UnionFindTypeOK, RanksClimb

LEMMA HalveKeepsRoots ==
  ASSUME ForestInv, Halve
  PROVE  (\A x \in Items : RootOf(x)' = RootOf(x)) /\ RootOf(root)' = RootOf(root)
<1>1. /\ rank' = rank /\ root \in Items /\ parent[root] # root
      /\ parent' = [parent EXCEPT ![root] = parent[parent[root]]]
      /\ parent[root] \in Items /\ parent[parent[root]] \in Items
  BY DEF Halve, ForestInv, UnionFindTypeOK
<1>2. Forest(parent, rank) /\ Forest(parent', rank)
  BY <1>1, NextForest DEF Next, WalkStep
<1>3. \A x \in Items : TopOf(parent', x) = TopOf(parent, x)
  <2>1. HalvesAt(parent', parent, root)
    BY <1>1 DEF HalvesAt
  <2> QED
    BY <1>1, <1>2, <2>1, TopAfterHalving
<1>4. \A x \in Items : RootOf(x)' = RootOf(x)
  BY <1>3, RootIsTop, NextRootIsTop
<1>5. RootOf(root)' = RootOf(root)
  <2>1. root' = parent[parent[root]]
    BY DEF Halve
  <2>2. RootOf(root)' = TopOf(parent', root')
    BY DEF RootOf, TopOf
  <2>3. TopOf(parent', root') = TopOf(parent, parent[parent[root]])
    BY <1>1, <1>3, <2>1
  <2>4. TopOf(parent, parent[parent[root]]) = RootOf(root)
    BY <1>1, RootsOfForest, RootIsTop
  <2> QED
    BY <2>2, <2>3, <2>4
<1> QED
  BY <1>4, <1>5

LEMMA LinkMovesARoot ==
  ASSUME ForestInv, Link, root_i # root
  PROVE  \E a \in Items, b \in Items :
           /\ {a, b} = {root_i, root} /\ a # b /\ parent[a] = a /\ parent[b] = b
           /\ parent' = [parent EXCEPT ![a] = b]
<1>1. /\ root \in Items /\ root_i \in Items /\ parent[root] = root /\ parent[root_i] = root_i
  BY DEF Link, AtRoot, ForestInv, UnionFindTypeOK, FirstStaysRoot
<1>2. CASE rank[root_i] < rank[root]
  <2>1. parent' = [parent EXCEPT ![root_i] = root]
    BY <1>2 DEF Link
  <2> QED
    BY <1>1, <2>1
<1>3. CASE ~(rank[root_i] < rank[root])
  <2>1. parent' = [parent EXCEPT ![root] = root_i]
    BY <1>3 DEF Link
  <2> QED
    BY <1>1, <2>1
<1> QED
  BY <1>2, <1>3

LEMMA LinkJoinsRoots ==
  ASSUME ForestInv, Link, root_i # root
  PROVE  \E a \in Items, b \in Items :
           /\ {a, b} = {root_i, root} /\ a # b /\ RootOf(a) = a /\ RootOf(b) = b
           /\ \A x \in Items : RootOf(x)' = IF RootOf(x) = a THEN b ELSE RootOf(x)
<1>1. PICK a \in Items, b \in Items :
        /\ {a, b} = {root_i, root} /\ a # b /\ parent[a] = a /\ parent[b] = b
        /\ parent' = [parent EXCEPT ![a] = b]
  BY LinkMovesARoot
<1>2. Forest(parent, rank) /\ Forest(parent', rank')
  BY NextForest DEF Next, WalkStep
<1>3. \A x \in Items : TopOf(parent', x) = IF TopOf(parent, x) = a THEN b ELSE TopOf(parent, x)
  <2>1. HangsBelow(parent', parent, a, b)
    BY <1>1 DEF HangsBelow
  <2> QED
    BY <1>1, <1>2, <2>1, TopAfterLinking
<1>4. \A x \in Items : RootOf(x)' = IF RootOf(x) = a THEN b ELSE RootOf(x)
  BY <1>3, RootIsTop, NextRootIsTop
<1>5. RootOf(a) = a /\ RootOf(b) = b
  BY <1>1, RootsOfForest
<1> QED
  BY <1>1, <1>4, <1>5

LEMMA OtherStepsKeepRoots ==
  ASSUME UNCHANGED parent
  PROVE  \A x : RootOf(x)' = RootOf(x)
  BY RootIsTop, NextRootIsTop

(* What a step of union-find is to the partition.                          *)
LEMMA StepOfSets ==
  ASSUME ForestInv, [Next]_ufVars
  PROVE  [Sets!Next]_AllSets
<1>1. CASE Halve
  BY <1>1, HalveKeepsRoots, RootsStay
<1>2. CASE Link /\ root_i # root
  <2>1. PICK a \in Items, b \in Items :
          /\ a # b /\ RootOf(a) = a /\ RootOf(b) = b
          /\ \A x \in Items : RootOf(x)' = IF RootOf(x) = a THEN b ELSE RootOf(x)
    BY <1>2, LinkJoinsRoots
  <2>2. \A x \in Items : RootOf(x) \in Items /\ RootOf(RootOf(x)) = RootOf(x)
    BY RootsOfForest
  <2>3. Sets!Unite(a, b)
    BY <2>1, <2>2, RootsMerge
  <2> QED
    BY <2>3 DEF Sets!Next
<1>3. CASE UNCHANGED parent
  BY <1>3, OtherStepsKeepRoots, RootsStay
<1> QED
  BY <1>1, <1>2, <1>3 DEF Next, WalkStep, Find, Unite, FindDone, FirstFound, Link, ufVars

(***************************************************************************)
(* For any number of files, union-find implements a partition that a union *)
(* merges two sets of: halving a path never moves an item to another set,  *)
(* and unite_sets joins the sets of its arguments' roots and no other.     *)
(***************************************************************************)
THEOREM UnionFindImplementsPartition == Spec => ImplementsPartition
<1>1. Init => Sets!Init
  BY SingletonsFirst
<1>2. ForestInv /\ [Next]_ufVars => [Sets!Next]_AllSets
  BY StepOfSets
<1>3. ForestInv /\ [Next]_ufVars => ForestInv'
  BY ForestStep
<1>4. [][Sets!Next]_AllSets => [][Sets!Next]_{SetOf(x) : x \in Items}
  BY DEF AllSets
<1> QED
  BY <1>1, <1>2, <1>3, <1>4, ForestInit, PTL DEF Spec, ImplementsPartition, Sets!Spec, AllSets
=============================================================================
