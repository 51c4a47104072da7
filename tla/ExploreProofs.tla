---------------------------- MODULE ExploreProofs ---------------------------
(***************************************************************************)
(* No video is lost between the input paths and the list of files, for     *)
(* every file system, every list of inputs and every removal by others.    *)
(***************************************************************************)
EXTENDS Explore, WellFoundedInduction, TLAPS

-----------------------------------------------------------------------------
(***************************************************************************)
(* Induction: a set of numbers has a least member.                         *)
(***************************************************************************)
NatLess == {p \in Nat \X Nat : p[1] < p[2]}

LEMMA NatLessWellFounded == IsWellFoundedOn(NatLess, Nat)
  BY NatLessThanWellFounded DEF OpToRel, NatLess

LEMMA LeastNat ==
  ASSUME NEW T, T \subseteq Nat, T # {}
  PROVE  \E m \in T : \A n \in T : m <= n
<1>1. PICK m \in T : \A n \in T : ~(<<n, m>> \in NatLess)
  BY NatLessWellFounded, WFMin
<1>2. ASSUME NEW n \in T
      PROVE  m <= n
  <2>1. m \in Nat /\ n \in Nat
    OBVIOUS
  <2>2. ~(n < m)
    BY <1>1, <2>1 DEF NatLess
  <2> QED
    BY <2>1, <2>2
<1> QED
  BY <1>2

-----------------------------------------------------------------------------
(***************************************************************************)
(* Paths                                                                   *)
(***************************************************************************)
LEMMA PrefixIsPointwise ==
  ASSUME NEW s \in Seq(Int), NEW t \in Seq(Int)
  PROVE  IsPrefix(s, t) <=> Len(s) <= Len(t) /\ \A k \in 1 .. Len(s) : s[k] = t[k]
<1>1. SubSeq(s, 1, Len(s)) = s
  OBVIOUS
<1>2. CASE Len(s) <= Len(t)
  <2>1. /\ SubSeq(t, 1, Len(s)) \in Seq(Int)
        /\ Len(SubSeq(t, 1, Len(s))) = Len(s)
        /\ \A k \in 1 .. Len(s) : SubSeq(t, 1, Len(s))[k] = t[k]
    BY <1>2
  <2> QED
    BY <1>1, <1>2, <2>1 DEF IsPrefix
<1> QED
  BY <1>2 DEF IsPrefix

(* The last slash is there, and nothing after it is one.                   *)
LEMMA LastSlashIsLast ==
  ASSUME NEW p \in Seq(Int), NEW n \in 1 .. Len(p), p[n] = Slash
  PROVE  /\ LastSlash(p) \in n .. Len(p)
         /\ p[LastSlash(p)] = Slash
         /\ \A k \in 1 .. Len(p) : p[k] = Slash => k <= LastSlash(p)
<1> DEFINE S == {k \in DOMAIN p : p[k] = Slash}
           T == {Len(p) - k : k \in S}
<1>1. S \subseteq 1 .. Len(p) /\ n \in S
  OBVIOUS
<1>2. T \subseteq Nat /\ T # {}
  BY <1>1
<1>3. PICK m \in T : \A k \in T : m <= k
  BY <1>2, LeastNat
<1>4. PICK j \in S : m = Len(p) - j
  OBVIOUS
<1>5. ASSUME NEW k \in S
      PROVE  j >= k
  <2>1. Len(p) - k \in T /\ k \in Int /\ j \in Int /\ Len(p) \in Int
    BY <1>1
  <2>2. m <= Len(p) - k
    BY <1>3, <2>1
  <2> HIDE DEF S, T
  <2> QED
    BY <1>4, <2>1, <2>2
<1> HIDE DEF S, T
<1>6. Max(S) \in S /\ \A k \in S : Max(S) >= k
  <2>1. \E x \in S : \A y \in S : x >= y
    BY <1>5
  <2> QED
    BY <2>1, Zenon DEF Max
<1> USE DEF S
<1> QED
  BY <1>1, <1>6 DEF LastSlash

LEMMA LastSlashIsUnique ==
  ASSUME NEW p \in Seq(Int), NEW n \in 1 .. Len(p), p[n] = Slash,
         \A k \in n + 1 .. Len(p) : p[k] # Slash
  PROVE  LastSlash(p) = n
<1>1. /\ LastSlash(p) \in n .. Len(p)
      /\ p[LastSlash(p)] = Slash
  BY LastSlashIsLast
<1> HIDE DEF LastSlash
<1>2. ~(LastSlash(p) \in n + 1 .. Len(p))
  BY <1>1
<1> QED
  BY <1>1, <1>2

(* The node above another is absolute, shorter, and above it.              *)
LEMMA ParentOfNode ==
  ASSUME NEW n \in Nodes \ {Root}
  PROVE  /\ LastSlash(n) \in 1 .. Len(n) - 1 /\ n[LastSlash(n)] = Slash
         /\ \A k \in LastSlash(n) + 1 .. Len(n) : n[k] # Slash
         /\ LastSlash(n) = 1 => Parent(n) = Root
         /\ LastSlash(n) # 1 => /\ Len(Parent(n)) = LastSlash(n) - 1
                                /\ \A k \in 1 .. LastSlash(n) - 1 : Parent(n)[k] = n[k]
         /\ Parent(n) \in Nodes /\ Len(Parent(n)) < Len(n)
<1>1. n \in Seq(Int) /\ n # <<>> /\ n[1] = Slash /\ Parent(n) \in Nodes
  BY PathsAssumption DEF IsAbsolute
<1>2. Len(n) > 1
  <2>1. Len(n) \in Nat /\ Len(n) # 0
    BY <1>1
  <2>2. ASSUME Len(n) = 1 PROVE n = Root
    <3>1. n \in [1 .. 1 -> Int] /\ <<Slash>> \in [1 .. 1 -> Int]
      BY <1>1, <2>2, PathsAssumption
    <3>2. \A k \in 1 .. 1 : n[k] = <<Slash>>[k]
      BY <1>1
    <3> QED
      BY <3>1, <3>2 DEF Root
  <2>3. Len(n) # 1
    BY <2>2
  <2> QED
    <3> DEFINE l == Len(n)
    <3>1. l \in Nat /\ l # 0 /\ l # 1
      BY <2>1, <2>3
    <3> HIDE DEF l
    <3>2. l > 1
      BY <3>1
    <3> QED
      BY <3>2 DEF l
<1>3. n[Len(n)] # Slash
  BY <1>2, PathsAssumption DEF IsAbsolute
<1>4. LastSlash(n) \in 1 .. Len(n) /\ n[LastSlash(n)] = Slash
      /\ \A k \in 1 .. Len(n) : n[k] = Slash => k <= LastSlash(n)
  <2>1. 1 \in 1 .. Len(n)
    BY <1>1, <1>2
  <2> QED
    BY <1>1, <2>1, LastSlashIsLast
<1>5. LastSlash(n) \in 1 .. Len(n) - 1
  BY <1>1, <1>2, <1>3, <1>4
<1>6. CASE LastSlash(n) = 1
  BY <1>1, <1>2, <1>4, <1>5, <1>6 DEF Parent, Root
<1>7. CASE LastSlash(n) # 1
  <2>1. Parent(n) = SubSeq(n, 1, LastSlash(n) - 1)
    BY <1>7 DEF Parent
  <2> HIDE DEF Parent
  <2>2. Len(Parent(n)) = LastSlash(n) - 1 /\ \A k \in 1 .. LastSlash(n) - 1 : Parent(n)[k] = n[k]
    BY <1>1, <1>5, <2>1
  <2> QED
    BY <1>1, <1>4, <1>5, <1>7, <2>2
<1> QED
  BY <1>6, <1>7

LEMMA RootIsANode == Root \in Nodes /\ Root \in Seq(Int) /\ Len(Root) = 1 /\ Root[1] = Slash
  BY PathsAssumption DEF Root

LEMMA NodeIsAPath ==
  ASSUME NEW n \in Nodes
  PROVE  n \in Seq(Int) /\ n # <<>> /\ Len(n) >= 1 /\ n[1] = Slash
<1>1. n \in Seq(Int) /\ n # <<>> /\ n[1] = Slash
  BY PathsAssumption DEF IsAbsolute
<1> QED
  BY <1>1

LEMMA SamePath ==
  ASSUME NEW p \in Seq(Int), NEW q \in Seq(Int), Len(p) = Len(q),
         \A k \in 1 .. Len(p) : p[k] = q[k]
  PROVE  p = q
  OBVIOUS

LEMMA ConcatIsPointwise ==
  ASSUME NEW s \in Seq(Int), NEW t \in Seq(Int)
  PROVE  /\ s \o t \in Seq(Int) /\ Len(s \o t) = Len(s) + Len(t)
         /\ \A k \in 1 .. Len(s) : (s \o t)[k] = s[k]
         /\ \A k \in 1 .. Len(t) : (s \o t)[Len(s) + k] = t[k]
  OBVIOUS

LEMMA ConcatIsAssociative ==
  ASSUME NEW s \in Seq(Int), NEW t \in Seq(Int), NEW u \in Seq(Int)
  PROVE  (s \o t) \o u = s \o (t \o u)
  OBVIOUS

LEMMA SlashAfter ==
  ASSUME NEW p \in Seq(Int)
  PROVE  /\ p \o Root \in Seq(Int) /\ Len(p \o Root) = Len(p) + 1
         /\ (p \o Root)[Len(p) + 1] = Slash
         /\ \A k \in 1 .. Len(p) : (p \o Root)[k] = p[k]
<1>1. /\ p \o Root \in Seq(Int) /\ Len(p \o Root) = Len(p) + Len(Root)
      /\ \A k \in 1 .. Len(p) : (p \o Root)[k] = p[k]
      /\ \A k \in 1 .. Len(Root) : (p \o Root)[Len(p) + k] = Root[k]
  BY RootIsANode, ConcatIsPointwise
<1>2. 1 \in 1 .. Len(Root)
  BY RootIsANode
<1> QED
  BY <1>1, <1>2, RootIsANode

LEMMA AboveIsPointwise ==
  ASSUME NEW r \in Seq(Int), NEW n \in Seq(Int)
  PROVE  Above(r, n) <=> \/ r = n \/ r = Root
                         \/ /\ Len(r) < Len(n) /\ n[Len(r) + 1] = Slash
                            /\ \A k \in 1 .. Len(r) : r[k] = n[k]
<1> DEFINE d == r \o Root
<1>1. /\ d \in Seq(Int) /\ Len(d) = Len(r) + 1 /\ d[Len(r) + 1] = Slash
      /\ \A k \in 1 .. Len(r) : d[k] = r[k]
  BY SlashAfter
<1>2. IsPrefix(d, n) <=> Len(d) <= Len(n) /\ \A k \in 1 .. Len(d) : d[k] = n[k]
  BY <1>1, PrefixIsPointwise
<1> HIDE DEF d
<1>3. IsPrefix(d, n) <=> /\ Len(r) < Len(n) /\ n[Len(r) + 1] = Slash
                         /\ \A k \in 1 .. Len(r) : r[k] = n[k]
  <2>1. Len(r) \in Nat /\ Len(n) \in Nat
    OBVIOUS
  <2>2. ASSUME IsPrefix(d, n)
        PROVE  /\ Len(r) < Len(n) /\ n[Len(r) + 1] = Slash
               /\ \A k \in 1 .. Len(r) : r[k] = n[k]
    <3>1. Len(d) <= Len(n) /\ \A k \in 1 .. Len(d) : d[k] = n[k]
      BY <1>2, <2>2
    <3>2. Len(r) + 1 \in 1 .. Len(d) /\ Len(r) < Len(n) /\ \A k \in 1 .. Len(r) : k \in 1 .. Len(d)
      BY <1>1, <2>1, <3>1
    <3>3. n[Len(r) + 1] = Slash
      BY <1>1, <3>1, <3>2
    <3> QED
      BY <1>1, <3>1, <3>2, <3>3
  <2>3. ASSUME Len(r) < Len(n), n[Len(r) + 1] = Slash, \A k \in 1 .. Len(r) : r[k] = n[k]
        PROVE  IsPrefix(d, n)
    <3>1. ASSUME NEW k \in 1 .. Len(d)
          PROVE  d[k] = n[k]
      <4>1. k \in 1 .. Len(r) \/ k = Len(r) + 1
        BY <1>1, <2>1
      <4> QED
        BY <1>1, <2>3, <4>1
    <3> QED
      BY <1>1, <1>2, <2>1, <2>3, <3>1
  <2> QED
    BY <2>2, <2>3
<1>4. Above(r, n) <=> r = n \/ r = Root \/ IsPrefix(d, n)
  BY DEF Above, d
<1> QED
  BY <1>3, <1>4

LEMMA AboveTransitive ==
  ASSUME NEW r \in Seq(Int), NEW m \in Seq(Int), NEW n \in Seq(Int),
         r # <<>>, Above(r, m), Above(m, n)
  PROVE  Above(r, n)
<1>1. CASE r = m \/ m = n \/ r = Root
  BY <1>1 DEF Above
<1>2. CASE r # m /\ m # n /\ r # Root
  <2>1. /\ Len(r) < Len(m) /\ m[Len(r) + 1] = Slash
        /\ \A k \in 1 .. Len(r) : r[k] = m[k]
    BY <1>2, AboveIsPointwise
  <2>2. Len(r) \in Nat /\ Len(r) # 0 /\ Len(m) \in Nat /\ Len(n) \in Nat
    OBVIOUS
  <2>3. m # Root
    BY <2>1, <2>2, RootIsANode
  <2>4. /\ Len(m) < Len(n)
        /\ \A k \in 1 .. Len(m) : m[k] = n[k]
    BY <1>2, <2>3, AboveIsPointwise
  <2>5. n[Len(r) + 1] = Slash /\ Len(r) < Len(n)
    <3> DEFINE k == Len(r)
               l == Len(m)
               h == Len(n)
    <3>1. k \in Nat /\ l \in Nat /\ h \in Nat /\ k < l /\ l < h
      BY <2>1, <2>2, <2>4
    <3>2. \A q \in 1 .. l : m[q] = n[q]
      BY <2>4
    <3>3. m[k + 1] = Slash
      BY <2>1
    <3> HIDE DEF k, l, h
    <3>4. k + 1 \in 1 .. l /\ k < h
      BY <3>1
    <3>5. n[k + 1] = Slash
      BY <3>2, <3>3, <3>4
    <3> QED
      BY <3>4, <3>5 DEF k, h
  <2>6. \A k \in 1 .. Len(r) : r[k] = n[k]
    BY <2>1, <2>2, <2>4
  <2> QED
    BY <2>5, <2>6, AboveIsPointwise
<1> QED
  BY <1>1, <1>2

LEMMA ParentIsAbove ==
  ASSUME NEW n \in Nodes \ {Root}
  PROVE  Above(Parent(n), n)
<1>1. n \in Seq(Int) /\ Parent(n) \in Seq(Int)
  BY ParentOfNode, NodeIsAPath
<1>2. CASE LastSlash(n) = 1
  BY <1>2, ParentOfNode DEF Above
<1>3. CASE LastSlash(n) # 1
  <2> DEFINE m == Parent(n)
             l == LastSlash(n)
  <2>1. /\ l \in 1 .. Len(n) - 1 /\ n[l] = Slash
        /\ Len(m) = l - 1 /\ \A k \in 1 .. l - 1 : m[k] = n[k]
    BY <1>3, ParentOfNode
  <2>2. Len(n) \in Nat
    BY <1>1
  <2> HIDE DEF m, l
  <2>3. Len(m) < Len(n) /\ n[Len(m) + 1] = Slash /\ \A k \in 1 .. Len(m) : m[k] = n[k]
    BY <2>1, <2>2
  <2> QED
    BY <1>1, <2>3, AboveIsPointwise DEF m
<1> QED
  BY <1>2, <1>3

(* Between a directory and a node below it is the parent of that node.     *)
LEMMA AboveTheParent ==
  ASSUME NEW n \in Nodes \ {Root}, NEW r \in Seq(Int), r # <<>>, r # n, Above(r, n)
  PROVE  Above(r, Parent(n))
<1> DEFINE m == Parent(n)
           l == LastSlash(n)
<1>1. n \in Seq(Int) /\ m \in Seq(Int)
  BY ParentOfNode, NodeIsAPath
<1>2. CASE r = Root
  BY <1>2 DEF Above
<1>3. CASE r # Root
  <2>1. /\ Len(r) < Len(n) /\ n[Len(r) + 1] = Slash
        /\ \A k \in 1 .. Len(r) : r[k] = n[k]
    BY <1>1, <1>3, AboveIsPointwise
  <2>2. Len(r) \in Nat /\ Len(r) >= 1 /\ Len(n) \in Nat
    BY <1>1
  <2>3. l \in 1 .. Len(n) - 1 /\ \A k \in l + 1 .. Len(n) : n[k] # Slash
    BY ParentOfNode
  <2>4. l # 1 => Len(m) = l - 1 /\ \A k \in 1 .. l - 1 : m[k] = n[k]
    BY ParentOfNode
  <2> HIDE DEF m, l
  <2>5. l >= Len(r) + 1
    BY <2>1, <2>2, <2>3
  <2>6. Len(m) = l - 1 /\ \A k \in 1 .. l - 1 : m[k] = n[k]
    BY <2>2, <2>3, <2>4, <2>5
  <2>7. CASE l = Len(r) + 1
    <3>1. Len(r) = Len(m) /\ \A k \in 1 .. Len(r) : r[k] = m[k]
      BY <2>1, <2>2, <2>6, <2>7
    <3>2. r = m
      BY <1>1, <3>1, SamePath
    <3> QED
      BY <3>2 DEF Above, m
  <2>8. CASE l > Len(r) + 1
    <3>1. Len(r) < Len(m) /\ m[Len(r) + 1] = Slash /\ \A k \in 1 .. Len(r) : r[k] = m[k]
      BY <2>1, <2>2, <2>3, <2>6, <2>8
    <3> QED
      BY <1>1, <3>1, AboveIsPointwise DEF m
  <2> QED
    BY <2>2, <2>3, <2>5, <2>7, <2>8
<1> QED
  BY <1>2, <1>3

-----------------------------------------------------------------------------
(***************************************************************************)
(* Path strings: below the root, Join makes two slashes of one.            *)
(***************************************************************************)
LeadsTo(p, n) == p = n \/ (n # Root /\ p = Root \o n)

LEMMA SlashBefore ==
  ASSUME NEW n \in Seq(Int)
  PROVE  /\ Root \o n \in Seq(Int) /\ Len(Root \o n) = Len(n) + 1
         /\ (Root \o n)[1] = Slash
         /\ \A k \in 1 .. Len(n) : (Root \o n)[k + 1] = n[k]
<1> DEFINE q == Root \o n
<1>1. /\ q \in Seq(Int) /\ Len(q) = Len(Root) + Len(n)
      /\ \A k \in 1 .. Len(Root) : q[k] = Root[k]
      /\ \A k \in 1 .. Len(n) : q[Len(Root) + k] = n[k]
  BY RootIsANode, ConcatIsPointwise
<1>2. 1 \in 1 .. Len(Root) /\ Len(n) \in Nat
  BY RootIsANode
<1> HIDE DEF q
<1>3. /\ Len(q) = Len(n) + 1 /\ q[1] = Slash
      /\ \A k \in 1 .. Len(n) : q[k + 1] = n[k]
  BY <1>1, <1>2, RootIsANode
<1> QED
  BY <1>1, <1>3 DEF q

LEMMA DoubleSlash ==
  ASSUME NEW p \in Seq(Int)
  PROVE  IsPrefix(Root \o Root, p) <=> Len(p) >= 2 /\ p[1] = Slash /\ p[2] = Slash
<1> DEFINE d == Root \o Root
<1>1. d \in Seq(Int) /\ Len(d) = 2 /\ d[1] = Slash /\ d[2] = Slash
  BY RootIsANode, SlashBefore, SlashAfter
<1> HIDE DEF d
<1>2. IsPrefix(d, p) <=> Len(d) <= Len(p) /\ \A k \in 1 .. Len(d) : d[k] = p[k]
  BY <1>1, PrefixIsPointwise
<1>3. 1 .. 2 = {1, 2} /\ Len(p) \in Nat
  OBVIOUS
<1>4. IsPrefix(d, p) <=> Len(p) >= 2 /\ p[1] = Slash /\ p[2] = Slash
  BY <1>1, <1>2, <1>3
<1> QED
  BY <1>4 DEF d

LEMMA LeadsToItsNode ==
  ASSUME NEW n \in Nodes, NEW p, LeadsTo(p, n)
  PROVE  p \in Seq(Int) /\ p # <<>> /\ NodeOf(p) = n
<1>1. n \in Seq(Int) /\ n # <<>> /\ Len(n) >= 1 /\ n[1] = Slash
  BY NodeIsAPath
<1>2. CASE p = n
  <2>1. ~(Len(n) >= 2 /\ n[2] = Slash)
    BY <1>1, PathsAssumption DEF IsAbsolute
  <2> QED
    BY <1>1, <1>2, <2>1, DoubleSlash DEF NodeOf
<1>3. CASE n # Root /\ p = Root \o n
  <2>1. /\ p \in Seq(Int) /\ Len(p) = Len(n) + 1 /\ p[1] = Slash
        /\ \A k \in 1 .. Len(n) : p[k + 1] = n[k]
    BY <1>1, <1>3, SlashBefore
  <2>2. Len(n) \in Nat
    BY <1>1
  <2>3. Len(p) >= 2 /\ p[2] = Slash
    BY <1>1, <2>1, <2>2
  <2>4. NodeOf(p) = Tail(p)
    BY <2>1, <2>3, DoubleSlash DEF NodeOf
  <2>5. /\ Tail(p) \in Seq(Int) /\ Len(Tail(p)) = Len(n)
        /\ \A k \in 1 .. Len(n) : Tail(p)[k] = p[k + 1]
    BY <2>1, <2>2
  <2>6. Tail(p) = n
    BY <1>1, <2>1, <2>5, SamePath
  <2>7. p # <<>>
    BY <2>1, <2>3
  <2> QED
    BY <2>1, <2>4, <2>6, <2>7
<1> QED
  BY <1>2, <1>3 DEF LeadsTo

LEMMA BasenameIsPointwise ==
  ASSUME NEW p \in Seq(Int), NEW l \in 1 .. Len(p), LastSlash(p) = l
  PROVE  /\ ak_path_basename(p) \in Seq(Int)
         /\ Len(ak_path_basename(p)) = Len(p) - l
         /\ \A k \in 1 .. Len(p) - l : ak_path_basename(p)[k] = p[l + k]
  BY DEF ak_path_basename

(* Both strings for a node have its name.                                  *)
LEMMA LeadsToItsName ==
  ASSUME NEW n \in Nodes \ {Root}, NEW p, LeadsTo(p, n)
  PROVE  ak_path_basename(p) = ak_path_basename(n)
<1>1. CASE p = n
  BY <1>1
<1>2. CASE p = Root \o n
  <2> DEFINE l == LastSlash(n)
  <2>1. n \in Seq(Int) /\ Len(n) \in Nat
    BY NodeIsAPath
  <2>2. /\ l \in 1 .. Len(n) - 1 /\ n[l] = Slash
        /\ \A k \in l + 1 .. Len(n) : n[k] # Slash
    BY ParentOfNode
  <2>3. /\ p \in Seq(Int) /\ Len(p) = Len(n) + 1
        /\ \A k \in 1 .. Len(n) : p[k + 1] = n[k]
    BY <1>2, <2>1, SlashBefore
  <2> HIDE DEF l
  <2>4. ASSUME NEW k \in l + 2 .. Len(p)
        PROVE  p[k] # Slash
    <3>1. k - 1 \in l + 1 .. Len(n) /\ k - 1 \in 1 .. Len(n) /\ (k - 1) + 1 = k
      BY <2>1, <2>2, <2>3
    <3> DEFINE j == k - 1
    <3>2. j \in l + 1 .. Len(n) /\ j \in 1 .. Len(n) /\ j + 1 = k
      BY <3>1
    <3> HIDE DEF j
    <3>3. p[k] = n[j]
      BY <2>3, <3>2
    <3>4. \A a \in l + 1 .. Len(n) : n[a] # Slash
      BY <2>2
    <3>5. n[j] # Slash
      BY <3>2, <3>4, Zenon
    <3> QED
      BY <3>3, <3>5
  <2>5. l + 1 \in 1 .. Len(p) /\ p[l + 1] = Slash
    <3>1. l \in 1 .. Len(n) /\ l + 1 \in 1 .. Len(n) + 1
      BY <2>1, <2>2
    <3>2. p[l + 1] = n[l]
      BY <2>3, <3>1
    <3> QED
      BY <2>2, <2>3, <3>1, <3>2
  <2>6. LastSlash(p) = l + 1
    <3>1. \A k \in (l + 1) + 1 .. Len(p) : p[k] # Slash
      BY <2>1, <2>2, <2>3, <2>4
    <3> QED
      BY <2>3, <2>5, <3>1, LastSlashIsUnique
  <2> DEFINE b == ak_path_basename(p)
             c == ak_path_basename(n)
  <2>7. /\ b \in Seq(Int) /\ Len(b) = Len(p) - (l + 1)
        /\ \A k \in 1 .. Len(p) - (l + 1) : b[k] = p[(l + 1) + k]
    BY <2>3, <2>5, <2>6, BasenameIsPointwise
  <2>8. /\ c \in Seq(Int) /\ Len(c) = Len(n) - l
        /\ \A k \in 1 .. Len(n) - l : c[k] = n[l + k]
    <3>1. l \in 1 .. Len(n) /\ LastSlash(n) = l
      BY <2>1, <2>2 DEF l
    <3> QED
      BY <2>1, <3>1, BasenameIsPointwise
  <2> HIDE DEF b, c
  <2>9. Len(b) = Len(c)
    BY <2>1, <2>2, <2>3, <2>7, <2>8
  <2>10. ASSUME NEW k \in 1 .. Len(b)
         PROVE  b[k] = c[k]
    <3>1. k \in 1 .. Len(n) - l /\ k \in 1 .. Len(p) - (l + 1) /\ l + k \in 1 .. Len(n)
          /\ (l + 1) + k = (l + k) + 1
      BY <2>1, <2>2, <2>3, <2>7
    <3>2. b[k] = p[(l + 1) + k] /\ c[k] = n[l + k]
      BY <2>7, <2>8, <3>1
    <3>3. p[(l + k) + 1] = n[l + k]
      BY <2>3, <3>1
    <3> QED
      BY <3>1, <3>2, <3>3
  <2>11. b = c
    BY <2>7, <2>8, <2>9, <2>10, SamePath
  <2> QED
    BY <2>11 DEF b, c
<1> QED
  BY <1>1, <1>2 DEF LeadsTo

(* The string made of a directory's and an entry's name leads to the entry. *)
LEMMA JoinLeadsTo ==
  ASSUME NEW n \in Nodes \ {Root}, NEW p, LeadsTo(p, Parent(n))
  PROVE  LeadsTo(Join(p, ak_path_basename(n)), n)
<1> DEFINE l == LastSlash(n)
           b == ak_path_basename(n)
           m == Parent(n)
<1>1. n \in Seq(Int) /\ Len(n) \in Nat /\ m \in Nodes /\ m \in Seq(Int)
  BY NodeIsAPath, ParentOfNode
<1>2. l \in 1 .. Len(n) - 1 /\ n[l] = Slash /\ n[1] = Slash
  BY ParentOfNode, NodeIsAPath
<1>3. /\ b \in Seq(Int) /\ Len(b) = Len(n) - l
      /\ \A k \in 1 .. Len(n) - l : b[k] = n[l + k]
  <2>1. l \in 1 .. Len(n) /\ LastSlash(n) = l
    BY <1>1, <1>2
  <2> QED
    BY <1>1, <2>1, BasenameIsPointwise
<1>4. /\ l = 1 => m = Root
      /\ l # 1 => Len(m) = l - 1 /\ \A k \in 1 .. l - 1 : m[k] = n[k]
  BY ParentOfNode
<1> HIDE DEF l, b, m
<1>5. ASSUME l # 1
      PROVE  (m \o Root) \o b = n
  <2> DEFINE d == m \o Root
             q == d \o b
  <2>1. /\ d \in Seq(Int) /\ Len(d) = Len(m) + 1 /\ d[Len(m) + 1] = Slash
        /\ \A k \in 1 .. Len(m) : d[k] = m[k]
    BY <1>1, SlashAfter
  <2>2. /\ q \in Seq(Int) /\ Len(q) = Len(d) + Len(b)
        /\ \A k \in 1 .. Len(d) : q[k] = d[k]
        /\ \A k \in 1 .. Len(b) : q[Len(d) + k] = b[k]
    BY <1>3, <2>1, ConcatIsPointwise
  <2> HIDE DEF d, q
  <2>3. Len(d) = l /\ Len(q) = Len(n)
    <3>1. Len(m) = l - 1 /\ l \in Int /\ Len(n) \in Int
      BY <1>1, <1>2, <1>4, <1>5
    <3>2. Len(d) = l
      BY <2>1, <3>1
    <3>3. Len(b) = Len(n) - l
      BY <1>3
    <3>4. Len(q) = l + (Len(n) - l)
      BY <2>2, <3>2, <3>3
    <3> QED
      BY <3>1, <3>2, <3>4
  <2>4. ASSUME NEW k \in 1 .. Len(q)
        PROVE  q[k] = n[k]
    <3>0. Len(m) = l - 1 /\ \A j \in 1 .. l - 1 : m[j] = n[j]
      BY <1>4, <1>5
    <3>1. CASE k < l
      <4>1. k \in 1 .. l - 1 /\ k \in 1 .. l
        BY <1>1, <1>2, <2>3, <3>1
      <4> QED
        BY <2>1, <2>2, <2>3, <3>0, <4>1
    <3>2. CASE k = l
      <4>1. l \in 1 .. l /\ l = Len(m) + 1
        BY <1>1, <1>2, <3>0
      <4> QED
        BY <1>2, <2>1, <2>2, <2>3, <3>2, <4>1
    <3>3. CASE k > l
      <4>1. k - l \in 1 .. Len(b) /\ l + (k - l) = k /\ k - l \in 1 .. Len(n) - l
        BY <1>1, <1>2, <1>3, <2>3, <3>3
      <4>2. q[Len(d) + (k - l)] = b[k - l]
        BY <2>2, <4>1
      <4>3. b[k - l] = n[l + (k - l)]
        BY <1>3, <4>1
      <4>4. q[k] = b[k - l]
        BY <2>3, <4>1, <4>2
      <4>5. n[l + (k - l)] = n[k]
        BY <4>1
      <4> QED
        BY <4>3, <4>4, <4>5
    <3> QED
      BY <1>1, <1>2, <2>3, <3>1, <3>2, <3>3
  <2>5. q = n
    BY <1>1, <2>2, <2>3, <2>4, SamePath
  <2> QED
    BY <2>5 DEF d, q
<1>6. ASSUME l = 1
      PROVE  Root \o b = n
  <2> DEFINE q == Root \o b
  <2>1. /\ q \in Seq(Int) /\ Len(q) = Len(b) + 1 /\ q[1] = Slash
        /\ \A k \in 1 .. Len(b) : q[k + 1] = b[k]
    BY <1>3, SlashBefore
  <2> HIDE DEF q
  <2>2. ASSUME NEW k \in 1 .. Len(q)
        PROVE  q[k] = n[k]
    <3>1. CASE k = 1
      BY <1>2, <2>1, <3>1
    <3>2. CASE k # 1
      <4>1. k - 1 \in 1 .. Len(b) /\ (k - 1) + 1 = k /\ k - 1 \in 1 .. Len(n) - l /\ l + (k - 1) = k
        BY <1>1, <1>2, <1>3, <1>6, <2>1, <3>2
      <4> QED
        BY <1>3, <2>1, <4>1
    <3> QED
      BY <3>1, <3>2
  <2>3. Len(q) = Len(n)
    BY <1>1, <1>3, <1>6, <2>1
  <2>4. q = n
    BY <1>1, <2>1, <2>2, <2>3, SamePath
  <2> QED
    BY <2>4 DEF q
<1>7. CASE p = m /\ l # 1
  BY <1>5, <1>7 DEF Join, LeadsTo, b
<1>8. CASE p = m /\ l = 1
  <2>1. (Root \o Root) \o b = Root \o (Root \o b)
    BY <1>3, RootIsANode, ConcatIsAssociative
  <2> QED
    BY <1>4, <1>6, <1>8, <2>1 DEF Join, LeadsTo, b
<1>9. CASE m # Root /\ p = Root \o m
  <2>1. ((Root \o m) \o Root) \o b = Root \o ((m \o Root) \o b)
    <3>1. m \o Root \in Seq(Int)
      BY <1>1, SlashAfter
    <3>2. (Root \o m) \o Root = Root \o (m \o Root)
      BY <1>1, RootIsANode, ConcatIsAssociative
    <3>3. Root \in Seq(Int)
      BY RootIsANode
    <3>4. (Root \o (m \o Root)) \o b = Root \o ((m \o Root) \o b)
      BY <1>3, <3>1, <3>3, ConcatIsAssociative
    <3> QED
      BY <3>2, <3>4
  <2> QED
    BY <1>4, <1>5, <1>9, <2>1 DEF Join, LeadsTo, b
<1> QED
  BY <1>7, <1>8, <1>9 DEF LeadsTo, m

-----------------------------------------------------------------------------
(***************************************************************************)
(* The file system: something that exists is in a directory, whose removal *)
(* has to wait.                                                            *)
(***************************************************************************)
FileSystemOK ==
  /\ fs \in [Nodes -> Kinds]
  /\ \A n \in Nodes \ {Root} : fs[n] # "none" => fs[Parent(n)] \in DirKinds

(* Below a directory, the way to a node leads through one of its entries.  *)
LEMMA NextOnTheWay ==
  ASSUME FileSystemOK, NEW n \in Nodes, fs[n] # "none",
         NEW r \in Seq(Int), r # <<>>, Above(r, n)
  PROVE  /\ Exists(r)
         /\ r # n => \E c \in Entries(r) : Above(c, n)
<1>0. n \in Seq(Int) /\ Above(n, n)
  BY NodeIsAPath DEF Above
<1>1. CASE r = n
  BY <1>1 DEF Exists
<1>2. CASE r # n
  <2> DEFINE S == {c \in Nodes : fs[c] # "none" /\ Above(r, c) /\ Above(c, n) /\ c # r}
             T == {Len(c) : c \in S}
  <2>1. n \in S
    BY <1>0, <1>2
  <2>2. T \subseteq Nat /\ T # {}
    <3>1. \A c \in S : Len(c) \in Nat
      <4>1. \A c \in S : c \in Seq(Int)
        BY NodeIsAPath
      <4> QED
        BY <4>1
    <3> QED
      BY <2>1, <3>1
  <2> HIDE DEF T
  <2>3. PICK m \in T : \A k \in T : m <= k
    BY <2>2, LeastNat
  <2>4. PICK c \in S : m = Len(c)
    BY DEF T
  <2>5. c \in Nodes /\ c \in Seq(Int) /\ fs[c] # "none" /\ Above(r, c) /\ Above(c, n) /\ c # r
    BY NodeIsAPath
  <2>6. c # Root
    <3>1. SUFFICES ASSUME c = Root PROVE FALSE
      OBVIOUS
    <3>2. Len(r) < Len(c) /\ r # Root
      BY <2>5, <3>1, AboveIsPointwise
    <3>3. Len(r) \in Nat /\ Len(r) # 0
      OBVIOUS
    <3> QED
      BY <3>1, <3>2, <3>3, RootIsANode
  <2>7. /\ Parent(c) \in Nodes /\ Parent(c) \in Seq(Int) /\ Len(Parent(c)) < Len(c)
        /\ fs[Parent(c)] \in DirKinds /\ Above(r, Parent(c)) /\ Above(Parent(c), c)
    BY <2>5, <2>6, ParentOfNode, NodeIsAPath, ParentIsAbove, AboveTheParent DEF FileSystemOK
  <2>8. Parent(c) # <<>>
    BY <2>7, NodeIsAPath
  <2>9. Above(Parent(c), n)
    BY <1>0, <2>5, <2>7, <2>8, AboveTransitive
  <2>10. fs[Parent(c)] # "none"
    BY <2>7 DEF DirKinds
  <2>11. Parent(c) = r
    <3>1. SUFFICES ASSUME Parent(c) # r PROVE FALSE
      OBVIOUS
    <3>2. Parent(c) \in S
      BY <2>7, <2>9, <2>10, <3>1
    <3>3. m <= Len(Parent(c))
      BY <2>3, <3>2 DEF T
    <3>4. Len(c) \in Nat /\ Len(Parent(c)) \in Nat
      BY <2>5, <2>7
    <3> QED
      BY <2>4, <2>7, <3>3, <3>4
  <2>12. c \in Entries(r)
    BY <2>5, <2>6, <2>11 DEF Entries
  <2> QED
    BY <2>5, <2>7, <2>10, <2>11, <2>12 DEF Exists
<1> QED
  BY <1>1, <1>2

-----------------------------------------------------------------------------
(***************************************************************************)
(* The inductive invariant: until it is listed, a video that the scan has  *)
(* to find is below something that is still to be done.                    *)
(***************************************************************************)
Stages == {"current_dir", "resolve", "dedupe", "walk", "next_dir", "read", "done", "died"}

Strings == Seq(Int) \ {<<>>}

ExploreTypeOK ==
  /\ FileSystemOK
  /\ pc \in Stages
  /\ paths \in Seq(Strings)
  /\ i \in Nat \ {0} /\ unique \in Nat
  /\ real_paths \in Seq(Nodes)
  /\ \A k \in 1 .. Len(real_paths) : real_paths[k] \in Range(paths)
  /\ dirstack \in Seq(Strings) /\ files \in Seq(Seq(Int))

(* Where the loop counters are, stage by stage.                            *)
CountersOK ==
  /\ pc = "current_dir" => i = 1 /\ \E n \in Nodes : paths = <<n>>
  /\ pc = "resolve" => i <= Len(paths) + 1
  /\ pc = "dedupe" => unique \in 1 .. i - 1 /\ i <= Len(real_paths) + 1
  /\ pc \in {"walk", "next_dir", "read"} => unique = Len(real_paths) /\ i <= unique + 1
  /\ pc \in {"next_dir", "read"} => i <= unique

(* A string on the stack leads to a directory below an input path; it may  *)
(* have been removed, but never replaced.                                  *)
IsScanned(p) ==
  \E d \in Nodes : /\ LeadsTo(p, d) /\ fs[d] \in DirKinds \cup {"none"}
                   /\ \E r \in Range(paths) : Above(r, d)

IsEntry(entry, c) ==
  /\ entry.name = ak_path_basename(c) /\ entry.type \in Kinds \ {"none"}
  /\ fs[c] \in {entry.type, "none"}
  /\ LeadsTo(curr_path, Parent(c))

DirectoriesOK ==
  /\ \A k \in DOMAIN dirstack : IsScanned(dirstack[k])
  /\ pc = "read" => /\ IsScanned(curr_path)
                    /\ \A entry \in unread : \E c \in Nodes \ {Root} : IsEntry(entry, c)

Wanted(n) ==
  /\ IsVideo(n)
  /\ \E r \in Range(paths) : Above(r, n)
  /\ \A r \in Range(paths) : Above(r, n) => CanSee(r, n)

Listed(n) == \E k \in DOMAIN files : NodeOf(files[k]) = n

KeptAbove(n, from) == \E k \in from .. unique : Above(real_paths[k], n)

StackedAbove(n) == \E k \in DOMAIN dirstack : \E d \in Nodes : LeadsTo(dirstack[k], d) /\ Above(d, n)

UnreadAbove(n) ==
  \E entry \in unread : \E c \in Nodes \ {Root} : IsEntry(entry, c) /\ Above(c, n)

Covered(n) ==
  /\ pc = "resolve" => \/ \E k \in i .. Len(paths) : Above(paths[k], n)
                       \/ \E k \in 1 .. Len(real_paths) : Above(real_paths[k], n)
  /\ pc = "dedupe" =>
       \E k \in (1 .. unique) \cup (i .. Len(real_paths)) : Above(real_paths[k], n)
  /\ pc = "walk" => Listed(n) \/ KeptAbove(n, i)
  /\ pc = "next_dir" => Listed(n) \/ KeptAbove(n, i + 1) \/ StackedAbove(n)
  /\ pc = "read" => Listed(n) \/ KeptAbove(n, i + 1) \/ StackedAbove(n) \/ UnreadAbove(n)
  /\ pc = "done" => Listed(n)

ExploreInv ==
  /\ ExploreTypeOK
  /\ CountersOK
  /\ DirectoriesOK
  /\ \A n \in Nodes : Wanted(n) => Covered(n)

(***************************************************************************)
(* What the scan still has to find only shrinks.                           *)
(***************************************************************************)
LEMMA WantedEarlier ==
  ASSUME FileSystemOK, NEW n \in Nodes, Wanted(n)', paths' = paths,
         \A m \in Nodes : fs'[m] \in {fs[m], "none"}
  PROVE  Wanted(n)
<1>1. IsVideo(n)
  BY DEF Wanted, IsVideo
<1>2. ASSUME NEW r \in Range(paths), Above(r, n)
      PROVE  CanSee(r, n)
  <2>1. r \in Range(paths)'
    BY <1>2 DEF Range
  <2>2. CanSee(r, n)'
    BY <1>2, <2>1 DEF Wanted
  <2> QED
    BY <1>2, <2>2 DEF CanSee
<1>3. \E r \in Range(paths) : Above(r, n)
  BY DEF Wanted, Range
<1> QED
  BY <1>1, <1>2, <1>3 DEF Wanted

LEMMA PathsAreStrings ==
  ASSUME ExploreTypeOK
  PROVE  /\ \A k \in 1 .. Len(paths) : paths[k] \in Range(paths) /\ paths[k] \in Seq(Int) /\ paths[k] # <<>>
         /\ \A r \in Range(paths) : r \in Seq(Int) /\ r # <<>>
         /\ \A k \in 1 .. Len(real_paths) : real_paths[k] \in Nodes /\ real_paths[k] \in Range(paths)
         /\ Len(paths) \in Nat /\ Len(real_paths) \in Nat
<1>1. \A k \in 1 .. Len(paths) : paths[k] \in Range(paths) /\ paths[k] \in Strings
  BY DEF ExploreTypeOK, Range
<1>2. \A r \in Range(paths) : r \in Strings
  BY DEF ExploreTypeOK, Range
<1>3. \A k \in 1 .. Len(real_paths) : real_paths[k] \in Nodes /\ real_paths[k] \in Range(paths)
  BY DEF ExploreTypeOK
<1>4. Len(paths) \in Nat /\ Len(real_paths) \in Nat
  BY DEF ExploreTypeOK
<1> QED
  BY <1>1, <1>2, <1>3, <1>4 DEF ExploreTypeOK, Strings

(* A directory on the way to a wanted video opens.                         *)
LEMMA WayIsOpen ==
  ASSUME ExploreTypeOK, NEW n \in Nodes, Wanted(n), NEW d \in Nodes, d # n, Above(d, n),
         NEW r \in Range(paths), Above(r, d)
  PROVE  fs[d] = "dir"
<1>1. Above(r, n)
  BY PathsAreStrings, NodeIsAPath, AboveTransitive
<1> QED
  BY <1>1 DEF Wanted, CanSee

LEMMA InitialPaths ==
  ASSUME Init
  PROVE  /\ ExploreTypeOK /\ CountersOK
<1>1. FileSystemOK /\ Root \in Nodes
  BY FileSystemsAssumption, PathsAssumption DEF Init, FileSystemOK
<1>2. CASE scan_curr_dir = TRUE
  <2>1. PICK n \in Nodes : paths = <<n>>
    BY <1>2 DEF Init
  <2>2. n \in Strings
    BY NodeIsAPath DEF Strings
  <2>3. paths \in Seq(Strings) /\ Len(paths) = 1 /\ paths[1] \in Nodes
    BY <2>1, <2>2
  <2> QED
    BY <1>1, <1>2, <2>3 DEF Init, ExploreTypeOK, CountersOK, Stages, Range
<1>3. CASE scan_curr_dir = FALSE
  <2>1. PICK m \in 0 .. MaxInputs : paths \in [1 .. m -> Inputs]
    BY <1>3 DEF Init, SeqOf
  <2>2. paths \in Seq(Strings)
    BY <2>1, PathsAssumption DEF Strings
  <2> QED
    BY <1>1, <1>3, <2>2 DEF Init, ExploreTypeOK, CountersOK, Stages, Range
<1> QED
  BY <1>2, <1>3 DEF Init

LEMMA ExploreInvInit == Init => ExploreInv
<1> SUFFICES ASSUME Init PROVE ExploreInv
  OBVIOUS
<1>1. ExploreTypeOK /\ CountersOK
  BY InitialPaths
<1>2. DirectoriesOK
  BY DEF Init, DirectoriesOK
<1>3. ASSUME NEW n \in Nodes, Wanted(n)
      PROVE  Covered(n)
  <2>1. PICK k \in 1 .. Len(paths) : Above(paths[k], n)
    <3>1. DOMAIN paths = 1 .. Len(paths)
      BY <1>1 DEF ExploreTypeOK
    <3>2. \E k \in DOMAIN paths : Above(paths[k], n)
      BY <1>3 DEF Wanted, Range
    <3> QED
      BY <3>1, <3>2
  <2>2. i = 1 /\ pc \in {"current_dir", "resolve"}
    BY DEF Init
  <2> QED
    BY <2>1, <2>2 DEF Covered
<1> QED
  BY <1>1, <1>2, <1>3 DEF ExploreInv

-----------------------------------------------------------------------------
(***************************************************************************)
(* The steps                                                               *)
(***************************************************************************)
LEMMA UnlinkKeepsInv ==
  ASSUME ExploreInv, Unlink
  PROVE  ExploreInv'
<1>1. PICK m \in Nodes \ {Root} :
        /\ fs[m] # "none" /\ Entries(m) = {}
        /\ fs' = [fs EXCEPT ![m] = "none"]
  BY DEF Unlink
<1>2. UNCHANGED <<inputVars, pc, i, real_paths, unique, walkVars, files>>
  BY DEF Unlink
<1>3. \A n \in Nodes : fs'[n] \in {fs[n], "none"}
  BY <1>1 DEF ExploreInv, ExploreTypeOK, FileSystemOK
<1>4. FileSystemOK'
  <2>1. fs' \in [Nodes -> Kinds]
    BY <1>1 DEF ExploreInv, ExploreTypeOK, FileSystemOK, Kinds
  <2>2. ASSUME NEW n \in Nodes \ {Root}, fs'[n] # "none"
        PROVE  fs'[Parent(n)] \in DirKinds
    <3>1. fs[n] # "none" /\ Parent(n) \in Nodes
      BY <1>3, <2>2, PathsAssumption
    <3>2. Parent(n) # m
      BY <1>1, <3>1 DEF Entries
    <3> QED
      BY <1>1, <3>1, <3>2 DEF ExploreInv, ExploreTypeOK, FileSystemOK
  <2> QED
    BY <2>1, <2>2 DEF FileSystemOK
<1>5. ExploreTypeOK' /\ CountersOK'
  BY <1>2, <1>4 DEF ExploreInv, ExploreTypeOK, CountersOK, inputVars, walkVars, Range
<1>6. ASSUME NEW p, IsScanned(p)
      PROVE  IsScanned(p)'
  BY <1>2, <1>3, <1>6 DEF IsScanned, inputVars, Range
<1>7. ASSUME NEW entry, NEW c \in Nodes, IsEntry(entry, c)
      PROVE  IsEntry(entry, c)'
  BY <1>2, <1>3, <1>7 DEF IsEntry, walkVars
<1>8. DirectoriesOK'
  BY <1>2, <1>6, <1>7 DEF ExploreInv, DirectoriesOK, walkVars
<1>9. ASSUME NEW n \in Nodes, Wanted(n)'
      PROVE  Covered(n)'
  <2>1. Wanted(n)
    BY <1>2, <1>3, <1>9, WantedEarlier DEF ExploreInv, ExploreTypeOK, inputVars
  <2>2. Covered(n)
    BY <2>1 DEF ExploreInv
  <2>3. UnreadAbove(n) => UnreadAbove(n)'
    BY <1>2, <1>7 DEF UnreadAbove, walkVars
  <2>4. /\ Listed(n)' <=> Listed(n)
        /\ StackedAbove(n)' <=> StackedAbove(n)
        /\ KeptAbove(n, i)' <=> KeptAbove(n, i)
        /\ KeptAbove(n, i + 1)' <=> KeptAbove(n, i + 1)
    BY <1>2 DEF Listed, StackedAbove, KeptAbove, walkVars
  <2> QED
    BY <1>2, <2>2, <2>3, <2>4 DEF Covered, inputVars
<1> QED
  BY <1>4, <1>5, <1>8, <1>9 DEF ExploreInv

(* The other steps leave the file system and the input paths alone.        *)
LEMMA SameWanted ==
  ASSUME ExploreInv, UNCHANGED <<fs, inputVars>>
  PROVE  /\ FileSystemOK' /\ paths' \in Seq(Strings) /\ Range(paths)' = Range(paths)
         /\ \A n \in Nodes : Wanted(n)' => Wanted(n) /\ Covered(n)
         /\ \A p : IsScanned(p)' <=> IsScanned(p)
<1>1. FileSystemOK' /\ paths' \in Seq(Strings) /\ Range(paths)' = Range(paths)
  BY DEF ExploreInv, ExploreTypeOK, FileSystemOK, inputVars, Range
<1>2. ASSUME NEW n \in Nodes, Wanted(n)'
      PROVE  Wanted(n) /\ Covered(n)
  BY <1>2, WantedEarlier DEF ExploreInv, ExploreTypeOK, inputVars
<1>3. ASSUME NEW p
      PROVE  IsScanned(p)' <=> IsScanned(p)
  BY <1>1 DEF IsScanned
<1> QED
  BY <1>1, <1>2, <1>3

LEMMA ScanCurrentDirKeepsInv ==
  ASSUME ExploreInv, ScanCurrentDir
  PROVE  ExploreInv'
<1>1. UNCHANGED <<fs, inputVars, i, walkVars, files>> /\ pc = "current_dir"
  BY DEF ScanCurrentDir
<1>2. i = 1 /\ Len(paths) = 1 /\ paths \in Seq(Nodes) /\ paths \in Seq(Strings)
  <2>1. i = 1 /\ paths \in Seq(Strings)
    BY <1>1 DEF ExploreInv, CountersOK, ExploreTypeOK
  <2>2. PICK n \in Nodes : paths = <<n>>
    BY <1>1 DEF ExploreInv, CountersOK
  <2>3. Len(paths) = 1 /\ paths \in Seq(Nodes)
    BY <2>2
  <2> QED
    BY <2>1, <2>3
<1>3. CASE Exists(paths[1])
  <2>1. pc' = "walk" /\ real_paths' = paths /\ unique' = 1
    BY <1>3 DEF ScanCurrentDir
  <2>2. paths \in Seq(Nodes) /\ \A k \in 1 .. Len(paths) : paths[k] \in Range(paths)
    BY <1>2, PathsAreStrings DEF ExploreInv
  <2>3. ExploreTypeOK'
    BY <1>1, <1>2, <2>1, <2>2, SameWanted DEF ExploreInv, ExploreTypeOK, Stages, inputVars, walkVars
  <2>6. CountersOK'
    BY <1>1, <1>2, <2>1 DEF CountersOK
  <2>4. DirectoriesOK'
    BY <1>1, <2>1, SameWanted DEF ExploreInv, DirectoriesOK, walkVars
  <2>5. ASSUME NEW n \in Nodes, Wanted(n)'
        PROVE  Covered(n)'
    <3>1. PICK k \in 1 .. Len(paths) : Above(paths[k], n)
      BY <1>2, <2>5, SameWanted, <1>1 DEF Wanted, Range
    <3>2. k = 1
      BY <1>2
    <3>3. KeptAbove(n, i)'
      BY <1>1, <1>2, <2>1, <3>1, <3>2 DEF KeptAbove
    <3> QED
      BY <2>1, <3>3 DEF Covered
  <2> QED
    BY <2>3, <2>6, <2>4, <2>5 DEF ExploreInv
<1>4. CASE ~Exists(paths[1])
  <2>1. pc' = "died" /\ UNCHANGED <<real_paths, unique>>
    BY <1>4 DEF ScanCurrentDir
  <2>2. ExploreTypeOK' /\ CountersOK'
    BY <1>1, <2>1, SameWanted DEF ExploreInv, ExploreTypeOK, CountersOK, Stages, inputVars, walkVars, Range
  <2>3. DirectoriesOK'
    BY <1>1, <2>1, SameWanted DEF ExploreInv, DirectoriesOK, walkVars
  <2> QED
    BY <2>1, <2>2, <2>3 DEF ExploreInv, Covered
<1> QED
  BY <1>3, <1>4

LEMMA ResolvePathKeepsInv ==
  ASSUME ExploreInv, ResolvePath
  PROVE  ExploreInv'
<1>1. /\ UNCHANGED <<fs, inputVars, pc, unique, walkVars, files>>
      /\ pc = "resolve" /\ i <= Len(paths) /\ i' = i + 1
  BY DEF ResolvePath
<1>2. /\ i \in 1 .. Len(paths) /\ i \in Nat /\ Len(paths) \in Nat /\ real_paths \in Seq(Nodes)
      /\ paths[i] \in Range(paths) /\ paths[i] \in Seq(Int) /\ paths[i] # <<>>
  <2>1. ExploreTypeOK
    BY DEF ExploreInv
  <2>2. i \in 1 .. Len(paths) /\ i \in Nat /\ Len(paths) \in Nat /\ real_paths \in Seq(Nodes)
    BY <1>1, <2>1 DEF ExploreTypeOK
  <2> QED
    BY <2>1, <2>2, PathsAreStrings
<1>3. /\ real_paths' \in Seq(Nodes)
      /\ \A k \in 1 .. Len(real_paths') : real_paths'[k] \in Range(paths)
      /\ Len(real_paths) <= Len(real_paths)'
      /\ \A k \in 1 .. Len(real_paths) : real_paths'[k] = real_paths[k]
  <2>1. CASE Exists(paths[i])
    <3>1. real_paths' = Append(real_paths, paths[i]) /\ paths[i] \in Nodes
      BY <2>1 DEF ResolvePath, Exists
    <3>2. /\ real_paths' \in Seq(Nodes) /\ Len(real_paths') = Len(real_paths) + 1
          /\ \A k \in 1 .. Len(real_paths) : real_paths'[k] = real_paths[k]
          /\ real_paths'[Len(real_paths) + 1] = paths[i]
      BY <1>2, <3>1
    <3>3. ASSUME NEW k \in 1 .. Len(real_paths')
          PROVE  real_paths'[k] \in Range(paths)
      <4>1. k \in 1 .. Len(real_paths) \/ k = Len(real_paths) + 1
        BY <1>2, <3>2
      <4> QED
        BY <1>2, <3>2, <4>1 DEF ExploreInv, ExploreTypeOK
    <3> QED
      BY <1>2, <3>2, <3>3
  <2>2. CASE ~Exists(paths[i])
    BY <1>2, <2>2 DEF ResolvePath, ExploreInv, ExploreTypeOK
  <2> QED
    BY <2>1, <2>2
<1>4. ExploreTypeOK'
  BY <1>1, <1>2, <1>3, SameWanted DEF ExploreInv, ExploreTypeOK, walkVars
<1>5. CountersOK'
  BY <1>1, <1>2 DEF CountersOK, inputVars
<1>6. DirectoriesOK'
  BY <1>1, SameWanted DEF ExploreInv, DirectoriesOK, walkVars
<1>7. ASSUME NEW n \in Nodes, Wanted(n)'
      PROVE  Covered(n)'
  <2>1. Wanted(n) /\ Covered(n)
    BY <1>1, <1>7, SameWanted
  <2>2. CASE \E k \in 1 .. Len(real_paths) : Above(real_paths[k], n)
    <3>1. \E k \in 1 .. Len(real_paths') : Above(real_paths'[k], n)
      BY <1>2, <1>3, <2>2
    <3> QED
      BY <1>1, <3>1 DEF Covered
  <2>3. CASE \E k \in i + 1 .. Len(paths) : Above(paths[k], n)
    BY <1>1, <2>3 DEF Covered, inputVars
  <2>4. CASE Above(paths[i], n)
    <3>1. Exists(paths[i])
      BY <1>2, <2>1, <2>4, NextOnTheWay DEF ExploreInv, ExploreTypeOK, Wanted, IsVideo
    <3>2. real_paths' = Append(real_paths, paths[i]) /\ paths[i] \in Nodes
      BY <3>1 DEF ResolvePath, Exists
    <3>3. Len(real_paths') = Len(real_paths) + 1 /\ real_paths'[Len(real_paths) + 1] = paths[i]
      BY <1>2, <3>2
    <3>4. \E k \in 1 .. Len(real_paths') : Above(real_paths'[k], n)
      BY <1>2, <2>4, <3>3
    <3> QED
      BY <1>1, <3>4 DEF Covered
  <2> QED
    BY <1>1, <1>2, <2>1, <2>2, <2>3, <2>4 DEF Covered
<1> QED
  BY <1>4, <1>5, <1>6, <1>7 DEF ExploreInv

LEMMA NoValidPathsKeepsInv ==
  ASSUME ExploreInv, NoValidPaths
  PROVE  ExploreInv'
<1>1. /\ UNCHANGED <<fs, inputVars, i, real_paths, unique, walkVars, files>>
      /\ pc = "resolve" /\ i > Len(paths) /\ real_paths = <<>> /\ pc' = "done"
  BY DEF NoValidPaths
<1>2. i \in Nat /\ Len(paths) \in Nat
  BY DEF ExploreInv, ExploreTypeOK
<1>3. ExploreTypeOK' /\ CountersOK' /\ DirectoriesOK'
  BY <1>1, SameWanted DEF ExploreInv, ExploreTypeOK, CountersOK, DirectoriesOK, Stages, walkVars
<1>4. \A n \in Nodes : Wanted(n)' => FALSE
  BY <1>1, <1>2, SameWanted DEF Covered
<1> QED
  BY <1>3, <1>4 DEF ExploreInv

(* Sorting loses no path: qsort permutes.                                  *)
LEMMA SortPathsKeepsInv ==
  ASSUME ExploreInv, SortPaths
  PROVE  ExploreInv'
<1>1. /\ UNCHANGED <<fs, inputVars, walkVars, files>>
      /\ pc = "resolve" /\ i > Len(paths) /\ real_paths # <<>>
      /\ pc' = "dedupe" /\ unique' = 1 /\ i' = 2
  BY DEF SortPaths
<1>2. PICK p \in Bijection(DOMAIN real_paths, DOMAIN real_paths) :
        real_paths' = [k \in DOMAIN real_paths |-> real_paths[p[k]]]
  BY DEF SortPaths
<1> DEFINE l == Len(real_paths)
<1>3. l \in Nat /\ DOMAIN real_paths = 1 .. l /\ real_paths \in Seq(Nodes) /\ l # 0
      /\ i \in Nat /\ Len(paths) \in Nat
  BY <1>1 DEF ExploreInv, ExploreTypeOK
<1>4. p \in [1 .. l -> 1 .. l] /\ \A a \in 1 .. l : \E b \in 1 .. l : p[b] = a
  BY <1>2, <1>3 DEF Bijection, Injection, Surjection
<1>5. real_paths' \in [1 .. l -> Nodes]
  BY <1>2, <1>3, <1>4
<1>6. real_paths' \in Seq(Nodes) /\ Len(real_paths') = l
  BY <1>3, <1>5
<1>7. \A k \in 1 .. l : real_paths'[k] = real_paths[p[k]]
  BY <1>2, <1>3
<1>8. ExploreTypeOK'
  <2>1. \A k \in 1 .. l : real_paths'[k] \in Range(paths)
    BY <1>4, <1>7 DEF ExploreInv, ExploreTypeOK
  <2> QED
    BY <1>1, <1>6, <2>1, SameWanted DEF ExploreInv, ExploreTypeOK, Stages, walkVars
<1>9. CountersOK' /\ DirectoriesOK'
  BY <1>1, <1>3, <1>6, SameWanted DEF ExploreInv, CountersOK, DirectoriesOK, walkVars
<1>10. ASSUME NEW n \in Nodes, Wanted(n)'
       PROVE  Covered(n)'
  <2>1. PICK a \in 1 .. l : Above(real_paths[a], n)
    BY <1>1, <1>3, <1>10, SameWanted DEF Covered
  <2>2. PICK b \in 1 .. l : p[b] = a
    BY <1>4
  <2>3. Above(real_paths'[b], n)
    BY <1>7, <2>1, <2>2
  <2>4. b = 1 \/ b \in 2 .. l
    BY <1>3
  <2> HIDE DEF l
  <2>5. \E k \in (1 .. 1) \cup (2 .. l) : Above(real_paths'[k], n)
    BY <2>3, <2>4
  <2> QED
    BY <1>1, <1>6, <2>5 DEF Covered
<1> QED
  BY <1>8, <1>9, <1>10 DEF ExploreInv

(* A path that is dropped is the last kept one, or below it.               *)
LEMMA CoveredPathIsBelow ==
  ASSUME NEW current \in Nodes, NEW prev \in Nodes, is_subset(current, prev)
  PROVE  Above(prev, current)
<1>1. current \in Seq(Int) /\ prev \in Seq(Int)
  BY NodeIsAPath
<1>2. Len(prev) <= Len(current) /\ \A k \in 1 .. Len(prev) : prev[k] = current[k]
  BY <1>1, PrefixIsPointwise DEF is_subset
<1>3. CASE Len(current) = Len(prev)
  <2>1. prev = current
    BY <1>1, <1>2, <1>3, SamePath
  <2> QED
    BY <2>1 DEF Above
<1>4. CASE Len(current) # Len(prev) /\ current[Len(prev) + 1] = Slash
  <2>1. Len(prev) < Len(current)
    BY <1>1, <1>2, <1>4
  <2> QED
    BY <1>1, <1>2, <1>4, <2>1, AboveIsPointwise
<1>5. CASE prev = Root
  BY <1>5 DEF Above
<1> QED
  BY <1>3, <1>4, <1>5 DEF is_subset

LEMMA DeduplicateKeepsInv ==
  ASSUME ExploreInv, Deduplicate
  PROVE  ExploreInv'
<1>1. /\ UNCHANGED <<fs, inputVars, pc, walkVars, files>>
      /\ pc = "dedupe" /\ i <= Len(real_paths) /\ i' = i + 1
  BY DEF Deduplicate
<1> DEFINE l == Len(real_paths)
<1>2. /\ l \in Nat /\ i \in Nat /\ unique \in Nat /\ unique \in 1 .. i - 1 /\ i <= l
      /\ real_paths \in Seq(Nodes)
      /\ \A k \in 1 .. l : real_paths[k] \in Nodes /\ real_paths[k] \in Range(paths)
  BY <1>1, PathsAreStrings DEF ExploreInv, ExploreTypeOK, CountersOK
<1>3. DirectoriesOK'
  BY <1>1, SameWanted DEF ExploreInv, DirectoriesOK, walkVars
<1>4. CASE is_subset(real_paths[i], real_paths[unique])
  <2>1. UNCHANGED <<real_paths, unique>>
    BY <1>4 DEF Deduplicate
  <2>2. ExploreTypeOK'
    BY <1>1, <2>1, SameWanted DEF ExploreInv, ExploreTypeOK, walkVars
  <2>3. CountersOK'
    BY <1>1, <1>2, <2>1 DEF CountersOK
  <2>4. ASSUME NEW n \in Nodes, Wanted(n)'
        PROVE  Covered(n)'
    <3>1. PICK k \in (1 .. unique) \cup (i .. l) : Above(real_paths[k], n)
      BY <1>1, <2>4, SameWanted DEF Covered
    <3>2. CASE k = i
      <4>0. unique \in 1 .. l /\ i \in 1 .. l
        BY <1>2
      <4>1. Above(real_paths[unique], real_paths[i])
        BY <1>2, <1>4, <4>0, CoveredPathIsBelow
      <4>2. /\ real_paths[unique] \in Seq(Int) /\ real_paths[unique] # <<>>
            /\ real_paths[i] \in Seq(Int) /\ n \in Seq(Int)
        BY <1>2, <4>0, NodeIsAPath
      <4>3. Above(real_paths[unique], n)
        BY <3>1, <3>2, <4>1, <4>2, AboveTransitive
      <4>4. unique \in 1 .. unique
        BY <1>2
      <4> QED
        BY <1>1, <2>1, <4>3, <4>4 DEF Covered
    <3>3. CASE k # i
      <4>1. k \in (1 .. unique) \cup (i + 1 .. l)
        BY <1>2, <3>3
      <4> QED
        BY <1>1, <2>1, <3>1, <4>1 DEF Covered
    <3> QED
      BY <3>2, <3>3
  <2> QED
    BY <1>3, <2>2, <2>3, <2>4 DEF ExploreInv
<1>5. CASE ~is_subset(real_paths[i], real_paths[unique])
  <2>1. real_paths' = [real_paths EXCEPT ![unique + 1] = real_paths[i]] /\ unique' = unique + 1
    BY <1>5 DEF Deduplicate
  <2>2. unique + 1 \in 1 .. l /\ unique + 1 <= i /\ i \in 1 .. l
    BY <1>2
  <2>3. /\ real_paths' \in Seq(Nodes) /\ Len(real_paths') = l
        /\ real_paths'[unique + 1] = real_paths[i]
        /\ \A k \in 1 .. l : k # unique + 1 => real_paths'[k] = real_paths[k]
    BY <1>2, <2>1, <2>2
  <2>4. ExploreTypeOK'
    <3>1. \A k \in 1 .. l : real_paths'[k] \in Range(paths)
      BY <1>2, <2>2, <2>3
    <3> QED
      BY <1>1, <2>1, <2>3, <3>1, SameWanted DEF ExploreInv, ExploreTypeOK, walkVars
  <2>5. CountersOK'
    BY <1>1, <1>2, <2>1, <2>3 DEF CountersOK
  <2>6. ASSUME NEW n \in Nodes, Wanted(n)'
        PROVE  Covered(n)'
    <3>1. PICK k \in (1 .. unique) \cup (i .. l) : Above(real_paths[k], n)
      BY <1>1, <2>6, SameWanted DEF Covered
    <3> SUFFICES \E j \in (1 .. unique + 1) \cup (i + 1 .. l) : Above(real_paths'[j], n)
      BY <1>1, <2>1, <2>3 DEF Covered
    <3> HIDE DEF l
    <3>2. CASE k = i
      <4>1. unique + 1 \in 1 .. unique + 1
        BY <1>2
      <4> QED
        BY <2>3, <3>1, <3>2, <4>1
    <3>3. CASE k # i
      <4>1. /\ k \in (1 .. unique + 1) \cup (i + 1 .. l)
            /\ k # unique + 1 /\ k \in 1 .. l
        BY <1>2, <2>2, <3>3
      <4> QED
        BY <2>3, <3>1, <4>1
    <3> QED
      BY <3>2, <3>3
  <2> QED
    BY <1>3, <2>4, <2>5, <2>6 DEF ExploreInv
<1> QED
  BY <1>4, <1>5

LEMMA TruncateKeepsInv ==
  ASSUME ExploreInv, Truncate
  PROVE  ExploreInv'
<1>1. /\ UNCHANGED <<fs, inputVars, unique, walkVars, files>>
      /\ pc = "dedupe" /\ i > Len(real_paths)
      /\ real_paths' = SubSeq(real_paths, 1, unique) /\ pc' = "walk" /\ i' = 1
  BY DEF Truncate
<1> DEFINE l == Len(real_paths)
<1>2. /\ l \in Nat /\ i \in Nat /\ unique \in Nat /\ unique \in 1 .. i - 1 /\ i = l + 1
      /\ real_paths \in Seq(Nodes)
      /\ \A k \in 1 .. l : real_paths[k] \in Nodes /\ real_paths[k] \in Range(paths)
  BY <1>1, PathsAreStrings DEF ExploreInv, ExploreTypeOK, CountersOK
<1>3. /\ real_paths' \in Seq(Nodes) /\ Len(real_paths') = unique
      /\ \A k \in 1 .. unique : real_paths'[k] = real_paths[k]
  BY <1>1, <1>2
<1>4. ExploreTypeOK'
  <2>1. \A k \in 1 .. unique : real_paths'[k] \in Range(paths)
    BY <1>2, <1>3
  <2> QED
    BY <1>1, <1>3, <2>1, SameWanted DEF ExploreInv, ExploreTypeOK, Stages, walkVars
<1>5. CountersOK' /\ DirectoriesOK'
  BY <1>1, <1>2, <1>3, SameWanted DEF ExploreInv, CountersOK, DirectoriesOK, walkVars
<1>6. ASSUME NEW n \in Nodes, Wanted(n)'
      PROVE  Covered(n)'
  <2>1. PICK k \in (1 .. unique) \cup (i .. l) : Above(real_paths[k], n)
    BY <1>1, <1>6, SameWanted DEF Covered
  <2>2. k \in 1 .. unique
    BY <1>2
  <2>3. KeptAbove(n, i)'
    BY <1>1, <1>3, <2>1, <2>2 DEF KeptAbove
  <2> QED
    BY <1>1, <2>3 DEF Covered
<1> QED
  BY <1>4, <1>5, <1>6 DEF ExploreInv

(* The counters and the kept paths while the scan walks.                   *)
LEMMA WalkFacts ==
  ASSUME ExploreInv, pc \in {"walk", "next_dir", "read"}
  PROVE  /\ i \in Nat /\ unique \in Nat /\ i >= 1 /\ i <= unique + 1 /\ unique = Len(real_paths)
         /\ \A k \in 1 .. unique : real_paths[k] \in Nodes /\ real_paths[k] \in Range(paths)
         /\ FileSystemOK /\ dirstack \in Seq(Strings) /\ files \in Seq(Seq(Int))
<1>1. ExploreTypeOK /\ CountersOK
  BY DEF ExploreInv
<1> QED
  BY <1>1, PathsAreStrings DEF ExploreTypeOK, CountersOK

LEMMA KeptNow ==
  ASSUME NEW n, i \in Nat, unique \in Nat, KeptAbove(n, i)
  PROVE  KeptAbove(n, i + 1) \/ (i <= unique /\ Above(real_paths[i], n))
  BY DEF KeptAbove

(* Listing one file more keeps what is listed.                             *)
LEMMA ListedStays ==
  ASSUME NEW n, NEW p \in Seq(Int), files \in Seq(Seq(Int)), files' = Append(files, p)
  PROVE  /\ Listed(n) => Listed(n)'
         /\ NodeOf(p) = n => Listed(n)'
         /\ files' \in Seq(Seq(Int))
<1> DEFINE l == Len(files)
<1>1. /\ l \in Nat /\ DOMAIN files = 1 .. l /\ DOMAIN files' = 1 .. l + 1
      /\ files' \in Seq(Seq(Int))
      /\ \A k \in 1 .. l : files'[k] = files[k]
      /\ files'[l + 1] = p
  OBVIOUS
<1> HIDE DEF l
<1>2. l + 1 \in 1 .. l + 1 /\ \A k \in 1 .. l : k \in 1 .. l + 1
  BY <1>1
<1> QED
  BY <1>1, <1>2 DEF Listed

LEMMA WalkDirectoryKeepsInv ==
  ASSUME ExploreInv, WalkDirectory
  PROVE  ExploreInv'
<1>1. /\ UNCHANGED <<fs, inputVars, i, real_paths, unique, curr_path, unread, files>>
      /\ pc = "walk" /\ i <= unique /\ fs[real_paths[i]] = "dir"
      /\ dirstack' = <<real_paths[i]>> /\ pc' = "next_dir"
  BY DEF WalkDirectory
<1> DEFINE d == real_paths[i]
<1>2. d \in Nodes /\ d \in Range(paths) /\ LeadsTo(d, d) /\ Above(d, d)
  BY <1>1, WalkFacts DEF LeadsTo, Above
<1>3. d \in Strings
  BY <1>2, NodeIsAPath DEF Strings
<1>4. DOMAIN dirstack' = {1} /\ dirstack' \in Seq(Strings) /\ dirstack'[1] = d
  BY <1>1, <1>3
<1>5. ExploreTypeOK'
  BY <1>1, <1>4, SameWanted DEF ExploreInv, ExploreTypeOK, Stages
<1>6. CountersOK'
  BY <1>1 DEF ExploreInv, CountersOK
<1>7. DirectoriesOK'
  <2>1. IsScanned(d)
    BY <1>1, <1>2 DEF IsScanned, DirKinds
  <2>2. IsScanned(d)'
    BY <1>1, <2>1, SameWanted DEF IsScanned
  <2>3. IsScanned(dirstack[1])'
    BY <1>1, <1>4, <2>1 DEF IsScanned, inputVars, Range
  <2> QED
    BY <1>1, <1>4, <2>3 DEF DirectoriesOK
<1>8. ASSUME NEW n \in Nodes, Wanted(n)'
      PROVE  Covered(n)'
  <2>1. Listed(n) \/ KeptAbove(n, i)
    BY <1>1, <1>8, SameWanted DEF Covered
  <2>2. Listed(n) \/ KeptAbove(n, i + 1) \/ Above(d, n)
    BY <1>1, <2>1, KeptNow, WalkFacts
  <2>3. Listed(n) => Listed(n)'
    BY <1>1 DEF Listed
  <2>4. KeptAbove(n, i + 1) => KeptAbove(n, i + 1)'
    BY <1>1 DEF KeptAbove
  <2>5. Above(d, n) => StackedAbove(n)'
    BY <1>2, <1>4 DEF StackedAbove
  <2> QED
    BY <1>1, <2>2, <2>3, <2>4, <2>5 DEF Covered
<1> QED
  BY <1>5, <1>6, <1>7, <1>8 DEF ExploreInv

LEMMA HandlePathKeepsInv ==
  ASSUME ExploreInv, HandlePathPointingToFile
  PROVE  ExploreInv'
<1>1. /\ UNCHANGED <<fs, inputVars, pc, real_paths, unique, walkVars>>
      /\ pc = "walk" /\ i <= unique /\ fs[real_paths[i]] # "dir" /\ i' = i + 1
  BY DEF HandlePathPointingToFile
<1> DEFINE d == real_paths[i]
<1>2. d \in Nodes /\ d \in Range(paths) /\ LeadsTo(d, d) /\ Above(d, d) /\ d \in Seq(Int)
  BY <1>1, WalkFacts, NodeIsAPath DEF LeadsTo, Above
<1>3. NodeOf(d) = d
  BY <1>2, LeadsToItsNode
<1>4. files' = files \/ files' = Append(files, d)
  BY DEF HandlePathPointingToFile
<1>5. files' \in Seq(Seq(Int)) /\ \A n : Listed(n) => Listed(n)'
  <2>1. CASE files' = files
    BY <1>1, <2>1, WalkFacts DEF Listed
  <2>2. CASE files' = Append(files, d)
    BY <1>1, <1>2, <2>2, ListedStays, WalkFacts
  <2> QED
    BY <1>4, <2>1, <2>2
<1>6. ExploreTypeOK'
  BY <1>1, <1>5, WalkFacts, SameWanted DEF ExploreInv, ExploreTypeOK, walkVars
<1>7. CountersOK'
  BY <1>1, WalkFacts DEF CountersOK
<1>8. DirectoriesOK'
  BY <1>1, SameWanted DEF ExploreInv, DirectoriesOK, walkVars
<1>9. ASSUME NEW n \in Nodes, Wanted(n)'
      PROVE  Covered(n)'
  <2>0. Wanted(n)
    BY <1>1, <1>9, SameWanted
  <2>1. Listed(n) \/ KeptAbove(n, i)
    BY <1>1, <1>9, SameWanted DEF Covered
  <2>2. CASE Listed(n)
    BY <1>1, <1>5, <2>2 DEF Covered
  <2>3. CASE KeptAbove(n, i + 1)
    <3>1. KeptAbove(n, i)'
      BY <1>1, <2>3 DEF KeptAbove
    <3> QED
      BY <1>1, <3>1 DEF Covered
  <2>4. CASE Above(d, n)
    <3>1. d = n
      BY <1>1, <1>2, <2>0, <2>4, WayIsOpen DEF ExploreInv
    <3>2. files' = Append(files, d)
      BY <1>2, <2>0, <3>1 DEF HandlePathPointingToFile, Wanted, IsVideo, Exists
    <3>3. Listed(n)'
      BY <1>1, <1>2, <1>3, <3>1, <3>2, ListedStays, WalkFacts
    <3> QED
      BY <1>1, <3>3 DEF Covered
  <2> QED
    BY <1>1, <2>1, <2>2, <2>3, <2>4, KeptNow, WalkFacts
<1> QED
  BY <1>6, <1>7, <1>8, <1>9 DEF ExploreInv

LEMMA PopDirectoryKeepsInv ==
  ASSUME ExploreInv, PopDirectory
  PROVE  ExploreInv'
<1>1. /\ UNCHANGED <<fs, inputVars, i, real_paths, unique, files>>
      /\ pc = "next_dir" /\ dirstack # <<>>
      /\ dirstack' = Front(dirstack) /\ curr_path' = Last(dirstack)
  BY DEF PopDirectory
<1> DEFINE l == Len(dirstack)
           p == Last(dirstack)
           dir == NodeOf(p)
<1>2. /\ l \in Nat /\ l >= 1 /\ p = dirstack[l] /\ dirstack \in Seq(Strings)
      /\ dirstack' \in Seq(Strings) /\ Len(dirstack') = l - 1
      /\ \A k \in 1 .. l - 1 : dirstack'[k] = dirstack[k]
  <2>1. dirstack \in Seq(Strings) /\ l \in Nat /\ l # 0
    BY <1>1, WalkFacts
  <2>2. dirstack' = SubSeq(dirstack, 1, l - 1) /\ p = dirstack[l]
    BY <1>1 DEF Front, Last
  <2>3. l - 1 \in 0 .. l /\ l >= 1
    BY <2>1
  <2>4. /\ SubSeq(dirstack, 1, l - 1) \in Seq(Strings)
        /\ Len(SubSeq(dirstack, 1, l - 1)) = l - 1
        /\ \A k \in 1 .. l - 1 : SubSeq(dirstack, 1, l - 1)[k] = dirstack[k]
    <3> DEFINE m == l - 1
    <3>1. m \in Nat /\ m <= l
      BY <2>3
    <3> HIDE DEF m
    <3>2. /\ SubSeq(dirstack, 1, m) \in Seq(Strings)
          /\ Len(SubSeq(dirstack, 1, m)) = m
          /\ \A k \in 1 .. m : SubSeq(dirstack, 1, m)[k] = dirstack[k]
      BY <2>1, <3>1
    <3> QED
      BY <3>2 DEF m
  <2> QED
    BY <2>1, <2>2, <2>3, <2>4
<1>3. IsScanned(p)
  BY <1>1, <1>2 DEF ExploreInv, DirectoriesOK
<1>4. PICK d \in Nodes : LeadsTo(p, d) /\ fs[d] \in DirKinds \cup {"none"}
                         /\ \E r \in Range(paths) : Above(r, d)
  BY <1>3 DEF IsScanned
<1>5. dir = d
  BY <1>4, LeadsToItsNode
<1>6. ASSUME NEW d2 \in Nodes, LeadsTo(p, d2)
      PROVE  d2 = d
  BY <1>5, <1>6, LeadsToItsNode
<1>7. /\ fs[d] = "dir" =>
           /\ pc' = "read"
           /\ unread' = {[name |-> ak_path_basename(n), type |-> fs[n]] : n \in Entries(d)}
      /\ fs[d] # "dir" => UNCHANGED <<unread, pc>>
  BY <1>5 DEF PopDirectory
<1> HIDE DEF l, p, dir
<1>8. ExploreTypeOK'
  BY <1>1, <1>2, <1>7, SameWanted DEF ExploreInv, ExploreTypeOK, Stages
<1>9. CountersOK'
  BY <1>1, <1>7 DEF ExploreInv, CountersOK
<1>10. ASSUME NEW k \in DOMAIN dirstack'
       PROVE  IsScanned(dirstack[k])'
  <2>1. k \in 1 .. l - 1 /\ k \in DOMAIN dirstack
    BY <1>2 DEF l
  <2>2. IsScanned(dirstack[k]) /\ dirstack'[k] = dirstack[k]
    BY <1>2, <2>1 DEF ExploreInv, DirectoriesOK
  <2> QED
    BY <1>1, <2>2 DEF IsScanned, inputVars, Range
<1>11. curr_path' = p
  BY <1>1 DEF p
<1>12. ASSUME NEW c \in Entries(d), NEW entry,
              entry = [name |-> ak_path_basename(c), type |-> fs[c]]
       PROVE  c \in Nodes \ {Root} /\ IsEntry(entry, c)'
  <2>1. c \in Nodes \ {Root} /\ Parent(c) = d /\ fs[c] # "none" /\ fs[c] \in Kinds
    BY DEF Entries, ExploreInv, ExploreTypeOK, FileSystemOK
  <2>2. entry.name = ak_path_basename(c) /\ entry.type = fs[c]
    BY <1>12
  <2> QED
    BY <1>1, <1>4, <1>11, <2>1, <2>2 DEF IsEntry
<1>13. DirectoriesOK'
  <2>1. pc' = "read" => fs[d] = "dir"
    BY <1>1, <1>7
  <2>2. IsScanned(curr_path)'
    BY <1>1, <1>3, <1>11 DEF IsScanned, inputVars, Range
  <2>3. ASSUME fs[d] = "dir", NEW entry \in unread'
        PROVE  \E c \in Nodes \ {Root} : IsEntry(entry, c)'
    <3>1. PICK c \in Entries(d) : entry = [name |-> ak_path_basename(c), type |-> fs[c]]
      BY <1>7, <2>3
    <3> QED
      BY <1>12, <3>1
  <2> QED
    BY <1>10, <2>1, <2>2, <2>3 DEF DirectoriesOK
<1>14. ASSUME NEW n \in Nodes, Wanted(n)'
       PROVE  Covered(n)'
  <2>0. Wanted(n) /\ fs[n] = "file"
    BY <1>1, <1>14, SameWanted DEF Wanted, IsVideo
  <2>1. Listed(n) \/ KeptAbove(n, i + 1) \/ StackedAbove(n)
    BY <1>1, <1>14, SameWanted DEF Covered
  <2>2. /\ Listed(n) => Listed(n)'
        /\ KeptAbove(n, i + 1) => KeptAbove(n, i + 1)'
    BY <1>1 DEF Listed, KeptAbove
  <2>3. pc' \in {"next_dir", "read"}
    BY <1>1, <1>7
  <2>4. StackedAbove(n) => StackedAbove(n)' \/ Above(d, n)
    <3>1. SUFFICES ASSUME NEW k \in 1 .. l, NEW d2 \in Nodes, LeadsTo(dirstack[k], d2), Above(d2, n)
                   PROVE  StackedAbove(n)' \/ Above(d, n)
      BY DEF StackedAbove, l
    <3>2. CASE k = l
      BY <1>2, <1>6, <3>1, <3>2
    <3>3. CASE k # l
      <4>1. k \in 1 .. l - 1 /\ DOMAIN dirstack' = 1 .. l - 1
        BY <1>2, <3>3
      <4> QED
        BY <1>2, <3>1, <4>1 DEF StackedAbove
    <3> QED
      BY <3>2, <3>3
  <2>5. Above(d, n) => UnreadAbove(n)' /\ pc' = "read"
    <3>1. SUFFICES ASSUME Above(d, n) PROVE UnreadAbove(n)' /\ pc' = "read"
      OBVIOUS
    <3>2. d # n
      BY <1>4, <2>0 DEF DirKinds
    <3>3. fs[d] = "dir"
      BY <1>4, <2>0, <3>1, <3>2, WayIsOpen DEF ExploreInv
    <3>4. PICK c \in Entries(d) : Above(c, n)
      BY <2>0, <3>1, <3>2, NextOnTheWay, NodeIsAPath DEF ExploreInv, ExploreTypeOK
    <3>5. PICK entry \in unread' : entry = [name |-> ak_path_basename(c), type |-> fs[c]]
      BY <1>7, <3>3
    <3>6. c \in Nodes \ {Root} /\ IsEntry(entry, c)'
      BY <1>12, <3>5
    <3> QED
      BY <1>7, <3>3, <3>4, <3>5, <3>6 DEF UnreadAbove
  <2> QED
    BY <2>1, <2>2, <2>3, <2>4, <2>5 DEF Covered
<1> QED
  BY <1>8, <1>9, <1>13, <1>14 DEF ExploreInv

LEMMA ReadEntryKeepsInv ==
  ASSUME ExploreInv, ReadEntry
  PROVE  ExploreInv'
<1>1. UNCHANGED <<fs, inputVars, pc, i, real_paths, unique, curr_path>> /\ pc = "read"
  BY DEF ReadEntry
<1>2. PICK entry \in unread :
        LET path == Join(curr_path, entry.name)
            wanted == /\ entry.type # "other"
                      /\ ak_explore_ext_supported(path)
                      /\ fs[NodeOf(path)] \notin {"none", "empty"}
        IN /\ unread' = unread \ {entry}
           /\ dirstack' = IF entry.type \in DirKinds THEN Append(dirstack, path) ELSE dirstack
           /\ files' = IF wanted THEN Append(files, path) ELSE files
  BY DEF ReadEntry
<1> DEFINE path == Join(curr_path, entry.name)
           l == Len(dirstack)
<1>3. PICK c \in Nodes \ {Root} : IsEntry(entry, c)
  BY <1>1 DEF ExploreInv, DirectoriesOK
<1>4. ASSUME NEW c2 \in Nodes \ {Root}, IsEntry(entry, c2)
      PROVE  LeadsTo(path, c2) /\ NodeOf(path) = c2 /\ path \in Seq(Int) /\ path # <<>>
  BY <1>4, JoinLeadsTo, LeadsToItsNode DEF IsEntry
<1>5. /\ unread' = unread \ {entry}
      /\ dirstack' = dirstack \/ (entry.type \in DirKinds /\ dirstack' = Append(dirstack, path))
      /\ entry.type \in DirKinds => dirstack' = Append(dirstack, path)
      /\ entry.type \notin DirKinds => dirstack' = dirstack
      /\ files' = files \/ files' = Append(files, path)
      /\ /\ entry.type # "other" /\ ak_explore_ext_supported(path)
         /\ fs[NodeOf(path)] \notin {"none", "empty"}
         => files' = Append(files, path)
  BY <1>2
<1> HIDE DEF path
<1>6. LeadsTo(path, c) /\ NodeOf(path) = c /\ path \in Seq(Int) /\ path # <<>> /\ path \in Strings
  BY <1>3, <1>4 DEF Strings
<1>7. l \in Nat /\ DOMAIN dirstack = 1 .. l /\ dirstack \in Seq(Strings) /\ files \in Seq(Seq(Int))
  BY <1>1, WalkFacts
<1>8. /\ files' \in Seq(Seq(Int))
      /\ \A n : Listed(n) => Listed(n)'
  <2>1. CASE files' = files
    BY <1>7, <2>1 DEF Listed
  <2>2. CASE files' = Append(files, path)
    BY <1>6, <1>7, <2>2, ListedStays
  <2> QED
    BY <1>5, <2>1, <2>2
<1>9. /\ dirstack' \in Seq(Strings) /\ DOMAIN dirstack' = 1 .. Len(dirstack')
      /\ Len(dirstack') \in {l, l + 1} /\ \A k \in 1 .. l : dirstack'[k] = dirstack[k]
      /\ entry.type \in DirKinds => Len(dirstack') = l + 1 /\ dirstack'[l + 1] = path
      /\ entry.type \notin DirKinds => Len(dirstack') = l
  <2>1. CASE entry.type \in DirKinds
    <3>1. dirstack' = Append(dirstack, path)
      BY <1>5, <2>1
    <3>2. /\ Append(dirstack, path) \in Seq(Strings) /\ Len(Append(dirstack, path)) = l + 1
          /\ \A k \in 1 .. l : Append(dirstack, path)[k] = dirstack[k]
          /\ Append(dirstack, path)[l + 1] = path
      BY <1>6, <1>7
    <3>3. DOMAIN dirstack' = 1 .. Len(dirstack')
      BY <3>1, <3>2
    <3> HIDE DEF l
    <3> QED
      BY <2>1, <3>1, <3>2, <3>3
  <2>2. CASE entry.type \notin DirKinds
    BY <1>5, <1>7, <2>2
  <2> QED
    BY <2>1, <2>2
<1> HIDE DEF l
<1>10. ExploreTypeOK'
  BY <1>1, <1>8, <1>9, SameWanted DEF ExploreInv, ExploreTypeOK
<1>11. CountersOK'
  BY <1>1 DEF ExploreInv, CountersOK, inputVars
<1>12. ASSUME NEW k \in DOMAIN dirstack'
       PROVE  IsScanned(dirstack[k])'
  <2>1. CASE k \in 1 .. l
    <3>1. IsScanned(dirstack[k]) /\ dirstack'[k] = dirstack[k]
      BY <1>7, <1>9, <2>1 DEF ExploreInv, DirectoriesOK
    <3> QED
      BY <1>1, <3>1 DEF IsScanned, inputVars, Range
  <2>2. CASE k \notin 1 .. l
    <3>0. k \in 1 .. Len(dirstack') /\ (Len(dirstack') = l \/ Len(dirstack') = l + 1)
      BY <1>9
    <3>1. k = l + 1 /\ Len(dirstack') # l
      BY <1>7, <2>2, <3>0
    <3>8. entry.type \in DirKinds /\ dirstack'[k] = path
      BY <1>9, <3>1
    <3>2. fs[c] \in DirKinds \cup {"none"}
      BY <1>3, <3>8 DEF IsEntry
    <3>3. PICK d \in Nodes : LeadsTo(curr_path, d) /\ \E r \in Range(paths) : Above(r, d)
      BY <1>1 DEF ExploreInv, DirectoriesOK, IsScanned
    <3>4. PICK r \in Range(paths) : Above(r, d)
      BY <3>3
    <3>5. d = Parent(c) /\ Parent(c) \in Nodes /\ Above(Parent(c), c)
      BY <1>3, <3>3, LeadsToItsNode, ParentOfNode, ParentIsAbove DEF IsEntry
    <3>6. r \in Seq(Int) /\ r # <<>> /\ d \in Seq(Int) /\ c \in Seq(Int)
      BY <3>5, PathsAreStrings, NodeIsAPath DEF ExploreInv
    <3>7. Above(r, c)
      BY <3>4, <3>5, <3>6, AboveTransitive
    <3> QED
      BY <1>1, <1>6, <3>8, <3>2, <3>7 DEF IsScanned, inputVars, Range
  <2> QED
    BY <2>1, <2>2
<1>13. ASSUME NEW e, NEW c2 \in Nodes, IsEntry(e, c2)
       PROVE  IsEntry(e, c2)'
  BY <1>1, <1>13 DEF IsEntry
<1>14. DirectoriesOK'
  <2>1. IsScanned(curr_path)'
    BY <1>1 DEF ExploreInv, DirectoriesOK, IsScanned, inputVars, Range
  <2>2. \A e \in unread' : \E c2 \in Nodes \ {Root} : IsEntry(e, c2)'
    BY <1>1, <1>5, <1>13 DEF ExploreInv, DirectoriesOK
  <2> QED
    BY <1>12, <2>1, <2>2 DEF DirectoriesOK
<1>15. ASSUME NEW n \in Nodes, Wanted(n)'
       PROVE  Covered(n)'
  <2>0. Wanted(n) /\ fs[n] = "file" /\ ak_explore_ext_supported(n)
    BY <1>1, <1>15, SameWanted DEF Wanted, IsVideo
  <2>1. Listed(n) \/ KeptAbove(n, i + 1) \/ StackedAbove(n) \/ UnreadAbove(n)
    BY <1>1, <1>15, SameWanted DEF Covered
  <2>2. Listed(n) => Listed(n)'
    BY <1>8
  <2>3. KeptAbove(n, i + 1) => KeptAbove(n, i + 1)'
    BY <1>1 DEF KeptAbove
  <2>4. ASSUME StackedAbove(n)
        PROVE  StackedAbove(n)'
    <3>1. PICK k \in DOMAIN dirstack : \E d \in Nodes : LeadsTo(dirstack[k], d) /\ Above(d, n)
      BY <2>4 DEF StackedAbove
    <3>2. k \in DOMAIN dirstack' /\ dirstack'[k] = dirstack[k]
      <4>0. k \in 1 .. l /\ l \in Nat
        BY <1>7
      <4>1. Len(dirstack') = l \/ Len(dirstack') = l + 1
        BY <1>9
      <4>2. k \in 1 .. Len(dirstack')
        BY <4>0, <4>1
      <4> QED
        BY <1>9, <4>0, <4>2
    <3> QED
      BY <3>1, <3>2 DEF StackedAbove
  <2>5. UnreadAbove(n) => UnreadAbove(n)' \/ StackedAbove(n)' \/ Listed(n)'
    <3>1. SUFFICES ASSUME NEW e \in unread, NEW c2 \in Nodes \ {Root}, IsEntry(e, c2), Above(c2, n)
                   PROVE  UnreadAbove(n)' \/ StackedAbove(n)' \/ Listed(n)'
      BY DEF UnreadAbove
    <3>2. CASE e # entry
      <4>1. e \in unread' /\ IsEntry(e, c2)'
        BY <1>5, <1>13, <3>1, <3>2
      <4> QED
        BY <3>1, <4>1 DEF UnreadAbove
    <3>3. CASE e = entry /\ c2 = n
      <4>1. e.type = "file" /\ LeadsTo(path, n) /\ NodeOf(path) = n
        BY <1>4, <2>0, <3>1, <3>3 DEF IsEntry
      <4>2. ak_explore_ext_supported(path)
        BY <2>0, <3>3, <4>1, LeadsToItsName DEF ak_explore_ext_supported
      <4>3. files' = Append(files, path)
        BY <1>5, <2>0, <3>3, <4>1, <4>2
      <4> QED
        BY <1>6, <1>7, <4>1, <4>3, ListedStays
    <3>4. CASE e = entry /\ c2 # n
      <4>1. LeadsTo(path, c2) /\ c2 = c
        BY <1>4, <1>6, <3>1, <3>4
      <4>2. PICK d \in Nodes : LeadsTo(curr_path, d) /\ \E r \in Range(paths) : Above(r, d)
        BY <1>1 DEF ExploreInv, DirectoriesOK, IsScanned
      <4>3. PICK r \in Range(paths) : Above(r, d)
        BY <4>2
      <4>4. d = Parent(c) /\ Parent(c) \in Nodes /\ Above(Parent(c), c)
        BY <1>3, <4>2, LeadsToItsNode, ParentOfNode, ParentIsAbove DEF IsEntry
      <4>5. r \in Seq(Int) /\ r # <<>> /\ d \in Seq(Int) /\ c \in Seq(Int)
        BY <4>4, PathsAreStrings, NodeIsAPath DEF ExploreInv
      <4>6. Above(r, c)
        BY <4>3, <4>4, <4>5, AboveTransitive
      <4>7. fs[c] = "dir"
        BY <2>0, <3>1, <3>4, <4>1, <4>6, WayIsOpen DEF ExploreInv
      <4>8. entry.type \in DirKinds
        BY <1>3, <4>7 DEF IsEntry, DirKinds
      <4>9. l + 1 \in DOMAIN dirstack' /\ dirstack'[l + 1] = path
        BY <1>7, <1>9, <4>8
      <4> QED
        BY <3>1, <4>1, <4>9 DEF StackedAbove
    <3> QED
      BY <3>2, <3>3, <3>4
  <2> QED
    BY <1>1, <2>1, <2>2, <2>3, <2>4, <2>5 DEF Covered
<1> QED
  BY <1>10, <1>11, <1>14, <1>15 DEF ExploreInv

LEMMA CloseDirectoryKeepsInv ==
  ASSUME ExploreInv, CloseDirectory
  PROVE  ExploreInv'
<1>1. /\ UNCHANGED <<fs, inputVars, i, real_paths, unique, walkVars, files>>
      /\ pc = "read" /\ unread = {} /\ pc' = "next_dir"
  BY DEF CloseDirectory
<1>2. ExploreTypeOK' /\ CountersOK' /\ DirectoriesOK'
  BY <1>1, SameWanted DEF ExploreInv, ExploreTypeOK, CountersOK, DirectoriesOK, Stages, walkVars
<1>3. ASSUME NEW n \in Nodes, Wanted(n)'
      PROVE  Covered(n)'
  <2>1. Listed(n) \/ KeptAbove(n, i + 1) \/ StackedAbove(n)
    BY <1>1, <1>3, SameWanted DEF Covered, UnreadAbove
  <2>2. /\ Listed(n) => Listed(n)'
        /\ KeptAbove(n, i + 1) => KeptAbove(n, i + 1)'
        /\ StackedAbove(n) => StackedAbove(n)'
    BY <1>1 DEF Listed, KeptAbove, StackedAbove, walkVars
  <2> QED
    BY <1>1, <2>1, <2>2 DEF Covered
<1> QED
  BY <1>2, <1>3 DEF ExploreInv

LEMMA NextWalkKeepsInv ==
  ASSUME ExploreInv, NextWalk
  PROVE  ExploreInv'
<1>1. /\ UNCHANGED <<fs, inputVars, real_paths, unique, walkVars, files>>
      /\ pc = "next_dir" /\ dirstack = <<>> /\ pc' = "walk" /\ i' = i + 1
  BY DEF NextWalk
<1>2. ExploreTypeOK'
  BY <1>1, SameWanted DEF ExploreInv, ExploreTypeOK, Stages, walkVars
<1>3. CountersOK'
  BY <1>1, WalkFacts DEF ExploreInv, CountersOK
<1>4. DirectoriesOK'
  BY <1>1, SameWanted DEF ExploreInv, DirectoriesOK, walkVars
<1>5. ASSUME NEW n \in Nodes, Wanted(n)'
      PROVE  Covered(n)'
  <2>1. Listed(n) \/ KeptAbove(n, i + 1)
    BY <1>1, <1>5, SameWanted DEF Covered, StackedAbove
  <2>2. /\ Listed(n) => Listed(n)'
        /\ KeptAbove(n, i + 1) => KeptAbove(n, i)'
    BY <1>1 DEF Listed, KeptAbove
  <2> QED
    BY <1>1, <2>1, <2>2 DEF Covered
<1> QED
  BY <1>2, <1>3, <1>4, <1>5 DEF ExploreInv

LEMMA FinishKeepsInv ==
  ASSUME ExploreInv, Finish
  PROVE  ExploreInv'
<1>1. /\ UNCHANGED <<fs, inputVars, i, real_paths, unique, walkVars, files>>
      /\ pc = "walk" /\ i > unique /\ pc' = "done"
  BY DEF Finish
<1>2. ExploreTypeOK' /\ CountersOK' /\ DirectoriesOK'
  BY <1>1, SameWanted DEF ExploreInv, ExploreTypeOK, CountersOK, DirectoriesOK, Stages, walkVars
<1>3. ASSUME NEW n \in Nodes, Wanted(n)'
      PROVE  Covered(n)'
  <2>1. ~KeptAbove(n, i)
    BY <1>1, WalkFacts DEF KeptAbove
  <2>2. Listed(n)
    BY <1>1, <1>3, <2>1, SameWanted DEF Covered
  <2>3. Listed(n)'
    BY <1>1, <2>2 DEF Listed
  <2> QED
    BY <1>1, <2>3 DEF Covered
<1> QED
  BY <1>2, <1>3 DEF ExploreInv

LEMMA StutterKeepsExploreInv ==
  ASSUME ExploreInv, UNCHANGED vars
  PROVE  ExploreInv'
<1>1. ExploreTypeOK' /\ CountersOK' /\ DirectoriesOK'
  BY SameWanted DEF ExploreInv, ExploreTypeOK, CountersOK, DirectoriesOK, vars, walkVars, inputVars, IsEntry
<1>2. ASSUME NEW n \in Nodes, Wanted(n)'
      PROVE  Covered(n)'
  <2>1. Covered(n)
    BY <1>2, SameWanted DEF vars
  <2> QED
    BY <2>1 DEF Covered, Listed, KeptAbove, StackedAbove, UnreadAbove, IsEntry, vars, walkVars, inputVars
<1> QED
  BY <1>1, <1>2 DEF ExploreInv

LEMMA ExploreInvStep ==
  ASSUME ExploreInv, [Next]_vars
  PROVE  ExploreInv'
<1>1. CASE Scan
  BY <1>1, ScanCurrentDirKeepsInv, ResolvePathKeepsInv, NoValidPathsKeepsInv, SortPathsKeepsInv,
     DeduplicateKeepsInv, TruncateKeepsInv, WalkDirectoryKeepsInv, HandlePathKeepsInv,
     PopDirectoryKeepsInv, ReadEntryKeepsInv, CloseDirectoryKeepsInv, NextWalkKeepsInv,
     FinishKeepsInv DEF Scan
<1>2. CASE Unlink
  BY <1>2, UnlinkKeepsInv
<1>3. CASE UNCHANGED vars
  BY <1>3, StutterKeepsExploreInv
<1> QED
  BY <1>1, <1>2, <1>3 DEF Next, Ended

-----------------------------------------------------------------------------
LEMMA InvListsAll == ExploreInv => NothingIsLost
  BY DEF ExploreInv, NothingIsLost, Wanted, Covered, Listed, Listings

(* No video is lost: not by an input path that does not resolve, not by    *)
(* the sorting, not by the comparison with the last kept path, not by the  *)
(* stack of directories, and not when other processes remove entries.      *)
THEOREM ScanLosesNothing == Spec => []NothingIsLost
<1>1. Init => ExploreInv
  BY ExploreInvInit
<1>2. ExploreInv /\ [Next]_vars => ExploreInv'
  BY ExploreInvStep
<1> QED
  BY <1>1, <1>2, InvListsAll, PTL DEF Spec
=============================================================================
