--------------------------- MODULE ExtractionProofs ---------------------------
(***************************************************************************)
(* What is proved of Extraction: whatever an entry is, it is handled at a  *)
(* path of the tree, and what was a tree before is a tree afterwards.      *)
(*                                                                         *)
(* Proofs by induction on a path's length take the least length for which  *)
(* what they state would fail.                                             *)
(***************************************************************************)
EXTENDS Extraction, WellFoundedInduction, TLAPS

\* A set of natural numbers has a least one.
LEMMA LeastNatural ==
    ASSUME NEW S \in SUBSET Nat, S # {}
    PROVE  \E n \in S : \A m \in S : n <= m
  <1> DEFINE R == {ss \in Nat \X Nat : ss[1] < ss[2]}
  <1>1. IsWellFoundedOn(R, Nat)
    BY NatLessThanWellFounded DEF OpToRel
  <1>2. \A x, y \in Nat : y < x => <<y, x>> \in R
    OBVIOUS
  <1> HIDE DEF R
  <1>3. PICK x \in S : \A y \in S : ~ (<<y, x>> \in R)
    BY <1>1, WFMin
  <1>4. ASSUME NEW y \in S PROVE x <= y
    <2>1. x \in Nat /\ y \in Nat
      OBVIOUS
    <2>2. ~ (y < x)
      BY <1>2, <1>3, <2>1
    <2> QED
      BY <2>1, <2>2
  <1> QED
    BY <1>4

-----------------------------------------------------------------------------
(* Paths.                                                                  *)

\* A path is a sequence of names, of a length.
LEMMA PathsAre ==
    ASSUME NEW p
    PROVE  p \in Paths <=> p \in Seq(Names) /\ Len(p) \in 1 .. Depth
  <1>1. ASSUME p \in Paths PROVE p \in Seq(Names) /\ Len(p) \in 1 .. Depth
    <2>1. PICK n \in 1 .. Depth : p \in [1 .. n -> Names]
      BY <1>1 DEF Paths
    <2>2. n \in Nat
      BY DepthAssumption
    <2>3. p \in Seq(Names) /\ Len(p) = n
      BY <2>1, <2>2
    <2> QED
      BY <2>3
  <1>2. ASSUME p \in Seq(Names), Len(p) \in 1 .. Depth PROVE p \in Paths
    <2>1. p \in [1 .. Len(p) -> Names]
      BY <1>2
    <2> QED
      BY <1>2, <2>1 DEF Paths
  <1> QED
    BY <1>1, <1>2

\* One path is a prefix of another if it has the names that the other begins
\* with.
LEMMA PrefixIs ==
    ASSUME NEW p \in Seq(Names), NEW q \in Seq(Names)
    PROVE  IsPrefix(p, q) <=>
              Len(p) <= Len(q) /\ \A i \in 1 .. Len(p) : p[i] = q[i]
  <1>1. ASSUME Len(p) <= Len(q)
        PROVE  /\ SubSeq(p, 1, Len(p)) = p
               /\ SubSeq(q, 1, Len(p)) \in Seq(Names)
               /\ Len(SubSeq(q, 1, Len(p))) = Len(p)
               /\ \A i \in 1 .. Len(p) : SubSeq(q, 1, Len(p))[i] = q[i]
    BY <1>1
  <1>2. ASSUME Len(p) <= Len(q), \A i \in 1 .. Len(p) : p[i] = q[i]
        PROVE  p = SubSeq(q, 1, Len(p))
    BY <1>1, <1>2
  <1> QED
    BY <1>1, <1>2 DEF IsPrefix

LEMMA FrontIs ==
    ASSUME NEW p \in Seq(Names), p # <<>>
    PROVE  /\ Front(p) \in Seq(Names) /\ Len(Front(p)) = Len(p) - 1
           /\ \A i \in 1 .. Len(p) - 1 : Front(p)[i] = p[i]
           /\ Last(p) \in Names
  <1> DEFINE n == Len(p) - 1
  <1>1. n \in Nat /\ n + 1 = Len(p) /\ n = Len(p) - 1
    OBVIOUS
  <1> HIDE DEF n
  <1>2. /\ SubSeq(p, 1, n) \in Seq(Names) /\ Len(SubSeq(p, 1, n)) = n
        /\ \A i \in 1 .. n : SubSeq(p, 1, n)[i] = p[i]
    BY <1>1
  <1>3. p[Len(p)] \in Names
    BY <1>1
  <1> QED
    BY <1>1, <1>2, <1>3 DEF Front, Last

\* The directory of a path is no path only if it is the root.
LEMMA ParentType ==
    ASSUME NEW p \in Paths
    PROVE  Parent(p) = <<>> \/ Parent(p) \in Paths
  <1>1. p \in Seq(Names) /\ Len(p) \in 1 .. Depth /\ p # <<>>
    BY PathsAre
  <1>2. Front(p) \in Seq(Names) /\ Len(Front(p)) = Len(p) - 1
    BY <1>1, FrontIs
  <1>3. Len(Front(p)) \in 1 .. Depth \/ Front(p) = <<>>
    BY <1>1, <1>2, DepthAssumption
  <1> QED
    BY <1>2, <1>3, PathsAre DEF Parent

\* Above a path are its directory and what is above that.
LEMMA AboveParent ==
    ASSUME NEW p \in Seq(Names), NEW q \in Paths, IsPrefix(q, p)
    PROVE  /\ IsPrefix(Parent(q), p) /\ Parent(q) # p /\ Parent(q) # q
  <1>1. q \in Seq(Names) /\ Len(q) \in 1 .. Depth /\ q # <<>>
    BY PathsAre
  <1>2. /\ Front(q) \in Seq(Names) /\ Len(Front(q)) = Len(q) - 1
        /\ \A i \in 1 .. Len(q) - 1 : Front(q)[i] = q[i]
    BY <1>1, FrontIs
  <1>3. Len(q) <= Len(p) /\ \A i \in 1 .. Len(q) : q[i] = p[i]
    BY <1>1, PrefixIs
  <1>4. /\ Len(Front(q)) <= Len(p)
        /\ \A i \in 1 .. Len(Front(q)) : Front(q)[i] = p[i]
        /\ Len(Front(q)) < Len(q)
    BY <1>1, <1>2, <1>3, DepthAssumption
  <1>5. Front(q) # q /\ Front(q) # p
    BY <1>3, <1>4
  <1> QED
    BY <1>2, <1>4, <1>5, PrefixIs DEF Parent

LEMMA BelowParent ==
    ASSUME NEW p \in Paths, NEW q \in Seq(Names), IsPrefix(q, Parent(p))
    PROVE  IsPrefix(q, p)
  <1>1. p \in Seq(Names) /\ Len(p) \in 1 .. Depth /\ p # <<>>
    BY PathsAre
  <1>2. /\ Front(p) \in Seq(Names) /\ Len(Front(p)) = Len(p) - 1
        /\ \A i \in 1 .. Len(p) - 1 : Front(p)[i] = p[i]
    BY <1>1, FrontIs
  <1>3. Len(q) <= Len(Front(p)) /\ \A i \in 1 .. Len(q) : q[i] = Front(p)[i]
    BY <1>2, PrefixIs DEF Parent
  <1>4. Len(q) <= Len(p) /\ \A i \in 1 .. Len(q) : q[i] = p[i]
    BY <1>1, <1>2, <1>3, DepthAssumption
  <1> QED
    BY <1>1, <1>4, PrefixIs

-----------------------------------------------------------------------------
(* Following a path through links.                                         *)

\* What is at a path of a tree, or at its root.
LEMMA NodeType ==
    ASSUME NEW t, IsTree(t), NEW p \in Paths
    PROVE  t[p] \in Nodes /\ Kind(t, p) = t[p].kind
  <1>1. p # <<>>
    BY PathsAre
  <1> QED
    BY <1>1 DEF IsTree, Kind

\* A link leads to a path that is no longer than its own.
LEMMA HopType ==
    ASSUME NEW t, IsTree(t), NEW q \in Paths
    PROVE  Hop(t, q) \in Paths /\ Len(Hop(t, q)) <= Len(q)
  <1>1. q \in Seq(Names) /\ Len(q) \in 1 .. Depth /\ q # <<>>
    BY PathsAre
  <1>2. CASE Kind(t, q) # "link"
    BY <1>1, <1>2 DEF Hop
  <1>3. CASE Kind(t, q) = "link"
    <2>1. t[q] \in Nodes /\ t[q].kind = "link"
      BY <1>3, NodeType
    <2>2. t[q].to \in Names
      BY <2>1 DEF Nodes, None, Dir, Fifo
    <2> DEFINE f == t[q].to
    <2> HIDE DEF f
    <2>3. Hop(t, q) = IF t[q].beside THEN Append(Parent(q), f) ELSE <<f>>
      BY <1>3 DEF Hop, f
    <2>4. f \in Names
      BY <2>2 DEF f
    <2>5. <<f>> \in Paths /\ Len(<<f>>) <= Len(q)
      <3>1. <<f>> \in Seq(Names) /\ Len(<<f>>) = 1
        BY <2>4
      <3>2. 1 \in 1 .. Depth /\ 1 <= Len(q)
        BY <1>1, DepthAssumption
      <3> QED
        BY <3>1, <3>2, PathsAre
    <2>6. Append(Parent(q), f) \in Paths /\ Len(Append(Parent(q), f)) <= Len(q)
      <3> DEFINE d == Front(q)
      <3>1. d \in Seq(Names) /\ Len(d) = Len(q) - 1
        BY <1>1, FrontIs
      <3> HIDE DEF d
      <3>2. Append(d, f) \in Seq(Names) /\ Len(Append(d, f)) = Len(d) + 1
        BY <2>4, <3>1
      <3>3. Len(Append(d, f)) = Len(q)
        BY <1>1, <3>1, <3>2, DepthAssumption
      <3> DEFINE r == Append(d, f)
      <3>4. r \in Seq(Names) /\ Len(r) = Len(q)
        BY <3>2, <3>3
      <3> HIDE DEF r
      <3>5. Len(r) \in 1 .. Depth /\ Len(r) <= Len(q)
        BY <1>1, <3>4, DepthAssumption
      <3>6. r \in Paths
        BY <3>4, <3>5, PathsAre
      <3> QED
        BY <3>5, <3>6 DEF Parent, d, r
    <2> QED
      BY <2>3, <2>5, <2>6
  <1> QED
    BY <1>2, <1>3

\* at[n] is n links further, up to k of them.
IsChain(t, p, k, at) ==
    at = [n \in 0 .. k |-> IF n = 0 THEN p ELSE Hop(t, at[n - 1])]

LEMMA ChainExists ==
    ASSUME NEW t, NEW p, NEW k \in Nat
    PROVE  \E at : IsChain(t, p, k, at)
  <1> DEFINE S == {n \in Nat : ~ \E at : IsChain(t, p, n, at)}
  <1>1. ASSUME S # {} PROVE FALSE
    <2>1. PICK n \in S : \A m \in S : n <= m
      BY <1>1, LeastNatural
    <2>2. n \in Nat /\ ~ \E at : IsChain(t, p, n, at)
      OBVIOUS
    <2>3. n # 0
      <3>1. IsChain(t, p, 0, [m \in 0 .. 0 |-> p])
        BY DEF IsChain
      <3> QED
        BY <2>2, <3>1
    <2>4. n - 1 \in Nat /\ n - 1 \notin S
      BY <2>1, <2>2, <2>3
    <2>5. PICK at : IsChain(t, p, n - 1, at)
      BY <2>4
    <2> DEFINE longer == [m \in 0 .. n |-> IF m < n THEN at[m] ELSE Hop(t, at[n - 1])]
    <2>6. at = [m \in 0 .. n - 1 |-> IF m = 0 THEN p ELSE Hop(t, at[m - 1])]
      BY <2>5 DEF IsChain
    <2>7. ASSUME NEW m \in 0 .. n
          PROVE  longer[m] = IF m = 0 THEN p ELSE Hop(t, longer[m - 1])
      <3>1. CASE m = 0
        BY <2>2, <2>3, <2>6, <3>1
      <3>2. CASE m # 0 /\ m < n
        <4>1. m \in 0 .. n - 1 /\ m - 1 \in 0 .. n /\ m - 1 < n
          BY <2>2, <3>2
        <4>2. at[m] = Hop(t, at[m - 1])
          BY <2>6, <3>2, <4>1
        <4> QED
          BY <3>2, <4>1, <4>2
      <3>3. CASE m = n
        <4>1. n - 1 \in 0 .. n /\ n - 1 < n /\ n \in 0 .. n /\ ~ (n < n)
          BY <2>2, <2>3
        <4> QED
          BY <2>3, <3>3, <4>1
      <3> QED
        BY <2>2, <3>1, <3>2, <3>3
    <2>8. IsChain(t, p, n, longer)
      BY <2>7 DEF IsChain
    <2> QED
      BY <2>2, <2>8
  <1> QED
    BY <1>1

LEMMA ChainStep ==
    ASSUME NEW t, NEW p
    PROVE  /\ Chain(t, p)[0] = p
           /\ \A n \in 1 .. MaxLinks : Chain(t, p)[n] = Hop(t, Chain(t, p)[n - 1])
  <1> DEFINE at == CHOOSE at : IsChain(t, p, MaxLinks, at)
  <1>1. IsChain(t, p, MaxLinks, at)
    BY DepthAssumption, ChainExists
  <1>2. Chain(t, p) = at
    BY DEF Chain, IsChain
  <1> HIDE DEF at
  <1>3. at[0] = p
    BY <1>1, DepthAssumption DEF IsChain
  <1>4. ASSUME NEW n \in 1 .. MaxLinks PROVE at[n] = Hop(t, at[n - 1])
    <2>1. n \in 0 .. MaxLinks /\ n # 0
      BY DepthAssumption
    <2> QED
      BY <1>1, <2>1 DEF IsChain
  <1> QED
    BY <1>2, <1>3, <1>4

\* However many links are followed, they lead to paths that are no longer.
LEMMA ChainType ==
    ASSUME NEW t, IsTree(t), NEW q \in Paths, NEW k \in 0 .. MaxLinks
    PROVE  Chain(t, q)[k] \in Paths /\ Len(Chain(t, q)[k]) <= Len(q)
  <1> DEFINE at == Chain(t, q)
  <1>1. at[0] = q /\ \A n \in 1 .. MaxLinks : at[n] = Hop(t, at[n - 1])
    BY ChainStep
  <1> HIDE DEF at
  <1> DEFINE Good(n) == at[n] \in Paths /\ Len(at[n]) <= Len(q)
  <1> DEFINE S == {n \in 0 .. MaxLinks : ~ Good(n)}
  <1>2. \A p \in Paths : Len(p) \in Nat
    BY PathsAre
  <1>3. ASSUME S # {} PROVE FALSE
    <2>1. PICK n \in S : \A m \in S : n <= m
      <3>1. S \in SUBSET Nat
        BY DepthAssumption
      <3> HIDE DEF S
      <3> QED
        BY <1>3, <3>1, LeastNatural
    <2>2. n \in 0 .. MaxLinks /\ ~ Good(n)
      OBVIOUS
    <2>3. n # 0
      BY <1>1, <1>2, <2>2
    <2>4. n - 1 \in 0 .. MaxLinks /\ n - 1 \notin S /\ n \in 1 .. MaxLinks
      BY <2>1, <2>2, <2>3, DepthAssumption
    <2> DEFINE p == at[n - 1]
    <2>5. p \in Paths /\ Len(p) <= Len(q) /\ at[n] = Hop(t, p)
      BY <1>1, <2>4
    <2> HIDE DEF p
    <2>6. Hop(t, p) \in Paths /\ Len(Hop(t, p)) <= Len(p)
      BY <2>5, HopType
    <2>7. Len(Hop(t, p)) \in Nat /\ Len(p) \in Nat /\ Len(q) \in Nat
      BY <1>2, <2>5, <2>6
    <2>8. Good(n)
      BY <2>5, <2>6, <2>7
    <2> QED
      BY <2>2, <2>8
  <1>4. Good(k)
    BY <1>3
  <1> QED
    BY <1>4 DEF at

\* Each step of the way leads to a path that is no longer than the steps.
LEMMA FollowType ==
    ASSUME NEW t, IsTree(t), NEW n \in 1 .. Depth,
           NEW p \in Seq(Names), Len(p) < n, NEW f \in Names
    PROVE  /\ Follow(t, Append(p, f)) \in Seq(Names)
           /\ Len(Follow(t, Append(p, f))) \in 1 .. n
  <1> DEFINE q == Append(p, f)
  <1>1. q \in Seq(Names) /\ Len(q) = Len(p) + 1 /\ Len(p) \in Nat
    OBVIOUS
  <1>2. Len(q) \in 1 .. n /\ Len(q) \in 1 .. Depth /\ n \in Nat /\ n >= 1
    BY <1>1, DepthAssumption
  <1> HIDE DEF q
  <1>3. q \in Paths
    BY <1>1, <1>2, PathsAre
  <1>4. CASE Kind(t, q) = "link"
    <2>1. MaxLinks \in 0 .. MaxLinks /\ Follow(t, q) = Chain(t, q)[MaxLinks]
      BY <1>4, DepthAssumption DEF Follow
    <2> DEFINE r == Follow(t, q)
    <2>2. r \in Paths /\ Len(r) <= Len(q)
      BY <1>3, <2>1, ChainType
    <2> HIDE DEF r
    <2>3. r \in Seq(Names) /\ Len(r) \in 1 .. Depth
      BY <2>2, PathsAre
    <2>4. Len(r) \in 1 .. n
      BY <1>2, <2>2, <2>3, DepthAssumption
    <2> QED
      BY <2>3, <2>4 DEF q, r
  <1>5. CASE Kind(t, q) # "link"
    <2>1. Follow(t, q) = q
      BY <1>5 DEF Follow
    <2> QED
      BY <1>1, <1>2, <2>1 DEF q
  <1> QED
    BY <1>4, <1>5

\* at[n] is where the first n names of p lead, up to k of them.
IsWay(t, p, k, at) ==
    at = [n \in 0 .. k |->
            IF n = 0 THEN <<>> ELSE Follow(t, Append(at[n - 1], p[n]))]

LEMMA WayExists ==
    ASSUME NEW t, NEW p, NEW k \in Nat
    PROVE  \E at : IsWay(t, p, k, at)
  <1> DEFINE S == {n \in Nat : ~ \E at : IsWay(t, p, n, at)}
  <1>1. ASSUME S # {} PROVE FALSE
    <2>1. PICK n \in S : \A m \in S : n <= m
      BY <1>1, LeastNatural
    <2>2. n \in Nat /\ ~ \E at : IsWay(t, p, n, at)
      OBVIOUS
    <2>3. n # 0
      <3>1. IsWay(t, p, 0, [m \in 0 .. 0 |-> <<>>])
        BY DEF IsWay
      <3> QED
        BY <2>2, <3>1
    <2>4. n - 1 \in Nat /\ n - 1 \notin S
      BY <2>1, <2>2, <2>3
    <2>5. PICK at : IsWay(t, p, n - 1, at)
      BY <2>4
    <2> DEFINE longer == [m \in 0 .. n |-> IF m < n THEN at[m]
                                           ELSE Follow(t, Append(at[n - 1], p[n]))]
    <2>6. at = [m \in 0 .. n - 1 |->
                  IF m = 0 THEN <<>> ELSE Follow(t, Append(at[m - 1], p[m]))]
      BY <2>5 DEF IsWay
    <2>7. ASSUME NEW m \in 0 .. n
          PROVE  longer[m] = IF m = 0 THEN <<>>
                             ELSE Follow(t, Append(longer[m - 1], p[m]))
      <3>1. CASE m = 0
        BY <2>2, <2>3, <2>6, <3>1
      <3>2. CASE m # 0 /\ m < n
        <4>1. m \in 0 .. n - 1 /\ m - 1 \in 0 .. n /\ m - 1 < n
          BY <2>2, <3>2
        <4>2. at[m] = Follow(t, Append(at[m - 1], p[m]))
          BY <2>6, <3>2, <4>1
        <4> QED
          BY <3>2, <4>1, <4>2
      <3>3. CASE m = n
        <4>1. n - 1 \in 0 .. n /\ n - 1 < n /\ n \in 0 .. n /\ ~ (n < n)
          BY <2>2, <2>3
        <4> QED
          BY <2>3, <3>3, <4>1
      <3> QED
        BY <2>2, <3>1, <3>2, <3>3
    <2>8. IsWay(t, p, n, longer)
      BY <2>7 DEF IsWay
    <2> QED
      BY <2>2, <2>8
  <1> QED
    BY <1>1

LEMMA WayIs ==
    ASSUME NEW t, NEW p \in Seq(Names)
    PROVE  IsWay(t, p, Len(p), Way(t, p))
  <1> DEFINE at == CHOOSE at : IsWay(t, p, Len(p), at)
  <1>1. Len(p) \in Nat
    OBVIOUS
  <1>2. IsWay(t, p, Len(p), at)
    BY <1>1, WayExists
  <1>3. Way(t, p) = at
    BY DEF Way, IsWay
  <1> QED
    BY <1>2, <1>3

\* Each step of it leads to a path that is no longer than the steps.
LEMMA WayType ==
    ASSUME NEW t, IsTree(t), NEW p \in Seq(Names), Len(p) <= Depth,
           NEW k \in 0 .. Len(p)
    PROVE  /\ Way(t, p)[k] \in Seq(Names) /\ Len(Way(t, p)[k]) <= k
           /\ k > 0 => Len(Way(t, p)[k]) > 0
  <1> DEFINE at == Way(t, p)
  <1>1. Len(p) \in Nat
    OBVIOUS
  <1>2. IsWay(t, p, Len(p), at)
    BY WayIs
  <1> HIDE DEF at
  <1> DEFINE Good(n) == at[n] \in Seq(Names) /\ Len(at[n]) <= n /\ (n > 0 => Len(at[n]) > 0)
  <1> DEFINE S == {n \in 0 .. Len(p) : ~ Good(n)}
  <1>4. ASSUME S # {} PROVE FALSE
    <2>1. PICK n \in S : \A m \in S : n <= m
      <3>1. S \in SUBSET Nat
        BY <1>1
      <3> HIDE DEF S
      <3> QED
        BY <1>4, <3>1, LeastNatural
    <2>2. n \in 0 .. Len(p) /\ ~ Good(n)
      OBVIOUS
    <2>3. n # 0
      <3>1. at[0] = <<>>
        BY <1>1, <1>2 DEF IsWay
      <3>2. Good(0)
        BY <3>1
      <3> QED
        BY <2>2, <3>2
    <2>4. n - 1 \in 0 .. Len(p) /\ n - 1 \notin S
      BY <1>1, <2>1, <2>2, <2>3
    <2>5. at[n - 1] \in Seq(Names) /\ Len(at[n - 1]) <= n - 1
      BY <2>4
    <2>6. at[n] = Follow(t, Append(at[n - 1], p[n]))
      BY <1>1, <1>2, <2>2, <2>3 DEF IsWay
    <2>7. n \in 1 .. Depth /\ p[n] \in Names /\ Len(at[n - 1]) < n
      BY <1>1, <2>2, <2>3, <2>5, DepthAssumption
    <2>8. at[n] \in Seq(Names) /\ Len(at[n]) \in 1 .. n
      BY <2>5, <2>6, <2>7, FollowType
    <2>9. Good(n)
      BY <2>7, <2>8
    <2> QED
      BY <2>2, <2>9
  <1>5. Good(k)
    BY <1>1, <1>4
  <1> QED
    BY <1>5 DEF at

\* A path of the tree leads to a path of the tree that is not longer.
LEMMA JoinType ==
    ASSUME NEW t, IsTree(t), NEW p \in Seq(Names), Len(p) <= Depth
    PROVE  /\ Join(t, p) \in Seq(Names) /\ Len(Join(t, p)) <= Len(p)
           /\ p # <<>> => Join(t, p) # <<>>
  <1>1. Len(p) \in 0 .. Len(p) /\ (p # <<>> => Len(p) > 0)
    OBVIOUS
  <1> QED
    BY <1>1, WayType DEF Join

\* An entry is handled at a path of the tree.
LEMMA TargetType ==
    ASSUME NEW t, IsTree(t), NEW e \in AllEntries
    PROVE  e.path \in Paths /\ Target(t, e) \in Paths
  <1> DEFINE p == e.path
  <1>1. p \in Paths
    BY DEF AllEntries
  <1> HIDE DEF p
  <1>2. p \in Seq(Names) /\ Len(p) \in 1 .. Depth /\ p # <<>>
    BY <1>1, PathsAre
  <1>3. /\ Front(p) \in Seq(Names) /\ Len(Front(p)) = Len(p) - 1
        /\ Last(p) \in Names
    BY <1>2, FrontIs
  <1>4. CASE e.kind = "whiteout"
    <2> DEFINE d == Join(t, Front(p))
    <2>1. d \in Seq(Names) /\ Len(d) <= Len(Front(p))
      BY <1>2, <1>3, JoinType, DepthAssumption
    <2> HIDE DEF d
    <2>2. Append(d, Last(p)) \in Seq(Names) /\ Len(Append(d, Last(p))) = Len(d) + 1
      BY <1>3, <2>1
    <2>3. Len(d) \in Nat
      BY <2>1
    <2>4. Len(Append(d, Last(p))) \in 1 .. Depth
      BY <1>2, <1>3, <2>1, <2>2, <2>3, DepthAssumption
    <2>5. Target(t, e) = Append(d, Last(p))
      BY <1>4 DEF Target, d, p, Parent
    <2> QED
      BY <1>1, <2>2, <2>4, <2>5, PathsAre DEF p
  <1>5. CASE e.kind # "whiteout"
    <2> DEFINE d == Join(t, p)
    <2>1. d \in Seq(Names) /\ Len(d) <= Len(p) /\ d # <<>>
      BY <1>2, JoinType, DepthAssumption
    <2> HIDE DEF d
    <2>2. Len(d) \in 1 .. Depth
      BY <1>2, <2>1, DepthAssumption
    <2>3. Target(t, e) = d
      BY <1>5 DEF Target, d, p
    <2> QED
      BY <1>1, <2>1, <2>2, <2>3, PathsAre DEF p
  <1> QED
    BY <1>4, <1>5

-----------------------------------------------------------------------------
(* What the handlers leave.                                                *)

\* What is deleted is deleted with all that is below it.
LEMMA RemoveAllKeepsTree ==
    ASSUME NEW t, IsTree(t), NEW gone \in SUBSET Paths
    PROVE  IsTree(RemoveAll(t, gone))
  <1> DEFINE new == RemoveAll(t, gone)
  <1>1. new = [p \in Paths |-> IF \E q \in gone : IsPrefix(q, p) THEN None ELSE t[p]]
    BY DEF RemoveAll
  <1>2. new \in [Paths -> Nodes]
    BY <1>1 DEF IsTree, Nodes
  <1> HIDE DEF new
  <1>3. ASSUME NEW p \in Paths, Kind(new, p) # "none"
        PROVE  Kind(new, Parent(p)) = "dir"
    <2>1. p # <<>>
      BY PathsAre
    <2>2. new[p].kind # "none"
      BY <1>3, <2>1 DEF Kind
    <2>3. new[p] = t[p] /\ \A q \in gone : ~ IsPrefix(q, p)
      BY <1>1, <2>2 DEF None
    <2>4. Kind(t, Parent(p)) = "dir"
      BY <2>1, <2>2, <2>3 DEF IsTree, Kind
    <2>5. CASE Parent(p) = <<>>
      BY <2>5 DEF Kind
    <2>6. CASE Parent(p) \in Paths
      <3>1. \A q \in gone : ~ IsPrefix(q, Parent(p))
        BY <2>3, BelowParent, PathsAre
      <3>2. new[Parent(p)] = t[Parent(p)]
        BY <1>1, <2>6, <3>1
      <3> QED
        BY <2>4, <3>2 DEF Kind
    <2> QED
      BY <2>5, <2>6, ParentType
  <1>4. IsTree(new)
    BY <1>2, <1>3 DEF IsTree
  <1> QED
    BY <1>4 DEF new

\* A node in its directory, if no file is in the way; it is a directory if
\* there was one.
LEMMA PutKeepsTree ==
    ASSUME NEW t, IsTree(t), NEW p \in Paths, ~ Blocked(t, p), NEW v \in Nodes,
           Kind(t, p) = "dir" => v.kind = "dir",
           NEW new, new = [MakeParents(t, p) EXCEPT ![p] = v]
    PROVE  IsTree(new)
  <1> DEFINE s == MakeParents(t, p)
  <1>1. s = [q \in Paths |-> IF Above(q, p) /\ Kind(t, q) = "none" THEN Dir ELSE t[q]]
    BY DEF MakeParents
  <1>2. s \in [Paths -> Nodes]
    BY <1>1 DEF IsTree, Nodes
  <1> HIDE DEF s
  <1>3. /\ new \in [Paths -> Nodes] /\ new[p] = v
        /\ \A q \in Paths : q # p => new[q] = s[q]
    BY <1>2 DEF s
  <1>4. p \in Seq(Names) /\ p # <<>>
    BY PathsAre
  <1>5. ASSUME NEW q \in Paths, Kind(new, q) # "none"
        PROVE  Kind(new, Parent(q)) = "dir"
    <2>1. q # <<>>
      BY PathsAre
    <2>2. CASE Parent(q) = <<>>
      BY <2>2 DEF Kind
    <2>3. CASE Parent(q) \in Paths /\ IsPrefix(q, p)
      <3>1. Above(Parent(q), p) /\ Parent(q) # p
        BY <1>4, <2>3, AboveParent DEF Above, IsStrictPrefix
      <3>2. Kind(t, Parent(q)) \in {"none", "dir"}
        BY <2>3, <3>1 DEF Blocked
      <3>3. Parent(q) # <<>>
        BY <2>3, PathsAre
      <3>4. s[Parent(q)] = Dir \/ (s[Parent(q)] = t[Parent(q)] /\ Kind(t, Parent(q)) = "dir")
        BY <1>1, <2>3, <3>1, <3>2
      <3>5. new[Parent(q)].kind = "dir"
        BY <1>3, <2>3, <3>1, <3>3, <3>4 DEF Dir, Kind
      <3> QED
        BY <3>5 DEF Kind
    <2>4. CASE Parent(q) \in Paths /\ ~ IsPrefix(q, p)
      <3>1. q # p /\ ~ Above(q, p)
        <4>1. IsPrefix(p, p)
          BY <1>4, PrefixIs
        <4> QED
          BY <2>4, <4>1 DEF Above, IsStrictPrefix
      <3>2. new[q] = t[q]
        BY <1>1, <1>3, <3>1
      <3>3. Kind(t, Parent(q)) = "dir"
        BY <1>5, <2>1, <3>2 DEF Kind, IsTree
      <3>4. Parent(q) # <<>>
        BY <2>4, PathsAre
      <3>5. CASE Parent(q) = p
        BY <1>3, <3>3, <3>4, <3>5 DEF Kind
      <3>6. CASE Parent(q) # p
        <4>1. new[Parent(q)] = t[Parent(q)]
          BY <1>1, <1>3, <2>4, <3>3, <3>6
        <4> QED
          BY <3>3, <4>1 DEF Kind
      <3> QED
        BY <3>5, <3>6
    <2> QED
      BY <2>2, <2>3, <2>4, ParentType
  <1> QED
    BY <1>3, <1>5 DEF IsTree

\* What an entry that can be extracted puts at its path.
LEMMA ExtractFileType ==
    ASSUME NEW t, IsTree(t), NEW p \in Paths, NEW l \in Nat, NEW m \in Modes
    PROVE  ExtractFile(t, p, l, m) \in Nodes
  <1>1. t[p] \in Nodes /\ Kind(t, p) = t[p].kind
    BY NodeType
  <1>2. File(l, m) \in Nodes
    BY DEF File, Nodes
  <1>3. Kind(t, p) = "file" => File(l, t[p].mode) \in Nodes
    <2>1. t[p].kind = "file" =>
             t[p] \in [kind : {"file"}, from : Nat, mode : Modes]
      BY <1>1 DEF Nodes, None, Dir, Fifo
    <2> QED
      BY <1>1, <2>1 DEF File, Nodes
  <1>4. CASE Kind(t, p) = "none"
    BY <1>2, <1>4 DEF ExtractFile
  <1>5. CASE Kind(t, p) = "file"
    BY <1>3, <1>5 DEF ExtractFile
  <1>6. CASE Kind(t, p) \notin {"none", "file"}
    BY <1>1, <1>6 DEF ExtractFile
  <1> QED
    BY <1>4, <1>5, <1>6

LEMMA ExtractKeepsTree ==
    ASSUME NEW t, IsTree(t), NEW e \in AllEntries, NEW l \in Nat, ~ IsWhiteout(e),
           ~ Blocked(t, Target(t, e)), ~ CannotExtract(t, e)
    PROVE  IsTree(Extract(t, e, l))
  <1> DEFINE p == Target(t, e)
  <1>1. p \in Paths
    BY TargetType
  <1>2. /\ e.kind \in {"file", "symlink", "hardlink", "fifo", "dir"}
        /\ e.kind \in {"symlink", "hardlink", "fifo"} => Kind(t, p) = "none"
        /\ e.kind = "file" => Kind(t, p) # "dir"
    BY DEF CannotExtract, IsWhiteout, AllEntries
  <1>3. Dir \in Nodes /\ Fifo \in Nodes /\ Dir.kind = "dir"
    BY DEF Nodes, Dir, Fifo
  <1>4. ~ Blocked(t, p)
    OBVIOUS
  <1>5. Extract(t, e, l) =
           [MakeParents(t, p) EXCEPT ![p] =
              CASE e.kind = "file"     -> ExtractFile(t, p, l, e.mode)
                [] e.kind = "symlink"  -> Link(e.to, e.beside)
                [] e.kind = "hardlink" -> Link(e.to, TRUE)
                [] e.kind = "fifo"     -> Fifo
                [] OTHER               -> Dir]
    BY DEF Extract
  <1> HIDE DEF p
  <1>6. CASE e.kind = "file"
    <2>1. e.mode \in Modes
      BY <1>6 DEF AllEntries
    <2>2. ExtractFile(t, p, l, e.mode) \in Nodes
      BY <1>1, <2>1, ExtractFileType
    <2>3. Extract(t, e, l) =
             [MakeParents(t, p) EXCEPT ![p] = ExtractFile(t, p, l, e.mode)]
      BY <1>5, <1>6
    <2> QED
      BY <1>1, <1>2, <1>4, <1>6, <2>2, <2>3, PutKeepsTree
  <1>7. CASE e.kind \in {"symlink", "hardlink"}
    <2> DEFINE v == Link(e.to, IF e.kind = "symlink" THEN e.beside ELSE TRUE)
    <2>1. v \in Nodes
      <3>1. e.to \in Names /\ (e.kind = "symlink" => e.beside \in BOOLEAN)
        BY <1>7 DEF AllEntries
      <3> QED
        BY <3>1 DEF Link, Nodes
    <2>2. Extract(t, e, l) = [MakeParents(t, p) EXCEPT ![p] = v]
      BY <1>5, <1>7
    <2> HIDE DEF v
    <2> QED
      BY <1>1, <1>2, <1>4, <1>7, <2>1, <2>2, PutKeepsTree
  <1>8. CASE e.kind = "fifo"
    <2>1. Extract(t, e, l) = [MakeParents(t, p) EXCEPT ![p] = Fifo]
      BY <1>5, <1>8
    <2> QED
      BY <1>1, <1>2, <1>3, <1>4, <1>8, <2>1, PutKeepsTree
  <1>9. CASE e.kind = "dir"
    <2>1. Extract(t, e, l) = [MakeParents(t, p) EXCEPT ![p] = Dir]
      BY <1>5, <1>9
    <2> QED
      BY <1>1, <1>3, <1>4, <2>1, PutKeepsTree
  <1> QED
    BY <1>2, <1>6, <1>7, <1>8, <1>9

\* Whatever the entry is: what was a tree stays one.
LEMMA HandleKeepsTree ==
    ASSUME NEW t, IsTree(t), NEW handled \in SUBSET Paths, NEW e \in AllEntries,
           NEW l \in Nat, ~ Refuses(t, handled, e)
    PROVE  /\ IsTree(Handle(t, handled, e, l))
           /\ Remember(t, handled, e) \in SUBSET Paths
  <1>1. Target(t, e) \in Paths
    BY TargetType
  <1>2. CASE IsWhiteout(e)
    <2>1. {Target(t, e)} \in SUBSET Paths
      BY <1>1
    <2>2. IsTree(RemoveAll(t, {Target(t, e)}))
      BY <2>1, RemoveAllKeepsTree
    <2> DEFINE below == {r \in Paths : Above(Target(t, e), r) /\ r \notin handled}
    <2>3. below \in SUBSET Paths
      OBVIOUS
    <2>4. Opaque(t, handled, Target(t, e)) = RemoveAll(t, below)
      BY DEF Opaque
    <2> HIDE DEF below
    <2>5. IsTree(Opaque(t, handled, Target(t, e)))
      BY <2>3, <2>4, RemoveAllKeepsTree
    <2> QED
      BY <1>2, <2>2, <2>5 DEF Handle, Whiteout, Remember
  <1>3. CASE ~ IsWhiteout(e)
    <2>1. ~ Blocked(t, Target(t, e)) /\ ~ CannotExtract(t, e)
      BY <1>3 DEF Refuses, IsWhiteout
    <2>2. IsTree(Extract(t, e, l))
      BY <1>3, <2>1, ExtractKeepsTree
    <2> QED
      BY <1>1, <1>3, <2>2 DEF Handle, Remember
  <1> QED
    BY <1>2, <1>3
=============================================================================
