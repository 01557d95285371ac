--------------------------- MODULE FlatteningProofs ---------------------------
(***************************************************************************)
(* What is proved of Extraction: that entries handled one after the other  *)
(* leave what the image specification says, under the conditions that      *)
(* UncompressedBundler's doubts are about.                                 *)
(*                                                                         *)
(* The specification lets the whiteouts of a layer delete first, wherever  *)
(* they are.  So a whiteout that comes last has to be brought forward past *)
(* all that its layer has put before: that changes nothing but what the    *)
(* whiteout deletes and its layer has not put there (PutsSpared).          *)
(***************************************************************************)
EXTENDS ExtractionProofs

-----------------------------------------------------------------------------
(* Ways.                                                                   *)

LEMMA WayStep ==
    ASSUME NEW t, NEW p \in Seq(Names), NEW n \in 1 .. Len(p)
    PROVE  /\ Way(t, p)[0] = <<>>
           /\ Way(t, p)[n] = Follow(t, Append(Way(t, p)[n - 1], p[n]))
  <1> DEFINE at == Way(t, p)
  <1>1. IsWay(t, p, Len(p), at)
    BY WayIs
  <1>2. Len(p) \in Nat /\ n \in 0 .. Len(p) /\ n # 0
    OBVIOUS
  <1> HIDE DEF at
  <1>3. at[0] = <<>> /\ at[n] = Follow(t, Append(at[n - 1], p[n]))
    BY <1>1, <1>2 DEF IsWay
  <1> QED
    BY <1>3 DEF at

\* Two ways are the same as far as each name leads to the same.
LEMMA WaysAgree ==
    ASSUME NEW s, NEW t, NEW p \in Seq(Names), NEW q \in Seq(Names),
           NEW k \in Nat, k <= Len(p), k <= Len(q),
           \A n \in 1 .. k :
              /\ p[n] = q[n]
              /\ Follow(s, Append(Way(t, p)[n - 1], p[n]))
                    = Follow(t, Append(Way(t, p)[n - 1], p[n])),
           NEW m \in 0 .. k
    PROVE  Way(s, q)[m] = Way(t, p)[m]
  <1> DEFINE S == {n \in 0 .. k : Way(s, q)[n] # Way(t, p)[n]}
  <1>1. ASSUME S # {} PROVE FALSE
    <2>1. S \in SUBSET Nat
      OBVIOUS
    <2>2. PICK n \in S : \A i \in S : n <= i
      <3> HIDE DEF S
      <3> QED
        BY <1>1, <2>1, LeastNatural
    <2>3. n \in 0 .. k /\ Way(s, q)[n] # Way(t, p)[n]
      OBVIOUS
    <2>4. Way(s, q)[0] = Way(t, p)[0]
      <3>1. IsWay(t, p, Len(p), Way(t, p)) /\ IsWay(s, q, Len(q), Way(s, q))
        BY WayIs
      <3>2. Len(p) \in Nat /\ Len(q) \in Nat
        OBVIOUS
      <3>3. ASSUME NEW r, NEW x, NEW j \in Nat, NEW at, IsWay(r, x, j, at)
            PROVE  at[0] = <<>>
        BY <3>3 DEF IsWay
      <3> QED
        BY <3>1, <3>2, <3>3
    <2>5. n # 0
      BY <2>3, <2>4
    <2>6. n - 1 \in 0 .. k /\ n - 1 \notin S
      BY <2>2, <2>3, <2>5
    <2>7. Way(s, q)[n - 1] = Way(t, p)[n - 1]
      BY <2>6
    <2>8. n \in 1 .. k /\ n \in 1 .. Len(p) /\ n \in 1 .. Len(q)
      BY <2>3, <2>5
    <2>9. /\ Way(t, p)[n] = Follow(t, Append(Way(t, p)[n - 1], p[n]))
          /\ Way(s, q)[n] = Follow(s, Append(Way(s, q)[n - 1], q[n]))
      BY <2>8, WayStep
    <2> QED
      BY <2>3, <2>7, <2>8, <2>9
  <1> QED
    BY <1>1

\* The last name of a path is followed from where its directory leads.
LEMMA JoinStep ==
    ASSUME NEW t, NEW p \in Paths
    PROVE  Join(t, p) = Follow(t, Append(Join(t, Parent(p)), Last(p)))
  <1>1. p \in Seq(Names) /\ Len(p) \in 1 .. Depth /\ p # <<>>
    BY PathsAre
  <1> DEFINE q == Front(p)
  <1> DEFINE k == Len(p) - 1
  <1>2. /\ q \in Seq(Names) /\ Len(q) = k
        /\ \A i \in 1 .. k : q[i] = p[i]
    BY <1>1, FrontIs
  <1>3. k \in Nat /\ k <= Len(p) /\ k <= Len(q) /\ Len(p) \in 1 .. Len(p) /\ k \in 0 .. k
    BY <1>1, <1>2, DepthAssumption
  <1> HIDE DEF q, k
  <1>4. Way(t, q)[k] = Way(t, p)[k]
    BY <1>1, <1>2, <1>3, WaysAgree
  <1>5. Way(t, p)[Len(p)] = Follow(t, Append(Way(t, p)[Len(p) - 1], p[Len(p)]))
    BY <1>1, <1>3, WayStep
  <1> QED
    BY <1>2, <1>4, <1>5 DEF Join, Parent, Last, q, k

-----------------------------------------------------------------------------
(* What is left of a tree that whiteouts of X are brought forward past: all *)
(* but what they delete, save what has been put there since, at T, with the *)
(* directories that are above it.                                          *)

Spare(t, X, T) ==
    [r \in Paths |->
        IF (\E x \in X : IsPrefix(x, r)) /\ ~ \E q \in T : IsPrefix(r, q)
        THEN None ELSE t[r]]

LEMMA PrefixSelf ==
    ASSUME NEW p \in Seq(Names)
    PROVE  IsPrefix(p, p)
  BY PrefixIs

\* Of these kinds there is one.
LEMMA NodeKinds ==
    ASSUME NEW v \in Nodes
    PROVE  /\ v.kind = "none" => v = None
           /\ v.kind = "dir" => v = Dir
  <1>1. CASE v \in {None, Dir, Fifo}
    BY <1>1 DEF None, Dir, Fifo
  <1>2. CASE v \in [kind : {"file"}, from : Nat, mode : Modes]
    <2>1. v.kind = "file"
      BY <1>2
    <2> QED
      BY <2>1
  <1>3. CASE v \in [kind : {"link"}, to : Names, beside : BOOLEAN]
    <2>1. v.kind = "link"
      BY <1>3
    <2> QED
      BY <2>1
  <1> QED
    BY <1>1, <1>2, <1>3 DEF Nodes

\* What an own path is, nothing is spared of.
LEMMA SparedNode ==
    ASSUME NEW t, NEW X, NEW T, NEW r \in Paths
    PROVE  /\ Spare(t, X, T)[r] = t[r] \/ Spare(t, X, T)[r] = None
           /\ r \in T \/ (\A x \in X : ~ IsPrefix(x, r)) => Spare(t, X, T)[r] = t[r]
  <1>1. IsPrefix(r, r)
    BY PathsAre, PrefixSelf
  <1> QED
    BY <1>1 DEF Spare

\* If nothing has been put there, it is what the whiteouts leave.
LEMMA SpareNothing ==
    ASSUME NEW t, NEW X
    PROVE  Spare(t, X, {}) = RemoveAll(t, X)
  BY DEF Spare, RemoveAll

\* It is a tree.
LEMMA SpareKeepsTree ==
    ASSUME NEW t, IsTree(t), NEW X \in SUBSET Paths, NEW T \in SUBSET Paths
    PROVE  IsTree(Spare(t, X, T))
  <1> DEFINE s == Spare(t, X, T)
  <1>1. s \in [Paths -> Nodes]
    BY DEF Spare, IsTree, Nodes
  <1>2. ASSUME NEW p \in Paths, Kind(s, p) # "none"
        PROVE  Kind(s, Parent(p)) = "dir"
    <2>1. p # <<>> /\ p \in Seq(Names)
      BY PathsAre
    <2>2. s[p].kind # "none"
      BY <1>2, <2>1 DEF Kind
    <2>3. s[p] = t[p] /\ ((\A x \in X : ~ IsPrefix(x, p)) \/ \E q \in T : IsPrefix(p, q))
      BY <2>2 DEF Spare, None
    <2>4. Kind(t, Parent(p)) = "dir"
      BY <2>1, <2>2, <2>3 DEF IsTree, Kind
    <2>5. CASE Parent(p) = <<>>
      BY <2>5 DEF Kind
    <2>6. CASE Parent(p) \in Paths
      <3>1. (\A x \in X : ~ IsPrefix(x, Parent(p))) \/ \E q \in T : IsPrefix(Parent(p), q)
        <4>1. CASE \A x \in X : ~ IsPrefix(x, p)
          BY <4>1, BelowParent, PathsAre
        <4>2. CASE \E q \in T : IsPrefix(p, q)
          BY <4>2, AboveParent, PathsAre
        <4> QED
          BY <2>3, <4>1, <4>2
      <3>2. s[Parent(p)] = t[Parent(p)]
        BY <2>6, <3>1 DEF Spare
      <3> QED
        BY <2>4, <3>2 DEF Kind
    <2> QED
      BY <2>5, <2>6, ParentType
  <1> HIDE DEF s
  <1>3. IsTree(s)
    BY <1>1, <1>2 DEF IsTree
  <1> QED
    BY <1>3 DEF s

\* A path of the tree, followed name by name, is at paths of the tree.
LEMMA StepIsPath ==
    ASSUME NEW t, IsTree(t), NEW p \in Seq(Names), Len(p) <= Depth,
           NEW n \in 1 .. Len(p)
    PROVE  Append(Way(t, p)[n - 1], p[n]) \in Paths
  <1>1. n - 1 \in 0 .. Len(p) /\ p[n] \in Names /\ Len(p) \in Nat
    OBVIOUS
  <1> DEFINE q == Way(t, p)[n - 1]
  <1>2. q \in Seq(Names) /\ Len(q) <= n - 1
    BY <1>1, WayType
  <1> HIDE DEF q
  <1>3. Append(q, p[n]) \in Seq(Names) /\ Len(Append(q, p[n])) = Len(q) + 1 /\ Len(q) \in Nat
    BY <1>1, <1>2
  <1>4. Len(Append(q, p[n])) \in 1 .. Depth
    BY <1>1, <1>2, <1>3, DepthAssumption
  <1> QED
    BY <1>3, <1>4, PathsAre DEF q

LEMMA FollowedType ==
    ASSUME NEW t, IsTree(t), NEW p \in Seq(Names), Len(p) <= Depth
    PROVE  Steps(t, p) \subseteq Paths /\ Followed(t, p) \subseteq Paths
  <1>1. Steps(t, p) \subseteq Paths
    BY StepIsPath DEF Steps
  <1>2. \A f \in Paths, k \in 0 .. MaxLinks : Chain(t, f)[k] \in Paths
    BY ChainType
  <1> QED
    BY <1>1, <1>2 DEF Followed

\* Nothing new is in s.  The links that are followed from f are still there.
\* From f the same links are followed.
NothingNew(s, t) == \A r \in Paths : s[r] = t[r] \/ s[r] = None
LinksKept(s, t, f) ==
    \A k \in 0 .. MaxLinks :
        Kind(t, Chain(t, f)[k]) = "link" => s[Chain(t, f)[k]] = t[Chain(t, f)[k]]
SameLinks(s, t, f) ==
    \A k \in 0 .. MaxLinks :
        /\ Chain(s, f)[k] = Chain(t, f)[k]
        /\ Kind(s, Chain(t, f)[k]) = "link" <=> Kind(t, Chain(t, f)[k]) = "link"

\* One name leads to the same if the links that are followed from it are the
\* same, and what is no link becomes none.
LEMMA ChainSpared ==
    ASSUME NEW t, IsTree(t), NEW s, NEW f \in Paths,
           NothingNew(s, t), LinksKept(s, t, f)
    PROVE  SameLinks(s, t, f) /\ Follow(s, f) = Follow(t, f)
  <1> DEFINE at == Chain(t, f)
  <1> DEFINE to == Chain(s, f)
  <1>1. /\ at[0] = f /\ \A n \in 1 .. MaxLinks : at[n] = Hop(t, at[n - 1])
        /\ to[0] = f /\ \A n \in 1 .. MaxLinks : to[n] = Hop(s, to[n - 1])
    BY ChainStep
  <1>2. \A k \in 0 .. MaxLinks :
           at[k] \in Paths /\ (Kind(t, at[k]) = "link" => s[at[k]] = t[at[k]])
    BY ChainType DEF LinksKept
  <1>3. /\ Follow(s, f) = (IF Kind(s, f) = "link" THEN to[MaxLinks] ELSE f)
        /\ Follow(t, f) = (IF Kind(t, f) = "link" THEN at[MaxLinks] ELSE f)
    BY DEF Follow
  <1>4. MaxLinks \in 0 .. MaxLinks /\ 0 \in 0 .. MaxLinks /\ 0 .. MaxLinks \in SUBSET Nat
    BY DepthAssumption
  <1> HIDE DEF at, to
  <1>5. ASSUME NEW k \in 0 .. MaxLinks
        PROVE  /\ Kind(s, at[k]) = "link" <=> Kind(t, at[k]) = "link"
               /\ Hop(s, at[k]) = Hop(t, at[k])
    <2> DEFINE q == at[k]
    <2>1. q \in Paths /\ (Kind(t, q) = "link" => s[q] = t[q])
      BY <1>2
    <2> HIDE DEF q
    <2>2. q # <<>> /\ (s[q] = t[q] \/ s[q] = None)
      BY <2>1, PathsAre DEF NothingNew
    <2>3. Kind(s, q) = "link" <=> Kind(t, q) = "link"
      BY <2>1, <2>2 DEF Kind, None
    <2>4. Hop(s, q) = Hop(t, q)
      BY <2>1, <2>3 DEF Hop
    <2> QED
      BY <2>3, <2>4 DEF q
  <1> DEFINE S == {n \in 0 .. MaxLinks : to[n] # at[n]}
  <1>6. ASSUME S # {} PROVE FALSE
    <2>1. PICK n \in S : \A m \in S : n <= m
      <3>1. S \in SUBSET Nat
        BY <1>4
      <3> HIDE DEF S
      <3> QED
        BY <1>6, <3>1, LeastNatural
    <2>2. n \in 0 .. MaxLinks /\ to[n] # at[n]
      OBVIOUS
    <2>3. n # 0
      BY <1>1, <2>2
    <2>4. n - 1 \in 0 .. MaxLinks /\ n - 1 \notin S /\ n \in 1 .. MaxLinks
      BY <2>1, <2>2, <2>3, DepthAssumption
    <2>5. to[n - 1] = at[n - 1]
      BY <2>4
    <2> QED
      BY <1>1, <1>5, <2>2, <2>4, <2>5
  <1>7. \A k \in 0 .. MaxLinks : to[k] = at[k]
    BY <1>6
  <1>8. Follow(s, f) = Follow(t, f)
    BY <1>1, <1>3, <1>4, <1>5, <1>7
  <1> QED
    BY <1>5, <1>7, <1>8 DEF SameLinks, at, to

\* A path leads to the same if the links on its way are.
LEMMA JoinSpared ==
    ASSUME NEW t, IsTree(t), NEW X \in SUBSET Paths, NEW T \in SUBSET Paths,
           NEW p \in Seq(Names), Len(p) <= Depth,
           \A w \in Followed(t, p) : w \in T \/ \A x \in X : ~ IsPrefix(x, w)
    PROVE  /\ Join(Spare(t, X, T), p) = Join(t, p)
           /\ Followed(Spare(t, X, T), p) = Followed(t, p)
  <1> DEFINE s == Spare(t, X, T)
  <1> DEFINE w(n) == Append(Way(t, p)[n - 1], p[n])
  <1>1. Len(p) \in Nat
    OBVIOUS
  <1>2. ASSUME NEW n \in 1 .. Len(p)
        PROVE  Follow(s, w(n)) = Follow(t, w(n)) /\ SameLinks(s, t, w(n))
    <2> DEFINE q == w(n)
    <2>1. q \in Steps(t, p) /\ q \in Paths
      BY StepIsPath DEF Steps
    <2> HIDE DEF w, q
    <2>2. ASSUME NEW k \in 0 .. MaxLinks, Kind(t, Chain(t, q)[k]) = "link"
          PROVE  s[Chain(t, q)[k]] = t[Chain(t, q)[k]]
      <3> DEFINE c == Chain(t, q)[k]
      <3>1. c \in Paths
        BY <2>1, ChainType
      <3>2. c \in Followed(t, p)
        BY <2>1, <2>2 DEF Followed
      <3> HIDE DEF c
      <3>3. s[c] = t[c]
        BY <3>1, <3>2, SparedNode
      <3> QED
        BY <3>3 DEF c
    <2>3. NothingNew(s, t)
      BY SparedNode DEF NothingNew
    <2> HIDE DEF s
    <2>4. LinksKept(s, t, q)
      BY <2>2 DEF LinksKept
    <2>5. SameLinks(s, t, q) /\ Follow(s, q) = Follow(t, q)
      BY <2>1, <2>3, <2>4, ChainSpared
    <2> QED
      BY <2>5 DEF q
  <1> HIDE DEF s
  <1>3. ASSUME NEW m \in 0 .. Len(p) PROVE Way(s, p)[m] = Way(t, p)[m]
    <2> DEFINE k == Len(p)
    <2>1. k \in Nat /\ k <= Len(p) /\ m \in 0 .. k
      BY <1>1
    <2>2. \A n \in 1 .. k :
             /\ p[n] = p[n]
             /\ Follow(s, Append(Way(t, p)[n - 1], p[n]))
                   = Follow(t, Append(Way(t, p)[n - 1], p[n]))
      BY <1>2
    <2> HIDE DEF k
    <2> QED
      BY <2>1, <2>2, WaysAgree
  <1>4. Join(s, p) = Join(t, p)
    BY <1>1, <1>3 DEF Join
  <1>5. Followed(s, p) = Followed(t, p)
    <2>1. ASSUME NEW n \in 1 .. Len(p)
          PROVE  Append(Way(s, p)[n - 1], p[n]) = w(n)
      <3>1. n - 1 \in 0 .. Len(p)
        BY <1>1
      <3> QED
        BY <1>3, <3>1
    <2>2. Steps(s, p) = {w(n) : n \in 1 .. Len(p)} /\ Steps(t, p) = Steps(s, p)
      BY <2>1 DEF Steps
    <2>3. \A f \in Steps(t, p) : SameLinks(s, t, f)
      BY <1>2, <2>2
    <2> HIDE DEF w
    <2>4. ASSUME NEW q
          PROVE  q \in Followed(s, p) <=>
                    \E f \in Steps(t, p), k \in 0 .. MaxLinks :
                        q = Chain(s, f)[k] /\ Kind(s, q) = "link"
      BY <2>2 DEF Followed
    <2>5. ASSUME NEW q
          PROVE  q \in Followed(t, p) <=>
                    \E f \in Steps(t, p), k \in 0 .. MaxLinks :
                        q = Chain(t, f)[k] /\ Kind(t, q) = "link"
      BY DEF Followed
    <2>6. ASSUME NEW f \in Steps(t, p), NEW k \in 0 .. MaxLinks
          PROVE  /\ Chain(s, f)[k] = Chain(t, f)[k]
                 /\ Kind(s, Chain(t, f)[k]) = "link" <=> Kind(t, Chain(t, f)[k]) = "link"
      BY <2>3 DEF SameLinks
    <2>7. \A q : q \in Followed(s, p) <=> q \in Followed(t, p)
      BY <2>4, <2>5, <2>6
    <2>8. Followed(s, p) \subseteq Followed(t, p) /\ Followed(t, p) \subseteq Followed(s, p)
      BY <2>7
    <2> QED
      BY <2>8
  <1> QED
    BY <1>4, <1>5 DEF s

-----------------------------------------------------------------------------
(* What the image specification says of an entry.                          *)

\* The way to the directory of an entry.
LEMMA DirectoryType ==
    ASSUME NEW e \in AllEntries
    PROVE  /\ e.path \in Paths /\ Parent(e.path) \in Seq(Names)
           /\ Len(Parent(e.path)) <= Depth
  <1>1. e.path \in Paths
    BY DEF AllEntries
  <1> DEFINE p == e.path
  <1> HIDE DEF p
  <1>2. p \in Paths
    BY <1>1 DEF p
  <1>3. p \in Seq(Names) /\ Len(p) \in 1 .. Depth /\ p # <<>>
    BY <1>2, PathsAre
  <1>4. Front(p) \in Seq(Names) /\ Len(Front(p)) = Len(p) - 1
    BY <1>3, FrontIs
  <1>5. Len(Front(p)) <= Depth
    BY <1>3, <1>4, DepthAssumption
  <1> QED
    BY <1>1, <1>4, <1>5 DEF p, Parent

LEMMA PutAtType ==
    ASSUME NEW t, IsTree(t), NEW e \in AllEntries
    PROVE  PutAt(t, e) \in Paths
  <1> DEFINE p == e.path
  <1>1. p \in Paths
    BY DEF AllEntries
  <1> HIDE DEF p
  <1>2. p \in Seq(Names) /\ Len(p) \in 1 .. Depth /\ p # <<>>
    BY <1>1, PathsAre
  <1>3. /\ Front(p) \in Seq(Names) /\ Len(Front(p)) = Len(p) - 1
        /\ Last(p) \in Names
    BY <1>2, FrontIs
  <1> DEFINE d == Join(t, Front(p))
  <1>4. d \in Seq(Names) /\ Len(d) <= Len(Front(p))
    BY <1>2, <1>3, JoinType, DepthAssumption
  <1> HIDE DEF d
  <1>5. Append(d, Last(p)) \in Seq(Names) /\ Len(Append(d, Last(p))) = Len(d) + 1
    BY <1>3, <1>4
  <1>6. Len(Append(d, Last(p))) \in 1 .. Depth
    BY <1>2, <1>3, <1>4, <1>5, DepthAssumption
  <1>7. PutAt(t, e) = Append(d, Last(p))
    BY DEF PutAt, d, p, Parent
  <1> QED
    BY <1>5, <1>6, <1>7, PathsAre

\* What it puts at its path, if it is no hard link, and whether that replaces
\* what is below.
NodeOf(e, l) ==
    IF e.kind = "file" THEN File(l, e.mode)
    ELSE IF e.kind = "symlink" THEN Link(e.to, e.beside)
    ELSE IF e.kind = "fifo" THEN Fifo ELSE Dir

Replaces(e) == e.kind \in {"file", "symlink", "fifo"}

\* Nothing but its path, what is above and what is below is changed.
LEMMA PutIs ==
    ASSUME NEW t, NEW e, NEW l, PutAt(t, e) \in Paths, e.kind # "hardlink"
    PROVE  Put(t, e, l) =
             [r \in Paths |->
                IF r = PutAt(t, e) THEN NodeOf(e, l)
                ELSE IF Above(PutAt(t, e), r) /\ Replaces(e) THEN None
                ELSE IF Above(r, PutAt(t, e)) /\ Kind(t, r) = "none" THEN Dir
                ELSE t[r]]
  <1> DEFINE p == PutAt(t, e)
  <1> DEFINE m == MakeParents(t, p)
  <1>1. m = [r \in Paths |-> IF Above(r, p) /\ Kind(t, r) = "none" THEN Dir ELSE t[r]]
    BY DEF MakeParents
  <1>2. RemoveAll(m, {p}) = [r \in Paths |-> IF IsPrefix(p, r) THEN None ELSE m[r]]
    BY DEF RemoveAll
  <1>3. Put(t, e, l) =
           CASE e.kind = "file" -> [RemoveAll(m, {p}) EXCEPT ![p] = File(l, e.mode)]
             [] e.kind = "symlink" ->
                   [RemoveAll(m, {p}) EXCEPT ![p] = Link(e.to, e.beside)]
             [] e.kind = "hardlink" -> [RemoveAll(m, {p}) EXCEPT ![p] = m[<<e.to>>]]
             [] e.kind = "fifo" -> [RemoveAll(m, {p}) EXCEPT ![p] = Fifo]
             [] OTHER           -> [m EXCEPT ![p] = Dir]
    BY DEF Put
  <1>4. p \in Paths
    OBVIOUS
  <1> HIDE DEF p, m
  <1>5. CASE Replaces(e)
    <2>1. Put(t, e, l) = [RemoveAll(m, {p}) EXCEPT ![p] = NodeOf(e, l)]
      <3>1. CASE e.kind = "file"
        BY <1>3, <3>1 DEF NodeOf
      <3>2. CASE e.kind = "symlink"
        BY <1>3, <3>2 DEF NodeOf
      <3>3. CASE e.kind = "fifo"
        BY <1>3, <3>3 DEF NodeOf
      <3> QED
        BY <1>5, <3>1, <3>2, <3>3 DEF Replaces
    <2>2. Put(t, e, l) =
            [r \in Paths |-> IF r = p THEN NodeOf(e, l)
                             ELSE IF Above(p, r) /\ Replaces(e) THEN None
                             ELSE IF Above(r, p) /\ Kind(t, r) = "none" THEN Dir
                             ELSE t[r]]
      BY <1>1, <1>2, <1>4, <1>5, <2>1 DEF Above, IsStrictPrefix
    <2> QED
      BY <2>2 DEF p
  <1>6. CASE ~ Replaces(e)
    <2>1. Put(t, e, l) = [m EXCEPT ![p] = NodeOf(e, l)]
      BY <1>3, <1>6 DEF Replaces, NodeOf
    <2>2. Put(t, e, l) =
            [r \in Paths |-> IF r = p THEN NodeOf(e, l)
                             ELSE IF Above(p, r) /\ Replaces(e) THEN None
                             ELSE IF Above(r, p) /\ Kind(t, r) = "none" THEN Dir
                             ELSE t[r]]
      BY <1>1, <1>4, <1>6, <2>1
    <2> QED
      BY <2>2 DEF p
  <1> QED
    BY <1>5, <1>6

\* Prefixes of a path are prefixes of what is below it, and comparable.
LEMMA PrefixTransitive ==
    ASSUME NEW p \in Seq(Names), NEW q \in Seq(Names), NEW r \in Seq(Names),
           IsPrefix(p, q), IsPrefix(q, r)
    PROVE  IsPrefix(p, r)
  <1>1. Len(p) <= Len(q) /\ \A i \in 1 .. Len(p) : p[i] = q[i]
    BY PrefixIs
  <1>2. Len(q) <= Len(r) /\ \A i \in 1 .. Len(q) : q[i] = r[i]
    BY PrefixIs
  <1>3. Len(p) \in Nat /\ Len(q) \in Nat /\ Len(r) \in Nat
    OBVIOUS
  <1>4. Len(p) <= Len(r)
    BY <1>1, <1>2, <1>3
  <1>5. \A i \in 1 .. Len(p) : p[i] = r[i]
    BY <1>1, <1>2, <1>3
  <1> QED
    BY <1>4, <1>5, PrefixIs

LEMMA PrefixAntisymmetric ==
    ASSUME NEW p \in Seq(Names), NEW q \in Seq(Names),
           IsPrefix(p, q), IsPrefix(q, p)
    PROVE  p = q
  <1>1. Len(p) <= Len(q) /\ \A i \in 1 .. Len(p) : p[i] = q[i]
    BY PrefixIs
  <1>2. Len(q) <= Len(p)
    BY PrefixIs
  <1> QED
    BY <1>1, <1>2

\* The links W are not among what X deletes, or put since.
Avoids(X, T, W) == \A w \in W : w \in T \/ \A x \in X : ~ IsPrefix(x, w)

\* An entry can be put first or whiteouts brought forward first, if they do
\* not delete a link it follows.
LEMMA PutSpared ==
    ASSUME NEW t, IsTree(t), NEW X \in SUBSET Paths, NEW T \in SUBSET Paths,
           NEW e \in AllEntries, e.kind # "hardlink", NEW l,
           ~ Blocked(t, PutAt(t, e)),
           Avoids(X, T, Followed(t, Parent(e.path))),
           NEW s, s = Spare(t, X, T)
    PROVE  /\ PutAt(s, e) = PutAt(t, e)
           /\ Followed(s, Parent(e.path)) = Followed(t, Parent(e.path))
           /\ ~ Blocked(s, PutAt(s, e))
           /\ Put(s, e, l) = Spare(Put(t, e, l), X, T \cup {PutAt(t, e)})
  <1> DEFINE p == PutAt(t, e)
  <1> DEFINE Hit(r) == \E x \in X : IsPrefix(x, r)
  <1> DEFINE Kept(r) == \E q \in T : IsPrefix(r, q)
  <1>1. p \in Paths
    BY PutAtType
  <1>2. PutAt(s, e) = p /\ Followed(s, Parent(e.path)) = Followed(t, Parent(e.path))
    BY DirectoryType, JoinSpared DEF PutAt, Avoids
  <1>3. \A r \in Paths : s[r] = IF Hit(r) /\ ~ Kept(r) THEN None ELSE t[r]
    BY DEF Spare
  <1>4. \A r \in Paths : r # <<>> /\ r \in Seq(Names) /\ t[r] \in Nodes
    BY PathsAre, NodeType
  <1> DEFINE new == Put(t, e, l)
  <1>5. \A r \in Paths :
           new[r] = IF r = p THEN NodeOf(e, l)
                    ELSE IF Above(p, r) /\ Replaces(e) THEN None
                    ELSE IF Above(r, p) /\ Kind(t, r) = "none" THEN Dir ELSE t[r]
    BY <1>1, PutIs
  <1>6. Put(s, e, l) =
          [r \in Paths |-> IF r = p THEN NodeOf(e, l)
                           ELSE IF Above(p, r) /\ Replaces(e) THEN None
                           ELSE IF Above(r, p) /\ Kind(s, r) = "none" THEN Dir ELSE s[r]]
    BY <1>1, <1>2, PutIs
  <1>7. \A r \in Paths : Above(r, p) => Kind(t, r) \in {"none", "dir"}
    BY DEF Blocked
  <1>8. Spare(new, X, T \cup {p}) =
          [r \in Paths |-> IF Hit(r) /\ ~ (Kept(r) \/ IsPrefix(r, p)) THEN None ELSE new[r]]
    BY DEF Spare
  <1> HIDE DEF p, Hit, Kept, new
  <1>9. ~ Blocked(s, p)
    BY <1>3, <1>4, <1>7 DEF Blocked, Kind, None
  <1>10. ASSUME NEW r \in Paths
         PROVE  Put(s, e, l)[r] = Spare(new, X, T \cup {p})[r]
    <2>1. CASE r = p
      <3>1. IsPrefix(r, p)
        BY <1>4, <2>1, PrefixSelf
      <3> QED
        BY <1>5, <1>6, <1>8, <2>1, <3>1
    <2>2. CASE r # p /\ Above(p, r)
      <3>1. ~ IsPrefix(r, p)
        BY <1>1, <1>4, <2>2, PrefixAntisymmetric DEF Above, IsStrictPrefix
      <3>2. ~ Above(r, p)
        BY <3>1 DEF Above, IsStrictPrefix
      <3> QED
        BY <1>3, <1>5, <1>6, <1>8, <2>2, <3>1, <3>2
    <2>3. CASE r # p /\ ~ Above(p, r) /\ Above(r, p)
      <3>1. IsPrefix(r, p)
        BY <2>3 DEF Above, IsStrictPrefix
      <3>2. Put(s, e, l)[r] = IF Kind(s, r) = "none" THEN Dir ELSE s[r]
        BY <1>6, <2>3
      <3>3. Spare(new, X, T \cup {p})[r] = IF Kind(t, r) = "none" THEN Dir ELSE t[r]
        BY <1>5, <1>8, <2>3, <3>1
      <3>4. Kind(t, r) = "dir" => t[r] = Dir
        <4>1. Kind(t, r) = t[r].kind
          BY <1>4 DEF Kind
        <4> QED
          BY <1>4, <4>1, NodeKinds
      <3>5. Kind(t, r) \in {"none", "dir"}
        BY <1>7, <2>3
      <3>6. s[r] = t[r] \/ s[r] = None
        BY <1>3
      <3>7. s[r] = None => Kind(s, r) = "none"
        BY <1>4 DEF Kind, None
      <3>8. s[r] = t[r] => Kind(s, r) = Kind(t, r)
        BY <1>4 DEF Kind
      <3> QED
        BY <3>2, <3>3, <3>4, <3>5, <3>6, <3>7, <3>8
    <2>4. CASE r # p /\ ~ Above(p, r) /\ ~ Above(r, p)
      <3>1. ~ IsPrefix(r, p)
        BY <2>4 DEF Above, IsStrictPrefix
      <3> QED
        BY <1>3, <1>5, <1>6, <1>8, <2>4, <3>1
    <2> QED
      BY <2>1, <2>2, <2>3, <2>4
  <1>11. Put(s, e, l) = Spare(new, X, T \cup {p})
    BY <1>6, <1>8, <1>10
  <1> QED
    BY <1>2, <1>9, <1>11 DEF p, new

-----------------------------------------------------------------------------
(* What the handlers do.                                                   *)

\* There is nothing below what is no directory.
LEMMA BelowNone ==
    ASSUME NEW t, IsTree(t), NEW p \in Paths, Kind(t, p) # "dir",
           NEW r \in Paths, Above(p, r)
    PROVE  t[r] = None
  <1> DEFINE S == {n \in Nat : \E q \in Paths : Len(q) = n /\ Above(p, q) /\ t[q] # None}
  <1>1. ASSUME S # {} PROVE FALSE
    <2>1. PICK n \in S : \A m \in S : n <= m
      BY <1>1, LeastNatural
    <2>2. PICK q \in Paths : Len(q) = n /\ Above(p, q) /\ t[q] # None
      BY <2>1
    <2>3. q \in Seq(Names) /\ q # <<>> /\ p \in Seq(Names) /\ p # <<>>
      BY PathsAre
    <2>4. Kind(t, q) # "none"
      BY <2>2, NodeType, NodeKinds
    <2>5. Kind(t, Parent(q)) = "dir"
      BY <2>4 DEF IsTree
    <2>6. Front(q) \in Seq(Names) /\ Len(Front(q)) = Len(q) - 1
          /\ \A i \in 1 .. Len(q) - 1 : Front(q)[i] = q[i]
      BY <2>3, FrontIs
    <2>7. IsPrefix(p, q) /\ p # q
      BY <2>2 DEF Above, IsStrictPrefix
    <2>8. Len(p) <= Len(q) /\ \A i \in 1 .. Len(p) : p[i] = q[i]
      BY <2>3, <2>7, PrefixIs
    <2>9. Len(p) <= Len(q) - 1
      BY <2>3, <2>7, <2>8
    <2>10. Len(p) \in Nat /\ Len(q) \in Nat
      BY <2>3
    <2>11. \A i \in 1 .. Len(p) : p[i] = Front(q)[i]
      BY <2>6, <2>8, <2>9, <2>10
    <2>12. IsPrefix(p, Parent(q))
      BY <2>3, <2>6, <2>9, <2>11, PrefixIs DEF Parent
    <2>13. Parent(q) # p
      BY <2>5
    <2>14. Parent(q) # <<>>
      <3>1. Len(p) > 0
        BY <2>3
      <3> QED
        BY <2>6, <2>9, <3>1 DEF Parent
    <2>15. Parent(q) \in Paths
      BY <2>14, ParentType
    <2>16. t[Parent(q)] # None
      BY <2>5, <2>14 DEF Kind, None
    <2>17. Len(q) - 1 \in S
      <3>1. Len(Parent(q)) = Len(q) - 1 /\ Len(q) - 1 \in Nat
        BY <2>6, <2>9, <2>10 DEF Parent
      <3> QED
        BY <2>12, <2>13, <2>15, <2>16, <3>1 DEF Above, IsStrictPrefix
    <2> QED
      BY <2>1, <2>2, <2>10, <2>17
  <1>2. Len(r) \in Nat
    BY PathsAre
  <1> QED
    BY <1>1, <1>2

\* An entry that is in no doubt is put where the image specification puts it,
\* with what it says.
LEMMA PutIsExtract ==
    ASSUME NEW t, IsTree(t), NEW e \in AllEntries, NEW l, ~ IsWhiteout(e),
           e.kind # "hardlink", ~ CannotExtract(t, e),
           Kind(t, PutAt(t, e)) # "link",
           e.kind = "file" => Kind(t, PutAt(t, e)) # "fifo",
           e.kind = "file" /\ Kind(t, Target(t, e)) = "file" =>
              t[Target(t, e)].mode = e.mode
    PROVE  /\ Target(t, e) = PutAt(t, e)
           /\ Extract(t, e, l) = Put(t, e, l)
  <1> DEFINE p == PutAt(t, e)
  <1>1. p \in Paths
    BY PutAtType
  <1>2. Target(t, e) = p
    <2>1. Target(t, e) = Join(t, e.path)
      BY DEF Target, IsWhiteout
    <2>2. Join(t, e.path) = Follow(t, p)
      BY DirectoryType, JoinStep DEF PutAt
    <2> QED
      BY <2>1, <2>2 DEF Follow
  <1>3. /\ e.kind \in {"file", "symlink", "fifo", "dir"}
        /\ e.kind \in {"symlink", "fifo"} => Kind(t, p) = "none"
        /\ e.kind = "file" => Kind(t, p) \in {"none", "file"}
        /\ e.kind = "file" /\ Kind(t, p) = "file" => t[p].mode = e.mode
    <2>1. e.kind = "file" => Kind(t, p) # "dir"
      BY <1>2 DEF CannotExtract
    <2>2. t[p].kind \in {"none", "dir", "fifo", "file", "link"} /\ Kind(t, p) = t[p].kind
      BY <1>1, NodeType DEF Nodes, None, Dir, Fifo
    <2> QED
      BY <1>2, <2>1, <2>2 DEF CannotExtract, IsWhiteout, AllEntries
  <1>4. Replaces(e) => \A r \in Paths : Above(p, r) => t[r] = None
    <2>1. Replaces(e) => Kind(t, p) # "dir"
      BY <1>3 DEF Replaces
    <2> QED
      BY <1>1, <2>1, BelowNone
  <1>5. Extract(t, e, l) =
           [MakeParents(t, p) EXCEPT ![p] =
              CASE e.kind = "file"     -> ExtractFile(t, p, l, e.mode)
                [] e.kind = "symlink"  -> Link(e.to, e.beside)
                [] e.kind = "hardlink" -> Link(e.to, TRUE)
                [] e.kind = "fifo"     -> Fifo
                [] OTHER               -> Dir]
    BY <1>2 DEF Extract
  <1>6. MakeParents(t, p) =
           [r \in Paths |-> IF Above(r, p) /\ Kind(t, r) = "none" THEN Dir ELSE t[r]]
    BY DEF MakeParents
  <1>7. Put(t, e, l) =
          [r \in Paths |-> IF r = p THEN NodeOf(e, l)
                           ELSE IF Above(p, r) /\ Replaces(e) THEN None
                           ELSE IF Above(r, p) /\ Kind(t, r) = "none" THEN Dir ELSE t[r]]
    BY <1>1, PutIs
  <1> HIDE DEF p
  <1>8. Extract(t, e, l) = [MakeParents(t, p) EXCEPT ![p] = NodeOf(e, l)]
    <2>1. CASE e.kind = "file"
      <3>1. ExtractFile(t, p, l, e.mode) = File(l, e.mode)
        <4>1. CASE Kind(t, p) = "none"
          BY <4>1 DEF ExtractFile
        <4>2. CASE Kind(t, p) = "file"
          BY <1>3, <2>1, <4>2 DEF ExtractFile
        <4> QED
          BY <1>3, <2>1, <4>1, <4>2
      <3>2. Extract(t, e, l) = [MakeParents(t, p) EXCEPT ![p] = ExtractFile(t, p, l, e.mode)]
        BY <1>5, <2>1
      <3> QED
        BY <2>1, <3>1, <3>2 DEF NodeOf
    <2>2. CASE e.kind = "symlink"
      BY <1>5, <2>2 DEF NodeOf
    <2>3. CASE e.kind = "fifo"
      BY <1>5, <2>3 DEF NodeOf
    <2>4. CASE e.kind = "dir"
      BY <1>5, <2>4 DEF NodeOf
    <2> QED
      BY <1>3, <2>1, <2>2, <2>3, <2>4
  <1>9. ASSUME NEW r \in Paths, r # p
        PROVE  Extract(t, e, l)[r] = Put(t, e, l)[r]
    <2>1. Extract(t, e, l)[r] = IF Above(r, p) /\ Kind(t, r) = "none" THEN Dir ELSE t[r]
      BY <1>6, <1>8, <1>9
    <2>2. CASE Above(p, r) /\ Replaces(e)
      <3>1. t[r] = None
        BY <1>4, <2>2
      <3>2. ~ Above(r, p)
        BY <1>1, <2>2, PathsAre, PrefixAntisymmetric DEF Above, IsStrictPrefix
      <3> QED
        BY <1>7, <1>9, <2>1, <2>2, <3>1, <3>2
    <2>3. CASE ~ (Above(p, r) /\ Replaces(e))
      BY <1>7, <1>9, <2>1, <2>3
    <2> QED
      BY <2>2, <2>3
  <1>10. Extract(t, e, l)[p] = Put(t, e, l)[p]
    BY <1>1, <1>6, <1>7, <1>8
  <1>11. Extract(t, e, l) = [r \in Paths |-> Extract(t, e, l)[r]]
    BY <1>6, <1>8
  <1>12. Put(t, e, l) = [r \in Paths |-> Put(t, e, l)[r]]
    BY <1>7
  <1>13. Extract(t, e, l) = Put(t, e, l)
    BY <1>9, <1>10, <1>11, <1>12
  <1> QED
    BY <1>2, <1>13 DEF p

\* A whiteout that is in no doubt deletes what it would delete if it came
\* first, and nothing its layer has put there.
LEMMA WhiteoutIsSpare ==
    ASSUME NEW t, IsTree(t), NEW lower, NEW handled \in SUBSET Paths,
           NEW own \in SUBSET handled, NEW e \in AllEntries,
           IsWhiteout(e), Target(lower, e) = Target(t, e),
           e.kind = "whiteout" =>
              /\ \A q \in own : ~ Above(Target(t, e), q)
              /\ Target(t, e) \in own => Kind(t, Target(t, e)) # "dir"
              /\ Target(t, e) \notin handled \ own,
           e.kind = "opaque" =>
              /\ \A q \in own, r \in Paths \ own :
                    ~ (Above(Target(t, e), r) /\ Above(r, q))
              /\ \A q \in handled \ own : ~ Above(Target(t, e), q)
    PROVE  Whiteout(t, handled, e) = Spare(t, WhitedOut(lower, e), own)
  <1> DEFINE p == Target(t, e)
  <1>1. p \in Paths
    BY TargetType
  <1>2. \A r \in Paths : r \in Seq(Names) /\ IsPrefix(r, r)
    BY PathsAre, PrefixSelf
  <1>3. t = [r \in Paths |-> t[r]]
    BY DEF IsTree
  <1>4. CASE e.kind = "whiteout"
    <2>1. WhitedOut(lower, e) = {p}
      BY <1>4 DEF WhitedOut
    <2>2. Whiteout(t, handled, e) = IF p \in handled THEN t ELSE RemoveAll(t, {p})
      BY <1>4 DEF Whiteout
    <2>3. /\ \A q \in own : ~ Above(p, q)
          /\ p \in own => Kind(t, p) # "dir"
          /\ p \notin handled \ own
      BY <1>4
    <2> HIDE DEF p
    <2>4. CASE p \in own
      <3>1. ASSUME NEW r \in Paths PROVE Spare(t, {p}, own)[r] = t[r]
        <4>1. CASE r = p
          BY <2>4, <4>1, SparedNode
        <4>2. CASE r # p /\ IsPrefix(p, r)
          <5>1. t[r] = None
            BY <1>1, <2>3, <2>4, <4>2, BelowNone DEF Above, IsStrictPrefix
          <5> QED
            BY <5>1, SparedNode
        <4>3. CASE ~ IsPrefix(p, r)
          BY <4>3, SparedNode
        <4> QED
          BY <4>1, <4>2, <4>3
      <3>2. Spare(t, {p}, own) = t
        BY <1>3, <3>1 DEF Spare
      <3> QED
        BY <2>1, <2>2, <2>4, <3>2
    <2>5. CASE p \notin own
      <3>1. ASSUME NEW r \in Paths, IsPrefix(p, r), NEW q \in own, IsPrefix(r, q)
            PROVE  FALSE
        <4>1. q \in Paths
          OBVIOUS
        <4>2. IsPrefix(p, q)
          BY <1>1, <1>2, <3>1, <4>1, PrefixTransitive
        <4> QED
          BY <2>3, <2>5, <4>2 DEF Above, IsStrictPrefix
      <3>2. Spare(t, {p}, own) = RemoveAll(t, {p})
        BY <3>1 DEF Spare, RemoveAll
      <3> QED
        BY <2>1, <2>2, <2>3, <2>5, <3>2
    <2> QED
      BY <2>4, <2>5
  <1>5. CASE e.kind = "opaque"
    <2> DEFINE X == {r \in Paths : Above(p, r)}
    <2> DEFINE Y == {r \in Paths : Above(p, r) /\ r \notin handled}
    <2>1. WhitedOut(lower, e) = X
      BY <1>5 DEF WhitedOut
    <2>2. Whiteout(t, handled, e) = RemoveAll(t, Y)
      BY <1>5 DEF Whiteout, Opaque
    <2>3. /\ \A q \in own, r \in Paths \ own : ~ (Above(p, r) /\ Above(r, q))
          /\ \A q \in handled \ own : ~ Above(p, q)
      BY <1>5
    <2> HIDE DEF p
    <2>4. ASSUME NEW r \in Paths
          PROVE  (\E y \in Y : IsPrefix(y, r)) <=>
                 ((\E x \in X : IsPrefix(x, r)) /\ ~ \E q \in own : IsPrefix(r, q))
      <3>1. ASSUME NEW y \in Y, IsPrefix(y, r), NEW q \in own, IsPrefix(r, q)
            PROVE  FALSE
        <4>1. q \in Paths /\ y \in Paths /\ y \notin own /\ Above(p, y)
          OBVIOUS
        <4>2. IsPrefix(y, q) /\ y # q
          BY <1>2, <3>1, <4>1, PrefixTransitive
        <4> QED
          BY <2>3, <4>1, <4>2 DEF Above, IsStrictPrefix
      <3>2. ASSUME NEW x \in X, IsPrefix(x, r), ~ \E q \in own : IsPrefix(r, q)
            PROVE  r \in Y
        <4>1. x \in Paths /\ IsPrefix(p, x) /\ p # x
          BY DEF Above, IsStrictPrefix
        <4>2. IsPrefix(p, r)
          BY <1>1, <1>2, <3>2, <4>1, PrefixTransitive
        <4>3. p # r
          BY <1>1, <1>2, <3>2, <4>1, PrefixAntisymmetric
        <4>4. r \notin own
          BY <1>2, <3>2
        <4> QED
          BY <2>3, <4>2, <4>3, <4>4 DEF Above, IsStrictPrefix
      <3>3. Y \subseteq X
        OBVIOUS
      <3> HIDE DEF X, Y
      <3> QED
        BY <1>2, <3>1, <3>2, <3>3
    <2> HIDE DEF X, Y
    <2>5. RemoveAll(t, Y) = Spare(t, X, own)
      BY <2>4 DEF RemoveAll, Spare
    <2> QED
      BY <2>1, <2>2, <2>5
  <1> QED
    BY <1>4, <1>5 DEF IsWhiteout

-----------------------------------------------------------------------------
(* Tarballs and images.                                                    *)

\* at[n] has the first n entries, up to k of them.
IsPuts(t, tarball, l, k, at) ==
    at = [n \in 0 .. k |->
            IF n = 0 THEN t
            ELSE IF IsWhiteout(tarball[n]) THEN at[n - 1]
            ELSE Put(at[n - 1], tarball[n], l)]

LEMMA PutsExist ==
    ASSUME NEW t, NEW tarball, NEW l, NEW k \in Nat
    PROVE  \E at : IsPuts(t, tarball, l, k, at)
  <1> DEFINE S == {n \in Nat : ~ \E at : IsPuts(t, tarball, l, n, at)}
  <1> DEFINE Next1(at, n) == IF IsWhiteout(tarball[n]) THEN at[n - 1]
                             ELSE Put(at[n - 1], tarball[n], l)
  <1>1. ASSUME S # {} PROVE FALSE
    <2>1. PICK n \in S : \A m \in S : n <= m
      BY <1>1, LeastNatural
    <2>2. n \in Nat /\ ~ \E at : IsPuts(t, tarball, l, n, at)
      OBVIOUS
    <2>3. n # 0
      <3>1. IsPuts(t, tarball, l, 0, [m \in 0 .. 0 |-> t])
        BY DEF IsPuts
      <3> QED
        BY <2>2, <3>1
    <2>4. n - 1 \in Nat /\ n - 1 \notin S
      BY <2>1, <2>2, <2>3
    <2>5. PICK at : IsPuts(t, tarball, l, n - 1, at)
      BY <2>4
    <2> DEFINE longer == [m \in 0 .. n |-> IF m < n THEN at[m] ELSE Next1(at, n)]
    <2>6. at = [m \in 0 .. n - 1 |-> IF m = 0 THEN t ELSE Next1(at, m)]
      BY <2>5 DEF IsPuts
    <2>7. ASSUME NEW m \in 0 .. n
          PROVE  longer[m] = IF m = 0 THEN t ELSE Next1(longer, m)
      <3>1. CASE m = 0
        BY <2>2, <2>3, <2>6, <3>1
      <3>2. CASE m # 0 /\ m < n
        <4>1. m \in 0 .. n - 1 /\ m - 1 \in 0 .. n /\ m - 1 < n
          BY <2>2, <3>2
        <4>2. at[m] = Next1(at, m)
          BY <2>6, <3>2, <4>1
        <4> QED
          BY <3>2, <4>1, <4>2
      <3>3. CASE m = n
        <4>1. n - 1 \in 0 .. n /\ n - 1 < n /\ n \in 0 .. n /\ ~ (n < n)
          BY <2>2, <2>3
        <4> QED
          BY <2>3, <3>3, <4>1
      <3> QED
        BY <2>2, <3>1, <3>2, <3>3
    <2>8. IsPuts(t, tarball, l, n, longer)
      BY <2>7 DEF IsPuts
    <2> QED
      BY <2>2, <2>8
  <1> QED
    BY <1>1

LEMMA PutsStep ==
    ASSUME NEW t, NEW tarball \in Seq(AllEntries), NEW l
    PROVE  /\ Puts(t, tarball, l)[0] = t
           /\ \A n \in 1 .. Len(tarball) :
                 Puts(t, tarball, l)[n] =
                    IF IsWhiteout(tarball[n]) THEN Puts(t, tarball, l)[n - 1]
                    ELSE Put(Puts(t, tarball, l)[n - 1], tarball[n], l)
  <1> DEFINE at == CHOOSE at : IsPuts(t, tarball, l, Len(tarball), at)
  <1>1. Len(tarball) \in Nat
    OBVIOUS
  <1>2. IsPuts(t, tarball, l, Len(tarball), at)
    BY <1>1, PutsExist
  <1>3. Puts(t, tarball, l) = at
    BY DEF Puts, IsPuts
  <1> HIDE DEF at
  <1>4. at[0] = t
    BY <1>1, <1>2 DEF IsPuts
  <1>5. ASSUME NEW n \in 1 .. Len(tarball)
        PROVE  at[n] = IF IsWhiteout(tarball[n]) THEN at[n - 1]
                       ELSE Put(at[n - 1], tarball[n], l)
    <2>1. n \in 0 .. Len(tarball) /\ n # 0
      BY <1>1
    <2> QED
      BY <1>2, <2>1 DEF IsPuts
  <1> QED
    BY <1>3, <1>4, <1>5

\* at[n] has the first n layers, up to k of them.
IsStacked(image, k, at) ==
    at = [n \in 0 .. k |->
            IF n = 0 THEN Empty ELSE ApplyLayer(at[n - 1], image[n], n)]

LEMMA StackExists ==
    ASSUME NEW image, NEW k \in Nat
    PROVE  \E at : IsStacked(image, k, at)
  <1> DEFINE S == {n \in Nat : ~ \E at : IsStacked(image, n, at)}
  <1>1. ASSUME S # {} PROVE FALSE
    <2>1. PICK n \in S : \A m \in S : n <= m
      BY <1>1, LeastNatural
    <2>2. n \in Nat /\ ~ \E at : IsStacked(image, n, at)
      OBVIOUS
    <2>3. n # 0
      <3>1. IsStacked(image, 0, [m \in 0 .. 0 |-> Empty])
        BY DEF IsStacked
      <3> QED
        BY <2>2, <3>1
    <2>4. n - 1 \in Nat /\ n - 1 \notin S
      BY <2>1, <2>2, <2>3
    <2>5. PICK at : IsStacked(image, n - 1, at)
      BY <2>4
    <2> DEFINE longer == [m \in 0 .. n |-> IF m < n THEN at[m]
                                           ELSE ApplyLayer(at[n - 1], image[n], n)]
    <2>6. at = [m \in 0 .. n - 1 |->
                  IF m = 0 THEN Empty ELSE ApplyLayer(at[m - 1], image[m], m)]
      BY <2>5 DEF IsStacked
    <2>7. ASSUME NEW m \in 0 .. n
          PROVE  longer[m] = IF m = 0 THEN Empty
                             ELSE ApplyLayer(longer[m - 1], image[m], m)
      <3>1. CASE m = 0
        BY <2>2, <2>3, <2>6, <3>1
      <3>2. CASE m # 0 /\ m < n
        <4>1. m \in 0 .. n - 1 /\ m - 1 \in 0 .. n /\ m - 1 < n
          BY <2>2, <3>2
        <4>2. at[m] = ApplyLayer(at[m - 1], image[m], m)
          BY <2>6, <3>2, <4>1
        <4> QED
          BY <3>2, <4>1, <4>2
      <3>3. CASE m = n
        <4>1. n - 1 \in 0 .. n /\ n - 1 < n /\ n \in 0 .. n /\ ~ (n < n)
          BY <2>2, <2>3
        <4> QED
          BY <2>3, <3>3, <4>1
      <3> QED
        BY <2>2, <3>1, <3>2, <3>3
    <2>8. IsStacked(image, n, longer)
      BY <2>7 DEF IsStacked
    <2> QED
      BY <2>2, <2>8
  <1> QED
    BY <1>1

LEMMA StackedStep ==
    ASSUME NEW image \in Seq(Seq(AllEntries))
    PROVE  /\ Stacked(image)[0] = Empty
           /\ \A n \in 1 .. Len(image) :
                 Stacked(image)[n] = ApplyLayer(Stacked(image)[n - 1], image[n], n)
  <1> DEFINE at == CHOOSE at : IsStacked(image, Len(image), at)
  <1>1. Len(image) \in Nat
    OBVIOUS
  <1>2. IsStacked(image, Len(image), at)
    BY <1>1, StackExists
  <1>3. Stacked(image) = at
    BY DEF Stacked, IsStacked
  <1> HIDE DEF at
  <1>4. at[0] = Empty
    BY <1>1, <1>2 DEF IsStacked
  <1>5. ASSUME NEW n \in 1 .. Len(image)
        PROVE  at[n] = ApplyLayer(at[n - 1], image[n], n)
    <2>1. n \in 0 .. Len(image) /\ n # 0
      BY <1>1
    <2> QED
      BY <1>2, <2>1 DEF IsStacked
  <1> QED
    BY <1>3, <1>4, <1>5

\* No entry, and one entry more.
LEMMA NoEntry ==
    ASSUME NEW t, NEW tarball
    PROVE  Own(t, tarball, 0) = {} /\ Gone(t, tarball, 0) = {}
  <1>1. \A k : k \notin 1 .. 0
    OBVIOUS
  <1> QED
    BY <1>1 DEF Own, Gone

LEMMA OwnStep ==
    ASSUME NEW puts, NEW tarball, NEW n \in Nat, n > 0
    PROVE  Own(puts, tarball, n) =
              IF IsWhiteout(tarball[n]) THEN Own(puts, tarball, n - 1)
              ELSE Own(puts, tarball, n - 1) \cup {PutAt(puts[n - 1], tarball[n])}
  <1>1. \A k : k \in 1 .. n <=> k \in 1 .. n - 1 \/ k = n
    OBVIOUS
  <1> QED
    BY <1>1 DEF Own

LEMMA GoneStep ==
    ASSUME NEW lower, NEW tarball, NEW n \in Nat, n > 0
    PROVE  Gone(lower, tarball, n) =
              IF IsWhiteout(tarball[n])
              THEN Gone(lower, tarball, n - 1) \cup WhitedOut(lower, tarball[n])
              ELSE Gone(lower, tarball, n - 1)
  <1>1. \A k : k \in 1 .. n <=> k \in 1 .. n - 1 \/ k = n
    OBVIOUS
  <1> QED
    BY <1>1 DEF Gone

LEMMA GoneTwice ==
    ASSUME NEW t, NEW X, NEW Y
    PROVE  RemoveAll(RemoveAll(t, X), Y) = RemoveAll(t, X \cup Y)
  BY DEF RemoveAll

LEMMA OwnType ==
    ASSUME NEW puts, NEW tarball \in Seq(AllEntries), NEW L,
           NEW n \in 0 .. Len(tarball),
           \A k \in 1 .. n : Clean(puts, tarball, k, L)
    PROVE  Own(puts, tarball, n) \in SUBSET Paths
  <1>1. ASSUME NEW k \in 1 .. n PROVE PutAt(puts[k - 1], tarball[k]) \in Paths
    <2>1. tarball[k] \in AllEntries
      OBVIOUS
    <2>2. IsTree(puts[k - 1])
      BY DEF Clean
    <2> QED
      BY <2>1, <2>2, PutAtType
  <1> QED
    BY <1>1 DEF Own

AllClean(puts, tarball, n, L) == \A k \in 1 .. n : Clean(puts, tarball, k, L)

\* A whiteout that comes after n entries of its layer can be brought forward,
\* if it deletes none of the links they follow.
LEMMA PutsSpared ==
    ASSUME NEW t, NEW tarball \in Seq(AllEntries), NEW l, NEW L,
           NEW X \in SUBSET Paths, Avoids(X, {}, L),
           NEW f, f = Puts(t, tarball, l),
           NEW g, g = Puts(RemoveAll(t, X), tarball, l),
           NEW n \in 0 .. Len(tarball), AllClean(f, tarball, n, L)
    PROVE  /\ g[n] = Spare(f[n], X, Own(f, tarball, n))
           /\ Own(g, tarball, n) = Own(f, tarball, n)
           /\ AllClean(g, tarball, n, L)
  <1> DEFINE Good(k) == /\ g[k] = Spare(f[k], X, Own(f, tarball, k))
                        /\ Own(g, tarball, k) = Own(f, tarball, k)
                        /\ k > 0 => Clean(g, tarball, k, L)
  <1> DEFINE S == {k \in 0 .. n : ~ Good(k)}
  <1>1. n \in Nat /\ n <= Len(tarball) /\ Len(tarball) \in Nat
    OBVIOUS
  <1>2. ASSUME S # {} PROVE FALSE
    <2>1. PICK k \in S : \A m \in S : k <= m
      <3>1. S \in SUBSET Nat
        BY <1>1
      <3> HIDE DEF S
      <3> QED
        BY <1>2, <3>1, LeastNatural
    <2>2. k \in 0 .. n /\ k \in Nat /\ ~ Good(k)
      BY <1>1
    <2>3. k # 0
      <3>1. f[0] = t /\ g[0] = RemoveAll(t, X)
        BY PutsStep
      <3>2. Own(f, tarball, 0) = {} /\ Own(g, tarball, 0) = {}
        BY NoEntry
      <3>3. g[0] = Spare(f[0], X, Own(f, tarball, 0)) /\ ~ (0 > 0)
        <4>1. Spare(t, X, {}) = RemoveAll(t, X)
          BY SpareNothing
        <4>2. ~ (0 > 0)
          OBVIOUS
        <4> QED
          BY <3>1, <3>2, <4>1, <4>2
      <3>4. Good(0)
        BY <3>2, <3>3
      <3> QED
        BY <2>2, <3>4
    <2>4. k - 1 \in 0 .. n /\ k - 1 \notin S /\ k > 0 /\ k \in 1 .. n /\ k \in 1 .. Len(tarball)
      BY <1>1, <2>1, <2>2, <2>3
    <2> DEFINE T == Own(f, tarball, k - 1)
    <2> DEFINE e == tarball[k]
    <2> DEFINE d == f[k - 1]
    <2>5. g[k - 1] = Spare(d, X, T) /\ Own(g, tarball, k - 1) = T
      BY <2>4
    <2>6. e \in AllEntries
      BY <2>4
    <2>7. Clean(f, tarball, k, L)
      BY <2>4 DEF AllClean
    <2>8. T \in SUBSET Paths
      <3>1. k - 1 \in 0 .. Len(tarball) /\ \A m \in 1 .. k - 1 : m \in 1 .. n
        BY <1>1, <2>4
      <3> QED
        BY <3>1, OwnType DEF AllClean
    <2>9. IsTree(d)
      BY <2>7 DEF Clean
    <2>10. IsTree(g[k - 1])
      BY <2>5, <2>8, <2>9, SpareKeepsTree
    <2>11. /\ f[k] = IF IsWhiteout(e) THEN d ELSE Put(d, e, l)
           /\ g[k] = IF IsWhiteout(e) THEN g[k - 1] ELSE Put(g[k - 1], e, l)
      BY <2>4, PutsStep
    <2>12. /\ Own(f, tarball, k) = IF IsWhiteout(e) THEN T ELSE T \cup {PutAt(d, e)}
           /\ Own(g, tarball, k) = IF IsWhiteout(e) THEN T
                                   ELSE T \cup {PutAt(g[k - 1], e)}
      BY <2>2, <2>4, <2>5, OwnStep
    <2>13. CASE IsWhiteout(e)
      <3>1. Clean(g, tarball, k, L)
        BY <2>10, <2>13 DEF Clean
      <3> QED
        BY <2>2, <2>5, <2>11, <2>12, <2>13, <3>1
    <2>14. CASE ~ IsWhiteout(e)
      <3>1. /\ ~ Blocked(d, PutAt(d, e)) /\ Followed(d, Parent(e.path)) \subseteq L \cup T
            /\ e.kind # "hardlink"
        BY <2>7, <2>14 DEF Clean
      <3>2. Avoids(X, T, Followed(d, Parent(e.path)))
        BY <3>1 DEF Avoids
      <3> DEFINE s == g[k - 1]
      <3>3. s = Spare(d, X, T)
        BY <2>5
      <3>4. ~ Blocked(d, PutAt(d, e)) /\ e.kind # "hardlink"
        BY <3>1
      <3> HIDE DEF T, e, d, s, S, Good
      <3>5. /\ PutAt(s, e) = PutAt(d, e)
             /\ Followed(s, Parent(e.path)) = Followed(d, Parent(e.path))
             /\ ~ Blocked(s, PutAt(s, e))
             /\ Put(s, e, l) = Spare(Put(d, e, l), X, T \cup {PutAt(d, e)})
        BY <2>6, <2>8, <2>9, <3>2, <3>3, <3>4, PutSpared, SMTT(30)
      <3>6. /\ PutAt(g[k - 1], e) = PutAt(d, e)
            /\ Followed(g[k - 1], Parent(e.path)) = Followed(d, Parent(e.path))
            /\ ~ Blocked(g[k - 1], PutAt(g[k - 1], e))
            /\ Put(g[k - 1], e, l) = Spare(Put(d, e, l), X, T \cup {PutAt(d, e)})
        BY <3>5 DEF s
      <3>7. Clean(g, tarball, k, L)
        BY <2>5, <2>10, <3>1, <3>6 DEF Clean, e
      <3>8. Good(k)
        BY <2>5, <2>11, <2>12, <2>14, <3>6, <3>7 DEF Good
      <3> QED
        BY <2>2, <3>8 DEF S
    <2> QED
      BY <2>13, <2>14
  <1>3. \A k \in 0 .. n : Good(k)
    BY <1>2
  <1>4. n \in 0 .. n /\ \A k \in 1 .. n : k \in 0 .. n /\ k > 0
    BY <1>1
  <1> QED
    BY <1>3, <1>4 DEF AllClean
=============================================================================
