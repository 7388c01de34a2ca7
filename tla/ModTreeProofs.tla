----------------------------- MODULE ModTreeProofs -----------------------------
(***************************************************************************)
(* What lf_traverse_dir lists, for every tree, every order of the entries  *)
(* and every limit on links: all of the mod but what a failing readdir     *)
(* keeps from it, and nothing else, each path once, a directory before     *)
(* what is in it; and what it leaves open.                                 *)
(***************************************************************************)
EXTENDS ModTree, FiniteSetTheorems, SequenceTheorems, WellFoundedInduction,
        TLAPS

-------------------------------------------------------------------------------
(* The invariant.                                                          *)

Frames == [path : Seq(Entries), rest : SUBSET Entries]

TypeInv ==
  /\ IsTree
  /\ stack \in Seq(Frames)
  /\ pc \in {"opendir", "readdir", "return", "done"}
  /\ subpath \in Seq(Entries)
  /\ ret \in {0, 1}
  /\ directory_list \in Seq(Seq(Entries))
  /\ regular_file_list \in Seq(Seq(Entries))
  /\ open_dirs \in Nat

\* What stat finds at the end of a path that readdir led along.
IsPath(p) ==
  /\ p \in Seq(Entries)
  /\ \A i \in 1..Len(p) :
       /\ ~StatFails(SubSeq(p, 1, i))
       /\ parent[p[i]] = Node(SubSeq(p, 1, i - 1))

\* The running calls are in one another's directories, and the one that is to
\* begin in the last one's.
StackInv ==
  /\ \A i \in 1..Len(stack) :
       /\ Len(stack[i].path) = i - 1
       /\ IsPath(stack[i].path)
       /\ KindAt(stack[i].path) = "dir"
       /\ stack[i].rest \subseteq Children(Node(stack[i].path))
  /\ pc = "opendir" => Len(subpath) = Len(stack) /\ IsPath(subpath)
  /\ pc = "readdir" => stack # <<>>
  /\ pc = "done" => stack = <<>>
  /\ pc \in {"opendir", "readdir"} => ret = 0

\* A running call has its directory open, until one fails.
OpenInv ==
  /\ pc \in {"opendir", "readdir"} \/ ret = 0 => open_dirs = Len(stack)
  /\ pc = "readdir" => open_dirs <= Len(subpath) + 1
  /\ pc # "readdir" => open_dirs <= Len(subpath)

Directories == {<<>>} \cup ToSet(directory_list)
Listed == ToSet(directory_list) \cup ToSet(regular_file_list)

\* What is listed, is there; what is being read, is listed.
ListInv ==
  /\ \A p \in Listed : p # <<>> /\ IsPath(p)
  /\ \A p \in ToSet(regular_file_list) : KindAt(p) = "file"
  /\ \A i \in 1..Len(stack) : stack[i].path \in Directories
  /\ pc = "opendir" => subpath \in Directories

\* Nothing is listed that is still to be read.
OnceInv ==
  /\ IsInjective(directory_list)
  /\ IsInjective(regular_file_list)
  /\ \A i \in 1..Len(stack) : \A e \in stack[i].rest : Append(stack[i].path, e) \notin Listed
  /\ pc = "opendir" => \A e \in Entries : Append(subpath, e) \notin Listed

Handled(p) ==
  /\ KindAt(p) = "dir" => p \in ToSet(directory_list)
  /\ KindAt(p) = "file" => p \in ToSet(regular_file_list)

Seen(p) == p \in missed \/ Handled(p)

Done(d) ==
  /\ KindAt(d) = "dir"
  /\ \A e \in Children(Node(d)) : Seen(Append(d, e))

\* What has been read is listed, but for what is missed; a listed directory is to
\* be read, being read, or has been.
CompleteInv ==
  ret = 0 =>
    /\ \A i \in 1..Len(stack) : \A e \in Children(Node(stack[i].path)) \ stack[i].rest :
         Seen(Append(stack[i].path, e))
    /\ \A d \in Directories :
         \/ pc = "opendir" /\ d = subpath
         \/ \E i \in 1..Len(stack) : stack[i].path = d
         \/ Done(d)

-------------------------------------------------------------------------------
(* Sequences.                                                              *)

LEMMA AppendSeq ==
  ASSUME NEW S, NEW s \in Seq(S), NEW x \in S
  PROVE  /\ Append(s, x) \in Seq(S)
         /\ Append(s, x) # <<>>
         /\ Len(Append(s, x)) = Len(s) + 1
         /\ Append(s, x)[Len(s) + 1] = x
         /\ \A i \in 1..Len(s) : Append(s, x)[i] = s[i]
         /\ Last(Append(s, x)) = x
         /\ Front(Append(s, x)) = s
         /\ ToSet(Append(s, x)) = ToSet(s) \cup {x}
<1>1. /\ Append(s, x) \in Seq(S)
      /\ Append(s, x) # <<>>
      /\ Len(Append(s, x)) = Len(s) + 1
      /\ Append(s, x)[Len(s) + 1] = x
      /\ \A i \in 1..Len(s) : Append(s, x)[i] = s[i]
  OBVIOUS
<1>2. Last(Append(s, x)) = x /\ Front(Append(s, x)) = s
  BY <1>1 DEF Last, Front
<1>3. DOMAIN Append(s, x) = 1..Len(s) \cup {Len(s) + 1}
  BY <1>1
<1>4. ToSet(Append(s, x)) = ToSet(s) \cup {x}
  BY <1>1, <1>3 DEF ToSet
<1> QED
  BY <1>1, <1>2, <1>4

LEMMA FrontSeq ==
  ASSUME NEW S, NEW s \in Seq(S), s # <<>>
  PROVE  /\ Front(s) \in Seq(S)
         /\ Len(Front(s)) = Len(s) - 1
         /\ \A i \in 1..(Len(s) - 1) : Front(s)[i] = s[i]
         /\ Last(s) \in S
         /\ s = Append(Front(s), Last(s))
         /\ Len(s) \in Nat /\ Len(s) > 0
<1>1. Len(s) \in Nat /\ Len(s) > 0
  OBVIOUS
<1>2. /\ Front(s) \in Seq(S)
      /\ Len(Front(s)) = Len(s) - 1
      /\ \A i \in 1..(Len(s) - 1) : Front(s)[i] = s[i]
  <2>0. Len(s) - 1 \in 0..Len(s)
    BY <1>1
  <2>1. PICK n \in 0..Len(s) : n = Len(s) - 1
    BY <2>0, Zenon
  <2>2. /\ SubSeq(s, 1, n) \in Seq(S)
        /\ Len(SubSeq(s, 1, n)) = n
        /\ \A i \in 1..n : SubSeq(s, 1, n)[i] = s[i]
    OBVIOUS
  <2> QED
    BY <2>1, <2>2 DEF Front
<1>3. Last(s) \in S
  BY <1>1 DEF Last
<1>4. s = Append(Front(s), Last(s))
  BY <1>1, <1>2, <1>3 DEF Last
<1> QED
  BY <1>1, <1>2, <1>3, <1>4

\* The beginnings of a sequence and of one that is an element longer.
LEMMA Beginnings ==
  ASSUME NEW S, NEW s \in Seq(S), NEW x \in S
  PROVE  /\ \A i \in 0..Len(s) : SubSeq(Append(s, x), 1, i) = SubSeq(s, 1, i)
         /\ SubSeq(Append(s, x), 1, Len(s) + 1) = Append(s, x)
         /\ SubSeq(s, 1, Len(s)) = s
         /\ SubSeq(s, 1, 0) = <<>>
OBVIOUS

LEMMA BeginningSeq ==
  ASSUME NEW S, NEW s \in Seq(S), NEW i \in 0..Len(s)
  PROVE  /\ SubSeq(s, 1, i) \in Seq(S)
         /\ Len(SubSeq(s, 1, i)) = i
         /\ i > 0 => /\ SubSeq(s, 1, i) # <<>>
                     /\ SubSeq(s, 1, i) = Append(SubSeq(s, 1, i - 1), s[i])
                     /\ Front(SubSeq(s, 1, i)) = SubSeq(s, 1, i - 1)
                     /\ Last(SubSeq(s, 1, i)) = s[i]
<1>1. SubSeq(s, 1, i) \in Seq(S) /\ Len(SubSeq(s, 1, i)) = i
  OBVIOUS
<1>2. ASSUME i > 0
      PROVE  /\ SubSeq(s, 1, i) # <<>>
             /\ SubSeq(s, 1, i) = Append(SubSeq(s, 1, i - 1), s[i])
  BY <1>2
<1>3. ASSUME i > 0
      PROVE  SubSeq(s, 1, i - 1) \in Seq(S) /\ s[i] \in S
  BY <1>3
<1>4. ASSUME i > 0
      PROVE  /\ Front(SubSeq(s, 1, i)) = SubSeq(s, 1, i - 1)
             /\ Last(SubSeq(s, 1, i)) = s[i]
  <2>1. PICK q \in Seq(S) : q = SubSeq(s, 1, i - 1)
    BY <1>3, <1>4
  <2>2. PICK x \in S : x = s[i]
    BY <1>3, <1>4
  <2>3. Front(Append(q, x)) = q /\ Last(Append(q, x)) = x
    BY AppendSeq
  <2> QED
    BY <1>2, <1>4, <2>1, <2>2, <2>3
<1> QED
  BY <1>1, <1>2, <1>4

LEMMA StillInjective ==
  ASSUME NEW S, NEW s \in Seq(S), NEW x \in S, IsInjective(s), x \notin ToSet(s)
  PROVE  IsInjective(Append(s, x))
BY DEF IsInjective, ToSet
-------------------------------------------------------------------------------
(* Paths.                                                                  *)

\* The tree stays, and with it what a path leads to.
LEMMA TreeStays ==
  ASSUME UNCHANGED theTree
  PROVE  /\ IsTree => IsTree'
         /\ \A p : Node(p)' = Node(p) /\ KindAt(p)' = KindAt(p) /\ StatFails(p)' = StatFails(p)
         /\ \A p : IsPath(p)' <=> IsPath(p)
         /\ \A n : Children(n)' = Children(n)
<1>1. parent' = parent /\ kind' = kind /\ target' = target
  BY DEF theTree
<1>2. IsTree => IsTree'
  BY <1>1 DEF IsTree, DirNodes
<1>3. \A e : Follow(e)' = Follow(e)
  BY <1>1 DEF Follow
<1>4. \A p : Node(p)' = Node(p)
  BY <1>3 DEF Node
<1>5. \A p : KindAt(p)' = KindAt(p)
  BY <1>1, <1>4 DEF KindAt
<1>6. \A p : Links(p)' = Links(p)
  BY <1>1 DEF Links
<1>7. \A p : StatFails(p)' = StatFails(p)
  BY <1>4, <1>6 DEF StatFails, Nowhere
<1>8. \A p : IsPath(p)' <=> IsPath(p)
  BY <1>1, <1>4, <1>7 DEF IsPath
<1>9. \A n : Children(n)' = Children(n)
  BY <1>1 DEF Children
<1> QED
  BY <1>2, <1>4, <1>5, <1>7, <1>8, <1>9

LEMMA Numbers ==
  /\ Cardinality(Entries) \in Nat
  /\ Entries = 1..Cardinality(Entries)
  /\ \A e \in Entries : e \in Nat /\ e > 0 /\ e <= Cardinality(Entries) /\ e # Top /\ e # Nowhere
  /\ Top # Nowhere
<1>1. Cardinality(Entries) \in Nat
  BY TreeAssumption, FS_CardinalityType
<1> QED
  BY <1>1, TreeAssumption DEF Top, Nowhere

\* A path of the tree goes on where readdir finds an entry and stat goes through.
LEMMA PathGoesOn ==
  ASSUME NEW p, IsPath(p), NEW e \in Children(Node(p)), ~StatFails(Append(p, e))
  PROVE  IsPath(Append(p, e))
<1>1. p \in Seq(Entries) /\ e \in Entries /\ parent[e] = Node(p)
  BY DEF IsPath, Children
<1>2. PICK q : q = Append(p, e)
  OBVIOUS
<1>3. q \in Seq(Entries) /\ Len(q) = Len(p) + 1 /\ q[Len(p) + 1] = e /\ Len(p) \in Nat
      /\ \A i \in 1..Len(p) : q[i] = p[i]
  BY <1>1, <1>2, AppendSeq
<1>4. /\ \A i \in 0..Len(p) : SubSeq(q, 1, i) = SubSeq(p, 1, i)
      /\ SubSeq(q, 1, Len(p) + 1) = q
      /\ SubSeq(p, 1, Len(p)) = p
  BY <1>1, <1>2, Beginnings
<1>5. ASSUME NEW i \in 1..Len(q)
      PROVE  ~StatFails(SubSeq(q, 1, i)) /\ parent[q[i]] = Node(SubSeq(q, 1, i - 1))
  <2>1. CASE i = Len(p) + 1
    <3>1. i - 1 = Len(p) /\ SubSeq(q, 1, i) = q /\ SubSeq(q, 1, Len(p)) = p
      BY <1>3, <1>4, <2>1
    <3>2. SubSeq(q, 1, i - 1) = p
      BY <3>1
    <3> QED
      BY <1>1, <1>2, <1>3, <2>1, <3>1, <3>2
  <2>2. CASE i # Len(p) + 1
    <3>1. i \in 1..Len(p) /\ i \in 0..Len(p) /\ i - 1 \in 0..Len(p)
      BY <1>3, <2>2
    <3>2. SubSeq(q, 1, i) = SubSeq(p, 1, i) /\ SubSeq(q, 1, i - 1) = SubSeq(p, 1, i - 1) /\ q[i] = p[i]
      BY <1>3, <1>4, <3>1
    <3> QED
      BY <3>1, <3>2 DEF IsPath
  <2> QED
    BY <2>1, <2>2
<1> QED
  BY <1>2, <1>3, <1>5 DEF IsPath

\* And it leads through the directories that its beginnings lead to.
LEMMA PathBack ==
  ASSUME NEW p, IsPath(p), p # <<>>
  PROVE  /\ IsPath(Front(p))
         /\ Last(p) \in Children(Node(Front(p)))
         /\ p = Append(Front(p), Last(p))
         /\ ~StatFails(p)
<1>1. p \in Seq(Entries)
  BY DEF IsPath
<1>2. PICK q, e : q = Front(p) /\ e = Last(p)
  OBVIOUS
<1>3. /\ q \in Seq(Entries) /\ e \in Entries /\ p = Append(q, e)
      /\ Len(q) = Len(p) - 1 /\ Len(p) \in Nat /\ Len(p) > 0
  BY <1>1, <1>2, FrontSeq
<1>4. Len(q) \in Nat /\ Len(p) = Len(q) + 1
  BY <1>3
<1>5. /\ \A i \in 0..Len(q) : SubSeq(p, 1, i) = SubSeq(q, 1, i)
      /\ SubSeq(p, 1, Len(q) + 1) = p
      /\ SubSeq(q, 1, Len(q)) = q
      /\ p[Len(q) + 1] = e
      /\ \A i \in 1..Len(q) : p[i] = q[i]
  BY <1>3, Beginnings, AppendSeq
<1>6. /\ ~StatFails(SubSeq(p, 1, Len(q) + 1))
      /\ parent[p[Len(q) + 1]] = Node(SubSeq(p, 1, Len(q) + 1 - 1))
  BY <1>4 DEF IsPath
<1>7. Len(q) + 1 - 1 = Len(q) /\ SubSeq(p, 1, Len(q)) = q
  BY <1>4, <1>5
<1>8. ~StatFails(p) /\ parent[e] = Node(q)
  BY <1>5, <1>6, <1>7
<1>9. ASSUME NEW i \in 1..Len(q)
      PROVE  ~StatFails(SubSeq(q, 1, i)) /\ parent[q[i]] = Node(SubSeq(q, 1, i - 1))
  <2>1. i \in 1..Len(p) /\ i \in 0..Len(q) /\ i - 1 \in 0..Len(q)
    BY <1>4
  <2>2. SubSeq(p, 1, i) = SubSeq(q, 1, i) /\ SubSeq(p, 1, i - 1) = SubSeq(q, 1, i - 1) /\ p[i] = q[i]
    BY <1>5, <2>1
  <2> QED
    BY <2>1, <2>2 DEF IsPath
<1> QED
  BY <1>2, <1>3, <1>8, <1>9 DEF IsPath, Children

LEMMA EmptyPath ==
  /\ IsPath(<<>>)
  /\ KindAt(<<>>) = "dir"
BY DEF IsPath, KindAt, Node

\* An entry is in a directory, whichever path leads to it.
LEMMA UpIsDirectory ==
  ASSUME IsTree, NEW p, IsPath(p), p # <<>>
  PROVE  KindAt(Front(p)) = "dir"
<1>1. Last(p) \in Entries /\ parent[Last(p)] = Node(Front(p))
  BY PathBack DEF Children
<1> QED
  BY <1>1 DEF IsTree, DirNodes, KindAt
\* The entry that a path goes on with is a link or not.
LEMMA LinksOfAppend ==
  ASSUME NEW p \in Seq(Entries), NEW e \in Entries
  PROVE  /\ Links(p) \in Nat
         /\ Links(Append(p, e)) \in Nat
         /\ Links(Append(p, e)) = IF kind[e] = "symlink" THEN Links(p) + 1 ELSE Links(p)
<1> DEFINE L(s) == {i \in DOMAIN s : kind[s[i]] = "symlink"}
<1>1. PICK q : q = Append(p, e)
  OBVIOUS
<1>2. /\ Len(p) \in Nat /\ q \in Seq(Entries) /\ Len(q) = Len(p) + 1
      /\ q[Len(p) + 1] = e /\ \A i \in 1..Len(p) : q[i] = p[i]
  BY <1>1, AppendSeq
<1>3. DOMAIN p = 1..Len(p) /\ DOMAIN q = 1..(Len(p) + 1)
  BY <1>2
<1>4. IsFiniteSet(1..Len(p)) /\ L(p) \in SUBSET (1..Len(p))
  BY <1>2, <1>3, FS_Interval
<1>5. IsFiniteSet(L(p)) /\ Cardinality(L(p)) \in Nat
  BY <1>4, FS_Subset, FS_CardinalityType
<1>6. Len(p) + 1 \notin L(p)
  BY <1>2, <1>3
<1>7. CASE kind[e] = "symlink"
  <2>1. L(q) = L(p) \cup {Len(p) + 1}
    BY <1>2, <1>3, <1>7
  <2>2. Cardinality(L(q)) = Cardinality(L(p)) + 1
    BY <1>5, <1>6, <2>1, FS_AddElement
  <2> QED
    <3>1. Links(p) = Cardinality(L(p)) /\ Links(q) = Cardinality(L(q))
      BY DEF Links
    <3> HIDE DEF L
    <3> QED
      BY <1>1, <1>5, <1>7, <2>2, <3>1
<1>8. CASE kind[e] # "symlink"
  <2>1. L(q) = L(p)
    BY <1>2, <1>3, <1>8
  <2> QED
    BY <1>1, <1>5, <1>8, <2>1 DEF Links
<1> QED
  BY <1>7, <1>8

LEMMA Products ==
  ASSUME NEW n \in Nat, NEW l \in Nat, NEW m \in Nat, l <= m
  PROVE  /\ l * n \in Nat
         /\ (l + 1) * n = l * n + n
         /\ l * n <= m * n
         /\ n * (m + 1) = m * n + n
OBVIOUS

\* Every set of numbers that is not empty has a smallest one.
LEMMA LeastIsThere ==
  ASSUME NEW S \in SUBSET Nat, S # {}
  PROVE  \E m \in S : \A k \in S : m <= k
<1>1. PICK m \in S : \A k \in S : ~(<<k, m>> \in OpToRel(<, Nat))
  BY NatLessThanWellFounded, WFMin, Zenon
<1>2. \A k \in S : ~(k < m)
  BY <1>1 DEF OpToRel
<1> QED
  BY <1>2

\* Between two links the numbers of a path's entries grow: a path has a longest
\* length.
LEMMA PathsAreShort ==
  ASSUME IsTree, NEW p, IsPath(p), p # <<>>
  PROVE  Len(p) \in 1..(Cardinality(Entries) * (MaxLinks + 1))
<1> DEFINE N == Cardinality(Entries)
           L(i) == Links(SubSeq(p, 1, i))
           Far == {i \in 1..Len(p) : ~(i <= L(i - 1) * N + p[i])}
<1>1. p \in Seq(Entries) /\ Len(p) \in Nat /\ Len(p) > 0
  BY DEF IsPath
<1>2. N \in Nat /\ MaxLinks \in Nat /\ \A e \in Entries : e \in Nat /\ 0 < e /\ e <= N
  BY Numbers, TreeAssumption
<1>3. ASSUME NEW i \in 1..Len(p)
      PROVE  /\ SubSeq(p, 1, i) = Append(SubSeq(p, 1, i - 1), p[i])
             /\ SubSeq(p, 1, i - 1) \in Seq(Entries)
             /\ p[i] \in Entries
             /\ i - 1 \in Nat
             /\ L(i - 1) \in Nat
             /\ L(i) \in Nat
             /\ L(i) = IF kind[p[i]] = "symlink" THEN L(i - 1) + 1 ELSE L(i - 1)
             /\ L(i) <= MaxLinks
  <2>1. i \in 0..Len(p) /\ i - 1 \in 0..Len(p) /\ i > 0 /\ i - 1 \in Nat
    BY <1>1
  <2>2. PICK q, e : q = SubSeq(p, 1, i - 1) /\ e = p[i]
    OBVIOUS
  <2>3. q \in Seq(Entries) /\ SubSeq(p, 1, i) = Append(q, e) /\ e \in Entries
    <3>1. SubSeq(p, 1, i - 1) \in Seq(Entries)
      BY <1>1, <2>1, BeginningSeq
    <3>2. SubSeq(p, 1, i) = Append(SubSeq(p, 1, i - 1), p[i])
      BY <1>1, <2>1, BeginningSeq
    <3> QED
      BY <1>1, <2>2, <3>1, <3>2
  <2>4. /\ Links(q) \in Nat
        /\ Links(Append(q, e)) \in Nat
        /\ Links(Append(q, e)) = IF kind[e] = "symlink" THEN Links(q) + 1 ELSE Links(q)
    BY <2>3, LinksOfAppend
  <2>5. Links(SubSeq(p, 1, i)) <= MaxLinks
    <3>1. Links(SubSeq(p, 1, i)) \in Nat
      BY <2>3, <2>4, Zenon
    <3>2. ~(Links(SubSeq(p, 1, i)) > MaxLinks)
      BY DEF IsPath, StatFails
    <3> QED
      BY <1>2, <3>1, <3>2
  <2>6. /\ L(i - 1) = Links(q) /\ L(i) = Links(Append(q, e))
    BY <2>2, <2>3, Zenon
  <2> HIDE DEF L
  <2>7. /\ L(i - 1) \in Nat /\ L(i) \in Nat
        /\ L(i) = IF kind[p[i]] = "symlink" THEN L(i - 1) + 1 ELSE L(i - 1)
    BY <2>2, <2>4, <2>6
  <2>8. L(i) <= MaxLinks
    BY <2>5 DEF L
  <2> QED
    BY <2>1, <2>2, <2>3, <2>7, <2>8
<1>4. L(0) = 0
  <2>1. SubSeq(p, 1, 0) = <<>>
    BY <1>1
  <2>2. {i \in DOMAIN << >> : kind[<< >>[i]] = "symlink"} = {}
    OBVIOUS
  <2> QED
    BY <2>1, <2>2, FS_EmptySet DEF Links
<1>5. ASSUME NEW i \in Nat, i > 0, i + 1 \in 1..Len(p), i <= L(i - 1) * N + p[i]
      PROVE  i + 1 <= L(i) * N + p[i + 1]
  <2>1. /\ i \in 1..Len(p)
        /\ p[i] \in Nat /\ 0 < p[i] /\ p[i] <= N
        /\ p[i + 1] \in Nat /\ 0 < p[i + 1]
        /\ p[i] \in Entries
    BY <1>1, <1>2, <1>3, <1>5
  <2>2. /\ L(i - 1) \in Nat /\ L(i) \in Nat
        /\ L(i) = IF kind[p[i]] = "symlink" THEN L(i - 1) + 1 ELSE L(i - 1)
    BY <1>3, <2>1
  <2>3. PICK l \in Nat : l = L(i - 1)
    BY <2>2
  <2> HIDE DEF L
  <2>4. CASE kind[p[i]] = "symlink"
    <3>1. (l + 1) * N = l * N + N /\ l * N \in Nat
      BY <1>2, <2>3, Products
    <3>2. L(i) = l + 1
      BY <2>2, <2>3, <2>4
    <3>3. PICK x \in Nat, n \in Nat : x = l * N /\ n = N
      BY <1>2, <3>1
    <3>4. L(i) * N = x + n /\ i <= x + p[i]
      BY <1>5, <2>3, <3>1, <3>2, <3>3
    <3>5. PICK a \in Nat, b \in Nat : a = p[i] /\ b = p[i + 1]
      BY <2>1
    <3>6. a <= n /\ 0 < b /\ i <= x + a
      BY <2>1, <3>3, <3>4, <3>5
    <3>7. i + 1 <= (x + n) + b
      BY <3>6
    <3> QED
      BY <3>4, <3>5, <3>7
  <2>5. CASE kind[p[i]] # "symlink"
    <3>1. L(i) = l /\ l * N \in Nat
      BY <1>2, <2>2, <2>3, <2>5, Products
    <3>2. p[i] < p[i + 1]
      <4>1. parent[p[i + 1]] = Node(SubSeq(p, 1, i + 1 - 1))
        BY <1>5 DEF IsPath
      <4>2. i + 1 - 1 = i
        BY <1>5
      <4>3. SubSeq(p, 1, i) # <<>> /\ Last(SubSeq(p, 1, i)) = p[i]
        BY <1>1, <1>5, BeginningSeq, i \in 0..Len(p)
      <4>4. parent[p[i + 1]] = p[i]
        BY <2>5, <4>1, <4>2, <4>3 DEF Node, Follow
      <4> QED
        BY <1>3, <1>5, <4>4 DEF IsTree
    <3> HIDE DEF N
    <3> QED
      BY <1>2, <1>5, <2>1, <2>3, <3>1, <3>2
  <2> QED
    BY <2>4, <2>5
<1>6. Far = {}
  <2>1. SUFFICES ASSUME Far # {} PROVE FALSE
    OBVIOUS
  <2>2. PICK m \in Far : \A k \in Far : m <= k
    <3>1. Far \in SUBSET Nat
      BY <1>1
    <3> HIDE DEF Far
    <3> QED
      BY <2>1, <3>1, LeastIsThere
  <2>3. m \in Nat /\ m \in 1..Len(p) /\ ~(m <= L(m - 1) * N + p[m])
    BY <1>1
  <2>4. CASE m = 1
    <3>1. p[1] \in Nat /\ p[1] > 0
      BY <1>2, <1>3, <2>3, <2>4
    <3>2. L(1 - 1) * N + p[1] = p[1]
      BY <1>2, <1>4, <3>1
    <3> QED
      BY <2>3, <2>4, <3>1, <3>2
  <2>5. CASE m # 1
    <3>1. PICK i \in Nat : m = i + 1 /\ i > 0
      <4>1. m - 1 \in Nat /\ m - 1 > 0 /\ m = (m - 1) + 1
        BY <2>3, <2>5
      <4> QED
        BY <4>1
    <3>2. i \in 1..Len(p)
      BY <1>1, <2>3, <3>1
    <3>3. i \notin Far
      BY <2>2, <3>1, <2>3
    <3>4. i <= L(i - 1) * N + p[i]
      BY <3>2, <3>3
    <3>5. i + 1 <= L(i) * N + p[i + 1]
      BY <1>5, <2>3, <3>1, <3>4
    <3>6. m - 1 = i
      BY <3>1
    <3> QED
      BY <2>3, <3>1, <3>5, <3>6
  <2> QED
    BY <2>4, <2>5
<1>7. PICK n \in Nat : n = Len(p)
  BY <1>1
<1>8. n <= L(n - 1) * N + p[n]
  BY <1>1, <1>6, <1>7
<1>9. /\ L(n - 1) \in Nat /\ L(n - 1) <= MaxLinks /\ p[n] \in Nat /\ p[n] <= N
  <2>1. n \in 1..Len(p)
    BY <1>1, <1>7
  <2> QED
    BY <1>2, <1>3, <2>1
<1>10. L(n - 1) * N \in Nat /\ L(n - 1) * N <= MaxLinks * N /\ N * (MaxLinks + 1) = MaxLinks * N + N
  BY <1>2, <1>9, Products
<1> HIDE DEF N, L
<1>11. PICK a \in Nat, b \in Nat : a = L(n - 1) * N /\ b = MaxLinks * N
  BY <1>2, <1>10, Products
<1>12. n <= b + N
  BY <1>2, <1>8, <1>9, <1>10, <1>11
<1> QED
  BY <1>1, <1>2, <1>7, <1>10, <1>11, <1>12 DEF N
-------------------------------------------------------------------------------
(* The steps.                                                              *)

\* The call that runs has taken e from what it has to read.
Took(e) ==
  /\ stack' \in Seq(Frames)
  /\ Len(stack') = Len(stack)
  /\ \A i \in 1..Len(stack) :
       /\ stack'[i].path = stack[i].path
       /\ i # Len(stack) => stack'[i].rest = stack[i].rest
       /\ i = Len(stack) => stack'[i].rest = stack[i].rest \ {e}

LEMMA ExceptLast ==
  ASSUME NEW S, NEW s \in Seq(S), s # <<>>, NEW g \in S, NEW t, t = [s EXCEPT ![Len(s)] = g]
  PROVE  /\ t \in Seq(S) /\ Len(t) = Len(s)
         /\ t[Len(s)] = g
         /\ \A i \in 1..Len(s) : i # Len(s) => t[i] = s[i]
<1>1. Len(s) \in 1..Len(s)
  OBVIOUS
<1> QED
  BY <1>1, ExceptSeq

LEMMA TakesEntry ==
  ASSUME stack \in Seq(Frames), stack # <<>>, NEW e,
         stack' = [stack EXCEPT ![Len(stack)].rest = @ \ {e}]
  PROVE  Took(e)
<1>1. PICK f \in Frames : f = stack[Len(stack)]
  OBVIOUS
<1>2. PICK g : g = [f EXCEPT !.rest = @ \ {e}]
  OBVIOUS
<1>3. g \in Frames /\ g.path = f.path /\ g.rest = f.rest \ {e}
  BY <1>2 DEF Frames
<1>4. PICK t : t = stack'
  OBVIOUS
<1>5. t = [stack EXCEPT ![Len(stack)] = g]
  BY <1>1, <1>2, <1>4
<1>6. /\ t \in Seq(Frames) /\ Len(t) = Len(stack)
      /\ t[Len(stack)] = g
      /\ \A i \in 1..Len(stack) : i # Len(stack) => t[i] = stack[i]
  BY <1>3, <1>5, ExceptLast
<1> QED
  BY <1>1, <1>3, <1>4, <1>6, Zenon DEF Took

\* The frame that runs, the entry that readdir returns, the path that stat is called
\* with, and what comes of it.
LEMMA ReadDirStep ==
  ASSUME TypeInv, StackInv, ReadDir
  PROVE  /\ UNCHANGED theTree /\ pc = "readdir" /\ stack # <<>> /\ ret = 0
         /\ \E d \in Seq(Entries), e \in Entries, p \in Seq(Entries) :
              /\ d = stack[Len(stack)].path /\ e \in stack[Len(stack)].rest
              /\ e \in Children(Node(d)) /\ IsPath(d)
              /\ p = Append(d, e) /\ Len(d) + 1 = Len(stack)
              /\ \/ CloseAndReturn(1) /\ UNCHANGED <<subpath, lists>>
                 \/ /\ IsPath(p) /\ Took(e)
                    /\ \/ KindAt(p) \in {"dir", "socket"} /\ Directory(p)
                       \/ KindAt(p) = "file" /\ RegularFile(p)
                       \/ KindAt(p) = "fifo" /\ UNCHANGED <<pc, subpath, ret, lists, open_dirs>>
<1>1. UNCHANGED theTree /\ pc = "readdir" /\ stack # <<>> /\ ret = 0
  BY DEF ReadDir, StackInv
<1>2. PICK n \in Nat : n = Len(stack) /\ n > 0
  BY <1>1 DEF TypeInv
<1>3. PICK f \in Frames : f = stack[n] /\ Frame = f
  BY <1>2 DEF TypeInv, Frame, Last
<1>4. PICK e \in f.rest, fails \in Fault("stat") :
       \/ /\ fails \/ StatFails(Append(f.path, e))
          /\ CloseAndReturn(1)
          /\ UNCHANGED <<subpath, lists>>
       \/ /\ ~fails /\ ~StatFails(Append(f.path, e))
          /\ stack' = [stack EXCEPT ![Len(stack)].rest = @ \ {e}]
          /\ \/ KindAt(Append(f.path, e)) \in {"dir", "socket"} /\ Directory(Append(f.path, e))
             \/ KindAt(Append(f.path, e)) = "file" /\ RegularFile(Append(f.path, e))
             \/ /\ KindAt(Append(f.path, e)) = "fifo"
                /\ UNCHANGED <<pc, subpath, ret, lists, open_dirs>>
  BY <1>3 DEF ReadDir
<1>5. PICK d \in Seq(Entries) : d = f.path
  BY DEF Frames
<1>6. PICK p : p = Append(d, e)
  OBVIOUS
<1>7. e \in Entries /\ e \in Children(Node(d)) /\ IsPath(d) /\ Len(d) + 1 = Len(stack)
  <2>1. n \in 1..Len(stack)
    BY <1>2
  <2>2. Len(f.path) = n - 1 /\ IsPath(f.path) /\ f.rest \subseteq Children(Node(f.path))
    BY <1>2, <1>3, <2>1 DEF StackInv
  <2> QED
    BY <1>2, <1>5, <2>2 DEF Children
<1>8. p \in Seq(Entries)
  BY <1>5, <1>6, <1>7, AppendSeq
<1>9. CASE CloseAndReturn(1) /\ UNCHANGED <<subpath, lists>>
  BY <1>1, <1>2, <1>3, <1>5, <1>6, <1>7, <1>8, <1>9
<1>10. CASE /\ ~StatFails(p)
            /\ stack' = [stack EXCEPT ![Len(stack)].rest = @ \ {e}]
            /\ \/ KindAt(p) \in {"dir", "socket"} /\ Directory(p)
               \/ KindAt(p) = "file" /\ RegularFile(p)
               \/ KindAt(p) = "fifo" /\ UNCHANGED <<pc, subpath, ret, lists, open_dirs>>
  <2>1. Took(e)
    BY <1>1, <1>10, TakesEntry DEF TypeInv
  <2>2. IsPath(p)
    BY <1>6, <1>7, <1>10, PathGoesOn
  <2> QED
    BY <1>1, <1>2, <1>3, <1>5, <1>6, <1>7, <1>8, <1>10, <2>1, <2>2
<1> QED
  BY <1>4, <1>5, <1>6, <1>9, <1>10

\* The last call leaves the stack.
LEMMA Pops ==
  ASSUME stack \in Seq(Frames), stack # <<>>, stack' = Front(stack)
  PROVE  /\ stack' \in Seq(Frames)
         /\ Len(stack) \in Nat /\ Len(stack) > 0 /\ Len(stack') = Len(stack) - 1
         /\ \A i \in 1..Len(stack') : i \in 1..Len(stack) /\ stack'[i] = stack[i]
BY FrontSeq

\* A call begins.
LEMMA Pushes ==
  ASSUME stack \in Seq(Frames), NEW f \in Frames, stack' = Append(stack, f)
  PROVE  /\ stack' \in Seq(Frames) /\ stack' # <<>>
         /\ Len(stack) \in Nat /\ Len(stack') = Len(stack) + 1
         /\ stack'[Len(stack) + 1] = f
         /\ \A i \in 1..Len(stack) : stack'[i] = stack[i]
BY AppendSeq

LEMMA OpenDirStep ==
  ASSUME TypeInv, OpenDir
  PROVE  /\ UNCHANGED <<theTree, subpath, lists>> /\ pc = "opendir"
         /\ \/ /\ KindAt(subpath) = "dir"
               /\ \E f \in Frames : /\ f.path = subpath /\ f.rest = Children(Node(subpath))
                                    /\ stack' = Append(stack, f)
               /\ open_dirs' = open_dirs + 1 /\ pc' = "readdir" /\ ret' = ret
            \/ ret' = 1 /\ pc' = "return" /\ UNCHANGED <<stack, open_dirs>>
<1>1. PICK f : f = [path |-> subpath, rest |-> Children(Node(subpath))]
  OBVIOUS
<1>2. f \in Frames /\ f.path = subpath /\ f.rest = Children(Node(subpath))
  BY <1>1 DEF Frames, Children, TypeInv
<1> QED
  BY <1>1, <1>2 DEF OpenDir
-------------------------------------------------------------------------------
(* The stack and the open directories.                                     *)

LEMMA TypeInvStep ==
  ASSUME TypeInv, StackInv, OpenInv, [Next]_vars
  PROVE  TypeInv'
<1> USE DEF TypeInv, lists
<1>1. CASE OpenDir
  <2>1. PICK t : t = stack'
    OBVIOUS
  <2>2. t \in Seq(Frames)
    <3>1. CASE \E f \in Frames : stack' = Append(stack, f)
      BY <2>1, <3>1, AppendSeq
    <3>2. CASE UNCHANGED stack
      BY <2>1, <3>2
    <3> QED
      BY <1>1, <3>1, <3>2, OpenDirStep
  <2>3. IsTree'
    BY <1>1, OpenDirStep, TreeStays
  <2> QED
    BY <1>1, <2>1, <2>2, <2>3, OpenDirStep
<1>2. CASE ReadDir
  <2>1. PICK d \in Seq(Entries), e \in Entries, p \in Seq(Entries) :
          \/ CloseAndReturn(1) /\ UNCHANGED <<subpath, lists>>
          \/ /\ Took(e)
             /\ \/ Directory(p)
                \/ RegularFile(p)
                \/ UNCHANGED <<pc, subpath, ret, lists, open_dirs>>
    BY <1>2, ReadDirStep
  <2>2. UNCHANGED theTree /\ stack # <<>> /\ ret = 0 /\ pc = "readdir" /\ IsTree'
    BY <1>2, ReadDirStep, TreeStays
  <2>3. CASE CloseAndReturn(1) /\ UNCHANGED <<subpath, lists>>
    <3>1. stack' \in Seq(Frames) /\ open_dirs - 1 \in Nat
      BY <2>2, <2>3, Pops DEF CloseAndReturn, OpenInv
    <3> QED
      BY <2>2, <2>3, <3>1 DEF CloseAndReturn
  <2>4. CASE Took(e) /\ Directory(p)
    <3>1. directory_list' \in Seq(Seq(Entries))
      BY <2>4, AppendSeq DEF Directory
    <3> QED
      BY <2>2, <2>4, <3>1 DEF Directory, Took
  <2>5. CASE Took(e) /\ RegularFile(p)
    <3>1. regular_file_list' \in Seq(Seq(Entries))
      BY <2>5, AppendSeq DEF RegularFile
    <3> QED
      BY <2>2, <2>5, <3>1 DEF RegularFile, Took
  <2>6. CASE Took(e) /\ UNCHANGED <<pc, subpath, ret, lists, open_dirs>>
    BY <2>2, <2>6 DEF Took
  <2> QED
    BY <2>1, <2>3, <2>4, <2>5, <2>6
<1>3. CASE EndOfDir
  <2>1. stack # <<>> /\ ret = 0 /\ UNCHANGED <<theTree, subpath, lists>>
    BY <1>3 DEF EndOfDir, StackInv
  <2>2. stack' \in Seq(Frames) /\ open_dirs - 1 \in Nat
    BY <1>3, <2>1, Pops DEF EndOfDir, CloseAndReturn, OpenInv
  <2>3. IsTree'
    BY <2>1, TreeStays
  <2> QED
    BY <1>3, <2>1, <2>2, <2>3 DEF EndOfDir, CloseAndReturn
<1>4. CASE Return
  <2>1. stack' \in Seq(Frames)
    BY <1>4, Pops DEF Return
  <2>2. IsTree'
    BY <1>4, TreeStays DEF Return
  <2> QED
    BY <1>4, <2>1, <2>2 DEF Return
<1>5. CASE UNCHANGED vars
  BY <1>5, TreeStays DEF vars
<1> QED
  BY <1>1, <1>2, <1>3, <1>4, <1>5 DEF Next

LEMMA OpenInvStep ==
  ASSUME TypeInv, StackInv, OpenInv, [Next]_vars
  PROVE  OpenInv'
<1> USE DEF OpenInv, lists
<1>0. open_dirs \in Nat /\ Len(stack) \in Nat /\ Len(subpath) \in Nat /\ stack \in Seq(Frames)
  BY DEF TypeInv
<1>1. CASE OpenDir
  <2>1. ret = 0 /\ Len(subpath) = Len(stack) /\ pc = "opendir"
    BY <1>1 DEF OpenDir, StackInv
  <2>2. CASE \E f \in Frames : stack' = Append(stack, f) /\ open_dirs' = open_dirs + 1
                               /\ pc' = "readdir" /\ ret' = ret /\ UNCHANGED subpath
    <3>1. Len(stack') = Len(stack) + 1
      BY <1>0, <2>2, Pushes
    <3> QED
      BY <1>0, <2>1, <2>2, <3>1
  <2>3. CASE ret' = 1 /\ pc' = "return" /\ UNCHANGED <<stack, open_dirs, subpath>>
    BY <1>0, <2>1, <2>3
  <2> QED
    BY <1>1, <2>2, <2>3, OpenDirStep
<1>2. CASE ReadDir
  <2>1. PICK e \in Entries, p \in Seq(Entries), d \in Seq(Entries) :
          /\ p = Append(d, e) /\ Len(d) + 1 = Len(stack)
          /\ \/ CloseAndReturn(1) /\ UNCHANGED <<subpath, lists>>
             \/ /\ Took(e)
                /\ \/ Directory(p)
                   \/ RegularFile(p)
                   \/ UNCHANGED <<pc, subpath, ret, lists, open_dirs>>
    BY <1>2, ReadDirStep
  <2>2. stack # <<>> /\ ret = 0 /\ pc = "readdir"
    BY <1>2, ReadDirStep
  <2>3. Len(p) = Len(stack)
    BY <2>1, AppendSeq
  <2>4. CASE CloseAndReturn(1) /\ UNCHANGED <<subpath, lists>>
    <3>1. Len(stack') = Len(stack) - 1
      BY <1>0, <2>2, <2>4, Pops DEF CloseAndReturn
    <3> QED
      BY <1>0, <2>2, <2>4, <3>1 DEF CloseAndReturn
  <2>5. CASE Took(e) /\ Directory(p)
    BY <1>0, <2>2, <2>3, <2>5 DEF Took, Directory
  <2>6. CASE Took(e) /\ RegularFile(p)
    BY <1>0, <2>2, <2>6 DEF Took, RegularFile
  <2>7. CASE Took(e) /\ UNCHANGED <<pc, subpath, ret, lists, open_dirs>>
    BY <1>0, <2>2, <2>7 DEF Took
  <2> QED
    BY <2>1, <2>4, <2>5, <2>6, <2>7
<1>3. CASE EndOfDir
  <2>1. stack # <<>> /\ ret = 0
    BY <1>3 DEF EndOfDir, StackInv
  <2>2. Len(stack') = Len(stack) - 1
    BY <1>0, <1>3, <2>1, Pops DEF EndOfDir, CloseAndReturn
  <2> QED
    BY <1>0, <1>3, <2>1, <2>2 DEF EndOfDir, CloseAndReturn
<1>4. CASE Return
  BY <1>0, <1>4 DEF Return, TypeInv
<1>5. CASE UNCHANGED vars
  BY <1>5 DEF vars
<1> QED
  BY <1>1, <1>2, <1>3, <1>4, <1>5 DEF Next

LEMMA StackInvStep ==
  ASSUME TypeInv, StackInv, [Next]_vars
  PROVE  StackInv'
<1> USE DEF lists
<1>0. stack \in Seq(Frames) /\ Len(stack) \in Nat
  BY DEF TypeInv
<1> DEFINE FrameOk(i) == /\ Len(stack[i].path) = i - 1
                         /\ IsPath(stack[i].path)
                         /\ KindAt(stack[i].path) = "dir"
                         /\ stack[i].rest \subseteq Children(Node(stack[i].path))
\* A frame that stays as it is, or has less to read, is in order.
<1>a. ASSUME UNCHANGED theTree, NEW i \in 1..Len(stack), stack'[i].path = stack[i].path,
             stack'[i].rest \subseteq stack[i].rest
      PROVE  FrameOk(i)'
  <2>1. FrameOk(i)
    BY DEF StackInv
  <2>2. PICK d : d = stack[i].path
    OBVIOUS
  <2>3. IsPath(d)' /\ KindAt(d)' = KindAt(d) /\ Node(d)' = Node(d) /\ Children(Node(d))' = Children(Node(d))
    <3>1. IsPath(d)
      BY <2>1, <2>2
    <3>2. \A n : Children(n)' = Children(n)
      BY <1>a, TreeStays
    <3> QED
      BY <1>a, <3>1, <3>2, TreeStays
  <2> QED
    BY <1>a, <2>1, <2>2, <2>3
<1>1. CASE OpenDir
  <2>1. ret = 0 /\ pc = "opendir" /\ UNCHANGED theTree /\ UNCHANGED subpath
        /\ Len(subpath) = Len(stack) /\ IsPath(subpath)
    BY <1>1, OpenDirStep DEF StackInv
  <2>2. CASE /\ KindAt(subpath) = "dir" /\ pc' = "readdir" /\ ret' = ret
             /\ \E f \in Frames : /\ f.path = subpath /\ f.rest = Children(Node(subpath))
                                  /\ stack' = Append(stack, f)
    <3>1. PICK f \in Frames : /\ f.path = subpath /\ f.rest = Children(Node(subpath))
                              /\ stack' = Append(stack, f)
      BY <2>2
    <3>2. /\ stack' # <<>> /\ Len(stack') = Len(stack) + 1 /\ stack'[Len(stack) + 1] = f
          /\ \A i \in 1..Len(stack) : stack'[i] = stack[i]
      BY <1>0, <3>1, Pushes
    <3>3. \A i \in 1..Len(stack) : FrameOk(i)'
      BY <1>a, <2>1, <3>2
    <3>0. PICK n \in Nat : n = Len(stack) + 1
      BY <1>0
    <3>4. FrameOk(n)'
      <4>1. PICK d \in Seq(Entries) : d = subpath
        BY DEF TypeInv
      <4>2. stack'[n].path = d /\ stack'[n].rest = Children(Node(d)) /\ Len(d) = n - 1
        BY <1>0, <2>1, <3>0, <3>1, <3>2, <4>1
      <4>3. IsPath(d)' /\ KindAt(d)' = "dir" /\ Children(Node(d))' = Children(Node(d))
        <5>1. IsPath(d) /\ KindAt(d) = "dir"
          BY <2>1, <2>2, <4>1
        <5>2. \A m : Children(m)' = Children(m)
          BY <2>1, TreeStays
        <5> QED
          BY <2>1, <5>1, <5>2, TreeStays
      <4> QED
        BY <4>2, <4>3
    <3> HIDE DEF FrameOk
    <3>5. \A i \in 1..Len(stack') : FrameOk(i)'
      BY <1>0, <3>0, <3>2, <3>3, <3>4
    <3> QED
      BY <2>1, <2>2, <3>2, <3>5 DEF StackInv, FrameOk
  <2>3. CASE ret' = 1 /\ pc' = "return" /\ UNCHANGED stack
    <3>1. \A i \in 1..Len(stack) : FrameOk(i)'
      BY <1>a, <2>1, <2>3
    <3> QED
      BY <2>1, <2>3, <3>1 DEF StackInv
  <2> QED
    BY <1>1, <2>2, <2>3, OpenDirStep
<1>2. CASE ReadDir
  <2>1. PICK d \in Seq(Entries), e \in Entries, p \in Seq(Entries) :
          /\ p = Append(d, e) /\ Len(d) + 1 = Len(stack)
          /\ \/ CloseAndReturn(1) /\ UNCHANGED <<subpath, lists>>
             \/ /\ IsPath(p) /\ Took(e)
                /\ \/ Directory(p)
                   \/ RegularFile(p)
                   \/ UNCHANGED <<pc, subpath, ret, lists, open_dirs>>
    BY <1>2, ReadDirStep
  <2>2. UNCHANGED theTree /\ stack # <<>> /\ ret = 0 /\ pc = "readdir"
    BY <1>2, ReadDirStep
  <2>3. CASE CloseAndReturn(1)
    <3>1. /\ Len(stack') = Len(stack) - 1
          /\ \A i \in 1..Len(stack') : i \in 1..Len(stack) /\ stack'[i] = stack[i]
      BY <1>0, <2>2, <2>3, Pops DEF CloseAndReturn
    <3>2. \A i \in 1..Len(stack') : FrameOk(i)'
      BY <1>a, <2>2, <3>1
    <3> QED
      BY <2>3, <3>2 DEF StackInv, CloseAndReturn
  <2>4. ASSUME Took(e)
        PROVE  stack' # <<>> /\ \A i \in 1..Len(stack') : FrameOk(i)'
    <3>1. \A i \in 1..Len(stack) : FrameOk(i)'
      <4>1. SUFFICES ASSUME NEW i \in 1..Len(stack) PROVE FrameOk(i)'
        OBVIOUS
      <4>2. stack'[i].path = stack[i].path /\ stack'[i].rest \subseteq stack[i].rest
        BY <2>4, Zenon DEF Took
      <4> QED
        BY <1>a, <2>2, <4>2
    <3>2. stack' # <<>>
      BY <1>0, <2>2, <2>4 DEF Took
    <3> HIDE DEF FrameOk
    <3> QED
      BY <2>4, <3>1, <3>2 DEF Took
  <2>5. CASE IsPath(p) /\ Took(e) /\ Directory(p)
    <3>1. IsPath(p)' /\ Len(p) = Len(stack') /\ pc' = "opendir" /\ subpath' = p /\ ret' = ret
      <4>1. Len(p) = Len(stack)
        BY <2>1, AppendSeq
      <4> QED
        BY <2>2, <2>5, <4>1, TreeStays DEF Directory, Took
    <3>2. IsPath(subpath)'
      BY <3>1
    <3> QED
      BY <2>2, <2>4, <2>5, <3>1, <3>2 DEF StackInv
  <2>6. CASE Took(e) /\ (RegularFile(p) \/ UNCHANGED <<pc, subpath, ret, lists, open_dirs>>)
    <3>1. pc' = pc /\ ret' = ret
      BY <2>6 DEF RegularFile
    <3> QED
      BY <2>2, <2>4, <2>6, <3>1 DEF StackInv
  <2> QED
    BY <2>1, <2>3, <2>5, <2>6
<1>3. CASE EndOfDir
  <2>1. stack # <<>> /\ UNCHANGED theTree /\ pc' = "return" /\ stack' = Front(stack)
    BY <1>3 DEF EndOfDir, StackInv, CloseAndReturn
  <2>2. /\ Len(stack') = Len(stack) - 1
        /\ \A i \in 1..Len(stack') : i \in 1..Len(stack) /\ stack'[i] = stack[i]
    BY <1>0, <2>1, Pops
  <2>3. \A i \in 1..Len(stack') : FrameOk(i)'
    BY <1>a, <2>1, <2>2
  <2> QED
    BY <2>1, <2>3 DEF StackInv
<1>4. CASE Return
  <2>1. UNCHANGED <<theTree, ret, subpath>> /\ pc = "return" /\ UNCHANGED theTree
    BY <1>4 DEF Return
  <2>2. CASE UNCHANGED stack
    <3>1. \A i \in 1..Len(stack) : FrameOk(i)'
      BY <1>a, <2>1, <2>2
    <3> QED
      BY <1>4, <2>1, <2>2, <3>1 DEF StackInv, Return
  <2>3. CASE stack # <<>> /\ stack' = Front(stack) /\ UNCHANGED pc
    <3>1. /\ Len(stack') = Len(stack) - 1
          /\ \A i \in 1..Len(stack') : i \in 1..Len(stack) /\ stack'[i] = stack[i]
      BY <1>0, <2>3, Pops
    <3>2. \A i \in 1..Len(stack') : FrameOk(i)'
      BY <1>a, <2>1, <3>1
    <3> QED
      BY <2>1, <2>3, <3>2 DEF StackInv
  <2> QED
    BY <1>4, <2>2, <2>3 DEF Return
<1>5. CASE UNCHANGED vars
  <2>1. UNCHANGED theTree /\ UNCHANGED stack /\ UNCHANGED <<pc, subpath, ret>>
    BY <1>5 DEF vars
  <2>2. \A i \in 1..Len(stack) : FrameOk(i)'
    BY <1>a, <2>1
  <2>3. PICK q : q = subpath /\ q = subpath'
    BY <2>1
  <2>4. IsPath(q)' <=> IsPath(q)
    BY <2>1, TreeStays
  <2> QED
    BY <2>1, <2>2, <2>3, <2>4 DEF StackInv
<1> QED
  BY <1>1, <1>2, <1>3, <1>4, <1>5 DEF Next
-------------------------------------------------------------------------------
(* The lists.                                                              *)

\* What a step does to the lists: nothing, or it adds the path of an entry that the
\* last running call has found.
Finds(d, e, p) ==
  /\ d \in Seq(Entries) /\ e \in Entries /\ p \in Seq(Entries)
  /\ stack # <<>> /\ Took(e) /\ ret = 0
  /\ d = stack[Len(stack)].path /\ e \in stack[Len(stack)].rest
  /\ p = Append(d, e) /\ IsPath(p) /\ p # <<>> /\ Front(p) = d

\* A frame of the next state: one of this state's, with some entries taken, or the one
\* of the call that begins.
KeepsFrames ==
  \A i \in 1..Len(stack') :
    \/ /\ i \in 1..Len(stack)
       /\ stack'[i].path = stack[i].path
       /\ stack'[i].rest \subseteq stack[i].rest
    \/ pc = "opendir" /\ stack'[i].path = subpath /\ stack'[i].rest \subseteq Entries

LEMMA Steps ==
  ASSUME TypeInv, StackInv, [Next]_vars
  PROVE  /\ UNCHANGED theTree
         /\ KeepsFrames
         /\ \/ UNCHANGED lists /\ (pc' = "opendir" => pc = "opendir" /\ subpath' = subpath)
            \/ \E d, e, p : /\ Finds(d, e, p) /\ KindAt(p) \in {"dir", "socket"}
                            /\ Directory(p)
            \/ \E d, e, p : Finds(d, e, p) /\ KindAt(p) = "file" /\ RegularFile(p)
                            /\ pc = "readdir"
<1>0. stack \in Seq(Frames) /\ Len(stack) \in Nat
  BY DEF TypeInv
<1>1. CASE OpenDir
  <2>1. UNCHANGED <<theTree, subpath>> /\ UNCHANGED lists /\ pc = "opendir" /\ pc' # "opendir"
    BY <1>1, OpenDirStep
  <2>2. CASE UNCHANGED stack
    BY <2>1, <2>2 DEF KeepsFrames
  <2>3. CASE \E f \in Frames : f.path = subpath /\ stack' = Append(stack, f)
    <3>1. PICK f \in Frames : f.path = subpath /\ stack' = Append(stack, f)
      BY <2>3
    <3>2. /\ Len(stack') = Len(stack) + 1 /\ stack'[Len(stack) + 1] = f
          /\ \A i \in 1..Len(stack) : stack'[i] = stack[i]
      BY <1>0, <3>1, Pushes
    <3>3. f.rest \subseteq Entries
      BY DEF Frames
    <3>4. ASSUME NEW i \in 1..Len(stack'), i # Len(stack) + 1
          PROVE  i \in 1..Len(stack) /\ stack'[i] = stack[i]
      BY <1>0, <3>2, <3>4
    <3> QED
      BY <2>1, <3>1, <3>2, <3>3, <3>4 DEF KeepsFrames
  <2> QED
    BY <1>1, <2>2, <2>3, OpenDirStep
<1>2. CASE ReadDir
  <2>1. PICK d \in Seq(Entries), e \in Entries, p \in Seq(Entries) :
          /\ d = stack[Len(stack)].path /\ e \in stack[Len(stack)].rest
          /\ p = Append(d, e) /\ Len(d) + 1 = Len(stack)
          /\ \/ CloseAndReturn(1) /\ UNCHANGED <<subpath, lists>>
             \/ /\ IsPath(p) /\ Took(e)
                /\ \/ KindAt(p) \in {"dir", "socket"} /\ Directory(p)
                   \/ KindAt(p) = "file" /\ RegularFile(p)
                   \/ UNCHANGED <<pc, subpath, ret, lists, open_dirs>>
    BY <1>2, ReadDirStep
  <2>2. UNCHANGED theTree /\ stack # <<>> /\ pc = "readdir" /\ ret = 0
    BY <1>2, ReadDirStep
  <2>3. p # <<>> /\ Front(p) = d
    BY <2>1, AppendSeq
  <2>4. CASE CloseAndReturn(1) /\ UNCHANGED <<subpath, lists>>
    <3>1. \A i \in 1..Len(stack') : i \in 1..Len(stack) /\ stack'[i] = stack[i]
      BY <1>0, <2>2, <2>4, Pops DEF CloseAndReturn
    <3> QED
      BY <2>2, <2>4, <3>1 DEF KeepsFrames, CloseAndReturn
  <2>5. CASE IsPath(p) /\ Took(e)
    <3>1. KeepsFrames
      BY <2>5 DEF KeepsFrames, Took
    <3>2. Finds(d, e, p)
      BY <2>1, <2>2, <2>3, <2>5 DEF Finds
    <3>3. CASE UNCHANGED <<pc, subpath, ret, lists, open_dirs>>
      BY <2>2, <3>1, <3>3
    <3>4. CASE KindAt(p) \in {"dir", "socket"} /\ Directory(p)
      BY <2>2, <3>1, <3>2, <3>4
    <3>5. CASE KindAt(p) = "file" /\ RegularFile(p)
      BY <2>2, <3>1, <3>2, <3>5
    <3>6. \/ KindAt(p) \in {"dir", "socket"} /\ Directory(p)
          \/ KindAt(p) = "file" /\ RegularFile(p)
          \/ UNCHANGED <<pc, subpath, ret, lists, open_dirs>>
      BY <1>0, <2>1, <2>2, <2>5, Pops DEF CloseAndReturn, Took
    <3> QED
      BY <3>3, <3>4, <3>5, <3>6
  <2> QED
    BY <2>1, <2>4, <2>5
<1>3. CASE EndOfDir
  <2>1. stack # <<>> /\ UNCHANGED theTree /\ UNCHANGED lists /\ pc' = "return" /\ stack' = Front(stack)
    BY <1>3 DEF EndOfDir, StackInv, CloseAndReturn
  <2>2. \A i \in 1..Len(stack') : i \in 1..Len(stack) /\ stack'[i] = stack[i]
    BY <1>0, <2>1, Pops
  <2> QED
    BY <2>1, <2>2 DEF KeepsFrames
<1>4. CASE Return
  <2>1. UNCHANGED theTree /\ UNCHANGED lists /\ pc' # "opendir"
    BY <1>4 DEF Return
  <2>2. CASE UNCHANGED stack
    BY <2>1, <2>2 DEF KeepsFrames
  <2>3. CASE stack # <<>> /\ stack' = Front(stack)
    <3>1. \A i \in 1..Len(stack') : i \in 1..Len(stack) /\ stack'[i] = stack[i]
      BY <1>0, <2>3, Pops
    <3> QED
      BY <2>1, <3>1 DEF KeepsFrames
  <2> QED
    BY <1>4, <2>2, <2>3 DEF Return
<1>5. CASE UNCHANGED vars
  BY <1>5 DEF vars, KeepsFrames
<1> QED
  BY <1>1, <1>2, <1>3, <1>4, <1>5 DEF Next
\* An entry that is found is added to one list, which has the others as before.
LEMMA FindsDirectory ==
  ASSUME TypeInv, NEW p \in Seq(Entries), Directory(p)
  PROVE  /\ ToSet(directory_list') = ToSet(directory_list) \cup {p}
         /\ ToSet(regular_file_list') = ToSet(regular_file_list)
         /\ Listed' = Listed \cup {p}
         /\ Directories' = Directories \cup {p}
BY AppendSeq DEF TypeInv, Directory, Listed, Directories

LEMMA FindsFile ==
  ASSUME TypeInv, NEW p \in Seq(Entries), RegularFile(p)
  PROVE  /\ ToSet(directory_list') = ToSet(directory_list)
         /\ ToSet(regular_file_list') = ToSet(regular_file_list) \cup {p}
         /\ Listed' = Listed \cup {p}
         /\ Directories' = Directories
BY AppendSeq DEF TypeInv, RegularFile, Listed, Directories

LEMMA ListInvStep ==
  ASSUME TypeInv, StackInv, ListInv, [Next]_vars
  PROVE  ListInv'
<1>1. UNCHANGED theTree /\ KeepsFrames
  BY Steps
<1>2. \A p : /\ IsPath(p)' <=> IsPath(p)
             /\ KindAt(p)' = KindAt(p)
  BY <1>1, TreeStays
\* What is to be shown of the next state when the lists only grow.
<1>3. ASSUME Directories \subseteq Directories'
      PROVE  \A i \in 1..Len(stack') : stack'[i].path \in Directories'
  BY <1>1, <1>3 DEF KeepsFrames, ListInv
<1>4. CASE UNCHANGED lists /\ (pc' = "opendir" => pc = "opendir" /\ subpath' = subpath)
  <2>1. Directories' = Directories /\ Listed' = Listed
        /\ ToSet(regular_file_list') = ToSet(regular_file_list)
    BY <1>4 DEF lists, Directories, Listed
  <2>2. \A i \in 1..Len(stack') : stack'[i].path \in Directories'
    BY <1>3, <2>1
  <2> QED
    BY <1>2, <1>4, <2>1, <2>2 DEF ListInv
<1>5. ASSUME NEW d, NEW e, NEW p, Finds(d, e, p), Directory(p)
      PROVE  ListInv'
  <2>1. p \in Seq(Entries) /\ p # <<>> /\ IsPath(p)
    BY <1>5 DEF Finds
  <2>2. /\ Directories' = Directories \cup {p} /\ Listed' = Listed \cup {p}
        /\ ToSet(regular_file_list') = ToSet(regular_file_list)
    BY <1>5, <2>1, FindsDirectory
  <2>3. \A i \in 1..Len(stack') : stack'[i].path \in Directories'
    BY <1>3, <2>2
  <2>4. subpath' = p
    BY <1>5 DEF Directory
  <2> QED
    BY <1>2, <2>1, <2>2, <2>3, <2>4 DEF ListInv
<1>6. ASSUME NEW d, NEW e, NEW p, Finds(d, e, p), KindAt(p) = "file", RegularFile(p),
             pc = "readdir"
      PROVE  ListInv'
  <2>1. p \in Seq(Entries) /\ p # <<>> /\ IsPath(p)
    BY <1>6 DEF Finds
  <2>2. /\ Directories' = Directories /\ Listed' = Listed \cup {p}
        /\ ToSet(regular_file_list') = ToSet(regular_file_list) \cup {p}
    BY <1>6, <2>1, FindsFile
  <2>3. \A i \in 1..Len(stack') : stack'[i].path \in Directories'
    BY <1>3, <2>2
  <2>4. pc' # "opendir"
    BY <1>6 DEF RegularFile
  <2> QED
    BY <1>2, <1>6, <2>1, <2>2, <2>3, <2>4 DEF ListInv
<1> QED
  BY <1>4, <1>5, <1>6, Steps

LEMMA ParentsFirstStep ==
  ASSUME TypeInv, StackInv, ListInv, ParentsFirst, [Next]_vars
  PROVE  ParentsFirst'
<1>1. CASE UNCHANGED lists
  BY <1>1 DEF lists, ParentsFirst
\* The path that is found is in a directory that is being read, which is listed.
<1>2. ASSUME NEW d, NEW e, NEW p, Finds(d, e, p)
      PROVE  Front(p) \in Directories /\ p \in Seq(Entries)
  <2>1. Len(stack) \in 1..Len(stack)
    BY <1>2 DEF Finds, TypeInv
  <2> QED
    BY <1>2, <2>1 DEF Finds, ListInv
<1>3. ASSUME NEW d, NEW e, NEW p, Finds(d, e, p), Directory(p)
      PROVE  ParentsFirst'
  <2>0. PICK t : t = directory_list'
    OBVIOUS
  <2>1. PICK n \in Nat : n = Len(directory_list)
    BY DEF TypeInv
  <2>2. /\ t = Append(directory_list, p) /\ Len(t) = n + 1 /\ t[n + 1] = p
        /\ \A i \in 1..n : t[i] = directory_list[i]
        /\ ToSet(t) = ToSet(directory_list) \cup {p}
        /\ DOMAIN t = 1..(n + 1) /\ DOMAIN directory_list = 1..n
    BY <1>2, <1>3, <2>0, <2>1, AppendSeq DEF Directory, TypeInv
  <2>3. ASSUME NEW i \in 1..(n + 1)
        PROVE  Front(t[i]) = <<>> \/ \E j \in 1..(i - 1) : t[j] = Front(t[i])
    <3>1. CASE i = n + 1
      <4>1. CASE Front(p) = <<>>
        BY <2>2, <3>1, <4>1
      <4>2. CASE Front(p) \in ToSet(directory_list)
        <5>1. PICK j \in 1..n : directory_list[j] = Front(p)
          BY <2>2, <4>2 DEF ToSet
        <5>2. j \in 1..(i - 1) /\ t[j] = Front(t[i])
          BY <2>2, <3>1, <5>1
        <5> QED
          BY <5>2
      <4> QED
        BY <1>2, <1>3, <4>1, <4>2 DEF Directories
    <3>2. CASE i # n + 1
      <4>1. i \in 1..n /\ i \in DOMAIN directory_list
        BY <2>1, <2>2, <3>2
      <4>2. CASE Front(directory_list[i]) = <<>>
        BY <2>2, <4>1, <4>2
      <4>3. CASE Front(directory_list[i]) # <<>>
        <5>1. PICK j \in 1..(i - 1) : directory_list[j] = Front(directory_list[i])
          BY <4>1, <4>3 DEF ParentsFirst
        <5>2. j \in 1..n
          BY <2>1, <4>1
        <5> QED
          BY <2>2, <4>1, <5>1, <5>2
      <4> QED
        BY <4>2, <4>3
    <3> QED
      BY <3>1, <3>2
  <2>4. regular_file_list' = regular_file_list /\ ToSet(directory_list) \subseteq ToSet(t)
    BY <1>3, <2>2 DEF Directory
  <2> QED
    BY <2>0, <2>1, <2>2, <2>3, <2>4 DEF ParentsFirst
<1>4. ASSUME NEW d, NEW e, NEW p, Finds(d, e, p), RegularFile(p)
      PROVE  ParentsFirst'
  <2>0. PICK t : t = regular_file_list'
    OBVIOUS
  <2>1. PICK n \in Nat : n = Len(regular_file_list)
    BY DEF TypeInv
  <2>2. /\ Len(t) = n + 1 /\ t[n + 1] = p
        /\ \A i \in 1..n : t[i] = regular_file_list[i]
        /\ DOMAIN t = 1..(n + 1) /\ DOMAIN regular_file_list = 1..n
    BY <1>2, <1>4, <2>0, <2>1, AppendSeq DEF RegularFile, TypeInv
  <2>3. directory_list' = directory_list
    BY <1>4 DEF RegularFile
  <2>4. ASSUME NEW i \in 1..(n + 1)
        PROVE  Front(t[i]) = <<>> \/ Front(t[i]) \in ToSet(directory_list)
    <3>1. CASE i = n + 1
      BY <1>2, <1>4, <2>2, <3>1 DEF Directories
    <3>2. CASE i # n + 1
      <4>1. i \in DOMAIN regular_file_list /\ t[i] = regular_file_list[i]
        BY <2>1, <2>2, <3>2
      <4> QED
        BY <4>1 DEF ParentsFirst
    <3> QED
      BY <3>1, <3>2
  <2> QED
    BY <2>0, <2>1, <2>2, <2>3, <2>4 DEF ParentsFirst
<1> QED
  BY <1>1, <1>3, <1>4, Steps
LEMMA UpIsListed ==
  ASSUME TypeInv, ParentsFirst, NEW p \in Listed
  PROVE  Front(p) \in Directories
<1>1. CASE p \in ToSet(directory_list)
  <2>1. PICK i \in DOMAIN directory_list : directory_list[i] = p
    BY <1>1 DEF ToSet
  <2>2. Front(p) = <<>> \/ \E j \in 1..(i - 1) : directory_list[j] = Front(p)
    BY <2>1 DEF ParentsFirst
  <2>3. CASE Front(p) = <<>>
    BY <2>3 DEF Directories
  <2>4. ASSUME NEW j \in 1..(i - 1), directory_list[j] = Front(p)
        PROVE  Front(p) \in Directories
    <3>1. j \in DOMAIN directory_list
      <4>1. PICK n \in Nat : n = Len(directory_list) /\ DOMAIN directory_list = 1..n
        BY DEF TypeInv
      <4> QED
        BY <2>1, <4>1
    <3> QED
      BY <2>4, <3>1 DEF Directories, ToSet
  <2> QED
    BY <2>2, <2>3, <2>4
<1>2. CASE p \in ToSet(regular_file_list)
  BY <1>2 DEF ParentsFirst, ToSet, Directories
<1> QED
  BY <1>1, <1>2 DEF Listed

LEMMA OnceInvStep ==
  ASSUME TypeInv, StackInv, ListInv, ParentsFirst, OnceInv, [Next]_vars
  PROVE  OnceInv'
<1>1. CASE UNCHANGED lists /\ (pc' = "opendir" => pc = "opendir" /\ subpath' = subpath)
  <2>1. Listed' = Listed /\ IsInjective(directory_list)' /\ IsInjective(regular_file_list)'
    BY <1>1 DEF lists, Listed, OnceInv, IsInjective
  <2>2. ASSUME NEW i \in 1..Len(stack'), NEW e \in stack'[i].rest
        PROVE  Append(stack'[i].path, e) \notin Listed
    <3>1. CASE /\ i \in 1..Len(stack)
               /\ stack'[i].path = stack[i].path
               /\ stack'[i].rest \subseteq stack[i].rest
      BY <3>1 DEF OnceInv
    <3>2. CASE pc = "opendir" /\ stack'[i].path = subpath /\ stack'[i].rest \subseteq Entries
      BY <3>2 DEF OnceInv
    <3> QED
      BY <3>1, <3>2, Steps DEF KeepsFrames
  <2> QED
    BY <1>1, <2>1, <2>2 DEF OnceInv
\* What is found has not been listed, and is not what is left to be found.
<1>2. ASSUME NEW d, NEW e, NEW p, Finds(d, e, p)
      PROVE  /\ p \notin Listed
             /\ \A i \in 1..Len(stack') : \A x \in stack'[i].rest :
                  Append(stack'[i].path, x) \notin Listed \cup {p}
  <2>1. PICK n \in Nat : n = Len(stack) /\ n \in 1..n /\ Len(stack') = n
    BY <1>2 DEF Finds, TypeInv, Took
  <2>2. p \notin Listed
    BY <1>2, <2>1 DEF Finds, OnceInv
  <2>3. ASSUME NEW i \in 1..n
        PROVE  /\ stack[i].path \in Seq(Entries) /\ stack[i].rest \subseteq Entries
               /\ Len(stack[i].path) = i - 1
    <3>1. stack[i] \in Frames /\ i \in 1..Len(stack)
      BY <2>1 DEF TypeInv
    <3>2. Len(stack[i].path) = i - 1
      BY <3>1 DEF StackInv
    <3> QED
      BY <3>1, <3>2 DEF Frames
  <2>4. ASSUME NEW i \in 1..n, NEW x \in stack'[i].rest
        PROVE  Append(stack'[i].path, x) \notin Listed \cup {p}
    <3>1. stack'[i].path = stack[i].path /\ x \in stack[i].rest /\ (i = n => x # e)
      BY <1>2, <2>1, <2>4 DEF Finds, Took
    <3>2. Append(stack[i].path, x) \notin Listed
      BY <2>1, <3>1 DEF OnceInv
    <3>3. PICK q \in Seq(Entries), y \in Entries : q = stack[i].path /\ y = x
      BY <2>3, <3>1
    <3>4. CASE i = n
      <4>1. Last(Append(q, y)) = y /\ Last(p) = e
        BY <1>2, <3>3, AppendSeq DEF Finds
      <4> QED
        BY <3>1, <3>2, <3>3, <3>4, <4>1
    <3>5. CASE i # n
      <4>1. Len(Append(q, y)) = i
        BY <2>3, <3>3, AppendSeq
      <4>2. d = stack[n].path /\ Len(d) = n - 1
        BY <1>2, <2>1, <2>3 DEF Finds
      <4>3. Len(p) = n
        BY <1>2, <2>1, <4>2, AppendSeq DEF Finds
      <4> QED
        BY <3>1, <3>2, <3>3, <3>5, <4>1, <4>3
    <3> QED
      BY <3>4, <3>5
  <2> QED
    BY <2>1, <2>2, <2>4
<1>3. ASSUME NEW d, NEW e, NEW p, Finds(d, e, p), Directory(p)
      PROVE  OnceInv'
  <2>1. p \in Seq(Entries) /\ p # <<>>
    BY <1>3 DEF Finds
  <2>2. Listed' = Listed \cup {p}
    BY <1>3, <2>1, FindsDirectory
  <2>3. IsInjective(directory_list')
    <3>1. directory_list \in Seq(Seq(Entries)) /\ p \notin ToSet(directory_list)
          /\ IsInjective(directory_list)
      BY <1>2, <1>3 DEF TypeInv, Listed, OnceInv
    <3> QED
      BY <1>3, <2>1, <3>1, StillInjective DEF Directory
  <2>4. IsInjective(regular_file_list')
    BY <1>3 DEF Directory, OnceInv
  <2>5. ASSUME NEW x \in Entries
        PROVE  Append(p, x) \notin Listed'
    <3>1. Front(Append(p, x)) = p /\ Append(p, x) # p
      <4>1. Len(Append(p, x)) = Len(p) + 1 /\ Len(p) \in Nat
        BY <2>1, AppendSeq
      <4> QED
        BY <2>1, <4>1, AppendSeq
    <3>2. p \notin Directories
      BY <1>2, <1>3, <2>1 DEF Directories, Listed
    <3> QED
      BY <2>2, <3>1, <3>2, UpIsListed
  <2>6. subpath' = p
    BY <1>3 DEF Directory
  <2> QED
    BY <1>2, <1>3, <2>2, <2>3, <2>4, <2>5, <2>6 DEF OnceInv
<1>4. ASSUME NEW d, NEW e, NEW p, Finds(d, e, p), RegularFile(p), pc = "readdir"
      PROVE  OnceInv'
  <2>1. p \in Seq(Entries)
    BY <1>4 DEF Finds
  <2>2. Listed' = Listed \cup {p}
    BY <1>4, <2>1, FindsFile
  <2>3. IsInjective(regular_file_list')
    <3>1. regular_file_list \in Seq(Seq(Entries)) /\ p \notin ToSet(regular_file_list)
          /\ IsInjective(regular_file_list)
      BY <1>2, <1>4 DEF TypeInv, Listed, OnceInv
    <3> QED
      BY <1>4, <2>1, <3>1, StillInjective DEF RegularFile
  <2>4. IsInjective(directory_list') /\ pc' # "opendir"
    BY <1>4 DEF RegularFile, OnceInv
  <2> QED
    BY <1>2, <1>4, <2>2, <2>3, <2>4 DEF OnceInv
<1> QED
  BY <1>1, <1>3, <1>4, Steps

-------------------------------------------------------------------------------
(* Nothing is left out.                                                    *)

\* What has been listed stays so.
LEMMA HandledStays ==
  ASSUME TypeInv, StackInv, [Next]_vars
  PROVE  /\ \A p : Seen(p) => Seen(p)'
         /\ \A d : Done(d) => Done(d)'
<1>1. /\ ToSet(directory_list) \subseteq ToSet(directory_list')
      /\ ToSet(regular_file_list) \subseteq ToSet(regular_file_list')
  <2>1. CASE UNCHANGED lists
    BY <2>1 DEF lists
  <2>2. ASSUME NEW d, NEW e, NEW p, Finds(d, e, p), Directory(p) \/ RegularFile(p)
        PROVE  /\ ToSet(directory_list) \subseteq ToSet(directory_list')
               /\ ToSet(regular_file_list) \subseteq ToSet(regular_file_list')
    BY <2>2, FindsDirectory, FindsFile DEF Finds
  <2> QED
    BY <2>1, <2>2, Steps
<1>2. UNCHANGED theTree
  BY Steps
<1>3. \A p : KindAt(p)' = KindAt(p) /\ Node(p)' = Node(p)
  BY <1>2, TreeStays
<1>4. \A p : Seen(p) => Seen(p)'
  <2>1. missed \subseteq missed'
    BY DEF Next, OpenDir, ReadDir, EndOfDir, Return, vars
  <2> QED
    BY <1>1, <1>3, <2>1 DEF Seen, Handled
<1>5. ASSUME NEW d, Done(d)
      PROVE  Done(d)'
  <2>1. KindAt(d)' = "dir" /\ Children(Node(d))' = Children(Node(d))
    <3>1. \A n : Children(n)' = Children(n)
      BY <1>2, TreeStays
    <3> QED
      BY <1>3, <1>5, <3>1 DEF Done
  <2>2. \A e \in Children(Node(d)) : Seen(Append(d, e))'
    BY <1>4, <1>5 DEF Done
  <2> QED
    BY <2>1, <2>2 DEF Done
<1> QED
  BY <1>4, <1>5
LEMMA CompleteInvStep ==
  ASSUME TypeInv, StackInv, ListInv, CompleteInv, [Next]_vars
  PROVE  CompleteInv'
<1>0. stack \in Seq(Frames) /\ Len(stack) \in Nat /\ UNCHANGED theTree
  BY Steps DEF TypeInv
<1>1. \A d : /\ Node(d)' = Node(d) /\ KindAt(d)' = KindAt(d)
             /\ Children(Node(d))' = Children(Node(d))
  <2>1. \A n : Children(n)' = Children(n)
    BY <1>0, TreeStays
  <2> QED
    BY <1>0, <2>1, TreeStays
<1>2. /\ \A p : Seen(p) => Seen(p)'
      /\ \A d : Done(d) => Done(d)'
  BY HandledStays
<1> DEFINE Read(d, rest) == \A e \in Children(Node(d)) \ rest : Seen(Append(d, e))
\* A frame that stays, has read what it had.
<1>3. ASSUME ret = 0, NEW i \in 1..Len(stack), stack'[i] = stack[i]
      PROVE  Read(stack[i].path, stack[i].rest)'
  <2>1. PICK f : f = stack[i]
    OBVIOUS
  <2>2. Read(f.path, f.rest)
    BY <1>3, <2>1 DEF CompleteInv
  <2>3. Read(f.path, f.rest)'
    BY <1>1, <1>2, <2>2
  <2>4. stack'[i] = f
    BY <1>3, <2>1
  <2> HIDE DEF Read
  <2> QED
    BY <2>3, <2>4 DEF Read
<1>4. CASE ret' # 0
  BY <1>4 DEF CompleteInv
<1>5. CASE OpenDir /\ ret' = 0
  <2>1. PICK f \in Frames : /\ f.path = subpath /\ f.rest = Children(Node(subpath))
                            /\ stack' = Append(stack, f)
    BY <1>5, OpenDirStep
  <2>2. /\ Len(stack') = Len(stack) + 1 /\ stack'[Len(stack) + 1] = f
        /\ \A i \in 1..Len(stack) : stack'[i] = stack[i]
    BY <1>0, <2>1, Pushes
  <2>3. ret = 0 /\ UNCHANGED lists
    BY <1>5, OpenDirStep
  <2>4. PICK n \in Nat : n = Len(stack) + 1 /\ n \in 1..Len(stack')
    BY <1>0, <2>2
  <2>5. Read(stack[n].path, stack[n].rest)'
    <3>1. Children(Node(f.path))' = f.rest
      BY <1>1, <2>1
    <3>2. stack'[n] = f
      BY <2>2, <2>4
    <3>3. Children(Node(f.path))' \ f.rest = {}
      BY <3>1
    <3>4. Read(f.path, f.rest)'
      BY <3>3
    <3> HIDE DEF Read
    <3> QED
      BY <3>2, <3>4 DEF Read
  <2>6. \A i \in 1..Len(stack') : Read(stack[i].path, stack[i].rest)'
    <3>1. ASSUME NEW i \in 1..Len(stack'), i # n
          PROVE  i \in 1..Len(stack)
      BY <1>0, <2>2, <2>4, <3>1
    <3> HIDE DEF Read
    <3> QED
      BY <1>3, <2>2, <2>3, <2>5, <3>1
  <2>7. ASSUME NEW d \in Directories'
        PROVE  (\E i \in 1..Len(stack') : stack'[i].path = d) \/ Done(d)'
    <3>1. d \in Directories
      BY <2>3 DEF Directories, lists
    <3>2. CASE d = subpath
      BY <2>1, <2>2, <2>4, <3>2
    <3>3. ASSUME NEW i \in 1..Len(stack), stack[i].path = d
          PROVE  \E j \in 1..Len(stack') : stack'[j].path = d
      <4>1. i \in 1..Len(stack')
        BY <1>0, <2>2
      <4> QED
        BY <2>2, <3>3, <4>1
    <3>4. CASE Done(d)
      BY <1>2, <3>4
    <3> QED
      BY <2>3, <3>1, <3>2, <3>3, <3>4 DEF CompleteInv
  <2> QED
    BY <2>6, <2>7 DEF CompleteInv
<1>6. CASE ReadDir /\ ret' = 0
  <2>1. PICK d \in Seq(Entries), e \in Entries, p \in Seq(Entries) :
          /\ d = stack[Len(stack)].path
          /\ p = Append(d, e)
          /\ Took(e)
          /\ \/ KindAt(p) \in {"dir", "socket"} /\ Directory(p)
             \/ KindAt(p) = "file" /\ RegularFile(p)
             \/ KindAt(p) = "fifo" /\ UNCHANGED <<pc, subpath, ret, lists, open_dirs>>
    BY <1>6, ReadDirStep DEF CloseAndReturn
  <2>2. ret = 0 /\ pc = "readdir" /\ stack # <<>>
    BY <1>6, ReadDirStep
  <2>3. Seen(p)'
    <3>1. KindAt(p)' = KindAt(p)
      BY <1>1
    <3> QED
      BY <2>1, <3>1, FindsDirectory, FindsFile DEF Seen, Handled
  <2>4. ASSUME NEW i \in 1..Len(stack')
        PROVE  Read(stack[i].path, stack[i].rest)'
    <3>1. i \in 1..Len(stack) /\ stack'[i].path = stack[i].path
      BY <2>1 DEF Took
    <3>2. PICK q, r : q = stack[i].path /\ r = stack[i].rest
      OBVIOUS
    <3>3. Read(q, r)'
      <4>1. Read(q, r)
        BY <2>2, <3>1, <3>2 DEF CompleteInv
      <4> QED
        BY <1>1, <1>2, <4>1
    <3>4. CASE i # Len(stack)
      <4>1. stack'[i].path = q /\ stack'[i].rest = r
        BY <2>1, <3>1, <3>2, <3>4 DEF Took
      <4> HIDE DEF Read
      <4> QED
        BY <3>3, <4>1 DEF Read
    <3>5. CASE i = Len(stack)
      <4>1. stack'[i].path = q /\ stack'[i].rest = r \ {e} /\ q = d
        BY <2>1, <3>1, <3>2, <3>5 DEF Took
      <4>2. Read(q, r \ {e})'
        BY <2>1, <2>3, <3>3, <4>1
      <4> HIDE DEF Read
      <4> QED
        BY <4>1, <4>2 DEF Read
    <3> QED
      BY <3>4, <3>5
  <2>5. ASSUME NEW x \in Directories
        PROVE  (\E i \in 1..Len(stack') : stack'[i].path = x) \/ Done(x)'
    <3>1. (\E i \in 1..Len(stack) : stack[i].path = x) \/ Done(x)
      BY <2>2 DEF CompleteInv
    <3>2. CASE Done(x)
      BY <1>2, <3>2
    <3>3. CASE \E i \in 1..Len(stack) : stack[i].path = x
      BY <2>1, <3>3 DEF Took
    <3> QED
      BY <3>1, <3>2, <3>3
  <2>6. CASE Directory(p)
    <3>1. Directories' = Directories \cup {p}
      BY <2>6, FindsDirectory
    <3>2. pc' = "opendir" /\ subpath' = p
      BY <2>6 DEF Directory
    <3> QED
      BY <2>4, <2>5, <3>1, <3>2 DEF CompleteInv
  <2>7. CASE RegularFile(p) \/ UNCHANGED lists
    <3>1. Directories' = Directories
      BY <2>7, FindsFile DEF lists, Directories
    <3> QED
      BY <2>4, <2>5, <3>1 DEF CompleteInv
  <2> QED
    BY <2>1, <2>6, <2>7
<1>7. CASE EndOfDir
  <2>1. /\ stack # <<>> /\ ret = 0 /\ pc = "readdir" /\ stack' = Front(stack)
        /\ UNCHANGED lists
        /\ missed' = missed \cup {Append(Frame.path, e) : e \in Frame.rest}
    BY <1>7 DEF EndOfDir, StackInv, CloseAndReturn
  <2>2. /\ Len(stack) > 0 /\ Len(stack') = Len(stack) - 1
        /\ \A i \in 1..Len(stack') : i \in 1..Len(stack) /\ stack'[i] = stack[i]
    BY <1>0, <2>1, Pops
  <2>3. \A i \in 1..Len(stack') : Read(stack[i].path, stack[i].rest)'
    BY <1>3, <2>1, <2>2
  <2>4. ASSUME NEW d \in Directories'
        PROVE  (\E i \in 1..Len(stack') : stack'[i].path = d) \/ Done(d)'
    <3>1. d \in Directories
      BY <2>1 DEF Directories, lists
    <3>2. CASE Done(d)
      BY <1>2, <3>2
    <3>3. ASSUME NEW i \in 1..Len(stack), stack[i].path = d
          PROVE  (\E j \in 1..Len(stack') : stack'[j].path = d) \/ Done(d)'
      <4>1. CASE i = Len(stack)
        <5>1. Frame = stack[i]
          BY <4>1 DEF Frame, Last
        <5>2. PICK rest : rest = stack[i].rest
          OBVIOUS
        <5>3. Read(d, rest) /\ KindAt(d) = "dir"
          BY <2>1, <3>3, <5>1, <5>2 DEF CompleteInv, StackInv
        <5>4. \A e \in rest : Append(d, e) \in missed'
          BY <2>1, <3>3, <5>1, <5>2
        <5>5. \A e \in Children(Node(d)) : Seen(Append(d, e))'
          <6>1. ASSUME NEW e \in Children(Node(d)), e \notin rest
                PROVE  Seen(Append(d, e))'
            BY <1>2, <5>3, <6>1
          <6>2. ASSUME NEW e \in Children(Node(d)), e \in rest
                PROVE  Seen(Append(d, e))'
            BY <5>4, <6>2 DEF Seen
          <6> QED
            BY <6>1, <6>2
        <5> QED
          BY <1>1, <5>3, <5>5 DEF Done
      <4>2. CASE i # Len(stack)
        <5>1. i \in 1..Len(stack')
          BY <1>0, <2>2, <4>2
        <5> QED
          BY <2>2, <3>3, <5>1
      <4> QED
        BY <4>1, <4>2
    <3> QED
      BY <2>1, <3>1, <3>2, <3>3 DEF CompleteInv
  <2> QED
    BY <2>3, <2>4 DEF CompleteInv
<1>8. CASE Return /\ ret' = 0
  <2>1. ret = 0 /\ UNCHANGED stack /\ UNCHANGED lists /\ pc = "return"
    BY <1>8 DEF Return
  <2>2. \A i \in 1..Len(stack') : Read(stack[i].path, stack[i].rest)'
    BY <1>3, <2>1
  <2>3. Directories' = Directories
    BY <2>1 DEF lists, Directories
  <2>4. \A d \in Directories : (\E i \in 1..Len(stack) : stack[i].path = d) \/ Done(d)
    BY <2>1 DEF CompleteInv
  <2>5. \A d \in Directories' : (\E i \in 1..Len(stack') : stack'[i].path = d) \/ Done(d)'
    BY <1>2, <2>1, <2>3, <2>4
  <2> QED
    BY <2>2, <2>5 DEF CompleteInv
<1>9. CASE UNCHANGED vars /\ ret' = 0
  <2>1. ret = 0 /\ UNCHANGED stack /\ UNCHANGED lists /\ UNCHANGED <<pc, subpath>>
    BY <1>9 DEF vars
  <2>2. \A i \in 1..Len(stack') : Read(stack[i].path, stack[i].rest)'
    BY <1>3, <2>1
  <2>3. Directories' = Directories
    BY <2>1 DEF lists, Directories
  <2>4. \A d \in Directories : \/ pc = "opendir" /\ d = subpath
                               \/ \E i \in 1..Len(stack) : stack[i].path = d
                               \/ Done(d)
    BY <2>1 DEF CompleteInv
  <2>5. \A d \in Directories' : \/ pc' = "opendir" /\ d = subpath'
                                \/ \E i \in 1..Len(stack') : stack'[i].path = d
                                \/ Done(d)'
    BY <1>2, <2>1, <2>3, <2>4
  <2> QED
    BY <2>2, <2>5 DEF CompleteInv
<1> QED
  BY <1>4, <1>5, <1>6, <1>7, <1>8, <1>9 DEF Next
AllInv ==
  TypeInv /\ StackInv /\ OpenInv /\ ListInv /\ ParentsFirst /\ OnceInv /\ CompleteInv

LEMMA AllInvHolds == Spec => []AllInv
<1>1. ASSUME Init
      PROVE  AllInv
  <2>1. /\ IsTree /\ stack = <<>> /\ pc = "opendir" /\ subpath = <<>> /\ ret = 0
        /\ directory_list = <<>> /\ regular_file_list = <<>> /\ open_dirs = 0
    BY <1>1 DEF Init
  <2>2. ToSet(directory_list) = {} /\ ToSet(regular_file_list) = {}
    BY <2>1 DEF ToSet
  <2>3. Listed = {} /\ Directories = {<<>>}
    BY <2>2 DEF Listed, Directories
  <2>4. TypeInv
    BY <2>1 DEF TypeInv
  <2>5. StackInv /\ OpenInv
    BY <2>1, EmptyPath DEF StackInv, OpenInv
  <2>6. ListInv /\ ParentsFirst
    BY <2>1, <2>2, <2>3 DEF ListInv, ParentsFirst
  <2>7. OnceInv
    BY <2>1, <2>3 DEF OnceInv, IsInjective
  <2>8. CompleteInv
    BY <2>1, <2>3 DEF CompleteInv
  <2> QED
    BY <2>4, <2>5, <2>6, <2>7, <2>8 DEF AllInv
<1>2. AllInv /\ [Next]_vars => AllInv'
  BY TypeInvStep, StackInvStep, OpenInvStep, ListInvStep, ParentsFirstStep, OnceInvStep,
     CompleteInvStep
     DEF AllInv
<1> QED
  BY <1>1, <1>2, PTL DEF Spec

\* A path of the tree is one that ListsAreTheMod speaks of.
LEMMA PathsOfTheMod ==
  ASSUME IsTree, NEW p
  PROVE  p \in ModPaths <=> IsPath(p) /\ p # <<>>
<1> DEFINE N == Cardinality(Entries) * (MaxLinks + 1)
           Goes(s) == \A i \in DOMAIN s :
                        LET q == SubSeq(s, 1, i) IN
                        ~StatFails(q) /\ parent[s[i]] = Node(Front(q))
<1>1. N \in Nat
  BY Numbers, TreeAssumption, Products
<1>2. ASSUME NEW s \in Seq(Entries)
      PROVE  Goes(s) <=> IsPath(s)
  <2>1. Len(s) \in Nat /\ DOMAIN s = 1..Len(s)
    OBVIOUS
  <2>2. \A i \in 1..Len(s) : Front(SubSeq(s, 1, i)) = SubSeq(s, 1, i - 1)
    <3>1. SUFFICES ASSUME NEW i \in 1..Len(s)
                   PROVE  Front(SubSeq(s, 1, i)) = SubSeq(s, 1, i - 1)
      OBVIOUS
    <3>2. i \in 0..Len(s) /\ i > 0
      BY <2>1
    <3> QED
      BY <3>2, BeginningSeq
  <2> QED
    BY <2>1, <2>2 DEF IsPath
<1>3. ModPaths = {s \in UNION {[1..n -> Entries] : n \in 1..N} : Goes(s)}
  BY DEF ModPaths
<1> HIDE DEF N, Goes
<1>4. ASSUME p \in ModPaths
      PROVE  IsPath(p) /\ p # <<>>
  <2>1. PICK n \in 1..N : p \in [1..n -> Entries]
    BY <1>3, <1>4
  <2>2. n \in Nat /\ n > 0
    BY <1>1
  <2>3. p \in Seq(Entries) /\ p # <<>>
    BY <2>1, <2>2
  <2> QED
    BY <1>2, <1>3, <1>4, <2>3
<1>5. ASSUME IsPath(p), p # <<>>
      PROVE  p \in ModPaths
  <2>1. p \in Seq(Entries) /\ Len(p) \in 1..N
    BY <1>5, PathsAreShort DEF IsPath, N
  <2>2. p \in [1..Len(p) -> Entries]
    BY <2>1
  <2> QED
    BY <1>2, <1>3, <1>5, <2>1, <2>2
<1> QED
  BY <1>4, <1>5

\* No beginning of the path is missed.
Whole(p) == \A i \in 1..Len(p) : SubSeq(p, 1, i) \notin missed

LEMMA WholeBack ==
  ASSUME NEW p \in Seq(Entries), p # <<>>, Whole(p)
  PROVE  p \notin missed /\ Whole(Front(p))
<1>1. PICK q, e : q = Front(p) /\ e = Last(p)
  OBVIOUS
<1>2. /\ q \in Seq(Entries) /\ e \in Entries /\ p = Append(q, e)
      /\ Len(q) = Len(p) - 1 /\ Len(p) \in Nat /\ Len(p) > 0
  BY <1>1, FrontSeq
<1>3. SubSeq(p, 1, Len(p)) = p
  BY Beginnings
<1>4. p \notin missed
  <2>1. PICK n \in 1..Len(p) : n = Len(p)
    BY <1>2
  <2>2. SubSeq(p, 1, n) \notin missed
    BY DEF Whole
  <2> QED
    BY <1>3, <2>1, <2>2
<1>5. \A i \in 0..Len(q) : SubSeq(p, 1, i) = SubSeq(q, 1, i)
  BY <1>2, Beginnings
<1>6. \A i \in 1..Len(q) : i \in 1..Len(p) /\ i \in 0..Len(q)
  BY <1>2
<1>7. Whole(q)
  BY <1>5, <1>6 DEF Whole
<1> QED
  BY <1>1, <1>4, <1>7

\* In a tree all of whose listed directories have been read, every path is listed
\* that is not missed on the way: a shortest one that is not would have been found in
\* the directory it is in.
LEMMA NothingLeftOut ==
  ASSUME IsTree, \A d \in Directories : Done(d), NEW p, IsPath(p), p # <<>>, Whole(p)
  PROVE  Handled(p)
<1> DEFINE Lost == {s \in Seq(Entries) : IsPath(s) /\ s # <<>> /\ Whole(s) /\ ~Handled(s)}
           Lengths == {Len(s) : s \in Lost}
<1>1. SUFFICES ASSUME Lost # {} PROVE FALSE
  BY DEF IsPath
<1>2. Lengths \in SUBSET Nat /\ Lengths # {}
  <2>1. \A s \in Lost : Len(s) \in Nat
    OBVIOUS
  <2> HIDE DEF Lost
  <2> QED
    BY <1>1, <2>1
<1>3. PICK m \in Lengths : \A k \in Lengths : m <= k
  <2> HIDE DEF Lengths
  <2> QED
    BY <1>2, LeastIsThere
<1>4. PICK s \in Lost : Len(s) = m
  BY <1>3
<1>5. PICK q, e : q = Front(s) /\ e = Last(s)
  OBVIOUS
<1>6. /\ IsPath(q) /\ e \in Children(Node(q)) /\ s = Append(q, e) /\ KindAt(q) = "dir"
  BY <1>4, <1>5, PathBack, UpIsDirectory
<1>7. q \in Directories /\ s \notin missed
  <2>0. s \notin missed /\ Whole(q)
    BY <1>4, <1>5, WholeBack
  <2>1. CASE q = <<>>
    BY <2>0, <2>1 DEF Directories
  <2>2. CASE q # <<>>
    <3>1. q \in Seq(Entries) /\ Len(q) = Len(s) - 1 /\ Len(s) \in Nat
      BY <1>4, <1>5, FrontSeq
    <3>2. q \notin Lost
      <4>1. SUFFICES ASSUME q \in Lost PROVE FALSE
        OBVIOUS
      <4>2. Len(q) \in Lengths
        BY <4>1
      <4>3. m <= Len(q)
        BY <1>3, <4>2
      <4> QED
        BY <1>4, <3>1, <4>3
    <3>3. Handled(q)
      BY <1>6, <2>0, <2>2, <3>1, <3>2
    <3> QED
      BY <1>6, <2>0, <3>3 DEF Handled, Directories
  <2> QED
    BY <2>0, <2>1, <2>2
<1>8. Handled(s)
  BY <1>6, <1>7 DEF Done, Seen
<1> QED
  BY <1>4, <1>8

\* A traversal that succeeds has closed every directory it has opened, and one that
\* fails leaves at most those that led to the failure.
THEOREM DirsAreClosed == Spec => []OnlyFailureLeaksDirs
<1>1. AllInv => OnlyFailureLeaksDirs
  BY DEF AllInv, TypeInv, StackInv, OpenInv, OnlyFailureLeaksDirs, Succeeded
<1> QED
  BY <1>1, AllInvHolds, PTL

\* A directory is listed after the one it is in, and a file's directory is listed.
THEOREM ParentsAreFirst == Spec => []ParentsFirst
<1>1. AllInv => ParentsFirst
  BY DEF AllInv
<1> QED
  BY <1>1, AllInvHolds, PTL

\* A traversal that succeeds has listed every directory and every regular file below
\* the mod directory, as what it is and once, and nothing else; only what is behind a
\* failing readdir it may have left out.
THEOREM TraversalIsExact == Spec => []ListsAreTheMod
<1>1. AllInv => ListsAreTheMod
  <2>1. SUFFICES ASSUME AllInv, pc = "done", ret = 0
                 PROVE  ListsAreTheMod
    BY DEF ListsAreTheMod, Succeeded
  <2>2. IsTree /\ stack = <<>>
    BY <2>1 DEF AllInv, TypeInv, StackInv
  <2>3. \A d \in Directories : Done(d)
    BY <2>1, <2>2 DEF AllInv, CompleteInv
  <2>4. ASSUME NEW p \in ModPaths \ LeftOut
        PROVE  Handled(p)
    <3>1. IsPath(p) /\ p # <<>>
      BY <2>2, PathsOfTheMod
    <3>2. Whole(p)
      BY <3>1 DEF LeftOut, Whole, IsPath
    <3> QED
      BY <2>2, <2>3, <3>1, <3>2, NothingLeftOut
  <2>5. \A p \in Listed : p \in ModPaths
    BY <2>1, <2>2, PathsOfTheMod DEF AllInv, ListInv
  <2>6. \A p \in ToSet(directory_list) : p \in ModPaths /\ KindAt(p) = "dir"
    BY <2>3, <2>5 DEF Done, Directories, Listed
  <2>7. \A p \in ToSet(regular_file_list) : p \in ModPaths /\ KindAt(p) = "file"
    BY <2>1, <2>5 DEF AllInv, ListInv, Listed
  <2>8. \A p \in ModPaths \ LeftOut :
          /\ KindAt(p) = "dir" => p \in ToSet(directory_list)
          /\ KindAt(p) = "file" => p \in ToSet(regular_file_list)
    BY <2>4 DEF Handled
  <2> QED
    BY <2>1, <2>6, <2>7, <2>8 DEF AllInv, OnceInv, ListsAreTheMod
<1> QED
  BY <1>1, AllInvHolds, PTL
===============================================================================
