---------------------------- MODULE MembersProofs ----------------------------
(***************************************************************************)
(* Values and members, for any variables, keys and numbers and for chains  *)
(* of members of any length.                                               *)
(***************************************************************************)
EXTENDS Members, FiniteSetTheorems, WellFoundedInduction, TLAPS

-----------------------------------------------------------------------------
(* One level of a value.                                                    *)

\* It is read there.
LEMMA SetGet ==
  ASSUME NEW v, NEW index, NEW x
  PROVE  /\ IsArray(Set(v, index, x))
         /\ Contains(Set(v, index, x), index) /\ Get(Set(v, index, x), index) = x
<1> DEFINE items == With(AsArray(v), Key(index), x)
<1>1. Key(index) \in DOMAIN items /\ items[Key(index)] = x
  BY DEF With
<1> HIDE DEF items
<1> QED BY <1>1 DEF Set, ArrayOf, IsArray, Contains, Get, items

\* What is unset is gone.
LEMMA UnsetGone ==
  ASSUME NEW v, NEW index
  PROVE  ~Contains(Unset(v, index), index)
BY DEF Unset, ArrayOf, IsArray, Contains

-----------------------------------------------------------------------------
(* Chains of members.                                                       *)

\* The least element of a set of positions.
LEMMA Least ==
  ASSUME NEW T \in SUBSET Nat, T # {}
  PROVE  \E k \in T : \A j \in T : k <= j
<1>1. IsWellFoundedOn(OpToRel(<, Nat), Nat)
  BY NatLessThanWellFounded
<1>2. PICK k \in T : \A j \in T : ~(<<j, k>> \in OpToRel(<, Nat))
  BY <1>1, WFMin, Zenon
<1>3. \A j \in T : ~(j < k)
  BY <1>2 DEF OpToRel
<1> QED BY <1>3

\* The first n members of a chain.
Member(parent, index) ==
  [exists |-> parent.exists /\ Contains(parent.value, index),
   value |-> IF parent.exists THEN Get(parent.value, index) ELSE Null]
IsChain(m, v, path, n) ==
  m = [i \in 0 .. n |->
         IF i = 0 THEN [exists |-> TRUE, value |-> v] ELSE Member(m[i - 1], path[i])]

\* There is such a chain.
LEMMA ChainExists ==
  ASSUME NEW v, NEW path, NEW n \in Nat
  PROVE  \E m : IsChain(m, v, path, n)
<1> DEFINE Bad == {k \in 0 .. n : ~\E m : IsChain(m, v, path, k)}
<1> SUFFICES ASSUME Bad # {} PROVE FALSE
  <2>1. n \in 0 .. n
    OBVIOUS
  <2> QED BY <2>1
<1>1. PICK k \in Bad : \A j \in Bad : k <= j
  <2>1. Bad \in SUBSET Nat
    OBVIOUS
  <2> QED BY <2>1, Least, Zenon
<1>2. k # 0
  <2>1. IsChain([i \in 0 .. 0 |-> [exists |-> TRUE, value |-> v]], v, path, 0)
    BY DEF IsChain
  <2> QED BY <2>1, <1>1
<1>3. k - 1 \in 0 .. n /\ k - 1 \notin Bad
  BY <1>1, <1>2
<1>4. PICK m : IsChain(m, v, path, k - 1)
  BY <1>3
<1> DEFINE h == [i \in 0 .. k |-> IF i = k THEN Member(m[k - 1], path[k]) ELSE m[i]]
<1>5. IsChain(h, v, path, k)
  <2>1. \A i \in 0 .. k : h[i] = IF i = 0 THEN [exists |-> TRUE, value |-> v]
                                         ELSE Member(h[i - 1], path[i])
    <3>1. \A i \in 0 .. (k - 1) : m[i] = IF i = 0 THEN [exists |-> TRUE, value |-> v]
                                                 ELSE Member(m[i - 1], path[i])
      BY <1>4 DEF IsChain
    <3>2. k \in Nat \ {0}
      BY <1>1, <1>2
    <3>3. \A i \in 0 .. (k - 1) : h[i] = m[i]
      BY <3>2
    <3>4. h[k] = Member(m[k - 1], path[k])
      BY <3>2
    <3> HIDE DEF h, Bad
    <3> TAKE i \in 0 .. k
    <3>5. CASE i = 0
      <4>1. 0 \in 0 .. (k - 1)
        BY <3>2
      <4>2. h[0] = m[0] /\ m[0] = [exists |-> TRUE, value |-> v]
        BY <3>1, <3>3, <4>1
      <4> QED BY <3>5, <4>2
    <3>6. CASE i = k
      BY <3>2, <3>3, <3>4, <3>6
    <3>7. CASE i \in 1 .. (k - 1)
      BY <3>1, <3>2, <3>3, <3>7
    <3> QED BY <3>2, <3>5, <3>6, <3>7
  <2> QED BY <2>1 DEF IsChain
<1> QED BY <1>1, <1>5

\* A chain from one member to the next.
Follows(c, v, path) ==
  /\ c[0] = [exists |-> TRUE, value |-> v]
  /\ \A i \in 1 .. Len(path) : c[i] = Member(c[i - 1], path[i])

LEMMA ChainSteps ==
  ASSUME NEW v, NEW path, Len(path) \in Nat
  PROVE  Follows(Chain(v, path), v, path)
<1> DEFINE D(m) == m = [i \in 0 .. Len(path) |->
                          IF i = 0 THEN [exists |-> TRUE, value |-> v]
                          ELSE LET parent == m[i - 1]
                               IN  [exists |-> parent.exists /\ Contains(parent.value, path[i]),
                                    value |-> IF parent.exists THEN Get(parent.value, path[i]) ELSE Null]]
           c == CHOOSE m : D(m)
<1>1. Chain(v, path) = c
  BY DEF Chain
<1>2. ASSUME NEW m PROVE D(m) <=> IsChain(m, v, path, Len(path))
  BY DEF IsChain, Member
<1>3. D(c)
  <2>1. \E m : D(m)
    BY <1>2, ChainExists
  <2> HIDE DEF D
  <2> QED BY <2>1
<1>4. IsChain(c, v, path, Len(path))
  BY <1>2, <1>3
<1> HIDE DEF c
<1>5. c[0] = [exists |-> TRUE, value |-> v]
  BY <1>4 DEF IsChain
<1>6. ASSUME NEW i \in 1 .. Len(path) PROVE c[i] = Member(c[i - 1], path[i])
  <2>1. i \in 0 .. Len(path) /\ i # 0
    OBVIOUS
  <2> HIDE DEF D
  <2>2. c[i] = IF i = 0 THEN [exists |-> TRUE, value |-> v] ELSE Member(c[i - 1], path[i])
    BY <1>4, <2>1 DEF IsChain
  <2> QED BY <2>1, <2>2
<1> QED BY <1>1, <1>5, <1>6 DEF Follows

\* What holds of 0, and of a number if it holds of the one before.
LEMMA UpTo ==
  ASSUME NEW n \in Nat, NEW T, 0 \in T, \A k \in 1 .. n : k - 1 \in T => k \in T
  PROVE  \A k \in 0 .. n : k \in T
<1> DEFINE Bad == {k \in 0 .. n : k \notin T}
<1> SUFFICES ASSUME Bad # {} PROVE FALSE
  OBVIOUS
<1>1. PICK k \in Bad : \A j \in Bad : k <= j
  <2>1. Bad \in SUBSET Nat
    OBVIOUS
  <2> QED BY <2>1, Least, Zenon
<1>2. k \in 1 .. n /\ k - 1 \in 0 .. n /\ k - 1 \notin Bad
  BY <1>1
<1> QED BY <1>1, <1>2

\* Only the keys of the indices matter.
LEMMA MemberKey ==
  ASSUME NEW parent, NEW i, NEW j, Key(i) = Key(j)
  PROVE  Member(parent, i) = Member(parent, j)
BY DEF Member, Contains, Get

\* A member exists if its parent does and has the element.
LEMMA MemberThere ==
  ASSUME NEW parent, NEW index
  PROVE  /\ Member(parent, index).exists <=> parent.exists /\ Contains(parent.value, index)
         /\ parent.exists => Member(parent, index).value = Get(parent.value, index)
<1>1. PICK t \in BOOLEAN : t <=> parent.exists /\ Contains(parent.value, index)
  OBVIOUS
<1>2. Member(parent, index) =
        [exists |-> t, value |-> IF parent.exists THEN Get(parent.value, index) ELSE Null]
  BY <1>1, Zenon DEF Member
<1> QED BY <1>1, <1>2

\* From where they agree on, chains with the same keys are the same.
LEMMA SameKeys ==
  ASSUME NEW v, NEW w, NEW p, NEW q, Len(p) \in Nat, Len(q) \in Nat,
         NEW first \in Nat, NEW last \in Nat, last <= Len(p), last <= Len(q), first <= last,
         Chain(v, p)[first] = Chain(w, q)[first],
         \A i \in first + 1 .. last : Key(p[i]) = Key(q[i])
  PROVE  \A i \in first .. last : Chain(v, p)[i] = Chain(w, q)[i]
<1> DEFINE c == Chain(v, p)
           d == Chain(w, q)
           n == last - first
           T == {i \in 0 .. n : c[first + i] = d[first + i]}
<1>1. Follows(c, v, p) /\ Follows(d, w, q)
  BY ChainSteps
<1>2. c[first] = d[first]
  OBVIOUS
<1> HIDE DEF c, d
<1>3. 0 \in T
  BY <1>2
<1>4. ASSUME NEW k \in 1 .. n, k - 1 \in T PROVE k \in T
  <2> DEFINE i == first + k
  <2>1. /\ i \in 1 .. Len(p) /\ i \in 1 .. Len(q) /\ i \in first + 1 .. last
        /\ i - 1 = first + (k - 1)
    OBVIOUS
  <2>2. c[i - 1] = d[i - 1]
    BY <1>4, <2>1
  <2> HIDE DEF i
  <2>3. c[i] = Member(c[i - 1], p[i]) /\ d[i] = Member(d[i - 1], q[i])
    BY <1>1, <2>1 DEF Follows
  <2>4. c[i] = d[i]
    BY <2>1, <2>2, <2>3, MemberKey
  <2> QED BY <2>4 DEF i
<1>5. n \in Nat
  OBVIOUS
<1> HIDE DEF T
<1>6. \A k \in 0 .. n : k \in T
  BY <1>3, <1>4, <1>5, UpTo
<1>7. ASSUME NEW i \in first .. last PROVE c[i] = d[i]
  <2>1. i - first \in 0 .. n /\ first + (i - first) = i
    OBVIOUS
  <2> QED BY <1>6, <2>1 DEF T
<1> QED BY <1>7 DEF c, d

\* Chains of one value with the same indices are the same.
LEMMA ChainPrefix ==
  ASSUME NEW v, NEW path, NEW longer, Len(path) \in Nat, Len(longer) \in Nat,
         Len(path) <= Len(longer), \A i \in 1 .. Len(path) : longer[i] = path[i]
  PROVE  \A i \in 0 .. Len(path) : Chain(v, longer)[i] = Chain(v, path)[i]
<1>1. Chain(v, longer)[0] = Chain(v, path)[0]
  <2>1. Follows(Chain(v, longer), v, longer) /\ Follows(Chain(v, path), v, path)
    BY ChainSteps
  <2> QED BY <2>1 DEF Follows
<1>2. \A i \in 0 + 1 .. Len(path) : Key(longer[i]) = Key(path[i])
  OBVIOUS
<1> QED BY <1>1, <1>2, SameKeys

-----------------------------------------------------------------------------
(* Assigning to a member.                                                   *)

\* What is written at each level, the value to assign at the last.
IsWritten(l, v, path, x) ==
  LET n == Len(path)
  IN  /\ l[n] = x
      /\ \A i \in 0 .. n - 1 : l[i] = Set(Chain(v, path)[i].value, path[i + 1], l[i + 1])

\* The same, from the last level on.
Backwards(w, v, path, x, n) ==
  w = [k \in 0 .. n |->
         IF k = 0 THEN x
         ELSE Set(Chain(v, path)[Len(path) - k].value, path[Len(path) - k + 1], w[k - 1])]

LEMMA WrittenExists ==
  ASSUME NEW v, NEW path, NEW x, NEW n \in Nat
  PROVE  \E w : Backwards(w, v, path, x, n)
<1> DEFINE T == {k \in 0 .. n : \E w : Backwards(w, v, path, x, k)}
<1>1. 0 \in T
  <2>1. Backwards([k \in 0 .. 0 |-> x], v, path, x, 0)
    BY DEF Backwards
  <2> QED BY <2>1
<1>2. ASSUME NEW k \in 1 .. n, k - 1 \in T PROVE k \in T
  <2>1. PICK w : Backwards(w, v, path, x, k - 1)
    BY <1>2
  <2> DEFINE S(i, u) == Set(Chain(v, path)[Len(path) - i].value, path[Len(path) - i + 1], u)
             h == [i \in 0 .. k |-> IF i = k THEN S(k, w[k - 1]) ELSE w[i]]
  <2>2. \A i \in 0 .. (k - 1) : w[i] = IF i = 0 THEN x ELSE S(i, w[i - 1])
    BY <2>1 DEF Backwards
  <2> HIDE DEF S
  <2>3. h[k] = S(k, w[k - 1]) /\ \A i \in 0 .. (k - 1) : h[i] = w[i]
    OBVIOUS
  <2>4. h = [i \in 0 .. k |-> h[i]]
    OBVIOUS
  <2> HIDE DEF h
  <2>5. h[0] = x
    BY <2>2, <2>3
  <2>6. \A i \in 1 .. k : h[i] = S(i, h[i - 1])
    BY <2>2, <2>3
  <2>7. h = [i \in 0 .. k |-> IF i = 0 THEN x ELSE S(i, h[i - 1])]
    <3>1. \A i \in 0 .. k : h[i] = IF i = 0 THEN x ELSE S(i, h[i - 1])
      BY <2>5, <2>6
    <3> QED BY <2>4, <3>1, Zenon
  <2>8. Backwards(h, v, path, x, k)
    BY <2>7 DEF Backwards, S
  <2> QED BY <2>8
<1> HIDE DEF T
<1>3. \A k \in 0 .. n : k \in T
  BY <1>1, <1>2, UpTo
<1> QED BY <1>3 DEF T

LEMMA Written ==
  ASSUME NEW v, NEW path, NEW x, Len(path) \in Nat
  PROVE  \E l : IsWritten(l, v, path, x) /\ Assign(v, path, x) = l[0]
<1> DEFINE n == Len(path)
           D(w) == w = [k \in 0 .. n |->
                     IF k = 0 THEN x
                     ELSE Set(Chain(v, path)[n - k].value, path[n - k + 1], w[k - 1])]
           u == CHOOSE w : D(w)
           l == [i \in 0 .. n |-> u[n - i]]
<1>1. Assign(v, path, x) = u[n]
  BY DEF Assign
<1>2. D(u)
  <2>1. \E w : Backwards(w, v, path, x, n)
    BY WrittenExists
  <2>2. \E w : D(w)
    BY <2>1 DEF Backwards
  <2> HIDE DEF D
  <2> QED BY <2>2
<1> HIDE DEF u
<1>3. u[0] = x
  BY <1>2
<1>4. ASSUME NEW k \in 1 .. n
      PROVE  u[k] = Set(Chain(v, path)[n - k].value, path[n - k + 1], u[k - 1])
  BY <1>2
<1> HIDE DEF D
<1>5. l[n] = x /\ l[0] = u[n]
  BY <1>3
<1>6. ASSUME NEW i \in 0 .. n - 1
      PROVE  l[i] = Set(Chain(v, path)[i].value, path[i + 1], l[i + 1])
  <2>1. n - i \in 1 .. n /\ n - (n - i) = i /\ n - (n - i) + 1 = i + 1 /\ n - i - 1 = n - (i + 1)
    OBVIOUS
  <2>2. u[n - i] = Set(Chain(v, path)[i].value, path[i + 1], u[n - (i + 1)])
    BY <1>4, <2>1
  <2>3. l[i] = u[n - i] /\ l[i + 1] = u[n - (i + 1)]
    OBVIOUS
  <2> QED BY <2>2, <2>3
<1> HIDE DEF l
<1> QED BY <1>1, <1>5, <1>6 DEF IsWritten

\* What was assigned is read at every level.
LEMMA ReadAssigned ==
  ASSUME NEW v, NEW path, NEW x, Len(path) \in Nat,
         NEW l, IsWritten(l, v, path, x)
  PROVE  \A i \in 0 .. Len(path) : Chain(l[0], path)[i] = [exists |-> TRUE, value |-> l[i]]
<1> DEFINE c == Chain(l[0], path)
           T == {i \in 0 .. Len(path) : c[i] = [exists |-> TRUE, value |-> l[i]]}
<1>1. Follows(c, l[0], path)
  BY ChainSteps
<1> HIDE DEF c
<1>2. 0 \in T
  BY <1>1 DEF Follows
<1>3. ASSUME NEW k \in 1 .. Len(path), k - 1 \in T PROVE k \in T
  <2>1. c[k] = Member([exists |-> TRUE, value |-> l[k - 1]], path[k])
    BY <1>1, <1>3 DEF Follows
  <2>2. l[k - 1] = Set(Chain(v, path)[k - 1].value, path[k], l[k])
    <3>1. k - 1 \in 0 .. Len(path) - 1 /\ (k - 1) + 1 = k
      OBVIOUS
    <3> QED BY <3>1 DEF IsWritten
  <2>3. Contains(l[k - 1], path[k]) = TRUE /\ Get(l[k - 1], path[k]) = l[k]
    BY <2>2, SetGet
  <2>4. Member([exists |-> TRUE, value |-> l[k - 1]], path[k]) = [exists |-> TRUE, value |-> l[k]]
    BY <2>3 DEF Member
  <2> QED BY <2>1, <2>4
<1> HIDE DEF T
<1>4. \A k \in 0 .. Len(path) : k \in T
  BY <1>2, <1>3, UpTo
<1> QED BY <1>4 DEF T, c

LEMMA AssignReads ==
  ASSUME NEW v, NEW path, NEW x, Len(path) \in Nat
  PROVE  Exists(Assign(v, path, x), path) /\ ValueAt(Assign(v, path, x), path) = x
<1>1. PICK l : IsWritten(l, v, path, x) /\ Assign(v, path, x) = l[0]
  BY Written
<1>2. Chain(l[0], path)[Len(path)] = [exists |-> TRUE, value |-> l[Len(path)]]
  BY <1>1, ReadAssigned
<1>3. l[Len(path)] = x
  BY <1>1 DEF IsWritten
<1> QED BY <1>1, <1>2, <1>3 DEF Exists, ValueAt

\* The last member of a chain, by its parent.
LEMMA LastMember ==
  ASSUME NEW S, NEW path \in Seq(S), Len(path) >= 1, NEW v
  PROVE  LET parent == SubSeq(path, 1, Len(path) - 1)
         IN  /\ parent \in Seq(S) /\ Len(parent) = Len(path) - 1 /\ Len(path) \in Nat
             /\ \A i \in 1 .. Len(path) - 1 : parent[i] = path[i]
             /\ Exists(v, path) = (Exists(v, parent) /\ Contains(ValueAt(v, parent), path[Len(path)]))
<1> DEFINE n == Len(path)
           parent == SubSeq(path, 1, n - 1)
<1>1. /\ n \in Nat /\ parent \in Seq(S) /\ Len(parent) = n - 1
      /\ \A i \in 1 .. n - 1 : parent[i] = path[i]
  <2>1. n \in Nat
    OBVIOUS
  <2>2. \A i \in 1 .. n - 1 : path[i] \in S
    OBVIOUS
  <2>3. parent = [i \in 1 .. n - 1 |-> path[i]]
    BY <2>1
  <2> HIDE DEF parent, n
  <2>4. parent \in [1 .. n - 1 -> S] /\ \A i \in 1 .. n - 1 : parent[i] = path[i]
    BY <2>2, <2>3
  <2>5. n - 1 \in Nat
    BY <2>1 DEF n
  <2>6. parent \in Seq(S) /\ Len(parent) = n - 1
    BY <2>4, <2>5
  <2> QED BY <2>1, <2>4, <2>6
<1> HIDE DEF parent
<1>2. Chain(v, path)[n - 1] = Chain(v, parent)[n - 1]
  BY <1>1, ChainPrefix
<1>3. Chain(v, path)[n] = Member(Chain(v, path)[n - 1], path[n])
  <2>1. Follows(Chain(v, path), v, path)
    BY <1>1, ChainSteps
  <2> QED BY <1>1, <2>1 DEF Follows
<1>4. Exists(v, path) = (Chain(v, path)[n - 1].exists /\ Contains(Chain(v, path)[n - 1].value, path[n]))
  BY <1>3 DEF Exists, Member
<1>5. Exists(v, path) = (Exists(v, parent) /\ Contains(ValueAt(v, parent), path[n]))
  BY <1>1, <1>2, <1>4 DEF Exists, ValueAt
<1> QED BY <1>1, <1>5 DEF parent

\* A member that was unset is not there.
LEMMA UnsetReads ==
  ASSUME NEW S, NEW path \in Seq(S), Len(path) >= 1, NEW v
  PROVE  ~Exists(UnsetAt(v, path), path)
<1> DEFINE n == Len(path)
           parent == SubSeq(path, 1, n - 1)
           u == UnsetAt(v, path)
           current == ValueAt(v, parent)
<1>1. n \in Nat /\ parent \in Seq(S) /\ Len(parent) = n - 1
  BY LastMember
<1>2. \A w : Exists(w, path) = (Exists(w, parent) /\ Contains(ValueAt(w, parent), path[n]))
  BY LastMember
<1>3. CASE n = 1
  <2>1. u = Unset(v, path[n])
    BY <1>3 DEF UnsetAt
  <2>2. ValueAt(u, parent) = u
    <3>1. Follows(Chain(u, parent), u, parent)
      BY <1>1, ChainSteps
    <3> QED BY <1>1, <1>3, <3>1 DEF Follows, ValueAt
  <2> QED BY <1>2, <2>1, <2>2, UnsetGone
<1>4. CASE n > 1 /\ Exists(v, parent) /\ Contains(current, path[n])
  <2>1. u = Assign(v, parent, Unset(current, path[n]))
    BY <1>4 DEF UnsetAt
  <2>2. ValueAt(u, parent) = Unset(current, path[n])
    BY <1>1, <2>1, AssignReads
  <2> QED BY <1>2, <2>2, UnsetGone
<1>5. CASE n > 1 /\ ~(Exists(v, parent) /\ Contains(current, path[n]))
  <2>1. u = v
    BY <1>5 DEF UnsetAt
  <2> QED BY <1>2, <1>5, <2>1
<1> QED BY <1>1, <1>3, <1>4, <1>5

-----------------------------------------------------------------------------
(* The paths of the model.                                                  *)

AnyIndex == Indices \cup ValueIndices

LEMMA PathType ==
  ASSUME NEW path \in Paths
  PROVE  path \in Seq(AnyIndex) /\ Len(path) \in Nat /\ Len(path) >= 1 /\ Len(path) <= MaxDepth
<1>1. MaxDepth \in Nat
  BY MembersConstants
<1>2. \A n \in Nat : \A p \in [1 .. n -> Indices] : p \in Seq(AnyIndex) /\ Len(p) = n
  BY DEF AnyIndex
<1>3. CASE path \in PlainPaths
  BY <1>1, <1>2, <1>3 DEF PlainPaths, PathsOf
<1>4. CASE path \notin PlainPaths
  <2>1. PICK index \in ValueIndices, rest \in PathsOf(0 .. MaxDepth - 1) : path = <<index>> \o rest
    BY <1>4 DEF Paths
  <2>2. rest \in Seq(AnyIndex) /\ Len(rest) \in Nat /\ Len(rest) <= MaxDepth - 1
    BY <1>1, <1>2 DEF PathsOf
  <2>3. index \in AnyIndex
    BY DEF AnyIndex
  <2>4. path \in Seq(AnyIndex) /\ Len(path) = 1 + Len(rest)
    BY <2>1, <2>2, <2>3
  <2> QED BY <1>1, <2>2, <2>4
<1> QED BY <1>3, <1>4

-----------------------------------------------------------------------------
(* Values are trees.                                                        *)

Keys == Names \cup Ints

\* A set of values with all their elements.
Closed(T) ==
  \A u \in T :
    \/ u = Null
    \/ \E n \in 0 .. Base - 1 : u = Scalar(n)
    \/ \E K \in SUBSET Keys : IsFiniteSet(K) /\ \E f \in [K -> T] : u = ArrayOf(f)

IsTree(v) == \E T : v \in T /\ Closed(T)

\* The elements of an array.
IsItems(f) ==
  /\ f = [k \in DOMAIN f |-> f[k]] /\ DOMAIN f \in SUBSET Keys /\ IsFiniteSet(DOMAIN f)
  /\ \A k \in DOMAIN f : IsTree(f[k])

LEMMA TreeCases ==
  ASSUME NEW v, IsTree(v)
  PROVE  \/ v = Null
         \/ \E n \in 0 .. Base - 1 : v = Scalar(n)
         \/ \E f : IsItems(f) /\ v = ArrayOf(f)
<1>1. PICK T : v \in T /\ Closed(T)
  BY DEF IsTree
<1>2. ASSUME NEW K \in SUBSET Keys, IsFiniteSet(K), NEW f \in [K -> T]
      PROVE  IsItems(f)
  <2>1. \A k \in K : f[k] \in T
    OBVIOUS
  <2>2. \A k \in K : IsTree(f[k])
    BY <1>1, <2>1 DEF IsTree
  <2> QED BY <1>2, <2>2 DEF IsItems
<1>3. \/ v = Null
      \/ \E n \in 0 .. Base - 1 : v = Scalar(n)
      \/ \E K \in SUBSET Keys : IsFiniteSet(K) /\ \E f \in [K -> T] : v = ArrayOf(f)
  BY <1>1 DEF Closed
<1> QED BY <1>2, <1>3

\* NULL and numbers are trees.
LEMMA LeafTree ==
  /\ IsTree(Null)
  /\ \A n \in 0 .. Base - 1 : IsTree(Scalar(n))
<1>1. Closed({Null})
  BY DEF Closed
<1>2. ASSUME NEW n \in 0 .. Base - 1 PROVE Closed({Scalar(n)})
  BY DEF Closed
<1> QED BY <1>1, <1>2 DEF IsTree

\* And so are arrays of trees.
LEMMA ArrayTree ==
  ASSUME NEW f, IsItems(f)
  PROVE  IsTree(ArrayOf(f))
<1> DEFINE K == DOMAIN f
           W(u) == CHOOSE T : u \in T /\ Closed(T)
           All == UNION {W(f[k]) : k \in K}
           T == All \cup {ArrayOf(f)}
<1>1. ASSUME NEW k \in K PROVE f[k] \in W(f[k]) /\ Closed(W(f[k]))
  <2>1. \E U : f[k] \in U /\ Closed(U)
    BY DEF IsItems, IsTree
  <2> QED BY <2>1
<1> HIDE DEF W
<1>2. f \in [K -> T]
  <2>1. \A k \in K : f[k] \in T
    BY <1>1
  <2> HIDE DEF T
  <2> QED BY <2>1 DEF IsItems
<1>3. ASSUME NEW u \in All
      PROVE  \/ u = Null
             \/ \E n \in 0 .. Base - 1 : u = Scalar(n)
             \/ \E L \in SUBSET Keys : IsFiniteSet(L) /\ \E g \in [L -> T] : u = ArrayOf(g)
  <2>1. PICK k \in K : u \in W(f[k])
    OBVIOUS
  <2>2. \A L : \A g \in [L -> W(f[k])] : g \in [L -> T]
    <3>1. W(f[k]) \subseteq T
      OBVIOUS
    <3> HIDE DEF T
    <3> QED BY <3>1
  <2> HIDE DEF T
  <2>3. \/ u = Null
        \/ \E n \in 0 .. Base - 1 : u = Scalar(n)
        \/ \E L \in SUBSET Keys : IsFiniteSet(L) /\ \E g \in [L -> W(f[k])] : u = ArrayOf(g)
    BY <1>1, <2>1 DEF Closed
  <2> QED BY <2>2, <2>3
<1>4. K \in SUBSET Keys /\ IsFiniteSet(K)
  BY DEF IsItems
<1>5. Closed(T)
  <2>1. \A u \in T : u \in All \/ u = ArrayOf(f)
    OBVIOUS
  <2> HIDE DEF T, All, K
  <2> QED BY <1>2, <1>3, <1>4, <2>1 DEF Closed
<1>6. ArrayOf(f) \in T
  OBVIOUS
<1> HIDE DEF T
<1> QED BY <1>5, <1>6 DEF IsTree

LEMMA EmptyTree == IsTree(Empty)
<1>1. DOMAIN << >> = {} /\ << >> = [k \in DOMAIN << >> |-> << >>[k]]
  OBVIOUS
<1>2. IsItems(<< >>)
  BY <1>1, FS_EmptySet DEF IsItems
<1> QED BY <1>2, ArrayTree DEF Empty

\* The elements of a value that is a tree.
LEMMA ArrayItems ==
  ASSUME NEW v, IsTree(v), IsArray(v)
  PROVE  IsItems(v.items) /\ v = ArrayOf(v.items)
BY TreeCases DEF IsArray, Null, Scalar, ArrayOf

LEMMA IntsType ==
  /\ 0 \in Ints /\ 1 \in Ints
  /\ \A n \in Int : Narrow(n) \in Ints
<1>1. PICK h \in Nat : h > 1 /\ Width = 2 * h /\ Width \div 2 = h
  BY MembersConstants
<1>2. \A n \in Int : (n + h) % Width \in 0 .. Width - 1
  BY <1>1
<1>3. Ints = -h .. h - 1
  BY <1>1 DEF Ints
<1>4. ASSUME NEW n \in Int PROVE Narrow(n) \in Ints
  <2>1. Narrow(n) = ((n + h) % Width) - h
    BY <1>1 DEF Narrow
  <2> DEFINE r == (n + h) % Width
  <2>2. r \in 0 .. Width - 1
    BY <1>2
  <2> HIDE DEF r
  <2>3. r - h \in -h .. h - 1
    BY <1>1, <2>2
  <2> QED BY <1>3, <2>1, <2>3 DEF r
<1>5. 0 \in Ints /\ 1 \in Ints
  BY <1>1, <1>3
<1> QED BY <1>4, <1>5

LEMMA KeyType ==
  ASSUME NEW index \in AnyIndex
  PROVE  Key(index) \in Keys
<1>1. \A n \in Numbers : Narrow(n) \in Ints
  BY MembersConstants, IntsType
<1>2. CASE index \in Indices
  BY <1>1, <1>2 DEF Indices, ByInt, ByName, Key, Keys
<1>3. CASE index \in ValueIndices
  BY <1>1, <1>3 DEF ValueIndices, ByValue, Key, Keys
<1> QED BY <1>2, <1>3 DEF AnyIndex

LEMMA AsArrayItems ==
  ASSUME NEW v, IsTree(v)
  PROVE  IsItems(AsArray(v))
<1>1. CASE IsArray(v)
  <2>1. AsArray(v) = v.items
    <3>1. v # Null
      BY <1>1 DEF IsArray, Null
    <3> QED BY <1>1, <3>1 DEF AsArray
  <2> QED BY <1>1, <2>1, ArrayItems
<1>2. CASE v = Null
  <2>1. AsArray(v) = << >>
    BY <1>2 DEF AsArray, IsArray, Null
  <2>2. DOMAIN << >> = {} /\ << >> = [k \in {} |-> << >>[k]]
    OBVIOUS
  <2> QED BY <2>1, <2>2, FS_EmptySet DEF IsItems
<1>3. CASE ~IsArray(v) /\ v # Null
  <2>1. AsArray(v) = [k \in {0} |-> v]
    BY <1>3 DEF AsArray
  <2>2. IsFiniteSet({0}) /\ 0 \in Keys
    BY FS_Singleton, IntsType DEF Keys
  <2> QED BY <2>1, <2>2 DEF IsItems
<1> QED BY <1>1, <1>2, <1>3

\* Setting and unsetting an element make trees of trees.
LEMMA SetTree ==
  ASSUME NEW v, IsTree(v), NEW index \in AnyIndex, NEW x, IsTree(x)
  PROVE  IsTree(Set(v, index, x))
<1> DEFINE items == AsArray(v)
           f == With(items, Key(index), x)
<1>1. IsItems(items) /\ Key(index) \in Keys
  BY AsArrayItems, KeyType
<1> HIDE DEF items
<1>2. DOMAIN f = DOMAIN items \cup {Key(index)} /\ f = [k \in DOMAIN f |-> f[k]]
      /\ \A k \in DOMAIN f : IsTree(f[k])
  BY <1>1 DEF IsItems, With
<1>3. IsFiniteSet(DOMAIN items \cup {Key(index)})
  BY <1>1, FS_AddElement DEF IsItems
<1>4. IsItems(f)
  BY <1>1, <1>2, <1>3 DEF IsItems
<1> QED BY <1>4, ArrayTree DEF Set, items

LEMMA UnsetTree ==
  ASSUME NEW v, IsTree(v), NEW index
  PROVE  IsTree(Unset(v, index))
<1>1. CASE IsArray(v)
  <2> DEFINE items == v.items
             f == [k \in DOMAIN items \ {Key(index)} |-> items[k]]
  <2>1. IsItems(items)
    BY <1>1, ArrayItems
  <2> HIDE DEF items
  <2>2. IsFiniteSet(DOMAIN f)
    BY <2>1, FS_Subset DEF IsItems
  <2>3. IsItems(f)
    BY <2>1, <2>2 DEF IsItems
  <2> QED BY <1>1, <2>3, ArrayTree DEF Unset, items
<1> QED BY <1>1 DEF Unset

LEMMA GetTree ==
  ASSUME NEW v, IsTree(v), NEW index
  PROVE  IsTree(Get(v, index))
BY ArrayItems, LeafTree DEF Get, Contains, IsItems

LEMMA ChainTree ==
  ASSUME NEW v, IsTree(v), NEW path, Len(path) \in Nat
  PROVE  \A i \in 0 .. Len(path) : IsTree(Chain(v, path)[i].value)
<1> DEFINE c == Chain(v, path)
           T == {i \in 0 .. Len(path) : IsTree(c[i].value)}
<1>1. Follows(c, v, path)
  BY ChainSteps
<1> HIDE DEF c
<1>2. 0 \in T
  BY <1>1 DEF Follows
<1>3. ASSUME NEW k \in 1 .. Len(path), k - 1 \in T PROVE k \in T
  <2>1. c[k] = Member(c[k - 1], path[k]) /\ IsTree(c[k - 1].value)
    BY <1>1, <1>3 DEF Follows
  <2>2. c[k].value = Get(c[k - 1].value, path[k]) \/ c[k].value = Null
    BY <2>1 DEF Member
  <2>3. IsTree(c[k].value)
    BY <2>1, <2>2, GetTree, LeafTree
  <2> QED BY <2>3
<1> HIDE DEF T
<1>4. \A k \in 0 .. Len(path) : k \in T
  BY <1>2, <1>3, UpTo
<1> QED BY <1>4 DEF T, c

LEMMA WrittenTree ==
  ASSUME NEW v, IsTree(v), NEW path \in Seq(AnyIndex), NEW x, IsTree(x),
         NEW l, IsWritten(l, v, path, x)
  PROVE  \A i \in 0 .. Len(path) : IsTree(l[i])
<1> DEFINE n == Len(path)
           T == {k \in 0 .. n : IsTree(l[n - k])}
<1>1. n \in Nat /\ \A i \in 1 .. n : path[i] \in AnyIndex
  OBVIOUS
<1>2. 0 \in T
  BY <1>1 DEF IsWritten
<1>3. ASSUME NEW k \in 1 .. n, k - 1 \in T PROVE k \in T
  <2>1. /\ n - k \in 0 .. n - 1 /\ n - k \in 0 .. n /\ (n - k) + 1 = n - (k - 1)
        /\ (n - k) + 1 \in 1 .. n
    BY <1>1
  <2>2. l[n - k] = Set(Chain(v, path)[n - k].value, path[(n - k) + 1], l[(n - k) + 1])
    BY <2>1 DEF IsWritten
  <2>3. IsTree(l[(n - k) + 1])
    BY <1>3, <2>1
  <2>4. IsTree(Chain(v, path)[n - k].value)
    BY <1>1, <2>1, ChainTree
  <2>5. path[(n - k) + 1] \in AnyIndex
    BY <1>1, <2>1
  <2>6. IsTree(l[n - k])
    BY <2>2, <2>3, <2>4, <2>5, SetTree
  <2> QED BY <2>6
<1> HIDE DEF T
<1>4. \A k \in 0 .. n : k \in T
  BY <1>1, <1>2, <1>3, UpTo
<1>5. ASSUME NEW i \in 0 .. n PROVE IsTree(l[i])
  <2>1. n - i \in 0 .. n /\ n - (n - i) = i
    BY <1>1
  <2>2. n - i \in T
    BY <1>4, <2>1
  <2>3. IsTree(l[n - (n - i)])
    BY <2>2 DEF T
  <2> QED BY <2>1, <2>3
<1> QED BY <1>5

LEMMA AssignTree ==
  ASSUME NEW v, IsTree(v), NEW path \in Seq(AnyIndex), NEW x, IsTree(x)
  PROVE  IsTree(Assign(v, path, x))
<1>1. Len(path) \in Nat
  OBVIOUS
<1>2. PICK l : IsWritten(l, v, path, x) /\ Assign(v, path, x) = l[0]
  BY <1>1, Written
<1> QED BY <1>1, <1>2, WrittenTree

\* Behind one index at least there is an array.
LEMMA AssignArray ==
  ASSUME NEW v, NEW path, Len(path) \in Nat, Len(path) >= 1, NEW x
  PROVE  IsArray(Assign(v, path, x))
<1>1. PICK l : IsWritten(l, v, path, x) /\ Assign(v, path, x) = l[0]
  BY Written
<1>2. l[0] = Set(Chain(v, path)[0].value, path[0 + 1], l[0 + 1])
  BY <1>1 DEF IsWritten
<1> QED BY <1>1, <1>2, SetGet

LEMMA UnsetAtTree ==
  ASSUME NEW v, IsTree(v), NEW path \in Seq(AnyIndex), Len(path) >= 1
  PROVE  /\ IsTree(UnsetAt(v, path))
         /\ IsArray(v) => IsArray(UnsetAt(v, path))
         /\ UnsetAt(v, path) # v => IsArray(v) \/ (Len(path) > 1 /\ Exists(v, path))
<1> DEFINE n == Len(path)
           parent == SubSeq(path, 1, n - 1)
           current == ValueAt(v, parent)
           u == UnsetAt(v, path)
<1>1. n \in Nat /\ parent \in Seq(AnyIndex) /\ Len(parent) = n - 1
  BY LastMember
<1>2. Exists(v, path) = (Exists(v, parent) /\ Contains(current, path[n]))
  BY LastMember
<1> HIDE DEF parent, current
<1>3. IsTree(current)
  <2>1. \A i \in 0 .. Len(parent) : IsTree(Chain(v, parent)[i].value)
    BY <1>1, ChainTree
  <2> QED BY <1>1, <2>1 DEF ValueAt, current
<1>4. CASE n = 1
  <2>1. u = Unset(v, path[n])
    BY <1>4 DEF UnsetAt, parent
  <2>2. IsArray(v) => IsArray(u)
    BY <2>1 DEF Unset, IsArray, ArrayOf
  <2>3. ~IsArray(v) => u = v
    BY <2>1 DEF Unset
  <2> QED BY <2>1, <2>2, <2>3, UnsetTree
<1>5. CASE n > 1 /\ Exists(v, parent) /\ Contains(current, path[n])
  <2>1. u = Assign(v, parent, Unset(current, path[n]))
    BY <1>5 DEF UnsetAt, parent, current
  <2>2. IsTree(u)
    BY <1>1, <1>3, <2>1, UnsetTree, AssignTree
  <2>3. IsArray(u)
    BY <1>1, <1>5, <2>1, AssignArray
  <2> QED BY <1>2, <1>5, <2>2, <2>3
<1>6. CASE n > 1 /\ ~(Exists(v, parent) /\ Contains(current, path[n]))
  <2>1. u = v
    BY <1>6 DEF UnsetAt, parent, current
  <2> QED BY <2>1
<1> QED BY <1>1, <1>4, <1>5, <1>6

\* Arithmetic makes numbers below Base.
LEMMA ArithmeticTree ==
  ASSUME NEW op \in Operators, NEW v, IsTree(v), ~IsArray(v), NEW n \in 0 .. Base - 1
  PROVE  IsTree(Arithmetic(op, v, n)) /\ ~IsArray(Arithmetic(op, v, n))
<1> DEFINE m == IF v = Null THEN 0 ELSE v.n
           r == CASE op = "+" -> m + n
                  [] op = "-" -> m - n
                  [] op = "*" -> m * n
                  [] op = "/" -> IF n = 0 THEN 0 ELSE m \div n
                  [] op = "%" -> IF n = 0 THEN 0 ELSE m % n
<1>1. Base \in Nat /\ Base > 0 /\ n \in Nat
  BY MembersConstants
<1>2. m \in Nat
  BY <1>1, TreeCases DEF IsArray, ArrayOf, Null, Scalar
<1> HIDE DEF m
<1>3. r \in Int
  <2>1. m + n \in Int /\ m - n \in Int /\ m * n \in Int
    BY <1>1, <1>2
  <2>2. n # 0 => m \div n \in Int /\ m % n \in Int
    BY <1>1, <1>2
  <2> QED BY <2>1, <2>2 DEF Operators
<1> HIDE DEF r
<1>4. r % Base \in 0 .. Base - 1
  BY <1>1, <1>3
<1>5. Arithmetic(op, v, n) = Scalar(r % Base)
  BY DEF Arithmetic, m, r
<1> QED BY <1>4, <1>5, LeafTree DEF Scalar, IsArray

-----------------------------------------------------------------------------
(* The places of a value.                                                   *)

\* The member at a place, which is a sequence of keys.
Trail(place) == [i \in DOMAIN place |-> ByName(place[i])]
Reached(v, place) == Chain(v, Trail(place))[Len(place)]

LEMMA TrailType ==
  ASSUME NEW place \in Seq(Keys)
  PROVE  /\ Len(Trail(place)) = Len(place) /\ Len(place) \in Nat
         /\ \A i \in 1 .. Len(place) : /\ Trail(place)[i] = ByName(place[i])
                                      /\ Key(Trail(place)[i]) = place[i]
<1> DEFINE n == Len(place)
           trail == [i \in 1 .. n |-> ByName(place[i])]
<1>1. n \in Nat /\ DOMAIN place = 1 .. n
  OBVIOUS
<1>2. Trail(place) = trail
  BY <1>1 DEF Trail
<1>3. \A k : Key(ByName(k)) = k
  BY DEF Key, ByName
<1> HIDE DEF n
<1>4. Len(trail) = n
  <2>1. trail \in [1 .. n -> {ByName(place[i]) : i \in 1 .. n}]
    OBVIOUS
  <2> HIDE DEF trail
  <2> QED BY <1>1, <2>1
<1> QED BY <1>1, <1>2, <1>3, <1>4 DEF n

\* One key more is one member more.
LEMMA ReachedNext ==
  ASSUME NEW v, NEW place \in Seq(Keys), NEW key \in Keys
  PROVE  Reached(v, Append(place, key)) = Member(Reached(v, place), ByName(key))
<1> DEFINE longer == Append(place, key)
           n == Len(place)
<1>1. /\ longer \in Seq(Keys) /\ n \in Nat /\ Len(longer) = n + 1
      /\ longer[n + 1] = key /\ \A i \in 1 .. n : longer[i] = place[i]
  OBVIOUS
<1> HIDE DEF longer
<1>2. /\ Len(Trail(place)) = n /\ Len(Trail(longer)) = n + 1
      /\ \A i \in 1 .. n : Trail(longer)[i] = Trail(place)[i]
      /\ Trail(longer)[n + 1] = ByName(key)
  BY <1>1, TrailType
<1>3. Chain(v, Trail(longer))[n] = Chain(v, Trail(place))[n]
  BY <1>1, <1>2, ChainPrefix
<1>4. Follows(Chain(v, Trail(longer)), v, Trail(longer))
  BY <1>1, <1>2, ChainSteps
<1>5. Chain(v, Trail(longer))[n + 1] = Member(Chain(v, Trail(longer))[n], ByName(key))
  BY <1>1, <1>2, <1>4 DEF Follows
<1> QED BY <1>1, <1>3, <1>5 DEF Reached, longer

\* Every place but the first is one key behind another.
LEMMA FrontAndLast ==
  ASSUME NEW S, NEW place \in Seq(S), Len(place) >= 1
  PROVE  \E front \in Seq(S), key \in S :
           place = Append(front, key) /\ Len(front) = Len(place) - 1
<1> DEFINE n == Len(place)
           front == [i \in 1 .. n - 1 |-> place[i]]
<1>1. n \in Nat /\ \A i \in 1 .. n : place[i] \in S
  OBVIOUS
<1>2. front \in Seq(S) /\ Len(front) = n - 1
  <2>1. front \in [1 .. n - 1 -> S]
    BY <1>1
  <2>2. n - 1 \in Nat
    BY <1>1
  <2> HIDE DEF front, n
  <2> QED BY <2>1, <2>2
<1>3. place = Append(front, place[n])
  <2>1. \A i \in 1 .. n - 1 : front[i] = place[i]
    OBVIOUS
  <2> HIDE DEF front
  <2> QED BY <1>1, <1>2, <2>1
<1>4. place[n] \in S
  BY <1>1
<1> HIDE DEF front
<1> QED BY <1>2, <1>3, <1>4

PlacesAt(v, d) == {place \in Seq(Keys) : Len(place) = d /\ Reached(v, place).exists}
PartsAt(v, d) == {<<place, Reached(v, place).value>> : place \in PlacesAt(v, d)}

\* The elements of some parts.
Elements(parts) ==
  UNION {{<<Append(part[1], k), part[2].items[k]>> : k \in DOMAIN part[2].items} :
           part \in {part \in parts : IsArray(part[2])}}

\* What is reached in a tree is a tree.
LEMMA ReachedTree ==
  ASSUME NEW v, IsTree(v), NEW place \in Seq(Keys)
  PROVE  IsTree(Reached(v, place).value)
<1>1. Len(Trail(place)) = Len(place) /\ Len(place) \in Nat
  BY TrailType
<1>2. \A i \in 0 .. Len(Trail(place)) : IsTree(Chain(v, Trail(place))[i].value)
  BY <1>1, ChainTree
<1> QED BY <1>1, <1>2 DEF Reached

LEMMA NextParts ==
  ASSUME NEW v, IsTree(v), NEW d \in Nat
  PROVE  PartsAt(v, d + 1) = Elements(PartsAt(v, d))
<1>1. ASSUME NEW place \in PlacesAt(v, d), NEW u, u = Reached(v, place).value, IsArray(u),
             NEW k \in DOMAIN u.items
      PROVE  <<Append(place, k), u.items[k]>> \in PartsAt(v, d + 1)
  <2>1. place \in Seq(Keys) /\ Len(place) = d /\ Reached(v, place).exists
    BY DEF PlacesAt
  <2>2. k \in Keys
    BY <1>1, <2>1, ReachedTree, ArrayItems DEF IsItems
  <2>3. Append(place, k) \in Seq(Keys) /\ Len(Append(place, k)) = d + 1
    BY <2>1, <2>2
  <2>4. Reached(v, Append(place, k)) = Member(Reached(v, place), ByName(k))
    BY <2>1, <2>2, ReachedNext
  <2>5. Contains(u, ByName(k)) /\ Get(u, ByName(k)) = u.items[k]
    BY <1>1 DEF Contains, Get, Key, ByName
  <2>6. Reached(v, Append(place, k)).exists /\ Reached(v, Append(place, k)).value = u.items[k]
    BY <1>1, <2>1, <2>4, <2>5, MemberThere
  <2> QED BY <2>3, <2>6 DEF PartsAt, PlacesAt
<1>2. ASSUME NEW longer \in PlacesAt(v, d + 1)
      PROVE  \E place \in PlacesAt(v, d) :
               LET u == Reached(v, place).value
               IN  IsArray(u) /\ \E k \in DOMAIN u.items :
                     longer = Append(place, k) /\ Reached(v, longer).value = u.items[k]
  <2>1. longer \in Seq(Keys) /\ Len(longer) = d + 1 /\ Reached(v, longer).exists
    BY DEF PlacesAt
  <2>2. PICK place \in Seq(Keys), k \in Keys : longer = Append(place, k) /\ Len(place) = d
    BY <2>1, FrontAndLast
  <2> DEFINE u == Reached(v, place).value
  <2>3. Reached(v, longer) = Member(Reached(v, place), ByName(k))
    BY <2>2, ReachedNext
  <2>4. Reached(v, place).exists /\ Contains(u, ByName(k)) /\ Reached(v, longer).value = Get(u, ByName(k))
    BY <2>1, <2>3, MemberThere
  <2>5. IsArray(u) /\ k \in DOMAIN u.items /\ Reached(v, longer).value = u.items[k]
    BY <2>4 DEF Contains, Get, Key, ByName
  <2>6. place \in PlacesAt(v, d)
    BY <2>2, <2>4 DEF PlacesAt
  <2> QED BY <2>2, <2>5, <2>6
<1>3. ASSUME NEW part \in PartsAt(v, d + 1) PROVE part \in Elements(PartsAt(v, d))
  <2>1. PICK longer \in PlacesAt(v, d + 1) : part = <<longer, Reached(v, longer).value>>
    BY DEF PartsAt
  <2>2. PICK place \in PlacesAt(v, d) :
          /\ IsArray(Reached(v, place).value)
          /\ \E k \in DOMAIN Reached(v, place).value.items :
               longer = Append(place, k) /\ Reached(v, longer).value = Reached(v, place).value.items[k]
    BY <1>2
  <2> DEFINE above == <<place, Reached(v, place).value>>
  <2>3. above \in PartsAt(v, d) /\ above[1] = place /\ above[2] = Reached(v, place).value
    BY DEF PartsAt
  <2> HIDE DEF above
  <2>4. above \in {q \in PartsAt(v, d) : IsArray(q[2])}
    BY <2>2, <2>3
  <2>5. part \in {<<Append(above[1], i), above[2].items[i]>> : i \in DOMAIN above[2].items}
    BY <2>1, <2>2, <2>3
  <2> QED BY <2>4, <2>5 DEF Elements
<1>4. ASSUME NEW part \in Elements(PartsAt(v, d)) PROVE part \in PartsAt(v, d + 1)
  <2>1. PICK above \in PartsAt(v, d) :
          IsArray(above[2]) /\ \E k \in DOMAIN above[2].items :
            part = <<Append(above[1], k), above[2].items[k]>>
    BY DEF Elements
  <2>2. PICK place \in PlacesAt(v, d) : above = <<place, Reached(v, place).value>>
    BY DEF PartsAt
  <2>3. above[1] = place /\ above[2] = Reached(v, place).value
    BY <2>2
  <2> QED BY <1>1, <2>1, <2>3
<1> QED BY <1>3, <1>4

\* A value is at its own place.
LEMMA FirstPart ==
  ASSUME NEW v
  PROVE  /\ Reached(v, << >>) = [exists |-> TRUE, value |-> v]
         /\ PartsAt(v, 0) = {<< << >>, v >>}
<1>1. << >> \in Seq(Keys) /\ Len(<< >>) = 0
  OBVIOUS
<1>2. Len(Trail(<< >>)) = 0
  BY <1>1, TrailType
<1>3. Reached(v, << >>) = [exists |-> TRUE, value |-> v]
  <2>1. Follows(Chain(v, Trail(<< >>)), v, Trail(<< >>))
    BY <1>2, ChainSteps
  <2> QED BY <1>1, <2>1 DEF Follows, Reached
<1>4. \A place \in Seq(Keys) : Len(place) = 0 <=> place = << >>
  OBVIOUS
<1>5. PlacesAt(v, 0) = {<< >>}
  <2>1. Reached(v, << >>).exists
    BY <1>3
  <2> QED BY <1>1, <1>4, <2>1 DEF PlacesAt
<1> QED BY <1>3, <1>5 DEF PartsAt

LEMMA PartsReached ==
  ASSUME NEW v, IsTree(v)
  PROVE  Parts(v) = UNION {PartsAt(v, d) : d \in 0 .. MaxDepth}
<1> DEFINE D(m) == m = [d \in 0 .. MaxDepth |->
                          IF d = 0 THEN {<< << >>, v >>}
                          ELSE UNION {{<<Append(part[1], k), part[2].items[k]>> : k \in DOMAIN part[2].items} :
                                        part \in {part \in m[d - 1] : IsArray(part[2])}}]
           c == CHOOSE m : D(m)
           g == [d \in 0 .. MaxDepth |-> PartsAt(v, d)]
           T == {d \in 0 .. MaxDepth : c[d] = PartsAt(v, d)}
<1>1. Parts(v) = UNION {c[d] : d \in 0 .. MaxDepth}
  BY DEF Parts
<1>2. ASSUME NEW m
      PROVE  D(m) <=> m = [d \in 0 .. MaxDepth |-> IF d = 0 THEN {<< << >>, v >>} ELSE Elements(m[d - 1])]
  BY DEF Elements
<1> HIDE DEF D
<1>3. MaxDepth \in Nat
  BY MembersConstants
<1>4. ASSUME NEW d \in 1 .. MaxDepth PROVE PartsAt(v, d) = Elements(PartsAt(v, d - 1))
  <2>1. d - 1 \in Nat /\ (d - 1) + 1 = d
    OBVIOUS
  <2>2. PartsAt(v, (d - 1) + 1) = Elements(PartsAt(v, d - 1))
    BY <2>1, NextParts
  <2> QED BY <2>1, <2>2
<1>5. D(g)
  <2>1. \A d \in 0 .. MaxDepth :
          PartsAt(v, d) = IF d = 0 THEN {<< << >>, v >>} ELSE Elements(g[d - 1])
    BY <1>3, <1>4, FirstPart
  <2> QED BY <1>2, <2>1
<1>6. D(c)
  BY <1>5
<1> HIDE DEF c
<1>7. c[0] = {<< << >>, v >>} /\ \A d \in 1 .. MaxDepth : c[d] = Elements(c[d - 1])
  BY <1>2, <1>3, <1>6
<1>8. 0 \in T
  <2>1. PartsAt(v, 0) = {<< << >>, v >>}
    BY FirstPart
  <2>2. c[0] = PartsAt(v, 0)
    BY <1>7, <2>1, Zenon
  <2>3. 0 \in 0 .. MaxDepth
    BY <1>3
  <2> QED BY <2>2, <2>3
<1>9. ASSUME NEW d \in 1 .. MaxDepth, d - 1 \in T PROVE d \in T
  BY <1>4, <1>7, <1>9
<1> HIDE DEF T
<1>10. \A d \in 0 .. MaxDepth : d \in T
  BY <1>3, <1>8, <1>9, UpTo
<1> QED BY <1>1, <1>10 DEF T

\* What is somewhere in a tree is a tree.
LEMMA PartTree ==
  ASSUME NEW v, IsTree(v), NEW part \in Parts(v)
  PROVE  IsTree(part[2])
<1>1. PICK d \in 0 .. MaxDepth : part \in PartsAt(v, d)
  BY PartsReached
<1>2. PICK place \in PlacesAt(v, d) : part = <<place, Reached(v, place).value>>
  BY <1>1 DEF PartsAt
<1>3. place \in Seq(Keys)
  BY DEF PlacesAt
<1> QED BY <1>2, <1>3, ReachedTree

-----------------------------------------------------------------------------
(* A value as a tree of places.                                             *)

PlacesOf(v) == {place \in Seq(Keys) : Len(place) <= MaxDepth /\ Reached(v, place).exists}

LEMMA PartsPlaces ==
  ASSUME NEW v, IsTree(v)
  PROVE  Parts(v) = {<<place, Reached(v, place).value>> : place \in PlacesOf(v)}
<1>1. MaxDepth \in Nat /\ \A place \in Seq(Keys) : Len(place) \in Nat
  BY MembersConstants
<1>2. \A place : place \in PlacesOf(v) <=> \E d \in 0 .. MaxDepth : place \in PlacesAt(v, d)
  BY <1>1 DEF PlacesOf, PlacesAt
<1> QED BY <1>2, PartsReached DEF PartsAt

LEMMA TreeReached ==
  ASSUME NEW v, IsTree(v)
  PROVE  TreeOf(v) = [place \in PlacesOf(v) |-> Here(Reached(v, place).value)]
<1> DEFINE parts == Parts(v)
           at(place) == CHOOSE part \in parts : part[1] = place
<1>1. parts = {<<place, Reached(v, place).value>> : place \in PlacesOf(v)}
  BY PartsPlaces
<1>2. TreeOf(v) = [place \in {part[1] : part \in parts} |-> Here(at(place)[2])]
  BY DEF TreeOf
<1> HIDE DEF parts
<1>3. {part[1] : part \in parts} = PlacesOf(v)
  <2>1. ASSUME NEW place \in PlacesOf(v) PROVE \E part \in parts : place = part[1]
    <3>1. <<place, Reached(v, place).value>> \in parts
      BY <1>1
    <3>2. <<place, Reached(v, place).value>>[1] = place
      OBVIOUS
    <3> QED BY <3>1, <3>2
  <2>2. \A part \in parts : part[1] \in PlacesOf(v)
    BY <1>1
  <2> QED BY <2>1, <2>2
<1>4. ASSUME NEW place \in PlacesOf(v) PROVE at(place)[2] = Reached(v, place).value
  <2>1. \E part \in parts : part[1] = place
    BY <1>3
  <2>2. at(place) \in parts /\ at(place)[1] = place
    BY <2>1
  <2> HIDE DEF at
  <2>3. PICK other \in PlacesOf(v) : at(place) = <<other, Reached(v, other).value>>
    BY <1>1, <2>2
  <2> QED BY <2>2, <2>3
<1> QED BY <1>2, <1>3, <1>4

\* Two values have the same tree if they have the same places and the same there.
LEMMA SameTree ==
  ASSUME NEW v, IsTree(v), NEW D, NEW f,
         \A place : place \in PlacesOf(v) <=> place \in D,
         \A place \in PlacesOf(v) : Here(Reached(v, place).value) = f[place],
         f = [place \in D |-> f[place]]
  PROVE  TreeOf(v) = f
<1>1. PlacesOf(v) = D
  OBVIOUS
<1>2. f = [place \in PlacesOf(v) |-> f[place]]
  BY <1>1
<1>3. [place \in PlacesOf(v) |-> Here(Reached(v, place).value)] = [place \in PlacesOf(v) |-> f[place]]
  OBVIOUS
<1>4. TreeOf(v) = [place \in PlacesOf(v) |-> Here(Reached(v, place).value)]
  BY TreeReached
<1> QED BY <1>2, <1>3, <1>4

\* What does not exist is NULL, and has no members.
LEMMA ChainGone ==
  ASSUME NEW v, NEW path, Len(path) \in Nat, NEW i \in 0 .. Len(path)
  PROVE  /\ ~Chain(v, path)[i].exists => Chain(v, path)[i].value = Null
         /\ ~Chain(v, path)[i].exists => \A j \in i .. Len(path) : ~Chain(v, path)[j].exists
         /\ ~IsArray(Chain(v, path)[i].value) => \A j \in i + 1 .. Len(path) : ~Chain(v, path)[j].exists
<1> DEFINE c == Chain(v, path)
           n == Len(path)
<1>1. c[0] = [exists |-> TRUE, value |-> v] /\ \A k \in 1 .. n : c[k] = Member(c[k - 1], path[k])
  BY ChainSteps DEF Follows
<1> HIDE DEF c
<1>2. ASSUME NEW k \in 1 .. n
      PROVE  /\ c[k].exists <=> c[k - 1].exists /\ Contains(c[k - 1].value, path[k])
             /\ c[k - 1].exists => c[k].value = Get(c[k - 1].value, path[k])
             /\ ~c[k - 1].exists => c[k].value = Null
  <2>1. c[k] = Member(c[k - 1], path[k])
    BY <1>1
  <2>2. ~c[k - 1].exists => c[k].value = Null
    BY <2>1 DEF Member
  <2> QED BY <2>1, <2>2, MemberThere
<1>3. ~c[i].exists => c[i].value = Null
  <2>1. CASE i = 0
    BY <1>1, <2>1
  <2>2. CASE i # 0
    <3>1. i \in 1 .. n
      BY <2>2
    <3> QED BY <1>2, <3>1 DEF Get
  <2> QED BY <2>1, <2>2
<1>4. ASSUME NEW first \in 0 .. n, ~c[first].exists
      PROVE  \A j \in first .. n : ~c[j].exists
  <2> DEFINE m == n - first
             T == {k \in 0 .. m : ~c[first + k].exists}
  <2>1. m \in Nat /\ 0 \in T
    BY <1>4
  <2>2. ASSUME NEW k \in 1 .. m, k - 1 \in T PROVE k \in T
    <3>1. first + k \in 1 .. n /\ (first + k) - 1 = first + (k - 1) /\ k \in 0 .. m
      OBVIOUS
    <3>2. ~c[(first + k) - 1].exists
      BY <2>2, <3>1
    <3> QED BY <1>2, <3>1, <3>2
  <2> HIDE DEF T, m
  <2>3. \A k \in 0 .. m : k \in T
    BY <2>1, <2>2, UpTo
  <2>4. ASSUME NEW j \in first .. n PROVE ~c[j].exists
    <3>1. j - first \in 0 .. m /\ first + (j - first) = j
      BY DEF m
    <3>2. j - first \in T
      BY <2>3, <3>1
    <3> QED BY <3>1, <3>2 DEF T
  <2> QED BY <2>4
<1>5. ASSUME ~IsArray(c[i].value), NEW j \in i + 1 .. n
      PROVE  ~c[j].exists
  <2>1. i + 1 \in 1 .. n /\ (i + 1) - 1 = i /\ i + 1 \in 0 .. n /\ j \in i + 1 .. n
    OBVIOUS
  <2>2. ~c[i + 1].exists
    BY <1>2, <1>5, <2>1 DEF Contains
  <2> QED BY <1>4, <2>1, <2>2
<1>6. ~c[i].exists => \A j \in i .. n : ~c[j].exists
  BY <1>4
<1> QED BY <1>3, <1>5, <1>6 DEF c

\* Two places part where their keys differ first.
Splits(q, p, i) ==
  /\ i \in Nat /\ i < Len(p) /\ i < Len(q)
  /\ \A j \in 1 .. i : q[j] = p[j]
  /\ q[i + 1] # p[i + 1]

\* What a prefix is, key by key.
LEMMA PrefixKeys ==
  ASSUME NEW S, NEW p \in Seq(S), NEW q \in Seq(S)
  PROVE  /\ Len(p) \in Nat /\ Len(q) \in Nat
         /\ IsPrefix(p, q) <=> Len(p) <= Len(q) /\ \A j \in 1 .. Len(p) : q[j] = p[j]
         /\ q \in Above(p) <=> Len(q) < Len(p) /\ \A j \in 1 .. Len(q) : q[j] = p[j]
<1> DEFINE m == Len(p)
           n == Len(q)
<1>1. /\ m \in Nat /\ n \in Nat /\ p = [j \in 1 .. m |-> p[j]] /\ q = [j \in 1 .. n |-> q[j]]
      /\ \A i \in 1 .. m : p[i] \in S
  OBVIOUS
<1>2. ASSUME NEW i \in 0 .. m PROVE SubSeq(p, 1, i) = [j \in 1 .. i |-> p[j]]
  OBVIOUS
<1>3. ASSUME NEW i \in 0 .. n PROVE SubSeq(q, 1, i) = [j \in 1 .. i |-> q[j]]
  OBVIOUS
<1>4. m <= n => (SubSeq(q, 1, m) = p <=> \A j \in 1 .. m : q[j] = p[j])
  <2> SUFFICES ASSUME m <= n PROVE SubSeq(q, 1, m) = p <=> \A j \in 1 .. m : q[j] = p[j]
    OBVIOUS
  <2> HIDE DEF m, n
  <2>1. SubSeq(q, 1, m) = [j \in 1 .. m |-> q[j]]
    BY <1>1, <1>3
  <2> QED BY <1>1, <2>1
<1>5. ASSUME q \in Above(p) PROVE n < m /\ \A j \in 1 .. n : q[j] = p[j]
  <2>1. PICK i \in 0 .. m - 1 : q = SubSeq(p, 1, i)
    BY <1>5 DEF Above
  <2>2. q = [j \in 1 .. i |-> p[j]]
    BY <1>1, <1>2, <2>1
  <2>3. n = i
    BY <1>1, <2>1
  <2> QED BY <1>1, <2>2, <2>3
<1>6. ASSUME n < m, \A j \in 1 .. n : q[j] = p[j] PROVE q \in Above(p)
  <2>1. n \in 0 .. m - 1 /\ n \in 0 .. m
    BY <1>1, <1>6
  <2>2. SubSeq(p, 1, n) = [j \in 1 .. n |-> p[j]]
    BY <1>2, <2>1
  <2> HIDE DEF m, n
  <2>3. q = SubSeq(p, 1, n)
    BY <1>1, <1>6, <2>2
  <2> QED BY <2>1, <2>3 DEF Above, m
<1> QED BY <1>1, <1>4, <1>5, <1>6 DEF IsPrefix

\* A place is at another or below it, above it, or parts from it.
LEMMA Parting ==
  ASSUME NEW S, NEW p \in Seq(S), NEW q \in Seq(S)
  PROVE  \/ IsPrefix(p, q) /\ q \notin Above(p)
         \/ q \in Above(p) /\ ~IsPrefix(p, q)
         \/ ~IsPrefix(p, q) /\ q \notin Above(p) /\ \E i : Splits(q, p, i)
<1> DEFINE T == {i \in Nat : i < Len(p) /\ i < Len(q) /\ q[i + 1] # p[i + 1]}
<1>1. Len(p) \in Nat /\ Len(q) \in Nat
  OBVIOUS
<1>2. CASE T = {}
  <2>1. ASSUME NEW j \in 1 .. Len(p), j \in 1 .. Len(q) PROVE q[j] = p[j]
    <3>1. j - 1 \in Nat /\ j - 1 < Len(p) /\ j - 1 < Len(q) /\ (j - 1) + 1 = j
      BY <2>1
    <3> QED BY <1>2, <3>1
  <2>2. CASE Len(p) <= Len(q)
    <3>1. \A j \in 1 .. Len(p) : q[j] = p[j]
      BY <1>1, <2>1, <2>2
    <3> QED BY <1>1, <2>2, <3>1, PrefixKeys
  <2>3. CASE Len(q) < Len(p)
    <3>1. \A j \in 1 .. Len(q) : q[j] = p[j]
      BY <1>1, <2>1, <2>3
    <3> QED BY <1>1, <2>3, <3>1, PrefixKeys
  <2> QED BY <1>1, <2>2, <2>3
<1>3. CASE T # {}
  <2>1. PICK i \in T : \A j \in T : i <= j
    <3>1. T \in SUBSET Nat
      OBVIOUS
    <3> QED BY <1>3, <3>1, Least, Zenon
  <2>2. i \in Nat /\ i < Len(p) /\ i < Len(q) /\ q[i + 1] # p[i + 1]
    OBVIOUS
  <2>3. ASSUME NEW j \in 1 .. i PROVE q[j] = p[j]
    <3>1. j - 1 \in Nat /\ j - 1 < i /\ (j - 1) + 1 = j
      BY <2>2
    <3>2. j - 1 \notin T
      BY <2>1, <2>2, <3>1
    <3> QED BY <1>1, <2>2, <3>1, <3>2
  <2>4. Splits(q, p, i)
    BY <2>2, <2>3 DEF Splits
  <2>5. i + 1 \in 1 .. Len(p) /\ i + 1 \in 1 .. Len(q)
    BY <1>1, <2>2
  <2> HIDE DEF T
  <2>6. ~IsPrefix(p, q) /\ q \notin Above(p)
    BY <2>2, <2>5, PrefixKeys
  <2> QED BY <2>4, <2>6
<1> QED BY <1>2, <1>3

-----------------------------------------------------------------------------
(* What a change through a member does to each place.                       *)

LEMMA PlaceType ==
  ASSUME NEW path \in Seq(AnyIndex)
  PROVE  /\ PlaceOf(path) \in Seq(Keys) /\ Len(PlaceOf(path)) = Len(path) /\ Len(path) \in Nat
         /\ \A i \in 1 .. Len(path) : PlaceOf(path)[i] = Key(path[i])
<1> DEFINE n == Len(path)
           place == [i \in 1 .. n |-> Key(path[i])]
<1>1. n \in Nat /\ PlaceOf(path) = place /\ \A i \in 1 .. n : path[i] \in AnyIndex
  BY DEF PlaceOf
<1>2. \A i \in 1 .. n : Key(path[i]) \in Keys
  BY <1>1, KeyType
<1> HIDE DEF n
<1>3. place \in [1 .. n -> Keys] /\ \A i \in 1 .. n : place[i] = Key(path[i])
  BY <1>2
<1> HIDE DEF place
<1>4. place \in Seq(Keys) /\ Len(place) = n
  BY <1>1, <1>3
<1> QED BY <1>1, <1>3, <1>4 DEF n

\* Behind the same keys is the same member.
LEMMA SameMember ==
  ASSUME NEW v, NEW path \in Seq(AnyIndex), NEW q \in Seq(Keys),
         NEW i \in Nat, i <= Len(path), i <= Len(q), \A j \in 1 .. i : q[j] = PlaceOf(path)[j]
  PROVE  Chain(v, Trail(q))[i] = Chain(v, path)[i]
<1>1. /\ Len(path) \in Nat /\ Len(q) \in Nat /\ Len(Trail(q)) = Len(q)
      /\ \A j \in 1 .. Len(path) : PlaceOf(path)[j] = Key(path[j])
      /\ \A j \in 1 .. Len(q) : Key(Trail(q)[j]) = q[j]
  BY PlaceType, TrailType
<1>2. Chain(v, Trail(q))[0] = Chain(v, path)[0]
  <2>1. Follows(Chain(v, Trail(q)), v, Trail(q)) /\ Follows(Chain(v, path), v, path)
    BY <1>1, ChainSteps
  <2> QED BY <2>1 DEF Follows
<1>3. \A j \in 0 + 1 .. i : Key(Trail(q)[j]) = Key(path[j])
  BY <1>1
<1>4. /\ Len(Trail(q)) \in Nat /\ Len(path) \in Nat /\ i <= Len(Trail(q)) /\ i <= Len(path)
      /\ 0 \in Nat /\ 0 <= i /\ i \in 0 .. i
  BY <1>1
<1>5. \A j \in 0 .. i : Chain(v, Trail(q))[j] = Chain(v, path)[j]
  BY <1>2, <1>3, <1>4, SameKeys
<1> QED BY <1>4, <1>5

\* The elements beside the one that is set.
LEMMA SetOther ==
  ASSUME NEW w, NEW index, NEW x, NEW other, Key(other) # Key(index)
  PROVE  /\ Contains(Set(w, index, x), other) <=> Key(other) \in DOMAIN AsArray(w)
         /\ Get(Set(w, index, x), other) =
              IF Key(other) \in DOMAIN AsArray(w) THEN AsArray(w)[Key(other)] ELSE Null
<1> DEFINE items == AsArray(w)
           f == With(items, Key(index), x)
           k == Key(other)
<1>1. /\ k \in DOMAIN f <=> k \in DOMAIN items
      /\ k \in DOMAIN items => f[k] = items[k]
  BY DEF With
<1>2. Set(w, index, x).items = f /\ IsArray(Set(w, index, x))
  BY DEF Set, ArrayOf, IsArray
<1> HIDE DEF items, f
<1> QED BY <1>1, <1>2 DEF Contains, Get, items

\* A member by what its parent has.
LEMMA MemberSame ==
  ASSUME NEW p, NEW r, NEW index, p.exists, r.exists,
         Contains(p.value, index) <=> Contains(r.value, index),
         Get(p.value, index) = Get(r.value, index)
  PROVE  Member(p, index) = Member(r, index)
<1>1. PICK t \in BOOLEAN : t <=> Contains(p.value, index)
  OBVIOUS
<1>2. Member(p, index) = [exists |-> t, value |-> Get(p.value, index)]
  BY <1>1, Zenon DEF Member
<1>3. Member(r, index) = [exists |-> t, value |-> Get(r.value, index)]
  BY <1>1, Zenon DEF Member
<1> QED BY <1>2, <1>3

\* After an assignment: at the place what was assigned, above it arrays.
LEMMA AssignedThere ==
  ASSUME NEW v, NEW path \in Seq(AnyIndex), NEW x, NEW q \in Seq(Keys)
  PROVE  LET u == Assign(v, path, x)
             place == PlaceOf(path)
         IN  /\ IsPrefix(place, q) => Chain(u, Trail(q))[Len(path)] = [exists |-> TRUE, value |-> x]
             /\ q \in Above(place) => Reached(u, q).exists /\ IsArray(Reached(u, q).value)
<1> DEFINE u == Assign(v, path, x)
           place == PlaceOf(path)
           n == Len(path)
<1>1. /\ n \in Nat /\ place \in Seq(Keys) /\ Len(place) = n /\ Len(q) \in Nat
  BY PlaceType
<1>2. PICK l : IsWritten(l, v, path, x) /\ u = l[0]
  BY <1>1, Written
<1>3. \A i \in 0 .. n : Chain(u, path)[i] = [exists |-> TRUE, value |-> l[i]]
  BY <1>1, <1>2, ReadAssigned
<1>4. l[n] = x /\ \A i \in 0 .. n - 1 : IsArray(l[i])
  BY <1>2, SetGet DEF IsWritten
<1> HIDE DEF u, place
<1>5. ASSUME IsPrefix(place, q) PROVE Chain(u, Trail(q))[n] = [exists |-> TRUE, value |-> x]
  <2>1. n <= Len(q) /\ \A j \in 1 .. n : q[j] = place[j]
    BY <1>1, <1>5, PrefixKeys
  <2>2. Chain(u, Trail(q))[n] = Chain(u, path)[n]
    BY <1>1, <2>1, SameMember DEF place
  <2> QED BY <1>1, <1>3, <1>4, <2>2
<1>6. ASSUME q \in Above(place) PROVE Reached(u, q).exists /\ IsArray(Reached(u, q).value)
  <2>1. Len(q) < n /\ \A j \in 1 .. Len(q) : q[j] = place[j]
    BY <1>1, <1>6, PrefixKeys
  <2>2. Reached(u, q) = Chain(u, path)[Len(q)]
    BY <1>1, <2>1, SameMember DEF place, Reached
  <2>3. Reached(u, q) = [exists |-> TRUE, value |-> l[Len(q)]]
    BY <1>1, <1>3, <2>1, <2>2
  <2> QED BY <1>1, <1>4, <2>1, <2>3
<1> QED BY <1>5, <1>6 DEF u, place

\* Beside the place nothing changes, except that a scalar that had to give way
\* is element 0.
LEMMA AssignedBeside ==
  ASSUME NEW v, NEW path \in Seq(AnyIndex), NEW x, NEW q \in Seq(Keys),
         NEW i, Splits(q, PlaceOf(path), i)
  PROVE  LET u == Assign(v, path, x)
             w == Chain(v, Trail(q))[i].value
         IN  /\ IsArray(w) => Reached(u, q) = Reached(v, q)
             /\ ~IsArray(w) => /\ ~Reached(v, q).exists
                               /\ Reached(u, q).exists <=> w # Null /\ q[i + 1] = 0 /\ Len(q) = i + 1
                               /\ Reached(u, q).exists => Reached(u, q).value = w
<1> DEFINE u == Assign(v, path, x)
           place == PlaceOf(path)
           n == Len(path)
           m == Len(q)
           cu == Chain(u, Trail(q))
           cv == Chain(v, Trail(q))
           w == cv[i].value
           index == Trail(q)[i + 1]
<1>1. /\ n \in Nat /\ place \in Seq(Keys) /\ Len(place) = n /\ m \in Nat /\ Len(Trail(q)) = m
      /\ \A j \in 1 .. n : place[j] = Key(path[j])
      /\ \A j \in 1 .. m : Key(Trail(q)[j]) = q[j]
  BY PlaceType, TrailType
<1>2. PICK l : IsWritten(l, v, path, x) /\ u = l[0]
  BY <1>1, Written
<1>3. /\ i \in Nat /\ i < n /\ i < m /\ \A j \in 1 .. i : q[j] = place[j]
      /\ i \in 0 .. n - 1 /\ i \in 0 .. n /\ i \in 0 .. m /\ i + 1 \in 1 .. n /\ i + 1 \in 1 .. m
      /\ i + 1 \in 0 .. m /\ m \in i + 1 .. m
  BY <1>1 DEF Splits
<1>4. q[i + 1] # place[i + 1]
  BY DEF Splits
<1>5. Key(index) = q[i + 1] /\ Key(index) # Key(path[i + 1])
  BY <1>1, <1>3, <1>4
<1> HIDE DEF u, cu, cv, index
<1>6. \A y : Chain(y, Trail(q))[i] = Chain(y, path)[i]
  <2>1. /\ i \in Nat /\ i <= Len(path) /\ i <= Len(q)
        /\ \A j \in 1 .. i : q[j] = PlaceOf(path)[j]
    BY <1>1, <1>3
  <2> HIDE DEF n, m, place
  <2> QED BY <2>1, SameMember
<1>7. cu[i] = [exists |-> TRUE, value |-> l[i]]
  <2>1. \A k \in 0 .. n : Chain(l[0], path)[k] = [exists |-> TRUE, value |-> l[k]]
    BY <1>1, <1>2, ReadAssigned
  <2> QED BY <1>2, <1>3, <1>6, <2>1 DEF cu
<1>8. l[i] = Set(w, path[i + 1], l[i + 1])
  <2>1. l[i] = Set(Chain(v, path)[i].value, path[i + 1], l[i + 1])
    BY <1>2, <1>3 DEF IsWritten
  <2> QED BY <1>6, <2>1 DEF cv
<1>9. cu[i + 1] = Member(cu[i], index) /\ cv[i + 1] = Member(cv[i], index)
  <2>1. Follows(cu, u, Trail(q)) /\ Follows(cv, v, Trail(q))
    BY <1>1, ChainSteps DEF cu, cv
  <2>2. (i + 1) - 1 = i
    BY <1>3
  <2> QED BY <1>1, <1>3, <2>1, <2>2 DEF Follows, index
<1>10. /\ Contains(l[i], index) <=> q[i + 1] \in DOMAIN AsArray(w)
      /\ Get(l[i], index) = IF q[i + 1] \in DOMAIN AsArray(w) THEN AsArray(w)[q[i + 1]] ELSE Null
  BY <1>5, <1>8, SetOther
<1>11. ASSUME IsArray(w) PROVE Reached(u, q) = Reached(v, q)
  <2>1. cv[i].exists
    <3>1. w # Null
      BY <1>11 DEF IsArray, Null
    <3> QED BY <1>1, <1>3, <3>1, ChainGone DEF cv
  <2>2. AsArray(w) = w.items
    <3>1. w # Null
      BY <1>11 DEF IsArray, Null
    <3> QED BY <1>11, <3>1 DEF AsArray
  <2>3. Contains(w, index) <=> q[i + 1] \in DOMAIN w.items
    BY <1>5, <1>11 DEF Contains
  <2>4. Get(w, index) = IF q[i + 1] \in DOMAIN w.items THEN w.items[q[i + 1]] ELSE Null
    BY <1>5, <2>3 DEF Get
  <2>5. cu[i].exists /\ cu[i].value = l[i]
    BY <1>7
  <2>6. Member(cu[i], index) = Member(cv[i], index)
    BY <1>10, <2>1, <2>2, <2>3, <2>4, <2>5, MemberSame
  <2>7. cu[i + 1] = cv[i + 1]
    BY <1>9, <2>6
  <2>8. \A j \in i + 1 .. m : cu[j] = cv[j]
    BY <1>1, <1>3, <2>7, SameKeys DEF cu, cv
  <2> QED BY <1>3, <2>8 DEF Reached, cu, cv
<1>12. ASSUME ~IsArray(w)
       PROVE  /\ ~Reached(v, q).exists
              /\ Reached(u, q).exists <=> w # Null /\ q[i + 1] = 0 /\ m = i + 1
              /\ Reached(u, q).exists => Reached(u, q).value = w
  <2>1. ~cv[m].exists
    BY <1>1, <1>3, <1>12, ChainGone DEF cv
  <2>2. AsArray(w) = IF w = Null THEN << >> ELSE [k \in {0} |-> w]
    BY <1>12 DEF AsArray, Null, IsArray
  <2>3. q[i + 1] \in DOMAIN AsArray(w) <=> w # Null /\ q[i + 1] = 0
    BY <2>2
  <2>4. w # Null /\ q[i + 1] = 0 => AsArray(w)[q[i + 1]] = w
    BY <2>2
  <2>5. cu[i + 1].exists <=> w # Null /\ q[i + 1] = 0
    BY <1>7, <1>9, <1>10, <2>3, MemberThere
  <2>6. cu[i + 1].value = IF w # Null /\ q[i + 1] = 0 THEN w ELSE Null
    BY <1>7, <1>9, <1>10, <2>3, <2>4, MemberThere
  <2>7. ~IsArray(cu[i + 1].value)
    BY <1>12, <2>6 DEF IsArray, Null
  <2>8. m # i + 1 => ~cu[m].exists
    <3>1. m # i + 1 => m \in (i + 1) + 1 .. m
      BY <1>1, <1>3
    <3> QED BY <1>1, <1>3, <2>7, <3>1, ChainGone DEF cu
  <2>9. Reached(u, q) = cu[m] /\ Reached(v, q) = cv[m]
    BY DEF Reached, cu, cv
  <2> QED BY <2>1, <2>5, <2>6, <2>8, <2>9
<1> QED BY <1>11, <1>12 DEF u, cv

\* What has no elements has no members.
LEMMA NoElements ==
  ASSUME NEW v, NEW path, Len(path) \in Nat, NEW i \in 0 .. Len(path),
         \A index : ~Contains(Chain(v, path)[i].value, index)
  PROVE  \A j \in i + 1 .. Len(path) : ~Chain(v, path)[j].exists
<1> DEFINE c == Chain(v, path)
           n == Len(path)
<1>1. \A k \in 1 .. n : c[k] = Member(c[k - 1], path[k])
  <2>1. Follows(c, v, path)
    BY ChainSteps
  <2> QED BY <2>1 DEF Follows
<1> HIDE DEF c
<1>2. ASSUME NEW j \in i + 1 .. n PROVE ~c[j].exists
  <2>1. i + 1 \in 1 .. n /\ (i + 1) - 1 = i /\ i + 1 \in 0 .. n
    OBVIOUS
  <2>2. c[i + 1] = Member(c[i], path[i + 1])
    BY <1>1, <2>1
  <2>3. ~c[i + 1].exists
    BY <2>2, MemberThere DEF c
  <2> QED BY <2>1, <2>3, ChainGone DEF c
<1> QED BY <1>2 DEF c

LEMMA LeafEmpty ==
  ASSUME NEW x \in Leaves
  PROVE  \A index : ~Contains(x, index)
<1>1. ~IsArray(x) \/ x = Empty
  BY DEF Leaves, IsArray, Null, Scalar
<1>2. DOMAIN << >> = {}
  OBVIOUS
<1> QED BY <1>1, <1>2 DEF Contains, Empty, ArrayOf

\* A leaf is a tree of one place.
LEMMA LeafPlaces ==
  ASSUME NEW x \in Leaves
  PROVE  TreeOf(x) = [place \in {<< >>} |-> Here(x)]
<1> DEFINE f == [place \in {<< >>} |-> Here(x)]
<1>1. IsTree(x)
  BY LeafTree, EmptyTree DEF Leaves
<1>2. Reached(x, << >>) = [exists |-> TRUE, value |-> x]
  BY FirstPart
<1>3. ASSUME NEW q \in Seq(Keys), q # << >> PROVE ~Reached(x, q).exists
  <2>1. Len(q) \in Nat /\ Len(q) >= 1 /\ Len(Trail(q)) = Len(q)
    BY <1>3, TrailType
  <2>2. Chain(x, Trail(q))[0].value = x
    <3>1. Follows(Chain(x, Trail(q)), x, Trail(q))
      BY <2>1, ChainSteps
    <3> QED BY <3>1 DEF Follows
  <2>3. 0 \in 0 .. Len(q) /\ Len(q) \in 0 + 1 .. Len(q)
    BY <2>1
  <2>4. \A j \in 0 + 1 .. Len(q) : ~Chain(x, Trail(q))[j].exists
    BY <2>1, <2>2, <2>3, LeafEmpty, NoElements
  <2> QED BY <2>3, <2>4 DEF Reached
<1>4. MaxDepth \in Nat /\ << >> \in Seq(Keys) /\ Len(<< >>) = 0
  BY MembersConstants
<1>5. \A place : place \in PlacesOf(x) <=> place \in {<< >>}
  <2>1. << >> \in PlacesOf(x)
    <3>1. Reached(x, << >>).exists
      BY <1>2
    <3> QED BY <1>4, <3>1 DEF PlacesOf
  <2>2. \A place \in PlacesOf(x) : place = << >>
    BY <1>3 DEF PlacesOf
  <2> QED BY <2>1, <2>2
<1>6. \A place \in PlacesOf(x) : Here(Reached(x, place).value) = f[place]
  <2>1. f[<< >>] = Here(x) /\ Reached(x, << >>).value = x
    BY <1>2
  <2> QED BY <1>5, <2>1
<1>7. f = [place \in {<< >>} |-> f[place]]
  OBVIOUS
<1> HIDE DEF f
<1>8. TreeOf(x) = f
  BY <1>1, <1>5, <1>6, <1>7, SameTree
<1> QED BY <1>8 DEF f

\* Below the place there is nothing after assigning a leaf.
LEMMA AssignedLeaf ==
  ASSUME NEW v, NEW path \in Seq(AnyIndex), NEW x \in Leaves, NEW q \in Seq(Keys),
         IsPrefix(PlaceOf(path), q)
  PROVE  LET u == Assign(v, path, x)
         IN  /\ Reached(u, q).exists <=> q = PlaceOf(path)
             /\ q = PlaceOf(path) => Reached(u, q).value = x
<1> DEFINE u == Assign(v, path, x)
           place == PlaceOf(path)
           n == Len(path)
<1>1. /\ n \in Nat /\ place \in Seq(Keys) /\ Len(place) = n /\ Len(q) \in Nat /\ Len(Trail(q)) = Len(q)
  BY PlaceType, TrailType
<1>2. Chain(u, Trail(q))[n] = [exists |-> TRUE, value |-> x]
  BY AssignedThere
<1> HIDE DEF u
<1>3. n <= Len(q) /\ \A j \in 1 .. n : q[j] = place[j]
  BY <1>1, PrefixKeys
<1>4. CASE Len(q) = n
  <2>1. q = place
    <3>1. q = [j \in 1 .. n |-> q[j]] /\ place = [j \in 1 .. n |-> place[j]]
      BY <1>1, <1>4
    <3> QED BY <1>3, <3>1
  <2>2. Reached(u, q) = [exists |-> TRUE, value |-> x]
    BY <1>2, <1>4 DEF Reached
  <2> QED BY <2>1, <2>2 DEF u
<1>5. CASE Len(q) # n
  <2>1. n \in 0 .. Len(q) /\ Len(q) \in n + 1 .. Len(q)
    BY <1>1, <1>3, <1>5
  <2>2. Chain(u, Trail(q))[n].value = x
    BY <1>2
  <2>3. ~Chain(u, Trail(q))[Len(q)].exists
    BY <1>1, <2>1, <2>2, LeafEmpty, NoElements
  <2> QED BY <1>1, <1>5, <2>3 DEF u, Reached
<1> QED BY <1>4, <1>5

\* What gives way is what is no array and not NULL where the place parts.
Yields(v, q, i) ==
  LET w == Chain(v, Trail(q))[i].value
  IN  ~IsArray(w) /\ w # Null /\ q[i + 1] = 0 /\ Len(q) = i + 1

LEMMA MovedThere ==
  ASSUME NEW v, IsTree(v), NEW path \in Seq(AnyIndex), Len(path) <= MaxDepth,
         NEW q \in Seq(Keys), NEW i, Splits(q, PlaceOf(path), i)
  PROVE  LET place == PlaceOf(path)
             tree == TreeOf(v)
             above == SubSeq(q, 1, Len(q) - 1)
         IN  /\ q \in {Append(p, 0) : p \in GivesWay(tree, place)} <=> Yields(v, q, i)
             /\ Yields(v, q, i) => tree[above] = Chain(v, Trail(q))[i].value
<1> DEFINE place == PlaceOf(path)
           tree == TreeOf(v)
           n == Len(path)
           w == Chain(v, Trail(q))[i].value
<1>1. /\ n \in Nat /\ place \in Seq(Keys) /\ Len(place) = n /\ Len(q) \in Nat /\ MaxDepth \in Nat
      /\ Len(Trail(q)) = Len(q)
  BY PlaceType, TrailType, MembersConstants
<1>2. /\ i \in Nat /\ i < n /\ i < Len(q) /\ \A j \in 1 .. i : q[j] = place[j]
      /\ q[i + 1] # place[i + 1] /\ i \in 0 .. Len(q)
  BY <1>1 DEF Splits
<1>3. tree = [p \in PlacesOf(v) |-> Here(Reached(v, p).value)]
  BY TreeReached
<1> HIDE DEF tree
<1>4. ASSUME NEW p \in Seq(Keys), Len(p) = i, \A j \in 1 .. i : p[j] = place[j]
      PROVE  Reached(v, p) = Chain(v, Trail(q))[i]
  <2>1. /\ i \in Nat /\ i <= Len(path) /\ i <= Len(q) /\ i <= Len(p)
        /\ \A j \in 1 .. i : p[j] = PlaceOf(path)[j]
        /\ \A j \in 1 .. i : q[j] = PlaceOf(path)[j]
    BY <1>1, <1>2, <1>4
  <2> HIDE DEF n, place, w
  <2>2. Chain(v, Trail(p))[i] = Chain(v, path)[i]
    BY <2>1, SameMember
  <2>3. Chain(v, Trail(q))[i] = Chain(v, path)[i]
    BY <2>1, SameMember
  <2> QED BY <1>4, <2>2, <2>3 DEF Reached
<1> HIDE DEF place
<1>5. ASSUME ~IsArray(w), w # Null
      PROVE  Here(w) = w /\ w \notin {ArrayHere, NullHere}
  BY <1>5 DEF IsArray, Here, Null, ArrayHere, NullHere
<1>6. ASSUME IsArray(w) \/ w = Null PROVE Here(w) \in {ArrayHere, NullHere}
  BY <1>6 DEF IsArray, Here, Null, NullHere
<1>7. ASSUME Yields(v, q, i)
      PROVE  /\ q \in {Append(p, 0) : p \in GivesWay(tree, place)}
             /\ tree[SubSeq(q, 1, Len(q) - 1)] = w
  <2> DEFINE p == SubSeq(q, 1, i)
  <2>1. ~IsArray(w) /\ w # Null /\ q[i + 1] = 0 /\ Len(q) = i + 1
    BY <1>7 DEF Yields
  <2>2. p \in Seq(Keys) /\ Len(p) = i /\ \A j \in 1 .. i : p[j] = q[j]
    BY <1>1, <1>2
  <2>3. q = Append(p, 0)
    BY <1>1, <1>2, <2>1
  <2>4. p = SubSeq(q, 1, Len(q) - 1)
    <3>1. Len(q) - 1 = i
      BY <1>2, <2>1
    <3> QED BY <3>1
  <2> HIDE DEF p
  <2>5. p \in Above(place)
    BY <1>1, <1>2, <2>2, PrefixKeys
  <2>6. Reached(v, p) = Chain(v, Trail(q))[i]
    BY <1>2, <1>4, <2>2
  <2>7. Reached(v, p).exists
    BY <1>1, <1>2, <2>1, <2>6, ChainGone
  <2>8. p \in PlacesOf(v)
    BY <1>1, <1>2, <2>2, <2>7 DEF PlacesOf
  <2>9. tree[p] = w /\ tree[p] \notin {ArrayHere, NullHere} /\ p \in DOMAIN tree
    BY <1>3, <1>5, <2>1, <2>6, <2>8
  <2>10. p \in GivesWay(tree, place)
    BY <2>5, <2>9 DEF GivesWay
  <2> QED BY <2>3, <2>4, <2>9, <2>10
<1>8. ASSUME NEW p \in GivesWay(tree, place), q = Append(p, 0)
      PROVE  Yields(v, q, i)
  <2>1. p \in Above(place) /\ p \in PlacesOf(v) /\ tree[p] \notin {ArrayHere, NullHere}
    BY <1>3 DEF GivesWay
  <2>2. p \in Seq(Keys) /\ Len(p) \in Nat
    BY <2>1 DEF PlacesOf
  <2>3. Len(p) < n /\ \A j \in 1 .. Len(p) : p[j] = place[j]
    BY <1>1, <2>1, <2>2, PrefixKeys
  <2>4. Len(q) = Len(p) + 1 /\ q[Len(p) + 1] = 0 /\ \A j \in 1 .. Len(p) : q[j] = p[j]
    BY <1>8, <2>2
  <2>5. Len(p) = i
    <3>1. CASE i < Len(p)
      <4>1. i + 1 \in 1 .. Len(p)
        BY <1>2, <2>2, <3>1
      <4> QED BY <1>2, <2>3, <2>4, <4>1
    <3> QED BY <1>2, <2>2, <2>4, <3>1
  <2>6. Reached(v, p) = Chain(v, Trail(q))[i]
    BY <1>4, <2>2, <2>3, <2>5
  <2>7. tree[p] = Here(w)
    BY <1>3, <2>1, <2>6
  <2>8. ~IsArray(w) /\ w # Null
    BY <1>6, <2>1, <2>7
  <2> QED BY <2>4, <2>5, <2>8 DEF Yields
<1>9. ASSUME q \in {Append(p, 0) : p \in GivesWay(tree, place)} PROVE Yields(v, q, i)
  <2>1. PICK p \in GivesWay(tree, place) : q = Append(p, 0)
    BY <1>9
  <2> QED BY <1>8, <2>1
<1> QED BY <1>7, <1>9 DEF place, tree

\* Assigning a leaf changes the tree at that one place.
LEMMA AssignOnePlace ==
  ASSUME NEW v, IsTree(v), NEW path \in Seq(AnyIndex), Len(path) >= 1, Len(path) <= MaxDepth,
         NEW x \in Leaves
  PROVE  TreeOf(Assign(v, path, x)) = Put(TreeOf(v), PlaceOf(path), TreeOf(x))
<1> DEFINE u == Assign(v, path, x)
           place == PlaceOf(path)
           tree == TreeOf(v)
           new == TreeOf(x)
           n == Len(path)
           kept == DOMAIN Without(tree, place)
           moved == {Append(p, 0) : p \in GivesWay(tree, place)}
           around == {p \in kept \cup Above(place) \cup moved : ~IsPrefix(place, p)}
           below == {place \o p : p \in DOMAIN new}
           D == around \cup below
           value(p) == CASE p \in below -> new[SubSeq(p, Len(place) + 1, Len(p))]
                         [] p \in Above(place) -> ArrayHere
                         [] p \in kept \ Above(place) -> tree[p]
                         [] OTHER -> tree[SubSeq(p, 1, Len(p) - 1)]
           f == [p \in D |-> value(p)]
<1>1. Put(tree, place, new) = f
  BY DEF Put
<1>2. /\ n \in Nat /\ place \in Seq(Keys) /\ Len(place) = n /\ MaxDepth \in Nat
      /\ \A q \in Seq(Keys) : Len(q) \in Nat
      /\ n >= 1 /\ n <= MaxDepth
  BY PlaceType, MembersConstants
<1>3. tree = [p \in PlacesOf(v) |-> Here(Reached(v, p).value)]
  BY TreeReached
<1>4. new = [p \in {<< >>} |-> Here(x)]
  BY LeafPlaces
<1>5. IsTree(u)
  BY AssignTree, LeafTree, EmptyTree DEF Leaves
<1>6. below = {place} /\ new[SubSeq(place, Len(place) + 1, Len(place))] = Here(x)
  <2>1. place \o << >> = place /\ SubSeq(place, Len(place) + 1, Len(place)) = << >>
    BY <1>2
  <2>2. DOMAIN new = {<< >>} /\ new[<< >>] = Here(x)
    BY <1>4
  <2>3. \A q : q \in below <=> q = place
    <3>1. \A q : q \in below <=> \E p \in DOMAIN new : q = place \o p
      OBVIOUS
    <3> HIDE DEF below
    <3> QED BY <2>1, <2>2, <3>1
  <2> HIDE DEF new, place, below
  <2>4. below = {place}
    BY <2>3
  <2> QED BY <2>1, <2>2, <2>4
<1>7. \A q : q \in kept <=> q \in PlacesOf(v) /\ ~IsPrefix(place, q)
  BY <1>3 DEF Without
<1>8. ASSUME NEW q \in Seq(Keys), NEW i, Splits(q, place, i)
      PROVE  /\ q \in moved <=> Yields(v, q, i)
             /\ Yields(v, q, i) => tree[SubSeq(q, 1, Len(q) - 1)] = Chain(v, Trail(q))[i].value
  BY <1>8, MovedThere
<1>9. ASSUME NEW q \in Seq(Keys)
      PROVE  /\ IsPrefix(place, q) =>
                  (Reached(u, q).exists <=> q = place) /\ (q = place => Reached(u, q).value = x)
             /\ q \in Above(place) => Reached(u, q).exists /\ IsArray(Reached(u, q).value)
  <2>1. IsPrefix(place, q) =>
          (Reached(u, q).exists <=> q = place) /\ (q = place => Reached(u, q).value = x)
    BY AssignedLeaf
  <2>2. q \in Above(place) => Reached(u, q).exists /\ IsArray(Reached(u, q).value)
    BY AssignedThere
  <2> QED BY <2>1, <2>2
<1>10. ASSUME NEW q \in Seq(Keys), NEW i, Splits(q, place, i)
       PROVE  LET w == Chain(v, Trail(q))[i].value
              IN  /\ IsArray(w) => Reached(u, q) = Reached(v, q)
                  /\ ~IsArray(w) => /\ ~Reached(v, q).exists
                                    /\ Reached(u, q).exists <=> w # Null /\ q[i + 1] = 0 /\ Len(q) = i + 1
                                    /\ Reached(u, q).exists => Reached(u, q).value = w
  BY <1>10, AssignedBeside
<1>11. \A q \in moved : q \in Seq(Keys) /\ Len(q) <= n
  <2>1. ASSUME NEW p \in GivesWay(tree, place)
        PROVE  Append(p, 0) \in Seq(Keys) /\ Len(Append(p, 0)) <= n
    <3>1. p \in Above(place) /\ p \in PlacesOf(v)
      BY <1>3 DEF GivesWay
    <3>2. p \in Seq(Keys) /\ 0 \in Keys
      BY <3>1, IntsType DEF PlacesOf, Keys
    <3>3. Len(p) \in Nat /\ Len(p) < n
      BY <1>2, <3>1, <3>2, PrefixKeys
    <3> QED BY <1>2, <3>2, <3>3
  <2> QED BY <2>1
<1>12. \A q \in Above(place) : q \in Seq(Keys) /\ Len(q) <= n
  <2>1. ASSUME NEW i \in 0 .. n - 1
        PROVE  SubSeq(place, 1, i) \in Seq(Keys) /\ Len(SubSeq(place, 1, i)) <= n
    BY <1>2
  <2> QED BY <1>2, <2>1 DEF Above
<1>13. IsPrefix(place, place)
  BY <1>2, PrefixKeys
<1> HIDE DEF u, place, tree, new, kept, moved, below
<1>14. \A q \in D : q \in Seq(Keys) /\ Len(q) <= MaxDepth
  BY <1>2, <1>6, <1>7, <1>11, <1>12 DEF PlacesOf
<1>15. ASSUME NEW q \in Seq(Keys), Len(q) <= MaxDepth
       PROVE  /\ Reached(u, q).exists <=> q \in D
              /\ Reached(u, q).exists => Here(Reached(u, q).value) = value(q)
  <2>1. CASE IsPrefix(place, q) /\ q \notin Above(place)
    <3>1. q \in D <=> q = place
      BY <1>6, <2>1
    <3>2. Reached(u, q).exists <=> q = place
      BY <1>9, <2>1
    <3>3. ASSUME q = place PROVE Here(Reached(u, q).value) = value(q)
      <4>1. value(q) = new[SubSeq(place, Len(place) + 1, Len(place))]
        BY <1>6, <1>7, <2>1, <3>3
      <4> QED BY <1>6, <1>9, <2>1, <3>3, <4>1
    <3> QED BY <3>1, <3>2, <3>3
  <2>2. CASE q \in Above(place) /\ ~IsPrefix(place, q)
    <3>1. q \notin below
      BY <1>6, <1>13, <2>2
    <3>2. value(q) = ArrayHere
      BY <2>2, <3>1
    <3> QED BY <1>9, <2>2, <3>2 DEF Here
  <2>3. CASE ~IsPrefix(place, q) /\ q \notin Above(place) /\ \E i : Splits(q, place, i)
    <3>1. PICK i : Splits(q, place, i)
      BY <2>3
    <3> DEFINE w == Chain(v, Trail(q))[i].value
    <3>2. q \notin below
      BY <1>6, <1>13, <2>3
    <3>3. q \in D <=> q \in kept \/ q \in moved
      BY <2>3, <3>2
    <3>4. q \in kept <=> Reached(v, q).exists
      BY <1>7, <1>15, <2>3 DEF PlacesOf
    <3>5. q \in kept => value(q) = tree[q]
      BY <2>3, <3>2
    <3>6. q \notin kept => value(q) = tree[SubSeq(q, 1, Len(q) - 1)]
      BY <2>3, <3>2
    <3>7. /\ q \in moved <=> Yields(v, q, i)
          /\ Yields(v, q, i) => tree[SubSeq(q, 1, Len(q) - 1)] = w
      BY <1>8, <3>1
    <3> HIDE DEF D, value
    <3>8. CASE IsArray(w)
      <4>1. Reached(u, q) = Reached(v, q)
        BY <1>10, <3>1, <3>8
      <4>2. q \notin moved
        BY <3>7, <3>8 DEF Yields
      <4>3. q \in kept => tree[q] = Here(Reached(v, q).value)
        BY <1>3, <1>7
      <4> QED BY <3>3, <3>4, <3>5, <4>1, <4>2, <4>3
    <3>9. CASE ~IsArray(w)
      <4>1. /\ ~Reached(v, q).exists
            /\ Reached(u, q).exists <=> w # Null /\ q[i + 1] = 0 /\ Len(q) = i + 1
            /\ Reached(u, q).exists => Reached(u, q).value = w
        BY <1>10, <3>1, <3>9
      <4>2. Reached(u, q).exists <=> Yields(v, q, i)
        BY <3>9, <4>1 DEF Yields
      <4>3. Here(w) = w
        BY <3>9 DEF Here
      <4> QED BY <3>3, <3>4, <3>6, <3>7, <4>1, <4>2, <4>3
    <3> QED BY <3>8, <3>9
  <2> QED BY <1>2, <2>1, <2>2, <2>3, Parting
<1>16. f = [p \in D |-> f[p]] /\ \A p \in D : f[p] = value(p)
  OBVIOUS
<1> HIDE DEF D, value, f
<1>17. \A p : p \in PlacesOf(u) <=> p \in D
  BY <1>14, <1>15 DEF PlacesOf
<1>18. \A p \in PlacesOf(u) : Here(Reached(u, p).value) = f[p]
  BY <1>14, <1>15, <1>16, <1>17
<1>19. TreeOf(u) = f
  BY <1>5, <1>16, <1>17, <1>18, SameTree
<1> QED BY <1>1, <1>19 DEF u, place, tree, new

\* Unsetting a member that exists assigns its parent without it.
LEMMA UnsetByAssign ==
  ASSUME NEW v, IsTree(v), NEW path \in Seq(AnyIndex), Len(path) >= 1
  PROVE  LET parent == SubSeq(path, 1, Len(path) - 1)
             index == path[Len(path)]
         IN  UnsetAt(v, path) = IF Exists(v, path) THEN Assign(v, parent, Unset(ValueAt(v, parent), index))
                                                  ELSE v
<1> DEFINE n == Len(path)
           parent == SubSeq(path, 1, n - 1)
           index == path[n]
           current == ValueAt(v, parent)
<1>1. n \in Nat /\ n >= 1 /\ parent \in Seq(AnyIndex) /\ Len(parent) = n - 1
  BY LastMember
<1>2. Exists(v, path) <=> Exists(v, parent) /\ Contains(current, index)
  BY LastMember
<1>3. CASE n > 1
  <2>1. CASE Exists(v, parent) /\ Contains(current, index)
    <3>1. UnsetAt(v, path) = Assign(v, parent, Unset(current, index))
      BY <1>3, <2>1 DEF UnsetAt
    <3> QED BY <1>2, <2>1, <3>1
  <2>2. CASE ~(Exists(v, parent) /\ Contains(current, index))
    <3>1. UnsetAt(v, path) = v
      BY <1>3, <2>2 DEF UnsetAt
    <3> QED BY <1>2, <2>2, <3>1
  <2> QED BY <2>1, <2>2
<1>4. CASE n = 1
  <2>1. UnsetAt(v, path) = Unset(v, index)
    BY <1>4 DEF UnsetAt
  <2>2. Exists(v, parent) /\ current = v
    <3>1. Follows(Chain(v, parent), v, parent)
      BY <1>1, ChainSteps
    <3> QED BY <1>1, <1>4, <3>1 DEF Follows, Exists, ValueAt
  <2>3. \A y : Assign(v, parent, y) = y
    <3> TAKE y
    <3>1. Len(parent) = 0
      BY <1>1, <1>4
    <3> HIDE DEF parent
    <3>2. PICK l : IsWritten(l, v, parent, y) /\ Assign(v, parent, y) = l[0]
      BY <3>1, Written
    <3> QED BY <3>1, <3>2 DEF IsWritten
  <2>4. ~Contains(v, index) => Unset(v, index) = v
    <3>1. CASE IsArray(v)
      <4> DEFINE items == v.items
      <4>1. items = [k \in DOMAIN items |-> items[k]] /\ v = ArrayOf(items)
        BY <3>1, ArrayItems DEF IsItems
      <4>2. ~Contains(v, index) => DOMAIN items \ {Key(index)} = DOMAIN items
        BY <3>1 DEF Contains
      <4>3. Unset(v, index) = ArrayOf([k \in DOMAIN items \ {Key(index)} |-> items[k]])
        BY <3>1 DEF Unset
      <4> HIDE DEF items
      <4> QED BY <4>1, <4>2, <4>3
    <3>2. CASE ~IsArray(v)
      BY <3>2 DEF Unset
    <3> QED BY <3>1, <3>2
  <2>5. CASE Contains(v, index)
    BY <1>2, <2>1, <2>2, <2>3, <2>5
  <2>6. CASE ~Contains(v, index)
    BY <1>2, <2>1, <2>2, <2>4, <2>6
  <2> QED BY <2>5, <2>6
<1> QED BY <1>1, <1>3, <1>4

\* The elements beside the one that is unset.
LEMMA UnsetOther ==
  ASSUME NEW w, IsArray(w), NEW index, NEW other, Key(other) # Key(index)
  PROVE  /\ Contains(Unset(w, index), other) <=> Contains(w, other)
         /\ Get(Unset(w, index), other) = Get(w, other)
<1> DEFINE f == [k \in DOMAIN w.items \ {Key(index)} |-> w.items[k]]
           k == Key(other)
<1>1. /\ k \in DOMAIN f <=> k \in DOMAIN w.items
      /\ k \in DOMAIN w.items => f[k] = w.items[k]
  OBVIOUS
<1>2. IsArray(Unset(w, index)) /\ Unset(w, index).items = f
  BY DEF Unset, ArrayOf, IsArray
<1> HIDE DEF f
<1> QED BY <1>1, <1>2 DEF Contains, Get

\* After unsetting there is nothing at the place and below it, and elsewhere what
\* was there.
LEMMA UnsetThere ==
  ASSUME NEW v, IsTree(v), NEW path \in Seq(AnyIndex), Len(path) >= 1, NEW q \in Seq(Keys)
  PROVE  LET u == UnsetAt(v, path)
             place == PlaceOf(path)
         IN  /\ IsPrefix(place, q) => ~Reached(u, q).exists
             /\ ~IsPrefix(place, q) => /\ Reached(u, q).exists <=> Reached(v, q).exists
                                       /\ Reached(v, q).exists =>
                                            Here(Reached(u, q).value) = Here(Reached(v, q).value)
<1> DEFINE n == Len(path)
           m == n - 1
           parent == SubSeq(path, 1, m)
           index == path[n]
           current == ValueAt(v, parent)
           u == UnsetAt(v, path)
           y == Unset(current, index)
           place == PlaceOf(path)
           above == PlaceOf(parent)
           cu == Chain(u, Trail(q))
           cv == Chain(v, Trail(q))
<1> SUFFICES /\ IsPrefix(place, q) => ~Reached(u, q).exists
             /\ ~IsPrefix(place, q) => /\ Reached(u, q).exists <=> Reached(v, q).exists
                                       /\ Reached(v, q).exists =>
                                            Here(Reached(u, q).value) = Here(Reached(v, q).value)
  OBVIOUS
<1>1. /\ n \in Nat /\ n >= 1 /\ m \in Nat /\ parent \in Seq(AnyIndex) /\ Len(parent) = m
      /\ \A j \in 1 .. m : parent[j] = path[j]
  BY LastMember
<1>2. Exists(v, path) <=> Exists(v, parent) /\ Contains(current, index)
  BY LastMember
<1>3. u = IF Exists(v, path) THEN Assign(v, parent, y) ELSE v
  BY UnsetByAssign
<1>4. /\ place \in Seq(Keys) /\ Len(place) = n
      /\ \A j \in 1 .. n : place[j] = Key(path[j])
  BY PlaceType
<1> HIDE DEF m, parent
<1>5. /\ above \in Seq(Keys) /\ Len(above) = m
      /\ \A j \in 1 .. m : above[j] = Key(parent[j])
  BY <1>1, PlaceType
<1>6. Len(q) \in Nat /\ Len(Trail(q)) = Len(q) /\ \A j \in 1 .. Len(q) : Key(Trail(q)[j]) = q[j]
  BY TrailType
<1>7. /\ m < n /\ n = m + 1 /\ n \in 1 .. n /\ place[n] = Key(index)
      /\ \A j \in 1 .. m : place[j] = above[j]
  BY <1>1, <1>4, <1>5 DEF m
<1>8. Reached(u, q) = cu[Len(q)] /\ Reached(v, q) = cv[Len(q)]
  BY DEF Reached
<1>9. IsPrefix(place, q) <=> n <= Len(q) /\ q[n] = Key(index) /\ \A j \in 1 .. m : q[j] = above[j]
  <2>1. IsPrefix(place, q) <=> n <= Len(q) /\ \A j \in 1 .. n : q[j] = place[j]
    BY <1>4, PrefixKeys
  <2>2. \A j \in 1 .. n : j = n \/ j \in 1 .. m
    BY <1>1, <1>7
  <2>3. \A j \in 1 .. m : j \in 1 .. n
    BY <1>1, <1>7
  <2> HIDE DEF place, above, index, n
  <2> QED BY <1>7, <2>1, <2>2, <2>3
<1>10. CASE ~Exists(v, path)
  <2>1. u = v
    BY <1>3, <1>10
  <2>2. ASSUME IsPrefix(place, q) PROVE ~Reached(v, q).exists
    <3>1. n <= Len(q) /\ \A j \in 1 .. n : q[j] = place[j]
      BY <1>4, <2>2, PrefixKeys
    <3>2. cv[n] = Chain(v, path)[n]
      BY <1>1, <3>1, SameMember
    <3>3. ~cv[n].exists
      BY <1>10, <3>2 DEF Exists
    <3>4. n \in 0 .. Len(q) /\ Len(q) \in n .. Len(q)
      BY <1>1, <1>6, <3>1
    <3> QED BY <1>6, <1>8, <3>3, <3>4, ChainGone
  <2> QED BY <2>1, <2>2
<1>11. CASE Exists(v, path)
  <2> DEFINE c == Chain(v, parent)
  <2>1. u = Assign(v, parent, y)
    BY <1>3, <1>11
  <2>2. c[m].exists /\ c[m].value = current /\ Contains(current, index)
    BY <1>1, <1>2, <1>11 DEF Exists, ValueAt
  <2>3. IsArray(current) /\ IsArray(y)
    <3>1. IsArray(current)
      BY <2>2 DEF Contains
    <3> QED BY <3>1 DEF Unset, ArrayOf, IsArray
  <2>4. ASSUME NEW i \in Nat, i < m PROVE c[i].exists /\ IsArray(c[i].value)
    <3>1. i \in 0 .. m /\ m \in i .. m /\ m \in i + 1 .. m
      BY <1>1, <2>4
    <3> QED BY <1>1, <2>2, <3>1, ChainGone
  <2>5. ASSUME NEW i \in Nat, i <= m, i <= Len(q), \A j \in 1 .. i : q[j] = above[j]
        PROVE  cv[i] = c[i]
    BY <1>1, <2>5, SameMember
  <2>6. ASSUME NEW i, Splits(q, above, i), IsArray(cv[i].value) PROVE Reached(u, q) = Reached(v, q)
    BY <1>1, <2>1, <2>6, AssignedBeside
  <2>7. /\ IsPrefix(above, q) => cu[m] = [exists |-> TRUE, value |-> y]
        /\ q \in Above(above) => Reached(u, q).exists /\ IsArray(Reached(u, q).value)
    BY <1>1, <2>1, AssignedThere
  <2>8. Follows(cu, u, Trail(q)) /\ Follows(cv, v, Trail(q))
    BY <1>6, ChainSteps
  <2> HIDE DEF cu, cv, c, u, y, current, above, place, index, n
  <2>9. CASE IsPrefix(above, q)
    <3>1. m <= Len(q) /\ \A j \in 1 .. m : q[j] = above[j]
      BY <1>5, <2>9, PrefixKeys
    <3>2. cu[m] = [exists |-> TRUE, value |-> y]
      BY <2>7, <2>9
    <3>3. cv[m].exists /\ cv[m].value = current
      BY <1>1, <2>2, <2>5, <3>1
    <3>4. CASE Len(q) = m
      <4>1. ~IsPrefix(place, q)
        BY <1>1, <1>7, <1>9, <3>4
      <4>2. Reached(u, q).exists /\ Reached(u, q).value = y
        BY <1>8, <3>2, <3>4
      <4>3. Reached(v, q).exists /\ Reached(v, q).value = current
        BY <1>8, <3>3, <3>4
      <4> QED BY <2>3, <4>1, <4>2, <4>3 DEF Here
    <3>5. CASE Len(q) # m
      <4> DEFINE t == Trail(q)[n]
      <4>1. /\ n \in 1 .. Len(q) /\ n \in 0 .. Len(q) /\ n <= Len(q) /\ n - 1 = m
            /\ Len(q) \in n .. Len(q) /\ n \in Nat
        BY <1>1, <1>6, <1>7, <3>1, <3>5
      <4>2. cu[n] = Member(cu[m], t) /\ cv[n] = Member(cv[m], t)
        BY <1>6, <2>8, <4>1 DEF Follows
      <4>3. Key(t) = q[n]
        BY <1>6, <4>1
      <4> HIDE DEF t
      <4>4. CASE q[n] = Key(index)
        <5>1. IsPrefix(place, q)
          BY <1>9, <3>1, <4>1, <4>4
        <5>2. ~Contains(y, t)
          BY <2>3, <4>3, <4>4 DEF y, Unset, Contains, ArrayOf, IsArray
        <5>3. ~cu[n].exists
          BY <3>2, <4>2, <5>2, MemberThere
        <5>4. ~cu[Len(q)].exists
          BY <1>6, <4>1, <5>3, ChainGone DEF cu
        <5> QED BY <1>8, <5>1, <5>4
      <4>5. CASE q[n] # Key(index)
        <5>1. ~IsPrefix(place, q)
          BY <1>9, <4>5
        <5>2. Contains(y, t) <=> Contains(current, t)
          BY <2>3, <4>3, <4>5, UnsetOther DEF y
        <5>3. Get(y, t) = Get(current, t)
          BY <2>3, <4>3, <4>5, UnsetOther DEF y
        <5>4. cu[m].exists /\ cu[m].value = y
          BY <3>2
        <5>5. Member(cu[m], t) = Member(cv[m], t)
          BY <3>3, <5>2, <5>3, <5>4, MemberSame
        <5>6. cu[n] = cv[n]
          BY <4>2, <5>5
        <5>7. \A j \in n .. Len(q) : cu[j] = cv[j]
          BY <1>6, <4>1, <5>6, SameKeys DEF cu, cv
        <5>8. cu[Len(q)] = cv[Len(q)]
          BY <4>1, <5>7
        <5> QED BY <1>8, <5>1, <5>8
      <4> QED BY <4>4, <4>5
    <3> QED BY <3>4, <3>5
  <2>10. CASE q \in Above(above)
    <3>1. Len(q) < m /\ \A j \in 1 .. Len(q) : q[j] = above[j]
      BY <1>5, <2>10, PrefixKeys
    <3>2. ~IsPrefix(place, q)
      BY <1>1, <1>6, <1>7, <1>9, <3>1
    <3>3. cv[Len(q)] = c[Len(q)]
      BY <1>1, <1>6, <2>5, <3>1
    <3>4. Reached(v, q).exists /\ IsArray(Reached(v, q).value)
      BY <1>6, <1>8, <2>4, <3>1, <3>3
    <3> QED BY <2>7, <2>10, <3>2, <3>4 DEF Here
  <2>11. CASE \E i : Splits(q, above, i)
    <3>1. PICK i : Splits(q, above, i)
      BY <2>11
    <3>2. /\ i \in Nat /\ i < m /\ i < Len(q) /\ \A j \in 1 .. i : q[j] = above[j]
          /\ q[i + 1] # above[i + 1]
      BY <1>5, <3>1 DEF Splits
    <3>3. /\ i \in Nat /\ i < m /\ i < Len(q) /\ i <= m /\ i <= Len(q) /\ i + 1 \in 1 .. m
          /\ \A j \in 1 .. i : q[j] = above[j]
          /\ q[i + 1] # above[i + 1]
      <4>1. i <= m /\ i <= Len(q) /\ i + 1 \in 1 .. m
        BY <1>1, <1>6, <3>2
      <4> QED BY <3>2, <4>1
    <3>4. ~IsPrefix(place, q)
      BY <1>9, <3>3
    <3>5. IsArray(cv[i].value)
      BY <2>4, <2>5, <3>3
    <3>6. Reached(u, q) = Reached(v, q)
      BY <2>6, <3>1, <3>5
    <3> QED BY <3>4, <3>6
  <2> QED BY <1>5, <2>9, <2>10, <2>11, Parting
<1> QED BY <1>10, <1>11

\* Unsetting takes the place away and nothing else.
LEMMA UnsetOnePlace ==
  ASSUME NEW v, IsTree(v), NEW path \in Seq(AnyIndex), Len(path) >= 1
  PROVE  TreeOf(UnsetAt(v, path)) = Without(TreeOf(v), PlaceOf(path))
<1> DEFINE u == UnsetAt(v, path)
           place == PlaceOf(path)
           tree == TreeOf(v)
           D == {p \in DOMAIN tree : ~IsPrefix(place, p)}
           f == [p \in D |-> tree[p]]
<1>1. Without(tree, place) = f
  BY DEF Without
<1>2. tree = [p \in PlacesOf(v) |-> Here(Reached(v, p).value)]
  BY TreeReached
<1>3. IsTree(u)
  BY UnsetAtTree
<1>4. ASSUME NEW q \in Seq(Keys)
      PROVE  /\ IsPrefix(place, q) => ~Reached(u, q).exists
             /\ ~IsPrefix(place, q) => /\ Reached(u, q).exists <=> Reached(v, q).exists
                                       /\ Reached(v, q).exists =>
                                            Here(Reached(u, q).value) = Here(Reached(v, q).value)
  BY UnsetThere
<1> HIDE DEF u, place, tree
<1>5. \A p : p \in PlacesOf(u) <=> p \in D
  BY <1>2, <1>4 DEF PlacesOf
<1>6. \A p \in PlacesOf(u) : Here(Reached(u, p).value) = f[p]
  <2> TAKE p \in PlacesOf(u)
  <2>1. p \in D
    BY <1>5
  <2>2. p \in PlacesOf(v) /\ ~IsPrefix(place, p) /\ f[p] = tree[p]
    BY <1>2, <2>1
  <2>3. p \in Seq(Keys) /\ Reached(v, p).exists
    BY <2>2 DEF PlacesOf
  <2> QED BY <1>2, <1>4, <2>2, <2>3
<1>7. f = [p \in D |-> f[p]]
  OBVIOUS
<1> HIDE DEF D, f
<1>8. TreeOf(u) = f
  BY <1>3, <1>5, <1>6, <1>7, SameTree
<1> QED BY <1>1, <1>8 DEF u, place, tree

-----------------------------------------------------------------------------
(* Vectors.                                                                 *)

\* What the vector gets of one key.
One(v, key) == IF Contains(v, ByInt(key)) THEN <<Get(v, ByInt(key))>> ELSE << >>
IsUpTo(u, v, n) == u = [i \in 0 .. n |-> IF i = 0 THEN << >> ELSE u[i - 1] \o One(v, i - 1)]

LEMMA UpToExists ==
  ASSUME NEW v, NEW n \in Nat
  PROVE  \E u : IsUpTo(u, v, n)
<1> DEFINE T == {k \in 0 .. n : \E u : IsUpTo(u, v, k)}
<1>1. 0 \in T
  <2>1. IsUpTo([i \in 0 .. 0 |-> << >>], v, 0)
    BY DEF IsUpTo
  <2> QED BY <2>1
<1>2. ASSUME NEW k \in 1 .. n, k - 1 \in T PROVE k \in T
  <2>1. PICK u : IsUpTo(u, v, k - 1)
    BY <1>2
  <2> DEFINE S(i, s) == s \o One(v, i - 1)
             h == [i \in 0 .. k |-> IF i = k THEN S(k, u[k - 1]) ELSE u[i]]
  <2>2. \A i \in 0 .. (k - 1) : u[i] = IF i = 0 THEN << >> ELSE S(i, u[i - 1])
    BY <2>1 DEF IsUpTo
  <2> HIDE DEF S
  <2>3. h[k] = S(k, u[k - 1]) /\ \A i \in 0 .. (k - 1) : h[i] = u[i]
    OBVIOUS
  <2>4. h = [i \in 0 .. k |-> h[i]]
    OBVIOUS
  <2> HIDE DEF h
  <2>5. h[0] = << >>
    BY <2>2, <2>3
  <2>6. \A i \in 1 .. k : h[i] = S(i, h[i - 1])
    BY <2>2, <2>3
  <2>7. h = [i \in 0 .. k |-> IF i = 0 THEN << >> ELSE S(i, h[i - 1])]
    <3>1. \A i \in 0 .. k : h[i] = IF i = 0 THEN << >> ELSE S(i, h[i - 1])
      BY <2>5, <2>6
    <3> QED BY <2>4, <3>1, Zenon
  <2>8. IsUpTo(h, v, k)
    BY <2>7 DEF IsUpTo, S
  <2> QED BY <2>8
<1> HIDE DEF T
<1>3. \A k \in 0 .. n : k \in T
  BY <1>1, <1>2, UpTo
<1> QED BY <1>3 DEF T

\* The vector grows by one key after the other.
Grows(u, v) ==
  /\ u[0] = << >>
  /\ \A i \in 1 .. Size(v) : u[i] = u[i - 1] \o One(v, i - 1)

LEMMA VectorGrows ==
  ASSUME NEW v, IsArray(v), Size(v) \in Nat
  PROVE  \E u : Grows(u, v) /\ VectorValue(v) = u[Size(v)]
<1> DEFINE D(u) == u = [i \in 0 .. Size(v) |->
                          IF i = 0 THEN << >>
                          ELSE u[i - 1] \o (IF Contains(v, ByInt(i - 1)) THEN <<Get(v, ByInt(i - 1))>>
                                            ELSE << >>)]
           c == CHOOSE u : D(u)
<1>1. VectorValue(v) = c[Size(v)]
  BY DEF VectorValue
<1>2. ASSUME NEW u PROVE D(u) <=> IsUpTo(u, v, Size(v))
  BY DEF IsUpTo, One
<1> HIDE DEF D
<1>3. IsUpTo(c, v, Size(v))
  <2>1. \E u : D(u)
    BY <1>2, UpToExists
  <2>2. D(c)
    BY <2>1
  <2> QED BY <1>2, <2>2
<1> HIDE DEF c
<1>4. \A i \in 0 .. Size(v) : c[i] = IF i = 0 THEN << >> ELSE c[i - 1] \o One(v, i - 1)
  BY <1>3 DEF IsUpTo
<1>5. Grows(c, v)
  <2> DEFINE n == Size(v)
  <2>1. 0 \in 0 .. n /\ \A i \in 1 .. n : i \in 0 .. n /\ i # 0
    OBVIOUS
  <2> HIDE DEF n
  <2>2. c[0] = << >> /\ \A i \in 1 .. n : c[i] = c[i - 1] \o One(v, i - 1)
    BY <1>4, <2>1 DEF n
  <2> QED BY <2>2 DEF Grows, n
<1> QED BY <1>1, <1>5

\* One element behind another sequence.
LEMMA Behind ==
  ASSUME NEW S, NEW s \in Seq(S), NEW e \in S
  PROVE  /\ s \o <<e>> \in Seq(S) /\ Len(s \o <<e>>) = Len(s) + 1
         /\ (s \o <<e>>)[Len(s) + 1] = e
         /\ \A i \in 1 .. Len(s) : (s \o <<e>>)[i] = s[i]
OBVIOUS

LEMMA VectorOfList ==
  ASSUME NEW v, IsTree(v), IsArray(v)
  PROVE  IF IsList(v) THEN FromVector(VectorValue(v)) = v ELSE Len(VectorValue(v)) < Size(v)
<1> DEFINE n == Size(v)
           S == {v.items[k] : k \in DOMAIN v.items}
<1>1. IsItems(v.items) /\ v = ArrayOf(v.items)
  BY ArrayItems
<1>2. n \in Nat
  BY <1>1, FS_CardinalityType DEF Size, IsItems
<1>3. PICK u : Grows(u, v) /\ VectorValue(v) = u[n]
  BY <1>2, VectorGrows
<1>4. ASSUME NEW key
      PROVE  One(v, key) = IF key \in DOMAIN v.items THEN <<v.items[key]>> ELSE << >>
  BY DEF One, Contains, Get, ByInt, Key
<1> HIDE DEF n
<1>5. u[0] = << >> /\ \A i \in 1 .. n : u[i] = u[i - 1] \o One(v, i - 1)
  BY <1>3 DEF Grows, n
<1>6. CASE IsList(v)
  <2> DEFINE T == {k \in 0 .. n : /\ u[k] \in Seq(S) /\ Len(u[k]) = k
                                  /\ \A i \in 1 .. k : u[k][i] = v.items[i - 1]}
  <2>1. DOMAIN v.items = 0 .. n - 1
    BY <1>6 DEF IsList, n
  <2>2. 0 \in T
    <3> HIDE DEF S
    <3>1. u[0] \in Seq(S) /\ Len(u[0]) = 0
      BY <1>5
    <3> QED BY <1>2, <2>1, <3>1
  <2>3. ASSUME NEW k \in 1 .. n, k - 1 \in T PROVE k \in T
    <3> DEFINE s == u[k - 1]
               e == v.items[k - 1]
    <3>1. k - 1 \in DOMAIN v.items
      BY <1>2, <2>1
    <3>2. u[k] = s \o <<e>> /\ e \in S
      BY <1>4, <1>5, <3>1
    <3>3. s \in Seq(S) /\ Len(s) = k - 1 /\ \A i \in 1 .. k - 1 : s[i] = v.items[i - 1]
      BY <2>3
    <3> HIDE DEF s, e, S
    <3>4. /\ u[k] \in Seq(S) /\ Len(u[k]) = k /\ u[k][k] = e
          /\ \A i \in 1 .. k - 1 : u[k][i] = s[i]
      <4>1. /\ s \o <<e>> \in Seq(S) /\ Len(s \o <<e>>) = Len(s) + 1
            /\ (s \o <<e>>)[Len(s) + 1] = e
            /\ \A i \in 1 .. Len(s) : (s \o <<e>>)[i] = s[i]
        BY <3>2, <3>3, Behind
      <4>2. Len(s) + 1 = k
        BY <3>3
      <4> HIDE DEF T
      <4> QED BY <3>2, <3>3, <4>1, <4>2
    <3>5. \A i \in 1 .. k : i = k \/ i \in 1 .. k - 1
      OBVIOUS
    <3>6. \A i \in 1 .. k : u[k][i] = v.items[i - 1]
      BY <3>3, <3>4, <3>5 DEF e
    <3> QED BY <3>4, <3>6
  <2> HIDE DEF T
  <2>4. \A k \in 0 .. n : k \in T
    BY <1>2, <2>2, <2>3, UpTo
  <2>5. n \in T
    BY <1>2, <2>4
  <2>6. Len(u[n]) = n /\ \A i \in 1 .. n : u[n][i] = v.items[i - 1]
    BY <2>5 DEF T
  <2>7. [i \in 0 .. n - 1 |-> u[n][i + 1]] = v.items
    <3>1. \A i \in 0 .. n - 1 : u[n][i + 1] = v.items[i]
      BY <1>2, <2>6
    <3>2. v.items = [i \in 0 .. n - 1 |-> v.items[i]]
      BY <1>1, <2>1 DEF IsItems
    <3> QED BY <3>1, <3>2, Zenon
  <2> QED BY <1>1, <1>3, <1>6, <2>6, <2>7 DEF FromVector
<1>7. CASE ~IsList(v)
  <2>1. PICK j \in 0 .. n - 1 : j \notin DOMAIN v.items
    <3>1. IsFiniteSet(DOMAIN v.items) /\ Cardinality(DOMAIN v.items) = n
      BY <1>1 DEF IsItems, Size, n
    <3>2. Cardinality(0 .. n - 1) = n
      BY <1>2, FS_Interval
    <3>3. 0 .. n - 1 # DOMAIN v.items
      BY <1>7 DEF IsList, n
    <3> QED BY <1>2, <3>1, <3>2, <3>3, FS_Subset
  <2> DEFINE T == {k \in 0 .. n : u[k] \in Seq(S) /\ Len(u[k]) <= k /\ (k > j => Len(u[k]) < k)}
  <2>2. 0 \in T
    <3> HIDE DEF S
    <3>1. u[0] \in Seq(S) /\ Len(u[0]) = 0
      BY <1>5
    <3> QED BY <1>2, <2>1, <3>1
  <2>3. ASSUME NEW k \in 1 .. n, k - 1 \in T PROVE k \in T
    <3> DEFINE s == u[k - 1]
               e == v.items[k - 1]
    <3>1. s \in Seq(S) /\ Len(s) \in Nat /\ Len(s) <= k - 1 /\ (k - 1 > j => Len(s) < k - 1)
      BY <2>3
    <3>2. u[k] = s \o One(v, k - 1)
      BY <1>5
    <3>3. CASE k - 1 \in DOMAIN v.items
      <4>1. u[k] = s \o <<e>> /\ e \in S /\ k - 1 # j
        BY <1>4, <2>1, <3>2, <3>3
      <4> HIDE DEF s, e, S
      <4>2. u[k] \in Seq(S) /\ Len(u[k]) = Len(s) + 1
        BY <3>1, <4>1, Behind
      <4>3. k \in 0 .. n /\ Len(u[k]) <= k /\ (k > j => Len(u[k]) < k)
        BY <1>2, <3>1, <4>1, <4>2
      <4> QED BY <4>2, <4>3
    <3>4. CASE k - 1 \notin DOMAIN v.items
      <4>1. u[k] = s
        <5>1. u[k] = s \o << >>
          BY <1>4, <3>2, <3>4
        <5> HIDE DEF s, e, S
        <5> QED BY <3>1, <5>1
      <4> HIDE DEF s, e, S
      <4> QED BY <3>1, <4>1
    <3> QED BY <3>3, <3>4
  <2> HIDE DEF T
  <2>4. \A k \in 0 .. n : k \in T
    BY <1>2, <2>2, <2>3, UpTo
  <2>5. n \in T
    BY <1>2, <2>4
  <2>6. Len(u[n]) < n
    BY <1>2, <2>1, <2>5 DEF T
  <2> QED BY <1>3, <1>7, <2>6 DEF n
<1> QED BY <1>6, <1>7

-----------------------------------------------------------------------------
(* The inductive invariant.                                                 *)

IInv ==
  /\ values = [v \in Variables |-> values[v]]
  /\ \A v \in Variables : IsTree(values[v])
  /\ GlobalSeen
  /\ exists \subseteq Globals /\ direct \subseteq Globals

\* A step changes the value of one variable, and if that is a global that was
\* NULL the script has it then, or an operator of Value changed it.
Changes(v, x) ==
  /\ values' = [values EXCEPT ![v] = x]
  /\ IsTree(x)
  /\ v \in Globals /\ x # Null => values[v] # Null \/ v \in exists' \cup direct'
  /\ exists \subseteq exists' /\ exists' \subseteq Globals
  /\ direct \subseteq direct' /\ direct' \subseteq Globals

LEMMA LiteralTree ==
  ASSUME NEW x \in Literals
  PROVE  IsTree(x)
<1>1. 0 \in 0 .. Base - 1
  BY MembersConstants
<1>2. CASE x \in Leaves
  BY <1>2, LeafTree, EmptyTree DEF Leaves
<1>3. CASE x = FromVector(<<Scalar(0), Null>>)
  <2> DEFINE f == [i \in 0 .. 1 |-> <<Scalar(0), Null>>[i + 1]]
  <2>1. x = ArrayOf(f)
    BY <1>3 DEF FromVector
  <2>2. f[0] = Scalar(0) /\ f[1] = Null /\ \A k \in DOMAIN f : k = 0 \/ k = 1
    OBVIOUS
  <2>3. DOMAIN f \subseteq Keys /\ IsFiniteSet(DOMAIN f)
    <3>1. DOMAIN f = 0 .. 1
      OBVIOUS
    <3>2. 0 .. 1 \subseteq Keys
      BY IntsType DEF Keys
    <3>3. IsFiniteSet(0 .. 1)
      <4>1. 0 \in Int /\ 1 \in Int
        OBVIOUS
      <4> QED BY <4>1, FS_Interval, Zenon
    <3> QED BY <3>1, <3>2, <3>3, Zenon
  <2>4. f = [k \in DOMAIN f |-> f[k]]
    OBVIOUS
  <2> HIDE DEF f
  <2>5. IsItems(f)
    BY <1>1, <2>2, <2>3, <2>4, LeafTree DEF IsItems
  <2> QED BY <2>1, <2>5, ArrayTree
<1>4. ASSUME NEW name \in Names, x = FromMap([k \in {name} |-> Scalar(0)])
      PROVE  IsTree(x)
  <2> DEFINE f == [k \in {name} |-> Scalar(0)]
  <2>1. IsItems(f)
    BY <1>1, LeafTree, FS_Singleton DEF IsItems, Keys
  <2> QED BY <1>4, <2>1, ArrayTree DEF FromMap
<1>5. \/ x \in Leaves
      \/ x = FromVector(<<Scalar(0), Null>>)
      \/ \E name \in Names : x = FromMap([k \in {name} |-> Scalar(0)])
  BY DEF Literals
<1> QED BY <1>2, <1>3, <1>4, <1>5

LEMMA OfferedTree ==
  ASSUME IInv, NEW x \in Offered
  PROVE  IsTree(x)
<1>1. ASSUME NEW w \in Variables, NEW part \in Parts(values[w]), x = part[2]
      PROVE  IsTree(x)
  BY <1>1, PartTree DEF IInv
<1>2. \/ x \in Literals
      \/ \E w \in Variables : \E part \in Parts(values[w]) : x = part[2]
  BY DEF Offered
<1> QED BY <1>1, <1>2, LiteralTree

LEMMA NextChanges ==
  ASSUME IInv, Next
  PROVE  \E v \in Variables : \E x : Changes(v, x)
<1>1. \A v \in Variables : IsTree(values[v])
  BY DEF IInv
<1>2. exists \subseteq Globals /\ direct \subseteq Globals
  BY DEF IInv
<1>3. \A v \in Variables, path \in Paths : IsTree(ValueAt(values[v], path))
  BY <1>1, PathType, ChainTree DEF ValueAt
<1>4. ASSUME NEW v \in Variables, Update(v), UNCHANGED direct
      PROVE  /\ v \in Globals => v \in exists' \cup direct'
             /\ exists \subseteq exists' /\ exists' \subseteq Globals
             /\ direct \subseteq direct' /\ direct' \subseteq Globals
  BY <1>2, <1>4 DEF Update
<1>5. ASSUME NEW v \in Variables, NoUpdate(v), direct' = direct \cup ({v} \cap Globals)
      PROVE  /\ v \in Globals => v \in exists' \cup direct'
             /\ exists \subseteq exists' /\ exists' \subseteq Globals
             /\ direct \subseteq direct' /\ direct' \subseteq Globals
  BY <1>2, <1>5 DEF NoUpdate
<1>6. CASE AssignToMember
  <2>1. PICK v \in Variables, path \in Paths, x \in Offered :
          /\ values' = [values EXCEPT ![v] = Assign(values[v], path, x)]
          /\ Update(v) /\ UNCHANGED direct
    BY <1>6 DEF AssignToMember
  <2>2. IsTree(Assign(values[v], path, x)) /\ IsArray(Assign(values[v], path, x))
    BY <1>1, PathType, OfferedTree, AssignTree, AssignArray
  <2> QED BY <1>4, <2>1, <2>2 DEF Changes
<1>7. CASE ComputeMember
  <2> DEFINE Results(v, path) ==
               UNION {{Computed(op, values[v], path, n) : n \in 0 .. Base - 1} : op \in Operators}
  <2>1. PICK v \in Variables, path \in Paths :
          /\ ~IsArray(ValueAt(values[v], path))
          /\ \E x \in Results(v, path) : values' = [values EXCEPT ![v] = Assign(values[v], path, x)]
          /\ Update(v) /\ UNCHANGED direct
    BY <1>7 DEF ComputeMember
  <2>2. PICK x \in Results(v, path) : values' = [values EXCEPT ![v] = Assign(values[v], path, x)]
    BY <2>1
  <2>3. IsTree(x)
    <3>1. PICK op \in Operators : x \in {Computed(op, values[v], path, n) : n \in 0 .. Base - 1}
      OBVIOUS
    <3>2. PICK n \in 0 .. Base - 1 : x = Computed(op, values[v], path, n)
      BY <3>1
    <3> QED BY <1>3, <2>1, <3>2, ArithmeticTree DEF Computed
  <2>4. IsTree(Assign(values[v], path, x)) /\ IsArray(Assign(values[v], path, x))
    BY <1>1, <2>3, PathType, AssignTree, AssignArray
  <2> QED BY <1>4, <2>2, <2>1, <2>4 DEF Changes
<1>8. CASE UnsetMember
  <2>1. PICK v \in Variables, path \in Paths :
          /\ values' = [values EXCEPT ![v] = UnsetAt(values[v], path)]
          /\ IF Len(path) > 1 /\ Exists(values[v], path) THEN Update(v) ELSE NoUpdate(v)
          /\ UNCHANGED direct
    BY <1>8 DEF UnsetMember
  <2> DEFINE x == UnsetAt(values[v], path)
  <2>2. /\ IsTree(x) /\ (IsArray(values[v]) => IsArray(x))
        /\ x # values[v] => IsArray(values[v]) \/ (Len(path) > 1 /\ Exists(values[v], path))
    BY <1>1, PathType, UnsetAtTree
  <2> HIDE DEF x
  <2>3. CASE Len(path) > 1 /\ Exists(values[v], path)
    BY <1>4, <2>1, <2>2, <2>3 DEF Changes, x
  <2>4. CASE ~(Len(path) > 1 /\ Exists(values[v], path))
    <3>1. UNCHANGED exists /\ UNCHANGED direct
      BY <2>1, <2>4 DEF NoUpdate
    <3>2. x # Null => values[v] # Null
      BY <2>2, <2>4 DEF IsArray, Null
    <3> QED BY <1>2, <2>1, <2>2, <3>1, <3>2 DEF Changes, x
  <2> QED BY <2>3, <2>4
<1>9. CASE AssignVariable
  <2>1. PICK v \in Variables, x \in Offered :
          /\ values' = [values EXCEPT ![v] = x]
          /\ Update(v) /\ UNCHANGED direct
    BY <1>9 DEF AssignVariable
  <2>2. IsTree(x)
    BY OfferedTree
  <2> QED BY <1>4, <2>1, <2>2 DEF Changes
<1>10. CASE SetType
  <2>1. PICK v \in Variables : \E x \in {Null, Scalar(0), ArrayOf(AsArray(values[v]))} :
          /\ values' = [values EXCEPT ![v] = x]
          /\ NoUpdate(v) /\ direct' = direct \cup ({v} \cap Globals)
    BY <1>10 DEF SetType
  <2>2. PICK x \in {Null, Scalar(0), ArrayOf(AsArray(values[v]))} :
          /\ values' = [values EXCEPT ![v] = x]
          /\ NoUpdate(v) /\ direct' = direct \cup ({v} \cap Globals)
    BY <2>1
  <2>3. 0 \in 0 .. Base - 1
    BY MembersConstants
  <2>4. IsTree(ArrayOf(AsArray(values[v])))
    BY <1>1, AsArrayItems, ArrayTree
  <2>5. IsTree(x)
    BY <2>2, <2>3, <2>4, LeafTree
  <2> QED BY <1>5, <2>2, <2>5 DEF Changes
<1>11. CASE ComputeVariable
  <2>1. PICK v \in Variables, op \in Operators, n \in 0 .. Base - 1 :
          /\ ~IsArray(values[v])
          /\ values' = [values EXCEPT ![v] = Arithmetic(op, values[v], n)]
          /\ NoUpdate(v) /\ direct' = direct \cup ({v} \cap Globals)
    BY <1>11 DEF ComputeVariable
  <2>2. IsTree(Arithmetic(op, values[v], n))
    BY <1>1, <2>1, ArithmeticTree
  <2> QED BY <1>5, <2>1, <2>2 DEF Changes
<1> QED BY <1>6, <1>7, <1>8, <1>9, <1>10, <1>11 DEF Next

LEMMA InitIInv ==
  ASSUME Init
  PROVE  IInv
<1>1. values = [v \in Variables |-> values[v]]
  BY DEF Init
<1>2. \A v \in Variables : IsTree(values[v])
  BY LiteralTree DEF Init
<1>3. GlobalSeen
  BY DEF Init, GlobalSeen, Globals
<1> QED BY <1>1, <1>2, <1>3 DEF IInv, Init

LEMMA StepIInv ==
  ASSUME IInv, [Next]_vars
  PROVE  IInv'
<1>1. CASE Next
  <2>1. PICK v \in Variables : \E x : Changes(v, x)
    BY <1>1, NextChanges
  <2>2. PICK x : Changes(v, x)
    BY <2>1
  <2>3. /\ values' = [values EXCEPT ![v] = x]
        /\ values = [w \in Variables |-> values[w]]
    BY <2>2 DEF Changes, IInv
  <2>4. values' = [w \in Variables |-> values'[w]]
    BY <2>3
  <2>5. values'[v] = x /\ \A w \in Variables : w # v => values'[w] = values[w]
    BY <2>3
  <2>6. \A w \in Variables : IsTree(values'[w])
    BY <2>2, <2>5 DEF Changes, IInv
  <2>7. GlobalSeen'
    BY <2>2, <2>5 DEF Changes, IInv, GlobalSeen, Globals
  <2> QED BY <2>2, <2>4, <2>6, <2>7 DEF Changes, IInv
<1>2. CASE UNCHANGED vars
  BY <1>2 DEF IInv, vars, GlobalSeen
<1> QED BY <1>1, <1>2

LEMMA SpecIInv == Spec => []IInv
<1>1. Init => IInv
  BY InitIInv
<1>2. IInv /\ [Next]_vars => IInv'
  BY StepIInv
<1> QED BY <1>1, <1>2, PTL DEF Spec

-----------------------------------------------------------------------------
(* The theorems.                                                            *)

\* The values are built of NULL, numbers and arrays with the keys there are.
THEOREM TypeCorrect == Spec => []TypeOK
<1>1. IInv => TypeOK
  <2> SUFFICES ASSUME IInv PROVE TypeOK
    OBVIOUS
  <2>1. ASSUME NEW v \in Variables, NEW part \in Parts(values[v])
        PROVE  \/ part[2] \in {Null} \cup {Scalar(n) : n \in 0 .. Base - 1}
               \/ part[2].kind = "array" /\ DOMAIN part[2].items \subseteq Names \cup Ints
    <3>1. IsTree(part[2])
      BY PartTree DEF IInv
    <3> QED BY <3>1, TreeCases DEF ArrayOf, IsItems, Keys
  <2> QED BY <2>1 DEF IInv, TypeOK
<1> QED BY <1>1, SpecIInv, PTL

\* The script sees every global that is more than NULL, however deep the member
\* was that changed it (hashmember.h:446-495, global.h:91).
THEOREM GlobalsSeen == Spec => []GlobalSeen
<1>1. IInv => GlobalSeen
  BY DEF IInv
<1> QED BY <1>1, SpecIInv, PTL

\* A vector has all elements of an array that is a list, in order, and leaves
\* some out of any other (value.h:457-462).
THEOREM VectorsAreLists == Spec => []VectorIsList
<1>1. IInv => VectorIsList
  <2> SUFFICES ASSUME IInv PROVE VectorIsList
    OBVIOUS
  <2>1. ASSUME NEW v \in Variables, NEW part \in Parts(values[v])
        PROVE  IsTree(part[2])
    BY PartTree DEF IInv
  <2> QED BY <2>1, VectorOfList DEF VectorIsList
<1> QED BY <1>1, SpecIInv, PTL

\* A change through a member is a change at that one place: its siblings and
\* those of all its parents are kept, though each parent is read, copied and
\* written anew, and unsetting makes no parents (hashmember.h:497-569).
THEOREM OnePlaceChanged == Spec => []ChangesOnePlace
<1>1. IInv => ChangesOnePlace
  <2> SUFFICES ASSUME IInv, NEW v \in Variables, NEW path \in Paths
               PROVE  /\ TreeOf(UnsetAt(values[v], path)) = Without(TreeOf(values[v]), PlaceOf(path))
                      /\ \A x \in Leaves : TreeOf(Assign(values[v], path, x)) =
                                             Put(TreeOf(values[v]), PlaceOf(path), TreeOf(x))
    BY DEF ChangesOnePlace
  <2>1. IsTree(values[v])
    BY DEF IInv
  <2>2. path \in Seq(AnyIndex) /\ Len(path) >= 1 /\ Len(path) <= MaxDepth
    BY PathType
  <2> QED BY <2>1, <2>2, UnsetOnePlace, AssignOnePlace
<1> QED BY <1>1, SpecIInv, PTL

\* What is assigned to a member is read there and what is unset is gone, whatever
\* the values are and however long the chain is.
THEOREM MembersReadBack == Spec => []ReadsBack
<1>1. ReadsBack
  <2> SUFFICES ASSUME NEW v \in Variables, NEW path \in Paths
               PROVE  /\ \A x \in Leaves : ValueAt(Assign(values[v], path, x), path) = x
                      /\ ~Exists(UnsetAt(values[v], path), path)
    BY DEF ReadsBack
  <2>1. path \in Seq(AnyIndex) /\ Len(path) \in Nat /\ Len(path) >= 1
    BY PathType
  <2> QED BY <2>1, AssignReads, UnsetReads
<1> QED BY <1>1, PTL
=============================================================================
