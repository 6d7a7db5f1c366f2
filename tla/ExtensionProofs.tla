--------------------------- MODULE ExtensionProofs ---------------------------
(***************************************************************************)
(* Loading the extension and calling its functions, for any number of      *)
(* parameters of any kind and any further elements of the extension.       *)
(***************************************************************************)
EXTENDS Extension, FiniteSetTheorems, WellFoundedInduction, TLAPS

-----------------------------------------------------------------------------
(* Counting the functions.                                                  *)

\* The least element of a set of positions.
LEMMA Least ==
  ASSUME NEW T \in SUBSET Nat, T # {}
  PROVE  \E k \in T : \A j \in T : k <= j
<1>1. IsWellFoundedOn(OpToRel(<, Nat), Nat)
  BY NatLessThanWellFounded
<1>2. PICK k \in T : \A j \in T : ~(<<j, k>> \in OpToRel(<, Nat))
  BY <1>1, WFMin, Zenon
<1>3. \A j \in T : ~(j < k)
  BY <1>2 DEF OpToRel
<1> QED BY <1>3

\* The sums of the first numbers of a sequence.
Sums(g, w, n) == g = [k \in 0 .. n |-> IF k = 0 THEN 0 ELSE g[k - 1] + w[k]]

\* There are such sums.
LEMMA SumsExist ==
  ASSUME NEW n \in Nat, NEW w \in [1 .. n -> Nat]
  PROVE  \E g : Sums(g, w, n)
<1> DEFINE Bad == {m \in 0 .. n : ~\E g : Sums(g, w, m)}
<1> SUFFICES ASSUME Bad # {} PROVE FALSE
  <2>1. n \in 0 .. n
    OBVIOUS
  <2> QED BY <2>1
<1>1. PICK m \in Bad : \A j \in Bad : m <= j
  <2>1. Bad \in SUBSET Nat
    OBVIOUS
  <2> QED BY <2>1, Least, Zenon
<1>2. m # 0
  <2>1. Sums([k \in 0 .. 0 |-> 0], w, 0)
    BY DEF Sums
  <2> QED BY <2>1, <1>1
<1>3. m - 1 \in 0 .. n /\ m - 1 \notin Bad
  BY <1>1, <1>2
<1>4. PICK g : Sums(g, w, m - 1)
  BY <1>3
<1> DEFINE h == [k \in 0 .. m |-> IF k = m THEN g[m - 1] + w[m] ELSE g[k]]
<1>5. Sums(h, w, m)
  <2>1. \A k \in 0 .. m : h[k] = IF k = 0 THEN 0 ELSE h[k - 1] + w[k]
    <3>1. \A k \in 0 .. (m - 1) : g[k] = IF k = 0 THEN 0 ELSE g[k - 1] + w[k]
      BY <1>4 DEF Sums
    <3>2. m \in Nat \ {0}
      BY <1>1, <1>2
    <3> QED BY <3>1, <3>2
  <2> QED BY <2>1 DEF Sums
<1> QED BY <1>1, <1>5

\* They are numbers, from one to the next.
LEMMA SumsType ==
  ASSUME NEW n \in Nat, NEW w \in [1 .. n -> Nat], NEW g, Sums(g, w, n)
  PROVE  /\ g \in [0 .. n -> Nat] /\ g[0] = 0
         /\ \A k \in 1 .. n : g[k] = g[k - 1] + w[k]
<1>1. DOMAIN g = 0 .. n /\ g[0] = 0 /\ \A k \in 1 .. n : g[k] = g[k - 1] + w[k]
  BY DEF Sums
<1> DEFINE Bad == {m \in 0 .. n : g[m] \notin Nat}
<1>2. Bad = {}
  <2> SUFFICES ASSUME Bad # {} PROVE FALSE
    OBVIOUS
  <2>1. PICK m \in Bad : \A j \in Bad : m <= j
    <3>1. Bad \in SUBSET Nat
      OBVIOUS
    <3> QED BY <3>1, Least, Zenon
  <2>2. m # 0
    BY <1>1, <2>1
  <2>3. m - 1 \in 0 .. n /\ g[m - 1] \in Nat /\ m \in 1 .. n
    BY <2>1, <2>2
  <2> QED BY <1>1, <2>1, <2>3
<1>3. g = [k \in 0 .. n |-> g[k]]
  BY DEF Sums
<1> QED BY <1>1, <1>2, <1>3

\* What an element adds to the count.
Weight(e) ==
  CASE e.kind = "function" -> 1
    [] e.kind = "namespace" -> Len(e.functions)
    [] OTHER -> 0

\* Count is the last sum.
LEMMA CountIsSum ==
  ASSUME NEW elements, Len(elements) \in Nat,
         \A n \in 1 .. Len(elements) : Weight(elements[n]) \in Nat
  PROVE  \E g : /\ Sums(g, [n \in 1 .. Len(elements) |-> Weight(elements[n])], Len(elements))
                /\ Count(elements) = g[Len(elements)]
<1> DEFINE N == Len(elements)
           w == [n \in 1 .. N |-> Weight(elements[n])]
           D(g) == g = [n \in 0 .. N |->
                     IF n = 0 THEN 0
                     ELSE g[n - 1] + (CASE elements[n].kind = "function" -> 1
                              [] elements[n].kind = "namespace" -> Len(elements[n].functions)
                              [] OTHER -> 0)]
           u == CHOOSE g : D(g)
<1>1. Count(elements) = u[N]
  BY DEF Count
<1>2. ASSUME NEW g PROVE D(g) <=> Sums(g, w, N)
  <2>1. \A n \in 0 .. N : n # 0 => w[n] = (CASE elements[n].kind = "function" -> 1
                              [] elements[n].kind = "namespace" -> Len(elements[n].functions)
                              [] OTHER -> 0)
    BY DEF Weight
  <2> QED BY <2>1 DEF Sums
<1>3. \E g : D(g)
  <2>1. \E g : Sums(g, w, N)
    BY SumsExist
  <2> QED BY <1>2, <2>1
<1>4. D(u)
  <2> HIDE DEF D
  <2> QED BY <1>3
<1> QED BY <1>1, <1>2, <1>4

\* The functions among the first n elements, and in element n.
UpTo(elements, n) == {place \in FunctionPlaces(elements) : place[1] <= n}
Row(elements, n) == {place \in FunctionPlaces(elements) : place[1] = n}

\* What may be in an extension.
Elements(elements) ==
  /\ Len(elements) \in Nat /\ DOMAIN elements = 1 .. Len(elements)
  /\ \A i \in DOMAIN elements :
       LET functions == elements[i].functions
       IN  /\ Len(functions) \in Nat /\ DOMAIN functions = 1 .. Len(functions)
           /\ elements[i].kind = "function" => Len(functions) = 1

LEMMA RowWeight ==
  ASSUME NEW elements, Elements(elements), NEW n \in 1 .. Len(elements)
  PROVE  /\ IsFiniteSet(Row(elements, n)) /\ Weight(elements[n]) \in Nat
         /\ Cardinality(Row(elements, n)) = Weight(elements[n])
<1> DEFINE e == elements[n]
           l == Len(e.functions)
<1>1. /\ n \in DOMAIN elements /\ l \in Nat /\ DOMAIN e.functions = 1 .. l
      /\ e.kind = "function" => l = 1
  BY DEF Elements
<1>2. Row(elements, n) = IF e.kind \in {"function", "namespace"} THEN {<<n, j>> : j \in 1 .. l} ELSE {}
  BY <1>1 DEF Row, FunctionPlaces, Places
<1>3. CASE e.kind \notin {"function", "namespace"}
  BY <1>2, <1>3, FS_EmptySet DEF Weight
<1>4. CASE e.kind \in {"function", "namespace"}
  <2> DEFINE R == {<<n, j>> : j \in 1 .. l}
             f == [j \in 1 .. l |-> <<n, j>>]
  <2>1. f \in Bijection(1 .. l, R)
    <3>1. f \in [1 .. l -> R]
      OBVIOUS
    <3>2. \A j, k \in 1 .. l : f[j] = f[k] => j = k
      OBVIOUS
    <3>3. \A t \in R : \E j \in 1 .. l : f[j] = t
      OBVIOUS
    <3> HIDE DEF f, R
    <3>4. IsInjective(f)
      BY <3>1, <3>2 DEF IsInjective
    <3> QED BY <3>1, <3>3, <3>4 DEF Bijection, Injection, Surjection
  <2>2. IsFiniteSet(1 .. l) /\ Cardinality(1 .. l) = l
    <3>1. l \in Int /\ 1 \in Int /\ l \in Nat
      BY <1>1
    <3> HIDE DEF l
    <3>2. IsFiniteSet(1 .. l) /\ Cardinality(1 .. l) = IF 1 > l THEN 0 ELSE l - 1 + 1
      BY <3>1, FS_Interval, Zenon
    <3> QED BY <3>1, <3>2
  <2>3. IsFiniteSet(R) /\ Cardinality(R) = l
    <3>1. ExistsBijection(1 .. l, R)
      BY <2>1 DEF ExistsBijection
    <3> HIDE DEF R
    <3> QED BY <2>2, <3>1, FS_Bijection
  <2>4. Weight(e) = l
    BY <1>1, <1>4 DEF Weight
  <2> QED BY <1>1, <1>2, <1>4, <2>3, <2>4
<1> QED BY <1>3, <1>4

\* Count counts the functions.
LEMMA CountIsCardinality ==
  ASSUME NEW elements, Elements(elements)
  PROVE  /\ Count(elements) \in Nat
         /\ Count(elements) = Cardinality(FunctionPlaces(elements))
<1> DEFINE N == Len(elements)
           w == [n \in 1 .. N |-> Weight(elements[n])]
<1>1. N \in Nat /\ w \in [1 .. N -> Nat]
  BY RowWeight DEF Elements
<1>2. PICK g : Sums(g, w, N) /\ Count(elements) = g[N]
  BY <1>1, CountIsSum, RowWeight
<1>3. /\ g \in [0 .. N -> Nat] /\ g[0] = 0
      /\ \A k \in 1 .. N : g[k] = g[k - 1] + Weight(elements[k])
  <2>1. \A k \in 1 .. N : w[k] = Weight(elements[k])
    OBVIOUS
  <2> HIDE DEF w
  <2> QED BY <1>1, <1>2, <2>1, SumsType
<1> HIDE DEF w
<1>4. \A place \in FunctionPlaces(elements) : place[1] \in 1 .. N
  BY DEF FunctionPlaces, Places, Elements
<1> DEFINE Right(n) == IsFiniteSet(UpTo(elements, n)) /\ g[n] = Cardinality(UpTo(elements, n))
           Bad == {n \in 0 .. N : ~Right(n)}
<1>5. Bad = {}
  <2> SUFFICES ASSUME Bad # {} PROVE FALSE
    OBVIOUS
  <2>1. PICK m \in Bad : \A j \in Bad : m <= j
    <3>1. Bad \in SUBSET Nat
      BY <1>1
    <3> HIDE DEF Bad
    <3> QED BY <3>1, Least, Zenon
  <2>2. m # 0
    <3>1. UpTo(elements, 0) = {}
      BY <1>1, <1>4 DEF UpTo
    <3>2. Right(0)
      BY <1>3, <3>1, FS_EmptySet
    <3> QED BY <2>1, <3>2
  <2>3. m - 1 \in 0 .. N /\ Right(m - 1) /\ m \in 1 .. N
    BY <1>1, <2>1, <2>2
  <2>4. /\ UpTo(elements, m) = UpTo(elements, m - 1) \cup Row(elements, m)
        /\ UpTo(elements, m - 1) \cap Row(elements, m) = {}
    BY <1>1, <1>4, <2>3 DEF UpTo, Row
  <2>5. /\ IsFiniteSet(Row(elements, m)) /\ Weight(elements[m]) \in Nat
        /\ Cardinality(Row(elements, m)) = Weight(elements[m])
    BY <2>3, RowWeight
  <2>6. /\ IsFiniteSet(UpTo(elements, m))
        /\ Cardinality(UpTo(elements, m)) = g[m - 1] + Weight(elements[m])
    <3>1. IsFiniteSet(UpTo(elements, m - 1)) /\ g[m - 1] = Cardinality(UpTo(elements, m - 1))
      BY <2>3
    <3>2. g[m - 1] \in Nat
      BY <1>3, <2>3
    <3> DEFINE A == UpTo(elements, m - 1)
               C == Row(elements, m)
    <3>3. IsFiniteSet(A) /\ IsFiniteSet(C) /\ A \cap C = {}
      BY <2>4, <2>5, <3>1
    <3> HIDE DEF A, C
    <3>4. /\ IsFiniteSet(A \cup C)
          /\ Cardinality(A \cup C) = Cardinality(A) + Cardinality(C) - Cardinality(A \cap C)
      BY <3>3, FS_Union
    <3>5. Cardinality(A \cap C) = 0
      BY <3>3, FS_EmptySet
    <3> QED BY <2>4, <2>5, <3>1, <3>2, <3>4, <3>5 DEF A, C
  <2>7. Right(m)
    BY <1>3, <2>3, <2>6
  <2> QED BY <2>1, <2>7
<1>6. UpTo(elements, N) = FunctionPlaces(elements)
  BY <1>1, <1>4 DEF UpTo
<1> QED BY <1>1, <1>2, <1>3, <1>5, <1>6

-----------------------------------------------------------------------------
(* What is left of a handler.                                               *)

Refusing == {"number", "optNumber", "allocate"}
Unchecked == {"text", "number", "allocate"}
Acts == {"act", "actAnyway"}

\* The parameters it takes without asking are among the n that are there, or it
\* has counted them by then.
Counted(todo, n) ==
  \A k \in DOMAIN todo : todo[k].op \in Unchecked =>
    \/ todo[k].at <= n
    \/ \E j \in 1 .. (k - 1) : todo[j].op = "needs" /\ todo[k].at <= todo[j].at

\* Nothing that can end the process comes after a change.
Orderly(todo) ==
  \A k \in DOMAIN todo : todo[k].op \in Refusing =>
    /\ todo[k].at > 0
    /\ \A j \in 1 .. (k - 1) : todo[j].op \notin Acts

\* Nothing that can end the process is left.
Harmless(todo) == \A k \in DOMAIN todo : todo[k].op \notin Refusing

Steps == Seq([op : Ops, at : Nat])

\* The rest of a handler, with n parameters.
Rest(todo, n) == todo \in Steps /\ Counted(todo, n) /\ Orderly(todo)

\* The first element of a sequence and what is behind it.
LEMMA HeadAndTail ==
  ASSUME NEW S, NEW s \in Seq(S), s # << >>
  PROVE  /\ Tail(s) \in Seq(S) /\ Head(s) = s[1] /\ Head(s) \in S
         /\ Len(s) \in Nat \ {0} /\ DOMAIN s = 1 .. Len(s)
         /\ DOMAIN Tail(s) = 1 .. (Len(s) - 1)
         /\ \A k \in 1 .. (Len(s) - 1) : Tail(s)[k] = s[k + 1]
OBVIOUS

\* The first step of a rest and what is behind it.
LEMMA Behind ==
  ASSUME NEW todo \in Steps, todo # << >>
  PROVE  /\ Tail(todo) \in Steps /\ Head(todo) = todo[1] /\ Len(todo) \in Nat
         /\ Head(todo) \in [op : Ops, at : Nat]
         /\ DOMAIN todo = 1 .. Len(todo) /\ 1 \in DOMAIN todo
         /\ DOMAIN Tail(todo) = 1 .. (Len(todo) - 1)
         /\ \A k \in 1 .. (Len(todo) - 1) :
              Tail(todo)[k] = todo[k + 1] /\ k + 1 \in DOMAIN todo
<1> DEFINE S == [op : Ops, at : Nat]
<1>1. todo \in Seq(S)
  BY DEF Steps
<1> HIDE DEF S
<1>2. /\ Tail(todo) \in Seq(S) /\ Head(todo) = todo[1] /\ Head(todo) \in S
      /\ Len(todo) \in Nat \ {0} /\ DOMAIN todo = 1 .. Len(todo)
      /\ DOMAIN Tail(todo) = 1 .. (Len(todo) - 1)
      /\ \A k \in 1 .. (Len(todo) - 1) : Tail(todo)[k] = todo[k + 1]
  BY <1>1, HeadAndTail
<1> QED BY <1>2 DEF Steps, S

\* An element of a sequence.
LEMMA ElementType ==
  ASSUME NEW S, NEW s \in Seq(S), NEW k \in DOMAIN s
  PROVE  s[k] \in S /\ Len(s) \in Nat /\ DOMAIN s = 1 .. Len(s)
OBVIOUS

\* The steps of a rest have their types.
LEMMA StepType ==
  ASSUME NEW todo \in Steps, NEW k \in DOMAIN todo
  PROVE  todo[k] \in [op : Ops, at : Nat] /\ todo[k].op \in Ops /\ todo[k].at \in Nat
<1> DEFINE S == [op : Ops, at : Nat]
<1>1. todo[k] \in S
  <2>1. todo \in Seq(S)
    BY DEF Steps
  <2> HIDE DEF S
  <2> QED BY <2>1, ElementType
<1> QED BY <1>1

\* A step that is not missing its parameter leaves a rest of the same kind.
LEMMA RestOfRest ==
  ASSUME NEW n \in Nat, NEW todo, Rest(todo, n), todo # << >>,
         Head(todo).op = "needs" => Head(todo).at <= n
  PROVE  Rest(Tail(todo), n)
<1> DEFINE tail == Tail(todo)
<1>1. todo \in Steps /\ Counted(todo, n) /\ Orderly(todo)
  BY DEF Rest
<1>2. /\ tail \in Steps /\ Head(todo) = todo[1] /\ Len(todo) \in Nat /\ 1 \in DOMAIN todo
      /\ DOMAIN todo = 1 .. Len(todo) /\ DOMAIN tail = 1 .. (Len(todo) - 1)
      /\ \A k \in 1 .. (Len(todo) - 1) : tail[k] = todo[k + 1] /\ k + 1 \in DOMAIN todo
  BY <1>1, Behind
<1> HIDE DEF tail
<1>3. Counted(tail, n)
  <2> SUFFICES ASSUME NEW k \in DOMAIN tail, tail[k].op \in Unchecked, ~(tail[k].at <= n)
               PROVE  \E j \in 1 .. (k - 1) : tail[j].op = "needs" /\ tail[k].at <= tail[j].at
    BY DEF Counted
  <2>1. k \in 1 .. (Len(todo) - 1) /\ tail[k] = todo[k + 1] /\ k + 1 \in DOMAIN todo
    BY <1>2
  <2>2. PICK j \in 1 .. k : todo[j].op = "needs" /\ todo[k + 1].at <= todo[j].at
    BY <1>1, <2>1 DEF Counted
  <2>3. j \in DOMAIN todo /\ todo[k + 1].at \in Nat /\ todo[j].at \in Nat
    BY <1>1, <1>2, <2>1, StepType
  <2>4. j # 1
    BY <1>2, <2>1, <2>2, <2>3
  <2>5. j - 1 \in 1 .. (k - 1) /\ tail[j - 1] = todo[j]
    BY <1>2, <2>1, <2>4
  <2> QED BY <2>1, <2>2, <2>5
<1>4. Orderly(tail)
  <2> SUFFICES ASSUME NEW k \in DOMAIN tail, tail[k].op \in Refusing
               PROVE  tail[k].at > 0 /\ \A j \in 1 .. (k - 1) : tail[j].op \notin Acts
    BY DEF Orderly
  <2>1. k \in 1 .. (Len(todo) - 1) /\ tail[k] = todo[k + 1] /\ k + 1 \in DOMAIN todo
    BY <1>2
  <2>2. todo[k + 1].at > 0 /\ \A j \in 1 .. k : todo[j].op \notin Acts
    BY <1>1, <2>1 DEF Orderly
  <2>3. \A j \in 1 .. (k - 1) : tail[j] = todo[j + 1] /\ j + 1 \in 1 .. k
    BY <1>2, <2>1
  <2> QED BY <2>1, <2>2, <2>3
<1> QED BY <1>2, <1>3, <1>4 DEF Rest, tail

\* Behind a change everything is harmless.
LEMMA HarmlessBehindAct ==
  ASSUME NEW todo \in Steps, Orderly(todo), todo # << >>, Head(todo).op \in Acts
  PROVE  Harmless(Tail(todo))
<1>1. /\ Head(todo) = todo[1] /\ Len(todo) \in Nat
      /\ DOMAIN Tail(todo) = 1 .. (Len(todo) - 1)
      /\ \A k \in 1 .. (Len(todo) - 1) : Tail(todo)[k] = todo[k + 1] /\ k + 1 \in DOMAIN todo
  BY Behind
<1> SUFFICES ASSUME NEW k \in 1 .. (Len(todo) - 1), todo[k + 1].op \in Refusing PROVE FALSE
  BY <1>1 DEF Harmless
<1>2. \A j \in 1 .. k : todo[j].op \notin Acts
  BY <1>1 DEF Orderly
<1> QED BY <1>1, <1>2

LEMMA HarmlessTail ==
  ASSUME NEW todo \in Steps, Harmless(todo), todo # << >>
  PROVE  Harmless(Tail(todo)) /\ Head(todo).op \notin Refusing
BY Behind DEF Harmless

-----------------------------------------------------------------------------
(* The handlers and the arguments they are registered with.                 *)

\* The handlers registered with two required arguments.
LEMMA TwoParameters ==
  ASSUME NEW n \in Nat, n >= 2
  PROVE  /\ Rest(IoOpen, n)
         /\ Rest(IoWrite, n)
         /\ Rest(IoRead, n)
         /\ Rest(IoSetSerial, n)
<1> USE DEF Needs, Text, Number, OptText, OptNumber, Allocate, Check, Look, Act, LookAnyway, ActAnyway
<1>1. Rest(IoOpen, n)
  <2>1. IoOpen \in Steps
    BY DEF IoOpen, Steps, Ops
  <2>2. Counted(IoOpen, n)
    BY DEF IoOpen, Counted, Unchecked
  <2>3. Orderly(IoOpen)
    BY DEF IoOpen, Orderly, Refusing, Acts
  <2> QED BY <2>1, <2>2, <2>3 DEF Rest
<1>2. Rest(IoWrite, n)
  <2>1. IoWrite \in Steps
    BY DEF IoWrite, Steps, Ops
  <2>2. Counted(IoWrite, n)
    BY DEF IoWrite, Counted, Unchecked
  <2>3. Orderly(IoWrite)
    BY DEF IoWrite, Orderly, Refusing, Acts
  <2> QED BY <2>1, <2>2, <2>3 DEF Rest
<1>3. Rest(IoRead, n)
  <2>1. IoRead \in Steps
    BY DEF IoRead, Steps, Ops
  <2>2. Counted(IoRead, n)
    BY DEF IoRead, Counted, Unchecked
  <2>3. Orderly(IoRead)
    BY DEF IoRead, Orderly, Refusing, Acts
  <2> QED BY <2>1, <2>2, <2>3 DEF Rest
<1>4. Rest(IoSetSerial, n)
  <2>1. IoSetSerial \in Steps
    BY DEF IoSetSerial, Steps, Ops
  <2>2. Counted(IoSetSerial, n)
    BY DEF IoSetSerial, Counted, Unchecked
  <2>3. Orderly(IoSetSerial)
    BY DEF IoSetSerial, Orderly, Refusing, Acts
  <2> QED BY <2>1, <2>2, <2>3 DEF Rest
<1> QED BY <1>1, <1>2, <1>3, <1>4

\* Those registered with one.
LEMMA OneParameter ==
  ASSUME NEW n \in Nat, n >= 1
  PROVE  /\ Rest(IoTestFlag, n)
         /\ Rest(IoClose, n)
<1> USE DEF Needs, Text, Number, OptText, OptNumber, Allocate, Check, Look, Act, LookAnyway, ActAnyway
<1>1. Rest(IoTestFlag, n)
  <2>1. IoTestFlag \in Steps
    BY DEF IoTestFlag, Steps, Ops
  <2>2. Counted(IoTestFlag, n)
    BY DEF IoTestFlag, Counted, Unchecked
  <2>3. Orderly(IoTestFlag)
    BY DEF IoTestFlag, Orderly, Refusing, Acts
  <2> QED BY <2>1, <2>2, <2>3 DEF Rest
<1>2. Rest(IoClose, n)
  <2>1. IoClose \in Steps
    BY DEF IoClose, Steps, Ops
  <2>2. Counted(IoClose, n)
    BY DEF IoClose, Counted, Unchecked
  <2>3. Orderly(IoClose)
    BY DEF IoClose, Orderly, Refusing, Acts
  <2> QED BY <2>1, <2>2, <2>3 DEF Rest
<1> QED BY <1>1, <1>2

\* The ways through io_ioctl.
LEMMA IoctlParameters ==
  ASSUME NEW n \in Nat, n >= 2, NEW program \in IoIoctl
  PROVE  Rest(program, n)
<1> USE DEF Needs, Text, Number, OptText, OptNumber, Allocate, Check, Look, Act, LookAnyway, ActAnyway
<1>1. Rest(<<Number(1), Number(2), Needs(2), Check>>, n)
  <2>1. <<Number(1), Number(2), Needs(2), Check>> \in Steps
    BY DEF Steps, Ops
  <2>2. Counted(<<Number(1), Number(2), Needs(2), Check>>, n)
    BY DEF Counted, Unchecked
  <2>3. Orderly(<<Number(1), Number(2), Needs(2), Check>>)
    BY DEF Orderly, Refusing, Acts
  <2> QED BY <2>1, <2>2, <2>3 DEF Rest
<1>2. Rest(<<Number(1), Number(2), Needs(2), Needs(3), OptNumber(3), Act>>, n)
  <2>1. <<Number(1), Number(2), Needs(2), Needs(3), OptNumber(3), Act>> \in Steps
    BY DEF Steps, Ops
  <2>2. Counted(<<Number(1), Number(2), Needs(2), Needs(3), OptNumber(3), Act>>, n)
    BY DEF Counted, Unchecked
  <2>3. Orderly(<<Number(1), Number(2), Needs(2), Needs(3), OptNumber(3), Act>>)
    BY DEF Orderly, Refusing, Acts
  <2> QED BY <2>1, <2>2, <2>3 DEF Rest
<1>3. Rest(<<Number(1), Number(2), Needs(2), OptNumber(3), Act>>, n)
  <2>1. <<Number(1), Number(2), Needs(2), OptNumber(3), Act>> \in Steps
    BY DEF Steps, Ops
  <2>2. Counted(<<Number(1), Number(2), Needs(2), OptNumber(3), Act>>, n)
    BY DEF Counted, Unchecked
  <2>3. Orderly(<<Number(1), Number(2), Needs(2), OptNumber(3), Act>>)
    BY DEF Orderly, Refusing, Acts
  <2> QED BY <2>1, <2>2, <2>3 DEF Rest
<1>4. Rest(<<Number(1), Number(2), Needs(2), OptText(3), Act>>, n)
  <2>1. <<Number(1), Number(2), Needs(2), OptText(3), Act>> \in Steps
    BY DEF Steps, Ops
  <2>2. Counted(<<Number(1), Number(2), Needs(2), OptText(3), Act>>, n)
    BY DEF Counted, Unchecked
  <2>3. Orderly(<<Number(1), Number(2), Needs(2), OptText(3), Act>>)
    BY DEF Orderly, Refusing, Acts
  <2> QED BY <2>1, <2>2, <2>3 DEF Rest
<1>5. Rest(<<Number(1), Number(2), Needs(2), LookAnyway, OptNumber(3), Act>>, n)
  <2>1. <<Number(1), Number(2), Needs(2), LookAnyway, OptNumber(3), Act>> \in Steps
    BY DEF Steps, Ops
  <2>2. Counted(<<Number(1), Number(2), Needs(2), LookAnyway, OptNumber(3), Act>>, n)
    BY DEF Counted, Unchecked
  <2>3. Orderly(<<Number(1), Number(2), Needs(2), LookAnyway, OptNumber(3), Act>>)
    BY DEF Orderly, Refusing, Acts
  <2> QED BY <2>1, <2>2, <2>3 DEF Rest
<1> QED BY <1>1, <1>2, <1>3, <1>4, <1>5 DEF IoIoctl

\* A handler of no kind of its own takes nothing.
LEMMA NoParameters ==
  ASSUME NEW n \in Nat, NEW program \in Programs["other"]
  PROVE  Rest(program, n)
<1>1. program \in {<< >>, <<Check>>, <<Act>>}
  BY DEF Programs
<1>2. program \in Steps
  <2>1. << >> \in Steps /\ <<Check>> \in Steps /\ <<Act>> \in Steps
    BY DEF Check, Act, Steps, Ops
  <2> QED BY <1>1, <2>1
<1>3. Counted(program, n) /\ Orderly(program)
  BY <1>1 DEF Check, Act, Counted, Orderly, Unchecked, Refusing
<1> QED BY <1>2, <1>3 DEF Rest

\* The functions of php-io, by their arguments.
OfTwo == {"io_open", "io_write", "io_read", "io_ioctl", "io_set_serial"}
OfOne == {"io_close", "io_test_flag"}
PhpIo(f) ==
  /\ f.parameters = TRUE /\ f.result = TRUE /\ f.modifiers = {}
  /\ \/ f.handler \in OfTwo /\ f.arguments = <<ByVal, ByVal>>
     \/ f.handler \in OfOne /\ f.arguments = <<ByVal>>

LEMMA Registered ==
  ASSUME NEW i \in DOMAIN Functions
  PROVE  /\ Functions[i].kind = "function"
         /\ Functions[i].functions = <<Functions[i].functions[1]>> /\ PhpIo(Functions[i].functions[1])
<1>1. i \in 1 .. 8
  BY DEF Functions
<1> DEFINE F(h, a) == <<Callable(h, a, TRUE, TRUE, {})>>
<1>2. \A h \in OfTwo : F(h, <<ByVal, ByVal>>) = <<F(h, <<ByVal, ByVal>>)[1]>> /\ PhpIo(F(h, <<ByVal, ByVal>>)[1])
  BY DEF PhpIo, Callable
<1>3. \A h \in OfOne : F(h, <<ByVal>>) = <<F(h, <<ByVal>>)[1]>> /\ PhpIo(F(h, <<ByVal>>)[1])
  BY DEF PhpIo, Callable
<1>4. /\ \A h \in {"io_open", "io_write", "io_read", "io_ioctl", "io_set_serial"} : h \in OfTwo
      /\ \A h \in {"io_close", "io_test_flag"} : h \in OfOne
  BY DEF OfTwo, OfOne
<1>5. Functions[1].kind = "function" /\ Functions[1].functions = F("io_open", <<ByVal, ByVal>>)
  BY DEF Functions, Function, Element
<1>6. Functions[2].kind = "function" /\ Functions[2].functions = F("io_write", <<ByVal, ByVal>>)
  BY DEF Functions, Function, Element
<1>7. Functions[3].kind = "function" /\ Functions[3].functions = F("io_read", <<ByVal, ByVal>>)
  BY DEF Functions, Function, Element
<1>8. Functions[4].kind = "function" /\ Functions[4].functions = F("io_close", <<ByVal>>)
  BY DEF Functions, Function, Element
<1>9. Functions[5].kind = "function" /\ Functions[5].functions = F("io_ioctl", <<ByVal, ByVal>>)
  BY DEF Functions, Function, Element
<1>10. Functions[6].kind = "function" /\ Functions[6].functions = F("io_ioctl", <<ByVal, ByVal>>)
  BY DEF Functions, Function, Element
<1>11. Functions[7].kind = "function" /\ Functions[7].functions = F("io_set_serial", <<ByVal, ByVal>>)
  BY DEF Functions, Function, Element
<1>12. Functions[8].kind = "function" /\ Functions[8].functions = F("io_test_flag", <<ByVal>>)
  BY DEF Functions, Function, Element
<1> HIDE DEF F
<1> QED BY <1>1, <1>2, <1>3, <1>4, <1>5, <1>6, <1>7, <1>8, <1>9, <1>10, <1>11, <1>12

\* A function on 1 .. n is a sequence of its values.
LEMMA Sequence ==
  ASSUME NEW U, NEW n \in Nat, NEW f, f = [i \in 1 .. n |-> f[i]], \A i \in 1 .. n : f[i] \in U
  PROVE  f \in Seq(U) /\ Len(f) = n
<1>1. f \in [1 .. n -> U]
  OBVIOUS
<1> QED BY <1>1

\* Two sequences, one behind the other.
LEMMA Concatenation ==
  ASSUME NEW U, NEW s \in Seq(U), NEW t \in Seq(U)
  PROVE  /\ s \o t \in Seq(U) /\ Len(s \o t) = Len(s) + Len(t)
         /\ Len(s) \in Nat /\ Len(t) \in Nat
         /\ DOMAIN s = 1 .. Len(s) /\ DOMAIN t = 1 .. Len(t)
         /\ DOMAIN (s \o t) = 1 .. (Len(s) + Len(t))
         /\ \A i \in 1 .. (Len(s) + Len(t)) :
              (s \o t)[i] = IF i <= Len(s) THEN s[i] ELSE t[i - Len(s)]
OBVIOUS

\* The elements get_module adds, those of php-io first.
LEMMA AddedElements ==
  /\ Added \in Seq(Range(Added)) /\ Elements(Added)
  /\ \A i \in DOMAIN Added :
       \/ i \in DOMAIN Functions /\ Added[i] = Functions[i]
       \/ \A j \in DOMAIN Added[i].functions : Added[i].functions[j] \in Callables
  /\ \A i \in DOMAIN Added :
       \/ i \in DOMAIN Functions /\ Added[i] = Functions[i]
       \/ i - 8 \in DOMAIN Others /\ Added[i] = Others[i - 8]
<1> DEFINE S == [kind : Kinds, name : STRING, functions : Seq(Callables)]
<1>1. Others \in Seq(S) /\ \A i \in DOMAIN Others : Others[i].kind = "function" => Len(Others[i].functions) = 1
  BY ExtensionConstants
<1>2. Len(Functions) = 8 /\ DOMAIN Functions = 1 .. 8
  BY DEF Functions
<1>3. \A i \in DOMAIN Others : Others[i].functions \in Seq(Callables)
  <2> TAKE i \in DOMAIN Others
  <2>1. Others[i] \in S
    <3> HIDE DEF S
    <3> QED BY <1>1, ElementType
  <2> QED BY <2>1
<1>4. \A i \in DOMAIN Others : \A j \in DOMAIN Others[i].functions :
        Others[i].functions[j] \in Callables
  BY <1>3, ElementType
<1>5. /\ Len(Others) \in Nat /\ DOMAIN Others = 1 .. Len(Others)
      /\ Len(Added) = 8 + Len(Others) /\ DOMAIN Added = 1 .. (8 + Len(Others))
      /\ Added = [i \in 1 .. Len(Added) |-> Added[i]]
      /\ \A i \in DOMAIN Added : Added[i] = IF i <= 8 THEN Functions[i] ELSE Others[i - 8]
  <2> DEFINE U == S \cup {Functions[i] : i \in 1 .. 8}
  <2>1. Functions \in Seq(U)
    <3>1. Functions = [i \in 1 .. 8 |-> Functions[i]]
      BY DEF Functions
    <3>2. \A i \in 1 .. 8 : Functions[i] \in U
      OBVIOUS
    <3> HIDE DEF U
    <3> QED BY <3>1, <3>2, Sequence
  <2>2. Others \in Seq(U)
    <3> HIDE DEF S
    <3> QED BY <1>1
  <2> HIDE DEF U
  <2>3. Added = Functions \o Others
    BY DEF Added
  <2>4. /\ Len(Added) = Len(Functions) + Len(Others) /\ Len(Others) \in Nat
        /\ DOMAIN Others = 1 .. Len(Others)
        /\ DOMAIN Added = 1 .. (Len(Functions) + Len(Others))
        /\ \A i \in 1 .. (Len(Functions) + Len(Others)) :
             Added[i] = IF i <= Len(Functions) THEN Functions[i] ELSE Others[i - Len(Functions)]
    BY <2>1, <2>2, <2>3, Concatenation
  <2>5. Added = [i \in 1 .. Len(Added) |-> Added[i]]
    <3>1. Added \in Seq(U)
      BY <2>1, <2>2, <2>3, Concatenation
    <3> HIDE DEF Added
    <3> QED BY <3>1
  <2> QED BY <1>2, <2>4, <2>5
<1>6. \A i \in DOMAIN Added :
       \/ i \in DOMAIN Functions /\ Added[i] = Functions[i]
       \/ i - 8 \in DOMAIN Others /\ Added[i] = Others[i - 8]
  BY <1>2, <1>5
<1>7. \A i \in DOMAIN Added :
        /\ Len(Added[i].functions) \in Nat
        /\ DOMAIN Added[i].functions = 1 .. Len(Added[i].functions)
        /\ Added[i].kind = "function" => Len(Added[i].functions) = 1
  <2> TAKE i \in DOMAIN Added
  <2>1. CASE i \in DOMAIN Functions /\ Added[i] = Functions[i]
    <3>1. PICK f : Functions[i].functions = <<f>>
      BY <2>1, Registered
    <3>2. Len(<<f>>) = 1 /\ DOMAIN <<f>> = 1 .. 1
      OBVIOUS
    <3> QED BY <2>1, <3>1, <3>2
  <2>2. CASE i - 8 \in DOMAIN Others /\ Added[i] = Others[i - 8]
    BY <1>1, <1>3, <2>2
  <2> QED BY <1>6, <2>1, <2>2
<1>8. Added \in Seq(Range(Added))
  <2>1. \A i \in 1 .. Len(Added) : Added[i] \in Range(Added)
    BY <1>5 DEF Range
  <2> QED BY <1>5, <2>1, Sequence
<1> QED BY <1>4, <1>5, <1>6, <1>7, <1>8 DEF Elements

\* A handler that begins has the parameters it takes.
LEMMA Suitable ==
  ASSUME NEW place \in Places(Added), NEW params \in Seq(Params),
         LET f == Added[place[1]].functions[place[2]]
         IN  /\ "Abstract" \notin f.modifiers
             /\ IF f.parameters THEN Valid(f, params) ELSE params = << >>,
         NEW program \in Programs[Added[place[1]].functions[place[2]].handler]
  PROVE  Rest(program, Len(params))
<1> DEFINE f == Added[place[1]].functions[place[2]]
           n == Len(params)
<1>1. n \in Nat
  OBVIOUS
<1>2. place[1] \in DOMAIN Added /\ place[2] \in DOMAIN Added[place[1]].functions
  BY DEF Places
<1>3. CASE place[1] \in DOMAIN Functions /\ Added[place[1]] = Functions[place[1]]
  <2>1. /\ Functions[place[1]].functions = <<Functions[place[1]].functions[1]>>
        /\ PhpIo(Functions[place[1]].functions[1])
    BY <1>3, Registered
  <2>2. PhpIo(f)
    <3>1. \A x : DOMAIN <<x>> = {1}
      OBVIOUS
    <3>2. place[2] = 1
      BY <1>2, <1>3, <2>1, <3>1
    <3> QED BY <1>3, <2>1, <3>2
  <2>3. Valid(f, params)
    BY <2>2 DEF PhpIo
  <2>4. CASE f.handler \in OfTwo /\ f.arguments = <<ByVal, ByVal>>
    <3>1. n >= 2
      BY <1>1, <2>3, <2>4 DEF Valid, ByVal, Argument
    <3>2. /\ Programs["io_open"] = {IoOpen} /\ Programs["io_write"] = {IoWrite}
          /\ Programs["io_read"] = {IoRead} /\ Programs["io_set_serial"] = {IoSetSerial}
          /\ Programs["io_ioctl"] = IoIoctl
      BY DEF Programs
    <3> HIDE DEF n, f
    <3>3. Rest(IoOpen, n) /\ Rest(IoWrite, n) /\ Rest(IoRead, n) /\ Rest(IoSetSerial, n)
      BY <1>1, <3>1, TwoParameters
    <3>4. \A p \in IoIoctl : Rest(p, n)
      BY <1>1, <3>1, IoctlParameters
    <3>5. program \in Programs[f.handler]
      BY DEF f
    <3> QED BY <2>4, <3>2, <3>3, <3>4, <3>5 DEF n, OfTwo
  <2>5. CASE f.handler \in OfOne /\ f.arguments = <<ByVal>>
    <3>1. n >= 1
      BY <1>1, <2>3, <2>5 DEF Valid, ByVal, Argument
    <3>2. Programs["io_close"] = {IoClose} /\ Programs["io_test_flag"] = {IoTestFlag}
      BY DEF Programs
    <3> HIDE DEF n, f
    <3>3. Rest(IoTestFlag, n) /\ Rest(IoClose, n)
      BY <1>1, <3>1, OneParameter
    <3>4. program \in Programs[f.handler]
      BY DEF f
    <3> QED BY <2>5, <3>2, <3>3, <3>4 DEF n, OfOne
  <2> QED BY <2>2, <2>4, <2>5 DEF PhpIo
<1>4. CASE \A j \in DOMAIN Added[place[1]].functions : Added[place[1]].functions[j] \in Callables
  <2>1. f.handler = "other"
    BY <1>2, <1>4 DEF Callables
  <2> QED BY <1>1, <2>1, NoParameters
<1> QED BY <1>2, <1>3, <1>4, AddedElements

-----------------------------------------------------------------------------
(* The invariant.                                                           *)

\* The elements registered are the first ones of Added, and the engine has all
\* of them once the extension is locked.
Loading ==
  /\ inModule => ~call.running
  /\ adding \in 0 .. Len(Added) /\ (~inModule => adding = 0)
  /\ locked => entries = Added /\ registered = Added /\ allocated = Count(Added)
  /\ ~locked => /\ entries = << >> /\ allocated = 0
                /\ registered \in Seq(Range(Added)) /\ Len(registered) = adding
                /\ \A i \in 1 .. adding : registered[i] = Added[i]

\* What a call in progress has left is a rest, harmless once it has changed something.
Running ==
  call.running =>
    /\ call.function \in Places(entries)
    /\ Rest(call.todo, Len(call.params))
    /\ call.touched => Harmless(call.todo)
    /\ outcome = "none"

Typed ==
  /\ locked \in BOOLEAN /\ inModule \in BOOLEAN
  /\ call \in Calls /\ outcome \in Outcomes

IInv == Typed /\ Loading /\ Running /\ DeathHarmless

LEMMA LoadInv == IInv /\ (GetModule \/ Add \/ Module) => IInv'
<1> SUFFICES ASSUME IInv, GetModule \/ Add \/ Module PROVE IInv'
  OBVIOUS
<1>1. call' = call /\ outcome' = outcome
  BY DEF GetModule, Add, Module
<1>2. Added \in Seq(Range(Added)) /\ Len(Added) \in Nat
  BY AddedElements DEF Elements
<1>3. CASE GetModule
  BY <1>3 DEF GetModule, IInv, Typed, Loading, Running, DeathHarmless
<1>4. CASE Add
  <2>1. Typed' /\ DeathHarmless' /\ Running'
    BY <1>1, <1>4 DEF Add, IInv, Typed, Running, Loading, DeathHarmless
  <2>2. CASE locked
    BY <1>1, <1>2, <1>4, <2>1, <2>2 DEF Add, IInv, Typed, Loading
  <2>3. CASE ~locked
    <3> DEFINE S == Range(Added)
    <3>1. registered \in Seq(S) /\ Added[adding + 1] \in S
      BY <1>2, <1>4, <2>3 DEF Add, IInv, Loading, Range
    <3> HIDE DEF S
    <3>2. /\ registered' \in Seq(S) /\ Len(registered') = adding + 1
          /\ \A i \in 1 .. (adding + 1) : registered'[i] = Added[i]
      BY <1>4, <2>3, <3>1 DEF Add, IInv, Loading
    <3> QED BY <1>1, <1>2, <1>4, <2>1, <2>3, <3>2 DEF Add, IInv, Loading, S
  <2> QED BY <2>2, <2>3
<1>5. CASE Module
  <2>1. registered = Added
    <3> DEFINE S == Range(Added)
    <3>1. CASE ~locked
      <4>1. /\ registered \in Seq(S) /\ Len(registered) = Len(Added)
            /\ \A i \in 1 .. Len(Added) : registered[i] = Added[i]
        BY <1>5, <3>1 DEF Module, IInv, Loading
      <4>2. Added \in Seq(S)
        BY <1>2
      <4> HIDE DEF S, Added
      <4> QED BY <4>1, <4>2
    <3> QED BY <3>1 DEF IInv, Loading
  <2>2. entries' = Added /\ registered' = Added /\ allocated' = Count(Added) /\ locked' = TRUE
    BY <1>5, <2>1 DEF Module, IInv, Loading
  <2>3. Loading'
    BY <1>2, <1>5, <2>2 DEF Module, Loading
  <2>4. Running'
    BY <1>1, <1>5 DEF Module, IInv, Loading, Running
  <2> QED BY <1>1, <1>5, <2>2, <2>3, <2>4 DEF Module, IInv, Typed, DeathHarmless
<1> QED BY <1>3, <1>4, <1>5

\* The fields of a call.
LEMMA CallFields ==
  ASSUME NEW c \in Calls
  PROVE  /\ c.running \in BOOLEAN /\ c.function \in Nat \X Nat /\ c.params \in Seq(Params)
         /\ c.todo \in Steps /\ c.touched \in BOOLEAN
         /\ c = [running |-> c.running, function |-> c.function, params |-> c.params,
                 todo |-> c.todo, touched |-> c.touched]
BY DEF Calls, Steps

\* A call that begins.
LEMMA BeginInv == IInv /\ (InvokeWithParams \/ Invoke) => IInv'
<1> SUFFICES ASSUME IInv, InvokeWithParams \/ Invoke PROVE IInv'
  OBVIOUS
<1>1. PICK place \in Places(entries), params \in Seq(Params) :
        /\ Called(place) /\ Loaded
        /\ \/ /\ IF At(place).parameters THEN Valid(At(place), params) ELSE params = << >>
              /\ Begin(place, params)
           \/ /\ outcome' = "warning"
              /\ call' = [NoCall EXCEPT !.function = place, !.params = params]
  <2>1. CASE InvokeWithParams
    <3>1. PICK place \in Places(entries), n \in 0 .. MaxParams : \E params \in [1 .. n -> Params] :
            /\ Called(place) /\ At(place).parameters
            /\ IF Valid(At(place), params)
               THEN Begin(place, params)
               ELSE /\ outcome' = "warning"
                    /\ call' = [NoCall EXCEPT !.function = place, !.params = params]
            /\ Loaded
      BY <2>1, Zenon DEF InvokeWithParams
    <3>2. \A params \in [1 .. n -> Params] : params \in Seq(Params)
      BY ExtensionConstants
    <3> QED BY <3>1, <3>2, Zenon
  <2>2. CASE Invoke
    <3>1. << >> \in Seq(Params)
      OBVIOUS
    <3> QED BY <2>2, <3>1, Zenon DEF Invoke
  <2> QED BY <2>1, <2>2
<1>2. /\ ~inModule /\ ~call.running /\ "Abstract" \notin At(place).modifiers
      /\ locked' = locked /\ inModule' = inModule /\ adding' = adding /\ allocated' = allocated
      /\ entries' = entries /\ registered' = registered
  BY <1>1 DEF Called, Loaded
<1>3. locked /\ entries = Added
  <2>1. Places(<< >>) = {}
    BY DEF Places
  <2> QED BY <1>1, <2>1 DEF IInv, Typed, Loading
<1>4. place \in Nat \X Nat
  <2>1. DOMAIN Added = 1 .. Len(Added) /\ Len(Added) \in Nat
    BY AddedElements DEF Elements
  <2>2. \A i \in DOMAIN Added : \A j \in DOMAIN Added[i].functions : <<i, j>> \in Nat \X Nat
    BY <2>1, AddedElements DEF Elements
  <2> QED BY <1>3, <2>2 DEF Places
<1>5. Loading'
  BY <1>2 DEF IInv, Loading
<1>6. CASE Begin(place, params) /\ IF At(place).parameters THEN Valid(At(place), params) ELSE params = << >>
  <2>1. PICK program \in Programs[At(place).handler] :
          /\ call' = [running |-> TRUE, function |-> place, params |-> params, todo |-> program,
                      touched |-> FALSE]
          /\ outcome' = "none"
    BY <1>6 DEF Begin
  <2>2. Rest(program, Len(params))
    BY <1>2, <1>3, <1>6, Suitable DEF At
  <2>3. call' \in Calls
    <3>1. program \in Seq([op : Ops, at : Nat])
      BY <2>2 DEF Rest, Steps
    <3> QED BY <1>4, <2>1, <3>1 DEF Calls
  <2>4. Running'
    BY <1>2, <2>1, <2>2 DEF Running
  <2>5. Typed' /\ DeathHarmless'
    BY <1>2, <2>1, <2>3 DEF IInv, Typed, Outcomes, DeathHarmless
  <2> QED BY <1>5, <2>4, <2>5 DEF IInv
<1>7. CASE /\ outcome' = "warning"
           /\ call' = [NoCall EXCEPT !.function = place, !.params = params]
  <2>1. call' \in Calls /\ call'.running = FALSE
    <3>1. << >> \in Seq([op : Ops, at : Nat])
      OBVIOUS
    <3>2. call' = [running |-> FALSE, function |-> place, params |-> params, todo |-> << >>,
                   touched |-> FALSE]
      BY <1>7 DEF NoCall
    <3> QED BY <1>4, <3>1, <3>2 DEF Calls
  <2> QED BY <1>2, <1>5, <1>7, <2>1 DEF IInv, Typed, Running, Outcomes, DeathHarmless
<1> QED BY <1>1, <1>6, <1>7

\* A call that goes on: the rest is one step shorter.
LEMMA ProceedInv == IInv /\ (TakesText \/ TakesNumber \/ Passes) => IInv'
<1> SUFFICES ASSUME IInv, TakesText \/ TakesNumber \/ Passes PROVE IInv'
  OBVIOUS
<1>1. call \in Calls /\ call.running /\ call.todo # << >>
  BY DEF IInv, Typed, TakesText, TakesNumber, Passes, Is
<1>2. /\ call.params \in Seq(Params) /\ Len(call.params) \in Nat /\ call.todo \in Steps
      /\ Rest(call.todo, Len(call.params)) /\ call.function \in Places(entries)
      /\ call.touched => Harmless(call.todo)
  BY <1>1, CallFields DEF IInv, Running
<1>3. /\ Loaded /\ outcome' = outcome
      /\ \/ call' = [call EXCEPT !.todo = Tail(call.todo)]
         \/ Step.op \in Acts /\ call' = [call EXCEPT !.todo = Tail(call.todo), !.touched = TRUE]
  <2>1. CASE TakesText \/ TakesNumber
    BY <2>1 DEF TakesText, TakesNumber, Proceed
  <2>2. CASE Passes
    <3>1. CASE Step.op \in Acts
      BY <2>2, <3>1 DEF Passes, Acts
    <3>2. CASE Step.op \notin Acts
      <4>1. (call.touched \/ Step.op \in {"act", "actAnyway"}) = call.touched
        BY <1>1, <3>2, CallFields DEF Acts
      <4> QED BY <1>1, <2>2, <3>2, <4>1, CallFields DEF Passes
    <3> QED BY <2>2, <3>1, <3>2 DEF Passes
  <2> QED BY <2>1, <2>2
<1>4. Step.op = "needs" => Step.at <= Len(call.params)
  BY DEF TakesText, TakesNumber, Passes, Is, Given
<1>5. Rest(Tail(call.todo), Len(call.params))
  BY <1>1, <1>2, <1>4, RestOfRest DEF Step
<1>6. /\ call'.running = TRUE /\ call'.function = call.function /\ call'.params = call.params
      /\ call'.todo = Tail(call.todo)
      /\ call' \in Calls
      /\ call'.touched => Harmless(call'.todo)
  <2>1. Tail(call.todo) \in Seq([op : Ops, at : Nat])
    BY <1>5 DEF Rest, Steps
  <2>2. CASE call' = [call EXCEPT !.todo = Tail(call.todo)]
    <3>1. call.touched => Harmless(Tail(call.todo))
      BY <1>1, <1>2, HarmlessTail
    <3> QED BY <1>1, <2>1, <2>2, <3>1 DEF Calls
  <2>3. CASE Step.op \in Acts /\ call' = [call EXCEPT !.todo = Tail(call.todo), !.touched = TRUE]
    <3>1. Harmless(Tail(call.todo))
      BY <1>1, <1>2, <2>3, HarmlessBehindAct DEF Rest, Step
    <3> QED BY <1>1, <2>1, <2>3, <3>1 DEF Calls
  <2> QED BY <1>3, <2>2, <2>3
<1>7. outcome = "none"
  BY <1>1 DEF IInv, Running
<1>8. Typed' /\ Loading' /\ Running' /\ DeathHarmless'
  BY <1>1, <1>2, <1>3, <1>5, <1>6, <1>7
  DEF Loaded, IInv, Typed, Loading, Running, DeathHarmless
<1> QED BY <1>8 DEF IInv

\* A call that ends.
LEMMA EndInv == IInv /\ (Throws \/ Yields \/ Dies \/ Handled) => IInv'
<1> SUFFICES ASSUME IInv, Throws \/ Yields \/ Dies \/ Handled PROVE IInv'
  OBVIOUS
<1>1. call \in Calls /\ call.todo \in Steps /\ call.params \in Seq(Params)
  BY CallFields DEF IInv, Typed
<1>2. CASE Throws
  <2>1. Loaded /\ outcome' = "exception"
    BY <1>2 DEF Throws
  <2>2. call'.running = FALSE /\ call' \in Calls
    <3>1. (call.touched \/ Step.op = "act") \in BOOLEAN
      OBVIOUS
    <3>2. PICK t \in BOOLEAN : call' = [call EXCEPT !.running = FALSE, !.touched = t]
      BY <1>2, <3>1 DEF Throws
    <3> QED BY <1>1, <3>2 DEF Calls
  <2> QED BY <2>1, <2>2 DEF Loaded, IInv, Typed, Loading, Running, DeathHarmless, Outcomes
<1>3. CASE Yields
  <2>1. Loaded /\ outcome' \in {"value", "null"} /\ call' = [call EXCEPT !.running = FALSE]
    BY <1>3 DEF Yields, End
  <2>2. call'.running = FALSE /\ call' \in Calls
    BY <1>1, <2>1 DEF Calls
  <2> QED BY <2>1, <2>2 DEF Loaded, IInv, Typed, Loading, Running, DeathHarmless, Outcomes
<1>4. CASE Dies
  <2>1. /\ registered' = << >> /\ locked' = FALSE /\ allocated' = 0 /\ entries' = << >>
        /\ adding' = adding /\ inModule' = inModule
        /\ outcome' = "died" /\ call' = [call EXCEPT !.running = FALSE]
    BY <1>4 DEF Dies, End
  <2>2. call'.running = FALSE /\ call' \in Calls
    BY <1>1, <2>1 DEF Calls
  <2>3. /\ call.running /\ call.todo # << >> /\ Step.op \in Refusing /\ Given
        /\ call.params[Step.at] # "number"
    BY <1>4 DEF Dies, Is, Refusing
  <2>4. ~inModule /\ adding = 0
    BY <2>3 DEF IInv, Loading
  <2>5. Rest(call.todo, Len(call.params)) /\ (call.touched => Harmless(call.todo))
    BY <2>3 DEF IInv, Running
  <2>6. ~call.touched
    BY <1>1, <2>3, <2>5, HarmlessTail DEF Step
  <2>7. Step.at \in DOMAIN call.params
    <3>1. Step = call.todo[1] /\ 1 \in DOMAIN call.todo /\ Step.at \in Nat
      BY <1>1, <2>3, Behind DEF Step
    <3>2. Step.at > 0
      BY <2>3, <2>5, <3>1 DEF Rest, Orderly
    <3>3. Step.at <= Len(call.params)
      BY <2>3 DEF Given
    <3> QED BY <1>1, <3>1, <3>2, <3>3
  <2>8. call'.touched = call.touched /\ call'.params = call.params
    BY <1>1, <2>1 DEF Calls
  <2>9. DeathHarmless'
    BY <2>3, <2>6, <2>7, <2>8 DEF DeathHarmless
  <2>10. Loading'
    <3>1. << >> \in Seq(Range(Added)) /\ Len(<< >>) = 0 /\ 0 \in 0 .. Len(Added)
      BY AddedElements DEF Elements
    <3> QED BY <2>1, <2>2, <2>4, <3>1 DEF Loading
  <2> QED BY <2>1, <2>2, <2>9, <2>10 DEF IInv, Typed, Running, Outcomes
<1>5. CASE Handled
  <2>1. NoCall \in Calls /\ NoCall.running = FALSE
    <3>1. << >> \in Seq([op : Ops, at : Nat]) /\ << >> \in Seq(Params) /\ <<0, 0>> \in Nat \X Nat
      OBVIOUS
    <3> QED BY <3>1 DEF NoCall, Calls
  <2>2. Loaded /\ outcome' = "none" /\ call' = NoCall
    BY <1>5 DEF Handled
  <2> QED BY <2>1, <2>2 DEF Loaded, IInv, Typed, Loading, Running, DeathHarmless, Outcomes
<1> QED BY <1>2, <1>3, <1>4, <1>5

\* The invariant holds in every state.
THEOREM Invariance == Spec => []IInv
<1>1. Init => IInv
  <2> SUFFICES ASSUME Init PROVE IInv
    OBVIOUS
  <2>1. NoCall \in Calls /\ NoCall.running = FALSE
    <3>1. << >> \in Seq([op : Ops, at : Nat]) /\ << >> \in Seq(Params) /\ <<0, 0>> \in Nat \X Nat
      OBVIOUS
    <3> QED BY <3>1 DEF NoCall, Calls
  <2>2. Loading
    <3>1. << >> \in Seq(Range(Added)) /\ Len(<< >>) = 0 /\ 0 \in 0 .. Len(Added)
      BY AddedElements DEF Elements
    <3> QED BY <2>1, <3>1 DEF Init, Loading
  <2> QED BY <2>1, <2>2 DEF Init, IInv, Typed, Running, Outcomes, DeathHarmless
<1>2. IInv /\ UNCHANGED vars => IInv'
  BY DEF vars, IInv, Typed, Loading, Running, DeathHarmless
<1>3. IInv /\ [Next]_vars => IInv'
  BY <1>2, LoadInv, BeginInv, ProceedInv, EndInv DEF Next
<1> QED BY <1>1, <1>3, PTL DEF Spec

\* No handler reads behind its parameters, whatever is passed to it: the required
\* arguments main.cpp registers are enough for what is taken before the check.
THEOREM NothingBehindParameters == Spec => []ArgumentsThere
<1>1. IInv => ArgumentsThere
  <2> SUFFICES ASSUME IInv, Is(Unchecked) PROVE Given
    BY DEF ArgumentsThere, Unchecked
  <2>1. /\ call.todo \in Steps /\ call.todo # << >> /\ Step.op \in Unchecked
        /\ Rest(call.todo, Len(call.params))
    BY CallFields DEF IInv, Typed, Running, Is
  <2>2. Step = call.todo[1] /\ 1 \in DOMAIN call.todo
    BY <2>1, Behind DEF Step
  <2>3. Step.at <= Len(call.params)
    BY <2>1, <2>2 DEF Rest, Counted
  <2> QED BY <2>3 DEF Given
<1> QED BY <1>1, Invariance, PTL

\* What is no number ends the process before anything was changed.
THEOREM HarmlessDeath == Spec => []DeathHarmless
<1>1. IInv => DeathHarmless
  BY DEF IInv
<1> QED BY <1>1, Invariance, PTL

\* Loading again adds nothing to what the engine has.
THEOREM LoadedOnce == Spec => []ReloadKeeps
<1>1. IInv => ReloadKeeps
  BY DEF IInv, Loading, ReloadKeeps
<1> QED BY <1>1, Invariance, PTL

\* The table is as large as what it is filled with, for any namespaces.
THEOREM RoomForAll == Spec => []TableFits
<1>1. IInv => TableFits
  BY AddedElements, CountIsCardinality DEF IInv, Loading, TableFits
<1> QED BY <1>1, Invariance, PTL

\* The variables keep their types.
THEOREM TypeCorrect == Spec => []TypeOK
<1>1. IInv => TypeOK
  <2> SUFFICES ASSUME IInv PROVE TypeOK
    OBVIOUS
  <2>1. Len(Added) \in Nat /\ DOMAIN Added = 1 .. Len(Added) /\ Count(Added) \in Nat
    BY AddedElements, CountIsCardinality DEF Elements
  <2>2. \A i \in DOMAIN Added : Added[i] \in Range(Added)
    BY DEF Range
  <2>3. CASE locked
    BY <2>1, <2>2, <2>3 DEF IInv, Typed, Loading, Running, TypeOK
  <2>4. CASE ~locked
    <3>1. \A i \in DOMAIN registered : registered[i] \in Range(Added)
      <4> DEFINE S == Range(Added)
      <4>1. registered \in Seq(S)
        BY <2>4 DEF IInv, Loading
      <4> HIDE DEF S
      <4>2. \A i \in DOMAIN registered : registered[i] \in S
        BY <4>1, ElementType
      <4> QED BY <4>2 DEF S
    <3>2. entries = << >> /\ allocated = 0 /\ DOMAIN << >> = {}
      BY <2>4 DEF IInv, Loading
    <3> QED BY <2>1, <2>4, <3>1, <3>2 DEF IInv, Typed, Loading, Running, TypeOK
  <2> QED BY <2>3, <2>4
<1> QED BY <1>1, Invariance, PTL
=============================================================================
