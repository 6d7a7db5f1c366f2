------------------------------- MODULE Members -------------------------------
(***************************************************************************)
(* Values and their members in the library the extension is written with:  *)
(* Php::Value (value.h), the members v["a"][0] (hashmember.h) that hold    *)
(* no value but a pointer to their parent and an index, arrays of fixed    *)
(* type (array.h) and variables of the script (global.h).                  *)
(*                                                                         *)
(* Objects are left out, and so is moving, which leaves the source to the  *)
(* part of the library that is not here.                                   *)
(***************************************************************************)
EXTENDS Integers, Sequences, FiniteSets, ValueTrees

CONSTANTS Kinds,        \* of each variable: "plain", "fixed" or "global"
          Names,        \* keys that are text
          Numbers,      \* the values of Value indices, int64_t
          Width,        \* the number of ints
          Base,         \* numbers wrap at it
          MaxDepth,     \* how many indices in a row, at most
          MaxPlaces     \* how many places the variables have between them, at most

Variables == DOMAIN Kinds

ASSUME MembersConstants ==
  /\ Kinds \in [Variables -> {"plain", "fixed", "global"}]
  /\ Numbers \subseteq Int
  /\ Width \in Nat /\ Width > 3 /\ Width % 2 = 0
  /\ Base \in Nat \ {0} /\ MaxDepth \in Nat /\ MaxPlaces \in Nat

-----------------------------------------------------------------------------
(* Values.                                                                  *)

Null == [kind |-> "null"]
Scalar(n) == [kind |-> "scalar", n |-> n]
ArrayOf(items) == [kind |-> "array", items |-> items]
Empty == ArrayOf(<< >>)
IsArray(v) == v.kind = "array"

\* An index: an int, a text, or a Value, whose number is passed on as an int.
ByInt(n) == [by |-> "int", key |-> n]
ByName(name) == [by |-> "name", key |-> name]
ByValue(key) == [by |-> "value", key |-> key]

Narrow(n) == ((n + Width \div 2) % Width) - (Width \div 2)
KeyWide(index) == index.key
Key(index) == IF index.by = "value" /\ index.key \notin Names THEN Narrow(index.key) ELSE index.key
Ints == -(Width \div 2) .. (Width \div 2) - 1

\* One level of a value.  Only an array has elements; setting one turns what is
\* no array into one, with the value as its element 0, unless it is NULL.
Contains(v, index) == IsArray(v) /\ Key(index) \in DOMAIN v.items
Get(v, index) == IF Contains(v, index) THEN v.items[Key(index)] ELSE Null
AsArray(v) == CASE IsArray(v) -> v.items
                [] v = Null -> << >>
                [] OTHER -> [k \in {0} |-> v]
With(items, key, x) == [k \in {key} \cup DOMAIN items |-> IF k = key THEN x ELSE items[k]]
Set(v, index, x) == ArrayOf(With(AsArray(v), Key(index), x))
Unset(v, index) ==
  IF IsArray(v) THEN ArrayOf([k \in DOMAIN v.items \ {Key(index)} |-> v.items[k]]) ELSE v

\* Conversions from and to vectors.
FromVector(list) == ArrayOf([i \in 0 .. Len(list) - 1 |-> list[i + 1]])
FromMap(map) == ArrayOf(map)
Size(v) == Cardinality(DOMAIN v.items)

\* All elements with an index, however many there are.
VectorValueToLast(v) ==
  IF ~IsArray(v) THEN << >>
  ELSE LET upTo[i \in 0 .. Width] ==
             IF i = 0 THEN << >>
             ELSE upTo[i - 1] \o (IF Contains(v, ByInt(i - 1)) THEN <<Get(v, ByInt(i - 1))>> ELSE << >>)
       IN  upTo[Width]

VectorValue(v) ==
  IF ~IsArray(v) THEN << >>
  ELSE LET upTo[i \in 0 .. Size(v)] ==
             IF i = 0 THEN << >>
             ELSE upTo[i - 1] \o (IF Contains(v, ByInt(i - 1)) THEN <<Get(v, ByInt(i - 1))>> ELSE << >>)
       IN  upTo[Size(v)]

-----------------------------------------------------------------------------
(* Members: v[path[1]]...[path[n]].                                         *)

\* Whether each member of the chain exists, and its value, asked of its parent.
Chain(v, path) ==
  LET member[i \in 0 .. Len(path)] ==
        IF i = 0 THEN [exists |-> TRUE, value |-> v]
        ELSE LET parent == member[i - 1]
             IN  [exists |-> parent.exists /\ Contains(parent.value, path[i]),
                  value |-> IF parent.exists THEN Get(parent.value, path[i]) ELSE Null]
  IN  member

Exists(v, path) == Chain(v, path)[Len(path)].exists
ValueAt(v, path) == Chain(v, path)[Len(path)].value

\* Every member starts from an empty array.
AssignAfresh(v, path, x) ==
  LET n == Len(path)
      written[k \in 0 .. n] ==
        IF k = 0 THEN x ELSE Set(Null, path[n - k + 1], written[k - 1])
  IN  written[n]

\* Assigning to a member writes the value into a copy of its parent, and that
\* into the parent's parent, up to the variable.
Assign(v, path, x) ==
  LET n == Len(path)
      written[k \in 0 .. n] ==
        IF k = 0 THEN x
        ELSE Set(Chain(v, path)[n - k].value, path[n - k + 1], written[k - 1])
  IN  written[n]

\* The element is unset in the copy, which is passed on to nobody.
UnsetForgotten(v, path) == IF Len(path) = 1 THEN Unset(v, path[1]) ELSE v

\* Unsetting a member: of the variable itself, or of a copy of the parent if
\* there is one and it has the element.
UnsetAt(v, path) ==
  LET parent == SubSeq(path, 1, Len(path) - 1)
      index == path[Len(path)]
      current == ValueAt(v, parent)
  IN  CASE Len(path) = 1 -> Unset(v, index)
        [] Len(path) > 1 /\ Exists(v, parent) /\ Contains(current, index) ->
             Assign(v, parent, Unset(current, index))
        [] OTHER -> v

\* PHP's arithmetic, on numbers that wrap; NULL counts as 0.
Arithmetic(op, v, n) ==
  LET m == IF v = Null THEN 0 ELSE v.n
  IN  Scalar((CASE op = "+" -> m + n
                [] op = "-" -> m - n
                [] op = "*" -> m * n
                [] op = "/" -> IF n = 0 THEN 0 ELSE m \div n
                [] op = "%" -> IF n = 0 THEN 0 ELSE m % n) % Base)
Operators == {"+", "-", "*", "/", "%"}

\* v[...] + n and the others.
Computed(op, v, path, n) == Arithmetic(op, ValueAt(v, path), n)

-----------------------------------------------------------------------------
VARIABLES
  values,       \* of each variable
  exists,       \* the globals the script has
  direct        \* the globals changed by an operator of Value itself

vars == <<values, exists, direct>>

Globals == {v \in Variables : Kinds[v] = "global"}

\* Only the first index can be a Value.
Indices == {ByInt(Narrow(n)) : n \in Numbers} \cup {ByName(name) : name \in Names}
ValueIndices == {ByValue(key) : key \in Numbers \cup Names}
PathsOf(lengths) == UNION {[1 .. n -> Indices] : n \in lengths}
PlainPaths == PathsOf(1 .. MaxDepth)
Paths == PlainPaths
  \cup UNION {{<<index>> \o path : path \in PathsOf(0 .. MaxDepth - 1)} : index \in ValueIndices}

\* The places of a value, each with what is there: itself, its elements, theirs.
Parts(v) ==
  LET level[d \in 0 .. MaxDepth] ==
        IF d = 0 THEN {<< << >>, v >>}
        ELSE UNION {{<<Append(part[1], k), part[2].items[k]>> : k \in DOMAIN part[2].items} :
                      part \in {part \in level[d - 1] : IsArray(part[2])}}
  IN  UNION {level[d] : d \in 0 .. MaxDepth}

\* What is assigned: NULL, a number, a vector or a map, or what is somewhere.
Leaves == {Null, Empty} \cup {Scalar(n) : n \in 0 .. Base - 1}
Literals ==
  Leaves
  \cup {FromVector(<<Scalar(0), Null>>)} \cup {FromMap([k \in {name} |-> Scalar(0)]) : name \in Names}
Offered == Literals \cup UNION {{part[2] : part \in Parts(values[w])} : w \in Variables}

\* An array of fixed type is made empty or from an array, a vector or a map.
Init ==
  /\ values \in [Variables -> Literals]
  /\ \A v \in Variables : IF Kinds[v] = "fixed" THEN IsArray(values[v]) ELSE values[v] = Null
  /\ exists = {} /\ direct = {}

\* What the bounds leave of the values after a step.
Bounded ==
  LET parts == UNION {{v} \X Parts(values'[v]) : v \in Variables}
  IN  /\ Cardinality(parts) <= MaxPlaces
      /\ \A p \in parts : Len(p[2][1]) = MaxDepth => ~IsArray(p[2][2])

\* A global the script does not have yet is given to it; set and = see to that.
NoUpdate(v) == UNCHANGED exists
Update(v) == exists' = exists \cup ({v} \cap Globals)

\* v[...] = x, or = w[...] if that has an index of another type and becomes a
\* Value: between members of one type the compiler's own assignment copies the
\* pointer and the index from one temporary to the other, which changes nothing.
AssignToMember == \E v \in Variables, path \in Paths, x \in Offered :
  /\ values' = [values EXCEPT ![v] = Assign(@, path, x)]
  /\ Bounded
  /\ Update(v)
  /\ UNCHANGED direct

\* v[...] += n and the others.  PHP has none of them for arrays.
ComputeMember == \E v \in Variables, path \in Paths :
  /\ ~IsArray(ValueAt(values[v], path))
  /\ \E x \in UNION {{Computed(op, values[v], path, n) : n \in 0 .. Base - 1} : op \in Operators} :
       values' = [values EXCEPT ![v] = Assign(@, path, x)]
  /\ Bounded
  /\ Update(v)
  /\ UNCHANGED direct

\* unset(v[...]): only a set in the variable updates a global.
UnsetMember == \E v \in Variables, path \in Paths :
  /\ values' = [values EXCEPT ![v] = UnsetAt(@, path)]
  /\ IF Len(path) > 1 /\ Exists(values[v], path) THEN Update(v) ELSE NoUpdate(v)
  /\ UNCHANGED direct

\* v = x.  An array of fixed type refuses what is no array in its own operator=;
\* that of Value is not virtual and asks nothing when v is a Value& to such an
\* array, so any value gets there.
AssignVariable == \E v \in Variables, x \in Offered :
  /\ values' = [values EXCEPT ![v] = x]
  /\ Bounded
  /\ Update(v)
  /\ UNCHANGED direct

\* Nothing but an array is an array's type.
Takes(v, x) == Kinds[v] = "fixed" => IsArray(x)

\* v.setType(...), which is virtual.
SetType == \E v \in Variables : \E x \in {Null, Scalar(0), ArrayOf(AsArray(values[v]))} :
  /\ Takes(v, x)
  /\ values' = [values EXCEPT ![v] = x]
  /\ Bounded
  /\ NoUpdate(v)
  /\ direct' = direct \cup ({v} \cap Globals)

\* v += n and the others are operators of Value, which knows of no global.
ComputeVariable == \E v \in Variables, op \in Operators, n \in 0 .. Base - 1 :
  /\ ~IsArray(values[v])
  /\ values' = [values EXCEPT ![v] = Arithmetic(op, @, n)]
  /\ NoUpdate(v)
  /\ direct' = direct \cup ({v} \cap Globals)

Next ==
  \/ AssignToMember \/ ComputeMember \/ UnsetMember
  \/ AssignVariable \/ SetType \/ ComputeVariable

Spec == Init /\ [][Next]_vars

-----------------------------------------------------------------------------
(* Properties.                                                              *)

\* The values are built of NULL, numbers and arrays with the keys there are.
TypeOK ==
  /\ DOMAIN values = Variables
  /\ \A v \in Variables : \A part \in Parts(values[v]) :
       \/ part[2] \in {Null} \cup {Scalar(n) : n \in 0 .. Base - 1}
       \/ part[2].kind = "array" /\ DOMAIN part[2].items \subseteq Names \cup Ints
  /\ exists \subseteq Globals /\ direct \subseteq Globals

\* What is assigned to a member is read there, through however many parents it
\* was passed (hashmember.h:446-495), and what is unset is gone (hashmember.h:
\* 508-569).
ReadsBack ==
  \A v \in Variables, path \in Paths :
    /\ \A x \in Leaves : ValueAt(Assign(values[v], path, x), path) = x
    /\ ~Exists(UnsetAt(values[v], path), path)

\* A change through a member is a change at that one place: its siblings and
\* those of all its parents are kept, though each parent is read, copied and
\* written anew, and unsetting makes no parents (hashmember.h:497-569).
PlaceOf(path) == [i \in DOMAIN path |-> Key(path[i])]
Here(v) == IF IsArray(v) THEN ArrayHere ELSE v
TreeOf(v) ==
  LET parts == Parts(v)
  IN  [p \in {part[1] : part \in parts} |-> Here((CHOOSE part \in parts : part[1] = p)[2])]
ChangesOnePlace ==
  \A v \in Variables :
    LET tree == TreeOf(values[v])
    IN  \A path \in Paths :
          /\ TreeOf(UnsetAt(values[v], path)) = Without(tree, PlaceOf(path))
          /\ \A x \in Leaves : TreeOf(Assign(values[v], path, x)) =
                                 Put(tree, PlaceOf(path), TreeOf(x))

\* A vector has all elements of an array that is a list, in order, and leaves
\* some out of any other (value.h:457-462).
IsList(v) == DOMAIN v.items = 0 .. Size(v) - 1
VectorIsList ==
  \A v \in Variables : \A part \in Parts(values[v]) :
    LET x == part[2]
    IN  IsArray(x) => IF IsList(x) THEN FromVector(VectorValue(x)) = x
                                   ELSE Len(VectorValue(x)) < Size(x)

\* The script sees every global that is more than NULL, except for what came
\* about by an operator of Value that Global does not override (global.h:91).
GlobalSeen == \A v \in Globals : values[v] # Null => v \in exists \cup direct
=============================================================================
