---------------------------- MODULE MergeProofs -----------------------------
(***************************************************************************)
(* Proofs about Merge, for every live object and every manifest of its     *)
(* kind, at every path: the update is an exact overlay, it validates, and  *)
(* applied again it changes nothing.                                       *)
(*                                                                         *)
(* Level, Along, MergeMap and Stored are recursive functions: their        *)
(* equations are proved first, by induction on the depth of a value or on  *)
(* the length of a path.                                                   *)
(***************************************************************************)
EXTENDS Merge, WellFoundedInduction, TLAPS

\* Induction, for a set of naturals.
LEMMA Induction ==
  ASSUME NEW P \in SUBSET Nat, 0 \in P, \A n \in P : n + 1 \in P
  PROVE  P = Nat
<1> DEFINE Less == OpToRel(<, Nat)
           C == Nat \ P
<1>1. IsWellFoundedOn(Less, Nat)
  BY NatLessThanWellFounded, Zenon
<1>2. \A x, y \in Nat : <<x, y>> \in Less <=> x < y
  BY DEF OpToRel
<1> HIDE DEF Less
<1> SUFFICES ASSUME C # {} PROVE FALSE
  BY Zenon
<1>3. PICK m \in C : \A y \in C : ~ (<<y, m>> \in Less)
  BY <1>1, WFMin, Zenon
<1>4. m \in Nat /\ m # 0 /\ m - 1 \in Nat /\ m - 1 < m
  BY <1>3
<1>5. m - 1 \in P
  BY <1>2, <1>3, <1>4, Zenon
<1>6. m = (m - 1) + 1
  BY <1>4
<1> QED BY <1>3, <1>5, <1>6, Zenon

\* The recursive definition of Level has a solution.
LEMMA LevelDef ==
  ASSUME Depth \in Nat
  PROVE  Level = [n \in 0 .. Depth |-> IF n = 0 THEN Scalar ELSE Over(Level[n - 1])]
<1> DEFINE Solves(g, k) == g = [n \in 0 .. k |-> IF n = 0 THEN Scalar ELSE Over(g[n - 1])]
           P == {k \in Nat : \E g : Solves(g, k)}
<1>1. 0 \in P
  <2> DEFINE g == [i \in 0 .. 0 |-> Scalar]
  <2>1. Solves(g, 0)
    OBVIOUS
  <2> QED BY <2>1
<1>2. \A k \in P : k + 1 \in P
  <2> SUFFICES ASSUME NEW k \in Nat, NEW g, Solves(g, k) PROVE k + 1 \in P
    BY Zenon
  <2> DEFINE h == [n \in 0 .. k + 1 |-> IF n <= k THEN g[n] ELSE Over(g[k])]
  <2>1. \A n \in 0 .. k + 1 : h[n] = IF n = 0 THEN Scalar ELSE Over(h[n - 1])
    <3> TAKE n \in 0 .. k + 1
    <3>1. \A i \in 0 .. k : h[i] = g[i] /\ g[i] = IF i = 0 THEN Scalar ELSE Over(g[i - 1])
      OBVIOUS
    <3>2. h[k + 1] = Over(g[k])
      OBVIOUS
    <3> HIDE DEF h, Solves
    <3>3. CASE n \in 0 .. k
      BY <3>1, <3>3
    <3>4. CASE n = k + 1
      BY <3>1, <3>2, <3>4
    <3> QED BY <3>3, <3>4
  <2>2. Solves(h, k + 1)
    <3> DEFINE H(n) == IF n = 0 THEN Scalar ELSE Over(h[n - 1])
    <3>1. h = [n \in 0 .. k + 1 |-> h[n]]
      OBVIOUS
    <3> HIDE DEF h
    <3> QED BY <2>1, <3>1
  <2> HIDE DEF Solves, h
  <2> QED BY <2>2
<1>3. \E g : Solves(g, Depth)
  <2> HIDE DEF Solves
  <2> QED BY <1>1, <1>2, Induction, Zenon
<1> QED BY <1>3 DEF Level

-----------------------------------------------------------------------------
(* Values. *)

\* A value is of one sort only.
LEMMA Sorts ==
  /\ ~IsMap(Missing) /\ ~IsMap(Null) /\ ~IsLeaf(Missing) /\ ~IsLeaf(Null) /\ Null # Missing
  /\ \A x : IsLeaf(Leaf(x)) /\ ~IsMap(Leaf(x)) /\ Leaf(x).leaf = x
  /\ \A m : IsMap(Map(m)) /\ ~IsLeaf(Map(m)) /\ Map(m).map = m
BY DEF IsMap, IsLeaf, Missing, Null, Leaf, Map

\* Leaves, null and Missing are no maps.
LEMMA ScalarSorts ==
  ASSUME NEW v \in Scalar
  PROVE  ~IsMap(v) /\ (IsLeaf(v) <=> v \notin {Missing, Null})
BY DEF Scalar, IsMap, IsLeaf, Missing, Null

\* What is not scalar is a map.
LEMMA OverSorts ==
  ASSUME NEW S, NEW v
  PROVE  v \in Over(S) <=> v \in Scalar \/ (IsMap(v) /\ v = Map(v.map) /\ v.map \in [Key -> S])
<1>1. v \in [map : [Key -> S]] => IsMap(v) /\ v = Map(v.map) /\ v.map \in [Key -> S]
  BY DEF IsMap, Map
<1>2. v = Map(v.map) /\ v.map \in [Key -> S] => v \in [map : [Key -> S]]
  BY DEF Map
<1> QED BY <1>1, <1>2 DEF Over

\* Deeper levels have more values.
LEMMA Grow ==
  ASSUME NEW S, NEW T, S \subseteq T
  PROVE  Over(S) \subseteq Over(T) /\ Scalar \subseteq Over(S)
<1>1. [Key -> S] \subseteq [Key -> T]
  OBVIOUS
<1> QED BY <1>1, OverSorts, Zenon

\* The levels, one by one.
LEMMA Levels ==
  /\ Level[0] = Scalar
  /\ \A n \in 1 .. Depth : Level[n] = Over(Level[n - 1])
  /\ \A n \in 1 .. Depth : Level[n - 1] \subseteq Level[n]
<1>0. Depth \in Nat
  BY MergeAssumption
<1>1. Level[0] = Scalar
  BY <1>0, LevelDef
<1>2. \A n \in 1 .. Depth : Level[n] = Over(Level[n - 1])
  BY <1>0, LevelDef
<1>3. \A n \in 1 .. Depth : Level[n - 1] \subseteq Level[n]
  <2> DEFINE P == {n \in Nat : n + 1 <= Depth => Level[n] \subseteq Level[n + 1]}
  <2>1. 0 \in P
    BY <1>0, <1>1, <1>2, Grow
  <2>2. \A n \in P : n + 1 \in P
    <3> SUFFICES ASSUME NEW n \in P, n + 2 <= Depth PROVE Level[n + 1] \subseteq Level[n + 2]
      BY <1>0
    <3>1. Level[n] \subseteq Level[n + 1]
      BY <1>0
    <3>2. Level[n + 1] = Over(Level[n]) /\ Level[n + 2] = Over(Level[n + 1])
      BY <1>0, <1>2
    <3>3. Over(Level[n]) \subseteq Over(Level[n + 1])
      BY <3>1, Grow, Zenon
    <3> QED BY <3>2, <3>3
  <2>3. P = Nat
    <3>1. P \in SUBSET Nat
      OBVIOUS
    <3> HIDE DEF P
    <3> QED BY <2>1, <2>2, <3>1, Induction, Zenon
  <2> TAKE n \in 1 .. Depth
  <2>4. n - 1 \in Nat /\ (n - 1) + 1 = n /\ n <= Depth
    BY <1>0
  <2>5. n - 1 \in P
    BY <2>3, <2>4, Zenon
  <2> QED BY <2>4, <2>5, Zenon
<1> QED BY <1>1, <1>2, <1>3

\* A level contains the ones before it.
LEMMA LevelsBelow ==
  ASSUME NEW n \in 0 .. Depth, NEW k \in 0 .. n
  PROVE  Level[k] \subseteq Level[n]
<1>0. Depth \in Nat
  BY MergeAssumption
<1> DEFINE P == {i \in Nat : k + i <= Depth => Level[k] \subseteq Level[k + i]}
<1>1. 0 \in P
  BY <1>0
<1>2. \A i \in P : i + 1 \in P
  <2> SUFFICES ASSUME NEW i \in P, k + i + 1 <= Depth PROVE Level[k] \subseteq Level[k + i + 1]
    BY <1>0
  <2>1. Level[k] \subseteq Level[k + i] /\ k + i + 1 \in 1 .. Depth /\ (k + i + 1) - 1 = k + i
    BY <1>0
  <2> QED BY <2>1, Levels, Zenon
<1>3. P = Nat
  <2>1. P \in SUBSET Nat
    OBVIOUS
  <2> HIDE DEF P
  <2> QED BY <1>1, <1>2, <2>1, Induction, Zenon
<1>4. n - k \in Nat /\ k + (n - k) = n /\ n <= Depth
  BY <1>0
<1>5. n - k \in P
  BY <1>3, <1>4, Zenon
<1> QED BY <1>4, <1>5, Zenon

\* Every level has the scalars, and is one of values.
LEMMA LevelsIn ==
  ASSUME NEW n \in 0 .. Depth
  PROVE  Level[n] \subseteq Values /\ Scalar \subseteq Level[n] /\ Missing \in Level[n]
<1>1. Depth \in 0 .. Depth /\ n \in 0 .. Depth /\ 0 \in 0 .. n
  BY MergeAssumption
<1>2. Level[n] \subseteq Level[Depth] /\ Level[0] \subseteq Level[n]
  BY <1>1, LevelsBelow, Zenon
<1>3. Missing \in Scalar /\ Level[0] = Scalar
  BY Levels DEF Scalar
<1> QED BY <1>2, <1>3, Zenon DEF Values

\* The children of a value are values, one level down.
LEMMA ChildLevel ==
  ASSUME NEW n \in 1 .. Depth, NEW v \in Level[n], NEW k \in Key
  PROVE  Child(v, k) \in Level[n - 1]
<1>0. Depth \in Nat /\ n - 1 \in 0 .. Depth /\ 0 \in 0 .. (n - 1)
  BY MergeAssumption
<1>1. Missing \in Level[n - 1]
  <2>1. Missing \in Level[0]
    BY Levels DEF Scalar
  <2> QED BY <1>0, <2>1, LevelsBelow
<1>2. v \in Over(Level[n - 1])
  BY Levels
<1>3. CASE v \in Scalar
  BY <1>1, <1>3, ScalarSorts, Zenon DEF Child
<1>4. CASE IsMap(v) /\ v.map \in [Key -> Level[n - 1]]
  BY <1>4 DEF Child
<1> QED BY <1>2, <1>3, <1>4, OverSorts, Zenon

\* The children of a value are values.
LEMMA ChildValue ==
  ASSUME NEW v \in Values, NEW k \in Key
  PROVE  Child(v, k) \in Values
<1>0. Depth \in 1 .. Depth /\ Depth - 1 \in 0 .. Depth /\ Depth \in 0 .. Depth /\ Depth - 1 \in 0 .. Depth
  BY MergeAssumption
<1>1. Child(v, k) \in Level[Depth - 1]
  BY <1>0, ChildLevel, Zenon DEF Values
<1> QED BY <1>0, <1>1, LevelsBelow, Zenon DEF Values

\* A value is scalar, or a map of values.
LEMMA ValueSorts ==
  ASSUME NEW v \in Values
  PROVE  \/ v = Missing \/ v = Null
         \/ IsLeaf(v) /\ ~IsMap(v) /\ v # Missing /\ v # Null
         \/ IsMap(v) /\ ~IsLeaf(v) /\ v # Missing /\ v # Null /\ v = Map(v.map) /\ v.map \in [Key -> Values]
<1>0. Depth \in 1 .. Depth /\ Depth \in 0 .. Depth /\ Depth - 1 \in 0 .. Depth
  BY MergeAssumption
<1>1. v \in Over(Level[Depth - 1])
  BY <1>0, Levels, Zenon DEF Values
<1>2. Level[Depth - 1] \subseteq Values
  BY <1>0, LevelsBelow, Zenon DEF Values
<1>3. v \in Over(Values)
  BY <1>1, <1>2, Grow, Zenon
<1>4. CASE v \in Scalar
  BY <1>4, ScalarSorts, Zenon
<1>5. CASE IsMap(v) /\ v = Map(v.map) /\ v.map \in [Key -> Values]
  BY <1>5, Sorts, Zenon
<1> QED BY <1>3, <1>4, <1>5, OverSorts, Zenon

-----------------------------------------------------------------------------
(* Paths. *)

\* The recursive definition of Along has a solution.
LEMMA AlongDef ==
  ASSUME NEW v, NEW path, Len(path) \in Nat
  PROVE  Along(v, path) = [n \in 0 .. Len(path) |->
                              IF n = 0 THEN v ELSE Child(Along(v, path)[n - 1], path[n])]
<1> DEFINE Solves(g, k) == g = [n \in 0 .. k |-> IF n = 0 THEN v ELSE Child(g[n - 1], path[n])]
           P == {k \in Nat : \E g : Solves(g, k)}
<1>1. 0 \in P
  <2> DEFINE g == [i \in 0 .. 0 |-> v]
  <2>1. Solves(g, 0)
    OBVIOUS
  <2> QED BY <2>1
<1>2. \A k \in P : k + 1 \in P
  <2> SUFFICES ASSUME NEW k \in Nat, NEW g, Solves(g, k) PROVE k + 1 \in P
    BY Zenon
  <2> DEFINE h == [n \in 0 .. k + 1 |-> IF n <= k THEN g[n] ELSE Child(g[k], path[k + 1])]
  <2>1. \A n \in 0 .. k + 1 : h[n] = IF n = 0 THEN v ELSE Child(h[n - 1], path[n])
    <3> TAKE n \in 0 .. k + 1
    <3>1. \A i \in 0 .. k : h[i] = g[i] /\ g[i] = IF i = 0 THEN v ELSE Child(g[i - 1], path[i])
      OBVIOUS
    <3>2. h[k + 1] = Child(g[k], path[k + 1])
      OBVIOUS
    <3> HIDE DEF h, Solves
    <3>3. CASE n \in 0 .. k
      BY <3>1, <3>3
    <3>4. CASE n = k + 1
      BY <3>1, <3>2, <3>4
    <3> QED BY <3>3, <3>4
  <2>2. Solves(h, k + 1)
    <3>1. h = [n \in 0 .. k + 1 |-> h[n]]
      OBVIOUS
    <3> HIDE DEF h
    <3> QED BY <2>1, <3>1
  <2> HIDE DEF Solves, h
  <2> QED BY <2>2
<1>3. \E g : Solves(g, Len(path))
  <2> HIDE DEF Solves
  <2> QED BY <1>1, <1>2, Induction, Zenon
<1> QED BY <1>3 DEF Along

\* Along a path, step by step.
LEMMA AlongSteps ==
  ASSUME NEW v, NEW path, Len(path) \in Nat
  PROVE  /\ DOMAIN Along(v, path) = 0 .. Len(path)
         /\ Along(v, path)[0] = v
         /\ \A n \in 1 .. Len(path) : Along(v, path)[n] = Child(Along(v, path)[n - 1], path[n])
<1> DEFINE a == Along(v, path)
<1>1. a = [n \in 0 .. Len(path) |-> IF n = 0 THEN v ELSE Child(a[n - 1], path[n])]
  BY AlongDef
<1> HIDE DEF a
<1>2. DOMAIN a = 0 .. Len(path) /\ a[0] = v /\ \A n \in 1 .. Len(path) : a[n] = Child(a[n - 1], path[n])
  BY <1>1
<1> QED BY <1>2 DEF a

\* The value at a path of no field.
LEMMA Path0 ==
  ASSUME NEW v
  PROVE  Nested(v, << >>) = v
BY AlongSteps DEF Nested

\* The value at a path of one field.
LEMMA Path1 ==
  ASSUME NEW v, NEW a
  PROVE  Nested(v, <<a>>) = Child(v, a)
<1> DEFINE p == <<a>>
<1>1. Len(p) = 1 /\ p[1] = a
  OBVIOUS
<1> HIDE DEF p
<1> QED BY <1>1, AlongSteps DEF Nested

\* The value at a path of two fields.
LEMMA Path2 ==
  ASSUME NEW v, NEW a, NEW b
  PROVE  Nested(v, <<a, b>>) = Child(Child(v, a), b)
<1> DEFINE p == <<a, b>>
<1>1. Len(p) = 2 /\ p[1] = a /\ p[2] = b
  OBVIOUS
<1> HIDE DEF p
<1> QED BY <1>1, AlongSteps DEF Nested

\* The value at a path of three fields.
LEMMA Path3 ==
  ASSUME NEW v, NEW a, NEW b, NEW c
  PROVE  Nested(v, <<a, b, c>>) = Child(Child(Child(v, a), b), c)
<1> DEFINE p == <<a, b, c>>
           x == Along(v, p)
<1>1. Len(p) = 3 /\ Len(p) \in Nat /\ p[1] = a /\ p[2] = b /\ p[3] = c
  OBVIOUS
<1> HIDE DEF p
<1>2. x[0] = v /\ \A n \in 1 .. Len(p) : x[n] = Child(x[n - 1], p[n])
  <2>1. Len(p) \in Nat
    BY <1>1, Zenon
  <2> QED BY <2>1, AlongSteps
<1> HIDE DEF x
<1>3. x[1] = Child(v, a) /\ x[2] = Child(x[1], b) /\ x[3] = Child(x[2], c)
  BY <1>1, <1>2
<1>4. Nested(v, p) = x[3]
  BY <1>1 DEF Nested, x
<1> QED BY <1>3, <1>4, Zenon DEF p

\* The value at a path of four fields.
LEMMA Path4 ==
  ASSUME NEW v, NEW a, NEW b, NEW c, NEW d
  PROVE  Nested(v, <<a, b, c, d>>) = Child(Child(Child(Child(v, a), b), c), d)
<1> DEFINE p == <<a, b, c, d>>
           x == Along(v, p)
<1>1. Len(p) = 4 /\ Len(p) \in Nat /\ p[1] = a /\ p[2] = b /\ p[3] = c /\ p[4] = d
  OBVIOUS
<1> HIDE DEF p
<1>2. x[0] = v /\ \A n \in 1 .. Len(p) : x[n] = Child(x[n - 1], p[n])
  <2>1. Len(p) \in Nat
    BY <1>1, Zenon
  <2> QED BY <2>1, AlongSteps
<1> HIDE DEF x
<1>3. x[1] = Child(v, a) /\ x[2] = Child(x[1], b) /\ x[3] = Child(x[2], c) /\ x[4] = Child(x[3], d)
  BY <1>1, <1>2
<1>4. Nested(v, p) = x[4]
  BY <1>1 DEF Nested, x
<1> QED BY <1>3, <1>4, Zenon DEF p

\* The values at the paths that adoptImmutableFields knows.
LEMMA FieldPaths ==
  /\ \A v : Nested(v, <<"spec", "template">>) = Child(Child(v, "spec"), "template")
  /\ \A v : Nested(v, <<"spec", "selector">>) = Child(Child(v, "spec"), "selector")
  /\ \A v : Nested(v, <<"spec", "volumeName">>) = Child(Child(v, "spec"), "volumeName")
  /\ \A v : Nested(v, CapacityPath) = Child(Child(Child(v, "status"), "capacity"), "storage")
  /\ \A v : Nested(v, <<"spec", "clusterIP">>) = Child(Child(v, "spec"), "clusterIP")
  /\ \A v : Nested(v, <<"spec", "template", "metadata">>) = Child(Child(Child(v, "spec"), "template"), "metadata")
  /\ \A v : Nested(v, SelectorPath) = Child(Child(Child(v, "spec"), "selector"), "matchLabels")
  /\ \A v : Nested(v, LabelsPath) = Child(Child(Child(Child(v, "spec"), "template"), "metadata"), "labels")
<1>1. \A v, b : Nested(v, <<"spec", b>>) = Child(Child(v, "spec"), b)
  BY Path2
<1>2. \A v, a, b, c : Nested(v, <<a, b, c>>) = Child(Child(Child(v, a), b), c)
  BY Path3
<1>3. \A v : Nested(v, <<"spec", "template", "metadata", "labels">>) =
                 Child(Child(Child(Child(v, "spec"), "template"), "metadata"), "labels")
  BY Path4
<1> QED BY <1>1, <1>2, <1>3 DEF SelectorPath, LabelsPath, CapacityPath

\* The pod template's labels, field by field.
LEMMA LabelsFields ==
  \A v : Nested(v, LabelsPath) = Child(Child(Child(Child(v, "spec"), "template"), "metadata"), "labels")
BY FieldPaths, ZenonT(60)

\* Along a path, from its second field.
LEMMA AlongTail ==
  ASSUME NEW v, NEW path \in Seq(Key), path # << >>
  PROVE  /\ path[1] \in Key /\ Tail(path) \in Seq(Key) /\ Len(Tail(path)) = Len(path) - 1
         /\ \A n \in 1 .. Len(path) :
               Along(v, path)[n] = Along(Child(v, path[1]), Tail(path))[n - 1]
<1> DEFINE rest == Tail(path)
           a == Along(v, path)
           b == Along(Child(v, path[1]), rest)
           P == {n \in Nat : n + 1 <= Len(path) => a[n + 1] = b[n]}
<1>1. /\ Len(path) \in Nat \ {0} /\ path[1] \in Key
      /\ rest \in Seq(Key) /\ Len(rest) = Len(path) - 1
      /\ \A n \in 1 .. Len(path) - 1 : rest[n] = path[n + 1]
  OBVIOUS
<1>2. a[0] = v /\ \A n \in 1 .. Len(path) : a[n] = Child(a[n - 1], path[n])
  BY <1>1, AlongSteps
<1>3. b[0] = Child(v, path[1]) /\ \A n \in 1 .. Len(rest) : b[n] = Child(b[n - 1], rest[n])
  <2>1. Len(rest) \in Nat
    BY <1>1
  <2> HIDE DEF rest
  <2> QED BY <2>1, AlongSteps
<1> HIDE DEF rest, a, b
<1>4. 0 \in P
  BY <1>1, <1>2, <1>3
<1>5. \A n \in P : n + 1 \in P
  <2> SUFFICES ASSUME NEW n \in P, n + 2 <= Len(path) PROVE a[n + 2] = b[n + 1]
    BY <1>1
  <2>1. a[n + 1] = b[n] /\ a[n + 2] = Child(a[n + 1], path[n + 2])
    BY <1>1, <1>2
  <2>2. b[n + 1] = Child(b[n], path[n + 2])
    BY <1>1, <1>3
  <2> QED BY <2>1, <2>2
<1>6. P = Nat
  <2>1. P \in SUBSET Nat
    OBVIOUS
  <2> HIDE DEF P
  <2> QED BY <1>4, <1>5, <2>1, Induction, Zenon
<1>7. ASSUME NEW n \in 1 .. Len(path) PROVE a[n] = b[n - 1]
  <2>1. n - 1 \in Nat /\ (n - 1) + 1 = n /\ n <= Len(path)
    BY <1>1
  <2>2. n - 1 \in P
    BY <1>6, <2>1, Zenon
  <2> QED BY <2>1, <2>2, Zenon
<1> QED BY <1>1, <1>7, Zenon DEF a, b, rest

\* A path, from its second field.
LEMMA NestedTail ==
  ASSUME NEW v, NEW path \in Seq(Key), path # << >>
  PROVE  Nested(v, path) = Nested(Child(v, path[1]), Tail(path))
<1>1. Len(path) \in 1 .. Len(path)
  OBVIOUS
<1> QED BY <1>1, AlongTail DEF Nested

\* A path and one more field.
LEMMA NestedAppend ==
  ASSUME NEW v, NEW path \in Seq(Key), NEW k \in Key
  PROVE  Nested(v, Append(path, k)) = Child(Nested(v, path), k)
<1> DEFINE p == Append(path, k)
           a == Along(v, path)
           b == Along(v, p)
           P == {n \in Nat : n <= Len(path) => a[n] = b[n]}
<1>1. /\ Len(path) \in Nat /\ p \in Seq(Key) /\ Len(p) = Len(path) + 1 /\ Len(p) \in Nat
      /\ p[Len(path) + 1] = k /\ \A n \in 1 .. Len(path) : p[n] = path[n]
  OBVIOUS
<1>2. a[0] = v /\ \A n \in 1 .. Len(path) : a[n] = Child(a[n - 1], path[n])
  BY <1>1, AlongSteps
<1> HIDE DEF p
<1>3. b[0] = v /\ \A n \in 1 .. Len(p) : b[n] = Child(b[n - 1], p[n])
  BY <1>1, AlongSteps
<1> HIDE DEF a, b
<1>4. 0 \in P
  BY <1>2, <1>3
<1>5. \A n \in P : n + 1 \in P
  <2> SUFFICES ASSUME NEW n \in P, n + 1 <= Len(path) PROVE a[n + 1] = b[n + 1]
    BY <1>1
  <2>1. a[n] = b[n] /\ a[n + 1] = Child(a[n], path[n + 1])
    BY <1>1, <1>2
  <2>2. b[n + 1] = Child(b[n], path[n + 1])
    BY <1>1, <1>3
  <2> QED BY <2>1, <2>2
<1>6. P = Nat
  <2>1. P \in SUBSET Nat
    OBVIOUS
  <2> HIDE DEF P
  <2> QED BY <1>4, <1>5, <2>1, Induction, Zenon
<1>7. a[Len(path)] = b[Len(path)]
  BY <1>1, <1>6
<1>8. b[Len(p)] = Child(b[Len(path)], k)
  BY <1>1, <1>3
<1> QED BY <1>7, <1>8, Zenon DEF Nested, a, b, p

\* A path, from its second field: leaves.
LEMMA LeafTail ==
  ASSUME NEW v, NEW path \in Seq(Key), path # << >>
  PROVE  LeafAt(v, path) = LeafAt(Child(v, path[1]), Tail(path))
BY NestedTail, Zenon DEF LeafAt

\* What is along a path of a value are values.
LEMMA AlongValues ==
  ASSUME NEW v \in Values, NEW path \in Seq(Key), NEW n \in 0 .. Len(path)
  PROVE  Along(v, path)[n] \in Values
<1> DEFINE a == Along(v, path)
           P == {i \in Nat : i <= Len(path) => a[i] \in Values}
<1>1. Len(path) \in Nat /\ \A i \in 1 .. Len(path) : path[i] \in Key
  OBVIOUS
<1>2. a[0] = v /\ \A i \in 1 .. Len(path) : a[i] = Child(a[i - 1], path[i])
  BY <1>1, AlongSteps
<1> HIDE DEF a
<1>3. 0 \in P
  BY <1>2
<1>4. \A i \in P : i + 1 \in P
  <2> SUFFICES ASSUME NEW i \in P, i + 1 <= Len(path) PROVE a[i + 1] \in Values
    BY <1>1
  <2>1. a[i] \in Values /\ a[i + 1] = Child(a[i], path[i + 1]) /\ path[i + 1] \in Key
    BY <1>1, <1>2
  <2> QED BY <2>1, ChildValue
<1>5. P = Nat
  <2>1. P \in SUBSET Nat
    OBVIOUS
  <2> HIDE DEF P
  <2> QED BY <1>3, <1>4, <2>1, Induction, Zenon
<1>6. n \in P /\ n <= Len(path)
  BY <1>1, <1>5
<1> QED BY <1>6 DEF a

\* Nothing is beyond what is no map.
LEMMA NestedMissing ==
  ASSUME NEW v, ~IsMap(v), NEW path \in Seq(Key)
  PROVE  /\ \A n \in 1 .. Len(path) : Along(v, path)[n] = Missing
         /\ path # << >> => Nested(v, path) = Missing
<1> DEFINE a == Along(v, path)
           P == {i \in Nat : i + 1 <= Len(path) => a[i + 1] = Missing}
<1>1. Len(path) \in Nat
  OBVIOUS
<1>2. a[0] = v /\ \A i \in 1 .. Len(path) : a[i] = Child(a[i - 1], path[i])
  BY <1>1, AlongSteps
<1>3. \A w, k : ~IsMap(w) => Child(w, k) = Missing
  BY Zenon DEF Child
<1>4. ~IsMap(Missing)
  BY Sorts
<1> HIDE DEF a
<1>5. 0 \in P
  BY <1>1, <1>2, <1>3
<1>6. \A i \in P : i + 1 \in P
  BY <1>1, <1>2, <1>3, <1>4
<1>7. P = Nat
  <2>1. P \in SUBSET Nat
    OBVIOUS
  <2> HIDE DEF P
  <2> QED BY <1>5, <1>6, <2>1, Induction, Zenon
<1>8. ASSUME NEW n \in 1 .. Len(path) PROVE a[n] = Missing
  <2>1. n - 1 \in Nat /\ (n - 1) + 1 = n /\ n <= Len(path)
    BY <1>1
  <2>2. n - 1 \in P
    BY <1>7, <2>1, Zenon
  <2> QED BY <2>1, <2>2, Zenon
<1>9. path # << >> => Len(path) \in 1 .. Len(path)
  OBVIOUS
<1> QED BY <1>8, <1>9, Zenon DEF a, Nested

-----------------------------------------------------------------------------
(* mergeMap. *)

\* What mergeMap leaves of two values depends on what it leaves of their children.
LEMMA MergeAgrees ==
  ASSUME NEW b, NEW o, NEW g, NEW h,
         IsMap(b) /\ IsMap(o) => \A k \in Key : g[b.map[k]][o.map[k]] = h[b.map[k]][o.map[k]]
  PROVE  MergeValue(b, o, g) = MergeValue(b, o, h)
<1>1. CASE IsMap(b) /\ IsMap(o)
  <2>1. [k \in Key |-> g[b.map[k]][o.map[k]]] = [k \in Key |-> h[b.map[k]][o.map[k]]]
    BY <1>1
  <2> QED BY <2>1, Zenon DEF MergeValue
<1>2. CASE ~(IsMap(b) /\ IsMap(o))
  BY <1>2 DEF MergeValue
<1> QED BY <1>1, <1>2

\* The children of a map of a level are one level down.
LEMMA MapLevel ==
  ASSUME NEW n \in 1 .. Depth, NEW v \in Level[n], IsMap(v), NEW k \in Key
  PROVE  v.map[k] \in Level[n - 1]
BY ChildLevel, Zenon DEF Child

\* The recursive definition of mergeMap has a solution.
LEMMA MergeDef ==
  \A b, o \in Values : MergeMap[b][o] = MergeValue(b, o, MergeMap)
<1>0. Depth \in Nat
  BY MergeAssumption
<1> DEFINE Solves(g, n) == g = [b \in Level[n] |-> [o \in Level[n] |-> MergeValue(b, o, g)]]
           P == {n \in Nat : n <= Depth => \E g : Solves(g, n)}
<1>1. 0 \in P
  <2> DEFINE z == [b \in {} |-> b]
             g == [b \in Level[0] |-> [o \in Level[0] |-> MergeValue(b, o, z)]]
  <2>1. \A b, o \in Level[0] : MergeValue(b, o, z) = MergeValue(b, o, g)
    <3> TAKE b, o \in Level[0]
    <3>1. ~IsMap(b)
      BY Levels, ScalarSorts, Zenon
    <3> HIDE DEF z, g
    <3> QED BY <3>1, MergeAgrees, Zenon
  <2>2. Solves(g, 0)
    <3> HIDE DEF z
    <3>1. g = [b \in Level[0] |-> [o \in Level[0] |-> MergeValue(b, o, z)]]
      OBVIOUS
    <3> HIDE DEF g
    <3> QED BY <2>1, <3>1
  <2> HIDE DEF Solves, g
  <2> QED BY <2>2
<1>2. \A n \in P : n + 1 \in P
  <2> SUFFICES ASSUME NEW n \in Nat, n + 1 <= Depth, NEW g, Solves(g, n) PROVE \E h : Solves(h, n + 1)
    <3> HIDE DEF Solves
    <3> QED BY <1>0
  <2> DEFINE h == [b \in Level[n + 1] |-> [o \in Level[n + 1] |-> MergeValue(b, o, g)]]
  <2>1. n + 1 \in 1 .. Depth /\ (n + 1) - 1 = n
    BY <1>0
  <2>2. Level[n] \subseteq Level[n + 1]
    BY <2>1, Levels, Zenon
  <2>3. \A b, o \in Level[n] : g[b][o] = h[b][o]
    <3> TAKE b, o \in Level[n]
    <3>1. g[b][o] = MergeValue(b, o, g)
      <4> HIDE DEF h
      <4> QED OBVIOUS
    <3>2. b \in Level[n + 1] /\ o \in Level[n + 1]
      BY <2>2
    <3>3. h[b][o] = MergeValue(b, o, g)
      <4> HIDE DEF Solves
      <4> QED BY <3>2
    <3> QED BY <3>1, <3>3, Zenon
  <2>4. \A b, o \in Level[n + 1] : MergeValue(b, o, g) = MergeValue(b, o, h)
    <3> TAKE b, o \in Level[n + 1]
    <3> HIDE DEF Solves, h
    <3>1. IsMap(b) /\ IsMap(o) => \A k \in Key : b.map[k] \in Level[n] /\ o.map[k] \in Level[n]
      BY <2>1, MapLevel
    <3> QED BY <2>3, <3>1, MergeAgrees
  <2>5. Solves(h, n + 1)
    <3>1. h = [b \in Level[n + 1] |-> [o \in Level[n + 1] |-> MergeValue(b, o, g)]]
      OBVIOUS
    <3> HIDE DEF h
    <3> QED BY <2>4, <3>1
  <2> HIDE DEF Solves, h
  <2> QED BY <2>5
<1>3. \E g : Solves(g, Depth)
  <2>1. P \in SUBSET Nat
    OBVIOUS
  <2> HIDE DEF Solves
  <2>2. P = Nat
    <3> HIDE DEF P
    <3> QED BY <1>1, <1>2, <2>1, Induction, Zenon
  <2> QED BY <1>0, <2>2
<1>4. MergeMap = [b \in Values |-> [o \in Values |-> MergeValue(b, o, MergeMap)]]
  <2>1. PICK g : g = [b \in Values |-> [o \in Values |-> MergeValue(b, o, g)]]
    BY <1>3 DEF Values
  <2> QED BY <2>1, Zenon DEF MergeMap
<1> DEFINE m == MergeMap
<1> HIDE DEF m
<1>5. m = [b \in Values |-> [o \in Values |-> MergeValue(b, o, m)]]
  BY <1>4 DEF m
<1>6. \A b, o \in Values : m[b][o] = MergeValue(b, o, m)
  BY <1>5
<1> QED BY <1>6 DEF m

\* mergeMap, case by case.
LEMMA MergeCases ==
  ASSUME NEW b \in Values, NEW o \in Values
  PROVE  /\ o = Missing => MergeMap[b][o] = b
         /\ o = Null => MergeMap[b][o] = Missing
         /\ ~IsMap(o) /\ o \notin {Missing, Null} => MergeMap[b][o] = o
         /\ IsMap(o) /\ ~IsMap(b) => MergeMap[b][o] = o
         /\ ~(IsMap(b) /\ IsMap(o)) => MergeMap[b][o] \in {b, o, Missing}
         /\ IsMap(o) /\ IsMap(b) =>
               /\ MergeMap[b][o] = Map([k \in Key |-> MergeMap[b.map[k]][o.map[k]]])
               /\ IsMap(MergeMap[b][o])
               /\ \A k \in Key : Child(MergeMap[b][o], k) = MergeMap[Child(b, k)][Child(o, k)]
<1> DEFINE r == MergeMap[b][o]
<1>1. r = MergeValue(b, o, MergeMap)
  BY MergeDef, Zenon
<1> HIDE DEF r
<1>2. o = Missing => r = b
  BY <1>1, Sorts, Zenon DEF MergeValue
<1>3. o = Null => r = Missing
  BY <1>1, Sorts, Zenon DEF MergeValue
<1>4. ~IsMap(o) /\ o \notin {Missing, Null} => r = o
  BY <1>1 DEF MergeValue
<1>5. IsMap(o) => o # Missing /\ o # Null
  BY Sorts, Zenon
<1>6. IsMap(o) /\ ~IsMap(b) => r = o
  BY <1>1, <1>5 DEF MergeValue
<1>7. ASSUME IsMap(o), IsMap(b)
      PROVE  /\ r = Map([k \in Key |-> MergeMap[b.map[k]][o.map[k]]])
             /\ IsMap(r)
             /\ \A k \in Key : Child(r, k) = MergeMap[Child(b, k)][Child(o, k)]
  <2> DEFINE f == [k \in Key |-> MergeMap[b.map[k]][o.map[k]]]
  <2>1. r = Map(f)
    BY <1>1, <1>5, <1>7 DEF MergeValue
  <2>2. \A k \in Key : f[k] = MergeMap[b.map[k]][o.map[k]]
    OBVIOUS
  <2>3. f = [k \in Key |-> MergeMap[b.map[k]][o.map[k]]]
    OBVIOUS
  <2> HIDE DEF f
  <2>4. IsMap(r) /\ r.map = f
    BY <2>1, Sorts, Zenon
  <2>5. \A k \in Key : Child(r, k) = f[k] /\ Child(b, k) = b.map[k] /\ Child(o, k) = o.map[k]
    BY <1>7, <2>4, Zenon DEF Child
  <2> QED BY <2>1, <2>2, <2>3, <2>4, <2>5, Zenon
<1>8. ~(IsMap(b) /\ IsMap(o)) => r \in {b, o, Missing}
  BY <1>2, <1>3, <1>4, <1>6
<1> QED BY <1>2, <1>3, <1>4, <1>6, <1>7, <1>8, Zenon DEF r

\* A map of values of a level is one level up.
LEMMA MapIn ==
  ASSUME NEW n \in 1 .. Depth, NEW f \in [Key -> Level[n - 1]]
  PROVE  Map(f) \in Level[n]
<1>1. Level[n] = Over(Level[n - 1])
  BY Levels, Zenon
<1>2. IsMap(Map(f)) /\ Map(f).map = f
  BY Sorts, Zenon
<1>3. Map(f) \in Over(Level[n - 1])
  BY <1>2, OverSorts, Zenon
<1> QED BY <1>1, <1>3, Zenon

\* mergeMap nests no deeper than its arguments.
LEMMA MergeLevel ==
  ASSUME NEW n \in 0 .. Depth
  PROVE  \A b, o \in Level[n] : MergeMap[b][o] \in Level[n]
<1>0. Depth \in Nat
  BY MergeAssumption
<1> DEFINE P == {i \in Nat : i <= Depth => \A b, o \in Level[i] : MergeMap[b][o] \in Level[i]}
<1>1. \A i \in 0 .. Depth : Level[i] \subseteq Values /\ Missing \in Level[i]
  BY LevelsIn, Zenon
<1>2. 0 \in P
  <2> SUFFICES ASSUME NEW b \in Level[0], NEW o \in Level[0] PROVE MergeMap[b][o] \in Level[0]
    BY Zenon
  <2>1. ~IsMap(o)
    BY Levels, ScalarSorts, Zenon
  <2>2. 0 \in 0 .. Depth
    BY <1>0
  <2>3. b \in Values /\ o \in Values /\ Missing \in Level[0]
    BY <1>1, <2>2, Zenon
  <2> QED BY <2>1, <2>3, MergeCases
<1>3. \A i \in P : i + 1 \in P
  <2> SUFFICES ASSUME NEW i \in P, i + 1 <= Depth, NEW b \in Level[i + 1], NEW o \in Level[i + 1]
               PROVE  MergeMap[b][o] \in Level[i + 1]
    BY <1>0
  <2>1. i + 1 \in 1 .. Depth /\ (i + 1) - 1 = i /\ i + 1 \in 0 .. Depth /\ i <= Depth
    BY <1>0
  <2>2. b \in Values /\ o \in Values /\ Missing \in Level[i + 1]
    BY <1>1, <2>1, Zenon
  <2>3. CASE IsMap(b) /\ IsMap(o)
    <3> DEFINE f == [k \in Key |-> MergeMap[b.map[k]][o.map[k]]]
    <3>1. \A k \in Key : b.map[k] \in Level[i] /\ o.map[k] \in Level[i]
      BY <2>1, <2>3, MapLevel
    <3>2. \A x, y \in Level[i] : MergeMap[x][y] \in Level[i]
      BY <2>1
    <3>3. f \in [Key -> Level[i]]
      BY <3>1, <3>2
    <3>4. MergeMap[b][o] = Map(f)
      BY <2>2, <2>3, MergeCases
    <3> HIDE DEF f
    <3>5. Map(f) \in Level[i + 1]
      BY <2>1, <3>3, MapIn
    <3> QED BY <3>4, <3>5, Zenon
  <2>4. CASE ~(IsMap(b) /\ IsMap(o))
    <3>1. MergeMap[b][o] \in {b, o, Missing}
      BY <2>2, <2>4, MergeCases, Zenon
    <3> QED BY <2>2, <3>1
  <2> QED BY <2>3, <2>4, Zenon
<1>4. P = Nat
  <2>1. P \in SUBSET Nat
    OBVIOUS
  <2> HIDE DEF P
  <2> QED BY <1>2, <1>3, <2>1, Induction, Zenon
<1>5. n \in Nat /\ n <= Depth
  BY <1>0
<1>6. n \in P
  BY <1>4, <1>5, Zenon
<1> QED BY <1>5, <1>6, Zenon

\* mergeMap makes values of values.
LEMMA MergeValues ==
  ASSUME NEW b \in Values, NEW o \in Values
  PROVE  MergeMap[b][o] \in Values
<1>1. Depth \in 0 .. Depth
  BY MergeAssumption
<1> QED BY <1>1, MergeLevel, Zenon DEF Values

\* What an overlay should have, from the second field of a path.
LEMMA OverlaidTail ==
  ASSUME NEW b, NEW o, IsMap(o), ~IsLeaf(o), NEW path \in Seq(Key), path # << >>
  PROVE  Overlaid(b, o, path) = Overlaid(Child(b, path[1]), Child(o, path[1]), Tail(path))
<1> DEFINE rest == Tail(path)
           h == path[1]
           x == Along(o, path)
           y == Along(Child(o, h), rest)
           Stop(v) == IsLeaf(v) \/ v = Null
<1>1. /\ rest \in Seq(Key) /\ Len(rest) = Len(path) - 1 /\ Len(path) \in Nat /\ Len(rest) \in Nat
      /\ \A n \in 1 .. Len(path) : x[n] = y[n - 1]
  BY AlongTail
<1>2. DOMAIN x = 0 .. Len(path) /\ DOMAIN y = 0 .. Len(rest) /\ x[0] = o
  BY <1>1, AlongSteps
<1>3. ~Stop(o)
  BY Sorts, Zenon
<1>4. LeafAt(o, path) = LeafAt(Child(o, h), rest) /\ LeafAt(b, path) = LeafAt(Child(b, h), rest)
  BY LeafTail, Zenon
<1>5. Nested(o, path) = Nested(Child(o, h), rest)
  BY NestedTail, Zenon
<1> HIDE DEF rest, h, x, y, Stop
<1>6. (\E n \in DOMAIN x : Stop(x[n])) <=> (\E n \in DOMAIN y : Stop(y[n]))
  <2>1. ASSUME NEW n \in DOMAIN x, Stop(x[n]) PROVE \E i \in DOMAIN y : Stop(y[i])
    <3>1. n \in 1 .. Len(path) /\ n - 1 \in DOMAIN y
      BY <1>1, <1>2, <1>3, <2>1
    <3> QED BY <1>1, <2>1, <3>1
  <2>2. ASSUME NEW n \in DOMAIN y, Stop(y[n]) PROVE \E i \in DOMAIN x : Stop(x[i])
    <3>1. n + 1 \in 1 .. Len(path) /\ n + 1 \in DOMAIN x /\ (n + 1) - 1 = n
      BY <1>1, <1>2
    <3> QED BY <1>1, <2>2, <3>1
  <2> QED BY <2>1, <2>2, Zenon
<1> QED BY <1>4, <1>5, <1>6, Zenon DEF Overlaid, rest, h, x, y, Stop

\* Exactly what the manifest says is overlaid, at every path.
LEMMA MergeExact ==
  ASSUME NEW base \in Values, NEW override \in Values, NEW field \in Seq(Key)
  PROVE  LeafAt(MergeMap[base][override], field) = Overlaid(base, override, field)
<1> DEFINE E(b, o, p) == LeafAt(MergeMap[b][o], p) = Overlaid(b, o, p)
           P == {n \in Nat : \A p \in Seq(Key) : Len(p) = n => \A b, o \in Values : E(b, o, p)}
<1>1. ASSUME NEW b \in Values, NEW o \in Values, NEW p, p = << >> PROVE E(b, o, p)
  <2> DEFINE x == Along(o, p)
  <2>1. DOMAIN x = {0} /\ x[0] = o
    <3>1. Len(p) = 0 /\ Len(p) \in Nat /\ 0 .. 0 = {0}
      BY <1>1
    <3>2. DOMAIN x = 0 .. Len(p) /\ x[0] = o
      BY <3>1, AlongSteps
    <3> QED BY <3>1, <3>2, Zenon
  <2>2. \A v : Nested(v, p) = v
    BY <1>1, Path0, Zenon
  <2> HIDE DEF x
  <2>3. (\E n \in DOMAIN x : IsLeaf(x[n]) \/ x[n] = Null) <=> IsLeaf(o) \/ o = Null
    BY <2>1
  <2>4. Overlaid(b, o, p) = IF IsLeaf(o) \/ o = Null THEN LeafAt(o, p)
                                ELSE IF IsMap(o) THEN Missing ELSE LeafAt(b, p)
    BY <2>2, <2>3 DEF Overlaid, x
  <2>5. \A v : LeafAt(v, p) = IF IsLeaf(v) THEN v ELSE Missing
    BY <2>2 DEF LeafAt
  <2>6. \A v \in Values : IsMap(v) => ~IsLeaf(v)
    BY ValueSorts, Sorts, Zenon
  <2>7. MergeMap[b][o] \in Values
    BY MergeValues, Zenon
  <2>8. CASE o = Missing
    BY <2>4, <2>8, MergeCases, Sorts, Zenon
  <2>9. CASE o = Null
    BY <2>4, <2>5, <2>9, MergeCases, Sorts, Zenon
  <2>10. CASE IsMap(o)
    <3>1. IsMap(MergeMap[b][o]) /\ ~IsLeaf(o) /\ o # Null
      BY <2>6, <2>10, MergeCases, Sorts, ZenonT(60)
    <3> QED BY <2>4, <2>5, <2>6, <2>7, <2>10, <3>1, Zenon
  <2>11. CASE ~IsMap(o) /\ o \notin {Missing, Null}
    <3>1. IsLeaf(o) /\ MergeMap[b][o] = o
      BY <2>11, ValueSorts, MergeCases, Zenon
    <3> QED BY <2>4, <3>1, Zenon
  <2> QED BY <2>8, <2>9, <2>10, <2>11, Zenon
<1>2. ASSUME NEW b \in Values, NEW o \in Values, NEW p \in Seq(Key), p # << >>,
             \A c, d \in Values : E(c, d, Tail(p))
      PROVE  E(b, o, p)
  <2>1. /\ p[1] \in Key /\ Tail(p) \in Seq(Key) /\ Len(p) \in Nat /\ Len(p) \in 1 .. Len(p)
        /\ Len(p) \in 0 .. Len(p) /\ 0 \in 0 .. Len(p)
    BY <1>2
  <2>2. \A v : ~IsMap(v) => Nested(v, p) = Missing /\ LeafAt(v, p) = Missing
    BY <1>2, NestedMissing, Sorts, Zenon DEF LeafAt
  <2>3. DOMAIN Along(o, p) = 0 .. Len(p) /\ Along(o, p)[0] = o /\ Along(o, p)[Len(p)] = Nested(o, p)
    BY <2>1, AlongSteps DEF Nested
  <2>4. CASE o = Missing
    <3>1. \A n \in DOMAIN Along(o, p) : Along(o, p)[n] = Missing
      <4>1. ~IsMap(o)
        BY <2>4, Sorts, Zenon
      <4>2. \A n \in 1 .. Len(p) : Along(o, p)[n] = Missing
        BY <4>1, NestedMissing, Zenon
      <4>3. \A n \in 0 .. Len(p) : n = 0 \/ n \in 1 .. Len(p)
        BY <2>1
      <4> QED BY <2>3, <2>4, <4>2, <4>3, Zenon
    <3>2. Overlaid(b, o, p) = LeafAt(b, p)
      BY <2>1, <2>3, <3>1, Sorts, Zenon DEF Overlaid
    <3> QED BY <2>4, <3>2, MergeCases, Zenon
  <2>5. CASE o = Null \/ (~IsMap(o) /\ o \notin {Missing, Null})
    <3>1. IsLeaf(o) \/ o = Null
      BY <2>5, ValueSorts, Zenon
    <3>2. ~IsMap(o) /\ ~IsMap(Missing)
      BY <2>5, Sorts, Zenon
    <3>3. Overlaid(b, o, p) = LeafAt(o, p)
      BY <2>1, <2>3, <3>1, Zenon DEF Overlaid
    <3>4. MergeMap[b][o] = Missing \/ MergeMap[b][o] = o
      BY <2>5, MergeCases, Zenon
    <3> QED BY <2>2, <3>2, <3>3, <3>4, Zenon
  <2>6. CASE IsMap(o) /\ IsMap(b)
    <3> DEFINE c == Child(b, p[1])
               d == Child(o, p[1])
    <3>1. c \in Values /\ d \in Values /\ Child(MergeMap[b][o], p[1]) = MergeMap[c][d]
      <4>1. \A k \in Key : Child(MergeMap[b][o], k) = MergeMap[Child(b, k)][Child(o, k)]
        BY <2>6, MergeCases, ZenonT(60)
      <4> QED BY <2>1, <4>1, ChildValue, Zenon
    <3>2. LeafAt(MergeMap[b][o], p) = LeafAt(MergeMap[c][d], Tail(p))
      BY <1>2, <3>1, LeafTail, ZenonT(60)
    <3>3. ~IsLeaf(o)
      BY <2>6, ValueSorts, Sorts, Zenon
    <3>4. Overlaid(b, o, p) = Overlaid(c, d, Tail(p))
      BY <1>2, <2>6, <3>3, OverlaidTail, ZenonT(60)
    <3> QED BY <1>2, <3>1, <3>2, <3>4, Zenon
  <2>7. CASE IsMap(o) /\ ~IsMap(b)
    <3>1. MergeMap[b][o] = o
      BY <2>7, MergeCases, ZenonT(60)
    <3>2. LeafAt(b, p) = Missing
      BY <2>2, <2>7, Zenon
    <3>3. IsMap(Nested(o, p)) => LeafAt(o, p) = Missing
      <4>1. Nested(o, p) \in Values
        BY <2>1, AlongValues, Zenon DEF Nested
      <4> QED BY <4>1, ValueSorts, Sorts, Zenon DEF LeafAt
    <3>4. IsLeaf(Nested(o, p)) => \E n \in DOMAIN Along(o, p) : IsLeaf(Along(o, p)[n])
      BY <2>1, <2>3, Zenon
    <3>5. ~IsLeaf(Nested(o, p)) => LeafAt(o, p) = Missing
      BY Zenon DEF LeafAt
    <3> QED BY <3>1, <3>2, <3>3, <3>4, <3>5, Zenon DEF Overlaid
  <2> QED BY <2>4, <2>5, <2>6, <2>7, Zenon
<1> HIDE DEF E
<1>3. 0 \in P
  <2>1. \A p \in Seq(Key) : Len(p) = 0 => p = << >>
    OBVIOUS
  <2> QED BY <1>1, <2>1
<1>4. \A n \in P : n + 1 \in P
  <2> SUFFICES ASSUME NEW n \in P, NEW p \in Seq(Key), Len(p) = n + 1 PROVE \A b, o \in Values : E(b, o, p)
    OBVIOUS
  <2>1. p # << >> /\ Tail(p) \in Seq(Key) /\ Len(Tail(p)) = n
    OBVIOUS
  <2> QED BY <1>2, <2>1, Zenon
<1>5. P = Nat
  <2>1. P \in SUBSET Nat
    OBVIOUS
  <2> HIDE DEF P
  <2> QED BY <1>3, <1>4, <2>1, Induction, Zenon
<1>6. Len(field) \in P
  BY <1>5
<1>7. E(base, override, field)
  BY <1>6, Zenon
<1> QED BY <1>7 DEF E

-----------------------------------------------------------------------------
(* What the API server stores. *)

\* What is stored of a value depends on what is stored of its children.
LEMMA StoredAgrees ==
  ASSUME NEW v, NEW g, NEW h, IsMap(v) => \A k \in Key : g[v.map[k]] = h[v.map[k]]
  PROVE  StoredValue(v, g) = StoredValue(v, h)
<1>1. CASE IsMap(v)
  <2>1. [k \in Key |-> g[v.map[k]]] = [k \in Key |-> h[v.map[k]]]
    BY <1>1
  <2> QED BY <2>1, Zenon DEF StoredValue
<1>2. CASE ~IsMap(v)
  BY <1>2 DEF StoredValue
<1> QED BY <1>1, <1>2

\* The recursive definition of Stored has a solution.
LEMMA StoredDef ==
  \A v \in Values : Stored[v] = StoredValue(v, Stored)
<1>0. Depth \in Nat
  BY MergeAssumption
<1> DEFINE Solves(g, n) == g = [v \in Level[n] |-> StoredValue(v, g)]
           P == {n \in Nat : n <= Depth => \E g : Solves(g, n)}
<1>1. 0 \in P
  <2> DEFINE z == [v \in {} |-> v]
             g == [v \in Level[0] |-> StoredValue(v, z)]
  <2>1. \A v \in Level[0] : StoredValue(v, z) = StoredValue(v, g)
    <3> TAKE v \in Level[0]
    <3>1. ~IsMap(v)
      BY Levels, ScalarSorts, Zenon
    <3> HIDE DEF z, g
    <3> QED BY <3>1, StoredAgrees, Zenon
  <2>2. Solves(g, 0)
    <3> HIDE DEF z
    <3>1. g = [v \in Level[0] |-> StoredValue(v, z)]
      OBVIOUS
    <3> HIDE DEF g
    <3> QED BY <2>1, <3>1
  <2> HIDE DEF Solves, g
  <2> QED BY <2>2
<1>2. \A n \in P : n + 1 \in P
  <2> SUFFICES ASSUME NEW n \in Nat, n + 1 <= Depth, NEW g, Solves(g, n) PROVE \E h : Solves(h, n + 1)
    <3> HIDE DEF Solves
    <3> QED BY <1>0
  <2> DEFINE h == [v \in Level[n + 1] |-> StoredValue(v, g)]
  <2>1. n + 1 \in 1 .. Depth /\ (n + 1) - 1 = n
    BY <1>0
  <2>2. Level[n] \subseteq Level[n + 1]
    BY <2>1, Levels, Zenon
  <2>3. \A v \in Level[n] : g[v] = h[v]
    <3> TAKE v \in Level[n]
    <3>1. g[v] = StoredValue(v, g)
      <4> HIDE DEF h
      <4> QED OBVIOUS
    <3>2. v \in Level[n + 1]
      BY <2>2
    <3>3. h[v] = StoredValue(v, g)
      <4> HIDE DEF Solves
      <4> QED BY <3>2
    <3> QED BY <3>1, <3>3, Zenon
  <2>4. \A v \in Level[n + 1] : StoredValue(v, g) = StoredValue(v, h)
    <3> TAKE v \in Level[n + 1]
    <3> HIDE DEF Solves, h
    <3>1. IsMap(v) => \A k \in Key : v.map[k] \in Level[n]
      BY <2>1, MapLevel
    <3> QED BY <2>3, <3>1, StoredAgrees
  <2>5. Solves(h, n + 1)
    <3>1. h = [v \in Level[n + 1] |-> StoredValue(v, g)]
      OBVIOUS
    <3> HIDE DEF h
    <3> QED BY <2>4, <3>1
  <2> HIDE DEF Solves, h
  <2> QED BY <2>5
<1>3. \E g : Solves(g, Depth)
  <2>1. P \in SUBSET Nat
    OBVIOUS
  <2> HIDE DEF Solves
  <2>2. P = Nat
    <3> HIDE DEF P
    <3> QED BY <1>1, <1>2, <2>1, Induction, Zenon
  <2> QED BY <1>0, <2>2
<1>4. Stored = [v \in Values |-> StoredValue(v, Stored)]
  <2>1. PICK g : g = [v \in Values |-> StoredValue(v, g)]
    BY <1>3 DEF Values
  <2> QED BY <2>1, Zenon DEF Stored
<1> DEFINE m == Stored
<1> HIDE DEF m
<1>5. m = [v \in Values |-> StoredValue(v, m)]
  BY <1>4 DEF m
<1>6. \A v \in Values : m[v] = StoredValue(v, m)
  BY <1>5
<1> QED BY <1>6 DEF m

\* What is stored, case by case.
LEMMA StoredCases ==
  ASSUME NEW v \in Values
  PROVE  /\ v = Null => Stored[v] = Missing
         /\ ~IsMap(v) /\ v # Null => Stored[v] = v
         /\ IsMap(v) =>
               /\ Stored[v] = Map([k \in Key |-> Stored[v.map[k]]])
               /\ IsMap(Stored[v])
               /\ \A k \in Key : Child(Stored[v], k) = Stored[Child(v, k)]
<1> DEFINE r == Stored[v]
<1>1. r = StoredValue(v, Stored)
  BY StoredDef, Zenon
<1> HIDE DEF r
<1>2. v = Null => r = Missing
  BY <1>1, Sorts, Zenon DEF StoredValue
<1>3. ~IsMap(v) /\ v # Null => r = v
  BY <1>1 DEF StoredValue
<1>4. ASSUME IsMap(v)
      PROVE  /\ r = Map([k \in Key |-> Stored[v.map[k]]])
             /\ IsMap(r)
             /\ \A k \in Key : Child(r, k) = Stored[Child(v, k)]
  <2> DEFINE f == [k \in Key |-> Stored[v.map[k]]]
  <2>1. r = Map(f)
    <3>1. v # Null
      BY <1>4, Sorts, Zenon
    <3> QED BY <1>1, <1>4, <3>1 DEF StoredValue
  <2>2. \A k \in Key : f[k] = Stored[v.map[k]]
    OBVIOUS
  <2>3. f = [k \in Key |-> Stored[v.map[k]]]
    OBVIOUS
  <2> HIDE DEF f
  <2>4. IsMap(r) /\ r.map = f
    BY <2>1, Sorts, Zenon
  <2>5. \A k \in Key : Child(r, k) = f[k] /\ Child(v, k) = v.map[k]
    BY <1>4, <2>4, Zenon DEF Child
  <2> QED BY <2>1, <2>2, <2>3, <2>4, <2>5, Zenon
<1> QED BY <1>2, <1>3, <1>4, Zenon DEF r

\* What is stored of a value is a value.
LEMMA StoredValues ==
  \A v \in Values : Stored[v] \in Values
<1>0. Depth \in Nat
  BY MergeAssumption
<1> DEFINE P == {i \in Nat : i <= Depth => \A v \in Level[i] : Stored[v] \in Level[i]}
<1>1. \A i \in 0 .. Depth : Level[i] \subseteq Values /\ Missing \in Level[i]
  BY LevelsIn, Zenon
<1>2. 0 \in P
  <2> SUFFICES ASSUME NEW v \in Level[0] PROVE Stored[v] \in Level[0]
    BY Zenon
  <2>1. ~IsMap(v)
    BY Levels, ScalarSorts, Zenon
  <2>2. 0 \in 0 .. Depth
    BY <1>0
  <2>3. v \in Values /\ Missing \in Level[0]
    BY <1>1, <2>2, Zenon
  <2> QED BY <2>1, <2>3, StoredCases
<1>3. \A i \in P : i + 1 \in P
  <2> SUFFICES ASSUME NEW i \in P, i + 1 <= Depth, NEW v \in Level[i + 1]
               PROVE  Stored[v] \in Level[i + 1]
    BY <1>0
  <2>1. i + 1 \in 1 .. Depth /\ (i + 1) - 1 = i /\ i + 1 \in 0 .. Depth /\ i <= Depth
    BY <1>0
  <2>2. v \in Values /\ Missing \in Level[i + 1]
    BY <1>1, <2>1, Zenon
  <2>3. CASE IsMap(v)
    <3> DEFINE f == [k \in Key |-> Stored[v.map[k]]]
    <3>1. \A k \in Key : v.map[k] \in Level[i]
      BY <2>1, <2>3, MapLevel
    <3>2. \A x \in Level[i] : Stored[x] \in Level[i]
      BY <2>1
    <3>3. f \in [Key -> Level[i]]
      BY <3>1, <3>2
    <3>4. Stored[v] = Map(f)
      BY <2>2, <2>3, StoredCases
    <3> HIDE DEF f
    <3>5. Map(f) \in Level[i + 1]
      BY <2>1, <3>3, MapIn
    <3> QED BY <3>4, <3>5, Zenon
  <2>4. CASE ~IsMap(v)
    BY <2>2, <2>4, StoredCases
  <2> QED BY <2>3, <2>4, Zenon
<1>4. P = Nat
  <2>1. P \in SUBSET Nat
    OBVIOUS
  <2> HIDE DEF P
  <2> QED BY <1>2, <1>3, <2>1, Induction, Zenon
<1>5. Depth \in P /\ Depth <= Depth
  BY <1>0, <1>4
<1> QED BY <1>5, Zenon DEF Values

\* Storing works field by field.
LEMMA StoredChild ==
  ASSUME NEW v \in Values, NEW k \in Key
  PROVE  Child(Stored[v], k) = Stored[Child(v, k)]
<1>1. CASE IsMap(v)
  BY <1>1, StoredCases
<1>2. CASE ~IsMap(v)
  <2>1. Child(v, k) = Missing
    BY <1>2, Zenon DEF Child
  <2>2. Missing \in Values
    BY <2>1, ChildValue, Zenon
  <2>3. Stored[Missing] = Missing
    BY <2>2, StoredCases, Sorts, Zenon
  <2>4. Stored[v] = Missing \/ Stored[v] = v
    BY <1>2, StoredCases, Zenon
  <2>5. ~IsMap(Stored[v])
    BY <1>2, <2>4, Sorts, Zenon
  <2>6. Child(Stored[v], k) = Missing
    BY <2>5, Zenon DEF Child
  <2> QED BY <2>1, <2>3, <2>6, Zenon
<1> QED BY <1>1, <1>2, Zenon

-----------------------------------------------------------------------------
(* Storing and merging again. *)

\* Induction over values.
LEMMA ValueInduction ==
  ASSUME NEW P,
         \A v \in Values : ~IsMap(v) => v \in P,
         \A v \in Values : IsMap(v) /\ (\A k \in Key : Child(v, k) \in P) => v \in P
  PROVE  \A v \in Values : v \in P
<1>0. Depth \in Nat
  BY MergeAssumption
<1> DEFINE Q == {i \in Nat : i <= Depth => \A v \in Level[i] : v \in P}
<1>1. \A i \in 0 .. Depth : Level[i] \subseteq Values
  BY LevelsIn, Zenon
<1>2. 0 \in Q
  <2> SUFFICES ASSUME NEW v \in Level[0] PROVE v \in P
    BY Zenon
  <2>1. ~IsMap(v)
    BY Levels, ScalarSorts, Zenon
  <2>2. 0 \in 0 .. Depth
    BY <1>0
  <2> QED BY <1>1, <2>1, <2>2, Zenon
<1>3. \A i \in Q : i + 1 \in Q
  <2> SUFFICES ASSUME NEW i \in Q, i + 1 <= Depth, NEW v \in Level[i + 1]
               PROVE  v \in P
    BY <1>0
  <2>1. i + 1 \in 1 .. Depth /\ (i + 1) - 1 = i /\ i + 1 \in 0 .. Depth /\ i <= Depth
    BY <1>0
  <2>2. v \in Values
    BY <1>1, <2>1, Zenon
  <2>3. \A x \in Level[i] : x \in P
    BY <2>1
  <2>4. \A k \in Key : Child(v, k) \in Level[(i + 1) - 1]
    BY <2>1, ChildLevel, Zenon
  <2>5. \A k \in Key : Child(v, k) \in P
    BY <2>1, <2>3, <2>4
  <2> QED BY <2>2, <2>5, Zenon
<1>4. Q = Nat
  <2>1. Q \in SUBSET Nat
    OBVIOUS
  <2> HIDE DEF Q
  <2> QED BY <1>2, <1>3, <2>1, Induction, Zenon
<1>5. Depth \in Q /\ Depth <= Depth
  BY <1>0, <1>4
<1> QED BY <1>5, Zenon DEF Values

\* Maps with the same fields are the same.
LEMMA MapExt ==
  ASSUME NEW u \in Values, NEW v \in Values, IsMap(u), IsMap(v),
         \A k \in Key : Child(u, k) = Child(v, k)
  PROVE  u = v
<1>1. u = Map(u.map) /\ u.map \in [Key -> Values]
  BY ValueSorts, Sorts, Zenon
<1>2. v = Map(v.map) /\ v.map \in [Key -> Values]
  BY ValueSorts, Sorts, Zenon
<1>3. \A k \in Key : u.map[k] = v.map[k]
  BY Zenon DEF Child
<1>4. u.map = v.map
  BY <1>1, <1>2, <1>3
<1> QED BY <1>1, <1>2, <1>4, Zenon

\* Maps are stored the same if their fields are.
LEMMA StoredExt ==
  ASSUME NEW u \in Values, NEW v \in Values, IsMap(u), IsMap(v),
         \A k \in Key : Stored[Child(u, k)] = Stored[Child(v, k)]
  PROVE  Stored[u] = Stored[v]
<1>1. Stored[u] \in Values /\ Stored[v] \in Values
  BY StoredValues, Zenon
<1>2. IsMap(Stored[u]) /\ IsMap(Stored[v])
  BY StoredCases, Zenon
<1>3. \A k \in Key : Child(Stored[u], k) = Child(Stored[v], k)
  BY StoredChild
<1> QED BY <1>1, <1>2, <1>3, MapExt, Zenon

\* What is no map is stored as it is, or not at all.
LEMMA StoredScalar ==
  /\ Missing \in Values /\ Null \in Values
  /\ Stored[Missing] = Missing /\ Stored[Null] = Missing
  /\ \A v \in Values : IsLeaf(v) => Stored[v] = v
<1>1. Missing \in Values /\ Null \in Values
  <2>1. Depth \in 0 .. Depth
    BY MergeAssumption
  <2>2. Scalar \subseteq Values
    BY <2>1, LevelsIn, Zenon
  <2>3. Missing \in Scalar /\ Null \in Scalar
    BY DEF Scalar
  <2> QED BY <2>2, <2>3, Zenon
<1>2. Stored[Missing] = Missing /\ Stored[Null] = Missing
  BY <1>1, StoredCases, Sorts, Zenon
<1>3. ASSUME NEW v \in Values, IsLeaf(v) PROVE Stored[v] = v
  <2>1. ~IsMap(v) /\ v # Null
    BY <1>3, ValueSorts, Sorts, Zenon
  <2> QED BY <2>1, StoredCases, Zenon
<1> QED BY <1>1, <1>2, <1>3, Zenon

\* What was stored is stored as it is.
LEMMA StoredTwice ==
  \A v \in Values : Stored[Stored[v]] = Stored[v]
<1> DEFINE P == {v \in Values : Stored[Stored[v]] = Stored[v]}
<1>1. ASSUME NEW v \in Values, ~IsMap(v) PROVE v \in P
  BY <1>1, StoredScalar, ValueSorts
<1>2. ASSUME NEW v \in Values, IsMap(v), \A k \in Key : Child(v, k) \in P PROVE v \in P
  <2>1. Stored[v] \in Values /\ IsMap(Stored[v])
    BY <1>2, StoredValues, StoredCases, Zenon
  <2>2. \A k \in Key : Child(Stored[v], k) = Stored[Child(v, k)]
    BY StoredChild, Zenon
  <2>3. \A k \in Key : Stored[Stored[Child(v, k)]] = Stored[Child(v, k)]
    BY <1>2
  <2>4. \A k \in Key : Stored[Child(Stored[v], k)] = Stored[Child(v, k)]
    BY <2>2, <2>3
  <2>5. Stored[Stored[v]] = Stored[v]
    BY <1>2, <2>1, <2>4, StoredExt, Zenon
  <2> QED BY <2>5
<1>3. \A v \in Values : v \in P
  <2> HIDE DEF P
  <2> QED BY <1>1, <1>2, ValueInduction, Zenon
<1> QED BY <1>3

\* A manifest merged into what was stored of it changes nothing.
LEMMA MergeStored ==
  \A o \in Values : Stored[MergeMap[Stored[o]][o]] = Stored[o]
<1> DEFINE P == {o \in Values : Stored[MergeMap[Stored[o]][o]] = Stored[o]}
<1>1. ASSUME NEW o \in Values, ~IsMap(o) PROVE o \in P
  <2>1. Stored[o] \in Values
    BY StoredValues, Zenon
  <2>2. CASE o = Missing
    BY <2>1, <2>2, MergeCases, StoredScalar
  <2>3. CASE o = Null
    BY <2>1, <2>3, MergeCases, StoredScalar
  <2>4. CASE o \notin {Missing, Null}
    <3>1. MergeMap[Stored[o]][o] = o
      BY <1>1, <2>1, <2>4, MergeCases, Zenon
    <3> QED BY <3>1
  <2> QED BY <2>2, <2>3, <2>4
<1>2. ASSUME NEW o \in Values, IsMap(o), \A k \in Key : Child(o, k) \in P PROVE o \in P
  <2> DEFINE m == MergeMap[Stored[o]][o]
  <2>1. Stored[o] \in Values /\ IsMap(Stored[o])
    BY <1>2, StoredValues, StoredCases, Zenon
  <2>2. m \in Values /\ IsMap(m)
    BY <1>2, <2>1, MergeValues, MergeCases, Zenon
  <2>3. \A k \in Key : Child(m, k) = MergeMap[Child(Stored[o], k)][Child(o, k)]
    BY <1>2, <2>1, MergeCases, ZenonT(60)
  <2>4. \A k \in Key : Child(Stored[o], k) = Stored[Child(o, k)]
    BY StoredChild, Zenon
  <2>5. \A k \in Key : Stored[MergeMap[Stored[Child(o, k)]][Child(o, k)]] = Stored[Child(o, k)]
    BY <1>2
  <2> HIDE DEF m
  <2>6. \A k \in Key : Stored[Child(m, k)] = Stored[Child(o, k)]
    BY <2>3, <2>4, <2>5
  <2>7. Stored[m] = Stored[o]
    BY <1>2, <2>2, <2>6, StoredExt, Zenon
  <2> QED BY <2>7 DEF m
<1>3. \A o \in Values : o \in P
  <2> HIDE DEF P
  <2> QED BY <1>1, <1>2, ValueInduction, Zenon
<1> QED BY <1>3

\* A manifest merged into what was stored of an earlier merge changes nothing.
LEMMA MergeAgain ==
  \A o, b \in Values :
     Stored[MergeMap[Stored[MergeMap[b][o]]][o]] = Stored[MergeMap[b][o]]
<1> DEFINE Again(b, o) == Stored[MergeMap[Stored[MergeMap[b][o]]][o]] = Stored[MergeMap[b][o]]
           P == {o \in Values : \A b \in Values : Again(b, o)}
<1>0. \A b, o \in Values : Stored[MergeMap[b][o]] \in Values /\ MergeMap[b][o] \in Values
  BY MergeValues, StoredValues, Zenon
<1>1. ASSUME NEW o \in Values, ~IsMap(o) PROVE o \in P
  <2> SUFFICES ASSUME NEW b \in Values PROVE Again(b, o)
    BY Zenon
  <2>1. Stored[MergeMap[b][o]] \in Values
    BY <1>0, Zenon
  <2>2. CASE o = Missing
    <3>1. MergeMap[b][o] = b
      BY <2>2, MergeCases, Zenon
    <3>2. MergeMap[Stored[b]][o] = Stored[b]
      BY <2>1, <2>2, <3>1, MergeCases
    <3> QED BY <3>1, <3>2, StoredTwice
  <2>3. CASE o = Null
    <3>1. MergeMap[b][o] = Missing
      BY <2>3, MergeCases, Zenon
    <3>2. MergeMap[Stored[MergeMap[b][o]]][o] = Missing
      BY <2>1, <2>3, MergeCases, Zenon
    <3> QED BY <3>1, <3>2
  <2>4. CASE o \notin {Missing, Null}
    <3>1. MergeMap[b][o] = o
      BY <1>1, <2>4, MergeCases, Zenon
    <3>2. MergeMap[Stored[MergeMap[b][o]]][o] = o
      BY <1>1, <2>1, <2>4, MergeCases, Zenon
    <3> QED BY <3>1, <3>2
  <2> QED BY <2>2, <2>3, <2>4, Zenon
<1>2. ASSUME NEW o \in Values, IsMap(o), \A k \in Key : Child(o, k) \in P PROVE o \in P
  <2> SUFFICES ASSUME NEW b \in Values PROVE Again(b, o)
    BY Zenon
  <2>1. CASE ~IsMap(b)
    <3>1. MergeMap[b][o] = o
      BY <1>2, <2>1, MergeCases, Zenon
    <3> QED BY <3>1, MergeStored
  <2>2. CASE IsMap(b)
    <3> DEFINE m == MergeMap[b][o]
               n == MergeMap[Stored[m]][o]
    <3>1. m \in Values /\ IsMap(m) /\ \A k \in Key : Child(m, k) = MergeMap[Child(b, k)][Child(o, k)]
      BY <1>2, <2>2, <1>0, MergeCases, ZenonT(60)
    <3> HIDE DEF m
    <3>2. Stored[m] \in Values /\ IsMap(Stored[m]) /\ \A k \in Key : Child(Stored[m], k) = Stored[Child(m, k)]
      BY <3>1, StoredValues, StoredCases, StoredChild, Zenon
    <3>3. n \in Values /\ IsMap(n) /\ \A k \in Key : Child(n, k) = MergeMap[Child(Stored[m], k)][Child(o, k)]
      BY <1>2, <3>2, <1>0, MergeValues, MergeCases, ZenonT(60)
    <3>4. \A k \in Key : Child(b, k) \in Values
      BY ChildValue, Zenon
    <3>5. \A k \in Key : Again(Child(b, k), Child(o, k))
      BY <1>2, <3>4, Zenon
    <3> HIDE DEF n
    <3>6. \A k \in Key : Stored[Child(n, k)] = Stored[Child(m, k)]
      BY <3>1, <3>2, <3>3, <3>5, ZenonT(60)
    <3>7. Stored[n] = Stored[m]
      BY <3>1, <3>3, <3>6, StoredExt, Zenon
    <3> QED BY <3>7 DEF m, n
  <2> QED BY <2>1, <2>2, Zenon
<1>3. \A o \in Values : o \in P
  <2> HIDE DEF P
  <2> QED BY <1>1, <1>2, ValueInduction, Zenon
<1> QED BY <1>3

-----------------------------------------------------------------------------
(* Setting a field. *)

\* What a map has after a field is set.
LEMMA WithFacts ==
  ASSUME NEW v, NEW k, NEW w
  PROVE  /\ IsMap(With(v, k, w)) /\ ~IsLeaf(With(v, k, w)) /\ With(v, k, w) # Missing
         /\ k \in Key => Child(With(v, k, w), k) = w
         /\ \A j \in Key : j # k => Child(With(v, k, w), j) = Child(v, j)
<1> DEFINE f == [j \in Key |-> IF j = k THEN w ELSE Child(v, j)]
<1>1. (k \in Key => f[k] = w) /\ \A j \in Key : j # k => f[j] = Child(v, j)
  OBVIOUS
<1>2. With(v, k, w) = Map(f)
  BY Zenon DEF With
<1> HIDE DEF f
<1>3. IsMap(Map(f)) /\ ~IsLeaf(Map(f)) /\ Map(f).map = f /\ Map(f) # Missing
  BY Sorts, Zenon
<1>4. \A j : Child(Map(f), j) = f[j]
  BY <1>3, Zenon DEF Child
<1> QED BY <1>1, <1>2, <1>3, <1>4, Zenon

\* A map u with w at k, and elsewhere what v has.
Sets(u, v, k, w) == IsMap(u) /\ Child(u, k) = w /\ \A j \in Key : j # k => Child(u, j) = Child(v, j)

\* The same facts, of a value that is known to be such a map.
LEMMA IsWith ==
  ASSUME NEW u, NEW v, NEW k \in Key, NEW w, u = With(v, k, w)
  PROVE  Sets(u, v, k, w)
BY WithFacts DEF Sets

\* Setting a field makes a map no deeper than the field.
LEMMA WithLevel ==
  ASSUME NEW n \in 1 .. Depth, NEW v \in Level[n], NEW k \in Key, NEW w \in Level[n - 1]
  PROVE  With(v, k, w) \in Level[n]
<1> DEFINE f == [j \in Key |-> IF j = k THEN w ELSE Child(v, j)]
<1>1. \A j \in Key : Child(v, j) \in Level[n - 1]
  BY ChildLevel, Zenon
<1>2. f \in [Key -> Level[n - 1]]
  BY <1>1
<1>3. With(v, k, w) = Map(f)
  BY Zenon DEF With
<1> HIDE DEF f
<1> QED BY <1>2, <1>3, MapIn, Zenon

\* Setting a field changes no leaf that is not in it.
LEMMA WithLeaf ==
  ASSUME NEW v, ~IsLeaf(v), NEW k \in Key, NEW w, NEW path \in Seq(Key),
         path # << >> /\ path[1] = k => LeafAt(w, Tail(path)) = LeafAt(Child(v, k), Tail(path))
  PROVE  LeafAt(With(v, k, w), path) = LeafAt(v, path)
<1> DEFINE u == With(v, k, w)
<1>1. IsMap(u) /\ ~IsLeaf(u) /\ Child(u, k) = w /\ \A j \in Key : j # k => Child(u, j) = Child(v, j)
  BY WithFacts
<1> HIDE DEF u
<1>2. CASE path = << >>
  <2>1. Nested(u, path) = u /\ Nested(v, path) = v
    BY <1>2, Path0, Zenon
  <2> QED BY <1>1, <2>1, Zenon DEF LeafAt, u
<1>3. CASE path # << >>
  <2>1. path[1] \in Key
    BY <1>3
  <2>2. LeafAt(u, path) = LeafAt(Child(u, path[1]), Tail(path))
    BY <1>3, LeafTail, Zenon
  <2>3. LeafAt(v, path) = LeafAt(Child(v, path[1]), Tail(path))
    BY <1>3, LeafTail, Zenon
  <2> QED BY <1>1, <1>3, <2>1, <2>2, <2>3, Zenon DEF u
<1> QED BY <1>2, <1>3, Zenon

\* A path without its first four fields.
Beyond(path) == Tail(Tail(Tail(Tail(path))))

\* The fifth field of a path.
LEMMA BeyondFacts ==
  ASSUME NEW path \in Seq(Key), Len(path) >= 4
  PROVE  /\ Beyond(path) \in Seq(Key)
         /\ Beyond(path) # << >> => /\ Beyond(path)[1] = path[5] /\ Beyond(path)[1] \in Key
                                    /\ Len(path) >= 5
<1> DEFINE t == Tail(path)
           r == Tail(t)
           q == Tail(r)
           p == Tail(q)
<1>1. \A s \in Seq(Key) : Len(s) >= 1 => /\ Tail(s) \in Seq(Key) /\ Len(Tail(s)) = Len(s) - 1
                                       /\ \A i \in 1 .. Len(s) - 1 : Tail(s)[i] = s[i + 1]
  OBVIOUS
<1>2. Len(path) \in Nat
  OBVIOUS
<1> HIDE DEF t, r, q, p
<1>3. t \in Seq(Key) /\ Len(t) = Len(path) - 1 /\ \A i \in 1 .. Len(path) - 1 : t[i] = path[i + 1]
  BY <1>1, <1>2 DEF t
<1>4. r \in Seq(Key) /\ Len(r) = Len(t) - 1 /\ \A i \in 1 .. Len(t) - 1 : r[i] = t[i + 1]
  BY <1>1, <1>2, <1>3 DEF r
<1>5. q \in Seq(Key) /\ Len(q) = Len(r) - 1 /\ \A i \in 1 .. Len(r) - 1 : q[i] = r[i + 1]
  BY <1>1, <1>2, <1>3, <1>4 DEF q
<1>6. p \in Seq(Key) /\ Len(p) = Len(q) - 1 /\ \A i \in 1 .. Len(q) - 1 : p[i] = q[i + 1]
  BY <1>1, <1>2, <1>3, <1>4, <1>5 DEF p
<1>7. ASSUME p # << >> PROVE p[1] = path[5] /\ p[1] \in Key /\ Len(path) >= 5
  <2>1. p[1] \in Key /\ Len(p) >= 1
    BY <1>6, <1>7
  <2>2. Len(path) >= 5 /\ Len(t) >= 4 /\ Len(r) >= 3 /\ Len(q) >= 2
    BY <1>2, <1>3, <1>4, <1>5, <1>6, <2>1
  <2>3. Len(t) = Len(path) - 1 /\ Len(r) = Len(path) - 2 /\ Len(q) = Len(path) - 3
    BY <1>2, <1>3, <1>4, <1>5
  <2>4. p[1] = q[2]
    BY <1>2, <1>6, <2>2, <2>3
  <2>5. q[2] = r[3]
    BY <1>2, <1>5, <2>2, <2>3
  <2>6. r[3] = t[4]
    BY <1>2, <1>4, <2>2, <2>3
  <2>7. t[4] = path[5]
    BY <1>2, <1>3, <2>2, <2>3
  <2> QED BY <2>1, <2>2, <2>4, <2>5, <2>6, <2>7, Zenon
<1>8. Beyond(path) = p
  BY Zenon DEF Beyond, p, q, r, t
<1> QED BY <1>6, <1>7, <1>8, Zenon

\* Setting a field with a path of four changes no leaf that is not in it.
LEMMA SetLeaf ==
  ASSUME NEW v \in Values, NEW a \in Key, NEW b \in Key, NEW c \in Key, NEW d \in Key, NEW w,
         NEW path \in Seq(Key)
  PROVE  /\ ~IsLeaf(v)
         /\ Len(path) >= 4 /\ path[1] = a /\ path[2] = b /\ path[3] = c /\ path[4] = d
               => LeafAt(w, Beyond(path)) = LeafAt(Nested(v, <<a, b, c, d>>), Beyond(path))
         => LeafAt(SetNested(v, <<a, b, c, d>>, w), path) = LeafAt(v, path)
<1> DEFINE v1 == Child(v, a)
           v2 == Child(v1, b)
           v3 == Child(v2, c)
           w3 == With(v3, d, w)
           w2 == With(v2, c, w3)
           w1 == With(v1, b, w2)
           t == Tail(path)
           r == Tail(t)
           q == Tail(r)
           In == Len(path) >= 4 /\ path[1] = a /\ path[2] = b /\ path[3] = c /\ path[4] = d
           Outside == In => LeafAt(w, Tail(q)) = LeafAt(Child(v3, d), Tail(q))
<1>0. Nested(v, <<a, b, c, d>>) = Child(v3, d)
  BY Path4
<1>1. SetNested(v, <<a, b, c, d>>, w) = IF \A u \in {v1, v2, v3} : u = Missing \/ IsMap(u)
                                        THEN With(v, a, w1) ELSE v
  <2> DEFINE p == <<a, b, c, d>>
  <2>1. p[1] = a /\ p[2] = b /\ p[3] = c /\ p[4] = d
    OBVIOUS
  <2> HIDE DEF p
  <2> QED BY <2>1 DEF SetNested, p
<1>2. ASSUME ~IsLeaf(v), Outside, \A u \in {v1, v2, v3} : u = Missing \/ IsMap(u)
      PROVE  LeafAt(With(v, a, w1), path) = LeafAt(v, path)
  <2>1. ~IsLeaf(v1) /\ ~IsLeaf(v2) /\ ~IsLeaf(v3)
    <3>1. v1 \in Values
      BY ChildValue, Zenon
    <3>2. v2 \in Values
      BY <3>1, ChildValue, Zenon
    <3>3. v3 \in Values
      BY <3>2, ChildValue, Zenon
    <3>4. \A u \in Values : u = Missing \/ IsMap(u) => ~IsLeaf(u)
      BY ValueSorts, Sorts, Zenon
    <3> HIDE DEF v1, v2, v3
    <3> QED BY <1>2, <3>1, <3>2, <3>3, <3>4
  <2>2. path # << >> => t \in Seq(Key)
    OBVIOUS
  <2>3. path # << >> /\ t # << >> => r \in Seq(Key)
    BY <2>2
  <2>4. path # << >> /\ t # << >> /\ r # << >> => q \in Seq(Key)
    BY <2>3
  <2>5. path # << >> /\ t # << >> /\ r # << >> /\ q # << >> =>
           Len(path) >= 4 /\ t[1] = path[2] /\ r[1] = path[3] /\ q[1] = path[4]
    <3>1. \A s \in Seq(Key) : s # << >> => /\ Len(s) \in Nat \ {0} /\ Len(Tail(s)) = Len(s) - 1
                                         /\ \A i \in 1 .. Len(s) - 1 : Tail(s)[i] = s[i + 1]
      OBVIOUS
    <3> HIDE DEF t, r, q, Outside
    <3>2. path # << >> => Len(t) = Len(path) - 1 /\ \A i \in 1 .. Len(path) - 1 : t[i] = path[i + 1]
      BY <3>1 DEF t
    <3>3. path # << >> /\ t # << >> => Len(r) = Len(t) - 1 /\ \A i \in 1 .. Len(t) - 1 : r[i] = t[i + 1]
      BY <2>2, <3>1 DEF r
    <3>4. path # << >> /\ t # << >> /\ r # << >> =>
             Len(q) = Len(r) - 1 /\ \A i \in 1 .. Len(r) - 1 : q[i] = r[i + 1]
      BY <2>3, <3>1 DEF q
    <3>5. ASSUME path # << >>, t # << >>, r # << >>, q # << >>
          PROVE  /\ Len(path) \in Nat \ {0} /\ Len(t) \in Nat \ {0}
                 /\ Len(r) \in Nat \ {0} /\ Len(q) \in Nat \ {0}
      BY <2>2, <2>3, <2>4, <3>1, <3>5
    <3>6. ASSUME path # << >>, t # << >>, r # << >>, q # << >>
          PROVE  Len(path) >= 4 /\ t[1] = path[2] /\ r[1] = path[3] /\ q[1] = path[4]
      <4>1. Len(t) = Len(path) - 1 /\ Len(r) = Len(t) - 1 /\ Len(q) = Len(r) - 1
        BY <3>2, <3>3, <3>4, <3>6, Zenon
      <4>2. Len(path) >= 4 /\ Len(t) >= 3 /\ Len(r) >= 2
        BY <3>5, <3>6, <4>1
      <4>3. t[1] = path[2] /\ t[2] = path[3] /\ t[3] = path[4]
        BY <3>2, <3>5, <3>6, <4>2
      <4>4. r[1] = t[2] /\ r[2] = t[3]
        BY <3>3, <3>5, <3>6, <4>2
      <4>5. q[1] = r[2]
        BY <3>4, <3>5, <3>6, <4>2
      <4> QED BY <4>2, <4>3, <4>4, <4>5, Zenon
    <3> QED BY <3>6, Zenon
  <2> HIDE DEF v1, v2, v3, w1, w2, w3, t, r, q, In, Outside
  <2>6. ASSUME path # << >>, path[1] = a, t # << >>, t[1] = b, r # << >>, r[1] = c
        PROVE  LeafAt(w3, q) = LeafAt(v3, q)
    <3>1. q # << >> /\ q[1] = d => LeafAt(w, Tail(q)) = LeafAt(Child(v3, d), Tail(q))
      BY <1>2, <2>5, <2>6, ZenonT(60) DEF In, Outside
    <3>2. q \in Seq(Key)
      BY <2>4, <2>6, Zenon
    <3> QED BY <2>1, <3>1, <3>2, WithLeaf DEF w3
  <2>7. ASSUME path # << >>, path[1] = a, t # << >>, t[1] = b
        PROVE  LeafAt(w2, r) = LeafAt(v2, r)
    <3>1. r # << >> /\ r[1] = c => LeafAt(w3, Tail(r)) = LeafAt(Child(v2, c), Tail(r))
      BY <2>6, <2>7, Zenon DEF v3, q
    <3>2. r \in Seq(Key)
      BY <2>3, <2>7, Zenon
    <3> QED BY <2>1, <3>1, <3>2, WithLeaf DEF w2
  <2>8. ASSUME path # << >>, path[1] = a
        PROVE  LeafAt(w1, t) = LeafAt(v1, t)
    <3>1. t # << >> /\ t[1] = b => LeafAt(w2, Tail(t)) = LeafAt(Child(v1, b), Tail(t))
      BY <2>7, <2>8, Zenon DEF v2, r
    <3>2. t \in Seq(Key)
      BY <2>2, <2>8, Zenon
    <3> QED BY <2>1, <3>1, <3>2, WithLeaf DEF w1
  <2>9. path # << >> /\ path[1] = a => LeafAt(w1, Tail(path)) = LeafAt(Child(v, a), Tail(path))
    BY <2>8, Zenon DEF v1, t
  <2> QED BY <1>2, <2>9, WithLeaf, ZenonT(60)
<1> DEFINE H == ~IsLeaf(v) /\ (In => LeafAt(w, Beyond(path)) = LeafAt(Nested(v, <<a, b, c, d>>), Beyond(path)))
<1>3. H => ~IsLeaf(v) /\ Outside
  BY <1>0, Zenon DEF Beyond
<1> HIDE DEF v1, v2, v3, w1, H, Outside
<1>4. H => LeafAt(SetNested(v, <<a, b, c, d>>, w), path) = LeafAt(v, path)
  BY <1>1, <1>2, <1>3, Zenon
<1> QED BY <1>4, Zenon DEF H

\* A value that is no map is scalar.
LEMMA ScalarValue ==
  ASSUME NEW v \in Values, ~IsMap(v)
  PROVE  v \in Scalar
<1>1. Depth \in 1 .. Depth
  BY MergeAssumption
<1>2. v \in Over(Level[Depth - 1])
  BY <1>1, Levels, Zenon DEF Values
<1> QED BY <1>2, OverSorts, Zenon

\* The children of a value, four levels down.
LEMMA ChildLevels ==
  ASSUME NEW v \in Values, NEW a \in Key, NEW b \in Key, NEW c \in Key
  PROVE  /\ Child(v, a) \in Level[Depth - 1]
         /\ Child(Child(v, a), b) \in Level[Depth - 2]
         /\ Child(Child(Child(v, a), b), c) \in Level[Depth - 3]
<1>1. /\ Depth \in 1 .. Depth /\ Depth - 1 \in 1 .. Depth /\ Depth - 2 \in 1 .. Depth
      /\ (Depth - 1) - 1 = Depth - 2 /\ (Depth - 2) - 1 = Depth - 3
  BY MergeAssumption
<1>2. Child(v, a) \in Level[Depth - 1]
  BY <1>1, ChildLevel, Zenon DEF Values
<1>3. Child(Child(v, a), b) \in Level[(Depth - 1) - 1]
  BY <1>1, <1>2, ChildLevel, Zenon
<1>4. Child(Child(v, a), b) \in Level[Depth - 2]
  BY <1>1, <1>3, Zenon
<1>5. Child(Child(Child(v, a), b), c) \in Level[(Depth - 2) - 1]
  BY <1>1, <1>4, ChildLevel, Zenon
<1> QED BY <1>1, <1>2, <1>4, <1>5, Zenon

\* Setting a field with a path of four makes a value.
LEMMA SetValue ==
  ASSUME NEW v \in Values, NEW a \in Key, NEW b \in Key, NEW c \in Key, NEW d \in Key,
         NEW w \in Level[Depth - 4]
  PROVE  SetNested(v, <<a, b, c, d>>, w) \in Values
<1> DEFINE v1 == Child(v, a)
           v2 == Child(v1, b)
           v3 == Child(v2, c)
           w3 == With(v3, d, w)
           w2 == With(v2, c, w3)
           w1 == With(v1, b, w2)
<1>1. SetNested(v, <<a, b, c, d>>, w) \in {With(v, a, w1), v}
  <2> DEFINE p == <<a, b, c, d>>
  <2>1. p[1] = a /\ p[2] = b /\ p[3] = c /\ p[4] = d
    OBVIOUS
  <2> HIDE DEF p
  <2> QED BY <2>1 DEF SetNested, p
<1>2. /\ Depth \in 1 .. Depth /\ Depth - 1 \in 1 .. Depth /\ Depth - 2 \in 1 .. Depth /\ Depth - 3 \in 1 .. Depth
      /\ (Depth - 1) - 1 = Depth - 2 /\ (Depth - 2) - 1 = Depth - 3 /\ (Depth - 3) - 1 = Depth - 4
  BY MergeAssumption
<1>3. v1 \in Level[Depth - 1] /\ v2 \in Level[Depth - 2] /\ v3 \in Level[Depth - 3]
  BY ChildLevels, Zenon
<1> HIDE DEF v1, v2, v3
<1>4. w3 \in Level[Depth - 3]
  BY <1>2, <1>3, WithLevel
<1> HIDE DEF w3
<1>5. w2 \in Level[Depth - 2]
  BY <1>2, <1>3, <1>4, WithLevel
<1> HIDE DEF w2
<1>6. w1 \in Level[Depth - 1]
  BY <1>2, <1>3, <1>5, WithLevel
<1> HIDE DEF w1
<1>7. With(v, a, w1) \in Level[Depth]
  BY <1>2, <1>6, WithLevel DEF Values
<1> QED BY <1>1, <1>7 DEF Values

-----------------------------------------------------------------------------
(* The merged object. *)

\* The field names are keys.
LEMMA Fields ==
  /\ "kind" \in Key /\ "spec" \in Key /\ "status" \in Key /\ "capacity" \in Key
  /\ "resources" \in Key /\ "requests" \in Key /\ "storage" \in Key /\ "volumeName" \in Key
  /\ "clusterIP" \in Key /\ "selector" \in Key /\ "matchLabels" \in Key
  /\ "template" \in Key /\ "metadata" \in Key /\ "labels" \in Key
BY MergeAssumption DEF FieldNames

\* r is nothing, or a map with o overlaid on b.
Overlays(r, b, o) ==
  r = Missing \/ (IsMap(r) /\ \A k \in Key : Child(r, k) = MergeMap[Child(b, k)][Child(o, k)])

\* mergeMap overlays a manifest's map, and a null leaves nothing.
LEMMA OverlaysTop ==
  ASSUME NEW b \in Values, NEW o \in Values, IsMap(b), ~IsLeaf(o)
  PROVE  Overlays(MergeMap[b][o], b, o) /\ (o # Null => IsMap(MergeMap[b][o]))
<1>1. CASE o = Missing
  <2>1. MergeMap[b][o] = b
    BY <1>1, MergeCases, Zenon
  <2>2. \A k \in Key : Child(o, k) = Missing /\ Child(o, k) \in Values /\ Child(b, k) \in Values
    <3>1. \A k \in Key : Child(o, k) = Missing
      BY <1>1, Sorts, Zenon DEF Child
    <3> QED BY <3>1, ChildValue, Zenon
  <2>3. \A k \in Key : Child(b, k) = MergeMap[Child(b, k)][Child(o, k)]
    BY <2>2, MergeCases
  <2> QED BY <2>1, <2>3, Zenon DEF Overlays
<1>2. CASE o = Null
  BY <1>2, MergeCases, Zenon DEF Overlays
<1>3. CASE IsMap(o)
  BY <1>3, MergeCases DEF Overlays
<1> QED BY <1>1, <1>2, <1>3, ValueSorts, Zenon

\* The same holds of a map inside.
LEMMA OverlaysChild ==
  ASSUME NEW r, NEW b \in Values, NEW o \in Values, NEW k \in Key,
         Overlays(r, b, o), IsMap(Child(b, k)), ~IsLeaf(Child(o, k))
  PROVE  Overlays(Child(r, k), Child(b, k), Child(o, k))
<1>1. CASE r = Missing
  <2>1. Child(r, k) = Missing
    BY <1>1, Sorts, Zenon DEF Child
  <2> QED BY <2>1, Zenon DEF Overlays
<1>2. CASE r # Missing
  <2>1. Child(r, k) = MergeMap[Child(b, k)][Child(o, k)]
    BY <1>2, Zenon DEF Overlays
  <2>2. Child(b, k) \in Values /\ Child(o, k) \in Values
    BY ChildValue, Zenon
  <2>3. Overlays(MergeMap[Child(b, k)][Child(o, k)], Child(b, k), Child(o, k))
    BY <2>2, OverlaysTop, Zenon
  <2> QED BY <2>1, <2>3, Zenon
<1> QED BY <1>1, <1>2

\* The kinds are different.
LEMMA Kinds ==
  /\ MapFields("PersistentVolumeClaim") =
        {<<"spec">>, <<"spec", "resources">>, <<"spec", "resources", "requests">>}
  /\ MapFields("Service") = {<<"spec">>}
  /\ \A k \in Workloads : MapFields(k) =
        {<<"spec">>, <<"spec", "template">>, <<"spec", "template", "metadata">>, LabelsPath}
  /\ "PersistentVolumeClaim" \notin Workloads /\ "Service" \notin Workloads
BY DEF MapFields, Workloads

\* What the server accepts is a value of the same kind, with the old status if
\* the kind is a built-in one.
LEMMA AcceptedFacts ==
  ASSUME NEW v \in Values, IsMap(v), IsLeaf(Child(v, "kind")), NEW old \in Values
  PROVE  LET u == Accepted(v, old)
         IN  /\ u \in Values /\ IsMap(u)
             /\ Kind(u) = Kind(v)
             /\ \A k \in Key : k # "status" => Child(u, k) = Stored[Child(v, k)]
             /\ Kind(v) \in Workloads \cup {"PersistentVolumeClaim", "Service"} =>
                   Child(u, "status") = Child(old, "status")
             /\ Kind(v) \notin Workloads \cup {"PersistentVolumeClaim", "Service"} =>
                   u = Stored[v]
<1> DEFINE u == Accepted(v, old)
           w == With(Stored[v], "status", Child(old, "status"))
<1>1. "status" \in Key /\ "kind" \in Key /\ "kind" # "status"
  BY Fields
<1>2. Stored[v] \in Values /\ IsMap(Stored[v])
  BY StoredValues, StoredCases
<1>3. \A k \in Key : Child(Stored[v], k) = Stored[Child(v, k)]
  BY StoredChild, Zenon
<1>4. w \in Values
  <2>1. Depth \in 1 .. Depth
    BY MergeAssumption
  <2>2. Child(old, "status") \in Level[Depth - 1]
    BY <1>1, <2>1, ChildLevel, Zenon DEF Values
  <2> QED BY <1>1, <1>2, <2>1, <2>2, WithLevel DEF Values
<1>5. /\ IsMap(w) /\ Child(w, "status") = Child(old, "status")
      /\ \A k \in Key : k # "status" => Child(w, k) = Child(Stored[v], k)
  BY <1>1, WithFacts
<1> DEFINE Builtin == Kind(v) \in Workloads \cup {"PersistentVolumeClaim", "Service"}
<1>6. u = IF Builtin THEN w ELSE Stored[v]
  BY Zenon DEF Accepted
<1> HIDE DEF u, w, Builtin
<1>7. u \in Values /\ IsMap(u) /\ \A k \in Key : k # "status" => Child(u, k) = Stored[Child(v, k)]
  BY <1>2, <1>3, <1>4, <1>5, <1>6
<1>8. Kind(u) = Kind(v)
  <2>1. Child(v, "kind") \in Values
    BY <1>1, ChildValue, Zenon
  <2>2. ~IsMap(Child(v, "kind")) /\ Child(v, "kind") # Null
    BY <2>1, ValueSorts, Sorts, Zenon
  <2>3. Stored[Child(v, "kind")] = Child(v, "kind")
    BY <2>1, <2>2, StoredCases, Zenon
  <2>4. Child(u, "kind") = Child(v, "kind")
    BY <1>1, <1>7, <2>3, Zenon
  <2> QED BY <2>4, Zenon DEF Kind
<1> QED BY <1>5, <1>6, <1>7, <1>8 DEF u, Builtin

\* A live object and a manifest of its kind.
Pair(l, d) ==
  /\ l \in Values /\ WellFormed(l)
  /\ d \in Values /\ WellTyped(d)
  /\ Kind(l) = Kind(d)

\* The merged object has the kind of the manifest.
LEMMA MergedTop ==
  ASSUME NEW l, NEW d, Pair(l, d)
  PROVE  LET m == MergeMap[l][d]
         IN  /\ m \in Values /\ IsMap(m) /\ ~IsLeaf(m) /\ m # Missing
             /\ \A k \in Key : Child(m, k) = MergeMap[Child(l, k)][Child(d, k)]
             /\ Overlays(m, l, d)
             /\ Child(m, "kind") = Child(d, "kind") /\ IsLeaf(Child(m, "kind"))
             /\ Kind(m) = Kind(d)
<1> DEFINE m == MergeMap[l][d]
<1>1. l \in Values /\ d \in Values /\ IsMap(l) /\ IsMap(d) /\ IsLeaf(Child(d, "kind"))
  BY Zenon DEF Pair, WellFormed, WellTyped
<1>2. ~IsLeaf(d) /\ d # Null /\ d # Missing
  BY <1>1, ValueSorts, Sorts, Zenon
<1>3. m \in Values
  BY <1>1, MergeValues, Zenon
<1>4. Overlays(m, l, d) /\ IsMap(m)
  BY <1>1, <1>2, OverlaysTop, Zenon
<1>5. ~IsLeaf(m) /\ m # Missing
  BY <1>3, <1>4, ValueSorts, Sorts, Zenon
<1>6. \A k \in Key : Child(m, k) = MergeMap[Child(l, k)][Child(d, k)]
  BY <1>4, <1>5, Zenon DEF Overlays
<1>7. Child(m, "kind") = Child(d, "kind")
  <2>1. "kind" \in Key
    BY Fields
  <2>2. Child(l, "kind") \in Values /\ Child(d, "kind") \in Values
    BY <1>1, <2>1, ChildValue, Zenon
  <2>3. ~IsMap(Child(d, "kind")) /\ Child(d, "kind") \notin {Missing, Null}
    BY <1>1, <2>2, ValueSorts, Sorts, Zenon
  <2>4. MergeMap[Child(l, "kind")][Child(d, "kind")] = Child(d, "kind")
    BY <2>2, <2>3, MergeCases, Zenon
  <2> QED BY <1>6, <2>1, <2>4, Zenon
<1> QED BY <1>1, <1>3, <1>4, <1>5, <1>6, <1>7, Zenon DEF Kind

\* The fields of m are those of l and d, merged.
Merged(m, l, d) == m \in Values /\ \A k \in Key : Child(m, k) = MergeMap[Child(l, k)][Child(d, k)]

\* So are the fields of a merged object.
LEMMA MergedFields ==
  ASSUME NEW l, NEW d, Pair(l, d)
  PROVE  Merged(MergeMap[l][d], l, d)
BY MergedTop DEF Merged

\* An object a is m with the field f of old.
Adopted(a, m, old, f) ==
  /\ IsMap(a) /\ ~IsLeaf(a) /\ a # Missing
  /\ IsMap(Child(a, "spec")) /\ ~IsLeaf(Child(a, "spec"))
  /\ Child(Child(a, "spec"), f) = Child(Child(old, "spec"), f)
  /\ \A k \in Key : k # f => Child(Child(a, "spec"), k) = Child(Child(m, "spec"), k)
  /\ \A k \in Key : k # "spec" => Child(a, k) = Child(m, k)

\* Adopting a field: the object is otherwise the same.
LEMMA AdoptFacts ==
  ASSUME NEW m, NEW old, NEW f \in Key
  PROVE  Adopted(Adopt(m, old, f), m, old, f)
<1> DEFINE w == Child(Child(old, "spec"), f)
           s == With(Child(m, "spec"), f, w)
           a == With(m, "spec", s)
<1>1. Adopt(m, old, f) = a
  <2>1. Nested(old, <<"spec", f>>) = w
    BY Path2
  <2> QED BY <2>1, Zenon DEF Adopt
<1>2. "spec" \in Key
  BY Fields
<1>3. IsMap(a) /\ ~IsLeaf(a) /\ a # Missing /\ Child(a, "spec") = s
  BY <1>2, WithFacts
<1>4. \A k \in Key : k # "spec" => Child(a, k) = Child(m, k)
  BY <1>2, WithFacts
<1>5. IsMap(s) /\ ~IsLeaf(s) /\ Child(s, f) = w
  BY WithFacts
<1>6. \A k \in Key : k # f => Child(s, k) = Child(Child(m, "spec"), k)
  BY WithFacts
<1> HIDE DEF a, s
<1> QED BY <1>1, <1>3, <1>4, <1>5, <1>6, Zenon DEF Adopted

\* Adopting a field makes a value.
LEMMA AdoptValue ==
  ASSUME NEW m \in Values, NEW old \in Values, NEW f \in Key
  PROVE  Adopt(m, old, f) \in Values
<1> DEFINE w == Child(Child(old, "spec"), f)
           s == With(Child(m, "spec"), f, w)
<1>1. "spec" \in Key /\ Depth \in 1 .. Depth /\ Depth - 1 \in 1 .. Depth /\ (Depth - 1) - 1 = Depth - 2
  BY Fields, MergeAssumption
<1>2. Child(m, "spec") \in Level[Depth - 1] /\ w \in Level[(Depth - 1) - 1]
  BY <1>1, ChildLevels, Zenon
<1>3. s \in Level[Depth - 1]
  BY <1>1, <1>2, WithLevel, Zenon
<1>4. Adopt(m, old, f) = With(m, "spec", s)
  <2>1. Nested(old, <<"spec", f>>) = w
    BY Path2
  <2> QED BY <2>1, Zenon DEF Adopt
<1> HIDE DEF s
<1> QED BY <1>1, <1>3, <1>4, WithLevel, Zenon DEF Values

\* Adopting a field changes no other leaf.
LEMMA AdoptLeaf ==
  ASSUME NEW m, NEW old, NEW f \in Key, ~IsLeaf(m), ~IsLeaf(Child(m, "spec"))
  PROVE  \A path \in Seq(Key) :
            ~Within(path, <<"spec", f>>) => LeafAt(Adopt(m, old, f), path) = LeafAt(m, path)
<1> SUFFICES ASSUME NEW path \in Seq(Key), ~Within(path, <<"spec", f>>)
             PROVE  LeafAt(Adopt(m, old, f), path) = LeafAt(m, path)
  BY Zenon
<1> DEFINE w == Nested(old, <<"spec", f>>)
           s == With(Child(m, "spec"), f, w)
           t == Tail(path)
<1>1. "spec" \in Key
  BY Fields
<1>2. path # << >> /\ path[1] = "spec" => t \in Seq(Key) /\ ~(t # << >> /\ t[1] = f)
  <2> SUFFICES ASSUME path # << >>, path[1] = "spec" PROVE t \in Seq(Key) /\ ~(t # << >> /\ t[1] = f)
    BY Zenon
  <2>1. t \in Seq(Key) /\ Len(t) = Len(path) - 1 /\ Len(path) \in Nat \ {0}
    OBVIOUS
  <2>2. t # << >> => Len(path) >= 2 /\ t[1] = path[2]
    OBVIOUS
  <2>3. Len(path) >= 2 /\ path[2] = f => Within(path, <<"spec", f>>)
    BY DEF Within
  <2> QED BY <2>1, <2>2, <2>3, Zenon
<1> HIDE DEF w, t
<1>3. path # << >> /\ path[1] = "spec" => LeafAt(s, t) = LeafAt(Child(m, "spec"), t)
  BY <1>2, WithLeaf, Zenon
<1> HIDE DEF s
<1>4. LeafAt(With(m, "spec", s), path) = LeafAt(m, path)
  BY <1>1, <1>3, WithLeaf DEF t
<1> QED BY <1>4, Zenon DEF Adopt, s, w

\* What is sent, case by case.
LEMMA BodyCases ==
  ASSUME NEW l, NEW d, Pair(l, d)
  PROVE  LET m == MergeMap[l][d]
             b == AdoptImmutableFields(m, l)
             Both == IsMap(Child(m, "spec")) /\ IsMap(Child(l, "spec"))
         IN  /\ ~Both => b = m
             /\ Both /\ Kind(d) = "PersistentVolumeClaim" => b = ClampPVCStorage(Adopt(m, l, "volumeName"), l)
             /\ Both /\ Kind(d) = "Service" => b = Adopt(m, l, "clusterIP")
             /\ Both /\ Kind(d) \in Workloads => b = ReconcileSelectorLabels(Adopt(m, l, "selector"))
             /\ Kind(d) \notin Workloads \cup {"PersistentVolumeClaim", "Service"} => b = m
<1> DEFINE m == MergeMap[l][d]
<1>1. Kind(m) = Kind(d)
  BY MergedTop, Zenon
<1> HIDE DEF m
<1>2. \A k \in Workloads : k # "PersistentVolumeClaim" /\ k # "Service"
  BY Kinds
<1> QED BY <1>1, <1>2 DEF AdoptImmutableFields, m

\* The kinds with fields to adopt have a spec.
LEMMA SpecFacts ==
  ASSUME NEW l, NEW d, Pair(l, d), Kind(d) \in Workloads \cup {"PersistentVolumeClaim", "Service"}
  PROVE  LET s == Child(MergeMap[l][d], "spec")
         IN  /\ IsMap(Child(l, "spec")) /\ ~IsLeaf(Child(d, "spec"))
             /\ Child(l, "spec") \in Values /\ Child(d, "spec") \in Values
             /\ s \in Values /\ ~IsLeaf(s)
             /\ Overlays(s, Child(l, "spec"), Child(d, "spec"))
             /\ Child(d, "spec") # Null => IsMap(s)
<1> DEFINE m == MergeMap[l][d]
           s == Child(m, "spec")
<1>1. "spec" \in Key /\ l \in Values /\ d \in Values /\ Kind(l) = Kind(d)
  BY Fields DEF Pair
<1>2. <<"spec">> \in MapFields(Kind(d))
  BY Kinds
<1>3. IsMap(Nested(l, <<"spec">>)) /\ ~IsLeaf(Nested(d, <<"spec">>))
  BY <1>1, <1>2 DEF Pair, WellFormed, WellTyped
<1>4. IsMap(Child(l, "spec")) /\ ~IsLeaf(Child(d, "spec"))
  BY <1>3, Path1
<1>5. Child(l, "spec") \in Values /\ Child(d, "spec") \in Values
  BY <1>1, ChildValue, Zenon
<1>6. m \in Values /\ s = MergeMap[Child(l, "spec")][Child(d, "spec")]
  <2>1. m \in Values /\ \A k \in Key : Child(m, k) = MergeMap[Child(l, k)][Child(d, k)]
    <3>1. Merged(m, l, d)
      BY MergedFields, Zenon
    <3> HIDE DEF m
    <3> QED BY <3>1, Zenon DEF Merged
  <2> HIDE DEF m
  <2> QED BY <1>1, <2>1, Zenon
<1> HIDE DEF m
<1>7. s \in Values
  BY <1>1, <1>6, ChildValue, Zenon
<1>8. Overlays(s, Child(l, "spec"), Child(d, "spec")) /\ (Child(d, "spec") # Null => IsMap(s))
  BY <1>4, <1>5, <1>6, OverlaysTop
<1>9. ~IsLeaf(s)
  BY <1>7, <1>8, ValueSorts, Sorts, Zenon DEF Overlays
<1> QED BY <1>4, <1>5, <1>7, <1>8, <1>9 DEF m

\* A value u is v with w at a path of four fields.
There(u, v, a, b, c, d, w) ==
  /\ u # Missing
  /\ Nested(u, <<a, b, c, d>>) = w
  /\ IsMap(Child(u, a))
  /\ Child(Child(u, a), b) = With(Child(Child(v, a), b), c, With(Child(Child(Child(v, a), b), c), d, w))
  /\ \A k \in Key : k # b => Child(Child(u, a), k) = Child(Child(v, a), k)
  /\ \A k \in Key : k # a => Child(u, k) = Child(v, k)

\* Setting a field with a path of four, where it can be set.
LEMMA SetThere ==
  ASSUME NEW v, NEW a \in Key, NEW b \in Key, NEW c \in Key, NEW d \in Key, NEW w,
         Child(v, a) = Missing \/ IsMap(Child(v, a)),
         Child(Child(v, a), b) = Missing \/ IsMap(Child(Child(v, a), b)),
         Child(Child(Child(v, a), b), c) = Missing \/ IsMap(Child(Child(Child(v, a), b), c))
  PROVE  There(SetNested(v, <<a, b, c, d>>, w), v, a, b, c, d, w)
<1> DEFINE v1 == Child(v, a)
           v2 == Child(v1, b)
           v3 == Child(v2, c)
           w3 == With(v3, d, w)
           w2 == With(v2, c, w3)
           w1 == With(v1, b, w2)
           u == With(v, a, w1)
<1>1. SetNested(v, <<a, b, c, d>>, w) = u
  <2> DEFINE p == <<a, b, c, d>>
  <2>1. p[1] = a /\ p[2] = b /\ p[3] = c /\ p[4] = d
    OBVIOUS
  <2> HIDE DEF p
  <2> QED BY <2>1 DEF SetNested, p
<1>2. Child(w3, d) = w
  BY WithFacts
<1> HIDE DEF w3
<1>3. Child(w2, c) = w3
  BY WithFacts
<1> HIDE DEF w2
<1>4. IsMap(w1) /\ Child(w1, b) = w2 /\ \A k \in Key : k # b => Child(w1, k) = Child(v1, k)
  BY WithFacts
<1> HIDE DEF w1
<1>5. u # Missing /\ Child(u, a) = w1 /\ \A k \in Key : k # a => Child(u, k) = Child(v, k)
  BY WithFacts
<1> HIDE DEF u
<1>6. Nested(u, <<a, b, c, d>>) = w
  <2>1. Nested(u, <<a, b, c, d>>) = Child(Child(Child(Child(u, a), b), c), d)
    BY Path4
  <2> QED BY <1>2, <1>3, <1>4, <1>5, <2>1
<1>7. Child(Child(u, a), b) = With(Child(Child(v, a), b), c, With(Child(Child(Child(v, a), b), c), d, w))
  BY <1>4, <1>5, Zenon DEF w2, w3
<1>8. There(u, v, a, b, c, d, w)
  BY <1>4, <1>5, <1>6, <1>7, Zenon DEF There
<1> QED BY <1>1, <1>8, Zenon

\* What is sent.
Body(l, d) == AdoptImmutableFields(MergeMap[l][d], l)

\* It is what was merged, but for some fields of the spec.
Untouched(l, d, fields) ==
  LET s == Child(Body(l, d), "spec")
      m == MergeMap[l][d]
  IN  /\ IsMap(s)
      /\ \A k \in Key : k # "spec" => Child(Body(l, d), k) = Child(m, k)
      /\ \A k \in Key : k \notin fields => Child(s, k) = Child(Child(m, "spec"), k)

-----------------------------------------------------------------------------
(* Claims. *)

\* The resources that are sent for a claim.
Resources(l, d) ==
  LET r == Child(Child(MergeMap[l][d], "spec"), "resources")
      q == Child(r, "requests")
      x == Child(q, "storage")
  IN  IF \/ Floors(l) = {}
         \/ IsQuantity(x) /\ Quantity[x.leaf] >= Quantity[Floor(l).leaf]
      THEN r
      ELSE With(r, "requests", With(q, "storage", Floor(l)))

\* pvcStorageFloor is the larger of the two quantities.
LEMMA FloorFacts ==
  ASSUME NEW old, Floors(old) # {}
  PROVE  /\ Floor(old) \in Floors(old)
         /\ \A v \in Floors(old) : Quantity[Floor(old).leaf] >= Quantity[v.leaf]
<1> DEFINE r == Nested(old, RequestPath)
           c == Nested(old, CapacityPath)
           q(v) == Quantity[v.leaf]
           largest == {v \in Floors(old) : \A w \in Floors(old) : q(v) >= q(w)}
<1>1. Floors(old) = {v \in {r, c} : IsQuantity(v)}
  BY Zenon DEF Floors
<1>2. \A v : IsQuantity(v) => q(v) \in Nat
  BY MergeAssumption DEF IsQuantity
<1> HIDE DEF r, c, q
<1>3. \E v : v \in largest
  <2>1. CASE r \in Floors(old) /\ c \in Floors(old)
    <3>1. q(r) \in Nat /\ q(c) \in Nat
      BY <1>1, <1>2, <2>1
    <3>2. q(r) >= q(c) \/ q(c) >= q(r)
      BY <3>1
    <3>3. q(r) >= q(r) /\ q(c) >= q(c)
      BY <3>1
    <3>4. \A w \in Floors(old) : w = r \/ w = c
      BY <1>1, Zenon
    <3>5. r \in largest \/ c \in largest
      BY <2>1, <3>2, <3>3, <3>4, Zenon
    <3> QED BY <3>5, Zenon
  <2>2. CASE ~(r \in Floors(old) /\ c \in Floors(old))
    <3>1. PICK v : Floors(old) = {v}
      BY <1>1, <2>2
    <3>2. q(v) \in Nat
      BY <1>1, <1>2, <3>1
    <3>3. q(v) >= q(v)
      BY <3>2
    <3> QED BY <3>1, <3>3
  <2> QED BY <2>1, <2>2, Zenon
<1>4. Floor(old) = IF r \in largest THEN r ELSE CHOOSE v \in largest : TRUE
  BY Zenon DEF Floor, r, q
<1> HIDE DEF largest
<1>5. Floor(old) \in largest
  BY <1>3, <1>4
<1> QED BY <1>5 DEF largest, q

\* The maps of a live claim, which are none of a manifest's leaves.
LEMMA ClaimMaps ==
  ASSUME NEW l, NEW d, Pair(l, d), Kind(d) = "PersistentVolumeClaim"
  PROVE  LET lr == Child(Child(l, "spec"), "resources")
             dr == Child(Child(d, "spec"), "resources")
         IN  /\ IsMap(lr) /\ ~IsLeaf(dr)
             /\ IsMap(Child(lr, "requests")) /\ ~IsLeaf(Child(dr, "requests"))
<1>1. \A p \in MapFields("PersistentVolumeClaim") : IsMap(Nested(l, p)) /\ ~IsLeaf(Nested(d, p))
  BY DEF Pair, WellFormed, WellTyped
<1>2. /\ <<"spec", "resources">> \in MapFields("PersistentVolumeClaim")
      /\ <<"spec", "resources", "requests">> \in MapFields("PersistentVolumeClaim")
  BY Kinds
<1>3. \A v : Nested(v, <<"spec", "resources">>) = Child(Child(v, "spec"), "resources")
  BY Path2
<1>4. \A v : Nested(v, <<"spec", "resources", "requests">>) = Child(Child(Child(v, "spec"), "resources"), "requests")
  BY Path3
<1>5. IsMap(Nested(l, <<"spec", "resources">>)) /\ ~IsLeaf(Nested(d, <<"spec", "resources">>))
  BY <1>1, <1>2, Zenon
<1>6. IsMap(Nested(l, <<"spec", "resources", "requests">>)) /\ ~IsLeaf(Nested(d, <<"spec", "resources", "requests">>))
  BY <1>1, <1>2, Zenon
<1> QED BY <1>3, <1>4, <1>5, <1>6

\* A claim's request can be set.
LEMMA ClaimFacts ==
  ASSUME NEW l, NEW d, Pair(l, d), Kind(d) = "PersistentVolumeClaim"
  PROVE  LET r == Child(Child(MergeMap[l][d], "spec"), "resources")
             q == Child(r, "requests")
         IN  (r = Missing \/ IsMap(r)) /\ (q = Missing \/ IsMap(q))
<1> DEFINE s == Child(MergeMap[l][d], "spec")
           ls == Child(l, "spec")
           ds == Child(d, "spec")
           lr == Child(ls, "resources")
           dr == Child(ds, "resources")
           r == Child(s, "resources")
           lq == Child(lr, "requests")
           dq == Child(dr, "requests")
           q == Child(r, "requests")
<1>1. "resources" \in Key /\ "requests" \in Key
  BY Fields
<1>2. Overlays(s, ls, ds) /\ ls \in Values /\ ds \in Values
  BY SpecFacts
<1>3. IsMap(lr) /\ ~IsLeaf(dr) /\ IsMap(lq) /\ ~IsLeaf(dq)
  BY ClaimMaps
<1>4. lr \in Values /\ dr \in Values
  BY <1>1, <1>2, ChildValue, Zenon
<1> HIDE DEF s, ls, ds
<1>5. Overlays(r, lr, dr)
  BY <1>1, <1>2, <1>3, OverlaysChild, Zenon
<1> HIDE DEF r, lr, dr
<1>6. Overlays(q, lq, dq)
  BY <1>1, <1>3, <1>4, <1>5, OverlaysChild, Zenon
<1> HIDE DEF q
<1> QED BY <1>5, <1>6, Zenon DEF Overlays, q, r, s

\* What is sent for a claim: the volume is the live one, the request is no less
\* than the live request and capacity, and the rest is what was merged.
LEMMA ClaimBody ==
  ASSUME NEW l, NEW d, Pair(l, d), Kind(d) = "PersistentVolumeClaim", Child(d, "spec") # Null
  PROVE  LET m == MergeMap[l][d]
             b == AdoptImmutableFields(m, l)
         IN  /\ b \in Values /\ b # Missing /\ Child(b, "kind") = Child(m, "kind")
             /\ Nested(b, <<"spec", "volumeName">>) = Nested(l, <<"spec", "volumeName">>)
             /\ \A v \in Floors(l) : /\ IsQuantity(Nested(b, RequestPath))
                                     /\ Quantity[Nested(b, RequestPath).leaf] >= Quantity[v.leaf]
             /\ \A path \in Seq(Key) :
                   ~Within(path, <<"spec", "volumeName">>) /\ ~Within(path, RequestPath)
                      => LeafAt(b, path) = LeafAt(m, path)
             /\ Untouched(l, d, {"volumeName", "resources"})
             /\ Child(Child(b, "spec"), "resources") = Resources(l, d)
<1> DEFINE m == MergeMap[l][d]
           a == Adopt(m, l, "volumeName")
           b == AdoptImmutableFields(m, l)
           f == Floor(l)
           set == SetNested(a, RequestPath, f)
           Q(v) == Quantity[v.leaf]
           req == Nested(a, RequestPath)
<1>1. "spec" \in Key /\ "volumeName" \in Key /\ "kind" \in Key /\ "resources" \in Key /\ "requests" \in Key /\ "storage" \in Key
  BY Fields
<1>2. m \in Values /\ l \in Values /\ ~IsLeaf(m)
  BY MergedTop DEF Pair
<1>3. IsMap(Child(m, "spec")) /\ IsMap(Child(l, "spec")) /\ ~IsLeaf(Child(m, "spec"))
  BY SpecFacts
<1>4. b = ClampPVCStorage(a, l)
  BY <1>3, BodyCases
<1>5. a \in Values
  BY <1>1, <1>2, AdoptValue, Zenon
<1>6. /\ ~IsLeaf(a) /\ a # Missing /\ IsMap(Child(a, "spec"))
      /\ Child(Child(a, "spec"), "volumeName") = Child(Child(l, "spec"), "volumeName")
      /\ Child(Child(a, "spec"), "resources") = Child(Child(m, "spec"), "resources")
      /\ Child(a, "kind") = Child(m, "kind")
      /\ \A k \in Key : k # "volumeName" => Child(Child(a, "spec"), k) = Child(Child(m, "spec"), k)
      /\ \A k \in Key : k # "spec" => Child(a, k) = Child(m, k)
  <2>1. Adopted(a, m, l, "volumeName")
    BY <1>1, AdoptFacts, Zenon
  <2> HIDE DEF a, m
  <2> QED BY <1>1, <2>1, Zenon DEF Adopted
<1>7. \A path \in Seq(Key) : ~Within(path, <<"spec", "volumeName">>) => LeafAt(a, path) = LeafAt(m, path)
  BY <1>1, <1>2, <1>3, AdoptLeaf, ZenonT(60)
<1>8. Floors(l) = {} => b = a
  BY <1>4 DEF ClampPVCStorage
<1>9. ASSUME Floors(l) # {}
      PROVE  (b = a /\ IsQuantity(req) /\ Q(req) >= Q(f)) \/ (b = set /\ ~(IsQuantity(req) /\ Q(req) >= Q(f)))
  BY <1>4, <1>9 DEF ClampPVCStorage
<1>10. ASSUME Floors(l) # {} PROVE f \in Values /\ ~IsMap(f) /\ IsQuantity(f) /\ \A v \in Floors(l) : Q(f) >= Q(v)
  <2>1. f \in Floors(l) /\ \A v \in Floors(l) : Q(f) >= Q(v)
    BY <1>10, FloorFacts
  <2>2. f \in {Nested(l, RequestPath), Nested(l, CapacityPath)} /\ IsQuantity(f)
    BY <2>1 DEF Floors
  <2>3. Nested(l, RequestPath) \in Values /\ Nested(l, CapacityPath) \in Values
    <3>1. "status" \in Key /\ "capacity" \in Key
      BY Fields
    <3>2. \A v \in Values : \A k \in Key : Child(v, k) \in Values
      BY ChildValue, Zenon
    <3>3. Nested(l, RequestPath) = Child(Child(Child(Child(l, "spec"), "resources"), "requests"), "storage")
      BY Path4 DEF RequestPath
    <3>4. Nested(l, CapacityPath) = Child(Child(Child(l, "status"), "capacity"), "storage")
      BY Path3 DEF CapacityPath
    <3> QED BY <1>1, <1>2, <3>1, <3>2, <3>3, <3>4, Zenon
  <2>4. f \in Values
    BY <2>2, <2>3, Zenon
  <2>5. IsLeaf(f)
    BY <2>2, Zenon DEF IsQuantity
  <2>6. ~IsMap(f)
    BY <2>4, <2>5, ValueSorts, Sorts, Zenon
  <2> QED BY <2>1, <2>2, <2>4, <2>6, Zenon
<1> HIDE DEF a, b, f, m, Q
<1>11. ASSUME Floors(l) # {}
       PROVE  /\ set \in Values /\ set # Missing
              /\ Nested(set, RequestPath) = f
              /\ Child(Child(set, "spec"), "volumeName") = Child(Child(a, "spec"), "volumeName")
              /\ Child(set, "kind") = Child(a, "kind")
              /\ \A path \in Seq(Key) : ~Within(path, RequestPath) => LeafAt(set, path) = LeafAt(a, path)
              /\ IsMap(Child(set, "spec"))
              /\ LET r == Child(Child(a, "spec"), "resources")
                 IN  Child(Child(set, "spec"), "resources") =
                        With(r, "requests", With(Child(r, "requests"), "storage", f))
              /\ \A k \in Key : k # "resources" => Child(Child(set, "spec"), k) = Child(Child(a, "spec"), k)
              /\ \A k \in Key : k # "spec" => Child(set, k) = Child(a, k)
  <2> DEFINE r == Child(Child(a, "spec"), "resources")
             q == Child(r, "requests")
  <2>1. (r = Missing \/ IsMap(r)) /\ (q = Missing \/ IsMap(q))
    BY <1>6, ClaimFacts DEF m
  <2>2. set = SetNested(a, <<"spec", "resources", "requests", "storage">>, f)
    BY Zenon DEF RequestPath
  <2>3. /\ set # Missing /\ Nested(set, <<"spec", "resources", "requests", "storage">>) = f
        /\ Child(Child(set, "spec"), "volumeName") = Child(Child(a, "spec"), "volumeName")
        /\ Child(set, "kind") = Child(a, "kind")
        /\ IsMap(Child(set, "spec"))
        /\ Child(Child(set, "spec"), "resources") = With(r, "requests", With(q, "storage", f))
        /\ \A k \in Key : k # "resources" => Child(Child(set, "spec"), k) = Child(Child(a, "spec"), k)
        /\ \A k \in Key : k # "spec" => Child(set, k) = Child(a, k)
    <3> DEFINE path == <<"spec", "resources", "requests", "storage">>
    <3>1. There(SetNested(a, path, f), a, "spec", "resources", "requests", "storage", f)
      BY <1>1, <1>6, <2>1, SetThere, Zenon
    <3>2. There(set, a, "spec", "resources", "requests", "storage", f)
      BY <2>2, <3>1, Zenon
    <3> HIDE DEF set
    <3> QED BY <1>1, <3>2 DEF There
  <2>4. f \in Level[Depth - 4]
    <3>1. Depth - 4 \in 0 .. Depth
      BY MergeAssumption
    <3> QED BY <1>10, <1>11, <3>1, ScalarValue, LevelsIn, Zenon
  <2>5. set \in Values
    BY <1>1, <1>5, <2>2, <2>4, SetValue
  <2>6. ASSUME NEW path \in Seq(Key), ~Within(path, RequestPath) PROVE LeafAt(set, path) = LeafAt(a, path)
    <3>1. ~(/\ Len(path) >= 4 /\ path[1] = "spec" /\ path[2] = "resources"
            /\ path[3] = "requests" /\ path[4] = "storage")
      BY <2>6 DEF Within, RequestPath
    <3> QED BY <1>1, <1>5, <1>6, <2>2, <3>1, SetLeaf
  <2> QED BY <2>3, <2>5, <2>6 DEF RequestPath
<1> DEFINE r0 == Child(Child(m, "spec"), "resources")
<1>12. req = Child(Child(r0, "requests"), "storage")
  BY <1>6, Path4 DEF RequestPath
<1> HIDE DEF set, req
<1> DEFINE Fits == Floors(l) = {} \/ (IsQuantity(req) /\ Q(req) >= Q(f))
<1>13. Resources(l, d) = IF Fits THEN r0
                         ELSE With(r0, "requests", With(Child(r0, "requests"), "storage", f))
  BY <1>12, Zenon DEF Resources, Q, f, m
<1>14. Body(l, d) = b
  BY Zenon DEF Body, b, m
<1>15. Child(Child(a, "spec"), "resources") = r0
  BY <1>6, Zenon
<1>16. (Fits /\ b = a) \/ (~Fits /\ Floors(l) # {} /\ b = set)
  BY <1>8, <1>9, Zenon
<1> HIDE DEF r0
<1>17. CASE Fits /\ b = a
  <2>1. \A v \in Floors(l) : IsQuantity(Nested(b, RequestPath)) /\ Q(Nested(b, RequestPath)) >= Q(v)
    <3> SUFFICES ASSUME NEW v \in Floors(l) PROVE IsQuantity(req) /\ Q(req) >= Q(v)
      BY <1>17, Zenon DEF req
    <3>1. IsQuantity(f) /\ Q(f) >= Q(v)
      BY <1>10
    <3>2. IsQuantity(req) /\ Q(req) >= Q(f)
      BY <1>17
    <3>3. \A u : IsQuantity(u) => Q(u) \in Nat
      BY MergeAssumption DEF IsQuantity, Q
    <3>4. IsQuantity(v)
      BY DEF Floors
    <3>5. Q(f) \in Nat /\ Q(v) \in Nat /\ Q(req) \in Nat
      BY <3>1, <3>2, <3>3, <3>4, Zenon
    <3> QED BY <3>1, <3>2, <3>5
  <2>2. Nested(a, <<"spec", "volumeName">>) = Nested(l, <<"spec", "volumeName">>)
    BY <1>6, Path2
  <2>3. Untouched(l, d, {"volumeName", "resources"})
    BY <1>6, <1>14, <1>17 DEF Untouched, m
  <2>4. Child(Child(b, "spec"), "resources") = Resources(l, d)
    BY <1>13, <1>15, <1>17
  <2> QED BY <1>5, <1>6, <1>7, <1>17, <2>1, <2>2, <2>3, <2>4 DEF m, b, Q
<1>18. CASE ~Fits /\ Floors(l) # {} /\ b = set
  <2>1. Nested(b, <<"spec", "volumeName">>) = Nested(l, <<"spec", "volumeName">>)
    <3>1. \A v : Nested(v, <<"spec", "volumeName">>) = Child(Child(v, "spec"), "volumeName")
      BY Path2
    <3>2. Child(Child(b, "spec"), "volumeName") = Child(Child(l, "spec"), "volumeName")
      BY <1>6, <1>11, <1>18, Zenon
    <3> QED BY <3>1, <3>2
  <2>2. \A v \in Floors(l) : IsQuantity(Nested(b, RequestPath)) /\ Q(Nested(b, RequestPath)) >= Q(v)
    BY <1>10, <1>11, <1>18
  <2>3. b \in Values /\ b # Missing /\ Child(b, "kind") = Child(m, "kind")
    BY <1>6, <1>11, <1>18
  <2>4. \A path \in Seq(Key) : ~Within(path, <<"spec", "volumeName">>) /\ ~Within(path, RequestPath)
                      => LeafAt(b, path) = LeafAt(m, path)
    BY <1>7, <1>11, <1>18
  <2>5. Untouched(l, d, {"volumeName", "resources"})
    <3>1. /\ IsMap(Child(b, "spec"))
          /\ \A k \in Key : k # "resources" => Child(Child(b, "spec"), k) = Child(Child(a, "spec"), k)
          /\ \A k \in Key : k # "spec" => Child(b, k) = Child(a, k)
      BY <1>11, <1>18
    <3> QED BY <1>6, <1>14, <3>1 DEF Untouched, m
  <2>6. Child(Child(b, "spec"), "resources") = Resources(l, d)
    BY <1>11, <1>13, <1>15, <1>18
  <2> QED BY <2>1, <2>2, <2>3, <2>4, <2>5, <2>6 DEF m, b, Q
<1> QED BY <1>16, <1>17, <1>18

-----------------------------------------------------------------------------
(* Services and workloads. *)

\* What is sent for a service: the address is the live one, and the rest is what
\* was merged.
LEMMA ServiceBody ==
  ASSUME NEW l, NEW d, Pair(l, d), Kind(d) = "Service", Child(d, "spec") # Null
  PROVE  LET m == MergeMap[l][d]
             b == AdoptImmutableFields(m, l)
         IN  /\ b \in Values /\ b # Missing /\ Child(b, "kind") = Child(m, "kind")
             /\ Nested(b, <<"spec", "clusterIP">>) = Nested(l, <<"spec", "clusterIP">>)
             /\ \A path \in Seq(Key) :
                   ~Within(path, <<"spec", "clusterIP">>) => LeafAt(b, path) = LeafAt(m, path)
             /\ Untouched(l, d, {"clusterIP"})
<1> DEFINE m == MergeMap[l][d]
           a == Adopt(m, l, "clusterIP")
           b == AdoptImmutableFields(m, l)
<1>1. "spec" \in Key /\ "clusterIP" \in Key /\ "kind" \in Key
  BY Fields
<1>2. m \in Values /\ l \in Values /\ ~IsLeaf(m)
  BY MergedTop DEF Pair
<1>3. IsMap(Child(m, "spec")) /\ IsMap(Child(l, "spec")) /\ ~IsLeaf(Child(m, "spec"))
  BY SpecFacts
<1>4. b = a
  BY <1>3, BodyCases
<1>5. a \in Values
  BY <1>1, <1>2, AdoptValue, Zenon
<1>6. /\ a # Missing /\ Child(a, "kind") = Child(m, "kind")
      /\ Child(Child(a, "spec"), "clusterIP") = Child(Child(l, "spec"), "clusterIP")
      /\ IsMap(Child(a, "spec"))
      /\ \A k \in Key : k # "clusterIP" => Child(Child(a, "spec"), k) = Child(Child(m, "spec"), k)
      /\ \A k \in Key : k # "spec" => Child(a, k) = Child(m, k)
  <2>1. Adopted(a, m, l, "clusterIP")
    BY <1>1, AdoptFacts, Zenon
  <2> HIDE DEF a, m
  <2> QED BY <1>1, <2>1, Zenon DEF Adopted
<1>7. \A path \in Seq(Key) : ~Within(path, <<"spec", "clusterIP">>) => LeafAt(a, path) = LeafAt(m, path)
  BY <1>1, <1>2, <1>3, AdoptLeaf
<1> HIDE DEF a, m
<1>8. Nested(a, <<"spec", "clusterIP">>) = Nested(l, <<"spec", "clusterIP">>)
  BY <1>6, FieldPaths, ZenonT(60)
<1>9. Untouched(l, d, {"clusterIP"})
  BY <1>4, <1>6 DEF Untouched, Body, m
<1> QED BY <1>4, <1>5, <1>6, <1>7, <1>8, <1>9 DEF m

\* A string map has strings, each the value of its key.
LEMMA StringMap ==
  ASSUME NEW v, NEW path
  PROVE  LET s == NestedStringMap(v, path)
         IN  /\ IsMap(s)
             /\ \A k \in Key : s.map[k] = Missing \/ (IsLeaf(s.map[k]) /\ s.map[k] = Child(Nested(v, path), k))
<1> DEFINE n == Nested(v, path)
           s == NestedStringMap(v, path)
           e == [k \in Key |-> Missing]
<1>1. CASE IsMap(n) /\ \A k \in Key : n.map[k] = Missing \/ IsLeaf(n.map[k])
  <2>1. s = n
    BY <1>1 DEF NestedStringMap
  <2> HIDE DEF s, n
  <2> QED BY <1>1, <2>1, Zenon DEF Child, s, n
<1>2. CASE ~(IsMap(n) /\ \A k \in Key : n.map[k] = Missing \/ IsLeaf(n.map[k]))
  <2>1. s = Map(e)
    BY <1>2 DEF NestedStringMap, Empty
  <2>2. \A k \in Key : e[k] = Missing
    OBVIOUS
  <2> HIDE DEF e
  <2>3. IsMap(s) /\ s.map = e
    BY <2>1, Sorts, Zenon
  <2> HIDE DEF s
  <2> QED BY <2>1, <2>2, <2>3 DEF s
<1> QED BY <1>1, <1>2, Zenon

\* The maps of a live workload, which are none of a manifest's leaves.
LEMMA WorkloadMaps ==
  ASSUME NEW l, NEW d, Pair(l, d), Kind(d) \in Workloads
  PROVE  LET lt == Child(Child(l, "spec"), "template")
             dt == Child(Child(d, "spec"), "template")
             la == Child(lt, "metadata")
             da == Child(dt, "metadata")
         IN  /\ IsMap(lt) /\ ~IsLeaf(dt) /\ IsMap(la) /\ ~IsLeaf(da)
             /\ IsMap(Child(la, "labels")) /\ ~IsLeaf(Child(da, "labels"))
<1>1. /\ \A v : Nested(v, <<"spec", "template">>) = Child(Child(v, "spec"), "template")
      /\ \A v : Nested(v, <<"spec", "template", "metadata">>) = Child(Child(Child(v, "spec"), "template"), "metadata")
      /\ \A v : Nested(v, LabelsPath) = Child(Child(Child(Child(v, "spec"), "template"), "metadata"), "labels")
  BY FieldPaths, ZenonT(60)
<1>2. \A p \in MapFields(Kind(d)) : IsMap(Nested(l, p)) /\ ~IsLeaf(Nested(d, p))
  BY DEF Pair, WellFormed, WellTyped
<1>3. /\ <<"spec", "template">> \in MapFields(Kind(d))
      /\ <<"spec", "template", "metadata">> \in MapFields(Kind(d))
      /\ LabelsPath \in MapFields(Kind(d))
  BY Kinds
<1>4. IsMap(Nested(l, <<"spec", "template">>)) /\ ~IsLeaf(Nested(d, <<"spec", "template">>))
  BY <1>2, <1>3, Zenon
<1>5. IsMap(Nested(l, <<"spec", "template", "metadata">>)) /\ ~IsLeaf(Nested(d, <<"spec", "template", "metadata">>))
  BY <1>2, <1>3, Zenon
<1>6. IsMap(Nested(l, LabelsPath)) /\ ~IsLeaf(Nested(d, LabelsPath))
  BY <1>2, <1>3, Zenon
<1> QED BY <1>1, <1>4, <1>5, <1>6

\* The merged labels of a workload are strings, and can be set.
LEMMA WorkloadFacts ==
  ASSUME NEW l, NEW d, Pair(l, d), Kind(d) \in Workloads
  PROVE  LET t == Child(Child(MergeMap[l][d], "spec"), "template")
             a == Child(t, "metadata")
             s == Child(a, "labels")
         IN  /\ t = Missing \/ IsMap(t)
             /\ a = Missing \/ IsMap(a)
             /\ s = Missing \/ IsMap(s)
             /\ \A k \in Key : Child(s, k) = Missing \/ IsLeaf(Child(s, k))
<1> DEFINE ms == Child(MergeMap[l][d], "spec")
           ls == Child(l, "spec")
           ds == Child(d, "spec")
           lt == Child(ls, "template")
           dt == Child(ds, "template")
           t == Child(ms, "template")
           la == Child(lt, "metadata")
           da == Child(dt, "metadata")
           a == Child(t, "metadata")
           lb == Child(la, "labels")
           db == Child(da, "labels")
           s == Child(a, "labels")
<1>1. "template" \in Key /\ "metadata" \in Key /\ "labels" \in Key
  BY Fields
<1>2. Overlays(ms, ls, ds) /\ ls \in Values /\ ds \in Values
  BY SpecFacts
<1>3. \A v : Nested(v, LabelsPath) = Child(Child(Child(Child(v, "spec"), "template"), "metadata"), "labels")
  BY LabelsFields, ZenonT(60)
<1>4. IsMap(lt) /\ ~IsLeaf(dt) /\ IsMap(la) /\ ~IsLeaf(da) /\ IsMap(lb) /\ ~IsLeaf(db)
  BY WorkloadMaps
<1>5. \A k \in Key : (Child(lb, k) = Missing \/ IsLeaf(Child(lb, k))) /\ ~IsMap(Child(db, k))
  <2>1. Nested(l, LabelsPath) = lb /\ Nested(d, LabelsPath) = db
    BY <1>3
  <2>2. NestedStringMap(l, LabelsPath) = lb
    BY <2>1 DEF Pair, WellFormed
  <2>3. \A k \in Key : lb.map[k] = Missing \/ IsLeaf(lb.map[k])
    BY <2>2, StringMap
  <2>4. \A k \in Key : Nested(d, Append(LabelsPath, k)) = Child(db, k)
    <3> SUFFICES ASSUME NEW k \in Key PROVE Nested(d, Append(LabelsPath, k)) = Child(db, k)
      OBVIOUS
    <3>1. LabelsPath \in Seq(Key)
      BY Fields DEF LabelsPath
    <3> HIDE DEF db
    <3> QED BY <2>1, <3>1, NestedAppend, Zenon
  <2>5. \A k \in Key : ~IsMap(Nested(d, Append(LabelsPath, k)))
    BY DEF Pair, WellTyped
  <2> HIDE DEF lb, db
  <2> QED BY <1>4, <2>3, <2>4, <2>5, Zenon DEF Child
<1>6. lt \in Values /\ dt \in Values
  BY <1>1, <1>2, ChildValue, Zenon
<1> HIDE DEF ms, ls, ds
<1>7. Overlays(t, lt, dt)
  BY <1>1, <1>2, <1>4, OverlaysChild, Zenon
<1>8. la \in Values /\ da \in Values
  BY <1>1, <1>6, ChildValue, Zenon
<1> HIDE DEF t, lt, dt
<1>9. Overlays(a, la, da)
  BY <1>1, <1>4, <1>6, <1>7, OverlaysChild, Zenon
<1>10. lb \in Values /\ db \in Values
  BY <1>1, <1>8, ChildValue, Zenon
<1> HIDE DEF a, la, da
<1>11. Overlays(s, lb, db)
  BY <1>1, <1>4, <1>8, <1>9, OverlaysChild, Zenon
<1> HIDE DEF s, lb, db
<1>12. ASSUME NEW k \in Key PROVE Child(s, k) = Missing \/ IsLeaf(Child(s, k))
  <2> DEFINE x == Child(lb, k)
             y == Child(db, k)
  <2>1. x \in Values /\ y \in Values
    BY <1>10, ChildValue, Zenon
  <2>2. (x = Missing \/ IsLeaf(x)) /\ ~IsMap(y)
    BY <1>5, Zenon
  <2>3. s = Missing => Child(s, k) = Missing
    BY Sorts, Zenon DEF Child
  <2>4. s # Missing => Child(s, k) = MergeMap[x][y]
    BY <1>11, Zenon DEF Overlays
  <2> HIDE DEF x, y
  <2>5. MergeMap[x][y] \in {x, y, Missing} /\ (MergeMap[x][y] = y => y # Null)
    <3>1. y = Null => MergeMap[x][y] = Missing
      BY <2>1, MergeCases, Zenon
    <3>2. y = Missing => MergeMap[x][y] = x
      BY <2>1, MergeCases, Zenon
    <3>3. y \notin {Missing, Null} => MergeMap[x][y] = y
      BY <2>1, <2>2, MergeCases, Zenon
    <3> QED BY <3>1, <3>2, <3>3, Sorts, Zenon
  <2>6. y = Missing \/ y = Null \/ IsLeaf(y)
    BY <2>1, <2>2, ValueSorts, Zenon
  <2> QED BY <2>2, <2>3, <2>4, <2>5, <2>6, Zenon
<1> QED BY <1>7, <1>9, <1>11, <1>12, Zenon DEF Overlays, s, a, t, ms

\* The labels of a selector, over others.
Labelled(selector, labels) ==
  Map([k \in Key |-> IF selector[k] # Missing THEN selector[k] ELSE Child(labels, k)])

\* The template that is sent for a workload.
Template(l, d) ==
  LET selector == NestedStringMap(l, SelectorPath).map
      t == Child(Child(MergeMap[l][d], "spec"), "template")
      a == Child(t, "metadata")
  IN  IF Map(selector) = Empty THEN t
      ELSE With(t, "metadata", With(a, "labels", Labelled(selector, Child(a, "labels"))))

\* What is sent for a workload: the selector is the live one, the labels of its
\* pods match it, and the rest is what was merged.
LEMMA WorkloadBody ==
  ASSUME NEW l, NEW d, Pair(l, d), Kind(d) \in Workloads, Child(d, "spec") # Null
  PROVE  LET m == MergeMap[l][d]
             b == AdoptImmutableFields(m, l)
             selector == NestedStringMap(l, SelectorPath).map
         IN  /\ b \in Values /\ b # Missing /\ Child(b, "kind") = Child(m, "kind")
             /\ Nested(b, <<"spec", "selector">>) = Nested(l, <<"spec", "selector">>)
             /\ \A k \in Key : selector[k] # Missing =>
                                  NestedStringMap(b, LabelsPath).map[k] = selector[k]
             /\ \A path \in Seq(Key) :
                   /\ ~Within(path, <<"spec", "selector">>)
                   /\ ~\E k \in Key : /\ Within(path, Append(LabelsPath, k))
                                      /\ Nested(l, Append(SelectorPath, k)) # Missing
                   => LeafAt(b, path) = LeafAt(m, path)
             /\ Untouched(l, d, {"selector", "template"})
             /\ Child(Child(b, "spec"), "template") = Template(l, d)
<1> DEFINE m == MergeMap[l][d]
           a == Adopt(m, l, "selector")
           b == AdoptImmutableFields(m, l)
           sel == NestedStringMap(a, SelectorPath).map
           lab == Nested(a, LabelsPath)
           labels == NestedStringMap(a, LabelsPath).map
           new == [k \in Key |-> IF sel[k] # Missing THEN sel[k] ELSE labels[k]]
           set == SetNested(a, LabelsPath, Map(new))
<1>1. /\ "spec" \in Key /\ "selector" \in Key /\ "kind" \in Key /\ "matchLabels" \in Key
      /\ "template" \in Key /\ "metadata" \in Key /\ "labels" \in Key
  BY Fields
<1>2. m \in Values /\ l \in Values /\ ~IsLeaf(m)
  BY MergedTop DEF Pair
<1>3. IsMap(Child(m, "spec")) /\ IsMap(Child(l, "spec")) /\ ~IsLeaf(Child(m, "spec"))
  BY SpecFacts
<1>4. b = ReconcileSelectorLabels(a)
  BY <1>3, BodyCases
<1>5. a \in Values
  BY <1>1, <1>2, AdoptValue, Zenon
<1>6. /\ ~IsLeaf(a) /\ a # Missing /\ IsMap(Child(a, "spec"))
      /\ Child(Child(a, "spec"), "selector") = Child(Child(l, "spec"), "selector")
      /\ Child(Child(a, "spec"), "template") = Child(Child(m, "spec"), "template")
      /\ Child(a, "kind") = Child(m, "kind")
      /\ \A k \in Key : k # "selector" => Child(Child(a, "spec"), k) = Child(Child(m, "spec"), k)
      /\ \A k \in Key : k # "spec" => Child(a, k) = Child(m, k)
  <2>1. Adopted(a, m, l, "selector")
    BY <1>1, AdoptFacts, Zenon
  <2> HIDE DEF a, m
  <2> QED BY <1>1, <2>1, Zenon DEF Adopted
<1>7. \A path \in Seq(Key) : ~Within(path, <<"spec", "selector">>) => LeafAt(a, path) = LeafAt(m, path)
  BY <1>1, <1>2, <1>3, AdoptLeaf, ZenonT(60)
<1>8. (Map(sel) = Empty /\ b = a) \/ (Map(sel) # Empty /\ b = set)
  BY <1>4 DEF ReconcileSelectorLabels
<1> DEFINE t == Child(Child(a, "spec"), "template")
           o == Child(t, "metadata")
<1>9. /\ t = Missing \/ IsMap(t)
      /\ o = Missing \/ IsMap(o)
      /\ Child(o, "labels") = Missing \/ IsMap(Child(o, "labels"))
      /\ \A k \in Key : Child(Child(o, "labels"), k) = Missing \/ IsLeaf(Child(Child(o, "labels"), k))
  BY <1>6, WorkloadFacts, ZenonT(60)
<1> HIDE DEF m, a, b
<1>10. lab = Child(o, "labels")
  BY Path4 DEF LabelsPath
<1>11. lab \in Values
  BY <1>1, <1>5, <1>10, ChildValue
<1> HIDE DEF lab, o, t
<1>12. NestedStringMap(a, SelectorPath) = NestedStringMap(l, SelectorPath)
  <2>1. Nested(a, SelectorPath) = Nested(l, SelectorPath)
    BY <1>6, Path3 DEF SelectorPath
  <2> QED BY <2>1, Zenon DEF NestedStringMap
<1>13. \A k \in Key : labels[k] = Child(lab, k)
  <2>1. CASE IsMap(lab)
    <3>1. \A k \in Key : lab.map[k] = Missing \/ IsLeaf(lab.map[k])
      BY <1>9, <1>10, <2>1, Zenon DEF Child
    <3>2. NestedStringMap(a, LabelsPath) = lab
      BY <2>1, <3>1 DEF NestedStringMap, lab
    <3> QED BY <2>1, <3>2 DEF Child
  <2>2. CASE ~IsMap(lab)
    <3>1. NestedStringMap(a, LabelsPath) = Empty
      BY <2>2 DEF NestedStringMap, lab
    <3>2. Empty.map = [k \in Key |-> Missing]
      BY Sorts, Zenon DEF Empty
    <3> QED BY <2>2, <3>1, <3>2 DEF Child
  <2> QED BY <2>1, <2>2
<1>14. \A k \in Key : sel[k] = Missing \/ (IsLeaf(sel[k]) /\ sel[k] = Child(Nested(l, SelectorPath), k))
  BY <1>12, StringMap
<1> HIDE DEF sel, labels
<1>15. \A k \in Key : new[k] = IF sel[k] # Missing THEN sel[k] ELSE Child(lab, k)
  BY <1>13
<1>16. \A k \in Key : new[k] \in Scalar /\ (new[k] = Missing \/ IsLeaf(new[k]))
  <2> SUFFICES ASSUME NEW k \in Key PROVE new[k] \in Scalar /\ (new[k] = Missing \/ IsLeaf(new[k]))
    OBVIOUS
  <2> HIDE DEF new
  <2>1. Child(lab, k) \in Values /\ (Child(lab, k) = Missing \/ IsLeaf(Child(lab, k)))
    BY <1>9, <1>10, <1>11, ChildValue
  <2>2. Nested(l, SelectorPath) = Child(Child(Child(l, "spec"), "selector"), "matchLabels")
    BY Path3 DEF SelectorPath
  <2>3. \A v \in Values : \A j \in Key : Child(v, j) \in Values
    BY ChildValue, Zenon
  <2>4. Child(Nested(l, SelectorPath), k) \in Values
    BY <1>1, <1>2, <2>2, <2>3, Zenon
  <2>5. new[k] = Child(lab, k) \/ (IsLeaf(new[k]) /\ new[k] = Child(Nested(l, SelectorPath), k))
    BY <1>14, <1>15
  <2>6. new[k] \in Values /\ (new[k] = Missing \/ IsLeaf(new[k]))
    BY <2>1, <2>4, <2>5, Zenon
  <2>7. ~IsMap(new[k])
    BY <2>6, ValueSorts, Sorts, Zenon
  <2> QED BY <2>6, <2>7, ScalarValue, Zenon
<1>17. new = [k \in Key |-> new[k]] /\ DOMAIN new = Key
  OBVIOUS
<1> HIDE DEF new
<1>18. Map(new) \in Level[Depth - 4]
  <2>1. 1 \in 1 .. Depth /\ 1 - 1 = 0 /\ Depth - 4 \in 0 .. Depth /\ 1 \in 0 .. Depth - 4
    BY MergeAssumption
  <2>2. new \in [Key -> Level[0]]
    BY <1>16, <1>17, Levels
  <2>3. Map(new) \in Level[1]
    BY <2>1, <2>2, MapIn
  <2> QED BY <2>1, <2>3, LevelsBelow
<1>19. IsMap(Map(new)) /\ ~IsLeaf(Map(new)) /\ Map(new).map = new
  BY Sorts, Zenon
<1>20. /\ set \in Values /\ set # Missing
       /\ Nested(set, LabelsPath) = Map(new)
       /\ Child(Child(set, "spec"), "selector") = Child(Child(a, "spec"), "selector")
       /\ Child(set, "kind") = Child(a, "kind")
       /\ IsMap(Child(set, "spec"))
       /\ Child(Child(set, "spec"), "template") = With(t, "metadata", With(o, "labels", Map(new)))
       /\ \A k \in Key : k # "template" => Child(Child(set, "spec"), k) = Child(Child(a, "spec"), k)
       /\ \A k \in Key : k # "spec" => Child(set, k) = Child(a, k)
  <2>1. set = SetNested(a, <<"spec", "template", "metadata", "labels">>, Map(new))
    BY Zenon DEF LabelsPath
  <2>2. set \in Values
    BY <1>1, <1>5, <1>18, <2>1, SetValue
  <2>3. /\ set # Missing /\ Nested(set, <<"spec", "template", "metadata", "labels">>) = Map(new)
        /\ Child(Child(set, "spec"), "selector") = Child(Child(a, "spec"), "selector")
        /\ Child(set, "kind") = Child(a, "kind")
        /\ IsMap(Child(set, "spec"))
        /\ Child(Child(set, "spec"), "template") = With(t, "metadata", With(o, "labels", Map(new)))
        /\ \A k \in Key : k # "template" => Child(Child(set, "spec"), k) = Child(Child(a, "spec"), k)
        /\ \A k \in Key : k # "spec" => Child(set, k) = Child(a, k)
    <3> DEFINE path == <<"spec", "template", "metadata", "labels">>
    <3>1. There(SetNested(a, path, Map(new)), a, "spec", "template", "metadata", "labels", Map(new))
      BY <1>1, <1>6, <1>9, SetThere, Zenon DEF t, o
    <3>2. There(set, a, "spec", "template", "metadata", "labels", Map(new))
      BY <2>1, <3>1, Zenon
    <3> HIDE DEF set, new
    <3> QED BY <1>1, <3>2 DEF There, t, o
  <2> QED BY <2>2, <2>3 DEF LabelsPath
<1>21. ASSUME NEW path \in Seq(Key),
              ~\E k \in Key : Within(path, Append(LabelsPath, k)) /\ Nested(l, Append(SelectorPath, k)) # Missing
       PROVE  LeafAt(set, path) = LeafAt(a, path)
  <2> DEFINE q == Beyond(path)
             In == /\ Len(path) >= 4 /\ path[1] = "spec" /\ path[2] = "template"
                   /\ path[3] = "metadata" /\ path[4] = "labels"
  <2>1. ASSUME In PROVE LeafAt(Map(new), q) = LeafAt(lab, q)
    <3>1. q \in Seq(Key) /\ (q # << >> => q[1] = path[5] /\ q[1] \in Key /\ Len(path) >= 5)
      BY <2>1, BeyondFacts
    <3> HIDE DEF q
    <3>2. ~IsLeaf(lab)
      BY <1>9, <1>10, <1>11, ValueSorts, Sorts, Zenon
    <3>3. CASE q = << >>
      <4>1. Nested(Map(new), q) = Map(new) /\ Nested(lab, q) = lab
        BY <3>3, Path0, Zenon
      <4> QED BY <1>19, <3>2, <4>1, Zenon DEF LeafAt
    <3>4. CASE q # << >>
      <4> DEFINE k == q[1]
      <4>1. k \in Key /\ Len(path) >= 5 /\ path[5] = k
        BY <3>1, <3>4, Zenon
      <4> HIDE DEF k
      <4>2. Within(path, Append(LabelsPath, k))
        BY <2>1, <4>1 DEF Within, LabelsPath
      <4>3. Nested(l, Append(SelectorPath, k)) = Missing
        BY <1>21, <4>1, <4>2, Zenon
      <4>4. Nested(l, Append(SelectorPath, k)) = Child(Nested(l, SelectorPath), k)
        <5>1. SelectorPath \in Seq(Key)
          BY <1>1 DEF SelectorPath
        <5> QED BY <4>1, <5>1, NestedAppend, Zenon
      <4>5. sel[k] = Missing
        BY <1>14, <4>1, <4>3, <4>4, Zenon
      <4>6. Child(Map(new), k) = Child(lab, k)
        BY <1>15, <1>19, <4>1, <4>5 DEF Child
      <4> QED BY <3>1, <3>4, <4>6, LeafTail, Zenon DEF k
    <3> QED BY <3>3, <3>4, Zenon
  <2>2. In => LeafAt(Map(new), Beyond(path)) = LeafAt(Nested(a, <<"spec", "template", "metadata", "labels">>), Beyond(path))
    BY <2>1, Zenon DEF lab, LabelsPath
  <2>3. LeafAt(SetNested(a, <<"spec", "template", "metadata", "labels">>, Map(new)), path) = LeafAt(a, path)
    BY <1>1, <1>5, <1>6, <2>2, SetLeaf
  <2> QED BY <2>3, Zenon DEF LabelsPath
<1> HIDE DEF set
<1>22. b \in Values /\ b # Missing /\ Child(b, "kind") = Child(m, "kind")
  BY <1>5, <1>6, <1>8, <1>20
<1>23. Nested(b, <<"spec", "selector">>) = Nested(l, <<"spec", "selector">>)
  <2>1. Child(Child(b, "spec"), "selector") = Child(Child(l, "spec"), "selector")
    BY <1>6, <1>8, <1>20, Zenon
  <2> QED BY <2>1, FieldPaths, ZenonT(60)
<1>24. ASSUME NEW k \in Key, sel[k] # Missing PROVE NestedStringMap(b, LabelsPath).map[k] = sel[k]
  <2>1. Map(sel) # Empty
    <3>1. Map(sel).map = sel /\ Empty.map = [j \in Key |-> Missing]
      BY Sorts, Zenon DEF Empty
    <3> QED BY <1>24, <3>1
  <2>2. NestedStringMap(set, LabelsPath) = Map(new)
    BY <1>16, <1>19, <1>20 DEF NestedStringMap
  <2> QED BY <1>8, <1>15, <1>19, <1>24, <2>1, <2>2
<1>25. ASSUME NEW path \in Seq(Key), ~Within(path, <<"spec", "selector">>),
              ~\E k \in Key : Within(path, Append(LabelsPath, k)) /\ Nested(l, Append(SelectorPath, k)) # Missing
       PROVE  LeafAt(b, path) = LeafAt(m, path)
  BY <1>7, <1>8, <1>21, <1>25, Zenon
<1>26. /\ IsMap(Child(b, "spec"))
       /\ \A k \in Key : k \notin {"selector", "template"} => Child(Child(b, "spec"), k) = Child(Child(a, "spec"), k)
       /\ \A k \in Key : k # "spec" => Child(b, k) = Child(a, k)
  BY <1>6, <1>8, <1>20
<1>27. Untouched(l, d, {"selector", "template"})
  BY <1>6, <1>26 DEF Untouched, Body, m, b
<1>28. Map(new) = Labelled(sel, Child(o, "labels"))
  <2>1. new = [k \in Key |-> IF sel[k] # Missing THEN sel[k] ELSE Child(lab, k)]
    BY <1>15, <1>17
  <2> QED BY <1>10, <2>1, Zenon DEF Labelled
<1>29. Child(Child(b, "spec"), "template") = Template(l, d)
  <2>1. Template(l, d) = IF Map(sel) = Empty THEN t
                         ELSE With(t, "metadata", With(o, "labels", Labelled(sel, Child(o, "labels"))))
    BY <1>6, <1>12 DEF Template, sel, t, o, m
  <2>2. Child(Child(a, "spec"), "template") = t
    BY Zenon DEF t
  <2> QED BY <1>8, <1>20, <1>28, <2>1, <2>2
<1> QED BY <1>12, <1>22, <1>23, <1>24, <1>25, <1>27, <1>29 DEF m, b, sel

-----------------------------------------------------------------------------
(* What is sent. *)

\* A manifest that nulls the spec leaves nothing to adopt.
LEMMA NoSpec ==
  ASSUME NEW l, NEW d, Pair(l, d), Child(d, "spec") = Null
  PROVE  AdoptImmutableFields(MergeMap[l][d], l) = MergeMap[l][d]
<1>1. "spec" \in Key /\ l \in Values /\ d \in Values
  BY Fields DEF Pair
<1>2. Child(l, "spec") \in Values /\ Child(d, "spec") \in Values
  BY <1>1, ChildValue, Zenon
<1>3. MergeMap[Child(l, "spec")][Child(d, "spec")] = Missing
  BY <1>2, MergeCases
<1>4. Child(MergeMap[l][d], "spec") = Missing
  <2>1. Merged(MergeMap[l][d], l, d)
    BY MergedFields, Zenon
  <2> QED BY <1>1, <1>3, <2>1, Zenon DEF Merged
<1> QED BY <1>4, BodyCases, Sorts

\* What is sent is a value of the manifest's kind.
LEMMA BodyFacts ==
  ASSUME NEW l, NEW d, Pair(l, d)
  PROVE  LET b == AdoptImmutableFields(MergeMap[l][d], l)
         IN  /\ b \in Values /\ IsMap(b) /\ b # Missing
             /\ Child(b, "kind") = Child(d, "kind") /\ IsLeaf(Child(b, "kind"))
<1> DEFINE m == MergeMap[l][d]
           b == AdoptImmutableFields(m, l)
<1>1. m \in Values /\ m # Missing /\ Child(m, "kind") = Child(d, "kind") /\ IsLeaf(Child(m, "kind"))
  BY MergedTop
<1>2. b \in Values /\ b # Missing /\ Child(b, "kind") = Child(m, "kind")
  <2>1. CASE Child(d, "spec") = Null
    BY <1>1, <2>1, NoSpec
  <2>2. CASE Child(d, "spec") # Null /\ Kind(d) = "PersistentVolumeClaim"
    BY <2>2, ClaimBody
  <2>3. CASE Child(d, "spec") # Null /\ Kind(d) = "Service"
    BY <2>3, ServiceBody
  <2>4. CASE Child(d, "spec") # Null /\ Kind(d) \in Workloads
    BY <2>4, WorkloadBody
  <2>5. CASE Kind(d) \notin Workloads \cup {"PersistentVolumeClaim", "Service"}
    BY <1>1, <2>5, BodyCases
  <2> QED BY <2>1, <2>2, <2>3, <2>4, <2>5
<1> HIDE DEF b, m
<1>3. IsMap(b)
  BY <1>1, <1>2, Sorts, Zenon DEF Child
<1> QED BY <1>1, <1>2, <1>3 DEF b, m

-----------------------------------------------------------------------------
(* A second update. *)

\* r and s are overlays of o, and both nothing if one is.
Twice(r, b, s, c, o) ==
  Overlays(r, b, o) /\ Overlays(s, c, o) /\ (r = Missing <=> s = Missing)

\* The same holds of maps inside.
LEMMA TwiceChild ==
  ASSUME NEW r, NEW b \in Values, NEW s, NEW c \in Values, NEW o \in Values, NEW k \in Key,
         Twice(r, b, s, c, o), IsMap(Child(b, k)), IsMap(Child(c, k)), ~IsLeaf(Child(o, k))
  PROVE  Twice(Child(r, k), Child(b, k), Child(s, k), Child(c, k), Child(o, k))
<1>1. Overlays(r, b, o) /\ Overlays(s, c, o) /\ (r = Missing <=> s = Missing)
  BY Zenon DEF Twice
<1>2. Overlays(Child(r, k), Child(b, k), Child(o, k)) /\ Overlays(Child(s, k), Child(c, k), Child(o, k))
  BY <1>1, OverlaysChild, Zenon
<1>3. Child(r, k) = Missing <=> Child(s, k) = Missing
  <2>1. CASE r = Missing
    BY <1>1, <2>1, Sorts, Zenon DEF Child
  <2>2. CASE r # Missing
    <3>1. Child(r, k) = MergeMap[Child(b, k)][Child(o, k)] /\ Child(s, k) = MergeMap[Child(c, k)][Child(o, k)]
      BY <1>1, <2>2, Zenon DEF Overlays
    <3>2. Child(b, k) \in Values /\ Child(c, k) \in Values /\ Child(o, k) \in Values
      BY ChildValue, Zenon
    <3>3. CASE Child(o, k) = Null
      <4>1. \A x, y \in Values : y = Null => MergeMap[x][y] = Missing
        BY MergeCases, Zenon
      <4> QED BY <3>1, <3>2, <3>3, <4>1
    <3>4. CASE Child(o, k) # Null
      <4>1. IsMap(Child(r, k)) /\ IsMap(Child(s, k))
        BY <3>1, <3>2, <3>4, OverlaysTop
      <4> QED BY <4>1, Sorts, Zenon
    <3> QED BY <3>3, <3>4, Zenon
  <2> QED BY <2>1, <2>2, Zenon
<1> QED BY <1>2, <1>3, Zenon DEF Twice

\* Two values that are stored the same.
Alike(p, q) == Stored[q] = Stored[p]

\* The field k is merged again into what was stored of it.
Refilled(r, b, s, c, o, k) ==
  /\ b \in Values /\ c \in Values /\ o \in Values /\ k \in Key
  /\ Twice(r, b, s, c, o) /\ Child(c, k) = Stored[Child(r, k)]

\* Such a field is stored the same.
LEMMA FieldAgain ==
  ASSUME NEW r, NEW b, NEW s, NEW c, NEW o, NEW k, Refilled(r, b, s, c, o, k)
  PROVE  Alike(Child(r, k), Child(s, k))
<1> SUFFICES Stored[Child(s, k)] = Stored[Child(r, k)]
  BY Zenon DEF Alike
<1>0. /\ b \in Values /\ c \in Values /\ o \in Values /\ k \in Key
      /\ Twice(r, b, s, c, o) /\ Child(c, k) = Stored[Child(r, k)]
  BY Zenon DEF Refilled
<1>1. CASE r = Missing
  <2>1. s = Missing
    BY <1>0, <1>1, Zenon DEF Twice
  <2> QED BY <1>1, <2>1, Zenon
<1>2. CASE r # Missing
  <2>1. s # Missing
    BY <1>0, <1>2, Zenon DEF Twice
  <2>2. Child(r, k) = MergeMap[Child(b, k)][Child(o, k)] /\ Child(s, k) = MergeMap[Child(c, k)][Child(o, k)]
    BY <1>0, <1>2, <2>1, Zenon DEF Twice, Overlays
  <2>3. Child(b, k) \in Values /\ Child(o, k) \in Values
    BY <1>0, ChildValue, Zenon
  <2>4. Stored[MergeMap[Stored[MergeMap[Child(b, k)][Child(o, k)]]][Child(o, k)]] = Stored[MergeMap[Child(b, k)][Child(o, k)]]
    BY <2>3, MergeAgain, Zenon
  <2> QED BY <1>0, <2>2, <2>4
<1> QED BY <1>1, <1>2, Zenon

\* The fields of a map p were merged, or are stored the same anyway; q is what
\* becomes of it after the second merge.
Nodes(r, b, s, c, o, p, q) ==
  /\ b \in Values /\ c \in Values /\ o \in Values /\ Twice(r, b, s, c, o)
  /\ p \in Values /\ q \in Values /\ IsMap(p) /\ IsMap(q) /\ c = Stored[p]
  /\ \A k \in Key : \/ Child(p, k) = Child(r, k) /\ Child(q, k) = Child(s, k)
                    \/ Stored[Child(q, k)] = Stored[Child(p, k)]

\* Such a map is stored the same.
LEMMA NodeAgain ==
  ASSUME NEW r, NEW b, NEW s, NEW c, NEW o, NEW p, NEW q, Nodes(r, b, s, c, o, p, q)
  PROVE  Alike(p, q)
<1>0. /\ b \in Values /\ c \in Values /\ o \in Values /\ Twice(r, b, s, c, o)
      /\ p \in Values /\ q \in Values /\ IsMap(p) /\ IsMap(q) /\ c = Stored[p]
      /\ \A k \in Key : \/ Child(p, k) = Child(r, k) /\ Child(q, k) = Child(s, k)
                        \/ Stored[Child(q, k)] = Stored[Child(p, k)]
  BY Zenon DEF Nodes
<1>1. ASSUME NEW k \in Key PROVE Stored[Child(q, k)] = Stored[Child(p, k)]
  <2>1. CASE Child(p, k) = Child(r, k) /\ Child(q, k) = Child(s, k)
    <3>1. Child(c, k) = Stored[Child(p, k)]
      BY <1>0, StoredChild, Zenon
    <3>2. Child(c, k) = Stored[Child(r, k)]
      BY <2>1, <3>1
    <3>3. Stored[Child(s, k)] = Stored[Child(r, k)]
      <4>1. Refilled(r, b, s, c, o, k)
        BY <1>0, <3>2, Zenon DEF Refilled
      <4>2. Alike(Child(r, k), Child(s, k))
        BY <4>1, FieldAgain, Zenon
      <4> QED BY <4>2, Zenon DEF Alike
    <3> QED BY <2>1, <3>3
  <2> QED BY <1>0, <2>1, Zenon
<1>2. Stored[q] = Stored[p]
  BY <1>0, <1>1, StoredExt, Zenon
<1> QED BY <1>2, Zenon DEF Alike

\* The specs of the two updates.
LEMMA SpecTwice ==
  ASSUME NEW l, NEW l2, NEW d, Pair(l, d), Pair(l2, d), Child(d, "spec") # Null,
         Kind(d) \in Workloads \cup {"PersistentVolumeClaim", "Service"}
  PROVE  /\ Twice(Child(MergeMap[l][d], "spec"), Child(l, "spec"),
                  Child(MergeMap[l2][d], "spec"), Child(l2, "spec"), Child(d, "spec"))
         /\ Child(l, "spec") \in Values /\ Child(l2, "spec") \in Values /\ Child(d, "spec") \in Values
         /\ Child(Body(l, d), "spec") \in Values /\ Child(Body(l2, d), "spec") \in Values
<1> DEFINE s == Child(MergeMap[l][d], "spec")
           s2 == Child(MergeMap[l2][d], "spec")
<1>1. /\ Overlays(s, Child(l, "spec"), Child(d, "spec")) /\ IsMap(s)
      /\ Child(l, "spec") \in Values /\ Child(d, "spec") \in Values
  BY SpecFacts
<1>2. /\ Overlays(s2, Child(l2, "spec"), Child(d, "spec")) /\ IsMap(s2)
      /\ Child(l2, "spec") \in Values
  BY SpecFacts
<1>3. s # Missing /\ s2 # Missing
  BY <1>1, <1>2, Sorts, Zenon
<1>4. Body(l, d) \in Values /\ Body(l2, d) \in Values
  BY BodyFacts DEF Body
<1>5. Child(Body(l, d), "spec") \in Values /\ Child(Body(l2, d), "spec") \in Values
  BY <1>4, Fields, ChildValue, Zenon
<1> QED BY <1>1, <1>2, <1>3, <1>5, Zenon DEF Twice

\* A service's spec is stored the same.
LEMMA ServiceAgain ==
  ASSUME NEW l, NEW l2, NEW d, Pair(l, d), Pair(l2, d), Child(d, "spec") # Null,
         Kind(d) = "Service", Child(l2, "spec") = Stored[Child(Body(l, d), "spec")]
  PROVE  Stored[Child(Body(l2, d), "spec")] = Stored[Child(Body(l, d), "spec")]
<1> DEFINE s == Child(MergeMap[l][d], "spec")
           s2 == Child(MergeMap[l2][d], "spec")
           p == Child(Body(l, d), "spec")
           p2 == Child(Body(l2, d), "spec")
<1>1. /\ Twice(s, Child(l, "spec"), s2, Child(l2, "spec"), Child(d, "spec"))
      /\ Child(l, "spec") \in Values /\ Child(l2, "spec") \in Values /\ Child(d, "spec") \in Values
      /\ p \in Values /\ p2 \in Values
  BY SpecTwice
<1>2. Untouched(l, d, {"clusterIP"}) /\ Untouched(l2, d, {"clusterIP"})
  BY ServiceBody
<1>3. /\ IsMap(p) /\ IsMap(p2)
      /\ \A k \in Key : k # "clusterIP" => Child(p, k) = Child(s, k) /\ Child(p2, k) = Child(s2, k)
  BY <1>2 DEF Untouched
<1>4. Child(p2, "clusterIP") = Child(Child(l2, "spec"), "clusterIP")
  <2>1. Nested(Body(l2, d), <<"spec", "clusterIP">>) = Nested(l2, <<"spec", "clusterIP">>)
    BY ServiceBody DEF Body
  <2> QED BY <2>1, FieldPaths, ZenonT(60)
<1> HIDE DEF s, s2, p, p2
<1>5. Child(p2, "clusterIP") = Stored[Child(p, "clusterIP")]
  <2>1. "clusterIP" \in Key /\ Child(l2, "spec") = Stored[p]
    BY Fields DEF p
  <2>2. Child(Stored[p], "clusterIP") = Stored[Child(p, "clusterIP")]
    BY <1>1, <2>1, StoredChild, Zenon
  <2> QED BY <1>4, <2>1, <2>2, Zenon
<1>6. Stored[Child(p2, "clusterIP")] = Stored[Child(p, "clusterIP")]
  <2>1. Child(p, "clusterIP") \in Values
    BY <1>1, Fields, ChildValue, Zenon
  <2> QED BY <1>5, <2>1, StoredTwice
<1>7. Child(l2, "spec") = Stored[p]
  BY Zenon DEF p
<1>8. \A k \in Key : \/ Child(p, k) = Child(s, k) /\ Child(p2, k) = Child(s2, k)
                     \/ Stored[Child(p2, k)] = Stored[Child(p, k)]
  BY <1>3, <1>6
<1>9. Stored[p2] = Stored[p]
  <2>1. Nodes(s, Child(l, "spec"), s2, Child(l2, "spec"), Child(d, "spec"), p, p2)
    BY <1>1, <1>3, <1>7, <1>8, Zenon DEF Nodes
  <2>2. Alike(p, p2)
    BY <2>1, NodeAgain, Zenon
  <2> QED BY <2>2, Zenon DEF Alike
<1> QED BY <1>9, Zenon DEF p, p2

\* pvcStorageFloor of a claim whose request was set to the floor: the same.
LEMMA FloorKept ==
  ASSUME NEW old, NEW now, Floors(old) # {},
         Nested(now, CapacityPath) = Nested(old, CapacityPath),
         Nested(now, RequestPath) = Floor(old)
  PROVE  Floors(now) # {} /\ Floor(now) = Floor(old)
<1> DEFINE f == Floor(old)
           c == Nested(old, CapacityPath)
           q(v) == Quantity[v.leaf]
           largest == {v \in Floors(now) : \A w \in Floors(now) : q(v) >= q(w)}
<1>1. f \in Floors(old) /\ \A v \in Floors(old) : q(f) >= q(v)
  BY FloorFacts
<1>2. IsQuantity(f) /\ (IsQuantity(c) => c \in Floors(old))
  BY <1>1 DEF Floors
<1>3. Floors(now) = {v \in {f, c} : IsQuantity(v)}
  BY Zenon DEF Floors
<1> DEFINE r == Nested(now, RequestPath)
<1>4. Floor(now) = IF r \in largest THEN r ELSE CHOOSE v \in largest : TRUE
  <2> HIDE DEF f
  <2> QED BY Zenon DEF Floor
<1> HIDE DEF f, c, q, r
<1>5. f \in Floors(now) /\ \A w \in Floors(now) : q(f) >= q(w)
  BY <1>1, <1>2, <1>3, Zenon
<1>6. f \in largest
  BY <1>5, Zenon
<1> HIDE DEF largest
<1>7. r = f
  BY Zenon DEF r, f
<1> QED BY <1>4, <1>5, <1>6, <1>7 DEF f

\* Of a claim whose request x was not below the floor: not above x.
LEMMA FloorFits ==
  ASSUME NEW old, NEW now, NEW x,
         Nested(now, CapacityPath) = Nested(old, CapacityPath),
         IsQuantity(x) => Nested(now, RequestPath) = x,
         IsQuantity(Nested(now, RequestPath)) => Nested(now, RequestPath) = x,
         Floors(old) = {} \/ (IsQuantity(x) /\ Quantity[x.leaf] >= Quantity[Floor(old).leaf])
  PROVE  Floors(now) = {} \/ (IsQuantity(x) /\ Quantity[x.leaf] >= Quantity[Floor(now).leaf])
<1> DEFINE y == Nested(now, RequestPath)
           c == Nested(old, CapacityPath)
           q(v) == Quantity[v.leaf]
<1>1. Floors(now) = {v \in {y, c} : IsQuantity(v)}
  BY Zenon DEF Floors
<1>2. IsQuantity(c) => c \in Floors(old)
  BY DEF Floors
<1>3. \A v : IsQuantity(v) => q(v) \in Nat
  BY MergeAssumption DEF IsQuantity
<1>4. Floors(now) # {} => Floor(now) \in Floors(now)
  BY FloorFacts, Zenon
<1>5. ASSUME Floors(old) # {} PROVE \A v \in Floors(old) : q(Floor(old)) >= q(v) /\ IsQuantity(Floor(old))
  BY <1>5, FloorFacts DEF Floors
<1>6. CASE ~IsQuantity(x)
  <2>1. Floors(old) = {} /\ ~IsQuantity(y)
    BY <1>6, Zenon
  <2>2. ~IsQuantity(c)
    BY <1>2, <2>1, Zenon
  <2> QED BY <1>1, <2>1, <2>2
<1>7. CASE IsQuantity(x) /\ Floors(now) # {}
  <2>1. Floor(now) \in {y, c} /\ IsQuantity(Floor(now)) /\ y = x
    BY <1>1, <1>4, <1>7, Zenon
  <2> HIDE DEF y, c
  <2>2. q(x) \in Nat
    BY <1>3, <1>7, Zenon
  <2>3. CASE Floor(now) = y
    BY <1>7, <2>1, <2>2, <2>3
  <2>4. CASE Floor(now) = c
    <3>1. c \in Floors(old) /\ IsQuantity(c)
      BY <1>2, <2>1, <2>4
    <3>2. q(Floor(old)) >= q(c) /\ IsQuantity(Floor(old)) /\ q(x) >= q(Floor(old))
      BY <1>5, <3>1, Zenon
    <3>3. q(Floor(old)) \in Nat /\ q(c) \in Nat
      BY <1>3, <3>1, <3>2, Zenon
    <3> HIDE DEF q
    <3>4. q(x) >= q(c)
      BY <2>2, <3>2, <3>3
    <3> QED BY <1>7, <2>4, <3>4 DEF q
  <2> QED BY <2>1, <2>3, <2>4, Zenon
<1> QED BY <1>6, <1>7, Zenon

\* What is stored as a leaf is that leaf.
LEMMA StoredLeaf ==
  ASSUME NEW v \in Values, IsLeaf(Stored[v])
  PROVE  Stored[v] = v
<1>1. ~IsMap(Stored[v]) /\ Stored[v] # Missing
  <2>1. Stored[v] \in Values
    BY StoredValues, Zenon
  <2> QED BY <2>1, ValueSorts, Sorts, Zenon
<1> QED BY <1>1, StoredCases, StoredScalar, Zenon

\* The request merged the second time is not below the floor only if it is the
\* floor: x was below, and is replaced by the floor f in between.
LEMMA RequestAgain ==
  ASSUME NEW was \in Values, NEW f \in Values, NEW y \in Values, IsQuantity(f),
         NEW x, NEW z, x = MergeMap[was][y], z = MergeMap[f][y],
         IsQuantity(z), Quantity[z.leaf] >= Quantity[f.leaf],
         ~(IsQuantity(x) /\ Quantity[x.leaf] >= Quantity[f.leaf])
  PROVE  z = f
<1>1. IsLeaf(z) /\ IsLeaf(f)
  BY Zenon DEF IsQuantity
<1>2. ~IsMap(f)
  BY <1>1, ValueSorts, Sorts, Zenon
<1>3. CASE y = Missing
  BY <1>3, MergeCases, Zenon
<1>4. CASE y = Null
  <2>1. z = Missing
    BY <1>4, MergeCases, ZenonT(60)
  <2> QED BY <1>1, <2>1, Sorts, Zenon
<1>5. CASE IsLeaf(y)
  <2>1. ~IsMap(y) /\ y \notin {Missing, Null}
    BY <1>5, ValueSorts, Sorts, Zenon
  <2>2. z = y /\ x = y
    BY <2>1, MergeCases, Zenon
  <2> QED BY <2>2, Zenon
<1>6. CASE IsMap(y)
  <2>1. z = y
    BY <1>2, <1>6, MergeCases, Zenon
  <2> QED BY <1>1, <1>6, <2>1, ValueSorts, Sorts, Zenon
<1> QED BY <1>3, <1>4, <1>5, <1>6, ValueSorts, Zenon

\* A claim's spec is stored the same.
LEMMA ClaimAgain ==
  ASSUME NEW l, NEW l2, NEW d, Pair(l, d), Pair(l2, d), Child(d, "spec") # Null,
         Kind(d) = "PersistentVolumeClaim",
         Child(l2, "spec") = Stored[Child(Body(l, d), "spec")],
         Child(l2, "status") = Child(l, "status")
  PROVE  Stored[Child(Body(l2, d), "spec")] = Stored[Child(Body(l, d), "spec")]
<1> DEFINE s == Child(MergeMap[l][d], "spec")
           s2 == Child(MergeMap[l2][d], "spec")
           p == Child(Body(l, d), "spec")
           p2 == Child(Body(l2, d), "spec")
           ls == Child(l, "spec")
           ls2 == Child(l2, "spec")
           ds == Child(d, "spec")
           lr == Child(ls, "resources")
           lr2 == Child(ls2, "resources")
           dr == Child(ds, "resources")
           lq == Child(lr, "requests")
           lq2 == Child(lr2, "requests")
           dq == Child(dr, "requests")
           r == Child(s, "resources")
           r2 == Child(s2, "resources")
           q == Child(r, "requests")
           q2 == Child(r2, "requests")
           x == Child(q, "storage")
           x2 == Child(q2, "storage")
           R == Child(p, "resources")
           R2 == Child(p2, "resources")
           f == Floor(l)
           f2 == Floor(l2)
           Fits == Floors(l) = {} \/ (IsQuantity(x) /\ Quantity[x.leaf] >= Quantity[f.leaf])
           Fits2 == Floors(l2) = {} \/ (IsQuantity(x2) /\ Quantity[x2.leaf] >= Quantity[f2.leaf])
<1>0. "resources" \in Key /\ "requests" \in Key /\ "storage" \in Key /\ "volumeName" \in Key
  BY Fields
<1>1. /\ Twice(s, ls, s2, ls2, ds)
      /\ ls \in Values /\ ls2 \in Values /\ ds \in Values /\ p \in Values /\ p2 \in Values
  BY SpecTwice
<1>2. Untouched(l, d, {"volumeName", "resources"}) /\ Untouched(l2, d, {"volumeName", "resources"})
  BY ClaimBody
<1>3. /\ IsMap(p) /\ IsMap(p2)
      /\ \A k \in Key : k \notin {"volumeName", "resources"} =>
                           Child(p, k) = Child(s, k) /\ Child(p2, k) = Child(s2, k)
  BY <1>2 DEF Untouched
<1>4. R = Resources(l, d) /\ R2 = Resources(l2, d)
  BY ClaimBody DEF Body
<1>5. /\ R = IF Fits THEN r ELSE With(r, "requests", With(q, "storage", f))
      /\ R2 = IF Fits2 THEN r2 ELSE With(r2, "requests", With(q2, "storage", f2))
  BY <1>4, Zenon DEF Resources
<1>6. Child(p2, "volumeName") = Child(ls2, "volumeName")
  <2>1. Nested(Body(l2, d), <<"spec", "volumeName">>) = Nested(l2, <<"spec", "volumeName">>)
    BY ClaimBody DEF Body
  <2> QED BY <2>1, FieldPaths, ZenonT(60)
<1>7. IsMap(lr) /\ ~IsLeaf(dr) /\ IsMap(lq) /\ ~IsLeaf(dq) /\ IsMap(lr2) /\ IsMap(lq2)
  BY ClaimMaps
<1>8. Nested(l2, CapacityPath) = Nested(l, CapacityPath)
  BY FieldPaths, ZenonT(60)
<1>9. Nested(l2, RequestPath) = Child(lq2, "storage")
  BY Path4 DEF RequestPath
<1>10. ls2 = Stored[p]
  BY Zenon
<1>11. Floors(l) # {} => IsQuantity(f)
  BY FloorFacts DEF Floors
<1> HIDE DEF s, s2, p, p2, ls, ls2, ds, f, f2
<1>12. R \in Values /\ R2 \in Values /\ lr \in Values /\ lr2 \in Values /\ dr \in Values
  BY <1>0, <1>1, ChildValue, Zenon
<1>13. Twice(r, lr, r2, lr2, dr)
  BY <1>0, <1>1, <1>7, TwiceChild
<1>14. lr2 = Stored[R]
  BY <1>0, <1>1, <1>10, StoredChild
<1>15. Stored[Child(p2, "volumeName")] = Stored[Child(p, "volumeName")]
  <2>1. Child(p, "volumeName") \in Values
    BY <1>0, <1>1, ChildValue, Zenon
  <2>2. Child(p2, "volumeName") = Stored[Child(p, "volumeName")]
    BY <1>0, <1>1, <1>6, <1>10, StoredChild
  <2> QED BY <2>1, <2>2, StoredTwice
<1> DEFINE Q == Child(R, "requests")
           Q2 == Child(R2, "requests")
<1>16. lq2 = Stored[Q] /\ Q \in Values /\ Q2 \in Values /\ lq \in Values /\ lq2 \in Values /\ dq \in Values
  <2> HIDE DEF R, R2, lr, lr2, dr
  <2> QED BY <1>0, <1>12, <1>14, StoredChild, ChildValue
<1>17. Twice(q, lq, q2, lq2, dq)
  <2> HIDE DEF r, r2, lr, lr2, dr
  <2> QED BY <1>0, <1>7, <1>12, <1>13, TwiceChild
<1>18. Child(lq2, "storage") = Stored[Child(Q, "storage")] /\ Child(Q, "storage") \in Values
  <2> HIDE DEF Q, lq2
  <2> QED BY <1>0, <1>16, StoredChild, ChildValue
<1>19. ASSUME Fits PROVE Stored[R2] = Stored[R]
  <2>1. R = r
    BY <1>5, <1>19
  <2>2. Stored[r2] = Stored[r]
    <3>1. Refilled(s, ls, s2, ls2, ds, "resources")
      BY <1>0, <1>1, <1>14, <2>1, Zenon DEF Refilled
    <3>2. Alike(r, r2)
      BY <3>1, FieldAgain, Zenon
    <3> QED BY <3>2, Zenon DEF Alike
  <2>3. r \in Values /\ r2 \in Values /\ q \in Values /\ q2 \in Values /\ x \in Values /\ x2 \in Values
    <3>1. \A v \in Values : \A k \in Key : Child(v, k) \in Values
      BY ChildValue, Zenon
    <3>2. s2 \in Values
      BY SpecFacts DEF s2
    <3> HIDE DEF R
    <3> QED BY <1>0, <1>12, <2>1, <3>1, <3>2
  <2> HIDE DEF r, r2, R, R2
  <2>4. Stored[q2] = Stored[q]
    BY <1>0, <2>2, <2>3, StoredChild
  <2> HIDE DEF q, q2
  <2>5. Stored[x2] = Stored[x]
    BY <1>0, <2>3, <2>4, StoredChild
  <2>6. Child(Q, "storage") = x
    BY <2>1 DEF q
  <2> HIDE DEF x, x2, Q
  <2>7. IsQuantity(x) => Child(lq2, "storage") = x /\ x2 = x
    <3>1. ASSUME IsLeaf(x) PROVE Stored[x] = x
      BY <2>3, <3>1, StoredScalar, Zenon
    <3>2. ASSUME IsLeaf(x) PROVE x2 = x
      <4>1. IsLeaf(Stored[x2]) /\ Stored[x2] = x
        BY <2>5, <3>1, <3>2
      <4> QED BY <2>3, <4>1, StoredLeaf
    <3> QED BY <1>18, <2>6, <3>1, <3>2 DEF IsQuantity
  <2>8. IsQuantity(Child(lq2, "storage")) => Child(lq2, "storage") = x
    <3>1. Child(lq2, "storage") = Stored[x]
      BY <1>18, <2>6
    <3> HIDE DEF lq2
    <3> QED BY <2>3, <3>1, StoredLeaf DEF IsQuantity
  <2>9. Floors(l2) = {} \/ (IsQuantity(x) /\ Quantity[x.leaf] >= Quantity[f2.leaf])
    <3> HIDE DEF lq2
    <3>1. /\ IsQuantity(x) => Nested(l2, RequestPath) = x
          /\ IsQuantity(Nested(l2, RequestPath)) => Nested(l2, RequestPath) = x
      BY <1>9, <2>7, <2>8, Zenon
    <3> QED BY <1>8, <1>19, <3>1, FloorFits DEF f, f2
  <2>10. Fits2
    BY <2>7, <2>9
  <2>11. R2 = r2
    BY <1>5, <2>10
  <2> QED BY <2>1, <2>2, <2>11
<1>20. ASSUME ~Fits PROVE Stored[R2] = Stored[R]
  <2>1. R = With(r, "requests", With(q, "storage", f)) /\ Floors(l) # {} /\ IsQuantity(f)
    BY <1>5, <1>11, <1>20, Zenon
  <2> HIDE DEF r, r2, R, R2
  <2>2. IsMap(R) /\ Q = With(q, "storage", f) /\ \A k \in Key : k # "requests" => Child(R, k) = Child(r, k)
    <3>1. Sets(R, r, "requests", With(q, "storage", f))
      BY <1>0, <2>1, IsWith, Zenon
    <3> QED BY <3>1, Zenon DEF Sets
  <2> HIDE DEF q, q2, Q, Q2
  <2>3. IsMap(Q) /\ Child(Q, "storage") = f /\ \A k \in Key : k # "storage" => Child(Q, k) = Child(q, k)
    <3>1. Sets(Q, q, "storage", f)
      BY <1>0, <2>2, IsWith, Zenon
    <3> QED BY <3>1, Zenon DEF Sets
  <2>4. f \in Values /\ Child(lq2, "storage") = f
    BY <1>18, <2>1, <2>3, StoredScalar DEF IsQuantity
  <2>5. Floors(l2) # {} /\ f2 = f
    BY <1>8, <1>9, <2>1, <2>4, FloorKept DEF f, f2
  <2>6. /\ IsMap(R2) /\ IsMap(Q2) /\ Child(Q2, "storage") = f
        /\ \A k \in Key : k # "storage" => Child(Q2, k) = Child(q2, k)
        /\ \A k \in Key : k # "requests" => Child(R2, k) = Child(r2, k)
    <3>1. CASE Fits2
      <4>1. R2 = r2 /\ IsQuantity(x2) /\ Quantity[x2.leaf] >= Quantity[f.leaf]
        BY <1>5, <2>5, <3>1
      <4>2. x2 # Missing
        BY <4>1, Sorts, Zenon DEF IsQuantity
      <4>3. IsMap(q2)
        BY <4>2, Zenon DEF Child
      <4>4. IsMap(r2)
        BY <4>3, Sorts, Zenon DEF Child, q2
      <4>5. q2 # Missing /\ q # Missing
        BY <1>17, <4>3, Sorts, Zenon DEF Twice
      <4> HIDE DEF lq, lq2, dq
      <4>6. x = MergeMap[Child(lq, "storage")][Child(dq, "storage")] /\ x2 = MergeMap[f][Child(dq, "storage")]
        BY <1>0, <1>17, <2>4, <4>5 DEF Twice, Overlays
      <4>7. Child(lq, "storage") \in Values /\ Child(dq, "storage") \in Values
        BY <1>0, <1>16, ChildValue, Zenon
      <4>8. ~(IsQuantity(x) /\ Quantity[x.leaf] >= Quantity[f.leaf])
        BY <1>20, Zenon
      <4> HIDE DEF x, x2
      <4>9. x2 = f
        BY <2>1, <2>4, <4>1, <4>6, <4>7, <4>8, RequestAgain
      <4>10. Q2 = q2
        BY <4>1, Zenon DEF Q2, q2
      <4> QED BY <4>1, <4>3, <4>4, <4>9, <4>10, Zenon DEF x2
    <3>2. CASE ~Fits2
      <4>1. R2 = With(r2, "requests", With(q2, "storage", f))
        BY <1>5, <2>5, <3>2, Zenon
      <4>2. IsMap(R2) /\ Q2 = With(q2, "storage", f) /\ \A k \in Key : k # "requests" => Child(R2, k) = Child(r2, k)
        <5>1. Sets(R2, r2, "requests", With(q2, "storage", f))
          BY <1>0, <4>1, IsWith, Zenon
        <5> QED BY <5>1, Zenon DEF Sets, Q2
      <4>3. IsMap(Q2) /\ Child(Q2, "storage") = f /\ \A k \in Key : k # "storage" => Child(Q2, k) = Child(q2, k)
        <5>1. Sets(Q2, q2, "storage", f)
          BY <1>0, <4>2, IsWith, Zenon
        <5> QED BY <5>1, Zenon DEF Sets
      <4> QED BY <4>2, <4>3, Zenon
    <3> QED BY <3>1, <3>2, Zenon
  <2> HIDE DEF lq, lq2, dq, lr, lr2, dr
  <2>7. Stored[Q2] = Stored[Q]
    <3>1. \A k \in Key : \/ Child(Q, k) = Child(q, k) /\ Child(Q2, k) = Child(q2, k)
                         \/ Stored[Child(Q2, k)] = Stored[Child(Q, k)]
      BY <2>3, <2>6
    <3>2. Nodes(q, lq, q2, lq2, dq, Q, Q2)
      BY <1>16, <1>17, <2>3, <2>6, <3>1, Zenon DEF Nodes
    <3>3. Alike(Q, Q2)
      BY <3>2, NodeAgain, Zenon
    <3> QED BY <3>3, Zenon DEF Alike
  <2>8. \A k \in Key : \/ Child(R, k) = Child(r, k) /\ Child(R2, k) = Child(r2, k)
                       \/ Stored[Child(R2, k)] = Stored[Child(R, k)]
    BY <2>2, <2>6, <2>7 DEF Q, Q2
  <2>9. Nodes(r, lr, r2, lr2, dr, R, R2)
    BY <1>12, <1>13, <1>14, <2>2, <2>6, <2>8, Zenon DEF Nodes
  <2>10. Alike(R, R2)
    BY <2>9, NodeAgain, Zenon
  <2> QED BY <2>10, Zenon DEF Alike
<1>21. \A k \in Key : \/ Child(p, k) = Child(s, k) /\ Child(p2, k) = Child(s2, k)
                      \/ Stored[Child(p2, k)] = Stored[Child(p, k)]
  BY <1>3, <1>15, <1>19, <1>20
<1>22. Stored[p2] = Stored[p]
  <2>1. Nodes(s, ls, s2, ls2, ds, p, p2)
    BY <1>1, <1>3, <1>10, <1>21, Zenon DEF Nodes
  <2>2. Alike(p, p2)
    BY <2>1, NodeAgain, Zenon
  <2> QED BY <2>2, Zenon DEF Alike
<1> QED BY <1>22, Zenon DEF p, p2

\* Labels over others: the selector's, or the others'.
LEMMA LabelledFacts ==
  ASSUME NEW selector, NEW labels
  PROVE  /\ IsMap(Labelled(selector, labels))
         /\ \A k \in Key : Child(Labelled(selector, labels), k) =
                              IF selector[k] # Missing THEN selector[k] ELSE Child(labels, k)
<1> DEFINE g == [k \in Key |-> IF selector[k] # Missing THEN selector[k] ELSE Child(labels, k)]
<1>1. Labelled(selector, labels) = Map(g)
  BY Zenon DEF Labelled
<1>2. \A k \in Key : g[k] = IF selector[k] # Missing THEN selector[k] ELSE Child(labels, k)
  OBVIOUS
<1> HIDE DEF g
<1>3. IsMap(Map(g)) /\ Map(g).map = g
  BY Sorts, Zenon
<1> QED BY <1>1, <1>2, <1>3 DEF Child

\* A workload's spec is stored the same.
LEMMA WorkloadAgain ==
  ASSUME NEW l, NEW l2, NEW d, Pair(l, d), Pair(l2, d), Child(d, "spec") # Null,
         Kind(d) \in Workloads, Child(l2, "spec") = Stored[Child(Body(l, d), "spec")]
  PROVE  Stored[Child(Body(l2, d), "spec")] = Stored[Child(Body(l, d), "spec")]
<1> DEFINE s == Child(MergeMap[l][d], "spec")
           s2 == Child(MergeMap[l2][d], "spec")
           p == Child(Body(l, d), "spec")
           p2 == Child(Body(l2, d), "spec")
           ls == Child(l, "spec")
           ls2 == Child(l2, "spec")
           ds == Child(d, "spec")
           lt == Child(ls, "template")
           lt2 == Child(ls2, "template")
           dt == Child(ds, "template")
           la == Child(lt, "metadata")
           la2 == Child(lt2, "metadata")
           da == Child(dt, "metadata")
           lb == Child(la, "labels")
           lb2 == Child(la2, "labels")
           db == Child(da, "labels")
           t == Child(s, "template")
           t2 == Child(s2, "template")
           a == Child(t, "metadata")
           a2 == Child(t2, "metadata")
           b == Child(a, "labels")
           b2 == Child(a2, "labels")
           sel == NestedStringMap(l, SelectorPath).map
           L == Labelled(sel, b)
           L2 == Labelled(sel, b2)
           T == Child(p, "template")
           T2 == Child(p2, "template")
<1>0. "template" \in Key /\ "metadata" \in Key /\ "labels" \in Key /\ "selector" \in Key /\ "spec" \in Key
  BY Fields
<1>1. /\ Twice(s, ls, s2, ls2, ds)
      /\ ls \in Values /\ ls2 \in Values /\ ds \in Values /\ p \in Values /\ p2 \in Values
  BY SpecTwice
<1>2. Untouched(l, d, {"selector", "template"}) /\ Untouched(l2, d, {"selector", "template"})
  BY WorkloadBody
<1>3. /\ IsMap(p) /\ IsMap(p2)
      /\ \A k \in Key : k \notin {"selector", "template"} =>
                           Child(p, k) = Child(s, k) /\ Child(p2, k) = Child(s2, k)
  BY <1>2 DEF Untouched
<1>4. T = Template(l, d) /\ T2 = Template(l2, d)
  BY WorkloadBody DEF Body
<1>5. Child(p, "selector") = Child(ls, "selector") /\ Child(p2, "selector") = Child(ls2, "selector")
  <2>1. /\ Nested(Body(l, d), <<"spec", "selector">>) = Nested(l, <<"spec", "selector">>)
        /\ Nested(Body(l2, d), <<"spec", "selector">>) = Nested(l2, <<"spec", "selector">>)
    BY WorkloadBody DEF Body
  <2> QED BY <2>1, FieldPaths, ZenonT(60)
<1>6. /\ IsMap(lt) /\ ~IsLeaf(dt) /\ IsMap(la) /\ ~IsLeaf(da) /\ IsMap(lb) /\ ~IsLeaf(db)
      /\ IsMap(lt2) /\ IsMap(la2) /\ IsMap(lb2)
  BY WorkloadMaps
<1>7. ls2 = Stored[p]
  BY Zenon
<1>8. Stored[ls] = ls
  <2>1. l \in Values /\ Stored[l] = l
    BY DEF Pair, WellFormed
  <2> QED BY <1>0, <2>1, StoredChild
<1>9. Child(ls2, "selector") = Child(ls, "selector")
  <2> HIDE DEF p, ls, ls2
  <2>1. Child(ls2, "selector") = Stored[Child(ls, "selector")]
    BY <1>0, <1>1, <1>5, <1>7, StoredChild
  <2>2. Stored[Child(ls, "selector")] = Child(ls, "selector")
    <3>1. Child(Stored[ls], "selector") = Stored[Child(ls, "selector")]
      BY <1>0, <1>1, StoredChild, Zenon
    <3> QED BY <1>8, <3>1, Zenon
  <2> QED BY <2>1, <2>2, Zenon
<1>10. NestedStringMap(l2, SelectorPath) = NestedStringMap(l, SelectorPath)
  <2>1. Nested(l2, SelectorPath) = Nested(l, SelectorPath)
    BY <1>9, FieldPaths, ZenonT(60)
  <2> QED BY <2>1, Zenon DEF NestedStringMap
<1>11. /\ T = IF Map(sel) = Empty THEN t ELSE With(t, "metadata", With(a, "labels", L))
       /\ T2 = IF Map(sel) = Empty THEN t2 ELSE With(t2, "metadata", With(a2, "labels", L2))
  BY <1>4, <1>10 DEF Template
<1>12. Stored[Child(p2, "selector")] = Stored[Child(p, "selector")]
  BY <1>5, <1>9
<1> HIDE DEF s, s2, p, p2, ls, ls2, ds, sel
<1>13. /\ T \in Values /\ T2 \in Values /\ lt2 = Stored[T]
       /\ lt \in Values /\ lt2 \in Values /\ dt \in Values
  BY <1>0, <1>1, <1>7, ChildValue, StoredChild
<1>14. Twice(t, lt, t2, lt2, dt)
  BY <1>0, <1>1, <1>6, TwiceChild
<1>15. ASSUME Map(sel) # Empty PROVE Stored[T2] = Stored[T]
  <2>1. T = With(t, "metadata", With(a, "labels", L)) /\ T2 = With(t2, "metadata", With(a2, "labels", L2))
    BY <1>11, <1>15, Zenon
  <2> DEFINE A == Child(T, "metadata")
             A2 == Child(T2, "metadata")
  <2> HIDE DEF T, T2, t, t2, lt, lt2, dt, L, L2
  <2>2. /\ IsMap(T) /\ A = With(a, "labels", L) /\ \A k \in Key : k # "metadata" => Child(T, k) = Child(t, k)
        /\ IsMap(T2) /\ A2 = With(a2, "labels", L2) /\ \A k \in Key : k # "metadata" => Child(T2, k) = Child(t2, k)
    <3>1. Sets(T, t, "metadata", With(a, "labels", L)) /\ Sets(T2, t2, "metadata", With(a2, "labels", L2))
      BY <1>0, <2>1, IsWith, Zenon
    <3> QED BY <3>1, Zenon DEF Sets
  <2>3. /\ A \in Values /\ A2 \in Values /\ la2 = Stored[A]
        /\ la \in Values /\ la2 \in Values /\ da \in Values
    BY <1>0, <1>13, ChildValue, StoredChild
  <2>4. Twice(a, la, a2, la2, da)
    BY <1>0, <1>6, <1>13, <1>14, TwiceChild
  <2> HIDE DEF A, A2, a, a2, la, la2, da
  <2>5. /\ IsMap(A) /\ Child(A, "labels") = L /\ \A k \in Key : k # "labels" => Child(A, k) = Child(a, k)
        /\ IsMap(A2) /\ Child(A2, "labels") = L2 /\ \A k \in Key : k # "labels" => Child(A2, k) = Child(a2, k)
    <3>1. Sets(A, a, "labels", L) /\ Sets(A2, a2, "labels", L2)
      BY <1>0, <2>2, IsWith, Zenon
    <3> QED BY <3>1, Zenon DEF Sets
  <2>6. /\ L \in Values /\ L2 \in Values /\ lb2 = Stored[L]
        /\ lb \in Values /\ lb2 \in Values /\ db \in Values
    BY <1>0, <2>3, <2>5, ChildValue, StoredChild
  <2>7. Twice(b, lb, b2, lb2, db)
    BY <1>0, <1>6, <2>3, <2>4, TwiceChild
  <2> HIDE DEF b, b2, lb, lb2, db
  <2>8. /\ IsMap(L) /\ \A k \in Key : Child(L, k) = IF sel[k] # Missing THEN sel[k] ELSE Child(b, k)
        /\ IsMap(L2) /\ \A k \in Key : Child(L2, k) = IF sel[k] # Missing THEN sel[k] ELSE Child(b2, k)
    BY LabelledFacts DEF L, L2
  <2>9. Stored[L2] = Stored[L]
    <3>1. \A k \in Key : \/ Child(L, k) = Child(b, k) /\ Child(L2, k) = Child(b2, k)
                         \/ Stored[Child(L2, k)] = Stored[Child(L, k)]
      BY <2>8
    <3>2. Nodes(b, lb, b2, lb2, db, L, L2)
      BY <2>6, <2>7, <2>8, <3>1, Zenon DEF Nodes
    <3>3. Alike(L, L2)
      BY <3>2, NodeAgain, Zenon
    <3> QED BY <3>3, Zenon DEF Alike
  <2>10. Stored[A2] = Stored[A]
    <3>1. \A k \in Key : \/ Child(A, k) = Child(a, k) /\ Child(A2, k) = Child(a2, k)
                         \/ Stored[Child(A2, k)] = Stored[Child(A, k)]
      BY <2>5, <2>9
    <3>2. Nodes(a, la, a2, la2, da, A, A2)
      BY <2>3, <2>4, <2>5, <3>1, Zenon DEF Nodes
    <3>3. Alike(A, A2)
      BY <3>2, NodeAgain, Zenon
    <3> QED BY <3>3, Zenon DEF Alike
  <2>11. \A k \in Key : \/ Child(T, k) = Child(t, k) /\ Child(T2, k) = Child(t2, k)
                        \/ Stored[Child(T2, k)] = Stored[Child(T, k)]
    BY <2>2, <2>10 DEF A, A2
  <2>12. Nodes(t, lt, t2, lt2, dt, T, T2)
    BY <1>13, <1>14, <2>2, <2>11, Zenon DEF Nodes
  <2>13. Alike(T, T2)
    BY <2>12, NodeAgain, Zenon
  <2> QED BY <2>13, Zenon DEF Alike
<1>16. \A k \in Key : \/ Child(p, k) = Child(s, k) /\ Child(p2, k) = Child(s2, k)
                      \/ Stored[Child(p2, k)] = Stored[Child(p, k)]
  <2>1. CASE Map(sel) = Empty
    BY <1>3, <1>11, <1>12, <2>1
  <2>2. CASE Map(sel) # Empty
    BY <1>3, <1>12, <1>15, <2>2
  <2> QED BY <2>1, <2>2, Zenon
<1>17. Stored[p2] = Stored[p]
  <2>1. Nodes(s, ls, s2, ls2, ds, p, p2)
    BY <1>1, <1>3, <1>7, <1>16, Zenon DEF Nodes
  <2>2. Alike(p, p2)
    BY <2>1, NodeAgain, Zenon
  <2> QED BY <2>2, Zenon DEF Alike
<1> QED BY <1>17, Zenon DEF p, p2

\* The same manifest merged into what was stored of it is stored the same.
LEMMA BodyAgain ==
  ASSUME NEW l, NEW d, Pair(l, d), Pair(Accepted(Body(l, d), l), d)
  PROVE  Accepted(Body(Accepted(Body(l, d), l), d), Accepted(Body(l, d), l)) = Accepted(Body(l, d), l)
<1> DEFINE m == MergeMap[l][d]
           b == Body(l, d)
           l2 == Accepted(b, l)
           m2 == MergeMap[l2][d]
           b2 == Body(l2, d)
           l3 == Accepted(b2, l2)
           Builtin == Kind(d) \in Workloads \cup {"PersistentVolumeClaim", "Service"}
<1>0. "spec" \in Key /\ "status" \in Key /\ l \in Values /\ d \in Values
  BY Fields DEF Pair
<1>1. /\ b \in Values /\ IsMap(b) /\ IsLeaf(Child(b, "kind")) /\ Kind(b) = Kind(d)
      /\ b2 \in Values /\ IsMap(b2) /\ IsLeaf(Child(b2, "kind")) /\ Kind(b2) = Kind(d)
  BY BodyFacts DEF Body, Kind
<1>2. /\ m \in Values /\ \A k \in Key : Child(m, k) = MergeMap[Child(l, k)][Child(d, k)]
      /\ m2 \in Values /\ \A k \in Key : Child(m2, k) = MergeMap[Child(l2, k)][Child(d, k)]
  <2>1. Merged(m, l, d) /\ Merged(m2, l2, d)
    BY MergedFields, Zenon
  <2> HIDE DEF m, m2, l2
  <2> QED BY <2>1, Zenon DEF Merged
<1>3. /\ l2 \in Values /\ IsMap(l2)
      /\ \A k \in Key : k # "status" => Child(l2, k) = Stored[Child(b, k)]
      /\ Builtin => Child(l2, "status") = Child(l, "status")
      /\ ~Builtin => l2 = Stored[b]
  <2> HIDE DEF b
  <2> QED BY <1>0, <1>1, AcceptedFacts
<1>4. /\ l3 \in Values /\ IsMap(l3)
      /\ \A k \in Key : k # "status" => Child(l3, k) = Stored[Child(b2, k)]
      /\ Builtin => Child(l3, "status") = Child(l2, "status")
      /\ ~Builtin => l3 = Stored[b2]
  <2> HIDE DEF b2, l2
  <2> QED BY <1>1, <1>3, AcceptedFacts
<1>5. ~Builtin => b = m /\ b2 = m2
  BY BodyCases DEF Body
<1>6. CASE ~Builtin
  <2>1. Stored[MergeMap[Stored[MergeMap[l][d]]][d]] = Stored[MergeMap[l][d]]
    BY <1>0, MergeAgain, Zenon
  <2>2. l2 = Stored[m] /\ l3 = Stored[m2] /\ m2 = MergeMap[Stored[m]][d]
    BY <1>3, <1>4, <1>5, <1>6
  <2> QED BY <2>1, <2>2
<1>7. CASE Builtin
  <2>1. Child(d, "spec") # Null
    <3>1. SUFFICES ASSUME Child(d, "spec") = Null PROVE FALSE
      BY Zenon
    <3>2. b = m
      BY <3>1, NoSpec DEF Body
    <3>3. Child(l, "spec") \in Values /\ Child(d, "spec") \in Values
      BY <1>0, ChildValue, Zenon
    <3>4. Child(m, "spec") = Missing
      <4>1. MergeMap[Child(l, "spec")][Child(d, "spec")] = Missing
        BY <3>1, <3>3, MergeCases, Zenon
      <4> HIDE DEF m
      <4> QED BY <1>0, <1>2, <4>1
    <3>5. Child(l2, "spec") = Missing
      BY <1>0, <1>3, <3>2, <3>4, StoredScalar
    <3>6. IsMap(Child(l2, "spec"))
      BY <1>7, SpecFacts
    <3> QED BY <3>5, <3>6, Sorts, Zenon
  <2>2. /\ \A k \in Key : k # "spec" => Child(b, k) = Child(m, k) /\ Child(b2, k) = Child(m2, k)
        /\ Stored[Child(b2, "spec")] = Stored[Child(b, "spec")]
    <3>1. Child(l2, "spec") = Stored[Child(b, "spec")] /\ Child(l2, "status") = Child(l, "status")
      BY <1>0, <1>3, <1>7
    <3>2. \A S : Untouched(l, d, S) /\ Untouched(l2, d, S) =>
             \A k \in Key : k # "spec" => Child(b, k) = Child(m, k) /\ Child(b2, k) = Child(m2, k)
      BY DEF Untouched
    <3>3. CASE Kind(d) = "PersistentVolumeClaim"
      <4>1. Untouched(l, d, {"volumeName", "resources"}) /\ Untouched(l2, d, {"volumeName", "resources"})
        BY <2>1, <3>3, ClaimBody
      <4>2. Stored[Child(b2, "spec")] = Stored[Child(b, "spec")]
        BY <2>1, <3>1, <3>3, ClaimAgain
      <4> QED BY <3>2, <4>1, <4>2, Zenon
    <3>4. CASE Kind(d) = "Service"
      <4>1. Untouched(l, d, {"clusterIP"}) /\ Untouched(l2, d, {"clusterIP"})
        BY <2>1, <3>4, ServiceBody
      <4>2. Stored[Child(b2, "spec")] = Stored[Child(b, "spec")]
        BY <2>1, <3>1, <3>4, ServiceAgain
      <4> QED BY <3>2, <4>1, <4>2, Zenon
    <3>5. CASE Kind(d) \in Workloads
      <4>1. Untouched(l, d, {"selector", "template"}) /\ Untouched(l2, d, {"selector", "template"})
        BY <2>1, <3>5, WorkloadBody
      <4>2. Stored[Child(b2, "spec")] = Stored[Child(b, "spec")]
        BY <2>1, <3>1, <3>5, WorkloadAgain
      <4> QED BY <3>2, <4>1, <4>2, Zenon
    <3> QED BY <1>7, <3>3, <3>4, <3>5
  <2> HIDE DEF m, m2, b, b2, l2, l3
  <2>3. ASSUME NEW k \in Key, k # "spec", k # "status" PROVE Child(l3, k) = Child(l2, k)
    <3>1. Child(l3, k) = Stored[Child(m2, k)] /\ Child(l2, k) = Stored[Child(m, k)]
      BY <1>3, <1>4, <2>2, <2>3
    <3>2. Child(l, k) \in Values /\ Child(d, k) \in Values
      BY <1>0, ChildValue, Zenon
    <3>3. Stored[MergeMap[Stored[MergeMap[Child(l, k)][Child(d, k)]]][Child(d, k)]] = Stored[MergeMap[Child(l, k)][Child(d, k)]]
      BY <3>2, MergeAgain, Zenon
    <3>4. Child(m, k) = MergeMap[Child(l, k)][Child(d, k)] /\ Child(m2, k) = MergeMap[Child(l2, k)][Child(d, k)]
      BY <1>2, Zenon
    <3> QED BY <3>1, <3>3, <3>4
  <2>4. Child(l3, "spec") = Child(l2, "spec") /\ Child(l3, "status") = Child(l2, "status")
    BY <1>0, <1>3, <1>4, <1>7, <2>2
  <2>5. \A k \in Key : Child(l3, k) = Child(l2, k)
    BY <2>3, <2>4
  <2>6. l3 = l2
    BY <1>3, <1>4, <2>5, MapExt, Zenon
  <2> QED BY <2>6, Zenon DEF b, b2, l2, l3
<1> QED BY <1>6, <1>7, Zenon

-----------------------------------------------------------------------------
(* Theorems. *)

\* The inductive invariant: the live object is one that the server has accepted, the
\* manifest is of its kind, and what is sent is what Update has made of the two.  In
\* the second round the live object is what was stored of an earlier one.
MergeInv ==
  /\ Pair(live, desired)
  /\ body # Missing => body = AdoptImmutableFields(MergeMap[live][desired], live)
  /\ round = 2 => \E l : Pair(l, desired) /\ live = Accepted(Body(l, desired), l)

\* The server keeps its objects well-formed through an update, whatever is merged
\* into them.
THEOREM MergeInvariant == Spec => []MergeInv
<1>1. Init => MergeInv
  BY MergeAssumption DEF Init, MergeInv, Pair
<1>2. MergeInv /\ [Next]_vars => MergeInv'
  <2> SUFFICES ASSUME MergeInv, [Next]_vars PROVE MergeInv'
    OBVIOUS
  <2>1. CASE Update
    <3>1. /\ live' = live /\ desired' = desired /\ round' = round
          /\ body' = AdoptImmutableFields(MergeMap[live][desired], live)
      BY <2>1, Zenon DEF Update
    <3> QED BY <3>1, Zenon DEF MergeInv
  <2>2. CASE Store
    <3> DEFINE b == AdoptImmutableFields(MergeMap[live][desired], live)
    <3>1. body = b /\ Pair(live, desired)
      BY <2>2, Zenon DEF MergeInv, Store
    <3>2. /\ live' = Accepted(body, live) /\ WellFormed(Accepted(body, live))
          /\ desired' = desired /\ body' = Missing
      BY <2>2, Zenon DEF Store
    <3>3. body \in Values /\ IsMap(body) /\ Kind(body) = Kind(desired) /\ IsLeaf(Child(body, "kind"))
      BY <3>1, BodyFacts DEF Kind
    <3>4. live \in Values
      BY <3>1, Zenon DEF Pair
    <3>5. Accepted(body, live) \in Values /\ Kind(Accepted(body, live)) = Kind(desired)
      BY <3>3, <3>4, AcceptedFacts
    <3>6. Pair(Accepted(body, live), desired)
      BY <3>1, <3>2, <3>5, Zenon DEF Pair
    <3>7. live' = Accepted(Body(live, desired), live)
      BY <3>1, <3>2, Zenon DEF Body
    <3> QED BY <3>1, <3>2, <3>6, <3>7, Zenon DEF MergeInv
  <2>3. CASE UNCHANGED vars
    BY <2>3, Zenon DEF vars, MergeInv
  <2> QED BY <2>1, <2>2, <2>3, Zenon DEF Next
<1> QED BY <1>1, <1>2, PTL DEF Spec

\* What adoptImmutableFields takes from the live object is in every update: the field
\* it lists, a request that is no less than before, the labels of matchLabels.
THEOREM UpdatesKeepAdopted == Spec => []AdoptedFieldsKept
<1>1. MergeInv => AdoptedFieldsKept
  <2> SUFFICES ASSUME MergeInv, body # Missing, Child(desired, "spec") # Null PROVE AdoptedFieldsKept
    BY Zenon DEF AdoptedFieldsKept
  <2>1. Pair(live, desired) /\ body = AdoptImmutableFields(MergeMap[live][desired], live)
    BY Zenon DEF MergeInv
  <2>2. CASE Kind(desired) = "PersistentVolumeClaim"
    <3>1. /\ Nested(body, <<"spec", "volumeName">>) = Nested(live, <<"spec", "volumeName">>)
          /\ \A v \in Floors(live) : /\ IsQuantity(Nested(body, RequestPath))
                                     /\ Quantity[Nested(body, RequestPath).leaf] >= Quantity[v.leaf]
      BY <2>1, <2>2, ClaimBody
    <3>2. \A path \in {RequestPath, CapacityPath} :
             IsQuantity(Nested(live, path)) => Nested(live, path) \in Floors(live)
      BY DEF Floors
    <3>3. Kind(desired) # "Service" /\ Kind(desired) \notin Workloads
      BY <2>2, Kinds
    <3> QED BY <2>2, <3>1, <3>2, <3>3 DEF AdoptedFieldsKept
  <2>3. CASE Kind(desired) = "Service"
    <3>1. Nested(body, <<"spec", "clusterIP">>) = Nested(live, <<"spec", "clusterIP">>)
      BY <2>1, <2>3, ServiceBody
    <3>2. Kind(desired) # "PersistentVolumeClaim" /\ Kind(desired) \notin Workloads
      BY <2>3, Kinds
    <3> QED BY <2>3, <3>1, <3>2 DEF AdoptedFieldsKept
  <2>4. CASE Kind(desired) \in Workloads
    <3>1. Nested(body, <<"spec", "selector">>) = Nested(live, <<"spec", "selector">>)
      BY <2>1, <2>4, WorkloadBody
    <3>2. \A k \in Key : NestedStringMap(live, SelectorPath).map[k] # Missing =>
             NestedStringMap(body, LabelsPath).map[k] = NestedStringMap(live, SelectorPath).map[k]
      BY <2>1, <2>4, WorkloadBody
    <3>3. Kind(desired) # "PersistentVolumeClaim" /\ Kind(desired) # "Service"
      BY <2>4, Kinds
    <3> QED BY <2>4, <3>1, <3>2, <3>3 DEF AdoptedFieldsKept
  <2>5. CASE Kind(desired) \notin Workloads \cup {"PersistentVolumeClaim", "Service"}
    BY <2>5 DEF AdoptedFieldsKept
  <2> QED BY <2>2, <2>3, <2>4, <2>5
<1> QED BY <1>1, MergeInvariant, PTL

\* An update is an exact overlay: at every path that adoptImmutableFields does not own,
\* what is sent is what the manifest says, or else what the live object has.
THEOREM OverlaysExact == Spec => []OverlayIsExact
<1>1. MergeInv => OverlayIsExact
  <2> SUFFICES ASSUME MergeInv, body # Missing, NEW path \in Paths, ~MayAdopt(path)
               PROVE  LeafAt(body, path) = Overlaid(live, desired, path)
    BY Zenon DEF OverlayIsExact
  <2> DEFINE m == MergeMap[live][desired]
  <2>1. Pair(live, desired) /\ body = AdoptImmutableFields(m, live)
    BY Zenon DEF MergeInv
  <2>2. path \in Seq(Key)
    BY MergeAssumption
  <2>3. LeafAt(m, path) = Overlaid(live, desired, path)
    <3>1. live \in Values /\ desired \in Values
      BY <2>1, Zenon DEF Pair
    <3> QED BY <2>2, <3>1, MergeExact, Zenon
  <2>4. LeafAt(body, path) = LeafAt(m, path)
    <3>1. CASE Child(desired, "spec") = Null
      BY <2>1, <3>1, NoSpec
    <3>2. CASE Child(desired, "spec") # Null /\ Kind(desired) = "PersistentVolumeClaim"
      <4>1. ~Within(path, <<"spec", "volumeName">>) /\ ~Within(path, RequestPath)
        BY <3>2, Kinds DEF MayAdopt
      <4> QED BY <2>1, <2>2, <3>2, <4>1, ClaimBody
    <3>3. CASE Child(desired, "spec") # Null /\ Kind(desired) = "Service"
      <4>1. ~Within(path, <<"spec", "clusterIP">>)
        BY <3>3, Kinds DEF MayAdopt
      <4> QED BY <2>1, <2>2, <3>3, <4>1, ServiceBody
    <3>4. CASE Child(desired, "spec") # Null /\ Kind(desired) \in Workloads
      <4>1. /\ ~Within(path, <<"spec", "selector">>)
            /\ ~\E k \in Key : /\ Within(path, Append(LabelsPath, k))
                               /\ Nested(live, Append(SelectorPath, k)) # Missing
        BY <3>4, Kinds DEF MayAdopt
      <4> QED BY <2>1, <2>2, <3>4, <4>1, WorkloadBody
    <3>5. CASE Kind(desired) \notin Workloads \cup {"PersistentVolumeClaim", "Service"}
      BY <2>1, <3>5, BodyCases
    <3> QED BY <3>1, <3>2, <3>3, <3>4, <3>5
  <2> QED BY <2>3, <2>4, Zenon
<1> QED BY <1>1, MergeInvariant, PTL

\* An update settles: the same manifest, applied again to what the server stored of it,
\* is stored as the same object.
THEOREM ReapplyIsNoop == Spec => []Reapplied
<1>1. MergeInv => Reapplied
  <2> SUFFICES ASSUME MergeInv, round = 2, body # Missing PROVE Accepted(body, live) = live
    BY Zenon DEF Reapplied
  <2>1. Pair(live, desired) /\ body = Body(live, desired)
    BY Zenon DEF MergeInv, Body
  <2>2. PICK l : Pair(l, desired) /\ live = Accepted(Body(l, desired), l)
    BY Zenon DEF MergeInv
  <2>3. Pair(Accepted(Body(l, desired), l), desired)
    BY <2>1, <2>2
  <2>4. Accepted(Body(Accepted(Body(l, desired), l), desired), Accepted(Body(l, desired), l)) = Accepted(Body(l, desired), l)
    BY <2>2, <2>3, BodyAgain
  <2> QED BY <2>1, <2>2, <2>4
<1> QED BY <1>1, MergeInvariant, PTL

=============================================================================
