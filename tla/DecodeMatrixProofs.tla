------------------------ MODULE DecodeMatrixProofs ------------------------
(***************************************************************************)
(* Proofs about DecodeMatrix and EncodeData, for every k, m, field of      *)
(* bytes, list of erasures, length and vector: the selection stays within  *)
(* frag_in_err and takes the first k fragments not erased, their rows are  *)
(* never singular (part of a Cauchy matrix), the rows computed rebuild the *)
(* erased fragments, and ec_encode_data makes of them the erased bytes.    *)
(*                                                                         *)
(* The field, sums over rows, products of matrices, row operations, the    *)
(* Cauchy matrix and the elimination come first, then the invariant of the *)
(* matrix; the tables, the calls and their invariant follow.               *)
(***************************************************************************)
EXTENDS EncodeData, FiniteSetTheorems, WellFoundedInduction, TLAPS

(* The list names at most m - k fragments, repeats included.               *)
LEMMA FewErasures ==
  ASSUME frag_err_list \in ErrLists
  PROVE  /\ frag_in_err \subseteq Fragments
         /\ IsFiniteSet(frag_in_err)
         /\ Cardinality(frag_in_err) \in Nat
         /\ Cardinality(frag_in_err) <= m - k
<1>1. PICK num \in 0 .. m - k : frag_err_list \in [0 .. num - 1 -> Fragments]
  BY DEF ErrLists
<1>2. num \in Nat /\ num <= m - k
  BY <1>1, ShapeAssumption
<1>3. frag_in_err \subseteq Fragments
  BY <1>1 DEF frag_in_err, Range
<1>4. IsFiniteSet(0 .. num - 1) /\ Cardinality(0 .. num - 1) = num
  <2>1. 0 \in Int /\ num - 1 \in Int
    BY <1>2
  <2>2. /\ IsFiniteSet(0 .. num - 1)
        /\ Cardinality(0 .. num - 1) = IF 0 > num - 1 THEN 0 ELSE (num - 1) - 0 + 1
    BY <2>1, FS_Interval
  <2> QED
    BY <1>2, <2>2
<1>5. frag_err_list \in Surjection(0 .. num - 1, frag_in_err)
  BY <1>1 DEF Surjection, frag_in_err, Range
<1>6. /\ IsFiniteSet(frag_in_err)
      /\ Cardinality(frag_in_err) <= num
  BY <1>4, <1>5, FS_Surjection
<1>7. Cardinality(frag_in_err) \in Nat
  BY <1>6, FS_CardinalityType
<1> QED
  BY <1>2, <1>3, <1>6, <1>7, ShapeAssumption

(* Fragments below x that are erased.                                      *)
ErasedBelow(x) == frag_in_err \cap (0 .. x - 1)

LEMMA ErasedBelowNext ==
  ASSUME frag_err_list \in ErrLists, NEW x \in Nat
  PROVE  /\ Cardinality(ErasedBelow(x)) \in Nat
         /\ Cardinality(ErasedBelow(x)) <= m - k
         /\ Cardinality(ErasedBelow(x + 1)) = IF x \in frag_in_err
                                              THEN Cardinality(ErasedBelow(x)) + 1
                                              ELSE Cardinality(ErasedBelow(x))
<1>1. ErasedBelow(x) \in SUBSET frag_in_err /\ x \notin ErasedBelow(x)
  BY DEF ErasedBelow
<1>2. /\ IsFiniteSet(ErasedBelow(x))
      /\ Cardinality(ErasedBelow(x)) <= Cardinality(frag_in_err)
  BY <1>1, FewErasures, FS_Subset
<1>3. Cardinality(ErasedBelow(x)) \in Nat
  BY <1>2, FS_CardinalityType
<1>4. Cardinality(ErasedBelow(x) \cup {x}) = Cardinality(ErasedBelow(x)) + 1
  BY <1>1, <1>2, FS_AddElement
<1>5. ErasedBelow(x + 1) = IF x \in frag_in_err THEN ErasedBelow(x) \cup {x}
                                                ELSE ErasedBelow(x)
  BY DEF ErasedBelow
<1> QED
  BY <1>2, <1>3, <1>4, <1>5, FewErasures, ShapeAssumption

-----------------------------------------------------------------------------
(* While the selection runs, the fragments below r are the i selected ones *)
(* and the erased ones.                                                    *)

Selecting ==
  /\ i \in 0 .. k
  /\ r \in 0 .. m
  /\ r = i + Cardinality(ErasedBelow(r))
  /\ \A j \in 0 .. i - 1 : decode_index[j] \in Fragments \ frag_in_err /\ decode_index[j] < r
  /\ \A j, l \in 0 .. i - 1 : j < l => decode_index[j] < decode_index[l]
  /\ \A s \in Fragments \ frag_in_err :
       s < r => \E j \in 0 .. i - 1 : decode_index[j] = s

SelectionInv ==
  /\ frag_err_list \in ErrLists
  /\ pc \in {"select", "invert", "rows", "done"}
  /\ decode_index \in [Rows -> Nat]
  /\ pc = "select" => Selecting
  /\ SurvivorsSelected

LEMMA InRange == SelectionInv => SelectionInRange
<1> SUFFICES ASSUME SelectionInv, pc = "select", i < k
             PROVE  r < m
  BY DEF SelectionInRange
<1>1. i \in 0 .. k /\ r \in 0 .. m /\ r = i + Cardinality(ErasedBelow(r))
  BY DEF SelectionInv, Selecting
<1>2. /\ Cardinality(ErasedBelow(r)) \in Nat
      /\ Cardinality(ErasedBelow(r)) <= m - k
  BY <1>1, ErasedBelowNext, ShapeAssumption DEF SelectionInv
<1> QED
  BY <1>1, <1>2, ShapeAssumption

LEMMA SelectionInit == Init => SelectionInv
<1> SUFFICES ASSUME Init PROVE SelectionInv
  OBVIOUS
<1>1. ErasedBelow(0) = {}
  BY DEF ErasedBelow
<1>2. Cardinality(ErasedBelow(r)) = 0
  BY <1>1, FS_EmptySet DEF Init
<1> QED
  BY <1>2, ShapeAssumption DEF Init, SelectionInv, Selecting, SurvivorsSelected, Fragments

LEMMA SelectionStep == SelectionInv /\ [Next]_vars => SelectionInv'
<1> SUFFICES ASSUME SelectionInv, [Next]_vars PROVE SelectionInv'
  OBVIOUS
<1> USE ShapeAssumption
<1>1. CASE SkipErased
  <2>1. r < m /\ r \in Nat /\ i \in Nat
    BY <1>1, InRange DEF SkipErased, SelectionInRange, SelectionInv, Selecting
  <2>2. UNCHANGED <<frag_err_list, pc, i, decode_index>> /\ r' = r + 1 /\ r \in frag_in_err
    BY <1>1 DEF SkipErased
  <2>3. frag_in_err' = frag_in_err
    BY <2>2 DEF frag_in_err
  <2>4. r' = i' + Cardinality(ErasedBelow(r))'
    BY <1>1, <2>1, <2>2, ErasedBelowNext DEF SkipErased, SelectionInv, Selecting,
       ErasedBelow, frag_in_err
  <2>5. Selecting'
    <3>1. Selecting
      BY <1>1 DEF SkipErased, SelectionInv
    <3>2. \A s \in Fragments \ frag_in_err : s < r + 1 => s < r
      BY <2>1, <2>2 DEF Fragments
    <3>3. \A j \in 0 .. i - 1 : decode_index[j] \in Fragments \ frag_in_err
                              /\ decode_index[j] < r + 1
      BY <2>1, <3>1 DEF Selecting, Fragments
    <3>4. r' \in 0 .. m
      BY <2>1, <2>2
    <3> QED
      BY <2>2, <2>3, <2>4, <3>1, <3>2, <3>3, <3>4 DEF Selecting
  <2> QED
    BY <1>1, <2>2, <2>5 DEF SkipErased, SelectionInv, SurvivorsSelected
<1>2. CASE TakeSurvivor
  <2>1. r < m /\ r \in Nat /\ i \in 0 .. k - 1 /\ r \notin frag_in_err
    BY <1>2, InRange DEF TakeSurvivor, SelectionInRange, SelectionInv, Selecting
  <2>2. UNCHANGED <<frag_err_list, pc>> /\ r' = r + 1 /\ i' = i + 1 /\ pc = "select"
    BY <1>2 DEF TakeSurvivor
  <2>3. r' = i' + Cardinality(ErasedBelow(r))'
    BY <1>2, <2>1, <2>2, ErasedBelowNext DEF SelectionInv, Selecting,
       ErasedBelow, frag_in_err
  <2>4. \A j \in Rows : decode_index'[j] = IF j = i THEN r ELSE decode_index[j]
    BY <1>2 DEF TakeSurvivor, SelectionInv
  <2>5. Selecting'
    <3>1. \A j \in 0 .. i : j \in Rows /\ (j = i \/ j \in 0 .. i - 1)
      BY <2>1 DEF Rows
    <3>2. r \in Fragments \ frag_in_err
      BY <2>1 DEF Fragments
    <3>3. \A j \in 0 .. i : decode_index'[j] \in Fragments \ frag_in_err /\ decode_index'[j] < r + 1
      BY <2>1, <2>2, <2>4, <3>1, <3>2 DEF SelectionInv, Selecting, Fragments
    <3>4. \A j, l \in 0 .. i : j < l => decode_index'[j] < decode_index'[l]
      BY <2>1, <2>2, <2>4, <3>1 DEF SelectionInv, Selecting
    <3>5. \A s \in Fragments \ frag_in_err :
            s < r + 1 => \E j \in 0 .. i : decode_index'[j] = s
      <4> SUFFICES ASSUME NEW s \in Fragments \ frag_in_err, s < r + 1
                   PROVE  \E j \in 0 .. i : decode_index'[j] = s
        OBVIOUS
      <4>1. CASE s = r
        BY <2>1, <2>4, <3>1, <4>1
      <4>2. CASE s < r
        <5>1. PICK j \in 0 .. i - 1 : decode_index[j] = s
          BY <2>2, <4>2 DEF SelectionInv, Selecting
        <5>2. j \in 0 .. i /\ j # i /\ j \in Rows
          BY <2>1 DEF Rows
        <5> QED
          BY <2>4, <5>1, <5>2
      <4> QED
        BY <2>1, <4>1, <4>2 DEF Fragments
    <3>6. i' - 1 = i /\ i' \in 0 .. k /\ r' \in 0 .. m
      BY <2>1, <2>2
    <3> QED
      BY <2>2, <2>3, <3>3, <3>4, <3>5, <3>6 DEF Selecting, frag_in_err
  <2>6. decode_index' \in [Rows -> Nat]
    BY <1>2, <2>1 DEF TakeSurvivor, SelectionInv
  <2> QED
    BY <2>2, <2>5, <2>6 DEF SelectionInv, SurvivorsSelected
<1>3. CASE CallInvert
  <2>1. /\ i = k /\ pc = "select" /\ pc' = "invert" /\ UNCHANGED <<frag_err_list, decode_index>>
    BY <1>3 DEF CallInvert
  <2>2. \A j \in Rows : /\ decode_index[j] \in Fragments \ frag_in_err
                        /\ decode_index[j] < r
                        /\ j + 1 \in Rows => decode_index[j] < decode_index[j + 1]
    BY <2>1 DEF SelectionInv, Selecting, Rows
  <2>3. \A s \in Fragments \ frag_in_err : s < r => \E j \in Rows : decode_index[j] = s
    BY <2>1 DEF SelectionInv, Selecting, Rows
  <2>4. \A s \in Fragments \ frag_in_err : s < decode_index[k - 1] => s < r
    BY <2>1, <2>2 DEF SelectionInv, Selecting, Rows, Fragments
  <2>5. SurvivorsSelected'
    BY <2>1, <2>2, <2>3, <2>4 DEF SurvivorsSelected, frag_in_err
  <2> QED
    BY <2>1, <2>5 DEF SelectionInv
<1>4. CASE Eliminate \/ Inverted \/ DecodeRow \/ Return \/ UNCHANGED vars
  <2>1. UNCHANGED <<frag_err_list, decode_index>>
    BY <1>4 DEF Eliminate, Inverted, DecodeRow, Return, vars
  <2>2. \/ pc # "select" /\ pc' \in {"invert", "rows", "done"}
        \/ UNCHANGED <<pc, i, r>>
    BY <1>4 DEF Eliminate, Inverted, DecodeRow, Return, vars, SelectionInv
  <2> QED
    BY <2>1, <2>2 DEF SelectionInv, SurvivorsSelected, Selecting, ErasedBelow, frag_in_err
<1> QED
  BY <1>1, <1>2, <1>3, <1>4 DEF Next

LEMMA SelectionInvariant == Spec => []SelectionInv
BY SelectionInit, SelectionStep, PTL DEF Spec

(* The selection never looks past the m entries of frag_in_err.            *)
THEOREM SelectsInRange == Spec => []SelectionInRange
BY InRange, SelectionInvariant, PTL

(* decode_index holds the first k fragments that are not erased.           *)
THEOREM SelectsSurvivors == Spec => []SurvivorsSelected
<1>1. SelectionInv => SurvivorsSelected
  BY DEF SelectionInv
<1> QED
  BY <1>1, SelectionInvariant, PTL

-----------------------------------------------------------------------------
(* The field of bytes.                                                     *)

LEMMA Constants01 == 0 \in ByteValues /\ 1 \in ByteValues /\ Rows \subseteq ByteValues
BY FieldAssumption, ShapeAssumption DEF Fragments, Rows

LEMMA AddType ==
  ASSUME NEW x \in ByteValues, NEW y \in ByteValues
  PROVE  Add(x, y) \in ByteValues /\ Add(x, y) = Add(y, x)
BY FieldAssumption

LEMMA MulType ==
  ASSUME NEW x \in ByteValues, NEW y \in ByteValues
  PROVE  Mul(x, y) \in ByteValues /\ Mul(x, y) = Mul(y, x)
BY FieldAssumption

LEMMA AddAssoc ==
  ASSUME NEW x \in ByteValues, NEW y \in ByteValues, NEW z \in ByteValues
  PROVE  Add(Add(x, y), z) = Add(x, Add(y, z))
BY FieldAssumption

LEMMA MulAssoc ==
  ASSUME NEW x \in ByteValues, NEW y \in ByteValues, NEW z \in ByteValues
  PROVE  Mul(Mul(x, y), z) = Mul(x, Mul(y, z))
BY FieldAssumption

LEMMA Distributes ==
  ASSUME NEW x \in ByteValues, NEW y \in ByteValues, NEW z \in ByteValues
  PROVE  /\ Mul(x, Add(y, z)) = Add(Mul(x, y), Mul(x, z))
         /\ Mul(Add(y, z), x) = Add(Mul(y, x), Mul(z, x))
<1>1. Mul(x, Add(y, z)) = Add(Mul(x, y), Mul(x, z))
  BY FieldAssumption
<1>2. /\ Mul(x, y) = Mul(y, x) /\ Mul(x, z) = Mul(z, x)
      /\ Mul(Add(y, z), x) = Mul(x, Add(y, z))
  BY MulType, AddType
<1> QED
  BY <1>1, <1>2

LEMMA Neutral ==
  ASSUME NEW x \in ByteValues
  PROVE  /\ Add(x, 0) = x /\ Add(0, x) = x /\ Add(x, x) = 0
         /\ Mul(x, 1) = x /\ Mul(1, x) = x
         /\ Mul(x, 0) = 0 /\ Mul(0, x) = 0
<1>1. Add(x, 0) = x /\ Add(x, x) = 0 /\ Mul(x, 1) = x
  BY FieldAssumption
<1>2. Add(0, x) = x /\ Mul(1, x) = x
  BY <1>1, Constants01, AddType, MulType
<1>3. Mul(x, Add(0, 0)) = Add(Mul(x, 0), Mul(x, 0))
  BY Constants01, Distributes
<1>4. Mul(x, 0) \in ByteValues /\ Mul(0, x) = Mul(x, 0)
  BY Constants01, MulType
<1>5. Add(0, 0) = 0 /\ Add(Mul(x, 0), Mul(x, 0)) = 0
  BY <1>4, Constants01, FieldAssumption
<1> QED
  BY <1>1, <1>2, <1>3, <1>4, <1>5

LEMMA InverseOf ==
  ASSUME NEW x \in ByteValues, x # 0
  PROVE  /\ Inv(x) \in ByteValues /\ Inv(x) # 0
         /\ Mul(x, Inv(x)) = 1 /\ Mul(Inv(x), x) = 1
<1>1. Inv(x) \in ByteValues /\ Mul(x, Inv(x)) = 1
  BY FieldAssumption
<1>2. Mul(Inv(x), x) = 1
  BY <1>1, MulType
<1>3. Inv(x) # 0
  BY <1>1, Neutral
<1> QED
  BY <1>1, <1>2, <1>3

(* A product is 0 only when a factor is.                                   *)
LEMMA NoZeroDivisor ==
  ASSUME NEW x \in ByteValues, NEW y \in ByteValues, x # 0, Mul(x, y) = 0
  PROVE  y = 0
<1>1. Inv(x) \in ByteValues /\ Mul(Inv(x), x) = 1
  BY InverseOf
<1>2. Mul(Mul(Inv(x), x), y) = Mul(Inv(x), Mul(x, y))
  BY <1>1, MulAssoc
<1>3. Mul(1, y) = y /\ Mul(Inv(x), 0) = 0
  BY <1>1, Neutral
<1> QED
  BY <1>1, <1>2, <1>3

(* Different elements have a sum other than 0.                             *)
LEMMA SumNotZero ==
  ASSUME NEW x \in ByteValues, NEW y \in ByteValues, Add(x, y) = 0
  PROVE  x = y
<1>1. Add(Add(x, y), y) = Add(x, Add(y, y))
  BY AddAssoc
<1>2. Add(0, y) = y /\ Add(y, y) = 0 /\ Add(x, 0) = x
  BY Neutral
<1> QED
  BY <1>1, <1>2

LEMMA AddTwice ==
  ASSUME NEW x \in ByteValues, NEW y \in ByteValues
  PROVE  Add(x, Add(x, y)) = y
<1>1. Add(Add(x, x), y) = Add(x, Add(x, y))
  BY AddAssoc
<1>2. Add(x, x) = 0 /\ Add(0, y) = y
  BY Neutral
<1> QED
  BY <1>1, <1>2

(* The sum of two sums, two by two.                                        *)
LEMMA AddFour ==
  ASSUME NEW u \in ByteValues, NEW v \in ByteValues, NEW x \in ByteValues, NEW y \in ByteValues
  PROVE  Add(Add(u, v), Add(x, y)) = Add(Add(u, x), Add(v, y))
<1>1. /\ Add(x, y) \in ByteValues /\ Add(v, y) \in ByteValues
      /\ Add(v, x) \in ByteValues /\ Add(v, x) = Add(x, v)
  BY AddType
<1>2. Add(Add(u, v), Add(x, y)) = Add(u, Add(v, Add(x, y)))
  BY <1>1, AddAssoc
<1>3. Add(v, Add(x, y)) = Add(Add(v, x), y) /\ Add(Add(x, v), y) = Add(x, Add(v, y))
  BY AddAssoc
<1>4. Add(Add(u, x), Add(v, y)) = Add(u, Add(x, Add(v, y)))
  BY <1>1, AddAssoc
<1> QED
  BY <1>1, <1>2, <1>3, <1>4

(* Factors change places.                                                  *)
LEMMA MulSwap ==
  ASSUME NEW u \in ByteValues, NEW v \in ByteValues, NEW x \in ByteValues
  PROVE  Mul(u, Mul(v, x)) = Mul(v, Mul(u, x))
<1>1. Mul(Mul(u, v), x) = Mul(u, Mul(v, x)) /\ Mul(Mul(v, u), x) = Mul(v, Mul(u, x))
  BY MulAssoc
<1>2. Mul(u, v) = Mul(v, u)
  BY MulType
<1> QED
  BY <1>1, <1>2

-----------------------------------------------------------------------------
(* Sets of naturals.                                                       *)

LEMMA LeastNat ==
  ASSUME NEW T, T \subseteq Nat, T # {}
  PROVE  \E x \in T : \A y \in T : x <= y
<1>1. \E x \in T : \A y \in T : ~ (<<y, x>> \in OpToRel(<, Nat))
  BY NatLessThanWellFounded, WFMin
<1>2. \E x \in T : \A y \in T : ~ (y < x)
  BY <1>1, Zenon DEF OpToRel
<1> QED
  BY <1>2

LEMMA SetInduction ==
  ASSUME NEW S, 0 \in S, \A x \in Nat : x \in S => x + 1 \in S
  PROVE  Nat \subseteq S
<1> SUFFICES ASSUME Nat \ S # {} PROVE FALSE
  OBVIOUS
<1>1. PICK x \in Nat \ S : \A y \in Nat \ S : x <= y
  BY LeastNat
<1>2. x # 0 /\ x - 1 \in Nat
  BY <1>1
<1>3. x - 1 \in S
  BY <1>1, <1>2
<1> QED
  BY <1>1, <1>2, <1>3

(* Induction over the subsets of a finite set, an element at a time.       *)
LEMMA RowSets ==
  ASSUME NEW U, IsFiniteSet(U), NEW P, {} \in P,
         \A S \in SUBSET U : (S # {} /\ \A x \in S : S \ {x} \in P) => S \in P
  PROVE  SUBSET U \subseteq P
<1> DEFINE T == {n \in Nat : \A S \in SUBSET U : Cardinality(S) = n => S \in P}
<1>0. \A S \in SUBSET U : IsFiniteSet(S) /\ Cardinality(S) \in Nat
  BY FS_Subset, FS_CardinalityType
<1>1. 0 \in T
  BY <1>0, FS_EmptySet
<1>2. ASSUME NEW n \in Nat, n \in T PROVE n + 1 \in T
  <2> SUFFICES ASSUME NEW S \in SUBSET U, Cardinality(S) = n + 1 PROVE S \in P
    OBVIOUS
  <2>0. IsFiniteSet(S)
    BY <1>0
  <2>1. S # {}
    BY <2>0, FS_EmptySet
  <2>2. ASSUME NEW x \in S PROVE S \ {x} \in P
    <3>1. Cardinality(S \ {x}) = Cardinality(S) - 1
      BY <2>0, FS_RemoveElement
    <3>2. S \ {x} \in SUBSET U /\ Cardinality(S \ {x}) = n
      BY <3>1
    <3> QED
      BY <1>2, <3>2
  <2> QED
    BY <2>1, <2>2
<1>3. Nat \subseteq T
  <2> HIDE DEF T
  <2> QED
    BY <1>1, <1>2, SetInduction
<1> QED
  BY <1>0, <1>3

-----------------------------------------------------------------------------
(* Sums: what the fold of Dot yields, for any order it takes the rows in.  *)

SumOn(f, S) == FoldFunctionOnSet(Add, 0, f, S)
Choice(S) == CHOOSE x \in S : TRUE
Vectors == [Rows -> ByteValues]

(* g computes the sums of f over all subsets of T the way the fold does.   *)
Folds(g, f, T) ==
  g = [S \in SUBSET T |-> IF S = {} THEN 0
                          ELSE Add(f[Choice(S)], g[S \ {Choice(S)}])]

LEMMA FiniteRows ==
  /\ IsFiniteSet(Rows) /\ Cardinality(Rows) = k
  /\ \A S \in SUBSET Rows : IsFiniteSet(S) /\ Cardinality(S) \in Nat
<1>1. /\ IsFiniteSet(0 .. k - 1)
      /\ Cardinality(0 .. k - 1) = IF 0 > k - 1 THEN 0 ELSE (k - 1) - 0 + 1
  BY ShapeAssumption, FS_Interval
<1>2. IsFiniteSet(Rows) /\ Cardinality(Rows) = k
  BY <1>1, ShapeAssumption DEF Rows
<1>3. \A S \in SUBSET Rows : IsFiniteSet(S)
  BY <1>2, FS_Subset
<1> QED
  BY <1>2, <1>3, FS_CardinalityType

(* There is such a g.                                                      *)
LEMMA FoldsExists ==
  ASSUME NEW f, NEW T, IsFiniteSet(T)
  PROVE  \E g : Folds(g, f, T)
<1> DEFINE Up(g, n) == \A S \in SUBSET T : Cardinality(S) <= n =>
             g[S] = IF S = {} THEN 0 ELSE Add(f[Choice(S)], g[S \ {Choice(S)}])
           N == {n \in Nat : \E g : Up(g, n)}
<1>0. \A S \in SUBSET T : IsFiniteSet(S) /\ Cardinality(S) \in Nat
  BY FS_Subset, FS_CardinalityType
<1>1. 0 \in N
  <2>1. \A S \in SUBSET T : Cardinality(S) <= 0 => S = {}
    BY <1>0, FS_EmptySet
  <2>2. Up([S \in SUBSET T |-> 0], 0)
    BY <2>1
  <2> QED
    BY <2>2
<1>2. ASSUME NEW n \in Nat, n \in N PROVE n + 1 \in N
  <2>1. PICK g : Up(g, n)
    BY <1>2
  <2> DEFINE h == [S \in SUBSET T |-> IF Cardinality(S) <= n THEN g[S] ELSE
                     IF S = {} THEN 0 ELSE Add(f[Choice(S)], g[S \ {Choice(S)}])]
  <2>2. ASSUME NEW S \in SUBSET T, Cardinality(S) <= n + 1
        PROVE  h[S] = IF S = {} THEN 0 ELSE Add(f[Choice(S)], h[S \ {Choice(S)}])
    <3>1. CASE S = {}
      <4>1. Cardinality(S) <= n
        BY <3>1, FS_EmptySet
      <4> QED
        BY <2>1, <3>1, <4>1
    <3>2. CASE S # {}
      <4>1. Choice(S) \in S
        BY <3>2 DEF Choice
      <4>2. S \ {Choice(S)} \in SUBSET T /\ Cardinality(S \ {Choice(S)}) = Cardinality(S) - 1
        BY <1>0, <4>1, FS_RemoveElement
      <4>3. Cardinality(S \ {Choice(S)}) <= n
        BY <1>0, <2>2, <4>2
      <4>4. h[S \ {Choice(S)}] = g[S \ {Choice(S)}]
        BY <4>2, <4>3
      <4>5. h[S] = Add(f[Choice(S)], g[S \ {Choice(S)}])
        BY <2>1, <3>2
      <4> QED
        BY <3>2, <4>4, <4>5
    <3> QED
      BY <3>1, <3>2
  <2>3. Up(h, n + 1)
    <3> HIDE DEF h
    <3> QED
      BY <2>2
  <2>4. \E z : Up(z, n + 1)
    <3> WITNESS h
    <3> QED
      BY <2>3
  <2> HIDE DEF Up
  <2> QED
    BY <2>4
<1>3. Nat \subseteq N
  <2> HIDE DEF N
  <2> QED
    BY <1>1, <1>2, SetInduction
<1>4. PICK n \in Nat : n = Cardinality(T)
  BY <1>0
<1>5. PICK g : Up(g, n)
  BY <1>3
<1> DEFINE h == [S \in SUBSET T |-> g[S]]
<1>6. ASSUME NEW S \in SUBSET T
      PROVE  h[S] = IF S = {} THEN 0 ELSE Add(f[Choice(S)], h[S \ {Choice(S)}])
  <2>1. Cardinality(S) <= n
    BY <1>4, FS_Subset
  <2>2. h[S] = g[S] /\ S \ {Choice(S)} \in SUBSET T
    OBVIOUS
  <2> QED
    BY <1>5, <2>1, <2>2
<1>7. h = [S \in SUBSET T |-> IF S = {} THEN 0 ELSE Add(f[Choice(S)], h[S \ {Choice(S)}])]
  <2> HIDE DEF h
  <2>1. h = [S \in SUBSET T |-> h[S]]
    BY DEF h
  <2> QED
    BY <1>6, <2>1
<1> QED
  BY <1>7 DEF Folds

(* The fold is one.                                                        *)
LEMMA SumFolds ==
  ASSUME NEW f, NEW T, IsFiniteSet(T)
  PROVE  \E g : Folds(g, f, T) /\ SumOn(f, T) = g[T]
<1>1. Folds(CHOOSE g : Folds(g, f, T), f, T)
  BY FoldsExists, Zenon
<1>2. SumOn(f, T) = (CHOOSE g : Folds(g, f, T))[T]
  BY DEF SumOn, FoldFunctionOnSet, MapThenFoldSet, Folds, Choice
<1> QED
  BY <1>1, <1>2

(* Two of them agree on the sets both are defined on.                      *)
LEMMA FoldsUnique ==
  ASSUME NEW f, NEW T, IsFiniteSet(T), NEW S \in SUBSET T, NEW g, NEW h,
         Folds(g, f, T), Folds(h, f, S)
  PROVE  g[S] = h[S]
<1> DEFINE P == {U \in SUBSET S : g[U] = h[U]}
           N == {n \in Nat : \A U \in SUBSET S : Cardinality(U) = n => g[U] = h[U]}
<1>0. \A U \in SUBSET S : U \in SUBSET T /\ IsFiniteSet(U) /\ Cardinality(U) \in Nat
  BY FS_Subset, FS_CardinalityType
<1>1. 0 \in N
  BY <1>0, FS_EmptySet DEF Folds
<1>2. ASSUME NEW n \in Nat, n \in N PROVE n + 1 \in N
  <2> SUFFICES ASSUME NEW U \in SUBSET S, Cardinality(U) = n + 1 PROVE g[U] = h[U]
    OBVIOUS
  <2>1. U # {}
    BY <1>0, FS_EmptySet
  <2>2. Choice(U) \in U
    BY <2>1 DEF Choice
  <2>3. U \ {Choice(U)} \in SUBSET S /\ Cardinality(U \ {Choice(U)}) = n
    <3>1. IsFiniteSet(U)
      BY <1>0
    <3>2. Cardinality(U \ {Choice(U)}) = Cardinality(U) - 1
      BY <2>2, <3>1, FS_RemoveElement
    <3> QED
      BY <3>2
  <2>4. g[U \ {Choice(U)}] = h[U \ {Choice(U)}]
    BY <1>2, <2>3
  <2>5. U \in SUBSET T
    BY <1>0
  <2>6. g[U] = Add(f[Choice(U)], g[U \ {Choice(U)}])
    BY <2>1, <2>5 DEF Folds
  <2>7. h[U] = Add(f[Choice(U)], h[U \ {Choice(U)}])
    BY <2>1 DEF Folds
  <2> QED
    BY <2>4, <2>6, <2>7
<1>3. Nat \subseteq N
  <2> HIDE DEF N
  <2> QED
    BY <1>1, <1>2, SetInduction
<1> QED
  BY <1>0, <1>3

LEMMA SumEmpty ==
  ASSUME NEW f
  PROVE  SumOn(f, {}) = 0
<1>1. PICK g : Folds(g, f, {}) /\ SumOn(f, {}) = g[{}]
  BY SumFolds, FS_EmptySet
<1>2. {} \in SUBSET {}
  OBVIOUS
<1> QED
  BY <1>1, <1>2 DEF Folds

LEMMA SumChoice ==
  ASSUME NEW f, NEW S, IsFiniteSet(S), S # {}
  PROVE  Choice(S) \in S /\ SumOn(f, S) = Add(f[Choice(S)], SumOn(f, S \ {Choice(S)}))
<1>1. PICK g : Folds(g, f, S) /\ SumOn(f, S) = g[S]
  BY SumFolds
<1> DEFINE U == S \ {Choice(S)}
<1>2. U \in SUBSET S /\ IsFiniteSet(U)
  BY FS_Subset
<1>3. PICK h : Folds(h, f, U) /\ SumOn(f, U) = h[U]
  <2> HIDE DEF U
  <2> QED
    BY <1>2, SumFolds
<1>4. g[U] = h[U]
  <2> HIDE DEF U
  <2> QED
    BY <1>1, <1>2, <1>3, FoldsUnique
<1>5. g[S] = Add(f[Choice(S)], g[U])
  BY <1>1 DEF Folds
<1> QED
  BY <1>1, <1>3, <1>4, <1>5 DEF Choice

LEMMA SumType ==
  ASSUME NEW f \in Vectors, NEW S \in SUBSET Rows
  PROVE  SumOn(f, S) \in ByteValues
<1> DEFINE P == {U \in SUBSET Rows : SumOn(f, U) \in ByteValues}
<1>1. {} \in P
  BY SumEmpty, Constants01
<1>2. ASSUME NEW U \in SUBSET Rows, U # {}, \A x \in U : U \ {x} \in P
      PROVE  U \in P
  <2>1. /\ Choice(U) \in U
        /\ SumOn(f, U) = Add(f[Choice(U)], SumOn(f, U \ {Choice(U)}))
    BY <1>2, SumChoice, FiniteRows
  <2>2. f[Choice(U)] \in ByteValues /\ SumOn(f, U \ {Choice(U)}) \in ByteValues
    BY <1>2, <2>1 DEF Vectors
  <2> QED
    BY <2>1, <2>2, AddType
<1>3. SUBSET Rows \subseteq P
  <2> HIDE DEF P
  <2> QED
    BY <1>1, <1>2, RowSets, FiniteRows
<1> QED
  BY <1>3

(* Any summand can be taken out.                                           *)
LEMMA SumTake ==
  ASSUME NEW f \in Vectors, NEW S \in SUBSET Rows, NEW x \in S
  PROVE  SumOn(f, S) = Add(f[x], SumOn(f, S \ {x}))
<1> DEFINE P == {U \in SUBSET Rows : \A y \in U : SumOn(f, U) = Add(f[y], SumOn(f, U \ {y}))}
<1>1. {} \in P
  OBVIOUS
<1>2. ASSUME NEW U \in SUBSET Rows, U # {}, \A y \in U : U \ {y} \in P
      PROVE  U \in P
  <2> SUFFICES ASSUME NEW y \in U
               PROVE  SumOn(f, U) = Add(f[y], SumOn(f, U \ {y}))
    OBVIOUS
  <2>1. PICK c \in U : SumOn(f, U) = Add(f[c], SumOn(f, U \ {c}))
    BY <1>2, SumChoice, FiniteRows
  <2>2. CASE c = y
    BY <2>1, <2>2
  <2>3. CASE c # y
    <3>1. SumOn(f, U \ {c}) = Add(f[y], SumOn(f, (U \ {c}) \ {y}))
      BY <1>2, <2>3
    <3>2. SumOn(f, U \ {y}) = Add(f[c], SumOn(f, (U \ {y}) \ {c}))
      BY <1>2, <2>3
    <3>3. (U \ {c}) \ {y} = (U \ {y}) \ {c}
      OBVIOUS
    <3> DEFINE R == SumOn(f, (U \ {c}) \ {y})
    <3>4. R \in ByteValues /\ f[c] \in ByteValues /\ f[y] \in ByteValues
      BY SumType DEF Vectors
    <3>5. Add(f[c], Add(f[y], R)) = Add(f[y], Add(f[c], R))
      <4> HIDE DEF R
      <4>1. /\ Add(Add(f[c], f[y]), R) = Add(f[c], Add(f[y], R))
            /\ Add(Add(f[y], f[c]), R) = Add(f[y], Add(f[c], R))
        BY <3>4, AddAssoc
      <4> QED
        BY <3>4, <4>1, AddType
    <3> QED
      BY <2>1, <3>1, <3>2, <3>3, <3>5
  <2> QED
    BY <2>2, <2>3
<1>3. SUBSET Rows \subseteq P
  <2> HIDE DEF P
  <2> QED
    BY <1>1, <1>2, RowSets, FiniteRows
<1> QED
  BY <1>3

(* Sums of the same summands are the same.                                 *)
LEMMA SumAgree ==
  ASSUME NEW f \in Vectors, NEW g \in Vectors, NEW S \in SUBSET Rows,
         \A x \in S : f[x] = g[x]
  PROVE  SumOn(f, S) = SumOn(g, S)
<1> DEFINE P == {U \in SUBSET Rows : U \subseteq S => SumOn(f, U) = SumOn(g, U)}
<1>1. {} \in P
  BY SumEmpty
<1>2. ASSUME NEW U \in SUBSET Rows, U # {}, \A x \in U : U \ {x} \in P
      PROVE  U \in P
  <2> SUFFICES ASSUME U \subseteq S PROVE SumOn(f, U) = SumOn(g, U)
    OBVIOUS
  <2>1. PICK x \in U : TRUE
    BY <1>2
  <2>2. SumOn(f, U) = Add(f[x], SumOn(f, U \ {x})) /\ SumOn(g, U) = Add(g[x], SumOn(g, U \ {x}))
    BY SumTake
  <2>3. SumOn(f, U \ {x}) = SumOn(g, U \ {x})
    BY <1>2
  <2> QED
    BY <2>2, <2>3
<1>3. SUBSET Rows \subseteq P
  <2> HIDE DEF P
  <2> QED
    BY <1>1, <1>2, RowSets, FiniteRows
<1> QED
  BY <1>3

LEMMA SumAdds ==
  ASSUME NEW f \in Vectors, NEW g \in Vectors, NEW h \in Vectors, NEW S \in SUBSET Rows,
         \A x \in S : h[x] = Add(f[x], g[x])
  PROVE  SumOn(h, S) = Add(SumOn(f, S), SumOn(g, S))
<1> DEFINE P == {U \in SUBSET Rows : U \subseteq S =>
                   SumOn(h, U) = Add(SumOn(f, U), SumOn(g, U))}
<1>1. {} \in P
  BY SumEmpty, Constants01, Neutral
<1>2. ASSUME NEW U \in SUBSET Rows, U # {}, \A x \in U : U \ {x} \in P
      PROVE  U \in P
  <2> SUFFICES ASSUME U \subseteq S
               PROVE  SumOn(h, U) = Add(SumOn(f, U), SumOn(g, U))
    OBVIOUS
  <2>1. PICK x \in U : TRUE
    BY <1>2
  <2>2. /\ SumOn(f, U) = Add(f[x], SumOn(f, U \ {x}))
        /\ SumOn(g, U) = Add(g[x], SumOn(g, U \ {x}))
        /\ SumOn(h, U) = Add(h[x], SumOn(h, U \ {x}))
    BY SumTake
  <2>3. SumOn(h, U \ {x}) = Add(SumOn(f, U \ {x}), SumOn(g, U \ {x}))
    BY <1>2
  <2>4. h[x] = Add(f[x], g[x])
    OBVIOUS
  <2>5. /\ f[x] \in ByteValues /\ g[x] \in ByteValues
        /\ SumOn(f, U \ {x}) \in ByteValues /\ SumOn(g, U \ {x}) \in ByteValues
    BY SumType DEF Vectors
  <2>6. Add(Add(f[x], g[x]), Add(SumOn(f, U \ {x}), SumOn(g, U \ {x})))
        = Add(Add(f[x], SumOn(f, U \ {x})), Add(g[x], SumOn(g, U \ {x})))
    BY <2>5, AddFour
  <2> QED
    BY <2>2, <2>3, <2>4, <2>6
<1>3. SUBSET Rows \subseteq P
  <2> HIDE DEF P
  <2> QED
    BY <1>1, <1>2, RowSets, FiniteRows
<1> QED
  BY <1>3

LEMMA SumScales ==
  ASSUME NEW f \in Vectors, NEW h \in Vectors, NEW c \in ByteValues, NEW S \in SUBSET Rows,
         \A x \in S : h[x] = Mul(c, f[x])
  PROVE  SumOn(h, S) = Mul(c, SumOn(f, S))
<1> DEFINE P == {U \in SUBSET Rows : U \subseteq S => SumOn(h, U) = Mul(c, SumOn(f, U))}
<1>1. {} \in P
  BY SumEmpty, Neutral
<1>2. ASSUME NEW U \in SUBSET Rows, U # {}, \A x \in U : U \ {x} \in P
      PROVE  U \in P
  <2> SUFFICES ASSUME U \subseteq S PROVE SumOn(h, U) = Mul(c, SumOn(f, U))
    OBVIOUS
  <2>1. PICK x \in U : TRUE
    BY <1>2
  <2>2. /\ SumOn(f, U) = Add(f[x], SumOn(f, U \ {x}))
        /\ SumOn(h, U) = Add(h[x], SumOn(h, U \ {x}))
    BY SumTake
  <2>3. SumOn(h, U \ {x}) = Mul(c, SumOn(f, U \ {x})) /\ h[x] = Mul(c, f[x])
    BY <1>2
  <2>4. f[x] \in ByteValues /\ SumOn(f, U \ {x}) \in ByteValues
    BY SumType DEF Vectors
  <2>5. Mul(c, Add(f[x], SumOn(f, U \ {x}))) = Add(Mul(c, f[x]), Mul(c, SumOn(f, U \ {x})))
    BY <2>4, Distributes
  <2> QED
    BY <2>2, <2>3, <2>5
<1>3. SUBSET Rows \subseteq P
  <2> HIDE DEF P
  <2> QED
    BY <1>1, <1>2, RowSets, FiniteRows
<1> QED
  BY <1>3

LEMMA SumZero ==
  ASSUME NEW f \in Vectors, NEW S \in SUBSET Rows, \A x \in S : f[x] = 0
  PROVE  SumOn(f, S) = 0
<1>1. \A x \in S : f[x] = Mul(0, f[x])
  BY Neutral DEF Vectors
<1>2. SumOn(f, S) = Mul(0, SumOn(f, S))
  BY <1>1, Constants01, SumScales
<1> QED
  BY <1>2, SumType, Neutral

(* Summands that are 0 can be left out.                                    *)
LEMMA SumSupport ==
  ASSUME NEW f \in Vectors, NEW S \in SUBSET Rows, \A x \in Rows \ S : f[x] = 0
  PROVE  SumOn(f, Rows) = SumOn(f, S)
<1> DEFINE P == {U \in SUBSET Rows : SumOn(f, U) = SumOn(f, U \cap S)}
<1>1. {} \in P
  OBVIOUS
<1>2. ASSUME NEW U \in SUBSET Rows, U # {}, \A x \in U : U \ {x} \in P
      PROVE  U \in P
  <2> SUFFICES SumOn(f, U) = SumOn(f, U \cap S)
    OBVIOUS
  <2>1. PICK x \in U : TRUE
    BY <1>2
  <2>2. SumOn(f, U) = Add(f[x], SumOn(f, U \ {x}))
    BY SumTake
  <2>3. SumOn(f, U \ {x}) = SumOn(f, (U \ {x}) \cap S)
    BY <1>2
  <2>4. CASE x \in S
    <3>1. SumOn(f, U \cap S) = Add(f[x], SumOn(f, (U \cap S) \ {x}))
      BY <2>4, SumTake
    <3>2. (U \cap S) \ {x} = (U \ {x}) \cap S
      OBVIOUS
    <3> QED
      BY <2>2, <2>3, <3>1, <3>2
  <2>5. CASE x \notin S
    <3>1. f[x] = 0 /\ (U \ {x}) \cap S = U \cap S
      BY <2>5
    <3>2. SumOn(f, U \cap S) \in ByteValues
      BY SumType
    <3> QED
      BY <2>2, <2>3, <3>1, <3>2, Neutral
  <2> QED
    BY <2>4, <2>5
<1>3. SUBSET Rows \subseteq P
  <2> HIDE DEF P
  <2> QED
    BY <1>1, <1>2, RowSets, FiniteRows
<1>4. Rows \cap S = S
  OBVIOUS
<1> QED
  BY <1>3, <1>4

LEMMA SumOne ==
  ASSUME NEW f \in Vectors, NEW a \in Rows, \A x \in Rows \ {a} : f[x] = 0
  PROVE  SumOn(f, Rows) = f[a]
<1>1. SumOn(f, Rows) = Add(f[a], SumOn(f, Rows \ {a}))
  BY SumTake
<1>2. SumOn(f, Rows \ {a}) = 0
  BY SumZero
<1> QED
  BY <1>1, <1>2, Neutral DEF Vectors

LEMMA SumTwo ==
  ASSUME NEW f \in Vectors, NEW a \in Rows, NEW c \in Rows, a # c,
         \A x \in Rows \ {a, c} : f[x] = 0
  PROVE  SumOn(f, Rows) = Add(f[a], f[c])
<1>1. SumOn(f, Rows) = Add(f[a], SumOn(f, Rows \ {a}))
  BY SumTake
<1>2. SumOn(f, Rows \ {a}) = Add(f[c], SumOn(f, (Rows \ {a}) \ {c}))
  BY SumTake
<1>3. SumOn(f, (Rows \ {a}) \ {c}) = 0
  BY SumZero
<1>4. f[c] \in ByteValues
  BY DEF Vectors
<1> QED
  BY <1>1, <1>2, <1>3, <1>4, Neutral

(* Rows and columns can be summed in either order.                         *)
LEMMA SumSwap ==
  ASSUME NEW F, \A x, y \in Rows : F[x][y] \in ByteValues, NEW S \in SUBSET Rows
  PROVE  SumOn([x \in Rows |-> SumOn([y \in Rows |-> F[x][y]], Rows)], S)
         = SumOn([y \in Rows |-> SumOn([x \in Rows |-> F[x][y]], S)], Rows)
<1> DEFINE Line(x) == [y \in Rows |-> F[x][y]]
           Pile(y) == [x \in Rows |-> F[x][y]]
           f == [x \in Rows |-> SumOn(Line(x), Rows)]
           g(U) == [y \in Rows |-> SumOn(Pile(y), U)]
           P == {U \in SUBSET Rows : SumOn(f, U) = SumOn(g(U), Rows)}
<1>0. \A x \in Rows : Line(x) \in Vectors /\ Pile(x) \in Vectors
  BY DEF Vectors
<1>f. f \in Vectors
  <2>1. \A x \in Rows : SumOn(Line(x), Rows) \in ByteValues
    BY <1>0, SumType
  <2> QED
    BY <2>1 DEF Vectors
<1>g. \A U \in SUBSET Rows : g(U) \in Vectors
  <2>1. \A U \in SUBSET Rows : \A y \in Rows : SumOn(Pile(y), U) \in ByteValues
    BY <1>0, SumType
  <2> QED
    BY <2>1 DEF Vectors
<1>1. {} \in P
  <2>1. \A y \in Rows : g({})[y] = 0
    BY SumEmpty
  <2>2. SumOn(g({}), Rows) = 0
    BY <1>g, <2>1, SumZero
  <2> QED
    BY <2>2, SumEmpty
<1>2. ASSUME NEW U \in SUBSET Rows, U # {}, \A x \in U : U \ {x} \in P
      PROVE  U \in P
  <2> SUFFICES SumOn(f, U) = SumOn(g(U), Rows)
    OBVIOUS
  <2>1. PICK x \in U : TRUE
    BY <1>2
  <2>2. SumOn(f, U) = Add(f[x], SumOn(f, U \ {x}))
    BY <1>f, SumTake
  <2>3. SumOn(f, U \ {x}) = SumOn(g(U \ {x}), Rows)
    BY <1>2
  <2>4. \A y \in Rows : g(U)[y] = Add(Line(x)[y], g(U \ {x})[y])
    <3>1. ASSUME NEW y \in Rows
          PROVE  SumOn(Pile(y), U) = Add(F[x][y], SumOn(Pile(y), U \ {x}))
      <4>1. PICK v \in Vectors : v = Pile(y)
        BY <1>0
      <4>2. SumOn(v, U) = Add(v[x], SumOn(v, U \ {x}))
        BY SumTake
      <4>3. v[x] = F[x][y]
        BY <4>1
      <4> HIDE DEF Pile
      <4> QED
        BY <4>1, <4>2, <4>3
    <3>2. ASSUME NEW y \in Rows
          PROVE  /\ g(U)[y] = SumOn(Pile(y), U) /\ g(U \ {x})[y] = SumOn(Pile(y), U \ {x})
                 /\ Line(x)[y] = F[x][y]
      OBVIOUS
    <3> HIDE DEF g, Line, Pile
    <3> QED
      BY <3>1, <3>2
  <2>5. SumOn(g(U), Rows) = Add(SumOn(Line(x), Rows), SumOn(g(U \ {x}), Rows))
    <3>1. U \ {x} \in SUBSET Rows /\ x \in Rows
      OBVIOUS
    <3>2. Line(x) \in Vectors /\ g(U) \in Vectors /\ g(U \ {x}) \in Vectors
      BY <1>0, <1>g, <3>1
    <3>3. ASSUME NEW p \in Vectors, NEW q \in Vectors, NEW s \in Vectors,
                 \A y \in Rows : s[y] = Add(p[y], q[y])
          PROVE  SumOn(s, Rows) = Add(SumOn(p, Rows), SumOn(q, Rows))
      BY <3>3, SumAdds
    <3> HIDE DEF g, Line
    <3> QED
      BY <2>4, <3>2, <3>3
  <2>6. f[x] = SumOn(Line(x), Rows)
    OBVIOUS
  <2> QED
    BY <2>2, <2>3, <2>5, <2>6
<1>3. SUBSET Rows \subseteq P
  <2> HIDE DEF P
  <2> QED
    BY <1>1, <1>2, RowSets, FiniteRows
<1> QED
  BY <1>3

-----------------------------------------------------------------------------
(* Products of rows and columns.                                           *)

Matrices == [Rows -> Vectors]

LEMMA DotIs ==
  ASSUME NEW x \in Vectors, NEW y \in Vectors
  PROVE  /\ [j \in Rows |-> Mul(x[j], y[j])] \in Vectors
         /\ Dot(x, y) = SumOn([j \in Rows |-> Mul(x[j], y[j])], Rows)
         /\ Dot(x, y) \in ByteValues
<1> DEFINE f == [j \in Rows |-> Mul(x[j], y[j])]
<1>1. f \in Vectors
  BY MulType DEF Vectors
<1>2. Dot(x, y) = SumOn(f, Rows)
  BY DEF Dot, FoldFunction, SumOn
<1>3. SumOn(f, Rows) \in ByteValues
  <2> HIDE DEF f
  <2> QED
    BY <1>1, SumType
<1> QED
  BY <1>1, <1>2, <1>3

LEMMA DotCommutes ==
  ASSUME NEW x \in Vectors, NEW y \in Vectors
  PROVE  Dot(x, y) = Dot(y, x)
<1>1. \A j \in Rows : Mul(x[j], y[j]) = Mul(y[j], x[j])
  BY MulType DEF Vectors
<1>2. [j \in Rows |-> Mul(x[j], y[j])] = [j \in Rows |-> Mul(y[j], x[j])]
  BY <1>1
<1> QED
  BY <1>2, DotIs

LEMMA DotAdds ==
  ASSUME NEW x \in Vectors, NEW y \in Vectors, NEW z \in Vectors, NEW w \in Vectors,
         \A j \in Rows : z[j] = Add(x[j], y[j])
  PROVE  Dot(z, w) = Add(Dot(x, w), Dot(y, w))
<1>1. PICK f \in Vectors : f = [j \in Rows |-> Mul(x[j], w[j])]
  BY DotIs
<1>2. PICK g \in Vectors : g = [j \in Rows |-> Mul(y[j], w[j])]
  BY DotIs
<1>3. PICK h \in Vectors : h = [j \in Rows |-> Mul(z[j], w[j])]
  BY DotIs
<1>4. \A j \in Rows : h[j] = Add(f[j], g[j])
  BY <1>1, <1>2, <1>3, Distributes DEF Vectors
<1>5. SumOn(h, Rows) = Add(SumOn(f, Rows), SumOn(g, Rows))
  BY <1>4, SumAdds
<1> QED
  BY <1>1, <1>2, <1>3, <1>5, DotIs

LEMMA DotScales ==
  ASSUME NEW x \in Vectors, NEW z \in Vectors, NEW w \in Vectors, NEW c \in ByteValues,
         \A j \in Rows : z[j] = Mul(c, x[j])
  PROVE  Dot(z, w) = Mul(c, Dot(x, w))
<1>1. PICK f \in Vectors : f = [j \in Rows |-> Mul(x[j], w[j])]
  BY DotIs
<1>2. PICK h \in Vectors : h = [j \in Rows |-> Mul(z[j], w[j])]
  BY DotIs
<1>3. \A j \in Rows : h[j] = Mul(c, f[j])
  BY <1>1, <1>2, MulAssoc DEF Vectors
<1>4. SumOn(h, Rows) = Mul(c, SumOn(f, Rows))
  BY <1>3, SumScales
<1> QED
  BY <1>1, <1>2, <1>4, DotIs

LEMMA IdentityType == Identity \in Matrices
BY Constants01 DEF Identity, Matrices, Vectors

(* A unit row picks an element.                                            *)
LEMMA DotUnit ==
  ASSUME NEW y \in Vectors, NEW a \in Rows
  PROVE  Dot(Identity[a], y) = y[a]
<1>1. Identity[a] \in Vectors
  BY IdentityType DEF Matrices
<1>2. PICK f \in Vectors : f = [j \in Rows |-> Mul(Identity[a][j], y[j])]
  BY <1>1, DotIs
<1>3. \A j \in Rows : f[j] = IF j = a THEN y[j] ELSE 0
  BY <1>2, Neutral DEF Identity, Vectors
<1>4. SumOn(f, Rows) = f[a]
  BY <1>3, SumOne
<1> QED
  BY <1>1, <1>2, <1>3, <1>4, DotIs

LEMMA ColumnType ==
  ASSUME NEW mat \in Matrices, NEW l \in Rows
  PROVE  Column(mat, l) \in Vectors /\ \A j \in Rows : Column(mat, l)[j] = mat[j][l]
BY DEF Column, Matrices, Vectors

LEMMA TimesMatrixIs ==
  ASSUME NEW row \in Vectors, NEW mat \in Matrices
  PROVE  /\ TimesMatrix(row, mat) \in Vectors
         /\ \A l \in Rows : TimesMatrix(row, mat)[l] = Dot(row, Column(mat, l))
<1>1. \A l \in Rows : Dot(row, Column(mat, l)) \in ByteValues
  BY ColumnType, DotIs
<1> QED
  BY <1>1 DEF TimesMatrix, Vectors

(* The products of a matrix with a vector are bilinear: first the columns, *)
(* then the rows, or the other way round.                                  *)
LEMMA DotSwap ==
  ASSUME NEW x \in Vectors, NEW mat \in Matrices, NEW y \in Vectors
  PROVE  Dot([l \in Rows |-> Dot(x, Column(mat, l))], y)
         = Dot(x, [j \in Rows |-> Dot(mat[j], y)])
<1> DEFINE F == [j \in Rows |-> [l \in Rows |-> Mul(x[j], Mul(mat[j][l], y[l]))]]
           left == [l \in Rows |-> Dot(x, Column(mat, l))]
           right == [j \in Rows |-> Dot(mat[j], y)]
<1>1. \A j, l \in Rows : /\ x[j] \in ByteValues /\ mat[j][l] \in ByteValues /\ y[l] \in ByteValues
                         /\ mat[j] \in Vectors
  BY DEF Vectors, Matrices
<1>2. \A j, l \in Rows : F[j][l] \in ByteValues
  BY <1>1, MulType
<1>3. left \in Vectors /\ right \in Vectors
  <2>1. \A l \in Rows : Dot(x, Column(mat, l)) \in ByteValues
    BY ColumnType, DotIs
  <2>2. \A j \in Rows : Dot(mat[j], y) \in ByteValues
    BY <1>1, DotIs
  <2> QED
    BY <2>1, <2>2 DEF Vectors
<1>4. ASSUME NEW j \in Rows
      PROVE  Mul(x[j], right[j]) = SumOn([l \in Rows |-> F[j][l]], Rows)
  <2>1. PICK f \in Vectors : f = [l \in Rows |-> Mul(mat[j][l], y[l])]
    BY <1>1, DotIs
  <2>2. PICK h \in Vectors : h = [l \in Rows |-> F[j][l]]
    BY <1>2 DEF Vectors
  <2>3. \A l \in Rows : h[l] = Mul(x[j], f[l])
    BY <2>1, <2>2
  <2>4. SumOn(h, Rows) = Mul(x[j], SumOn(f, Rows))
    BY <1>1, <2>3, SumScales
  <2>5. right[j] = SumOn(f, Rows)
    BY <1>1, <2>1, DotIs
  <2> QED
    BY <2>2, <2>4, <2>5
<1>5. ASSUME NEW l \in Rows
      PROVE  Mul(left[l], y[l]) = SumOn([j \in Rows |-> F[j][l]], Rows)
  <2>1. PICK c \in Vectors : c = Column(mat, l) /\ \A j \in Rows : c[j] = mat[j][l]
    BY ColumnType
  <2>2. PICK f \in Vectors : f = [j \in Rows |-> Mul(x[j], c[j])]
    BY DotIs
  <2>3. PICK h \in Vectors : h = [j \in Rows |-> F[j][l]]
    BY <1>2 DEF Vectors
  <2>4. \A j \in Rows : h[j] = Mul(y[l], f[j])
    <3> SUFFICES ASSUME NEW j \in Rows PROVE h[j] = Mul(y[l], f[j])
      OBVIOUS
    <3>1. h[j] = Mul(x[j], Mul(mat[j][l], y[l])) /\ f[j] = Mul(x[j], mat[j][l])
      BY <2>1, <2>2, <2>3
    <3>2. Mul(mat[j][l], y[l]) = Mul(y[l], mat[j][l])
      BY <1>1, MulType
    <3>3. Mul(x[j], Mul(y[l], mat[j][l])) = Mul(y[l], Mul(x[j], mat[j][l]))
      BY <1>1, MulSwap
    <3> QED
      BY <3>1, <3>2, <3>3
  <2>5. SumOn(h, Rows) = Mul(y[l], SumOn(f, Rows))
    BY <1>1, <2>4, SumScales
  <2>6. left[l] = SumOn(f, Rows)
    BY <2>1, <2>2, DotIs
  <2>7. Mul(left[l], y[l]) = Mul(y[l], left[l])
    BY <1>1, <1>3, MulType DEF Vectors
  <2> QED
    BY <2>3, <2>5, <2>6, <2>7
<1>6. Dot(left, y) = SumOn([l \in Rows |-> SumOn([j \in Rows |-> F[j][l]], Rows)], Rows)
  <2>1. [l \in Rows |-> Mul(left[l], y[l])]
        = [l \in Rows |-> SumOn([j \in Rows |-> F[j][l]], Rows)]
    BY <1>5
  <2> HIDE DEF left
  <2>2. Dot(left, y) = SumOn([l \in Rows |-> Mul(left[l], y[l])], Rows)
    BY <1>3, DotIs
  <2> QED
    BY <2>1, <2>2
<1>7. Dot(x, right) = SumOn([j \in Rows |-> SumOn([l \in Rows |-> F[j][l]], Rows)], Rows)
  <2>1. [j \in Rows |-> Mul(x[j], right[j])]
        = [j \in Rows |-> SumOn([l \in Rows |-> F[j][l]], Rows)]
    BY <1>4
  <2> HIDE DEF right
  <2>2. Dot(x, right) = SumOn([j \in Rows |-> Mul(x[j], right[j])], Rows)
    BY <1>3, DotIs
  <2> QED
    BY <2>1, <2>2
<1>8. SumOn([j \in Rows |-> SumOn([l \in Rows |-> F[j][l]], Rows)], Rows)
      = SumOn([l \in Rows |-> SumOn([j \in Rows |-> F[j][l]], Rows)], Rows)
  <2>1. Rows \in SUBSET Rows
    OBVIOUS
  <2> HIDE DEF F
  <2> QED
    BY <1>2, <2>1, SumSwap
<1> QED
  BY <1>6, <1>7, <1>8

-----------------------------------------------------------------------------
(* The row operations of gf_invert_matrix.                                 *)

(* inv times mat is red.                                                   *)
Reduces(inv, mat, red) ==
  \A j, l \in Rows : Dot(inv[j], Column(mat, l)) = red[j][l]

(* mat times v is 0.                                                       *)
Kills(mat, v) == \A j \in Rows : Dot(mat[j], v) = 0

LEMMA RowType ==
  ASSUME NEW mat \in Matrices, NEW j \in Rows
  PROVE  mat[j] \in Vectors /\ \A l \in Rows : mat[j][l] \in ByteValues
BY DEF Matrices, Vectors

LEMMA Swapped ==
  ASSUME NEW mat \in Matrices, NEW x \in Rows, NEW y \in Rows
  PROVE  /\ SwapRows(mat, x, y) \in Matrices
         /\ \A j \in Rows : SwapRows(mat, x, y)[j] = IF j = x THEN mat[y]
                                                     ELSE IF j = y THEN mat[x] ELSE mat[j]
BY DEF SwapRows, Matrices

LEMMA SwapReduces ==
  ASSUME NEW inv \in Matrices, NEW mat \in Matrices, NEW red \in Matrices,
         NEW x \in Rows, NEW y \in Rows
  PROVE  /\ Reduces(inv, mat, red) => Reduces(SwapRows(inv, x, y), mat, SwapRows(red, x, y))
         /\ \A v : Kills(SwapRows(red, x, y), v) => Kills(red, v)
<1>1. \A j \in Rows :
        /\ SwapRows(inv, x, y)[j] = IF j = x THEN inv[y] ELSE IF j = y THEN inv[x] ELSE inv[j]
        /\ SwapRows(red, x, y)[j] = IF j = x THEN red[y] ELSE IF j = y THEN red[x] ELSE red[j]
  BY Swapped
<1>2. Reduces(inv, mat, red) => Reduces(SwapRows(inv, x, y), mat, SwapRows(red, x, y))
  BY <1>1 DEF Reduces
<1>3. ASSUME NEW v, Kills(SwapRows(red, x, y), v), NEW j \in Rows
      PROVE  Dot(red[j], v) = 0
  <2>1. PICK l \in Rows : SwapRows(red, x, y)[l] = red[j]
    BY <1>1
  <2> QED
    BY <1>3, <2>1 DEF Kills
<1> QED
  BY <1>2, <1>3 DEF Kills

LEMMA Scaled ==
  ASSUME NEW mat \in Matrices, NEW x \in Rows, NEW c \in ByteValues
  PROVE  /\ ScaleRow(mat, x, c) \in Matrices
         /\ \A j \in Rows : j # x => ScaleRow(mat, x, c)[j] = mat[j]
         /\ \A l \in Rows : ScaleRow(mat, x, c)[x][l] = Mul(c, mat[x][l])
<1>1. \A l \in Rows : Mul(mat[x][l], c) \in ByteValues /\ Mul(mat[x][l], c) = Mul(c, mat[x][l])
  BY RowType, MulType
<1>2. [l \in Rows |-> Mul(mat[x][l], c)] \in Vectors
  BY <1>1 DEF Vectors
<1> QED
  BY <1>1, <1>2 DEF ScaleRow, Matrices

LEMMA ScaleReduces ==
  ASSUME NEW inv \in Matrices, NEW mat \in Matrices, NEW red \in Matrices,
         NEW x \in Rows, NEW c \in ByteValues
  PROVE  /\ Reduces(inv, mat, red) => Reduces(ScaleRow(inv, x, c), mat, ScaleRow(red, x, c))
         /\ c # 0 => \A v \in Vectors : Kills(ScaleRow(red, x, c), v) => Kills(red, v)
<1>1. ASSUME NEW m1 \in Matrices, NEW w \in Vectors, NEW j \in Rows
      PROVE  Dot(ScaleRow(m1, x, c)[j], w) = IF j = x THEN Mul(c, Dot(m1[j], w)) ELSE Dot(m1[j], w)
  <2>1. CASE j # x
    BY <2>1, Scaled
  <2>2. CASE j = x
    <3>1. PICK z \in Vectors : z = ScaleRow(m1, x, c)[x] /\ \A l \in Rows : z[l] = Mul(c, m1[x][l])
      BY Scaled, RowType, SMTT(60)
    <3>2. m1[x] \in Vectors
      BY RowType
    <3>3. Dot(z, w) = Mul(c, Dot(m1[x], w))
      BY <3>1, <3>2, DotScales
    <3> QED
      BY <2>2, <3>1, <3>3
  <2> QED
    BY <2>1, <2>2
<1>2. ASSUME Reduces(inv, mat, red)
      PROVE  Reduces(ScaleRow(inv, x, c), mat, ScaleRow(red, x, c))
  <2> SUFFICES ASSUME NEW j \in Rows, NEW l \in Rows
               PROVE  Dot(ScaleRow(inv, x, c)[j], Column(mat, l)) = ScaleRow(red, x, c)[j][l]
    BY DEF Reduces
  <2>1. Dot(inv[j], Column(mat, l)) = red[j][l]
    BY <1>2 DEF Reduces
  <2>2. Dot(ScaleRow(inv, x, c)[j], Column(mat, l))
        = IF j = x THEN Mul(c, red[j][l]) ELSE red[j][l]
    BY <1>1, <2>1, ColumnType
  <2> QED
    BY <2>2, Scaled
<1>3. ASSUME c # 0, NEW v \in Vectors, Kills(ScaleRow(red, x, c), v)
      PROVE  Kills(red, v)
  <2> SUFFICES ASSUME NEW j \in Rows PROVE Dot(red[j], v) = 0
    BY DEF Kills
  <2>1. Dot(ScaleRow(red, x, c)[j], v) = 0
    BY <1>3 DEF Kills
  <2>2. Dot(red[j], v) \in ByteValues
    BY RowType, DotIs
  <2> QED
    BY <1>1, <1>3, <2>1, <2>2, NoZeroDivisor
<1> QED
  BY <1>2, <1>3

LEMMA Cleared ==
  ASSUME NEW mat \in Matrices, NEW x \in Rows, NEW c \in Vectors
  PROVE  /\ ClearColumn(mat, x, c) \in Matrices
         /\ ClearColumn(mat, x, c)[x] = mat[x]
         /\ \A j \in Rows : j # x => \A l \in Rows :
              ClearColumn(mat, x, c)[j][l] = Add(mat[j][l], Mul(c[j], mat[x][l]))
<1>1. ASSUME NEW j \in Rows, NEW l \in Rows
      PROVE  Add(mat[j][l], Mul(c[j], mat[x][l])) \in ByteValues
  <2>1. c[j] \in ByteValues /\ mat[j][l] \in ByteValues /\ mat[x][l] \in ByteValues
    BY RowType DEF Vectors
  <2> QED
    BY <2>1, AddType, MulType
<1>2. \A j \in Rows : [l \in Rows |-> Add(mat[j][l], Mul(c[j], mat[x][l]))] \in Vectors
  BY <1>1 DEF Vectors
<1> QED
  BY <1>2 DEF ClearColumn, Matrices

LEMMA ClearReduces ==
  ASSUME NEW inv \in Matrices, NEW mat \in Matrices, NEW red \in Matrices,
         NEW x \in Rows, NEW c \in Vectors
  PROVE  /\ Reduces(inv, mat, red) =>
              Reduces(ClearColumn(inv, x, c), mat, ClearColumn(red, x, c))
         /\ \A v \in Vectors : Kills(ClearColumn(red, x, c), v) => Kills(red, v)
<1>1. ASSUME NEW m1 \in Matrices, NEW w \in Vectors, NEW j \in Rows, j # x
      PROVE  Dot(ClearColumn(m1, x, c)[j], w) = Add(Dot(m1[j], w), Mul(c[j], Dot(m1[x], w)))
  <2>0. c[j] \in ByteValues /\ m1[x] \in Vectors /\ m1[j] \in Vectors
    BY RowType DEF Vectors
  <2>1. PICK s \in Vectors : s = [l \in Rows |-> Mul(c[j], m1[x][l])]
    <3>1. \A l \in Rows : Mul(c[j], m1[x][l]) \in ByteValues
      BY <2>0, RowType, MulType
    <3> QED
      BY <3>1 DEF Vectors
  <2>2. PICK z \in Vectors : /\ z = ClearColumn(m1, x, c)[j]
                             /\ \A l \in Rows : z[l] = Add(m1[j][l], Mul(c[j], m1[x][l]))
    <3>1. ClearColumn(m1, x, c) \in Matrices
      BY Cleared
    <3>2. ClearColumn(m1, x, c)[j] \in Vectors
      BY <3>1, RowType
    <3>3. \A l \in Rows : ClearColumn(m1, x, c)[j][l] = Add(m1[j][l], Mul(c[j], m1[x][l]))
      BY <1>1, Cleared
    <3> QED
      BY <3>2, <3>3
  <2>3. \A l \in Rows : z[l] = Add(m1[j][l], s[l])
    BY <2>1, <2>2
  <2>4. Dot(z, w) = Add(Dot(m1[j], w), Dot(s, w))
    BY <2>0, <2>3, DotAdds
  <2>5. Dot(s, w) = Mul(c[j], Dot(m1[x], w))
    BY <2>0, <2>1, DotScales
  <2> QED
    BY <2>2, <2>4, <2>5
<1>2. ASSUME Reduces(inv, mat, red)
      PROVE  Reduces(ClearColumn(inv, x, c), mat, ClearColumn(red, x, c))
  <2> SUFFICES ASSUME NEW j \in Rows, NEW l \in Rows
               PROVE  Dot(ClearColumn(inv, x, c)[j], Column(mat, l)) = ClearColumn(red, x, c)[j][l]
    BY DEF Reduces
  <2>1. /\ Dot(inv[j], Column(mat, l)) = red[j][l]
        /\ Dot(inv[x], Column(mat, l)) = red[x][l]
    BY <1>2 DEF Reduces
  <2>2. CASE j = x
    BY <2>1, <2>2, Cleared
  <2>3. CASE j # x
    <3>1. Dot(ClearColumn(inv, x, c)[j], Column(mat, l)) = Add(red[j][l], Mul(c[j], red[x][l]))
      BY <1>1, <2>1, <2>3, ColumnType
    <3> QED
      BY <2>3, <3>1, Cleared
  <2> QED
    BY <2>2, <2>3
<1>3. ASSUME NEW v \in Vectors, Kills(ClearColumn(red, x, c), v)
      PROVE  Kills(red, v)
  <2> SUFFICES ASSUME NEW j \in Rows PROVE Dot(red[j], v) = 0
    BY DEF Kills
  <2>1. Dot(red[x], v) = 0
    BY <1>3, Cleared DEF Kills
  <2>2. CASE j = x
    BY <2>1, <2>2
  <2>3. CASE j # x
    <3>1. Add(Dot(red[j], v), Mul(c[j], 0)) = 0
      BY <1>1, <1>3, <2>1, <2>3 DEF Kills
    <3>2. Dot(red[j], v) \in ByteValues /\ c[j] \in ByteValues
      BY RowType, DotIs DEF Vectors
    <3>3. Mul(c[j], 0) = 0 /\ Add(Dot(red[j], v), 0) = Dot(red[j], v)
      BY <3>2, Neutral
    <3> QED
      BY <3>1, <3>3
  <2> QED
    BY <2>2, <2>3
<1> QED
  BY <1>2, <1>3

-----------------------------------------------------------------------------
(* Any k rows of the encoding matrix are invertible: some are rows of the  *)
(* identity, and what they leave is a square Cauchy matrix.                *)

Cauchy(x) == [y \in Rows |-> Inv(Add(x, y))]

LEMMA CauchyType ==
  ASSUME NEW x \in ByteValues \ Rows
  PROVE  /\ Cauchy(x) \in Vectors
         /\ \A y \in Rows : /\ y \in ByteValues /\ Add(x, y) \in ByteValues /\ Add(x, y) # 0
                            /\ Cauchy(x)[y] = Inv(Add(x, y))
<1>1. \A y \in Rows : y \in ByteValues /\ Add(x, y) \in ByteValues /\ Add(x, y) # 0
  BY Constants01, AddType, SumNotZero
<1>2. \A y \in Rows : Inv(Add(x, y)) \in ByteValues
  BY <1>1, InverseOf
<1> QED
  BY <1>1, <1>2 DEF Cauchy, Vectors

(* One column of the elimination of a Cauchy matrix: with a, d and e for   *)
(* the sums x + y, x0 + y and y + y0.                                      *)
LEMMA CauchyTerm ==
  ASSUME NEW a \in ByteValues, NEW d \in ByteValues, NEW e \in ByteValues, NEW w \in ByteValues,
         a # 0, d # 0
  PROVE  Add(Mul(Add(a, e), Mul(Inv(a), w)), Mul(Add(d, e), Mul(Inv(d), w)))
         = Mul(Add(a, d), Mul(Inv(a), Mul(w, Mul(e, Inv(d)))))
<1>1. PICK p \in ByteValues : p = Inv(a) /\ Mul(a, p) = 1 /\ Mul(p, a) = 1
  BY InverseOf
<1>2. PICK q \in ByteValues : q = Inv(d) /\ Mul(d, q) = 1 /\ Mul(q, d) = 1
  BY InverseOf
<1>3. ASSUME NEW s \in ByteValues, NEW t \in ByteValues, Mul(s, t) = 1, NEW u \in ByteValues
      PROVE  Mul(s, Mul(t, u)) = u
  <2>1. Mul(Mul(s, t), u) = Mul(s, Mul(t, u))
    BY MulAssoc
  <2> QED
    BY <1>3, <2>1, Neutral
<1>4. PICK pw \in ByteValues : pw = Mul(p, w)
  BY MulType
<1>5. PICK qw \in ByteValues : qw = Mul(q, w)
  BY MulType
<1>6. PICK eq \in ByteValues : eq = Mul(e, q)
  BY MulType
<1>7. PICK weq \in ByteValues : weq = Mul(w, eq)
  BY MulType
<1>8. PICK epw \in ByteValues : epw = Mul(e, pw)
  BY MulType
<1>9. Mul(e, qw) = weq
  <2>1. qw = Mul(w, q)
    BY <1>5, MulType
  <2> QED
    BY <2>1, <1>6, <1>7, MulSwap
<1>10. Mul(Add(a, e), pw) = Add(w, epw)
  BY <1>1, <1>3, <1>4, <1>8, Distributes
<1>11. Mul(Add(d, e), qw) = Add(w, weq)
  BY <1>2, <1>3, <1>5, <1>9, Distributes
<1>12. Add(Add(w, epw), Add(w, weq)) = Add(epw, weq)
  <2>1. Add(Add(w, epw), Add(w, weq)) = Add(Add(w, w), Add(epw, weq))
    BY AddFour
  <2>2. Add(w, w) = 0 /\ Add(epw, weq) \in ByteValues
    BY Neutral, AddType
  <2> QED
    BY <2>1, <2>2, Neutral
<1>13. PICK pweq \in ByteValues : pweq = Mul(p, weq)
  BY MulType
<1>14. Mul(Add(a, d), pweq) = Add(Mul(a, pweq), Mul(d, pweq))
  BY Distributes
<1>15. Mul(a, pweq) = weq
  BY <1>1, <1>3, <1>13
<1>16. Mul(d, pweq) = epw
  <2>1. Mul(d, pweq) = Mul(p, Mul(d, weq))
    BY <1>13, MulSwap
  <2>2. Mul(d, weq) = Mul(w, Mul(d, eq))
    BY <1>7, MulSwap
  <2>3. Mul(d, eq) = Mul(e, Mul(d, q))
    BY <1>6, MulSwap
  <2>4. Mul(d, eq) = e
    BY <1>2, <2>3, Neutral
  <2>5. Mul(w, e) = Mul(e, w)
    BY MulType
  <2>6. Mul(p, Mul(e, w)) = Mul(e, Mul(p, w))
    BY MulSwap
  <2> QED
    BY <1>4, <1>8, <2>1, <2>2, <2>4, <2>5, <2>6
<1>17. Add(epw, weq) = Add(weq, epw)
  BY AddType
<1> QED
  BY <1>1, <1>2, <1>4, <1>5, <1>6, <1>7, <1>10, <1>11, <1>12, <1>13, <1>14, <1>15, <1>16, <1>17

(* The vectors that n rows of a Cauchy matrix take to 0.                   *)
Small(n) ==
  \A X, Y : \A w \in Vectors :
    (/\ X \subseteq ByteValues \ Rows /\ Y \subseteq Rows
     /\ IsFiniteSet(X) /\ Cardinality(X) = n /\ Cardinality(Y) = n
     /\ \A y \in Rows \ Y : w[y] = 0
     /\ \A x \in X : Dot(Cauchy(x), w) = 0)
    => \A y \in Rows : w[y] = 0

LEMMA CauchyStep ==
  ASSUME NEW n \in Nat, Small(n)
  PROVE  Small(n + 1)
<1> SUFFICES ASSUME NEW X, NEW Y, NEW w \in Vectors,
                    X \subseteq ByteValues \ Rows, Y \subseteq Rows,
                    IsFiniteSet(X), Cardinality(X) = n + 1, Cardinality(Y) = n + 1,
                    \A y \in Rows \ Y : w[y] = 0,
                    \A x \in X : Dot(Cauchy(x), w) = 0
             PROVE  \A y \in Rows : w[y] = 0
  BY DEF Small
<1>0. IsFiniteSet(Y)
  BY FiniteRows
<1>1. X # {} /\ Y # {}
  BY <1>0, FS_EmptySet
<1>2. PICK x0 \in X : x0 \in ByteValues \ Rows
  BY <1>1
<1>3. PICK y0 \in Y : y0 \in Rows /\ y0 \in ByteValues
  BY <1>1, Constants01
<1>4. /\ X \ {x0} \subseteq ByteValues \ Rows /\ Y \ {y0} \subseteq Rows /\ IsFiniteSet(X \ {x0})
      /\ Cardinality(X \ {x0}) = n /\ Cardinality(Y \ {y0}) = n
  <2>1. Cardinality(X \ {x0}) = Cardinality(X) - 1 /\ IsFiniteSet(X \ {x0})
    BY FS_RemoveElement
  <2>2. Cardinality(Y \ {y0}) = Cardinality(Y) - 1
    BY <1>0, FS_RemoveElement
  <2> QED
    BY <2>1, <2>2
<1> DEFINE e(y) == Add(y, y0)
           d(y) == Add(x0, y)
<1>5. ASSUME NEW y \in Rows
      PROVE  /\ y \in ByteValues /\ e(y) \in ByteValues /\ d(y) \in ByteValues /\ d(y) # 0
             /\ Inv(d(y)) \in ByteValues /\ Inv(d(y)) # 0 /\ w[y] \in ByteValues
             /\ Mul(e(y), Inv(d(y))) \in ByteValues
             /\ y # y0 => Mul(e(y), Inv(d(y))) # 0
  <2>1. y \in ByteValues /\ d(y) \in ByteValues /\ d(y) # 0
    BY <1>2, CauchyType
  <2>2. e(y) \in ByteValues /\ y # y0 => e(y) # 0
    BY <1>3, <2>1, AddType, SumNotZero
  <2>3. Inv(d(y)) \in ByteValues /\ Inv(d(y)) # 0
    <3> HIDE DEF d
    <3> QED
      BY <2>1, InverseOf
  <2>4. e(y) \in ByteValues
    BY <1>3, <2>1, AddType
  <2>5. /\ Mul(e(y), Inv(d(y))) \in ByteValues
        /\ e(y) # 0 => Mul(e(y), Inv(d(y))) # 0
    <3> HIDE DEF e, d
    <3> QED
      BY <2>3, <2>4, MulType, NoZeroDivisor
  <2>6. w[y] \in ByteValues
    BY DEF Vectors
  <2> HIDE DEF e, d
  <2> QED
    BY <2>1, <2>2, <2>3, <2>4, <2>5, <2>6
<1>6. PICK w1 \in Vectors : w1 = [y \in Rows |-> Mul(w[y], Mul(e(y), Inv(d(y))))]
  <2> HIDE DEF e, d
  <2>1. \A y \in Rows : Mul(w[y], Mul(e(y), Inv(d(y)))) \in ByteValues
    BY <1>5, MulType
  <2> QED
    BY <2>1 DEF Vectors
<1>7. \A y \in Rows \ (Y \ {y0}) : w1[y] = 0
  <2> SUFFICES ASSUME NEW y \in Rows \ (Y \ {y0}) PROVE w1[y] = 0
    OBVIOUS
  <2>1. CASE y = y0
    <3>1. e(y) = 0
      BY <1>3, <2>1, Neutral
    <3> HIDE DEF e, d
    <3>2. w1[y] = Mul(w[y], Mul(0, Inv(d(y))))
      BY <1>6, <3>1
    <3> QED
      BY <1>5, <3>2, Neutral
  <2>2. CASE y # y0
    <3>1. w[y] = 0
      BY <2>2
    <3> HIDE DEF e, d
    <3> QED
      BY <1>5, <1>6, <3>1, Neutral
  <2> QED
    BY <2>1, <2>2
<1>8. ASSUME NEW x \in X \ {x0}
      PROVE  Dot(Cauchy(x), w1) = 0
  <2>1. x \in ByteValues \ Rows /\ x \in ByteValues /\ x # x0
    OBVIOUS
  <2>2. Cauchy(x) \in Vectors /\ Cauchy(x0) \in Vectors
    BY <1>2, <2>1, CauchyType
  <2>3. PICK f \in Vectors : f = [y \in Rows |-> Mul(Cauchy(x)[y], w[y])]
    BY <2>2, DotIs
  <2>4. PICK g \in Vectors : g = [y \in Rows |-> Mul(Cauchy(x0)[y], w[y])]
    BY <2>2, DotIs
  <2>5. PICK h \in Vectors : h = [y \in Rows |-> Mul(Cauchy(x)[y], w1[y])]
    BY <2>2, DotIs
  <2>6. PICK cf \in ByteValues : cf = Add(x, y0)
    BY <1>3, <2>1, AddType
  <2>7. PICK cg \in ByteValues : cg = Add(x0, y0)
    BY <1>2, <1>3, AddType
  <2>8. PICK ch \in ByteValues : ch = Add(x, x0) /\ ch # 0
    BY <1>2, <2>1, AddType, SumNotZero
  <2>9. PICK f1 \in Vectors : f1 = [y \in Rows |-> Mul(cf, f[y])]
    BY MulType DEF Vectors
  <2>10. PICK g1 \in Vectors : g1 = [y \in Rows |-> Mul(cg, g[y])]
    BY MulType DEF Vectors
  <2>11. PICK h1 \in Vectors : h1 = [y \in Rows |-> Mul(ch, h[y])]
    BY MulType DEF Vectors
  <2>12. ASSUME NEW y \in Rows PROVE h1[y] = Add(f1[y], g1[y])
    <3>1. PICK a \in ByteValues : a = Add(x, y) /\ a # 0 /\ Cauchy(x)[y] = Inv(a)
      BY <2>1, CauchyType
    <3>2. PICK dd \in ByteValues : dd = Add(x0, y) /\ dd # 0 /\ Cauchy(x0)[y] = Inv(dd)
      BY <1>2, CauchyType
    <3>3. PICK ee \in ByteValues : ee = Add(y, y0)
      BY <1>3, <1>5, AddType
    <3>4. ASSUME NEW s \in ByteValues, NEW t \in ByteValues
          PROVE  Add(Add(s, y), Add(y, t)) = Add(s, t)
      <4>1. Add(Add(s, y), Add(y, t)) = Add(s, Add(y, Add(y, t)))
        BY <1>5, AddAssoc, AddType
      <4> QED
        BY <1>5, <4>1, AddTwice
    <3>5. cf = Add(a, ee)
      BY <1>3, <2>1, <2>6, <3>1, <3>3, <3>4
    <3>6. cg = Add(dd, ee)
      BY <1>2, <1>3, <2>7, <3>2, <3>3, <3>4
    <3>7. ch = Add(a, dd)
      <4>1. dd = Add(y, x0)
        BY <1>2, <1>5, <3>2, AddType
      <4> QED
        BY <1>2, <2>1, <2>8, <3>1, <3>4, <4>1
    <3>8. /\ f1[y] = Mul(cf, Mul(Inv(a), w[y]))
          /\ g1[y] = Mul(cg, Mul(Inv(dd), w[y]))
          /\ h1[y] = Mul(ch, Mul(Inv(a), Mul(w[y], Mul(ee, Inv(dd)))))
      BY <1>6, <2>3, <2>4, <2>5, <2>9, <2>10, <2>11, <3>1, <3>2, <3>3
    <3>9. w[y] \in ByteValues
      BY DEF Vectors
    <3> QED
      BY <3>1, <3>2, <3>5, <3>6, <3>7, <3>8, <3>9, CauchyTerm
  <2>13. SumOn(h1, Rows) = Add(SumOn(f1, Rows), SumOn(g1, Rows))
    BY <2>12, SumAdds
  <2>14. SumOn(f, Rows) = 0 /\ SumOn(g, Rows) = 0 /\ SumOn(h, Rows) = Dot(Cauchy(x), w1)
    BY <1>2, <2>2, <2>3, <2>4, <2>5, DotIs
  <2>15. SumOn(f1, Rows) = Mul(cf, SumOn(f, Rows))
    BY <2>9, SumScales
  <2>16. SumOn(g1, Rows) = Mul(cg, SumOn(g, Rows))
    BY <2>10, SumScales
  <2>17. SumOn(h1, Rows) = Mul(ch, SumOn(h, Rows))
    BY <2>11, SumScales
  <2>18. Mul(cf, 0) = 0 /\ Mul(cg, 0) = 0 /\ Add(0, 0) = 0
    BY Neutral, Constants01
  <2>19. Mul(ch, SumOn(h, Rows)) = 0
    BY <2>13, <2>14, <2>15, <2>16, <2>17, <2>18
  <2>20. SumOn(h, Rows) \in ByteValues
    BY SumType
  <2> QED
    BY <2>8, <2>14, <2>19, <2>20, NoZeroDivisor
<1>9. \A y \in Rows : w1[y] = 0
  BY <1>4, <1>7, <1>8 DEF Small
<1>10. ASSUME NEW y \in Rows, y # y0 PROVE w[y] = 0
  <2> HIDE DEF e, d
  <2>1. PICK c \in ByteValues : c = Mul(e(y), Inv(d(y))) /\ c # 0
    BY <1>5, <1>10
  <2>2. Mul(w[y], c) = 0 /\ w[y] \in ByteValues
    BY <1>5, <1>6, <1>9, <2>1
  <2>3. Mul(c, w[y]) = 0
    BY <2>2, MulType
  <2> QED
    BY <2>1, <2>2, <2>3, NoZeroDivisor
<1>11. w[y0] = 0
  <2>1. Cauchy(x0) \in Vectors /\ Cauchy(x0)[y0] = Inv(d(y0))
    BY <1>2, <1>3, CauchyType
  <2> HIDE DEF e, d
  <2>2. PICK f \in Vectors : f = [y \in Rows |-> Mul(Cauchy(x0)[y], w[y])]
    BY <2>1, DotIs
  <2>3. \A y \in Rows \ {y0} : f[y] = 0
    <3>1. \A y \in Rows : Cauchy(x0)[y] \in ByteValues
      BY <2>1 DEF Vectors
    <3> QED
      BY <1>10, <2>2, <3>1, Neutral
  <2>4. SumOn(f, Rows) = f[y0]
    BY <1>3, <2>3, SumOne
  <2>5. Dot(Cauchy(x0), w) = SumOn(f, Rows)
    BY <2>1, <2>2, DotIs
  <2>6. Mul(Inv(d(y0)), w[y0]) = 0
    BY <1>2, <1>3, <2>1, <2>2, <2>4, <2>5
  <2> QED
    BY <1>3, <1>5, <2>6, NoZeroDivisor
<1> QED
  BY <1>10, <1>11

LEMMA CauchyRegular == \A n \in Nat : Small(n)
<1> DEFINE N == {n \in Nat : Small(n)}
<1>1. 0 \in N
  <2> SUFFICES ASSUME NEW X, NEW Y, NEW w \in Vectors, Y \subseteq Rows, Cardinality(Y) = 0,
                      \A y \in Rows \ Y : w[y] = 0
               PROVE  \A y \in Rows : w[y] = 0
    BY DEF Small
  <2>1. Y = {}
    BY FiniteRows, FS_EmptySet
  <2> QED
    BY <2>1
<1>2. \A n \in Nat : n \in N => n + 1 \in N
  BY CauchyStep
<1>3. Nat \subseteq N
  <2> HIDE DEF N
  <2> QED
    BY <1>1, <1>2, SetInduction
<1> QED
  BY <1>3

LEMMA EncodeType ==
  /\ encode_matrix \in [Fragments -> Vectors]
  /\ \A s \in Rows : s \in Fragments /\ encode_matrix[s] = Identity[s]
  /\ \A s \in Fragments \ Rows : s \in ByteValues \ Rows /\ encode_matrix[s] = Cauchy(s)
<1>1. \A s \in Rows : s \in Fragments /\ s < k /\ encode_matrix[s] = Identity[s]
  BY ShapeAssumption DEF encode_matrix, Identity, Rows, Fragments
<1>2. \A s \in Fragments \ Rows : s \in ByteValues \ Rows
  BY FieldAssumption
<1>3. \A s \in Fragments \ Rows : ~ (s < k)
  BY ShapeAssumption DEF Rows, Fragments
<1>4. \A s \in Fragments \ Rows : encode_matrix[s] = Cauchy(s)
  BY <1>3 DEF encode_matrix, Cauchy
<1>5. \A s \in Fragments : encode_matrix[s] \in Vectors
  BY <1>1, <1>2, <1>4, CauchyType, IdentityType DEF Matrices
<1>6. encode_matrix = [s \in Fragments |-> encode_matrix[s]]
  BY DEF encode_matrix
<1> QED
  BY <1>1, <1>2, <1>4, <1>5, <1>6

(* Only 0 is taken to 0 by k different rows.                               *)
LEMMA RowsRegular ==
  ASSUME NEW d \in [Rows -> Fragments], \A j, l \in Rows : d[j] = d[l] => j = l,
         NEW v \in Vectors, \A j \in Rows : Dot(encode_matrix[d[j]], v) = 0
  PROVE  \A y \in Rows : v[y] = 0
<1> DEFINE R == {d[j] : j \in Rows}
           X == R \ Rows
           Y == Rows \ R
<1>1. d \in Injection(Rows, R) /\ d \in Surjection(Rows, R)
  BY DEF Injection, Surjection, IsInjective
<1>2. IsFiniteSet(R) /\ Cardinality(R) = k
  <2> HIDE DEF R
  <2>1. IsFiniteSet(R)
    BY <1>1, FiniteRows, FS_Surjection
  <2>2. Cardinality(Rows) = Cardinality(R)
    BY <1>1, <2>1, FS_Injection
  <2> QED
    BY <2>1, <2>2, FiniteRows
<1>3. IsFiniteSet(X) /\ Cardinality(X) = k - Cardinality(R \cap Rows)
  <2> HIDE DEF R
  <2> QED
    BY <1>2, FS_Difference
<1>4. Cardinality(Y) = k - Cardinality(Rows \cap R)
  <2> HIDE DEF R
  <2> QED
    BY FiniteRows, FS_Difference
<1>5. Cardinality(X) = Cardinality(Y) /\ Cardinality(X) \in Nat
  <2>1. R \cap Rows = Rows \cap R
    OBVIOUS
  <2> HIDE DEF R
  <2> QED
    BY <1>3, <1>4, <2>1, FS_CardinalityType
<1>6. X \subseteq ByteValues \ Rows
  BY EncodeType
<1>7. ASSUME NEW y \in Rows \ Y PROVE v[y] = 0
  <2>1. PICK j \in Rows : d[j] = y
    OBVIOUS
  <2>2. encode_matrix[d[j]] = Identity[y] /\ y \in Rows
    BY <2>1, EncodeType
  <2> QED
    BY <2>1, <2>2, DotUnit
<1>8. ASSUME NEW x \in X PROVE Dot(Cauchy(x), v) = 0
  <2>1. PICK j \in Rows : d[j] = x
    OBVIOUS
  <2>2. x \in Fragments \ Rows
    BY <2>1
  <2> QED
    BY <2>1, <2>2, EncodeType
<1>9. Small(Cardinality(X))
  BY <1>5, CauchyRegular
<1> QED
  <2>1. Y \subseteq Rows
    OBVIOUS
  <2> HIDE DEF X, Y
  <2> QED
    BY <1>3, <1>5, <1>6, <1>7, <1>8, <1>9, <2>1 DEF Small

-----------------------------------------------------------------------------
(* A round of the elimination.                                             *)

(* The first n columns are those of the identity.                          *)
UnitBefore(red, n) == \A j \in Rows : \A l \in 0 .. n - 1 : red[j][l] = Identity[j][l]

(* mat after the exchange of rows x and j and the scaling of row x, by     *)
(* what red holds.                                                         *)
Pivoted(mat, red, x, j) ==
  ScaleRow(SwapRows(mat, x, j), x, Inv(SwapRows(red, x, j)[x][x]))
Reduced(mat, red, x, j) ==
  ClearColumn(Pivoted(mat, red, x, j), x, [l \in Rows |-> Pivoted(red, red, x, j)[l][x]])

LEMMA Round ==
  ASSUME NEW red \in Matrices, NEW x \in Rows, NEW j \in PivotRow(red, x), UnitBefore(red, x)
  PROVE  /\ Reduced(red, red, x, j) \in Matrices
         /\ UnitBefore(Reduced(red, red, x, j), x + 1)
         /\ \A v \in Vectors : Kills(Reduced(red, red, x, j), v) => Kills(red, v)
         /\ \A inv, mat \in Matrices :
              /\ Reduced(inv, red, x, j) \in Matrices
              /\ Reduces(inv, mat, red) =>
                   Reduces(Reduced(inv, red, x, j), mat, Reduced(red, red, x, j))
<1>1. j \in Rows /\ j >= x /\ red[j][x] # 0 /\ red[j][x] \in ByteValues
  BY RowType DEF PivotRow
<1>2. PICK s \in Matrices : s = SwapRows(red, x, j)
  BY <1>1, Swapped
<1>3. s[x] = red[j] /\ \A l \in Rows : l # x => s[l] = IF l = j THEN red[x] ELSE red[l]
  <2>1. \A l \in Rows : SwapRows(red, x, j)[l] = IF l = x THEN red[j]
                                                 ELSE IF l = j THEN red[x] ELSE red[l]
    BY <1>1, Swapped
  <2> QED
    BY <1>2, <2>1
<1>4. PICK c \in ByteValues : c = Inv(s[x][x]) /\ c # 0 /\ Mul(c, s[x][x]) = 1
  BY <1>1, <1>3, InverseOf
<1>5. PICK p \in Matrices : /\ p = ScaleRow(s, x, c)
                            /\ \A l \in Rows : l # x => p[l] = s[l]
                            /\ \A l \in Rows : p[x][l] = Mul(c, s[x][l])
  BY Scaled
<1>6. PICK q \in Vectors : q = [l \in Rows |-> p[l][x]]
  BY RowType DEF Vectors
<1>7. PICK n \in Matrices : /\ n = ClearColumn(p, x, q)
                            /\ n[x] = p[x]
                            /\ \A y \in Rows : y # x => \A l \in Rows :
                                 n[y][l] = Add(p[y][l], Mul(q[y], p[x][l]))
  BY Cleared
<1>8. n = Reduced(red, red, x, j)
  BY <1>2, <1>4, <1>5, <1>6, <1>7 DEF Reduced, Pivoted
<1>9. \A v \in Vectors : Kills(n, v) => Kills(red, v)
  <2> SUFFICES ASSUME NEW v \in Vectors, Kills(n, v) PROVE Kills(red, v)
    OBVIOUS
  <2>1. Kills(p, v)
    BY <1>7, ClearReduces
  <2>2. Kills(s, v)
    BY <1>4, <1>5, <2>1, ScaleReduces
  <2> QED
    BY <1>1, <1>2, <2>2, SwapReduces
<1>10. ASSUME NEW inv \in Matrices, NEW mat \in Matrices
       PROVE  /\ Reduced(inv, red, x, j) \in Matrices
              /\ Reduces(inv, mat, red) => Reduces(Reduced(inv, red, x, j), mat, n)
  <2>1. PICK s1 \in Matrices : s1 = SwapRows(inv, x, j)
    BY <1>1, Swapped
  <2>2. PICK p1 \in Matrices : p1 = ScaleRow(s1, x, c)
    BY Scaled
  <2>3. PICK n1 \in Matrices : n1 = ClearColumn(p1, x, q)
    BY Cleared
  <2>4. n1 = Reduced(inv, red, x, j)
    BY <1>2, <1>4, <1>5, <1>6, <2>1, <2>2, <2>3 DEF Reduced, Pivoted
  <2>5. Reduces(inv, mat, red) => Reduces(s1, mat, s)
    BY <1>1, <1>2, <2>1, SwapReduces
  <2>6. Reduces(s1, mat, s) => Reduces(p1, mat, p)
    BY <1>5, <2>2, ScaleReduces
  <2>7. Reduces(p1, mat, p) => Reduces(n1, mat, n)
    BY <1>7, <2>3, ClearReduces
  <2> QED
    BY <2>4, <2>5, <2>6, <2>7
<1>11. UnitBefore(n, x + 1)
  <2> SUFFICES ASSUME NEW y \in Rows, NEW l \in 0 .. (x + 1) - 1
               PROVE  n[y][l] = Identity[y][l]
    BY DEF UnitBefore
  <2>0. l \in Rows /\ x \in Rows /\ x \in Nat /\ l \in Nat
    BY ShapeAssumption DEF Rows
  <2>1. \A z \in Rows : Identity[z][l] = IF z = l THEN 1 ELSE 0
    BY <2>0 DEF Identity
  <2>2. CASE l = x
    <3>1. p[x][x] = 1
      BY <1>4, <1>5
    <3>2. CASE y = x
      BY <1>7, <2>1, <2>2, <3>1, <3>2
    <3>3. CASE y # x
      <4>1. n[y][x] = Add(p[y][x], Mul(p[y][x], 1))
        BY <1>6, <1>7, <3>1, <3>3
      <4>2. n[y][x] = 0
        BY <4>1, RowType, Neutral
      <4> QED
        BY <2>1, <2>2, <3>3, <4>2
    <3> QED
      BY <3>2, <3>3
  <2>3. CASE l # x
    <3>1. l \in 0 .. x - 1 /\ l < x
      BY <2>0, <2>3
    <3>2. \A z \in Rows : red[z][l] = IF z = l THEN 1 ELSE 0
      BY <2>1, <3>1 DEF UnitBefore
    <3>3. j # l /\ x # l
      BY <1>1, <3>1 DEF Rows
    <3>4. red[j][l] = 0 /\ red[x][l] = 0
      BY <1>1, <3>2, <3>3
    <3>5. s[x][l] = 0 /\ \A z \in Rows : z # x => s[z][l] = IF z = l THEN 1 ELSE 0
      BY <1>3, <3>2, <3>3, <3>4
    <3>6. p[x][l] = 0
      BY <1>5, <2>0, <3>5, Neutral
    <3>7. CASE y = x
      BY <1>7, <2>1, <3>3, <3>6, <3>7
    <3>8. CASE y # x
      <4>1. n[y][l] = Add(p[y][l], Mul(q[y], 0))
        BY <1>7, <2>0, <3>6, <3>8
      <4>2. q[y] \in ByteValues /\ p[y][l] \in ByteValues
        BY <2>0, RowType DEF Vectors
      <4>3. n[y][l] = p[y][l]
        BY <4>1, <4>2, Neutral
      <4> QED
        BY <1>5, <2>1, <3>5, <3>8, <4>3
    <3> QED
      BY <3>7, <3>8
  <2> QED
    BY <2>2, <2>3
<1> QED
  BY <1>7, <1>8, <1>9, <1>10, <1>11

(* Without a pivot in column x, some vector other than 0 is taken to 0.    *)
LEMMA PivotExists ==
  ASSUME NEW red \in Matrices, NEW x \in Rows, UnitBefore(red, x),
         \A v \in Vectors : Kills(red, v) => \A y \in Rows : v[y] = 0
  PROVE  PivotRow(red, x) # {}
<1> SUFFICES ASSUME PivotRow(red, x) = {} PROVE FALSE
  OBVIOUS
<1>0. x \in Nat /\ Rows \subseteq Nat
  BY DEF Rows
<1>1. \A j \in Rows : j >= x => red[j][x] = 0
  <2> SUFFICES ASSUME {j \in Rows : j >= x /\ red[j][x] # 0} # {} PROVE FALSE
    OBVIOUS
  <2> DEFINE T == {j \in Rows : j >= x /\ red[j][x] # 0}
  <2>1. PICK j \in T : \A l \in T : j <= l
    <3>1. T \subseteq Nat
      BY <1>0
    <3> HIDE DEF T
    <3> QED
      BY <3>1, LeastNat DEF T
  <2>2. \A l \in x .. j - 1 : red[l][x] = 0
    <3> SUFFICES ASSUME NEW l \in x .. j - 1, red[l][x] # 0 PROVE FALSE
      OBVIOUS
    <3>1. j \in 0 .. k - 1 /\ x \in Nat
      BY <1>0, <2>1 DEF Rows
    <3>2. l \in 0 .. k - 1 /\ l >= x /\ ~ (j <= l)
      BY <3>1, ShapeAssumption
    <3>3. l \in T
      BY <3>2 DEF Rows
    <3> QED
      BY <2>1, <3>2, <3>3
  <2>3. j \in PivotRow(red, x)
    BY <2>1, <2>2 DEF PivotRow
  <2> QED
    BY <2>3
<1>2. PICK v \in Vectors : v = [l \in Rows |-> IF l < x THEN red[l][x]
                                               ELSE IF l = x THEN 1 ELSE 0]
  BY Constants01, RowType DEF Vectors
<1>3. Kills(red, v)
  <2> SUFFICES ASSUME NEW j \in Rows PROVE Dot(red[j], v) = 0
    BY DEF Kills
  <2>1. red[j] \in Vectors /\ \A l \in Rows : red[j][l] \in ByteValues
    BY RowType
  <2>2. PICK f \in Vectors : f = [l \in Rows |-> Mul(red[j][l], v[l])]
    BY <2>1, DotIs
  <2>3. \A l \in Rows : l > x => f[l] = 0
    BY <1>0, <1>2, <2>1, <2>2, Neutral
  <2>4. f[x] = red[j][x]
    BY <1>0, <1>2, <2>1, <2>2, Neutral
  <2>5. \A l \in Rows : l < x => f[l] = IF l = j THEN red[j][x] ELSE 0
    <3> SUFFICES ASSUME NEW l \in Rows, l < x PROVE f[l] = IF l = j THEN red[j][x] ELSE 0
      OBVIOUS
    <3>1. red[j][l] = IF j = l THEN 1 ELSE 0
      <4>1. l \in 0 .. x - 1
        BY <1>0
      <4>2. red[j][l] = Identity[j][l]
        BY <4>1 DEF UnitBefore
      <4> QED
        BY <4>2 DEF Identity
    <3>2. v[l] = red[l][x] /\ v[l] \in ByteValues
      BY <1>0, <1>2 DEF Vectors
    <3> QED
      BY <2>2, <3>1, <3>2, Neutral
  <2>6. CASE j < x
    <3>1. \A l \in Rows \ {j, x} : f[l] = 0
      BY <1>0, <2>3, <2>5
    <3>2. j # x
      BY <1>0, <2>6
    <3>3. SumOn(f, Rows) = Add(f[j], f[x])
      BY <3>1, <3>2, SumTwo
    <3>4. Add(red[j][x], red[j][x]) = 0
      BY <2>1, Neutral
    <3> QED
      BY <2>1, <2>2, <2>4, <2>5, <2>6, <3>3, <3>4, DotIs
  <2>7. CASE j >= x
    <3>1. \A l \in Rows : f[l] = 0
      BY <1>0, <1>1, <2>3, <2>4, <2>5, <2>7
    <3>2. SumOn(f, Rows) = 0
      BY <3>1, SumZero
    <3> QED
      BY <2>1, <2>2, <3>2, DotIs
  <2> QED
    BY <1>0, <2>6, <2>7
<1>4. v[x] = 1
  BY <1>0, <1>2
<1> QED
  BY <1>3, <1>4

-----------------------------------------------------------------------------
(* A row of the decoding matrix.                                           *)

LEMMA RebuildRow ==
  ASSUME NEW inv \in Matrices, NEW sel \in Matrices, Reduces(inv, sel, Identity),
         NEW e \in Fragments, NEW row,
         row = IF e < k THEN inv[e]
               ELSE [l \in Rows |-> Dot(Column(inv, l), encode_matrix[e])]
  PROVE  row \in Vectors /\ TimesMatrix(row, sel) = encode_matrix[e]
<1>1. PICK x \in Vectors : x = encode_matrix[e]
  BY EncodeType
<1>2. row \in Vectors /\ \A c \in Rows : Dot(row, Column(sel, c)) = x[c]
  <2>1. CASE e < k
    <3>1. e \in Rows /\ row = inv[e] /\ x = Identity[e]
      BY <1>1, <2>1, EncodeType, ShapeAssumption DEF Fragments, Rows
    <3> QED
      BY <3>1, RowType DEF Reduces
  <2>2. CASE ~ (e < k)
    <3>1. row = [l \in Rows |-> Dot(Column(inv, l), x)]
      BY <1>1, <2>2
    <3>2. \A l \in Rows : /\ Dot(Column(inv, l), x) \in ByteValues
                          /\ Dot(Column(inv, l), x) = Dot(x, Column(inv, l))
      BY ColumnType, DotIs, DotCommutes
    <3>3. row \in Vectors
      BY <3>1, <3>2 DEF Vectors
    <3>4. row = [l \in Rows |-> Dot(x, Column(inv, l))]
      BY <3>1, <3>2
    <3>5. ASSUME NEW c \in Rows PROVE Dot(row, Column(sel, c)) = x[c]
      <4>1. PICK y \in Vectors : y = Column(sel, c)
        BY ColumnType
      <4>2. Dot(row, y) = Dot(x, [j \in Rows |-> Dot(inv[j], y)])
        BY <3>4, DotSwap
      <4>3. \A j \in Rows : Dot(inv[j], y) = Identity[c][j]
        <5>1. \A j \in Rows : Dot(inv[j], y) = Identity[j][c]
          BY <4>1 DEF Reduces
        <5>2. \A j \in Rows : Identity[j][c] = Identity[c][j]
          BY DEF Identity
        <5> QED
          BY <5>1, <5>2
      <4>4. [j \in Rows |-> Dot(inv[j], y)] = Identity[c] /\ Identity[c] \in Vectors
        <5>1. Identity[c] = [j \in Rows |-> Identity[c][j]] /\ Identity[c] \in Vectors
          BY IdentityType DEF Matrices, Vectors
        <5> QED
          BY <4>3, <5>1
      <4>5. Dot(x, Identity[c]) = Dot(Identity[c], x)
        BY <4>4, DotCommutes
      <4> QED
        BY <4>1, <4>2, <4>4, <4>5, DotUnit
    <3> QED
      BY <3>3, <3>5
  <2> QED
    BY <2>1, <2>2
<1>3. \A c \in Rows : TimesMatrix(row, sel)[c] = x[c]
  BY <1>2, TimesMatrixIs
<1>4. TimesMatrix(row, sel) = x
  BY <1>2, <1>3, TimesMatrixIs DEF Vectors
<1> QED
  BY <1>1, <1>2, <1>4

-----------------------------------------------------------------------------
(* The inductive invariant: what the elimination has done to b it has done *)
(* to the inverse, and it can be undone.                                   *)

Rebuilds(x) == TimesMatrix(decode_matrix[x], Selected) = encode_matrix[frag_err_list[x]]

MatrixType == /\ b \in Matrices /\ invert_matrix \in Matrices
              /\ decode_matrix \in [0 .. m - 1 -> Vectors]
RowsTaken == pc = "select" => \A j \in 0 .. i - 1 : b[j] = encode_matrix[decode_index[j]]
RowsSelected ==
  pc # "select" => /\ decode_index \in [Rows -> Fragments]
                   /\ \A j, l \in Rows : decode_index[j] = decode_index[l] => j = l
Eliminating ==
  pc = "invert" => /\ i \in 0 .. k
                   /\ UnitBefore(b, i)
                   /\ Reduces(invert_matrix, Selected, b)
                   /\ \A v \in Vectors : Kills(b, v) => Kills(Selected, v)
RowsDone ==
  pc \in {"rows", "done"} => /\ i \in 0 .. nerrs
                             /\ Reduces(invert_matrix, Selected, Identity)
                             /\ \A x \in 0 .. i - 1 : Rebuilds(x)

DecodeInv == /\ SelectionInv /\ MatrixType /\ NeverSingular
             /\ RowsTaken /\ RowsSelected /\ Eliminating /\ RowsDone
             /\ pc = "done" => i = nerrs

LEMMA ListLength ==
  ASSUME frag_err_list \in ErrLists
  PROVE  /\ nerrs \in 0 .. m - k /\ DOMAIN frag_err_list = 0 .. nerrs - 1
         /\ \A x \in 0 .. nerrs - 1 : frag_err_list[x] \in Fragments
<1>1. PICK num \in 0 .. m - k : frag_err_list \in [0 .. num - 1 -> Fragments]
  BY DEF ErrLists
<1>2. num \in Nat /\ num <= m - k
  BY <1>1, ShapeAssumption
<1>3. Cardinality(0 .. num - 1) = num
  <2>1. 0 \in Int /\ num - 1 \in Int
    BY <1>2
  <2>2. Cardinality(0 .. num - 1) = IF 0 > num - 1 THEN 0 ELSE (num - 1) - 0 + 1
    BY <2>1, FS_Interval
  <2> QED
    BY <1>2, <2>2
<1>4. DOMAIN frag_err_list = 0 .. num - 1
  BY <1>1
<1> QED
  BY <1>1, <1>3, <1>4 DEF nerrs

LEMMA SelectedType ==
  ASSUME decode_index \in [Rows -> Fragments]
  PROVE  /\ Selected \in Matrices
         /\ \A j \in Rows : Selected[j] = encode_matrix[decode_index[j]]
BY EncodeType DEF Selected, Matrices

LEMMA DecodeInit == Init => DecodeInv
<1> SUFFICES ASSUME Init PROVE DecodeInv
  OBVIOUS
<1>1. Zero \in Matrices
  BY Constants01 DEF Zero, Matrices, Vectors
<1>2. decode_matrix \in [0 .. m - 1 -> Vectors]
  BY Constants01 DEF Init, Vectors
<1>3. MatrixType
  BY <1>1, <1>2 DEF Init, MatrixType
<1>4. RowsTaken
  BY DEF Init, RowsTaken
<1> QED
  BY <1>3, <1>4, SelectionInit
     DEF Init, DecodeInv, NeverSingular, RowsSelected, Eliminating, RowsDone

LEMMA DecodeStep == DecodeInv /\ [Next]_vars => DecodeInv'
<1> SUFFICES ASSUME DecodeInv, [Next]_vars PROVE DecodeInv'
  OBVIOUS
<1>0. SelectionInv'
  BY SelectionStep DEF DecodeInv
<1>a. frag_err_list' = frag_err_list /\ nerrs' = nerrs
  BY DEF Next, SkipErased, TakeSurvivor, CallInvert, Eliminate, Inverted, DecodeRow, Return,
         vars, nerrs
<1>1. CASE SkipErased
  BY <1>0, <1>1 DEF SkipErased, DecodeInv, MatrixType, NeverSingular, RowsTaken, RowsSelected,
                    Eliminating, RowsDone
<1>2. CASE TakeSurvivor
  <2>1. /\ pc = "select" /\ pc' = pc /\ i' = i + 1 /\ i \in Rows /\ r \in Fragments
        /\ b' = [b EXCEPT ![i] = encode_matrix[r]]
        /\ decode_index' = [decode_index EXCEPT ![i] = r]
        /\ UNCHANGED <<invert_matrix, decode_matrix, ret>>
    <3>1. i \in 0 .. k /\ r \in 0 .. m
      BY <1>2 DEF TakeSurvivor, DecodeInv, SelectionInv, Selecting
    <3>2. r < m
      BY <1>2, InRange DEF TakeSurvivor, DecodeInv, SelectionInRange
    <3> QED
      BY <1>2, <3>1, <3>2, ShapeAssumption DEF TakeSurvivor, Rows, Fragments
  <2>2. MatrixType'
    BY <2>1, EncodeType DEF DecodeInv, MatrixType, Matrices
  <2>3. RowsTaken'
    <3>1. decode_index \in [Rows -> Nat] /\ b \in [Rows -> Vectors]
      BY DEF DecodeInv, SelectionInv, MatrixType, Matrices
    <3>2. \A j \in 0 .. i : j \in Rows /\ (j = i \/ j \in 0 .. i - 1)
      BY <2>1, ShapeAssumption DEF Rows
    <3>3. \A j \in 0 .. i : b'[j] = encode_matrix[decode_index'[j]]
      BY <2>1, <3>1, <3>2 DEF DecodeInv, RowsTaken
    <3>4. i' - 1 = i
      BY <2>1, ShapeAssumption DEF Rows
    <3> QED
      BY <3>3, <3>4 DEF RowsTaken
  <2> QED
    BY <1>0, <2>1, <2>2, <2>3
       DEF DecodeInv, NeverSingular, RowsSelected, Eliminating, RowsDone
<1>3. CASE CallInvert
  <2>1. /\ pc = "select" /\ i = k /\ pc' = "invert" /\ i' = 0 /\ invert_matrix' = Identity
        /\ UNCHANGED <<b, decode_index, decode_matrix, ret>>
    BY <1>3 DEF CallInvert
  <2>2. /\ \A j \in 0 .. k - 1 : decode_index[j] \in Fragments
        /\ \A j, l \in 0 .. k - 1 : j < l => decode_index[j] < decode_index[l]
    BY <2>1 DEF DecodeInv, SelectionInv, Selecting
  <2>3. decode_index \in [Rows -> Fragments]
    BY <2>2 DEF DecodeInv, SelectionInv, Rows
  <2>4. \A j, l \in Rows : decode_index[j] = decode_index[l] => j = l
    BY <2>2 DEF Rows, Fragments
  <2>5. MatrixType'
    BY <2>1, IdentityType DEF DecodeInv, MatrixType
  <2>6. b = Selected /\ Selected' = Selected
    <3>1. \A j \in Rows : b[j] = Selected[j]
      BY <2>1, <2>3, SelectedType DEF DecodeInv, RowsTaken, Rows
    <3>2. Selected' = Selected
      BY <2>1 DEF Selected
    <3> QED
      BY <2>3, <3>1, <3>2, SelectedType DEF DecodeInv, MatrixType, Matrices
  <2>7. Eliminating'
    <3>1. Reduces(Identity, b, b)
      <4> SUFFICES ASSUME NEW j \in Rows, NEW l \in Rows
                   PROVE  Dot(Identity[j], Column(b, l)) = b[j][l]
        BY DEF Reduces
      <4>1. Column(b, l) \in Vectors /\ Column(b, l)[j] = b[j][l]
        BY ColumnType DEF DecodeInv, MatrixType
      <4> QED
        BY <4>1, DotUnit
    <3>2. UnitBefore(b, 0)
      BY DEF UnitBefore
    <3>3. 0 \in 0 .. k
      BY ShapeAssumption
    <3> QED
      BY <2>1, <2>6, <3>1, <3>2, <3>3 DEF Eliminating
  <2> QED
    BY <1>0, <2>1, <2>3, <2>4, <2>5, <2>7
       DEF DecodeInv, NeverSingular, RowsTaken, RowsSelected, RowsDone
<1>4. CASE Eliminate
  <2>1. /\ pc = "invert" /\ i < k /\ UNCHANGED <<decode_index, decode_matrix>>
    BY <1>4 DEF Eliminate
  <2>2. /\ decode_index \in [Rows -> Fragments] /\ i \in Rows /\ i \in Nat
        /\ \A j, l \in Rows : decode_index[j] = decode_index[l] => j = l
    <3>1. i \in 0 .. k
      BY <2>1 DEF DecodeInv, Eliminating
    <3>2. i \in Rows /\ i \in Nat
      BY <2>1, <3>1, ShapeAssumption DEF Rows
    <3> QED
      BY <2>1, <3>2 DEF DecodeInv, RowsSelected
  <2>3. PivotRow(b, i) # {}
    <3>1. \A v \in Vectors : Kills(b, v) => \A y \in Rows : v[y] = 0
      <4> SUFFICES ASSUME NEW v \in Vectors, Kills(b, v) PROVE \A y \in Rows : v[y] = 0
        OBVIOUS
      <4>1. Kills(Selected, v)
        BY <2>1 DEF DecodeInv, Eliminating
      <4>2. \A j \in Rows : Dot(encode_matrix[decode_index[j]], v) = 0
        BY <2>2, <4>1, SelectedType DEF Kills
      <4> QED
        BY <2>2, <4>2, RowsRegular
    <3>2. b \in Matrices /\ UnitBefore(b, i)
      BY <2>1 DEF DecodeInv, MatrixType, Eliminating
    <3> QED
      BY <2>2, <3>1, <3>2, PivotExists
  <2>4. PICK j \in PivotRow(b, i) :
          /\ b' = Reduced(b, b, i, j)
          /\ invert_matrix' = Reduced(invert_matrix, b, i, j)
          /\ i' = i + 1
          /\ UNCHANGED <<pc, ret>>
    BY <1>4, <2>3 DEF Eliminate, Reduced, Pivoted
  <2>5. /\ b \in Matrices /\ invert_matrix \in Matrices /\ UnitBefore(b, i)
        /\ Reduces(invert_matrix, Selected, b)
        /\ \A v \in Vectors : Kills(b, v) => Kills(Selected, v)
    BY <2>1 DEF DecodeInv, MatrixType, Eliminating
  <2>6. Selected \in Matrices /\ Selected' = Selected
    BY <2>1, <2>2, SelectedType DEF Selected
  <2>7. /\ b' \in Matrices /\ invert_matrix' \in Matrices
        /\ UnitBefore(b', i + 1)
        /\ Reduces(invert_matrix', Selected, b')
        /\ \A v \in Vectors : Kills(b', v) => Kills(b, v)
    <3>1. /\ Reduced(b, b, i, j) \in Matrices
          /\ UnitBefore(Reduced(b, b, i, j), i + 1)
          /\ \A v \in Vectors : Kills(Reduced(b, b, i, j), v) => Kills(b, v)
      BY <2>2, <2>4, <2>5, Round
    <3>2. /\ Reduced(invert_matrix, b, i, j) \in Matrices
          /\ Reduces(Reduced(invert_matrix, b, i, j), Selected, Reduced(b, b, i, j))
      <4>1. PICK inv \in Matrices : inv = invert_matrix
        BY <2>5
      <4>2. PICK sel \in Matrices : sel = Selected
        BY <2>6
      <4>3. /\ Reduced(inv, b, i, j) \in Matrices
            /\ Reduces(inv, sel, b) => Reduces(Reduced(inv, b, i, j), sel, Reduced(b, b, i, j))
        BY <2>2, <2>4, <2>5, Round
      <4> QED
        BY <2>5, <4>1, <4>2, <4>3
    <3> QED
      BY <2>4, <3>1, <3>2
  <2>8. MatrixType'
    BY <2>1, <2>7 DEF DecodeInv, MatrixType
  <2>9. Eliminating'
    <3>1. \A v \in Vectors : Kills(b', v) => Kills(Selected, v)
      BY <2>5, <2>7
    <3>2. i' \in 0 .. k
      BY <2>1, <2>2, <2>4, ShapeAssumption
    <3> QED
      BY <2>4, <2>6, <2>7, <3>1, <3>2 DEF Eliminating
  <2> QED
    BY <1>0, <2>1, <2>4, <2>8, <2>9
       DEF DecodeInv, NeverSingular, RowsTaken, RowsSelected, RowsDone
<1>5. CASE Inverted
  <2>1. /\ pc = "invert" /\ i = k /\ pc' = "rows" /\ i' = 0
        /\ UNCHANGED <<b, decode_index, invert_matrix, decode_matrix, ret>>
    BY <1>5 DEF Inverted
  <2>2. Reduces(invert_matrix, Selected, Identity)
    <3>1. Reduces(invert_matrix, Selected, b) /\ UnitBefore(b, k)
      BY <2>1 DEF DecodeInv, Eliminating
    <3>2. \A j, l \in Rows : b[j][l] = Identity[j][l]
      BY <3>1 DEF UnitBefore, Rows
    <3> QED
      BY <3>1, <3>2 DEF Reduces
  <2>3. 0 \in 0 .. nerrs
    BY ListLength DEF DecodeInv, SelectionInv
  <2>4. Selected' = Selected
    BY <2>1 DEF Selected
  <2>5. RowsDone'
    BY <1>a, <2>1, <2>2, <2>3, <2>4 DEF RowsDone
  <2> QED
    BY <1>0, <2>1, <2>5
       DEF DecodeInv, MatrixType, NeverSingular, RowsTaken, RowsSelected, Eliminating
<1>6. CASE DecodeRow
  <2>1. /\ pc = "rows" /\ pc' = pc /\ i < nerrs /\ i' = i + 1
        /\ UNCHANGED <<b, decode_index, invert_matrix, ret>>
    BY <1>6 DEF DecodeRow
  <2>2. /\ i \in 0 .. nerrs - 1 /\ i \in 0 .. m - 1 /\ nerrs \in Nat
        /\ frag_err_list[i] \in Fragments
    <3>1. nerrs \in 0 .. m - k /\ i \in 0 .. nerrs
      BY <2>1, ListLength DEF DecodeInv, SelectionInv, RowsDone
    <3>2. i \in 0 .. nerrs - 1 /\ i \in 0 .. m - 1 /\ nerrs \in Nat
      BY <2>1, <3>1, ShapeAssumption
    <3> QED
      BY <3>2, ListLength DEF DecodeInv, SelectionInv
  <2>3. PICK e \in Fragments : e = frag_err_list[i]
    BY <2>2
  <2>4. PICK row : row = IF e < k THEN invert_matrix[e]
                         ELSE [l \in Rows |-> Dot(Column(invert_matrix, l), encode_matrix[e])]
    OBVIOUS
  <2>5. decode_matrix' = [decode_matrix EXCEPT ![i] = row]
    BY <1>6, <2>3, <2>4 DEF DecodeRow
  <2>6. Selected \in Matrices /\ Selected' = Selected
    BY <2>1, SelectedType DEF DecodeInv, RowsSelected, Selected
  <2>7. row \in Vectors /\ TimesMatrix(row, Selected) = encode_matrix[e]
    BY <2>1, <2>4, <2>6, RebuildRow DEF DecodeInv, MatrixType, RowsDone
  <2>8. MatrixType'
    BY <2>1, <2>5, <2>7 DEF DecodeInv, MatrixType
  <2>9. \A x \in 0 .. i : Rebuilds(x)'
    <3> SUFFICES ASSUME NEW x \in 0 .. i PROVE Rebuilds(x)'
      OBVIOUS
    <3>1. decode_matrix'[x] = IF x = i THEN row ELSE decode_matrix[x]
      BY <2>2, <2>5 DEF DecodeInv, MatrixType
    <3>2. CASE x = i
      BY <1>a, <2>3, <2>6, <2>7, <3>1, <3>2 DEF Rebuilds
    <3>3. CASE x # i
      <4>1. x \in 0 .. i - 1
        BY <2>2, <3>3
      <4>2. Rebuilds(x)
        BY <2>1, <4>1 DEF DecodeInv, RowsDone
      <4> QED
        BY <1>a, <2>6, <3>1, <3>3, <4>2 DEF Rebuilds
    <3> QED
      BY <3>2, <3>3
  <2>10. RowsDone'
    <3>1. i' \in 0 .. nerrs /\ i' - 1 = i
      BY <2>1, <2>2
    <3> QED
      BY <1>a, <2>1, <2>6, <2>9, <3>1 DEF DecodeInv, RowsDone
  <2> QED
    BY <1>0, <2>1, <2>8, <2>10
       DEF DecodeInv, NeverSingular, RowsTaken, RowsSelected, Eliminating
<1>7. CASE Return
  <2>1. Selected' = Selected
    BY <1>7 DEF Return, Selected
  <2>2. \A x : Rebuilds(x)' = Rebuilds(x)
    BY <1>a, <1>7, <2>1 DEF Return, Rebuilds
  <2> QED
    BY <1>0, <1>a, <1>7, <2>1, <2>2
       DEF Return, DecodeInv, MatrixType, NeverSingular, RowsTaken, RowsSelected, Eliminating,
           RowsDone
<1>8. CASE UNCHANGED vars
  <2>1. Selected' = Selected
    BY <1>8 DEF vars, Selected
  <2>2. \A x : Rebuilds(x)' = Rebuilds(x)
    BY <1>a, <1>8, <2>1 DEF vars, Rebuilds
  <2> QED
    BY <1>0, <1>a, <1>8, <2>1, <2>2
       DEF vars, DecodeInv, MatrixType, NeverSingular, RowsTaken, RowsSelected, Eliminating,
           RowsDone
<1> QED
  BY <1>1, <1>2, <1>3, <1>4, <1>5, <1>6, <1>7, <1>8 DEF Next

LEMMA DecodeInvariant == Spec => []DecodeInv
BY DecodeInit, DecodeStep, PTL DEF Spec

(* While gf_invert_matrix runs, the inverse so far times the selected rows *)
(* is what they have been reduced to, and the columns done are unit.       *)
THEOREM EliminationKeepsProduct == Spec => []EliminationInvariant
<1>1. DecodeInv => EliminationInvariant
  <2> SUFFICES ASSUME DecodeInv, pc = "invert" PROVE EliminationInvariant
    BY DEF EliminationInvariant
  <2>1. /\ b \in Matrices /\ invert_matrix \in Matrices /\ Selected \in Matrices
        /\ UnitBefore(b, i) /\ Reduces(invert_matrix, Selected, b)
    BY SelectedType DEF DecodeInv, MatrixType, RowsSelected, Eliminating
  <2>2. ASSUME NEW j \in Rows PROVE TimesMatrix(invert_matrix[j], Selected) = b[j]
    <3>1. b[j] \in Vectors /\ invert_matrix[j] \in Vectors
      BY <2>1, RowType
    <3>2. \A l \in Rows : TimesMatrix(invert_matrix[j], Selected)[l] = b[j][l]
      BY <2>1, <3>1, TimesMatrixIs DEF Reduces
    <3> QED
      BY <2>1, <3>1, <3>2, TimesMatrixIs DEF Vectors
  <2> QED
    BY <2>1, <2>2 DEF UnitBefore, EliminationInvariant
<1> QED
  BY <1>1, DecodeInvariant, PTL

(* No selection of survivors is singular: gf_invert_matrix always finds a  *)
(* pivot, and the value its callers drop is always 0.                      *)
THEOREM AlwaysInvertible == Spec => []NeverSingular
<1>1. DecodeInv => NeverSingular
  BY DEF DecodeInv
<1> QED
  BY <1>1, DecodeInvariant, PTL

(* Every row of decode_matrix, applied to the survivors, gives the erased  *)
(* fragment of its entry, data or parity.                                  *)
THEOREM RowsRebuild == Spec => []DecodeRowsRebuild
<1>1. DecodeInv => DecodeRowsRebuild
  BY ListLength DEF DecodeInv, SelectionInv, RowsDone, Rebuilds, DecodeRowsRebuild
<1> QED
  BY <1>1, DecodeInvariant, PTL

-----------------------------------------------------------------------------
(* The tables of gf_vect_mul_init: both halves of a byte looked up and     *)
(* added are the product.                                                  *)

LEMMA Division ==
  ASSUME NEW d \in Nat \ {0}, NEW x \in Nat
  PROVE  x \div d \in Nat /\ x % d \in 0 .. d - 1 /\ x = d * (x \div d) + (x % d)
OBVIOUS

LEMMA Quotient ==
  ASSUME NEW d \in Nat \ {0}, NEW q \in Nat, NEW y \in 0 .. d - 1, NEW x \in Nat, x = d * q + y
  PROVE  x \div d = q /\ x % d = y
OBVIOUS

(* One bit more of x.                                                      *)
LEMMA NextBit ==
  ASSUME NEW d \in Nat \ {0}, NEW x \in Nat
  PROVE  x % (2 * d) = (x % d) + (IF (x \div d) % 2 = 1 THEN d ELSE 0)
<1>1. PICK y \in 0 .. d - 1 : y = x % d
  BY Division
<1>2. PICK q \in Nat : q = x \div d /\ x = d * q + y
  BY <1>1, Division
<1>3. PICK h \in Nat, c \in 0 .. 1 : h = q \div 2 /\ c = q % 2 /\ q = 2 * h + c
  OBVIOUS
<1>4. PICK z \in 0 .. 2 * d - 1 : z = y + (IF c = 1 THEN d ELSE 0)
  BY <1>1
<1>5. x = (2 * d) * h + z
  <2>1. d * q = d * (2 * h) + d * c
    BY <1>3
  <2>2. d * c = IF c = 1 THEN d ELSE 0
    BY <1>3
  <2>3. d * (2 * h) = (2 * d) * h
    OBVIOUS
  <2> QED
    BY <1>2, <1>4, <2>1, <2>2, <2>3
<1>6. x % (2 * d) = z
  <2>1. PICK dd \in Nat \ {0} : dd = 2 * d
    OBVIOUS
  <2>2. z \in 0 .. dd - 1 /\ x = dd * h + z
    BY <1>5, <2>1
  <2>3. x % dd = z
    BY <2>2, Quotient
  <2> QED
    BY <2>1, <2>3
<1> QED
  BY <1>1, <1>2, <1>3, <1>4, <1>6

LEMMA Powers ==
  /\ \A e \in 0 .. 2 * Half : 2^e \in Nat \ {0} /\ 2^(e + 1) = 2 * 2^e
  /\ 2^0 = 1 /\ 2^1 = 2 /\ Half \in Nat \ {0}
BY ByteAssumption

LEMMA PowerSum ==
  ASSUME NEW a \in Nat
  PROVE  \A e \in Nat : a + e <= 2 * Half => 2^(a + e) = 2^a * 2^e
<1> DEFINE T == {e \in Nat : a + e <= 2 * Half => 2^(a + e) = 2^a * 2^e}
<1>1. 0 \in T
  BY Powers
<1>2. ASSUME NEW e \in Nat, e \in T PROVE e + 1 \in T
  <2> SUFFICES ASSUME a + (e + 1) <= 2 * Half PROVE 2^(a + (e + 1)) = 2^a * 2^(e + 1)
    OBVIOUS
  <2>1. a + e \in 0 .. 2 * Half /\ e \in 0 .. 2 * Half /\ a \in 0 .. 2 * Half
    BY Powers
  <2>2. 2^(a + e) = 2^a * 2^e
    BY <1>2, <2>1
  <2>3. 2^((a + e) + 1) = 2 * 2^(a + e) /\ 2^(e + 1) = 2 * 2^e
    BY <2>1, Powers
  <2>4. (a + e) + 1 = a + (e + 1)
    OBVIOUS
  <2>5. 2^(a + e) \in Nat /\ 2^a \in Nat /\ 2^e \in Nat
    BY <2>1, Powers
  <2>6. ASSUME NEW u \in Nat, NEW v \in Nat PROVE 2 * (u * v) = u * (2 * v)
    OBVIOUS
  <2> QED
    BY <2>2, <2>3, <2>4, <2>5, <2>6
<1>3. Nat \subseteq T
  <2> HIDE DEF T
  <2> QED
    BY <1>1, <1>2, SetInduction
<1> QED
  BY <1>3

(* What is below a power of 2 is a byte, and so is the power.              *)
LEMMA SmallBytes ==
  ASSUME NEW e \in Nat, e <= 2 * Half
  PROVE  0 .. 2^e - 1 \subseteq ByteValues /\ (e < 2 * Half => 2^e \in ByteValues)
<1>1. PICK f \in Nat : e + f = 2 * Half
  <2>1. 2 * Half - e \in Nat /\ e + (2 * Half - e) = 2 * Half
    BY Powers
  <2> QED
    BY <2>1
<1>2. 2^(e + f) = 2^e * 2^f
  BY <1>1, PowerSum, Powers
<1>3. PICK u \in Nat \ {0} : u = 2^e
  BY Powers
<1>4. PICK v \in Nat \ {0} : v = 2^f
  <2>1. f \in 0 .. 2 * Half
    BY <1>1, Powers
  <2> QED
    BY <2>1, Powers
<1>5. ByteValues = 0 .. u * v - 1
  BY <1>1, <1>2, <1>3, <1>4, ByteAssumption
<1>6. u <= u * v
  OBVIOUS
<1>7. e < 2 * Half => u < u * v
  <2> SUFFICES ASSUME e < 2 * Half PROVE u < u * v
    OBVIOUS
  <2>1. f - 1 \in 0 .. 2 * Half /\ (f - 1) + 1 = f
    BY <1>1, Powers
  <2>2. v = 2 * 2^(f - 1) /\ 2^(f - 1) \in Nat \ {0}
    BY <1>4, <2>1, Powers
  <2>3. v >= 2
    BY <2>2
  <2> QED
    BY <2>3
<1> QED
  BY <1>3, <1>5, <1>6, <1>7

LEMMA Disjoint ==
  ASSUME NEW e \in 0 .. 2 * Half - 1, NEW x \in 0 .. 2^e - 1, NEW y \in 0 .. 2^(2 * Half - e) - 1
  PROVE  Add(2^e * y, x) = 2^e * y + x
BY ByteAssumption

(* power[e]: the coefficient doubled e times.                              *)
PowerOf(c) ==
  CHOOSE power : power = [e \in 0 .. 2 * Half - 1 |-> IF e = 0 THEN c ELSE Twice(power[e - 1])]

LEMMA PowerIs ==
  ASSUME NEW c \in ByteValues
  PROVE  \A e \in 0 .. 2 * Half - 1 : PowerOf(c)[e] = Mul(c, 2^e)
<1> DEFINE D == 0 .. 2 * Half - 1
           Doubles(p) == p = [e \in D |-> IF e = 0 THEN c ELSE Twice(p[e - 1])]
           g == [e \in D |-> Mul(c, 2^e)]
<1>0. \A e \in D : e \in Nat /\ e <= 2 * Half /\ e < 2 * Half /\ e \in 0 .. 2 * Half
  BY Powers
<1>1. \A e \in D : 2^e \in ByteValues /\ Mul(c, 2^e) \in ByteValues
  BY <1>0, SmallBytes, MulType
<1>2. ASSUME NEW e \in D, e # 0
      PROVE  e - 1 \in D /\ Twice(Mul(c, 2^(e - 1))) = Mul(c, 2^e)
  <2>1. e - 1 \in D /\ e - 1 \in 0 .. 2 * Half - 2 /\ (e - 1) + 1 = e
    BY <1>2, Powers
  <2>2. Twice(2^(e - 1)) = 2^e /\ Twice(2^(e - 1)) = Mul(2, 2^(e - 1))
    BY <1>1, <2>1, ByteAssumption
  <2>3. 2 \in ByteValues
    <3>1. 1 < 2 * Half
      BY Powers
    <3> QED
      BY <3>1, SmallBytes, Powers
  <2>4. Twice(Mul(c, 2^(e - 1))) = Mul(2, Mul(c, 2^(e - 1)))
    BY <1>1, <2>1, ByteAssumption
  <2>5. Mul(2, Mul(c, 2^(e - 1))) = Mul(c, Mul(2, 2^(e - 1)))
    BY <1>1, <2>1, <2>3, MulSwap
  <2> QED
    BY <2>1, <2>2, <2>4, <2>5
<1>3. Doubles(g)
  <2>1. \A e \in D : g[e] = IF e = 0 THEN c ELSE Twice(g[e - 1])
    <3> SUFFICES ASSUME NEW e \in D PROVE g[e] = IF e = 0 THEN c ELSE Twice(g[e - 1])
      OBVIOUS
    <3>1. CASE e = 0
      BY <3>1, Powers, Neutral
    <3>2. CASE e # 0
      <4>1. g[e] = Mul(c, 2^e) /\ g[e - 1] = Mul(c, 2^(e - 1))
        BY <1>2, <3>2
      <4> QED
        BY <1>2, <3>2, <4>1
    <3> QED
      BY <3>1, <3>2
  <2>2. g = [e \in D |-> g[e]]
    OBVIOUS
  <2> HIDE DEF g
  <2> QED
    BY <2>1, <2>2
<1>4. Doubles(PowerOf(c))
  <2>1. \E p : Doubles(p)
    BY <1>3
  <2>2. Doubles(CHOOSE p : Doubles(p))
    <3> HIDE DEF Doubles
    <3> QED
      BY <2>1, Zenon
  <2> QED
    BY <2>2 DEF PowerOf
<1> DEFINE T == {e \in Nat : e \in D => PowerOf(c)[e] = Mul(c, 2^e)}
<1>5. 0 \in T
  BY <1>4, Powers, Neutral
<1>6. ASSUME NEW e \in Nat, e \in T PROVE e + 1 \in T
  <2> SUFFICES ASSUME e + 1 \in D PROVE PowerOf(c)[e + 1] = Mul(c, 2^(e + 1))
    OBVIOUS
  <2>1. e \in D /\ e + 1 # 0 /\ (e + 1) - 1 = e
    BY Powers
  <2>2. PowerOf(c)[e + 1] = Twice(PowerOf(c)[e])
    BY <1>4, <2>1
  <2> QED
    BY <1>2, <1>6, <2>1, <2>2
<1>7. Nat \subseteq T
  <2> HIDE DEF T
  <2> QED
    BY <1>5, <1>6, SetInduction
<1> QED
  BY <1>0, <1>7

(* An entry: the sum of the doubled coefficients for the bits of x.        *)
EntryOf(c, x, from) ==
  CHOOSE sum : sum = [e \in 0 .. Half |->
    IF e = 0 THEN 0
    ELSE Add(sum[e - 1], IF (x \div 2^(e - 1)) % 2 = 1 THEN PowerOf(c)[from + e - 1] ELSE 0)]

LEMMA EntryIs ==
  ASSUME NEW c \in ByteValues, NEW x \in Nibbles, NEW from \in {0, Half}
  PROVE  EntryOf(c, x, from)[Half] = Mul(c, 2^from * x) /\ 2^from * x \in ByteValues
<1> DEFINE D == 0 .. Half
           V(e) == 2^from * (x % 2^e)
           Bit(e) == IF (x \div 2^e) % 2 = 1 THEN PowerOf(c)[from + (e + 1) - 1] ELSE 0
           Adds(s) == s = [e \in D |->
             IF e = 0 THEN 0
             ELSE Add(s[e - 1],
                      IF (x \div 2^(e - 1)) % 2 = 1 THEN PowerOf(c)[from + e - 1] ELSE 0)]
           g == [e \in D |-> Mul(c, V(e))]
<1>0. /\ x \in Nat /\ from \in Nat /\ from <= 2 * Half /\ Half \in Nat \ {0}
      /\ 2^from \in Nat \ {0} /\ 2^Half \in Nat \ {0}
      /\ \A e \in D : e \in Nat /\ from + e <= 2 * Half /\ e \in 0 .. 2 * Half /\ 2^e \in Nat \ {0}
  <2>1. Half \in Nat \ {0}
    BY Powers
  <2>2. Half \in 0 .. 2 * Half /\ from \in 0 .. 2 * Half
    BY <2>1
  <2>3. 2^Half \in Nat \ {0} /\ 2^from \in Nat \ {0}
    BY <2>2, Powers
  <2>4. \A e \in D : e \in Nat /\ from + e <= 2 * Half /\ e \in 0 .. 2 * Half
    BY <2>1
  <2>5. \A e \in D : 2^e \in Nat \ {0}
    BY <2>4, Powers
  <2> QED
    BY <2>1, <2>2, <2>3, <2>4, <2>5 DEF Nibbles
<1>1. ASSUME NEW e \in D
      PROVE  /\ x % 2^e \in 0 .. 2^e - 1 /\ V(e) \in Nat
             /\ V(e) \in 0 .. 2^(from + e) - 1 /\ V(e) \in ByteValues
  <2>1. PICK p \in Nat \ {0} : p = 2^from
    BY <1>0
  <2>2. PICK q \in Nat \ {0} : q = 2^e
    BY <1>0
  <2>3. x % q \in 0 .. q - 1
    BY <1>0, Division
  <2>4. 2^(from + e) = p * q
    BY <1>0, <2>1, <2>2, PowerSum
  <2>5. ASSUME NEW z \in 0 .. q - 1 PROVE p * z \in Nat /\ p * z <= p * q - 1
    <3>1. PICK t \in Nat : q = z + 1 + t
      <4>1. q - z - 1 \in Nat /\ q = z + 1 + (q - z - 1)
        OBVIOUS
      <4> QED
        BY <4>1
    <3>2. p * q = p * z + p + p * t
      BY <3>1
    <3>3. p * z \in Nat /\ p * t \in Nat
      OBVIOUS
    <3> QED
      BY <3>2, <3>3
  <2>6. V(e) \in 0 .. 2^(from + e) - 1 /\ V(e) \in Nat
    BY <2>1, <2>2, <2>3, <2>4, <2>5
  <2>7. 0 .. 2^(from + e) - 1 \subseteq ByteValues
    BY <1>0, SmallBytes
  <2> QED
    BY <2>2, <2>3, <2>6, <2>7
<1>2. ASSUME NEW e \in D, e + 1 \in D
      PROVE  Mul(c, V(e + 1)) = Add(Mul(c, V(e)), Bit(e))
  <2>1. x % 2^(e + 1) = (x % 2^e) + (IF (x \div 2^e) % 2 = 1 THEN 2^e ELSE 0)
    <3>1. 2^(e + 1) = 2 * 2^e
      BY <1>0, Powers
    <3> QED
      BY <1>0, <3>1, NextBit
  <2>2. from + e \in 0 .. 2 * Half - 1 /\ from + e \in Nat /\ from + e <= 2 * Half
    BY <1>0, <1>2
  <2>3. 2^(from + e) = 2^from * 2^e
    BY <1>0, PowerSum
  <2>4. CASE (x \div 2^e) % 2 = 1
    <3>1. V(e + 1) = V(e) + 2^(from + e)
      <4>1. ASSUME NEW p \in Nat, NEW q \in Nat, NEW z \in Nat PROVE p * (z + q) = p * z + p * q
        OBVIOUS
      <4> QED
        BY <1>0, <1>1, <2>1, <2>3, <2>4, <4>1, SMTT(60)
    <3>2. Add(2^(from + e), V(e)) = 2^(from + e) + V(e)
      <4>1. 1 \in 0 .. 2^(2 * Half - (from + e)) - 1
        <5>1. PICK t \in 0 .. 2 * Half : 2 * Half - (from + e) = t + 1
          <6>1. PICK u \in Nat : u = from + e
            BY <2>2
          <6>2. u <= 2 * Half - 1 /\ 2 * Half \in Nat
            BY <1>0, <2>2, <6>1
          <6>3. 2 * Half - u - 1 \in 0 .. 2 * Half /\ 2 * Half - u = (2 * Half - u - 1) + 1
            BY <6>2
          <6> QED
            BY <6>1, <6>3
        <5>2. 2^(t + 1) = 2 * 2^t /\ 2^t \in Nat \ {0}
          BY Powers
        <5> QED
          BY <5>1, <5>2
      <4>2. 2^(from + e) \in Nat /\ 2^(from + e) * 1 = 2^(from + e)
        BY <2>2, Powers
      <4> QED
        BY <1>1, <2>2, <4>1, <4>2, Disjoint
    <3>3. 2^(from + e) \in ByteValues
      <4>1. PICK u \in Nat : u = from + e
        BY <2>2
      <4>2. u <= 2 * Half /\ u < 2 * Half
        BY <1>0, <2>2, <4>1
      <4> QED
        BY <4>1, <4>2, SmallBytes
    <3>4. 2^(from + e) \in Nat
      BY <2>2, Powers
    <3>5. V(e) \in Nat /\ V(e) \in ByteValues
      BY <1>1
    <3>6. Bit(e) = Mul(c, 2^(from + e))
      <4>1. from + (e + 1) - 1 = from + e
        BY <1>0
      <4> QED
        BY <2>2, <2>4, <4>1, PowerIs
    <3> HIDE DEF V
    <3>7. V(e + 1) = Add(V(e), 2^(from + e))
      BY <3>1, <3>2, <3>3, <3>4, <3>5, AddType
    <3> QED
      BY <3>3, <3>5, <3>6, <3>7, Distributes
  <2>5. CASE (x \div 2^e) % 2 # 1
    <3>1. V(e + 1) = V(e) /\ Bit(e) = 0
      BY <1>1, <2>1, <2>5
    <3>2. V(e) \in ByteValues
      BY <1>1
    <3>3. Mul(c, V(e)) \in ByteValues
      <4> HIDE DEF V
      <4> QED
        BY <3>2, MulType
    <3> QED
      BY <3>1, <3>3, Neutral
  <2> QED
    BY <2>4, <2>5
<1>3. V(0) = 0
  BY <1>0, Powers
<1>4. Adds(g)
  <2>1. \A e \in D : g[e] = IF e = 0 THEN 0
             ELSE Add(g[e - 1], IF (x \div 2^(e - 1)) % 2 = 1 THEN PowerOf(c)[from + e - 1] ELSE 0)
    <3> SUFFICES ASSUME NEW e \in D
                 PROVE  g[e] = IF e = 0 THEN 0 ELSE Add(g[e - 1],
                          IF (x \div 2^(e - 1)) % 2 = 1 THEN PowerOf(c)[from + e - 1] ELSE 0)
      OBVIOUS
    <3>1. CASE e = 0
      <4>1. g[0] = Mul(c, V(0))
        BY <1>0
      <4> QED
        BY <1>3, <3>1, <4>1, Neutral
    <3>2. CASE e # 0
      <4>1. e - 1 \in D /\ (e - 1) + 1 = e
        BY <1>0, <3>2
      <4>2. g[e] = Mul(c, V(e)) /\ g[e - 1] = Mul(c, V(e - 1))
        BY <4>1
      <4>3. Bit(e - 1) = IF (x \div 2^(e - 1)) % 2 = 1 THEN PowerOf(c)[from + e - 1] ELSE 0
        BY <4>1
      <4> HIDE DEF V, Bit, g
      <4> QED
        BY <1>2, <3>2, <4>1, <4>2, <4>3
    <3> QED
      BY <3>1, <3>2
  <2>2. g = [e \in D |-> g[e]]
    OBVIOUS
  <2> HIDE DEF g
  <2> QED
    BY <2>1, <2>2
<1>5. Adds(EntryOf(c, x, from))
  <2>1. \E s : Adds(s)
    BY <1>4
  <2>2. Adds(CHOOSE s : Adds(s))
    <3> HIDE DEF Adds
    <3> QED
      BY <2>1, Zenon
  <2> QED
    BY <2>2 DEF EntryOf
<1> DEFINE T == {e \in Nat : e \in D => EntryOf(c, x, from)[e] = Mul(c, V(e))}
<1>6. 0 \in T
  BY <1>0, <1>3, <1>5, Neutral
<1>7. ASSUME NEW e \in Nat, e \in T PROVE e + 1 \in T
  <2> SUFFICES ASSUME e + 1 \in D PROVE EntryOf(c, x, from)[e + 1] = Mul(c, V(e + 1))
    OBVIOUS
  <2>1. e \in D /\ e + 1 # 0 /\ (e + 1) - 1 = e
    BY <1>0
  <2>2. EntryOf(c, x, from)[e + 1] = Add(EntryOf(c, x, from)[e], Bit(e))
    BY <1>5, <2>1
  <2>3. EntryOf(c, x, from)[e] = Mul(c, V(e))
    BY <1>7, <2>1
  <2> HIDE DEF V, Bit
  <2> QED
    BY <1>2, <2>1, <2>2, <2>3
<1>8. Nat \subseteq T
  <2> HIDE DEF T
  <2> QED
    BY <1>6, <1>7, SetInduction
<1>9. Half \in D /\ Half \in Nat
  BY <1>0
<1>10. x % 2^Half = x
  BY <1>0, Quotient DEF Nibbles
<1> QED
  BY <1>1, <1>8, <1>9, <1>10


LEMMA MulInit ==
  ASSUME NEW c
  PROVE  gf_vect_mul_init(c) =
           [x \in 0 .. 2^(Half + 1) - 1 |->
              IF x \in Nibbles THEN EntryOf(c, x, 0)[Half]
                               ELSE EntryOf(c, x - 2^Half, Half)[Half]]
BY DEF gf_vect_mul_init, EntryOf, PowerOf

(* What the kernels and the scalar code take from the table of c.          *)
LEMMA TableProducts ==
  ASSUME NEW c \in ByteValues, NEW byte \in ByteValues
  PROVE  /\ ScalarProduct(Tables[c], byte) = Mul(c, byte)
         /\ KernelProduct(Tables[c], byte) = Mul(c, byte)
<1> DEFINE H == 2^Half
<1>0. /\ Half \in Nat \ {0} /\ Half \in 0 .. 2 * Half - 1 /\ Half \in 0 .. 2 * Half
      /\ 2^Half \in Nat \ {0} /\ 2^(Half + 1) = 2 * 2^Half /\ 2^(2 * Half) = 2^Half * 2^Half
      /\ 2 * Half - Half = Half
  <2>1. Half \in Nat \ {0} /\ Half \in 0 .. 2 * Half - 1 /\ Half \in 0 .. 2 * Half
    BY Powers
  <2>2. Half + Half = 2 * Half /\ 2 * Half - Half = Half
    BY <2>1
  <2>3. 2^(Half + Half) = 2^Half * 2^Half
    BY <2>1, <2>2, PowerSum
  <2> QED
    BY <2>1, <2>2, <2>3, Powers
<1>1. PICK d \in Nat \ {0} : d = H
  BY <1>0
<1>2. d >= 2
  <2>1. Half - 1 \in 0 .. 2 * Half /\ (Half - 1) + 1 = Half
    BY <1>0
  <2>2. d = 2 * 2^(Half - 1) /\ 2^(Half - 1) \in Nat \ {0}
    BY <1>1, <2>1, Powers
  <2> QED
    BY <2>2
<1>3. ByteValues = 0 .. d * d - 1 /\ Nibbles = 0 .. d - 1
  BY <1>0, <1>1, ByteAssumption DEF Nibbles
<1>4. Tables[c] = gf_vect_mul_init(c)
  BY <1>0, <1>1, <1>3 DEF Tables
<1>5. Tables[c] = [x \in 0 .. 2 * d - 1 |->
              IF x \in 0 .. d - 1 THEN EntryOf(c, x, 0)[Half]
                               ELSE EntryOf(c, x - d, Half)[Half]]
  BY <1>0, <1>1, <1>3, <1>4, MulInit
<1>6. ASSUME NEW x \in 0 .. d - 1
      PROVE  /\ Tables[c][x] = Mul(c, x) /\ x \in ByteValues
             /\ Tables[c][d + x] = Mul(c, d * x) /\ d * x \in ByteValues
  <2>1. /\ x \in 0 .. 2 * d - 1 /\ d + x \in 0 .. 2 * d - 1
        /\ (d + x) \notin 0 .. d - 1 /\ (d + x) - d = x
    OBVIOUS
  <2>2. Tables[c][x] = EntryOf(c, x, 0)[Half] /\ Tables[c][d + x] = EntryOf(c, x, Half)[Half]
    BY <1>5, <2>1
  <2>3. EntryOf(c, x, 0)[Half] = Mul(c, 2^0 * x) /\ 2^0 * x \in ByteValues
    BY <1>3, EntryIs
  <2>4. EntryOf(c, x, Half)[Half] = Mul(c, 2^Half * x) /\ 2^Half * x \in ByteValues
    BY <1>3, EntryIs
  <2>5. 2^0 * x = x
    BY Powers
  <2> QED
    BY <1>1, <2>2, <2>3, <2>4, <2>5
<1>7. ScalarProduct(Tables[c], byte) = Mul(c, byte)
  <2>1. 1 \in 0 .. d - 1
    BY <1>2
  <2>2. Tables[c][1] = c
    BY <1>6, <2>1, Neutral
  <2> QED
    BY <2>2, MulType DEF ScalarProduct
<1>b. byte \in Nat
  BY <1>3
<1>8. PICK q \in Nat : q = byte \div d
  BY <1>b, Division
<1>9. PICK z \in 0 .. d - 1 : z = byte % d
  BY <1>b, Division
<1>10. byte = d * q + z /\ q \in 0 .. d - 1
  <2>1. byte \in Nat /\ byte <= d * d - 1
    BY <1>3
  <2>2. byte = d * q + z
    BY <1>8, <1>9, <2>1, Division
  <2>3. q >= d => d * q >= d * d
    <3> SUFFICES ASSUME q >= d PROVE d * q >= d * d
      OBVIOUS
    <3>1. PICK t \in Nat : q = d + t
      <4>1. q - d \in Nat /\ q = d + (q - d)
        OBVIOUS
      <4> QED
        BY <4>1
    <3>2. d * q = d * d + d * t /\ d * t \in Nat
      BY <3>1
    <3> QED
      BY <3>2
  <2> QED
    BY <2>1, <2>2, <2>3
<1>11. Add(d * q, z) = byte
  <2>1. z \in 0 .. 2^Half - 1 /\ q \in 0 .. 2^(2 * Half - Half) - 1
    BY <1>0, <1>1, <1>10
  <2> QED
    BY <1>0, <1>1, <1>10, <2>1, Disjoint
<1>12. KernelProduct(Tables[c], byte) = Add(Mul(c, d * q), Mul(c, z))
  BY <1>1, <1>6, <1>8, <1>9, <1>10 DEF KernelProduct
<1>13. Add(Mul(c, d * q), Mul(c, z)) = Mul(c, byte)
  <2>1. PICK dq \in ByteValues : dq = d * q
    BY <1>6, <1>10
  <2>2. z \in ByteValues
    BY <1>6
  <2> QED
    BY <1>11, <2>1, <2>2, Distributes
<1> QED
  BY <1>7, <1>12, <1>13

(* Scalar code and kernels alike: the product.                             *)
LEMMA TimesIs ==
  ASSUME NEW c \in ByteValues, NEW byte \in ByteValues
  PROVE  Times(Tables[c], byte) = Mul(c, byte)
BY TableProducts DEF Times

-----------------------------------------------------------------------------
(* The inductive invariant of the calls of ec_encode_data: the bytes done  *)
(* are right, those to do are as the call found them.                      *)

DataAt(p) == [j \in Rows |-> Data(j, p)]
Value(s, p) == Dot(encode_matrix[s], DataAt(p))

(* What sources 0 .. count - 1 add to byte p of strip s.                   *)
Partial(s, p, count) ==
  SumOn([j \in Rows |-> Mul(encode_matrix[s][j], Data(j, p))], 0 .. count - 1)

Total == IF part = "encode" THEN m - k ELSE nerrs
Working == part \in {"encode", "decode"}
Good(s) == \A p \in Bytes : strip[s][p] = Value(s, p)

StripsType ==
  /\ part \in {"encode", "lose", "matrix", "decode", "end"}
  /\ isa \in {"base"} \cup DOMAIN Width
  /\ len \in Lens /\ vec_i \in Rows
  /\ strip \in [Fragments -> [Bytes -> ByteValues]]

Called ==
  /\ part = "encode" => /\ g_tbls = ec_init_tables(m - k, encode_matrix, k)
                        /\ srcs = [j \in Rows |-> j]
                        /\ coding = [l \in 0 .. m - k - 1 |-> k + l]
  /\ part = "decode" => /\ pc = "done"
                        /\ g_tbls = ec_init_tables(nerrs, decode_matrix, 0)
                        /\ srcs = decode_index
                        /\ coding = frag_err_list

(* The strips that are whole at the time.                                  *)
Whole ==
  CASE part = "encode" -> Rows
    [] part \in {"matrix", "decode"} -> Fragments \ frag_in_err
    [] OTHER -> Fragments

Place ==
  Working =>
    /\ rows \in 0 .. Total
    /\ tbls_at = Total - rows /\ coding_at = Total - rows
    /\ ~ Simd => rows = Total
    /\ Simd => /\ pos \in 0 .. LastVector
               /\ pos # LastVector => pos % Width[isa] = 0
               /\ rows = 0 => pos = 0

Done == IF Tail THEN len - (len % Width[isa]) ELSE pos
Finished(l, p) == Simd /\ (l < coding_at \/ (l \in Lines /\ p < Done))
After(l, p) == IF Updating THEN Partial(coding[l], p, vec_i + 1) ELSE Value(coding[l], p)

LinesDone ==
  Working =>
    \A l \in 0 .. Total - 1 : \A p \in Bytes :
      IF Finished(l, p) THEN strip[coding[l]][p] = After(l, p)
      ELSE Updating => strip[coding[l]][p] = Partial(coding[l], p, vec_i)

BackupKept ==
  Updating /\ Simd /\ Saves /\ pos # 0 =>
    \A l \in Lines : \A p \in Bytes :
      backup[l - coding_at][p] = Partial(coding[l], p, vec_i)

EncodeInv ==
  /\ DecodeInv /\ StripsType /\ Called
  /\ \A s \in Whole : Good(s)
  /\ Place /\ LinesDone /\ BackupKept

LEMMA LengthType ==
  ASSUME StripsType
  PROVE  /\ len \in Nat /\ Bytes = 0 .. len - 1
         /\ \A j \in Rows : \A p \in Bytes : Data(j, p) \in ByteValues
         /\ isa # "base" => Width[isa] \in Nat \ {0}
BY LoopAssumption DEF StripsType, Bytes

LEMMA ValueType ==
  ASSUME StripsType, NEW p \in Bytes
  PROVE  /\ DataAt(p) \in Vectors
         /\ \A s \in Fragments : Value(s, p) \in ByteValues
         /\ \A s \in Rows : s \in Fragments /\ Value(s, p) = Data(s, p)
<1>1. DataAt(p) \in Vectors
  BY LengthType DEF DataAt, Vectors
<1>2. \A s \in Fragments : Value(s, p) \in ByteValues
  BY <1>1, EncodeType, DotIs DEF Value
<1>3. \A s \in Rows : s \in Fragments /\ Value(s, p) = Data(s, p)
  BY <1>1, EncodeType, DotUnit DEF Value, DataAt
<1> QED
  BY <1>1, <1>2, <1>3

(* Source after source, the strip becomes what it must be.                 *)
LEMMA PartialSums ==
  ASSUME StripsType, NEW p \in Bytes, NEW s \in Fragments
  PROVE  /\ Partial(s, p, 0) = 0
         /\ \A n \in Rows :
              /\ Partial(s, p, n) \in ByteValues
              /\ Mul(encode_matrix[s][n], Data(n, p)) \in ByteValues
              /\ Partial(s, p, n + 1)
                 = Add(Partial(s, p, n), Mul(encode_matrix[s][n], Data(n, p)))
         /\ Partial(s, p, k) = Value(s, p)
<1>1. PICK f \in Vectors : /\ f = [j \in Rows |-> Mul(encode_matrix[s][j], DataAt(p)[j])]
                           /\ Value(s, p) = SumOn(f, Rows)
  BY ValueType, EncodeType, DotIs DEF Value
<1>2. /\ \A j \in Rows : f[j] = Mul(encode_matrix[s][j], Data(j, p))
      /\ f = [j \in Rows |-> Mul(encode_matrix[s][j], Data(j, p))]
  BY <1>1 DEF DataAt
<1>3. \A n : Partial(s, p, n) = SumOn(f, 0 .. n - 1)
  BY <1>2 DEF Partial
<1>4. Partial(s, p, 0) = 0
  <2>1. 0 .. 0 - 1 = {}
    OBVIOUS
  <2> QED
    BY <1>3, <2>1, SumEmpty
<1>5. ASSUME NEW n \in Rows
      PROVE  /\ Partial(s, p, n) \in ByteValues /\ f[n] \in ByteValues
             /\ Partial(s, p, n + 1) = Add(Partial(s, p, n), f[n])
  <2>1. /\ 0 .. n - 1 \in SUBSET Rows /\ 0 .. (n + 1) - 1 \in SUBSET Rows
        /\ n \in 0 .. (n + 1) - 1 /\ (0 .. (n + 1) - 1) \ {n} = 0 .. n - 1
    BY ShapeAssumption DEF Rows
  <2>2. SumOn(f, 0 .. (n + 1) - 1) = Add(f[n], SumOn(f, 0 .. n - 1))
    <3>1. PICK U \in SUBSET Rows : U = 0 .. (n + 1) - 1
      BY <2>1
    <3>2. n \in U /\ U \ {n} = 0 .. n - 1
      BY <2>1, <3>1
    <3>3. SumOn(f, U) = Add(f[n], SumOn(f, U \ {n}))
      BY <3>2, SumTake
    <3> QED
      BY <3>1, <3>2, <3>3
  <2>3. SumOn(f, 0 .. n - 1) \in ByteValues /\ f[n] \in ByteValues
    BY <2>1, SumType DEF Vectors
  <2> QED
    BY <1>3, <2>2, <2>3, AddType
<1>6. Partial(s, p, k) = Value(s, p)
  BY <1>1, <1>3 DEF Rows
<1> QED
  BY <1>2, <1>4, <1>5, <1>6

-----------------------------------------------------------------------------
(* The arguments of a call, for encoding and decoding alike.               *)

LEMMA CallShape ==
  ASSUME EncodeInv, Working
  PROVE  /\ Total \in Nat
         /\ coding \in [0 .. Total - 1 -> Fragments]
         /\ srcs \in [Rows -> Fragments]
         /\ \A j \in Rows : srcs[j] \in Whole
         /\ \A l \in 0 .. Total - 1 : coding[l] \notin Whole
         /\ \A s \in Fragments \ Whole : \E l \in 0 .. Total - 1 : coding[l] = s
         /\ Updating => /\ \A l, j \in 0 .. Total - 1 : coding[l] = coding[j] => l = j
                        /\ \A j \in Rows : srcs[j] = j
<1>1. CASE part = "encode"
  <2>1. /\ Total = m - k /\ srcs = [j \in Rows |-> j] /\ Whole = Rows
        /\ coding = [l \in 0 .. m - k - 1 |-> k + l]
    BY <1>1 DEF EncodeInv, Called, Total, Whole
  <2>2. ASSUME NEW s \in Fragments \ Whole PROVE \E l \in 0 .. Total - 1 : coding[l] = s
    <3>1. s - k \in 0 .. Total - 1 /\ coding[s - k] = s
      BY <2>1, ShapeAssumption DEF Rows, Fragments
    <3> QED
      BY <3>1
  <2> QED
    BY <2>1, <2>2, ShapeAssumption DEF Rows, Fragments
<1>2. CASE part = "decode"
  <2>1. /\ Total = nerrs /\ srcs = decode_index /\ coding = frag_err_list
        /\ Whole = Fragments \ frag_in_err /\ pc = "done" /\ ~ Updating
    BY <1>2 DEF EncodeInv, Called, Total, Whole, Updating
  <2>2. frag_err_list \in ErrLists /\ decode_index \in [Rows -> Fragments]
    BY <2>1 DEF EncodeInv, DecodeInv, SelectionInv, RowsSelected
  <2>3. /\ nerrs \in Nat /\ DOMAIN frag_err_list = 0 .. nerrs - 1
        /\ frag_err_list \in [0 .. nerrs - 1 -> Fragments]
    <3>1. nerrs \in 0 .. m - k /\ DOMAIN frag_err_list = 0 .. nerrs - 1
          /\ \A x \in 0 .. nerrs - 1 : frag_err_list[x] \in Fragments
      BY <2>2, ListLength
    <3>2. PICK num \in 0 .. m - k : frag_err_list \in [0 .. num - 1 -> Fragments]
      BY <2>2 DEF ErrLists
    <3> QED
      BY <3>1, <3>2, ShapeAssumption
  <2>4. \A j \in Rows : decode_index[j] \in Fragments \ frag_in_err
    BY <2>1 DEF EncodeInv, DecodeInv, SelectionInv, SurvivorsSelected
  <2>5. /\ \A l \in 0 .. nerrs - 1 : frag_err_list[l] \in frag_in_err
        /\ \A s \in frag_in_err : \E l \in 0 .. nerrs - 1 : frag_err_list[l] = s
    BY <2>3 DEF frag_in_err, Range
  <2> QED
    BY <2>1, <2>2, <2>3, <2>4, <2>5
<1> QED
  BY <1>1, <1>2 DEF Working

(* What a row of the tables gives: the strip it is made for.               *)
LEMMA CallProducts ==
  ASSUME EncodeInv, Working, NEW l \in 0 .. Total - 1, NEW p \in Bytes
  PROVE  /\ Products(l, p) = Value(coding[l], p)
         /\ Updating => /\ OneProduct(l, p) = Mul(encode_matrix[coding[l]][vec_i], Data(vec_i, p))
                        /\ vec_i \in Rows
<1>0. StripsType
  BY DEF EncodeInv
<1>1. PICK D \in Vectors : D = DataAt(p)
  BY <1>0, ValueType
<1>2. ASSUME NEW j \in Rows
      PROVE  strip[srcs[j]][p] = Dot(encode_matrix[srcs[j]], D) /\ strip[srcs[j]][p] \in ByteValues
  <2>1. srcs[j] \in Whole /\ srcs[j] \in Fragments
    BY CallShape
  <2>2. strip[srcs[j]][p] = Value(srcs[j], p)
    BY <2>1 DEF EncodeInv, Good
  <2> QED
    BY <1>0, <1>1, <2>1, <2>2, ValueType DEF Value
<1>3. PICK x \in Vectors : x = [j \in Rows |-> strip[srcs[j]][p]]
  BY <1>2 DEF Vectors
<1>4. ASSUME NEW a \in Vectors, g_tbls[l] = [j \in Rows |-> Tables[a[j]]]
      PROVE  /\ Products(l, p) = Dot(a, x)
             /\ \A j \in Rows : Times(g_tbls[l][j], strip[srcs[j]][p]) = Mul(a[j], x[j])
  <2>1. \A j \in Rows : Times(g_tbls[l][j], strip[srcs[j]][p]) = Mul(a[j], x[j])
    BY <1>2, <1>3, <1>4, TimesIs DEF Vectors
  <2>2. [j \in Rows |-> Times(g_tbls[l][j], strip[srcs[j]][p])] = [j \in Rows |-> Mul(a[j], x[j])]
    BY <2>1
  <2> QED
    BY <2>1, <2>2 DEF Products, Dot
<1>5. CASE part = "encode"
  <2>1. /\ l \in 0 .. m - k - 1 /\ srcs = [j \in Rows |-> j] /\ coding[l] = k + l
        /\ g_tbls[l] = [j \in Rows |-> Tables[encode_matrix[k + l][j]]]
        /\ k + l \in Fragments
    BY <1>5, ShapeAssumption DEF EncodeInv, Called, Total, ec_init_tables, Fragments
  <2>2. PICK a \in Vectors : a = encode_matrix[coding[l]]
    BY <2>1, EncodeType
  <2>3. /\ Products(l, p) = Dot(a, x)
        /\ \A j \in Rows : Times(g_tbls[l][j], strip[srcs[j]][p]) = Mul(a[j], x[j])
    BY <1>4, <2>1, <2>2
  <2>4. \A j \in Rows : x[j] = Data(j, p) /\ D[j] = Data(j, p)
    <3>1. \A j \in Rows : x[j] = Value(j, p)
      BY <1>1, <1>2, <1>3, <2>1 DEF Value
    <3> QED
      BY <1>0, <1>1, <3>1, ValueType DEF DataAt
  <2>5. x = D
    BY <2>4 DEF Vectors
  <2>6. Updating => /\ OneProduct(l, p) = Mul(encode_matrix[coding[l]][vec_i], Data(vec_i, p))
                    /\ vec_i \in Rows
    <3>1. vec_i \in Rows
      BY DEF EncodeInv, StripsType
    <3> QED
      BY <2>2, <2>3, <2>4, <3>1 DEF OneProduct
  <2> QED
    BY <1>1, <2>2, <2>3, <2>5, <2>6 DEF Value
<1>6. CASE part = "decode"
  <2>1. /\ l \in 0 .. nerrs - 1 /\ srcs = decode_index /\ coding = frag_err_list
        /\ g_tbls[l] = [j \in Rows |-> Tables[decode_matrix[l][j]]]
        /\ pc = "done" /\ ~ Updating
    BY <1>6 DEF EncodeInv, Called, Total, ec_init_tables, Updating
  <2>2. /\ Rebuilds(l) /\ l \in 0 .. m - 1
        /\ decode_index \in [Rows -> Fragments]
    <3>1. nerrs \in 0 .. m - k
      BY ListLength DEF EncodeInv, DecodeInv, SelectionInv
    <3> QED
      BY <2>1, <3>1, ShapeAssumption DEF EncodeInv, DecodeInv, RowsSelected, RowsDone
  <2>3. PICK a \in Vectors : a = decode_matrix[l]
    BY <2>2 DEF EncodeInv, DecodeInv, MatrixType
  <2>4. PICK sel \in Matrices : /\ sel = Selected
                                /\ \A j \in Rows : sel[j] = encode_matrix[decode_index[j]]
    BY <2>2, SelectedType
  <2>5. Products(l, p) = Dot(a, x)
    BY <1>4, <2>1, <2>3
  <2>6. x = [j \in Rows |-> Dot(sel[j], D)]
    BY <1>2, <1>3, <2>1, <2>4
  <2>7. Dot(TimesMatrix(a, sel), D) = Dot(a, x)
    BY <2>6, DotSwap DEF TimesMatrix
  <2>8. TimesMatrix(a, sel) = encode_matrix[coding[l]]
    BY <2>1, <2>2, <2>3, <2>4 DEF Rebuilds
  <2> QED
    BY <1>1, <2>1, <2>5, <2>7, <2>8 DEF Value
<1> QED
  BY <1>5, <1>6 DEF Working

-----------------------------------------------------------------------------
(* From one vector to the next.                                            *)

(* A last vector that overlaps the one before it.                          *)
LEMMA Overlap ==
  ASSUME NEW w \in Nat \ {0}, NEW h \in Nat \ {0}, NEW z \in 0 .. w - 1
  PROVE  (w * h + z) % w = z /\ (w * h + z - w) % w = z
<1>1. PICK size \in Nat : size = w * h + z
  OBVIOUS
<1>2. size % w = z
  BY <1>1, Quotient
<1>3. PICK q \in Nat : h = q + 1
  <2>1. h - 1 \in Nat /\ h = (h - 1) + 1
    OBVIOUS
  <2> QED
    BY <2>1
<1>4. w * h = w * q + w /\ w * q \in Nat
  BY <1>3
<1>5. PICK y \in Nat : y = w * q + z
  BY <1>4
<1>6. y % w = z
  BY <1>5, Quotient
<1>7. y = w * h + z - w
  BY <1>4, <1>5
<1> QED
  BY <1>1, <1>2, <1>6, <1>7

(* Where the vector after x starts, and up to where the bytes are done     *)
(* before the one at x.                                                    *)
Aligned(x, w) == x % w = 0
Onward(x, w, size) == IF x + w <= size - w THEN x + w ELSE size - w
Filled(x, w, size) == IF x % w # 0 THEN size - (size % w) ELSE x

Advances(x, w, size) ==
  /\ Filled(x, w, size) \in Nat /\ Filled(x, w, size) >= x
  /\ x # size - w => /\ Onward(x, w, size) \in 0 .. size - w /\ Onward(x, w, size) # 0
                     /\ Onward(x, w, size) # size - w => Aligned(Onward(x, w, size), w)
                     /\ Filled(x, w, size) = x
                     /\ Filled(Onward(x, w, size), w, size) = x + w

LEMMA NextPlace ==
  ASSUME NEW w \in Nat \ {0}, NEW size \in Nat, w <= size,
         NEW x \in 0 .. size - w, x # size - w => Aligned(x, w)
  PROVE  Advances(x, w, size)
<1> DEFINE next == Onward(x, w, size)
           done == Filled(x, w, size)
           more == Filled(next, w, size)
<1> USE DEF Aligned, Onward, Filled
<1>0. x \in Nat /\ size - w \in Nat
  OBVIOUS
<1>1. x % w # 0 => x = size - w
  OBVIOUS
<1>2. done \in Nat /\ done >= x
  <2>1. CASE x % w # 0
    <3>1. x = size - w
      BY <1>1, <2>1
    <3>2. PICK z \in 0 .. w - 1 : z = size % w
      BY Division
    <3> QED
      BY <2>1, <3>1, <3>2
  <2>2. CASE x % w = 0
    BY <1>0, <2>2
  <2> QED
    BY <2>1, <2>2
<1>3. ASSUME x # size - w
      PROVE  /\ next \in 0 .. size - w /\ next # 0
             /\ next # size - w => next % w = 0
             /\ done = x /\ more = x + w
  <2>1. x % w = 0 /\ x < size - w
    BY <1>0, <1>3
  <2>2. PICK q \in Nat : q = x \div w /\ x = w * q
    <3>1. x \div w \in Nat /\ x = w * (x \div w) + (x % w)
      BY <1>0, Division
    <3>2. PICK q \in Nat : q = x \div w
      BY <3>1
    <3>3. x = w * q + 0 /\ w * q \in Nat
      BY <2>1, <3>1, <3>2
    <3> QED
      BY <3>2, <3>3
  <2>3. w * (q + 1) = x + w
    BY <2>2
  <2>4. CASE x + w <= size - w
    <3>1. next = x + w
      BY <2>4
    <3>2. next % w = 0
      <4>1. PICK y \in Nat : y = x + w
        BY <1>0
      <4>2. y = w * (q + 1) + 0 /\ 0 \in 0 .. w - 1 /\ q + 1 \in Nat
        BY <2>3, <4>1
      <4>3. y % w = 0
        BY <4>2, Quotient
      <4> QED
        BY <3>1, <4>1, <4>3
    <3> QED
      BY <1>0, <2>1, <2>4, <3>1, <3>2
  <2>5. CASE ~ (x + w <= size - w)
    <3>1. next = size - w
      BY <2>5
    <3>2. PICK z \in 1 .. w - 1 : size = x + w + z
      <4>1. size - (x + w) \in 1 .. w - 1
        BY <1>0, <2>1, <2>5
      <4> QED
        BY <1>0, <4>1
    <3>3. size = w * (q + 1) + z
      BY <2>3, <3>2
    <3>4. size % w = z /\ next % w = z
      <4>1. PICK h \in Nat \ {0} : h = q + 1
        OBVIOUS
      <4>2. z \in 0 .. w - 1
        OBVIOUS
      <4>3. (w * h + z) % w = z /\ (w * h + z - w) % w = z
        BY <4>2, Overlap
      <4> QED
        BY <3>1, <3>3, <4>1, <4>3
    <3>5. more = size - z
      BY <3>2, <3>4
    <3> QED
      BY <1>0, <2>1, <3>1, <3>2, <3>5
  <2> QED
    BY <2>4, <2>5
<1> QED
  BY <1>2, <1>3 DEF Advances

(* The group of rows a kernel works on.                                    *)
LEMMA GroupShape ==
  ASSUME EncodeInv, Kernel
  PROVE  /\ \E g \in 1 .. rows : /\ GroupRows = 0 .. g - 1 /\ Cardinality(GroupRows) = g
                                 /\ Lines = coding_at .. coding_at + g - 1
         /\ Working /\ Total \in Nat /\ rows \in Nat /\ coding_at \in Nat
         /\ coding_at = Total - rows /\ tbls_at = coding_at
         /\ Lines \subseteq 0 .. Total - 1
         /\ \A l \in Lines : TableOf(l) = l /\ l - coding_at \in GroupRows
<1>1. Working
  BY DEF Kernel, Working
<1>2. /\ Total \in Nat /\ rows \in 0 .. Total /\ rows > 0
      /\ coding_at = Total - rows /\ tbls_at = coding_at /\ coding_at \in Nat
  BY <1>1, CallShape DEF EncodeInv, Place, Kernel
<1>3. PICK g \in 1 .. rows : GroupRows = 0 .. g - 1
  <2>1. Group \in Nat \ {0}
    BY LoopAssumption
  <2>2. update_rows \in 1 .. rows /\ encode_rows \in 1 .. rows
    BY <1>2, <2>1 DEF update_rows, encode_rows
  <2> QED
    BY <2>2 DEF GroupRows
<1>4. Cardinality(GroupRows) = g
  <2>1. Cardinality(0 .. g - 1) = IF 0 > g - 1 THEN 0 ELSE (g - 1) - 0 + 1
    BY FS_Interval
  <2> QED
    BY <1>3, <2>1
<1>5. Lines = coding_at .. coding_at + g - 1
  <2>1. ASSUME NEW x \in coding_at .. coding_at + g - 1 PROVE x \in Lines
    <3>1. x - coding_at \in 0 .. g - 1 /\ x = coding_at + (x - coding_at)
      BY <1>2
    <3> QED
      BY <1>3, <3>1 DEF Lines
  <2>2. ASSUME NEW x \in Lines PROVE x \in coding_at .. coding_at + g - 1
    <3>1. PICK l \in 0 .. g - 1 : x = coding_at + l
      BY <1>3 DEF Lines
    <3> QED
      BY <1>2, <3>1
  <2> QED
    BY <2>1, <2>2
<1>6. Lines \subseteq 0 .. Total - 1
  BY <1>2, <1>5
<1>7. ASSUME NEW l \in Lines PROVE TableOf(l) = l /\ l - coding_at \in GroupRows
  <2>1. l \in coding_at .. coding_at + g - 1
    BY <1>5
  <2> QED
    BY <1>2, <1>3, <2>1 DEF TableOf
<1> QED
  BY <1>1, <1>2, <1>3, <1>4, <1>5, <1>6, <1>7

LEMMA VectorShape ==
  ASSUME StripsType, Simd
  PROVE  /\ Width[isa] \in Nat \ {0} /\ len \in Nat /\ Width[isa] <= len
         /\ LastVector = len - Width[isa] /\ LastVector \in Nat
<1>1. isa # "base" /\ isa \in DOMAIN Width /\ len >= Width[isa]
  BY DEF StripsType, Simd
<1> QED
  BY <1>1, LengthType DEF LastVector

(* What Store leaves: shapes and all strips but those of the lines.        *)
Stored(lines, span, value) ==
  /\ strip' \in [Fragments -> [Bytes -> ByteValues]]
  /\ len' = len /\ Bytes' = Bytes
  /\ \A s \in Fragments : \A p \in Bytes :
       strip'[s][p] = IF p \in span /\ \E l \in lines : coding[l] = s
                      THEN value[CHOOSE l \in lines : coding[l] = s][p]
                      ELSE strip[s][p]
  /\ \A s \in Fragments : (\A l \in lines : coding[l] # s) => strip'[s] = strip[s]

LEMMA StoreShape ==
  ASSUME StripsType, NEW lines, NEW span, NEW value, Store(lines, span, value),
         \A l \in lines : \A p \in Bytes : p \in span => value[l][p] \in ByteValues
  PROVE  Stored(lines, span, value)
<1> DEFINE Byte(s, p) == IF p \in span /\ \E l \in lines : coding[l] = s
                         THEN value[CHOOSE l \in lines : coding[l] = s][p]
                         ELSE strip[s][p]
<1>1. strip' = [s \in Fragments |-> [p \in Bytes |-> Byte(s, p)]]
  BY DEF Store
<1>2. ASSUME NEW s \in Fragments, NEW p \in Bytes PROVE Byte(s, p) \in ByteValues
  <2>1. CASE p \in span /\ \E l \in lines : coding[l] = s
    <3>1. (CHOOSE l \in lines : coding[l] = s) \in lines
      BY <2>1
    <3> QED
      BY <2>1, <3>1
  <2>2. CASE ~ (p \in span /\ \E l \in lines : coding[l] = s)
    BY <2>2 DEF StripsType
  <2> QED
    BY <2>1, <2>2
<1>3. strip' \in [Fragments -> [Bytes -> ByteValues]]
  <2> HIDE DEF Byte
  <2> QED
    BY <1>1, <1>2
<1>4. len' = len /\ Bytes' = Bytes
  <2>1. 0 \in Fragments
    BY ShapeAssumption DEF Fragments
  <2>2. DOMAIN strip'[0] = Bytes /\ DOMAIN strip[0] = Bytes
    BY <1>3, <2>1 DEF StripsType
  <2>3. len' = len
    BY <2>2 DEF len
  <2> QED
    BY <2>3 DEF Bytes
<1>5. \A s \in Fragments : \A p \in Bytes : strip'[s][p] = Byte(s, p)
  <2> HIDE DEF Byte
  <2> QED
    BY <1>1
<1>6. ASSUME NEW s \in Fragments, \A l \in lines : coding[l] # s PROVE strip'[s] = strip[s]
  <2>1. \A p \in Bytes : strip'[s][p] = strip[s][p]
    BY <1>5, <1>6
  <2>2. strip'[s] \in [Bytes -> ByteValues] /\ strip[s] \in [Bytes -> ByteValues]
    BY <1>3 DEF StripsType
  <2> QED
    BY <2>1, <2>2
<1> QED
  BY <1>3, <1>4, <1>5, <1>6 DEF Stored

LEMMA DecodeStays == DecodeInv /\ UNCHANGED vars => DecodeInv'
BY DecodeStep

(* A kernel has done one vector of its lines right.                        *)
LEMMA KernelStep ==
  ASSUME EncodeInv, Kernel, NextVector, UNCHANGED vars, UNCHANGED <<part, vec_i>>,
         strip' \in [Fragments -> [Bytes -> ByteValues]], len' = len, Bytes' = Bytes,
         \A s \in Whole : strip'[s] = strip[s],
         \A l \in 0 .. Total - 1 : \A p \in Bytes :
           /\ l \in Lines /\ p \in Vector => strip'[coding[l]][p] = After(l, p)
           /\ \/ strip'[coding[l]][p] = strip[coding[l]][p]
              \/ /\ strip'[coding[l]][p] = After(l, p)
                 /\ Updating => l \in Lines /\ p \in Vector,
         Updating /\ Saves => \A l \in Lines : \A p \in Bytes :
                       backup'[l - coding_at][p] = Partial(coding[l], p, vec_i)
  PROVE  EncodeInv'
<1>0. /\ Simd /\ Working /\ part \in {"encode", "decode"}
      /\ UNCHANGED <<fn, isa, g_tbls, srcs, coding, part, vec_i>>
      /\ StripsType /\ DecodeInv
  BY DEF Kernel, Working, EncodeInv
<1>1. /\ Simd' = Simd /\ Updating' = Updating /\ Working' = Working /\ LastVector' = LastVector
      /\ nerrs' = nerrs /\ frag_in_err' = frag_in_err /\ Total' = Total /\ Whole' = Whole
  BY <1>0 DEF Simd, Updating, Working, LastVector, nerrs, frag_in_err, Total, Whole, vars
<1>2. DecodeInv' /\ StripsType' /\ Called'
  <2>1. StripsType'
    BY <1>0 DEF StripsType
  <2>2. Called'
    BY <1>0, <1>1 DEF EncodeInv, Called, vars
  <2> QED
    BY <1>0, <2>1, <2>2, DecodeStays
<1>3. \A s \in Whole' : Good(s)'
  <2>1. \A s \in Whole : \A p \in Bytes : strip[s][p] = Value(s, p)
    BY DEF EncodeInv, Good
  <2> QED
    BY <1>1, <2>1 DEF Good, Value, DataAt
<1>4. PICK g \in 1 .. rows : /\ GroupRows = 0 .. g - 1 /\ Cardinality(GroupRows) = g
                             /\ Lines = coding_at .. coding_at + g - 1
  BY GroupShape
<1>5. /\ Total \in Nat /\ rows \in 1 .. Total /\ coding_at \in Nat
      /\ coding_at = Total - rows /\ tbls_at = coding_at
      /\ vec_i \in Rows /\ pos \in 0 .. LastVector
      /\ pos # LastVector => pos % Width[isa] = 0
  BY <1>0, GroupShape DEF Kernel, EncodeInv, StripsType, Place
<1>6. PICK w \in Nat \ {0}, size \in Nat :
        w = Width[isa] /\ size = len /\ w <= size /\ LastVector = size - w
  BY <1>0, VectorShape
<1>8. Done = Filled(pos, w, size) /\ Done' = Filled(pos', w, size)
  BY <1>0, <1>6 DEF Done, Tail, Filled
<1>7. PICK next : next = Onward(pos, w, size)
  OBVIOUS
<1>9. /\ Done \in Nat /\ Done >= pos
      /\ pos # LastVector => /\ next \in 0 .. LastVector /\ next # 0
                             /\ next # LastVector => next % Width[isa] = 0
                             /\ Done = pos /\ Filled(next, w, size) = pos + w
  <2>1. pos \in 0 .. size - w /\ (pos # size - w => Aligned(pos, w))
    BY <1>5, <1>6 DEF Aligned
  <2>2. PICK x \in 0 .. size - w : x = pos /\ (x # size - w => Aligned(x, w))
    BY <2>1
  <2>3. w <= size
    BY <1>6
  <2>4. Advances(x, w, size)
    BY <2>2, <2>3, NextPlace, Zenon
  <2> QED
    BY <1>6, <1>7, <1>8, <2>2, <2>4 DEF Advances, Aligned
<1>10. \A l \in 0 .. Total - 1 : \A p \in Bytes :
         IF l < coding_at \/ (l \in Lines /\ p < Done)
         THEN strip'[coding[l]][p] = After(l, p)
         ELSE Updating => strip[coding[l]][p] = Partial(coding[l], p, vec_i)
  BY <1>0 DEF EncodeInv, LinesDone, Finished
<1>11. Vector = pos .. pos + w - 1 /\ Bytes = 0 .. size - 1
  BY <1>6 DEF Vector, Bytes
<1>12. \A l, p : After(l, p)' = After(l, p)
  BY <1>0, <1>1 DEF After, Partial, Value, DataAt
<1>13. SUFFICES Place' /\ LinesDone' /\ BackupKept'
  BY <1>2, <1>3 DEF EncodeInv
<1>14. CASE pos # LastVector
  <2>1. pos' = next /\ UNCHANGED <<rows, tbls_at, coding_at>>
    BY <1>6, <1>7, <1>14 DEF NextVector, Onward
  <2>2. GroupRows' = GroupRows /\ Lines' = Lines
    <3>1. GroupRows' = GroupRows
      BY <1>1, <2>1 DEF GroupRows, update_rows, encode_rows
    <3> QED
      BY <2>1, <3>1 DEF Lines
  <2>3. Done' = pos + w /\ Done = pos
    BY <1>8, <1>9, <1>14, <2>1
  <2>4. Place'
    BY <1>0, <1>1, <1>5, <1>6, <1>9, <1>14, <2>1 DEF Place
  <2>5. ASSUME NEW l \in 0 .. Total - 1, NEW p \in Bytes
        PROVE  IF Finished(l, p)' THEN strip'[coding'[l]][p] = After(l, p)'
               ELSE Updating' => strip'[coding'[l]][p] = Partial(coding'[l], p, vec_i')
    <3>1. Finished(l, p)' <=> (l < coding_at \/ (l \in Lines /\ p < pos + w))
      BY <1>0, <1>1, <2>1, <2>2, <2>3 DEF Finished
    <3>2. p \in Nat
      BY <1>11
    <3>3. CASE l < coding_at \/ (l \in Lines /\ p < Done)
      <4>1. Finished(l, p)'
        BY <1>5, <1>6, <2>3, <3>1, <3>2, <3>3
      <4> QED
        BY <1>0, <1>10, <1>12, <3>3, <4>1
    <3>4. CASE ~ (l < coding_at \/ (l \in Lines /\ p < Done))
      <4>1. CASE l \in Lines /\ p < pos + w
        <5>1. p \in Vector
          <6>1. PICK x \in Nat : x = pos
            BY <1>5, <1>6
          <6>2. p \in x .. x + w - 1
            BY <2>3, <3>2, <3>4, <4>1, <6>1
          <6> QED
            BY <1>11, <6>1, <6>2
        <5> QED
          BY <1>0, <1>12, <3>1, <4>1, <5>1
      <4>2. CASE ~ (l \in Lines /\ p < pos + w)
        <5>1. ~ Finished(l, p)'
          BY <3>1, <3>4, <4>2
        <5>2. ~ (l \in Lines /\ p \in Vector)
          BY <1>5, <1>11, <3>2, <4>2
        <5> QED
          BY <1>0, <1>1, <1>10, <3>4, <5>1, <5>2
      <4> QED
        BY <4>1, <4>2
    <3> QED
      BY <3>3, <3>4
  <2>6. LinesDone'
    BY <1>1, <2>5 DEF LinesDone, Partial
  <2>7. BackupKept'
    <3>1. Saves' = Saves
      BY <1>0, <2>2 DEF Saves
    <3> QED
      BY <1>0, <1>1, <2>1, <2>2, <3>1 DEF BackupKept, Partial
  <2> QED
    BY <2>4, <2>6, <2>7
<1>15. CASE pos = LastVector
  <2>1. /\ tbls_at' = tbls_at + g /\ coding_at' = coding_at + g /\ rows' = rows - g /\ pos' = 0
    BY <1>4, <1>15 DEF NextVector
  <2>2. Done' = 0
    <3>1. 0 % w = 0
      BY <1>6
    <3> QED
      BY <1>8, <2>1, <3>1 DEF Filled
  <2>3. Place'
    <3>1. 0 \in 0 .. LastVector /\ 0 % Width[isa] = 0
      BY <1>5, <1>6
    <3>2. rows' \in 0 .. Total /\ tbls_at' = Total - rows' /\ coding_at' = Total - rows'
      BY <1>4, <1>5, <2>1
    <3> QED
      BY <1>0, <1>1, <1>5, <2>1, <3>1, <3>2 DEF Place
  <2>4. ASSUME NEW l \in 0 .. Total - 1, NEW p \in Bytes
        PROVE  IF Finished(l, p)' THEN strip'[coding'[l]][p] = After(l, p)'
               ELSE Updating' => strip'[coding'[l]][p] = Partial(coding'[l], p, vec_i')
    <3>1. p \in Nat /\ p <= size - 1
      BY <1>6, <1>11
    <3>2. Finished(l, p)' <=> l < coding_at + g
      BY <1>0, <1>1, <2>1, <2>2, <3>1 DEF Finished
    <3>3. CASE l < coding_at + g
      <4>1. l < coding_at \/ l \in Lines
        BY <1>4, <1>5, <3>3
      <4>2. p < Done \/ p \in Vector
        <5>1. PICK x \in Nat : x = pos /\ x + w = size
          BY <1>5, <1>6, <1>15
        <5>2. PICK d \in Nat : d = Done /\ d >= x
          BY <1>9, <5>1
        <5>3. p < d \/ p \in x .. x + w - 1
          BY <3>1, <5>1, <5>2
        <5> QED
          BY <1>11, <5>1, <5>2, <5>3
      <4> QED
        <5>1. strip'[coding[l]][p] = After(l, p)
          <6>1. CASE l < coding_at \/ (l \in Lines /\ p < Done)
            BY <1>10, <6>1
          <6>2. CASE l \in Lines /\ p \in Vector
            BY <6>2
          <6> QED
            BY <4>1, <4>2, <6>1, <6>2
        <5> QED
          BY <1>0, <1>12, <3>2, <3>3, <5>1
    <3>4. CASE ~ (l < coding_at + g)
      <4>1. ~ (l < coding_at) /\ l \notin Lines
        BY <1>4, <1>5, <3>4, SMTT(60)
      <4> QED
        BY <1>0, <1>1, <1>10, <3>2, <3>4, <4>1
    <3> QED
      BY <3>3, <3>4
  <2>5. LinesDone'
    BY <1>1, <2>4 DEF LinesDone, Partial
  <2>6. BackupKept'
    BY <2>1 DEF BackupKept
  <2> QED
    BY <2>3, <2>5, <2>6
<1> QED
  BY <1>14, <1>15

LEMMA DotProdStep ==
  ASSUME EncodeInv, DotProd, UNCHANGED vars
  PROVE  EncodeInv'
<1> DEFINE value == [l \in Lines |-> [p \in Vector |-> Products(TableOf(l), p)]]
<1>1. /\ Kernel /\ ~ Updating /\ Store(Lines, Vector, value) /\ NextVector
      /\ UNCHANGED <<part, vec_i>> /\ StripsType
  BY DEF DotProd, EncodeInv
<1>2. /\ Working /\ Lines \subseteq 0 .. Total - 1 /\ \A l \in Lines : TableOf(l) = l
  BY <1>1, GroupShape
<1>3. ASSUME NEW l \in Lines, NEW p \in Bytes, p \in Vector
      PROVE  value[l][p] = Value(coding[l], p) /\ value[l][p] \in ByteValues
  <2>1. value[l][p] = Products(l, p)
    BY <1>2, <1>3
  <2>2. coding[l] \in Fragments /\ l \in 0 .. Total - 1
    BY <1>2, CallShape
  <2> HIDE DEF value
  <2> QED
    BY <1>1, <1>2, <2>1, <2>2, CallProducts, ValueType
<1> HIDE DEF value
<1>4. /\ strip' \in [Fragments -> [Bytes -> ByteValues]] /\ len' = len /\ Bytes' = Bytes
      /\ \A s \in Fragments : \A p \in Bytes :
           strip'[s][p] = IF p \in Vector /\ \E l \in Lines : coding[l] = s
                          THEN value[CHOOSE l \in Lines : coding[l] = s][p]
                          ELSE strip[s][p]
      /\ \A s \in Fragments : (\A l \in Lines : coding[l] # s) => strip'[s] = strip[s]
  <2>1. \A l \in Lines : \A p \in Bytes : p \in Vector => value[l][p] \in ByteValues
    BY <1>3
  <2>2. Stored(Lines, Vector, value)
    BY <1>1, <2>1, StoreShape, Zenon
  <2> QED
    BY <2>2 DEF Stored
<1>5. ASSUME NEW s \in Fragments, NEW p \in Bytes
      PROVE  /\ p \in Vector /\ (\E l \in Lines : coding[l] = s) => strip'[s][p] = Value(s, p)
             /\ strip'[s][p] = strip[s][p] \/ strip'[s][p] = Value(s, p)
  <2>1. CASE p \in Vector /\ \E l \in Lines : coding[l] = s
    <3>1. PICK l \in Lines : l = CHOOSE y \in Lines : coding[y] = s
      BY <2>1
    <3>2. coding[l] = s
      BY <2>1, <3>1
    <3> QED
      BY <1>3, <1>4, <2>1, <3>1, <3>2
  <2>2. CASE ~ (p \in Vector /\ \E l \in Lines : coding[l] = s)
    BY <1>4, <2>2
  <2> QED
    BY <2>1, <2>2
<1>6. \A s \in Whole : strip'[s] = strip[s]
  <2>1. \A s \in Whole : s \in Fragments /\ \A l \in Lines : coding[l] # s
    BY <1>2, CallShape, ValueType, EncodeType DEF Whole
  <2> QED
    BY <1>4, <2>1
<1>7. ASSUME NEW l \in 0 .. Total - 1, NEW p \in Bytes
      PROVE  /\ l \in Lines /\ p \in Vector => strip'[coding[l]][p] = After(l, p)
             /\ \/ strip'[coding[l]][p] = strip[coding[l]][p]
                \/ /\ strip'[coding[l]][p] = After(l, p)
                   /\ Updating => l \in Lines /\ p \in Vector
  <2>1. After(l, p) = Value(coding[l], p)
    BY <1>1 DEF After
  <2>2. coding[l] \in Fragments
    BY <1>2, CallShape
  <2> QED
    BY <1>1, <1>5, <2>1, <2>2
<1> QED
  BY <1>1, <1>4, <1>6, <1>7, KernelStep

(* dest + product, from the bytes of the call's beginning: those no vector *)
(* has met yet, which the mask leaves to the tail pass, or those saved.    *)
LEMMA MadByte ==
  ASSUME EncodeInv, Kernel, Updating, NEW l \in Lines, NEW p \in Bytes, p \in Vector
  PROVE  (IF Saves THEN gf_vect_mad(l, p) ELSE gf_6vect_mad(l, p)) = After(l, p)
<1>1. /\ Working /\ Simd /\ StripsType /\ l \in 0 .. Total - 1 /\ TableOf(l) = l
      /\ coding_at \in Nat /\ \A x \in Lines : x >= coding_at
  <2>1. /\ Working /\ Lines \subseteq 0 .. Total - 1 /\ TableOf(l) = l /\ coding_at \in Nat
        /\ \A x \in Lines : x - coding_at \in GroupRows
    BY GroupShape
  <2>2. PICK g \in 1 .. rows : Lines = coding_at .. coding_at + g - 1
    BY GroupShape
  <2> QED
    BY <2>1, <2>2 DEF Kernel, EncodeInv
<1>2. PICK s \in Fragments : s = coding[l]
  BY <1>1, CallShape
<1>3. /\ Product(l, p) = Mul(encode_matrix[s][vec_i], Data(vec_i, p)) /\ vec_i \in Rows
  BY <1>1, <1>2, CallProducts DEF Product
<1>4. After(l, p) = Add(Partial(s, p, vec_i), Product(l, p))
  BY <1>1, <1>2, <1>3, PartialSums DEF After
<1>5. /\ p < Done => strip[s][p] = After(l, p)
      /\ ~ (p < Done) => strip[s][p] = Partial(s, p, vec_i)
  <2>1. ~ (l < coding_at)
    <3>1. l >= coding_at /\ l \in Nat
      BY <1>1
    <3> QED
      BY <1>1, <3>1
  <2>2. Finished(l, p) <=> p < Done
    BY <1>1, <2>1 DEF Finished
  <2> QED
    BY <1>1, <1>2, <2>2 DEF EncodeInv, LinesDone
<1>6. p >= pos /\ pos \in Nat
  <2>1. Width[isa] \in Nat \ {0} /\ LastVector \in Nat /\ pos \in 0 .. LastVector
    BY <1>1, VectorShape DEF EncodeInv, Place
  <2> QED
    BY <2>1 DEF Vector
<1>7. CASE ~ Saves
  <2>1. CASE Tail /\ p < len - (len % Width[isa])
    <3>1. p < Done
      BY <2>1 DEF Done
    <3> QED
      BY <1>2, <1>5, <1>7, <2>1, <3>1 DEF gf_6vect_mad
  <2>2. CASE ~ (Tail /\ p < len - (len % Width[isa]))
    <3>1. ~ (p < Done)
      BY <1>6, <2>2 DEF Done, Bytes
    <3> QED
      BY <1>2, <1>4, <1>5, <1>7, <2>2, <3>1 DEF gf_6vect_mad
  <2> QED
    BY <2>1, <2>2
<1>8. CASE Saves
  <2>1. CASE Tail
    <3>1. pos # 0
      <4>1. Width[isa] \in Nat \ {0}
        BY <1>1, VectorShape
      <4>2. 0 % Width[isa] = 0
        BY <4>1
      <4> QED
        BY <2>1, <4>2 DEF Tail
    <3>2. backup[l - coding_at][p] = Partial(s, p, vec_i)
      BY <1>1, <1>2, <1>8, <3>1 DEF EncodeInv, BackupKept
    <3> QED
      BY <1>4, <1>8, <2>1, <3>2 DEF gf_vect_mad
  <2>2. CASE ~ Tail
    <3>1. ~ (p < Done)
      BY <1>6, <2>2 DEF Done, Bytes
    <3> QED
      BY <1>2, <1>4, <1>5, <1>8, <2>2, <3>1 DEF gf_vect_mad
  <2> QED
    BY <2>1, <2>2
<1> QED
  BY <1>7, <1>8

LEMMA MadStep ==
  ASSUME EncodeInv, Mad, UNCHANGED vars
  PROVE  EncodeInv'
<1> DEFINE value == [l \in Lines |-> [p \in Vector |->
                       IF Saves THEN gf_vect_mad(l, p) ELSE gf_6vect_mad(l, p)]]
<1>1. /\ Kernel /\ Updating /\ Store(Lines, Vector, value) /\ NextVector
      /\ UNCHANGED <<part, vec_i>> /\ StripsType /\ (Saves => backup' = Backup)
  BY DEF Mad, EncodeInv
<1>2. /\ Working /\ Simd /\ Lines \subseteq 0 .. Total - 1
      /\ \A l \in Lines : l - coding_at \in GroupRows /\ coding_at + (l - coding_at) = l
  <2>1. /\ Working /\ Lines \subseteq 0 .. Total - 1 /\ coding_at \in Nat /\ Total \in Nat
        /\ \A l \in Lines : l - coding_at \in GroupRows
    BY <1>1, GroupShape
  <2> QED
    BY <1>1, <2>1 DEF Kernel
<1>3. ASSUME NEW l \in Lines, NEW p \in Bytes, p \in Vector
      PROVE  value[l][p] = After(l, p) /\ value[l][p] \in ByteValues
  <2>1. value[l][p] = After(l, p)
    BY <1>1, <1>3, MadByte
  <2>2. coding[l] \in Fragments /\ vec_i \in Rows
    BY <1>2, CallShape DEF EncodeInv, StripsType
  <2>3. /\ Partial(coding[l], p, vec_i) \in ByteValues
        /\ Mul(encode_matrix[coding[l]][vec_i], Data(vec_i, p)) \in ByteValues
        /\ After(l, p) = Add(Partial(coding[l], p, vec_i),
                             Mul(encode_matrix[coding[l]][vec_i], Data(vec_i, p)))
    BY <1>1, <2>2, PartialSums DEF After
  <2> HIDE DEF value
  <2> QED
    BY <2>1, <2>3, AddType
<1> HIDE DEF value
<1>4. Stored(Lines, Vector, value)
  <2>1. \A l \in Lines : \A p \in Bytes : p \in Vector => value[l][p] \in ByteValues
    BY <1>3
  <2> QED
    BY <1>1, <2>1, StoreShape, Zenon
<1>5. \A s \in Whole : strip'[s] = strip[s]
  <2>1. \A s \in Whole : s \in Fragments /\ \A l \in Lines : coding[l] # s
    BY <1>2, CallShape, ValueType, EncodeType DEF Whole
  <2> QED
    BY <1>4, <2>1 DEF Stored
<1>6. ASSUME NEW l \in 0 .. Total - 1, NEW p \in Bytes
      PROVE  /\ l \in Lines /\ p \in Vector => strip'[coding[l]][p] = After(l, p)
             /\ \/ strip'[coding[l]][p] = strip[coding[l]][p]
                \/ /\ strip'[coding[l]][p] = After(l, p)
                   /\ Updating => l \in Lines /\ p \in Vector
  <2>1. /\ coding[l] \in Fragments
        /\ \A y \in Lines : coding[y] = coding[l] => y = l
    BY <1>1, <1>2, CallShape
  <2>2. CASE l \in Lines /\ p \in Vector
    <3>1. (CHOOSE y \in Lines : coding[y] = coding[l]) = l
      BY <2>1, <2>2
    <3>2. strip'[coding[l]][p] = value[l][p]
      BY <1>4, <2>1, <2>2, <3>1 DEF Stored
    <3> QED
      BY <1>3, <2>2, <3>2
  <2>3. CASE ~ (l \in Lines /\ p \in Vector)
    <3>1. ~ (p \in Vector /\ \E y \in Lines : coding[y] = coding[l])
      BY <2>1, <2>3
    <3> QED
      BY <1>4, <2>1, <2>3, <3>1 DEF Stored
  <2> QED
    BY <2>2, <2>3
<1>7. ASSUME Saves, NEW l \in Lines, NEW p \in Bytes
      PROVE  backup'[l - coding_at][p] = Partial(coding[l], p, vec_i)
  <2>1. CASE pos # 0
    BY <1>1, <1>2, <1>7, <2>1 DEF EncodeInv, BackupKept, Backup
  <2>2. CASE pos = 0
    <3>1. backup'[l - coding_at][p] = strip[coding[l]][p]
      BY <1>1, <1>2, <1>7, <2>2 DEF Backup
    <3>2. ~ Finished(l, p)
      <4>1. PICK g \in 1 .. rows : Lines = coding_at .. coding_at + g - 1
        BY <1>1, GroupShape
      <4>2. coding_at \in Nat
        BY <1>1, GroupShape
      <4>3. ~ (l < coding_at)
        BY <4>1, <4>2
      <4>4. Done = 0
        <5>1. Width[isa] \in Nat \ {0}
          BY <1>1, <1>2, VectorShape
        <5>2. 0 % Width[isa] = 0
          BY <5>1
        <5> QED
          BY <2>2, <5>2 DEF Done, Tail
      <4>5. ~ (p < 0)
        BY <1>1, LengthType
      <4> QED
        BY <4>3, <4>4, <4>5 DEF Finished
    <3> QED
      BY <1>1, <1>2, <3>1, <3>2 DEF EncodeInv, LinesDone
  <2> QED
    BY <2>1, <2>2
<1>8. strip' \in [Fragments -> [Bytes -> ByteValues]] /\ len' = len /\ Bytes' = Bytes
  BY <1>4 DEF Stored
<1> QED
  BY <1>1, <1>5, <1>6, <1>7, <1>8, KernelStep

(* The call is over: every line holds what it is to hold after it.         *)
LEMMA CallReturns ==
  ASSUME EncodeInv, Working, Return_ec, UNCHANGED vars,
         UNCHANGED <<fn, isa, g_tbls, srcs, coding>>,
         strip' \in [Fragments -> [Bytes -> ByteValues]], len' = len, Bytes' = Bytes,
         \A s \in Whole : strip'[s] = strip[s],
         \A l \in 0 .. Total - 1 : \A p \in Bytes : strip'[coding[l]][p] = After(l, p)
  PROVE  EncodeInv'
<1>0. /\ part \in {"encode", "decode"} /\ UNCHANGED <<fn, isa, g_tbls, srcs, coding>>
      /\ StripsType /\ DecodeInv /\ vec_i \in Rows /\ Total \in Nat
  BY CallShape DEF Working, EncodeInv, StripsType
<1>1. /\ Simd' = Simd /\ LastVector' = LastVector
      /\ nerrs' = nerrs /\ frag_in_err' = frag_in_err
  BY <1>0 DEF Simd, LastVector, nerrs, frag_in_err, vars
<1>2. DecodeInv'
  BY <1>0, DecodeStays
<1>3. \A s \in Whole : \A p \in Bytes : strip'[s][p] = Value(s, p)
  BY DEF EncodeInv, Good
<1>4. CASE Updating /\ vec_i < k - 1
  <2>1. /\ rows' = m - k /\ tbls_at' = 0 /\ coding_at' = 0 /\ pos' = 0
        /\ vec_i' = vec_i + 1 /\ part' = part /\ part = "encode" /\ Updating
    BY <1>4 DEF Return_ec, Begin, Updating
  <2>2. /\ Total' = m - k /\ Total = m - k /\ Whole' = Whole /\ Updating' /\ Working'
        /\ vec_i' \in Rows
    BY <1>0, <1>4, <2>1, ShapeAssumption DEF Total, Whole, Updating, Working, Rows
  <2>3. StripsType' /\ Called'
    BY <1>0, <2>1, <2>2 DEF StripsType, EncodeInv, Called
  <2>4. \A s \in Whole' : Good(s)'
    BY <1>3, <2>2 DEF Good, Value, DataAt
  <2>5. Simd => LastVector \in Nat /\ 0 % Width[isa] = 0
    <3>1. Simd => LastVector \in Nat /\ Width[isa] \in Nat \ {0}
      BY <1>0, VectorShape
    <3> QED
      BY <3>1
  <2>6. Place'
    <3>1. rows' \in 0 .. Total' /\ tbls_at' = Total' - rows' /\ coding_at' = Total' - rows'
      BY <2>1, <2>2, ShapeAssumption
    <3>2. Simd => 0 \in 0 .. LastVector
      BY <2>5
    <3> QED
      BY <1>0, <1>1, <2>1, <2>2, <2>5, <3>1, <3>2 DEF Place
  <2>7. LinesDone'
    <3> SUFFICES ASSUME NEW l \in 0 .. Total - 1, NEW p \in Bytes
                 PROVE  /\ ~ Finished(l, p)'
                        /\ strip'[coding[l]][p] = Partial(coding[l], p, vec_i + 1)
      BY <1>0, <2>1, <2>2 DEF LinesDone, Partial
    <3>1. ~ Finished(l, p)'
      <4>1. Simd => Done' = 0
        BY <1>0, <2>1, <2>5 DEF Done, Tail
      <4>2. p \in Nat /\ l \in Nat
        BY <1>0, LengthType
      <4> QED
        BY <1>1, <2>1, <4>1, <4>2 DEF Finished
    <3> QED
      BY <2>1, <3>1 DEF After
  <2>8. BackupKept'
    BY <2>1 DEF BackupKept
  <2> QED
    BY <1>2, <2>3, <2>4, <2>6, <2>7, <2>8 DEF EncodeInv
<1>5. CASE ~ (Updating /\ vec_i < k - 1)
  <2>1. part' = (IF part = "encode" THEN "lose" ELSE "end")
    BY <1>5 DEF Return_ec
  <2>2. /\ part' \in {"lose", "end"} /\ ~ Working' /\ ~ Updating'
        /\ Whole' = Fragments
    BY <2>1 DEF Working, Updating, Whole
  <2>a. vec_i' \in Rows
    BY <1>5, ShapeAssumption DEF Return_ec, Rows
  <2>3. StripsType' /\ Called'
    BY <1>0, <2>2, <2>a DEF StripsType, Called
  <2>4. ASSUME NEW s \in Fragments, NEW p \in Bytes PROVE strip'[s][p] = Value(s, p)
    <3>1. CASE s \in Whole
      BY <1>3, <3>1
    <3>2. CASE s \notin Whole
      <4>1. PICK l \in 0 .. Total - 1 : coding[l] = s
        BY <3>2, CallShape
      <4>2. strip'[s][p] = After(l, p)
        BY <4>1
      <4>3. Updating => vec_i + 1 = k
        BY <1>0, <1>5, ShapeAssumption DEF Rows
      <4> QED
        BY <1>0, <4>1, <4>2, <4>3, PartialSums DEF After
    <3> QED
      BY <3>1, <3>2
  <2>5. \A s \in Whole' : Good(s)'
    BY <2>2, <2>4 DEF Good, Value, DataAt
  <2>6. Place' /\ LinesDone' /\ BackupKept'
    BY <2>2 DEF Place, LinesDone, BackupKept
  <2> QED
    BY <1>2, <2>3, <2>5, <2>6 DEF EncodeInv
<1> QED
  BY <1>4, <1>5

LEMMA ScalarStep ==
  ASSUME EncodeInv, ScalarCode, UNCHANGED vars
  PROVE  EncodeInv'
<1> DEFINE value == [l \in 0 .. rows - 1 |-> [p \in Bytes |->
                       IF Updating THEN Add(strip[coding[l]][p], OneProduct(l, p))
                                   ELSE Products(l, p)]]
<1>1. /\ Working /\ ~ Simd /\ Store(0 .. rows - 1, Bytes, value) /\ Return_ec
      /\ UNCHANGED <<fn, isa, g_tbls, srcs, coding>> /\ StripsType
  BY DEF ScalarCode, Working, EncodeInv
<1>2. rows = Total /\ vec_i \in Rows
  BY <1>1 DEF EncodeInv, StripsType, Place
<1>3. ASSUME NEW l \in 0 .. Total - 1, NEW p \in Bytes
      PROVE  /\ value[l][p] = After(l, p) /\ value[l][p] \in ByteValues
             /\ ~ Updating => value[l][p] = Value(coding[l], p)
  <2>1. coding[l] \in Fragments
    BY <1>1, CallShape
  <2>2. CASE Updating
    <3>1. strip[coding[l]][p] = Partial(coding[l], p, vec_i)
      BY <1>1, <2>2 DEF EncodeInv, LinesDone, Finished
    <3>2. OneProduct(l, p) = Mul(encode_matrix[coding[l]][vec_i], Data(vec_i, p))
      BY <1>1, <2>2, CallProducts
    <3>3. value[l][p] = Add(strip[coding[l]][p], OneProduct(l, p))
      BY <1>2, <2>2
    <3>4. /\ After(l, p) = Add(Partial(coding[l], p, vec_i), OneProduct(l, p))
          /\ Partial(coding[l], p, vec_i) \in ByteValues /\ OneProduct(l, p) \in ByteValues
      BY <1>1, <1>2, <2>1, <2>2, <3>2, PartialSums DEF After
    <3> HIDE DEF value
    <3> QED
      BY <2>2, <3>1, <3>3, <3>4, AddType
  <2>3. CASE ~ Updating
    <3>1. value[l][p] = Products(l, p)
      BY <1>2, <2>3
    <3> HIDE DEF value
    <3> QED
      BY <1>1, <2>1, <2>3, <3>1, CallProducts, ValueType DEF After
  <2> QED
    BY <2>2, <2>3
<1> HIDE DEF value
<1>4. Stored(0 .. Total - 1, Bytes, value)
  <2>1. \A l \in 0 .. Total - 1 : \A p \in Bytes : p \in Bytes => value[l][p] \in ByteValues
    BY <1>3
  <2>2. Store(0 .. Total - 1, Bytes, value)
    BY <1>1, <1>2
  <2> QED
    BY <1>1, <2>1, <2>2, StoreShape, Zenon
<1>5. \A s \in Whole : strip'[s] = strip[s]
  <2>1. \A s \in Whole : s \in Fragments /\ \A l \in 0 .. Total - 1 : coding[l] # s
    BY <1>1, CallShape, ValueType, EncodeType DEF Whole
  <2> QED
    BY <1>4, <2>1 DEF Stored
<1>6. ASSUME NEW l \in 0 .. Total - 1, NEW p \in Bytes
      PROVE  strip'[coding[l]][p] = After(l, p)
  <2>1. PICK y \in 0 .. Total - 1 : y = CHOOSE x \in 0 .. Total - 1 : coding[x] = coding[l]
    OBVIOUS
  <2>2. coding[y] = coding[l] /\ coding[l] \in Fragments
    BY <1>1, <2>1, CallShape
  <2>3. strip'[coding[l]][p] = value[y][p]
    BY <1>4, <2>1, <2>2 DEF Stored
  <2>4. After(y, p) = After(l, p)
    BY <2>2 DEF After
  <2> QED
    BY <1>3, <2>3, <2>4
<1>7. strip' \in [Fragments -> [Bytes -> ByteValues]] /\ len' = len /\ Bytes' = Bytes
  BY <1>4 DEF Stored
<1> QED
  BY <1>1, <1>5, <1>6, <1>7, CallReturns

LEMMA KernelsDoneStep ==
  ASSUME EncodeInv, KernelsDone, UNCHANGED vars
  PROVE  EncodeInv'
<1>1. /\ Working /\ Simd /\ rows = 0 /\ Return_ec /\ StripsType
      /\ UNCHANGED <<fn, isa, g_tbls, srcs, coding, strip>>
  BY DEF KernelsDone, Working, EncodeInv
<1>2. Total \in Nat /\ coding_at = Total
  BY <1>1, CallShape DEF EncodeInv, Place
<1>3. \A l \in 0 .. Total - 1 : \A p \in Bytes : strip[coding[l]][p] = After(l, p)
  BY <1>1, <1>2 DEF EncodeInv, LinesDone, Finished
<1>4. strip' \in [Fragments -> [Bytes -> ByteValues]] /\ len' = len /\ Bytes' = Bytes
  BY <1>1 DEF StripsType, len, Bytes
<1> QED
  BY <1>1, <1>3, <1>4, CallReturns

LEMMA LoseStep ==
  ASSUME EncodeInv, Lose, UNCHANGED vars
  PROVE  EncodeInv'
<1>1. /\ part = "lose" /\ part' = "matrix" /\ StripsType /\ DecodeInv
      /\ strip' = [s \in Fragments |-> [p \in Bytes |->
                     IF s \in frag_in_err THEN Add(strip[s][p], 1) ELSE strip[s][p]]]
      /\ isa' = isa /\ vec_i' = vec_i
  BY DEF Lose, EncodeInv
<1>2. strip' \in [Fragments -> [Bytes -> ByteValues]]
  BY <1>1, AddType, Constants01 DEF StripsType
<1>3. len' = len /\ Bytes' = Bytes
  <2>1. 0 \in Fragments
    BY ShapeAssumption DEF Fragments
  <2>2. DOMAIN strip'[0] = Bytes /\ DOMAIN strip[0] = Bytes
    BY <1>1, <1>2, <2>1 DEF StripsType
  <2>3. len' = len
    BY <2>2 DEF len
  <2> QED
    BY <2>3 DEF Bytes
<1>4. StripsType'
  BY <1>1, <1>2, <1>3 DEF StripsType
<1>5. Whole = Fragments /\ Whole' = Fragments \ frag_in_err
  BY <1>1 DEF Whole, frag_in_err, vars
<1>6. \A s \in Whole' : \A p \in Bytes : strip'[s][p] = Value(s, p)
  BY <1>1, <1>5 DEF EncodeInv, Good
<1>7. \A s \in Whole' : Good(s)'
  BY <1>3, <1>6 DEF Good, Value, DataAt
<1>8. Called' /\ Place' /\ LinesDone' /\ BackupKept'
  BY <1>1 DEF Called, Place, LinesDone, BackupKept, Working, Updating
<1> QED
  BY <1>1, <1>4, <1>7, <1>8, DecodeStays DEF EncodeInv

LEMMA GenMatrixStep ==
  ASSUME EncodeInv, GenMatrix
  PROVE  EncodeInv'
<1>1. part = "matrix" /\ Next /\ UNCHANGED callVars /\ DecodeInv /\ StripsType
  BY DEF GenMatrix, EncodeInv
<1>2. DecodeInv'
  BY <1>1, DecodeStep
<1>3. frag_in_err' = frag_in_err /\ part' = part /\ strip' = strip /\ isa' = isa
      /\ vec_i' = vec_i
  BY <1>1 DEF Next, SkipErased, TakeSurvivor, CallInvert, Eliminate, Inverted, DecodeRow, Return,
              frag_in_err, callVars
<1>4. len' = len /\ Bytes' = Bytes /\ Whole' = Whole
  BY <1>1, <1>3 DEF len, Bytes, Whole
<1>5. StripsType'
  BY <1>1, <1>3, <1>4 DEF StripsType
<1>6. \A s \in Whole' : Good(s)'
  BY <1>3, <1>4 DEF EncodeInv, Good, Value, DataAt
<1>7. Called' /\ Place' /\ LinesDone' /\ BackupKept'
  BY <1>1, <1>3 DEF Called, Place, LinesDone, BackupKept, Working, Updating
<1> QED
  BY <1>2, <1>5, <1>6, <1>7 DEF EncodeInv

LEMMA InitTablesStep ==
  ASSUME EncodeInv, InitTables, UNCHANGED vars
  PROVE  EncodeInv'
<1>1. /\ part = "matrix" /\ part' = "decode" /\ pc = "done" /\ StripsType /\ DecodeInv
      /\ g_tbls' = ec_init_tables(nerrs, decode_matrix, 0) /\ srcs' = decode_index
      /\ coding' = frag_err_list
      /\ rows' = nerrs /\ tbls_at' = 0 /\ coding_at' = 0 /\ pos' = 0
      /\ UNCHANGED <<isa, strip, vec_i>>
  BY DEF InitTables, Begin, EncodeInv
<1>2. /\ len' = len /\ Bytes' = Bytes /\ nerrs' = nerrs /\ Whole' = Whole
      /\ Total' = nerrs /\ ~ Updating' /\ Working'
      /\ Simd' = Simd /\ LastVector' = LastVector
  BY <1>1 DEF len, Bytes, nerrs, Whole, Total, Updating, Working, Simd, LastVector,
              frag_in_err, vars
<1>3. StripsType' /\ Called'
  BY <1>1, <1>2 DEF StripsType, Called, vars
<1>4. \A s \in Whole' : Good(s)'
  BY <1>1, <1>2 DEF EncodeInv, Good, Value, DataAt
<1>5. nerrs \in Nat
  <2>1. nerrs \in 0 .. m - k
    BY <1>1, ListLength DEF DecodeInv, SelectionInv
  <2> QED
    BY <2>1, ShapeAssumption
<1>6. Simd => LastVector \in Nat /\ 0 % Width[isa] = 0 /\ Width[isa] \in Nat \ {0}
  <2>1. Simd => LastVector \in Nat /\ Width[isa] \in Nat \ {0}
    BY <1>1, VectorShape
  <2> QED
    BY <2>1
<1>7. Place'
  <2>1. vec_i \in Rows
    BY <1>1 DEF StripsType
  <2>2. Simd => 0 \in 0 .. LastVector
    BY <1>6
  <2>3. rows' \in 0 .. Total' /\ tbls_at' = Total' - rows' /\ coding_at' = Total' - rows'
    BY <1>1, <1>2, <1>5
  <2> QED
    BY <1>1, <1>2, <1>6, <2>1, <2>2, <2>3 DEF Place
<1>8. LinesDone'
  <2> SUFFICES ASSUME NEW l \in 0 .. nerrs - 1, NEW p \in Bytes PROVE ~ Finished(l, p)'
    BY <1>2 DEF LinesDone
  <2>1. Simd => Done' = 0
    BY <1>1, <1>6 DEF Done, Tail
  <2>2. p \in Nat /\ l \in Nat
    BY <1>1, <1>5, LengthType
  <2> QED
    BY <1>1, <1>2, <2>1, <2>2 DEF Finished
<1>9. BackupKept'
  BY <1>2 DEF BackupKept
<1> QED
  BY <1>1, <1>3, <1>4, <1>7, <1>8, <1>9, DecodeStays DEF EncodeInv

LEMMA EncodeStart == EncodeInit => EncodeInv
<1> SUFFICES ASSUME EncodeInit PROVE EncodeInv
  OBVIOUS
<1>1. /\ Init /\ part = "encode" /\ isa \in {"base"} \cup DOMAIN Width
      /\ g_tbls = ec_init_tables(m - k, encode_matrix, k)
      /\ srcs = [j \in Rows |-> j] /\ coding = [l \in 0 .. m - k - 1 |-> k + l]
      /\ rows = m - k /\ tbls_at = 0 /\ coding_at = 0 /\ vec_i = 0 /\ pos = 0
  BY DEF EncodeInit
<1>2. PICK length \in Lens :
        strip = [s \in Fragments |-> [p \in 0 .. length - 1 |-> IF s < k THEN Data(s, p) ELSE 0]]
  BY DEF EncodeInit
<1>3. length \in Nat /\ 0 \in Fragments /\ 0 \in Rows
  BY LoopAssumption, ShapeAssumption DEF Fragments, Rows
<1>4. len = length /\ Bytes = 0 .. length - 1
  <2>1. DOMAIN strip[0] = 0 .. length - 1
    BY <1>2, <1>3
  <2>2. Cardinality(0 .. length - 1) = IF 0 > length - 1 THEN 0 ELSE (length - 1) - 0 + 1
    BY <1>3, FS_Interval
  <2>3. len = length
    BY <1>3, <2>1, <2>2 DEF len
  <2> QED
    BY <2>3 DEF Bytes
<1>5. \A s \in Fragments : \A p \in Bytes :
        /\ strip[s][p] = IF s < k THEN Data(s, p) ELSE 0
        /\ strip[s][p] \in ByteValues
  <2>1. ASSUME NEW s \in Fragments, NEW p \in Bytes
        PROVE  strip[s][p] = IF s < k THEN Data(s, p) ELSE 0
    BY <1>2, <1>4
  <2>2. ASSUME NEW s \in Fragments, s < k, NEW p \in Bytes PROVE Data(s, p) \in ByteValues
    <3>1. s \in Rows
      BY <2>2, ShapeAssumption DEF Fragments, Rows
    <3> QED
      BY <1>4, <3>1, LoopAssumption
  <2> QED
    BY <2>1, <2>2, Constants01
<1>6. StripsType
  <2>1. strip = [s \in Fragments |-> [p \in Bytes |-> strip[s][p]]]
    BY <1>2, <1>4
  <2>2. strip \in [Fragments -> [Bytes -> ByteValues]]
    BY <1>5, <2>1
  <2> QED
    BY <1>1, <1>3, <1>4, <2>2 DEF StripsType
<1>7. Called
  BY <1>1 DEF Called
<1>8. \A s \in Whole : Good(s)
  <2>1. \A s \in Rows : s < k
    BY ShapeAssumption DEF Rows
  <2> QED
    BY <1>1, <1>5, <1>6, <2>1, ValueType DEF Whole, Good
<1>9. Total = m - k /\ m - k \in Nat /\ Working
  BY <1>1, ShapeAssumption DEF Total, Working
<1>10. Simd => LastVector \in Nat /\ 0 % Width[isa] = 0 /\ Width[isa] \in Nat \ {0}
  <2>1. Simd => LastVector \in Nat /\ Width[isa] \in Nat \ {0}
    BY <1>6, VectorShape
  <2> QED
    BY <2>1
<1>11. Place
  <2>1. rows \in 0 .. Total /\ tbls_at = Total - rows /\ coding_at = Total - rows
    BY <1>1, <1>9
  <2>2. Simd => 0 \in 0 .. LastVector
    BY <1>10
  <2> QED
    BY <1>1, <1>9, <1>10, <2>1, <2>2 DEF Place
<1>12. LinesDone
  <2> SUFFICES ASSUME NEW l \in 0 .. Total - 1, NEW p \in Bytes
               PROVE  ~ Finished(l, p) /\ strip[coding[l]][p] = Partial(coding[l], p, vec_i)
    BY DEF LinesDone
  <2>1. ~ Finished(l, p)
    <3>1. Simd => Done = 0
      BY <1>1, <1>10 DEF Done, Tail
    <3>2. p \in Nat /\ l \in Nat
      BY <1>6, <1>9, LengthType
    <3> QED
      BY <1>1, <3>1, <3>2 DEF Finished
  <2>2. coding[l] \in Fragments /\ ~ (coding[l] < k)
    BY <1>1, <1>9, ShapeAssumption DEF Fragments
  <2>3. Partial(coding[l], p, 0) = 0
    BY <1>6, <2>2, PartialSums
  <2> QED
    BY <1>1, <1>5, <2>1, <2>2, <2>3
<1>13. BackupKept
  BY <1>1 DEF BackupKept
<1> QED
  BY <1>1, <1>6, <1>7, <1>8, <1>11, <1>12, <1>13, DecodeInit DEF EncodeInv

LEMMA EncodeStep == EncodeInv /\ [EncodeNext]_<<vars, callVars>> => EncodeInv'
<1> SUFFICES ASSUME EncodeInv, [EncodeNext]_<<vars, callVars>> PROVE EncodeInv'
  OBVIOUS
<1>1. CASE GenMatrix
  BY <1>1, GenMatrixStep
<1>2. CASE ScalarCode /\ UNCHANGED vars
  BY <1>2, ScalarStep
<1>3. CASE DotProd /\ UNCHANGED vars
  BY <1>3, DotProdStep
<1>4. CASE Mad /\ UNCHANGED vars
  BY <1>4, MadStep
<1>5. CASE KernelsDone /\ UNCHANGED vars
  BY <1>5, KernelsDoneStep
<1>6. CASE Lose /\ UNCHANGED vars
  BY <1>6, LoseStep
<1>7. CASE InitTables /\ UNCHANGED vars
  BY <1>7, InitTablesStep
<1>8. CASE UNCHANGED <<vars, callVars>>
  <2>1. /\ UNCHANGED vars /\ UNCHANGED callVars
        /\ part' = part /\ isa' = isa /\ fn' = fn /\ strip' = strip /\ g_tbls' = g_tbls
        /\ srcs' = srcs /\ coding' = coding /\ tbls_at' = tbls_at /\ coding_at' = coding_at
        /\ rows' = rows /\ vec_i' = vec_i /\ pos' = pos /\ backup' = backup
    BY <1>8 DEF callVars
  <2>2. DecodeInv'
    BY <2>1, DecodeStays DEF EncodeInv
  <2>3. /\ len' = len /\ Bytes' = Bytes /\ nerrs' = nerrs /\ Whole' = Whole /\ Total' = Total
        /\ Updating' = Updating /\ Working' = Working /\ Simd' = Simd
        /\ LastVector' = LastVector /\ Done' = Done
    BY <2>1 DEF len, Bytes, nerrs, Whole, Total, Updating, Working, Simd, LastVector, Done, Tail,
                frag_in_err, vars
  <2>4. Lines' = Lines /\ Saves' = Saves
    BY <2>1, <2>3 DEF Lines, Saves, GroupRows, encode_rows, update_rows
  <2>5. StripsType' /\ Called'
    BY <2>1, <2>3 DEF EncodeInv, StripsType, Called, vars
  <2>6. \A s \in Whole' : Good(s)'
    BY <2>1, <2>3 DEF EncodeInv, Good, Value, DataAt
  <2>7. Place' /\ LinesDone' /\ BackupKept'
    BY <2>1, <2>3, <2>4
       DEF EncodeInv, Place, LinesDone, BackupKept, Finished, After, Partial, Value, DataAt
  <2> QED
    BY <2>2, <2>5, <2>6, <2>7 DEF EncodeInv
<1> QED
  BY <1>1, <1>2, <1>3, <1>4, <1>5, <1>6, <1>7, <1>8 DEF EncodeNext, Encode

LEMMA EncodeInvariant == EncodeSpec => []EncodeInv
<1>1. EncodeInit => EncodeInv
  BY EncodeStart
<1>2. EncodeInv /\ [EncodeNext]_<<vars, callVars>> => EncodeInv'
  BY EncodeStep
<1> QED
  BY <1>1, <1>2, PTL DEF EncodeSpec

(* The matrix inside a run of encode, losses and decode is computed by a   *)
(* behaviour of DecodeMatrix: what holds of that holds here.               *)
THEOREM DecodesByMatrix == EncodeSpec => Spec
<1>1. EncodeInit => Init
  BY DEF EncodeInit
<1>2. [EncodeNext]_<<vars, callVars>> => [Next]_vars
  <2> SUFFICES ASSUME [EncodeNext]_<<vars, callVars>> PROVE Next \/ UNCHANGED vars
    OBVIOUS
  <2>1. CASE EncodeNext
    BY <2>1 DEF EncodeNext, GenMatrix
  <2>2. CASE UNCHANGED <<vars, callVars>>
    BY <2>2
  <2> QED
    BY <2>1, <2>2
<1> QED
  BY <1>1, <1>2, PTL DEF EncodeSpec, Spec

(* ec_encode_data and ec_encode_data_update leave in every strip, byte for *)
(* byte, what the encoding matrix gives for the data: with the parity and, *)
(* after any erasures the matrix allows, with the strips decoded, for      *)
(* every length of the chunk, width of the vectors and size of the groups. *)
THEOREM RebuildsBytes == EncodeSpec => []BytesRebuilt
<1>1. EncodeInv => BytesRebuilt
  <2> SUFFICES ASSUME EncodeInv, part \in {"lose", "end"},
                      NEW s \in Fragments, NEW p \in Bytes
               PROVE  strip[s][p] = Dot(encode_matrix[s], [j \in Rows |-> Data(j, p)])
    BY DEF BytesRebuilt
  <2>1. Whole = Fragments
    BY DEF Whole
  <2> QED
    BY <2>1 DEF EncodeInv, Good, Value, DataAt
<1> QED
  BY <1>1, EncodeInvariant, PTL
=============================================================================
