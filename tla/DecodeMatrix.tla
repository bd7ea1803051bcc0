--------------------------- MODULE DecodeMatrix ---------------------------
(***************************************************************************)
(* How the coefficients of a decoding come about: the loops of             *)
(* gf_gen_decode_matrix_simple (src/IsaEC.hpp) with gf_invert_matrix of    *)
(* the library, on the Cauchy matrix the constructor of IsaEC generates.   *)
(* Module IsaEC takes the outcome for granted: the rows rebuild the erased *)
(* strips from the first k others.                                         *)
(***************************************************************************)
EXTENDS Integers, FiniteSets, Functions

CONSTANTS
  k, m,                            \* n and m of the function: k and k + n
  ByteValues,                      \* the values of a byte
  Add(_, _), Mul(_, _), Inv(_)     \* byte arithmetic: ^, gf_mul and gf_inv

ASSUME ShapeAssumption == /\ k \in Nat \ {0}
                          /\ m \in Nat
                          /\ k <= m

Rows == 0 .. k - 1
Fragments == 0 .. m - 1

(* The bytes are a field in which every element is its own negative, with  *)
(* room for all fragments: k + n <= 256.                                   *)
ASSUME FieldAssumption ==
  /\ Fragments \cup {0, 1} \subseteq ByteValues
  /\ \A x, y \in ByteValues :
       /\ Add(x, y) \in ByteValues /\ Add(x, y) = Add(y, x)
       /\ Mul(x, y) \in ByteValues /\ Mul(x, y) = Mul(y, x)
  /\ \A x, y, z \in ByteValues :
       /\ Add(Add(x, y), z) = Add(x, Add(y, z))
       /\ Mul(Mul(x, y), z) = Mul(x, Mul(y, z))
       /\ Mul(x, Add(y, z)) = Add(Mul(x, y), Mul(x, z))
  /\ \A x \in ByteValues : Add(x, 0) = x /\ Add(x, x) = 0 /\ Mul(x, 1) = x
  /\ \A x \in ByteValues \ {0} : Inv(x) \in ByteValues /\ Mul(x, Inv(x)) = 1

(* Entries of the err_list repeat, as the test programs draw them. *)
ErrLists == UNION { [0 .. nerrs - 1 -> Fragments] : nerrs \in 0 .. m - k }

(* gf_gen_cauchy1_matrix(encode_matrix, m, k) *)
encode_matrix ==
  [i \in Fragments |-> [j \in Rows |->
     IF i < k THEN IF i = j THEN 1 ELSE 0
     ELSE Inv(Add(i, j))]]

Identity == [i \in Rows |-> [j \in Rows |-> IF i = j THEN 1 ELSE 0]]
Zero     == [i \in Rows |-> [j \in Rows |-> 0]]

VARIABLES
  frag_err_list,  \* the argument
  pc,             \* "select", "invert", "rows" or "done"
  i,              \* counter of the current loop
  r,              \* fragment looked at by the selection
  b,              \* temp_matrix; the inversion reduces it in place
  decode_index,   \* the fragments selected
  invert_matrix,
  decode_matrix,  \* one row for every entry of frag_err_list
  ret             \* the value returned

vars == <<frag_err_list, pc, i, r, b, decode_index, invert_matrix,
          decode_matrix, ret>>

nerrs == Cardinality(DOMAIN frag_err_list)
frag_in_err == Range(frag_err_list)

Init ==
  /\ frag_err_list \in ErrLists
  /\ pc = "select"
  /\ i = 0
  /\ r = 0
  /\ b = Zero
  /\ decode_index = [j \in Rows |-> 0]
  /\ invert_matrix = Zero
  /\ decode_matrix = [j \in 0 .. m - 1 |-> [l \in Rows |-> 0]]
  /\ ret = 0

-----------------------------------------------------------------------------
(* while (frag_in_err[r]) r++; *)
SkipErased ==
  /\ pc = "select"
  /\ i < k
  /\ r \in frag_in_err
  /\ r' = r + 1
  /\ UNCHANGED <<frag_err_list, pc, i, b, decode_index, invert_matrix,
                 decode_matrix, ret>>

(* Variant: r is not advanced past the fragment just taken. *)
TakeSurvivor_stay ==
  /\ pc = "select"
  /\ i < k
  /\ r \notin frag_in_err
  /\ b' = [b EXCEPT ![i] = encode_matrix[r]]
  /\ decode_index' = [decode_index EXCEPT ![i] = r]
  /\ i' = i + 1
  /\ UNCHANGED <<frag_err_list, pc, r, invert_matrix, decode_matrix, ret>>

(* Variant: r is advanced by the loop and once more in its body. *)
TakeSurvivor_double ==
  /\ pc = "select"
  /\ i < k
  /\ r \notin frag_in_err
  /\ b' = [b EXCEPT ![i] = encode_matrix[r]]
  /\ decode_index' = [decode_index EXCEPT ![i] = r]
  /\ i' = i + 1
  /\ r' = r + 2
  /\ UNCHANGED <<frag_err_list, pc, invert_matrix, decode_matrix, ret>>

(* b[i] and decode_index[i] are set from fragment r. *)
TakeSurvivor ==
  /\ pc = "select"
  /\ i < k
  /\ r \notin frag_in_err
  /\ b' = [b EXCEPT ![i] = encode_matrix[r]]
  /\ decode_index' = [decode_index EXCEPT ![i] = r]
  /\ i' = i + 1
  /\ r' = r + 1
  /\ UNCHANGED <<frag_err_list, pc, invert_matrix, decode_matrix, ret>>

(* gf_invert_matrix(b, invert_matrix, n) starts from the identity. *)
CallInvert ==
  /\ pc = "select"
  /\ i = k
  /\ invert_matrix' = Identity
  /\ pc' = "invert"
  /\ i' = 0
  /\ UNCHANGED <<frag_err_list, r, b, decode_index, decode_matrix, ret>>

-----------------------------------------------------------------------------
(* The rows the pivot search of column i may take: row i itself, or the    *)
(* first row below it with a non-zero element.                             *)
PivotRow(mat, col) ==
  { j \in Rows : /\ j >= col
                 /\ mat[j][col] # 0
                 /\ \A l \in col .. j - 1 : mat[l][col] = 0 }

SwapRows(mat, x, y) == [mat EXCEPT ![x] = mat[y], ![y] = mat[x]]

(* Row x is multiplied by the scalar f. *)
ScaleRow(mat, x, f) == [mat EXCEPT ![x] = [l \in Rows |-> Mul(mat[x][l], f)]]

(* Variant: rows above the pivot are left alone. *)
ClearColumn_below(mat, x, coeff) ==
  [j \in Rows |->
     IF j <= x THEN mat[j]
     ELSE [l \in Rows |-> Add(mat[j][l], Mul(coeff[j], mat[x][l]))]]

(* Every row other than x gets row x, multiplied by its own coefficient,   *)
(* added.                                                                  *)
ClearColumn(mat, x, coeff) ==
  [j \in Rows |->
     IF j = x THEN mat[j]
     ELSE [l \in Rows |-> Add(mat[j][l], Mul(coeff[j], mat[x][l]))]]

(* One round of the elimination, for column i.  "Couldn't find means it's  *)
(* singular": gf_invert_matrix and its caller return -1.                   *)
Eliminate ==
  /\ pc = "invert"
  /\ i < k
  /\ IF PivotRow(b, i) = {}
     THEN /\ ret' = -1
          /\ pc' = "done"
          /\ UNCHANGED <<i, b, invert_matrix>>
     ELSE /\ \E j \in PivotRow(b, i) :
               LET swapped == SwapRows(b, i, j)
                   pivot   == Inv(swapped[i][i])
                   scaled  == ScaleRow(swapped, i, pivot)
                   coeff   == [l \in Rows |-> scaled[l][i]]
                   inverse == ScaleRow(SwapRows(invert_matrix, i, j), i, pivot)
               IN  /\ b' = ClearColumn(scaled, i, coeff)
                   /\ invert_matrix' = ClearColumn(inverse, i, coeff)
          /\ i' = i + 1
          /\ UNCHANGED <<pc, ret>>
  /\ UNCHANGED <<frag_err_list, r, decode_index, decode_matrix>>

Inverted ==
  /\ pc = "invert"
  /\ i = k
  /\ pc' = "rows"
  /\ i' = 0
  /\ UNCHANGED <<frag_err_list, r, b, decode_index, invert_matrix,
                 decode_matrix, ret>>

-----------------------------------------------------------------------------
(* Sum of the products of corresponding elements. *)
Dot(x, y) == FoldFunction(Add, 0, [j \in Rows |-> Mul(x[j], y[j])])
Column(mat, col) == [j \in Rows |-> mat[j][col]]

(* Variant: the row is taken at the entry's position, not at its value. *)
DecodeRow_position ==
  /\ pc = "rows"
  /\ i < nerrs
  /\ LET e == frag_err_list[i] IN
       decode_matrix' = [decode_matrix EXCEPT ![i] =
         IF e < k THEN invert_matrix[i]
         ELSE [l \in Rows |-> Dot(Column(invert_matrix, l), encode_matrix[e])]]
  /\ i' = i + 1
  /\ UNCHANGED <<frag_err_list, pc, r, b, decode_index, invert_matrix, ret>>

(* The row of decode_matrix for one erased fragment: a row of the inverse  *)
(* for a data strip, encoding row times inverse for a parity strip.  (Two  *)
(* loops in the code, one for each kind; they fill different rows.)        *)
DecodeRow ==
  /\ pc = "rows"
  /\ i < nerrs
  /\ LET e == frag_err_list[i] IN
       decode_matrix' = [decode_matrix EXCEPT ![i] =
         IF e < k THEN invert_matrix[e]
         ELSE [l \in Rows |-> Dot(Column(invert_matrix, l), encode_matrix[e])]]
  /\ i' = i + 1
  /\ UNCHANGED <<frag_err_list, pc, r, b, decode_index, invert_matrix, ret>>

Return ==
  /\ pc = "rows"
  /\ i = nerrs
  /\ pc' = "done"
  /\ UNCHANGED <<frag_err_list, i, r, b, decode_index, invert_matrix,
                 decode_matrix, ret>>

Next == \/ SkipErased \/ TakeSurvivor \/ CallInvert
        \/ Eliminate \/ Inverted
        \/ DecodeRow \/ Return

Spec == Init /\ [][Next]_vars

-----------------------------------------------------------------------------
(* The rows of the encoding matrix that were selected. *)
Selected == [j \in Rows |-> encode_matrix[decode_index[j]]]

TimesMatrix(row, mat) == [l \in Rows |-> Dot(row, Column(mat, l))]

(* frag_in_err has m entries: the selection never looks at a fragment      *)
(* beyond the last, however the erasures lie and however often they are    *)
(* named.                                                                  *)
SelectionInRange == pc = "select" /\ i < k => r < m

(* The strips a decode reads are the first k that are not erased.          *)
SurvivorsSelected ==
  pc # "select" =>
    /\ \A j \in Rows : /\ decode_index[j] \in Fragments \ frag_in_err
                       /\ j + 1 \in Rows => decode_index[j] < decode_index[j + 1]
    /\ \A s \in Fragments \ frag_in_err :
         s < decode_index[k - 1] => \E j \in Rows : decode_index[j] = s

(* Loop invariant of the elimination: what has become of the selected rows *)
(* is the inverse so far times them, and the columns done are unit.        *)
EliminationInvariant ==
  pc = "invert" =>
    /\ \A j \in Rows : TimesMatrix(invert_matrix[j], Selected) = b[j]
    /\ \A j \in Rows : \A l \in 0 .. i - 1 : b[j][l] = Identity[j][l]

(* Any k rows of the encoding matrix are invertible ("Any sub-matrix of a  *)
(* Cauchy matrix should be invertable"), so nobody misses the return value *)
(* of gf_gen_decode_matrix_simple, which all its callers drop.             *)
NeverSingular == ret = 0

(* Applied to the selected strips, row j of the decoding matrix gives what *)
(* the encoding matrix gives for strip frag_err_list[j].                   *)
DecodeRowsRebuild ==
  pc = "done" /\ ret = 0 =>
    \A j \in DOMAIN frag_err_list :
      TimesMatrix(decode_matrix[j], Selected) = encode_matrix[frag_err_list[j]]
=============================================================================
