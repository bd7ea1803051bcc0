---------------------------- MODULE EncodeData ----------------------------
(***************************************************************************)
(* The bytes of one chunk through ec_encode_data: the parity strips are    *)
(* computed with the tables the constructor of IsaEC makes, strips are     *)
(* lost, DecodeMatrix yields the decoding rows, and tables made from these *)
(* bring the strips back (src/IsaEC.cpp, decode).  ec_encode_data is the   *)
(* scalar code, or a loop over groups of rows whose kernels work on one    *)
(* vector of bytes at a time; ec_encode_data_update, the library's other   *)
(* way to encode, adds one source strip after the other.                   *)
(***************************************************************************)
EXTENDS DecodeMatrix

CONSTANTS
  Half,        \* bits of half a byte: 4
  Twice(_),   \* Mult by GF{2}
  Group,       \* rows of the largest kernel: 6
  Saving,      \* rows of the largest mad kernel that saves dest: 2
  Width,       \* bytes of a vector, for each instruction set
  Lens,        \* lengths of a chunk
  Data(_, _)   \* the data: byte p of strip j

(* Tests of erasure_code: every kernel, by encode and by update.           *)
Functions == {"ec_encode_data", "ec_encode_data_update"}
Nibbles == 0 .. 2^Half - 1

(* A byte is two halves; the bits of a sum are those of one or the other   *)
(* number when they have none in common; Twice shifts them.  (The line on  *)
(* powers holds of all numbers.)                                           *)
ASSUME ByteAssumption ==
  /\ Half \in Nat \ {0}
  /\ \A e \in 0 .. 2 * Half : 2^e \in Nat \ {0} /\ 2^(e + 1) = 2 * 2^e
  /\ ByteValues = 0 .. 2^(2 * Half) - 1
  /\ \A e \in 0 .. 2 * Half - 1 :
       \A x \in 0 .. 2^e - 1 : \A y \in 0 .. 2^(2 * Half - e) - 1 :
         Add(2^e * y, x) = 2^e * y + x
  /\ \A e \in 0 .. 2 * Half - 2 : Twice(2^e) = 2^(e + 1)
  /\ \A c \in ByteValues : Twice(c) = Mul(2, c)

ASSUME LoopAssumption ==
  /\ Group \in Nat \ {0} /\ Saving \in Nat
  /\ \A s \in DOMAIN Width : Width[s] \in Nat \ {0}
  /\ Lens \subseteq Nat
  /\ \A length \in Lens : \A j \in Rows : \A p \in 0 .. length - 1 : Data(j, p) \in ByteValues

VARIABLES
  part,    \* "encode", "lose", "matrix" or "decode", then "end"
  fn, isa, \* the function that encodes, the instruction set found
  strip,   \* the bytes of every fragment
  g_tbls,  \* a table for each coefficient of each row
  srcs, coding,       \* the fragments data and coding point to
  tbls_at, coding_at, \* rows by which g_tbls and coding were advanced
  rows,    \* rows still to do
  vec_i,   \* source of the current update
  pos,     \* byte the next vector starts at
  backup   \* the last vector of each destination, saved by mad kernels

callVars == <<part, fn, isa, strip, g_tbls, srcs, coding, tbls_at, coding_at,
              rows, vec_i, pos, backup>>

len == Cardinality(DOMAIN strip[0])
Bytes == 0 .. len - 1

-----------------------------------------------------------------------------
(* c times 0, 1, .. 2^Half - 1, then c times the same in the upper half.   *)
gf_vect_mul_init(c) ==
  LET power[e \in 0 .. 2 * Half - 1] == IF e = 0 THEN c ELSE Twice(power[e - 1])
      Entry(x, from) ==
        LET sum[e \in 0 .. Half] ==
              IF e = 0 THEN 0
              ELSE Add(sum[e - 1],
                       IF (x \div 2^(e - 1)) % 2 = 1 THEN power[from + e - 1] ELSE 0)
        IN  sum[Half]
  IN  [x \in 0 .. 2^(Half + 1) - 1 |->
         IF x \in Nibbles THEN Entry(x, 0) ELSE Entry(x - 2^Half, Half)]

Tables == [c \in 0 .. 2^(2 * Half) - 1 |-> gf_vect_mul_init(c)]

(* for `count' lines of a matrix, from line `first' on                      *)
ec_init_tables(count, a, first) ==
  [l \in 0 .. count - 1 |-> [j \in Rows |-> Tables[a[first + l][j]]]]

(* gf_mul with entry 1 of the table, which is the coefficient itself       *)
ScalarProduct(tbl, byte) == Mul(byte, tbl[1])

(* pshufb twice: table of the low nibble, table of the high nibble         *)
KernelProduct(tbl, byte) ==
  Add(tbl[2^Half + (byte \div 2^Half)], tbl[byte % 2^Half])

(* ec_encode_data_sse and the others: if (len < 16) they call the scalar   *)
(* code.                                                                   *)
Simd == isa # "base" /\ len >= Width[isa]

Times(tbl, byte) == IF Simd THEN KernelProduct(tbl, byte)
                            ELSE ScalarProduct(tbl, byte)

(* What the sources of table row l give for byte p.                        *)
Products(l, p) ==
  FoldFunction(Add, 0, [j \in Rows |-> Times(g_tbls[l][j], strip[srcs[j]][p])])

(* What source vec_i alone gives.                                          *)
OneProduct(l, p) == Times(g_tbls[l][vec_i], strip[srcs[vec_i]][p])

(* value[l][p] goes to byte p of coding[l].  Destinations may repeat, with *)
(* the same value then.                                                    *)
Store(lines, span, value) ==
  strip' = [s \in Fragments |-> [p \in Bytes |->
     IF p \in span /\ \E l \in lines : coding[l] = s
     THEN value[CHOOSE l \in lines : coding[l] = s][p]
     ELSE strip[s][p]]]

-----------------------------------------------------------------------------
Begin(count) ==
  /\ rows' = count
  /\ tbls_at' = 0 /\ coding_at' = 0 /\ pos' = 0

Updating == part = "encode" /\ fn = "ec_encode_data_update"

(* The function returns; an encoding by updates calls it for each source.  *)
Return_ec ==
  IF Updating /\ vec_i < k - 1
  THEN Begin(m - k) /\ vec_i' = vec_i + 1 /\ UNCHANGED part
  ELSE /\ part' = IF part = "encode" THEN "lose" ELSE "end"
       /\ vec_i' = 0
       /\ UNCHANGED <<rows, tbls_at, coding_at, pos>>

(* ec_encode_data_base, ec_encode_data_update_base: also what every other  *)
(* function calls for chunks shorter than a vector.                        *)
ScalarCode ==
  /\ part \in {"encode", "decode"}
  /\ ~ Simd
  /\ Store(0 .. rows - 1, Bytes, [l \in 0 .. rows - 1 |-> [p \in Bytes |->
           IF Updating THEN Add(strip[coding[l]][p], OneProduct(l, p))
                       ELSE Products(l, p)]])
  /\ Return_ec
  /\ UNCHANGED <<fn, isa, g_tbls, srcs, coding, backup>>

(* while (rows >= 6), then the kernel for the rows left                    *)
encode_rows == IF rows >= Group THEN Group ELSE rows

(* while (rows > 6), then a switch that has a case 6 too                   *)
update_rows == IF rows > Group THEN Group ELSE rows

GroupRows == 0 .. (IF Updating THEN update_rows ELSE encode_rows) - 1
Lines == {coding_at + l : l \in GroupRows}

(* The row of the tables that goes with a line of coding.                  *)
TableOf(l) == tbls_at + (l - coding_at)

Kernel == /\ part \in {"encode", "decode"}
          /\ Simd /\ rows > 0
          /\ UNCHANGED <<fn, isa, g_tbls, srcs, coding>>

LastVector == len - Width[isa]
Vector == pos .. pos + Width[isa] - 1

(* add pos, 16; the tail is done once more from the last whole vector.     *)
NextVector ==
  IF pos = LastVector
  THEN /\ tbls_at' = tbls_at + Cardinality(GroupRows)
       /\ coding_at' = coding_at + Cardinality(GroupRows)
       /\ rows' = rows - Cardinality(GroupRows)
       /\ pos' = 0
  ELSE /\ pos' = IF pos + Width[isa] <= LastVector THEN pos + Width[isa] ELSE LastVector
       /\ UNCHANGED <<rows, tbls_at, coding_at>>

(* gf_vect_dot_prod .. gf_6vect_dot_prod, one vector                       *)
DotProd ==
  /\ Kernel /\ ~ Updating
  /\ Store(Lines, Vector,
           [l \in Lines |-> [p \in Vector |-> Products(TableOf(l), p)]])
  /\ NextVector
  /\ UNCHANGED <<part, vec_i, backup>>

(* dest += product, one vector.  The tail pass meets bytes a second time.  *)
(* The kernels of one and two rows save the last vector of dest for it on  *)
(* entry; those of more rows, and all of avx512, mask the product.         *)
Product(l, p) == OneProduct(TableOf(l), p)
Tail == pos % Width[isa] # 0
Saves == isa # "avx512" /\ Cardinality(GroupRows) <= Saving

Backup ==
  IF pos = 0 THEN [l \in GroupRows |-> strip[coding[coding_at + l]]]
             ELSE backup

(* gf_vect_mad, gf_2vect_mad: the tail pass goes on from the saved bytes.  *)
gf_vect_mad(l, p) ==
  Add(IF Tail THEN backup[l - coding_at][p] ELSE strip[coding[l]][p], Product(l, p))

(* Variant: the mask lets one byte too many through.                       *)
gf_6vect_mad_wide(l, p) ==
  IF Tail /\ p + 1 < len - (len % Width[isa])
  THEN strip[coding[l]][p]
  ELSE Add(strip[coding[l]][p], Product(l, p))

(* gf_3vect_mad .. gf_6vect_mad: dest is loaded again; the mask keeps the  *)
(* product of the last len % 16 bytes.                                     *)
gf_6vect_mad(l, p) ==
  IF Tail /\ p < len - (len % Width[isa])
  THEN strip[coding[l]][p]
  ELSE Add(strip[coding[l]][p], Product(l, p))

Mad ==
  /\ Kernel /\ Updating
  /\ backup' = IF Saves THEN Backup ELSE backup
  /\ Store(Lines, Vector, [l \in Lines |-> [p \in Vector |->
           IF Saves THEN gf_vect_mad(l, p) ELSE gf_6vect_mad(l, p)]])
  /\ NextVector
  /\ UNCHANGED <<part, vec_i>>

(* case 0: break;                                                          *)
KernelsDone ==
  /\ part \in {"encode", "decode"}
  /\ Simd /\ rows = 0
  /\ Return_ec
  /\ UNCHANGED <<fn, isa, strip, g_tbls, srcs, coding, backup>>

-----------------------------------------------------------------------------
EncodeInit ==
  /\ Init
  /\ part = "encode"
  /\ fn \in Functions
  /\ isa \in {"base"} \cup DOMAIN Width
  /\ \E length \in Lens :
       strip = [s \in Fragments |-> [p \in 0 .. length - 1 |->
                  IF s < k THEN Data(s, p) ELSE 0]]
  /\ g_tbls = ec_init_tables(m - k, encode_matrix, k)
  /\ srcs = [j \in Rows |-> j]
  /\ coding = [l \in 0 .. m - k - 1 |-> k + l]
  /\ rows = m - k
  /\ tbls_at = 0 /\ coding_at = 0 /\ vec_i = 0 /\ pos = 0
  /\ backup = << >>

Encode == ScalarCode \/ DotProd \/ Mad \/ KernelsDone

(* The strips of the list come to hold something else.                     *)
Lose ==
  /\ part = "lose" /\ part' = "matrix"
  /\ strip' = [s \in Fragments |-> [p \in Bytes |->
       IF s \in frag_in_err THEN Add(strip[s][p], 1) ELSE strip[s][p]]]
  /\ UNCHANGED <<fn, isa, g_tbls, srcs, coding, tbls_at, coding_at, rows, vec_i, pos, backup>>

(* gf_gen_decode_matrix_simple; what it returns is not looked at.          *)
GenMatrix == part = "matrix" /\ Next /\ UNCHANGED callVars

InitTables ==
  /\ part = "matrix" /\ pc = "done"
  /\ part' = "decode"
  /\ g_tbls' = ec_init_tables(nerrs, decode_matrix, 0)
  /\ srcs' = decode_index
  /\ coding' = frag_err_list
  /\ Begin(nerrs)
  /\ UNCHANGED <<fn, isa, strip, vec_i, backup>>

EncodeNext == \/ GenMatrix
              \/ (Encode \/ Lose \/ InitTables) /\ UNCHANGED vars

EncodeSpec == EncodeInit /\ [][EncodeNext]_<<vars, callVars>>

-----------------------------------------------------------------------------
(* BytesRebuilt: parity and decoded strips hold, byte for byte, what the   *)
(* encoding matrix gives for the data, whichever code ec_encode_data and   *)
(* ec_encode_data_update choose: scalar or vectors, rows in groups, a      *)
(* tail that overlaps the vector before it.                                *)
BytesRebuilt ==
  part \in {"lose", "end"} =>
    \A s \in Fragments : \A p \in Bytes :
      strip[s][p] = Dot(encode_matrix[s], [j \in Rows |-> Data(j, p)])
=============================================================================
