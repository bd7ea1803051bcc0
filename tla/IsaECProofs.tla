---------------------------- MODULE IsaECProofs ----------------------------
(***************************************************************************)
(* Proofs about the codec of module IsaEC, for every shape k, n, chunk     *)
(* size and strip length.                                                  *)
(***************************************************************************)
EXTENDS IsaEC, TLAPS

(* Dividing a total of b strips of length a by b gives the strip length    *)
(* back (size / k in encode, decode and cache_decode_ptr).                 *)
LEMMA DivOfProduct ==
  ASSUME NEW a \in Nat, NEW b \in Nat \ {0}
  PROVE  (b * a) \div b = a
OBVIOUS

(* Every number lies in exactly one chunk. *)
LEMMA DivBounds ==
  ASSUME NEW a \in Nat, NEW b \in Nat \ {0}
  PROVE  /\ a \div b \in Nat
         /\ b * (a \div b) <= a
         /\ a < b * (a \div b) + b
OBVIOUS

LEMMA MulMono ==
  ASSUME NEW a \in Nat, NEW b \in Nat, NEW c \in Nat \ {0}, a * c < b * c
  PROVE  a * c + c <= b * c
OBVIOUS

(* The loop  for (index = 0; index < total; index += maxSize)  visits      *)
(* every byte of strips made of whole chunks, and no byte outside, if the  *)
(* total ends in the last chunk.                                           *)
LEMMA IndexLoopCovers ==
  ASSUME Conforming, NEW total \in StripLen - MaxSize + 1 .. StripLen
  PROVE  IndexLoop(total) = Bytes
<1> USE ShapeAssumption
<1>1. PICK q \in Nat : StripLen = q * MaxSize
  BY ShapeAssumption DEF Conforming
<1>0. StripLen - MaxSize + 1 \in Int
  OBVIOUS
<1>2. ASSUME NEW b \in IndexLoop(total)
      PROVE  b \in Bytes
  <2>1. PICK j \in 0 .. total : /\ j * MaxSize < total
                                /\ b \in Chunk(j * MaxSize)
    BY <1>2 DEF IndexLoop
  <2>2. j * MaxSize + MaxSize <= StripLen
    BY <1>1, <2>1, MulMono
  <2>3. j * MaxSize \in Nat
    BY <2>1
  <2> QED
    BY <2>1, <2>2, <2>3 DEF Chunk, Bytes
<1>3. ASSUME NEW b \in Bytes
      PROVE  b \in IndexLoop(total)
  <2> DEFINE j == b \div MaxSize
  <2>1. /\ b \in Nat
        /\ b < StripLen
    BY DEF Bytes
  <2>2. /\ j \in Nat
        /\ MaxSize * j <= b
        /\ b < MaxSize * j + MaxSize
    BY <2>1, DivBounds
  <2>3. /\ j * MaxSize = MaxSize * j
        /\ j * MaxSize \in Nat
        /\ j <= MaxSize * j
    BY <2>2
  <2> HIDE DEF j
  <2>4. b \in Chunk(j * MaxSize)
    BY <2>1, <2>2, <2>3 DEF Chunk
  <2>5. j * MaxSize + MaxSize <= StripLen
    BY <1>1, <2>1, <2>2, <2>3, MulMono
  <2>6. /\ j \in 0 .. total
        /\ j * MaxSize < total
    BY <2>2, <2>3, <2>5
  <2> QED
    BY <2>4, <2>6 DEF IndexLoop
<1> QED
  BY <1>2, <1>3

(* The counted loop of encode_ptr visits the same bytes, also when the     *)
(* length of a strip no longer fits an int.                                *)
LEMMA IterLoopCovers ==
  ASSUME Conforming, "encode_ptr" \in Calls
  PROVE  IterLoop(StripLen) = Bytes
<1> USE ShapeAssumption, WidthAssumption
<1>1. PICK q \in Nat : StripLen = q * MaxSize
  BY ShapeAssumption DEF Conforming
<1>2. StripLen \div MaxSize = q
  BY <1>1, DivOfProduct
<1>3. /\ q < IntMax
      /\ StripLen - MaxSize < IntMax
  BY <1>1, <1>2 DEF Conforming
<1>4. ToInt(StripLen \div MaxSize) = q
  BY <1>2, <1>3 DEF ToInt
<1>5. ASSUME NEW i \in 0 .. q - 1
      PROVE  /\ i * MaxSize \in Nat
             /\ i * MaxSize + MaxSize <= StripLen
             /\ ToInt(i * MaxSize) = i * MaxSize
  <2>1. /\ i * MaxSize \in Nat
        /\ i * MaxSize < q * MaxSize
    OBVIOUS
  <2>2. i * MaxSize + MaxSize <= StripLen
    BY <1>1, <2>1, MulMono
  <2> QED
    BY <1>3, <2>1, <2>2 DEF ToInt
<1>6. ASSUME NEW b \in IterLoop(StripLen)
      PROVE  b \in Bytes
  <2>1. PICK i \in 0 .. q - 1 : b \in Chunk(ToInt(i * MaxSize))
    BY <1>4, <1>6 DEF IterLoop
  <2> QED
    BY <1>5, <2>1 DEF Chunk, Bytes
<1>7. ASSUME NEW b \in Bytes
      PROVE  b \in IterLoop(StripLen)
  <2> DEFINE j == b \div MaxSize
  <2>1. /\ b \in Nat
        /\ b < StripLen
    BY DEF Bytes
  <2>2. /\ j \in Nat
        /\ MaxSize * j <= b
        /\ b < MaxSize * j + MaxSize
    BY <2>1, DivBounds
  <2> HIDE DEF j
  <2>3. /\ j * MaxSize = MaxSize * j
        /\ j * MaxSize < q * MaxSize
    BY <1>1, <2>1, <2>2
  <2>4. j \in 0 .. q - 1
    BY <2>2, <2>3
  <2>5. b \in Chunk(ToInt(j * MaxSize))
    BY <1>5, <2>1, <2>2, <2>3, <2>4 DEF Chunk
  <2> QED
    BY <1>4, <2>4, <2>5 DEF IterLoop
<1> QED
  BY <1>6, <1>7

(* The sizes the calls compute from what a conforming caller passes. *)
LEMMA CallSizes ==
  ASSUME Conforming
  PROVE  /\ Calls \cap {"encode", "decode"} # {} =>
              ToSize(ToInt((K * StripLen) \div K)) = StripLen
         /\ "cache_decode_ptr" \in Calls =>
              ToSize(ToInt(CacheSize \div K)) \in StripLen - MaxSize + 1 .. StripLen
         /\ "encode_ptr" \in Calls => EncodePtrSize = StripLen
         /\ StripLen \in StripLen - MaxSize + 1 .. StripLen
<1>1. (K * StripLen) \div K = StripLen
  BY ShapeAssumption, DivOfProduct
<1>2. CacheSize \div K \in Nat
  BY ShapeAssumption, CallerAssumption, DivBounds
<1> QED
  BY <1>1, <1>2, ShapeAssumption, WidthAssumption DEF Conforming, ToInt, ToSize

-----------------------------------------------------------------------------
(* The inductive invariant.  CacheCoherent speaks of decode_index and      *)
(* g_tbls_decode together, NoOverrun needs the sizes of the calls only,    *)
(* and EncodeTableIntact is what the refinement below needs of g_tbls.     *)
IInv == TypeOK /\ NoOverrun /\ CacheCoherent /\ EncodeTableIntact

(* An err_list of the caller names at most n strips. *)
LEMMA ErrListType ==
  ASSUME NEW err \in ErrInputs
  PROVE  /\ DOMAIN err \subseteq 0 .. N - 1
         /\ \A i \in DOMAIN err : err[i] \in Strips
BY CallerAssumption, ShapeAssumption DEF ErrLists

(* Rows built for an err_list from its survivors are rows of that list     *)
(* whose destination is not among their sources.                           *)
LEMMA DecodeRowsType ==
  ASSUME NEW err \in ErrInputs, NEW index \in Survivors(Erased(err))
  PROVE  /\ index \in [0 .. K - 1 -> Strips]
         /\ \A j \in 0 .. K - 1 : index[j] \notin Erased(err)
         /\ \A i \in DOMAIN err : Row(index, err[i]) \in Rows
<1>1. /\ index \in [0 .. K - 1 -> Strips]
      /\ \A j \in 0 .. K - 1 : index[j] \notin Erased(err)
  BY DEF Survivors
<1>2. ASSUME NEW i \in DOMAIN err
      PROVE  Row(index, err[i]) \in Rows
  <2>1. /\ err[i] \in Strips
        /\ err[i] \in Erased(err)
    BY ErrListType DEF Erased
  <2> QED
    BY <1>1, <2>1 DEF Row, Rows
<1> QED
  BY <1>1, <1>2

(* ec_init_tables fills the first rows with those of the err_list. *)
LEMMA DecodeTable ==
  ASSUME NEW err \in ErrInputs, NEW index \in Survivors(Erased(err)),
         NEW tbl, NEW new,
         new = ec_init_tables(gf_gen_decode_matrix_simple(err, index), tbl)
  PROVE  /\ \A i \in DOMAIN err : new[i] = Row(index, err[i])
         /\ \A S : Rows \subseteq S /\ tbl \in [0 .. N - 1 -> S]
                     => new \in [0 .. N - 1 -> S]
<1> DEFINE rows == gf_gen_decode_matrix_simple(err, index)
<1>1. /\ DOMAIN rows = DOMAIN err
      /\ \A i \in DOMAIN err : rows[i] = Row(index, err[i])
  BY DEF gf_gen_decode_matrix_simple
<1>2. DOMAIN err \subseteq 0 .. N - 1
  BY ErrListType
<1>3. new = [r \in 0 .. N - 1 |-> IF r \in DOMAIN rows THEN rows[r] ELSE tbl[r]]
  BY DEF ec_init_tables
<1> HIDE DEF rows
<1>4. \A i \in DOMAIN err : new[i] = Row(index, err[i])
  BY <1>1, <1>2, <1>3
<1>5. ASSUME NEW S, Rows \subseteq S, tbl \in [0 .. N - 1 -> S]
      PROVE  new \in [0 .. N - 1 -> S]
  <2>1. ASSUME NEW r \in 0 .. N - 1
        PROVE  (IF r \in DOMAIN rows THEN rows[r] ELSE tbl[r]) \in S
    BY <1>1, <1>5, DecodeRowsType
  <2> QED
    BY <1>3, <2>1
<1> QED
  BY <1>4, <1>5

(* A parallel loop over the bytes of the strips keeps the type of the      *)
(* buffers and stays inside them.                                          *)
LEMMA RunType ==
  ASSUME TypeOK, NoOverrun, NEW tbl, NEW srcs, NEW dsts,
         Run(tbl, srcs, dsts, Bytes)
  PROVE  /\ buf' \in [Strips -> [Bytes -> {"good", "bad"}]]
         /\ overrun' = FALSE
<1>1. ASSUME NEW s \in Strips, NEW b \in Bytes
      PROVE  (IF b \in Bytes /\ \E l \in DOMAIN dsts : dsts[l] = s
              THEN IF \A l \in DOMAIN dsts :
                        dsts[l] = s => Computes(tbl, l, srcs, dsts, b)
                   THEN "good" ELSE "bad"
              ELSE buf[s][b]) \in {"good", "bad"}
  BY DEF TypeOK
<1> QED
  BY <1>1 DEF Run, ec_encode_data, NoOverrun

(* The history variable names one of the four operations and strips. *)
Ops == [op : {"write", "lose", "encode", "repair"}, of : SUBSET Strips]

LEMMA DidType ==
  ASSUME NEW op \in {"write", "lose", "encode", "repair"},
         NEW S \in SUBSET Strips, Did(op, S)
  PROVE  last' \in Ops
BY DEF Did, Ops

(* The strips a decoding names. *)
LEMMA ErasedType ==
  ASSUME NEW err \in ErrInputs
  PROVE  Erased(err) \in SUBSET Strips
BY ErrListType DEF Erased

(* The invariant holds in the object the constructor returns. *)
LEMMA InitIInv == Init => IInv
<1> SUFFICES ASSUME Init PROVE IInv
  OBVIOUS
<1>1. EncodeRows \in [0 .. N - 1 -> Rows]
  <2>1. ASSUME NEW r \in 0 .. N - 1
        PROVE  Row([j \in 0 .. K - 1 |-> j], K + r) \in Rows
    BY ShapeAssumption DEF Row, Rows, Strips
  <2> QED
    BY <2>1 DEF EncodeRows
<1>2. TypeOK
  BY <1>1 DEF Init, TypeOK
<1> QED
  BY <1>2 DEF Init, IInv, NoOverrun, CacheCoherent, EncodeTableIntact

(* What decode and decode_ptr do, whichever loop they run. *)
LEMMA DecodeStep ==
  ASSUME Conforming, IInv, NEW err \in ErrInputs, DecodeWith(err, Bytes)
  PROVE  IInv'
<1>1. PICK index \in Survivors(Erased(err)) :
        LET tbl == ec_init_tables(gf_gen_decode_matrix_simple(err, index), g_tbls)
        IN  /\ decode_index' = index
            /\ g_tbls' = tbl
            /\ Run(tbl, index, err, Bytes)
            /\ CallerDecoded
            /\ Did("repair", Erased(err))
            /\ UNCHANGED g_tbls_decode
  BY DEF DecodeWith
<1>2. /\ buf' \in [Strips -> [Bytes -> {"good", "bad"}]]
      /\ overrun' = FALSE
  BY <1>1, RunType DEF IInv
<1>3. g_tbls' \in [0 .. N - 1 -> Rows]
  BY <1>1, DecodeTable DEF IInv, TypeOK
<1>4. /\ decoded' = TRUE
      /\ cached' = Uninit
  BY <1>1 DEF CallerDecoded, Conforming
<1>5. decode_index' \in [0 .. K - 1 -> Strips]
  BY <1>1, DecodeRowsType
<1>6. last' \in Ops
  BY <1>1, ErasedType, DidType
<1>7. TypeOK'
  BY <1>1, <1>2, <1>3, <1>4, <1>5, <1>6 DEF IInv, TypeOK, Ops
<1> QED
  BY <1>2, <1>4, <1>7 DEF IInv, NoOverrun, CacheCoherent, EncodeTableIntact

(* Every call, and every step of the caller, preserves the invariant. *)
LEMMA NextIInv ==
  ASSUME Conforming
  PROVE  IInv /\ [Next]_vars => IInv'
<1> SUFFICES ASSUME IInv, [Next]_vars
             PROVE  IInv'
  OBVIOUS
<1> USE DEF IInv
<1>1. ASSUME NEW tbl, NEW srcs, NEW dsts, Run(tbl, srcs, dsts, Bytes),
             last' \in Ops, UNCHANGED <<codec, caller>>
      PROVE  IInv'
  <2>1. /\ buf' \in [Strips -> [Bytes -> {"good", "bad"}]]
        /\ overrun' = FALSE
    BY <1>1, RunType
  <2> QED
    BY <1>1, <2>1 DEF TypeOK, NoOverrun, CacheCoherent, EncodeTableIntact,
                      codec, caller, Ops
<1>2. ASSUME buf' \in [Strips -> [Bytes -> {"good", "bad"}]],
             last' \in Ops, UNCHANGED <<codec, overrun, caller>>
      PROVE  IInv'
  BY <1>2 DEF TypeOK, NoOverrun, CacheCoherent, EncodeTableIntact,
              codec, caller, Ops
<1>3. CASE Fill
  BY <1>2, <1>3, DidType DEF Fill
<1>4. ASSUME NEW S \in SUBSET Strips, Lose(S)
      PROVE  IInv'
  BY <1>2, <1>4, DidType DEF Lose, TypeOK
<1>5. CASE "encode" \in Calls /\ encode
  BY <1>1, <1>5, CallSizes, IndexLoopCovers, DidType DEF encode
<1>6. CASE "encode_ptr" \in Calls /\ encode_ptr
  BY <1>1, <1>6, CallSizes, IterLoopCovers, DidType DEF encode_ptr
<1>7. ASSUME NEW err \in ErrInputs, "decode" \in Calls, decode(err)
      PROVE  IInv'
  BY <1>7, CallSizes, IndexLoopCovers, DecodeStep DEF decode
<1>8. ASSUME NEW err \in ErrInputs, "decode_ptr" \in Calls, decode_ptr(err)
      PROVE  IInv'
  BY <1>8, CallSizes, IndexLoopCovers, DecodeStep DEF decode_ptr
<1>9. ASSUME NEW err \in ErrInputs, "cache_g_tbls" \in Calls, cache_g_tbls(err)
      PROVE  IInv'
  <2>1. PICK index \in Survivors(Erased(err)) :
          /\ decode_index' = index
          /\ g_tbls_decode' =
               ec_init_tables(gf_gen_decode_matrix_simple(err, index), g_tbls_decode)
          /\ cached' = err
          /\ UNCHANGED <<g_tbls, buf, overrun, decoded, last>>
    BY <1>9 DEF cache_g_tbls
  <2>2. /\ \A i \in DOMAIN err : g_tbls_decode'[i] = Row(index, err[i])
        /\ g_tbls_decode' \in [0 .. N - 1 -> Rows \cup {Uninit}]
    <3>1. Rows \subseteq Rows \cup {Uninit}
      OBVIOUS
    <3>2. g_tbls_decode \in [0 .. N - 1 -> Rows \cup {Uninit}]
      BY DEF TypeOK
    <3> DEFINE S == Rows \cup {Uninit}
    <3> HIDE DEF S
    <3>3. Rows \subseteq S /\ g_tbls_decode \in [0 .. N - 1 -> S]
            => g_tbls_decode' \in [0 .. N - 1 -> S]
      BY <2>1, DecodeTable
    <3> QED
      BY <2>1, <3>1, <3>2, <3>3, DecodeTable DEF S
  <2>3. decode_index' \in [0 .. K - 1 -> Strips]
    BY <2>1, DecodeRowsType
  <2>4. TypeOK'
    BY <2>1, <2>2, <2>3 DEF TypeOK
  <2>5. CacheCoherent'
    BY <2>1, <2>2 DEF CacheCoherent
  <2> QED
    BY <2>1, <2>4, <2>5 DEF NoOverrun, EncodeTableIntact
<1>10. ASSUME NEW err \in ErrInputs, "cache_decode_ptr" \in Calls,
              cache_decode_ptr(err)
       PROVE  IInv'
  BY <1>1, <1>10, CallSizes, IndexLoopCovers, ErasedType, DidType
     DEF cache_decode_ptr
<1>11. CASE UNCHANGED vars
  BY <1>11 DEF vars, TypeOK, NoOverrun, CacheCoherent, EncodeTableIntact
<1> QED
  BY <1>3, <1>4, <1>5, <1>6, <1>7, <1>8, <1>9, <1>10, <1>11 DEF Next

LEMMA Invariance ==
  ASSUME Conforming
  PROVE  Spec => []IInv
BY InitIInv, NextIInv, PTL DEF Spec

(* Tables, decode_index and buffers keep their shape through every         *)
(* sequence of calls of a conforming caller.                               *)
THEOREM TypeCorrect ==
  ASSUME Conforming
  PROVE  Spec => []TypeOK
<1>1. IInv => TypeOK
  BY DEF IInv
<1> QED
  BY <1>1, Invariance, PTL

(* No call touches a byte outside the strips, although every chunk is      *)
(* processed with the full length maxSize and sizes pass through an int.   *)
THEOREM NoCallOverruns ==
  ASSUME Conforming
  PROVE  Spec => []NoOverrun
<1>1. IInv => NoOverrun
  BY DEF IInv
<1> QED
  BY <1>1, Invariance, PTL

(* A cached decoding table and decode_index, which every other decoding    *)
(* call overwrites, agree whenever the caller relies on them.              *)
THEOREM CachedTableCoherent ==
  ASSUME Conforming
  PROVE  Spec => []CacheCoherent
<1>1. IInv => CacheCoherent
  BY DEF IInv
<1> QED
  BY <1>1, Invariance, PTL

(* Until an object decodes for the first time its encoding rows are those  *)
(* the constructor computed: cache_g_tbls and cache_decode_ptr, unlike     *)
(* decode and decode_ptr, leave g_tbls alone.                              *)
THEOREM EncodeTableStays ==
  ASSUME Conforming
  PROVE  Spec => []EncodeTableIntact
<1>1. IInv => EncodeTableIntact
  BY DEF IInv
<1> QED
  BY <1>1, Invariance, PTL

-----------------------------------------------------------------------------
(* The refinement: the strips that are intact, byte for byte. *)
Ok == { s \in Strips : Intact(s) }

(* A loop over all bytes leaves the strips it does not write alone, and a  *)
(* strip it writes is intact exactly if every row for it computes.         *)
LEMMA RunOk ==
  ASSUME TypeOK, NEW tbl, NEW srcs, NEW dsts, Run(tbl, srcs, dsts, Bytes),
         NEW s \in Strips
  PROVE  /\ (\A l \in DOMAIN dsts : dsts[l] # s) => (Intact(s)' <=> Intact(s))
         /\ (\E l \in DOMAIN dsts : dsts[l] = s) =>
              (Intact(s)' <=> \A b \in Bytes : \A l \in DOMAIN dsts :
                                dsts[l] = s => Computes(tbl, l, srcs, dsts, b))
<1>1. \A b \in Bytes :
        buf'[s][b] = IF \E l \in DOMAIN dsts : dsts[l] = s
                     THEN IF \A l \in DOMAIN dsts :
                               dsts[l] = s => Computes(tbl, l, srcs, dsts, b)
                          THEN "good" ELSE "bad"
                     ELSE buf[s][b]
  BY DEF Run, ec_encode_data
<1>2. "good" # "bad"
  OBVIOUS
<1> QED
  BY <1>1, <1>2 DEF Intact

(* Encoding with the encoding table is the abstract Encode. *)
LEMMA EncodeRefines ==
  ASSUME TypeOK, g_tbls = EncodeRows, Run(g_tbls, DataPtrs, ParityPtrs, Bytes)
  PROVE  Ok' = IF Data \subseteq Ok THEN Strips ELSE Ok \cap Data
<1> USE ShapeAssumption
<1>1. ASSUME NEW s \in Data
      PROVE  /\ s \in Strips
             /\ Intact(s)' <=> Intact(s)
  <2>1. \A l \in DOMAIN ParityPtrs : ParityPtrs[l] # s
    BY DEF ParityPtrs, Data
  <2>2. s \in Strips
    BY DEF Data, Strips
  <2> QED
    BY <2>1, <2>2, RunOk
<1>2. ASSUME NEW s \in Strips \ Data
      PROVE  Intact(s)' <=> \A t \in Data : Intact(t)
  <2>1. \E r \in DOMAIN ParityPtrs : ParityPtrs[r] = s
    <3>1. /\ s - K \in 0 .. N - 1
          /\ K + (s - K) = s
      BY DEF Strips, Data
    <3> QED
      BY <3>1 DEF ParityPtrs
  <2>2. ASSUME NEW l \in DOMAIN ParityPtrs, ParityPtrs[l] = s, NEW b \in Bytes
        PROVE  Computes(g_tbls, l, DataPtrs, ParityPtrs, b)
                 <=> \A t \in Data : buf[t][b] = "good"
    <3>1. g_tbls[l] = Row(DataPtrs, ParityPtrs[l])
      BY DEF EncodeRows, DataPtrs, ParityPtrs
    <3>2. \A j \in 0 .. K - 1 : \A i \in DOMAIN ParityPtrs :
            ParityPtrs[i] # DataPtrs[j]
      BY DEF DataPtrs, ParityPtrs
    <3>3. \A j \in 0 .. K - 1 : DataPtrs[j] = j
      BY DEF DataPtrs
    <3> QED
      BY <3>1, <3>2, <3>3 DEF Computes, Data
  <2>3. Intact(s)' <=> \A b \in Bytes : \A t \in Data : buf[t][b] = "good"
    BY <2>1, <2>2, RunOk
  <2> QED
    BY <2>3 DEF Intact
<1> QED
  BY <1>1, <1>2 DEF Ok

(* A decoding that reads the survivors of err and has the rows for them is *)
(* the abstract Repair.                                                    *)
LEMMA DecodeRefines ==
  ASSUME TypeOK, NEW err \in ErrInputs, NEW index \in Survivors(Erased(err)),
         NEW tbl, \A i \in DOMAIN err : tbl[i] = Row(index, err[i]),
         Run(tbl, index, err, Bytes), Did("repair", Erased(err))
  PROVE  Code!Repair(Erased(err))
<1> DEFINE E == Erased(err)
<1>1. E \subseteq Strips
  BY ErrListType DEF Erased
<1>2. ASSUME NEW s \in Strips \ E
      PROVE  Intact(s)' <=> Intact(s)
  BY RunOk DEF Erased
<1>3. ASSUME \A t \in Strips \ E : Intact(t), NEW s \in E
      PROVE  Intact(s)'
  <2>1. \E l \in DOMAIN err : err[l] = s
    BY DEF Erased
  <2>2. \A j \in 0 .. K - 1 : index[j] \in Strips \ E
    BY DecodeRowsType
  <2>3. \A j \in 0 .. K - 1 : \A i \in DOMAIN err : err[i] # index[j]
    BY <2>2 DEF Erased
  <2>4. \A b \in Bytes : \A l \in DOMAIN err : Computes(tbl, l, index, err, b)
    BY <1>3, <2>2, <2>3 DEF Computes, Intact
  <2> QED
    BY <1>1, <2>1, <2>4, RunOk
<1> HIDE DEF E
<1>4. Ok' \subseteq Ok \cup E
  BY <1>2 DEF Ok
<1>5. Ok \ E \subseteq Ok'
  BY <1>2 DEF Ok
<1>6. Strips \ E \subseteq Ok => Ok' = Strips
  BY <1>2, <1>3 DEF Ok
<1>7. Code!Strips = Strips
  BY DEF Code!Strips, Strips
<1> QED
  BY <1>1, <1>4, <1>5, <1>6, <1>7 DEF Code!Repair, Code!Did, Did, Ok, E

(* What a call does for a conforming caller: an encoding completes the     *)
(* codeword, a decoding restores it.                                       *)
LEMMA EncodeCompletes ==
  ASSUME Conforming, IInv, ~ decoded,
         \/ "encode" \in Calls /\ encode
         \/ "encode_ptr" \in Calls /\ encode_ptr,
         \A s \in Data : Intact(s)
  PROVE  \A s \in Strips : Intact(s)'
<1>1. Run(g_tbls, DataPtrs, ParityPtrs, Bytes)
  BY CallSizes, IndexLoopCovers, IterLoopCovers DEF encode, encode_ptr
<1>2. Ok' = IF Data \subseteq Ok THEN Strips ELSE Ok \cap Data
  BY <1>1, EncodeRefines DEF IInv, EncodeTableIntact
<1>3. Data \subseteq Strips
  BY ShapeAssumption DEF Data, Strips
<1> QED
  BY <1>2, <1>3 DEF Ok

LEMMA DecodeRestores ==
  ASSUME Conforming, IInv, NEW err \in ErrInputs,
         \/ "decode" \in Calls /\ decode(err)
         \/ "decode_ptr" \in Calls /\ decode_ptr(err)
         \/ "cache_decode_ptr" \in Calls /\ cached = err /\ cache_decode_ptr(err),
         \A s \in Strips \ Erased(err) : Intact(s)
  PROVE  \A s \in Strips : Intact(s)'
<1>1. \E index \in Survivors(Erased(err)), tbl \in {g_tbls', g_tbls_decode} :
        /\ \A x \in DOMAIN err : tbl[x] = Row(index, err[x])
        /\ Run(tbl, index, err, Bytes)
        /\ Did("repair", Erased(err))
  <2>1. CASE ("decode" \in Calls /\ decode(err)) \/ ("decode_ptr" \in Calls /\ decode_ptr(err))
    <3>1. DecodeWith(err, Bytes)
      BY <2>1, CallSizes, IndexLoopCovers DEF decode, decode_ptr
    <3>2. PICK index \in Survivors(Erased(err)) :
            /\ g_tbls' = ec_init_tables(gf_gen_decode_matrix_simple(err, index), g_tbls)
            /\ Run(g_tbls', index, err, Bytes)
            /\ Did("repair", Erased(err))
      BY <3>1 DEF DecodeWith
    <3>3. \A x \in DOMAIN err : g_tbls'[x] = Row(index, err[x])
      BY <3>2, DecodeTable
    <3> QED
      BY <3>2, <3>3
  <2>2. CASE "cache_decode_ptr" \in Calls /\ cached = err /\ cache_decode_ptr(err)
    <3>1. /\ Run(g_tbls_decode, decode_index, err, Bytes)
          /\ Did("repair", Erased(err))
      BY <2>2, CallSizes, IndexLoopCovers DEF cache_decode_ptr
    <3>2. /\ decode_index \in Survivors(Erased(err))
          /\ \A x \in DOMAIN err : g_tbls_decode[x] = Row(decode_index, err[x])
      BY <2>2, CallerAssumption DEF CacheCoherent, IInv
    <3> QED
      BY <3>1, <3>2
  <2> QED
    BY <2>1, <2>2
<1>2. Code!Repair(Erased(err))
  BY <1>1, DecodeRefines DEF IInv
<1>3. Code!Strips = Strips
  BY DEF Code!Strips, Strips
<1> QED
  BY <1>2, <1>3 DEF Code!Repair, Ok

(* A step of a conforming caller or of one of its calls is a step of the   *)
(* abstract specification, or leaves the intact strips as they are.        *)
LEMMA StepRefines ==
  ASSUME Conforming, IInv, [Next]_vars
  PROVE  [Code!Next]_<<Ok, last>>
<1> USE DEF IInv
<1>0. /\ Code!Strips = Strips
      /\ Code!Data = Data
  BY DEF Code!Strips, Strips, Code!Data, Data
<1>1. ASSUME buf' = buf, last' = last
      PROVE  UNCHANGED <<Ok, last>>
  BY <1>1 DEF Ok, Intact
<1>2. CASE Fill
  <2>1. Ok' = Data
    <3>1. 0 \in Bytes
      BY ShapeAssumption DEF Bytes
    <3>2. Data \subseteq Strips
      BY ShapeAssumption DEF Data, Strips
    <3> QED
      BY <1>2, <3>1, <3>2 DEF Fill, Ok, Intact
  <2> QED
    BY <1>0, <1>2, <2>1 DEF Fill, Did, Code!Did, Code!Next, Code!Write, Ok
<1>3. ASSUME NEW S \in SUBSET Strips, Cardinality(S) <= N, Lose(S)
      PROVE  Code!Next
  <2>1. 0 \in Bytes
    BY ShapeAssumption DEF Bytes
  <2>2. Ok' = Ok \ S
    BY <1>3, <2>1 DEF Lose, Ok, Intact
  <2>3. last' = [op |-> "lose", of |-> S]
    BY <1>3 DEF Lose, Did
  <2>4. Code!Cardinality(S) = Cardinality(S)
    BY DEF Code!Cardinality, Cardinality
  <2>5. Code!Lose(S)
    BY <1>0, <1>3, <2>2, <2>3, <2>4 DEF Code!Lose, Code!Did, Ok
  <2> QED
    BY <1>0, <2>5 DEF Code!Next
<1>4. ASSUME g_tbls = EncodeRows, Run(g_tbls, DataPtrs, ParityPtrs, Bytes),
             Did("encode", {})
      PROVE  Code!Next
  <2>1. Ok' = IF Data \subseteq Ok THEN Strips ELSE Ok \cap Data
    BY <1>4, EncodeRefines
  <2> QED
    BY <1>0, <1>4, <2>1 DEF Code!Next, Code!Encode, Code!Did, Did, Ok
<1>5. CASE (decoded => EncodeAfterDecode) /\ "encode" \in Calls /\ encode
  BY <1>4, <1>5, CallSizes, IndexLoopCovers
     DEF encode, EncodeTableIntact, Conforming
<1>6. CASE (decoded => EncodeAfterDecode) /\ "encode_ptr" \in Calls /\ encode_ptr
  BY <1>4, <1>6, CallSizes, IterLoopCovers
     DEF encode_ptr, EncodeTableIntact, Conforming
<1>7. ASSUME NEW err \in ErrInputs, Code!Repair(Erased(err))
      PROVE  Code!Next
  <2>1. Erased(err) \in SUBSET Strips
    BY ErrListType DEF Erased
  <2> QED
    BY <1>0, <1>7, <2>1 DEF Code!Next
<1>8. ASSUME NEW err \in ErrInputs, DecodeWith(err, Bytes)
      PROVE  Code!Next
  <2>1. PICK index \in Survivors(Erased(err)) :
          /\ Run(ec_init_tables(gf_gen_decode_matrix_simple(err, index), g_tbls),
                 index, err, Bytes)
          /\ Did("repair", Erased(err))
    BY <1>8 DEF DecodeWith
  <2> DEFINE tbl ==
        ec_init_tables(gf_gen_decode_matrix_simple(err, index), g_tbls)
  <2>2. \A i \in DOMAIN err : tbl[i] = Row(index, err[i])
    BY DecodeTable
  <2>3. Run(tbl, index, err, Bytes)
    BY <2>1
  <2> HIDE DEF tbl
  <2>4. Code!Repair(Erased(err))
    BY <2>1, <2>2, <2>3, DecodeRefines
  <2> QED
    BY <1>7, <2>4
<1>9. ASSUME NEW err \in ErrInputs, "decode" \in Calls, decode(err)
      PROVE  Code!Next
  BY <1>8, <1>9, CallSizes, IndexLoopCovers DEF decode
<1>10. ASSUME NEW err \in ErrInputs, decode_ptr(err)
       PROVE  Code!Next
  BY <1>8, <1>10, CallSizes, IndexLoopCovers DEF decode_ptr
<1>11. ASSUME NEW err \in ErrInputs, cache_g_tbls(err)
       PROVE  UNCHANGED <<Ok, last>>
  BY <1>1, <1>11 DEF cache_g_tbls
<1>12. ASSUME NEW err \in ErrInputs, "cache_decode_ptr" \in Calls, cached = err,
              cache_decode_ptr(err)
       PROVE  Code!Next
  <2>1. /\ cached = err
        /\ Run(g_tbls_decode, decode_index, err, Bytes)
        /\ Did("repair", Erased(err))
    BY <1>12, CallSizes, IndexLoopCovers DEF cache_decode_ptr
  <2>2. /\ decode_index \in Survivors(Erased(err))
        /\ \A i \in DOMAIN err : g_tbls_decode[i] = Row(decode_index, err[i])
    BY <2>1, CallerAssumption DEF CacheCoherent
  <2>3. Code!Repair(Erased(err))
    BY <2>1, <2>2, DecodeRefines
  <2> QED
    BY <1>7, <2>3
<1>13. CASE UNCHANGED vars
  BY <1>1, <1>13 DEF vars
<1> QED
  BY <1>2, <1>3, <1>5, <1>6, <1>9, <1>10, <1>11, <1>12, <1>13 DEF Next

(* For callers that follow the protocol, the codec with its shared tables  *)
(* and its chunked loops keeps the promise of ErasureCode: encodings       *)
(* complete the codeword, and a decoding restores all erased strips from   *)
(* intact survivors and touches no survivor.                               *)
THEOREM CodecKeepsPromise ==
  ASSUME Conforming
  PROVE  Spec => ImplementsErasureCode
<1>1. Init => Code!Init
  <2> SUFFICES ASSUME Init PROVE Code!Init
    OBVIOUS
  <2>1. 0 \in Bytes
    BY ShapeAssumption DEF Bytes
  <2>2. Data \subseteq Strips
    BY ShapeAssumption DEF Data, Strips
  <2> QED
    BY <2>1, <2>2 DEF Init, Code!Init, Code!Data, Data, Intact
<1>2. IInv /\ [Next]_vars => [Code!Next]_<<Ok, last>>
  BY StepRefines
<1> QED
  BY <1>1, <1>2, Invariance, PTL DEF Spec, ImplementsErasureCode, Code!Spec, Ok
=============================================================================
