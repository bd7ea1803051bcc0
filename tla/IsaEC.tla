------------------------------- MODULE IsaEC -------------------------------
(***************************************************************************)
(* The codec object of src/IsaEC.hpp and src/IsaEC.cpp, one action per     *)
(* public call, together with the caller's strip buffers.                  *)
(*                                                                         *)
(* A row of coefficients is known by what it computes: the row [src, dst]  *)
(* turns the bytes of the strips src[0..k-1] into those of the strip dst.  *)
(* The encoding matrix holds such rows for the parity strips, and          *)
(* gf_gen_decode_matrix_simple builds them for erased strips.  Applied to  *)
(* any other sources, or stored into any other strip, a row yields bytes   *)
(* nobody can rely on.  The parallel loop of a call is taken as a whole    *)
(* here: its threads work on disjoint chunks with private pointer arrays   *)
(* (encode(), whose array is shared, stands for a team of one thread).     *)
(***************************************************************************)
EXTENDS Integers, FiniteSets

CONSTANTS
  K, N,                \* k, n: data strips and parity strips
  MaxSize,             \* maxSize: bytes of a chunk
  StripLen,            \* bytes the caller allocated for every strip
  EncodePtrSize,       \* the size the caller passes to encode_ptr
  CacheSize,           \* the size the caller passes to cache_decode_ptr
  Calls,               \* the calls the caller uses
  ErrInputs,           \* the err_lists the caller passes
  IntMax, SizeMax,     \* 1 + INT_MAX and 1 + SIZE_MAX (2^31 and 2^64)
  EncodeAfterDecode,   \* the caller encodes on an object that has decoded
  DecodeBetweenCached, \* the caller decodes between caching and its use
  Uninit               \* content of memory from new unsigned char[]

Strips == 0 .. K + N - 1
Data   == 0 .. K - 1
Bytes  == 0 .. StripLen - 1

(* err_list with err_num = its length; entries may repeat, as the          *)
(* rand() % (k + n) of the test programs makes them.                       *)
ErrLists == UNION { [0 .. num - 1 -> Strips] : num \in 0 .. N }
Erased(err) == { err[i] : i \in DOMAIN err }

AllCalls == {"encode", "encode_ptr", "decode", "decode_ptr",
             "cache_g_tbls", "cache_decode_ptr"}

ASSUME ShapeAssumption == /\ K \in Nat \ {0}
                          /\ N \in Nat
                          /\ MaxSize \in Nat \ {0}
                          /\ StripLen \in Nat \ {0}
ASSUME WidthAssumption == /\ IntMax \in Nat \ {0}
                          /\ SizeMax \in Nat
                          /\ 2 * IntMax <= SizeMax
ASSUME CallerAssumption == /\ Calls \subseteq AllCalls
                           /\ ErrInputs \subseteq ErrLists
                           /\ EncodePtrSize \in Nat
                           /\ CacheSize \in Nat
                           /\ EncodeAfterDecode \in BOOLEAN
                           /\ DecodeBetweenCached \in BOOLEAN
                           /\ Uninit \notin ErrInputs

(* What the calls expect of their caller, none of which they check: strips *)
(* are whole chunks; the size of encode_ptr is that of a strip, that of    *)
(* cache_decode_ptr divided by k reaches into the last chunk (so k strips, *)
(* or, as stripe_scheduler passes it, one chunk for strips of one chunk);  *)
(* what a call keeps in an int fits there: the length of a strip in encode *)
(* and decode, the number of chunks and the start of the last one in       *)
(* encode_ptr, size / k in cache_decode_ptr, nothing in decode_ptr; and an *)
(* object that has decoded is used neither to encode nor, with a table     *)
(* cached before, to decode again.                                         *)
Conforming ==
  /\ \E q \in 0 .. StripLen : StripLen = q * MaxSize
  /\ Calls \cap {"encode", "decode"} # {} => StripLen < IntMax
  /\ "encode_ptr" \in Calls => /\ EncodePtrSize = StripLen
                              /\ StripLen \div MaxSize < IntMax
                              /\ StripLen - MaxSize < IntMax
  /\ "cache_decode_ptr" \in Calls =>
       /\ CacheSize \div K \in StripLen - MaxSize + 1 .. StripLen
       /\ CacheSize \div K < IntMax
  /\ ~ EncodeAfterDecode
  /\ ~ DecodeBetweenCached

VARIABLES
  g_tbls,         \* table rows for encoding, and for decode and decode_ptr
  g_tbls_decode,  \* table rows prepared by cache_g_tbls
  decode_index,   \* the strips a decode reads, in order
  buf,            \* bytes of the caller's strips: "good" or "bad"
  overrun,        \* some call touched bytes outside the strips
  decoded,        \* the caller has called decode or decode_ptr
  cached,         \* err_list the caller holds g_tbls_decode to be good for
  last            \* history: what was done last, and the strips it names

codec  == <<g_tbls, g_tbls_decode, decode_index>>
caller == <<decoded, cached>>
vars   ==
  <<g_tbls, g_tbls_decode, decode_index, buf, overrun, decoded, cached, last>>

Did(op, S) == last' = [op |-> op, of |-> S]

-----------------------------------------------------------------------------
(* Conversions to int and back to size_t, where a byte count passes        *)
(* through an int variable.                                                *)
ToInt(x) ==
  IF x < IntMax THEN x
  ELSE LET y == x % (2 * IntMax) IN IF y < IntMax THEN y ELSE y - 2 * IntMax

ToSize(x) == IF x >= 0 THEN x ELSE SizeMax + x

Chunk(start) == start .. start + MaxSize - 1

(* Variant: the loop condition is index <= total. *)
IndexLoop_inclusive(total) ==
  UNION { Chunk(i * MaxSize) : i \in { j \in 0 .. total : j * MaxSize <= total } }

(* Bytes visited by  for (size_t index = 0; index < total; index += maxSize) *)
IndexLoop(total) ==
  UNION { Chunk(i * MaxSize) : i \in { j \in 0 .. total : j * MaxSize < total } }

(* Bytes visited by  for (int i = 0; i < iter_num; ++i)  at  i * maxSize *)
IterLoop(size) ==
  UNION { Chunk(ToInt(i * MaxSize)) : i \in 0 .. ToInt(size \div MaxSize) - 1 }

-----------------------------------------------------------------------------
Row(srcs, s) == [src |-> srcs, dst |-> s]

(* Rows k..m-1 of the encoding matrix. *)
EncodeRows == [r \in 0 .. N - 1 |-> Row([j \in 0 .. K - 1 |-> j], K + r)]

(* Variant: erased rows are not skipped. *)
Survivors_noskip(E) ==
  { f \in [0 .. K - 1 -> Strips] : \A i \in 0 .. K - 1 : f[i] = i }

(* decode_index as the row-selection loop fills it: the first k strips     *)
(* that are not erased, in ascending order.                                *)
Survivors(E) ==
  { f \in [0 .. K - 1 -> Strips \ E] :
      /\ \A i, j \in 0 .. K - 1 : i < j => f[i] < f[j]
      /\ \A s \in Strips \ E : \/ \E i \in 0 .. K - 1 : f[i] = s
                               \/ \A i \in 0 .. K - 1 : f[i] < s }

(* Rows of the decoding matrix, in the order of err_list. *)
gf_gen_decode_matrix_simple(err, index) ==
  [i \in DOMAIN err |-> Row(index, err[i])]

(* Variant: the table is rebuilt with the new rows only. *)
ec_init_tables_short(rows, tbl) == [r \in DOMAIN rows |-> rows[r]]

(* Only the first rows of the table are written. *)
ec_init_tables(rows, tbl) ==
  [r \in 0 .. N - 1 |-> IF r \in DOMAIN rows THEN rows[r] ELSE tbl[r]]

(* Row l of the table does its work on byte b: it was built for these      *)
(* sources and this destination, the sources are intact, and no            *)
(* destination overlaps a source.                                          *)
Computes(tbl, l, srcs, dsts, b) ==
  /\ tbl[l] = Row(srcs, dsts[l])
  /\ \A j \in 0 .. K - 1 : buf[srcs[j]][b] = "good"
  /\ \A j \in 0 .. K - 1 : \A i \in DOMAIN dsts : dsts[i] # srcs[j]

(* The buffers after ec_encode_data ran on every chunk of `touched'.  Rows *)
(* with the same destination are equal, so their order does not matter.    *)
ec_encode_data(tbl, srcs, dsts, touched) ==
  [s \in Strips |-> [b \in Bytes |->
     IF b \in touched /\ \E l \in DOMAIN dsts : dsts[l] = s
     THEN IF \A l \in DOMAIN dsts :
               dsts[l] = s => Computes(tbl, l, srcs, dsts, b)
          THEN "good" ELSE "bad"
     ELSE buf[s][b]]]

Run(tbl, srcs, dsts, touched) ==
  /\ buf' = ec_encode_data(tbl, srcs, dsts, touched)
  /\ overrun' = (overrun \/ ~ (touched \subseteq Bytes))

-----------------------------------------------------------------------------
(* Constructor: encoding rows are ready, the decoding side is uninitialised. *)
Init ==
  /\ g_tbls = EncodeRows
  /\ g_tbls_decode = [r \in 0 .. N - 1 |-> Uninit]
  /\ decode_index = Uninit
  /\ buf = [s \in Strips |-> [b \in Bytes |->
              IF s \in Data THEN "good" ELSE "bad"]]
  /\ overrun = FALSE
  /\ decoded = FALSE
  /\ cached = Uninit
  /\ last = [op |-> "write", of |-> {}]

DataPtrs   == [j \in 0 .. K - 1 |-> j]
ParityPtrs == [r \in 0 .. N - 1 |-> K + r]

(* encode(in, out, size) with size = k * StripLen, as its callers pass it. *)
encode ==
  /\ Run(g_tbls, DataPtrs, ParityPtrs,
         IndexLoop(ToSize(ToInt((K * StripLen) \div K))))
  /\ Did("encode", {})
  /\ UNCHANGED <<codec, caller>>

encode_ptr ==
  /\ Run(g_tbls, DataPtrs, ParityPtrs, IterLoop(EncodePtrSize))
  /\ Did("encode", {})
  /\ UNCHANGED <<codec, caller>>

(* A decode replaces decode_index.  A caller that knows this no longer     *)
(* uses a table it cached before.                                          *)
CallerDecoded ==
  /\ decoded' = TRUE
  /\ cached' = IF DecodeBetweenCached THEN cached ELSE Uninit

DecodeWith(err, touched) ==
  \E index \in Survivors(Erased(err)) :
    LET tbl == ec_init_tables(gf_gen_decode_matrix_simple(err, index), g_tbls)
    IN  /\ decode_index' = index
        /\ g_tbls' = tbl
        /\ Run(tbl, index, err, touched)
        /\ CallerDecoded
        /\ Did("repair", Erased(err))
        /\ UNCHANGED g_tbls_decode

(* decode(matrix, err_num, err_list, size) with size = k * StripLen. *)
decode(err) == DecodeWith(err, IndexLoop(ToSize(ToInt((K * StripLen) \div K))))

decode_ptr(err) == DecodeWith(err, IndexLoop(StripLen))

(* Variant: the caller's err_list is cached, decode_index is not refreshed. *)
cache_g_tbls_noindex(err) ==
  \E index \in Survivors(Erased(err)) :
    /\ g_tbls_decode' =
         ec_init_tables(gf_gen_decode_matrix_simple(err, index), g_tbls_decode)
    /\ cached' = err
    /\ UNCHANGED <<g_tbls, decode_index, buf, overrun, decoded, last>>

(* Variant: the decoding rows go to g_tbls, as they do in decode_ptr. *)
cache_g_tbls_wrongtable(err) ==
  \E index \in Survivors(Erased(err)) :
    /\ decode_index' = index
    /\ g_tbls' = ec_init_tables(gf_gen_decode_matrix_simple(err, index), g_tbls)
    /\ cached' = err
    /\ UNCHANGED <<g_tbls_decode, buf, overrun, decoded, last>>

cache_g_tbls(err) ==
  \E index \in Survivors(Erased(err)) :
    /\ decode_index' = index
    /\ g_tbls_decode' =
         ec_init_tables(gf_gen_decode_matrix_simple(err, index), g_tbls_decode)
    /\ cached' = err
    /\ UNCHANGED <<g_tbls, buf, overrun, decoded, last>>

cache_decode_ptr(err) ==
  /\ Run(g_tbls_decode, decode_index, err,
         IndexLoop(ToSize(ToInt(CacheSize \div K))))
  /\ Did("repair", Erased(err))
  /\ UNCHANGED <<codec, caller>>

-----------------------------------------------------------------------------
(* The caller stores fresh data into the data strips. *)
Fill ==
  /\ buf' = [s \in Strips |-> [b \in Bytes |->
               IF s \in Data THEN "good" ELSE "bad"]]
  /\ Did("write", {})
  /\ UNCHANGED <<codec, overrun, caller>>

(* The caller loses the strips of S. *)
Lose(S) ==
  /\ buf' = [s \in Strips |-> IF s \in S THEN [b \in Bytes |-> "bad"] ELSE buf[s]]
  /\ Did("lose", S)
  /\ UNCHANGED <<codec, overrun, caller>>

(* The calls check nothing; the conjuncts here are the caller's protocol. *)
Next ==
  \/ Fill
  \/ \E S \in SUBSET Strips : Cardinality(S) <= N /\ Lose(S)
  \/ /\ decoded => EncodeAfterDecode
     /\ \/ "encode" \in Calls /\ encode
        \/ "encode_ptr" \in Calls /\ encode_ptr
  \/ \E err \in ErrInputs :
       \/ "decode" \in Calls /\ decode(err)
       \/ "decode_ptr" \in Calls /\ decode_ptr(err)
       \/ "cache_g_tbls" \in Calls /\ cache_g_tbls(err)
       \/ "cache_decode_ptr" \in Calls /\ cached = err /\ cache_decode_ptr(err)

Spec == Init /\ [][Next]_vars

-----------------------------------------------------------------------------
Intact(s) == \A b \in Bytes : buf[s][b] = "good"

(* The rows a table can hold: the destination is never one of the sources. *)
Rows == { r \in [src : [0 .. K - 1 -> Strips], dst : Strips] :
            \A j \in 0 .. K - 1 : r.src[j] # r.dst }

(* The tables keep their n rows and decode_index its k strips through      *)
(* every sequence of calls.                                                *)
TypeOK ==
  /\ g_tbls \in [0 .. N - 1 -> Rows]
  /\ g_tbls_decode \in [0 .. N - 1 -> Rows \cup {Uninit}]
  /\ decode_index \in [0 .. K - 1 -> Strips] \cup {Uninit}
  /\ buf \in [Strips -> [Bytes -> {"good", "bad"}]]
  /\ overrun \in BOOLEAN
  /\ decoded \in BOOLEAN
  /\ cached \in ErrInputs \cup {Uninit}
  /\ last \in [op : {"write", "lose", "encode", "repair"}, of : SUBSET Strips]

(* No call reads or writes outside the strips, although every chunk is     *)
(* handed to ec_encode_data with the full length maxSize.                  *)
NoOverrun == ~ overrun

(* As long as the caller relies on a cached table, decode_index is still   *)
(* the list of survivors that table was built for, and none of them is     *)
(* among the strips to be rebuilt (decode_index is shared with decode,     *)
(* decode_ptr and the other cache_g_tbls calls).                           *)
CacheCoherent ==
  cached # Uninit =>
    /\ decode_index \in Survivors(Erased(cached))
    /\ \A i \in DOMAIN cached : g_tbls_decode[i] = Row(decode_index, cached[i])

(* The table of encode and encode_ptr holds the encoding rows until the    *)
(* first decode or decode_ptr of the object.                               *)
EncodeTableIntact == ~ decoded => g_tbls = EncodeRows

(* An encoding call on intact data strips leaves a complete codeword.      *)
EncodeMakesCodeword ==
  [][ (encode \/ encode_ptr) /\ (\A s \in Data : Intact(s))
        => \A s \in Strips : Intact(s)' ]_vars

(* The codec implements the promise of ErasureCode: encodings complete the *)
(* codeword, decodings restore every erased strip from intact survivors    *)
(* and never touch a survivor.                                             *)
Code == INSTANCE ErasureCode WITH ok <- { s \in Strips : Intact(s) }

ImplementsErasureCode == Code!Spec
=============================================================================
