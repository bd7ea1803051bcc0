--------------------------- MODULE InflateProofs ---------------------------
(***************************************************************************)
(* Proofs about Inflate, for windows, buffers and files of any size: the   *)
(* library's buffers hold whatever is put into them, the counters and the  *)
(* checksum are of what the caller was given, between calls tmp_out_buffer *)
(* ends with what was decoded last, a call returns only when it has        *)
(* nothing left to do, and a caller gets the extra field of a gzip header. *)
(***************************************************************************)
EXTENDS Inflate, WellFoundedInduction, TLAPS

-----------------------------------------------------------------------------
(* Sequences.                                                              *)

LEMMA Taken1 ==
  ASSUME NEW S, NEW s \in Seq(S), NEW a \in 0 .. Len(s)
  PROVE  Take(s, a) \in Seq(S) /\ Len(Take(s, a)) = a
BY DEF Take

LEMMA Dropped ==
  ASSUME NEW S, NEW s \in Seq(S), NEW a \in Nat, a <= Len(s)
  PROVE  Drop(s, a) \in Seq(S) /\ Len(Drop(s, a)) = Len(s) - a
BY DEF Drop

LEMMA Joined ==
  ASSUME NEW S, NEW s \in Seq(S), NEW t \in Seq(S)
  PROVE  s \o t \in Seq(S) /\ Len(s \o t) = Len(s) + Len(t)
OBVIOUS

LEMMA CopiedLen ==
  ASSUME NEW s \in Seq(Nat), NEW dist, NEW len \in Nat
  PROVE  Copied(s, dist, len) \in Seq(Nat) /\ Len(Copied(s, dist, len)) = len
BY DEF Copied, Stray

-----------------------------------------------------------------------------
(* Sets of naturals.                                                       *)

LEMMA LeastNat ==
  ASSUME NEW T, T \subseteq Nat, T # {}
  PROVE  \E x \in T : \A y \in T : x <= y
<1>1. \E x \in T : \A y \in T : ~ (<<y, x>> \in OpToRel(<, Nat))
  BY NatLessThanWellFounded, WFMin
<1>2. \E x \in T : \A y \in T : ~ (y < x)
  BY <1>1, Zenon DEF OpToRel
<1> QED
  BY <1>2

LEMMA SetInduction ==
  ASSUME NEW S, 0 \in S, \A x \in Nat : x \in S => x + 1 \in S
  PROVE  Nat \subseteq S
<1> SUFFICES ASSUME Nat \ S # {} PROVE FALSE
  OBVIOUS
<1>1. PICK x \in Nat \ S : \A y \in Nat \ S : x <= y
  BY LeastNat
<1>2. x # 0 /\ x - 1 \in Nat
  BY <1>1
<1>3. x - 1 \in S
  BY <1>1, <1>2
<1> QED
  BY <1>1, <1>2, <1>3

(* A bounded set of naturals has a greatest element.                       *)
LEMMA GreatestNat ==
  ASSUME NEW b \in Nat, NEW T, T \subseteq 0 .. b, T # {}
  PROVE  Max(T) \in T /\ \A y \in T : y <= Max(T)
<1> DEFINE U == {x \in 0 .. b : b - x \in T}
<1>1. U \subseteq Nat
  OBVIOUS
<1>2. PICK t \in T : TRUE
  OBVIOUS
<1>3. t \in 0 .. b /\ b - t \in 0 .. b /\ b - (b - t) = t
  BY <1>2
<1>4. b - t \in U
  BY <1>2, <1>3
<1>5. PICK x \in U : \A y \in U : x <= y
  BY <1>1, <1>4, LeastNat
<1>6. ASSUME NEW y \in T PROVE b - x >= y
  <2>1. y \in 0 .. b /\ b - y \in 0 .. b /\ b - (b - y) = y
    OBVIOUS
  <2>2. x <= b - y
    BY <1>5, <2>1
  <2> QED
    BY <2>1, <2>2
<1>7. \E z \in T : \A y \in T : z >= y
  BY <1>5, <1>6
<1>8. Max(T) \in T /\ \A y \in T : Max(T) >= y
  BY <1>7, Zenon DEF Max
<1> QED
  BY <1>8

-----------------------------------------------------------------------------
(* The checksum of two parts is that of the parts put together.            *)

Next1(sum, value) == (37 * sum + value + 1) % 65521
Sums(f, sum, part, n) ==
  f[0] = sum /\ \A i \in Nat : i + 1 <= n => f[i + 1] = Next1(f[i], part[i + 1])
HasSums(sum, part, n) == \E f \in [0 .. n -> Nat] : Sums(f, sum, part, n)

LEMMA Next1Type ==
  ASSUME NEW sum \in Nat, NEW value \in Nat
  PROVE  Next1(sum, value) \in Nat
BY DEF Next1

LEMMA OneMoreSum ==
  ASSUME NEW sum \in Nat, NEW part \in Seq(Nat), NEW n \in Nat, n + 1 <= Len(part),
         HasSums(sum, part, n)
  PROVE  HasSums(sum, part, n + 1)
<1>1. PICK f \in [0 .. n -> Nat] : Sums(f, sum, part, n)
  BY DEF HasSums
<1> DEFINE v == Next1(f[n], part[n + 1])
           g == [i \in 0 .. n + 1 |-> IF i = n + 1 THEN v ELSE f[i]]
<1>2. v \in Nat
  <2>1. f[n] \in Nat /\ part[n + 1] \in Nat
    BY <1>1
  <2> QED
    BY <2>1, Next1Type
<1>3. g \in [0 .. n + 1 -> Nat]
  BY <1>2
<1>4. ASSUME NEW i \in Nat, i + 1 <= n + 1
      PROVE  g[i + 1] = Next1(g[i], part[i + 1])
  <2>1. CASE i = n
    BY <2>1
  <2>2. CASE i # n
    <3>1. i + 1 <= n /\ i + 1 \in 0 .. n /\ i \in 0 .. n /\ i + 1 # n + 1 /\ i # n + 1
      BY <1>4, <2>2
    <3>2. f[i + 1] = Next1(f[i], part[i + 1])
      BY <1>1, <3>1 DEF Sums
    <3>3. g[i + 1] = f[i + 1] /\ g[i] = f[i]
      BY <3>1
    <3> QED
      BY <3>2, <3>3
  <2> QED
    BY <2>1, <2>2
<1>5. g[0] = sum
  BY <1>1 DEF Sums
<1> HIDE DEF g
<1> QED
  BY <1>3, <1>4, <1>5 DEF HasSums, Sums

LEMMA ExtendedIs ==
  ASSUME NEW sum \in Nat, NEW part \in Seq(Nat)
  PROVE  \E f \in [0 .. Len(part) -> Nat] :
           Sums(f, sum, part, Len(part)) /\ Extended(sum, part) = f[Len(part)]
<1> DEFINE S == {n \in Nat : n <= Len(part) => HasSums(sum, part, n)}
<1>1. 0 \in S
  <2>1. Sums([i \in 0 .. 0 |-> sum], sum, part, 0)
    BY DEF Sums
  <2>2. [i \in 0 .. 0 |-> sum] \in [0 .. 0 -> Nat]
    OBVIOUS
  <2> QED
    BY <2>1, <2>2 DEF HasSums
<1>2. ASSUME NEW n \in Nat, n \in S PROVE n + 1 \in S
  BY <1>2, OneMoreSum
<1>3. Len(part) \in S
  <2> HIDE DEF S
  <2> QED
    BY <1>1, <1>2, SetInduction, SMTT(60)
<1>4. PICK f \in [0 .. Len(part) -> Nat] : Sums(f, sum, part, Len(part))
  BY <1>3 DEF HasSums
<1> DEFINE F(of) == [i \in 0 .. Len(part) |->
                       IF i = 0 THEN sum ELSE (37 * of[i - 1] + part[i] + 1) % 65521]
           of == CHOOSE of : of = F(of)
<1>5. f = F(f)
  <2>1. ASSUME NEW i \in 0 .. Len(part)
        PROVE  f[i] = IF i = 0 THEN sum ELSE (37 * f[i - 1] + part[i] + 1) % 65521
    <3>1. i # 0 => i - 1 \in Nat /\ (i - 1) + 1 <= Len(part) /\ (i - 1) + 1 = i
      OBVIOUS
    <3> QED
      BY <1>4, <3>1 DEF Sums, Next1
  <2>2. f = [i \in 0 .. Len(part) |-> f[i]]
    BY <1>4
  <2> QED
    BY <2>1, <2>2, SMTT(60)
<1>6. of = F(of)
  <2> HIDE DEF F
  <2> QED
    BY <1>5, Zenon
<1>7. of \in [0 .. Len(part) -> Nat] /\ Sums(of, sum, part, Len(part))
  <2> HIDE DEF of
  <2>1. DOMAIN of = 0 .. Len(part) /\ of = [i \in 0 .. Len(part) |-> of[i]]
    BY <1>6
  <2>2. Sums(of, sum, part, Len(part))
    <3>1. of[0] = sum
      BY <1>6
    <3>2. ASSUME NEW i \in Nat, i + 1 <= Len(part)
          PROVE  of[i + 1] = Next1(of[i], part[i + 1])
      <4>1. i + 1 \in 0 .. Len(part) /\ i + 1 # 0 /\ (i + 1) - 1 = i
        BY <3>2
      <4> QED
        BY <1>6, <4>1 DEF Next1
    <3> QED
      BY <3>1, <3>2 DEF Sums
  <2> DEFINE T == {n \in Nat : n <= Len(part) => of[n] \in Nat}
  <2>3. 0 \in T
    BY <2>2 DEF Sums
  <2>4. ASSUME NEW n \in Nat, n \in T PROVE n + 1 \in T
    <3> SUFFICES ASSUME n + 1 <= Len(part) PROVE of[n + 1] \in Nat
      OBVIOUS
    <3>1. of[n + 1] = Next1(of[n], part[n + 1])
      BY <2>2 DEF Sums
    <3>2. of[n] \in Nat /\ part[n + 1] \in Nat
      BY <2>4
    <3> QED
      BY <3>1, <3>2, Next1Type
  <2>5. Nat \subseteq T
    <3> HIDE DEF T
    <3> QED
      BY <2>3, <2>4, SetInduction
  <2> QED
    BY <2>1, <2>2, <2>5
<1>8. Extended(sum, part) = of[Len(part)]
  BY DEF Extended
<1> HIDE DEF of
<1> QED
  BY <1>7, <1>8

LEMMA ExtendedType ==
  ASSUME NEW sum \in Nat, NEW part \in Seq(Nat)
  PROVE  Extended(sum, part) \in Nat
BY ExtendedIs

LEMMA ExtendedNone ==
  ASSUME NEW sum \in Nat
  PROVE  Extended(sum, <<>>) = sum
<1>1. <<>> \in Seq(Nat) /\ Len(<<>>) = 0
  OBVIOUS
<1>2. PICK f : Sums(f, sum, <<>>, 0) /\ Extended(sum, <<>>) = f[0]
  BY <1>1, ExtendedIs
<1> QED
  BY <1>2 DEF Sums

LEMMA ExtendedTwice ==
  ASSUME NEW sum \in Nat, NEW a \in Seq(Nat), NEW b \in Seq(Nat)
  PROVE  Extended(Extended(sum, a), b) = Extended(sum, a \o b)
<1> DEFINE c == a \o b
<1>1. c \in Seq(Nat) /\ Len(c) = Len(a) + Len(b)
  OBVIOUS
<1>0. Len(a) \in Nat /\ Len(b) \in Nat /\ Len(c) \in Nat
  BY <1>1
<1>2. PICK f \in [0 .. Len(c) -> Nat] :
        Sums(f, sum, c, Len(c)) /\ Extended(sum, c) = f[Len(c)]
  BY <1>1, ExtendedIs
<1>3. PICK g \in [0 .. Len(a) -> Nat] :
        Sums(g, sum, a, Len(a)) /\ Extended(sum, a) = g[Len(a)]
  BY ExtendedIs
<1>4. g[Len(a)] \in Nat
  BY <1>3
<1>5. PICK h \in [0 .. Len(b) -> Nat] :
        Sums(h, g[Len(a)], b, Len(b)) /\ Extended(g[Len(a)], b) = h[Len(b)]
  BY <1>4, ExtendedIs
<1>6. \A i \in 1 .. Len(a) : c[i] = a[i]
  OBVIOUS
<1>7. \A i \in 1 .. Len(b) : c[Len(a) + i] = b[i]
  OBVIOUS
<1> HIDE DEF c
<1> DEFINE S == {n \in Nat : n <= Len(a) => f[n] = g[n]}
<1>8. f[Len(a)] = g[Len(a)]
  <2>1. 0 \in S
    BY <1>1, <1>2, <1>3 DEF Sums
  <2>2. ASSUME NEW n \in Nat, n \in S PROVE n + 1 \in S
    <3> SUFFICES ASSUME n + 1 <= Len(a) PROVE f[n + 1] = g[n + 1]
      OBVIOUS
    <3>0. n + 1 <= Len(c)
      BY <1>1
    <3>1. f[n + 1] = Next1(f[n], c[n + 1])
      BY <1>2, <3>0 DEF Sums
    <3>2. g[n + 1] = Next1(g[n], a[n + 1])
      BY <1>3 DEF Sums
    <3> QED
      BY <1>6, <2>2, <3>1, <3>2
  <2>3. Len(a) \in S
    <3> HIDE DEF S
    <3> QED
      BY <2>1, <2>2, <1>0, SetInduction, Zenon
  <2> QED
    BY <2>3
<1> DEFINE T == {n \in Nat : n <= Len(b) => f[Len(a) + n] = h[n]}
<1>9. f[Len(a) + Len(b)] = h[Len(b)]
  <2>1. 0 \in T
    BY <1>5, <1>8 DEF Sums
  <2>2. ASSUME NEW n \in Nat, n \in T PROVE n + 1 \in T
    <3> SUFFICES ASSUME n + 1 <= Len(b) PROVE f[Len(a) + (n + 1)] = h[n + 1]
      OBVIOUS
    <3>1. Len(a) + n \in Nat /\ (Len(a) + n) + 1 <= Len(c)
      BY <1>1
    <3>2. f[(Len(a) + n) + 1] = Next1(f[Len(a) + n], c[(Len(a) + n) + 1])
      BY <1>2, <3>1 DEF Sums
    <3>3. h[n + 1] = Next1(h[n], b[n + 1])
      BY <1>5 DEF Sums
    <3>4. (Len(a) + n) + 1 = Len(a) + (n + 1) /\ n + 1 \in 1 .. Len(b)
      OBVIOUS
    <3> QED
      BY <1>7, <2>2, <3>2, <3>3, <3>4
  <2>3. Len(b) \in T
    <3> HIDE DEF T
    <3> QED
      BY <2>1, <2>2, <1>0, SetInduction, Zenon
  <2> QED
    BY <2>3
<1> QED
  BY <1>1, <1>2, <1>3, <1>5, <1>9 DEF c

-----------------------------------------------------------------------------
(* Where a call is: reading a header or a trailer, or decoding.            *)
Entering == {"wrapper", "zlib", "dict_id", "trailer", "begin"}
Decoding == {"tmp", "drain", "out", "end"}

Results == {"OK", "DECOMP_OK", "END_INPUT", "OUT_OVERFLOW", "NAME_OVERFLOW",
            "EXTRA_OVERFLOW", "NEED_DICT"} \cup Refused
WrapperStates == {"NEW_HDR", "GZIP_EXTRA_LEN", "GZIP_EXTRA", "GZIP_NAME",
                  "GZIP_COMMENT", "GZIP_HCRC"}
BlockStates == {"NEW_HDR", "HDR", "TYPE0", "CODED", "INPUT_DONE"}
MemberStates == BlockStates \cup {"CHECKSUM_CHECK", "FINISH"}

(* The wrapper's header has been read, or there is none.                   *)
WithinMember == wrapper_flag \/ crc_flag = "deflate"

(* ControlInv: the fields that say where in the file and in a call this is.*)
ControlInv ==
  /\ file \in Files /\ pack \in Packs /\ trunc \in BOOLEAN
  /\ crc_flag \in {"deflate", "gzip_no_hdr_ver", "gzip", "zlib"}
  /\ wrapper_flag \in BOOLEAN
  /\ bfinal \in 0 .. 1 /\ ret \in Results
  /\ pc \in {"idle", "header"} \cup Entering \cup Decoding
  /\ pc \in Entering => ret = "OK"
  /\ pc = "header" => ret \notin Refused /\ crc_flag = "gzip_no_hdr_ver"
  /\ pc = "wrapper" => crc_flag = "gzip"
  /\ pc \in {"zlib", "dict_id"} => crc_flag = "zlib" /\ ~ wrapper_flag
  /\ pc = "dict_id" => block_state = "NEW_HDR"
  /\ pc = "trailer" => block_state = "CHECKSUM_CHECK"
  /\ pc \in {"trailer", "begin"} \cup Decoding => WithinMember
  /\ pc \in {"begin"} \cup Decoding => block_state \in BlockStates
  /\ WithinMember => block_state \in MemberStates
  /\ ~ WithinMember /\ crc_flag = "zlib" => block_state \in {"NEW_HDR", "ZLIB_DICT"}
  /\ ~ WithinMember /\ crc_flag # "zlib" => block_state \in WrapperStates

(* HeaderInv: where isal_read_gzip_header is, and that a field that is     *)
(* copied, in this call or resumed by the next, fits behind what its       *)
(* buffer holds.                                                           *)
HeaderFields == {"base", "extra_len", "extra", "name", "comment", "sum", "hcrc", "done"}
HeaderResults == {"DECOMP_OK", "END_INPUT", "NAME_OVERFLOW", "EXTRA_OVERFLOW",
                  "INVALID_WRAPPER", "UNSUPPORTED_METHOD", "INCORRECT_CHECKSUM"}
Resumable == \/ field = "none" /\ ret \notin Refused
             \/ field = "returned" /\ hdr_ret \notin Refused
At(state, x) == field = x \/ (Resumable /\ block_state = state)
HeaderInv ==
  /\ count \in Nat
  /\ field \in HeaderFields \cup {"none", "returned"} /\ hdr_ret \in HeaderResults
  /\ field # "none" => pc \in {"header", "wrapper"}
  /\ field \in HeaderFields \/ (field = "none" /\ pc \in {"header", "wrapper"}) => ~ wrapper_flag
  /\ field = "base" => count = 0 /\ block_state = "NEW_HDR"
  /\ field = "returned" /\ hdr_ret = "DECOMP_OK" => wrapper_flag /\ block_state = "NEW_HDR"
  /\ field = "returned" /\ hdr_ret # "DECOMP_OK" => ~ wrapper_flag
  /\ DOMAIN gz_hdr = {"flags", "extra_len", "hcrc", "name", "comment", "extra"}
  /\ gz_hdr.extra_len \in Nat /\ gz_hdr.comment = NULL
  /\ gz_hdr.extra \in [null : BOOLEAN, data : Seq(Nat)]
  /\ gz_hdr.name \in [null : BOOLEAN, data : Seq(Nat)]
  /\ At("GZIP_EXTRA", "extra") /\ ~ gz_hdr.extra.null =>
       count <= gz_hdr.extra_len /\ gz_hdr.extra_len - count <= Len(gz_hdr.extra.data)
  /\ At("GZIP_NAME", "name") /\ ~ gz_hdr.name.null => count <= Len(gz_hdr.name.data)

(* InputInv: read_in, and tmp_in_buffer, which holds the start of a field, *)
(* of a block header or of a trailer that is not complete, and else        *)
(* nothing.                                                                *)
Half == \/ WithinMember /\ block_state \in {"HDR", "CHECKSUM_CHECK"}
        \/ ~ WithinMember
InputInv ==
  /\ rest \in Seq(FileUnits) /\ next_in \in Seq(FileUnits)
  /\ read_in \in Seq(FileUnits) /\ Len(read_in) <= RegSize
  /\ tmp_in \in Seq(FileUnits) /\ Len(tmp_in) <= HdrSize
  /\ field \in {"extra", "name", "comment", "sum", "done"} => tmp_in = <<>>
  /\ Resumable /\ block_state \in {"GZIP_EXTRA", "GZIP_NAME", "GZIP_COMMENT"} => tmp_in = <<>>
  /\ tmp_in # <<>> => Half

(* BufferInv: tmp_out_buffer and what overflows.  While it is decoded into,*)
(* it holds no more than twice the history; what overflows then fits       *)
(* behind that, with room for the four bytes of store_u32.                 *)
MostOverflow == MaxLits - 1 + MaxMatch
BufferInv ==
  /\ tmp_out \in Seq(Nat) /\ user \in Seq(Nat) /\ write_overflow \in Seq(Nat)
  /\ copy_overflow \in [len : 0 .. MaxMatch, dist : 0 .. Hist]
  /\ OverflowLen <= MostOverflow
  /\ processed \in 0 .. Len(tmp_out) /\ avail_out \in Nat
  /\ start_out \in 0 .. Len(user) /\ base \in 0 .. Len(user)
  /\ OverflowLen # 0 => pc \in {"drain", "end"} /\ ret # "OK"
  /\ Len(tmp_out) <= TmpSize
  /\ block_state \notin {"INPUT_DONE", "CHECKSUM_CHECK", "FINISH"} =>
       Len(tmp_out) <= TmpSize - StoreU32
  /\ pc = "tmp" => Len(tmp_out) <= 2 * Hist
  /\ pc = "drain" /\ OverflowLen # 0 => Len(tmp_out) <= 2 * Hist
  /\ pc = "out" \/ (pc = "end" /\ OverflowLen # 0) =>
       processed = Len(tmp_out) /\ Len(tmp_out) <= TmpSize - StoreU32

(* CountInv: the counters, within a call too.                              *)
CountInv ==
  /\ total_out \in Nat /\ crc \in Nat
  /\ pc \in Entering => start_out = Len(user)
  /\ pc \in Entering \cup Decoding => base <= start_out
  /\ pc \in Decoding => /\ total_out = Len(user) - base + (Len(tmp_out) - processed)
                        /\ crc = Sum(0, SubSeq(user, base + 1, start_out))
  /\ pc \notin Decoding => /\ total_out = Len(user) - base
                           /\ crc = Sum(0, Drop(user, base))

-----------------------------------------------------------------------------
(* What the decoders return.                                               *)

InputOK(in) == /\ in \in [read : Seq(FileUnits), next : Seq(FileUnits)]
               /\ Len(in.read) <= RegSize

DecodedOK(dec, space) ==
  /\ dec.ret \in {"OK", "END_INPUT", "OUT_OVERFLOW"} \cup Errors
  /\ InputOK(dec.in)
  /\ dec.out \in Seq(Nat) /\ Len(dec.out) <= space
  /\ dec.lits \in Seq(Nat) /\ dec.copy \in [len : 0 .. MaxMatch, dist : 0 .. Hist]
  /\ Len(dec.lits) + dec.copy.len <= MostOverflow
  /\ Len(dec.lits) + dec.copy.len # 0 => dec.ret # "OK"
  /\ dec.ret = "OUT_OVERFLOW" => Len(dec.out) = space
  /\ dec.block \in BlockStates \ {"HDR"}
  /\ dec.len0 \in Nat

LEMMA UnitFacts ==
  ASSUME NEW u \in FileUnits
  PROVE  /\ u.value \in Nat
         /\ u.kind = "len" => u.value \in 1 .. MaxMatch
         /\ u.kind = "dist" => u.value \in 1 .. Hist
BY DEF FileUnits

LEMMA ValuesOK ==
  ASSUME NEW s \in Seq(FileUnits), NEW n \in 0 .. Len(s)
  PROVE  /\ [i \in 1 .. n |-> s[i].value] \in Seq(Nat)
         /\ Len([i \in 1 .. n |-> s[i].value]) = n
<1>1. \A i \in 1 .. n : s[i] \in FileUnits
  OBVIOUS
<1>2. \A i \in 1 .. n : s[i].value \in Nat
  BY <1>1, UnitFacts
<1> QED
  BY <1>2

LEMMA LoadOK ==
  ASSUME NEW in, InputOK(in)
  PROVE  InputOK(inflate_in_load(in))
<1> DEFINE n == Least(RegSize - Len(in.read), Len(in.next))
<1>1. in.read \in Seq(FileUnits) /\ in.next \in Seq(FileUnits) /\ Len(in.read) <= RegSize
  BY DEF InputOK
<1>2. n \in 0 .. Len(in.next) /\ n <= RegSize - Len(in.read)
  <2>1. RegSize - Len(in.read) \in Nat /\ Len(in.next) \in Nat
    BY <1>1, InflateAssumption
  <2> QED
    BY <2>1 DEF Least
<1> HIDE DEF n
<1>3. Take(in.next, n) \in Seq(FileUnits) /\ Len(Take(in.next, n)) = n
  BY <1>1, <1>2, Taken1
<1>4. Drop(in.next, n) \in Seq(FileUnits)
  BY <1>1, <1>2, Dropped
<1>5. /\ in.read \o Take(in.next, n) \in Seq(FileUnits)
      /\ Len(in.read \o Take(in.next, n)) = Len(in.read) + n
  BY <1>1, <1>3, Joined
<1>6. inflate_in_load(in) = [read |-> in.read \o Take(in.next, n), next |-> Drop(in.next, n)]
  BY DEF inflate_in_load, n
<1>7. Len(in.read) + n <= RegSize
  BY <1>1, <1>2, InflateAssumption
<1> QED
  BY <1>4, <1>5, <1>6, <1>7 DEF InputOK

LEMMA SymCountOK ==
  ASSUME NEW units \in Seq(FileUnits), pack \in Packs
  PROVE  SymCount(units) \in 1 .. MaxLits
<1> DEFINE T == {i \in 0 .. Len(units) : \A j \in 1 .. i : units[j].kind = "lit"}
<1>1. T \subseteq 0 .. Len(units) /\ 0 \in T /\ Len(units) \in Nat
  OBVIOUS
<1>2. Literals(units) = Max(T)
  BY DEF Literals
<1> HIDE DEF T
<1>3. Literals(units) \in 0 .. Len(units)
  BY <1>1, <1>2, GreatestNat
<1>4. pack \in 1 .. MaxLits
  BY InflateAssumption
<1> QED
  BY <1>3, <1>4 DEF SymCount, MaxLits

LEMMA OutcomeOK ==
  ASSUME NEW status \in {"OK", "END_INPUT", "OUT_OVERFLOW"} \cup Errors,
         NEW left, InputOK(left), NEW space \in Nat, NEW out \in Seq(Nat), Len(out) <= space,
         NEW lits \in Seq(Nat), NEW copy \in [len : 0 .. MaxMatch, dist : 0 .. Hist],
         Len(lits) + copy.len <= MostOverflow,
         Len(lits) + copy.len # 0 => status # "OK",
         status = "OUT_OVERFLOW" => Len(out) = space,
         NEW state \in BlockStates \ {"HDR"}, NEW n \in Nat
  PROVE  DecodedOK([ret |-> status, in |-> left, out |-> out, lits |-> lits, copy |-> copy,
                    block |-> state, len0 |-> n], space)
BY DEF DecodedOK

LEMMA CodeOK ==
  ASSUME NEW in, InputOK(in), NEW history \in Seq(Nat), NEW space \in Nat,
         pack \in Packs, count \in Nat
  PROVE  DecodedOK(decode_huffman_code(in, history, space), space)
<1> DEFINE loaded  == inflate_in_load(in)
           syms    == SymCount(loaded.read)
           symbol  == loaded.read[syms]
           literal == syms - (IF symbol.kind = "lit" THEN 0 ELSE 1)
           values  == [i \in 1 .. literal |-> loaded.read[i].value]
           written == Take(values, Least(space, literal))
           left    == Drop(values, Least(space, literal))
           full    == IF left # <<>> THEN "OUT_OVERFLOW" ELSE "OK"
           popped  == [read |-> Drop(loaded.read, syms), next |-> loaded.next]
           extra   == inflate_in_load(popped)
           behind  == [read |-> Tail(extra.read), next |-> extra.next]
           dist    == Head(extra.read).value
           room    == Least(space - Len(written), symbol.value)
           copied  == written \o Copied(history \o written, dist, room)
           rest_of == [len |-> symbol.value - room, dist |-> dist]
           Outcome(status, input_left, out, lits, copy, state) ==
             [ret |-> status, in |-> input_left, out |-> out, lits |-> lits, copy |-> copy,
              block |-> state, len0 |-> count]
           again                    == Outcome("END_INPUT", loaded, <<>>, <<>>, NoCopy, "CODED")
           after(status, state)     == Outcome(status, popped, written, left, NoCopy, state)
           match(status, out, copy) == Outcome(status, behind, out, left, copy, "CODED")
           dec     == decode_huffman_code(in, history, space)
<1>1. dec = IF syms > Len(loaded.read) THEN again
            ELSE CASE symbol.kind = "lit" -> after(full, "CODED")
                   [] symbol.kind = "eob" -> after(full, AfterBlock)
                   [] symbol.kind = "len" ->
                        IF extra.read = <<>> THEN again
                        ELSE IF Head(extra.read).kind # "dist"
                        THEN match("INVALID_SYMBOL", written, NoCopy)
                        ELSE IF dist > Len(history) + Len(written)
                        THEN match("INVALID_LOOKBACK", written, NoCopy)
                        ELSE IF room < symbol.value
                        THEN match("OUT_OVERFLOW", copied, rest_of)
                        ELSE match("OK", copied, NoCopy)
                   [] OTHER -> after("INVALID_SYMBOL", "CODED")
  BY DEF decode_huffman_code
<1> HIDE DEF dec
<1>2. /\ InputOK(loaded) /\ Len(loaded.read) \in Nat
      /\ loaded.read \in Seq(FileUnits) /\ loaded.next \in Seq(FileUnits)
  BY LoadOK DEF InputOK
<1> HIDE DEF loaded
<1>3. syms \in 1 .. 3
  BY <1>2, SymCountOK DEF MaxLits
<1> HIDE DEF syms
<1>4. /\ NoCopy \in [len : 0 .. MaxMatch, dist : 0 .. Hist] /\ NoCopy.len = 0
      /\ MostOverflow = 2 + MaxMatch /\ MaxMatch \in Nat \ {0}
  BY InflateAssumption, FilesAssumption DEF NoCopy, MostOverflow, MaxLits
<1>5. {"CODED", AfterBlock} \subseteq BlockStates \ {"HDR"}
  BY DEF BlockStates, AfterBlock
<1>6. DecodedOK(again, space)
  <2>1. /\ <<>> \in Seq(Nat) /\ Len(<<>>) <= space
        /\ Len(<<>>) + NoCopy.len <= MostOverflow /\ ~ (Len(<<>>) + NoCopy.len # 0)
    BY <1>4
  <2>2. "END_INPUT" \in {"OK", "END_INPUT", "OUT_OVERFLOW"} \cup Errors
    OBVIOUS
  <2>3. "CODED" \in BlockStates \ {"HDR"}
    BY DEF BlockStates
  <2> HIDE DEF NoCopy
  <2> QED
    BY <1>2, <1>4, <2>1, <2>2, <2>3, OutcomeOK
<1>7. ASSUME syms <= Len(loaded.read)
      PROVE  DecodedOK(dec, space)
  <2>1. symbol \in FileUnits
    BY <1>2, <1>3, <1>7
  <2> HIDE DEF symbol
  <2>2. literal \in 0 .. 3 /\ literal \in 0 .. Len(loaded.read) /\ (symbol.kind # "lit" => literal <= 2)
    BY <1>2, <1>3, <1>7
  <2> HIDE DEF literal
  <2>3. values \in Seq(Nat) /\ Len(values) = literal
    BY <1>2, <2>2, ValuesOK
  <2> HIDE DEF values
  <2>4. /\ Least(space, literal) \in 0 .. Len(values) /\ Least(space, literal) \in Nat
        /\ Least(space, literal) <= space /\ Least(space, literal) <= Len(values)
        /\ Least(space, literal) < literal => Least(space, literal) = space
    BY <2>2, <2>3 DEF Least
  <2>5. written \in Seq(Nat) /\ Len(written) = Least(space, literal)
    BY <2>3, <2>4, Taken1
  <2>6. left \in Seq(Nat) /\ Len(left) = literal - Least(space, literal)
    BY <2>3, <2>4, Dropped
  <2>7. full = IF Len(left) # 0 THEN "OUT_OVERFLOW" ELSE "OK"
    BY <2>6
  <2> HIDE DEF written, left, full
  <2>8. /\ Len(written) <= space /\ Len(left) <= 3
        /\ (symbol.kind # "lit" => Len(left) <= 2)
        /\ (Len(left) # 0 => Len(written) = space)
    BY <2>2, <2>3, <2>4, <2>5, <2>6
  <2>9. InputOK(popped)
    <3>1. syms \in Nat /\ Len(loaded.read) - syms <= RegSize
      BY <1>2, <1>3, <1>7, InflateAssumption DEF InputOK
    <3>2. Drop(loaded.read, syms) \in Seq(FileUnits)
          /\ Len(Drop(loaded.read, syms)) = Len(loaded.read) - syms
      BY <1>2, <1>7, <3>1, Dropped
    <3> QED
      BY <1>2, <3>1, <3>2 DEF InputOK
  <2>10. /\ InputOK(extra) /\ Len(extra.read) <= RegSize
         /\ extra.read \in Seq(FileUnits) /\ extra.next \in Seq(FileUnits)
    BY <2>9, LoadOK DEF InputOK
  <2> HIDE DEF popped, extra
  <2>11. ASSUME NEW status \in {"OK", "OUT_OVERFLOW", "INVALID_SYMBOL"},
                Len(left) # 0 => status # "OK", Len(left) <= 2 \/ status # "INVALID_SYMBOL",
                status = "OUT_OVERFLOW" => Len(left) # 0,
                NEW state \in {"CODED", AfterBlock}
         PROVE  DecodedOK(after(status, state), space)
    <3>1. status \in {"OK", "END_INPUT", "OUT_OVERFLOW"} \cup Errors
      BY DEF Errors
    <3>2. Len(left) + NoCopy.len <= MostOverflow /\ Len(left) + NoCopy.len = Len(left)
      BY <1>4, <2>6, <2>8
    <3>3. state \in BlockStates \ {"HDR"}
      BY <1>5
    <3> QED
      BY <1>4, <2>5, <2>6, <2>8, <2>9, <2>11, <3>1, <3>2, <3>3, OutcomeOK
  <2>12. ASSUME symbol.kind = "len", extra.read # <<>>
         PROVE  /\ DecodedOK(match("INVALID_SYMBOL", written, NoCopy), space)
                /\ DecodedOK(match("INVALID_LOOKBACK", written, NoCopy), space)
                /\ Head(extra.read).kind = "dist" =>
                     DecodedOK(IF room < symbol.value THEN match("OUT_OVERFLOW", copied, rest_of)
                               ELSE match("OK", copied, NoCopy), space)
    <3>1. /\ Head(extra.read) \in FileUnits /\ Tail(extra.read) \in Seq(FileUnits)
          /\ Len(Tail(extra.read)) <= RegSize
      BY <2>10, <2>12, InflateAssumption
    <3>2. InputOK(behind)
      BY <2>10, <3>1 DEF InputOK
    <3> HIDE DEF behind
    <3>3. Len(left) + NoCopy.len <= MostOverflow /\ Len(left) \in Nat
      BY <1>4, <2>6, <2>8
    <3>4. ASSUME NEW status \in {"INVALID_SYMBOL", "INVALID_LOOKBACK"}
          PROVE  DecodedOK(match(status, written, NoCopy), space)
      <4>1. status \in {"OK", "END_INPUT", "OUT_OVERFLOW"} \cup Errors /\ status # "OK"
        BY DEF Errors
      <4> QED
        BY <1>4, <1>5, <2>5, <2>6, <2>8, <3>2, <3>3, <4>1, OutcomeOK
    <3>5. ASSUME Head(extra.read).kind = "dist"
          PROVE  DecodedOK(IF room < symbol.value THEN match("OUT_OVERFLOW", copied, rest_of)
                           ELSE match("OK", copied, NoCopy), space)
      <4>1. dist \in 1 .. Hist /\ dist \in Nat /\ dist \in 0 .. Hist
        BY <3>1, <3>5, UnitFacts, InflateAssumption
      <4>2. symbol.value \in 1 .. MaxMatch
        BY <2>1, <2>12, UnitFacts
      <4> HIDE DEF dist
      <4>3. /\ room \in Nat /\ room <= space - Len(written) /\ room <= symbol.value
            /\ Len(left) # 0 => room = 0
            /\ room < symbol.value => room = space - Len(written)
        <5>1. space - Len(written) \in Nat
          BY <2>5, <2>8
        <5>2. Len(left) # 0 => space - Len(written) = 0
          BY <2>5, <2>8
        <5> QED
          BY <1>4, <4>2, <5>1, <5>2 DEF Least
      <4> HIDE DEF room
      <4>4. /\ copied \in Seq(Nat) /\ Len(copied) = Len(written) + room
            /\ Len(written) + room <= space
            /\ room < symbol.value => Len(written) + room = space
        <5>1. history \o written \in Seq(Nat)
          BY <2>5, Joined
        <5>2. /\ Copied(history \o written, dist, room) \in Seq(Nat)
              /\ Len(Copied(history \o written, dist, room)) = room
          BY <4>1, <4>3, <5>1, CopiedLen
        <5>3. copied \in Seq(Nat) /\ Len(copied) = Len(written) + Len(Copied(history \o written, dist, room))
          BY <2>5, <5>2, Joined
        <5>4. /\ Len(written) \in Nat /\ Len(written) + room <= space
              /\ room < symbol.value => Len(written) + room = space
          BY <2>5, <2>8, <4>3
        <5> HIDE DEF copied
        <5> QED
          BY <5>2, <5>3, <5>4
      <4> HIDE DEF copied
      <4>5. CASE room < symbol.value
        <5>1. symbol.value - room \in 0 .. MaxMatch
          BY <1>4, <4>2, <4>3
        <5>2. rest_of \in [len : 0 .. MaxMatch, dist : 0 .. Hist] /\ rest_of.len = symbol.value - room
          BY <4>1, <5>1
        <5> HIDE DEF rest_of
        <5>3. Len(left) + rest_of.len <= MostOverflow
          BY <1>4, <2>6, <2>8, <2>12, <5>1, <5>2
        <5>4. Len(copied) = space
          BY <4>4, <4>5
        <5>5. DecodedOK(match("OUT_OVERFLOW", copied, rest_of), space)
          BY <1>5, <2>6, <3>2, <4>4, <5>2, <5>3, <5>4, OutcomeOK
        <5> HIDE DEF match
        <5> QED
          BY <4>5, <5>5
      <4>6. CASE ~ (room < symbol.value)
        <5>1. Len(left) = 0
          BY <2>6, <3>3, <4>2, <4>3, <4>6
        <5>2. Len(left) + NoCopy.len = 0
          BY <1>4, <5>1
        <5>3. DecodedOK(match("OK", copied, NoCopy), space)
          BY <1>4, <1>5, <2>6, <3>2, <3>3, <4>4, <5>2, OutcomeOK
        <5> HIDE DEF match
        <5> QED
          BY <4>6, <5>3
      <4> QED
        BY <4>5, <4>6
    <3> QED
      BY <3>4, <3>5
  <2>13. ~ (syms > Len(loaded.read))
    BY <1>2, <1>3, <1>7
  <2> HIDE DEF after, match, dist, room, copied, rest_of, again
  <2>14. CASE symbol.kind = "lit"
    <3>1. dec = after(full, "CODED")
      BY <1>1, <2>13, <2>14
    <3> QED
      BY <2>7, <2>11, <3>1
  <2>15. CASE symbol.kind = "eob"
    <3>1. dec = after(full, AfterBlock)
      BY <1>1, <2>13, <2>15
    <3> QED
      BY <2>7, <2>11, <3>1
  <2>16. CASE symbol.kind = "len"
    <3>1. dec = IF extra.read = <<>> THEN again
                ELSE IF Head(extra.read).kind # "dist"
                THEN match("INVALID_SYMBOL", written, NoCopy)
                ELSE IF dist > Len(history) + Len(written)
                THEN match("INVALID_LOOKBACK", written, NoCopy)
                ELSE IF room < symbol.value THEN match("OUT_OVERFLOW", copied, rest_of)
                ELSE match("OK", copied, NoCopy)
      BY <1>1, <2>13, <2>16
    <3> QED
      BY <1>6, <2>12, <2>16, <3>1
  <2>17. CASE symbol.kind \notin {"lit", "eob", "len"}
    <3>1. dec = after("INVALID_SYMBOL", "CODED")
      BY <1>1, <2>13, <2>17
    <3>2. Len(left) <= 2
      BY <2>8, <2>17
    <3> QED
      BY <2>11, <3>1, <3>2
  <2> QED
    BY <2>14, <2>15, <2>16, <2>17
<1>8. CASE syms > Len(loaded.read)
  <2> HIDE DEF again, after, match, symbol, left, written, copied, room, dist, extra, full
  <2>1. dec = again
    BY ONLY <1>1, <1>8, Zenon
  <2> QED
    BY <1>6, <2>1 DEF dec
<1> QED
  BY <1>2, <1>3, <1>7, <1>8 DEF dec


LEMMA LeastOf ==
  ASSUME NEW a \in Nat, NEW b \in Nat
  PROVE  /\ Least(a, b) \in Nat /\ Least(a, b) <= a /\ Least(a, b) <= b
         /\ Least(a, b) = a \/ Least(a, b) = b
BY DEF Least

LEMMA LiteralOK ==
  ASSUME NEW in, InputOK(in), NEW space \in Nat, count \in Nat
  PROVE  DecodedOK(decode_literal_block(in, space), space)
<1> SUFFICES ASSUME NEW read \in Seq(FileUnits), NEW next \in Seq(FileUnits),
                    in.read = read, in.next = next, Len(read) <= RegSize
             PROVE  DecodedOK(decode_literal_block(in, space), space)
  BY DEF InputOK
<1> DEFINE all   == Len(read) + Len(next)
           n     == Least(count, Least(space, all))
           left  == [read |-> Drop(read, Least(n, Len(read))),
                     next |-> Drop(next, IF n > Len(read) THEN n - Len(read) ELSE 0)]
           state == IF n < count THEN "TYPE0" ELSE AfterBlock
           data  == Take(read \o next, n)
           out   == [i \in DOMAIN data |-> data[i].value]
           status == IF left.read \o left.next = <<>> /\ state # "INPUT_DONE" THEN "END_INPUT"
                     ELSE IF space = n /\ n < count THEN "OUT_OVERFLOW" ELSE "OK"
<1>1. all \in Nat /\ Len(read) \in Nat /\ Len(next) \in Nat
  OBVIOUS
<1>2. n \in Nat /\ n <= all /\ n <= space /\ n <= count /\ count - n \in Nat
  <2> HIDE DEF all
  <2>1. Least(space, all) \in Nat /\ Least(space, all) <= space /\ Least(space, all) <= all
    BY <1>1, LeastOf
  <2>2. n \in Nat /\ n <= count /\ n <= Least(space, all)
    BY <2>1, LeastOf
  <2> HIDE DEF n
  <2> QED
    BY <1>1, <2>1, <2>2
<1> HIDE DEF n
<1>3. InputOK(left)
  <2>1. Least(n, Len(read)) \in Nat /\ Least(n, Len(read)) <= Len(read)
    BY <1>1, <1>2, LeastOf
  <2>2. /\ Drop(read, Least(n, Len(read))) \in Seq(FileUnits)
        /\ Len(Drop(read, Least(n, Len(read)))) = Len(read) - Least(n, Len(read))
    BY <2>1, Dropped
  <2> DEFINE k == IF n > Len(read) THEN n - Len(read) ELSE 0
  <2>3. k \in Nat /\ k <= Len(next)
    BY <1>1, <1>2
  <2> HIDE DEF k
  <2>4. Drop(next, k) \in Seq(FileUnits)
    BY <2>3, Dropped
  <2>5. Len(read) - Least(n, Len(read)) <= RegSize
    BY <2>1, InflateAssumption
  <2> QED
    BY <2>2, <2>4, <2>5 DEF InputOK, k
<1>4. out \in Seq(Nat) /\ Len(out) = n
  <2>1. read \o next \in Seq(FileUnits) /\ Len(read \o next) = all
    BY Joined
  <2>2. n \in 0 .. Len(read \o next)
    BY <1>2, <2>1
  <2>3. data \in Seq(FileUnits) /\ Len(data) = n
    BY <2>1, <2>2, Taken1
  <2> HIDE DEF data
  <2>4. n \in 0 .. Len(data) /\ DOMAIN data = 1 .. n
    BY <1>2, <2>3
  <2>5. out = [i \in 1 .. n |-> data[i].value]
    BY <2>4
  <2> QED
    BY <2>3, <2>4, <2>5, ValuesOK
<1>5. /\ status \in {"OK", "END_INPUT", "OUT_OVERFLOW"} \cup Errors
      /\ state \in BlockStates \ {"HDR"}
      /\ status = "OUT_OVERFLOW" => space = n
  BY DEF BlockStates, AfterBlock
<1>6. /\ NoCopy \in [len : 0 .. MaxMatch, dist : 0 .. Hist]
      /\ <<>> \in Seq(Nat) /\ Len(<<>>) + NoCopy.len <= MostOverflow
      /\ ~ (Len(<<>>) + NoCopy.len # 0)
  BY InflateAssumption, FilesAssumption DEF NoCopy, MostOverflow, MaxLits
<1>7. decode_literal_block(in, space) =
        [ret |-> status, in |-> left, out |-> out, lits |-> <<>>, copy |-> NoCopy,
         block |-> state, len0 |-> count - n]
  BY DEF decode_literal_block, n
<1> HIDE DEF left, state, out, status, NoCopy
<1>8. DecodedOK([ret |-> status, in |-> left, out |-> out, lits |-> <<>>, copy |-> NoCopy,
                 block |-> state, len0 |-> count - n], space)
  BY <1>2, <1>3, <1>4, <1>5, <1>6, OutcomeOK
<1> QED
  BY <1>7, <1>8

(* Drop is a sequence wherever it begins.                                  *)
LEMMA DroppedAny ==
  ASSUME NEW S, NEW s \in Seq(S), NEW a \in Nat
  PROVE  Drop(s, a) \in Seq(S)
BY DEF Drop

HeaderReadOK(hdr) ==
  /\ hdr.ret \in {"OK", "END_INPUT", "INVALID_BLOCK"} /\ InputOK(hdr.in)
  /\ hdr.tmp_in \in Seq(FileUnits) /\ Len(hdr.tmp_in) <= HdrSize
  /\ hdr.tmp_in # <<>> => hdr.block = "HDR"
  /\ hdr.block \in BlockStates \ {"INPUT_DONE"}
  /\ hdr.bfinal \in 0 .. 1 /\ hdr.len0 \in Nat

LEMMA BlockHeaderOK ==
  ASSUME NEW in, InputOK(in), count \in Nat, bfinal \in 0 .. 1,
         tmp_in \in Seq(FileUnits), Len(tmp_in) <= HdrSize,
         block_state \in {"NEW_HDR", "HDR"}, block_state # "HDR" => tmp_in = <<>>
  PROVE  HeaderReadOK(read_header_stateful(in))
<1> DEFINE units == in.read \o HeaderInput(in)
           first == Head(units)
           known == first.kind \in DOMAIN HeaderUnits
           size  == IF known THEN HeaderUnits[first.kind] ELSE 1
           reg   == Take(Drop(units, size), Least(RegSize - 1, Len(units) - size))
           taken == size + Len(reg) - Len(in.read) - Len(tmp_in)
           left  == [read |-> reg, next |-> Drop(in.next, IF taken < 0 THEN 0 ELSE taken)]
           short == [ret |-> "END_INPUT", in |-> [in EXCEPT !.next = <<>>],
                     tmp_in |-> tmp_in \o in.next, block |-> "HDR", bfinal |-> bfinal,
                     len0 |-> count]
           whole == [ret |-> "OK", in |-> left, tmp_in |-> <<>>, bfinal |-> first.value % 2,
                     block |-> IF first.kind = "stored" THEN "TYPE0" ELSE "CODED",
                     len0 |-> IF first.kind = "stored" THEN units[2].value ELSE count]
           wrong == [whole EXCEPT !.ret = "INVALID_BLOCK", !.block = block_state]
<1>1. /\ in \in [read : Seq(FileUnits), next : Seq(FileUnits)]
      /\ in.read \in Seq(FileUnits) /\ in.next \in Seq(FileUnits) /\ Len(in.read) <= RegSize
      /\ Len(in.read) \in Nat /\ Len(in.next) \in Nat /\ Len(tmp_in) \in Nat
      /\ HdrSize \in Nat /\ HdrSize >= 3 /\ RegSize \in Nat /\ RegSize >= 1
  BY InflateAssumption, FilesAssumption DEF InputOK
<1> DEFINE most == Least(HdrSize - Len(tmp_in), Len(in.next))
<1>2. /\ HeaderInput(in) \in Seq(FileUnits)
      /\ Len(HeaderInput(in)) = IF block_state # "HDR" THEN Len(in.next) ELSE Len(tmp_in) + most
      /\ most \in 0 .. Len(in.next)
      /\ most = Len(in.next) \/ Len(tmp_in) + most >= 3
  <2>1. /\ most \in 0 .. Len(in.next)
        /\ most = Len(in.next) \/ Len(tmp_in) + most >= 3
    BY <1>1 DEF Least
  <2> HIDE DEF most
  <2>2. Take(in.next, most) \in Seq(FileUnits) /\ Len(Take(in.next, most)) = most
    BY <1>1, <2>1, Taken1
  <2>3. /\ tmp_in \o Take(in.next, most) \in Seq(FileUnits)
        /\ Len(tmp_in \o Take(in.next, most)) = Len(tmp_in) + most
    BY <2>2, Joined
  <2>4. HeaderInput(in) = IF block_state # "HDR" THEN in.next ELSE tmp_in \o Take(in.next, most)
    BY DEF HeaderInput, most
  <2> QED
    BY <1>1, <2>1, <2>3, <2>4
<1> HIDE DEF most
<1>3. units \in Seq(FileUnits) /\ Len(units) = Len(in.read) + Len(HeaderInput(in))
  BY <1>1, <1>2, Joined
<1> HIDE DEF units
<1>4. ASSUME Len(units) < 3 PROVE HeaderReadOK(short)
  <2>1. Len(tmp_in) + Len(in.next) <= HdrSize
    <3>1. CASE block_state # "HDR"
      <4>1. Len(tmp_in) = 0
        BY <3>1
      <4> QED
        BY <1>1, <1>2, <1>3, <1>4, <3>1, <4>1
    <3>2. CASE block_state = "HDR"
      BY <1>1, <1>2, <1>3, <1>4, <3>2
    <3> QED
      BY <3>1, <3>2
  <2>2. tmp_in \o in.next \in Seq(FileUnits) /\ Len(tmp_in \o in.next) = Len(tmp_in) + Len(in.next)
    BY <1>1, Joined
  <2>3. InputOK([in EXCEPT !.next = <<>>])
    <3>1. <<>> \in Seq(FileUnits)
      OBVIOUS
    <3>2. /\ [in EXCEPT !.next = <<>>] \in [read : Seq(FileUnits), next : Seq(FileUnits)]
          /\ [in EXCEPT !.next = <<>>].read = in.read
      BY <1>1, <3>1
    <3> QED
      BY <1>1, <3>2 DEF InputOK
  <2>4. "HDR" \in BlockStates \ {"INPUT_DONE"}
    BY DEF BlockStates
  <2> QED
    BY <1>1, <2>1, <2>2, <2>3, <2>4 DEF HeaderReadOK
<1>5. ASSUME units # <<>>, Len(units) >= size
      PROVE  HeaderReadOK(whole) /\ HeaderReadOK(wrong)
  <2>1. first \in FileUnits /\ first.value \in Nat /\ Len(units) \in Nat
    BY <1>3, <1>5, UnitFacts
  <2> HIDE DEF first
  <2>2. size \in 1 .. 3 /\ (first.kind = "stored" => size = 2)
    BY DEF HeaderUnits
  <2> HIDE DEF size
  <2>3. size \in Nat /\ size <= Len(units) /\ Len(units) - size \in Nat
    BY <1>5, <2>1, <2>2
  <2>4. Drop(units, size) \in Seq(FileUnits) /\ Len(Drop(units, size)) = Len(units) - size
    BY <1>3, <2>3, Dropped
  <2> DEFINE k == Least(RegSize - 1, Len(units) - size)
  <2>5. k \in 0 .. Len(units) - size /\ k <= RegSize
    BY <1>1, <2>3 DEF Least
  <2> HIDE DEF k
  <2>6. reg \in Seq(FileUnits) /\ Len(reg) = k
    BY <2>4, <2>5, Taken1 DEF k
  <2> HIDE DEF reg
  <2>7. taken \in Int
    BY <1>1, <2>2, <2>5, <2>6
  <2> HIDE DEF taken
  <2>8. InputOK(left)
    <3> DEFINE t == IF taken < 0 THEN 0 ELSE taken
    <3>1. t \in Nat
      BY <2>7
    <3> HIDE DEF t
    <3>2. Drop(in.next, t) \in Seq(FileUnits)
      BY <1>1, <3>1, DroppedAny
    <3>3. Len(reg) <= RegSize
      BY <2>5, <2>6
    <3> QED
      BY <2>6, <3>2, <3>3 DEF InputOK, t
  <2> HIDE DEF left
  <2>9. first.value % 2 \in 0 .. 1
    BY <2>1
  <2> DEFINE len0 == IF first.kind = "stored" THEN units[2].value ELSE count
             state == IF first.kind = "stored" THEN "TYPE0" ELSE "CODED"
  <2>10. len0 \in Nat
    <3>1. CASE first.kind = "stored"
      <4>1. units[2] \in FileUnits
        BY <1>3, <1>5, <2>1, <2>2, <3>1
      <4> QED
        BY <3>1, <4>1, UnitFacts
    <3> QED
      BY <3>1
  <2>11. state \in BlockStates \ {"INPUT_DONE"} /\ block_state \in BlockStates \ {"INPUT_DONE"}
    BY DEF BlockStates
  <2>12. /\ <<>> \in Seq(FileUnits) /\ Len(<<>>) <= HdrSize
    BY <1>1
  <2> HIDE DEF len0, state
  <2>13. whole = [ret |-> "OK", in |-> left, tmp_in |-> <<>>, bfinal |-> first.value % 2,
                  block |-> state, len0 |-> len0]
    BY DEF len0, state
  <2> HIDE DEF whole
  <2>14. /\ wrong.ret = "INVALID_BLOCK" /\ wrong.in = left /\ wrong.tmp_in = <<>>
         /\ wrong.bfinal = first.value % 2 /\ wrong.block = block_state /\ wrong.len0 = len0
    BY <2>13
  <2> HIDE DEF wrong
  <2> QED
    BY <2>8, <2>9, <2>10, <2>11, <2>12, <2>13, <2>14 DEF HeaderReadOK
<1>6. read_header_stateful(in) = IF units = <<>> THEN short
                                 ELSE IF Len(units) < size THEN short
                                 ELSE IF known THEN whole ELSE wrong
  BY DEF read_header_stateful, units
<1>7. size \in 1 .. 3 /\ Len(units) \in Nat /\ (units = <<>> => Len(units) = 0)
  BY <1>3 DEF HeaderUnits
<1> HIDE DEF short, whole, wrong, size, known
<1> QED
  BY <1>4, <1>5, <1>6, <1>7

CheckOK(check) ==
  /\ check.ret \in {"DECOMP_OK", "END_INPUT", "INCORRECT_CHECKSUM"} /\ InputOK(check.in)
  /\ check.tmp_in \in Seq(FileUnits) /\ Len(check.tmp_in) <= HdrSize
  /\ check.tmp_in # <<>> => check.block = "CHECKSUM_CHECK"
  /\ check.block \in {"CHECKSUM_CHECK", "FINISH"}

LEMMA ChecksumOK ==
  ASSUME NEW in, InputOK(in), NEW sum, NEW size, tmp_in \in Seq(FileUnits)
  PROVE  CheckOK(check_checksum(in, sum, size))
<1> SUFFICES ASSUME NEW read \in Seq(FileUnits), NEW next \in Seq(FileUnits),
                    in.read = read, in.next = next, Len(read) <= RegSize
             PROVE  CheckOK(check_checksum(in, sum, size))
  BY DEF InputOK
<1> DEFINE units  == TrailerInput(in)
           whole  == Len(units) >= TrailerUnits
           kept   == Drop(read, Least(TrailerUnits, Len(read)))
           behind == Drop(units, Least(TrailerUnits, Len(units)))
           result == IF ~whole THEN "END_INPUT"
                     ELSE IF TrailerHolds(units, sum, size) THEN "DECOMP_OK"
                     ELSE "INCORRECT_CHECKSUM"
           left   == [read |-> kept, next |-> Drop(behind, Len(kept))]
           tmp    == IF whole THEN <<>> ELSE units
           state  == IF whole THEN "FINISH" ELSE "CHECKSUM_CHECK"
<1>1. TrailerUnits \in {2, 3} /\ TrailerUnits \in Nat /\ TrailerUnits <= 3
  BY DEF TrailerUnits
<1>2. units \in Seq(FileUnits) /\ Len(units) \in Nat
  BY DEF TrailerInput
<1> HIDE DEF units
<1>3. kept \in Seq(FileUnits) /\ Len(kept) <= RegSize /\ Len(kept) \in Nat
  <2>1. Least(TrailerUnits, Len(read)) \in Nat /\ Least(TrailerUnits, Len(read)) <= Len(read)
    BY <1>1 DEF Least
  <2>2. kept \in Seq(FileUnits) /\ Len(kept) = Len(read) - Least(TrailerUnits, Len(read))
    BY <2>1, Dropped
  <2> HIDE DEF kept
  <2> QED
    BY <2>1, <2>2, InflateAssumption
<1>4. behind \in Seq(FileUnits)
  <2>1. Least(TrailerUnits, Len(units)) \in Nat
    BY <1>1, <1>2, LeastOf
  <2> QED
    BY <1>2, <2>1, DroppedAny
<1> HIDE DEF kept, behind
<1>5. InputOK(left)
  BY <1>3, <1>4, DroppedAny DEF InputOK
<1>6. tmp \in Seq(FileUnits) /\ Len(tmp) <= HdrSize
  BY <1>1, <1>2, InflateAssumption, FilesAssumption
<1>7. check_checksum(in, sum, size) =
        [ret |-> result, in |-> left, tmp_in |-> tmp, block |-> state]
  BY DEF check_checksum, units, kept, behind
<1>8. /\ result \in {"DECOMP_OK", "END_INPUT", "INCORRECT_CHECKSUM"}
      /\ state \in {"CHECKSUM_CHECK", "FINISH"} /\ (tmp # <<>> => state = "CHECKSUM_CHECK")
  OBVIOUS
<1> HIDE DEF result, left, tmp, state
<1> QED
  BY <1>5, <1>6, <1>7, <1>8 DEF CheckOK

LEMMA FixedReadOK ==
  ASSUME NEW n \in 1 .. 3, next_in \in Seq(FileUnits), tmp_in \in Seq(FileUnits)
  PROVE  LET read == fixed_size_read(n)
         IN  /\ read.ret \in {"OK", "END_INPUT"} /\ read.next \in Seq(FileUnits)
             /\ read.tmp \in Seq(FileUnits) /\ Len(read.tmp) <= HdrSize
             /\ read.ret = "OK" => read.tmp = <<>> /\ read.units \in Seq(FileUnits)
                                   /\ Len(read.units) = n
<1> DEFINE units == tmp_in \o next_in
           short == [ret |-> "END_INPUT", units |-> <<>>, next |-> <<>>, tmp |-> units]
           whole == [ret |-> "OK", units |-> Take(units, n), next |-> Drop(units, n), tmp |-> <<>>]
<1>1. units \in Seq(FileUnits) /\ Len(units) \in Nat
  BY Joined
<1>2. fixed_size_read(n) = IF Len(units) < n THEN short ELSE whole
  BY DEF fixed_size_read
<1>3. HdrSize \in Nat /\ HdrSize >= 3 /\ <<>> \in Seq(FileUnits) /\ Len(<<>>) = 0
  BY InflateAssumption, FilesAssumption
<1> HIDE DEF units
<1>4. CASE Len(units) < n
  BY <1>1, <1>2, <1>3, <1>4
<1>5. CASE ~ (Len(units) < n)
  <2>1. n \in 0 .. Len(units) /\ n \in Nat /\ n <= Len(units)
    BY <1>1, <1>5
  <2>2. Take(units, n) \in Seq(FileUnits) /\ Len(Take(units, n)) = n
    BY <1>1, <2>1, Taken1
  <2>3. Drop(units, n) \in Seq(FileUnits)
    BY <1>1, <2>1, Dropped
  <2> QED
    BY <1>2, <1>3, <1>5, <2>2, <2>3
<1> QED
  BY <1>4, <1>5

Buffers == [null : BOOLEAN, data : Seq(Nat)]

LEMMA ValuesSeq ==
  ASSUME NEW s \in Seq(FileUnits)
  PROVE  Values(s) \in Seq(Nat) /\ Len(Values(s)) = Len(s)
<1>1. Len(s) \in 0 .. Len(s) /\ DOMAIN s = 1 .. Len(s)
  OBVIOUS
<1>2. Values(s) = [i \in 1 .. Len(s) |-> s[i].value]
  BY <1>1 DEF Values
<1> QED
  BY <1>1, <1>2, ValuesOK

LEMMA WrittenOK ==
  ASSUME NEW buf \in Buffers, NEW offset, NEW values \in Seq(Nat)
  PROVE  /\ WrittenAt(buf, offset, values) \in Buffers
         /\ WrittenAt(buf, offset, values).null = buf.null
         /\ Len(WrittenAt(buf, offset, values).data) = Len(buf.data)
         /\ buf.null => WrittenAt(buf, offset, values) = buf
<1> DEFINE data == [i \in DOMAIN buf.data |->
                      IF i - offset \in DOMAIN values THEN values[i - offset] ELSE buf.data[i]]
<1>1. WrittenAt(buf, offset, values) = IF buf.null THEN buf ELSE [buf EXCEPT !.data = data]
  BY DEF WrittenAt
<1>2. buf.data \in Seq(Nat) /\ buf.null \in BOOLEAN
  BY DEF Buffers
<1>3. data \in Seq(Nat) /\ Len(data) = Len(buf.data)
  <2>1. DOMAIN buf.data = 1 .. Len(buf.data) /\ Len(buf.data) \in Nat
    BY <1>2
  <2>2. \A i \in 1 .. Len(buf.data) :
          (IF i - offset \in DOMAIN values THEN values[i - offset] ELSE buf.data[i]) \in Nat
    BY <1>2
  <2> QED
    BY <2>1, <2>2
<1> HIDE DEF data
<1>4. /\ [buf EXCEPT !.data = data] \in Buffers
      /\ [buf EXCEPT !.data = data].data = data
      /\ [buf EXCEPT !.data = data].null = buf.null
  BY <1>3 DEF Buffers
<1> QED
  BY <1>1, <1>3, <1>4

(* What remains to be copied always fits behind what has been copied.      *)
LEMMA ExtraCopyOK ==
  ASSUME NEW buf \in Buffers, NEW size \in Nat, count \in Nat, next_in \in Seq(FileUnits),
         ~ buf.null => count <= size /\ size - count <= Len(buf.data)
  PROVE  LET copy == buffer_header_copy(count, buf, size - count, "EXTRA_OVERFLOW")
         IN  /\ copy.ret \in {"OK", "END_INPUT", "EXTRA_OVERFLOW"}
             /\ copy.next \in Seq(FileUnits) /\ copy.count \in Nat /\ copy.buf \in Buffers
             /\ ~ copy.buf.null => copy.count <= size /\ size - copy.count <= Len(copy.buf.data)
             /\ copy.ret = "OK" => copy.count = 0
<1> DEFINE len  == Least(count, Len(next_in))
           room == Len(buf.data) - (size - count)
           full == ~buf.null /\ room < len
           n    == IF full THEN room ELSE len
           new  == WrittenAt(buf, size - count, Values(Take(next_in, n)))
           result == IF full THEN "EXTRA_OVERFLOW" ELSE IF len = count THEN "OK" ELSE "END_INPUT"
<1>1. len \in Nat /\ len <= count /\ len <= Len(next_in) /\ Len(next_in) \in Nat
  BY DEF Least
<1>2. Len(buf.data) \in Nat
  BY DEF Buffers
<1>3. room \in Int /\ (~ buf.null => room >= 0) /\ size - count \in Int
  BY <1>2
<1> HIDE DEF len, room
<1>4. n \in Nat /\ n <= len /\ (~ buf.null => n <= room)
  BY <1>1, <1>3
<1>5. n \in 0 .. Len(next_in) /\ n <= Len(next_in)
  BY <1>1, <1>4
<1> HIDE DEF n
<1>6. Drop(next_in, n) \in Seq(FileUnits)
  BY <1>4, DroppedAny
<1>7. Take(next_in, n) \in Seq(FileUnits)
  BY <1>5, Taken1
<1>8. new \in Buffers /\ new.null = buf.null /\ Len(new.data) = Len(buf.data)
  BY <1>7, ValuesSeq, WrittenOK
<1> HIDE DEF new
<1>9. count - n \in Nat
      /\ (~ buf.null => count - n <= size /\ size - (count - n) <= Len(buf.data))
  BY <1>1, <1>2, <1>3, <1>4 DEF room
<1>10. result \in {"OK", "END_INPUT", "EXTRA_OVERFLOW"} /\ (result = "OK" => n = count)
  BY DEF n
<1>12. n = count => count - n = 0
  OBVIOUS
<1>11. buffer_header_copy(count, buf, size - count, "EXTRA_OVERFLOW") =
         [ret |-> result, next |-> Drop(next_in, n), count |-> count - n, buf |-> new]
  BY DEF buffer_header_copy, len, room, n, new
<1> HIDE DEF result
<1> QED
  BY <1>6, <1>8, <1>9, <1>10, <1>11, <1>12

LEMMA StringCopyOK ==
  ASSUME NEW buf \in Buffers, count \in Nat, ~ buf.null => count <= Len(buf.data),
         NEW error, next_in \in Seq(FileUnits)
  PROVE  LET copy == string_header_copy(buf, count, error)
         IN  /\ copy.ret \in {"OK", "END_INPUT"} \/ (copy.ret = error /\ ~ buf.null)
             /\ copy.next \in Seq(FileUnits) /\ copy.count \in Nat
             /\ copy.buf \in Buffers /\ copy.buf.null = buf.null
             /\ ~ buf.null => copy.count <= Len(copy.buf.data)
             /\ buf.null => copy.buf = buf
<1> DEFINE room == Len(buf.data) - count
           most == IF buf.null \/ room > Len(next_in) THEN Len(next_in) ELSE room
           Ends(n) == /\ \A i \in 1 .. n : next_in[i].value # 0
                      /\ n < most => next_in[n + 1].value = 0
           len  == CHOOSE n \in 0 .. most : Ends(n)
           left == Drop(next_in, len)
           new  == WrittenAt(buf, count, Values(Take(next_in, len)))
           ended == WrittenAt(new, len, <<0>>)
<1>1. Len(buf.data) \in Nat /\ Len(next_in) \in Nat
  BY DEF Buffers
<1>2. room \in Int /\ (~ buf.null => room >= 0)
  BY <1>1
<1> HIDE DEF room
<1>3. most \in Nat /\ most <= Len(next_in) /\ (~ buf.null => most <= room)
  BY <1>1, <1>2
<1> HIDE DEF most
<1>4. \E n \in 0 .. most : Ends(n)
  <2> DEFINE T == {n \in 0 .. most : n = most \/ next_in[n + 1].value = 0}
  <2>1. T \subseteq Nat /\ most \in T
    BY <1>3
  <2>2. PICK n \in T : \A m \in T : n <= m
    BY <2>1, LeastNat
  <2>3. n \in 0 .. most /\ (n < most => next_in[n + 1].value = 0)
    BY <1>3, <2>2
  <2>4. ASSUME NEW i \in 1 .. n PROVE next_in[i].value # 0
    <3>1. i - 1 \in 0 .. most /\ (i - 1) + 1 = i /\ ~ (n <= i - 1)
      BY <1>3, <2>3
    <3> QED
      BY <2>2, <3>1
  <2> QED
    BY <2>3, <2>4
<1>5. len \in 0 .. most
  <2> HIDE DEF Ends
  <2> QED
    BY <1>4
<1> HIDE DEF len
<1>6. len \in Nat /\ len \in 0 .. Len(next_in) /\ (~ buf.null => len <= room)
  BY <1>1, <1>2, <1>3, <1>5
<1>7. left \in Seq(FileUnits) /\ Len(left) = Len(next_in) - len
  BY <1>6, Dropped
<1>8. Take(next_in, len) \in Seq(FileUnits)
  BY <1>6, Taken1
<1>9. /\ new \in Buffers /\ new.null = buf.null /\ Len(new.data) = Len(buf.data)
      /\ buf.null => new = buf
  BY <1>8, ValuesSeq, WrittenOK
<1> HIDE DEF left, new
<1>10. /\ ended \in Buffers /\ ended.null = buf.null /\ Len(ended.data) = Len(buf.data)
       /\ buf.null => ended = buf
  <2>1. PICK zero \in Seq(Nat) : zero = <<0>>
    <3>1. <<0>> \in Seq(Nat)
      OBVIOUS
    <3> QED
      BY <3>1
  <2>3. ended = WrittenAt(new, len, zero)
    BY <2>1, Zenon
  <2>2. /\ ended \in Buffers /\ ended.null = new.null /\ Len(ended.data) = Len(new.data)
        /\ new.null => ended = new
    <3> HIDE DEF ended
    <3> QED
      BY <1>9, <2>3, WrittenOK
  <2> HIDE DEF ended
  <2> QED
    BY <1>9, <2>2
<1> HIDE DEF ended
<1>11. count + len \in Nat /\ (~ buf.null => count + len <= Len(buf.data))
  BY <1>1, <1>2, <1>6 DEF room
<1>12. left # <<>> => Tail(left) \in Seq(FileUnits)
  BY <1>7
<1>13. string_header_copy(buf, count, error) =
         IF ~buf.null /\ len = room
         THEN [ret |-> error, next |-> left, count |-> count + len, buf |-> new]
         ELSE IF left = <<>>
         THEN [ret |-> "END_INPUT", next |-> left, count |-> count + len, buf |-> new]
         ELSE [ret |-> "OK", next |-> Tail(left), count |-> 0, buf |-> ended]
  BY DEF string_header_copy, len, most, room, left, new, ended
<1>14. CASE ~buf.null /\ len = room
  BY <1>7, <1>9, <1>11, <1>13, <1>14
<1>15. CASE ~ (~buf.null /\ len = room) /\ left = <<>>
  BY <1>7, <1>9, <1>11, <1>13, <1>15
<1>16. CASE ~ (~buf.null /\ len = room) /\ left # <<>>
  BY <1>1, <1>10, <1>12, <1>13, <1>16
<1> QED
  BY <1>14, <1>15, <1>16

LEMMA FlushedOK ==
  ASSUME NEW buffer \in Seq(Nat), write_overflow \in Seq(Nat),
         copy_overflow \in [len : 0 .. MaxMatch, dist : 0 .. Hist]
  PROVE  /\ Flushed(buffer) \in Seq(Nat)
         /\ Len(Flushed(buffer)) = Len(buffer) + OverflowLen /\ OverflowLen \in Nat
<1> DEFINE lits == buffer \o write_overflow
           copy == Copied(lits, copy_overflow.dist, copy_overflow.len)
<1>1. lits \in Seq(Nat) /\ Len(lits) = Len(buffer) + Len(write_overflow)
  BY Joined
<1> HIDE DEF lits
<1>2. copy_overflow.len \in Nat
  BY InflateAssumption
<1>3. copy \in Seq(Nat) /\ Len(copy) = copy_overflow.len
  BY <1>1, <1>2, CopiedLen
<1> HIDE DEF copy
<1>4. lits \o copy \in Seq(Nat) /\ Len(lits \o copy) = Len(lits) + Len(copy)
  BY <1>1, <1>3, Joined
<1>5. Flushed(buffer) = lits \o copy
  BY DEF Flushed, lits, copy
<1> QED
  BY <1>1, <1>2, <1>3, <1>4, <1>5 DEF OverflowLen

LEMMA JoinedAt ==
  ASSUME NEW S, NEW s \in Seq(S), NEW t \in Seq(S)
  PROVE  /\ \A i \in 1 .. Len(s) : (s \o t)[i] = s[i]
         /\ \A i \in 1 .. Len(s) + Len(t) : i > Len(s) => (s \o t)[i] = t[i - Len(s)]
OBVIOUS

LEMMA SameSeq ==
  ASSUME NEW S, NEW s \in Seq(S), NEW t \in Seq(S), Len(s) = Len(t),
         \A i \in 1 .. Len(t) : s[i] = t[i]
  PROVE  s = t
OBVIOUS

LEMMA SplitDrop ==
  ASSUME NEW u \in Seq(Nat), NEW a \in Nat, NEW b \in Nat, a <= b, b <= Len(u)
  PROVE  /\ SubSeq(u, a + 1, b) \in Seq(Nat) /\ Drop(u, b) \in Seq(Nat)
         /\ SubSeq(u, a + 1, b) \o Drop(u, b) = Drop(u, a)
<1> DEFINE s == SubSeq(u, a + 1, b)
           t == Drop(u, b)
           w == Drop(u, a)
<1>1. /\ s \in Seq(Nat) /\ Len(s) = b - a
      /\ \A i \in 1 .. b - a : s[i] = u[a + i]
  OBVIOUS
<1>2. /\ t \in Seq(Nat) /\ Len(t) = Len(u) - b
      /\ \A i \in 1 .. Len(u) - b : t[i] = u[b + i]
  BY DEF Drop
<1>3. /\ w \in Seq(Nat) /\ Len(w) = Len(u) - a
      /\ \A i \in 1 .. Len(u) - a : w[i] = u[a + i]
  BY DEF Drop
<1> HIDE DEF s, t, w
<1>4. s \o t \in Seq(Nat) /\ Len(s \o t) = Len(w)
  <2>1. s \o t \in Seq(Nat) /\ Len(s \o t) = Len(s) + Len(t)
    BY <1>1, <1>2, Joined
  <2>2. Len(s) + Len(t) = Len(w)
    BY <1>1, <1>2, <1>3
  <2> QED
    BY <2>1, <2>2
<1>5. ASSUME NEW i \in 1 .. Len(w) PROVE (s \o t)[i] = w[i]
  <2>1. CASE i <= b - a
    <3>1. i \in 1 .. Len(s) /\ i \in 1 .. b - a /\ i \in 1 .. Len(u) - a
      BY <1>1, <1>3, <2>1
    <3>2. (s \o t)[i] = s[i]
      BY <1>1, <1>2, <3>1, JoinedAt
    <3> QED
      BY <1>1, <1>3, <3>1, <3>2
  <2>2. CASE ~ (i <= b - a)
    <3> DEFINE j == i - Len(s)
    <3>1. /\ j \in 1 .. Len(u) - b /\ i \in 1 .. Len(u) - a /\ b + j = a + i
          /\ i \in 1 .. Len(s) + Len(t) /\ i > Len(s)
      BY <1>1, <1>2, <1>3, <2>2
    <3>2. (s \o t)[i] = t[j]
      BY <1>1, <1>2, <3>1, JoinedAt
    <3> HIDE DEF j
    <3> QED
      BY <1>2, <1>3, <3>1, <3>2
  <2> QED
    BY <2>1, <2>2
<1>6. s \o t = w
  BY <1>3, <1>4, <1>5, SameSeq
<1> QED
  BY <1>1, <1>2, <1>6 DEF s, t, w

LEMMA SameStart ==
  ASSUME NEW u \in Seq(Nat), NEW v \in Seq(Nat), NEW a \in Nat, NEW b \in Nat, a <= b, b <= Len(u)
  PROVE  SubSeq(u \o v, a + 1, b) = SubSeq(u, a + 1, b)
OBVIOUS

LEMMA SumType ==
  ASSUME NEW sum \in Nat, NEW part \in Seq(Nat)
  PROVE  Sum(sum, part) \in Nat
BY ExtendedType DEF Sum

LEMMA SumNone ==
  ASSUME NEW sum \in Nat
  PROVE  Sum(sum, <<>>) = sum
BY ExtendedNone DEF Sum

LEMMA SumTwice ==
  ASSUME NEW sum \in Nat, NEW a \in Seq(Nat), NEW b \in Seq(Nat)
  PROVE  Sum(Sum(sum, a), b) = Sum(sum, a \o b)
BY ExtendedTwice DEF Sum

-----------------------------------------------------------------------------
(* The invariant holds at first, and each action keeps it.                 *)

Inv == ControlInv /\ HeaderInv /\ InputInv /\ BufferInv /\ CountInv

LEMMA SupplyOK ==
  ASSUME NEW n \in Nat, Supply(n), rest \in Seq(FileUnits), next_in \in Seq(FileUnits)
  PROVE  rest' \in Seq(FileUnits) /\ next_in' \in Seq(FileUnits)
<1> DEFINE k == Least(n, Len(rest))
<1>1. k \in Nat /\ k \in 0 .. Len(rest)
  BY DEF Least
<1> HIDE DEF k
<1>2. Take(rest, k) \in Seq(FileUnits)
  BY <1>1, Taken1
<1>3. Drop(rest, k) \in Seq(FileUnits)
  BY <1>1, DroppedAny
<1>4. next_in \o Take(rest, k) \in Seq(FileUnits)
  BY <1>2, Joined
<1>5. next_in' = next_in \o Take(rest, k) /\ rest' = Drop(rest, k)
  BY DEF Supply, k
<1> QED
  BY <1>3, <1>4, <1>5

LEMMA BufferNew ==
  ASSUME NEW n \in Nat
  PROVE  Buffer(n) \in Buffers
BY DEF Buffer, Buffers, Stray

LEMMA NullOK ==
  NULL \in Buffers /\ NULL.null
BY DEF NULL, Buffers

LEMMA GzHdrOK ==
  ASSUME NEW f, NEW name \in Buffers
  PROVE  /\ DOMAIN GzHdr(f, name) = {"flags", "extra_len", "hcrc", "name", "comment", "extra"}
         /\ GzHdr(f, name).extra_len = 0 /\ GzHdr(f, name).comment = NULL
         /\ GzHdr(f, name).name = name /\ GzHdr(f, name).extra \in Buffers
         /\ name.null => GzHdr(f, name).extra.null
<1>1. Buffer(1) \in Buffers
  BY BufferNew
<1> DEFINE extra == IF name.null THEN NULL ELSE Buffer(1)
<1>2. extra \in Buffers /\ (name.null => extra.null)
  BY <1>1, NullOK
<1>3. GzHdr(f, name) = [flags |-> f, extra_len |-> 0, hcrc |-> 0, name |-> name,
                        comment |-> NULL, extra |-> extra]
  BY DEF GzHdr
<1> HIDE DEF extra
<1> QED
  BY <1>2, <1>3

LEMMA InvInit ==
  ASSUME Init
  PROVE  Inv
<1>1. PICK n \in NameSizes : gz_hdr = GzHdr(0, Buffer(n))
  BY DEF Init
<1>2. n \in Nat /\ file \in Files
  BY FilesAssumption DEF Init
<1>3. file.units \in Seq(FileUnits) /\ crc_flag \in {"deflate", "gzip_no_hdr_ver", "gzip", "zlib"}
  BY <1>2, FilesAssumption DEF Init
<1>4. ControlInv
  <2>1. /\ pack \in Packs /\ trunc \in BOOLEAN /\ wrapper_flag = FALSE /\ pc = "idle"
        /\ block_state = "NEW_HDR" /\ bfinal = 0 /\ ret = "DECOMP_OK"
    BY DEF Init
  <2>2. /\ WithinMember => block_state \in MemberStates
        /\ ~ WithinMember /\ crc_flag # "zlib" => block_state \in WrapperStates
    BY <2>1 DEF MemberStates, BlockStates, WrapperStates
  <2>3. bfinal \in 0 .. 1 /\ file \in Files /\ ret \in Results
    BY <1>2, <2>1 DEF Results
  <2>4. /\ pc \in {"idle", "header"} \cup Entering \cup Decoding /\ pc \notin Entering \cup Decoding
        /\ pc \notin {"header", "wrapper", "zlib", "dict_id", "trailer", "begin"}
    BY <2>1 DEF Entering, Decoding
  <2>5. wrapper_flag \in BOOLEAN /\ (~ WithinMember /\ crc_flag = "zlib" => block_state \in {"NEW_HDR", "ZLIB_DICT"})
    BY <2>1
  <2> QED
    BY <1>3, <2>1, <2>2, <2>3, <2>4, <2>5, Zenon DEF ControlInv
<1>5. HeaderInv
  <2>1. /\ DOMAIN gz_hdr = {"flags", "extra_len", "hcrc", "name", "comment", "extra"}
        /\ gz_hdr.extra_len = 0 /\ gz_hdr.comment = NULL
        /\ gz_hdr.name \in Buffers /\ gz_hdr.extra \in Buffers
    BY <1>1, <1>2, BufferNew, GzHdrOK
  <2>2. Len(gz_hdr.extra.data) \in Nat /\ Len(gz_hdr.name.data) \in Nat
    BY <2>1 DEF Buffers
  <2> QED
    BY <2>1, <2>2 DEF Init, HeaderInv, HeaderFields, HeaderResults, Resumable, At, Buffers, Entering, Decoding
<1>6. InputInv
  BY <1>3, InflateAssumption DEF Init, InputInv, Half, WithinMember, Resumable
<1>7. BufferInv
  <2>1. /\ TmpSize - StoreU32 >= 0 /\ 2 * Hist \in Nat /\ MostOverflow >= 0
        /\ TmpSize >= 0
    BY InflateAssumption DEF TmpSize, StoreU32, MostOverflow, MaxLits
  <2>2. /\ OverflowLen = 0 /\ NoCopy \in [len : 0 .. MaxMatch, dist : 0 .. Hist]
    BY InflateAssumption DEF Init, OverflowLen, NoCopy
  <2> QED
    BY <2>1, <2>2 DEF Init, BufferInv, Decoding
<1>8. CountInv
  <2>1. Drop(user, base) = <<>> /\ Len(user) = 0
    BY DEF Init, Drop
  <2>2. crc = Sum(0, Drop(user, base))
    BY <2>1, SumNone DEF Init
  <2> QED
    BY <2>1, <2>2 DEF Init, CountInv, Entering, Decoding
<1> QED
  BY <1>4, <1>5, <1>6, <1>7, <1>8 DEF Inv

LEMMA InvBegin ==
  ASSUME Inv, Begin
  PROVE  Inv'
<1> USE DEF Begin, params, input, block, over, header, hdr_locals, output
<1>1. ControlInv'
  BY DEF Inv, ControlInv, WithinMember, Entering, Decoding
<1>2. HeaderInv'
  BY DEF Inv, HeaderInv, Resumable, At
<1>3. InputInv'
  BY DEF Inv, InputInv, Half, WithinMember, Resumable
<1>4. BufferInv'
  <2>1. Len(tmp_out) \in Nat /\ 2 * Hist \in Nat
    BY InflateAssumption DEF Inv, BufferInv
  <2>2. OverflowLen = 0
    BY DEF Inv, BufferInv
  <2>3. OverflowLen' = 0
    BY <2>2 DEF OverflowLen
  <2>4. pc' \in {"tmp", "drain"} /\ (pc' = "tmp" => Len(tmp_out) < 2 * Hist)
    OBVIOUS
  <2> QED
    BY <2>1, <2>2, <2>3, <2>4 DEF Inv, BufferInv
<1>5. CountInv'
  <2>1. /\ start_out = Len(user) /\ base <= start_out
        /\ total_out = Len(user) - base /\ crc = Sum(0, Drop(user, base))
        /\ total_out \in Nat /\ crc \in Nat
    BY DEF Inv, CountInv, Entering, Decoding
  <2>2. pc' \in Decoding /\ pc' \notin Entering
    BY DEF Decoding, Entering
  <2>3. Sum(0, SubSeq(user, base + 1, start_out))' = crc'
    BY <2>1 DEF Sum, Drop
  <2>4. total_out' \in Nat /\ total_out' = Len(user) - base + (Len(tmp_out) - processed)
    BY <2>1 DEF Inv, BufferInv
  <2> QED
    BY <2>1, <2>2, <2>3, <2>4 DEF CountInv
<1> QED
  BY <1>1, <1>2, <1>3, <1>4, <1>5 DEF Inv

LEMMA InvCall ==
  ASSUME Inv, NEW n \in InSizes, NEW o \in OutSizes, Call(n, o)
  PROVE  Inv'
<1> USE DEF params, input, block, over, header, hdr_locals, output
<1>0. /\ n \in Nat /\ o \in Nat /\ pc = "idle"
      /\ UNCHANGED <<params, read_in, tmp_in, block, over, tmp_out, processed, total_out, crc,
                     crc_flag, header, user, base>>
      /\ start_out' = Len(user) /\ avail_out' = o /\ ret' = "OK"
  BY InflateAssumption DEF Call
<1>1. ControlInv'
  <2>1. pc' \in {"wrapper", "zlib", "trailer", "begin"}
    BY DEF Call
  <2>2. /\ pc' = "wrapper" => crc_flag = "gzip" /\ ~ wrapper_flag
        /\ pc' = "zlib" => crc_flag = "zlib" /\ ~ wrapper_flag
        /\ pc' \in {"trailer", "begin"} => WithinMember
        /\ pc' = "trailer" => block_state = "CHECKSUM_CHECK"
        /\ pc' = "begin" => block_state # "CHECKSUM_CHECK" /\ block_state # "FINISH"
    BY DEF Call, WithinMember, Inv, ControlInv
  <2>3. pc' \in Entering /\ pc' \notin Decoding /\ pc' \notin {"header", "dict_id"} /\ ret' \in Results
    BY <1>0, <2>1 DEF Entering, Decoding, Results
  <2> QED
    BY <1>0, <2>1, <2>2, <2>3 DEF Inv, ControlInv, WithinMember, MemberStates
<1>2. HeaderInv'
  <2>1. field = "none" /\ pc' # "header"
    BY <1>0 DEF Call, Inv, HeaderInv
  <2>2. pc' = "wrapper" => ~ wrapper_flag
    BY DEF Call
  <2>3. Resumable' => Resumable
    BY <1>0, <2>1 DEF Call, Resumable
  <2> QED
    BY <1>0, <2>1, <2>2, <2>3 DEF Inv, HeaderInv, At
<1>3. InputInv'
  <2>1. rest' \in Seq(FileUnits) /\ next_in' \in Seq(FileUnits)
    BY <1>0, SupplyOK DEF Call, Inv, InputInv
  <2>2. Resumable' => Resumable
    BY <1>0 DEF Call, Resumable, Inv, HeaderInv
  <2> QED
    BY <1>0, <2>1, <2>2 DEF Inv, InputInv, Half, WithinMember
<1>4. BufferInv'
  <2>1. OverflowLen = 0 /\ OverflowLen' = 0
    BY <1>0 DEF Inv, BufferInv, OverflowLen
  <2>2. Len(user) \in Nat
    BY DEF Inv, BufferInv
  <2>3. pc' \notin {"tmp", "drain", "out", "end"}
    BY DEF Call
  <2> QED
    BY <1>0, <2>1, <2>2, <2>3 DEF Inv, BufferInv
<1>5. CountInv'
  <2>1. pc \notin Decoding /\ pc' \notin Decoding
    BY <1>0 DEF Call, Decoding
  <2>2. Sum(0, Drop(user, base))' = Sum(0, Drop(user, base))
    BY <1>0 DEF Sum, Drop
  <2> QED
    BY <1>0, <2>1, <2>2 DEF Inv, CountInv, BufferInv
<1> QED
  BY <1>1, <1>2, <1>3, <1>4, <1>5 DEF Inv

LEMMA GrownOK ==
  ASSUME NEW buf \in Buffers
  PROVE  /\ Grown(buf) \in Buffers /\ Grown(buf).null = buf.null
         /\ Len(buf.data) <= Len(Grown(buf).data)
<1>1. buf.data \in Seq(Nat) /\ <<Stray, Stray>> \in Seq(Nat)
  BY DEF Buffers, Stray
<1>2. /\ buf.data \o <<Stray, Stray>> \in Seq(Nat)
      /\ Len(buf.data) <= Len(buf.data \o <<Stray, Stray>>)
  BY <1>1, Joined
<1> DEFINE data == buf.data \o <<Stray, Stray>>
<1>3. Grown(buf) = [buf EXCEPT !.data = data]
  BY DEF Grown
<1> HIDE DEF data
<1>4. /\ [buf EXCEPT !.data = data] \in Buffers /\ [buf EXCEPT !.data = data].data = data
      /\ [buf EXCEPT !.data = data].null = buf.null
  BY <1>2 DEF Buffers, data
<1> QED
  BY <1>2, <1>3, <1>4 DEF data

LEMMA InvCallHeader ==
  ASSUME Inv, NEW n \in InSizes, CallHeader(n)
  PROVE  Inv'
<1> USE DEF params, input, block, over, header, hdr_locals, output
<1>0. /\ n \in Nat /\ pc = "idle" /\ pc' = "header" /\ ret \notin Refused
      /\ crc_flag = "gzip_no_hdr_ver" /\ ~ wrapper_flag
      /\ UNCHANGED <<params, read_in, tmp_in, block, over, output, crc_flag, wrapper_flag,
                     hdr_locals, ret>>
  BY InflateAssumption DEF CallHeader
<1>1. ControlInv'
  BY <1>0 DEF Inv, ControlInv, Entering, Decoding, WithinMember
<1>2. HeaderInv'
  <2> DEFINE name  == IF ret = "NAME_OVERFLOW" THEN Grown(gz_hdr.name) ELSE gz_hdr.name
             extra == IF ret = "EXTRA_OVERFLOW" THEN Grown(gz_hdr.extra) ELSE gz_hdr.extra
  <2>0. gz_hdr.name \in Buffers /\ gz_hdr.extra \in Buffers
    BY DEF Inv, HeaderInv, Buffers
  <2>1. /\ name \in Buffers /\ name.null = gz_hdr.name.null
        /\ Len(gz_hdr.name.data) <= Len(name.data)
    BY <2>0, GrownOK DEF Buffers
  <2>2. /\ extra \in Buffers /\ extra.null = gz_hdr.extra.null
        /\ Len(gz_hdr.extra.data) <= Len(extra.data)
    BY <2>0, GrownOK DEF Buffers
  <2>3. gz_hdr' = [gz_hdr EXCEPT !.name = name, !.extra = extra]
    BY DEF CallHeader
  <2> HIDE DEF name, extra
  <2>4. DOMAIN gz_hdr = {"flags", "extra_len", "hcrc", "name", "comment", "extra"}
    BY DEF Inv, HeaderInv
  <2>5. /\ DOMAIN gz_hdr' = DOMAIN gz_hdr /\ gz_hdr'.name = name /\ gz_hdr'.extra = extra
        /\ gz_hdr'.extra_len = gz_hdr.extra_len /\ gz_hdr'.comment = gz_hdr.comment
    BY <2>3, <2>4
  <2>6. /\ Len(name.data) \in Nat /\ Len(gz_hdr.name.data) \in Nat
        /\ Len(extra.data) \in Nat /\ Len(gz_hdr.extra.data) \in Nat
    BY <2>0, <2>1, <2>2 DEF Buffers
  <2>7. field = "none" /\ Resumable' = Resumable
    BY <1>0 DEF Inv, HeaderInv, Resumable
  <2> QED
    BY <1>0, <2>0, <2>1, <2>2, <2>4, <2>5, <2>6, <2>7 DEF Inv, HeaderInv, At, Buffers
<1>3. InputInv'
  <2>1. rest' \in Seq(FileUnits) /\ next_in' \in Seq(FileUnits)
    BY <1>0, SupplyOK DEF CallHeader, Inv, InputInv
  <2>2. Resumable' = Resumable
    BY <1>0 DEF Resumable
  <2> QED
    BY <1>0, <2>1, <2>2 DEF Inv, InputInv, Half, WithinMember
<1>4. BufferInv'
  <2>1. OverflowLen = 0 /\ OverflowLen' = 0
    BY <1>0 DEF Inv, BufferInv, OverflowLen
  <2> QED
    BY <1>0, <2>1 DEF Inv, BufferInv
<1>5. CountInv'
  <2>1. pc \notin Decoding /\ pc' \notin Decoding /\ pc' \notin Entering
    BY <1>0 DEF Decoding, Entering
  <2>2. Sum(0, Drop(user, base))' = Sum(0, Drop(user, base))
    BY <1>0 DEF Sum, Drop
  <2> QED
    BY <1>0, <2>1, <2>2 DEF Inv, CountInv
<1> QED
  BY <1>1, <1>2, <1>3, <1>4, <1>5 DEF Inv

LEMMA InvSetDict ==
  ASSUME Inv, SetDict
  PROVE  Inv'
<1> USE DEF params, input, block, over, header, hdr_locals, output
<1>0. /\ pc = "idle" /\ pc' = "idle" /\ block_state = "NEW_HDR" /\ ret' = "DECOMP_OK"
      /\ processed = Len(tmp_out)
      /\ UNCHANGED <<params, rest, input, block, over, total_out, crc, crc_flag, header, user,
                     start_out, avail_out, base>>
  BY DEF SetDict
<1>1. ControlInv'
  BY <1>0 DEF Inv, ControlInv, Entering, Decoding, WithinMember, Results
<1>2. HeaderInv'
  <2>1. field = "none" /\ Resumable' => (Resumable \/ block_state = "NEW_HDR")
    BY <1>0
  <2> QED
    BY <1>0, <2>1 DEF Inv, HeaderInv, At
<1>3. InputInv'
  BY <1>0 DEF Inv, InputInv, Half, WithinMember
<1>4. BufferInv'
  <2> SUFFICES ASSUME NEW dict \in Seq(Nat), file.dict = dict PROVE BufferInv'
    BY FilesAssumption DEF Inv, ControlInv
  <2> DEFINE len == Least(Len(dict), Hist)
             k   == Len(dict) - len
  <2>1. len \in Nat /\ len <= Hist /\ len <= Len(dict)
    BY InflateAssumption DEF Least
  <2>2. k \in Nat /\ k <= Len(dict) /\ Len(dict) - k = len
    BY <2>1
  <2>3. Drop(dict, k) \in Seq(Nat) /\ Len(Drop(dict, k)) = Len(dict) - k
    BY <2>2, Dropped
  <2>4. tmp_out' = Drop(dict, k) /\ processed' = len
    BY DEF SetDict
  <2> HIDE DEF k, len
  <2>6. Hist <= TmpSize - StoreU32 /\ len <= TmpSize /\ len <= TmpSize - StoreU32
    BY <2>1, InflateAssumption DEF TmpSize, StoreU32, MaxLits
  <2>7. OverflowLen = 0 /\ OverflowLen' = 0
    BY <1>0 DEF Inv, BufferInv, OverflowLen
  <2> QED
    BY <1>0, <2>1, <2>2, <2>3, <2>4, <2>6, <2>7, SMTT(60) DEF Inv, BufferInv
<1>5. CountInv'
  <2>1. pc \notin Decoding /\ pc' \notin Decoding /\ pc' \notin Entering
    BY <1>0 DEF Decoding, Entering
  <2>2. Sum(0, Drop(user, base))' = Sum(0, Drop(user, base))
    BY <1>0 DEF Sum, Drop
  <2> QED
    BY <1>0, <2>1, <2>2 DEF Inv, CountInv
<1> QED
  BY <1>1, <1>2, <1>3, <1>4, <1>5 DEF Inv

LEMMA InvNextMember ==
  ASSUME Inv, NEW n \in InSizes, NextMember(n)
  PROVE  Inv'
<1> USE DEF params, input, block, over, header, hdr_locals, output
<1>0. /\ pc = "idle" /\ pc' = "idle" /\ block_state' = "NEW_HDR" /\ ret' = ret
      /\ ret \notin Refused /\ wrapper_flag' = FALSE /\ crc_flag' = "gzip"
      /\ UNCHANGED <<params, user, start_out, avail_out, gz_hdr, hdr_locals>>
      /\ read_in' = <<>> /\ tmp_in' = <<>> /\ bfinal' = 0 /\ count' = 0
      /\ write_overflow' = <<>> /\ copy_overflow' = NoCopy /\ tmp_out' = <<>> /\ processed' = 0
      /\ total_out' = 0 /\ crc' = 0 /\ base' = Len(user)
  BY DEF NextMember
<1>1. ControlInv'
  <2>1. ~ WithinMember' /\ block_state' \in WrapperStates /\ bfinal' \in 0 .. 1
    BY <1>0 DEF WithinMember, WrapperStates
  <2>2. pc' \notin Entering \cup Decoding /\ Entering' = Entering /\ Decoding' = Decoding
    BY <1>0 DEF Entering, Decoding
  <2>3. /\ file' \in Files /\ pack' \in Packs /\ trunc' \in BOOLEAN /\ wrapper_flag' \in BOOLEAN
        /\ ret' \in Results
    BY <1>0 DEF Inv, ControlInv
  <2> QED
    BY <1>0, <2>1, <2>2, <2>3 DEF ControlInv
<1>2. HeaderInv'
  <2>1. field = "none"
    BY <1>0 DEF Inv, HeaderInv
  <2> QED
    BY <1>0, <2>1 DEF Inv, HeaderInv, At, HeaderFields
<1>3. InputInv'
  <2>1. (IF next_in = <<>> THEN n ELSE 0) \in Nat
    BY InflateAssumption
  <2>2. rest' \in Seq(FileUnits) /\ next_in' \in Seq(FileUnits)
    BY <2>1, SupplyOK DEF NextMember, Inv, InputInv
  <2> QED
    BY <1>0, <2>2, InflateAssumption DEF InputInv
<1>4. BufferInv'
  <2>1. /\ OverflowLen' = 0 /\ NoCopy \in [len : 0 .. MaxMatch, dist : 0 .. Hist]
    BY <1>0, InflateAssumption DEF OverflowLen, NoCopy
  <2>2. 0 <= TmpSize - StoreU32 /\ 0 <= TmpSize /\ 0 <= MostOverflow
    BY InflateAssumption DEF TmpSize, StoreU32, MaxLits, MostOverflow
  <2>3. Len(user) \in Nat
    BY DEF Inv, BufferInv
  <2> QED
    BY <1>0, <2>1, <2>2, <2>3 DEF Inv, BufferInv
<1>5. CountInv'
  <2>1. pc' \notin Decoding /\ pc' \notin Entering
    BY <1>0 DEF Decoding, Entering
  <2>2. Drop(user', base') = <<>>
    BY <1>0 DEF Inv, BufferInv, Drop
  <2>3. Sum(0, <<>>)' = 0
    BY ExtendedNone DEF Sum
  <2>4. Sum(0, Drop(user, base))' = 0
    BY <2>2, <2>3
  <2>5. Len(user) - Len(user) = 0
    BY DEF Inv, BufferInv
  <2> QED
    BY <1>0, <2>1, <2>4, <2>5 DEF CountInv
<1> QED
  BY <1>1, <1>2, <1>3, <1>4, <1>5 DEF Inv

(* A header has begun: isal_read_gzip_header goes on where it stopped.     *)
LEMMA InvStartHeader ==
  ASSUME Inv, StartHeader
  PROVE  Inv'
<1> USE DEF params, input, block, over, header, hdr_locals, output, outside_header
<1>0. PICK hdr : /\ EnterHeader(hdr)
                 /\ \/ pc = "header" /\ hdr = gz_hdr
                    \/ pc = "wrapper" /\ \E f \in Garbage : hdr = GzHdr(f, NULL)
  BY DEF StartHeader
<1>1. /\ pc \in {"header", "wrapper"} /\ pc' = pc /\ ret' = ret
      /\ UNCHANGED <<params, rest, read_in, bfinal, over, output, crc_flag>>
      /\ UNCHANGED <<next_in, tmp_in, block_state, wrapper_flag, hdr_ret>>
  BY <1>0 DEF StartHeader, EnterHeader
<1>2. /\ field = "none" /\ field' = Resumes[block_state] /\ gz_hdr' = hdr
      /\ count' = IF block_state = "NEW_HDR" THEN 0 ELSE count
  BY <1>0 DEF EnterHeader
<1>3. ret \notin Refused /\ ~ wrapper_flag /\ Resumable
  BY <1>1, <1>2 DEF Inv, ControlInv, HeaderInv, Entering, Resumable, Refused, Errors
<1>4. block_state \in WrapperStates
  BY <1>1, <1>3 DEF Inv, ControlInv, WithinMember
<1>5. /\ field' \in {"base", "extra_len", "extra", "name", "comment", "hcrc"}
      /\ field' = "base" => block_state = "NEW_HDR"
      /\ field' = "extra" => block_state = "GZIP_EXTRA"
      /\ field' = "name" => block_state = "GZIP_NAME"
      /\ field' = "comment" => block_state = "GZIP_COMMENT"
  BY <1>2, <1>4 DEF Resumes, WrapperStates
<1>6. ControlInv'
  BY <1>1 DEF Inv, ControlInv, WithinMember
<1>7. HeaderInv'
  <2>1. /\ DOMAIN hdr = {"flags", "extra_len", "hcrc", "name", "comment", "extra"}
        /\ hdr.extra_len \in Nat /\ hdr.comment = NULL
        /\ hdr.extra \in Buffers /\ hdr.name \in Buffers
        /\ hdr = gz_hdr \/ (hdr.name.null /\ hdr.extra.null)
    BY <1>0, GzHdrOK, NullOK DEF Inv, HeaderInv, Buffers
  <2>2. ~ Resumable'
    BY <1>5 DEF Resumable
  <2>3. count' \in Nat /\ (field' = "base" => count' = 0)
    BY <1>2, <1>5 DEF Inv, HeaderInv
  <2>4. /\ field' = "extra" /\ ~ hdr.extra.null =>
             count' <= hdr.extra_len /\ hdr.extra_len - count' <= Len(hdr.extra.data)
        /\ field' = "name" /\ ~ hdr.name.null => count' <= Len(hdr.name.data)
    BY <1>2, <1>3, <1>5, <2>1 DEF Inv, HeaderInv, At
  <2> QED
    BY <1>1, <1>2, <1>3, <1>5, <2>1, <2>2, <2>3, <2>4 DEF Inv, HeaderInv, At, HeaderFields, Buffers
<1>8. InputInv'
  <2>1. ~ Resumable'
    BY <1>5 DEF Resumable
  <2>2. field' \in {"extra", "name", "comment", "sum", "done"} => tmp_in = <<>>
    BY <1>3, <1>5 DEF Inv, InputInv
  <2> QED
    BY <1>1, <2>1, <2>2 DEF Inv, InputInv, Half, WithinMember
<1>9. BufferInv'
  BY <1>1 DEF Inv, BufferInv, OverflowLen
<1>10. CountInv'
  <2>1. Sum(0, Drop(user, base))' = Sum(0, Drop(user, base))
    BY <1>1 DEF Sum, Drop
  <2> QED
    BY <1>1, <2>1 DEF Inv, CountInv, Decoding
<1> QED
  BY <1>6, <1>7, <1>8, <1>9, <1>10 DEF Inv

LEMMA InvEndHeader ==
  ASSUME Inv, EndHeader
  PROVE  Inv'
<1> USE DEF params, input, block, over, header, hdr_locals, output, outside_header
<1>0. /\ field = "returned" /\ field' = "none" /\ pc \in {"header", "wrapper"}
      /\ UNCHANGED <<params, rest, read_in, bfinal, over, output, crc_flag>>
      /\ UNCHANGED <<next_in, tmp_in, block_state, count, wrapper_flag, gz_hdr, hdr_ret>>
      /\ pc' \in {"idle", "begin"}
  BY DEF EndHeader, LeaveHeader
<1>1. /\ hdr_ret \in HeaderResults
      /\ pc' = "begin" => hdr_ret = "DECOMP_OK" /\ ret' = ret /\ pc = "wrapper"
      /\ pc' = "idle" => ret' = hdr_ret \/ ret' = Returned(hdr_ret)
  BY DEF EndHeader, Inv, HeaderInv
<1>2. /\ ret' \in Results /\ (pc' = "begin" => ret' = "OK")
      /\ ret' \notin Refused => hdr_ret \notin Refused
  <2>1. CASE pc' = "begin"
    BY <1>1, <2>1 DEF Inv, ControlInv, Entering, Refused, Errors
  <2>2. CASE pc' = "idle"
    BY <1>1, <2>2 DEF HeaderResults, Returned, Results, Refused, Errors
  <2> QED
    BY <1>0, <2>1, <2>2
<1>3. pc' = "begin" => wrapper_flag /\ block_state = "NEW_HDR"
  BY <1>0, <1>1 DEF Inv, HeaderInv
<1>4. pc' \notin Decoding /\ (pc' \in Entering <=> pc' = "begin")
  BY <1>0 DEF Entering, Decoding
<1>5. ControlInv'
  <2>1. pc' = "begin" => WithinMember /\ block_state \in BlockStates
    BY <1>3 DEF WithinMember, BlockStates
  <2> QED
    BY <1>0, <1>2, <1>4, <2>1 DEF Inv, ControlInv, WithinMember
<1>6. Resumable' => Resumable
  BY <1>0, <1>2 DEF Resumable
<1>7. HeaderInv'
  BY <1>0, <1>6 DEF Inv, HeaderInv, At, HeaderFields
<1>8. InputInv'
  BY <1>0, <1>6 DEF Inv, InputInv, Half, WithinMember
<1>9. BufferInv'
  BY <1>0 DEF Inv, BufferInv, OverflowLen
<1>10. CountInv'
  <2>1. Sum(0, Drop(user, base))' = Sum(0, Drop(user, base))
    BY <1>0 DEF Sum, Drop
  <2>2. pc \notin Decoding /\ (pc' \in Entering => pc \in Entering)
    BY <1>0, <1>1 DEF Decoding, Entering
  <2> QED
    BY <1>0, <1>4, <2>1, <2>2 DEF Inv, CountInv
<1> QED
  BY <1>5, <1>7, <1>8, <1>9, <1>10 DEF Inv

LEMMA InvReadZlibBase ==
  ASSUME Inv, ReadZlibBase
  PROVE  Inv'
<1> USE DEF params, input, block, over, header, hdr_locals, output, outside_header, zlib_unchanged
<1> DEFINE read == fixed_size_read(ZLIB_HDR_BASE)
<1>0. /\ pc = "zlib" /\ block_state = "NEW_HDR" /\ crc_flag = "zlib" /\ ~ wrapper_flag /\ ret = "OK"
      /\ UNCHANGED <<params, rest, read_in, bfinal, over, output, crc_flag, block_state>>
      /\ UNCHANGED <<count, gz_hdr, hdr_locals>>
      /\ field = "none"
  BY DEF ReadZlibBase, Inv, ControlInv, HeaderInv, Entering
<1>1. /\ next_in' = read.next /\ tmp_in' = read.tmp
      /\ \/ pc' = "idle" /\ ret' \in {"DECOMP_OK", "UNSUPPORTED_METHOD", "INCORRECT_CHECKSUM"}
            /\ wrapper_flag' = wrapper_flag
         \/ read.ret = "OK" /\ pc' = "dict_id" /\ ret' = ret /\ wrapper_flag' = wrapper_flag
         \/ read.ret = "OK" /\ pc' = "begin" /\ ret' = ret /\ wrapper_flag' = TRUE
  BY DEF ReadZlibBase, ZlibLeaves
<1>2. /\ read.next \in Seq(FileUnits) /\ read.tmp \in Seq(FileUnits) /\ Len(read.tmp) <= HdrSize
      /\ read.ret = "OK" => read.tmp = <<>>
  <2>1. ZLIB_HDR_BASE \in 1 .. 3 /\ next_in \in Seq(FileUnits) /\ tmp_in \in Seq(FileUnits)
    BY DEF ZLIB_HDR_BASE, Inv, InputInv
  <2> QED
    BY <2>1, FixedReadOK
<1> HIDE DEF read
<1>3. ControlInv'
  <2>1. ret' \in Results /\ wrapper_flag' \in BOOLEAN
    <3>1. ret' \in Results
      BY <1>0, <1>1 DEF Results, Refused
    <3>2. wrapper_flag \in BOOLEAN
      BY DEF Inv, ControlInv
    <3> QED
      BY <1>1, <3>1, <3>2, Zenon
  <2>2. pc' \notin Decoding /\ Entering' = Entering /\ Decoding' = Decoding
        /\ (pc' \in Entering <=> pc' \in {"dict_id", "begin"}) /\ pc' \in {"idle", "dict_id", "begin"}
    BY <1>1 DEF Decoding, Entering
  <2>3. block_state' \in BlockStates /\ block_state' \in MemberStates
    BY <1>0 DEF BlockStates, MemberStates
  <2>4. WithinMember' <=> pc' = "begin"
    BY <1>0, <1>1 DEF WithinMember
  <2> QED
    BY <1>0, <1>1, <2>1, <2>2, <2>3, <2>4 DEF Inv, ControlInv
<1>4. HeaderInv'
  BY <1>0, <1>1 DEF Inv, HeaderInv, At, HeaderFields
<1>5. InputInv'
  <2>1. tmp_in' # <<>> => Half'
    BY <1>0, <1>1, <1>2 DEF Half, WithinMember
  <2> QED
    BY <1>0, <1>1, <1>2, <2>1 DEF Inv, InputInv
<1>6. BufferInv'
  BY <1>0, <1>1 DEF Inv, BufferInv, OverflowLen
<1>7. CountInv'
  <2>1. Sum(0, Drop(user, base))' = Sum(0, Drop(user, base))
    BY <1>0 DEF Sum, Drop
  <2>2. pc \notin Decoding /\ pc' \notin Decoding /\ pc \in Entering
    BY <1>0, <1>1 DEF Decoding, Entering
  <2> QED
    BY <1>0, <2>1, <2>2 DEF Inv, CountInv
<1> QED
  BY <1>3, <1>4, <1>5, <1>6, <1>7 DEF Inv

LEMMA InvReadZlibDict ==
  ASSUME Inv, ReadZlibDict
  PROVE  Inv'
<1> USE DEF params, input, block, over, header, hdr_locals, output, outside_header, zlib_unchanged
<1> DEFINE read == fixed_size_read(ZLIB_DICT_LEN)
<1>0. /\ pc \in {"zlib", "dict_id"} /\ block_state \in {"NEW_HDR", "ZLIB_DICT"}
      /\ crc_flag = "zlib" /\ ~ wrapper_flag /\ ret = "OK"
      /\ UNCHANGED <<params, rest, read_in, bfinal, over, output, crc_flag>>
      /\ UNCHANGED <<count, gz_hdr, hdr_locals>>
      /\ field = "none"
  BY DEF ReadZlibDict, Inv, ControlInv, HeaderInv, Entering
<1>1. /\ next_in' = read.next /\ tmp_in' = read.tmp
      /\ \/ pc' = "idle" /\ ret' = "DECOMP_OK" /\ wrapper_flag' = wrapper_flag
            /\ block_state' = "ZLIB_DICT"
         \/ read.ret = "OK" /\ pc' = "idle" /\ ret' = "NEED_DICT" /\ wrapper_flag' = TRUE
            /\ block_state' = "NEW_HDR"
         \/ read.ret = "OK" /\ pc' = "begin" /\ ret' = ret /\ wrapper_flag' = TRUE
            /\ block_state' = "NEW_HDR"
  BY DEF ReadZlibDict, ZlibLeaves
<1>2. /\ read.next \in Seq(FileUnits) /\ read.tmp \in Seq(FileUnits) /\ Len(read.tmp) <= HdrSize
      /\ read.ret = "OK" => read.tmp = <<>>
  <2>1. ZLIB_DICT_LEN \in 1 .. 3 /\ next_in \in Seq(FileUnits) /\ tmp_in \in Seq(FileUnits)
    BY DEF ZLIB_DICT_LEN, Inv, InputInv
  <2> QED
    BY <2>1, FixedReadOK
<1> HIDE DEF read
<1>3. ControlInv'
  <2>1. ret' \in Results /\ wrapper_flag' \in BOOLEAN
    <3>1. ret' \in Results
      BY <1>0, <1>1 DEF Results
    <3>2. wrapper_flag \in BOOLEAN
      BY DEF Inv, ControlInv
    <3> QED
      BY <1>1, <3>1, <3>2, Zenon
  <2>2. pc' \notin Decoding /\ Entering' = Entering /\ Decoding' = Decoding
        /\ (pc' \in Entering <=> pc' = "begin") /\ pc' \in {"idle", "begin"}
    BY <1>1 DEF Decoding, Entering
  <2>3. WithinMember' => block_state' \in BlockStates /\ block_state' \in MemberStates
    BY <1>0, <1>1 DEF BlockStates, MemberStates, WithinMember
  <2>4. /\ pc' = "begin" => WithinMember'
        /\ ~ WithinMember' => block_state' \in {"NEW_HDR", "ZLIB_DICT"}
    BY <1>0, <1>1 DEF WithinMember
  <2> QED
    BY <1>0, <1>1, <2>1, <2>2, <2>3, <2>4 DEF Inv, ControlInv
<1>4. HeaderInv'
  BY <1>0, <1>1 DEF Inv, HeaderInv, At, HeaderFields
<1>5. InputInv'
  <2>1. tmp_in' # <<>> => Half'
    BY <1>0, <1>1, <1>2 DEF Half, WithinMember
  <2> QED
    BY <1>0, <1>1, <1>2, <2>1 DEF Inv, InputInv
<1>6. BufferInv'
  BY <1>0, <1>1 DEF Inv, BufferInv, OverflowLen
<1>7. CountInv'
  <2>1. Sum(0, Drop(user, base))' = Sum(0, Drop(user, base))
    BY <1>0 DEF Sum, Drop
  <2>2. pc \notin Decoding /\ pc' \notin Decoding /\ pc \in Entering
    BY <1>0, <1>1 DEF Decoding, Entering
  <2> QED
    BY <1>0, <2>1, <2>2 DEF Inv, CountInv
<1> QED
  BY <1>3, <1>4, <1>5, <1>6, <1>7 DEF Inv

LEMMA InvReadTrailer ==
  ASSUME Inv, ReadTrailer
  PROVE  Inv'
<1> USE DEF params, input, block, over, header, hdr_locals, output
<1> DEFINE check == check_checksum([read |-> read_in, next |-> next_in], crc, total_out)
<1>0. /\ pc = "trailer" /\ pc' = "idle" /\ WithinMember /\ field = "none"
      /\ UNCHANGED <<params, rest, bfinal, count, over, output, crc_flag, header>>
      /\ next_in' = check.in.next /\ read_in' = check.in.read /\ tmp_in' = check.tmp_in
      /\ block_state' = check.block /\ ret' = Returned(check.ret)
  BY DEF ReadTrailer, Inv, ControlInv, HeaderInv
<1>1. CheckOK(check)
  <2>1. InputOK([read |-> read_in, next |-> next_in]) /\ tmp_in \in Seq(FileUnits)
    BY DEF Inv, InputInv, InputOK
  <2> QED
    BY <2>1, ChecksumOK
<1> HIDE DEF check
<1>2. block_state' \in {"CHECKSUM_CHECK", "FINISH"} /\ ret' \in Results
  BY <1>0, <1>1 DEF CheckOK, Returned, Results, Refused
<1>3. ControlInv'
  <2>1. block_state' \in MemberStates /\ WithinMember'
    BY <1>0, <1>2 DEF MemberStates, WithinMember
  <2>2. pc' \notin Entering \cup Decoding /\ Entering' = Entering /\ Decoding' = Decoding
    BY <1>0 DEF Entering, Decoding
  <2> QED
    BY <1>0, <1>2, <2>1, <2>2 DEF Inv, ControlInv
<1>4. HeaderInv'
  BY <1>0, <1>2 DEF Inv, HeaderInv, At
<1>5. InputInv'
  <2>1. tmp_in' # <<>> => Half'
    BY <1>0, <1>1 DEF CheckOK, Half, WithinMember
  <2> QED
    BY <1>0, <1>1, <1>2, <2>1 DEF Inv, InputInv, CheckOK, InputOK
<1>6. BufferInv'
  BY <1>0, <1>2 DEF Inv, BufferInv, OverflowLen
<1>7. CountInv'
  <2>1. Sum(0, Drop(user, base))' = Sum(0, Drop(user, base))
    BY <1>0 DEF Sum, Drop
  <2>2. pc \notin Decoding /\ pc' \notin Decoding /\ pc' \notin Entering
    BY <1>0 DEF Decoding, Entering
  <2> QED
    BY <1>0, <2>1, <2>2 DEF Inv, CountInv
<1> QED
  BY <1>3, <1>4, <1>5, <1>6, <1>7 DEF Inv

LEMMA InvReadHeader ==
  ASSUME Inv, NEW here, NEW after, ReadHeader(here, after),
         (here = "tmp" /\ after = "drain") \/ (here = "out" /\ after = "end")
  PROVE  Inv'
<1> USE DEF params, input, block, over, header, hdr_locals, output
<1> DEFINE hdr == read_header_stateful([read |-> read_in, next |-> next_in])
<1>0. /\ pc = here /\ block_state \in {"NEW_HDR", "HDR"} /\ WithinMember /\ field = "none"
      /\ UNCHANGED <<params, rest, over, tmp_out, processed, total_out, crc, crc_flag,
                     header, user, start_out, avail_out, base>>
      /\ read_in' = hdr.in.read /\ next_in' = hdr.in.next /\ tmp_in' = hdr.tmp_in
      /\ block_state' = hdr.block /\ bfinal' = hdr.bfinal /\ count' = hdr.len0 /\ ret' = hdr.ret
      /\ pc' \in {here, after}
  BY DEF ReadHeader, Loop, Inv, ControlInv, HeaderInv, Decoding
<1>1. HeaderReadOK(hdr)
  <2>1. InputOK([read |-> read_in, next |-> next_in]) /\ tmp_in \in Seq(FileUnits)
        /\ Len(tmp_in) <= HdrSize
    BY DEF Inv, InputInv, InputOK
  <2>2. block_state # "HDR" => tmp_in = <<>>
    BY <1>0 DEF Inv, InputInv, Half
  <2>3. count \in Nat /\ bfinal \in 0 .. 1
    BY DEF Inv, ControlInv, HeaderInv
  <2> QED
    BY <1>0, <2>1, <2>2, <2>3, BlockHeaderOK
<1> HIDE DEF hdr
<1>2. pc \in Decoding /\ pc' \in Decoding /\ pc' \notin Entering
      /\ pc' \notin {"idle", "header", "wrapper", "zlib", "dict_id", "trailer", "begin"}
  BY <1>0 DEF Decoding, Entering
<1>3. ControlInv'
  <2>1. block_state' \in MemberStates /\ block_state' \in BlockStates /\ WithinMember'
    BY <1>0, <1>1 DEF HeaderReadOK, MemberStates, WithinMember
  <2>2. ret' \in Results /\ bfinal' \in 0 .. 1
    BY <1>0, <1>1 DEF HeaderReadOK, Results, Refused, Errors
  <2> QED
    BY <1>0, <1>2, <2>1, <2>2 DEF Inv, ControlInv
<1>4. HeaderInv'
  BY <1>0, <1>1, <1>2 DEF Inv, HeaderInv, At, HeaderReadOK, BlockStates, HeaderFields
<1>5. InputInv'
  <2>1. tmp_in' # <<>> => Half'
    BY <1>0, <1>1 DEF HeaderReadOK, Half, WithinMember
  <2>2. block_state' \notin {"GZIP_EXTRA", "GZIP_NAME", "GZIP_COMMENT"}
    BY <1>0, <1>1 DEF HeaderReadOK, BlockStates
  <2> QED
    BY <1>0, <1>1, <2>1, <2>2 DEF Inv, InputInv, HeaderReadOK, InputOK
<1>6. BufferInv'
  <2>1. OverflowLen = 0 /\ OverflowLen' = OverflowLen
    BY <1>0 DEF Inv, BufferInv, OverflowLen
  <2>2. pc' = "tmp" => pc = "tmp"
    BY <1>0
  <2>3. pc' = "out" => pc = "out"
    BY <1>0
  <2> QED
    BY <1>0, <2>1, <2>2, <2>3 DEF Inv, BufferInv
<1>7. CountInv'
  <2>1. Sum(0, SubSeq(user, base + 1, start_out))' = Sum(0, SubSeq(user, base + 1, start_out))
    BY <1>0 DEF Sum
  <2> QED
    BY <1>0, <1>2, <2>1 DEF Inv, CountInv
<1> QED
  BY <1>3, <1>4, <1>5, <1>6, <1>7 DEF Inv

LEMMA DecodersOK ==
  ASSUME Inv, NEW history, history \in Seq(Nat), NEW space, space \in Nat
  PROVE  DecodedOK(Decoded(history, space), space)
<1> DEFINE in == [read |-> read_in, next |-> next_in]
<1>1. InputOK(in)
  BY DEF Inv, InputInv, InputOK
<1>2. count \in Nat /\ pack \in Packs
  BY DEF Inv, ControlInv, HeaderInv
<1>3. Decoded(history, space) = IF block_state = "TYPE0" THEN decode_literal_block(in, space)
                                ELSE decode_huffman_code(in, history, space)
  BY DEF Decoded
<1> HIDE DEF in
<1> QED
  BY <1>1, <1>2, <1>3, CodeOK, LiteralOK

(* What both decoding loops do, whatever the buffer.                       *)
LEMMA DecodeOK ==
  ASSUME Inv, NEW dec, NEW space, DecodedOK(dec, space),
         NEW here, NEW after, Decode(dec, here, after),
         (here = "tmp" /\ after = "drain") \/ (here = "out" /\ after = "end")
  PROVE  /\ ControlInv' /\ HeaderInv' /\ InputInv'
         /\ pc = here /\ pc' \in {here, after} /\ (ret' # "OK" => pc' = after)
         /\ block_state \in {"TYPE0", "CODED"}
         /\ OverflowLen = 0 /\ OverflowLen' = Len(dec.lits) + dec.copy.len
<1> USE DEF params, input, block, over, header, hdr_locals, output
<1>0. /\ pc = here /\ block_state \in {"TYPE0", "CODED"} /\ WithinMember /\ field = "none"
      /\ UNCHANGED <<params, rest, tmp_in, bfinal, processed, crc, crc_flag, header,
                     start_out, base>>
      /\ read_in' = dec.in.read /\ next_in' = dec.in.next
      /\ write_overflow' = dec.lits /\ copy_overflow' = dec.copy
      /\ block_state' = dec.block /\ count' = dec.len0 /\ ret' = dec.ret
      /\ pc' \in {here, after} /\ (ret' # "OK" => pc' = after)
  BY DEF Decode, Loop, Inv, ControlInv, HeaderInv, Decoding
<1>1. DecodedOK(dec, space)
  OBVIOUS
<1>2. pc \in Decoding /\ pc' \in Decoding /\ pc' \notin Entering
      /\ pc' \notin {"idle", "header", "wrapper", "zlib", "dict_id", "trailer", "begin"}
  BY <1>0 DEF Decoding, Entering
<1>3. ControlInv'
  <2>1. block_state' \in MemberStates /\ block_state' \in BlockStates /\ WithinMember'
    BY <1>0, <1>1 DEF DecodedOK, MemberStates, WithinMember
  <2>2. ret' \in Results
    BY <1>0, <1>1 DEF DecodedOK, Results, Refused
  <2> QED
    BY <1>0, <1>2, <2>1, <2>2 DEF Inv, ControlInv
<1>4. HeaderInv'
  BY <1>0, <1>1, <1>2 DEF Inv, HeaderInv, At, DecodedOK, BlockStates, HeaderFields
<1>5. InputInv'
  <2>1. tmp_in = <<>>
    BY <1>0 DEF Inv, InputInv, Half
  <2> QED
    BY <1>0, <1>1, <2>1 DEF Inv, InputInv, DecodedOK, InputOK
<1>6. OverflowLen = 0 /\ OverflowLen' = Len(dec.lits) + dec.copy.len
  BY <1>0 DEF Inv, BufferInv, OverflowLen
<1> QED
  BY <1>0, <1>1, <1>3, <1>4, <1>5, <1>6

LEMMA Sizes ==
  /\ 2 * Hist \in Nat /\ Hist \in Nat /\ Hist <= 2 * Hist /\ MostOverflow \in Nat
  /\ 2 * Hist + MostOverflow <= TmpSize - StoreU32
  /\ 2 * Hist <= TmpSize - StoreU32 /\ TmpSize - StoreU32 <= TmpSize
  /\ TmpSize \in Nat /\ StoreU32 \in Nat /\ TmpSize - StoreU32 \in Nat
BY InflateAssumption DEF TmpSize, StoreU32, MostOverflow, MaxLits

LEMMA MoreOut ==
  ASSUME NEW u \in Nat, NEW b \in Nat, NEW t \in Nat, NEW p \in Nat, NEW n \in Nat,
         NEW total \in Nat, total = u - b + (t - p)
  PROVE  /\ total + n \in Nat
         /\ total + n = u - b + ((t + n) - p) /\ total + n = (u + n) - b + (t - p)
OBVIOUS

LEMMA InvDecodeTmp ==
  ASSUME Inv, DecodeTmp
  PROVE  Inv'
<1> USE DEF params, input, block, over, header, hdr_locals, output
<1>9. tmp_out \in Seq(Nat) /\ Len(tmp_out) \in Nat /\ 2 * Hist - Len(tmp_out) \in Nat
  BY Sizes DEF DecodeTmp, Decode, Inv, BufferInv
<1> SUFFICES ASSUME NEW space, space \in Nat, space = 2 * Hist - Len(tmp_out)
             PROVE  Inv'
  BY <1>9
<1> SUFFICES ASSUME NEW dec, dec = Decoded(tmp_out, space), Decode(dec, "tmp", "drain"),
                    tmp_out' = tmp_out \o dec.out, UNCHANGED <<user, avail_out>>
             PROVE  Inv'
  BY DEF DecodeTmp, Decode
<1>0. /\ Decode(dec, "tmp", "drain") /\ tmp_out' = tmp_out \o dec.out
      /\ UNCHANGED <<user, avail_out>>
  OBVIOUS
<1>1. tmp_out \in Seq(Nat) /\ space \in Nat /\ Len(tmp_out) \in Nat /\ Len(tmp_out) + space = 2 * Hist
  BY <1>9, Sizes
<1>2. /\ ControlInv' /\ HeaderInv' /\ InputInv' /\ DecodedOK(dec, space)
      /\ pc = "tmp" /\ pc' \in {"tmp", "drain"} /\ (ret' # "OK" => pc' = "drain")
      /\ block_state \in {"TYPE0", "CODED"}
      /\ OverflowLen = 0 /\ OverflowLen' = Len(dec.lits) + dec.copy.len
  <2>1. DecodedOK(dec, space)
    BY <1>1, DecodersOK
  <2> QED
    BY <1>0, <2>1, DecodeOK
<1>3. /\ UNCHANGED <<params, rest, tmp_in, bfinal, processed, crc, crc_flag, header,
                     start_out, base>>
      /\ write_overflow' = dec.lits /\ copy_overflow' = dec.copy /\ ret' = dec.ret
      /\ total_out' = total_out + Len(dec.out)
  BY <1>0 DEF Decode
<1>4. /\ dec.out \in Seq(Nat) /\ Len(dec.out) <= space /\ Len(dec.out) \in Nat
      /\ dec.lits \in Seq(Nat) /\ dec.copy \in [len : 0 .. MaxMatch, dist : 0 .. Hist]
      /\ OverflowLen' <= MostOverflow /\ (OverflowLen' # 0 => ret' # "OK")
  BY <1>2, <1>3 DEF DecodedOK
<1>5. tmp_out' \in Seq(Nat) /\ Len(tmp_out') = Len(tmp_out) + Len(dec.out)
  BY <1>0, <1>1, <1>4, Joined
<1>6. Len(tmp_out') <= 2 * Hist /\ Len(tmp_out) <= Len(tmp_out') /\ Len(tmp_out') \in Nat
  BY <1>1, <1>4, <1>5
<1>7. BufferInv'
  <2>1. processed \in 0 .. Len(tmp_out')
    BY <1>1, <1>6 DEF Inv, BufferInv
  <2>2. Len(tmp_out') <= TmpSize /\ Len(tmp_out') <= TmpSize - StoreU32
    BY <1>6, Sizes
  <2>3. MostOverflow' = MostOverflow /\ TmpSize' = TmpSize /\ StoreU32' = StoreU32
    BY DEF MostOverflow, MaxLits, TmpSize, StoreU32
  <2>4. pc' \in {"tmp", "drain"} /\ (OverflowLen' # 0 => pc' = "drain")
    BY <1>2, <1>4
  <2> HIDE DEF params, header
  <2> QED
    BY <1>0, <1>2, <1>3, <1>4, <1>5, <1>6, <2>1, <2>2, <2>3, <2>4 DEF Inv, BufferInv
<1>8. CountInv'
  <2>1. pc \in Decoding /\ pc' \in Decoding /\ pc' \notin Entering
    BY <1>2 DEF Decoding, Entering
  <2>2. Sum(0, SubSeq(user, base + 1, start_out))' = Sum(0, SubSeq(user, base + 1, start_out))
    BY <1>0, <1>3 DEF Sum
  <2>3. /\ total_out \in Nat /\ total_out = Len(user) - base + (Len(tmp_out) - processed)
        /\ Len(user) \in Nat /\ base \in Nat /\ processed \in Nat
    BY <2>1 DEF Inv, CountInv, BufferInv
  <2>4. total_out' \in Nat /\ total_out' = Len(user) - base + (Len(tmp_out') - processed)
    <3> DEFINE n == Len(dec.out)
    <3>1. Len(tmp_out) \in Nat /\ n \in Nat
      BY <1>1, <1>4
    <3>2. total_out' = total_out + n /\ Len(tmp_out') = Len(tmp_out) + n
      BY <1>3, <1>5
    <3> HIDE DEF n
    <3>3. /\ total_out + n \in Nat
          /\ total_out + n = Len(user) - base + ((Len(tmp_out) + n) - processed)
      BY <2>3, <3>1, MoreOut
    <3> QED
      BY <3>2, <3>3
  <2> QED
    BY <1>0, <1>3, <2>1, <2>2, <2>4 DEF Inv, CountInv
<1> QED
  BY <1>2, <1>7, <1>8 DEF Inv

LEMMA InvDecodeOut ==
  ASSUME Inv, DecodeOut
  PROVE  Inv'
<1> USE DEF params, input, block, over, header, hdr_locals, output
<1> SUFFICES ASSUME NEW dec, dec = Decoded(Drop(user, start_out), avail_out),
                    Decode(dec, "out", "end"), user' = user \o dec.out,
                    avail_out' = avail_out - Len(dec.out), tmp_out' = tmp_out
             PROVE  Inv'
  BY DEF DecodeOut, Decode
<1>0. /\ Decode(dec, "out", "end") /\ user' = user \o dec.out
      /\ avail_out' = avail_out - Len(dec.out) /\ tmp_out' = tmp_out
  OBVIOUS
<1>1. /\ user \in Seq(Nat) /\ Len(user) \in Nat /\ start_out \in 0 .. Len(user)
      /\ base \in 0 .. Len(user) /\ avail_out \in Nat
  BY DEF Inv, BufferInv
<1>2. Drop(user, start_out) \in Seq(Nat)
  BY <1>1, DroppedAny
<1>3. /\ ControlInv' /\ HeaderInv' /\ InputInv' /\ DecodedOK(dec, avail_out)
      /\ pc = "out" /\ pc' \in {"out", "end"} /\ (ret' # "OK" => pc' = "end")
      /\ block_state \in {"TYPE0", "CODED"}
      /\ OverflowLen = 0 /\ OverflowLen' = Len(dec.lits) + dec.copy.len
  <2>1. DecodedOK(dec, avail_out)
    BY <1>1, <1>2, DecodersOK
  <2> QED
    BY <1>0, <2>1, DecodeOK
<1>4. /\ UNCHANGED <<params, rest, tmp_in, bfinal, processed, crc, crc_flag, header,
                     start_out, base>>
      /\ write_overflow' = dec.lits /\ copy_overflow' = dec.copy /\ ret' = dec.ret
      /\ total_out' = total_out + Len(dec.out)
  BY <1>0 DEF Decode
<1>5. /\ dec.out \in Seq(Nat) /\ Len(dec.out) <= avail_out /\ Len(dec.out) \in Nat
      /\ dec.lits \in Seq(Nat) /\ dec.copy \in [len : 0 .. MaxMatch, dist : 0 .. Hist]
      /\ OverflowLen' <= MostOverflow /\ (OverflowLen' # 0 => ret' # "OK")
  BY <1>3, <1>4 DEF DecodedOK
<1>6. user' \in Seq(Nat) /\ Len(user') = Len(user) + Len(dec.out)
  BY <1>0, <1>1, <1>5, Joined
<1>7. BufferInv'
  <2>1. start_out \in 0 .. Len(user') /\ base \in 0 .. Len(user') /\ avail_out' \in Nat
    BY <1>0, <1>1, <1>5, <1>6, SMTT(60)
  <2>2. processed = Len(tmp_out) /\ Len(tmp_out) <= TmpSize - StoreU32
    BY <1>3 DEF Inv, BufferInv
  <2>3. MostOverflow' = MostOverflow /\ TmpSize' = TmpSize /\ StoreU32' = StoreU32
    BY DEF MostOverflow, MaxLits, TmpSize, StoreU32
  <2>4. pc' \in {"out", "end"} /\ (OverflowLen' # 0 => pc' = "end")
    BY <1>3, <1>5
  <2> HIDE DEF params, header
  <2> QED
    BY <1>0, <1>3, <1>4, <1>5, <1>6, <2>1, <2>2, <2>3, <2>4 DEF Inv, BufferInv
<1>8. CountInv'
  <2>1. pc \in Decoding /\ pc' \in Decoding /\ pc' \notin Entering
    BY <1>3 DEF Decoding, Entering
  <2>2. /\ total_out \in Nat /\ total_out = Len(user) - base + (Len(tmp_out) - processed)
        /\ processed \in Nat /\ base <= start_out
        /\ crc = Sum(0, SubSeq(user, base + 1, start_out)) /\ Len(tmp_out) \in Nat
    BY <2>1 DEF Inv, CountInv, BufferInv
  <2>3. SubSeq(user', base + 1, start_out) = SubSeq(user, base + 1, start_out)
    <3>1. base \in Nat /\ start_out \in Nat /\ start_out <= Len(user)
      BY <1>1
    <3>2. user \in Seq(Nat) /\ dec.out \in Seq(Nat) /\ base <= start_out
      BY <1>1, <1>5, <2>2
    <3>3. SubSeq(user \o dec.out, base + 1, start_out) = SubSeq(user, base + 1, start_out)
      BY <3>1, <3>2, SameStart
    <3> QED
      BY <1>0, <3>3
  <2>4. Sum(0, SubSeq(user, base + 1, start_out))' = Sum(0, SubSeq(user, base + 1, start_out))
    BY <1>4, <2>3 DEF Sum
  <2>5. total_out' \in Nat /\ total_out' = Len(user') - base + (Len(tmp_out) - processed)
    <3> DEFINE n == Len(dec.out)
    <3>1. base \in Nat /\ n \in Nat
      BY <1>1, <1>5
    <3>2. total_out' = total_out + n /\ Len(user') = Len(user) + n
      BY <1>4, <1>6
    <3> HIDE DEF n
    <3>3. /\ total_out + n \in Nat
          /\ total_out + n = (Len(user) + n) - base + (Len(tmp_out) - processed)
      BY <1>1, <2>2, <3>1, MoreOut
    <3> QED
      BY <3>2, <3>3
  <2> QED
    BY <1>0, <1>4, <2>1, <2>2, <2>4, <2>5 DEF Inv, CountInv
<1> QED
  BY <1>3, <1>7, <1>8 DEF Inv

LEMMA CrcOfAll ==
  ASSUME NEW u \in Seq(Nat), NEW b \in Nat, NEW s \in Nat, b <= s, s <= Len(u)
  PROVE  Sum(Sum(0, SubSeq(u, b + 1, s)), Drop(u, s)) = Sum(0, Drop(u, b))
<1>1. /\ SubSeq(u, b + 1, s) \in Seq(Nat) /\ Drop(u, s) \in Seq(Nat)
      /\ SubSeq(u, b + 1, s) \o Drop(u, s) = Drop(u, b)
  BY SplitDrop
<1> DEFINE first == SubSeq(u, b + 1, s)
           then  == Drop(u, s)
           all   == Drop(u, b)
<1>2. first \in Seq(Nat) /\ then \in Seq(Nat) /\ first \o then = all
  BY <1>1
<1> HIDE DEF first, then, all
<1>3. Sum(Sum(0, first), then) = Sum(0, first \o then)
  BY <1>2, SumTwice
<1> QED
  BY <1>2, <1>3 DEF first, then, all

LEMMA InvDrain ==
  ASSUME Inv, Drain
  PROVE  Inv'
<1> USE DEF params, input, block, over, header, hdr_locals, output
<1> DEFINE buffer == Flushed(tmp_out)
           copy   == Least(Len(buffer) - processed, avail_out)
           left   == Len(buffer) - processed - copy
           given  == SubSeq(buffer, processed + 1, processed + copy)
<1>0. /\ pc = "drain" /\ tmp_out' = buffer /\ processed' = processed + copy
      /\ user' = user \o given /\ avail_out' = avail_out - copy
      /\ write_overflow' = <<>> /\ copy_overflow' = NoCopy
      /\ UNCHANGED <<params, rest, input, block, crc_flag, header, start_out, base>>
      /\ \/ /\ ret \in Errors /\ pc' = "idle" /\ total_out' = total_out + OverflowLen - left
            /\ crc' = Sum(crc, Drop(user', start_out)) /\ ret' = ret
         \/ /\ pc' = "out" /\ left = 0 /\ block_state # "INPUT_DONE" /\ ret' = "OK"
            /\ total_out' = total_out + OverflowLen /\ crc' = crc
         \/ /\ pc' = "end" /\ ret' = ret
            /\ total_out' = total_out + OverflowLen /\ crc' = crc
  BY DEF Drain
<1>1. /\ tmp_out \in Seq(Nat) /\ user \in Seq(Nat) /\ Len(tmp_out) \in Nat /\ Len(user) \in Nat
      /\ processed \in 0 .. Len(tmp_out) /\ avail_out \in Nat
      /\ start_out \in 0 .. Len(user) /\ base \in 0 .. Len(user) /\ OverflowLen <= MostOverflow
      /\ write_overflow \in Seq(Nat) /\ copy_overflow \in [len : 0 .. MaxMatch, dist : 0 .. Hist]
  BY DEF Inv, BufferInv
<1>2. /\ buffer \in Seq(Nat) /\ Len(buffer) = Len(tmp_out) + OverflowLen
      /\ OverflowLen \in Nat /\ Len(buffer) \in Nat
  BY <1>1, FlushedOK
<1> HIDE DEF buffer
<1>3. /\ copy \in Nat /\ copy <= Len(buffer) - processed /\ copy <= avail_out
      /\ processed + copy \in 0 .. Len(buffer) /\ avail_out - copy \in Nat /\ left \in Nat
      /\ left = Len(buffer) - (processed + copy)
  <2>1. Len(buffer) - processed \in Nat
    BY <1>1, <1>2
  <2>2. copy \in Nat /\ copy <= Len(buffer) - processed /\ copy <= avail_out
    BY <1>1, <2>1, LeastOf
  <2> HIDE DEF copy
  <2> QED
    BY <1>1, <1>2, <2>1, <2>2
<1> HIDE DEF copy, left
<1>4. given \in Seq(Nat) /\ Len(given) = copy
  BY <1>1, <1>2, <1>3, SMTT(60)
<1> HIDE DEF given
<1>5. user' \in Seq(Nat) /\ Len(user') = Len(user) + copy /\ Len(user') \in Nat
  <2>1. user \o given \in Seq(Nat) /\ Len(user \o given) = Len(user) + Len(given)
    BY <1>1, <1>4, Joined
  <2> QED
    BY <1>0, <1>1, <1>3, <1>4, <2>1
<1>6. /\ pc \in Decoding /\ pc' \in {"idle", "out", "end"} /\ pc' \notin Entering
      /\ pc' \in Decoding <=> pc' # "idle"
  BY <1>0 DEF Decoding, Entering
<1>7. WithinMember /\ block_state \in BlockStates
  BY <1>6 DEF Inv, ControlInv
<1>8. ControlInv'
  <2>1. ret' \in Results
    BY <1>0 DEF Inv, ControlInv, Results
  <2>2. block_state' \in MemberStates /\ block_state' \in BlockStates /\ WithinMember'
    BY <1>0, <1>7 DEF MemberStates, WithinMember
  <2> QED
    BY <1>0, <1>6, <2>1, <2>2 DEF Inv, ControlInv
<1>9. HeaderInv'
  <2>1. block_state' \notin {"GZIP_EXTRA", "GZIP_NAME"}
    BY <1>0, <1>7 DEF BlockStates
  <2> QED
    BY <1>0, <1>6, <2>1 DEF Inv, HeaderInv, At, HeaderFields
<1>10. InputInv'
  <2>1. block_state' \notin {"GZIP_EXTRA", "GZIP_NAME", "GZIP_COMMENT"}
    BY <1>0, <1>7 DEF BlockStates
  <2> QED
    BY <1>0, <2>1 DEF Inv, InputInv, Half, WithinMember
<1>11. BufferInv'
  <2>1. OverflowLen' = 0 /\ NoCopy \in [len : 0 .. MaxMatch, dist : 0 .. Hist]
    BY <1>0, InflateAssumption DEF OverflowLen, NoCopy
  <2>2. Len(buffer) <= TmpSize /\ (block_state # "INPUT_DONE" => Len(buffer) <= TmpSize - StoreU32)
    <3>1. CASE OverflowLen = 0
      <4>1. Len(buffer) = Len(tmp_out)
        BY <1>1, <1>2, <3>1
      <4> QED
        BY <1>7, <4>1 DEF Inv, BufferInv, BlockStates
    <3>2. CASE OverflowLen # 0
      <4>1. Len(tmp_out) <= 2 * Hist
        BY <1>0, <3>2 DEF Inv, BufferInv
      <4> QED
        BY <1>1, <1>2, <4>1, Sizes
    <3> QED
      BY <3>1, <3>2
  <2>3. start_out \in 0 .. Len(user') /\ base \in 0 .. Len(user')
    BY <1>1, <1>3, <1>5
  <2>4. pc' = "out" => processed + copy = Len(buffer) /\ block_state # "INPUT_DONE"
    BY <1>0, <1>1, <1>2, <1>3
  <2>5. MostOverflow' = MostOverflow /\ TmpSize' = TmpSize /\ StoreU32' = StoreU32
    BY DEF MostOverflow, MaxLits, TmpSize, StoreU32
  <2>6. <<>> \in Seq(Nat) /\ 0 <= MostOverflow
    BY Sizes
  <2>7. block_state' = block_state /\ start_out' = start_out /\ base' = base
    BY <1>0
  <2>8. tmp_out' = buffer /\ processed' = processed + copy /\ avail_out' = avail_out - copy
        /\ write_overflow' = <<>> /\ copy_overflow' = NoCopy
    BY <1>0
  <2>9. block_state \notin {"CHECKSUM_CHECK", "FINISH"}
    BY <1>7 DEF BlockStates
  <2> QED
    BY <1>2, <1>3, <1>5, <1>6, <2>1, <2>2, <2>3, <2>4, <2>5, <2>6, <2>7, <2>8, <2>9 DEF BufferInv
<1>12. CountInv'
  <2>1. /\ total_out \in Nat /\ crc \in Nat /\ base <= start_out
        /\ total_out = Len(user) - base + (Len(tmp_out) - processed)
        /\ crc = Sum(0, SubSeq(user, base + 1, start_out))
    BY <1>6 DEF Inv, CountInv
  <2>2. base \in Nat /\ start_out \in Nat /\ start_out <= Len(user) /\ start_out <= Len(user')
    BY <1>1, <1>3, <1>5
  <2>3. SubSeq(user', base + 1, start_out) = SubSeq(user, base + 1, start_out)
    BY <1>0, <1>1, <1>4, <2>1, <2>2, SameStart, SMTT(60)
  <2>4. Sum(0, SubSeq(user, base + 1, start_out))' = Sum(0, SubSeq(user', base + 1, start_out))
    BY <1>0 DEF Sum
  <2>5. processed \in Nat /\ processed <= Len(tmp_out)
    BY <1>1
  <2>6. start_out' = start_out /\ base' = base
    BY <1>0
  <2>7. CASE pc' = "idle"
    <3>1. total_out' = total_out + OverflowLen - left /\ crc' = Sum(crc, Drop(user', start_out))
      BY <1>0, <2>7
    <3>2. total_out' = Len(user') - base
      BY <1>1, <1>2, <1>3, <1>5, <2>1, <2>2, <2>5, <3>1
    <3>3. crc' = Sum(0, Drop(user', base))
      <4>1. user' \in Seq(Nat) /\ base \in Nat /\ start_out \in Nat /\ base <= start_out
            /\ start_out <= Len(user')
        BY <1>5, <2>1, <2>2
      <4>2. Sum(Sum(0, SubSeq(user', base + 1, start_out)), Drop(user', start_out))
              = Sum(0, Drop(user', base))
        BY <4>1, CrcOfAll
      <4> QED
        BY <2>1, <2>3, <3>1, <4>2
    <3>4. Sum(0, Drop(user, base))' = Sum(0, Drop(user', base))
      BY <1>0 DEF Sum, Drop
    <3>5. total_out' \in Nat
      BY <1>1, <1>5, <2>1, <2>2, <3>2, SMTT(60)
    <3>6. crc' \in Nat
      <4>1. Drop(user', start_out) \in Seq(Nat)
        BY <1>5, <2>2, DroppedAny
      <4> QED
        BY <2>1, <3>1, <4>1, SumType
    <3> QED
      BY <1>6, <2>6, <2>7, <3>2, <3>3, <3>4, <3>5, <3>6 DEF CountInv
  <2>8. CASE pc' # "idle"
    <3>1. total_out' = total_out + OverflowLen /\ crc' = crc
      BY <1>0, <2>8
    <3>2. total_out' = Len(user') - base + (Len(buffer) - (processed + copy)) /\ total_out' \in Nat
      BY <1>1, <1>2, <1>3, <1>5, <2>1, <2>2, <2>5, <3>1
    <3> QED
      BY <1>0, <1>6, <2>1, <2>3, <2>4, <2>6, <2>8, <3>1, <3>2 DEF CountInv
  <2> QED
    BY <2>7, <2>8
<1> QED
  BY <1>8, <1>9, <1>10, <1>11, <1>12 DEF Inv

(* What a call leaves in tmp_out_buffer has room for what overflows.       *)
LEMMA KeptOK ==
  ASSUME Inv, pc = "end"
  PROVE  /\ Kept.buffer \in Seq(Nat) /\ Len(Kept.buffer) \in Nat
         /\ Kept.processed \in 0 .. Len(Kept.buffer)
         /\ Len(Kept.buffer) - Kept.processed = Len(tmp_out) - processed
         /\ Len(Kept.buffer) + OverflowLen <= TmpSize
         /\ block_state # "INPUT_DONE" => Len(Kept.buffer) + OverflowLen <= TmpSize - StoreU32
         /\ OverflowLen # 0 => Len(Kept.buffer) <= TmpSize - StoreU32
<1>1. /\ tmp_out \in Seq(Nat) /\ user \in Seq(Nat) /\ Len(tmp_out) \in Nat /\ Len(user) \in Nat
      /\ processed \in 0 .. Len(tmp_out) /\ start_out \in 0 .. Len(user)
      /\ OverflowLen <= MostOverflow
      /\ write_overflow \in Seq(Nat) /\ copy_overflow \in [len : 0 .. MaxMatch, dist : 0 .. Hist]
      /\ Len(tmp_out) <= TmpSize
      /\ OverflowLen # 0 => processed = Len(tmp_out) /\ Len(tmp_out) <= TmpSize - StoreU32
  BY DEF Inv, BufferInv
<1>2. OverflowLen \in Nat
  BY <1>1, FlushedOK
<1>3. block_state # "INPUT_DONE" => Len(tmp_out) <= TmpSize - StoreU32
  BY DEF Inv, BufferInv, ControlInv, Decoding, BlockStates
<1>4. Hist + OverflowLen <= TmpSize - StoreU32
  BY <1>1, <1>2, Sizes
<1>5. CASE Kept = [buffer |-> tmp_out, processed |-> processed]
           /\ ((block_state = "INPUT_DONE" /\ OverflowLen + Len(tmp_out) <= TmpSize) \/ processed < Hist)
  <2>1. Kept.buffer = tmp_out /\ Kept.processed = processed
    BY <1>5
  <2>2. CASE OverflowLen = 0
    BY <1>1, <1>3, <2>1, <2>2
  <2>3. CASE OverflowLen # 0 /\ processed < Hist
    BY <1>1, <1>2, <1>4, <2>1, <2>3, Sizes
  <2>4. CASE OverflowLen # 0 /\ ~ (processed < Hist)
    BY <1>1, <1>2, <1>5, <2>1, <2>4, Sizes
  <2> QED
    BY <2>2, <2>3, <2>4
<1>6. CASE Kept = [buffer |-> Drop(Produced, Len(Produced) - Hist), processed |-> Hist] /\ FromUser
  <2>1. Produced \in Seq(Nat)
    BY <1>1, DroppedAny DEF Produced
  <2>2. Len(Produced) - Hist \in Nat /\ Len(Produced) - Hist <= Len(Produced)
    BY <1>6, <2>1, Sizes DEF FromUser
  <2> DEFINE kept == Drop(Produced, Len(Produced) - Hist)
  <2>3. kept \in Seq(Nat) /\ Len(kept) = Len(Produced) - (Len(Produced) - Hist)
    BY <2>1, <2>2, Dropped
  <2>4. Len(kept) = Hist
    BY <2>1, <2>3, Sizes
  <2>5. Kept.buffer = kept /\ Kept.processed = Hist
    BY <1>6
  <2>6. processed = Len(tmp_out)
    BY <1>6 DEF FromUser
  <2> HIDE DEF kept
  <2> QED
    BY <1>1, <1>2, <1>4, <2>3, <2>4, <2>5, <2>6, Sizes
<1>7. CASE Kept = [buffer |-> Drop(tmp_out, Shift), processed |-> processed - Shift] /\ Shifts
  <2>1. Len(tmp_out) - Hist \in Nat /\ processed \in Nat
    BY <1>1, <1>7, Sizes DEF Shifts
  <2>2. Shift \in Nat /\ Shift <= processed /\ Shift <= Len(tmp_out) - Hist
        /\ (Shift = Len(tmp_out) - Hist \/ Shift = processed)
    BY <2>1, LeastOf DEF Shift
  <2> DEFINE kept == Drop(tmp_out, Shift)
  <2>3. kept \in Seq(Nat) /\ Len(kept) = Len(tmp_out) - Shift
    <3>1. Shift <= Len(tmp_out)
      BY <1>1, <2>2
    <3> QED
      BY <1>1, <2>2, <3>1, Dropped
  <2>4. Kept.buffer = kept /\ Kept.processed = processed - Shift
    BY <1>7
  <2> HIDE DEF kept
  <2>5. /\ Len(kept) \in Nat /\ processed - Shift \in 0 .. Len(kept) /\ Len(kept) <= Len(tmp_out)
        /\ Len(kept) - (processed - Shift) = Len(tmp_out) - processed
    BY <1>1, <2>1, <2>2, <2>3, SMTT(60)
  <2>6. CASE OverflowLen = 0
    BY <1>1, <1>3, <2>3, <2>4, <2>5, <2>6, Sizes, SMTT(60)
  <2>7. CASE OverflowLen # 0
    <3>1. Shift = Len(tmp_out) - Hist
      BY <1>1, <2>1, <2>2, <2>7, Sizes
    <3>2. Len(kept) = Hist
      BY <1>1, <2>3, <3>1, Sizes
    <3> QED
      BY <1>2, <1>4, <2>3, <2>4, <2>5, <3>2, Sizes
  <2> QED
    BY <2>6, <2>7
<1>8. /\ Shifts \/ processed < Hist
  BY <1>1, Sizes DEF Shifts
<1> QED
  BY <1>5, <1>6, <1>7, <1>8 DEF Kept

LEMMA InvEnd ==
  ASSUME Inv, End
  PROVE  Inv'
<1> USE DEF params, input, block, over, header, hdr_locals, output
<1> DEFINE buffer == Flushed(Kept.buffer)
           left   == Len(buffer) - Kept.processed
           sum    == Sum(crc, Produced)
           total  == total_out + OverflowLen
           check  == check_checksum([read |-> read_in, next |-> next_in], sum, total)
<1>0. /\ pc = "end" /\ pc' = "idle" /\ tmp_out' = buffer /\ processed' = Kept.processed
      /\ write_overflow' = <<>> /\ copy_overflow' = NoCopy
      /\ crc' = sum /\ total_out' = total - left
      /\ UNCHANGED <<params, rest, bfinal, count, crc_flag, header, user,
                     start_out, avail_out, base>>
      /\ \/ /\ block_state = "INPUT_DONE"
            /\ next_in' = check.in.next /\ read_in' = check.in.read /\ tmp_in' = check.tmp_in
            /\ block_state' = check.block /\ ret' = Returned(check.ret)
         \/ /\ block_state' = "FINISH" /\ block_state = "INPUT_DONE" /\ ret' = Returned(ret)
            /\ UNCHANGED input
         \/ block_state' = block_state /\ ret' = Returned(ret) /\ UNCHANGED input
  BY DEF End
<1>1. CheckOK(check)
  <2>1. InputOK([read |-> read_in, next |-> next_in]) /\ tmp_in \in Seq(FileUnits)
    BY DEF Inv, InputInv, InputOK
  <2> QED
    BY <2>1, ChecksumOK
<1> HIDE DEF check
<1>2. /\ pc \in Decoding /\ pc' \notin Entering \cup Decoding
      /\ Entering' = Entering /\ Decoding' = Decoding
  BY <1>0 DEF Entering, Decoding
<1>3. WithinMember /\ block_state \in BlockStates /\ ret \in Results
  BY <1>2 DEF Inv, ControlInv
<1>4. block_state' \in BlockStates \cup {"CHECKSUM_CHECK", "FINISH"}
  BY <1>0, <1>1, <1>3 DEF CheckOK
<1>5. ret' \in Results
  BY <1>0, <1>1, <1>3 DEF CheckOK, Results, Returned, Refused
<1>6. ControlInv'
  <2>1. block_state' \in MemberStates /\ WithinMember'
    BY <1>0, <1>3, <1>4 DEF MemberStates, WithinMember
  <2> QED
    BY <1>0, <1>2, <1>5, <2>1 DEF Inv, ControlInv
<1>7. HeaderInv'
  <2>1. block_state' \notin {"GZIP_EXTRA", "GZIP_NAME"}
    BY <1>4 DEF BlockStates
  <2>2. field = "none"
    BY <1>0 DEF Inv, HeaderInv
  <2> QED
    BY <1>0, <2>1, <2>2 DEF Inv, HeaderInv, At, HeaderFields
<1>8. InputInv'
  <2>1. block_state' \notin {"GZIP_EXTRA", "GZIP_NAME", "GZIP_COMMENT"}
    BY <1>4 DEF BlockStates
  <2>2. /\ read_in' \in Seq(FileUnits) /\ next_in' \in Seq(FileUnits) /\ Len(read_in') <= RegSize
        /\ tmp_in' \in Seq(FileUnits) /\ Len(tmp_in') <= HdrSize
    BY <1>0, <1>1 DEF Inv, InputInv, CheckOK, InputOK
  <2>3. tmp_in' # <<>> => Half'
    <3>1. block_state = "INPUT_DONE" => tmp_in = <<>>
      BY <1>3 DEF Inv, InputInv, Half
    <3>2. WithinMember'
      BY <1>0, <1>3 DEF WithinMember
    <3>3. tmp_in' # <<>> => block_state' \in {"HDR", "CHECKSUM_CHECK"}
      BY <1>0, <1>1, <1>3, <3>1 DEF CheckOK, Inv, InputInv, Half
    <3> QED
      BY <3>2, <3>3 DEF Half
  <2>4. field' = "none" /\ rest' = rest
    BY <1>0 DEF Inv, HeaderInv
  <2> QED
    BY <2>1, <2>2, <2>3, <2>4 DEF Inv, InputInv
<1>9. /\ Kept.buffer \in Seq(Nat) /\ Len(Kept.buffer) \in Nat
      /\ Kept.processed \in 0 .. Len(Kept.buffer)
      /\ Len(Kept.buffer) - Kept.processed = Len(tmp_out) - processed
      /\ Len(Kept.buffer) + OverflowLen <= TmpSize
      /\ block_state # "INPUT_DONE" => Len(Kept.buffer) + OverflowLen <= TmpSize - StoreU32
  BY <1>0, KeptOK
<1>10. buffer \in Seq(Nat) /\ Len(buffer) = Len(Kept.buffer) + OverflowLen /\ OverflowLen \in Nat
  <2>1. write_overflow \in Seq(Nat) /\ copy_overflow \in [len : 0 .. MaxMatch, dist : 0 .. Hist]
    BY DEF Inv, BufferInv
  <2> QED
    BY <1>9, <2>1, FlushedOK
<1> HIDE DEF buffer
<1> DEFINE size == Len(Kept.buffer)
           out  == Kept.processed
<1>11. /\ size \in Nat /\ out \in 0 .. size /\ size - out = Len(tmp_out) - processed
       /\ Len(buffer) = size + OverflowLen /\ size + OverflowLen <= TmpSize
       /\ block_state # "INPUT_DONE" => size + OverflowLen <= TmpSize - StoreU32
       /\ processed' = out /\ left = Len(buffer) - out
  BY <1>0, <1>9, <1>10
<1> HIDE DEF size, out, left
<1>12. BufferInv'
  <2>1. OverflowLen' = 0 /\ NoCopy \in [len : 0 .. MaxMatch, dist : 0 .. Hist]
    BY <1>0, InflateAssumption DEF OverflowLen, NoCopy
  <2>2. out \in 0 .. Len(buffer) /\ Len(buffer) <= TmpSize
    BY <1>10, <1>11
  <2>3. block_state' \notin {"INPUT_DONE", "CHECKSUM_CHECK", "FINISH"} => block_state # "INPUT_DONE"
    BY <1>0, <1>1 DEF CheckOK
  <2>4. block_state # "INPUT_DONE" => Len(buffer) <= TmpSize - StoreU32
    BY <1>10, <1>11
  <2>5. /\ user' = user /\ start_out' = start_out /\ base' = base /\ avail_out' = avail_out
        /\ tmp_out' = buffer /\ processed' = out /\ write_overflow' = <<>>
        /\ copy_overflow' = NoCopy /\ pc' = "idle"
    BY <1>0, <1>11
  <2>6. MostOverflow' = MostOverflow /\ TmpSize' = TmpSize /\ StoreU32' = StoreU32
        /\ <<>> \in Seq(Nat) /\ 0 <= MostOverflow
    BY Sizes DEF MostOverflow, MaxLits, TmpSize, StoreU32
  <2>7. /\ user \in Seq(Nat) /\ avail_out \in Nat
        /\ start_out \in 0 .. Len(user) /\ base \in 0 .. Len(user)
    BY DEF Inv, BufferInv
  <2> QED
    BY <1>10, <2>1, <2>2, <2>3, <2>4, <2>5, <2>6, <2>7 DEF BufferInv
<1>13. CountInv'
  <2>1. /\ total_out \in Nat /\ crc \in Nat /\ base <= start_out
        /\ total_out = Len(user) - base + (Len(tmp_out) - processed)
        /\ crc = Sum(0, SubSeq(user, base + 1, start_out))
    BY <1>2 DEF Inv, CountInv
  <2>2. /\ user \in Seq(Nat) /\ base \in Nat /\ start_out \in Nat /\ start_out <= Len(user)
        /\ Len(user) \in Nat /\ base <= Len(user)
    BY DEF Inv, BufferInv
  <2>3. sum = Sum(0, Drop(user, base))
    BY <2>1, <2>2, CrcOfAll DEF Produced
  <2>4. sum \in Nat
    <3>1. Produced \in Seq(Nat)
      BY <2>2, DroppedAny DEF Produced
    <3> QED
      BY <2>1, <3>1, SumType
  <2>5. Sum(0, Drop(user, base))' = Sum(0, Drop(user, base))
    BY <1>0 DEF Sum, Drop
  <2>6. total - left = Len(user) - base
    <3>1. left = (Len(tmp_out) - processed) + OverflowLen
      BY <1>10, <1>11
    <3>2. Len(tmp_out) - processed \in Int /\ OverflowLen \in Nat
      BY <1>10 DEF Inv, BufferInv
    <3>3. PICK gap \in Int : gap = Len(tmp_out) - processed
      BY <3>2
    <3>4. PICK more \in Nat : more = OverflowLen
      BY <3>2
    <3>5. PICK given \in Int : given = Len(user) - base
      BY <2>2
    <3>6. left = gap + more
      BY <3>1, <3>3, <3>4, Zenon
    <3>7. total = (given + gap) + more
      <4>1. total_out = given + gap
        BY <2>1, <3>3, <3>5, Zenon
      <4> QED
        BY <3>4, <4>1, Zenon
    <3>8. ((given + gap) + more) - (gap + more) = given
      OBVIOUS
    <3> QED
      BY <3>5, <3>6, <3>7, <3>8, Zenon
  <2>7. Len(user) - base \in Nat
    BY <2>2
  <2> HIDE DEF sum, total
  <2> QED
    BY <1>0, <1>2, <2>3, <2>4, <2>5, <2>6, <2>7 DEF CountInv
<1> QED
  BY <1>6, <1>7, <1>8, <1>12, <1>13 DEF Inv

-----------------------------------------------------------------------------
(* The steps of isal_read_gzip_header.                                     *)

(* What a step leaves alone outside the header.                            *)
LEMMA OutsideHeader ==
  ASSUME Inv, WithinHeader, block_state' \in WrapperStates \/ wrapper_flag',
         wrapper_flag' => block_state' = "NEW_HDR", wrapper_flag' \in BOOLEAN
  PROVE  ControlInv' /\ BufferInv' /\ CountInv'
<1> USE DEF params, input, block, over, header, hdr_locals, output, outside_header
<1>0. /\ UNCHANGED <<params, rest, read_in, bfinal, over, output, crc_flag>>
      /\ ret' = ret /\ pc' = pc
  BY DEF WithinHeader
<1>1. field \in HeaderFields /\ pc \in {"header", "wrapper"} /\ ~ wrapper_flag
  <2>1. field \in HeaderFields
    BY DEF WithinHeader, HeaderStep, ReadBase, ReadExtraLen, CopyExtra, CopyName, CopyComment,
           SumHeader, ReadHcrc, HeaderDone, HeaderFields
  <2> QED
    BY <2>1 DEF Inv, HeaderInv, HeaderFields
<1>2. ControlInv'
  <2>1. crc_flag \in {"gzip", "gzip_no_hdr_ver"}
    BY <1>1 DEF Inv, ControlInv
  <2>2. WithinMember' <=> wrapper_flag'
    BY <1>0, <2>1 DEF WithinMember
  <2>3. wrapper_flag' => block_state' \in MemberStates
    BY DEF MemberStates, BlockStates
  <2>4. pc' \notin {"zlib", "dict_id", "trailer", "begin"} \cup Decoding
        /\ Entering' = Entering /\ Decoding' = Decoding
    BY <1>0, <1>1 DEF Decoding, Entering
  <2> QED
    BY <1>0, <1>1, <2>1, <2>2, <2>3, <2>4 DEF Inv, ControlInv
<1>3. BufferInv'
  <2>1. block_state \notin {"INPUT_DONE", "CHECKSUM_CHECK", "FINISH"}
    BY <1>1 DEF Inv, ControlInv, WithinMember, WrapperStates
  <2> QED
    BY <1>0, <1>1, <2>1 DEF Inv, BufferInv, OverflowLen
<1>4. CountInv'
  <2>1. Sum(0, Drop(user, base))' = Sum(0, Drop(user, base))
    BY <1>0 DEF Sum, Drop
  <2>2. pc \notin Decoding /\ pc' \notin Decoding
    BY <1>0, <1>1 DEF Decoding
  <2> QED
    BY <1>0, <2>1, <2>2 DEF Inv, CountInv
<1> QED
  BY <1>2, <1>3, <1>4

HdrOK(hdr) ==
  /\ DOMAIN hdr = {"flags", "extra_len", "hcrc", "name", "comment", "extra"}
  /\ hdr.extra_len \in Nat /\ hdr.comment = NULL
  /\ hdr.extra \in Buffers /\ hdr.name \in Buffers

LEMMA HcrcOK ==
  ASSUME NEW hdr, HdrOK(hdr), NEW sum
  PROVE  LET new == [hdr EXCEPT !.hcrc = sum]
         IN  /\ HdrOK(new) /\ new.extra_len = hdr.extra_len
             /\ new.extra = hdr.extra /\ new.name = hdr.name
BY DEF HdrOK

LEMMA InHeader ==
  ASSUME Inv, field \in HeaderFields
  PROVE  /\ pc \in {"header", "wrapper"} /\ ~ wrapper_flag /\ ~ Resumable
         /\ crc_flag \in {"gzip", "gzip_no_hdr_ver"} /\ block_state \in WrapperStates
         /\ HdrOK(gz_hdr) /\ count \in Nat /\ hdr_ret \in HeaderResults
         /\ next_in \in Seq(FileUnits) /\ tmp_in \in Seq(FileUnits) /\ Len(tmp_in) <= HdrSize
<1>1. pc \in {"header", "wrapper"} /\ ~ wrapper_flag
  BY DEF Inv, HeaderInv, HeaderFields
<1>2. crc_flag \in {"gzip", "gzip_no_hdr_ver"}
  BY <1>1 DEF Inv, ControlInv
<1>3. block_state \in WrapperStates
  BY <1>1, <1>2 DEF Inv, ControlInv, WithinMember
<1>4. ~ Resumable
  BY DEF HeaderFields, Resumable
<1> QED
  BY <1>1, <1>2, <1>3, <1>4 DEF Inv, HeaderInv, InputInv, HdrOK, Buffers

(* What a step of the header has to keep so that it keeps the invariant.   *)
BrokenOff(state) == field = "returned" /\ hdr_ret \notin Refused /\ block_state = state

LEMMA HeaderKept ==
  ASSUME Inv, WithinHeader,
         wrapper_flag' = wrapper_flag, block_state' \in WrapperStates,
         HdrOK(gz_hdr'), count' \in Nat, hdr_ret' \in HeaderResults,
         \/ field' \in HeaderFields \ {"base"}
         \/ field' = "returned" /\ hdr_ret' # "DECOMP_OK",
         (field' = "extra" \/ BrokenOff("GZIP_EXTRA")') /\ ~ gz_hdr'.extra.null =>
           count' <= gz_hdr'.extra_len /\ gz_hdr'.extra_len - count' <= Len(gz_hdr'.extra.data),
         (field' = "name" \/ BrokenOff("GZIP_NAME")') /\ ~ gz_hdr'.name.null =>
           count' <= Len(gz_hdr'.name.data),
         next_in' \in Seq(FileUnits), tmp_in' \in Seq(FileUnits), Len(tmp_in') <= HdrSize,
         field' \in {"extra", "name", "comment", "sum", "done"} => tmp_in' = <<>>,
         BrokenOff("GZIP_EXTRA")' => tmp_in' = <<>>,
         BrokenOff("GZIP_NAME")' => tmp_in' = <<>>,
         BrokenOff("GZIP_COMMENT")' => tmp_in' = <<>>
  PROVE  Inv'
<1>1. field \in HeaderFields
  BY DEF WithinHeader, HeaderStep, ReadBase, ReadExtraLen, CopyExtra, CopyName, CopyComment,
         SumHeader, ReadHcrc, HeaderDone, HeaderFields
<1>2. /\ pc \in {"header", "wrapper"} /\ ~ wrapper_flag
      /\ crc_flag \in {"gzip", "gzip_no_hdr_ver"}
  BY <1>1, InHeader
<1>3. pc' = pc /\ crc_flag' = crc_flag /\ rest' = rest /\ read_in' = read_in
  BY DEF WithinHeader, outside_header
<1>4. ControlInv' /\ BufferInv' /\ CountInv'
  <2>1. wrapper_flag' \in BOOLEAN /\ ~ wrapper_flag'
    BY <1>2 DEF Inv, ControlInv
  <2> QED
    BY <2>1, OutsideHeader
<1>5. Resumable' => field' = "returned" /\ hdr_ret' \notin Refused
  BY DEF Resumable, HeaderFields
<1>6. HeaderInv'
  <2>1. /\ gz_hdr'.extra \in [null : BOOLEAN, data : Seq(Nat)]
        /\ gz_hdr'.name \in [null : BOOLEAN, data : Seq(Nat)]
    BY DEF HdrOK, Buffers
  <2>2. /\ At("GZIP_EXTRA", "extra")' => field' = "extra" \/ BrokenOff("GZIP_EXTRA")'
        /\ At("GZIP_NAME", "name")' => field' = "name" \/ BrokenOff("GZIP_NAME")'
    BY <1>5 DEF At, BrokenOff
  <2>3. field' # "base" /\ field' # "none"
        /\ field' \in HeaderFields \cup {"none", "returned"}
        /\ ~ (field' = "returned" /\ hdr_ret' = "DECOMP_OK")
    BY DEF HeaderFields
  <2> QED
    BY <1>2, <1>3, <2>1, <2>2, <2>3 DEF HeaderInv, HdrOK
<1>7. InputInv'
  <2>1. Half'
    BY <1>2, <1>3 DEF Half, WithinMember
  <2> QED
    BY <1>3, <1>5, <2>1 DEF Inv, InputInv, BrokenOff
<1> QED
  BY <1>4, <1>6, <1>7 DEF Inv

LEMMA InvReadBase ==
  ASSUME Inv, WithinHeader, ReadBase
  PROVE  Inv'
<1> DEFINE read == fixed_size_read(GZIP_HDR_BASE)
           f    == read.units[3].value
           new  == [gz_hdr EXCEPT !.flags = f,
                                  !.extra_len = IF Has(f, EXTRA_FLAG) THEN @ ELSE 0]
<1>1. field = "base" /\ field \in HeaderFields /\ count = 0 /\ block_state = "NEW_HDR"
  BY DEF ReadBase, Inv, HeaderInv, HeaderFields
<1>2. /\ HdrOK(gz_hdr) /\ hdr_ret \in HeaderResults /\ ~ wrapper_flag
      /\ next_in \in Seq(FileUnits) /\ tmp_in \in Seq(FileUnits)
  BY <1>1, InHeader
<1>3. /\ read.next \in Seq(FileUnits) /\ read.tmp \in Seq(FileUnits) /\ Len(read.tmp) <= HdrSize
      /\ read.ret = "OK" => read.tmp = <<>>
      /\ read.ret \in {"OK", "END_INPUT"}
  <2>1. GZIP_HDR_BASE \in 1 .. 3
    BY DEF GZIP_HDR_BASE
  <2> QED
    BY <1>2, <2>1, FixedReadOK
<1> DEFINE len == IF Has(f, EXTRA_FLAG) THEN gz_hdr.extra_len ELSE 0
<1>4. HdrOK(new)
  <2>1. len \in Nat
    BY <1>2 DEF HdrOK
  <2>2. new = [gz_hdr EXCEPT !.flags = f, !.extra_len = len]
    OBVIOUS
  <2> HIDE DEF len, new
  <2> QED
    BY <1>2, <2>1, <2>2 DEF HdrOK
<1> HIDE DEF new, len
<1>5. /\ next_in' = read.next /\ tmp_in' = read.tmp /\ count' = 0
      /\ wrapper_flag' = wrapper_flag /\ block_state' = "NEW_HDR"
      /\ \/ /\ field' = "returned" /\ hdr_ret' = "END_INPUT"
            /\ (gz_hdr' = gz_hdr \/ \E sum : gz_hdr' = [gz_hdr EXCEPT !.hcrc = sum])
         \/ /\ field' = "returned" /\ hdr_ret' \in {"INVALID_WRAPPER", "UNSUPPORTED_METHOD"}
            /\ gz_hdr' = gz_hdr
         \/ /\ field' = AfterBase(f) /\ gz_hdr' = new /\ read.ret = "OK" /\ hdr_ret' = hdr_ret
  BY <1>1, <1>3 DEF ReadBase, BreakOff, Return, GoOn, new
<1> HIDE DEF read, f
<1>6. HdrOK(gz_hdr')
  BY <1>2, <1>4, <1>5, HcrcOK, ZenonT(60)
<1>7. AfterBase(f) \in {"extra_len", "name", "comment", "sum", "done"}
  BY DEF AfterBase, AfterExtra, AfterName, AfterComment
<1>8. Len(gz_hdr'.name.data) \in Nat
  BY <1>6 DEF HdrOK, Buffers
<1>9. /\ block_state' \in WrapperStates /\ hdr_ret' \in HeaderResults
      /\ \/ field' \in {"extra_len", "name", "comment", "sum", "done"} /\ tmp_in' = <<>>
         \/ field' = "returned" /\ hdr_ret' # "DECOMP_OK"
  BY <1>2, <1>3, <1>5, <1>7 DEF WrapperStates, HeaderResults
<1>10. /\ ~ BrokenOff("GZIP_EXTRA")' /\ ~ BrokenOff("GZIP_NAME")' /\ ~ BrokenOff("GZIP_COMMENT")'
  BY <1>5 DEF BrokenOff
<1> QED
  BY <1>3, <1>5, <1>6, <1>8, <1>9, <1>10, HeaderKept DEF HeaderFields

LEMMA BrokenHdr ==
  ASSUME NEW hdr, HdrOK(hdr), NEW new,
         new = hdr \/ (\E sum : new = [hdr EXCEPT !.hcrc = sum])
  PROVE  /\ HdrOK(new) /\ new.extra_len = hdr.extra_len
         /\ new.extra = hdr.extra /\ new.name = hdr.name
<1>1. CASE new = hdr
  BY <1>1
<1>2. ASSUME NEW sum, new = [hdr EXCEPT !.hcrc = sum]
      PROVE  /\ HdrOK(new) /\ new.extra_len = hdr.extra_len
             /\ new.extra = hdr.extra /\ new.name = hdr.name
  BY <1>2, HcrcOK
<1> QED
  BY <1>1, <1>2

LEMMA InvReadExtraLen ==
  ASSUME Inv, WithinHeader, ReadExtraLen
  PROVE  Inv'
<1> DEFINE read == fixed_size_read(GZIP_EXTRA_LEN)
           len  == read.units[1].value
           new  == [gz_hdr EXCEPT !.extra_len = len]
<1>1. field = "extra_len" /\ field \in HeaderFields
  BY DEF ReadExtraLen, HeaderFields
<1>2. /\ HdrOK(gz_hdr) /\ hdr_ret \in HeaderResults /\ ~ wrapper_flag /\ count \in Nat
      /\ next_in \in Seq(FileUnits) /\ tmp_in \in Seq(FileUnits) /\ block_state \in WrapperStates
  BY <1>1, InHeader
<1>3. /\ read.next \in Seq(FileUnits) /\ read.tmp \in Seq(FileUnits) /\ Len(read.tmp) <= HdrSize
      /\ read.ret \in {"OK", "END_INPUT"}
      /\ read.ret = "OK" => read.tmp = <<>> /\ read.units \in Seq(FileUnits) /\ Len(read.units) = 2
  <2>1. GZIP_EXTRA_LEN \in 1 .. 3 /\ GZIP_EXTRA_LEN = 2
    BY DEF GZIP_EXTRA_LEN
  <2> QED
    BY <1>2, <2>1, FixedReadOK
<1>4. /\ next_in' = read.next /\ tmp_in' = read.tmp /\ wrapper_flag' = wrapper_flag
      /\ \/ /\ read.ret = "END_INPUT" /\ field' = "returned" /\ hdr_ret' = "END_INPUT"
            /\ block_state' = "GZIP_EXTRA_LEN" /\ count' = count
            /\ (gz_hdr' = gz_hdr \/ \E sum : gz_hdr' = [gz_hdr EXCEPT !.hcrc = sum])
         \/ /\ read.ret = "OK" /\ field' = "extra" /\ hdr_ret' = hdr_ret
            /\ block_state' = block_state /\ count' = len /\ gz_hdr' = new
  BY <1>1, <1>3 DEF ReadExtraLen, BreakOff, GoOn
<1> HIDE DEF read
<1>5. read.ret = "OK" => len \in Nat
  <2>1. ASSUME read.ret = "OK" PROVE read.units[1] \in FileUnits
    BY <1>3, <2>1
  <2> QED
    BY <2>1 DEF FileUnits
<1> HIDE DEF len
<1>6. CASE read.ret = "END_INPUT"
  <2>1. HdrOK(gz_hdr')
    BY <1>2, <1>4, <1>6, BrokenHdr
  <2>2. /\ ~ BrokenOff("GZIP_EXTRA")' /\ ~ BrokenOff("GZIP_NAME")' /\ ~ BrokenOff("GZIP_COMMENT")'
    BY <1>4, <1>6 DEF BrokenOff
  <2>3. /\ block_state' \in WrapperStates /\ hdr_ret' \in HeaderResults
        /\ field' = "returned" /\ hdr_ret' # "DECOMP_OK"
    BY <1>4, <1>6 DEF WrapperStates, HeaderResults
  <2>4. field' \notin {"extra", "name", "comment", "sum", "done"}
    BY <2>3
  <2>5. next_in' \in Seq(FileUnits) /\ tmp_in' \in Seq(FileUnits) /\ Len(tmp_in') <= HdrSize
        /\ count' \in Nat /\ wrapper_flag' = wrapper_flag
    BY <1>2, <1>3, <1>4, <1>6
  <2> QED
    BY <2>1, <2>2, <2>3, <2>4, <2>5, HeaderKept
<1>7. CASE read.ret = "OK"
  <2>1. HdrOK(new) /\ new.extra_len = len
    BY <1>2, <1>5, <1>7 DEF HdrOK
  <2>2. HdrOK(gz_hdr') /\ gz_hdr'.extra_len = len /\ len \in Nat
    BY <1>4, <1>5, <1>7, <2>1
  <2>3. Len(gz_hdr'.extra.data) \in Nat
    BY <2>2 DEF HdrOK, Buffers
  <2>4. /\ ~ BrokenOff("GZIP_EXTRA")' /\ ~ BrokenOff("GZIP_NAME")' /\ ~ BrokenOff("GZIP_COMMENT")'
    BY <1>4, <1>7 DEF BrokenOff
  <2>5. /\ block_state' \in WrapperStates /\ hdr_ret' \in HeaderResults
        /\ field' \in HeaderFields \ {"base"} /\ field' # "name"
    BY <1>2, <1>4, <1>7 DEF HeaderFields
  <2>6. next_in' \in Seq(FileUnits) /\ tmp_in' \in Seq(FileUnits) /\ Len(tmp_in') <= HdrSize
        /\ count' = len /\ wrapper_flag' = wrapper_flag /\ tmp_in' = <<>>
    BY <1>3, <1>4, <1>7
  <2>7. count' <= gz_hdr'.extra_len /\ gz_hdr'.extra_len - count' <= Len(gz_hdr'.extra.data)
    BY <2>2, <2>3, <2>6
  <2> QED
    BY <2>2, <2>4, <2>5, <2>6, <2>7, HeaderKept
<1> QED
  BY <1>3, <1>6, <1>7

(* A copied field, before its buffer is looked at.                         *)
LEMMA CopySteps ==
  ASSUME NEW copy, NEW state, NEW next, NEW hdr, Copy(copy, state, next, hdr), HdrOK(hdr)
  PROVE  /\ next_in' = copy.next /\ count' = copy.count /\ tmp_in' = tmp_in
         /\ wrapper_flag' = wrapper_flag /\ HdrOK(gz_hdr') /\ gz_hdr'.extra_len = hdr.extra_len
         /\ gz_hdr'.extra = hdr.extra /\ gz_hdr'.name = hdr.name
         /\ \/ /\ copy.ret # "OK" /\ field' = "returned" /\ hdr_ret' = copy.ret
               /\ block_state' = state
            \/ /\ copy.ret = "OK" /\ field' = next /\ hdr_ret' = hdr_ret
               /\ block_state' = block_state
<1>1. gz_hdr' = hdr \/ \E sum : gz_hdr' = [hdr EXCEPT !.hcrc = sum]
  BY DEF Copy, BreakOff, GoOn
<1>2. /\ HdrOK(gz_hdr') /\ gz_hdr'.extra_len = hdr.extra_len
      /\ gz_hdr'.extra = hdr.extra /\ gz_hdr'.name = hdr.name
  BY <1>1, BrokenHdr
<1> QED
  BY <1>2 DEF Copy, BreakOff, GoOn

LEMMA InvCopyExtra ==
  ASSUME Inv, WithinHeader, CopyExtra
  PROVE  Inv'
<1> DEFINE result == buffer_header_copy(count, gz_hdr.extra, gz_hdr.extra_len - count,
                                        "EXTRA_OVERFLOW")
<1>1. field = "extra" /\ field \in HeaderFields
  BY DEF CopyExtra, HeaderFields
<1>2. /\ HdrOK(gz_hdr) /\ hdr_ret \in HeaderResults /\ count \in Nat
      /\ next_in \in Seq(FileUnits) /\ block_state \in WrapperStates
  BY <1>1, InHeader
<1>3. tmp_in = <<>>
  BY <1>1 DEF Inv, InputInv
<1> SUFFICES ASSUME NEW copy, copy = result, NEW size \in Nat, size = gz_hdr.extra_len,
                    NEW hdr, hdr = [gz_hdr EXCEPT !.extra = copy.buf]
             PROVE  Inv'
  BY <1>2 DEF HdrOK
<1>4. /\ copy.ret \in {"OK", "END_INPUT", "EXTRA_OVERFLOW"}
      /\ copy.next \in Seq(FileUnits) /\ copy.count \in Nat /\ copy.buf \in Buffers
      /\ ~ copy.buf.null => copy.count <= size /\ size - copy.count <= Len(copy.buf.data)
      /\ copy.ret = "OK" => copy.count = 0
  <2>1. gz_hdr.extra \in Buffers
    BY <1>2 DEF HdrOK
  <2>2. ~ gz_hdr.extra.null => count <= size /\ size - count <= Len(gz_hdr.extra.data)
    BY <1>1 DEF Inv, HeaderInv, At
  <2>3. PICK buf \in Buffers : buf = gz_hdr.extra
    BY <2>1
  <2>4. copy = buffer_header_copy(count, buf, size - count, "EXTRA_OVERFLOW")
    BY <2>3
  <2> HIDE DEF result
  <2> QED
    BY <1>2, <2>2, <2>3, <2>4, ExtraCopyOK, SMTT(60)
<1>5. Copy(copy, "GZIP_EXTRA", AfterExtra(flags), hdr)
  BY DEF CopyExtra
<1> HIDE DEF result
<1>6. /\ HdrOK(hdr) /\ hdr.extra_len = size /\ hdr.extra = copy.buf /\ hdr.name = gz_hdr.name
  BY <1>2, <1>4 DEF HdrOK
<1>7. PICK next : next = AfterExtra(flags)
  OBVIOUS
<1>8. next \in {"name", "comment", "sum", "done"}
  BY <1>7 DEF AfterExtra, AfterName, AfterComment
<1>9. /\ next_in' = copy.next /\ count' = copy.count /\ tmp_in' = tmp_in
      /\ wrapper_flag' = wrapper_flag /\ HdrOK(gz_hdr') /\ gz_hdr'.extra_len = size
      /\ gz_hdr'.extra = copy.buf
      /\ \/ /\ copy.ret # "OK" /\ field' = "returned" /\ hdr_ret' = copy.ret
            /\ block_state' = "GZIP_EXTRA"
         \/ /\ copy.ret = "OK" /\ field' = next /\ hdr_ret' = hdr_ret
            /\ block_state' = block_state
  <2>1. Copy(copy, "GZIP_EXTRA", next, hdr) /\ HdrOK(hdr)
    BY <1>5, <1>6, <1>7
  <2>2. /\ next_in' = copy.next /\ count' = copy.count /\ tmp_in' = tmp_in
        /\ wrapper_flag' = wrapper_flag /\ HdrOK(gz_hdr')
        /\ gz_hdr'.extra_len = hdr.extra_len /\ gz_hdr'.extra = hdr.extra
        /\ \/ /\ copy.ret # "OK" /\ field' = "returned" /\ hdr_ret' = copy.ret
              /\ block_state' = "GZIP_EXTRA"
           \/ /\ copy.ret = "OK" /\ field' = next /\ hdr_ret' = hdr_ret
              /\ block_state' = block_state
    BY <2>1, CopySteps, ZenonT(60)
  <2> QED
    BY <1>6, <2>2
<1>10. /\ field' # "extra" /\ ~ BrokenOff("GZIP_NAME")'
       /\ block_state' \in WrapperStates /\ hdr_ret' \in HeaderResults
       /\ \/ field' \in HeaderFields \ {"base"}
          \/ field' = "returned" /\ hdr_ret' # "DECOMP_OK"
       /\ field' = "name" => count' = 0
  BY <1>2, <1>4, <1>8, <1>9 DEF BrokenOff, WrapperStates, HeaderResults, HeaderFields
<1>11. /\ next_in' \in Seq(FileUnits) /\ tmp_in' = <<>> /\ tmp_in' \in Seq(FileUnits)
       /\ Len(tmp_in') <= HdrSize /\ count' \in Nat
  BY <1>3, <1>4, <1>9, InflateAssumption
<1>12. /\ ~ gz_hdr'.extra.null => count' <= gz_hdr'.extra_len
                                  /\ gz_hdr'.extra_len - count' <= Len(gz_hdr'.extra.data)
       /\ Len(gz_hdr'.name.data) \in Nat
  BY <1>4, <1>9 DEF HdrOK, Buffers
<1> QED
  BY <1>9, <1>10, <1>11, <1>12, HeaderKept

LEMMA InvCopyName ==
  ASSUME Inv, WithinHeader, CopyName
  PROVE  Inv'
<1> DEFINE result == string_header_copy(gz_hdr.name, count, "NAME_OVERFLOW")
<1>1. field = "name" /\ field \in HeaderFields
  BY DEF CopyName, HeaderFields
<1>2. /\ HdrOK(gz_hdr) /\ hdr_ret \in HeaderResults /\ count \in Nat
      /\ next_in \in Seq(FileUnits) /\ block_state \in WrapperStates
  BY <1>1, InHeader
<1>3. tmp_in = <<>>
  BY <1>1 DEF Inv, InputInv
<1> SUFFICES ASSUME NEW copy, copy = result,
                    NEW hdr, hdr = [gz_hdr EXCEPT !.name = copy.buf]
             PROVE  Inv'
  OBVIOUS
<1>4. /\ copy.ret \in {"OK", "END_INPUT", "NAME_OVERFLOW"}
      /\ copy.next \in Seq(FileUnits) /\ copy.count \in Nat /\ copy.buf \in Buffers
      /\ ~ copy.buf.null => copy.count <= Len(copy.buf.data)
  <2>1. PICK buf \in Buffers : buf = gz_hdr.name
    BY <1>2 DEF HdrOK
  <2>2. ~ buf.null => count <= Len(buf.data)
    BY <1>1, <2>1 DEF Inv, HeaderInv, At
  <2>3. copy = string_header_copy(buf, count, "NAME_OVERFLOW")
    BY <2>1
  <2> HIDE DEF result
  <2> QED
    BY <1>2, <2>2, <2>3, StringCopyOK
<1>5. Copy(copy, "GZIP_NAME", AfterName(flags), hdr)
  BY DEF CopyName
<1> HIDE DEF result
<1>6. HdrOK(hdr) /\ hdr.name = copy.buf
  BY <1>2, <1>4 DEF HdrOK
<1>7. PICK next : next = AfterName(flags)
  OBVIOUS
<1>8. next \in {"comment", "sum", "done"}
  BY <1>7 DEF AfterName, AfterComment
<1>9. /\ next_in' = copy.next /\ count' = copy.count /\ tmp_in' = tmp_in
      /\ wrapper_flag' = wrapper_flag /\ HdrOK(gz_hdr') /\ gz_hdr'.name = copy.buf
      /\ \/ /\ copy.ret # "OK" /\ field' = "returned" /\ hdr_ret' = copy.ret
            /\ block_state' = "GZIP_NAME"
         \/ /\ copy.ret = "OK" /\ field' = next /\ hdr_ret' = hdr_ret
            /\ block_state' = block_state
  BY <1>5, <1>6, <1>7, CopySteps, ZenonT(60)
<1>10. /\ field' # "extra" /\ field' # "name" /\ ~ BrokenOff("GZIP_EXTRA")'
       /\ block_state' \in WrapperStates /\ hdr_ret' \in HeaderResults
       /\ \/ field' \in HeaderFields \ {"base"}
          \/ field' = "returned" /\ hdr_ret' # "DECOMP_OK"
  BY <1>2, <1>4, <1>8, <1>9 DEF BrokenOff, WrapperStates, HeaderResults, HeaderFields
<1>11. /\ next_in' \in Seq(FileUnits) /\ tmp_in' = <<>> /\ tmp_in' \in Seq(FileUnits)
       /\ Len(tmp_in') <= HdrSize /\ count' \in Nat
       /\ ~ gz_hdr'.name.null => count' <= Len(gz_hdr'.name.data)
  BY <1>3, <1>4, <1>9, InflateAssumption
<1> QED
  BY <1>9, <1>10, <1>11, HeaderKept

LEMMA InvCopyComment ==
  ASSUME Inv, WithinHeader, CopyComment
  PROVE  Inv'
<1> DEFINE result == string_header_copy(gz_hdr.comment, count, "COMMENT_OVERFLOW")
<1>1. field = "comment" /\ field \in HeaderFields
  BY DEF CopyComment, HeaderFields
<1>2. /\ HdrOK(gz_hdr) /\ hdr_ret \in HeaderResults /\ count \in Nat
      /\ next_in \in Seq(FileUnits) /\ block_state \in WrapperStates
  BY <1>1, InHeader
<1>3. tmp_in = <<>>
  BY <1>1 DEF Inv, InputInv
<1> SUFFICES ASSUME NEW copy, copy = result,
                    NEW hdr, hdr = [gz_hdr EXCEPT !.comment = copy.buf]
             PROVE  Inv'
  OBVIOUS
<1>4. /\ copy.ret \in {"OK", "END_INPUT"}
      /\ copy.next \in Seq(FileUnits) /\ copy.count \in Nat /\ copy.buf = NULL
  <2>1. PICK buf \in Buffers : buf = NULL /\ buf.null
    BY NullOK
  <2>2. copy = string_header_copy(buf, count, "COMMENT_OVERFLOW")
    BY <1>2, <2>1 DEF HdrOK
  <2> HIDE DEF result
  <2> QED
    BY <1>2, <2>1, <2>2, StringCopyOK
<1>5. Copy(copy, "GZIP_COMMENT", AfterComment(flags), hdr)
  BY DEF CopyComment
<1> HIDE DEF result
<1>6. HdrOK(hdr)
  BY <1>2, <1>4 DEF HdrOK
<1>7. PICK next : next = AfterComment(flags)
  OBVIOUS
<1>8. next \in {"sum", "done"}
  BY <1>7 DEF AfterComment
<1>9. /\ next_in' = copy.next /\ count' = copy.count /\ tmp_in' = tmp_in
      /\ wrapper_flag' = wrapper_flag /\ HdrOK(gz_hdr')
      /\ \/ /\ copy.ret # "OK" /\ field' = "returned" /\ hdr_ret' = copy.ret
            /\ block_state' = "GZIP_COMMENT"
         \/ /\ copy.ret = "OK" /\ field' = next /\ hdr_ret' = hdr_ret
            /\ block_state' = block_state
  BY <1>5, <1>6, <1>7, CopySteps
<1>10. /\ field' # "extra" /\ field' # "name"
       /\ ~ BrokenOff("GZIP_EXTRA")' /\ ~ BrokenOff("GZIP_NAME")'
       /\ block_state' \in WrapperStates /\ hdr_ret' \in HeaderResults
       /\ \/ field' \in HeaderFields \ {"base"}
          \/ field' = "returned" /\ hdr_ret' # "DECOMP_OK"
  BY <1>2, <1>4, <1>8, <1>9 DEF BrokenOff, WrapperStates, HeaderResults, HeaderFields
<1>11. /\ next_in' \in Seq(FileUnits) /\ tmp_in' = <<>> /\ tmp_in' \in Seq(FileUnits)
       /\ Len(tmp_in') <= HdrSize /\ count' \in Nat
  BY <1>3, <1>4, <1>9, InflateAssumption
<1> QED
  BY <1>9, <1>10, <1>11, HeaderKept

LEMMA InvSumHeader ==
  ASSUME Inv, WithinHeader, SumHeader
  PROVE  Inv'
<1>1. field = "sum" /\ field \in HeaderFields
  BY DEF SumHeader, HeaderFields
<1>2. /\ HdrOK(gz_hdr) /\ hdr_ret \in HeaderResults /\ count \in Nat
      /\ next_in \in Seq(FileUnits) /\ block_state \in WrapperStates
  BY <1>1, InHeader
<1>3. tmp_in = <<>>
  BY <1>1 DEF Inv, InputInv
<1>4. /\ field' = "hcrc" /\ gz_hdr' = [gz_hdr EXCEPT !.hcrc = hcrc']
      /\ UNCHANGED <<next_in, tmp_in, count, block_state, wrapper_flag, hdr_ret>>
  BY DEF SumHeader, GoOn
<1>5. HdrOK(gz_hdr')
  BY <1>2, <1>4, HcrcOK
<1>6. /\ ~ BrokenOff("GZIP_EXTRA")' /\ ~ BrokenOff("GZIP_NAME")' /\ ~ BrokenOff("GZIP_COMMENT")'
      /\ field' \in HeaderFields \ {"base"}
      /\ field' \notin {"extra", "name", "comment", "sum", "done"}
  BY <1>4 DEF BrokenOff, HeaderFields
<1>7. /\ next_in' \in Seq(FileUnits) /\ tmp_in' = <<>> /\ tmp_in' \in Seq(FileUnits)
      /\ Len(tmp_in') <= HdrSize /\ count' \in Nat /\ wrapper_flag' = wrapper_flag
      /\ block_state' \in WrapperStates /\ hdr_ret' \in HeaderResults
  BY <1>2, <1>3, <1>4, InflateAssumption
<1> QED
  BY <1>5, <1>6, <1>7, HeaderKept

LEMMA InvReadHcrc ==
  ASSUME Inv, WithinHeader, ReadHcrc
  PROVE  Inv'
<1> DEFINE read == fixed_size_read(GZIP_HCRC_LEN)
<1>1. field = "hcrc" /\ field \in HeaderFields
  BY DEF ReadHcrc, HeaderFields
<1>2. /\ HdrOK(gz_hdr) /\ hdr_ret \in HeaderResults /\ count \in Nat
      /\ next_in \in Seq(FileUnits) /\ tmp_in \in Seq(FileUnits) /\ block_state \in WrapperStates
  BY <1>1, InHeader
<1>3. /\ read.next \in Seq(FileUnits) /\ read.tmp \in Seq(FileUnits) /\ Len(read.tmp) <= HdrSize
      /\ read.ret \in {"OK", "END_INPUT"} /\ (read.ret = "OK" => read.tmp = <<>>)
  <2>1. GZIP_HCRC_LEN \in 1 .. 3
    BY DEF GZIP_HCRC_LEN
  <2> QED
    BY <1>2, <2>1, FixedReadOK
<1>4. /\ next_in' = read.next /\ tmp_in' = read.tmp /\ wrapper_flag' = wrapper_flag
      /\ count' = count /\ gz_hdr' = gz_hdr
      /\ \/ /\ field' = "returned" /\ hdr_ret' = "END_INPUT" /\ block_state' = "GZIP_HCRC"
         \/ /\ field' = "returned" /\ hdr_ret' = "INCORRECT_CHECKSUM" /\ block_state' = block_state
         \/ /\ field' = "done" /\ hdr_ret' = hdr_ret /\ block_state' = block_state
            /\ read.ret = "OK"
  BY <1>1, <1>3 DEF ReadHcrc, Return, GoOn
<1> HIDE DEF read
<1>5. /\ ~ BrokenOff("GZIP_EXTRA")' /\ ~ BrokenOff("GZIP_NAME")' /\ ~ BrokenOff("GZIP_COMMENT")'
  BY <1>4 DEF BrokenOff, Refused
<1>6. /\ block_state' \in WrapperStates /\ hdr_ret' \in HeaderResults
      /\ field' \notin {"extra", "name"} /\ HdrOK(gz_hdr')
      /\ field' \in {"extra", "name", "comment", "sum", "done"} => tmp_in' = <<>>
      /\ \/ field' \in HeaderFields \ {"base"}
         \/ field' = "returned" /\ hdr_ret' # "DECOMP_OK"
  BY <1>2, <1>3, <1>4 DEF WrapperStates, HeaderResults, HeaderFields
<1>7. /\ next_in' \in Seq(FileUnits) /\ tmp_in' \in Seq(FileUnits)
      /\ Len(tmp_in') <= HdrSize /\ count' \in Nat /\ wrapper_flag' = wrapper_flag
  BY <1>2, <1>3, <1>4
<1> QED
  BY <1>5, <1>6, <1>7, HeaderKept

LEMMA InvHeaderDone ==
  ASSUME Inv, WithinHeader, HeaderDone
  PROVE  Inv'
<1>1. field = "done" /\ field \in HeaderFields
  BY DEF HeaderDone, HeaderFields
<1>2. tmp_in = <<>>
  BY <1>1 DEF Inv, InputInv
<1>3. /\ field' = "returned" /\ hdr_ret' = "DECOMP_OK" /\ wrapper_flag' = TRUE
      /\ block_state' = "NEW_HDR"
      /\ UNCHANGED <<next_in, tmp_in, count, gz_hdr>>
  BY DEF HeaderDone
<1>4. pc' = pc /\ rest' = rest /\ read_in' = read_in
  BY DEF WithinHeader, outside_header
<1>5. ControlInv' /\ BufferInv' /\ CountInv'
  <2>1. wrapper_flag' \in BOOLEAN
    BY <1>3
  <2> QED
    BY <1>3, <2>1, OutsideHeader
<1>6. HeaderInv'
  <2>1. pc \in {"header", "wrapper"}
    BY <1>1, InHeader
  <2>2. ~ At("GZIP_EXTRA", "extra")' /\ ~ At("GZIP_NAME", "name")'
    BY <1>3 DEF At
  <2>3. /\ hdr_ret' \in HeaderResults /\ field' \in HeaderFields \cup {"none", "returned"}
        /\ field' \notin HeaderFields /\ field' \notin {"none", "base"}
    BY <1>3 DEF HeaderResults, HeaderFields
  <2>4. /\ count' \in Nat
        /\ DOMAIN gz_hdr' = {"flags", "extra_len", "hcrc", "name", "comment", "extra"}
        /\ gz_hdr'.extra_len \in Nat /\ gz_hdr'.comment = NULL
        /\ gz_hdr'.extra \in [null : BOOLEAN, data : Seq(Nat)]
        /\ gz_hdr'.name \in [null : BOOLEAN, data : Seq(Nat)]
    BY <1>3 DEF Inv, HeaderInv
  <2> QED
    BY <1>3, <1>4, <2>1, <2>2, <2>3, <2>4 DEF HeaderInv
<1>7. InputInv'
  BY <1>2, <1>3, <1>4 DEF Inv, InputInv
<1> QED
  BY <1>5, <1>6, <1>7 DEF Inv

LEMMA InvWithinHeader ==
  ASSUME Inv, WithinHeader
  PROVE  Inv'
<1>1. HeaderStep
  BY DEF WithinHeader
<1> QED
  BY <1>1, InvReadBase, InvReadExtraLen, InvCopyExtra, InvCopyName, InvCopyComment,
     InvSumHeader, InvReadHcrc, InvHeaderDone DEF HeaderStep

LEMMA InvStutter ==
  ASSUME Inv, UNCHANGED vars
  PROVE  Inv'
<1> USE DEF vars, params, input, block, over, header, hdr_locals, output
<1>1. ControlInv'
  BY DEF Inv, ControlInv, WithinMember
<1>2. HeaderInv'
  BY DEF Inv, HeaderInv, At, Resumable
<1>3. InputInv'
  BY DEF Inv, InputInv, Resumable, Half, WithinMember
<1>4. BufferInv'
  BY DEF Inv, BufferInv, OverflowLen
<1>5. CountInv'
  BY DEF Inv, CountInv, Sum, Drop
<1> QED
  BY <1>1, <1>2, <1>3, <1>4, <1>5 DEF Inv

-----------------------------------------------------------------------------
(* The theorems.                                                           *)

LEMMA InvNext ==
  ASSUME Inv, [Next]_vars
  PROVE  Inv'
<1>1. CASE UNCHANGED vars
  BY <1>1, InvStutter
<1>2. ASSUME NEW n \in InSizes, (\E o \in OutSizes : Call(n, o)) \/ CallHeader(n) \/ NextMember(n)
      PROVE  Inv'
  BY <1>2, InvCall, InvCallHeader, InvNextMember
<1>3. CASE SetDict \/ StartHeader \/ WithinHeader \/ EndHeader \/ ReadZlibBase \/ ReadZlibDict
  BY <1>3, InvSetDict, InvStartHeader, InvWithinHeader, InvEndHeader, InvReadZlibBase,
     InvReadZlibDict
<1>4. CASE ReadTrailer \/ Begin \/ Drain \/ End
  BY <1>4, InvReadTrailer, InvBegin, InvDrain, InvEnd
<1>5. CASE ReadHeader("tmp", "drain") \/ DecodeTmp \/ ReadHeader("out", "end") \/ DecodeOut
  BY <1>5, InvReadHeader, InvDecodeTmp, InvDecodeOut
<1> QED
  BY <1>1, <1>2, <1>3, <1>4, <1>5 DEF Next

LEMMA Invariant == Spec => []Inv
<1>1. Init => Inv
  BY InvInit
<1>2. Inv /\ [Next]_vars => Inv'
  BY InvNext
<1> QED
  BY <1>1, <1>2, PTL DEF Spec

(* TypeOK: whatever the sizes of windows, buffers and files, the fields of *)
(* struct inflate_state stay within their types.                           *)
THEOREM TypeCorrect == Spec => []TypeOK
<1>1. Inv => TypeOK
  <2> SUFFICES ASSUME Inv PROVE TypeOK
    OBVIOUS
  <2>1. block_state \in {"HDR", "TYPE0", "CODED", "INPUT_DONE", "CHECKSUM_CHECK", "FINISH"}
                        \cup DOMAIN Resumes \cup {"ZLIB_DICT"}
    <3>1. DOMAIN Resumes = WrapperStates
      BY DEF Resumes, WrapperStates
    <3>2. block_state \in MemberStates \cup WrapperStates \cup {"NEW_HDR", "ZLIB_DICT"}
      BY DEF Inv, ControlInv
    <3> QED
      BY <3>1, <3>2 DEF MemberStates, BlockStates, WrapperStates
  <2>2. pc \in {"idle", "header", "wrapper", "zlib", "dict_id", "trailer", "begin", "tmp",
                "drain", "out", "end"}
    BY DEF Inv, ControlInv, Entering, Decoding
  <2>3. ret \in {"OK", "DECOMP_OK", "END_INPUT", "OUT_OVERFLOW", "NAME_OVERFLOW",
                 "EXTRA_OVERFLOW", "NEED_DICT"} \cup Refused
    BY DEF Inv, ControlInv, Results
  <2>4. /\ pack \in Packs /\ trunc \in BOOLEAN /\ bfinal \in 0 .. 1 /\ count \in Nat
        /\ crc_flag \in {"deflate", "gzip_no_hdr_ver", "gzip", "zlib"} /\ wrapper_flag \in BOOLEAN
    BY DEF Inv, ControlInv, HeaderInv
  <2>5. /\ processed \in 0 .. Len(tmp_out) /\ start_out \in 0 .. Len(user)
        /\ copy_overflow.len \in 0 .. MaxMatch /\ copy_overflow.dist \in 0 .. Hist
        /\ base \in 0 .. Len(user) /\ avail_out \in Nat
    BY DEF Inv, BufferInv
  <2>6. total_out \in Nat /\ crc \in Nat
    BY DEF Inv, CountInv
  <2> QED
    BY <2>1, <2>2, <2>3, <2>4, <2>5, <2>6 DEF TypeOK
<1> QED
  BY <1>1, Invariant, PTL

(* BuffersHold: read_in, tmp_in_buffer and tmp_out_buffer take all that is *)
(* ever put into them, with what overflows and with what store_u32 writes  *)
(* beyond it, for every window and every division of a file into calls.    *)
THEOREM NothingOverruns == Spec => []BuffersHold
<1>1. Inv => BuffersHold
  <2> SUFFICES ASSUME Inv PROVE BuffersHold
    OBVIOUS
  <2> DEFINE buffer == IF pc = "end" THEN Kept.buffer ELSE tmp_out
  <2>1. Len(read_in) <= RegSize /\ Len(tmp_in) <= HdrSize
    BY DEF Inv, InputInv
  <2>2. /\ tmp_out \in Seq(Nat) /\ Len(tmp_out) \in Nat /\ write_overflow \in Seq(Nat)
        /\ OverflowLen \in Nat /\ OverflowLen <= MostOverflow
        /\ Len(tmp_out) <= TmpSize
    <3>1. /\ tmp_out \in Seq(Nat) /\ write_overflow \in Seq(Nat)
          /\ copy_overflow \in [len : 0 .. MaxMatch, dist : 0 .. Hist]
          /\ OverflowLen <= MostOverflow /\ Len(tmp_out) <= TmpSize
      BY DEF Inv, BufferInv
    <3> QED
      BY <3>1, FlushedOK
  <2>3. write_overflow # <<>> => OverflowLen # 0
    <3>1. /\ copy_overflow \in [len : 0 .. MaxMatch, dist : 0 .. Hist]
      BY DEF Inv, BufferInv
    <3>2. copy_overflow.len \in Nat
      BY <3>1, InflateAssumption
    <3>3. write_overflow # <<>> => Len(write_overflow) \in Nat /\ Len(write_overflow) > 0
      BY <2>2
    <3> QED
      BY <3>2, <3>3 DEF OverflowLen
  <2>4. CASE pc = "end"
    <3>1. /\ Len(Kept.buffer) \in Nat /\ Len(Kept.buffer) + OverflowLen <= TmpSize
          /\ OverflowLen # 0 => Len(Kept.buffer) <= TmpSize - StoreU32
      BY <2>4, KeptOK
    <3>2. Len(buffer) = Len(Kept.buffer)
      BY <2>4
    <3> HIDE DEF buffer
    <3>3. Len(buffer) <= TmpSize /\ Len(buffer) + OverflowLen <= TmpSize
          /\ (OverflowLen # 0 => Len(buffer) + StoreU32 <= TmpSize)
      BY <2>2, <3>1, <3>2, Sizes
    <3> QED
      BY <2>1, <2>3, <3>3 DEF BuffersHold, buffer
  <2>5. CASE pc # "end"
    <3>1. pc = "drain" /\ OverflowLen # 0 => Len(tmp_out) <= 2 * Hist
      BY DEF Inv, BufferInv
    <3>2. pc = "drain" => /\ Len(tmp_out) + OverflowLen <= TmpSize
                          /\ OverflowLen # 0 => Len(tmp_out) + StoreU32 <= TmpSize
      BY <2>2, <3>1, Sizes
    <3> QED
      BY <2>1, <2>2, <2>3, <2>5, <3>2 DEF BuffersHold
  <2> QED
    BY <2>4, <2>5
<1> QED
  BY <1>1, Invariant, PTL

(* CountsWhatIsWritten: total_out and the checksum are of what the caller  *)
(* has been given, however the text was divided between the two buffers.   *)
THEOREM CountsGiven == Spec => []CountsWhatIsWritten
<1>1. Inv => CountsWhatIsWritten
  BY DEF Inv, CountInv, CountsWhatIsWritten, Decoding
<1> QED
  BY <1>1, Invariant, PTL

-----------------------------------------------------------------------------
(* What was decoded last.                                                  *)

(* The last n elements of s are the last n of t.                           *)
EndsAlike(s, t, n) ==
  /\ n <= Len(s) /\ n <= Len(t)
  /\ \A i \in 0 .. n - 1 : s[Len(s) - i] = t[Len(t) - i]

(* A buffer ends with the part of the text that a match may reach.         *)
EndsRight(buffer, text) == EndsAlike(buffer, text, Least(Hist, Len(text)))

LEMMA AlikeLess ==
  ASSUME NEW s \in Seq(Nat), NEW t \in Seq(Nat), NEW n \in Nat, NEW less \in Nat, less <= n,
         EndsAlike(s, t, n)
  PROVE  EndsAlike(s, t, less)
BY DEF EndsAlike

(* w is s and then t, element by element.                                  *)
Joins(w, s, t) ==
  /\ w \in Seq(Nat) /\ Len(w) = Len(s) + Len(t)
  /\ \A i \in 1 .. Len(s) : w[i] = s[i]
  /\ \A i \in 1 .. Len(t) : w[Len(s) + i] = t[i]

LEMMA JoinedParts ==
  ASSUME NEW s \in Seq(Nat), NEW t \in Seq(Nat)
  PROVE  Joins(s \o t, s, t)
BY DEF Joins

LEMMA JoinsAlike ==
  ASSUME NEW s \in Seq(Nat), NEW t \in Seq(Nat), NEW x \in Seq(Nat), NEW n \in Nat,
         EndsAlike(s, t, n), NEW v, Joins(v, s, x), NEW w, Joins(w, t, x)
  PROVE  EndsAlike(v, w, n + Len(x))
<1>1. PICK a \in Nat, b \in Nat, c \in Nat : a = Len(s) /\ b = Len(t) /\ c = Len(x)
  OBVIOUS
<1>2. /\ Len(v) = a + c /\ (\A i \in 1 .. a : v[i] = s[i]) /\ \A i \in 1 .. c : v[a + i] = x[i]
      /\ Len(w) = b + c /\ (\A i \in 1 .. b : w[i] = t[i]) /\ \A i \in 1 .. c : w[b + i] = x[i]
  BY <1>1 DEF Joins
<1>3. n <= a /\ n <= b /\ \A i \in 0 .. n - 1 : s[a - i] = t[b - i]
  BY <1>1 DEF EndsAlike
<1>4. ASSUME NEW i \in 0 .. (n + c) - 1
      PROVE  v[(a + c) - i] = w[(b + c) - i]
  <2>1. CASE i < c
    <3>1. c - i \in 1 .. c /\ (a + c) - i = a + (c - i) /\ (b + c) - i = b + (c - i)
      BY <2>1
    <3> QED
      BY <1>2, <3>1
  <2>2. CASE ~ (i < c)
    <3>1. /\ i - c \in 0 .. n - 1
          /\ (a + c) - i = a - (i - c) /\ a - (i - c) \in 1 .. a
          /\ (b + c) - i = b - (i - c) /\ b - (i - c) \in 1 .. b
      BY <1>3, <2>2
    <3> QED
      BY <1>2, <1>3, <3>1
  <2> QED
    BY <2>1, <2>2
<1>5. n + c <= a + c /\ n + c <= b + c
  BY <1>3
<1> QED
  BY <1>1, <1>2, <1>4, <1>5 DEF EndsAlike

LEMMA AlikeMore ==
  ASSUME NEW s \in Seq(Nat), NEW t \in Seq(Nat), NEW x \in Seq(Nat), NEW n \in Nat,
         EndsAlike(s, t, n)
  PROVE  EndsAlike(s \o x, t \o x, n + Len(x))
<1>1. Joins(s \o x, s, x) /\ Joins(t \o x, t, x)
  BY JoinedParts
<1> QED
  BY <1>1, JoinsAlike

LEMMA RightMore ==
  ASSUME NEW s \in Seq(Nat), NEW t \in Seq(Nat), NEW x \in Seq(Nat), EndsRight(s, t)
  PROVE  EndsRight(s \o x, t \o x)
<1> DEFINE n == Least(Hist, Len(t))
           more == Least(Hist, Len(t \o x))
<1>1. /\ s \o x \in Seq(Nat) /\ t \o x \in Seq(Nat) /\ Len(t \o x) = Len(t) + Len(x)
      /\ Len(t) \in Nat /\ Len(x) \in Nat /\ Hist \in Nat
  BY Joined, Sizes
<1>2. n \in Nat /\ more \in Nat /\ n + Len(x) \in Nat /\ more <= n + Len(x)
  BY <1>1 DEF Least
<1>3. EndsAlike(s, t, n)
  BY DEF EndsRight
<1> HIDE DEF n
<1>4. EndsAlike(s \o x, t \o x, n + Len(x))
  BY <1>2, <1>3, AlikeMore
<1>5. EndsAlike(s \o x, t \o x, more)
  <2> HIDE DEF more
  <2> QED
    BY <1>1, <1>2, <1>4, AlikeLess
<1> QED
  BY <1>5 DEF EndsRight

(* What a shift of the buffer leaves is still the end of it.               *)
LEMMA RightDrop ==
  ASSUME NEW s \in Seq(Nat), NEW t \in Seq(Nat), NEW a \in Nat, a + Hist <= Len(s),
         EndsRight(s, t)
  PROVE  EndsRight(Drop(s, a), t)
<1> DEFINE n == Least(Hist, Len(t))
<1>1. Hist \in Nat /\ Len(s) \in Nat /\ Len(t) \in Nat
  BY Sizes
<1>2. n \in Nat /\ n <= Hist
  BY <1>1, LeastOf
<1>3. EndsAlike(s, t, n)
  BY DEF EndsRight
<1> HIDE DEF n
<1>4. /\ Drop(s, a) \in Seq(Nat) /\ Len(Drop(s, a)) = Len(s) - a
      /\ \A i \in 1 .. Len(s) - a : Drop(s, a)[i] = s[a + i]
  BY <1>1 DEF Drop
<1>5. ASSUME NEW i \in 0 .. n - 1
      PROVE  Drop(s, a)[(Len(s) - a) - i] = s[Len(s) - i]
  <2>1. (Len(s) - a) - i \in 1 .. Len(s) - a /\ a + ((Len(s) - a) - i) = Len(s) - i
    BY <1>1, <1>2
  <2> QED
    BY <1>4, <2>1
<1>6. EndsAlike(Drop(s, a), t, n)
  BY <1>1, <1>2, <1>3, <1>4, <1>5 DEF EndsAlike
<1> QED
  BY <1>6 DEF EndsRight, n

(* The last Hist bytes of a text.                                          *)
LEMMA LastRight ==
  ASSUME NEW t \in Seq(Nat), NEW a \in Nat, a + Hist <= Len(t)
  PROVE  EndsRight(Drop(t, a), t)
<1>1. EndsAlike(t, t, Least(Hist, Len(t)))
  <2>1. Len(t) \in Nat /\ Hist \in Nat
    BY Sizes
  <2>2. Least(Hist, Len(t)) <= Len(t)
    BY <2>1, LeastOf
  <2> QED
    BY <2>2 DEF EndsAlike
<1>2. EndsRight(t, t)
  BY <1>1 DEF EndsRight
<1> QED
  BY <1>2, RightDrop

LEMMA RightNone ==
  ASSUME NEW s \in Seq(Nat)
  PROVE  EndsRight(s, <<>>)
BY Sizes DEF EndsRight, EndsAlike, Least

(* The text: what was given, and what is still in the buffer.              *)
TextOf(given, buffer, from) == given \o Drop(buffer, from)

LEMMA TextSeq ==
  ASSUME NEW g \in Seq(Nat), NEW s \in Seq(Nat), NEW p \in Nat
  PROVE  TextOf(g, s, p) \in Seq(Nat)
BY DroppedAny, Joined DEF TextOf

LEMMA TextAll ==
  ASSUME NEW g \in Seq(Nat), NEW s \in Seq(Nat)
  PROVE  TextOf(g, s, Len(s)) = g
<1>1. Drop(s, Len(s)) = <<>>
  BY DEF Drop
<1>2. g \o <<>> = g
  OBVIOUS
<1> QED
  BY <1>1, <1>2 DEF TextOf

LEMMA JoinThree ==
  ASSUME NEW a \in Seq(Nat), NEW b \in Seq(Nat), NEW c \in Seq(Nat)
  PROVE  (a \o b) \o c = a \o (b \o c)
BY SMTT(60)

(* v is what follows the first p elements of s.                            *)
Drops(v, s, p) ==
  /\ v \in Seq(Nat) /\ Len(v) = Len(s) - p
  /\ \A i \in 1 .. Len(s) - p : v[i] = s[p + i]

LEMMA DroppedParts ==
  ASSUME NEW s \in Seq(Nat), NEW p \in Nat, p <= Len(s)
  PROVE  Drops(Drop(s, p), s, p)
<1>1. PICK n \in Nat : n = Len(s)
  OBVIOUS
<1>2. Drop(s, p) = SubSeq(s, p + 1, n)
  BY <1>1 DEF Drop
<1>3. /\ SubSeq(s, p + 1, n) \in Seq(Nat) /\ Len(SubSeq(s, p + 1, n)) = n - p
      /\ \A i \in 1 .. n - p : SubSeq(s, p + 1, n)[i] = s[p + i]
  BY <1>1
<1> QED
  BY <1>1, <1>2, <1>3 DEF Drops

LEMMA DropsJoins ==
  ASSUME NEW s \in Seq(Nat), NEW x \in Seq(Nat), NEW p \in Nat, p <= Len(s),
         NEW all, Joins(all, s, x), NEW v, Drops(v, s, p), NEW w, Drops(w, all, p),
         NEW y, Joins(y, v, x)
  PROVE  w = y
<1>1. PICK a \in Nat, c \in Nat : a = Len(s) /\ c = Len(x)
  OBVIOUS
<1>2. /\ Len(all) = a + c /\ (\A i \in 1 .. a : all[i] = s[i])
      /\ \A i \in 1 .. c : all[a + i] = x[i]
  BY <1>1 DEF Joins
<1>3. Len(v) = a - p /\ \A i \in 1 .. a - p : v[i] = s[p + i]
  BY <1>1 DEF Drops
<1>4. /\ w \in Seq(Nat) /\ Len(w) = (a + c) - p
      /\ \A i \in 1 .. (a + c) - p : w[i] = all[p + i]
  BY <1>2 DEF Drops
<1>5. /\ y \in Seq(Nat) /\ Len(y) = (a - p) + c
      /\ \A i \in 1 .. a - p : y[i] = v[i]
      /\ \A i \in 1 .. c : y[(a - p) + i] = x[i]
  BY <1>1, <1>3 DEF Joins
<1>6. p <= a /\ (a + c) - p = (a - p) + c
  BY <1>1
<1>7. ASSUME NEW i \in 1 .. (a - p) + c
      PROVE  w[i] = y[i]
  <2>1. w[i] = all[p + i]
    BY <1>4, <1>6
  <2>2. CASE i <= a - p
    <3>1. p + i \in 1 .. a /\ i \in 1 .. a - p
      BY <1>6, <2>2
    <3> QED
      BY <1>2, <1>3, <1>5, <2>1, <3>1
  <2>3. CASE ~ (i <= a - p)
    <3>1. PICK j \in 1 .. c : p + i = a + j /\ i = (a - p) + j
      <4>1. /\ i - (a - p) \in 1 .. c /\ p + i = a + (i - (a - p))
            /\ i = (a - p) + (i - (a - p))
        BY <1>6, <2>3
      <4> QED
        BY <4>1
    <3> QED
      BY <1>2, <1>5, <2>1, <3>1
  <2> QED
    BY <2>2, <2>3
<1> QED
  BY <1>4, <1>5, <1>6, <1>7, SameSeq

LEMMA DropJoined ==
  ASSUME NEW s \in Seq(Nat), NEW x \in Seq(Nat), NEW p \in Nat, p <= Len(s)
  PROVE  Drop(s \o x, p) = Drop(s, p) \o x
<1>1. Joins(s \o x, s, x) /\ s \o x \in Seq(Nat) /\ p <= Len(s \o x)
  <2>1. Len(s \o x) = Len(s) + Len(x) /\ s \o x \in Seq(Nat)
    BY Joined
  <2>2. p <= Len(s) + Len(x)
    OBVIOUS
  <2> QED
    BY <2>1, <2>2, JoinedParts
<1>2. Drops(Drop(s, p), s, p) /\ Drops(Drop(s \o x, p), s \o x, p)
  BY <1>1, DroppedParts
<1>3. Joins(Drop(s, p) \o x, Drop(s, p), x)
  <2>1. Drop(s, p) \in Seq(Nat)
    BY DroppedAny
  <2> QED
    BY <2>1, JoinedParts
<1> QED
  <2> DEFINE all == s \o x
             v   == Drop(s, p)
             w   == Drop(s \o x, p)
             y   == Drop(s, p) \o x
  <2>1. Joins(all, s, x) /\ Drops(v, s, p) /\ Drops(w, all, p) /\ Joins(y, v, x)
    BY <1>1, <1>2, <1>3
  <2> HIDE DEF all, v, w, y
  <2>2. w = y
    BY <2>1, DropsJoins
  <2> QED
    BY <2>2 DEF w, y

(* What is decoded into the buffer is the text's next part ...             *)
LEMMA TextMore ==
  ASSUME NEW g \in Seq(Nat), NEW s \in Seq(Nat), NEW x \in Seq(Nat),
         NEW p \in Nat, p <= Len(s)
  PROVE  TextOf(g, s \o x, p) = TextOf(g, s, p) \o x
<1>1. PICK v \in Seq(Nat) : v = Drop(s, p)
  BY DroppedAny
<1>2. Drop(s \o x, p) = v \o x
  BY <1>1, DropJoined
<1>3. (g \o v) \o x = g \o (v \o x)
  BY JoinThree, ZenonT(60)
<1> QED
  BY <1>1, <1>2, <1>3, Zenon DEF TextOf

(* ... and what is handed over from the buffer was in it before.           *)
LEMMA TextGiven ==
  ASSUME NEW g \in Seq(Nat), NEW s \in Seq(Nat), NEW p \in Nat, NEW q \in Nat,
         p <= q, q <= Len(s)
  PROVE  TextOf(g \o SubSeq(s, p + 1, q), s, q) = TextOf(g, s, p)
<1>1. /\ SubSeq(s, p + 1, q) \in Seq(Nat) /\ Drop(s, q) \in Seq(Nat)
      /\ SubSeq(s, p + 1, q) \o Drop(s, q) = Drop(s, p)
  BY SplitDrop
<1>2. PICK a \in Seq(Nat) : a = SubSeq(s, p + 1, q)
  BY <1>1
<1>3. PICK b \in Seq(Nat) : b = Drop(s, q)
  BY <1>1
<1>4. (g \o a) \o b = g \o (a \o b)
  BY JoinThree, ZenonT(60)
<1> QED
  BY <1>1, <1>2, <1>3, <1>4, Zenon DEF TextOf

-----------------------------------------------------------------------------
(* A decoder that has stopped for want of input stops again in the         *)
(* caller's buffer, with the same input.                                   *)

HeaderSize(units) ==
  IF Head(units).kind \in DOMAIN HeaderUnits THEN HeaderUnits[Head(units).kind] ELSE 1
Short(units) == units = <<>> \/ Len(units) < HeaderSize(units)
Popped(loaded, syms) == [read |-> Drop(loaded.read, syms), next |-> loaded.next]
NeedsMore(loaded, syms) ==
  \/ syms > Len(loaded.read)
  \/ loaded.read[syms].kind = "len" /\ inflate_in_load(Popped(loaded, syms)).read = <<>>
NeedsInput(in) == NeedsMore(inflate_in_load(in), SymCount(inflate_in_load(in).read))
Input == [read |-> read_in, next |-> next_in]
Stalled ==
  \/ block_state \in {"NEW_HDR", "HDR"} /\ next_in = <<>> /\ Short(read_in \o tmp_in)
  \/ block_state = "TYPE0" /\ next_in = <<>> /\ read_in = <<>>
  \/ block_state = "CODED" /\ NeedsInput(Input)

LEMMA LoadAgain ==
  ASSUME NEW in, InputOK(in)
  PROVE  inflate_in_load(inflate_in_load(in)) = inflate_in_load(in)
<1>1. PICK read \in Seq(FileUnits), next \in Seq(FileUnits) :
        in.read = read /\ in.next = next /\ Len(read) <= RegSize
  BY DEF InputOK
<1>2. PICK space \in Nat : space = RegSize - Len(read)
  BY <1>1, InflateAssumption
<1>3. PICK length \in Nat : length = Len(next)
  OBVIOUS
<1>4. PICK n \in Nat : n = Least(space, length) /\ n <= space /\ n <= length
                        /\ (n = space \/ n = length)
  BY LeastOf
<1>5. PICK first : first = Take(next, n)
  OBVIOUS
<1>6. first \in Seq(FileUnits) /\ Len(first) = n
  BY <1>3, <1>4, <1>5, Taken1
<1>7. PICK behind : behind = Drop(next, n)
  OBVIOUS
<1>8. behind \in Seq(FileUnits) /\ Len(behind) = length - n
  BY <1>3, <1>4, <1>7, Dropped
<1>9. PICK filled : filled = read \o first
  OBVIOUS
<1>10. filled \in Seq(FileUnits) /\ Len(filled) = Len(read) + n
  BY <1>6, <1>9, Joined
<1>11. inflate_in_load(in) = [read |-> filled, next |-> behind]
  BY <1>1, <1>2, <1>3, <1>4, <1>5, <1>7, <1>9 DEF inflate_in_load
<1>12. Least(RegSize - Len(filled), Len(behind)) = 0
  <2>1. RegSize - Len(filled) = space - n /\ Len(read) \in Nat /\ RegSize \in Nat
    BY <1>2, <1>4, <1>10, InflateAssumption
  <2>2. Least(space - n, length - n) = 0
    <3>1. CASE n = space
      BY <1>4, <3>1 DEF Least
    <3>2. CASE n = length
      BY <1>4, <3>2 DEF Least
    <3> QED
      BY <1>4, <3>1, <3>2
  <2> QED
    BY <1>8, <2>1, <2>2
<1>13. filled \o Take(behind, 0) = filled /\ Drop(behind, 0) = behind
  <2>1. Take(behind, 0) = <<>>
    BY DEF Take
  <2>2. filled \o <<>> = filled
    BY <1>10
  <2>3. Drop(behind, 0) = behind
    BY <1>8 DEF Drop
  <2> QED
    BY <2>1, <2>2, <2>3
<1> QED
  BY <1>11, <1>12, <1>13 DEF inflate_in_load

(* A lookup reports the end of the input when it needs more, and then it   *)
(* has done nothing but fill read_in.                                      *)
LEMMA CodeWaits ==
  ASSUME NEW in, InputOK(in), NEW history, NEW space, pack \in Packs
  PROVE  LET dec == decode_huffman_code(in, history, space)
         IN  /\ dec.ret = "END_INPUT" <=> NeedsInput(in)
             /\ NeedsInput(in) => dec = [ret |-> "END_INPUT", in |-> inflate_in_load(in),
                                         out |-> <<>>, lits |-> <<>>, copy |-> NoCopy,
                                         block |-> "CODED", len0 |-> count]
<1> DEFINE loaded  == inflate_in_load(in)
           syms    == SymCount(loaded.read)
           symbol  == loaded.read[syms]
           literal == syms - (IF symbol.kind = "lit" THEN 0 ELSE 1)
           values  == [i \in 1 .. literal |-> loaded.read[i].value]
           written == Take(values, Least(space, literal))
           left    == Drop(values, Least(space, literal))
           full    == IF left # <<>> THEN "OUT_OVERFLOW" ELSE "OK"
           popped  == [read |-> Drop(loaded.read, syms), next |-> loaded.next]
           extra   == inflate_in_load(popped)
           behind  == [read |-> Tail(extra.read), next |-> extra.next]
           dist    == Head(extra.read).value
           room    == Least(space - Len(written), symbol.value)
           copied  == written \o Copied(history \o written, dist, room)
           rest_of == [len |-> symbol.value - room, dist |-> dist]
           Outcome(status, input_left, out, lits, copy, state) ==
             [ret |-> status, in |-> input_left, out |-> out, lits |-> lits, copy |-> copy,
              block |-> state, len0 |-> count]
           again                    == Outcome("END_INPUT", loaded, <<>>, <<>>, NoCopy, "CODED")
           after(status, state)     == Outcome(status, popped, written, left, NoCopy, state)
           match(status, out, copy) == Outcome(status, behind, out, left, copy, "CODED")
           dec     == decode_huffman_code(in, history, space)
<1>1. dec = IF syms > Len(loaded.read) THEN again
            ELSE CASE symbol.kind = "lit" -> after(full, "CODED")
                   [] symbol.kind = "eob" -> after(full, AfterBlock)
                   [] symbol.kind = "len" ->
                        IF extra.read = <<>> THEN again
                        ELSE IF Head(extra.read).kind # "dist"
                        THEN match("INVALID_SYMBOL", written, NoCopy)
                        ELSE IF dist > Len(history) + Len(written)
                        THEN match("INVALID_LOOKBACK", written, NoCopy)
                        ELSE IF room < symbol.value
                        THEN match("OUT_OVERFLOW", copied, rest_of)
                        ELSE match("OK", copied, NoCopy)
                   [] OTHER -> after("INVALID_SYMBOL", "CODED")
  BY DEF decode_huffman_code
<1>2. NeedsInput(in) <=> syms > Len(loaded.read) \/ (symbol.kind = "len" /\ extra.read = <<>>)
  BY DEF NeedsInput, NeedsMore, Popped
<1>3. /\ again.ret = "END_INPUT" /\ after(full, "CODED").ret # "END_INPUT"
      /\ after(full, AfterBlock).ret # "END_INPUT"
      /\ after("INVALID_SYMBOL", "CODED").ret # "END_INPUT"
      /\ match("INVALID_SYMBOL", written, NoCopy).ret # "END_INPUT"
      /\ match("INVALID_LOOKBACK", written, NoCopy).ret # "END_INPUT"
      /\ match("OUT_OVERFLOW", copied, rest_of).ret # "END_INPUT"
      /\ match("OK", copied, NoCopy).ret # "END_INPUT"
  OBVIOUS
<1>4. /\ dec.ret = "END_INPUT" <=> NeedsInput(in)
      /\ NeedsInput(in) => dec = again
  <2> HIDE DEF dec, loaded, syms, symbol, extra, dist, room, again, after, match, full, written,
               copied, rest_of
  <2>1. CASE syms > Len(loaded.read)
    BY <1>1, <1>2, <1>3, <2>1
  <2>2. CASE ~ (syms > Len(loaded.read)) /\ symbol.kind = "lit"
    BY <1>1, <1>2, <1>3, <2>2
  <2>3. CASE ~ (syms > Len(loaded.read)) /\ symbol.kind = "eob"
    BY <1>1, <1>2, <1>3, <2>3
  <2>4. CASE ~ (syms > Len(loaded.read)) /\ symbol.kind = "len"
    BY <1>1, <1>2, <1>3, <2>4
  <2>5. CASE ~ (syms > Len(loaded.read)) /\ symbol.kind \notin {"lit", "eob", "len"}
    BY <1>1, <1>2, <1>3, <2>5
  <2> QED
    BY <2>1, <2>2, <2>3, <2>4, <2>5
<1> QED
  BY <1>4

LEMMA EmptyParts ==
  ASSUME NEW s \in Seq(FileUnits), NEW t \in Seq(FileUnits), s \o t = <<>>
  PROVE  s = <<>> /\ t = <<>>
<1>1. Len(s) + Len(t) = 0
  <2>1. Len(s \o t) = Len(s) + Len(t)
    BY Joined
  <2> QED
    BY <2>1
<1> QED
  BY <1>1

(* A stored block reports it when no input is left, and then it has taken  *)
(* all of it; with no input it writes nothing.                             *)
LEMMA StoredWaits ==
  ASSUME NEW in, InputOK(in), NEW space \in Nat, count \in Nat, bfinal \in 0 .. 1
  PROVE  LET dec == decode_literal_block(in, space)
         IN  /\ dec.ret = "END_INPUT" =>
                  /\ dec.in.read = <<>> /\ dec.in.next = <<>>
                  /\ dec.block \in {"TYPE0", "NEW_HDR"}
             /\ in.read = <<>> /\ in.next = <<>> =>
                  /\ dec.out = <<>> /\ dec.lits = <<>> /\ dec.copy = NoCopy
                  /\ dec.ret = "END_INPUT" \/ dec.block = "INPUT_DONE"
<1> DEFINE bytes == Len(in.read)
           n     == Least(count, Least(space, bytes + Len(in.next)))
           left  == [read |-> Drop(in.read, Least(n, bytes)),
                     next |-> Drop(in.next, IF n > bytes THEN n - bytes ELSE 0)]
           state == IF n < count THEN "TYPE0" ELSE AfterBlock
           data  == Take(in.read \o in.next, n)
           out   == [i \in DOMAIN data |-> data[i].value]
           dec   == decode_literal_block(in, space)
<1>1. dec = [ret |-> IF left.read \o left.next = <<>> /\ state # "INPUT_DONE" THEN "END_INPUT"
                     ELSE IF space = n /\ n < count THEN "OUT_OVERFLOW" ELSE "OK",
             in |-> left, out |-> out, lits |-> <<>>, copy |-> NoCopy, block |-> state,
             len0 |-> count - n]
  BY DEF decode_literal_block
<1> HIDE DEF dec
<1>2. state \in {"TYPE0", "NEW_HDR", "INPUT_DONE"}
  BY DEF AfterBlock
<1>3. InputOK(left)
  <2>1. DecodedOK(dec, space)
    BY LiteralOK DEF dec
  <2> QED
    BY <1>1, <2>1 DEF DecodedOK
<1>4. dec.ret = "END_INPUT" => left.read = <<>> /\ left.next = <<>> /\ state # "INPUT_DONE"
  <2> HIDE DEF left, state, out
  <2>1. left.read \in Seq(FileUnits) /\ left.next \in Seq(FileUnits)
    BY <1>3 DEF InputOK
  <2>2. dec.ret = "END_INPUT" => left.read \o left.next = <<>> /\ state # "INPUT_DONE"
    BY <1>1
  <2> QED
    BY <2>1, <2>2, EmptyParts
<1>5. ASSUME in.read = <<>>, in.next = <<>>
      PROVE  out = <<>> /\ (dec.ret = "END_INPUT" \/ state = "INPUT_DONE")
  <2>1. n = 0
    BY <1>5 DEF Least
  <2>2. data = <<>> /\ out = <<>>
    BY <1>5, <2>1 DEF Take
  <2>3. left.read \o left.next = <<>>
    BY <1>5, <2>1 DEF Drop, Least
  <2> HIDE DEF left, state, out
  <2> QED
    BY <1>1, <2>2, <2>3
<1> HIDE DEF left, state, out
<1> QED
  BY <1>1, <1>2, <1>4, <1>5 DEF dec

LEMMA HeaderSizes ==
  ASSUME NEW units \in Seq(FileUnits), Short(units)
  PROVE  Len(units) < 3
<1>1. HeaderSize(units) \in 1 .. 3
  BY DEF HeaderSize, HeaderUnits
<1>2. Len(units) \in Nat /\ (units = <<>> => Len(units) = 0)
  OBVIOUS
<1> QED
  BY <1>1, <1>2 DEF Short

HeaderWaitsFor(in, hdr) ==
  /\ hdr.ret = "END_INPUT" => /\ hdr.block = "HDR" /\ hdr.in.next = <<>>
                              /\ Short(hdr.in.read \o hdr.tmp_in)
  /\ in.next = <<>> /\ Short(in.read \o tmp_in) => hdr.ret = "END_INPUT"

(* A header that does not end in the input waits for more, all of it, and  *)
(* without more it waits again.                                            *)
LEMMA HeaderWaits ==
  ASSUME NEW in, InputOK(in), tmp_in \in Seq(FileUnits), Len(tmp_in) <= HdrSize,
         block_state \in {"NEW_HDR", "HDR"}, block_state # "HDR" => tmp_in = <<>>
  PROVE  HeaderWaitsFor(in, read_header_stateful(in))
<1> DEFINE units == in.read \o HeaderInput(in)
           first == Head(units)
           known == first.kind \in DOMAIN HeaderUnits
           size  == IF known THEN HeaderUnits[first.kind] ELSE 1
           reg   == Take(Drop(units, size), Least(RegSize - 1, Len(units) - size))
           taken == size + Len(reg) - Len(in.read) - Len(tmp_in)
           left  == [read |-> reg, next |-> Drop(in.next, IF taken < 0 THEN 0 ELSE taken)]
           short == [ret |-> "END_INPUT", in |-> [in EXCEPT !.next = <<>>],
                     tmp_in |-> tmp_in \o in.next, block |-> "HDR", bfinal |-> bfinal,
                     len0 |-> count]
           whole == [ret |-> "OK", in |-> left, tmp_in |-> <<>>, bfinal |-> first.value % 2,
                     block |-> IF first.kind = "stored" THEN "TYPE0" ELSE "CODED",
                     len0 |-> IF first.kind = "stored" THEN units[2].value ELSE count]
           wrong == [whole EXCEPT !.ret = "INVALID_BLOCK", !.block = block_state]
           hdr   == read_header_stateful(in)
           most  == Least(HdrSize - Len(tmp_in), Len(in.next))
<1>1. /\ in \in [read : Seq(FileUnits), next : Seq(FileUnits)]
      /\ in.read \in Seq(FileUnits) /\ in.next \in Seq(FileUnits)
      /\ Len(in.read) \in Nat /\ Len(in.next) \in Nat /\ Len(tmp_in) \in Nat
      /\ HdrSize \in Nat /\ HdrSize >= 3
  BY InflateAssumption, FilesAssumption DEF InputOK
<1>2. hdr = IF Short(units) THEN short ELSE IF known THEN whole ELSE wrong
  <2>1. hdr = IF units = <<>> THEN short
              ELSE IF Len(units) < size THEN short
              ELSE IF known THEN whole ELSE wrong
    BY DEF read_header_stateful
  <2>2. Short(units) <=> units = <<>> \/ Len(units) < size
    BY DEF Short, HeaderSize
  <2> HIDE DEF hdr, units, short, whole, wrong, size, known
  <2> QED
    BY <2>1, <2>2
<1>3. /\ short.ret = "END_INPUT" /\ short.block = "HDR" /\ short.tmp_in = tmp_in \o in.next
      /\ short.in.next = <<>> /\ short.in.read = in.read
  BY <1>1
<1>4. whole.ret # "END_INPUT" /\ wrong.ret # "END_INPUT"
  OBVIOUS
<1>5. HeaderInput(in) = IF block_state # "HDR" THEN in.next ELSE tmp_in \o Take(in.next, most)
  BY DEF HeaderInput
<1> HIDE DEF hdr, short, whole, wrong, known
<1>6. ASSUME Short(units)
      PROVE  Short(in.read \o (tmp_in \o in.next))
  <2>1. CASE block_state # "HDR"
    <3>1. tmp_in \o in.next = in.next
      BY <1>1, <2>1
    <3> QED
      BY <1>5, <1>6, <2>1, <3>1
  <2>2. CASE block_state = "HDR"
    <3>1. most \in 0 .. Len(in.next) /\ (most = Len(in.next) \/ Len(tmp_in) + most >= 3)
      BY <1>1 DEF Least
    <3> HIDE DEF most
    <3>2. Take(in.next, most) \in Seq(FileUnits) /\ Len(Take(in.next, most)) = most
      BY <1>1, <3>1, Taken1
    <3>3. /\ tmp_in \o Take(in.next, most) \in Seq(FileUnits)
          /\ Len(tmp_in \o Take(in.next, most)) = Len(tmp_in) + most
      BY <3>2, Joined
    <3>4. units \in Seq(FileUnits) /\ Len(units) = Len(in.read) + (Len(tmp_in) + most)
      <4> HIDE DEF units
      <4>1. units = in.read \o (tmp_in \o Take(in.next, most))
        BY <1>5, <2>2 DEF units
      <4> QED
        BY <1>1, <3>3, <4>1, Joined
    <3> HIDE DEF units
    <3>5. Len(units) < 3
      BY <1>6, <3>4, HeaderSizes
    <3>6. most = Len(in.next)
      BY <1>1, <3>1, <3>4, <3>5
    <3>7. Take(in.next, most) = in.next
      BY <1>1, <3>6 DEF Take
    <3> QED
      BY <1>5, <1>6, <2>2, <3>7 DEF units
  <2> QED
    BY <2>1, <2>2
<1>7. ASSUME in.next = <<>>, Short(in.read \o tmp_in)
      PROVE  Short(units)
  <2>1. CASE block_state # "HDR"
    BY <1>5, <1>7, <2>1
  <2>2. CASE block_state = "HDR"
    <3>1. Take(<<>>, 0) = <<>> /\ tmp_in \o <<>> = tmp_in
      BY DEF Take
    <3>2. most = 0
      BY <1>1, <1>7 DEF Least
    <3> HIDE DEF most
    <3>3. HeaderInput(in) = tmp_in
      BY <1>5, <1>7, <2>2, <3>1, <3>2
    <3> QED
      BY <1>7, <3>3
  <2> QED
    BY <2>1, <2>2
<1> HIDE DEF units
<1>8. hdr.ret = "END_INPUT" => Short(units) /\ hdr = short
  BY <1>2, <1>4
<1>9. Short(units) => hdr.ret = "END_INPUT"
  BY <1>2, <1>3
<1> QED
  BY <1>3, <1>6, <1>7, <1>8, <1>9 DEF HeaderWaitsFor, hdr

(* The overflow is written behind what the buffer holds.                   *)
LEMMA FlushedMore ==
  ASSUME NEW buffer \in Seq(Nat), write_overflow \in Seq(Nat),
         copy_overflow \in [len : 0 .. MaxMatch, dist : 0 .. Hist]
  PROVE  \E more \in Seq(Nat) : Flushed(buffer) = buffer \o more
<1> DEFINE lits == buffer \o write_overflow
           copy == Copied(lits, copy_overflow.dist, copy_overflow.len)
<1>1. copy_overflow.len \in Nat
  BY InflateAssumption
<1>2. lits \in Seq(Nat)
  BY Joined
<1> HIDE DEF lits
<1>3. copy \in Seq(Nat)
  BY <1>1, <1>2, CopiedLen
<1>4. Flushed(buffer) = lits \o copy
  BY DEF Flushed, lits, copy
<1> HIDE DEF copy
<1>5. lits \o copy = buffer \o (write_overflow \o copy)
  BY <1>3, JoinThree DEF lits
<1>6. write_overflow \o copy \in Seq(Nat)
  BY <1>3, Joined
<1> QED
  BY <1>4, <1>5, <1>6

-----------------------------------------------------------------------------
(* HistoryInv: while decoding can go on, tmp_out_buffer ends with what was *)
(* decoded last, except when decoding has gone on in the caller's buffer;  *)
(* then the caller's buffer has got a whole window in this call, or the    *)
(* input is used up and nothing more is decoded.  For that, a call must    *)
(* begin with no more than a window already handed over.                   *)
Going == block_state \notin {"INPUT_DONE", "CHECKSUM_CHECK", "FINISH"}
HistoryInv ==
  /\ Going /\ pc \notin {"out", "end"} => EndsRight(tmp_out, Text)
  /\ pc \in {"tmp", "drain"} => start_out = Len(user)
  /\ Going /\ pc \notin {"out", "end"} /\ (ret \notin Refused \/ pc \in {"tmp", "drain"}) =>
       processed <= Hist
  /\ Going /\ pc = "drain" /\ ret \notin Errors => 2 * Hist <= Len(tmp_out) \/ Stalled
  /\ Going /\ pc = "out" => Hist <= Len(Produced) \/ (Stalled /\ EndsRight(tmp_out, Text))
  /\ Going /\ pc = "end" => FromUser \/ EndsRight(tmp_out, Text)

(* Steps that touch neither buffer.                                        *)
LEMMA HistoryQuiet ==
  ASSUME HistoryInv, UNCHANGED <<tmp_out, processed, user, base>>,
         pc \notin Decoding, pc' \notin Decoding, Going' => Going,
         ret' \notin Refused => ret \notin Refused
  PROVE  HistoryInv'
<1>1. pc \notin {"tmp", "drain", "out", "end"} /\ pc' \notin {"tmp", "drain", "out", "end"}
  BY DEF Decoding
<1>2. Text' = Text
  BY DEF Text, Drop
<1> HIDE DEF Going
<1>3. Going' => EndsRight(tmp_out', Text')
  BY <1>1, <1>2 DEF HistoryInv
<1>4. Going' /\ ret' \notin Refused => processed' <= Hist
  BY <1>1 DEF HistoryInv
<1> QED
  BY <1>1, <1>3, <1>4 DEF HistoryInv

LEMMA HistoryInit ==
  ASSUME Init
  PROVE  HistoryInv
<1>1. Text = <<>>
  BY DEF Init, Text, Drop
<1>2. EndsRight(tmp_out, Text)
  <2>1. tmp_out \in Seq(Nat)
    BY DEF Init
  <2> QED
    BY <1>1, <2>1, RightNone
<1> QED
  BY <1>2, Sizes DEF Init, HistoryInv

LEMMA HistoryCall ==
  ASSUME Inv, HistoryInv, NEW n, NEW o, Call(n, o)
  PROVE  HistoryInv'
<1>1. /\ pc = "idle" /\ ret \notin Refused /\ UNCHANGED <<tmp_out, processed, user, base>>
      /\ block_state' = block_state /\ pc' \in {"wrapper", "zlib", "trailer", "begin"}
  BY DEF Call, block
<1> QED
  BY <1>1, HistoryQuiet DEF Decoding, Going

LEMMA HistoryCallHeader ==
  ASSUME Inv, HistoryInv, NEW n, CallHeader(n)
  PROVE  HistoryInv'
<1>1. /\ pc = "idle" /\ ret \notin Refused /\ UNCHANGED <<tmp_out, processed, user, base>>
      /\ block_state' = block_state /\ pc' = "header"
  BY DEF CallHeader, block, output
<1> QED
  BY <1>1, HistoryQuiet DEF Decoding, Going

LEMMA HistoryStartHeader ==
  ASSUME Inv, HistoryInv, StartHeader
  PROVE  HistoryInv'
<1>1. /\ pc \in {"header", "wrapper"} /\ pc' = pc /\ ret' = ret
      /\ UNCHANGED <<tmp_out, processed, user, base>>
      /\ block_state \notin {"INPUT_DONE", "CHECKSUM_CHECK", "FINISH"}
  <2>1. /\ pc \in {"header", "wrapper"} /\ pc' = pc /\ ret' = ret /\ ~ wrapper_flag
        /\ UNCHANGED <<tmp_out, processed, user, base>>
    BY DEF StartHeader, EnterHeader, outside_header, output, Inv, HeaderInv
  <2>2. ~ WithinMember /\ crc_flag # "zlib"
    BY <2>1 DEF Inv, ControlInv, WithinMember
  <2> QED
    BY <2>1, <2>2 DEF Inv, ControlInv, WrapperStates
<1> QED
  BY <1>1, HistoryQuiet DEF Decoding, Going

LEMMA HistoryWithinHeader ==
  ASSUME Inv, HistoryInv, WithinHeader
  PROVE  HistoryInv'
<1>1. /\ field \in HeaderFields /\ pc' = pc /\ ret' = ret
      /\ UNCHANGED <<tmp_out, processed, user, base>>
  BY DEF WithinHeader, HeaderStep, ReadBase, ReadExtraLen, CopyExtra, CopyName, CopyComment,
         SumHeader, ReadHcrc, HeaderDone, HeaderFields, outside_header, output
<1>2. pc \in {"header", "wrapper"} /\ ~ wrapper_flag
  BY <1>1 DEF Inv, HeaderInv, HeaderFields
<1>3. block_state \notin {"INPUT_DONE", "CHECKSUM_CHECK", "FINISH"}
  <2>1. ~ WithinMember /\ crc_flag # "zlib"
    BY <1>2 DEF Inv, ControlInv, WithinMember
  <2> QED
    BY <2>1 DEF Inv, ControlInv, WrapperStates
<1> QED
  BY <1>1, <1>2, <1>3, HistoryQuiet DEF Decoding, Going

LEMMA HistoryEndHeader ==
  ASSUME Inv, HistoryInv, EndHeader
  PROVE  HistoryInv'
<1>1. /\ pc \in {"header", "wrapper"} /\ pc' \in {"idle", "begin"}
      /\ block_state' = block_state /\ UNCHANGED <<tmp_out, processed, user, base>>
  BY DEF EndHeader, LeaveHeader, outside_header, output
<1>2. ret \notin Refused
  BY <1>1 DEF Inv, ControlInv, Entering, Refused, Errors
<1> QED
  BY <1>1, <1>2, HistoryQuiet DEF Decoding, Going

LEMMA HistoryReadZlibBase ==
  ASSUME Inv, HistoryInv, ReadZlibBase
  PROVE  HistoryInv'
<1>1. /\ pc = "zlib" /\ pc' \in {"idle", "dict_id", "begin"}
      /\ block_state' = block_state /\ UNCHANGED <<tmp_out, processed, user, base>>
  BY DEF ReadZlibBase, ZlibLeaves, zlib_unchanged, outside_header, output
<1>2. ret \notin Refused
  BY <1>1 DEF Inv, ControlInv, Entering, Refused, Errors
<1> QED
  BY <1>1, <1>2, HistoryQuiet DEF Decoding, Going

LEMMA HistoryReadZlibDict ==
  ASSUME Inv, HistoryInv, ReadZlibDict
  PROVE  HistoryInv'
<1>1. /\ pc \in {"zlib", "dict_id"} /\ pc' \in {"idle", "begin"}
      /\ UNCHANGED <<tmp_out, processed, user, base>>
  BY DEF ReadZlibDict, ZlibLeaves, zlib_unchanged, outside_header, output
<1>2. block_state \in {"NEW_HDR", "ZLIB_DICT"}
  BY DEF ReadZlibDict, Inv, ControlInv
<1>3. ret \notin Refused
  BY <1>1 DEF Inv, ControlInv, Entering, Refused, Errors
<1> QED
  BY <1>1, <1>2, <1>3, HistoryQuiet DEF Decoding, Going

LEMMA HistoryReadTrailer ==
  ASSUME Inv, HistoryInv, ReadTrailer
  PROVE  HistoryInv'
<1>1. /\ pc = "trailer" /\ pc' = "idle" /\ UNCHANGED <<tmp_out, processed, user, base>>
      /\ block_state' \in {"FINISH", "CHECKSUM_CHECK"}
  BY DEF ReadTrailer, check_checksum, output
<1>2. ret \notin Refused
  BY <1>1 DEF Inv, ControlInv, Entering, Refused, Errors
<1> QED
  BY <1>1, <1>2, HistoryQuiet DEF Decoding, Going

(* With an empty buffer nothing has been decoded: the dictionary comes     *)
(* before the text.                                                        *)
LEMMA HistorySetDict ==
  ASSUME Inv, HistoryInv, SetDict
  PROVE  HistoryInv'
<1> DEFINE len == Least(Len(file.dict), Hist)
           dict == Drop(file.dict, Len(file.dict) - len)
<1>1. /\ pc = "idle" /\ pc' = "idle" /\ tmp_out = <<>> /\ block_state = "NEW_HDR"
      /\ tmp_out' = dict /\ processed' = len
      /\ UNCHANGED <<block_state, user, base>>
  BY DEF SetDict, DictDue, block
<1>2. file.dict \in Seq(Nat) /\ Len(file.dict) \in Nat /\ Hist \in Nat \ {0}
  BY InflateAssumption, FilesAssumption DEF Inv, ControlInv
<1>3. len \in Nat /\ len <= Len(file.dict) /\ len <= Hist
  BY <1>2, LeastOf
<1>4. /\ dict \in Seq(Nat) /\ Len(dict) = len
      /\ Drop(dict, len) = <<>>
  <2>1. Len(file.dict) - len \in Nat /\ Len(file.dict) - len <= Len(file.dict)
    BY <1>2, <1>3
  <2> HIDE DEF len
  <2>2. dict \in Seq(Nat) /\ Len(dict) = Len(file.dict) - (Len(file.dict) - len)
    BY <1>2, <2>1, Dropped
  <2> HIDE DEF dict
  <2>3. Len(dict) = len
    BY <1>2, <1>3, <2>2
  <2>4. Drop(dict, len) = <<>>
    BY <1>3, <2>2, <2>3 DEF Drop
  <2> QED
    BY <2>2, <2>3, <2>4
<1> HIDE DEF dict, len
<1>5. Drop(user, base) = <<>>
  <2>1. EndsRight(<<>>, Text)
    BY <1>1 DEF HistoryInv, Going
  <2>2. user \in Seq(Nat) /\ base \in Nat /\ processed = 0
    BY <1>1 DEF Inv, BufferInv
  <2>3. Text = Drop(user, base) \o <<>>
    BY <1>1, <2>2 DEF Text, Drop
  <2>4. Drop(user, base) \in Seq(Nat)
    BY <2>2, DroppedAny
  <2>5. Text = Drop(user, base)
    BY <2>3, <2>4
  <2>6. Least(Hist, Len(Drop(user, base))) <= 0
    BY <2>1, <2>5 DEF EndsRight, EndsAlike
  <2>7. Len(Drop(user, base)) = 0
    BY <1>2, <2>4, <2>6 DEF Least
  <2> QED
    BY <2>4, <2>7
<1>6. Text' = <<>>
  <2>1. Text' = Drop(user, base) \o Drop(dict, len)
    BY <1>1 DEF Text, Drop
  <2> QED
    BY <1>4, <1>5, <2>1
<1>7. EndsRight(tmp_out', Text')
  BY <1>1, <1>4, <1>6, RightNone
<1> QED
  BY <1>1, <1>3, <1>7 DEF HistoryInv

LEMMA HistoryNextMember ==
  ASSUME Inv, HistoryInv, NEW n, NextMember(n)
  PROVE  HistoryInv'
<1>1. /\ pc' = "idle" /\ tmp_out' = <<>> /\ processed' = 0
      /\ user' = user /\ base' = Len(user) /\ user \in Seq(Nat)
  BY DEF NextMember, Inv, BufferInv
<1>2. Text' = <<>>
  <2>1. Text' = Drop(user, Len(user)) \o Drop(<<>>, 0)
    BY <1>1 DEF Text, Drop
  <2>2. Drop(user, Len(user)) = <<>> /\ Drop(<<>>, 0) = <<>>
    BY <1>1 DEF Drop
  <2> QED
    BY <2>1, <2>2
<1>3. EndsRight(tmp_out', Text')
  <2>1. <<>> \in Seq(Nat)
    OBVIOUS
  <2> QED
    BY <1>1, <1>2, <2>1, RightNone
<1> QED
  BY <1>1, <1>3, Sizes DEF HistoryInv

LEMMA HistoryBegin ==
  ASSUME Inv, HistoryInv, Begin
  PROVE  HistoryInv'
<1>1. /\ pc = "begin" /\ pc' \in {"tmp", "drain"}
      /\ pc' = "drain" /\ block_state # "INPUT_DONE" => 2 * Hist <= Len(tmp_out)
      /\ UNCHANGED <<tmp_out, processed, user, base, start_out, block_state, ret>>
  <2>1. 2 * Hist \in Nat /\ Len(tmp_out) \in Nat
    BY Sizes DEF Inv, BufferInv
  <2> QED
    BY <2>1 DEF Begin, block
<1>2. start_out = Len(user) /\ ret \notin Refused
  BY <1>1 DEF Inv, CountInv, ControlInv, Entering, Refused, Errors
<1>3. Text' = Text
  BY <1>1 DEF Text, Drop
<1>4. Going' = Going
  BY <1>1 DEF Going
<1>5. Going => EndsRight(tmp_out, Text) /\ processed <= Hist
  BY <1>1, <1>2 DEF HistoryInv
<1>6. Going => block_state # "INPUT_DONE"
  BY DEF Going
<1> QED
  BY <1>1, <1>2, <1>3, <1>4, <1>5, <1>6 DEF HistoryInv

-----------------------------------------------------------------------------
(* Decoding.                                                               *)

LEMMA TextType ==
  ASSUME Inv
  PROVE  /\ Text = TextOf(Drop(user, base), tmp_out, processed) /\ Text \in Seq(Nat)
         /\ Drop(user, base) \in Seq(Nat) /\ tmp_out \in Seq(Nat) /\ processed \in Nat
         /\ processed <= Len(tmp_out)
<1>1. user \in Seq(Nat) /\ base \in Nat /\ tmp_out \in Seq(Nat) /\ processed \in 0 .. Len(tmp_out)
  BY DEF Inv, BufferInv
<1>2. Text = TextOf(Drop(user, base), tmp_out, processed)
  BY DEF Text, TextOf
<1>3. Drop(user, base) \in Seq(Nat)
  BY <1>1, DroppedAny
<1>4. processed \in Nat /\ processed <= Len(tmp_out)
  BY <1>1
<1> QED
  BY <1>1, <1>2, <1>3, <1>4, TextSeq

LEMMA HistoryReadHeader ==
  ASSUME Inv, HistoryInv, NEW here, NEW after, ReadHeader(here, after),
         (here = "tmp" /\ after = "drain") \/ (here = "out" /\ after = "end")
  PROVE  HistoryInv'
<1> DEFINE hdr == read_header_stateful(Input)
<1>1. /\ pc = here /\ block_state \in {"NEW_HDR", "HDR"}
      /\ read_in' = hdr.in.read /\ next_in' = hdr.in.next /\ tmp_in' = hdr.tmp_in
      /\ block_state' = hdr.block /\ ret' = hdr.ret
      /\ pc' \in {here, after} /\ (ret' # "OK" => pc' = after)
      /\ pc' = after => ret' # "OK" \/ block_state' = "INPUT_DONE"
      /\ UNCHANGED <<tmp_out, processed, user, start_out, base>>
  BY DEF ReadHeader, Loop, Input
<1>2. InputOK(Input) /\ Input.next = next_in /\ Input.read = read_in
  BY DEF Inv, InputInv, InputOK, Input
<1>3. /\ count \in Nat /\ bfinal \in 0 .. 1 /\ tmp_in \in Seq(FileUnits) /\ Len(tmp_in) <= HdrSize
      /\ block_state # "HDR" => tmp_in = <<>>
  <2>1. WithinMember
    BY <1>1 DEF Inv, ControlInv, Decoding
  <2>2. block_state # "HDR" => ~ Half
    BY <1>1, <2>1 DEF Half
  <2> QED
    BY <2>2 DEF Inv, ControlInv, HeaderInv, InputInv
<1>4. HeaderReadOK(hdr) /\ HeaderWaitsFor(Input, hdr)
  BY <1>1, <1>2, <1>3, BlockHeaderOK, HeaderWaits
<1> HIDE DEF hdr
<1>5. ret' \in {"OK", "END_INPUT", "INVALID_BLOCK"} /\ block_state' # "INPUT_DONE"
  BY <1>1, <1>4 DEF HeaderReadOK
<1>6. ret' = "END_INPUT" => Stalled'
  BY <1>1, <1>4 DEF HeaderWaitsFor, Stalled
<1>7. Stalled => ret' = "END_INPUT"
  BY <1>1, <1>2, <1>4 DEF HeaderWaitsFor, Stalled
<1>8. Text' = Text /\ Produced' = Produced
  BY <1>1 DEF Text, Produced, Drop
<1>9. Going
  BY <1>1 DEF Going
<1>10. CASE here = "tmp"
  <2>1. EndsRight(tmp_out, Text) /\ start_out = Len(user) /\ processed <= Hist
    BY <1>1, <1>9, <1>10 DEF HistoryInv
  <2>2. pc' \in {"tmp", "drain"} /\ (pc' = "drain" /\ ret' \notin Errors => Stalled')
    BY <1>1, <1>5, <1>6, <1>10 DEF Errors
  <2> QED
    BY <1>1, <1>8, <2>1, <2>2 DEF HistoryInv
<1>11. CASE here = "out"
  <2>1. Hist <= Len(Produced) \/ (Stalled /\ EndsRight(tmp_out, Text))
    BY <1>1, <1>9, <1>11 DEF HistoryInv
  <2>2. processed = Len(tmp_out)
    BY <1>1, <1>11 DEF Inv, BufferInv
  <2>3. pc' \in {"out", "end"} /\ (Stalled => pc' = "end")
    BY <1>1, <1>7, <1>11
  <2>4. Hist <= Len(Produced) => FromUser'
    <3>1. Len(Produced) \in Nat
      BY DroppedAny DEF Inv, BufferInv, Produced
    <3> QED
      BY <1>1, <1>8, <2>2, <3>1, Sizes DEF FromUser
  <2>5. CASE pc' = "end"
    BY <1>1, <1>8, <2>1, <2>2, <2>4, <2>5 DEF HistoryInv
  <2>6. CASE pc' = "out"
    BY <1>1, <1>8, <2>1, <2>3, <2>6 DEF HistoryInv
  <2> QED
    BY <2>3, <2>5, <2>6
<1> QED
  BY <1>10, <1>11

(* Want of input stalls the decoder, and a stalled one writes nothing.     *)
LEMMA StallsAfter ==
  ASSUME Inv, NEW history \in Seq(Nat), NEW space \in Nat, NEW dec, dec = Decoded(history, space),
         NEW here, NEW after, Decode(dec, here, after), WithinMember
  PROVE  /\ dec.ret = "END_INPUT" => Stalled'
         /\ Stalled => /\ dec.out = <<>>
                       /\ dec.ret = "END_INPUT" \/ dec.block = "INPUT_DONE"
<1>1. /\ block_state \in {"TYPE0", "CODED"}
      /\ read_in' = dec.in.read /\ next_in' = dec.in.next /\ block_state' = dec.block
      /\ tmp_in' = tmp_in /\ pack' = pack /\ trunc' = trunc
  BY DEF Decode, params
<1>2. /\ InputOK(Input) /\ Input.read = read_in /\ Input.next = next_in
      /\ count \in Nat /\ bfinal \in 0 .. 1 /\ pack \in Packs
  BY DEF Inv, InputInv, InputOK, Input, ControlInv, HeaderInv
<1>3. tmp_in = <<>>
  BY <1>1 DEF Inv, InputInv, Half
<1>4. CASE block_state = "TYPE0"
  <2>1. dec = decode_literal_block(Input, space)
    BY <1>4 DEF Decoded, Input
  <2>2. /\ dec.ret = "END_INPUT" => /\ dec.in.read = <<>> /\ dec.in.next = <<>>
                                    /\ dec.block \in {"TYPE0", "NEW_HDR"}
        /\ read_in = <<>> /\ next_in = <<>> =>
             /\ dec.out = <<>>
             /\ dec.ret = "END_INPUT" \/ dec.block = "INPUT_DONE"
    BY <1>2, <2>1, StoredWaits
  <2>3. Short(<<>> \o <<>>)
    BY DEF Short
  <2>4. dec.ret = "END_INPUT" => Stalled'
    BY <1>1, <1>3, <2>2, <2>3 DEF Stalled
  <2>5. Stalled => read_in = <<>> /\ next_in = <<>>
    BY <1>4 DEF Stalled
  <2> QED
    BY <2>2, <2>4, <2>5
<1>5. CASE block_state = "CODED"
  <2>1. dec = decode_huffman_code(Input, history, space)
    BY <1>5 DEF Decoded, Input
  <2>2. /\ dec.ret = "END_INPUT" <=> NeedsInput(Input)
        /\ NeedsInput(Input) => dec = [ret |-> "END_INPUT", in |-> inflate_in_load(Input),
                                       out |-> <<>>, lits |-> <<>>, copy |-> NoCopy,
                                       block |-> "CODED", len0 |-> count]
    BY <1>2, <2>1, CodeWaits
  <2>3. PICK loaded : loaded = inflate_in_load(Input)
    OBVIOUS
  <2>4. inflate_in_load(loaded) = loaded /\ InputOK(loaded)
    BY <1>2, <2>3, LoadAgain, LoadOK
  <2>5. SymCount(loaded.read)' = SymCount(loaded.read)
    BY <1>1 DEF SymCount, Literals
  <2>6. ASSUME dec.ret = "END_INPUT"
        PROVE  Stalled'
    <3>1. NeedsMore(loaded, SymCount(loaded.read))
      BY <2>2, <2>3, <2>6 DEF NeedsInput
    <3>2. dec.in = loaded /\ dec.block = "CODED"
      BY <2>2, <2>3, <2>6
    <3>3. [read |-> read_in', next |-> next_in'] = loaded
      BY <1>1, <2>4, <3>2 DEF InputOK
    <3>4. NeedsInput(Input)'
      BY <2>4, <2>5, <3>1, <3>3 DEF NeedsInput, Input
    <3> QED
      BY <1>1, <3>2, <3>4 DEF Stalled
  <2>7. Stalled => NeedsInput(Input)
    BY <1>5 DEF Stalled
  <2> QED
    BY <2>2, <2>6, <2>7
<1> QED
  BY <1>1, <1>4, <1>5

LEMMA HistoryDecodeTmp ==
  ASSUME Inv, HistoryInv, DecodeTmp
  PROVE  HistoryInv'
<1>1. tmp_out \in Seq(Nat) /\ Len(tmp_out) \in Nat /\ 2 * Hist - Len(tmp_out) \in Nat
  BY Sizes DEF DecodeTmp, Decode, Inv, BufferInv
<1> SUFFICES ASSUME NEW space \in Nat, space = 2 * Hist - Len(tmp_out),
                    NEW dec, dec = Decoded(tmp_out, space), Decode(dec, "tmp", "drain"),
                    tmp_out' = tmp_out \o dec.out, UNCHANGED <<user, avail_out>>
             PROVE  HistoryInv'
  BY <1>1 DEF DecodeTmp
<1>2. /\ pc = "tmp" /\ pc' \in {"tmp", "drain"} /\ block_state \in {"TYPE0", "CODED"}
      /\ UNCHANGED <<processed, start_out, base>>
      /\ ret' = dec.ret /\ block_state' = dec.block
      /\ pc' = "drain" => ret' # "OK" \/ block_state' = "INPUT_DONE"
  BY DEF Decode, Loop
<1>3. DecodedOK(dec, space)
  BY <1>1, DecodersOK
<1>4. WithinMember
  BY <1>2 DEF Inv, ControlInv, Decoding
<1>5. dec.ret = "END_INPUT" => Stalled'
  BY <1>1, <1>4, StallsAfter
<1>6. /\ dec.out \in Seq(Nat) /\ ret' \in {"OK", "END_INPUT", "OUT_OVERFLOW"} \cup Errors
      /\ ret' = "OUT_OVERFLOW" => Len(dec.out) = space
  BY <1>2, <1>3 DEF DecodedOK
<1>7. Len(tmp_out') = Len(tmp_out) + Len(dec.out)
  BY <1>1, <1>6, Joined
<1>8. EndsRight(tmp_out, Text) /\ start_out = Len(user) /\ processed <= Hist
  BY <1>2 DEF HistoryInv, Going
<1>9. Text' = Text \o dec.out
  <2>1. PICK out \in Seq(Nat) : out = dec.out
    BY <1>6
  <2>2. TextOf(Drop(user, base), tmp_out \o out, processed) = Text \o out
    <3>1. PICK given \in Seq(Nat) : given = Drop(user, base)
      BY TextType
    <3>2. TextOf(given, tmp_out \o out, processed) = TextOf(given, tmp_out, processed) \o out
      <4>1. tmp_out \in Seq(Nat) /\ processed \in Nat /\ processed <= Len(tmp_out)
        BY TextType
      <4> QED
        BY <4>1, TextMore
    <3>3. TextOf(given, tmp_out, processed) = Text
      BY <3>1, TextType
    <3> QED
      BY <3>1, <3>2, <3>3, Zenon
  <2>3. Text' = Drop(user, base) \o Drop(tmp_out \o out, processed)
    BY <1>2, <2>1 DEF Text, Drop
  <2> QED
    BY <2>1, <2>2, <2>3 DEF TextOf
<1>10. EndsRight(tmp_out', Text')
  BY <1>6, <1>8, <1>9, TextType, RightMore
<1>11. ASSUME Going', pc' = "drain", ret' \notin Errors
       PROVE  2 * Hist <= Len(tmp_out') \/ Stalled'
  <2>1. ret' \in {"END_INPUT", "OUT_OVERFLOW"}
    BY <1>2, <1>6, <1>11 DEF Going
  <2>2. CASE ret' = "END_INPUT"
    BY <1>2, <1>5, <2>2
  <2>3. CASE ret' = "OUT_OVERFLOW"
    <3>1. Len(dec.out) = space /\ 2 * Hist \in Nat
      BY <1>6, <2>3, Sizes
    <3> QED
      BY <1>1, <1>7, <3>1
  <2> QED
    BY <2>1, <2>2, <2>3
<1> QED
  BY <1>2, <1>8, <1>10, <1>11 DEF HistoryInv

LEMMA HistoryDecodeOut ==
  ASSUME Inv, HistoryInv, DecodeOut
  PROVE  HistoryInv'
<1>1. user \in Seq(Nat) /\ avail_out \in Nat /\ start_out \in Nat /\ start_out <= Len(user)
  BY DEF Inv, BufferInv
<1>2. PICK produced \in Seq(Nat) : produced = Produced
  BY <1>1, DroppedAny DEF Produced
<1> SUFFICES ASSUME NEW dec, dec = Decoded(produced, avail_out), Decode(dec, "out", "end"),
                    user' = user \o dec.out, tmp_out' = tmp_out
             PROVE  HistoryInv'
  BY <1>2 DEF DecodeOut, Produced
<1>3. /\ pc = "out" /\ pc' \in {"out", "end"} /\ block_state \in {"TYPE0", "CODED"}
      /\ UNCHANGED <<processed, start_out, base>>
      /\ ret' = dec.ret /\ block_state' = dec.block
      /\ ret' # "OK" \/ block_state' = "INPUT_DONE" => pc' = "end"
  BY DEF Decode, Loop
<1>4. DecodedOK(dec, avail_out)
  BY <1>1, DecodersOK
<1>5. WithinMember /\ processed = Len(tmp_out)
  BY <1>3 DEF Inv, ControlInv, BufferInv, Decoding
<1>6. Stalled => /\ dec.out = <<>>
                 /\ dec.ret = "END_INPUT" \/ dec.block = "INPUT_DONE"
  BY <1>1, <1>5, StallsAfter
<1>7. Hist <= Len(produced) \/ (Stalled /\ EndsRight(tmp_out, Text))
  BY <1>2, <1>3 DEF HistoryInv, Going
<1>8. CASE Hist <= Len(produced)
  <2>1. PICK out \in Seq(Nat) : out = dec.out
    BY <1>4 DEF DecodedOK
  <2>2. Drop(user \o out, start_out) = produced \o out
    BY <1>1, <1>2, DropJoined DEF Produced
  <2>3. Produced' = produced \o out
    BY <1>3, <2>1, <2>2 DEF Produced, Drop
  <2>4. Len(Produced') = Len(produced) + Len(out)
    BY <2>3, Joined
  <2>5. Hist <= Len(Produced')
    BY <1>8, <2>4, Sizes
  <2>6. FromUser'
    BY <1>3, <1>5, <2>5 DEF FromUser
  <2> QED
    BY <1>3, <2>5, <2>6 DEF HistoryInv
<1>9. CASE Stalled /\ EndsRight(tmp_out, Text)
  <2>1. pc' = "end"
    BY <1>3, <1>6, <1>9
  <2>2. user' = user
    BY <1>1, <1>6, <1>9
  <2>3. Text' = Text
    BY <1>3, <2>2 DEF Text, Drop
  <2> QED
    BY <1>9, <2>1, <2>3 DEF HistoryInv
<1> QED
  BY <1>7, <1>8, <1>9

(* What is handed over comes out of the buffer; the text stays the same    *)
(* but for the overflow, which is its next part.                           *)
LEMMA HistoryDrain ==
  ASSUME Inv, HistoryInv, Drain
  PROVE  HistoryInv'
<1> DEFINE buffer == Flushed(tmp_out)
           copy   == Least(Len(buffer) - processed, avail_out)
           given  == SubSeq(buffer, processed + 1, processed + copy)
<1>1. /\ pc = "drain" /\ pc' \in {"idle", "out", "end"}
      /\ tmp_out' = buffer /\ processed' = processed + copy /\ user' = user \o given
      /\ UNCHANGED <<read_in, next_in, tmp_in, block_state, count, pack, trunc, start_out, base>>
      /\ pc' = "idle" => ret' \in Errors
      /\ pc' # "idle" => ret \notin Errors
      /\ pc' = "out" => Len(buffer) - processed - copy = 0
  BY DEF Drain, params, input, block
<1>2. /\ tmp_out \in Seq(Nat) /\ user \in Seq(Nat) /\ Len(tmp_out) \in Nat /\ Len(user) \in Nat
      /\ processed \in Nat /\ processed <= Len(tmp_out) /\ avail_out \in Nat
      /\ base \in Nat /\ base <= Len(user)
      /\ write_overflow \in Seq(Nat) /\ copy_overflow \in [len : 0 .. MaxMatch, dist : 0 .. Hist]
  BY DEF Inv, BufferInv
<1>3. /\ buffer \in Seq(Nat) /\ Len(buffer) \in Nat /\ Len(tmp_out) <= Len(buffer)
  <2> HIDE DEF buffer
  <2>1. buffer \in Seq(Nat) /\ Len(buffer) = Len(tmp_out) + OverflowLen /\ OverflowLen \in Nat
    BY <1>2, FlushedOK DEF buffer
  <2> QED
    BY <1>2, <2>1
<1>4. PICK more \in Seq(Nat) : buffer = tmp_out \o more
  BY <1>2, FlushedMore
<1> HIDE DEF buffer
<1>5. copy \in Nat /\ processed + copy \in Nat /\ processed <= processed + copy
      /\ processed + copy <= Len(buffer)
  <2>1. Len(buffer) - processed \in Nat
    BY <1>2, <1>3
  <2>2. copy \in Nat /\ copy <= Len(buffer) - processed
    BY <1>2, <2>1, LeastOf
  <2> HIDE DEF copy
  <2> QED
    BY <1>2, <1>3, <2>2
<1> HIDE DEF copy
<1>6. given \in Seq(Nat) /\ Len(given) = copy
  <2>1. PICK p \in Nat, q \in Nat : p = processed /\ q = processed + copy
    BY <1>2, <1>5
  <2>2. q <= Len(buffer) /\ p <= q /\ q - p = copy
    BY <1>2, <1>5, <2>1
  <2>3. SubSeq(buffer, p + 1, q) \in Seq(Nat) /\ Len(SubSeq(buffer, p + 1, q)) = q - p
    BY <1>3, <2>2
  <2> QED
    BY <2>1, <2>2, <2>3
<1>7. CASE ~ Going
  <2>1. ~ Going'
    BY <1>1, <1>7 DEF Going
  <2>2. pc' \notin {"tmp", "drain"}
    BY <1>1
  <2> QED
    BY <2>1, <2>2 DEF HistoryInv
<1>8. CASE Going
  <2>1. EndsRight(tmp_out, Text) /\ start_out = Len(user) /\ processed <= Hist
    BY <1>1, <1>8 DEF HistoryInv
  <2>2. pc' # "idle" => 2 * Hist <= Len(tmp_out) \/ Stalled
    BY <1>1, <1>8 DEF HistoryInv
  <2>3. Text' = Text \o more
    <3>1. PICK mine \in Seq(Nat) : mine = Drop(user, base)
      BY TextType
    <3>2. PICK q \in Nat : q = processed + copy
      BY <1>5
    <3>3. Drop(user \o given, base) = mine \o given
      <4> HIDE DEF given
      <4> QED
        BY <1>2, <1>6, <3>1, DropJoined
    <3>4. Text' = TextOf(mine \o given, buffer, q)
      <4>1. Text' = Drop(user', base') \o Drop(tmp_out', processed')
        BY DEF Text, Drop
      <4> HIDE DEF given
      <4> QED
        BY <1>1, <3>2, <3>3, <4>1, Zenon DEF TextOf
    <3>5. TextOf(mine \o given, buffer, q) = TextOf(mine, buffer, processed)
      BY <1>2, <1>3, <1>5, <3>2, TextGiven
    <3>6. TextOf(mine, tmp_out \o more, processed) = TextOf(mine, tmp_out, processed) \o more
      BY <1>2, TextMore, SMTT(60)
    <3>7. TextOf(mine, tmp_out, processed) = Text
      <4>1. Text = TextOf(Drop(user, base), tmp_out, processed)
        BY TextType, Zenon
      <4> QED
        BY <3>1, <4>1, Zenon
    <3> HIDE DEF given
    <3> QED
      BY <1>4, <3>4, <3>5, <3>6, <3>7, Zenon
  <2>4. EndsRight(tmp_out', Text')
    <3>1. EndsRight(tmp_out \o more, Text \o more)
      BY <1>2, <2>1, TextType, RightMore
    <3> QED
      BY <1>1, <1>4, <2>3, <3>1
  <2>5. ASSUME pc' = "out"
        PROVE  Hist <= Len(Produced') \/ Stalled'
    <3>1. CASE 2 * Hist <= Len(tmp_out)
      <4>1. Len(buffer) = processed + copy
        BY <1>1, <1>2, <1>3, <1>5, <2>5
      <4>2. Hist <= copy
        BY <1>2, <1>3, <1>5, <2>1, <3>1, <4>1, Sizes
      <4>3. Drop(user \o given, Len(user)) = Drop(user, Len(user)) \o given
        <5>1. PICK n \in Nat : n = Len(user)
          BY <1>2
        <5>2. n <= Len(user)
          BY <5>1
        <5> HIDE DEF given
        <5>3. Drop(user \o given, n) = Drop(user, n) \o given
          BY <1>2, <1>6, <5>2, DropJoined
        <5> QED
          BY <5>1, <5>3
      <4>4. Drop(user, Len(user)) \o given = given
        <5>1. Drop(user, Len(user)) = <<>>
          BY <1>2 DEF Drop
        <5> HIDE DEF given
        <5>2. <<>> \o given = given
          BY <1>6
        <5> QED
          BY <5>1, <5>2
      <4>5. Produced' = given
        <5>1. Produced' = Drop(user', start_out')
          BY DEF Produced, Drop
        <5> HIDE DEF given
        <5> QED
          BY <1>1, <2>1, <4>3, <4>4, <5>1
      <4> HIDE DEF given
      <4> QED
        BY <1>6, <4>2, <4>5
    <3>2. CASE Stalled
      <4>1. NeedsInput(Input)' = NeedsInput(Input)
        <5>1. PICK loaded : loaded = inflate_in_load(Input)
          OBVIOUS
        <5>2. SymCount(loaded.read)' = SymCount(loaded.read)
          BY <1>1 DEF SymCount, Literals
        <5>3. Input' = Input
          BY <1>1 DEF Input
        <5> QED
          BY <5>1, <5>2, <5>3 DEF NeedsInput
      <4> QED
        BY <1>1, <3>2, <4>1 DEF Stalled
    <3> QED
      BY <1>1, <2>2, <2>5, <3>1, <3>2
  <2>6. ret' \in Errors => ret' \in Refused
    BY DEF Refused
  <2> QED
    BY <1>1, <2>4, <2>5, <2>6 DEF HistoryInv
<1> QED
  BY <1>7, <1>8

LEMMA DropsTwice ==
  ASSUME NEW s \in Seq(Nat), NEW a \in Nat, NEW b \in Nat, a + b <= Len(s),
         NEW v, Drops(v, s, a), NEW w, Drops(w, v, b), NEW all, Drops(all, s, a + b)
  PROVE  w = all
<1>1. PICK n \in Nat : n = Len(s)
  OBVIOUS
<1>2. Len(v) = n - a /\ \A i \in 1 .. n - a : v[i] = s[a + i]
  BY <1>1 DEF Drops
<1>3. w \in Seq(Nat) /\ Len(w) = (n - a) - b /\ \A i \in 1 .. (n - a) - b : w[i] = v[b + i]
  BY <1>2 DEF Drops
<1>4. /\ all \in Seq(Nat) /\ Len(all) = n - (a + b)
      /\ \A i \in 1 .. n - (a + b) : all[i] = s[(a + b) + i]
  BY <1>1 DEF Drops
<1>5. a + b <= n /\ (n - a) - b = n - (a + b)
  BY <1>1
<1>6. ASSUME NEW i \in 1 .. n - (a + b)
      PROVE  w[i] = all[i]
  <2>1. b + i \in 1 .. n - a /\ a + (b + i) = (a + b) + i
    BY <1>5
  <2> QED
    BY <1>2, <1>3, <1>4, <1>5, <2>1
<1> QED
  BY <1>3, <1>4, <1>5, <1>6, SameSeq

LEMMA DropTwice ==
  ASSUME NEW s \in Seq(Nat), NEW a \in Nat, NEW b \in Nat, a + b <= Len(s)
  PROVE  Drop(Drop(s, a), b) = Drop(s, a + b)
<1>1. a <= Len(s) /\ b <= Len(s) - a
  OBVIOUS
<1>2. PICK v : v = Drop(s, a)
  OBVIOUS
<1>3. v \in Seq(Nat) /\ Len(v) = Len(s) - a /\ Drops(v, s, a)
  BY <1>1, <1>2, Dropped, DroppedParts
<1>4. b <= Len(v)
  BY <1>1, <1>3
<1>5. Drops(Drop(v, b), v, b)
  BY <1>3, <1>4, DroppedParts
<1>6. Drops(Drop(s, a + b), s, a + b)
  BY DroppedParts
<1>7. Drop(v, b) = Drop(s, a + b)
  BY <1>3, <1>5, <1>6, DropsTwice
<1> QED
  BY <1>2, <1>7

(* Whatever a call keeps, it keeps the end of the text.                    *)
LEMMA KeptRight ==
  ASSUME Inv, HistoryInv, Going, pc = "end"
  PROVE  /\ EndsRight(Kept.buffer, TextOf(Drop(user, base), Kept.buffer, Kept.processed))
         /\ Kept.processed <= Hist
<1>1. /\ tmp_out \in Seq(Nat) /\ user \in Seq(Nat) /\ Len(tmp_out) \in Nat /\ Len(user) \in Nat
      /\ processed \in Nat /\ processed <= Len(tmp_out)
      /\ start_out \in Nat /\ start_out <= Len(user) /\ base \in Nat /\ Hist \in Nat
  BY Sizes DEF Inv, BufferInv
<1>2. base <= start_out
  BY DEF Inv, CountInv, Decoding
<1>3. PICK mine \in Seq(Nat) : mine = Drop(user, base)
  BY TextType
<1>4. Len(mine) = Len(user) - base
  <2>1. base \in Nat /\ base <= Len(user) /\ user \in Seq(Nat)
    BY <1>1, <1>2
  <2> QED
    BY <1>3, <2>1, Dropped
<1>5. Text = TextOf(mine, tmp_out, processed)
  BY <1>3, TextType
<1>6. Kept = IF FromUser THEN [buffer |-> Drop(Produced, Len(Produced) - Hist), processed |-> Hist]
             ELSE IF Shifts THEN [buffer |-> Drop(tmp_out, Shift), processed |-> processed - Shift]
             ELSE [buffer |-> tmp_out, processed |-> processed]
  BY DEF Kept, Going
<1>7. FromUser \/ EndsRight(tmp_out, Text)
  BY DEF HistoryInv
<1>8. CASE FromUser
  <2>1. PICK produced \in Seq(Nat) : produced = Produced
    BY <1>1, DroppedAny DEF Produced
  <2>2. Len(produced) = Len(user) - start_out
    BY <1>1, <2>1, Dropped DEF Produced
  <2>3. PICK cut \in Nat : cut = Len(produced) - Hist
    <3>1. Hist <= Len(produced)
      BY <1>8, <2>1 DEF FromUser
    <3>2. Len(produced) \in Nat /\ Hist \in Nat
      BY <1>1
    <3>3. Len(produced) - Hist \in Nat
      BY <3>1, <3>2
    <3> QED
      BY <3>3
  <2>4. PICK kept : kept = Drop(produced, cut)
    OBVIOUS
  <2>5. kept \in Seq(Nat) /\ Len(kept) = Hist
    <3>1. cut <= Len(produced) /\ Len(produced) - cut = Hist
      BY <1>1, <2>2, <2>3
    <3> QED
      BY <2>4, <3>1, Dropped
  <2>6. Kept.buffer = kept /\ Kept.processed = Hist
    BY <1>6, <1>8, <2>1, <2>3, <2>4
  <2>7. PICK more \in Nat : more = start_out - base
    BY <1>1, <1>2
  <2>8. /\ base + more = start_out /\ base + more <= Len(user)
        /\ more + cut <= Len(mine) /\ (more + cut) + Hist <= Len(mine)
    BY <1>1, <1>4, <2>2, <2>3, <2>7
  <2>9. produced = Drop(mine, more)
    <3>1. user \in Seq(Nat) /\ base \in Nat
      BY <1>1
    <3>2. Drop(Drop(user, base), more) = Drop(user, base + more)
      BY <2>8, <3>1, DropTwice
    <3>3. Drop(user, base + more) = produced
      BY <2>1, <2>8 DEF Produced
    <3> QED
      BY <1>3, <3>2, <3>3, Zenon
  <2>10. kept = Drop(mine, more + cut)
    BY <2>4, <2>8, <2>9, DropTwice
  <2>11. EndsRight(kept, mine)
    BY <2>8, <2>10, LastRight
  <2>12. TextOf(mine, kept, Hist) = mine
    BY <2>5, TextAll
  <2> QED
    BY <1>1, <1>3, <2>6, <2>11, <2>12
<1>9. CASE ~ FromUser /\ Shifts
  <2>1. Len(tmp_out) - Hist \in Nat /\ Hist <= processed
    BY <1>1, <1>9 DEF Shifts
  <2>2. PICK shift \in Nat : shift = Shift
    BY <1>1, <2>1, LeastOf DEF Shift
  <2>3. /\ shift <= processed /\ shift <= Len(tmp_out) - Hist
        /\ (shift = Len(tmp_out) - Hist \/ shift = processed)
    BY <1>1, <2>1, <2>2, LeastOf DEF Shift
  <2>4. PICK from \in Nat : from = processed - shift
    BY <1>1, <2>3
  <2>5. /\ shift + from = processed /\ shift + from <= Len(tmp_out) /\ from <= Hist
        /\ shift + Hist <= Len(tmp_out)
    BY <1>1, <2>1, <2>3, <2>4
  <2>6. Kept.buffer = Drop(tmp_out, shift) /\ Kept.processed = from
    BY <1>6, <1>9, <2>2, <2>4
  <2>7. Drop(Drop(tmp_out, shift), from) = Drop(tmp_out, processed)
    <3>1. Drop(Drop(tmp_out, shift), from) = Drop(tmp_out, shift + from)
      <4>1. tmp_out \in Seq(Nat) /\ shift + from <= Len(tmp_out)
        BY <1>1, <2>5
      <4> QED
        BY <4>1, DropTwice
    <3> QED
      BY <2>5, <3>1, Zenon
  <2>8. TextOf(mine, Drop(tmp_out, shift), from) = Text
    BY <1>5, <2>7 DEF TextOf
  <2>9. EndsRight(Drop(tmp_out, shift), Text)
    BY <1>1, <1>7, <1>9, <2>5, TextType, RightDrop
  <2> QED
    BY <1>3, <2>5, <2>6, <2>8, <2>9
<1>10. CASE ~ FromUser /\ ~ Shifts
  <2>1. Kept.buffer = tmp_out /\ Kept.processed = processed
    BY <1>6, <1>10
  <2>2. processed <= Hist
    BY <1>1, <1>10 DEF Shifts
  <2> QED
    BY <1>3, <1>5, <1>7, <1>10, <2>1, <2>2
<1> QED
  BY <1>8, <1>9, <1>10

LEMMA HistoryEnd ==
  ASSUME Inv, HistoryInv, End
  PROVE  HistoryInv'
<1> DEFINE kept == Kept.buffer
           from == Kept.processed
<1>1. /\ pc = "end" /\ pc' = "idle" /\ tmp_out' = Flushed(kept) /\ processed' = from
      /\ UNCHANGED <<user, base>>
  BY DEF End
<1>2. Going' => Going
  BY DEF End, Going, check_checksum
<1>3. CASE ~ Going'
  BY <1>1, <1>3 DEF HistoryInv
<1>4. CASE Going'
  <2>1. /\ kept \in Seq(Nat) /\ from \in Nat /\ from <= Len(kept)
    BY <1>1, KeptOK
  <2>2. EndsRight(kept, TextOf(Drop(user, base), kept, from)) /\ from <= Hist
    BY <1>1, <1>2, <1>4, KeptRight
  <2> HIDE DEF kept, from
  <2>3. write_overflow \in Seq(Nat) /\ copy_overflow \in [len : 0 .. MaxMatch, dist : 0 .. Hist]
    BY DEF Inv, BufferInv
  <2>4. PICK more \in Seq(Nat) : Flushed(kept) = kept \o more
    BY <2>1, <2>3, FlushedMore
  <2>5. PICK mine \in Seq(Nat) : mine = Drop(user, base)
    BY TextType
  <2>6. TextOf(mine, kept \o more, from) = TextOf(mine, kept, from) \o more
    BY <2>1, TextMore
  <2>7. TextOf(mine, kept, from) \in Seq(Nat)
    BY <2>1, TextSeq
  <2>8. EndsRight(kept \o more, TextOf(mine, kept, from) \o more)
    BY <2>1, <2>2, <2>5, <2>7, RightMore
  <2>9. Text' = TextOf(mine, kept \o more, from)
    <3>1. Text' = Drop(user', base') \o Drop(tmp_out', processed')
      BY DEF Text, Drop
    <3> QED
      BY <1>1, <2>4, <2>5, <3>1, Zenon DEF TextOf
  <2>10. EndsRight(tmp_out', Text')
    BY <1>1, <2>4, <2>6, <2>8, <2>9
  <2> QED
    BY <1>1, <2>2, <2>10 DEF HistoryInv
<1> QED
  BY <1>3, <1>4

LEMMA HistoryStutter ==
  ASSUME Inv, HistoryInv, UNCHANGED vars
  PROVE  HistoryInv'
<1>1. /\ UNCHANGED <<tmp_out, processed, user, base, start_out, pc, ret, block_state>>
      /\ UNCHANGED <<read_in, next_in, tmp_in, pack, trunc>>
  BY DEF vars, params, input, block, output
<1>2. Text' = Text /\ Produced' = Produced
  BY <1>1 DEF Text, Produced, Drop
<1>3. Stalled' = Stalled
  <2>1. PICK loaded : loaded = inflate_in_load(Input)
    OBVIOUS
  <2>2. SymCount(loaded.read)' = SymCount(loaded.read)
    BY <1>1 DEF SymCount, Literals
  <2>3. Input' = Input
    BY <1>1 DEF Input
  <2>4. NeedsInput(Input)' = NeedsInput(Input)
    BY <2>1, <2>2, <2>3 DEF NeedsInput
  <2> QED
    BY <1>1, <2>4 DEF Stalled
<1>4. Going' = Going /\ FromUser' = FromUser
  BY <1>1, <1>2 DEF Going, FromUser
<1> QED
  BY <1>1, <1>2, <1>3, <1>4 DEF HistoryInv

LEMMA HistoryNext ==
  ASSUME Inv, HistoryInv, [Next]_vars
  PROVE  HistoryInv'
<1>1. CASE UNCHANGED vars
  BY <1>1, HistoryStutter
<1>2. ASSUME NEW n \in InSizes, (\E o \in OutSizes : Call(n, o)) \/ CallHeader(n) \/ NextMember(n)
      PROVE  HistoryInv'
  BY <1>2, HistoryCall, HistoryCallHeader, HistoryNextMember
<1>3. CASE SetDict \/ StartHeader \/ WithinHeader \/ EndHeader \/ ReadZlibBase \/ ReadZlibDict
  BY <1>3, HistorySetDict, HistoryStartHeader, HistoryWithinHeader, HistoryEndHeader,
     HistoryReadZlibBase, HistoryReadZlibDict
<1>4. CASE ReadTrailer \/ Begin \/ Drain \/ End
  BY <1>4, HistoryReadTrailer, HistoryBegin, HistoryDrain, HistoryEnd
<1>5. CASE ReadHeader("tmp", "drain") \/ DecodeTmp \/ ReadHeader("out", "end") \/ DecodeOut
  BY <1>5, HistoryReadHeader, HistoryDecodeTmp, HistoryDecodeOut
<1> QED
  BY <1>1, <1>2, <1>3, <1>4, <1>5 DEF Next

LEMMA HistoryInvariant == Spec => [](Inv /\ HistoryInv)
<1>1. Init => Inv /\ HistoryInv
  BY InvInit, HistoryInit
<1>2. Inv /\ HistoryInv /\ [Next]_vars => (Inv /\ HistoryInv)'
  BY InvNext, HistoryNext
<1> QED
  BY <1>1, <1>2, PTL DEF Spec

LEMMA RightIsSuffix ==
  ASSUME NEW s \in Seq(Nat), NEW t \in Seq(Nat), EndsRight(s, t)
  PROVE  IsSuffix(Drop(t, Len(t) - Least(Hist, Len(t))), s)
<1>1. PICK a \in Nat, b \in Nat : a = Len(s) /\ b = Len(t)
  OBVIOUS
<1>2. PICK n \in Nat : n = Least(Hist, b)
  BY <1>1, LeastOf, Sizes
<1>3. n <= a /\ n <= b /\ \A i \in 0 .. n - 1 : s[a - i] = t[b - i]
  BY <1>1, <1>2 DEF EndsRight, EndsAlike
<1>4. PICK part : part = Drop(t, b - n)
  OBVIOUS
<1>5. b - n \in Nat /\ b - n <= Len(t) /\ b - (b - n) = n
  BY <1>1, <1>3
<1>6. part \in Seq(Nat) /\ Len(part) = n /\ \A i \in 1 .. n : part[i] = t[(b - n) + i]
  <2>1. Drops(part, t, b - n)
    BY <1>4, <1>5, DroppedParts
  <2> QED
    BY <1>1, <1>5, <2>1 DEF Drops
<1>7. /\ Reverse(part) = [i \in 1 .. n |-> part[(n - i) + 1]]
      /\ Reverse(s) = [i \in 1 .. a |-> s[(a - i) + 1]]
  BY <1>1, <1>6 DEF Reverse
<1>8. PICK p, q : p = Reverse(part) /\ q = Reverse(s)
  OBVIOUS
<1>9. /\ \A i \in 1 .. n : part[(n - i) + 1] \in Nat
      /\ \A i \in 1 .. a : s[(a - i) + 1] \in Nat
  <2>1. /\ \A i \in 1 .. n : (n - i) + 1 \in 1 .. n
        /\ \A i \in 1 .. a : (a - i) + 1 \in 1 .. a
    OBVIOUS
  <2> QED
    BY <1>1, <1>6, <2>1
<1>10. p \in Seq(Nat) /\ Len(p) = n /\ q \in Seq(Nat) /\ Len(q) = a
  BY <1>7, <1>8, <1>9
<1>11. ASSUME NEW i \in 1 .. n
       PROVE  p[i] = q[i]
  <2>1. p[i] = part[(n - i) + 1] /\ q[i] = s[(a - i) + 1]
    BY <1>3, <1>7, <1>8
  <2>2. part[(n - i) + 1] = t[(b - n) + ((n - i) + 1)]
    <3>1. (n - i) + 1 \in 1 .. n
      OBVIOUS
    <3> QED
      BY <1>6, <3>1
  <2>3. /\ i - 1 \in 0 .. n - 1 /\ a - (i - 1) = (a - i) + 1
        /\ b - (i - 1) = (b - n) + ((n - i) + 1)
    OBVIOUS
  <2>4. s[a - (i - 1)] = t[b - (i - 1)]
    BY <1>3, <2>3
  <2> QED
    BY <2>1, <2>2, <2>3, <2>4
<1>12. SubSeq(p, 1, n) = SubSeq(q, 1, n)
  <2>1. /\ SubSeq(p, 1, n) = [i \in 1 .. n |-> p[i]]
        /\ SubSeq(q, 1, n) = [i \in 1 .. n |-> q[i]]
    BY <1>3, <1>10
  <2> QED
    BY <1>11, <2>1
<1>13. SubSeq(p, 1, n) = p
  BY <1>10
<1>14. IsSuffix(part, s)
  <2>1. IsPrefix(p, q)
    BY <1>3, <1>10, <1>12 DEF IsPrefix
  <2> QED
    BY <1>8, <2>1 DEF IsSuffix
<1> QED
  BY <1>1, <1>2, <1>4, <1>14

(* HistoryStays: between the calls of isal_inflate, tmp_out_buffer ends    *)
(* with the last Hist bytes decoded, or all of them when there are fewer,  *)
(* for every file, window and division of input and output into calls: a   *)
(* match in the next call finds what it refers to.                         *)
THEOREM HistoryStays == Spec => []HistoryKept
<1>1. ASSUME Inv, HistoryInv
      PROVE  HistoryKept
  <2> SUFFICES ASSUME pc = "idle", block_state \in {"NEW_HDR", "HDR", "TYPE0", "CODED"}
               PROVE  IsSuffix(Drop(Text, Len(Text) - Least(Hist, Len(Text))), tmp_out)
    BY DEF HistoryKept
  <2>1. EndsRight(tmp_out, Text)
    BY <1>1 DEF HistoryInv, Going
  <2> QED
    BY <1>1, <2>1, TextType, RightIsSuffix
<1> QED
  BY <1>1, HistoryInvariant, PTL

-----------------------------------------------------------------------------
(* When a call returns.                                                    *)

(* A decoder that wants input has taken all there is of it.                *)
LEMMA Loads ==
  ASSUME NEW in, InputOK(in)
  PROVE  LET loaded == inflate_in_load(in)
         IN  /\ InputOK(loaded)
             /\ loaded.next = <<>> \/ Len(loaded.read) = RegSize
             /\ loaded.read = <<>> => in.read = <<>> /\ in.next = <<>>
<1>1. PICK read \in Seq(FileUnits), next \in Seq(FileUnits) :
        in.read = read /\ in.next = next /\ Len(read) <= RegSize
  BY DEF InputOK
<1>2. PICK space \in Nat : space = RegSize - Len(read)
  BY <1>1, InflateAssumption
<1>3. PICK length \in Nat : length = Len(next)
  OBVIOUS
<1>4. PICK n \in Nat : n = Least(space, length) /\ n <= space /\ n <= length
                        /\ (n = space \/ n = length)
  BY LeastOf
<1>5. PICK first : first = Take(next, n)
  OBVIOUS
<1>6. first \in Seq(FileUnits) /\ Len(first) = n
  BY <1>3, <1>4, <1>5, Taken1
<1>7. PICK behind : behind = Drop(next, n)
  OBVIOUS
<1>8. behind \in Seq(FileUnits) /\ Len(behind) = length - n
  BY <1>3, <1>4, <1>7, Dropped
<1>9. PICK filled : filled = read \o first
  OBVIOUS
<1>10. filled \in Seq(FileUnits) /\ Len(filled) = Len(read) + n
  BY <1>6, <1>9, Joined
<1>11. inflate_in_load(in) = [read |-> filled, next |-> behind]
  BY <1>1, <1>2, <1>3, <1>4, <1>5, <1>7, <1>9 DEF inflate_in_load
<1>12. Len(read) \in Nat /\ RegSize \in Nat \ {0}
  BY InflateAssumption
<1>13. behind = <<>> \/ Len(filled) = RegSize
  <2>1. n = length => Len(behind) = 0
    BY <1>8
  <2>2. n = space => Len(filled) = RegSize
    BY <1>2, <1>10, <1>12
  <2> QED
    BY <1>4, <1>8, <2>1, <2>2
<1>14. filled = <<>> => read = <<>> /\ next = <<>>
  <2>1. filled = <<>> => Len(read) = 0 /\ length = 0
    <3>1. filled = <<>> => Len(read) + n = 0
      BY <1>10
    <3>2. Len(read) + n = 0 => Len(read) = 0 /\ n = 0
      BY <1>12
    <3>3. Len(read) = 0 /\ n = 0 => length = 0
      BY <1>2, <1>4, <1>12
    <3> QED
      BY <3>1, <3>2, <3>3
  <2> QED
    BY <1>3, <2>1
<1>15. InputOK(inflate_in_load(in))
  BY LoadOK
<1> QED
  BY <1>1, <1>11, <1>13, <1>14, <1>15

LEMMA TakesAll ==
  ASSUME NEW in, InputOK(in), pack \in Packs, NeedsInput(in)
  PROVE  inflate_in_load(in).next = <<>>
<1>1. PICK loaded : loaded = inflate_in_load(in)
  OBVIOUS
<1>2. InputOK(loaded) /\ (loaded.next = <<>> \/ Len(loaded.read) = RegSize)
  BY <1>1, Loads
<1>3. PICK syms : syms = SymCount(loaded.read)
  OBVIOUS
<1>4. syms \in 1 .. MaxLits /\ syms <= RegSize
  <2>1. syms \in 1 .. MaxLits
    BY <1>2, <1>3, SymCountOK DEF InputOK
  <2> QED
    BY <2>1, LookupAssumption, InflateAssumption DEF MaxLits
<1>5. CASE syms > Len(loaded.read)
  <2>1. Len(loaded.read) # RegSize
    BY <1>2, <1>4, <1>5, InflateAssumption DEF InputOK
  <2> QED
    BY <1>1, <1>2, <2>1
<1>6. CASE ~ (syms > Len(loaded.read)) /\ inflate_in_load(Popped(loaded, syms)).read = <<>>
  <2>1. InputOK(Popped(loaded, syms))
    <3>1. syms \in Nat /\ syms <= Len(loaded.read) /\ Len(loaded.read) \in Nat
      BY <1>2, <1>4, <1>6 DEF InputOK
    <3>2. /\ Drop(loaded.read, syms) \in Seq(FileUnits)
          /\ Len(Drop(loaded.read, syms)) = Len(loaded.read) - syms
      BY <1>2, <3>1, Dropped DEF InputOK
    <3>3. Len(Drop(loaded.read, syms)) <= RegSize
      BY <1>2, <3>1, <3>2, InflateAssumption DEF InputOK
    <3> QED
      BY <1>2, <3>2, <3>3 DEF InputOK, Popped
  <2>2. Popped(loaded, syms).next = <<>>
    BY <1>6, <2>1, Loads
  <2> QED
    BY <1>1, <2>2 DEF Popped
<1> QED
  BY <1>1, <1>3, <1>5, <1>6 DEF NeedsInput, NeedsMore

LEMMA DecodedAll ==
  ASSUME Inv, NEW history \in Seq(Nat), NEW space \in Nat, NEW dec, dec = Decoded(history, space),
         NEW here, NEW after, Decode(dec, here, after)
  PROVE  dec.ret = "END_INPUT" => next_in' = <<>>
<1>1. block_state \in {"TYPE0", "CODED"} /\ next_in' = dec.in.next
  BY DEF Decode
<1>2. InputOK(Input) /\ count \in Nat /\ bfinal \in 0 .. 1 /\ pack \in Packs
  BY DEF Inv, InputInv, InputOK, Input, ControlInv, HeaderInv
<1>3. CASE block_state = "TYPE0"
  <2>1. dec = decode_literal_block(Input, space)
    BY <1>3 DEF Decoded, Input
  <2> QED
    BY <1>1, <1>2, <2>1, StoredWaits
<1>4. CASE block_state = "CODED"
  <2>1. dec = decode_huffman_code(Input, history, space)
    BY <1>4 DEF Decoded, Input
  <2>2. dec.ret = "END_INPUT" => NeedsInput(Input) /\ dec.in = inflate_in_load(Input)
    BY <1>2, <2>1, CodeWaits
  <2>3. dec.ret = "END_INPUT" => inflate_in_load(Input).next = <<>>
    BY <1>2, <2>2, TakesAll
  <2> QED
    BY <1>1, <2>2, <2>3
<1> QED
  BY <1>1, <1>3, <1>4

(* The same of the readers of a header and of the trailer.                 *)
LEMMA FixedTakesAll ==
  ASSUME NEW n
  PROVE  fixed_size_read(n).ret # "OK" =>
           fixed_size_read(n).ret = "END_INPUT" /\ fixed_size_read(n).next = <<>>
BY DEF fixed_size_read

LEMMA StringTakesAll ==
  ASSUME NEW buf, NEW offset, NEW error, error # "END_INPUT"
  PROVE  LET copy == string_header_copy(buf, offset, error)
         IN  copy.ret = "END_INPUT" => copy.next = <<>>
<1> DEFINE room == Len(buf.data) - offset
           most == IF buf.null \/ room > Len(next_in) THEN Len(next_in) ELSE room
           len  == CHOOSE n \in 0 .. most : /\ \A i \in 1 .. n : next_in[i].value # 0
                                            /\ n < most => next_in[n + 1].value = 0
           left == Drop(next_in, len)
           new  == WrittenAt(buf, offset, Values(Take(next_in, len)))
           ended == WrittenAt(new, len, <<0>>)
<1>1. string_header_copy(buf, offset, error) =
        IF ~buf.null /\ len = room
        THEN [ret |-> error, next |-> left, count |-> count + len, buf |-> new]
        ELSE IF left = <<>>
        THEN [ret |-> "END_INPUT", next |-> left, count |-> count + len, buf |-> new]
        ELSE [ret |-> "OK", next |-> Tail(left), count |-> 0, buf |-> ended]
  BY DEF string_header_copy
<1> HIDE DEF room, len, left, new, ended
<1> QED
  BY <1>1

LEMMA ExtraTakesAll ==
  ASSUME NEW buf, NEW offset, count \in Nat, next_in \in Seq(FileUnits)
  PROVE  LET copy == buffer_header_copy(count, buf, offset, "EXTRA_OVERFLOW")
         IN  /\ copy.ret = "END_INPUT" => copy.next = <<>>
             /\ copy.ret = "EXTRA_OVERFLOW" => ~ buf.null
             /\ copy.buf.null = buf.null
<1> DEFINE len  == Least(count, Len(next_in))
           room == Len(buf.data) - offset
           full == ~buf.null /\ room < len
           n    == IF full THEN room ELSE len
           new  == WrittenAt(buf, offset, Values(Take(next_in, n)))
<1>1. buffer_header_copy(count, buf, offset, "EXTRA_OVERFLOW") =
        [ret   |-> IF full THEN "EXTRA_OVERFLOW" ELSE IF len = count THEN "OK" ELSE "END_INPUT",
         next  |-> Drop(next_in, n), count |-> count - n, buf |-> new]
  BY DEF buffer_header_copy
<1>2. len # count => len = Len(next_in)
  BY DEF Least
<1>3. Drop(next_in, Len(next_in)) = <<>>
  BY DEF Drop
<1>4. new.null = buf.null
  BY DEF WrittenAt
<1> HIDE DEF len, new, room
<1> QED
  BY <1>1, <1>2, <1>3, <1>4

LEMMA TrailerTakesAll ==
  ASSUME NEW in, InputOK(in), NEW sum, NEW size, tmp_in \in Seq(FileUnits)
  PROVE  LET check == check_checksum(in, sum, size)
         IN  check.in.next = <<>> \/ check.block = "FINISH"
<1> DEFINE units  == TrailerInput(in)
           whole  == Len(units) >= TrailerUnits
           kept   == Drop(in.read, Least(TrailerUnits, Len(in.read)))
           behind == Drop(units, Least(TrailerUnits, Len(units)))
<1>1. TrailerUnits \in Nat /\ in.read \in Seq(FileUnits) /\ Len(in.read) \in Nat
  BY DEF TrailerUnits, InputOK
<1>2. units \in Seq(FileUnits) /\ Len(units) \in Nat
  BY DEF TrailerInput, InputOK
<1>3. /\ check_checksum(in, sum, size).in.next = Drop(behind, Len(kept))
      /\ whole => check_checksum(in, sum, size).block = "FINISH"
  BY DEF check_checksum
<1> HIDE DEF units
<1>4. ~ whole => behind = <<>>
  <2>1. ~ whole => Least(TrailerUnits, Len(units)) = Len(units)
    BY <1>1, <1>2 DEF Least
  <2>2. Drop(units, Len(units)) = <<>>
    BY <1>2 DEF Drop
  <2> QED
    BY <2>1, <2>2
<1>5. Len(kept) \in Nat
  <2>1. Least(TrailerUnits, Len(in.read)) \in Nat
    BY <1>1, LeastOf
  <2> QED
    BY <1>1, <2>1, DroppedAny
<1> HIDE DEF kept, behind
<1>6. behind = <<>> => Drop(behind, Len(kept)) = <<>>
  BY <1>5 DEF Drop
<1> QED
  BY <1>3, <1>4, <1>6

(* ReturnInv: isal_inflate gives the header no buffers to fill, so that it *)
(* breaks off only where the input ends; and the last round of a call, when*)
(* it finds no error, has used up the input or the output buffer, or the   *)
(* last block has ended and all of it is handed over.                      *)
HeaderEnds ==
  /\ pc = "wrapper" /\ field # "none" => gz_hdr.name.null /\ gz_hdr.extra.null
  /\ field = "returned" /\ hdr_ret = "END_INPUT" => next_in = <<>>
  /\ field = "returned" /\ pc = "wrapper" => hdr_ret \notin {"NAME_OVERFLOW", "EXTRA_OVERFLOW"}
CallEnds ==
  pc = "end" /\ ret \notin Errors =>
    \/ next_in = <<>> \/ avail_out = 0
    \/ block_state = "INPUT_DONE" /\ processed = Len(tmp_out) /\ OverflowLen = 0
ReturnInv == HeaderEnds /\ CallEnds

(* Steps outside the header and the loops.                                 *)
LEMMA ReturnQuiet ==
  ASSUME field' = "none", pc' # "end"
  PROVE  ReturnInv'
BY DEF ReturnInv, HeaderEnds, CallEnds

LEMMA ReturnStartHeader ==
  ASSUME Inv, StartHeader
  PROVE  ReturnInv'
<1>1. /\ pc \in {"header", "wrapper"} /\ pc' = pc /\ field' = Resumes[block_state]
      /\ pc = "wrapper" => \E f : gz_hdr' = GzHdr(f, NULL)
  BY DEF StartHeader, EnterHeader
<1>2. field' # "returned"
  <2>1. block_state \in WrapperStates
    <3>1. ~ wrapper_flag
      BY <1>1 DEF StartHeader, EnterHeader, Inv, HeaderInv
    <3> QED
      BY <1>1, <3>1 DEF Inv, ControlInv, WithinMember
  <2> QED
    BY <1>1, <2>1 DEF WrapperStates, Resumes
<1>3. pc' = "wrapper" => gz_hdr'.name.null /\ gz_hdr'.extra.null
  BY <1>1 DEF GzHdr, NULL
<1> QED
  BY <1>1, <1>2, <1>3 DEF ReturnInv, HeaderEnds, CallEnds

LEMMA ExtraCopyEnds ==
  ASSUME Inv, field = "extra"
  PROVE  LET copy == buffer_header_copy(count, gz_hdr.extra, gz_hdr.extra_len - count,
                                        "EXTRA_OVERFLOW")
         IN  /\ copy.ret = "END_INPUT" => copy.next = <<>>
             /\ copy.ret = "EXTRA_OVERFLOW" => ~ gz_hdr.extra.null
             /\ copy.ret \in {"OK", "END_INPUT", "EXTRA_OVERFLOW"}
             /\ copy.buf.null = gz_hdr.extra.null /\ copy.buf \in Buffers
<1>1. HdrOK(gz_hdr) /\ count \in Nat /\ next_in \in Seq(FileUnits)
  BY InHeader DEF HeaderFields
<1>2. ~ gz_hdr.extra.null =>
        count <= gz_hdr.extra_len /\ gz_hdr.extra_len - count <= Len(gz_hdr.extra.data)
  BY DEF Inv, HeaderInv, At
<1>3. PICK buf \in Buffers, size \in Nat : buf = gz_hdr.extra /\ size = gz_hdr.extra_len
  BY <1>1 DEF HdrOK
<1>4. PICK copy : copy = buffer_header_copy(count, buf, size - count, "EXTRA_OVERFLOW")
  OBVIOUS
<1>5. copy.ret \in {"OK", "END_INPUT", "EXTRA_OVERFLOW"} /\ copy.buf \in Buffers
  BY <1>1, <1>2, <1>3, <1>4, ExtraCopyOK
<1>6. /\ copy.ret = "END_INPUT" => copy.next = <<>>
      /\ copy.ret = "EXTRA_OVERFLOW" => ~ buf.null
      /\ copy.buf.null = buf.null
  BY <1>1, <1>4, ExtraTakesAll
<1> QED
  BY <1>3, <1>4, <1>5, <1>6

LEMMA ReturnWithinHeader ==
  ASSUME Inv, ReturnInv, WithinHeader
  PROVE  ReturnInv'
<1>1. /\ field \in HeaderFields /\ field # "none" /\ pc' = pc
  BY DEF WithinHeader, HeaderStep, ReadBase, ReadExtraLen, CopyExtra, CopyName, CopyComment,
         SumHeader, ReadHcrc, HeaderDone, HeaderFields
<1>2. /\ pc \in {"header", "wrapper"} /\ HdrOK(gz_hdr) /\ count \in Nat
      /\ next_in \in Seq(FileUnits)
  BY <1>1, InHeader
<1>3. pc = "wrapper" => gz_hdr.name.null /\ gz_hdr.extra.null
  BY <1>1 DEF ReturnInv, HeaderEnds
<1> DEFINE Ends == /\ gz_hdr'.name.null = gz_hdr.name.null
                   /\ gz_hdr'.extra.null = gz_hdr.extra.null
                   /\ field' = "returned" /\ hdr_ret' = "END_INPUT" => next_in' = <<>>
                   /\ field' = "returned" /\ hdr_ret' = "NAME_OVERFLOW" => ~ gz_hdr.name.null
                   /\ field' = "returned" /\ hdr_ret' = "EXTRA_OVERFLOW" => ~ gz_hdr.extra.null
<1>4. ASSUME NEW new, HdrOK(new), new.name.null = gz_hdr.name.null,
             new.extra.null = gz_hdr.extra.null,
             gz_hdr' = new \/ \E sum : gz_hdr' = [new EXCEPT !.hcrc = sum]
      PROVE  gz_hdr'.name.null = gz_hdr.name.null /\ gz_hdr'.extra.null = gz_hdr.extra.null
  BY <1>4, BrokenHdr
<1>5. ASSUME ReadBase
      PROVE  Ends
  <2> DEFINE read == fixed_size_read(GZIP_HDR_BASE)
             f    == read.units[3].value
             len  == IF Has(f, EXTRA_FLAG) THEN gz_hdr.extra_len ELSE 0
             new  == [gz_hdr EXCEPT !.flags = f, !.extra_len = len]
  <2>1. read.ret # "OK" => read.ret = "END_INPUT" /\ read.next = <<>>
    BY FixedTakesAll
  <2>2. new.name = gz_hdr.name /\ new.extra = gz_hdr.extra
    BY <1>2 DEF HdrOK
  <2> HIDE DEF new
  <2>3. /\ next_in' = read.next
        /\ \/ /\ read.ret # "OK" /\ hdr_ret' = read.ret
              /\ (gz_hdr' = gz_hdr \/ \E sum : gz_hdr' = [gz_hdr EXCEPT !.hcrc = sum])
           \/ /\ hdr_ret' \in {"INVALID_WRAPPER", "UNSUPPORTED_METHOD"} /\ gz_hdr' = gz_hdr
           \/ /\ field' = AfterBase(f) /\ gz_hdr' = new
    BY <1>5 DEF ReadBase, BreakOff, Return, GoOn, new
  <2> HIDE DEF read, f, len
  <2>4. AfterBase(f) # "returned"
    BY DEF AfterBase, AfterExtra, AfterName, AfterComment
  <2>5. gz_hdr'.name.null = gz_hdr.name.null /\ gz_hdr'.extra.null = gz_hdr.extra.null
    BY <1>2, <1>4, <2>2, <2>3
  <2> QED
    BY <2>1, <2>3, <2>4, <2>5
<1>6. ASSUME ReadExtraLen
      PROVE  Ends
  <2> DEFINE read == fixed_size_read(GZIP_EXTRA_LEN)
             new  == [gz_hdr EXCEPT !.extra_len = read.units[1].value]
  <2>1. read.ret # "OK" => read.ret = "END_INPUT" /\ read.next = <<>>
    BY FixedTakesAll
  <2>2. new.name = gz_hdr.name /\ new.extra = gz_hdr.extra
    BY <1>2 DEF HdrOK
  <2> HIDE DEF new
  <2>3. /\ next_in' = read.next
        /\ \/ /\ read.ret # "OK" /\ hdr_ret' = read.ret
              /\ (gz_hdr' = gz_hdr \/ \E sum : gz_hdr' = [gz_hdr EXCEPT !.hcrc = sum])
           \/ /\ field' = "extra" /\ gz_hdr' = new
    BY <1>6 DEF ReadExtraLen, BreakOff, GoOn, new
  <2> HIDE DEF read
  <2>4. gz_hdr'.name.null = gz_hdr.name.null /\ gz_hdr'.extra.null = gz_hdr.extra.null
    BY <1>2, <1>4, <2>2, <2>3
  <2> QED
    BY <2>1, <2>3, <2>4
<1>7. ASSUME CopyExtra
      PROVE  Ends
  <2> DEFINE copy == buffer_header_copy(count, gz_hdr.extra, gz_hdr.extra_len - count,
                                        "EXTRA_OVERFLOW")
             hdr  == [gz_hdr EXCEPT !.extra = copy.buf]
  <2>1. /\ copy.ret = "END_INPUT" => copy.next = <<>>
        /\ copy.ret = "EXTRA_OVERFLOW" => ~ gz_hdr.extra.null
        /\ copy.ret \in {"OK", "END_INPUT", "EXTRA_OVERFLOW"}
        /\ copy.buf.null = gz_hdr.extra.null /\ copy.buf \in Buffers
    <3>1. field = "extra"
      BY <1>7 DEF CopyExtra
    <3> QED
      BY <3>1, ExtraCopyEnds
  <2>2. Copy(copy, "GZIP_EXTRA", AfterExtra(flags), hdr)
    BY <1>7 DEF CopyExtra
  <2>3. HdrOK(hdr) /\ hdr.extra = copy.buf /\ hdr.name = gz_hdr.name
    <3> HIDE DEF copy
    <3> QED
      BY <1>2, <2>1 DEF HdrOK
  <2> HIDE DEF copy, hdr
  <2>4. AfterExtra(flags) # "returned"
    BY DEF AfterExtra, AfterName, AfterComment
  <2> QED
    BY <2>1, <2>2, <2>3, <2>4, CopySteps
<1>8. ASSUME CopyName
      PROVE  Ends
  <2> DEFINE copy == string_header_copy(gz_hdr.name, count, "NAME_OVERFLOW")
             hdr  == [gz_hdr EXCEPT !.name = copy.buf]
  <2>1. gz_hdr.name \in Buffers /\ (~ gz_hdr.name.null => count <= Len(gz_hdr.name.data))
    BY <1>1, <1>2, <1>8 DEF HdrOK, CopyName, Inv, HeaderInv, At
  <2>2. /\ copy.ret \in {"OK", "END_INPUT"} \/ (copy.ret = "NAME_OVERFLOW" /\ ~ gz_hdr.name.null)
        /\ copy.buf \in Buffers /\ copy.buf.null = gz_hdr.name.null
    <3>1. PICK buf \in Buffers : buf = gz_hdr.name
      BY <2>1
    <3> HIDE DEF hdr
    <3> QED
      BY <1>2, <2>1, <3>1, StringCopyOK
  <2>3. copy.ret = "END_INPUT" => copy.next = <<>>
    BY StringTakesAll
  <2>4. Copy(copy, "GZIP_NAME", AfterName(flags), hdr)
    BY <1>8 DEF CopyName
  <2>5. HdrOK(hdr) /\ hdr.name = copy.buf /\ hdr.extra = gz_hdr.extra
    <3> HIDE DEF copy
    <3> QED
      BY <1>2, <2>2 DEF HdrOK
  <2> HIDE DEF copy, hdr
  <2>6. AfterName(flags) # "returned"
    BY DEF AfterName, AfterComment
  <2> QED
    BY <2>2, <2>3, <2>4, <2>5, <2>6, CopySteps
<1>9. ASSUME CopyComment
      PROVE  Ends
  <2> DEFINE copy == string_header_copy(gz_hdr.comment, count, "COMMENT_OVERFLOW")
             hdr  == [gz_hdr EXCEPT !.comment = copy.buf]
  <2>1. copy.ret \in {"OK", "END_INPUT"} /\ copy.buf = NULL
    <3>1. PICK buf \in Buffers : buf = NULL /\ buf.null
      BY NullOK
    <3>2. copy = string_header_copy(buf, count, "COMMENT_OVERFLOW")
      BY <1>2, <3>1 DEF HdrOK
    <3> HIDE DEF copy, hdr
    <3> QED
      BY <1>2, <3>1, <3>2, StringCopyOK
  <2>2. copy.ret = "END_INPUT" => copy.next = <<>>
    BY StringTakesAll
  <2>3. Copy(copy, "GZIP_COMMENT", AfterComment(flags), hdr)
    BY <1>9 DEF CopyComment
  <2>4. HdrOK(hdr) /\ hdr.name = gz_hdr.name /\ hdr.extra = gz_hdr.extra
    <3> HIDE DEF copy
    <3> QED
      BY <1>2, <2>1 DEF HdrOK
  <2> HIDE DEF copy, hdr
  <2>5. AfterComment(flags) # "returned"
    BY DEF AfterComment
  <2> QED
    BY <2>1, <2>2, <2>3, <2>4, <2>5, CopySteps
<1>10. ASSUME SumHeader
       PROVE  Ends
  <2>1. field' = "hcrc" /\ gz_hdr' = [gz_hdr EXCEPT !.hcrc = hcrc']
    BY <1>10 DEF SumHeader, GoOn
  <2> QED
    BY <1>2, <1>4, <2>1
<1>11. ASSUME ReadHcrc
       PROVE  Ends
  <2> DEFINE read == fixed_size_read(GZIP_HCRC_LEN)
  <2>1. read.ret # "OK" => read.ret = "END_INPUT" /\ read.next = <<>>
    BY FixedTakesAll
  <2>2. /\ next_in' = read.next /\ gz_hdr' = gz_hdr
        /\ \/ read.ret # "OK" /\ hdr_ret' = read.ret
           \/ hdr_ret' = "INCORRECT_CHECKSUM"
           \/ field' = "done"
    BY <1>11 DEF ReadHcrc, Return, GoOn
  <2> HIDE DEF read
  <2> QED
    BY <2>1, <2>2
<1>12. ASSUME HeaderDone
       PROVE  Ends
  BY <1>12 DEF HeaderDone
<1>13. Ends
  BY <1>5, <1>6, <1>7, <1>8, <1>9, <1>10, <1>11, <1>12 DEF WithinHeader, HeaderStep
<1> QED
  BY <1>1, <1>2, <1>3, <1>13 DEF ReturnInv, HeaderEnds, CallEnds

LEMMA ReturnReadHeader ==
  ASSUME Inv, NEW here, NEW after, ReadHeader(here, after),
         (here = "tmp" /\ after = "drain") \/ (here = "out" /\ after = "end")
  PROVE  ReturnInv'
<1> DEFINE hdr == read_header_stateful(Input)
<1>1. /\ pc = here /\ block_state \in {"NEW_HDR", "HDR"} /\ field' = field
      /\ next_in' = hdr.in.next /\ block_state' = hdr.block /\ ret' = hdr.ret
      /\ pc' \in {here, after}
      /\ pc' = after => ret' # "OK" \/ block_state' = "INPUT_DONE"
  BY DEF ReadHeader, Loop, Input, header, hdr_locals
<1>2. InputOK(Input)
  BY DEF Inv, InputInv, InputOK, Input
<1>3. /\ count \in Nat /\ bfinal \in 0 .. 1 /\ tmp_in \in Seq(FileUnits) /\ Len(tmp_in) <= HdrSize
      /\ block_state # "HDR" => tmp_in = <<>>
  <2>1. WithinMember
    BY <1>1 DEF Inv, ControlInv, Decoding
  <2>2. block_state # "HDR" => ~ Half
    BY <1>1, <2>1 DEF Half
  <2> QED
    BY <2>2 DEF Inv, ControlInv, HeaderInv, InputInv
<1>4. HeaderReadOK(hdr) /\ HeaderWaitsFor(Input, hdr)
  BY <1>1, <1>2, <1>3, BlockHeaderOK, HeaderWaits
<1> HIDE DEF hdr
<1>5. ret' \in {"OK", "END_INPUT", "INVALID_BLOCK"} /\ block_state' # "INPUT_DONE"
  BY <1>1, <1>4 DEF HeaderReadOK
<1>6. ret' = "END_INPUT" => next_in' = <<>>
  BY <1>1, <1>4 DEF HeaderWaitsFor
<1>7. field' = "none"
  BY <1>1 DEF Inv, HeaderInv
<1>8. CallEnds'
  BY <1>1, <1>5, <1>6 DEF CallEnds, Errors
<1> QED
  BY <1>7, <1>8 DEF ReturnInv, HeaderEnds

LEMMA ReturnDecodeOut ==
  ASSUME Inv, DecodeOut
  PROVE  ReturnInv'
<1>1. user \in Seq(Nat) /\ avail_out \in Nat /\ start_out \in Nat
  BY DEF Inv, BufferInv
<1>2. PICK produced \in Seq(Nat) : produced = Drop(user, start_out)
  BY <1>1, DroppedAny
<1> SUFFICES ASSUME NEW dec, dec = Decoded(produced, avail_out), Decode(dec, "out", "end"),
                    avail_out' = avail_out - Len(dec.out), tmp_out' = tmp_out
             PROVE  ReturnInv'
  BY <1>2 DEF DecodeOut
<1>3. /\ pc = "out" /\ pc' \in {"out", "end"} /\ block_state \in {"TYPE0", "CODED"}
      /\ processed' = processed /\ ret' = dec.ret /\ block_state' = dec.block /\ field' = field
      /\ write_overflow' = dec.lits /\ copy_overflow' = dec.copy
      /\ pc' = "end" => ret' # "OK" \/ block_state' = "INPUT_DONE"
  BY DEF Decode, Loop, header, hdr_locals
<1>4. DecodedOK(dec, avail_out)
  BY <1>1, DecodersOK
<1>5. processed = Len(tmp_out) /\ field' = "none"
  BY <1>3 DEF Inv, BufferInv, HeaderInv
<1>6. ret' \in {"OK", "END_INPUT", "OUT_OVERFLOW"} \cup Errors
  BY <1>3, <1>4 DEF DecodedOK
<1>7. ret' = "END_INPUT" => next_in' = <<>>
  BY <1>1, <1>3, DecodedAll
<1>8. ret' = "OUT_OVERFLOW" => avail_out' = 0
  <2>1. ret' = "OUT_OVERFLOW" => Len(dec.out) = avail_out
    BY <1>3, <1>4 DEF DecodedOK
  <2> QED
    BY <1>1, <2>1
<1>9. ret' = "OK" => OverflowLen' = 0
  <2>1. /\ OverflowLen' = Len(dec.lits) + dec.copy.len
        /\ Len(dec.lits) + dec.copy.len # 0 => dec.ret # "OK"
    BY <1>3, <1>4 DEF OverflowLen, DecodedOK
  <2> QED
    BY <1>3, <2>1
<1>10. CallEnds'
  BY <1>3, <1>5, <1>6, <1>7, <1>8, <1>9 DEF CallEnds
<1> QED
  BY <1>5, <1>10 DEF ReturnInv, HeaderEnds

LEMMA ReturnDrain ==
  ASSUME Inv, Drain
  PROVE  ReturnInv'
<1> DEFINE buffer == Flushed(tmp_out)
           copy   == Least(Len(buffer) - processed, avail_out)
<1>1. /\ pc = "drain" /\ field' = field
      /\ tmp_out' = buffer /\ processed' = processed + copy /\ avail_out' = avail_out - copy
      /\ block_state' = block_state /\ write_overflow' = <<>> /\ copy_overflow' = NoCopy
      /\ pc' = "end" => Len(buffer) - processed - copy # 0 \/ block_state = "INPUT_DONE"
  BY DEF Drain, header, hdr_locals, block
<1>2. /\ tmp_out \in Seq(Nat) /\ Len(tmp_out) \in Nat /\ processed \in Nat
      /\ processed <= Len(tmp_out) /\ avail_out \in Nat
      /\ write_overflow \in Seq(Nat) /\ copy_overflow \in [len : 0 .. MaxMatch, dist : 0 .. Hist]
  BY DEF Inv, BufferInv
<1>3. Len(buffer) \in Nat /\ Len(tmp_out) <= Len(buffer)
  <2> HIDE DEF buffer
  <2>1. buffer \in Seq(Nat) /\ Len(buffer) = Len(tmp_out) + OverflowLen /\ OverflowLen \in Nat
    BY <1>2, FlushedOK DEF buffer
  <2> QED
    BY <1>2, <2>1
<1> HIDE DEF buffer
<1>4. copy = Len(buffer) - processed \/ copy = avail_out
  BY DEF Least
<1>5. copy \in Nat
  BY <1>2, <1>3 DEF Least
<1> HIDE DEF copy
<1>6. OverflowLen' = 0
  BY <1>1 DEF OverflowLen, NoCopy
<1>7. CASE copy = avail_out
  <2>1. avail_out' = 0
    BY <1>1, <1>2, <1>7
  <2> QED
    BY <1>1, <2>1 DEF ReturnInv, HeaderEnds, CallEnds, Inv, HeaderInv
<1>8. CASE copy = Len(buffer) - processed
  <2>1. processed' = Len(tmp_out') /\ Len(buffer) - processed - copy = 0
    BY <1>1, <1>2, <1>3, <1>8
  <2> QED
    BY <1>1, <1>6, <2>1 DEF ReturnInv, HeaderEnds, CallEnds, Inv, HeaderInv
<1> QED
  BY <1>4, <1>7, <1>8

LEMMA ReturnNext ==
  ASSUME Inv, ReturnInv, [Next]_vars
  PROVE  ReturnInv'
<1>0. pc \notin {"header", "wrapper"} => field = "none"
  BY DEF Inv, HeaderInv
<1>1. CASE UNCHANGED vars
  BY <1>1 DEF vars, input, block, over, header, hdr_locals, output, ReturnInv, HeaderEnds,
              CallEnds, OverflowLen
<1>2. ASSUME NEW n, (\E o \in OutSizes : Call(n, o)) \/ NextMember(n)
      PROVE  ReturnInv'
  <2>1. pc = "idle" /\ field' = field /\ pc' # "end"
    BY <1>2 DEF Call, NextMember, header, hdr_locals
  <2> QED
    BY <1>0, <2>1, ReturnQuiet
<1>3. ASSUME NEW n, CallHeader(n)
      PROVE  ReturnInv'
  <2>1. pc = "idle" /\ field' = field /\ pc' # "end"
    BY <1>3 DEF CallHeader, hdr_locals
  <2> QED
    BY <1>0, <2>1, ReturnQuiet
<1>4. CASE SetDict \/ ReadTrailer \/ Begin \/ End
  <2>1. pc \notin {"header", "wrapper"} /\ field' = field /\ pc' # "end"
    BY <1>4 DEF SetDict, ReadTrailer, Begin, End, header, hdr_locals
  <2> QED
    BY <1>0, <2>1, ReturnQuiet
<1>5. CASE ReadZlibBase \/ ReadZlibDict
  <2>1. pc \notin {"header", "wrapper"} /\ field' = field /\ pc' # "end"
    BY <1>5 DEF ReadZlibBase, ReadZlibDict, ZlibLeaves, zlib_unchanged, hdr_locals
  <2> QED
    BY <1>0, <2>1, ReturnQuiet
<1>6. CASE EndHeader
  <2>1. field' = "none" /\ pc' # "end"
    BY <1>6 DEF EndHeader, LeaveHeader
  <2> QED
    BY <2>1, ReturnQuiet
<1>7. CASE DecodeTmp
  <2>1. pc = "tmp" /\ field' = field /\ pc' # "end"
    BY <1>7 DEF DecodeTmp, Decode, Loop, header, hdr_locals
  <2> QED
    BY <1>0, <2>1, ReturnQuiet
<1>8. CASE ReadHeader("tmp", "drain") \/ ReadHeader("out", "end")
  BY <1>8, ReturnReadHeader
<1> QED
  BY <1>1, <1>2, <1>3, <1>4, <1>5, <1>6, <1>7, <1>8, ReturnStartHeader, ReturnWithinHeader,
     ReturnDecodeOut, ReturnDrain DEF Next

-----------------------------------------------------------------------------
(* The steps that return.                                                  *)

Returns == /\ pc \notin {"idle", "header"} /\ pc' = "idle"
           /\ ret' \notin Refused \cup {"NEED_DICT"}
Justified == next_in' = <<>> \/ avail_out' = 0 \/ block_state' = "FINISH"

LEMMA EndHeaderReturns ==
  ASSUME Inv, ReturnInv, EndHeader, Returns
  PROVE  Justified
<1>1. /\ pc = "wrapper" /\ field = "returned" /\ hdr_ret # "DECOMP_OK" /\ hdr_ret \in HeaderResults
      /\ ret' = Returned(hdr_ret) /\ next_in' = next_in
  BY DEF EndHeader, LeaveHeader, Returns, Inv, HeaderInv
<1>2. hdr_ret \notin Refused
  BY <1>1 DEF Returned, Returns
<1>3. hdr_ret \in {"NAME_OVERFLOW", "EXTRA_OVERFLOW", "END_INPUT"}
  BY <1>1, <1>2 DEF HeaderResults, Refused
<1> QED
  BY <1>1, <1>3 DEF ReturnInv, HeaderEnds, Justified

LEMMA ReadZlibReturns ==
  ASSUME ReadZlibBase \/ ReadZlibDict, Returns
  PROVE  Justified
<1>1. CASE ReadZlibBase
  <2>1. \/ fixed_size_read(ZLIB_HDR_BASE).ret # "OK" \/ ret' \in Refused
    BY <1>1 DEF ReadZlibBase, ZlibLeaves, Returns, Refused
  <2>2. fixed_size_read(ZLIB_HDR_BASE).next = <<>>
    BY <2>1, FixedTakesAll DEF Returns
  <2> QED
    BY <1>1, <2>2 DEF ReadZlibBase, Justified
<1>2. CASE ReadZlibDict
  <2>1. fixed_size_read(ZLIB_DICT_LEN).ret # "OK"
    BY <1>2 DEF ReadZlibDict, Returns
  <2>2. fixed_size_read(ZLIB_DICT_LEN).next = <<>>
    BY <2>1, FixedTakesAll
  <2> QED
    BY <1>2, <2>2 DEF ReadZlibDict, Justified
<1> QED
  BY <1>1, <1>2

LEMMA TrailerReturns ==
  ASSUME Inv, ReadTrailer
  PROVE  Justified
<1>1. InputOK(Input) /\ tmp_in \in Seq(FileUnits)
  BY DEF Inv, InputInv, InputOK, Input
<1>2. LET check == check_checksum(Input, crc, total_out)
      IN  next_in' = check.in.next /\ block_state' = check.block
  BY DEF ReadTrailer, Input
<1> QED
  BY <1>1, <1>2, TrailerTakesAll DEF Justified

LEMMA DrainReturns ==
  ASSUME Drain, pc' = "idle"
  PROVE  ret' \in Refused
BY DEF Drain, Refused

LEMMA EndReturns ==
  ASSUME Inv, ReturnInv, End, Returns
  PROVE  Justified
<1> DEFINE buffer == Flushed(Kept.buffer)
           left   == Len(buffer) - Kept.processed
           sum    == Sum(crc, Produced)
           total  == total_out + OverflowLen
           check  == check_checksum(Input, sum, total)
<1>1. pc = "end" /\ ret \notin Errors /\ avail_out' = avail_out
  <2>1. pc = "end" /\ avail_out' = avail_out
    BY DEF End
  <2>2. ret \in Errors => ret' \in Refused
    BY DEF End, Returned, Refused
  <2> QED
    BY <2>1, <2>2 DEF Returns
<1>2. next_in = <<>> \/ avail_out = 0
      \/ (block_state = "INPUT_DONE" /\ processed = Len(tmp_out) /\ OverflowLen = 0)
  BY <1>1 DEF ReturnInv, CallEnds
<1>3. left = Len(tmp_out) - processed + OverflowLen
  <2>1. /\ Kept.buffer \in Seq(Nat) /\ Len(Kept.buffer) \in Nat
        /\ Kept.processed \in Nat /\ Len(tmp_out) \in Nat /\ processed \in Nat
        /\ Len(Kept.buffer) - Kept.processed = Len(tmp_out) - processed
    BY <1>1, KeptOK DEF Inv, BufferInv
  <2>2. write_overflow \in Seq(Nat) /\ copy_overflow \in [len : 0 .. MaxMatch, dist : 0 .. Hist]
    BY DEF Inv, BufferInv
  <2>3. Len(buffer) = Len(Kept.buffer) + OverflowLen /\ OverflowLen \in Nat
    BY <2>1, <2>2, FlushedOK
  <2>4. PICK kept \in Nat, from \in Nat, more \in Nat :
          kept = Len(Kept.buffer) /\ from = Kept.processed /\ more = OverflowLen
    BY <2>1, <2>3
  <2>5. left = (kept + more) - from
    BY <2>3, <2>4
  <2>6. (kept + more) - from = (kept - from) + more
    BY <2>4
  <2> QED
    BY <2>1, <2>4, <2>5, <2>6
<1> HIDE DEF left
<1>4. \/ next_in' = check.in.next /\ block_state' = check.block
      \/ block_state' = "FINISH" /\ next_in' = next_in
      \/ ~ (block_state = "INPUT_DONE" /\ left = 0) /\ next_in' = next_in
  BY <1>1 DEF End, left, Input, input
<1>5. check.in.next = <<>> \/ check.block = "FINISH"
  <2>1. InputOK(Input) /\ tmp_in \in Seq(FileUnits)
    BY DEF Inv, InputInv, InputOK, Input
  <2> HIDE DEF sum, total
  <2> QED
    BY <2>1, TrailerTakesAll
<1> HIDE DEF check
<1>6. CASE ~ (block_state = "INPUT_DONE" /\ left = 0) /\ next_in' = next_in
  <2>1. ~ (block_state = "INPUT_DONE" /\ processed = Len(tmp_out) /\ OverflowLen = 0)
    <3>1. processed = Len(tmp_out) /\ OverflowLen = 0 => left = 0
      BY <1>3 DEF Inv, BufferInv
    <3> QED
      BY <1>6, <3>1
  <2> QED
    BY <1>1, <1>2, <1>6, <2>1 DEF Justified
<1> QED
  BY <1>4, <1>5, <1>6 DEF Justified

(* ReturnsAsDocumented: for every file, window and division of input and   *)
(* output into calls, a step with which isal_inflate returns, and reports  *)
(* no error and no missing dictionary, leaves the input used up, the       *)
(* output buffer full or the member at its end.                            *)
THEOREM ReturnsAsDocumented == Spec => ReturnsWhenDone
<1> DEFINE Step == pc \notin {"idle", "header"} /\ pc' = "idle" =>
                     \/ next_in' = <<>> \/ avail_out' = 0 \/ block_state' = "FINISH"
                     \/ ret' \in Refused \cup {"NEED_DICT"}
<1>1. Init => Inv /\ ReturnInv
  BY InvInit DEF Init, ReturnInv, HeaderEnds, CallEnds
<1>2. Inv /\ ReturnInv /\ [Next]_vars => (Inv /\ ReturnInv)'
  BY InvNext, ReturnNext
<1>3. Inv /\ ReturnInv /\ [Next]_vars => [Step]_vars
  <2> SUFFICES ASSUME Inv, ReturnInv, Next, Returns
               PROVE  Justified
    BY DEF Returns, Justified
  <2>1. ASSUME NEW n, (\E o \in OutSizes : Call(n, o)) \/ CallHeader(n) \/ NextMember(n)
        PROVE  FALSE
    BY <2>1 DEF Call, CallHeader, NextMember, Returns
  <2>2. CASE SetDict \/ StartHeader \/ WithinHeader
    <3>1. WithinHeader => pc' = pc
      BY DEF WithinHeader
    <3>2. StartHeader => pc' = pc
      BY DEF StartHeader
    <3> QED
      BY <2>2, <3>1, <3>2 DEF SetDict, Returns
  <2>3. CASE Begin \/ DecodeTmp \/ DecodeOut
    BY <2>3 DEF Begin, DecodeTmp, DecodeOut, Decode, Loop, Returns
  <2>4. CASE ReadHeader("tmp", "drain") \/ ReadHeader("out", "end")
    BY <2>4 DEF ReadHeader, Loop, Returns
  <2>5. CASE Drain
    BY <2>5, DrainReturns DEF Returns
  <2> QED
    BY <2>1, <2>2, <2>3, <2>4, <2>5, EndHeaderReturns, ReadZlibReturns, TrailerReturns,
       EndReturns DEF Next
<1>4. Spec => [][Step]_vars
  BY <1>1, <1>2, <1>3, PTL DEF Spec
<1> QED
  BY <1>4 DEF ReturnsWhenDone

-----------------------------------------------------------------------------
(* What is ahead in the file.                                              *)

(* v is what follows the first p of the n elements of s; w is a elements   *)
(* of s and then c of t.                                                   *)
Follows(v, S, s, p, n) ==
  v \in Seq(S) /\ Len(v) = n - p /\ \A i \in 1 .. n - p : v[i] = s[p + i]
InTurn(w, S, s, a, t, c) ==
  /\ w \in Seq(S) /\ Len(w) = a + c
  /\ (\A i \in 1 .. a : w[i] = s[i]) /\ \A i \in 1 .. c : w[a + i] = t[i]

LEMMA DroppedEach ==
  ASSUME NEW S, NEW s \in Seq(S), NEW n, Len(s) = n, NEW p \in Nat, p <= n
  PROVE  Follows(Drop(s, p), S, s, p, n)
<1> USE DEF Follows
<1>0. n \in Nat
  OBVIOUS
<1>1. Drop(s, p) = SubSeq(s, p + 1, n)
  BY <1>0 DEF Drop
<1>2. /\ SubSeq(s, p + 1, n) \in Seq(S) /\ Len(SubSeq(s, p + 1, n)) = n - p
      /\ \A i \in 1 .. n - p : SubSeq(s, p + 1, n)[i] = s[p + i]
  BY <1>0, SMTT(60)
<1> QED
  BY <1>1, <1>2

LEMMA JoinedEach ==
  ASSUME NEW S, NEW s \in Seq(S), NEW t \in Seq(S), NEW a, NEW c, Len(s) = a, Len(t) = c
  PROVE  InTurn(s \o t, S, s, a, t, c)
<1>1. s \o t \in Seq(S) /\ Len(s \o t) = Len(s) + Len(t)
  OBVIOUS
<1>2. \A i \in 1 .. Len(s) : (s \o t)[i] = s[i]
  OBVIOUS
<1>3. \A i \in 1 .. Len(t) : (s \o t)[Len(s) + i] = t[i]
  OBVIOUS
<1> QED
  BY <1>1, <1>2, <1>3 DEF InTurn

LEMMA DropMore ==
  ASSUME NEW S, NEW s \in Seq(S), NEW a \in Nat, NEW b \in Nat, a + b <= Len(s)
  PROVE  Drop(Drop(s, a), b) = Drop(s, a + b)
<1>1. PICK n \in Nat : n = Len(s)
  OBVIOUS
<1>2. a <= n /\ b <= n - a /\ n - a \in Nat /\ a + b \in Nat /\ a + b <= n
  BY <1>1
<1>3. PICK v : v = Drop(s, a)
  OBVIOUS
<1>4. v \in Seq(S) /\ Len(v) = n - a /\ \A i \in 1 .. n - a : v[i] = s[a + i]
  <2>1. Follows(v, S, s, a, n)
    BY <1>1, <1>2, <1>3, DroppedEach
  <2> QED
    BY <2>1 DEF Follows
<1>5. PICK w : w = Drop(v, b)
  OBVIOUS
<1>6. w \in Seq(S) /\ Len(w) = (n - a) - b /\ \A i \in 1 .. (n - a) - b : w[i] = v[b + i]
  <2>1. Follows(w, S, v, b, n - a)
    BY <1>2, <1>4, <1>5, DroppedEach
  <2> QED
    BY <2>1 DEF Follows
<1>7. PICK x : x = Drop(s, a + b)
  OBVIOUS
<1>8. /\ x \in Seq(S) /\ Len(x) = n - (a + b)
      /\ \A i \in 1 .. n - (a + b) : x[i] = s[(a + b) + i]
  <2>1. Follows(x, S, s, a + b, n)
    BY <1>1, <1>2, <1>7, DroppedEach
  <2> QED
    BY <2>1 DEF Follows
<1>9. ASSUME NEW i \in 1 .. n - (a + b)
      PROVE  w[i] = x[i]
  <2>1. i \in 1 .. (n - a) - b /\ b + i \in 1 .. n - a /\ a + (b + i) = (a + b) + i
    BY <1>2
  <2> QED
    BY <1>4, <1>6, <1>8, <2>1
<1>10. Len(w) = Len(x)
  BY <1>6, <1>8
<1>11. w = x
  BY <1>6, <1>8, <1>9, <1>10, SameSeq
<1> QED
  BY <1>3, <1>5, <1>7, <1>11

LEMMA DropFront ==
  ASSUME NEW S, NEW s \in Seq(S), NEW t \in Seq(S), NEW n \in Nat, n <= Len(s)
  PROVE  Drop(s, n) \o t = Drop(s \o t, n)
<1>1. PICK a \in Nat, c \in Nat : a = Len(s) /\ c = Len(t)
  OBVIOUS
<1>2. n <= a /\ a - n \in Nat /\ n <= a + c /\ a + c \in Nat
  BY <1>1
<1>3. PICK v : v = Drop(s, n)
  OBVIOUS
<1>4. v \in Seq(S) /\ Len(v) = a - n /\ \A i \in 1 .. a - n : v[i] = s[n + i]
  <2>1. Follows(v, S, s, n, a)
    BY <1>1, <1>2, <1>3, DroppedEach
  <2> QED
    BY <2>1 DEF Follows
<1>5. PICK all : all = s \o t
  OBVIOUS
<1>6. /\ all \in Seq(S) /\ Len(all) = a + c /\ \A i \in 1 .. a : all[i] = s[i]
      /\ \A i \in 1 .. c : all[a + i] = t[i]
  <2>1. InTurn(all, S, s, a, t, c)
    BY <1>1, <1>5, JoinedEach
  <2> QED
    BY <2>1 DEF InTurn
<1>7. PICK w : w = Drop(all, n)
  OBVIOUS
<1>8. /\ w \in Seq(S) /\ Len(w) = (a + c) - n
      /\ \A i \in 1 .. (a + c) - n : w[i] = all[n + i]
  <2>1. Follows(w, S, all, n, a + c)
    BY <1>2, <1>6, <1>7, DroppedEach
  <2> QED
    BY <2>1 DEF Follows
<1>9. PICK x : x = v \o t
  OBVIOUS
<1>10. /\ x \in Seq(S) /\ Len(x) = (a - n) + c /\ \A i \in 1 .. a - n : x[i] = v[i]
       /\ \A i \in 1 .. c : x[(a - n) + i] = t[i]
  <2>1. InTurn(x, S, v, a - n, t, c)
    BY <1>1, <1>4, <1>9, JoinedEach
  <2> QED
    BY <2>1 DEF InTurn
<1>11. ASSUME NEW i \in 1 .. (a + c) - n
       PROVE  x[i] = w[i]
  <2>1. CASE i <= a - n
    <3>1. i \in 1 .. a - n /\ n + i \in 1 .. a
      BY <1>2, <2>1
    <3> QED
      BY <1>4, <1>6, <1>8, <1>10, <3>1
  <2>2. CASE ~ (i <= a - n)
    <3>1. i - (a - n) \in 1 .. c
      BY <1>2, <2>2
    <3>2. i = (a - n) + (i - (a - n)) /\ n + i = a + (i - (a - n))
      BY <1>2
    <3>3. x[i] = t[i - (a - n)]
      BY <1>10, <3>1, <3>2
    <3>4. all[n + i] = t[i - (a - n)]
      BY <1>6, <3>1, <3>2
    <3> QED
      BY <1>8, <3>3, <3>4
  <2> QED
    BY <2>1, <2>2
<1>12. Len(x) = Len(w) /\ Len(w) = (a + c) - n
  BY <1>2, <1>8, <1>10
<1>13. x = w
  BY <1>8, <1>10, <1>11, <1>12, SameSeq
<1> QED
  BY <1>3, <1>5, <1>7, <1>9, <1>13

LEMMA JoinUnits ==
  ASSUME NEW a \in Seq(FileUnits), NEW b \in Seq(FileUnits), NEW c \in Seq(FileUnits)
  PROVE  (a \o b) \o c = a \o (b \o c) /\ a \o b \in Seq(FileUnits)
OBVIOUS

(* The units of the file that no field has been read from yet.             *)
Ahead == tmp_in \o (next_in \o rest)

LEMMA AheadJoined ==
  ASSUME next_in \in Seq(FileUnits), tmp_in \in Seq(FileUnits), rest \in Seq(FileUnits)
  PROVE  Ahead = (tmp_in \o next_in) \o rest
BY JoinUnits DEF Ahead

LEMMA SupplyAhead ==
  ASSUME NEW n \in Nat, Supply(n), rest \in Seq(FileUnits), next_in \in Seq(FileUnits)
  PROVE  next_in' \o rest' = next_in \o rest
<1>1. PICK k \in Nat : k = Least(n, Len(rest)) /\ k <= Len(rest) /\ k \in 0 .. Len(rest)
  BY LeastOf
<1>2. next_in' = next_in \o Take(rest, k) /\ rest' = Drop(rest, k)
  BY <1>1 DEF Supply
<1>3. Take(rest, k) \in Seq(FileUnits) /\ Drop(rest, k) \in Seq(FileUnits)
  BY <1>1, Taken1, DroppedAny
<1>4. Take(rest, k) \o Drop(rest, k) = rest
  <2>1. PICK m \in Nat : m = Len(rest) /\ k <= m
    BY <1>1
  <2>2. PICK s : s = Take(rest, k)
    OBVIOUS
  <2>3. s \in Seq(FileUnits) /\ Len(s) = k /\ \A i \in 1 .. k : s[i] = rest[i]
    BY <1>1, <2>1, <2>2 DEF Take
  <2>4. PICK t : t = Drop(rest, k)
    OBVIOUS
  <2>5. t \in Seq(FileUnits) /\ Len(t) = m - k /\ \A i \in 1 .. m - k : t[i] = rest[k + i]
    <3>1. Follows(t, FileUnits, rest, k, m)
      BY <1>1, <2>1, <2>4, DroppedEach
    <3> QED
      BY <3>1 DEF Follows
  <2>6. PICK x : x = s \o t
    OBVIOUS
  <2>7. /\ x \in Seq(FileUnits) /\ Len(x) = k + (m - k) /\ \A i \in 1 .. k : x[i] = s[i]
        /\ \A i \in 1 .. m - k : x[k + i] = t[i]
    <3>1. InTurn(x, FileUnits, s, k, t, m - k)
      BY <2>3, <2>5, <2>6, JoinedEach
    <3> QED
      BY <3>1 DEF InTurn
  <2>8. ASSUME NEW i \in 1 .. m
        PROVE  x[i] = rest[i]
    <3>1. CASE i <= k
      BY <1>1, <2>3, <2>7, <3>1
    <3>2. CASE ~ (i <= k)
      <4>1. i - k \in 1 .. m - k /\ i = k + (i - k)
        BY <1>1, <2>1, <3>2
      <4> QED
        BY <2>5, <2>7, <4>1
    <3> QED
      BY <3>1, <3>2
  <2>9. Len(x) = Len(rest)
    BY <1>1, <2>1, <2>7
  <2>10. x = rest
    BY <2>1, <2>7, <2>8, <2>9, SameSeq
  <2> QED
    BY <2>2, <2>4, <2>6, <2>10
<1>5. (next_in \o Take(rest, k)) \o Drop(rest, k) = next_in \o (Take(rest, k) \o Drop(rest, k))
  BY <1>3, JoinUnits
<1> QED
  BY <1>2, <1>4, <1>5

(* A field of fixed size takes its units, or leaves all of them.           *)
LEMMA FixedReadAhead ==
  ASSUME next_in \in Seq(FileUnits), tmp_in \in Seq(FileUnits), rest \in Seq(FileUnits),
         NEW n \in 1 .. 3, NEW units \in Seq(FileUnits), NEW p \in Nat, p <= Len(units),
         Ahead = Drop(units, p)
  PROVE  LET read == fixed_size_read(n)
         IN  /\ read.ret \in {"OK", "END_INPUT"}
             /\ read.ret = "END_INPUT" => read.tmp \o (read.next \o rest) = Ahead
             /\ read.ret = "OK" =>
                  /\ read.tmp = <<>> /\ p + n <= Len(units)
                  /\ read.tmp \o (read.next \o rest) = Drop(units, p + n)
                  /\ \A i \in 1 .. n : read.units[i] = units[p + i]
<1>0. n \in Nat
  OBVIOUS
<1>1. PICK s \in Seq(FileUnits) : s = tmp_in \o next_in
  BY JoinUnits
<1>2. Ahead = s \o rest
  BY <1>1, AheadJoined
<1>3. PICK read : read = fixed_size_read(n)
  OBVIOUS
<1>4. CASE Len(s) < n
  <2>1. read.ret = "END_INPUT" /\ read.next = <<>> /\ read.tmp = s
    BY <1>1, <1>3, <1>4 DEF fixed_size_read
  <2>2. <<>> \o rest = rest
    OBVIOUS
  <2> QED
    BY <1>2, <1>3, <2>1, <2>2
<1>5. CASE n <= Len(s)
  <2>1. read.ret = "OK" /\ read.next = Drop(s, n) /\ read.tmp = <<>> /\ read.units = Take(s, n)
    BY <1>1, <1>3, <1>5 DEF fixed_size_read
  <2>2. Drop(s, n) \o rest = Drop(Drop(units, p), n)
    <3>1. Drop(s, n) \o rest = Drop(s \o rest, n)
      BY <1>0, <1>5, DropFront
    <3> QED
      BY <1>2, <3>1
  <2>3. /\ Len(Drop(units, p)) = Len(units) - p
        /\ \A i \in 1 .. Len(units) - p : Drop(units, p)[i] = units[p + i]
    BY DEF Drop
  <2>4. Len(s \o rest) = Len(s) + Len(rest) /\ \A i \in 1 .. Len(s) : (s \o rest)[i] = s[i]
    OBVIOUS
  <2>5. p + n <= Len(units)
    BY <1>2, <1>5, <2>3, <2>4
  <2>6. Drop(s, n) \o rest = Drop(units, p + n)
    BY <2>2, <2>5, DropMore
  <2>7. ASSUME NEW i \in 1 .. n
        PROVE  Take(s, n)[i] = units[p + i]
    <3>1. Take(s, n)[i] = s[i] /\ i \in 1 .. Len(s) /\ i \in 1 .. Len(units) - p
      BY <1>5, <2>5 DEF Take
    <3> QED
      BY <1>2, <2>3, <2>4, <3>1
  <2>8. <<>> \o (Drop(s, n) \o rest) = Drop(s, n) \o rest
    <3>1. Drop(s, n) \in Seq(FileUnits)
      BY <1>0, DroppedAny
    <3>2. Drop(s, n) \o rest \in Seq(FileUnits)
      BY <3>1, JoinUnits
    <3> QED
      BY <3>2
  <2> QED
    BY <1>3, <2>1, <2>5, <2>6, <2>7, <2>8
<1>6. Len(s) < n \/ n <= Len(s)
  OBVIOUS
<1> QED
  BY <1>3, <1>4, <1>5, <1>6, Zenon

-----------------------------------------------------------------------------
(* The extra field.                                                        *)
NamesExtra == Has(file.units[3].value, EXTRA_FLAG)
ExtraFrom  == GZIP_HDR_BASE + GZIP_EXTRA_LEN

LEMMA FileFacts ==
  ASSUME Inv, file.flag = "gzip_no_hdr_ver"
  PROVE  /\ file.units \in Seq(FileUnits) /\ file.extra \in Seq(Nat) /\ 3 <= Len(file.units)
         /\ NamesExtra =>
              /\ ExtraFrom + Len(file.extra) <= Len(file.units)
              /\ file.units[4].value = Len(file.extra)
              /\ \A i \in 1 .. Len(file.extra) :
                   file.units[ExtraFrom + i].value = file.extra[i]
         /\ ~ NamesExtra => file.extra = <<>>
<1>1. file \in Files
  BY DEF Inv, ControlInv
<1>2. file.units \in Seq(FileUnits)
  BY <1>1, FilesAssumption
<1>3. PICK f \in Files : f = file /\ f.flag = "gzip_no_hdr_ver"
  BY <1>1
<1>4. /\ f.extra \in Seq(Nat) /\ Len(f.units) >= 3
      /\ IF Has(f.units[3].value, EXTRA_FLAG)
         THEN /\ Len(f.units) >= ExtraFrom + Len(f.extra) /\ f.units[4].value = Len(f.extra)
              /\ \A i \in 1 .. Len(f.extra) : f.units[ExtraFrom + i].value = f.extra[i]
         ELSE f.extra = <<>>
  BY <1>3, ExtraAssumption DEF ExtraFrom, GZIP_HDR_BASE
<1>5. Len(f.extra) \in Nat /\ Len(f.units) \in Nat /\ ExtraFrom \in Nat
  BY <1>2, <1>3, <1>4 DEF ExtraFrom, GZIP_HDR_BASE, GZIP_EXTRA_LEN
<1> QED
  BY <1>2, <1>3, <1>4, <1>5 DEF NamesExtra

(* The first n values of the field are in the caller's buffer.             *)
Holds(data, extra, n) ==
  n <= Len(extra) /\ n <= Len(data) /\ \A i \in 1 .. n : data[i] = extra[i]
ExtraHeld(n) == Holds(gz_hdr.extra.data, file.extra, n)

(* ExtraInv: while the header is read, what is ahead in the file is the    *)
(* base of the header, the length of the extra field, or what of the field *)
(* is not yet copied; later the field is in the buffer.                    *)
BeforeBase == At("NEW_HDR", "base") /\ ~ wrapper_flag
PastExtra ==
  \/ At("GZIP_NAME", "name") \/ At("GZIP_COMMENT", "comment") \/ At("GZIP_HCRC", "hcrc")
  \/ field \in {"sum", "done"} \/ wrapper_flag
ExtraInv ==
  crc_flag = "gzip_no_hdr_ver" =>
    /\ file.flag = crc_flag /\ ~ gz_hdr.extra.null
    /\ ~ wrapper_flag => pc \in {"idle", "header"}
    /\ BeforeBase => Ahead = file.units
    /\ At("GZIP_EXTRA_LEN", "extra_len") =>
         NamesExtra /\ Ahead = Drop(file.units, GZIP_HDR_BASE)
    /\ At("GZIP_EXTRA", "extra") =>
         /\ NamesExtra /\ tmp_in = <<>> /\ gz_hdr.extra_len = Len(file.extra)
         /\ count <= Len(file.extra) /\ ExtraHeld(Len(file.extra) - count)
         /\ Ahead = Drop(file.units, ExtraFrom + (Len(file.extra) - count))
    /\ PastExtra => gz_hdr.extra_len = Len(file.extra) /\ ExtraHeld(gz_hdr.extra_len)

(* These units of the file are the values of its extra field.              *)
Encodes(units, from, extra) ==
  /\ from + Len(extra) <= Len(units)
  /\ \A i \in 1 .. Len(extra) : units[from + i].value = extra[i]

(* The input goes on behind the first p units.                             *)
Onward(units, p) == next_in \o rest = Drop(units, p)

(* What a copy to the buffer of the extra field adds to it.                *)
LEMMA ExtraCopyAhead ==
  ASSUME next_in \in Seq(FileUnits), rest \in Seq(FileUnits), count \in Nat,
         NEW buf \in Buffers, ~ buf.null, NEW units \in Seq(FileUnits), NEW extra \in Seq(Nat),
         NEW from \in Nat, Encodes(units, from, extra),
         count <= Len(extra), Holds(buf.data, extra, Len(extra) - count),
         Onward(units, from + (Len(extra) - count))
  PROVE  LET copy == buffer_header_copy(count, buf, Len(extra) - count, "EXTRA_OVERFLOW")
         IN  /\ copy.count \in Nat /\ copy.count <= Len(extra) /\ ~ copy.buf.null
             /\ copy.ret = "OK" => copy.count = 0
             /\ Holds(copy.buf.data, extra, Len(extra) - copy.count)
             /\ copy.next \o rest = Drop(units, from + (Len(extra) - copy.count))
<1>1. PICK size \in Nat, room0 \in Nat, total \in Nat, in \in Nat :
        size = Len(extra) /\ room0 = Len(buf.data) /\ total = Len(units) /\ in = Len(next_in)
  BY DEF Buffers
<1>2. PICK offset \in Nat : offset = size - count
  <2>1. size - count \in Nat
    BY <1>1
  <2> QED
    BY <2>1
<1>3. offset <= room0 /\ offset <= size /\ offset + count = size
  BY <1>1, <1>2 DEF Holds
<1> DEFINE len    == Least(count, in)
           room   == room0 - offset
           full   == ~ buf.null /\ room < len
           most   == IF full THEN room ELSE len
           result == IF full THEN "EXTRA_OVERFLOW" ELSE IF len = count THEN "OK" ELSE "END_INPUT"
<1>4. buffer_header_copy(count, buf, offset, "EXTRA_OVERFLOW") =
         [ret |-> result, next |-> Drop(next_in, most), count |-> count - most,
          buf |-> WrittenAt(buf, offset, Values(Take(next_in, most)))]
  BY <1>1 DEF buffer_header_copy
<1>5. len \in Nat /\ len <= count /\ len <= in
  BY <1>1, LeastOf
<1> HIDE DEF len
<1>6. /\ most \in Nat /\ most <= count /\ most <= in /\ offset + most <= room0
      /\ (result = "OK" => most = count)
  <2>1. CASE full
    BY <1>3, <1>5, <2>1
  <2>2. CASE ~ full
    BY <1>3, <1>5, <2>2
  <2> QED
    BY <2>1, <2>2
<1> HIDE DEF most, result
<1>7. PICK n \in Nat : n = most
  BY <1>6, Zenon
<1>8. PICK copy : copy = buffer_header_copy(count, buf, offset, "EXTRA_OVERFLOW")
  OBVIOUS
<1>9. /\ copy.count = count - n
      /\ copy.next = Drop(next_in, n)
      /\ copy.buf = WrittenAt(buf, offset, Values(Take(next_in, n)))
      /\ copy.ret = result
  BY <1>4, <1>7, <1>8
<1>10. n <= count /\ n <= in /\ offset + n <= room0 /\ (copy.ret = "OK" => n = count)
  <2>1. n <= count /\ n <= in /\ offset + n <= room0
    BY <1>6, <1>7, Zenon
  <2>2. result = "OK" => n = count
    BY <1>6, <1>7, Zenon
  <2> QED
    BY <1>9, <2>1, <2>2, Zenon
<1>11. PICK left \in Nat : left + n = count /\ copy.count = left
  <2>1. count - n \in Nat /\ (count - n) + n = count
    BY <1>10
  <2> QED
    BY <1>9, <2>1
<1>12. left <= size /\ size - left = offset + n /\ offset + n <= size
  BY <1>3, <1>11
<1>13. PICK p \in Nat : p = from + offset
  OBVIOUS
<1>14. p + count = from + size /\ p + n <= from + size
  BY <1>3, <1>10, <1>13
<1>15. from + size <= total
  BY <1>1 DEF Encodes
<1>16. p <= total /\ p + n <= total
  BY <1>14, <1>15
<1>17. copy.next \o rest = Drop(units, from + (size - copy.count))
  <2>0. n <= Len(next_in)
    BY <1>1, <1>10
  <2>1. Drop(next_in, n) \o rest = Drop(next_in \o rest, n)
    BY <2>0, DropFront, SMTT(60)
  <2>2. p + n <= Len(units)
    BY <1>1, <1>16
  <2>3. Drop(Drop(units, p), n) = Drop(units, p + n)
    BY <2>2, DropMore
  <2>4. p + n = from + (size - copy.count)
    BY <1>11, <1>12, <1>13
  <2>5. next_in \o rest = Drop(units, p)
    BY <1>1, <1>2, <1>13 DEF Onward
  <2> QED
    BY <1>9, <2>1, <2>3, <2>4, <2>5
<1>18. Onward(units, p)
  BY <1>1, <1>2, <1>13
<1>19. ASSUME NEW j \in 1 .. n
      PROVE  next_in[j] = units[p + j]
  <2>1. Follows(Drop(units, p), FileUnits, units, p, total)
    BY <1>1, <1>16, DroppedEach
  <2>2. j \in 1 .. total - p /\ j \in 1 .. Len(next_in)
    <3>1. j <= in /\ p + j <= total
      BY <1>10, <1>16
    <3> QED
      BY <1>1, <3>1
  <2>3. (next_in \o rest)[j] = next_in[j]
    BY <2>2
  <2> QED
    BY <1>18, <2>1, <2>2, <2>3 DEF Follows, Onward
<1>20. PICK values \in Seq(Nat) :
        /\ values = Values(Take(next_in, n)) /\ DOMAIN values = 1 .. n
        /\ \A j \in 1 .. n : values[j] = next_in[j].value
  <2>1. PICK taken \in Seq(FileUnits) : taken = Take(next_in, n) /\ Len(taken) = n
    BY <1>1, <1>10, Taken1
  <2>2. \A j \in 1 .. n : taken[j] = next_in[j]
    BY <1>1, <1>10, <2>1 DEF Take
  <2>3. Values(taken) \in Seq(Nat) /\ Len(Values(taken)) = n
    BY <2>1, ValuesSeq
  <2>4. \A j \in 1 .. n : Values(taken)[j] = taken[j].value
    BY <2>1 DEF Values
  <2> QED
    BY <2>1, <2>2, <2>3, <2>4
<1>21. /\ ~ copy.buf.null
      /\ copy.buf.data = [i \in DOMAIN buf.data |-> IF i - offset \in 1 .. n
                                                    THEN values[i - offset] ELSE buf.data[i]]
  BY <1>9, <1>20 DEF WrittenAt, Buffers
<1>22. DOMAIN buf.data = 1 .. room0 /\ Len(copy.buf.data) = room0
  BY <1>1, <1>21 DEF Buffers
<1>23. ASSUME NEW i \in 1 .. offset + n
       PROVE  copy.buf.data[i] = extra[i]
  <2>1. i \in 1 .. room0 /\ i \in 1 .. size
    BY <1>10, <1>12
  <2>2. CASE i <= offset
    <3>1. i - offset \notin 1 .. n /\ i \in 1 .. offset
      BY <1>2, <2>2
    <3>2. buf.data[i] = extra[i]
      BY <1>1, <1>2, <3>1 DEF Holds
    <3> QED
      BY <1>21, <1>22, <2>1, <3>1, <3>2
  <2>3. CASE ~ (i <= offset)
    <3>1. i - offset \in 1 .. n
      BY <2>3
    <3>4. p + (i - offset) = from + i
      BY <1>13
    <3>2. copy.buf.data[i] = next_in[i - offset].value
      BY <1>20, <1>21, <1>22, <2>1, <3>1
    <3>3. next_in[i - offset] = units[from + i]
      BY <1>19, <3>1, <3>4
    <3> QED
      BY <1>1, <2>1, <3>2, <3>3 DEF Encodes
  <2> QED
    BY <2>2, <2>3
<1>24. size - copy.count = offset + n /\ copy.count \in Nat /\ copy.count <= size
       /\ (copy.ret = "OK" => copy.count = 0)
  BY <1>10, <1>11, <1>12
<1>25. Holds(copy.buf.data, extra, size - copy.count)
  <2>1. PICK k \in Nat : k = offset + n /\ size - copy.count = k /\ k <= size /\ k <= room0
    BY <1>10, <1>11, <1>12
  <2> QED
    BY <1>1, <1>22, <1>23, <2>1 DEF Holds
<1> QED
  BY <1>1, <1>2, <1>8, <1>17, <1>21, <1>24, <1>25

(* Steps that change neither the position in the header nor the field.     *)
AtFields == {<<"NEW_HDR", "base">>, <<"GZIP_EXTRA_LEN", "extra_len">>, <<"GZIP_EXTRA", "extra">>,
             <<"GZIP_NAME", "name">>, <<"GZIP_COMMENT", "comment">>, <<"GZIP_HCRC", "hcrc">>}

LEMMA ExtraSame ==
  ASSUME ExtraInv, UNCHANGED <<file, crc_flag, wrapper_flag, tmp_in>>,
         next_in' \o rest' = next_in \o rest,
         gz_hdr'.extra_len = gz_hdr.extra_len, gz_hdr'.extra.null = gz_hdr.extra.null,
         \A n \in Nat : Holds(gz_hdr.extra.data, file.extra, n) =>
                        Holds(gz_hdr'.extra.data, file.extra, n),
         file.extra \in Seq(Nat), gz_hdr.extra_len \in Nat, count \in Nat,
         wrapper_flag' \/ pc' \in {"idle", "header"},
         \A a \in AtFields : At(a[1], a[2])' => At(a[1], a[2]),
         field' \in {"sum", "done"} => field \in {"sum", "done"},
         At("GZIP_EXTRA", "extra")' => count' = count
  PROVE  ExtraInv'
<1> SUFFICES ASSUME crc_flag = "gzip_no_hdr_ver" PROVE ExtraInv'
  BY DEF ExtraInv
<1>1. Ahead' = Ahead
  BY DEF Ahead
<1>2. NamesExtra' = NamesExtra
  BY DEF NamesExtra
<1>3. \A n \in Nat : ExtraHeld(n) => Holds(gz_hdr'.extra.data, file'.extra, n)
  BY DEF ExtraHeld
<1>4. /\ At("NEW_HDR", "base")' => At("NEW_HDR", "base")
      /\ At("GZIP_EXTRA_LEN", "extra_len")' => At("GZIP_EXTRA_LEN", "extra_len")
      /\ At("GZIP_EXTRA", "extra")' => At("GZIP_EXTRA", "extra")
      /\ At("GZIP_NAME", "name")' => At("GZIP_NAME", "name")
      /\ At("GZIP_COMMENT", "comment")' => At("GZIP_COMMENT", "comment")
      /\ At("GZIP_HCRC", "hcrc")' => At("GZIP_HCRC", "hcrc")
  BY DEF AtFields
<1>5. BeforeBase' => Ahead' = file'.units
  BY <1>1, <1>4 DEF ExtraInv, BeforeBase
<1>6. At("GZIP_EXTRA_LEN", "extra_len")' =>
        NamesExtra' /\ Ahead' = Drop(file'.units, GZIP_HDR_BASE)
  BY <1>1, <1>2, <1>4 DEF ExtraInv
<1>7. ASSUME At("GZIP_EXTRA", "extra")'
      PROVE  /\ NamesExtra' /\ tmp_in' = <<>> /\ gz_hdr'.extra_len = Len(file'.extra)
             /\ count' <= Len(file'.extra)
             /\ Holds(gz_hdr'.extra.data, file'.extra, Len(file'.extra) - count')
             /\ Ahead' = Drop(file'.units, ExtraFrom + (Len(file'.extra) - count'))
  <2>1. /\ NamesExtra /\ tmp_in = <<>> /\ gz_hdr.extra_len = Len(file.extra)
        /\ count <= Len(file.extra) /\ ExtraHeld(Len(file.extra) - count)
        /\ Ahead = Drop(file.units, ExtraFrom + (Len(file.extra) - count))
    BY <1>4, <1>7 DEF ExtraInv
  <2>2. Len(file.extra) - count \in Nat
    BY <2>1
  <2>3. Holds(gz_hdr'.extra.data, file'.extra, Len(file.extra) - count)
    BY <1>3, <2>1, <2>2
  <2>4. count' = count /\ file' = file
    BY <1>7
  <2> QED
    BY <1>1, <1>2, <2>1, <2>3, <2>4
<1>8. ASSUME PastExtra'
      PROVE  /\ gz_hdr'.extra_len = Len(file'.extra)
             /\ Holds(gz_hdr'.extra.data, file'.extra, gz_hdr'.extra_len)
  <2>1. PastExtra
    BY <1>4, <1>8 DEF PastExtra
  <2>2. gz_hdr.extra_len = Len(file.extra) /\ ExtraHeld(gz_hdr.extra_len)
    BY <2>1 DEF ExtraInv
  <2> QED
    BY <1>3, <2>2
<1>9. /\ file'.flag = crc_flag' /\ ~ gz_hdr'.extra.null
      /\ ~ wrapper_flag' => pc' \in {"idle", "header"}
  BY DEF ExtraInv
<1> QED
  BY <1>5, <1>6, <1>7, <1>8, <1>9 DEF ExtraInv, ExtraHeld, ExtraFrom

(* Steps of isal_inflate behind the header.                                *)
LEMMA ExtraQuiet ==
  ASSUME Inv, Inv', ExtraInv, UNCHANGED <<file, gz_hdr>>,
         crc_flag # "gzip_no_hdr_ver" \/ wrapper_flag,
         crc_flag' = "gzip" \/ UNCHANGED <<crc_flag, wrapper_flag>>,
         field' = "none" \/ crc_flag # "gzip_no_hdr_ver"
  PROVE  ExtraInv'
<1> SUFFICES ASSUME crc_flag = "gzip_no_hdr_ver", UNCHANGED <<crc_flag, wrapper_flag>>
             PROVE  ExtraInv'
  BY DEF ExtraInv
<1>1. wrapper_flag /\ wrapper_flag' /\ field' = "none"
  OBVIOUS
<1>2. block_state' \in MemberStates
  BY <1>1 DEF Inv, ControlInv, WithinMember
<1>3. /\ ~ At("GZIP_EXTRA_LEN", "extra_len")' /\ ~ At("GZIP_EXTRA", "extra")' /\ ~ BeforeBase'
  BY <1>1, <1>2 DEF At, BeforeBase, MemberStates, BlockStates
<1>4. PastExtra
  BY <1>1 DEF PastExtra
<1>5. /\ file.flag = crc_flag /\ ~ gz_hdr.extra.null
      /\ gz_hdr.extra_len = Len(file.extra) /\ ExtraHeld(gz_hdr.extra_len)
  BY <1>4 DEF ExtraInv
<1>6. ExtraHeld(gz_hdr.extra_len)'
  BY <1>5 DEF ExtraHeld
<1> QED
  BY <1>1, <1>3, <1>5, <1>6 DEF ExtraInv

(* The types that the steps of the header need.                            *)
LEMMA ExtraTypes ==
  ASSUME Inv, ExtraInv, crc_flag = "gzip_no_hdr_ver"
  PROVE  /\ file.flag = "gzip_no_hdr_ver" /\ file.extra \in Seq(Nat)
         /\ file.units \in Seq(FileUnits) /\ gz_hdr.extra_len \in Nat /\ count \in Nat
         /\ gz_hdr.extra \in Buffers /\ ~ gz_hdr.extra.null
         /\ next_in \in Seq(FileUnits) /\ tmp_in \in Seq(FileUnits) /\ rest \in Seq(FileUnits)
<1>1. file.flag = "gzip_no_hdr_ver" /\ ~ gz_hdr.extra.null
  BY DEF ExtraInv
<1>2. file.extra \in Seq(Nat) /\ file.units \in Seq(FileUnits)
  BY <1>1, FileFacts
<1> QED
  BY <1>1, <1>2 DEF Inv, HeaderInv, InputInv, Buffers

LEMMA ExtraInit ==
  ASSUME Init
  PROVE  ExtraInv
<1>1. PICK n \in NameSizes : gz_hdr = GzHdr(0, Buffer(n))
  BY DEF Init
<1>2. ~ gz_hdr.extra.null
  BY <1>1 DEF GzHdr, Buffer
<1>3. /\ tmp_in = <<>> /\ next_in = <<>> /\ rest = file.units /\ file.units \in Seq(FileUnits)
  BY FilesAssumption DEF Init
<1>4. Ahead = file.units
  BY <1>3 DEF Ahead
<1>5. /\ field = "none" /\ block_state = "NEW_HDR" /\ ~ wrapper_flag /\ pc = "idle"
      /\ crc_flag = file.flag
  BY DEF Init
<1> QED
  BY <1>2, <1>4, <1>5 DEF ExtraInv, At, PastExtra

LEMMA ExtraUnchanged ==
  ASSUME Inv, ExtraInv, UNCHANGED <<file, crc_flag, header, tmp_in, next_in, rest, count>>,
         UNCHANGED block_state, Resumable' => Resumable,
         wrapper_flag' \/ pc' \in {"idle", "header"} \/ crc_flag # "gzip_no_hdr_ver"
  PROVE  ExtraInv'
<1> SUFFICES ASSUME crc_flag = "gzip_no_hdr_ver" PROVE ExtraInv'
  BY DEF ExtraInv
<1>1. UNCHANGED <<gz_hdr, wrapper_flag, field, hdr_ret>>
  BY DEF header, hdr_locals
<1>2. \A a \in AtFields : At(a[1], a[2])' => At(a[1], a[2])
  BY <1>1 DEF At
<1>3. /\ file.extra \in Seq(Nat) /\ gz_hdr.extra_len \in Nat /\ count \in Nat
  BY ExtraTypes
<1>4. wrapper_flag' \/ pc' \in {"idle", "header"}
  OBVIOUS
<1> QED
  BY <1>1, <1>2, <1>3, <1>4, ExtraSame

LEMMA GrownHolds ==
  ASSUME NEW buf \in Buffers, NEW new, new = buf \/ new = Grown(buf),
         NEW extra \in Seq(Nat), NEW n \in Nat, Holds(buf.data, extra, n)
  PROVE  Holds(new.data, extra, n) /\ new.null = buf.null
<1>1. CASE new = buf
  BY <1>1
<1>2. CASE new = Grown(buf)
  <2>1. PICK data \in Seq(Nat) : data = buf.data
    BY DEF Buffers
  <2>2. new.data = data \o <<Stray, Stray>> /\ new.null = buf.null
    BY <1>2, <2>1 DEF Grown, Buffers
  <2>3. <<Stray, Stray>> \in Seq(Nat)
    BY DEF Stray
  <2>4. Len(new.data) >= Len(data) /\ \A i \in 1 .. Len(data) : new.data[i] = data[i]
    BY <2>2, <2>3
  <2>5. n <= Len(data) /\ \A i \in 1 .. n : new.data[i] = data[i]
    BY <2>1, <2>4 DEF Holds
  <2> QED
    BY <2>1, <2>2, <2>4, <2>5 DEF Holds
<1> QED
  BY <1>1, <1>2

LEMMA ExtraCallHeader ==
  ASSUME Inv, ExtraInv, NEW n \in InSizes, CallHeader(n)
  PROVE  ExtraInv'
<1>1. /\ n \in Nat /\ crc_flag = "gzip_no_hdr_ver" /\ ret \notin Refused /\ pc = "idle"
      /\ pc' = "header" /\ Supply(n)
      /\ UNCHANGED <<file, crc_flag, wrapper_flag, tmp_in, block_state, count, field, hdr_ret, ret>>
  BY InflateAssumption DEF CallHeader, params, block, hdr_locals
<1>2. /\ file.extra \in Seq(Nat) /\ gz_hdr.extra_len \in Nat /\ count \in Nat
      /\ gz_hdr.extra \in Buffers /\ next_in \in Seq(FileUnits) /\ rest \in Seq(FileUnits)
  BY <1>1, ExtraTypes
<1>3. next_in' \o rest' = next_in \o rest
  BY <1>1, <1>2, SupplyAhead
<1>4. /\ gz_hdr'.extra_len = gz_hdr.extra_len
      /\ gz_hdr'.extra = gz_hdr.extra \/ gz_hdr'.extra = Grown(gz_hdr.extra)
  <2>1. HdrOK(gz_hdr)
    BY DEF Inv, HeaderInv, HdrOK, Buffers
  <2> DEFINE name  == IF ret = "NAME_OVERFLOW" THEN Grown(gz_hdr.name) ELSE gz_hdr.name
             extra == IF ret = "EXTRA_OVERFLOW" THEN Grown(gz_hdr.extra) ELSE gz_hdr.extra
  <2>2. gz_hdr' = [gz_hdr EXCEPT !.name = name, !.extra = extra]
    BY DEF CallHeader
  <2>3. extra = gz_hdr.extra \/ extra = Grown(gz_hdr.extra)
    OBVIOUS
  <2> HIDE DEF name, extra
  <2> QED
    BY <2>1, <2>2, <2>3 DEF HdrOK
<1>5. /\ gz_hdr'.extra.null = gz_hdr.extra.null
      /\ \A m \in Nat : Holds(gz_hdr.extra.data, file.extra, m) =>
                        Holds(gz_hdr'.extra.data, file.extra, m)
  <2>1. gz_hdr'.extra.null = gz_hdr.extra.null
    BY <1>2, <1>4 DEF Grown, Buffers
  <2>2. ASSUME NEW m \in Nat, Holds(gz_hdr.extra.data, file.extra, m)
        PROVE  Holds(gz_hdr'.extra.data, file.extra, m)
    BY <1>2, <1>4, <2>2, GrownHolds
  <2> QED
    BY <2>1, <2>2
<1>6. \A a \in AtFields : At(a[1], a[2])' => At(a[1], a[2])
  BY <1>1 DEF At, Resumable
<1> QED
  BY <1>1, <1>2, <1>3, <1>4, <1>5, <1>6, ExtraSame

LEMMA ExtraStartHeader ==
  ASSUME Inv, ExtraInv, StartHeader
  PROVE  ExtraInv'
<1>1. UNCHANGED <<file, crc_flag, rest, ret, pc>>
  BY DEF StartHeader, outside_header, params
<1> SUFFICES ASSUME crc_flag = "gzip_no_hdr_ver" PROVE ExtraInv'
  BY <1>1 DEF ExtraInv
<1>2. pc = "header" /\ EnterHeader(gz_hdr)
  BY DEF StartHeader, Inv, ControlInv
<1>3. /\ field = "none" /\ field' = Resumes[block_state] /\ gz_hdr' = gz_hdr
      /\ count' = (IF block_state = "NEW_HDR" THEN 0 ELSE count)
      /\ UNCHANGED <<next_in, tmp_in, block_state, wrapper_flag, hdr_ret>>
  BY <1>2 DEF EnterHeader
<1>4. block_state \in WrapperStates /\ ret \notin Refused /\ ~ wrapper_flag
  BY <1>2, <1>3 DEF Inv, ControlInv, HeaderInv, WithinMember
<1>5. /\ Resumable /\ field' \notin {"none", "returned", "sum", "done"}
      /\ field' = "base" => block_state = "NEW_HDR"
      /\ field' = "extra_len" => block_state = "GZIP_EXTRA_LEN"
      /\ field' = "extra" => block_state = "GZIP_EXTRA"
      /\ field' = "name" => block_state = "GZIP_NAME"
      /\ field' = "comment" => block_state = "GZIP_COMMENT"
      /\ field' = "hcrc" => block_state = "GZIP_HCRC"
  BY <1>3, <1>4 DEF Resumable, WrapperStates, Resumes
<1>6. \A a \in AtFields : At(a[1], a[2])' => At(a[1], a[2])
  BY <1>5 DEF At, AtFields, Resumable
<1>7. At("GZIP_EXTRA", "extra")' => count' = count
  BY <1>3, <1>5 DEF At, Resumable
<1>8. file.extra \in Seq(Nat) /\ gz_hdr.extra_len \in Nat /\ count \in Nat
  BY ExtraTypes
<1> QED
  BY <1>1, <1>2, <1>3, <1>5, <1>6, <1>7, <1>8, ExtraSame

LEMMA ExtraEndHeader ==
  ASSUME Inv, ExtraInv, EndHeader
  PROVE  ExtraInv'
<1>1. UNCHANGED <<file, crc_flag, rest, next_in, tmp_in, block_state, count, wrapper_flag,
                  gz_hdr, hdr_ret>>
  BY DEF EndHeader, LeaveHeader, outside_header, params
<1> SUFFICES ASSUME crc_flag = "gzip_no_hdr_ver" PROVE ExtraInv'
  BY <1>1 DEF ExtraInv
<1>2. pc' = "idle" /\ ret' = hdr_ret /\ field = "returned" /\ field' = "none"
  BY DEF EndHeader, LeaveHeader, Inv, ControlInv
<1>3. \A a \in AtFields : At(a[1], a[2])' => At(a[1], a[2])
  <2>1. Resumable' => Resumable
    BY <1>1, <1>2 DEF Resumable
  <2>2. \A a \in AtFields : a[2] # "none"
    BY DEF AtFields
  <2> QED
    BY <1>1, <1>2, <2>1, <2>2 DEF At
<1>4. file.extra \in Seq(Nat) /\ gz_hdr.extra_len \in Nat /\ count \in Nat
  BY ExtraTypes
<1> QED
  BY <1>1, <1>2, <1>3, <1>4, ExtraSame

(* Steps of the header that come behind the extra field.                   *)
LEMMA ExtraLater ==
  ASSUME Inv, ExtraInv, PastExtra, UNCHANGED <<file, crc_flag, pc>>, pc \in {"idle", "header"},
         gz_hdr'.extra_len = gz_hdr.extra_len, gz_hdr'.extra = gz_hdr.extra,
         \/ field' \in {"name", "comment", "sum", "hcrc", "done"}
         \/ field' = "returned" /\ block_state' \in {"GZIP_NAME", "GZIP_COMMENT", "GZIP_HCRC"}
         \/ field' = "returned" /\ hdr_ret' \in Refused
         \/ field' = "returned" /\ wrapper_flag' /\ block_state' = "NEW_HDR"
  PROVE  ExtraInv'
<1> SUFFICES ASSUME crc_flag = "gzip_no_hdr_ver" PROVE ExtraInv'
  BY DEF ExtraInv
<1>1. /\ file.flag = crc_flag /\ ~ gz_hdr.extra.null
      /\ gz_hdr.extra_len = Len(file.extra) /\ ExtraHeld(gz_hdr.extra_len)
  BY DEF ExtraInv
<1>2. ExtraHeld(gz_hdr.extra_len)'
  BY <1>1 DEF ExtraHeld
<1>3. /\ ~ At("GZIP_EXTRA_LEN", "extra_len")' /\ ~ At("GZIP_EXTRA", "extra")' /\ ~ BeforeBase'
  BY DEF At, BeforeBase, Resumable
<1> QED
  BY <1>1, <1>2, <1>3 DEF ExtraInv

LEMMA ExtraReadBase ==
  ASSUME Inv, ExtraInv, crc_flag = "gzip_no_hdr_ver", ReadBase, pc \in {"idle", "header"},
         UNCHANGED <<file, crc_flag, rest, pc>>
  PROVE  ExtraInv'
<1> DEFINE read == fixed_size_read(GZIP_HDR_BASE)
           f    == read.units[3].value
           len  == IF Has(f, EXTRA_FLAG) THEN gz_hdr.extra_len ELSE 0
           new  == [gz_hdr EXCEPT !.flags = f, !.extra_len = len]
<1>1. field = "base" /\ field \in HeaderFields /\ block_state = "NEW_HDR"
  BY DEF ReadBase, Inv, HeaderInv, HeaderFields
<1>2. HdrOK(gz_hdr) /\ ~ wrapper_flag
  BY <1>1, InHeader
<1>3. /\ file.flag = "gzip_no_hdr_ver" /\ file.extra \in Seq(Nat)
      /\ file.units \in Seq(FileUnits) /\ ~ gz_hdr.extra.null
      /\ next_in \in Seq(FileUnits) /\ tmp_in \in Seq(FileUnits) /\ rest \in Seq(FileUnits)
  BY ExtraTypes
<1>4. Ahead = file.units
  BY <1>1, <1>2 DEF ExtraInv, BeforeBase, At
<1>5. /\ read.ret \in {"OK", "END_INPUT"}
      /\ read.ret = "END_INPUT" => read.tmp \o (read.next \o rest) = file.units
      /\ read.ret = "OK" => /\ read.tmp \o (read.next \o rest) = Drop(file.units, GZIP_HDR_BASE)
                            /\ read.units[3] = file.units[3]
  <2>1. Drop(file.units, 0) = file.units
    BY <1>3 DEF Drop
  <2>2. 3 \in 1 .. 3 /\ 0 \in Nat /\ 0 <= Len(file.units) /\ GZIP_HDR_BASE = 3
    BY <1>3 DEF GZIP_HDR_BASE
  <2>3. PICK units \in Seq(FileUnits) : units = file.units
    BY <1>3
  <2>4. Ahead = Drop(units, 0) /\ 0 <= Len(units)
    BY <1>4, <2>1, <2>2, <2>3
  <2>5. LET r == fixed_size_read(3)
        IN  /\ r.ret \in {"OK", "END_INPUT"}
            /\ r.ret = "END_INPUT" => r.tmp \o (r.next \o rest) = Ahead
            /\ r.ret = "OK" =>
                 /\ r.tmp = <<>> /\ 0 + 3 <= Len(units)
                 /\ r.tmp \o (r.next \o rest) = Drop(units, 0 + 3)
                 /\ \A i \in 1 .. 3 : r.units[i] = units[0 + i]
    BY <1>3, <2>2, <2>4, FixedReadAhead
  <2>6. PICK r : r = fixed_size_read(3)
    OBVIOUS
  <2>7. /\ r.ret \in {"OK", "END_INPUT"}
        /\ r.ret = "END_INPUT" => r.tmp \o (r.next \o rest) = Ahead
        /\ r.ret = "OK" => r.tmp \o (r.next \o rest) = Drop(units, 3) /\ r.units[3] = units[3]
    <3>1. /\ r.ret \in {"OK", "END_INPUT"}
          /\ r.ret = "END_INPUT" => r.tmp \o (r.next \o rest) = Ahead
          /\ r.ret = "OK" => /\ r.tmp \o (r.next \o rest) = Drop(units, 0 + 3)
                             /\ \A i \in 1 .. 3 : r.units[i] = units[0 + i]
      BY <2>5, <2>6, Zenon
    <3>2. r.ret = "OK" => r.units[3] = units[0 + 3]
      BY <3>1
    <3>3. 0 + 3 = 3
      OBVIOUS
    <3> QED
      BY <3>1, <3>2, <3>3, Zenon
  <2>8. r = read
    BY <2>2, <2>6
  <2> HIDE DEF read
  <2> QED
    BY <1>4, <2>2, <2>3, <2>7, <2>8
<1>6. new.extra = gz_hdr.extra /\ new.extra_len = len
  BY <1>2 DEF HdrOK
<1> HIDE DEF new
<1>7. /\ next_in' = read.next /\ tmp_in' = read.tmp
      /\ wrapper_flag' = wrapper_flag /\ block_state' = "NEW_HDR"
      /\ \/ /\ field' = "returned" /\ read.ret = "END_INPUT"
            /\ (gz_hdr' = gz_hdr \/ \E sum : gz_hdr' = [gz_hdr EXCEPT !.hcrc = sum])
         \/ /\ field' = "returned" /\ hdr_ret' \in {"INVALID_WRAPPER", "UNSUPPORTED_METHOD"}
            /\ gz_hdr' = gz_hdr
         \/ field' = AfterBase(f) /\ gz_hdr' = new /\ read.ret = "OK"
  BY <1>1, <1>5 DEF ReadBase, BreakOff, Return, GoOn, new
<1> HIDE DEF read, len
<1>8. Ahead' = read.tmp \o (read.next \o rest)
  BY <1>7 DEF Ahead
<1>9. CASE /\ field' = "returned" /\ read.ret = "END_INPUT"
           /\ (gz_hdr' = gz_hdr \/ \E sum : gz_hdr' = [gz_hdr EXCEPT !.hcrc = sum])
  <2>1. gz_hdr'.extra = gz_hdr.extra
    BY <1>2, <1>9, BrokenHdr
  <2>2. Ahead' = file'.units
    BY <1>5, <1>8, <1>9
  <2>3. /\ ~ At("GZIP_EXTRA_LEN", "extra_len")' /\ ~ At("GZIP_EXTRA", "extra")' /\ ~ PastExtra'
    BY <1>2, <1>7, <1>9 DEF At, PastExtra
  <2> QED
    BY <1>3, <2>1, <2>2, <2>3 DEF ExtraInv
<1>10. CASE /\ field' = "returned" /\ hdr_ret' \in {"INVALID_WRAPPER", "UNSUPPORTED_METHOD"}
            /\ gz_hdr' = gz_hdr
  <2>1. ~ Resumable'
    BY <1>10 DEF Resumable, Refused
  <2>2. /\ ~ At("GZIP_EXTRA_LEN", "extra_len")' /\ ~ At("GZIP_EXTRA", "extra")' /\ ~ PastExtra'
        /\ ~ BeforeBase'
    BY <1>2, <1>7, <1>10, <2>1 DEF At, PastExtra, BeforeBase
  <2> QED
    BY <1>3, <1>10, <2>2 DEF ExtraInv
<1>11. CASE field' = AfterBase(f) /\ gz_hdr' = new /\ read.ret = "OK"
  <2>1. f = file.units[3].value /\ NamesExtra = Has(f, EXTRA_FLAG)
    BY <1>5, <1>11 DEF NamesExtra
  <2> HIDE DEF f
  <2>2. ~ Resumable' /\ field' \in {"extra_len", "name", "comment", "sum", "done"}
    BY <1>11 DEF Resumable, AfterBase, AfterExtra, AfterName, AfterComment
  <2>3. CASE NamesExtra
    <3>1. field' = "extra_len"
      BY <1>11, <2>1, <2>3 DEF AfterBase
    <3>2. /\ ~ At("GZIP_EXTRA", "extra")' /\ ~ PastExtra' /\ ~ BeforeBase'
      BY <1>2, <1>7, <2>2, <3>1 DEF At, PastExtra, BeforeBase
    <3>3. NamesExtra' /\ Ahead' = Drop(file'.units, GZIP_HDR_BASE)
      BY <1>5, <1>8, <1>11, <2>3 DEF NamesExtra
    <3> QED
      BY <1>3, <1>6, <1>11, <3>2, <3>3 DEF ExtraInv
  <2>4. CASE ~ NamesExtra
    <3>1. field' \in {"name", "comment", "sum", "done"}
      BY <1>11, <2>1, <2>4 DEF AfterBase, AfterExtra, AfterName, AfterComment
    <3>2. /\ ~ At("GZIP_EXTRA_LEN", "extra_len")' /\ ~ At("GZIP_EXTRA", "extra")' /\ ~ BeforeBase'
      BY <1>2, <1>7, <2>2, <3>1 DEF At, BeforeBase
    <3>3. file.extra = <<>> /\ gz_hdr'.extra_len = 0
      <4>1. file.extra = <<>>
        BY <1>3, <2>4, FileFacts
      <4>2. len = 0
        BY <2>1, <2>4 DEF len
      <4> QED
        BY <1>6, <1>11, <4>1, <4>2
    <3>4. gz_hdr'.extra = gz_hdr.extra /\ gz_hdr.extra \in Buffers
      BY <1>2, <1>6, <1>11 DEF HdrOK
    <3>5. gz_hdr'.extra_len = Len(file'.extra) /\ ExtraHeld(gz_hdr.extra_len)'
      BY <3>3, <3>4 DEF ExtraHeld, Holds, Buffers
    <3> QED
      BY <1>3, <3>2, <3>4, <3>5 DEF ExtraInv
  <2> QED
    BY <2>3, <2>4
<1> QED
  BY <1>7, <1>9, <1>10, <1>11

LEMMA ExtraReadExtraLen ==
  ASSUME Inv, ExtraInv, crc_flag = "gzip_no_hdr_ver", ReadExtraLen, pc \in {"idle", "header"},
         UNCHANGED <<file, crc_flag, rest, pc>>
  PROVE  ExtraInv'
<1> DEFINE read == fixed_size_read(GZIP_EXTRA_LEN)
           len  == read.units[1].value
           new  == [gz_hdr EXCEPT !.extra_len = len]
<1>1. field = "extra_len" /\ field \in HeaderFields
  BY DEF ReadExtraLen, HeaderFields
<1>2. HdrOK(gz_hdr) /\ ~ wrapper_flag
  BY <1>1, InHeader
<1>3. /\ file.flag = "gzip_no_hdr_ver" /\ file.extra \in Seq(Nat)
      /\ file.units \in Seq(FileUnits) /\ ~ gz_hdr.extra.null
      /\ next_in \in Seq(FileUnits) /\ tmp_in \in Seq(FileUnits) /\ rest \in Seq(FileUnits)
  BY ExtraTypes
<1>4. NamesExtra /\ Ahead = Drop(file.units, GZIP_HDR_BASE)
  BY <1>1 DEF ExtraInv, At
<1>5. /\ ExtraFrom = 5 /\ GZIP_HDR_BASE = 3 /\ GZIP_EXTRA_LEN = 2
      /\ 3 <= Len(file.units) /\ file.units[4].value = Len(file.extra)
  BY <1>3, <1>4, FileFacts DEF ExtraFrom, GZIP_HDR_BASE, GZIP_EXTRA_LEN
<1>6. /\ read.ret \in {"OK", "END_INPUT"}
      /\ read.ret = "END_INPUT" => read.tmp \o (read.next \o rest) = Ahead
      /\ read.ret = "OK" => /\ read.tmp = <<>>
                            /\ read.tmp \o (read.next \o rest) = Drop(file.units, ExtraFrom)
                            /\ len = Len(file.extra)
  <2>1. PICK units \in Seq(FileUnits) : units = file.units
    BY <1>3
  <2>2. Ahead = Drop(units, 3) /\ 3 <= Len(units) /\ 3 \in Nat /\ 2 \in 1 .. 3
    BY <1>4, <1>5, <2>1
  <2>3. LET r == fixed_size_read(2)
        IN  /\ r.ret \in {"OK", "END_INPUT"}
            /\ r.ret = "END_INPUT" => r.tmp \o (r.next \o rest) = Ahead
            /\ r.ret = "OK" =>
                 /\ r.tmp = <<>> /\ 3 + 2 <= Len(units)
                 /\ r.tmp \o (r.next \o rest) = Drop(units, 3 + 2)
                 /\ \A i \in 1 .. 2 : r.units[i] = units[3 + i]
    BY <1>3, <2>2, FixedReadAhead
  <2>4. PICK r : r = fixed_size_read(2)
    OBVIOUS
  <2>5. /\ r.ret \in {"OK", "END_INPUT"}
        /\ r.ret = "END_INPUT" => r.tmp \o (r.next \o rest) = Ahead
        /\ r.ret = "OK" => /\ r.tmp = <<>> /\ r.tmp \o (r.next \o rest) = Drop(units, 5)
                           /\ r.units[1] = units[4]
    <3>1. /\ r.ret \in {"OK", "END_INPUT"}
          /\ r.ret = "END_INPUT" => r.tmp \o (r.next \o rest) = Ahead
          /\ r.ret = "OK" => /\ r.tmp = <<>> /\ r.tmp \o (r.next \o rest) = Drop(units, 3 + 2)
                             /\ \A i \in 1 .. 2 : r.units[i] = units[3 + i]
      BY <2>3, <2>4, Zenon
    <3>2. r.ret = "OK" => r.units[1] = units[3 + 1]
      BY <3>1
    <3>3. 3 + 2 = 5 /\ 3 + 1 = 4
      OBVIOUS
    <3> QED
      BY <3>1, <3>2, <3>3, Zenon
  <2>6. r = read
    BY <1>5, <2>4
  <2> HIDE DEF read
  <2> QED
    BY <1>5, <2>1, <2>5, <2>6
<1>7. /\ next_in' = read.next /\ tmp_in' = read.tmp /\ wrapper_flag' = wrapper_flag
      /\ \/ /\ read.ret = "END_INPUT" /\ field' = "returned" /\ block_state' = "GZIP_EXTRA_LEN"
            /\ (gz_hdr' = gz_hdr \/ \E sum : gz_hdr' = [gz_hdr EXCEPT !.hcrc = sum])
         \/ read.ret = "OK" /\ field' = "extra" /\ count' = len /\ gz_hdr' = new
  BY <1>1, <1>6 DEF ReadExtraLen, BreakOff, GoOn
<1>8. new.extra = gz_hdr.extra /\ new.extra_len = len
  BY <1>2 DEF HdrOK
<1> HIDE DEF read, len, new
<1>9. Ahead' = read.tmp \o (read.next \o rest)
  BY <1>7 DEF Ahead
<1>10. CASE /\ read.ret = "END_INPUT" /\ field' = "returned" /\ block_state' = "GZIP_EXTRA_LEN"
            /\ (gz_hdr' = gz_hdr \/ \E sum : gz_hdr' = [gz_hdr EXCEPT !.hcrc = sum])
  <2>1. gz_hdr'.extra = gz_hdr.extra
    BY <1>2, <1>10, BrokenHdr
  <2>2. NamesExtra' /\ Ahead' = Drop(file'.units, GZIP_HDR_BASE)
    BY <1>4, <1>6, <1>9, <1>10 DEF NamesExtra
  <2>3. /\ ~ At("GZIP_EXTRA", "extra")' /\ ~ PastExtra' /\ ~ BeforeBase'
    BY <1>2, <1>7, <1>10 DEF At, PastExtra, BeforeBase
  <2> QED
    BY <1>3, <2>1, <2>2, <2>3 DEF ExtraInv
<1>11. CASE read.ret = "OK" /\ field' = "extra" /\ count' = len /\ gz_hdr' = new
  <2>1. /\ NamesExtra' /\ tmp_in' = <<>> /\ gz_hdr'.extra_len = Len(file'.extra)
        /\ gz_hdr'.extra = gz_hdr.extra /\ count' = Len(file'.extra)
    BY <1>4, <1>6, <1>7, <1>8, <1>11 DEF NamesExtra
  <2>2. Len(file'.extra) \in Nat /\ Len(file'.extra) - count' = 0 /\ count' <= Len(file'.extra)
    BY <1>3, <2>1
  <2>3. Ahead' = Drop(file'.units, ExtraFrom + (Len(file'.extra) - count'))
    <3>1. ExtraFrom + (Len(file'.extra) - count') = ExtraFrom
      BY <1>5, <2>2
    <3>2. Ahead' = Drop(file.units, ExtraFrom) /\ file' = file
      BY <1>6, <1>9, <1>11
    <3> QED
      BY <3>1, <3>2
  <2>4. Holds(gz_hdr'.extra.data, file'.extra, Len(file'.extra) - count')
    <3>1. gz_hdr.extra \in Buffers
      BY <1>2 DEF HdrOK
    <3> QED
      BY <2>1, <2>2, <3>1 DEF Holds, Buffers
  <2>5. ~ Resumable'
    BY <1>11 DEF Resumable
  <2>6. /\ ~ At("GZIP_EXTRA_LEN", "extra_len")' /\ ~ PastExtra' /\ ~ BeforeBase'
    BY <1>2, <1>7, <1>11, <2>5 DEF At, PastExtra, BeforeBase
  <2> QED
    BY <1>3, <2>1, <2>2, <2>3, <2>4, <2>6 DEF ExtraInv, ExtraHeld, ExtraFrom
<1> QED
  BY <1>7, <1>10, <1>11

LEMMA ExtraCopyExtra ==
  ASSUME Inv, ExtraInv, crc_flag = "gzip_no_hdr_ver", CopyExtra, pc \in {"idle", "header"},
         UNCHANGED <<file, crc_flag, rest, pc>>
  PROVE  ExtraInv'
<1>1. field = "extra" /\ field \in HeaderFields
  BY DEF CopyExtra, HeaderFields
<1>2. HdrOK(gz_hdr) /\ ~ wrapper_flag
  BY <1>1, InHeader
<1>3. /\ file.flag = "gzip_no_hdr_ver" /\ file.extra \in Seq(Nat)
      /\ file.units \in Seq(FileUnits) /\ gz_hdr.extra \in Buffers /\ ~ gz_hdr.extra.null
      /\ next_in \in Seq(FileUnits) /\ rest \in Seq(FileUnits) /\ count \in Nat
  BY ExtraTypes
<1>4. PICK buf \in Buffers, extra \in Seq(Nat), units \in Seq(FileUnits) :
        buf = gz_hdr.extra /\ extra = file.extra /\ units = file.units
  BY <1>3
<1>5. /\ NamesExtra /\ tmp_in = <<>> /\ gz_hdr.extra_len = Len(extra)
      /\ count <= Len(extra) /\ Holds(buf.data, extra, Len(extra) - count)
      /\ Ahead = Drop(units, ExtraFrom + (Len(extra) - count))
  BY <1>1, <1>4 DEF ExtraInv, At, ExtraHeld
<1>6. Onward(units, ExtraFrom + (Len(extra) - count))
  <2>1. next_in \o rest \in Seq(FileUnits)
    BY <1>3, JoinUnits
  <2>2. <<>> \o (next_in \o rest) = next_in \o rest
    BY <2>1
  <2> QED
    BY <1>5, <2>2 DEF Onward, Ahead
<1>7. ExtraFrom \in Nat /\ Encodes(units, ExtraFrom, extra)
  BY <1>3, <1>4, <1>5, FileFacts DEF Encodes, ExtraFrom, GZIP_HDR_BASE, GZIP_EXTRA_LEN
<1>8. PICK copy : copy = buffer_header_copy(count, buf, Len(extra) - count, "EXTRA_OVERFLOW")
  OBVIOUS
<1>9. /\ copy.count \in Nat /\ copy.count <= Len(extra) /\ ~ copy.buf.null
      /\ copy.ret = "OK" => copy.count = 0
      /\ Holds(copy.buf.data, extra, Len(extra) - copy.count)
      /\ copy.next \o rest = Drop(units, ExtraFrom + (Len(extra) - copy.count))
  <2>1. ~ buf.null /\ count <= Len(extra) /\ Holds(buf.data, extra, Len(extra) - count)
    BY <1>3, <1>4, <1>5
  <2>2. LET c == buffer_header_copy(count, buf, Len(extra) - count, "EXTRA_OVERFLOW")
        IN  /\ c.count \in Nat /\ c.count <= Len(extra) /\ ~ c.buf.null
            /\ c.ret = "OK" => c.count = 0
            /\ Holds(c.buf.data, extra, Len(extra) - c.count)
            /\ c.next \o rest = Drop(units, ExtraFrom + (Len(extra) - c.count))
    BY <1>3, <1>6, <1>7, <2>1, ExtraCopyAhead, SMTT(60)
  <2> QED
    BY <1>8, <2>2, Zenon
<1>10. copy.next \in Seq(FileUnits) /\ copy.buf \in Buffers
  <2>1. PICK size \in Nat : size = Len(extra)
    BY <1>4
  <2>2. ~ buf.null => count <= size /\ size - count <= Len(buf.data)
    BY <1>5, <2>1 DEF Holds
  <2>3. copy = buffer_header_copy(count, buf, size - count, "EXTRA_OVERFLOW")
    BY <1>8, <2>1
  <2> QED
    BY <1>3, <2>2, <2>3, ExtraCopyOK
<1>11. PICK hdr : hdr = [gz_hdr EXCEPT !.extra = copy.buf]
  OBVIOUS
<1>12. HdrOK(hdr) /\ hdr.extra_len = gz_hdr.extra_len /\ hdr.extra = copy.buf
  BY <1>2, <1>10, <1>11 DEF HdrOK
<1>13. Copy(copy, "GZIP_EXTRA", AfterExtra(flags), hdr)
  BY <1>4, <1>5, <1>8, <1>11 DEF CopyExtra
<1>14. PICK next : next = AfterExtra(flags)
  OBVIOUS
<1>15. next \in {"name", "comment", "sum", "done"}
  BY <1>14 DEF AfterExtra, AfterName, AfterComment
<1>16. /\ next_in' = copy.next /\ count' = copy.count /\ tmp_in' = tmp_in
       /\ wrapper_flag' = wrapper_flag /\ gz_hdr'.extra_len = hdr.extra_len
       /\ gz_hdr'.extra = hdr.extra
       /\ \/ /\ copy.ret # "OK" /\ field' = "returned" /\ block_state' = "GZIP_EXTRA"
          \/ /\ copy.ret = "OK" /\ field' = next
  <2>1. Copy(copy, "GZIP_EXTRA", next, hdr) /\ HdrOK(hdr)
    BY <1>12, <1>13, <1>14
  <2> QED
    BY <2>1, CopySteps
<1>17. Ahead' = copy.next \o rest
  <2>1. copy.next \o rest \in Seq(FileUnits)
    BY <1>3, <1>10, JoinUnits
  <2>2. <<>> \o (copy.next \o rest) = copy.next \o rest
    BY <2>1
  <2> QED
    BY <1>5, <1>16, <2>2 DEF Ahead
<1>18. /\ file'.flag = crc_flag' /\ ~ gz_hdr'.extra.null /\ gz_hdr'.extra_len = Len(file'.extra)
       /\ Holds(gz_hdr'.extra.data, file'.extra, Len(file'.extra) - count')
  BY <1>3, <1>4, <1>5, <1>9, <1>12, <1>16
<1>19. CASE copy.ret # "OK" /\ field' = "returned" /\ block_state' = "GZIP_EXTRA"
  <2>1. /\ ~ At("GZIP_EXTRA_LEN", "extra_len")' /\ ~ PastExtra' /\ ~ BeforeBase'
    BY <1>2, <1>16, <1>19 DEF At, PastExtra, BeforeBase
  <2>2. /\ NamesExtra' /\ tmp_in' = <<>> /\ count' <= Len(file'.extra)
        /\ Ahead' = Drop(file'.units, ExtraFrom + (Len(file'.extra) - count'))
    BY <1>4, <1>5, <1>9, <1>16, <1>17 DEF NamesExtra
  <2> QED
    BY <1>18, <2>1, <2>2 DEF ExtraInv, ExtraHeld, ExtraFrom
<1>20. CASE copy.ret = "OK" /\ field' = next
  <2>1. ~ Resumable'
    BY <1>15, <1>20 DEF Resumable
  <2>2. /\ ~ At("GZIP_EXTRA_LEN", "extra_len")' /\ ~ At("GZIP_EXTRA", "extra")' /\ ~ BeforeBase'
    BY <1>2, <1>15, <1>20, <2>1 DEF At, BeforeBase
  <2>3. Len(file'.extra) - count' = gz_hdr'.extra_len
    BY <1>4, <1>9, <1>16, <1>18, <1>20
  <2> QED
    BY <1>18, <2>2, <2>3 DEF ExtraInv, ExtraHeld
<1> QED
  BY <1>16, <1>19, <1>20

LEMMA ExtraBehind ==
  ASSUME Inv, ExtraInv, crc_flag = "gzip_no_hdr_ver",
         CopyName \/ CopyComment \/ SumHeader \/ ReadHcrc \/ HeaderDone,
         pc \in {"idle", "header"}, UNCHANGED <<file, crc_flag, rest, pc>>
  PROVE  ExtraInv'
<1>1. field \in {"name", "comment", "sum", "hcrc", "done"}
  BY DEF CopyName, CopyComment, SumHeader, ReadHcrc, HeaderDone
<1>2. PastExtra /\ HdrOK(gz_hdr) /\ field \in HeaderFields /\ block_state \in WrapperStates
  BY <1>1, InHeader DEF PastExtra, At, HeaderFields
<1> DEFINE Later ==
             /\ gz_hdr'.extra_len = gz_hdr.extra_len /\ gz_hdr'.extra = gz_hdr.extra
             /\ \/ field' \in {"name", "comment", "sum", "hcrc", "done"}
                \/ field' = "returned" /\ block_state' \in {"GZIP_NAME", "GZIP_COMMENT", "GZIP_HCRC"}
                \/ field' = "returned" /\ hdr_ret' \in Refused
                \/ field' = "returned" /\ wrapper_flag' /\ block_state' = "NEW_HDR"
<1>3. ASSUME CopyName PROVE Later
  <2>1. PICK copy, hdr : /\ copy = string_header_copy(gz_hdr.name, count, "NAME_OVERFLOW")
                         /\ hdr = [gz_hdr EXCEPT !.name = copy.buf]
    OBVIOUS
  <2>2. Copy(copy, "GZIP_NAME", AfterName(flags), hdr)
    BY <1>3, <2>1 DEF CopyName
  <2>3. hdr.extra_len = gz_hdr.extra_len /\ hdr.extra = gz_hdr.extra /\ DOMAIN hdr = DOMAIN gz_hdr
    BY <1>2, <2>1 DEF HdrOK
  <2>4. AfterName(flags) \in {"comment", "sum", "done"}
    BY DEF AfterName, AfterComment
  <2>5. gz_hdr' = hdr \/ \E sum : gz_hdr' = [hdr EXCEPT !.hcrc = sum]
    BY <2>2 DEF Copy, BreakOff, GoOn
  <2>6. gz_hdr'.extra_len = gz_hdr.extra_len /\ gz_hdr'.extra = gz_hdr.extra
    BY <1>2, <2>3, <2>5 DEF HdrOK
  <2>7. \/ field' = AfterName(flags)
        \/ field' = "returned" /\ block_state' = "GZIP_NAME"
    BY <2>2 DEF Copy, BreakOff, GoOn
  <2> QED
    BY <2>4, <2>6, <2>7
<1>4. ASSUME CopyComment PROVE Later
  <2>1. PICK copy, hdr : /\ copy = string_header_copy(gz_hdr.comment, count, "COMMENT_OVERFLOW")
                         /\ hdr = [gz_hdr EXCEPT !.comment = copy.buf]
    OBVIOUS
  <2>2. Copy(copy, "GZIP_COMMENT", AfterComment(flags), hdr)
    BY <1>4, <2>1 DEF CopyComment
  <2>3. hdr.extra_len = gz_hdr.extra_len /\ hdr.extra = gz_hdr.extra /\ DOMAIN hdr = DOMAIN gz_hdr
    BY <1>2, <2>1 DEF HdrOK
  <2>4. AfterComment(flags) \in {"sum", "done"}
    BY DEF AfterComment
  <2>5. gz_hdr' = hdr \/ \E sum : gz_hdr' = [hdr EXCEPT !.hcrc = sum]
    BY <2>2 DEF Copy, BreakOff, GoOn
  <2>6. gz_hdr'.extra_len = gz_hdr.extra_len /\ gz_hdr'.extra = gz_hdr.extra
    BY <1>2, <2>3, <2>5 DEF HdrOK
  <2>7. \/ field' = AfterComment(flags)
        \/ field' = "returned" /\ block_state' = "GZIP_COMMENT"
    BY <2>2 DEF Copy, BreakOff, GoOn
  <2> QED
    BY <2>4, <2>6, <2>7
<1>5. ASSUME SumHeader PROVE Later
  <2>1. field' = "hcrc" /\ \E sum : gz_hdr' = [gz_hdr EXCEPT !.hcrc = sum]
    BY <1>5 DEF SumHeader, GoOn
  <2>2. gz_hdr'.extra_len = gz_hdr.extra_len /\ gz_hdr'.extra = gz_hdr.extra
    BY <1>2, <2>1 DEF HdrOK
  <2> QED
    BY <2>1, <2>2
<1>6. ASSUME ReadHcrc PROVE Later
  BY <1>6 DEF ReadHcrc, Return, GoOn, Refused
<1>7. ASSUME HeaderDone PROVE Later
  BY <1>7 DEF HeaderDone
<1>8. Later
  BY <1>3, <1>4, <1>5, <1>6, <1>7
<1> QED
  BY <1>2, <1>8, ExtraLater

LEMMA ExtraWithinHeader ==
  ASSUME Inv, ExtraInv, WithinHeader
  PROVE  ExtraInv'
<1>1. HeaderStep /\ UNCHANGED <<file, crc_flag, rest, pc>>
  BY DEF WithinHeader, outside_header, params
<1> SUFFICES ASSUME crc_flag = "gzip_no_hdr_ver" PROVE ExtraInv'
  BY <1>1 DEF ExtraInv
<1>2. field \in HeaderFields
  BY <1>1 DEF HeaderStep, ReadBase, ReadExtraLen, CopyExtra, CopyName, CopyComment,
              SumHeader, ReadHcrc, HeaderDone, HeaderFields
<1>3. pc \in {"idle", "header"}
  BY <1>2, InHeader DEF ExtraInv
<1> QED
  BY <1>1, <1>3, ExtraReadBase, ExtraReadExtraLen, ExtraCopyExtra, ExtraBehind DEF HeaderStep

LEMMA ExtraNext ==
  ASSUME Inv, ExtraInv, [Next]_vars, Inv'
  PROVE  ExtraInv'
<1>1. CASE UNCHANGED vars
  <2>1. /\ UNCHANGED <<file, crc_flag, header, tmp_in, next_in, rest, count>>
        /\ UNCHANGED <<block_state, pc, ret, field, hdr_ret>>
    BY <1>1 DEF vars, params, input, block, header, hdr_locals
  <2>2. Resumable' => Resumable
    BY <2>1 DEF Resumable
  <2>3. wrapper_flag' \/ pc' \in {"idle", "header"} \/ crc_flag # "gzip_no_hdr_ver"
    BY <2>1 DEF ExtraInv, header
  <2> QED
    BY <2>1, <2>2, <2>3, ExtraUnchanged
<1>2. ASSUME NEW n \in InSizes, NEW o \in OutSizes, Call(n, o)
      PROVE  ExtraInv'
  <2>1. /\ UNCHANGED <<file, gz_hdr, crc_flag, wrapper_flag, field>> /\ pc = "idle"
        /\ crc_flag # "gzip_no_hdr_ver" \/ wrapper_flag
    BY <1>2 DEF Call, params, header, hdr_locals
  <2>2. field' = "none"
    BY <2>1 DEF Inv, HeaderInv
  <2> QED
    BY <2>1, <2>2, ExtraQuiet
<1>3. ASSUME NEW n \in InSizes, NextMember(n)
      PROVE  ExtraInv'
  BY <1>3 DEF NextMember, ExtraInv
<1>4. CASE SetDict
  <2>1. /\ UNCHANGED <<file, crc_flag, header, tmp_in, next_in, rest, count>>
        /\ UNCHANGED <<block_state, pc, field, hdr_ret>> /\ DictDue /\ pc = "idle"
    BY <1>4 DEF SetDict, params, input, block, header, hdr_locals
  <2>2. crc_flag = "gzip_no_hdr_ver" => ret = "NEED_DICT"
    BY <2>1 DEF DictDue
  <2>3. crc_flag = "gzip_no_hdr_ver" => (Resumable' => Resumable)
    BY <2>1, <2>2 DEF Resumable, Refused, Errors
  <2>4. CASE crc_flag = "gzip_no_hdr_ver"
    BY <2>1, <2>3, <2>4, ExtraUnchanged
  <2>5. CASE crc_flag # "gzip_no_hdr_ver"
    BY <2>1, <2>5 DEF ExtraInv
  <2> QED
    BY <2>4, <2>5
<1>5. CASE ReadZlibBase \/ ReadZlibDict
  <2>1. crc_flag = "zlib" /\ crc_flag' = crc_flag
    BY <1>5 DEF ReadZlibBase, ReadZlibDict, zlib_unchanged, outside_header, Inv, ControlInv,
                WithinMember, MemberStates, BlockStates
  <2> QED
    BY <2>1 DEF ExtraInv
<1>6. CASE \/ ReadTrailer \/ Begin \/ Drain \/ End
           \/ ReadHeader("tmp", "drain") \/ DecodeTmp \/ ReadHeader("out", "end") \/ DecodeOut
  <2>1. /\ pc \in {"trailer", "begin"} \cup Decoding
        /\ UNCHANGED <<file, gz_hdr, crc_flag, wrapper_flag, field>>
    BY <1>6 DEF ReadTrailer, Begin, Drain, End, ReadHeader, DecodeTmp, DecodeOut, Decode,
                params, header, hdr_locals, Decoding
  <2>2. WithinMember /\ field = "none"
    BY <2>1 DEF Inv, ControlInv, HeaderInv, Decoding
  <2>3. crc_flag # "gzip_no_hdr_ver" \/ wrapper_flag
    BY <2>2 DEF WithinMember
  <2> QED
    BY <2>1, <2>2, <2>3, ExtraQuiet
<1>7. ASSUME NEW n \in InSizes, CallHeader(n)
      PROVE  ExtraInv'
  BY <1>7, ExtraCallHeader
<1> QED
  BY <1>1, <1>2, <1>3, <1>4, <1>5, <1>6, <1>7, ExtraStartHeader, ExtraWithinHeader,
     ExtraEndHeader DEF Next

LEMMA ExtraInvariant == Spec => [](Inv /\ ExtraInv)
<1>1. Init => Inv /\ ExtraInv
  BY InvInit, ExtraInit
<1>2. Inv /\ ExtraInv /\ [Next]_vars => (Inv /\ ExtraInv)'
  BY InvNext, ExtraNext
<1> QED
  BY <1>1, <1>2, PTL DEF Spec

(* GetsExtra: a caller that reads a gzip header itself gets the extra field*)
(* of the file, in however many pieces the header comes and however often  *)
(* the buffer for it is too small.                                         *)
THEOREM GetsExtra == Spec => []ExtraRead
<1>1. Inv /\ ExtraInv => ExtraRead
  <2> SUFFICES ASSUME Inv, ExtraInv, HeaderRead
               PROVE  /\ gz_hdr.extra_len = Len(file.extra)
                      /\ Take(gz_hdr.extra.data, gz_hdr.extra_len) = file.extra
    BY DEF ExtraRead
  <2>1. crc_flag = "gzip_no_hdr_ver" /\ PastExtra
    BY DEF HeaderRead, PastExtra
  <2>2. gz_hdr.extra_len = Len(file.extra) /\ ExtraHeld(gz_hdr.extra_len)
    BY <2>1 DEF ExtraInv
  <2>3. PICK n \in Nat, extra \in Seq(Nat), data \in Seq(Nat) :
          n = Len(extra) /\ extra = file.extra /\ data = gz_hdr.extra.data
    <3>1. file.extra \in Seq(Nat) /\ gz_hdr.extra \in Buffers
      BY <2>1, ExtraTypes
    <3>2. gz_hdr.extra.data \in Seq(Nat) /\ Len(file.extra) \in Nat
      BY <3>1 DEF Buffers
    <3> QED
      BY <3>1, <3>2
  <2>4. n <= Len(data) /\ \A i \in 1 .. n : data[i] = extra[i]
    BY <2>2, <2>3 DEF ExtraHeld, Holds
  <2>5. /\ Take(data, n) \in Seq(Nat) /\ Len(Take(data, n)) = n
        /\ \A i \in 1 .. n : Take(data, n)[i] = data[i]
    BY <2>4 DEF Take
  <2>6. Take(data, n) = extra
    <3>1. Len(Take(data, n)) = Len(extra) /\ \A i \in 1 .. Len(extra) : Take(data, n)[i] = extra[i]
      BY <2>3, <2>4, <2>5
    <3> QED
      BY <2>3, <2>5, <3>1, SameSeq
  <2> QED
    BY <2>2, <2>3, <2>6
<1> QED
  BY <1>1, ExtraInvariant, PTL

-----------------------------------------------------------------------------
(* What a match copies.                                                    *)
LEMMA ModIs ==
  ASSUME NEW d \in Nat \ {0}, NEW m \in Nat, NEW r \in 0 .. d - 1
  PROVE  (d * m + r) % d = r
<1>1. PICK x \in Nat : x = d * m + r
  <2>1. d * m \in Nat
    OBVIOUS
  <2> QED
    BY <2>1
<1>2. PICK q \in Int : q = x \div d
  OBVIOUS
<1>3. PICK s \in 0 .. d - 1 : s = x % d
  OBVIOUS
<1>4. x = d * q + s
  BY <1>2, <1>3
<1>5. d * m \in Int /\ d * q \in Int
  OBVIOUS
<1>6. ASSUME q >= m + 1 PROVE FALSE
  <2>1. d * q >= d * (m + 1)
    BY <1>6
  <2>2. d * (m + 1) = d * m + d
    OBVIOUS
  <2> QED
    BY <1>1, <1>3, <1>4, <1>5, <2>1, <2>2
<1>7. ASSUME m >= q + 1 PROVE FALSE
  <2>1. d * m >= d * (q + 1)
    BY <1>7
  <2>2. d * (q + 1) = d * q + d
    OBVIOUS
  <2> QED
    BY <1>1, <1>3, <1>4, <1>5, <2>1, <2>2
<1>8. q = m
  BY <1>6, <1>7
<1> QED
  BY <1>1, <1>3, <1>4, <1>5, <1>8

(* What x leaves over when it is divided by d.                             *)
Rem(x, d) == x % d

LEMMA RemIs ==
  ASSUME NEW d \in Nat \ {0}, NEW m \in Nat, NEW r \in 0 .. d - 1
  PROVE  Rem(d * m + r, d) = r
BY ModIs DEF Rem

LEMMA ModType ==
  ASSUME NEW d \in Nat \ {0}, NEW x \in Nat
  PROVE  \E q \in Nat, r \in 0 .. d - 1 : Rem(x, d) = r /\ x = d * q + r
<1>1. PICK q \in Int : q = x \div d
  OBVIOUS
<1>2. PICK r \in 0 .. d - 1 : r = x % d
  OBVIOUS
<1>4. x = d * q + r
  BY <1>1, <1>2
<1>3. ASSUME q <= 0 - 1 PROVE FALSE
  <2>1. d * q <= d * (0 - 1)
    BY <1>3
  <2>2. d * (0 - 1) = 0 - d
    OBVIOUS
  <2>3. d * q \in Int
    OBVIOUS
  <2> QED
    BY <1>1, <1>2, <1>4, <2>1, <2>2, <2>3
<1>5. q \in Nat
  BY <1>3
<1> QED
  BY <1>2, <1>4, <1>5 DEF Rem

(* What x leaves over when a is added to it.                               *)
LEMMA ModLess ==
  ASSUME NEW d \in Nat \ {0}, NEW x \in Nat, NEW a \in Nat, NEW r, r = Rem(x, d), a + r < d
  PROVE  Rem(a + x, d) = a + r
<1>1. PICK q \in Nat : r \in 0 .. d - 1 /\ x = d * q + r
  BY ModType
<1>2. d * q \in Nat
  OBVIOUS
<1>3. a + r \in 0 .. d - 1 /\ a + x = d * q + (a + r)
  BY <1>1, <1>2
<1> QED
  BY <1>3, RemIs

LEMMA ModMore ==
  ASSUME NEW d \in Nat \ {0}, NEW x \in Nat, NEW a \in Nat, NEW r, r = Rem(x, d), a + r >= d
  PROVE  Rem(a + x, d) = Rem((a + r) - d, d)
<1>1. PICK q \in Nat : r \in 0 .. d - 1 /\ x = d * q + r
  BY ModType
<1>2. r \in Nat
  BY <1>1
<1>3. (a + r) - d \in Nat
  BY <1>2
<1>4. PICK y \in Nat : y = (a + r) - d
  BY <1>3
<1>5. PICK p \in Nat, s \in 0 .. d - 1 : Rem(y, d) = s /\ y = d * p + s
  BY ModType
<1>6. d * q \in Nat /\ d * p \in Nat /\ d * (q + p + 1) = d * q + d * p + d /\ q + p + 1 \in Nat
  OBVIOUS
<1>7. a + x = d * (q + p + 1) + s
  BY <1>1, <1>4, <1>5, <1>6
<1>8. Rem(d * (q + p + 1) + s, d) = s
  BY <1>6, RemIs
<1> QED
  BY <1>4, <1>5, <1>7, <1>8

(* c is what a match of len bytes at distance d copies from behind h.      *)
Copies(c, h, d, len) ==
  /\ c \in Seq(Nat) /\ Len(c) = len
  /\ \A i \in 1 .. len : c[i] = h[Len(h) - d + 1 + Rem(i - 1, d)]
LEMMA CopiesIs ==
  ASSUME NEW h \in Seq(Nat), NEW d \in 1 .. Len(h), NEW len \in Nat
  PROVE  Copies(Copied(h, d, len), h, d, len)
<1>1. PICK n \in Nat : n = Len(h) /\ d \in 1 .. n
  OBVIOUS
<1>2. Copied(h, d, len) \in Seq(Nat) /\ Len(Copied(h, d, len)) = len
  BY CopiedLen
<1>3. ASSUME NEW i \in 1 .. len PROVE Copied(h, d, len)[i] = h[n - d + 1 + Rem(i - 1, d)]
  <2>1. Rem(i - 1, d) \in 0 .. d - 1
    <3>1. i - 1 \in Nat /\ d \in Nat \ {0}
      OBVIOUS
    <3> QED
      BY <3>1, ModType
  <2>2. n - d + 1 + Rem(i - 1, d) \in 1 .. n
    BY <1>1, <2>1
  <2>3. n - d + 1 + Rem(i - 1, d) \in DOMAIN h
    BY <1>1, <2>2
  <2> QED
    BY <1>1, <2>3 DEF Copied, Rem
<1> QED
  BY <1>1, <1>2, <1>3 DEF Copies

LEMMA CopiesSame ==
  ASSUME NEW h \in Seq(Nat), NEW len \in Nat, NEW d, NEW c, Copies(c, h, d, len),
         NEW e, Copies(e, h, d, len)
  PROVE  c = e
BY SameSeq DEF Copies

(* Two texts that end alike give the same copy.                            *)
LEMMA CopiedAlike ==
  ASSUME NEW s \in Seq(Nat), NEW t \in Seq(Nat), NEW d \in Nat \ {0}, EndsAlike(s, t, d),
         NEW len \in Nat
  PROVE  Copied(s, d, len) = Copied(t, d, len)
<1>1. PICK n \in Nat, m \in Nat : n = Len(s) /\ m = Len(t)
  OBVIOUS
<1>2. d <= n /\ d <= m /\ \A i \in 0 .. d - 1 : s[n - i] = t[m - i]
  BY <1>1 DEF EndsAlike
<1>3. PICK c, e : c = Copied(s, d, len) /\ e = Copied(t, d, len)
  OBVIOUS
<1>4. Copies(c, s, d, len) /\ Copies(e, t, d, len)
  BY <1>1, <1>2, <1>3, CopiesIs
<1>5. ASSUME NEW i \in 1 .. len PROVE c[i] = e[i]
  <2>1. PICK r \in 0 .. d - 1 : r = Rem(i - 1, d)
    <3>1. i - 1 \in Nat
      OBVIOUS
    <3> QED
      BY <3>1, ModType
  <2>2. c[i] = s[n - d + 1 + r] /\ e[i] = t[m - d + 1 + r]
    BY <1>1, <1>4, <2>1 DEF Copies
  <2>3. (d - 1) - r \in 0 .. d - 1 /\ n - ((d - 1) - r) = n - d + 1 + r
        /\ m - ((d - 1) - r) = m - d + 1 + r
    BY <1>1
  <2> QED
    BY <1>2, <2>2, <2>3
<1>6. c \in Seq(Nat) /\ e \in Seq(Nat) /\ Len(c) = len /\ Len(e) = len
  BY <1>4 DEF Copies
<1>7. c = e
  BY <1>5, <1>6, SameSeq
<1> QED
  BY <1>3, <1>7

(* A match may be copied in two parts.                                     *)
LEMMA CopiedOn ==
  ASSUME NEW h \in Seq(Nat), NEW d \in 1 .. Len(h), NEW a \in Nat, NEW b \in Nat
  PROVE  Copied(h, d, a) \o Copied(h \o Copied(h, d, a), d, b) = Copied(h, d, a + b)
<1>1. PICK n \in Nat : n = Len(h) /\ d \in 1 .. n /\ d \in Nat \ {0}
  OBVIOUS
<1>2. PICK c : c = Copied(h, d, a)
  OBVIOUS
<1>3. Copies(c, h, d, a) /\ c \in Seq(Nat) /\ Len(c) = a
  BY <1>2, CopiesIs DEF Copies
<1>4. PICK w : w = h \o c
  OBVIOUS
<1>5. Joins(w, h, c) /\ w \in Seq(Nat) /\ Len(w) = n + a
  BY <1>1, <1>3, <1>4, JoinedParts DEF Joins
<1>6. PICK e : e = Copied(w, d, b)
  OBVIOUS
<1>7. Copies(e, w, d, b) /\ e \in Seq(Nat) /\ Len(e) = b
  <2>1. d \in 1 .. Len(w)
    BY <1>1, <1>5
  <2> QED
    BY <1>5, <1>6, <2>1, CopiesIs DEF Copies
<1>8. PICK x : x = c \o e
  OBVIOUS
<1>9. Joins(x, c, e) /\ x \in Seq(Nat) /\ Len(x) = a + b
  BY <1>3, <1>7, <1>8, JoinedParts DEF Joins
<1>10. ASSUME NEW i \in 1 .. a + b PROVE x[i] = h[n - d + 1 + Rem(i - 1, d)]
  <2>1. CASE i \in 1 .. a
    BY <1>1, <1>3, <1>9, <2>1 DEF Joins, Copies
  <2>2. CASE i > a
    <3>1. PICK j \in 1 .. b : i = a + j
      BY <2>2
    <3>2. PICK r \in 0 .. d - 1 : r = Rem(j - 1, d)
      <4>1. j - 1 \in Nat
        BY <3>1
      <4> QED
        BY <1>1, <4>1, ModType
    <3>3. x[i] = w[(n + a) - d + 1 + r]
      <4>1. x[i] = e[j]
        BY <1>3, <1>7, <1>9, <3>1 DEF Joins
      <4> QED
        BY <1>5, <1>7, <3>2, <4>1 DEF Copies
    <3>4. i - 1 = a + (j - 1) /\ j - 1 \in Nat
      BY <3>1
    <3>5. CASE a + r < d
      <4>1. Rem(i - 1, d) = a + r
        <5>1. Rem(a + (j - 1), d) = a + r
          BY <1>1, <3>2, <3>4, <3>5, ModLess
        <5> QED
          BY <3>4, <5>1
      <4>2. (n + a) - d + 1 + r \in 1 .. n /\ (n + a) - d + 1 + r = n - d + 1 + (a + r)
        BY <1>1, <3>5
      <4> QED
        BY <1>1, <1>5, <3>3, <4>1, <4>2 DEF Joins
    <3>6. CASE a + r >= d
      <4>1. Rem(i - 1, d) = Rem((a + r) - d, d)
        <5>1. Rem(a + (j - 1), d) = Rem((a + r) - d, d)
          BY <1>1, <3>2, <3>4, <3>6, ModMore
        <5> QED
          BY <3>4, <5>1
      <4>2. PICK k \in 1 .. a : k - 1 = (a + r) - d
        BY <1>1, <3>6
      <4>3. (n + a) - d + 1 + r = n + k
        BY <4>2, <1>1
      <4>4. x[i] = c[k]
        BY <1>1, <1>3, <1>5, <3>3, <4>3 DEF Joins
      <4>5. c[k] = h[n - d + 1 + Rem(k - 1, d)]
        BY <1>1, <1>3 DEF Copies
      <4> QED
        BY <4>1, <4>2, <4>4, <4>5
    <3> QED
      BY <1>1, <3>5, <3>6
  <2> QED
    BY <2>1, <2>2
<1>11. Copies(x, h, d, a + b)
  BY <1>1, <1>9, <1>10 DEF Copies
<1>12. Copies(Copied(h, d, a + b), h, d, a + b)
  BY CopiesIs
<1>13. x = Copied(h, d, a + b)
  BY <1>11, <1>12, CopiesSame
<1> QED
  BY <1>2, <1>4, <1>6, <1>8, <1>13
=============================================================================
