----------------------------- MODULE Scheduler -----------------------------
(***************************************************************************)
(* The class scheduler of src/IsaEC.hpp: its constructor pads the data so  *)
(* that it splits into k strips of whole chunks, and the layout functions  *)
(* copy the data into strips or stripes.                                   *)
(*                                                                         *)
(* A byte of a layout is the position of the data byte stored there, Zero  *)
(* where calloc's zero was left, or Stray where the copy read beyond the   *)
(* end of the data or wrote beyond its buffer.                             *)
(***************************************************************************)
EXTENDS Integers, FiniteSets

CONSTANTS
  Shapes,        \* the <<k, n, total_size, chunk_size>> constructors get
  DefaultChunk,  \* chunk size when the argument is -1 (1024)
  IntMax,        \* 1 + INT_MAX
  Zero, Stray

(* A chunk is what a codec takes at a time, its maxSize, which is an int;  *)
(* the argument may be -1.  The data may be longer than any int: byte      *)
(* counts are uint64_t, which the sizes of buffers do not exceed.          *)
ASSUME SchedulerAssumption ==
  /\ IntMax \in Nat
  /\ DefaultChunk \in 1 .. IntMax - 1
  /\ \A s \in Shapes :
       /\ s[1] \in Nat \ {0}
       /\ s[2] \in Nat
       /\ s[3] \in Nat
       /\ s[4] \in (1 .. IntMax - 1) \cup {-1}
  /\ Zero \notin Nat
  /\ Stray \notin Nat

VARIABLES
  k, n, total_size, chunk_size,   \* the constructor's arguments
  append_len, append_total_size, strip_len,
  strip_first_ptr,   \* strip -> byte, for the strip-first layouts
  stripe_first_ptr,  \* stripe -> chunk -> byte, for stripe_first_outinside
  layout             \* the object's last call: "none" before the constructor,
                     \* "built", "continue", "order" or "outinside"

shape == <<k, n, total_size, chunk_size>>
sizes == <<append_len, append_total_size, strip_len>>
vars  == <<shape, sizes, strip_first_ptr, stripe_first_ptr, layout>>

Init ==
  /\ \E s \in Shapes : /\ k = s[1]
                        /\ n = s[2]
                        /\ total_size = s[3]
                        /\ chunk_size = s[4]
  /\ append_len = 0
  /\ append_total_size = 0
  /\ strip_len = 0
  /\ strip_first_ptr = << >>
  /\ stripe_first_ptr = << >>
  /\ layout = "none"

-----------------------------------------------------------------------------
(* Conversion to int, and the remainder of C, which has the sign of a.     *)
ToInt(x) ==
  LET y == x % (2 * IntMax) IN IF y < IntMax THEN y ELSE y - 2 * IntMax

Rem(a, b) == IF a >= 0 THEN a % b ELSE -((-a) % b)

(* Bytes to fill up the last chunk. *)
AppendChunk(size, chunk) == ToInt((chunk - (size % chunk)) % chunk)

(* Variant: a full last stripe is filled up with another stripe. *)
AppendNum_always(strips, chunks) == strips - Rem(chunks, strips)

(* Chunks to fill up the last stripe. *)
AppendNum(strips, chunks) == Rem(strips - Rem(chunks, strips), strips)

(* The chunks are counted by an int, the bytes are not.                    *)
AppendLen(strips, size, chunk) ==
  LET append_chunk == AppendChunk(size, chunk)
      chunk_num    == ToInt((size + append_chunk) \div chunk)
  IN  AppendNum(strips, chunk_num) * chunk + append_chunk

(* The constructor. *)
scheduler ==
  /\ layout = "none"
  /\ LET chunk == IF chunk_size = -1 THEN DefaultChunk ELSE chunk_size
         len   == AppendLen(k, total_size, chunk)
     IN  /\ chunk_size' = chunk
         /\ append_len' = len
         /\ append_total_size' = total_size + len
         /\ strip_len' = (total_size + len) \div k
  /\ layout' = "built"
  /\ UNCHANGED <<k, n, total_size, strip_first_ptr, stripe_first_ptr>>

(* What memcpy(strip, &data[from], len) leaves at byte x of a zeroed       *)
(* buffer: len is unsigned, and a negative difference runs over every      *)
(* buffer.                                                                 *)
Copied(from, len, x) ==
  IF len < 0 \/ (x < len /\ from + x >= total_size) THEN Stray
  ELSE IF x < len THEN from + x
  ELSE Zero

(* Variant: the strips are spaced by a k-th of the data, not of the padded *)
(* size.                                                                   *)
strip_first_continue_unpadded ==
  /\ layout # "none"
  /\ strip_first_ptr' = [i \in 0 .. k - 1 |-> [x \in 0 .. strip_len - 1 |->
                           Copied(0, total_size, i * (total_size \div k) + x)]]
  /\ layout' = "continue"
  /\ UNCHANGED <<shape, sizes, stripe_first_ptr>>

(* One buffer of append_total_size bytes that the data is copied into;     *)
(* strip i starts at i * strip_len.                                        *)
strip_first_continue ==
  /\ layout # "none"
  /\ strip_first_ptr' = [i \in 0 .. k - 1 |-> [x \in 0 .. strip_len - 1 |->
                           Copied(0, total_size, i * strip_len + x)]]
  /\ layout' = "continue"
  /\ UNCHANGED <<shape, sizes, stripe_first_ptr>>

(* Variant: the last strip is copied in full. *)
strip_first_order_full ==
  /\ layout # "none"
  /\ strip_first_ptr' = [i \in 0 .. k - 1 |-> [x \in 0 .. strip_len - 1 |->
                           Copied(i * strip_len, strip_len, x)]]
  /\ layout' = "order"
  /\ UNCHANGED <<shape, sizes, stripe_first_ptr>>

(* A buffer for every strip; only the last strip's copy is shortened. *)
strip_first_order ==
  /\ layout # "none"
  /\ strip_first_ptr' = [i \in 0 .. k - 1 |-> [x \in 0 .. strip_len - 1 |->
       Copied(i * strip_len,
              IF i = k - 1 THEN strip_len - append_len ELSE strip_len, x)]]
  /\ layout' = "order"
  /\ UNCHANGED <<shape, sizes, stripe_first_ptr>>

(* Variant: the remainder is taken for the chunk before the last. *)
ChunkLen_early(c) ==
  LET data_chunk_num == ToInt(total_size \div chunk_size)
  IN  IF c >= data_chunk_num THEN 0
      ELSE IF c = data_chunk_num - 1 THEN total_size % chunk_size
      ELSE chunk_size

(* Bytes copied into chunk c of the data: whole chunks, then the rest. *)
ChunkLen(c) ==
  LET data_chunk_num == ToInt(total_size \div chunk_size)
  IN  IF c > data_chunk_num THEN 0
      ELSE IF c = data_chunk_num THEN total_size % chunk_size
      ELSE chunk_size

(* A buffer for every chunk of every stripe, parity chunks included.  From *)
(* chunk IntMax on the int i * k + j has overflowed, and anything may be   *)
(* copied.                                                                 *)
stripe_first_outinside ==
  /\ layout # "none"
  /\ stripe_first_ptr' =
       [i \in 0 .. (append_total_size \div (k * chunk_size)) - 1 |->
          [j \in 0 .. k + n - 1 |-> [x \in 0 .. chunk_size - 1 |->
             IF j >= k THEN Zero
             ELSE IF i * k + j >= IntMax THEN Stray
             ELSE Copied((i * k + j) * chunk_size, ChunkLen(i * k + j), x)]]]
  /\ layout' = "outinside"
  /\ UNCHANGED <<shape, sizes, strip_first_ptr>>

Next == \/ scheduler
        \/ strip_first_continue
        \/ strip_first_order
        \/ stripe_first_outinside

Spec == Init /\ [][Next]_vars

-----------------------------------------------------------------------------
(* The chunks, those of the padding included, can be counted by an int.    *)
IntsFit == total_size \div chunk_size + k < IntMax

(* The sizes fit together: k strips of whole chunks hold the data and its  *)
(* padding, and there is less padding than a stripe.                       *)
PaddingFits ==
  layout # "none" /\ IntsFit =>
    /\ append_total_size = total_size + append_len
    /\ append_total_size = k * strip_len
    /\ strip_len % chunk_size = 0
    /\ append_len < k * chunk_size

(* Byte p of the data followed by zeros. *)
Padded(p) == IF p < total_size THEN p ELSE Zero

(* The strips, one after the other, are the data followed by zeros. *)
StripsHoldData ==
  \A p \in 0 .. append_total_size - 1 :
    strip_first_ptr[p \div strip_len][p % strip_len] = Padded(p)

(* strip_first_continue's strips hold the data, whatever the padding is.   *)
ContinueHoldsData == layout = "continue" /\ IntsFit => StripsHoldData

(* strip_first_order keeps the data as long as the padding, which it takes *)
(* off the last strip alone, is not longer than that strip.                *)
OrderHoldsPaddedData ==
  layout = "order" /\ IntsFit /\ append_len <= strip_len => StripsHoldData

(* The padding is "the length append to the last strip": whatever its      *)
(* length, strip_first_order keeps the data.                               *)
OrderHoldsData == layout = "order" /\ IntsFit => StripsHoldData

(* The data chunks of the stripes, one after the other, are the data       *)
(* followed by zeros; the parity chunks are zero.                          *)
StripesHoldData ==
  layout = "outinside" /\ IntsFit =>
    /\ \A p \in 0 .. append_total_size - 1 :
         LET c == p \div chunk_size
         IN  stripe_first_ptr[c \div k][c % k][p % chunk_size] = Padded(p)
    /\ \A i \in DOMAIN stripe_first_ptr : \A j \in k .. k + n - 1 :
         \A x \in 0 .. chunk_size - 1 : stripe_first_ptr[i][j][x] = Zero
=============================================================================
