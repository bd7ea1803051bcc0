--------------------------- MODULE ProgramsProofs ---------------------------
(***************************************************************************)
(* Proofs about the scheduler and the programs of test/, for every k, n    *)
(* and size.  First the arithmetic of the scheduler's constructor and of   *)
(* its layouts; then the programs keep the protocol under which the codec  *)
(* keeps its promises, and with the layouts this keeps the data.           *)
(***************************************************************************)
EXTENDS Programs, FiniteSetTheorems, TLAPS

-----------------------------------------------------------------------------
(* The scheduler.                                                          *)

(* Quotient and remainder. *)
LEMMA DivMod ==
  ASSUME NEW a \in Nat, NEW b \in Nat \ {0}
  PROVE  /\ a \div b \in Nat
         /\ a % b \in 0 .. b - 1
         /\ a = b * (a \div b) + (a % b)
OBVIOUS

LEMMA ExactDiv ==
  ASSUME NEW a \in Nat, NEW b \in Nat \ {0}
  PROVE  /\ (b * a) \div b = a
         /\ (a * b) % b = 0
OBVIOUS

(* Filling up to a multiple of b takes less than b and reaches it: the     *)
(* expression (b - (a % b)) % b of both padding steps.                     *)
LEMMA FillUp ==
  ASSUME NEW a \in Nat, NEW b \in Nat \ {0}
  PROVE  /\ (b - (a % b)) % b \in 0 .. b - 1
         /\ \E q \in Nat : a + ((b - (a % b)) % b) = b * q
<1> DEFINE q == a \div b
           s == a % b
<1>1. /\ q \in Nat
      /\ s \in 0 .. b - 1
      /\ a = b * q + s
  BY DivMod
<1> HIDE DEF q, s
<1> SUFFICES /\ (b - s) % b \in 0 .. b - 1
             /\ \E p \in Nat : a + ((b - s) % b) = b * p
  BY DEF s
<1>2. CASE s = 0
  <2>1. (b - s) % b = 0
    BY <1>2, ExactDiv
  <2>2. a + ((b - s) % b) = b * q
    BY <1>1, <1>2, <2>1
  <2>3. \E p \in Nat : a + ((b - s) % b) = b * p
    BY <1>1, <2>2, Zenon
  <2>4. (b - s) % b \in 0 .. b - 1
    BY <2>1
  <2> QED
    BY <2>3, <2>4, Zenon
<1>3. CASE s # 0
  <2>1. (b - s) % b = b - s
    BY <1>1, <1>3
  <2>2. a + ((b - s) % b) = b * (q + 1)
    BY <1>1, <2>1
  <2>3. q + 1 \in Nat
    BY <1>1
  <2>4. \E p \in Nat : a + ((b - s) % b) = b * p
    BY <2>2, <2>3, Zenon
  <2>5. b - s \in 0 .. b - 1
    BY <1>1, <1>3
  <2>6. (b - s) % b \in 0 .. b - 1
    BY <2>1, <2>5, Zenon
  <2> QED
    BY <2>4, <2>6, Zenon
<1> QED
  BY <1>2, <1>3, Zenon

(* A number that fits an int is not changed by the conversion.             *)
LEMMA ToIntFits ==
  ASSUME IntMax \in Nat, NEW x \in Nat, x < IntMax
  PROVE  ToInt(x) = x
<1>1. x % (2 * IntMax) = x
  OBVIOUS
<1> QED
  BY <1>1 DEF ToInt

(* What the constructor computes when an int counts the chunks: less       *)
(* padding than a stripe, and strips of whole chunks.                      *)
LEMMA AppendLenFits ==
  ASSUME NEW strips \in Nat \ {0}, NEW size \in Nat, NEW chunk \in Nat \ {0},
         IntMax \in Nat, chunk < IntMax, size \div chunk + strips < IntMax
  PROVE  /\ AppendLen(strips, size, chunk) \in Nat
         /\ AppendLen(strips, size, chunk) < strips * chunk
         /\ \E s \in Nat :
              size + AppendLen(strips, size, chunk) = strips * (s * chunk)
<1> DEFINE a == AppendChunk(size, chunk)
           c == ToInt((size + a) \div chunk)
           b == AppendNum(strips, c)
           len == AppendLen(strips, size, chunk)
<1>1. /\ a = (chunk - (size % chunk)) % chunk
      /\ a \in 0 .. chunk - 1
  <2> DEFINE f == (chunk - (size % chunk)) % chunk
  <2>1. f \in 0 .. chunk - 1
    BY FillUp
  <2>2. a = ToInt(f)
    BY DEF AppendChunk
  <2> HIDE DEF f, a
  <2>3. f \in Nat /\ f < IntMax
    BY <2>1
  <2>4. a = f
    BY <2>2, <2>3, ToIntFits
  <2> QED
    BY <2>1, <2>4 DEF f
<1>2. PICK q \in Nat : size + a = chunk * q
  BY <1>1, FillUp
<1>3. c = q
  <2>1. (size + a) \div chunk = q
    BY <1>2, ExactDiv
  <2> DEFINE d == size \div chunk
  <2>2. d \in Nat /\ size < chunk * d + chunk /\ d + strips < IntMax
    <3>1. /\ d \in Nat
          /\ size % chunk \in 0 .. chunk - 1
          /\ size = chunk * d + (size % chunk)
      BY DivMod
    <3> QED
      BY <3>1
  <2> HIDE DEF d, a
  <2>3. chunk * q < chunk * d + 2 * chunk
    BY <1>1, <1>2, <2>2
  <2>4. q < d + 2
    <3> SUFFICES ASSUME q >= d + 2 PROVE FALSE
      BY <2>2
    <3>1. chunk * q >= chunk * (d + 2)
      BY <2>2
    <3>2. chunk * (d + 2) = chunk * d + 2 * chunk
      BY <2>2
    <3> QED
      BY <2>2, <2>3, <3>1, <3>2
  <2>5. q < IntMax
    BY <2>2, <2>4
  <2> QED
    BY <2>1, <2>5, ToIntFits
<1>10. b = (strips - (q % strips)) % strips
  <2>1. q % strips \in 0 .. strips - 1
    BY DivMod
  <2>2. Rem(q, strips) = q % strips
    BY DEF Rem
  <2>3. strips - (q % strips) >= 0
    BY <2>1
  <2> QED
    BY <1>3, <2>2, <2>3 DEF AppendNum, Rem
<1>4. b \in 0 .. strips - 1
  BY <1>10, FillUp
<1>5. PICK s \in Nat : q + b = strips * s
  BY <1>10, FillUp
<1>6. len = b * chunk + a
  BY DEF AppendLen
<1> HIDE DEF a, b, c, len
<1>7. len \in Nat
  BY <1>1, <1>4, <1>6
<1>8. len < strips * chunk
  <2>1. b * chunk <= (strips - 1) * chunk
    BY <1>4
  <2>2. (strips - 1) * chunk = strips * chunk - chunk
    OBVIOUS
  <2>3. b * chunk \in Nat /\ strips * chunk \in Nat
    BY <1>4
  <2> QED
    BY <1>1, <1>6, <2>1, <2>2, <2>3
<1>9. size + len = strips * (s * chunk)
  <2>1. size + len = (q + b) * chunk
    <3>1. a \in Nat /\ b \in Nat
      BY <1>1, <1>4
    <3>2. b * chunk \in Nat /\ q * chunk = chunk * q
      BY <3>1
    <3>3. (q + b) * chunk = q * chunk + b * chunk
      BY <3>1
    <3> QED
      BY <1>2, <1>6, <3>1, <3>2, <3>3
  <2>2. (strips * s) * chunk = strips * (s * chunk)
    OBVIOUS
  <2>3. (q + b) * chunk = (strips * s) * chunk
    BY <1>5
  <2> QED
    BY <2>1, <2>2, <2>3, Zenon
<1> QED
  BY <1>7, <1>8, <1>9, Zenon DEF len

(* The shape is a legal one throughout, and PaddingFits follows from what  *)
(* the constructor stored.                                                 *)
SchedulerInv ==
  /\ k \in Nat \ {0}
  /\ n \in Nat
  /\ total_size \in Nat
  /\ chunk_size \in (1 .. IntMax - 1) \cup {-1}
  /\ layout # "none" => chunk_size # -1
  /\ layout # "none" /\ IntsFit => append_len \in Nat /\ strip_len \in Nat
  /\ PaddingFits

LEMMA SchedulerInit == Init => SchedulerInv
<1> SUFFICES ASSUME Init PROVE SchedulerInv
  OBVIOUS
<1>1. PICK s \in Shapes : /\ k = s[1]
                          /\ n = s[2]
                          /\ total_size = s[3]
                          /\ chunk_size = s[4]
  BY DEF Init
<1> QED
  BY <1>1, SchedulerAssumption DEF Init, SchedulerInv, PaddingFits

LEMMA SchedulerStep == SchedulerInv /\ [Next]_vars => SchedulerInv'
<1> SUFFICES ASSUME SchedulerInv, [Next]_vars PROVE SchedulerInv'
  OBVIOUS
<1> USE DEF SchedulerInv
<1>1. CASE scheduler
  <2> DEFINE chunk == IF chunk_size = -1 THEN DefaultChunk ELSE chunk_size
             len   == AppendLen(k, total_size, chunk)
  <2>1. chunk \in 1 .. IntMax - 1 /\ IntMax \in Nat
    BY SchedulerAssumption
  <2>2. /\ chunk_size' = chunk
        /\ append_len' = len
        /\ append_total_size' = total_size + len
        /\ strip_len' = (total_size + len) \div k
        /\ layout' = "built"
        /\ UNCHANGED <<k, n, total_size>>
    BY <1>1 DEF scheduler
  <2>3. /\ k \in Nat \ {0}
        /\ n \in Nat
        /\ total_size \in Nat
        /\ len = AppendLen(k, total_size, chunk)
    OBVIOUS
  <2> HIDE DEF chunk, len, SchedulerInv
  <2>4. IntsFit' <=> total_size \div chunk + k < IntMax
    BY <2>2 DEF IntsFit
  <2>5. CASE IntsFit'
    <3>1. /\ AppendLen(k, total_size, chunk) \in Nat
          /\ AppendLen(k, total_size, chunk) < k * chunk
          /\ \E s \in Nat : total_size + AppendLen(k, total_size, chunk) = k * (s * chunk)
      <4>1. chunk \in Nat \ {0} /\ chunk < IntMax
        BY <2>1
      <4>2. k \in Nat \ {0} /\ total_size \in Nat /\ IntMax \in Nat
        BY <2>1, <2>3
      <4> QED
        BY <2>4, <2>5, <4>1, <4>2, AppendLenFits, ZenonT(60)
    <3>2. len \in Nat /\ len < k * chunk
      BY <2>3, <3>1
    <3>3. PICK s \in Nat : total_size + len = k * (s * chunk)
      BY <2>3, <3>1, ZenonT(60)
    <3>4. s * chunk \in Nat
      BY <2>1
    <3>5. (total_size + len) \div k = s * chunk
      BY <2>3, <3>3, <3>4, ExactDiv
    <3>6. (s * chunk) % chunk = 0
      BY <2>1, ExactDiv
    <3>7. PaddingFits'
      BY <2>1, <2>2, <2>3, <3>2, <3>3, <3>5, <3>6 DEF PaddingFits
    <3> QED
      BY <2>1, <2>2, <2>3, <3>2, <3>4, <3>5, <3>7 DEF SchedulerInv
  <2>6. CASE ~ IntsFit'
    BY <2>1, <2>2, <2>3, <2>6 DEF SchedulerInv, PaddingFits
  <2> QED
    BY <2>5, <2>6
<1>2. ASSUME UNCHANGED <<shape, sizes>>, layout # "none"
      PROVE  SchedulerInv'
  BY <1>2 DEF shape, sizes, PaddingFits, IntsFit
<1>3. CASE strip_first_continue
  BY <1>2, <1>3 DEF strip_first_continue
<1>4. CASE strip_first_order
  BY <1>2, <1>4 DEF strip_first_order
<1>5. CASE stripe_first_outinside
  BY <1>2, <1>5 DEF stripe_first_outinside
<1>6. CASE UNCHANGED vars
  BY <1>6 DEF vars, shape, sizes, PaddingFits, IntsFit
<1> QED
  BY <1>1, <1>3, <1>4, <1>5, <1>6 DEF Next

(* The strips of a scheduler whose chunks an int can count, however many   *)
(* bytes they have, are whole chunks that hold exactly the data and less   *)
(* than a stripe of padding.                                               *)
THEOREM PaddingAlwaysFits == Spec => []PaddingFits
<1>1. SchedulerInv => PaddingFits
  BY DEF SchedulerInv
<1> QED
  BY <1>1, SchedulerInit, SchedulerStep, PTL DEF Spec

-----------------------------------------------------------------------------
(* A position divides into its strip (or chunk) and a place within it.     *)
LEMMA Placed ==
  ASSUME NEW parts \in Nat, NEW len \in Nat, NEW p \in 0 .. parts * len - 1
  PROVE  /\ len \in Nat \ {0}
         /\ p \div len \in 0 .. parts - 1
         /\ p % len \in 0 .. len - 1
         /\ p = (p \div len) * len + (p % len)
<1>1. len \in Nat \ {0} /\ p \in Nat
  OBVIOUS
<1> DEFINE q == p \div len
           r == p % len
<1>2. /\ q \in Nat
      /\ r \in 0 .. len - 1
      /\ p = len * q + r
  BY <1>1, DivMod, Zenon
<1> HIDE DEF q, r
<1>3. q < parts
  <2> SUFFICES ASSUME q >= parts PROVE FALSE
    BY <1>2
  <2>1. len * q >= len * parts
    BY <1>2
  <2> QED
    BY <1>2, <2>1
<1>4. q * len = len * q
  BY <1>2
<1> QED
  BY <1>1, <1>2, <1>3, <1>4 DEF q, r

(* strip_first_continue leaves the strips as one copy of the data.         *)
LEMMA ContinueStep ==
  SchedulerInv /\ strip_first_continue => ContinueHoldsData'
<1> SUFFICES ASSUME SchedulerInv, strip_first_continue, IntsFit,
                    NEW p \in 0 .. append_total_size - 1
             PROVE  strip_first_ptr'[p \div strip_len][p % strip_len] = Padded(p)
  BY DEF ContinueHoldsData, IntsFit, StripsHoldData, Padded, strip_first_continue, shape, sizes
<1> DEFINE i == p \div strip_len
           x == p % strip_len
<1>1. /\ k \in Nat /\ strip_len \in Nat /\ total_size \in Nat
      /\ append_total_size = k * strip_len
  BY DEF SchedulerInv, PaddingFits, strip_first_continue
<1>2. /\ i \in 0 .. k - 1
      /\ x \in 0 .. strip_len - 1
      /\ p = i * strip_len + x
  <2>1. p \in 0 .. k * strip_len - 1 /\ k \in Nat /\ strip_len \in Nat
    BY <1>1
  <2> QED
    BY <2>1, Placed, Zenon
<1> HIDE DEF i, x
<1>3. strip_first_ptr'[i][x] = Copied(0, total_size, i * strip_len + x)
  BY <1>2 DEF strip_first_continue
<1>4. Copied(0, total_size, p) = Padded(p)
  BY <1>1 DEF Copied, Padded
<1> QED
  BY <1>2, <1>3, <1>4 DEF i, x

(* strip_first_order too, if only the last strip is short.                 *)
LEMMA OrderStep ==
  SchedulerInv /\ strip_first_order => OrderHoldsPaddedData'
<1> SUFFICES ASSUME SchedulerInv, strip_first_order, IntsFit, append_len <= strip_len,
                    NEW p \in 0 .. append_total_size - 1
             PROVE  strip_first_ptr'[p \div strip_len][p % strip_len] = Padded(p)
  BY DEF OrderHoldsPaddedData, IntsFit, StripsHoldData, Padded, strip_first_order, shape,
         sizes
<1> DEFINE i == p \div strip_len
           x == p % strip_len
           len == IF i = k - 1 THEN strip_len - append_len ELSE strip_len
<1>1. /\ k \in Nat \ {0} /\ strip_len \in Nat /\ total_size \in Nat /\ append_len \in Nat
      /\ append_total_size = k * strip_len
      /\ total_size = k * strip_len - append_len
  BY DEF SchedulerInv, PaddingFits, strip_first_order
<1>2. /\ i \in 0 .. k - 1
      /\ x \in 0 .. strip_len - 1
      /\ p = i * strip_len + x
  <2>1. p \in 0 .. k * strip_len - 1 /\ k \in Nat /\ strip_len \in Nat
    BY <1>1
  <2> QED
    BY <2>1, Placed, Zenon
<1>3. strip_first_ptr'[i][x] = Copied(i * strip_len, len, x)
  BY <1>2 DEF strip_first_order
<1> HIDE DEF i, x
<1>4. k * strip_len = (k - 1) * strip_len + strip_len
  BY <1>1
<1>5. Copied(i * strip_len, len, x) = Padded(p)
  <2>1. CASE i = k - 1
    BY <1>1, <1>2, <1>4, <2>1 DEF Copied, Padded
  <2>2. CASE i # k - 1
    <3>1. i + 1 <= k - 1
      BY <1>1, <1>2, <2>2
    <3>2. (i + 1) * strip_len <= (k - 1) * strip_len
      BY <1>1, <1>2, <3>1
    <3>3. (i + 1) * strip_len = i * strip_len + strip_len
      BY <1>1, <1>2
    <3>4. p < total_size
      BY <1>1, <1>2, <1>4, <3>2, <3>3
    <3> QED
      BY <1>1, <1>2, <2>2, <3>4 DEF Copied, Padded
  <2> QED
    BY <2>1, <2>2
<1> QED
  BY <1>3, <1>5 DEF i, x

(* stripe_first_outinside: chunk c of the data is chunk c % k of stripe    *)
(* c \div k, and its length is cut where the data ends.                    *)
LEMMA OutinsideStep ==
  SchedulerInv /\ stripe_first_outinside => StripesHoldData'
<1> SUFFICES ASSUME SchedulerInv, stripe_first_outinside, IntsFit PROVE StripesHoldData'
  BY DEF StripesHoldData, IntsFit, stripe_first_outinside, shape
<1> DEFINE stripes == append_total_size \div (k * chunk_size)
<1>1. /\ k \in Nat \ {0} /\ n \in Nat /\ total_size \in Nat /\ append_len \in Nat
      /\ chunk_size \in Nat \ {0} /\ strip_len \in Nat
      /\ append_total_size = k * strip_len
      /\ append_total_size = total_size + append_len
      /\ append_len < k * chunk_size
      /\ strip_len % chunk_size = 0
      /\ IntMax \in Nat
  BY SchedulerAssumption DEF SchedulerInv, PaddingFits, stripe_first_outinside
<1>2. /\ UNCHANGED <<k, n, total_size, chunk_size, append_len, append_total_size, strip_len>>
      /\ stripe_first_ptr' =
           [i \in 0 .. stripes - 1 |->
              [j \in 0 .. k + n - 1 |-> [x \in 0 .. chunk_size - 1 |->
                 IF j >= k THEN Zero
                 ELSE IF i * k + j >= IntMax THEN Stray
                 ELSE Copied((i * k + j) * chunk_size, ChunkLen(i * k + j), x)]]]
  BY DEF stripe_first_outinside, shape, sizes
<1>3. /\ stripes \in Nat
      /\ append_total_size = (stripes * k) * chunk_size
  <2> DEFINE s == strip_len \div chunk_size
  <2>1. s \in Nat /\ strip_len = chunk_size * s
    BY <1>1, DivMod
  <2> HIDE DEF s
  <2>2. append_total_size = (k * chunk_size) * s
    BY <1>1, <2>1
  <2>3. k * chunk_size \in Nat \ {0}
    BY <1>1
  <2>4. stripes = s
    BY <2>1, <2>2, <2>3, ExactDiv
  <2>5. (k * chunk_size) * s = (s * k) * chunk_size
    BY <1>1, <2>1
  <2> QED
    BY <2>1, <2>2, <2>4, <2>5
<1> HIDE DEF stripes
<1>7. stripes * k < IntMax /\ total_size \div chunk_size < IntMax
  <2> DEFINE d == total_size \div chunk_size
             t == stripes * k
  <2>1. /\ d \in Nat
        /\ total_size % chunk_size \in 0 .. chunk_size - 1
        /\ total_size = chunk_size * d + (total_size % chunk_size)
    BY <1>1, DivMod
  <2>2. d + k < IntMax
    BY DEF IntsFit
  <2>3. t \in Nat /\ append_total_size = t * chunk_size
    BY <1>1, <1>3
  <2> HIDE DEF d, t
  <2>4. t * chunk_size < chunk_size * d + chunk_size + k * chunk_size
    BY <1>1, <2>1, <2>3
  <2>5. chunk_size * d + chunk_size + k * chunk_size = (d + 1 + k) * chunk_size
    BY <1>1, <2>1
  <2>6. t < d + 1 + k
    <3> SUFFICES ASSUME t >= d + 1 + k PROVE FALSE
      BY <1>1, <2>1, <2>3
    <3>1. t * chunk_size >= (d + 1 + k) * chunk_size
      BY <1>1, <2>1, <2>3
    <3>2. t * chunk_size \in Nat /\ (d + 1 + k) * chunk_size \in Nat
      BY <1>1, <2>1, <2>3
    <3> QED
      BY <2>4, <2>5, <3>1, <3>2
  <2>7. d < IntMax
    BY <1>1, <2>1, <2>2
  <2>8. t < IntMax
    BY <1>1, <2>1, <2>2, <2>3, <2>6
  <2> QED
    BY <2>7, <2>8 DEF d, t
<1>4. ASSUME NEW p \in 0 .. append_total_size - 1
      PROVE  stripe_first_ptr'[(p \div chunk_size) \div k][(p \div chunk_size) % k][p % chunk_size]
               = Padded(p)
  <2> DEFINE c == p \div chunk_size
             x == p % chunk_size
             i == c \div k
             j == c % k
             d == total_size \div chunk_size
             r == total_size % chunk_size
  <2>1. /\ c \in 0 .. stripes * k - 1
        /\ x \in 0 .. chunk_size - 1
        /\ p = c * chunk_size + x
    <3>1. /\ stripes * k \in Nat
          /\ chunk_size \in Nat
          /\ p \in 0 .. (stripes * k) * chunk_size - 1
      BY <1>1, <1>3
    <3> QED
      BY <3>1, Placed, Zenon
  <2>2. /\ i \in 0 .. stripes - 1
        /\ j \in 0 .. k - 1
        /\ c = i * k + j
    <3> HIDE DEF c
    <3>1. stripes \in Nat /\ k \in Nat /\ c \in 0 .. stripes * k - 1
      BY <1>1, <1>3, <2>1
    <3> QED
      BY <3>1, Placed, Zenon
  <2>3. /\ d \in Nat
        /\ r \in 0 .. chunk_size - 1
        /\ total_size = chunk_size * d + r
    BY <1>1, DivMod
  <2>4. ChunkLen(c) = IF c > d THEN 0 ELSE IF c = d THEN r ELSE chunk_size
    <3>1. d < IntMax /\ d \in Nat /\ IntMax \in Nat
      BY <1>1, <1>7, <2>3
    <3>2. ToInt(d) = d
      BY <3>1, ToIntFits
    <3> QED
      BY <3>2 DEF ChunkLen
  <2> HIDE DEF c, x, i, j, d, r
  <2>5. stripe_first_ptr'[i][j][x] = Copied(c * chunk_size, ChunkLen(c), x)
    <3>1. j \in 0 .. k + n - 1 /\ ~ (j >= k)
      BY <1>1, <2>2
    <3>2. stripe_first_ptr'[i][j][x]
            = IF j >= k THEN Zero
              ELSE IF i * k + j >= IntMax THEN Stray
              ELSE Copied((i * k + j) * chunk_size, ChunkLen(i * k + j), x)
      BY <1>2, <2>1, <2>2, <3>1
    <3>3. ~ (c >= IntMax)
      <4>1. stripes * k \in Nat
        BY <1>1, <1>3
      <4> QED
        BY <1>1, <1>7, <2>1, <4>1
    <3> QED
      BY <2>2, <3>1, <3>2, <3>3
  <2>6. Copied(c * chunk_size, ChunkLen(c), x) = Padded(p)
    <3>1. CASE c = d
      <4>1. c * chunk_size = chunk_size * d
        BY <1>1, <2>1, <3>1
      <4> QED
        BY <1>1, <2>1, <2>3, <2>4, <3>1, <4>1 DEF Copied, Padded
    <3>2. CASE c < d
      <4>1. (c + 1) * chunk_size <= d * chunk_size
        BY <1>1, <2>1, <2>3, <3>2
      <4>2. /\ (c + 1) * chunk_size = c * chunk_size + chunk_size
            /\ d * chunk_size = chunk_size * d
        BY <1>1, <2>1, <2>3
      <4>3. p < total_size
        BY <1>1, <2>1, <2>3, <4>1, <4>2
      <4> QED
        BY <1>1, <2>1, <2>3, <2>4, <3>2, <4>3 DEF Copied, Padded
    <3>3. CASE c > d
      <4>1. (d + 1) * chunk_size <= c * chunk_size
        BY <1>1, <2>1, <2>3, <3>3
      <4>2. (d + 1) * chunk_size = chunk_size * d + chunk_size
        BY <1>1, <2>3
      <4>3. p >= total_size
        BY <1>1, <2>1, <2>3, <4>1, <4>2
      <4> QED
        BY <1>1, <2>1, <2>3, <2>4, <3>3, <4>3 DEF Copied, Padded
    <3> QED
      BY <2>1, <2>3, <3>1, <3>2, <3>3
  <2> QED
    BY <2>5, <2>6 DEF c, x, i, j
<1>5. ASSUME NEW i \in DOMAIN stripe_first_ptr', NEW j \in k .. k + n - 1,
             NEW x \in 0 .. chunk_size - 1
      PROVE  stripe_first_ptr'[i][j][x] = Zero
  <2>1. i \in 0 .. stripes - 1 /\ j \in 0 .. k + n - 1 /\ j >= k
    BY <1>1, <1>2
  <2> QED
    BY <1>2, <2>1
<1>6. \A p : Padded(p)' = Padded(p)
  BY <1>2 DEF Padded
<1>8. ASSUME NEW p \in (0 .. append_total_size - 1)'
      PROVE  (stripe_first_ptr[(p \div chunk_size) \div k][(p \div chunk_size) % k][p % chunk_size]
                = Padded(p))'
  <2>1. /\ p \in 0 .. append_total_size - 1
        /\ chunk_size' = chunk_size /\ k' = k
    BY <1>2
  <2> QED
    BY <1>4, <1>6, <2>1
<1>9. ASSUME NEW i \in (DOMAIN stripe_first_ptr)', NEW j \in (k .. k + n - 1)',
             NEW x \in (0 .. chunk_size - 1)'
      PROVE  (stripe_first_ptr[i][j][x] = Zero)'
  <2>1. j \in k .. k + n - 1 /\ x \in 0 .. chunk_size - 1
    BY <1>2
  <2> QED
    BY <1>5, <2>1
<1> QED
  BY <1>8, <1>9 DEF StripesHoldData

LayoutsInv == ContinueHoldsData /\ OrderHoldsPaddedData /\ StripesHoldData

LEMMA LayoutsInit == Init => LayoutsInv
BY DEF Init, LayoutsInv, ContinueHoldsData, OrderHoldsPaddedData, StripesHoldData

(* Each layout is what the call that made it left; no other step keeps it  *)
(* the object's last call.                                                 *)
LEMMA LayoutsStep == SchedulerInv /\ LayoutsInv /\ [Next]_vars => LayoutsInv'
<1> SUFFICES ASSUME SchedulerInv, LayoutsInv, [Next]_vars PROVE LayoutsInv'
  OBVIOUS
<1> USE DEF LayoutsInv
<1>1. CASE scheduler
  BY <1>1 DEF scheduler, ContinueHoldsData, OrderHoldsPaddedData, StripesHoldData
<1>2. CASE strip_first_continue
  <2>1. layout' = "continue"
    BY <1>2 DEF strip_first_continue
  <2> QED
    BY <1>2, <2>1, ContinueStep DEF OrderHoldsPaddedData, StripesHoldData
<1>3. CASE strip_first_order
  <2>1. layout' = "order"
    BY <1>3 DEF strip_first_order
  <2> QED
    BY <1>3, <2>1, OrderStep DEF ContinueHoldsData, StripesHoldData
<1>4. CASE stripe_first_outinside
  <2>1. layout' = "outinside"
    BY <1>4 DEF stripe_first_outinside
  <2> QED
    BY <1>4, <2>1, OutinsideStep DEF ContinueHoldsData, OrderHoldsPaddedData
<1>5. CASE UNCHANGED vars
  <2>1. UNCHANGED <<k, n, total_size, chunk_size, append_len, append_total_size, strip_len,
                    strip_first_ptr, stripe_first_ptr, layout>>
    BY <1>5 DEF vars, shape, sizes
  <2> QED
    BY <2>1 DEF ContinueHoldsData, OrderHoldsPaddedData, StripesHoldData, StripsHoldData, Padded,
                IntsFit
<1> QED
  BY <1>1, <1>2, <1>3, <1>4, <1>5 DEF Next

LEMMA LayoutsInvariant == Spec => []LayoutsInv
BY SchedulerInit, SchedulerStep, LayoutsInit, LayoutsStep, PTL DEF Spec

(* strip_first_continue's strips are the data and its padding, whatever    *)
(* the shape: also of data longer than an int counts, such as the 5 GiB of *)
(* test_scheduler, as long as its chunks are not more than that.           *)
THEOREM ContinueKeepsData == Spec => []ContinueHoldsData
<1>1. LayoutsInv => ContinueHoldsData
  BY DEF LayoutsInv
<1> QED
  BY <1>1, LayoutsInvariant, PTL

(* strip_first_order's strips are, if the padding fits in the last one.    *)
THEOREM OrderKeepsPaddedData == Spec => []OrderHoldsPaddedData
<1>1. LayoutsInv => OrderHoldsPaddedData
  BY DEF LayoutsInv
<1> QED
  BY <1>1, LayoutsInvariant, PTL

(* stripe_first_outinside's stripes are, with zeros for parity.            *)
THEOREM StripesKeepData == Spec => []StripesHoldData
<1>1. LayoutsInv => StripesHoldData
  BY DEF LayoutsInv
<1> QED
  BY <1>1, LayoutsInvariant, PTL

-----------------------------------------------------------------------------
(* The programs.                                                           *)

(* What main has done to the codec by the time it comes to a part.         *)
ProtocolInv ==
  /\ pc \in {"layout", "encode", "erase", "decode"} => ~ decoded
  /\ pc \in {"decode", "rebuild"} => err_list \in Drawn
  /\ pc = "rebuild" => program = "stripe_scheduler" /\ cached = err_list

LEMMA FewLost ==
  ASSUME NEW err \in RandomErrLists \cup RandomDataLists
  PROVE  /\ Codec!Erased(err) \in SUBSET Codec!Strips
         /\ Ptr!Erased(err) \in SUBSET Ptr!Strips
         /\ Stripe!Erased(err) \in SUBSET Stripe!Strips
         /\ Codec!Cardinality(Codec!Erased(err)) <= N
         /\ Ptr!Cardinality(Ptr!Erased(err)) <= N
         /\ Stripe!Cardinality(Stripe!Erased(err)) <= N
<1> DEFINE lost == {err[x] : x \in 0 .. N - 1}
<1>1. lost \in SUBSET (0 .. K + N - 1) /\ err \in Surjection(0 .. N - 1, lost)
  BY ProgramsAssumption DEF RandomErrLists, RandomDataLists, Surjection
<1>2. Codec!Erased(err) = lost /\ Ptr!Erased(err) = lost /\ Stripe!Erased(err) = lost
  BY DEF Codec!Erased, Ptr!Erased, Stripe!Erased, RandomErrLists, RandomDataLists
<1>3. IsFiniteSet(0 .. N - 1) /\ Cardinality(0 .. N - 1) = N
  <2>1. 0 \in Int /\ N - 1 \in Int
    BY ProgramsAssumption
  <2>2. /\ IsFiniteSet(0 .. N - 1)
        /\ Cardinality(0 .. N - 1) = IF 0 > N - 1 THEN 0 ELSE (N - 1) - 0 + 1
    BY <2>1, FS_Interval
  <2> QED
    BY <2>2, ProgramsAssumption
<1> HIDE DEF lost
<1>4. Cardinality(lost) <= N
  BY <1>1, <1>3, FS_Surjection
<1>5. /\ Codec!Cardinality(lost) = Cardinality(lost)
      /\ Ptr!Cardinality(lost) = Cardinality(lost)
      /\ Stripe!Cardinality(lost) = Cardinality(lost)
  BY DEF Codec!Cardinality, Ptr!Cardinality, Stripe!Cardinality, Cardinality
<1> QED
  BY <1>1, <1>2, <1>4, <1>5 DEF Codec!Strips, Ptr!Strips, Stripe!Strips

LEMMA ProtocolInit == ProgramsInit => ProtocolInv
BY DEF ProgramsInit, CodecInit, ProtocolInv, Codec!Init, Ptr!Init, Stripe!Init

LEMMA ProtocolStep == ProtocolInv /\ [ProgramsNext]_programVars => ProtocolInv'
<1> SUFFICES ASSUME ProtocolInv, [ProgramsNext]_programVars
             PROVE  ProtocolInv'
  OBVIOUS
<1> USE DEF ProtocolInv, Drawn, RandomErrLists, RandomDataLists
<1>1. CASE UseScheduler
  BY <1>1 DEF UseScheduler, codecVars, mainVars
<1>2. CASE LayOut
  BY <1>2 DEF LayOut, codecVars
<1>3. CASE Encode
  BY <1>3 DEF Encode, Codec!encode, Ptr!encode_ptr, Stripe!encode_ptr,
              Codec!caller, Ptr!caller, Stripe!caller
<1>4. CASE AddErrors
  BY <1>4 DEF AddErrors, Codec!Lose, Ptr!Lose, Stripe!Lose, Codec!caller, Ptr!caller,
              Stripe!caller
<1>5. CASE Decode
  BY <1>5 DEF Decode, Stripe!cache_g_tbls
<1>6. CASE Rebuild
  BY <1>6 DEF Rebuild
<1>7. CASE CompareEqual \/ CompareUnequal \/ CompareCrashes \/ ReturnZero \/ DestroyIsaEC
  BY <1>7 DEF CompareEqual, CompareUnequal, CompareCrashes, ReturnZero, DestroyIsaEC, codecVars
<1>8. CASE UNCHANGED programVars
  BY <1>8 DEF programVars, codecVars, mainVars
<1> QED
  BY <1>1, <1>2, <1>3, <1>4, <1>5, <1>6, <1>7, <1>8 DEF ProgramsNext

(* Every step of a program that touches the codec is one of a conforming   *)
(* caller.                                                                 *)
LEMMA ProtocolFollowed ==
  ASSUME ProtocolInv, [ProgramsNext]_programVars
  PROVE  [CodecNext]_codecVars
<1> USE DEF ProtocolInv, CodecNext
<1>1. CASE UseScheduler \/ LayOut \/ CompareEqual \/ CompareUnequal \/ CompareCrashes
           \/ ReturnZero \/ DestroyIsaEC \/ UNCHANGED programVars
  BY <1>1 DEF UseScheduler, LayOut, CompareEqual, CompareUnequal, CompareCrashes,
              ReturnZero, DestroyIsaEC, programVars
<1>2. CASE Encode
  BY <1>2 DEF Encode, Codec!Next, Ptr!Next, Stripe!Next
<1>3. CASE AddErrors
  <2>1. PICK err \in Drawn :
          CASE program = "strip_wise"       -> Ptr!Lose(Ptr!Erased(err))
            [] program = "stripe_scheduler" -> Stripe!Lose(Stripe!Erased(err))
            [] OTHER                        -> Codec!Lose(Codec!Erased(err))
    BY <1>3 DEF AddErrors
  <2>2. err \in RandomErrLists \cup RandomDataLists
    BY DEF Drawn
  <2> QED
    BY <2>1, <2>2, FewLost DEF Codec!Next, Ptr!Next, Stripe!Next
<1>4. CASE Decode
  BY <1>4 DEF Decode, Codec!Next, Ptr!Next, Stripe!Next, Drawn
<1>5. CASE Rebuild
  BY <1>5 DEF Rebuild, Stripe!Next, Drawn
<1> QED
  BY <1>1, <1>2, <1>3, <1>4, <1>5 DEF ProgramsNext

-----------------------------------------------------------------------------
(* What is proved of the codec, for each use the programs make of it       *)
(* (CodecP!X and Codec!X are the same definition of IsaEC).                *)
CodecP  == INSTANCE IsaECProofs WITH
             Calls <- {"encode", "decode"}, ErrInputs <- RandomErrLists,
             EncodePtrSize <- StripLen, CacheSize <- StripLen,
             EncodeAfterDecode <- FALSE, DecodeBetweenCached <- FALSE
PtrP    == INSTANCE IsaECProofs WITH
             Calls <- {"encode_ptr", "decode_ptr"}, ErrInputs <- RandomErrLists,
             StripLen <- PtrLen, EncodePtrSize <- PtrLen, CacheSize <- PtrLen,
             EncodeAfterDecode <- FALSE, DecodeBetweenCached <- FALSE
StripeP == INSTANCE IsaECProofs WITH
             Calls <- {"encode_ptr", "cache_g_tbls", "cache_decode_ptr"},
             ErrInputs <- RandomDataLists, StripLen <- MaxSize,
             EncodePtrSize <- MaxSize, CacheSize <- MaxSize,
             EncodeAfterDecode <- FALSE, DecodeBetweenCached <- FALSE

(* The lengths the programs may use: strips are whole chunks; those of     *)
(* testEC and encode_vec fit an int, of strip_wise's (2^31 bytes in chunks *)
(* of 4096) only the number of chunks and the start of the last one do;    *)
(* and a chunk divided by k (stripe_scheduler passes its size to           *)
(* cache_decode_ptr) is not 0.                                             *)
ProgramSizes ==
  /\ MaxSize \in Nat \ {0} /\ StripLen \in Nat \ {0} /\ PtrLen \in Nat \ {0}
  /\ \E q \in Nat : StripLen = q * MaxSize
  /\ \E q \in Nat : PtrLen = q * MaxSize /\ q < IntMax
  /\ StripLen < IntMax /\ MaxSize < IntMax /\ PtrLen < MaxSize + IntMax
  /\ K <= MaxSize
  /\ SizeMax \in Nat /\ 2 * IntMax <= SizeMax
  /\ Uninit \notin RandomErrLists \cup RandomDataLists

LEMMA SameCodec ==
  /\ Codec!Init => CodecP!Init
  /\ Codec!Next => CodecP!Next
  /\ Codec!encode => CodecP!encode
  /\ \A err : Codec!decode(err) => CodecP!decode(err)
BY DEF
       Codec!Strips, CodecP!Strips, Codec!Data, CodecP!Data, Codec!Bytes,
       CodecP!Bytes, Codec!ErrLists, CodecP!ErrLists, Codec!Erased,
       CodecP!Erased, Codec!codec, CodecP!codec, Codec!caller, CodecP!caller,
       Codec!vars, CodecP!vars, Codec!Did, CodecP!Did, Codec!ToInt,
       CodecP!ToInt, Codec!ToSize, CodecP!ToSize, Codec!Chunk, CodecP!Chunk,
       Codec!IndexLoop, CodecP!IndexLoop, Codec!IterLoop, CodecP!IterLoop,
       Codec!Row, CodecP!Row, Codec!EncodeRows, CodecP!EncodeRows,
       Codec!Survivors, CodecP!Survivors, Codec!gf_gen_decode_matrix_simple,
       CodecP!gf_gen_decode_matrix_simple, Codec!ec_init_tables,
       CodecP!ec_init_tables, Codec!Computes, CodecP!Computes,
       Codec!ec_encode_data, CodecP!ec_encode_data, Codec!Run, CodecP!Run,
       Codec!Init, CodecP!Init, Codec!DataPtrs, CodecP!DataPtrs,
       Codec!ParityPtrs, CodecP!ParityPtrs, Codec!encode, CodecP!encode,
       Codec!encode_ptr, CodecP!encode_ptr, Codec!CallerDecoded,
       CodecP!CallerDecoded, Codec!DecodeWith, CodecP!DecodeWith,
       Codec!decode, CodecP!decode, Codec!decode_ptr, CodecP!decode_ptr,
       Codec!cache_g_tbls, CodecP!cache_g_tbls, Codec!cache_decode_ptr,
       CodecP!cache_decode_ptr, Codec!Fill, CodecP!Fill, Codec!Lose,
       CodecP!Lose, Codec!Next, CodecP!Next, Codec!Cardinality,
       CodecP!Cardinality, Codec!IsFiniteSet, CodecP!IsFiniteSet

LEMMA SamePtr ==
  /\ Ptr!Init => PtrP!Init
  /\ Ptr!Next => PtrP!Next
  /\ Ptr!encode_ptr => PtrP!encode_ptr
  /\ \A err : Ptr!decode_ptr(err) => PtrP!decode_ptr(err)
BY DEF
       Ptr!Strips, PtrP!Strips, Ptr!Data, PtrP!Data, Ptr!Bytes, PtrP!Bytes,
       Ptr!ErrLists, PtrP!ErrLists, Ptr!Erased, PtrP!Erased, Ptr!codec,
       PtrP!codec, Ptr!caller, PtrP!caller, Ptr!vars, PtrP!vars, Ptr!Did,
       PtrP!Did, Ptr!ToInt, PtrP!ToInt, Ptr!ToSize, PtrP!ToSize, Ptr!Chunk,
       PtrP!Chunk, Ptr!IndexLoop, PtrP!IndexLoop, Ptr!IterLoop,
       PtrP!IterLoop, Ptr!Row, PtrP!Row, Ptr!EncodeRows, PtrP!EncodeRows,
       Ptr!Survivors, PtrP!Survivors, Ptr!gf_gen_decode_matrix_simple,
       PtrP!gf_gen_decode_matrix_simple, Ptr!ec_init_tables,
       PtrP!ec_init_tables, Ptr!Computes, PtrP!Computes, Ptr!ec_encode_data,
       PtrP!ec_encode_data, Ptr!Run, PtrP!Run, Ptr!Init, PtrP!Init,
       Ptr!DataPtrs, PtrP!DataPtrs, Ptr!ParityPtrs, PtrP!ParityPtrs,
       Ptr!encode, PtrP!encode, Ptr!encode_ptr, PtrP!encode_ptr,
       Ptr!CallerDecoded, PtrP!CallerDecoded, Ptr!DecodeWith,
       PtrP!DecodeWith, Ptr!decode, PtrP!decode, Ptr!decode_ptr,
       PtrP!decode_ptr, Ptr!cache_g_tbls, PtrP!cache_g_tbls,
       Ptr!cache_decode_ptr, PtrP!cache_decode_ptr, Ptr!Fill, PtrP!Fill,
       Ptr!Lose, PtrP!Lose, Ptr!Next, PtrP!Next, Ptr!Cardinality,
       PtrP!Cardinality, Ptr!IsFiniteSet, PtrP!IsFiniteSet

LEMMA SameStripe ==
  /\ Stripe!Init => StripeP!Init
  /\ Stripe!Next => StripeP!Next
  /\ Stripe!encode_ptr => StripeP!encode_ptr
  /\ \A err : Stripe!cache_decode_ptr(err) => StripeP!cache_decode_ptr(err)
BY DEF
       Stripe!Strips, StripeP!Strips, Stripe!Data, StripeP!Data,
       Stripe!Bytes, StripeP!Bytes, Stripe!ErrLists, StripeP!ErrLists,
       Stripe!Erased, StripeP!Erased, Stripe!codec, StripeP!codec,
       Stripe!caller, StripeP!caller, Stripe!vars, StripeP!vars, Stripe!Did,
       StripeP!Did, Stripe!ToInt, StripeP!ToInt, Stripe!ToSize,
       StripeP!ToSize, Stripe!Chunk, StripeP!Chunk, Stripe!IndexLoop,
       StripeP!IndexLoop, Stripe!IterLoop, StripeP!IterLoop, Stripe!Row,
       StripeP!Row, Stripe!EncodeRows, StripeP!EncodeRows, Stripe!Survivors,
       StripeP!Survivors, Stripe!gf_gen_decode_matrix_simple,
       StripeP!gf_gen_decode_matrix_simple, Stripe!ec_init_tables,
       StripeP!ec_init_tables, Stripe!Computes, StripeP!Computes,
       Stripe!ec_encode_data, StripeP!ec_encode_data, Stripe!Run,
       StripeP!Run, Stripe!Init, StripeP!Init, Stripe!DataPtrs,
       StripeP!DataPtrs, Stripe!ParityPtrs, StripeP!ParityPtrs,
       Stripe!encode, StripeP!encode, Stripe!encode_ptr, StripeP!encode_ptr,
       Stripe!CallerDecoded, StripeP!CallerDecoded, Stripe!DecodeWith,
       StripeP!DecodeWith, Stripe!decode, StripeP!decode, Stripe!decode_ptr,
       StripeP!decode_ptr, Stripe!cache_g_tbls, StripeP!cache_g_tbls,
       Stripe!cache_decode_ptr, StripeP!cache_decode_ptr, Stripe!Fill,
       StripeP!Fill, Stripe!Lose, StripeP!Lose, Stripe!Next, StripeP!Next,
       Stripe!Cardinality, StripeP!Cardinality, Stripe!IsFiniteSet,
       StripeP!IsFiniteSet

(* A number of chunks is no larger than the length they make up.          *)
LEMMA WholeChunks ==
  ASSUME NEW q \in Nat, NEW len \in Nat, MaxSize \in Nat \ {0}, len = q * MaxSize
  PROVE  q \in 0 .. len /\ len \div MaxSize = q
<1>1. len \div MaxSize = q
  <2>1. q * MaxSize = MaxSize * q
    OBVIOUS
  <2> QED
    BY <2>1, ExactDiv
<1>2. q <= q * MaxSize
  OBVIOUS
<1> QED
  BY <1>1, <1>2

LEMMA CodecConforms ==
  ASSUME ProgramSizes
  PROVE  /\ CodecP!ShapeAssumption /\ CodecP!WidthAssumption
         /\ CodecP!CallerAssumption /\ CodecP!Conforming /\ Codec!Conforming
<1>1. IntMax \in Nat \ {0}
  BY SchedulerAssumption
<1>2. CodecP!ShapeAssumption /\ CodecP!WidthAssumption
  BY <1>1, ProgramsAssumption DEF ProgramSizes, CodecP!ShapeAssumption, CodecP!WidthAssumption
<1>3. CodecP!CallerAssumption
  BY ProgramsAssumption, SMTT(60) DEF ProgramSizes, CodecP!CallerAssumption, CodecP!ErrLists,
     CodecP!Strips, CodecP!AllCalls, RandomErrLists
<1>4. \E q \in 0 .. StripLen : StripLen = q * MaxSize
  BY WholeChunks DEF ProgramSizes
<1>6. CodecP!Conforming /\ Codec!Conforming
  BY <1>4 DEF ProgramSizes, CodecP!Conforming, Codec!Conforming
<1> QED
  BY <1>2, <1>3, <1>6

LEMMA PtrConforms ==
  ASSUME ProgramSizes
  PROVE  /\ PtrP!ShapeAssumption /\ PtrP!WidthAssumption
         /\ PtrP!CallerAssumption /\ PtrP!Conforming /\ Ptr!Conforming
<1>1. IntMax \in Nat \ {0}
  BY SchedulerAssumption
<1>2. PtrP!ShapeAssumption /\ PtrP!WidthAssumption
  BY <1>1, ProgramsAssumption DEF ProgramSizes, PtrP!ShapeAssumption, PtrP!WidthAssumption
<1>3. PtrP!CallerAssumption
  BY ProgramsAssumption, SMTT(60) DEF ProgramSizes, PtrP!CallerAssumption, PtrP!ErrLists,
     PtrP!Strips, PtrP!AllCalls, RandomErrLists
<1>4. /\ \E q \in 0 .. PtrLen : PtrLen = q * MaxSize
      /\ PtrLen \div MaxSize < IntMax
  BY WholeChunks DEF ProgramSizes
<1>5. PtrLen - MaxSize < IntMax
  BY <1>1 DEF ProgramSizes
<1>6. PtrP!Conforming /\ Ptr!Conforming
  BY <1>4, <1>5 DEF PtrP!Conforming, Ptr!Conforming
<1> QED
  BY <1>2, <1>3, <1>6

LEMMA StripeConforms ==
  ASSUME ProgramSizes
  PROVE  /\ StripeP!ShapeAssumption /\ StripeP!WidthAssumption
         /\ StripeP!CallerAssumption /\ StripeP!Conforming /\ Stripe!Conforming
<1>1. IntMax \in Nat \ {0}
  BY SchedulerAssumption
<1>2. StripeP!ShapeAssumption /\ StripeP!WidthAssumption
  BY <1>1, ProgramsAssumption DEF ProgramSizes, StripeP!ShapeAssumption, StripeP!WidthAssumption
<1>3. StripeP!CallerAssumption
  BY ProgramsAssumption, SMTT(60) DEF ProgramSizes, StripeP!CallerAssumption, StripeP!ErrLists,
     StripeP!Strips, StripeP!AllCalls, RandomDataLists
<1>4. /\ MaxSize \div K \in 1 .. MaxSize
      /\ MaxSize - MaxSize + 1 = 1
      /\ MaxSize < IntMax
  BY ProgramsAssumption DEF ProgramSizes
<1>5. /\ \E q \in 0 .. MaxSize : MaxSize = q * MaxSize
      /\ MaxSize \div MaxSize = 1
      /\ MaxSize - MaxSize = 0
      /\ 1 < IntMax \/ MaxSize = 0
  <2>1. MaxSize = 1 * MaxSize /\ MaxSize \in Nat \ {0} /\ 1 \in Nat
    BY DEF ProgramSizes
  <2> QED
    BY <1>1, <1>4, <2>1, WholeChunks
<1>6. StripeP!Conforming /\ Stripe!Conforming
  BY <1>1, <1>4, <1>5 DEF ProgramSizes, StripeP!Conforming, Stripe!Conforming
<1> QED
  BY <1>2, <1>3, <1>6

(* For the lengths above, testEC, encode_vec, strip_wise and               *)
(* stripe_scheduler are conforming callers of the codec: the theorems of   *)
(* IsaECProofs hold of them.  They never encode on a codec that has        *)
(* decoded, never use a cached table after another decoding, and never     *)
(* lose more than n strips.                                                *)
THEOREM ProgramsFollowProtocol ==
  ASSUME ProgramSizes
  PROVE  ProgramsSpec => FollowsProtocol
<1>1. ProgramsInit => CodecInit
  BY DEF ProgramsInit
<1>2. Conforms
  BY CodecConforms, PtrConforms, StripeConforms DEF Conforms
<1> QED
  BY <1>1, <1>2, ProtocolInit, ProtocolStep, ProtocolFollowed, PTL
     DEF ProgramsSpec, FollowsProtocol

-----------------------------------------------------------------------------
(* What main knows of the strips by the time it comes to a part.           *)
CodecHolds ==
  /\ CodecP!IInv
  /\ pc \in {"layout", "encode"} => \A s \in CodecP!Data : CodecP!Intact(s)
  /\ pc \in {"erase", "compare"} => \A s \in CodecP!Strips : CodecP!Intact(s)
  /\ pc = "decode" => \A s \in CodecP!Strips \ CodecP!Erased(err_list) : CodecP!Intact(s)
PtrHolds ==
  /\ PtrP!IInv
  /\ pc \in {"layout", "encode"} => \A s \in PtrP!Data : PtrP!Intact(s)
  /\ pc \in {"erase", "compare"} => \A s \in PtrP!Strips : PtrP!Intact(s)
  /\ pc = "decode" => \A s \in PtrP!Strips \ PtrP!Erased(err_list) : PtrP!Intact(s)
StripeHolds ==
  /\ StripeP!IInv
  /\ pc \in {"layout", "encode"} => \A s \in StripeP!Data : StripeP!Intact(s)
  /\ pc \in {"erase", "compare"} => \A s \in StripeP!Strips : StripeP!Intact(s)
  /\ pc \in {"decode", "rebuild"} =>
       \A s \in StripeP!Strips \ StripeP!Erased(err_list) : StripeP!Intact(s)

RecoveryInv ==
  /\ ProtocolInv
  /\ program \in CodecPrograms \cup {"layouts"}
  /\ index \in Nat
  /\ pc = "compare" => err_list \in Drawn
  /\ program = "stripe_scheduler" => StripeHolds
  /\ program = "strip_wise" => PtrHolds
  /\ program \notin {"stripe_scheduler", "strip_wise"} => CodecHolds
  /\ retval = -1 => PastEnd(err_list[index]) /\ pc \in {"return", "exited"}

LEMMA RecoveryInit ==
  ASSUME ProgramSizes, ProgramsInit
  PROVE  RecoveryInv
<1>1. ProtocolInv
  BY ProtocolInit
<1>2. CASE program = "stripe_scheduler"
  <2>1. StripeP!Init
    BY <1>2, SameStripe DEF ProgramsInit, CodecInit
  <2>2. StripeP!IInv
    BY <2>1, StripeConforms, StripeP!InitIInv
  <2>3. \A s \in StripeP!Data : StripeP!Intact(s)
    BY <2>1, StripeConforms DEF StripeP!Init, StripeP!Intact, StripeP!Data, StripeP!Strips,
                                StripeP!ShapeAssumption
  <2>4. pc = "layout"
    BY <1>2 DEF ProgramsInit
  <2> QED
    BY <1>1, <1>2, <2>2, <2>3, <2>4 DEF ProgramsInit, RecoveryInv, StripeHolds
<1>3. CASE program \notin {"stripe_scheduler", "strip_wise"}
  <2>1. CodecP!Init
    BY <1>3, SameCodec DEF ProgramsInit, CodecInit
  <2>2. CodecP!IInv
    BY <2>1, CodecConforms, CodecP!InitIInv
  <2>3. \A s \in CodecP!Data : CodecP!Intact(s)
    BY <2>1, CodecConforms, SMTT(60) DEF CodecP!Init, CodecP!Intact, CodecP!Data, CodecP!Strips,
                               CodecP!ShapeAssumption
  <2>4. pc \in {"layout", "encode"}
    BY DEF ProgramsInit
  <2> QED
    BY <1>1, <1>3, <2>2, <2>3, <2>4 DEF ProgramsInit, RecoveryInv, CodecHolds
<1>4. CASE program = "strip_wise"
  <2>1. PtrP!Init
    BY <1>4, SamePtr DEF ProgramsInit, CodecInit
  <2>2. PtrP!IInv
    BY <2>1, PtrConforms, PtrP!InitIInv
  <2>3. \A s \in PtrP!Data : PtrP!Intact(s)
    BY <2>1, PtrConforms, SMTT(60) DEF PtrP!Init, PtrP!Intact, PtrP!Data, PtrP!Strips,
                               PtrP!ShapeAssumption
  <2>4. pc \in {"layout", "encode"}
    BY DEF ProgramsInit
  <2> QED
    BY <1>1, <1>4, <2>2, <2>3, <2>4 DEF ProgramsInit, RecoveryInv, PtrHolds
<1> QED
  BY <1>2, <1>3, <1>4

(* The codec's own invariant, along the steps of a program.                *)
LEMMA CodecInvStep ==
  ASSUME ProgramSizes, RecoveryInv, [ProgramsNext]_programVars
  PROVE  /\ program = "stripe_scheduler" => StripeP!IInv'
         /\ program = "strip_wise" => PtrP!IInv'
         /\ program \notin {"stripe_scheduler", "strip_wise"} => CodecP!IInv'
<1>1. [CodecNext]_codecVars
  BY ProtocolFollowed DEF RecoveryInv
<1>2. CASE program = "stripe_scheduler"
  <2>1. [StripeP!Next]_(StripeP!vars)
    BY <1>1, <1>2, SameStripe DEF CodecNext, codecVars, StripeP!vars
  <2>2. StripeP!IInv
    BY <1>2 DEF RecoveryInv, StripeHolds
  <2> QED
    BY <1>2, <2>1, <2>2, StripeConforms, StripeP!NextIInv
<1>3. CASE program \notin {"stripe_scheduler", "strip_wise"}
  <2>1. [CodecP!Next]_(CodecP!vars)
    BY <1>1, <1>3, SameCodec DEF CodecNext, codecVars, CodecP!vars
  <2>2. CodecP!IInv
    BY <1>3 DEF RecoveryInv, CodecHolds
  <2> QED
    BY <1>3, <2>1, <2>2, CodecConforms, CodecP!NextIInv
<1>4. CASE program = "strip_wise"
  <2>1. [PtrP!Next]_(PtrP!vars)
    BY <1>1, <1>4, SamePtr DEF CodecNext, codecVars, PtrP!vars
  <2>2. PtrP!IInv
    BY <1>4 DEF RecoveryInv, PtrHolds
  <2> QED
    BY <1>4, <2>1, <2>2, PtrConforms, PtrP!NextIInv
<1> QED
  BY <1>2, <1>3, <1>4

(* Losing the strips of err leaves the others as they are.                 *)
LEMMA LoseKeepsOthers ==
  ASSUME NEW err
  PROVE  /\ Codec!Lose(Codec!Erased(err)) =>
              \A s \in CodecP!Strips \ CodecP!Erased(err) :
                CodecP!Intact(s) => CodecP!Intact(s)'
         /\ Ptr!Lose(Ptr!Erased(err)) =>
              \A s \in PtrP!Strips \ PtrP!Erased(err) :
                PtrP!Intact(s) => PtrP!Intact(s)'
         /\ Stripe!Lose(Stripe!Erased(err)) =>
              \A s \in StripeP!Strips \ StripeP!Erased(err) :
                StripeP!Intact(s) => StripeP!Intact(s)'
BY DEF Codec!Lose, Codec!Erased, CodecP!Erased, CodecP!Strips, Codec!Strips, CodecP!Intact, CodecP!Bytes,
       Ptr!Lose, Ptr!Erased, PtrP!Erased, PtrP!Strips, Ptr!Strips, PtrP!Intact, PtrP!Bytes,
       Stripe!Lose, Stripe!Erased, StripeP!Erased, StripeP!Strips, Stripe!Strips, StripeP!Intact, StripeP!Bytes

(* The strips, along the steps of the programs that code vectors ...       *)
LEMMA CodecHoldsStep ==
  ASSUME ProgramSizes, RecoveryInv, [ProgramsNext]_programVars,
         program \notin {"stripe_scheduler", "strip_wise"}
  PROVE  CodecHolds'
<1>1. CodecP!IInv /\ CodecP!IInv'
  BY CodecInvStep DEF RecoveryInv, CodecHolds
<1>2. CASE UNCHANGED <<buf, pc, err_list>>
  BY <1>1, <1>2 DEF RecoveryInv, CodecHolds, CodecP!Intact, CodecP!Erased
<1>3. CASE Encode
  <2>1. CodecP!encode
    BY <1>3, SameCodec DEF Encode
  <2>2. ~ decoded /\ \A s \in CodecP!Data : CodecP!Intact(s)
    BY <1>3 DEF Encode, RecoveryInv, ProtocolInv, CodecHolds
  <2>3. \A s \in CodecP!Strips : CodecP!Intact(s)'
    BY <1>1, <2>1, <2>2, CodecConforms, CodecP!EncodeCompletes
  <2>4. CodecP!Data \subseteq CodecP!Strips
    BY ProgramsAssumption DEF CodecP!Data, CodecP!Strips
  <2>5. pc' \in {"encode", "return", "erase"}
    BY <1>3 DEF Encode
  <2> QED
    BY <1>1, <2>3, <2>4, <2>5 DEF CodecHolds, CodecP!Data, CodecP!Strips
<1>4. CASE AddErrors
  <2>1. PICK err \in Drawn : err_list' = err /\ Codec!Lose(Codec!Erased(err))
    BY <1>4 DEF AddErrors
  <2>2. pc = "erase" /\ pc' = "decode"
    BY <1>4 DEF AddErrors
  <2>3. \A s \in CodecP!Strips \ CodecP!Erased(err) : CodecP!Intact(s)'
    BY <2>1, <2>2, LoseKeepsOthers DEF RecoveryInv, CodecHolds
  <2> QED
    BY <1>1, <2>1, <2>2, <2>3 DEF CodecHolds, CodecP!Strips, CodecP!Erased
<1>5. CASE Decode
  <2>1. CodecP!decode(err_list)
    BY <1>5, SameCodec DEF Decode
  <2>2. /\ pc = "decode" /\ pc' = "compare"
        /\ err_list \in RandomErrLists
        /\ \A s \in CodecP!Strips \ CodecP!Erased(err_list) : CodecP!Intact(s)
    BY <1>5 DEF Decode, RecoveryInv, ProtocolInv, Drawn, CodecHolds
  <2>3. \A s \in CodecP!Strips : CodecP!Intact(s)'
    BY <1>1, <2>1, <2>2, CodecConforms, CodecP!DecodeRestores
  <2> QED
    BY <1>1, <2>2, <2>3 DEF CodecHolds, CodecP!Strips
<1>6. CASE Rebuild
  BY <1>6 DEF Rebuild, RecoveryInv, ProtocolInv
<1>7. CASE CompareUnequal \/ CompareCrashes \/ ReturnZero \/ DestroyIsaEC
  BY <1>1, <1>7 DEF CompareUnequal, CompareCrashes, ReturnZero, DestroyIsaEC, CodecHolds
<1>8. CASE UseScheduler \/ LayOut \/ CompareEqual \/ UNCHANGED programVars
  BY <1>2, <1>8 DEF UseScheduler, LayOut, CompareEqual, programVars, codecVars, mainVars
<1> QED
  BY <1>3, <1>4, <1>5, <1>6, <1>7, <1>8 DEF ProgramsNext

(* ... of strip_wise, which codes strips behind pointers ...               *)
LEMMA PtrHoldsStep ==
  ASSUME ProgramSizes, RecoveryInv, [ProgramsNext]_programVars,
         program = "strip_wise"
  PROVE  PtrHolds'
<1>1. PtrP!IInv /\ PtrP!IInv'
  BY CodecInvStep DEF RecoveryInv, PtrHolds
<1>2. CASE UNCHANGED <<buf, pc, err_list>>
  BY <1>1, <1>2 DEF RecoveryInv, PtrHolds, PtrP!Intact, PtrP!Erased
<1>3. CASE Encode
  <2>1. PtrP!encode_ptr
    BY <1>3, SamePtr DEF Encode
  <2>2. ~ decoded /\ \A s \in PtrP!Data : PtrP!Intact(s)
    BY <1>3 DEF Encode, RecoveryInv, ProtocolInv, PtrHolds
  <2>3. \A s \in PtrP!Strips : PtrP!Intact(s)'
    BY <1>1, <2>1, <2>2, PtrConforms, PtrP!EncodeCompletes
  <2>4. PtrP!Data \subseteq PtrP!Strips
    BY ProgramsAssumption DEF PtrP!Data, PtrP!Strips
  <2>5. pc' \in {"encode", "return", "erase"}
    BY <1>3 DEF Encode
  <2> QED
    BY <1>1, <2>3, <2>4, <2>5 DEF PtrHolds, PtrP!Data, PtrP!Strips
<1>4. CASE AddErrors
  <2>1. PICK err \in Drawn : err_list' = err /\ Ptr!Lose(Ptr!Erased(err))
    BY <1>4 DEF AddErrors
  <2>2. pc = "erase" /\ pc' = "decode"
    BY <1>4 DEF AddErrors
  <2>3. \A s \in PtrP!Strips \ PtrP!Erased(err) : PtrP!Intact(s)'
    BY <2>1, <2>2, LoseKeepsOthers DEF RecoveryInv, PtrHolds
  <2> QED
    BY <1>1, <2>1, <2>2, <2>3 DEF PtrHolds, PtrP!Strips, PtrP!Erased
<1>5. CASE Decode
  <2>1. PtrP!decode_ptr(err_list)
    BY <1>5, SamePtr DEF Decode
  <2>2. /\ pc = "decode" /\ pc' = "compare"
        /\ err_list \in RandomErrLists
        /\ \A s \in PtrP!Strips \ PtrP!Erased(err_list) : PtrP!Intact(s)
    BY <1>5 DEF Decode, RecoveryInv, ProtocolInv, Drawn, PtrHolds
  <2>3. \A s \in PtrP!Strips : PtrP!Intact(s)'
    BY <1>1, <2>1, <2>2, PtrConforms, PtrP!DecodeRestores
  <2> QED
    BY <1>1, <2>2, <2>3 DEF PtrHolds, PtrP!Strips
<1>6. CASE Rebuild
  BY <1>6 DEF Rebuild, RecoveryInv, ProtocolInv
<1>7. CASE CompareUnequal \/ CompareCrashes \/ ReturnZero \/ DestroyIsaEC
  BY <1>1, <1>7 DEF CompareUnequal, CompareCrashes, ReturnZero, DestroyIsaEC, PtrHolds
<1>8. CASE UseScheduler \/ LayOut \/ CompareEqual \/ UNCHANGED programVars
  BY <1>2, <1>8 DEF UseScheduler, LayOut, CompareEqual, programVars, codecVars, mainVars
<1> QED
  BY <1>3, <1>4, <1>5, <1>6, <1>7, <1>8 DEF ProgramsNext

(* ... and of stripe_scheduler, which caches the decoding table.           *)
LEMMA StripeHoldsStep ==
  ASSUME ProgramSizes, RecoveryInv, [ProgramsNext]_programVars,
         program = "stripe_scheduler"
  PROVE  StripeHolds'
<1>1. StripeP!IInv /\ StripeP!IInv'
  BY CodecInvStep DEF RecoveryInv, StripeHolds
<1>2. CASE buf' = buf /\ err_list' = err_list /\ (pc' = pc \/ (pc = "layout" /\ pc' = "encode"))
  BY <1>1, <1>2 DEF RecoveryInv, StripeHolds, StripeP!Intact, StripeP!Erased
<1>3. CASE Encode
  <2>1. StripeP!encode_ptr
    BY <1>3, SameStripe DEF Encode
  <2>2. ~ decoded /\ \A s \in StripeP!Data : StripeP!Intact(s)
    BY <1>3 DEF Encode, RecoveryInv, ProtocolInv, StripeHolds
  <2>3. \A s \in StripeP!Strips : StripeP!Intact(s)'
    BY <1>1, <2>1, <2>2, StripeConforms, StripeP!EncodeCompletes
  <2>4. StripeP!Data \subseteq StripeP!Strips
    BY ProgramsAssumption DEF StripeP!Data, StripeP!Strips
  <2>5. pc' \in {"encode", "return", "erase"}
    BY <1>3 DEF Encode
  <2> QED
    BY <1>1, <2>3, <2>4, <2>5 DEF StripeHolds, StripeP!Data, StripeP!Strips
<1>4. CASE AddErrors
  <2>1. PICK err \in Drawn : err_list' = err /\ Stripe!Lose(Stripe!Erased(err))
    BY <1>4 DEF AddErrors
  <2>2. pc = "erase" /\ pc' = "decode"
    BY <1>4 DEF AddErrors
  <2>3. \A s \in StripeP!Strips \ StripeP!Erased(err) : StripeP!Intact(s)'
    BY <2>1, <2>2, LoseKeepsOthers DEF RecoveryInv, StripeHolds
  <2> QED
    BY <1>1, <2>1, <2>2, <2>3 DEF StripeHolds, StripeP!Strips, StripeP!Erased
<1>5. CASE Decode
  <2>1. UNCHANGED <<buf, err_list>> /\ pc = "decode" /\ pc' = "rebuild"
    BY <1>5 DEF Decode, Stripe!cache_g_tbls
  <2> QED
    BY <1>1, <2>1 DEF RecoveryInv, StripeHolds, StripeP!Intact, StripeP!Erased
<1>6. CASE Rebuild
  <2>1. StripeP!cache_decode_ptr(err_list)
    BY <1>6, SameStripe DEF Rebuild
  <2>2. /\ pc = "rebuild" /\ pc' = "compare"
        /\ err_list \in RandomDataLists /\ cached = err_list
        /\ \A s \in StripeP!Strips \ StripeP!Erased(err_list) : StripeP!Intact(s)
    BY <1>6 DEF Rebuild, RecoveryInv, ProtocolInv, Drawn, StripeHolds
  <2>3. \A s \in StripeP!Strips : StripeP!Intact(s)'
    BY <1>1, <2>1, <2>2, StripeConforms, StripeP!DecodeRestores
  <2> QED
    BY <1>1, <2>2, <2>3 DEF StripeHolds, StripeP!Strips
<1>7. CASE CompareUnequal \/ CompareCrashes \/ ReturnZero \/ DestroyIsaEC
  BY <1>1, <1>7 DEF CompareUnequal, CompareCrashes, ReturnZero, DestroyIsaEC, StripeHolds
<1>8. CASE UseScheduler \/ LayOut \/ CompareEqual \/ UNCHANGED programVars
  BY <1>2, <1>8 DEF UseScheduler, LayOut, CompareEqual, programVars, codecVars, mainVars
<1> QED
  BY <1>3, <1>4, <1>5, <1>6, <1>7, <1>8 DEF ProgramsNext

(* A comparison that fails reads past the end of the strips.               *)
LEMMA UnequalPastEnd ==
  ASSUME ProgramSizes, RecoveryInv, CompareUnequal
  PROVE  PastEnd(err_list[index])
<1> SUFFICES ASSUME ~ Whole(err_list[index])
             PROVE  FALSE
  BY DEF CompareUnequal
<1>1. err_list[index] \in 0 .. K + N - 1
  BY ProgramsAssumption DEF CompareUnequal, RecoveryInv, Drawn, RandomErrLists, RandomDataLists
<1>2. CASE program = "stripe_scheduler"
  <2>1. StripeP!Intact(err_list[index])
    BY <1>1, <1>2 DEF CompareUnequal, RecoveryInv, StripeHolds, StripeP!Strips
  <2> QED
    BY <1>2, <2>1 DEF Whole, StripeP!Intact, StripeP!Bytes, ProgramSizes
<1>3. CASE program \notin {"stripe_scheduler", "strip_wise"}
  <2>1. CodecP!Intact(err_list[index])
    BY <1>1, <1>3 DEF CompareUnequal, RecoveryInv, CodecHolds, CodecP!Strips
  <2>2. DOMAIN buf[err_list[index]] = CodecP!Bytes
    BY <1>1, <1>3 DEF RecoveryInv, CodecHolds, CodecP!IInv, CodecP!TypeOK, CodecP!Strips
  <2> QED
    BY <1>3, <2>1, <2>2 DEF Whole, CodecP!Intact
<1>4. CASE program = "strip_wise"
  <2>1. PtrP!Intact(err_list[index])
    BY <1>1, <1>4 DEF CompareUnequal, RecoveryInv, PtrHolds, PtrP!Strips
  <2>2. DOMAIN buf[err_list[index]] = PtrP!Bytes
    BY <1>1, <1>4 DEF RecoveryInv, PtrHolds, PtrP!IInv, PtrP!TypeOK, PtrP!Strips
  <2> QED
    BY <1>4, <2>1, <2>2 DEF Whole, PtrP!Intact
<1> QED
  BY <1>2, <1>3, <1>4

LEMMA RecoveryStep ==
  ASSUME ProgramSizes, RecoveryInv, [ProgramsNext]_programVars
  PROVE  RecoveryInv'
<1>1. ProtocolInv'
  BY ProtocolStep DEF RecoveryInv
<1>2. program' = program
  BY DEF ProgramsNext, UseScheduler, LayOut, Encode, AddErrors, Decode, Rebuild, CompareEqual,
     CompareUnequal, CompareCrashes, ReturnZero, DestroyIsaEC, mainVars, programVars
<1>3. /\ program' = "stripe_scheduler" => StripeHolds'
      /\ program' = "strip_wise" => PtrHolds'
      /\ program' \notin {"stripe_scheduler", "strip_wise"} => CodecHolds'
  BY <1>2, CodecHoldsStep, PtrHoldsStep, StripeHoldsStep
<1>4. index' \in Nat
  BY DEF RecoveryInv, ProgramsNext, UseScheduler, LayOut, Encode, AddErrors, Decode, Rebuild,
     CompareEqual, CompareUnequal, CompareCrashes, ReturnZero, DestroyIsaEC, mainVars,
     programVars
<1>5. pc' = "compare" => err_list' \in Drawn'
  BY <1>2 DEF RecoveryInv, ProtocolInv, Drawn, RandomErrLists, RandomDataLists, ProgramsNext,
     UseScheduler, LayOut, Encode, AddErrors, Decode, Rebuild, CompareEqual, CompareUnequal,
     CompareCrashes, ReturnZero, DestroyIsaEC, mainVars, programVars
<1>6. (retval = -1 => PastEnd(err_list[index]) /\ pc \in {"return", "exited"})'
  <2>1. CASE CompareUnequal
    BY <2>1, UnequalPastEnd DEF CompareUnequal, PastEnd
  <2>2. CASE ~ CompareUnequal
    BY <2>2 DEF RecoveryInv, PastEnd, ProgramsNext, UseScheduler, LayOut, Encode, AddErrors,
       Decode, Rebuild, CompareEqual, CompareCrashes, ReturnZero, DestroyIsaEC, mainVars,
       programVars
  <2> QED
    BY <2>1, <2>2
<1> QED
  BY <1>1, <1>2, <1>3, <1>4, <1>5, <1>6 DEF RecoveryInv

(* Whatever n strips a program erases, it finds its data again: an error   *)
(* is reported only where the comparison itself reads past the end.        *)
THEOREM ProgramsRecoverData ==
  ASSUME ProgramSizes
  PROVE  ProgramsSpec => []DataRecovered
<1>1. RecoveryInv => DataRecovered
  <2> SUFFICES ASSUME RecoveryInv, pc = "compare", NEW s \in DOMAIN buf, NEW b \in DOMAIN buf[s]
               PROVE  buf[s][b] = "good"
    BY DEF DataRecovered, RecoveryInv
  <2>1. CASE program = "stripe_scheduler"
    BY <2>1 DEF RecoveryInv, StripeHolds, StripeP!IInv, StripeP!TypeOK, StripeP!Intact
  <2>2. CASE program \notin {"stripe_scheduler", "strip_wise"}
    BY <2>2 DEF RecoveryInv, CodecHolds, CodecP!IInv, CodecP!TypeOK, CodecP!Intact
  <2>3. CASE program = "strip_wise"
    BY <2>3 DEF RecoveryInv, PtrHolds, PtrP!IInv, PtrP!TypeOK, PtrP!Intact
  <2> QED
    BY <2>1, <2>2, <2>3
<1> QED
  BY <1>1, RecoveryInit, RecoveryStep, PTL DEF ProgramsSpec

-----------------------------------------------------------------------------
(* The scheduler's own invariants hold in a program that uses it, and      *)
(* stripe_scheduler has made its stripes, of k chunks of MaxSize bytes,    *)
(* before it encodes.                                                      *)
ShapeInv ==
  program = "stripe_scheduler" =>
    /\ k = K
    /\ chunk_size = MaxSize
    /\ pc # "layout" => layout = "outinside"

LaidOutInv == SchedulerInv /\ LayoutsInv /\ ShapeInv

LEMMA LaidOutInit ==
  ASSUME ProgramSizes, ProgramsInit
  PROVE  LaidOutInv
<1>1. SchedulerInv /\ LayoutsInv
  BY SchedulerInit, LayoutsInit DEF ProgramsInit
<1>2. ShapeInv
  BY DEF ProgramsInit, ShapeInv, shape
<1> QED
  BY <1>1, <1>2 DEF LaidOutInv

LEMMA LaidOutStep ==
  ASSUME ProgramSizes, LaidOutInv, [ProgramsNext]_programVars
  PROVE  LaidOutInv'
<1>1. [Next]_vars
  BY DEF ProgramsNext, UseScheduler, LayOut, Encode, AddErrors, Decode, Rebuild, CompareEqual,
     CompareUnequal, CompareCrashes, ReturnZero, DestroyIsaEC, Next, vars, schedVars, programVars
<1>2. SchedulerInv' /\ LayoutsInv'
  BY <1>1, SchedulerStep, LayoutsStep DEF LaidOutInv
<1>3. ShapeInv'
  <2>1. CASE LayOut
    BY <2>1 DEF LayOut, LaidOutInv, ShapeInv, ProgramSizes, scheduler, stripe_first_outinside, shape
  <2>2. CASE UseScheduler
    BY <2>2 DEF UseScheduler, mainVars, ShapeInv
  <2>3. CASE ~ LayOut /\ ~ UseScheduler
    <3>1. UNCHANGED <<program, shape, layout>> /\ (pc = "layout" => pc' = "layout")
      BY <2>3 DEF ProgramsNext, Encode, AddErrors, Decode, Rebuild, CompareEqual,
         CompareUnequal, CompareCrashes, ReturnZero, DestroyIsaEC, mainVars, schedVars,
         programVars
    <3> QED
      BY <3>1 DEF LaidOutInv, ShapeInv, shape
  <2> QED
    BY <2>1, <2>2, <2>3
<1> QED
  BY <1>2, <1>3 DEF LaidOutInv

(* A byte of the data lies in a stripe that loops over strip_len /         *)
(* chunk_size stripes reach.                                               *)
LEMMA StripeReached ==
  ASSUME SchedulerInv, layout # "none", IntsFit, NEW p \in 0 .. total_size - 1
  PROVE  /\ p \in 0 .. append_total_size - 1
         /\ (p \div chunk_size) \div k < strip_len \div chunk_size
         /\ (p \div chunk_size) % k \in 0 .. k - 1
         /\ p % chunk_size \in 0 .. chunk_size - 1
<1> DEFINE s == strip_len \div chunk_size
           c == p \div chunk_size
<1>1. /\ k \in Nat \ {0} /\ total_size \in Nat /\ append_len \in Nat
      /\ chunk_size \in Nat \ {0} /\ strip_len \in Nat
      /\ append_total_size = k * strip_len
      /\ append_total_size = total_size + append_len
      /\ strip_len % chunk_size = 0
  BY DEF SchedulerInv, PaddingFits
<1>2. s \in Nat /\ strip_len = chunk_size * s
  BY <1>1, DivMod
<1>3. p \in 0 .. append_total_size - 1
  BY <1>1
<1> HIDE DEF s
<1>4. append_total_size = (s * k) * chunk_size
  BY <1>1, <1>2
<1>5. c \in 0 .. s * k - 1 /\ p % chunk_size \in 0 .. chunk_size - 1
  <2>1. s * k \in Nat /\ chunk_size \in Nat /\ p \in 0 .. (s * k) * chunk_size - 1
    BY <1>1, <1>2, <1>3, <1>4
  <2> QED
    BY <2>1, Placed, Zenon
<1> HIDE DEF c
<1>6. c \div k \in 0 .. s - 1 /\ c % k \in 0 .. k - 1
  <2>1. s \in Nat /\ k \in Nat /\ c \in 0 .. s * k - 1
    BY <1>1, <1>2, <1>5
  <2> QED
    BY <2>1, Placed, Zenon
<1>7. c \div k < s
  BY <1>2, <1>6
<1> QED
  BY <1>3, <1>5, <1>6, <1>7 DEF c, s

(* After stripe_scheduler has decoded, every byte of the user's data is    *)
(* where stripe_first_outinside put it, and its chunk is intact: whatever  *)
(* the size of the data, the shape and the strips lost.                    *)
THEOREM SchedulerDataSurvives ==
  ASSUME ProgramSizes
  PROVE  ProgramsSpec => []DataSurvives
<1>1. RecoveryInv /\ LaidOutInv => DataSurvives
  <2> SUFFICES ASSUME RecoveryInv, LaidOutInv,
                      program = "stripe_scheduler", pc = "compare", IntsFit,
                      NEW p \in 0 .. total_size - 1
               PROVE  /\ (p \div chunk_size) \div k < strip_len \div chunk_size
                      /\ stripe_first_ptr[(p \div chunk_size) \div k]
                           [(p \div chunk_size) % k][p % chunk_size] = p
                      /\ buf[(p \div chunk_size) % k][p % chunk_size] = "good"
    BY DEF DataSurvives
  <2>1. /\ SchedulerInv /\ StripesHoldData /\ layout = "outinside"
        /\ k = K /\ chunk_size = MaxSize
    BY DEF LaidOutInv, LayoutsInv, ShapeInv
  <2>2. /\ p \in 0 .. append_total_size - 1
        /\ (p \div chunk_size) \div k < strip_len \div chunk_size
        /\ (p \div chunk_size) % k \in 0 .. k - 1
        /\ p % chunk_size \in 0 .. chunk_size - 1
    BY <2>1, StripeReached
  <2>3. Padded(p) = p
    BY <2>1 DEF Padded, SchedulerInv
  <2>4. stripe_first_ptr[(p \div chunk_size) \div k][(p \div chunk_size) % k][p % chunk_size] = p
    BY <2>1, <2>2, <2>3, Zenon DEF StripesHoldData
  <2>5. buf[(p \div chunk_size) % k][p % chunk_size] = "good"
    <3> DEFINE j == (p \div chunk_size) % k
               x == p % chunk_size
    <3>1. j \in 0 .. K - 1 /\ x \in 0 .. MaxSize - 1
      BY <2>1, <2>2
    <3> HIDE DEF j, x
    <3>2. j \in StripeP!Strips /\ x \in StripeP!Bytes
      BY <3>1, ProgramsAssumption DEF StripeP!Strips, StripeP!Bytes
    <3>3. StripeP!Intact(j)
      BY <3>2 DEF RecoveryInv, StripeHolds
    <3>4. buf[j][x] = "good"
      BY <3>2, <3>3 DEF StripeP!Intact
    <3> QED
      BY <3>4 DEF j, x
  <2> QED
    BY <2>2, <2>4, <2>5
<1> QED
  BY <1>1, RecoveryInit, RecoveryStep, LaidOutInit, LaidOutStep, PTL DEF ProgramsSpec

=============================================================================
