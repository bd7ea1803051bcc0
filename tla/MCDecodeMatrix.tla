-------------------------- MODULE MCDecodeMatrix --------------------------
(***************************************************************************)
(* Model-checking instance of DecodeMatrix and EncodeData over the field   *)
(* of 16 elements with x^4 = x + 1: half a byte has 2 bits.  Vectors have  *)
(* 2 bytes (sse) or 3 (avx512); of the sse kernels the one of a single row *)
(* saves dest, the one of two rows masks.                                  *)
(***************************************************************************)
EXTENDS EncodeData, TLC

Field == INSTANCE GaloisField WITH Bits <- 4, Low <- 3

(* Sums and products as tables, which TLC evaluates once (that is what     *)
(* @@ is for).                                                             *)
Pairs   == Field!Elements \X Field!Elements
XorOf   == [p \in Pairs |-> Field!Xor(p[1], p[2])] @@ << >>
MulOf   == [p \in Pairs |-> Field!gf_mul(p[1], p[2])] @@ << >>
InvOf   == [x \in Field!Elements |-> Field!gf_inv(x)] @@ << >>
TwiceOf == [x \in Field!Elements |-> Field!Double(x)] @@ << >>

MCXor(x, y) == XorOf[x, y]
MCMul(x, y) == MulOf[x, y]
MCInv(x)    == InvOf[x]
MCTwice(x)  == TwiceOf[x]

MCWidth == [sse |-> 2, avx512 |-> 3]
MCData(j, p) == (7 * j + 5 * p + 1) % 16
=============================================================================
