---------------------------- MODULE GaloisField ----------------------------
(***************************************************************************)
(* Byte arithmetic of the erasure_code library: addition is xor, products  *)
(* and inverses go through the tables of powers and logarithms of 2.  The  *)
(* library's field has 8 bits and Low = 29 (0x1d); smaller fields follow   *)
(* the same definitions.                                                   *)
(***************************************************************************)
EXTENDS Integers

CONSTANTS Bits, Low   \* width of an element, and x^Bits modulo the polynomial

Order == 2^Bits
Elements == 0 .. Order - 1

(* Bit by bit, from the lowest. *)
XorTable ==
  [x \in Elements |-> [y \in Elements |->
     LET low[e \in 0 .. Bits] ==
           IF e = 0 THEN 0
           ELSE low[e - 1]
                + 2^(e - 1) * (((x \div 2^(e - 1)) + (y \div 2^(e - 1))) % 2)
     IN  low[Bits]]]

Xor(x, y) == XorTable[x][y]

(* c << 1, reduced: Mult by GF{2} *)
Double(c) == Xor((2 * c) % Order, IF 2 * c >= Order THEN Low ELSE 0)

(* gff_base: powers of 2, with 1 again at the end. *)
gff_base[e \in 0 .. Order - 1] ==
  IF e = 0 THEN 1 ELSE Double(gff_base[e - 1])

(* gflog_base: the logarithm of 1 is the last exponent, not 0. *)
gflog_base ==
  [x \in Elements \ {0} |->
     CHOOSE e \in 1 .. Order - 1 : gff_base[e] = x]

gf_mul(x, y) ==
  IF x = 0 \/ y = 0 THEN 0
  ELSE LET e == gflog_base[x] + gflog_base[y]
       IN  gff_base[IF e > Order - 2 THEN e - (Order - 1) ELSE e]

gf_inv(x) == IF x = 0 THEN 0 ELSE gff_base[Order - 1 - gflog_base[x]]
=============================================================================
