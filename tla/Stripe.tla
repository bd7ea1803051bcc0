------------------------------- MODULE Stripe -------------------------------
(***************************************************************************)
(* The strips of a stripe, as the SSD functions and the SSD program number *)
(* them: k of data, then n of parity.                                      *)
(***************************************************************************)
EXTENDS Integers

CONSTANTS K, N  \* k, n

Strips == 0 .. K + N - 1
=============================================================================
