------------------------------ MODULE MCIsaEC ------------------------------
(***************************************************************************)
(* Model-checking instance of IsaEC: the caller follows the protocol of    *)
(* the repository's programs, or departs from it where a configuration     *)
(* says so.                                                                *)
(***************************************************************************)
EXTENDS IsaEC, Sequences

(* err_list is indexed from 0. *)
FromSeq(q) == [i \in 0 .. Len(q) - 1 |-> q[i + 1]]

(* For k = 2, n = 2: nothing lost, a data strip, a parity strip, both data *)
(* strips out of order, one of each kind, and a strip named twice.         *)
MCErrInputs ==
  { FromSeq(q) : q \in {<< >>, <<1>>, <<2>>, <<1, 0>>, <<0, 3>>, <<1, 1>>} }
=============================================================================
