---------------------------- MODULE ErasureCode ----------------------------
(***************************************************************************)
(* What the codec promises its caller, with no tables, matrices or loops:  *)
(* K data strips and N parity strips form a codeword; whatever happens to  *)
(* at most N of the strips can be undone by naming them in a repair.       *)
(*                                                                         *)
(* The state is the set of strips that hold the bytes the codeword of the  *)
(* current data gives them, and what was done last: a repair cannot pass   *)
(* for a loss of the caller's, nor a failed repair for no step at all.     *)
(* Module IsaEC implements this promise for callers that follow the        *)
(* protocol of the repository's own programs.                              *)
(***************************************************************************)
EXTENDS Naturals, FiniteSets

CONSTANTS K, N           \* data strips, parity strips

VARIABLES
  ok,                    \* the strips whose bytes are those of the codeword
  last                   \* what was done last, and the strips it names

Strips == 0 .. K + N - 1
Data   == 0 .. K - 1

Did(op, S) == last' = [op |-> op, of |-> S]

Init == /\ ok = Data
        /\ last = [op |-> "write", of |-> {}]

(* The caller stores new data: the old parity no longer matches it. *)
Write == /\ ok' = Data
         /\ Did("write", {})

(* The caller loses at most N strips. *)
Lose(S) == /\ S \subseteq Strips
           /\ Cardinality(S) <= N
           /\ ok' = ok \ S
           /\ Did("lose", S)

(* Parity is recomputed from the data strips. *)
Encode == /\ ok' = IF Data \subseteq ok THEN Strips ELSE ok \cap Data
          /\ Did("encode", {})

(* The strips of E are recomputed from the others: survivors are never     *)
(* touched, and if they are all intact the whole codeword is back.         *)
Repair(E) == /\ E \subseteq Strips
             /\ ok' \in SUBSET (ok \cup E)
             /\ ok \ E \subseteq ok'
             /\ (Strips \ E) \subseteq ok => ok' = Strips
             /\ Did("repair", E)

Next == \/ Write
        \/ Encode
        \/ \E S \in SUBSET Strips : Lose(S) \/ Repair(S)

Spec == Init /\ [][Next]_<<ok, last>>
=============================================================================
