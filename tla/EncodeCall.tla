---------------------------- MODULE EncodeCall ----------------------------
(***************************************************************************)
(* What one encoding or decoding call promises about its chunks, whatever  *)
(* team of threads runs it: every output row of every chunk is computed    *)
(* exactly once, and the call returns only when all of them are.           *)
(***************************************************************************)
EXTENDS Naturals

CONSTANTS Rows, Chunks   \* output rows, chunks of a strip

VARIABLES computed, returned

Init == /\ computed = {}
        /\ returned = FALSE

Compute(r, c) == /\ ~ returned
                 /\ <<r, c>> \notin computed
                 /\ computed' = computed \cup {<<r, c>>}
                 /\ UNCHANGED returned

Return == /\ computed = Rows \X Chunks
          /\ returned' = TRUE
          /\ UNCHANGED computed

Next == Return \/ \E r \in Rows, c \in Chunks : Compute(r, c)

Spec == Init /\ [][Next]_<<computed, returned>>
=============================================================================
