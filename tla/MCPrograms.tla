----------------------------- MODULE MCPrograms -----------------------------
(***************************************************************************)
(* Model-checking instance of Programs: a scheduler of every small shape,  *)
(* and the programs for k = 3, n = 2.  Data may be longer than an int      *)
(* (IntMax = 16) counts, as test_scheduler's 5 GiB are, and in chunks of   *)
(* one byte have more chunks than an int counts; strip_wise's strips are   *)
(* of IntMax bytes.                                                        *)
(***************************************************************************)
EXTENDS Programs

MCShapes == ((1 .. 3) \X {0, 1} \X (1 .. 19) \X {-1, 1, 2, 4})
            \cup {<<K, N, size, MaxSize>> : size \in 1 .. 19}
=============================================================================
