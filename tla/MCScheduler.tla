---------------------------- MODULE MCScheduler ----------------------------
(***************************************************************************)
(* Model-checking instance of Scheduler: every small size of data, up to   *)
(* and beyond what an int (IntMax = 16) counts, against every small number *)
(* of strips and chunk size.                                               *)
(***************************************************************************)
EXTENDS Scheduler

MCShapes == (1 .. 3) \X {0, 1} \X (1 .. 19) \X {-1, 1, 2, 4}
=============================================================================
