------------------------------ MODULE Programs ------------------------------
(***************************************************************************)
(* Programs of test/ as clients of the scheduler and of the codec object:  *)
(*   testEC            encode, erase, decode, compare (the CTest test)     *)
(*   encode_vec        encode six times                                    *)
(*   strip_wise        encode_ptr, erase, decode_ptr, compare              *)
(*   stripe_scheduler  lay out in stripes, encode_ptr on each stripe,      *)
(*                     erase, cache_g_tbls, cache_decode_ptr, compare      *)
(* and "layouts", any user of a scheduler object.  The object ec is        *)
(* destroyed as main returns.                                              *)
(*                                                                         *)
(* stripe_scheduler does the same to all stripes, one after the other, and *)
(* the codec keeps nothing of a stripe: buf is any one of them, a          *)
(* codeword of strips of one chunk.                                        *)
(***************************************************************************)
EXTENDS Scheduler

CONSTANTS
  K, N, MaxSize, SizeMax, Uninit,  \* as in IsaEC
  StripLen,   \* bytes of a strip in testEC and encode_vec
  PtrLen      \* bytes of a strip in strip_wise: 2^31, IntMax

ASSUME ProgramsAssumption == K \in Nat \ {0} /\ N \in Nat

VARIABLES g_tbls, g_tbls_decode, decode_index, buf, overrun, decoded, cached, last,
  program,   \* which of the programs this is
  pc,        \* the part of main it has come to
  round,     \* encodings done
  err_list,  \* the strips erased, in the order drawn
  index,     \* how many of them have been compared
  retval,    \* value main returns: 0, or -1 after "not equal"
  status     \* exit status: "running", "0" or "signal"

codecVars  == <<g_tbls, g_tbls_decode, decode_index, buf, overrun, decoded, cached, last>>
schedVars  == <<shape, sizes, strip_first_ptr, stripe_first_ptr, layout>>
mainVars   == <<program, pc, round, err_list, index, retval, status>>
programVars == <<codecVars, schedVars, mainVars>>

CodecPrograms == {"testEC", "encode_vec", "strip_wise", "stripe_scheduler"}
Rounds == [testEC |-> 1, encode_vec |-> 6, strip_wise |-> 5, stripe_scheduler |-> 3]

(* rand() % (k + n), or rand() % k, n times.                               *)
RandomErrLists == [0 .. N - 1 -> 0 .. K + N - 1]
RandomDataLists == [0 .. N - 1 -> 0 .. K - 1]
Drawn == IF program = "stripe_scheduler" THEN RandomDataLists ELSE RandomErrLists

(* The codec as its callers use it: testEC and encode_vec on strips in     *)
(* vectors, strip_wise on strips behind pointers, stripe_scheduler on      *)
(* stripes.                                                                *)
Codec  == INSTANCE IsaEC WITH
            Calls <- {"encode", "decode"}, ErrInputs <- RandomErrLists,
            EncodePtrSize <- StripLen, CacheSize <- StripLen,
            EncodeAfterDecode <- FALSE, DecodeBetweenCached <- FALSE
Ptr    == INSTANCE IsaEC WITH
            Calls <- {"encode_ptr", "decode_ptr"}, ErrInputs <- RandomErrLists,
            StripLen <- PtrLen, EncodePtrSize <- PtrLen, CacheSize <- PtrLen,
            EncodeAfterDecode <- FALSE, DecodeBetweenCached <- FALSE
Stripe == INSTANCE IsaEC WITH
            Calls <- {"encode_ptr", "cache_g_tbls", "cache_decode_ptr"},
            ErrInputs <- RandomDataLists, StripLen <- MaxSize,
            EncodePtrSize <- MaxSize, CacheSize <- MaxSize,
            EncodeAfterDecode <- FALSE, DecodeBetweenCached <- FALSE

CodecInit ==
  CASE program = "strip_wise"       -> Ptr!Init
    [] program = "stripe_scheduler" -> Stripe!Init
    [] OTHER                        -> Codec!Init

ProgramsInit ==
  /\ Init
  /\ program \in CodecPrograms \cup {"layouts"}
  /\ CodecInit
  /\ CASE program = "layouts"          -> TRUE
       [] program = "stripe_scheduler" -> shape = <<K, N, total_size, MaxSize>>
       [] OTHER                        -> shape = CHOOSE s \in Shapes : TRUE
  /\ pc = IF program \in {"layouts", "stripe_scheduler"} THEN "layout" ELSE "encode"
  /\ round = 0 /\ err_list = << >> /\ index = 0 /\ retval = 0 /\ status = "running"

-----------------------------------------------------------------------------
(* Any calls of a scheduler object.                                        *)
UseScheduler ==
  /\ program = "layouts" /\ Next
  /\ UNCHANGED <<codecVars, mainVars>>

(* scheduler sch(k, n, size, maxSize), sch.stripe_first_outinside(data)    *)
LayOut ==
  /\ program = "stripe_scheduler" /\ pc = "layout"
  /\ \/ layout = "none"  /\ scheduler /\ UNCHANGED pc
     \/ layout = "built" /\ stripe_first_outinside /\ pc' = "encode"
  /\ UNCHANGED <<codecVars, program, round, err_list, index, retval, status>>

(* The timed loops: the same encoding again.                               *)
Encode ==
  /\ pc = "encode" /\ round' = round + 1
  /\ \/ program \in {"testEC", "encode_vec"} /\ Codec!encode
     \/ program = "strip_wise"               /\ Ptr!encode_ptr
     \/ program = "stripe_scheduler"         /\ Stripe!encode_ptr
  /\ pc' = IF round' < Rounds[program] THEN "encode"
           ELSE IF program = "encode_vec" THEN "return" ELSE "erase"
  /\ UNCHANGED <<schedVars, program, err_list, index, retval, status>>

(* The strips of err_list are overwritten.                                 *)
AddErrors ==
  /\ pc = "erase" /\ pc' = "decode"
  /\ \E err \in Drawn :
       /\ err_list' = err
       /\ CASE program = "strip_wise"       -> Ptr!Lose(Ptr!Erased(err))
            [] program = "stripe_scheduler" -> Stripe!Lose(Stripe!Erased(err))
            [] OTHER                        -> Codec!Lose(Codec!Erased(err))
  /\ UNCHANGED <<schedVars, program, round, index, retval, status>>

(* Variant: the measurement is repeated on the same object.                *)
Decode_repeat ==
  /\ pc = "decode"
  /\ \/ program = "testEC"     /\ Codec!decode(err_list)     /\ pc' \in {"compare", "encode"}
     \/ program = "strip_wise" /\ Ptr!decode_ptr(err_list) /\ pc' = "compare"
  /\ UNCHANGED <<schedVars, program, round, err_list, index, retval, status>>

Decode ==
  /\ pc = "decode"
  /\ \/ program = "testEC"     /\ Codec!decode(err_list)     /\ pc' = "compare"
     \/ program = "strip_wise" /\ Ptr!decode_ptr(err_list) /\ pc' = "compare"
     \/ program = "stripe_scheduler" /\ Stripe!cache_g_tbls(err_list) /\ pc' = "rebuild"
  /\ UNCHANGED <<schedVars, program, round, err_list, index, retval, status>>

(* cache_decode_ptr for every stripe, with the table cached once.          *)
Rebuild ==
  /\ pc = "rebuild" /\ pc' = "compare"
  /\ Stripe!cache_decode_ptr(err_list)
  /\ UNCHANGED <<schedVars, program, round, err_list, index, retval, status>>

(* testEC compares whole strips, but `in' has k of them only, so for a     *)
(* parity strip it reads past its end: either outcome, or a crash.         *)
(* stripe_scheduler compares first bytes.                                  *)
Whole(s) == IF program = "stripe_scheduler" THEN buf[s][0] = "good"
            ELSE \A b \in DOMAIN buf[s] : buf[s][b] = "good"
PastEnd(s) == program = "testEC" /\ s \notin 0 .. K - 1

CompareEqual ==
  /\ pc = "compare" /\ index < N
  /\ Whole(err_list[index]) \/ PastEnd(err_list[index])
  /\ index' = index + 1
  /\ UNCHANGED <<codecVars, schedVars, program, pc, round, err_list, retval, status>>

(* "not equal", return -1                                                  *)
CompareUnequal ==
  /\ pc = "compare" /\ index < N
  /\ ~Whole(err_list[index]) \/ PastEnd(err_list[index])
  /\ retval' = -1 /\ pc' = "return"
  /\ UNCHANGED <<codecVars, schedVars, program, round, err_list, index, status>>

CompareCrashes ==
  /\ pc = "compare" /\ index < N
  /\ PastEnd(err_list[index])
  /\ status' = "signal" /\ pc' = "exited"
  /\ UNCHANGED <<codecVars, schedVars, program, round, err_list, index, retval>>

(* return 0 after the last comparison                                      *)
ReturnZero ==
  /\ pc = "compare" /\ index = N /\ pc' = "return"
  /\ UNCHANGED <<codecVars, schedVars, program, round, err_list, index, retval, status>>

(* ~IsaEC, run for the local object as main returns, calls exit(0): the    *)
(* value main returns is never used.                                       *)
DestroyIsaEC ==
  /\ pc = "return" /\ status' = "0" /\ pc' = "exited"
  /\ UNCHANGED <<codecVars, schedVars, program, round, err_list, index, retval>>

ProgramsNext == \/ UseScheduler \/ LayOut \/ Encode \/ AddErrors \/ Decode \/ Rebuild
                \/ CompareEqual \/ CompareUnequal \/ CompareCrashes
                \/ ReturnZero \/ DestroyIsaEC

ProgramsSpec == ProgramsInit /\ [][ProgramsNext]_programVars

-----------------------------------------------------------------------------
(* FollowsProtocol: with the lengths the programs use, strip_wise's of     *)
(* 2^31 bytes included, and for the calls it makes each program is a       *)
(* conforming caller of the codec, and all it does to the codec is a       *)
(* behaviour of IsaEC for that caller: what is proved of conforming        *)
(* callers applies to it.                                                  *)
Conforms ==
  CASE program = "strip_wise"       -> Ptr!Conforming
    [] program = "stripe_scheduler" -> Stripe!Conforming
    [] OTHER                        -> Codec!Conforming

CodecNext ==
  CASE program = "strip_wise"       -> Ptr!Next
    [] program = "stripe_scheduler" -> Stripe!Next
    [] OTHER                        -> Codec!Next

FollowsProtocol == Conforms /\ CodecInit /\ [][CodecNext]_codecVars

(* DataRecovered: whatever n strips are drawn, repeats included, decoding  *)
(* brings all strips back, and no program finds its data different.        *)
DataRecovered ==
  /\ pc = "compare" => \A s \in DOMAIN buf : \A b \in DOMAIN buf[s] : buf[s][b] = "good"
  /\ retval = -1 => PastEnd(err_list[index])

(* DataSurvives: after stripe_scheduler has decoded, every byte of the     *)
(* user's data, if its chunks can be counted by an int, is where the       *)
(* layout put it, in a stripe that the program's loops over strip_len /    *)
(* chunk_size stripes reach and in a chunk that has been rebuilt or was    *)
(* never lost.                                                             *)
DataSurvives ==
  program = "stripe_scheduler" /\ pc = "compare" /\ IntsFit =>
    \A p \in 0 .. total_size - 1 :
      LET c == p \div chunk_size
      IN  /\ c \div k < strip_len \div chunk_size
          /\ stripe_first_ptr[c \div k][c % k][p % chunk_size] = p
          /\ buf[c % k][p % chunk_size] = "good"

(* FailureReported: a run that found unequal strips is reported to CTest   *)
(* as a failure: testEC.cpp returns -1 for that purpose.                   *)
FailureReported == status = "0" => retval = 0
=============================================================================
