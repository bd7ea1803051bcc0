----------------------------- MODULE ChunkTeam -----------------------------
(***************************************************************************)
(* The OpenMP loop inside one call of the codec: a team of threads shares  *)
(* the chunks out, each thread points frag_ptrs (recover_srcs and          *)
(* recover_outp in the decoding calls) at its chunk, one pointer after the *)
(* other, and hands the array to ec_encode_data, which follows the         *)
(* pointers again for every output row.                                    *)
(*                                                                         *)
(* encode declares frag_ptrs before the parallel region, so the team       *)
(* shares one array; encode_ptr, decode, decode_ptr and cache_decode_ptr   *)
(* declare theirs inside the loop, one per thread.  encode_ptr alone has   *)
(* schedule(dynamic).                                                      *)
(***************************************************************************)
EXTENDS Integers, FiniteSets

CONSTANTS
  K, N,        \* k sources and n destinations of a chunk
  TeamSize,    \* threads the region gets: at most thread_num
  NumChunks,   \* iterations of the loop
  SharedPtrs,  \* one frag_ptrs for the team (encode) or one per thread
  Schedules,   \* subset of {"dynamic" (encode_ptr), "static" (the others)}
  Unset        \* value of a pointer not yet assigned

ASSUME TeamAssumption == /\ K \in Nat \ {0}
                         /\ N \in Nat \ {0}
                         /\ TeamSize \in Nat \ {0}
                         /\ NumChunks \in Nat
                         /\ SharedPtrs \in BOOLEAN
                         /\ Schedules \subseteq {"dynamic", "static"}
                         /\ Unset \notin Nat

Team   == 0 .. TeamSize - 1
Chunks == 0 .. NumChunks - 1
OutRows == 0 .. N - 1
M      == K + N

VARIABLES
  schedule,   \* of the loop of this call
  next,       \* dynamic schedule: the first chunk not handed out
  todo,       \* static schedule: chunks thread t has still to run
  pc,         \* "fetch", "point", "encode" or "done", for every thread
  cur,        \* the chunk thread t is working on
  pos,        \* next pointer to set, or next row to compute
  frag_ptrs,  \* the arrays: the chunk each pointer points into
  out,        \* rows of the output chunks: "blank", "good" (computed once, from
              \* its own sources), "again" (computed once more) or "bad"
  returned    \* the region has joined and the call has returned

vars == <<schedule, next, todo, pc, cur, pos, frag_ptrs, out, returned>>

(* Variant: the array is declared outside the parallel region. *)
ArrayOf_hoisted(t) == 0

(* The pointer array thread t uses. *)
ArrayOf(t) == IF SharedPtrs THEN 0 ELSE t

(* Variant: a share ends with the first chunk of the next one. *)
StaticShare_overlap(t) ==
  LET q == NumChunks \div TeamSize
      r == NumChunks % TeamSize
      first(u) == u * q + IF u < r THEN u ELSE r
  IN  (first(t) .. first(t + 1)) \cap Chunks

(* Static schedule: contiguous shares, the first ones one chunk longer. *)
StaticShare(t) ==
  LET q == NumChunks \div TeamSize
      r == NumChunks % TeamSize
      first(u) == u * q + IF u < r THEN u ELSE r
  IN  first(t) .. first(t + 1) - 1

Init ==
  /\ schedule \in Schedules
  /\ next = 0
  /\ todo = [t \in Team |-> IF schedule = "dynamic" THEN {} ELSE StaticShare(t)]
  /\ pc = [t \in Team |-> "fetch"]
  /\ cur = [t \in Team |-> Unset]
  /\ pos = [t \in Team |-> 0]
  /\ frag_ptrs = [a \in Team |-> [j \in 0 .. M - 1 |-> Unset]]
  /\ out = [r \in OutRows |-> [c \in Chunks |-> "blank"]]
  /\ returned = FALSE

Start(t, c) == /\ cur' = [cur EXCEPT ![t] = c]
               /\ pos' = [pos EXCEPT ![t] = 0]
               /\ pc' = [pc EXCEPT ![t] = "point"]
               /\ UNCHANGED <<schedule, frag_ptrs, out, returned>>

(* The loop hands thread t its next iteration. *)
TakeChunk(t) ==
  /\ pc[t] = "fetch"
  /\ \/ /\ schedule = "dynamic"
        /\ next < NumChunks
        /\ next' = next + 1
        /\ Start(t, next)
        /\ UNCHANGED todo
     \/ \E c \in todo[t] : /\ \A d \in todo[t] : c <= d
                           /\ todo' = [todo EXCEPT ![t] = @ \ {c}]
                           /\ Start(t, c)
                           /\ UNCHANGED next

(* Variant: a thread waits until the counter is past the number of chunks. *)
Finish_past(t) ==
  /\ pc[t] = "fetch"
  /\ todo[t] = {}
  /\ next > NumChunks
  /\ pc' = [pc EXCEPT ![t] = "done"]
  /\ UNCHANGED <<schedule, next, todo, cur, pos, frag_ptrs, out, returned>>

(* No iteration is left for thread t: it waits at the end of the region. *)
Finish(t) ==
  /\ pc[t] = "fetch"
  /\ todo[t] = {}
  /\ schedule = "dynamic" => next >= NumChunks
  /\ pc' = [pc EXCEPT ![t] = "done"]
  /\ UNCHANGED <<schedule, next, todo, cur, pos, frag_ptrs, out, returned>>

(* Variant: the pointer loop runs once too often. *)
SetPointer_inclusive(t) ==
  /\ pc[t] = "point"
  /\ frag_ptrs' = [frag_ptrs EXCEPT ![ArrayOf(t)][pos[t]] = cur[t]]
  /\ IF pos[t] < M
     THEN pos' = [pos EXCEPT ![t] = @ + 1] /\ UNCHANGED pc
     ELSE pos' = [pos EXCEPT ![t] = 0] /\ pc' = [pc EXCEPT ![t] = "encode"]
  /\ UNCHANGED <<schedule, next, todo, cur, out, returned>>

(* frag_ptrs[j] = &...[index] *)
SetPointer(t) ==
  /\ pc[t] = "point"
  /\ frag_ptrs' = [frag_ptrs EXCEPT ![ArrayOf(t)][pos[t]] = cur[t]]
  /\ IF pos[t] + 1 < M
     THEN pos' = [pos EXCEPT ![t] = @ + 1] /\ UNCHANGED pc
     ELSE pos' = [pos EXCEPT ![t] = 0] /\ pc' = [pc EXCEPT ![t] = "encode"]
  /\ UNCHANGED <<schedule, next, todo, cur, out, returned>>

(* ec_encode_data computes its next output row through the pointers as     *)
(* they are now.                                                           *)
EncodeRow(t) ==
  LET p == frag_ptrs[ArrayOf(t)]
      r == pos[t]
  IN  /\ pc[t] = "encode"
      /\ out' = [out EXCEPT ![r][p[K + r]] =
                   IF \E j \in 0 .. K - 1 : p[j] # p[K + r] THEN "bad"
                   ELSE IF @ = "blank" THEN "good" ELSE "again"]
      /\ IF r + 1 < N
         THEN pos' = [pos EXCEPT ![t] = @ + 1] /\ UNCHANGED pc
         ELSE pos' = [pos EXCEPT ![t] = 0] /\ pc' = [pc EXCEPT ![t] = "fetch"]
      /\ UNCHANGED <<schedule, next, todo, cur, frag_ptrs, returned>>

(* Variant: the call does not wait for the other threads of the team. *)
Join_nowait ==
  /\ ~ returned
  /\ pc[0] = "done"
  /\ returned' = TRUE
  /\ UNCHANGED <<schedule, next, todo, pc, cur, pos, frag_ptrs, out>>

(* The implicit barrier of the region, and the return of the call. *)
Join ==
  /\ ~ returned
  /\ \A t \in Team : pc[t] = "done"
  /\ returned' = TRUE
  /\ UNCHANGED <<schedule, next, todo, pc, cur, pos, frag_ptrs, out>>

ThreadStep(t) == TakeChunk(t) \/ Finish(t) \/ SetPointer(t) \/ EncodeRow(t)

Next == Join \/ \E t \in Team : ThreadStep(t)

(* Every thread of the team keeps running, and the barrier opens. *)
Fairness == /\ WF_vars(Join)
            /\ \A t \in Team : WF_vars(ThreadStep(t))

Spec == Init /\ [][Next]_vars /\ Fairness

-----------------------------------------------------------------------------
TypeOK ==
  /\ schedule \in Schedules
  /\ next \in Nat
  /\ todo \in [Team -> SUBSET Chunks]
  /\ pc \in [Team -> {"fetch", "point", "encode", "done"}]
  /\ cur \in [Team -> Chunks \cup {Unset}]
  /\ pos \in [Team -> 0 .. M - 1]
  /\ frag_ptrs \in [Team -> [0 .. M - 1 -> Chunks \cup {Unset}]]
  /\ out \in [OutRows -> [Chunks -> {"blank", "good", "again", "bad"}]]
  /\ returned \in BOOLEAN

(* While a thread is inside ec_encode_data no other thread of the team     *)
(* works on its chunk, and all its pointers point into that chunk.         *)
ChunkExclusive ==
  \A t \in Team : pc[t] = "encode" =>
    /\ \A j \in 0 .. M - 1 : frag_ptrs[ArrayOf(t)][j] = cur[t]
    /\ \A u \in Team \ {t} : pc[u] \in {"point", "encode"} => cur[u] # cur[t]

(* The team implements the call: each row of each chunk is computed from   *)
(* its own sources, all of them before the call returns, and none twice: a *)
(* row computed again leaves the set of rows computed once, which no step  *)
(* of the call allows.                                                     *)
Call == INSTANCE EncodeCall WITH
          Rows <- OutRows,
          computed <- { rc \in OutRows \X Chunks : out[rc[1]][rc[2]] = "good" }

ImplementsCall == Call!Spec

(* The call returns. *)
CallReturns == <> returned
=============================================================================
