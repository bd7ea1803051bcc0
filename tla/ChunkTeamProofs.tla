-------------------------- MODULE ChunkTeamProofs --------------------------
(***************************************************************************)
(* A team with private pointer arrays computes every row of every chunk    *)
(* exactly once, before the call returns, for any number of threads,       *)
(* chunks and pointers, under both schedules.                              *)
(***************************************************************************)
EXTENDS ChunkTeam, TLAPS

-----------------------------------------------------------------------------
(* The shares of the static schedule divide the chunks among the team.     *)

LEMMA DivMod ==
  ASSUME NEW a \in Nat, NEW b \in Nat \ {0}
  PROVE  /\ a \div b \in Nat
         /\ a % b \in 0 .. b - 1
         /\ a = b * (a \div b) + (a % b)
OBVIOUS

Share     == NumChunks \div TeamSize
Remainder == NumChunks % TeamSize
First(u)  == u * Share + IF u < Remainder THEN u ELSE Remainder

LEMMA ShareSizes ==
  /\ Share \in Nat
  /\ Remainder \in 0 .. TeamSize - 1
  /\ NumChunks = TeamSize * Share + Remainder
  /\ \A t \in Team : StaticShare(t) = First(t) .. First(t + 1) - 1
<1>1. NumChunks \in Nat /\ TeamSize \in Nat \ {0}
  BY TeamAssumption
<1>2. /\ Share \in Nat
      /\ Remainder \in 0 .. TeamSize - 1
      /\ NumChunks = TeamSize * Share + Remainder
  BY <1>1, DivMod, Zenon DEF Share, Remainder
<1>3. \A t \in Team : StaticShare(t) = First(t) .. First(t + 1) - 1
  BY DEF StaticShare, First, Share, Remainder
<1> QED
  BY <1>2, <1>3

LEMMA FirstMonotone ==
  ASSUME NEW u \in 0 .. TeamSize, NEW v \in u .. TeamSize
  PROVE  /\ First(u) \in Nat
         /\ First(v) \in Nat
         /\ First(u) <= First(v)
         /\ First(v) <= NumChunks
<1>1. /\ Share \in Nat
      /\ Remainder \in 0 .. TeamSize - 1
      /\ NumChunks = TeamSize * Share + Remainder
      /\ TeamSize \in Nat
  BY ShareSizes, TeamAssumption
<1>2. /\ u * Share <= v * Share
      /\ v * Share <= TeamSize * Share
      /\ u * Share \in Nat
      /\ v * Share \in Nat
  BY <1>1
<1> QED
  BY <1>1, <1>2 DEF First

LEMMA SharesDisjoint ==
  ASSUME NEW t \in Team, NEW u \in Team, t # u
  PROVE  /\ StaticShare(t) \subseteq Chunks
         /\ StaticShare(t) \cap StaticShare(u) = {}
<1>1. TeamSize \in Nat /\ NumChunks \in Nat
  BY TeamAssumption
<1>2. /\ t \in 0 .. TeamSize /\ t + 1 \in t .. TeamSize
      /\ u \in 0 .. TeamSize /\ u + 1 \in u .. TeamSize
  BY <1>1 DEF Team
<1>3. /\ First(t) \in Nat /\ First(t + 1) \in Nat /\ First(t + 1) <= NumChunks
      /\ First(u) \in Nat /\ First(u + 1) \in Nat
  BY <1>2, FirstMonotone
<1>4. First(t + 1) <= First(u) \/ First(u + 1) <= First(t)
  <2>1. CASE t < u
    <3>1. t + 1 \in 0 .. TeamSize /\ u \in t + 1 .. TeamSize
      BY <1>1, <2>1 DEF Team
    <3> QED
      BY <3>1, FirstMonotone
  <2>2. CASE u < t
    <3>1. u + 1 \in 0 .. TeamSize /\ t \in u + 1 .. TeamSize
      BY <1>1, <2>2 DEF Team
    <3> QED
      BY <3>1, FirstMonotone
  <2> QED
    BY <1>1, <2>1, <2>2 DEF Team
<1> QED
  BY <1>1, <1>3, <1>4, ShareSizes DEF Chunks

(* The thread whose share a chunk is in: the first ones have one chunk     *)
(* more than the others.                                                   *)
LEMMA SharesCover == \A c \in Chunks : \E t \in Team : c \in StaticShare(t)
<1> SUFFICES ASSUME NEW c \in Chunks PROVE \E t \in Team : c \in StaticShare(t)
  OBVIOUS
<1> DEFINE q == Share
           r == Remainder
<1>1. /\ q \in Nat
      /\ r \in 0 .. TeamSize - 1
      /\ NumChunks = TeamSize * q + r
      /\ TeamSize \in Nat
      /\ c \in 0 .. NumChunks - 1
      /\ NumChunks \in Nat
  BY ShareSizes, TeamAssumption DEF Chunks
<1>2. SUFFICES \E t \in Team : First(t) <= c /\ c < First(t + 1)
  <2>1. PICK t \in Team : First(t) <= c /\ c < First(t + 1)
    BY <1>2
  <2>2. t \in 0 .. TeamSize /\ t + 1 \in t .. TeamSize
    BY <1>1 DEF Team
  <2>3. First(t) \in Nat /\ First(t + 1) \in Nat
    BY <2>2, FirstMonotone
  <2>4. c \in First(t) .. First(t + 1) - 1
    BY <1>1, <2>1, <2>3
  <2> QED
    BY <2>1, <2>4, ShareSizes
<1>3. \A u : First(u) = u * q + IF u < r THEN u ELSE r
  BY DEF First
<1> HIDE DEF q, r
<1>4. CASE c < r * (q + 1)
  <2> DEFINE t == c \div (q + 1)
             s == c % (q + 1)
  <2>1. c \in Nat /\ q + 1 \in Nat \ {0}
    BY <1>1
  <2>2. /\ t \in Nat
        /\ s \in 0 .. (q + 1) - 1
        /\ c = (q + 1) * t + s
    BY <2>1, DivMod, Zenon
  <2> HIDE DEF t, s
  <2>3. t < r
    <3> SUFFICES ASSUME t >= r PROVE FALSE
      BY <1>1, <2>2
    <3>1. (q + 1) * t >= r * (q + 1)
      BY <1>1, <2>2
    <3> QED
      BY <1>1, <1>4, <2>2, <3>1
  <2>4. First(t) = t * q + t /\ First(t + 1) = (t + 1) * q + t + 1
    BY <1>1, <1>3, <2>2, <2>3
  <2>5. /\ (q + 1) * t = t * q + t
        /\ (t + 1) * q = t * q + q
    BY <1>1, <2>2
  <2>6. First(t) <= c /\ c < First(t + 1)
    BY <1>1, <2>2, <2>4, <2>5
  <2>7. t \in Team
    BY <1>1, <2>2, <2>3 DEF Team
  <2> QED
    BY <2>6, <2>7
<1>5. CASE c >= r * (q + 1)
  <2>1. q # 0
    <3> SUFFICES ASSUME q = 0 PROVE FALSE
      OBVIOUS
    <3> QED
      BY <1>1, <1>5
  <2> DEFINE d == c - r * (q + 1)
             e == d \div q
             s == d % q
  <2>2. d \in Nat /\ q \in Nat \ {0}
    BY <1>1, <1>5, <2>1
  <2>3. /\ e \in Nat
        /\ s \in 0 .. q - 1
        /\ d = q * e + s
    BY <2>2, DivMod, Zenon
  <2>4. /\ r * (q + 1) = r * q + r
        /\ c = r * (q + 1) + d
    BY <1>1
  <2> HIDE DEF d, e, s
  <2>5. r + e < TeamSize
    <3> SUFFICES ASSUME r + e >= TeamSize PROVE FALSE
      BY <1>1, <2>3
    <3>1. (r + e) * q >= TeamSize * q
      BY <1>1, <2>3
    <3>2. (r + e) * q = r * q + q * e
      BY <1>1, <2>3
    <3> QED
      BY <1>1, <2>3, <2>4, <3>1, <3>2
  <2>6. First(r + e) = (r + e) * q + r /\ First(r + e + 1) = (r + e + 1) * q + r
    BY <1>1, <1>3, <2>3
  <2>7. /\ (r + e) * q = r * q + q * e
        /\ (r + e + 1) * q = r * q + q * e + q
    BY <1>1, <2>3
  <2>8. First(r + e) <= c /\ c < First(r + e + 1)
    BY <1>1, <2>3, <2>4, <2>6, <2>7
  <2>9. r + e \in Team
    BY <1>1, <2>3, <2>5 DEF Team
  <2> QED
    BY <2>8, <2>9
<1> QED
  BY <1>1, <1>4, <1>5

-----------------------------------------------------------------------------
(* Type correctness, with shared arrays too.                               *)

LEMMA TypeInit == Init => TypeOK
<1> SUFFICES ASSUME Init PROVE TypeOK
  OBVIOUS
<1>1. \A t \in Team : StaticShare(t) \subseteq Chunks
  <2> SUFFICES ASSUME NEW t \in Team PROVE StaticShare(t) \subseteq Chunks
    OBVIOUS
  <2>1. TeamSize \in Nat /\ NumChunks \in Nat
    BY TeamAssumption
  <2>2. t \in 0 .. TeamSize /\ t + 1 \in t .. TeamSize
    BY <2>1 DEF Team
  <2>3. First(t) \in Nat /\ First(t + 1) \in Nat /\ First(t + 1) <= NumChunks
    BY <2>2, FirstMonotone
  <2> QED
    BY <2>1, <2>3, ShareSizes DEF Chunks
<1>2. 0 \in 0 .. M - 1
  BY TeamAssumption DEF M
<1>3. todo \in [Team -> SUBSET Chunks]
  BY <1>1 DEF Init
<1> QED
  BY <1>2, <1>3 DEF Init, TypeOK

LEMMA TypeStep == TypeOK /\ [Next]_vars => TypeOK'
<1> SUFFICES ASSUME TypeOK, [Next]_vars PROVE TypeOK'
  OBVIOUS
<1>1. ASSUME NEW t \in Team, NEW c \in Chunks, Start(t, c) PROVE
        /\ schedule' \in Schedules
        /\ pc' \in [Team -> {"fetch", "point", "encode", "done"}]
        /\ cur' \in [Team -> Chunks \cup {Unset}]
        /\ pos' \in [Team -> 0 .. M - 1]
        /\ UNCHANGED <<frag_ptrs, out, returned>>
  BY <1>1, TeamAssumption DEF Start, TypeOK, M
<1>2. ASSUME NEW t \in Team, TakeChunk(t) PROVE TypeOK'
  <2>1. CASE /\ next < NumChunks /\ next' = next + 1
             /\ Start(t, next) /\ UNCHANGED todo
    <3>1. next \in Chunks
      BY <2>1, TeamAssumption DEF TypeOK, Chunks
    <3> QED
      BY <1>1, <2>1, <3>1 DEF TypeOK
  <2>2. CASE \E c \in todo[t] : /\ todo' = [todo EXCEPT ![t] = @ \ {c}]
                                /\ Start(t, c) /\ UNCHANGED next
    <3>1. PICK c \in todo[t] : /\ todo' = [todo EXCEPT ![t] = @ \ {c}]
                               /\ Start(t, c) /\ UNCHANGED next
      BY <2>2
    <3>2. c \in Chunks /\ todo' \in [Team -> SUBSET Chunks]
      BY <3>1 DEF TypeOK
    <3> QED
      BY <1>1, <3>1, <3>2 DEF TypeOK
  <2> QED
    BY <1>2, <2>1, <2>2 DEF TakeChunk
<1>3. ASSUME NEW t \in Team, Finish(t) PROVE TypeOK'
  BY <1>3 DEF Finish, TypeOK
<1>4. ASSUME NEW t \in Team, SetPointer(t) PROVE TypeOK'
  <2>1. pos' \in [Team -> 0 .. M - 1]
    BY <1>4, TeamAssumption DEF SetPointer, TypeOK, M
  <2>2. frag_ptrs' \in [Team -> [0 .. M - 1 -> Chunks \cup {Unset}]]
    BY <1>4 DEF SetPointer, TypeOK
  <2> QED
    BY <1>4, <2>1, <2>2 DEF SetPointer, TypeOK
<1>5. ASSUME NEW t \in Team, EncodeRow(t) PROVE TypeOK'
  <2>1. pos' \in [Team -> 0 .. M - 1]
    <3>1. pos \in [Team -> 0 .. M - 1] /\ 0 \in 0 .. M - 1
      BY TeamAssumption DEF TypeOK, M
    <3>2. pos[t] + 1 < N => pos[t] + 1 \in 0 .. M - 1
      BY <3>1, TeamAssumption DEF M
    <3>3. \/ pos[t] + 1 < N /\ pos' = [pos EXCEPT ![t] = @ + 1]
          \/ pos' = [pos EXCEPT ![t] = 0]
      BY <1>5 DEF EncodeRow
    <3> QED
      BY <3>1, <3>2, <3>3
  <2>2. out' \in [OutRows -> [Chunks -> {"blank", "good", "again", "bad"}]]
    BY <1>5 DEF EncodeRow, TypeOK
  <2> QED
    BY <1>5, <2>1, <2>2 DEF EncodeRow, TypeOK
<1>6. CASE Join
  BY <1>6 DEF Join, TypeOK
<1>7. CASE UNCHANGED vars
  BY <1>7 DEF vars, TypeOK
<1> QED
  BY <1>2, <1>3, <1>4, <1>5, <1>6, <1>7 DEF Next, ThreadStep

(* The fields of the team keep their types, whatever the arrays.           *)
THEOREM TypeCorrect == Spec => []TypeOK
BY TypeInit, TypeStep, PTL DEF Spec

-----------------------------------------------------------------------------
(* The inductive invariant, with an array for every thread.  A chunk waits *)
(* to be handed out, or one thread holds it, or all its rows are computed. *)

PrivateArrays == SharedPtrs = FALSE

Busy(t)    == pc[t] \in {"point", "encode"}
Waiting(c) == IF schedule = "dynamic" THEN next <= c ELSE \E t \in Team : c \in todo[t]

(* Chunks that wait do so for one thread, and a thread that is done has    *)
(* left none behind.                                                       *)
HandedOnce ==
  /\ schedule = "dynamic" => \A t \in Team : todo[t] = {}
  /\ \A t, u \in Team : t # u => todo[t] \cap todo[u] = {}
  /\ \A t \in Team : pc[t] = "done" =>
       /\ todo[t] = {}
       /\ schedule = "dynamic" => next >= NumChunks
HeldOnce ==
  \A t \in Team : Busy(t) =>
    /\ cur[t] \in Chunks
    /\ ~ Waiting(cur[t])
    /\ \A u \in Team \ {t} : Busy(u) => cur[u] # cur[t]
PointersOwn ==
  \A t \in Team :
    /\ pc[t] = "point" => \A j \in 0 .. pos[t] - 1 : frag_ptrs[t][j] = cur[t]
    /\ pc[t] = "encode" => /\ pos[t] \in OutRows
                           /\ \A j \in 0 .. M - 1 : frag_ptrs[t][j] = cur[t]
RowsComputed ==
  \A r \in OutRows, c \in Chunks :
    /\ Waiting(c) => out[r][c] = "blank"
    /\ ~ Waiting(c) /\ (\A t \in Team : Busy(t) => cur[t] # c) => out[r][c] = "good"
    /\ \A t \in Team : cur[t] = c =>
         /\ pc[t] = "point" => out[r][c] = "blank"
         /\ pc[t] = "encode" => out[r][c] = IF r < pos[t] THEN "good" ELSE "blank"
ReturnedLast == returned => \A t \in Team : pc[t] = "done"

TeamInv == TypeOK /\ HandedOnce /\ HeldOnce /\ PointersOwn /\ RowsComputed /\ ReturnedLast

LEMMA TeamInit == Init => TeamInv
<1> SUFFICES ASSUME Init PROVE TeamInv
  OBVIOUS
<1>1. TypeOK
  BY TypeInit
<1>2. HandedOnce
  BY SharesDisjoint DEF Init, HandedOnce
<1>3. HeldOnce /\ PointersOwn /\ ReturnedLast
  BY DEF Init, HeldOnce, Busy, PointersOwn, ReturnedLast
<1>4. \A c \in Chunks : Waiting(c)
  <2>1. CASE schedule = "dynamic"
    BY <2>1, TeamAssumption DEF Init, Waiting, Chunks
  <2>2. CASE schedule # "dynamic"
    BY <2>2, SharesCover DEF Init, Waiting
  <2> QED
    BY <2>1, <2>2
<1>5. RowsComputed
  BY <1>4 DEF Init, RowsComputed
<1> QED
  BY <1>1, <1>2, <1>3, <1>5 DEF TeamInv

(* A thread starts a chunk that waited, whichever way it was handed out.   *)
LEMMA TakeHandsOut ==
  ASSUME TeamInv, NEW t \in Team, TakeChunk(t)
  PROVE  \E c \in Chunks :
           /\ Start(t, c)
           /\ Waiting(c)
           /\ \A d \in Chunks : Waiting(d)' <=> Waiting(d) /\ d # c
           /\ HandedOnce'
<1> USE DEF TeamInv
<1>1. CASE /\ schedule = "dynamic" /\ next < NumChunks /\ next' = next + 1
           /\ Start(t, next) /\ UNCHANGED todo
  <2>1. next \in Chunks /\ next \in Nat /\ NumChunks \in Nat
    BY <1>1, TeamAssumption DEF TypeOK, Chunks
  <2>2. UNCHANGED schedule
    BY <1>1 DEF Start
  <2>3. \A d \in Chunks : Waiting(d)' <=> Waiting(d) /\ d # next
    BY <1>1, <2>1, <2>2 DEF Waiting, Chunks
  <2>4. Waiting(next)
    BY <1>1, <2>1 DEF Waiting
  <2>5. \A u \in Team : pc'[u] = "done" => pc[u] = "done"
    BY <1>1 DEF Start, TypeOK
  <2>6. HandedOnce'
    BY <1>1, <2>1, <2>2, <2>5 DEF HandedOnce
  <2> QED
    BY <1>1, <2>1, <2>3, <2>4, <2>6
<1>2. CASE \E c \in todo[t] : /\ todo' = [todo EXCEPT ![t] = @ \ {c}]
                              /\ Start(t, c) /\ UNCHANGED next
  <2>1. PICK c \in todo[t] : /\ todo' = [todo EXCEPT ![t] = @ \ {c}]
                             /\ Start(t, c) /\ UNCHANGED next
    BY <1>2
  <2>2. /\ c \in Chunks
        /\ schedule # "dynamic"
        /\ schedule' = schedule
    BY <2>1 DEF TypeOK, HandedOnce, Start
  <2>3. \A u \in Team : todo'[u] = IF u = t THEN todo[t] \ {c} ELSE todo[u]
    BY <2>1 DEF TypeOK
  <2>4. \A u \in Team : u # t => c \notin todo[u]
    BY <2>1 DEF HandedOnce
  <2>5. \A d \in Chunks : Waiting(d)' <=> Waiting(d) /\ d # c
    BY <2>2, <2>3, <2>4 DEF Waiting
  <2>6. Waiting(c)
    BY <2>1, <2>2 DEF Waiting
  <2>7. \A u \in Team : pc'[u] = "done" => pc[u] = "done"
    BY <2>1 DEF Start, TypeOK
  <2>8. HandedOnce'
    BY <2>2, <2>3, <2>7 DEF HandedOnce
  <2> QED
    BY <2>1, <2>2, <2>5, <2>6, <2>8
<1> QED
  BY <1>1, <1>2 DEF TakeChunk

LEMMA TakeKeeps ==
  ASSUME TeamInv, NEW t \in Team, TakeChunk(t)
  PROVE  TeamInv' /\ UNCHANGED <<out, returned>>
<1>1. PICK c \in Chunks : /\ Start(t, c)
                          /\ Waiting(c)
                          /\ \A d \in Chunks : Waiting(d)' <=> Waiting(d) /\ d # c
                          /\ HandedOnce'
  BY TakeHandsOut
<1>2. /\ UNCHANGED <<schedule, frag_ptrs, out, returned>>
      /\ \A u \in Team : /\ cur'[u] = IF u = t THEN c ELSE cur[u]
                         /\ pos'[u] = IF u = t THEN 0 ELSE pos[u]
                         /\ pc'[u] = IF u = t THEN "point" ELSE pc[u]
  BY <1>1 DEF Start, TeamInv, TypeOK
<1>3. pc[t] = "fetch"
  BY DEF TakeChunk
<1>4. TypeOK'
  <2>1. Next
    BY DEF Next, ThreadStep
  <2> QED
    BY <2>1, TypeStep DEF TeamInv
<1>5. HeldOnce'
  <2>1. \A u \in Team : Busy(u)' <=> u = t \/ Busy(u)
    BY <1>2, <1>3 DEF Busy
  <2>2. \A u \in Team : Busy(u) => cur[u] \in Chunks /\ cur[u] # c
    BY <1>1 DEF TeamInv, HeldOnce
  <2> QED
    BY <1>1, <1>2, <1>3, <2>1, <2>2 DEF TeamInv, HeldOnce, Busy
<1>6. PointersOwn'
  BY <1>2 DEF TeamInv, PointersOwn
<1>7. RowsComputed'
  <2> SUFFICES ASSUME NEW r \in OutRows, NEW d \in Chunks
               PROVE  /\ Waiting(d)' => out[r][d] = "blank"
                      /\ ~ Waiting(d)' /\ (\A u \in Team : Busy(u)' => cur'[u] # d)
                           => out[r][d] = "good"
                      /\ \A u \in Team : cur'[u] = d =>
                           /\ pc'[u] = "point" => out[r][d] = "blank"
                           /\ pc'[u] = "encode" =>
                                out[r][d] = IF r < pos'[u] THEN "good" ELSE "blank"
    BY <1>2 DEF RowsComputed
  <2>1. \A u \in Team : Busy(u)' <=> u = t \/ Busy(u)
    BY <1>2, <1>3 DEF Busy
  <2>2. Waiting(d)' => out[r][d] = "blank"
    BY <1>1 DEF TeamInv, RowsComputed
  <2>3. ~ Waiting(d)' /\ (\A u \in Team : Busy(u)' => cur'[u] # d) => out[r][d] = "good"
    BY <1>1, <1>2, <1>3, <2>1 DEF TeamInv, RowsComputed, Busy
  <2>4. ASSUME NEW u \in Team, cur'[u] = d
        PROVE  /\ pc'[u] = "point" => out[r][d] = "blank"
               /\ pc'[u] = "encode" => out[r][d] = IF r < pos'[u] THEN "good" ELSE "blank"
    <3>1. CASE u = t
      BY <1>1, <1>2, <2>4, <3>1 DEF TeamInv, RowsComputed
    <3>2. CASE u # t
      BY <1>2, <2>4, <3>2 DEF TeamInv, RowsComputed
    <3> QED
      BY <3>1, <3>2
  <2> QED
    BY <2>2, <2>3, <2>4
<1>8. ReturnedLast'
  BY <1>2, <1>3 DEF TeamInv, ReturnedLast
<1> QED
  BY <1>1, <1>2, <1>4, <1>5, <1>6, <1>7, <1>8 DEF TeamInv

LEMMA FinishKeeps ==
  ASSUME TeamInv, NEW t \in Team, Finish(t)
  PROVE  TeamInv' /\ UNCHANGED <<out, returned>>
<1>1. /\ UNCHANGED <<schedule, next, todo, cur, pos, frag_ptrs, out, returned>>
      /\ pc[t] = "fetch" /\ todo[t] = {} /\ (schedule = "dynamic" => next >= NumChunks)
      /\ \A u \in Team : pc'[u] = IF u = t THEN "done" ELSE pc[u]
  BY DEF Finish, TeamInv, TypeOK
<1>2. TypeOK'
  <2>1. Next
    BY DEF Next, ThreadStep
  <2> QED
    BY <2>1, TypeStep DEF TeamInv
<1>3. /\ \A u \in Team : Busy(u)' <=> Busy(u)
      /\ \A c \in Chunks : Waiting(c)' <=> Waiting(c)
  BY <1>1 DEF Busy, Waiting
<1>4. HandedOnce'
  BY <1>1 DEF TeamInv, HandedOnce
<1>5. HeldOnce'
  BY <1>1, <1>3 DEF TeamInv, HeldOnce
<1>6. PointersOwn' /\ ReturnedLast'
  BY <1>1 DEF TeamInv, PointersOwn, ReturnedLast
<1>7. RowsComputed'
  BY <1>1, <1>3 DEF TeamInv, RowsComputed
<1> QED
  BY <1>1, <1>2, <1>4, <1>5, <1>6, <1>7 DEF TeamInv

(* Only thread t moves its pointers, within the chunk it holds.            *)
LEMMA SetPointerKeeps ==
  ASSUME PrivateArrays, TeamInv, NEW t \in Team, SetPointer(t)
  PROVE  TeamInv' /\ UNCHANGED <<out, returned>>
<1>1. /\ UNCHANGED <<schedule, next, todo, cur, out, returned>>
      /\ pc[t] = "point" /\ pos[t] \in 0 .. M - 1
      /\ \A u \in Team : u # t => pc'[u] = pc[u] /\ pos'[u] = pos[u]
                                  /\ frag_ptrs'[u] = frag_ptrs[u]
      /\ \A j \in 0 .. M - 1 :
           frag_ptrs'[t][j] = IF j = pos[t] THEN cur[t] ELSE frag_ptrs[t][j]
  BY DEF SetPointer, ArrayOf, PrivateArrays, TeamInv, TypeOK
<1>2. \/ pc'[t] = "point" /\ pos'[t] = pos[t] + 1 /\ pos[t] + 1 < M
      \/ pc'[t] = "encode" /\ pos'[t] = 0 /\ ~ (pos[t] + 1 < M)
  BY DEF SetPointer, TeamInv, TypeOK
<1>3. TypeOK'
  <2>1. Next
    BY DEF Next, ThreadStep
  <2> QED
    BY <2>1, TypeStep DEF TeamInv
<1>4. /\ \A u \in Team : Busy(u)' <=> Busy(u)
      /\ \A c \in Chunks : Waiting(c)' <=> Waiting(c)
  BY <1>1, <1>2 DEF Busy, Waiting
<1>5. HandedOnce' /\ ReturnedLast'
  BY <1>1, <1>2 DEF TeamInv, HandedOnce, ReturnedLast
<1>6. HeldOnce'
  BY <1>1, <1>4 DEF TeamInv, HeldOnce
<1>7. M \in Nat /\ 0 \in OutRows
  BY TeamAssumption DEF M, OutRows
<1>8. PointersOwn'
  <2>1. \A j \in 0 .. pos[t] - 1 : frag_ptrs[t][j] = cur[t]
    BY <1>1 DEF TeamInv, PointersOwn
  <2>2. \A j \in 0 .. M - 1 : j <= pos[t] => frag_ptrs'[t][j] = cur'[t]
    BY <1>1, <1>7, <2>1
  <2>3. /\ pc'[t] = "point" => \A j \in 0 .. pos'[t] - 1 : frag_ptrs'[t][j] = cur'[t]
        /\ pc'[t] = "encode" => /\ pos'[t] \in OutRows
                                /\ \A j \in 0 .. M - 1 : frag_ptrs'[t][j] = cur'[t]
    BY <1>1, <1>2, <1>7, <2>2
  <2> QED
    BY <1>1, <2>3 DEF TeamInv, PointersOwn
<1>9. RowsComputed'
  <2> SUFFICES ASSUME NEW r \in OutRows, NEW d \in Chunks
               PROVE  /\ Waiting(d)' => out[r][d] = "blank"
                      /\ ~ Waiting(d)' /\ (\A u \in Team : Busy(u)' => cur'[u] # d)
                           => out[r][d] = "good"
                      /\ \A u \in Team : cur'[u] = d =>
                           /\ pc'[u] = "point" => out[r][d] = "blank"
                           /\ pc'[u] = "encode" =>
                                out[r][d] = IF r < pos'[u] THEN "good" ELSE "blank"
    BY <1>1 DEF RowsComputed
  <2>1. cur[t] = d => out[r][d] = "blank"
    BY <1>1 DEF TeamInv, RowsComputed
  <2>2. pc'[t] = "encode" => ~ (r < pos'[t])
    BY <1>2, TeamAssumption DEF OutRows
  <2>3. \A u \in Team : cur'[u] = d =>
          /\ pc'[u] = "point" => out[r][d] = "blank"
          /\ pc'[u] = "encode" => out[r][d] = IF r < pos'[u] THEN "good" ELSE "blank"
    BY <1>1, <2>1, <2>2 DEF TeamInv, RowsComputed
  <2> QED
    BY <1>1, <1>4, <2>3 DEF TeamInv, RowsComputed
<1> QED
  BY <1>1, <1>3, <1>5, <1>6, <1>8, <1>9 DEF TeamInv

(* Row pos[t] of the chunk thread t holds becomes good, no other row       *)
(* changes; the row was not computed before.                               *)
LEMMA RowComputed ==
  ASSUME PrivateArrays, TeamInv, NEW t \in Team, EncodeRow(t)
  PROVE  /\ pc[t] = "encode" /\ pos[t] \in OutRows /\ cur[t] \in Chunks
         /\ out[pos[t]][cur[t]] = "blank"
         /\ \A r \in OutRows, c \in Chunks :
              out'[r][c] = IF r = pos[t] /\ c = cur[t] THEN "good" ELSE out[r][c]
         /\ UNCHANGED <<schedule, next, todo, cur, frag_ptrs, returned>>
<1>1. pc[t] = "encode" /\ UNCHANGED <<schedule, next, todo, cur, frag_ptrs, returned>>
  BY DEF EncodeRow
<1>2. /\ cur[t] \in Chunks
      /\ pos[t] \in OutRows
      /\ \A j \in 0 .. M - 1 : frag_ptrs[t][j] = cur[t]
  BY <1>1 DEF TeamInv, HeldOnce, Busy, PointersOwn
<1>3. /\ K + pos[t] \in 0 .. M - 1
      /\ \A j \in 0 .. K - 1 : j \in 0 .. M - 1
  BY <1>2, TeamAssumption DEF M, OutRows
<1>4. /\ frag_ptrs[t][K + pos[t]] = cur[t]
      /\ \A j \in 0 .. K - 1 : frag_ptrs[t][j] = frag_ptrs[t][K + pos[t]]
  BY <1>2, <1>3
<1>5. ~ (pos[t] < pos[t])
  BY <1>2, TeamAssumption DEF OutRows
<1>6. out[pos[t]][cur[t]] = "blank"
  BY <1>1, <1>2, <1>5 DEF TeamInv, RowsComputed
<1>7. out' = [out EXCEPT ![pos[t]][cur[t]] = "good"]
  BY <1>2, <1>4, <1>6 DEF EncodeRow, ArrayOf, PrivateArrays, TeamInv, TypeOK
<1> QED
  BY <1>1, <1>2, <1>6, <1>7 DEF TeamInv, TypeOK

LEMMA EncodeRowKeeps ==
  ASSUME PrivateArrays, TeamInv, NEW t \in Team, EncodeRow(t)
  PROVE  TeamInv'
<1>1. /\ pc[t] = "encode" /\ pos[t] \in OutRows /\ cur[t] \in Chunks
      /\ \A r \in OutRows, c \in Chunks :
           out'[r][c] = IF r = pos[t] /\ c = cur[t] THEN "good" ELSE out[r][c]
      /\ UNCHANGED <<schedule, next, todo, cur, frag_ptrs, returned>>
  BY RowComputed
<1>2. /\ \A u \in Team : u # t => pc'[u] = pc[u] /\ pos'[u] = pos[u]
      /\ \/ pc'[t] = "encode" /\ pos'[t] = pos[t] + 1 /\ pos[t] + 1 < N
         \/ pc'[t] = "fetch" /\ ~ (pos[t] + 1 < N)
  BY DEF EncodeRow, TeamInv, TypeOK
<1>3. TypeOK'
  <2>1. Next
    BY DEF Next, ThreadStep
  <2> QED
    BY <2>1, TypeStep DEF TeamInv
<1>4. /\ \A c \in Chunks : Waiting(c)' <=> Waiting(c)
      /\ \A u \in Team : Busy(u)' => Busy(u)
      /\ \A u \in Team : u # t => (Busy(u)' <=> Busy(u))
      /\ Busy(t) /\ (Busy(t)' <=> pc'[t] = "encode")
  BY <1>1, <1>2 DEF Waiting, Busy
<1>5. HandedOnce' /\ ReturnedLast'
  BY <1>1, <1>2 DEF TeamInv, HandedOnce, ReturnedLast
<1>6. HeldOnce'
  BY <1>1, <1>4 DEF TeamInv, HeldOnce
<1>7. PointersOwn'
  <2>1. pc'[t] = "encode" => pos'[t] \in OutRows
    BY <1>1, <1>2, TeamAssumption DEF OutRows
  <2>2. pc'[t] # "point"
    BY <1>2
  <2> QED
    BY <1>1, <1>2, <2>1, <2>2 DEF TeamInv, PointersOwn
<1>8. ~ Waiting(cur[t]) /\ \A u \in Team \ {t} : Busy(u) => cur[u] # cur[t]
  BY <1>4 DEF TeamInv, HeldOnce
<1>9. RowsComputed'
  <2> SUFFICES ASSUME NEW r \in OutRows, NEW d \in Chunks
               PROVE  /\ Waiting(d)' => out'[r][d] = "blank"
                      /\ ~ Waiting(d)' /\ (\A u \in Team : Busy(u)' => cur'[u] # d)
                           => out'[r][d] = "good"
                      /\ \A u \in Team : cur'[u] = d =>
                           /\ pc'[u] = "point" => out'[r][d] = "blank"
                           /\ pc'[u] = "encode" =>
                                out'[r][d] = IF r < pos'[u] THEN "good" ELSE "blank"
    BY DEF RowsComputed
  <2>1. CASE d # cur[t]
    <3>1. out'[r][d] = out[r][d]
      BY <1>1, <2>1
    <3>2. (\A u \in Team : Busy(u)' => cur'[u] # d) => \A u \in Team : Busy(u) => cur[u] # d
      BY <1>1, <1>4, <2>1
    <3>3. \A u \in Team : cur'[u] = d => u # t
      BY <1>1, <2>1
    <3>4. \A u \in Team : cur'[u] = d =>
            /\ pc'[u] = "point" => out'[r][d] = "blank"
            /\ pc'[u] = "encode" => out'[r][d] = IF r < pos'[u] THEN "good" ELSE "blank"
      BY <1>1, <1>2, <3>1, <3>3 DEF TeamInv, RowsComputed
    <3>5. /\ Waiting(d)' => out'[r][d] = "blank"
          /\ ~ Waiting(d)' /\ (\A u \in Team : Busy(u)' => cur'[u] # d)
               => out'[r][d] = "good"
      BY <1>4, <3>1, <3>2 DEF TeamInv, RowsComputed
    <3> QED
      BY <3>4, <3>5
  <2>2. CASE d = cur[t]
    <3>1. out[r][d] = IF r < pos[t] THEN "good" ELSE "blank"
      BY <1>1, <2>2 DEF TeamInv, RowsComputed
    <3>2. out'[r][d] = IF r < pos[t] + 1 THEN "good" ELSE "blank"
      BY <1>1, <2>2, <3>1, TeamAssumption DEF OutRows
    <3>3. pc'[t] = "fetch" => out'[r][d] = "good"
      BY <1>1, <1>2, <3>2, TeamAssumption DEF OutRows
    <3>4. \A u \in Team : cur'[u] = d =>
            /\ pc'[u] = "point" => out'[r][d] = "blank"
            /\ pc'[u] = "encode" => out'[r][d] = IF r < pos'[u] THEN "good" ELSE "blank"
      <4> SUFFICES ASSUME NEW u \in Team, cur'[u] = d
                   PROVE  /\ pc'[u] = "point" => out'[r][d] = "blank"
                          /\ pc'[u] = "encode" =>
                               out'[r][d] = IF r < pos'[u] THEN "good" ELSE "blank"
        OBVIOUS
      <4>1. CASE u = t
        BY <1>2, <3>2, <4>1
      <4>2. CASE u # t
        BY <1>1, <1>2, <1>4, <1>8, <2>2, <4>2 DEF Busy
      <4> QED
        BY <4>1, <4>2
    <3>5. (\A u \in Team : Busy(u)' => cur'[u] # d) => pc'[t] = "fetch"
      BY <1>1, <1>2, <1>4, <2>2
    <3> QED
      BY <1>4, <1>8, <2>2, <3>3, <3>4, <3>5
  <2> QED
    BY <2>1, <2>2
<1> QED
  BY <1>3, <1>5, <1>6, <1>7, <1>9 DEF TeamInv

LEMMA JoinKeeps ==
  ASSUME TeamInv, Join
  PROVE  /\ TeamInv'
         /\ UNCHANGED out /\ returned' = TRUE
         /\ \A r \in OutRows, c \in Chunks : out[r][c] = "good"
<1>1. /\ UNCHANGED <<schedule, next, todo, pc, cur, pos, frag_ptrs, out>>
      /\ returned' = TRUE
      /\ \A t \in Team : pc[t] = "done"
  BY DEF Join
<1>2. TypeOK'
  <2>1. Next
    BY DEF Next
  <2> QED
    BY <2>1, TypeStep DEF TeamInv
<1>3. /\ \A t \in Team : ~ Busy(t)
      /\ \A t \in Team : Busy(t)' <=> Busy(t)
      /\ \A c \in Chunks : Waiting(c)' <=> Waiting(c)
  BY <1>1 DEF Busy, Waiting
<1>4. /\ HandedOnce' /\ PointersOwn' /\ ReturnedLast'
      /\ HeldOnce'
  BY <1>1, <1>3 DEF TeamInv, HandedOnce, PointersOwn, ReturnedLast, HeldOnce
<1>5. RowsComputed'
  BY <1>1, <1>3 DEF TeamInv, RowsComputed
<1>6. \A c \in Chunks : ~ Waiting(c)
  <2>1. 0 \in Team
    BY TeamAssumption DEF Team
  <2>2. schedule = "dynamic" => next >= NumChunks
    BY <1>1, <2>1 DEF TeamInv, HandedOnce
  <2>3. \A t \in Team : todo[t] = {}
    BY <1>1 DEF TeamInv, HandedOnce
  <2> QED
    BY <2>2, <2>3, TeamAssumption DEF Waiting, Chunks, TeamInv, TypeOK
<1>7. \A r \in OutRows, c \in Chunks : out[r][c] = "good"
  BY <1>3, <1>6 DEF TeamInv, RowsComputed
<1> QED
  BY <1>1, <1>2, <1>4, <1>5, <1>7 DEF TeamInv

LEMMA TeamStep ==
  ASSUME PrivateArrays, TeamInv, [Next]_vars
  PROVE  TeamInv'
<1>1. CASE UNCHANGED vars
  BY <1>1 DEF vars, TeamInv, TypeOK, HandedOnce, HeldOnce, PointersOwn, RowsComputed,
              ReturnedLast, Busy, Waiting
<1>2. CASE Join
  BY <1>2, JoinKeeps
<1>3. ASSUME NEW t \in Team, ThreadStep(t)
      PROVE  TeamInv'
  BY <1>3, TakeKeeps, FinishKeeps, SetPointerKeeps, EncodeRowKeeps DEF ThreadStep
<1> QED
  BY <1>1, <1>2, <1>3 DEF Next

-----------------------------------------------------------------------------
(* With an array of its own for every thread, a thread inside              *)
(* ec_encode_data has its chunk to itself and every pointer in it.         *)
THEOREM ExclusiveChunks == PrivateArrays => (Spec => []ChunkExclusive)
<1> SUFFICES ASSUME PrivateArrays
             PROVE  Spec => []ChunkExclusive
  OBVIOUS
<1>1. TeamInv => ChunkExclusive
  BY DEF TeamInv, ChunkExclusive, HeldOnce, PointersOwn, Busy, ArrayOf, PrivateArrays
<1> QED
  BY <1>1, TeamInit, TeamStep, PTL DEF Spec

(* Every step of the team is a step of the abstract call or changes        *)
(* nothing the call shows.                                                 *)
LEMMA StepRefinesCall ==
  ASSUME PrivateArrays, TeamInv, [Next]_vars
  PROVE  [Call!Next]_<<{ rc \in OutRows \X Chunks : out[rc[1]][rc[2]] = "good" }, returned>>
<1> DEFINE Computed == { rc \in OutRows \X Chunks : out[rc[1]][rc[2]] = "good" }
<1>1. ASSUME UNCHANGED <<out, returned>>
      PROVE  UNCHANGED <<Computed, returned>>
  BY <1>1
<1>2. CASE UNCHANGED vars
  BY <1>1, <1>2 DEF vars
<1>3. CASE Join
  <2>1. Computed = OutRows \X Chunks /\ Computed' = Computed /\ returned' = TRUE
    BY <1>3, JoinKeeps
  <2> QED
    BY <2>1 DEF Call!Next, Call!Return
<1>4. ASSUME NEW t \in Team, ThreadStep(t), ~ EncodeRow(t)
      PROVE  UNCHANGED <<out, returned>>
  BY <1>4, TakeKeeps, FinishKeeps, SetPointerKeeps DEF ThreadStep
<1>5. ASSUME NEW t \in Team, EncodeRow(t)
      PROVE  \E r \in OutRows, c \in Chunks : Call!Compute(r, c)
  <2>1. /\ pc[t] = "encode" /\ pos[t] \in OutRows /\ cur[t] \in Chunks
        /\ out[pos[t]][cur[t]] = "blank"
        /\ \A r \in OutRows, c \in Chunks :
             out'[r][c] = IF r = pos[t] /\ c = cur[t] THEN "good" ELSE out[r][c]
        /\ UNCHANGED returned
    BY <1>5, RowComputed
  <2>2. <<pos[t], cur[t]>> \in OutRows \X Chunks /\ <<pos[t], cur[t]>> \notin Computed
    BY <2>1
  <2>3. Computed' = Computed \cup {<<pos[t], cur[t]>>}
    BY <2>1
  <2>4. ~ returned
    BY <2>1 DEF TeamInv, ReturnedLast
  <2> HIDE DEF Computed
  <2>5. \E r \in OutRows, c \in Chunks :
          /\ ~ returned
          /\ <<r, c>> \notin Computed
          /\ Computed' = Computed \cup {<<r, c>>}
          /\ UNCHANGED returned
    BY <2>1, <2>2, <2>3, <2>4
  <2> QED
    BY <2>5 DEF Call!Compute, Computed
<1> QED
  BY <1>1, <1>2, <1>3, <1>4, <1>5 DEF Next, Call!Next

(* With an array of its own for every thread, any team under either        *)
(* schedule computes each row of each chunk from its own bytes, all of     *)
(* them before the call returns, and no row a second time.                 *)
THEOREM TeamImplementsCall == PrivateArrays => (Spec => ImplementsCall)
<1> SUFFICES ASSUME PrivateArrays
             PROVE  Spec => ImplementsCall
  OBVIOUS
<1>1. Init => Call!Init
  BY DEF Init, Call!Init
<1> QED
  BY <1>1, TeamInit, TeamStep, StepRefinesCall, PTL DEF Spec, ImplementsCall, Call!Spec

=============================================================================
