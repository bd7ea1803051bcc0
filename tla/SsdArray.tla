----------------------------- MODULE SsdArray -----------------------------
(***************************************************************************)
(* parallel_write_ssd and parallel_read_ssd of src/IsaEC.cpp: the strips   *)
(* of a stripe go to fixed regions of three devices, one thread of a team  *)
(* for each strip.  write_ssd and read_ssd report failure to open the      *)
(* device and failure of the transfer, do not look at short transfers, and *)
(* their callers drop the result: the calls always return true.            *)
(*                                                                         *)
(* Offsets and sizes count blocks of the caller's transfers.  A block      *)
(* holds <<s, v>> after strip s of the data version v was written there.   *)
(***************************************************************************)
EXTENDS Stripe

CONSTANTS
  strip_offset,  \* distance of two regions on a device (10 GiB)
  Capacity,      \* size of a device
  Calls,         \* the <<offset, size>> of the callers
  Versions,      \* data the callers write
  Blank          \* content of a block never written

Content == (Strips \X Versions) \cup {Blank}

(* Callers stay within the region of a strip. *)
ASSUME ArrayAssumption ==
  /\ K \in Nat \ {0}
  /\ N \in Nat
  /\ strip_offset \in Nat \ {0}
  /\ Capacity \in Nat
  /\ \A c \in Calls : /\ c \in Nat \X Nat
                      /\ c[1] + c[2] <= strip_offset

Devices   == {"ssd1", "ssd2", "ssd3"}
Addresses == 0 .. Capacity - 1
Positions == 0 .. strip_offset - 1

VARIABLES
  disk,       \* device -> address -> content
  matrix,     \* the caller's buffers for reading
  op,         \* call in progress: "idle", "write" or "read"
  offset, size, version,  \* its arguments; in and out hold that version
  todo,       \* strips whose iteration has not run yet
  incomplete  \* strips whose transfer failed or was short in the last call

args == <<offset, size, version>>
vars == <<disk, matrix, op, args, todo, incomplete>>

(* Variant: the first device takes the larger half. *)
WriteDevice_round(i) ==
  IF i < (K + 1) \div 2 THEN "ssd1" ELSE IF i < K THEN "ssd2" ELSE "ssd3"

(* Variant: the second device is counted on from the first. *)
WriteStart_through(i) == strip_offset * (IF i < K THEN i ELSE i - K)

(* Device of strip i and where its region starts, in parallel_write_ssd... *)
WriteDevice(i) == IF i < K \div 2 THEN "ssd1" ELSE IF i < K THEN "ssd2" ELSE "ssd3"
WriteStart(i)  == strip_offset * (IF i < K \div 2 THEN i
                                  ELSE IF i < K THEN i - K \div 2 ELSE i - K)

(* ... and in parallel_read_ssd, which repeats the computation. *)
ReadDevice(i) == IF i < K \div 2 THEN "ssd1" ELSE IF i < K THEN "ssd2" ELSE "ssd3"
ReadStart(i)  == strip_offset * (IF i < K \div 2 THEN i
                                 ELSE IF i < K THEN i - K \div 2 ELSE i - K)

Init ==
  /\ disk = [d \in Devices |-> [a \in Addresses |-> Blank]]
  /\ matrix = [s \in Strips |-> [p \in Positions |-> Blank]]
  /\ op = "idle"
  /\ offset = 0
  /\ size = 0
  /\ version \in Versions
  /\ todo = {}
  /\ incomplete = {}

(* Variant: the loop condition is i <= k + n. *)
Start_inclusive(call) ==
  /\ op = "idle"
  /\ op' = call
  /\ \E c \in Calls : offset' = c[1] /\ size' = c[2]
  /\ todo' = 0 .. K + N
  /\ incomplete' = {}
  /\ UNCHANGED <<disk, matrix>>

(* The loop over the strips begins. *)
Start(call) ==
  /\ op = "idle"
  /\ op' = call
  /\ \E c \in Calls : offset' = c[1] /\ size' = c[2]
  /\ todo' = Strips
  /\ incomplete' = {}
  /\ UNCHANGED <<disk, matrix>>

parallel_write_ssd == Start("write") /\ version' \in Versions
parallel_read_ssd  == Start("read")  /\ UNCHANGED version

(* One iteration is done: len blocks of strip s were transferred, none if  *)
(* the device did not open or the transfer failed.                         *)
Transferred(s, start, len) ==
  /\ s \in todo
  /\ todo' = todo \ {s}
  /\ len > 0 => start + offset + len <= Capacity
  /\ incomplete' = IF len < size THEN incomplete \cup {s} ELSE incomplete
  /\ UNCHANGED <<op, args>>

(* pwrite(fd, in[s] or out[s - k], size, ...) wrote len blocks. *)
pwrite(s, len) ==
  LET from == WriteStart(s) + offset
  IN  disk' = [disk EXCEPT ![WriteDevice(s)] = [a \in Addresses |->
                 IF a \in from .. from + len - 1 THEN <<s, version>> ELSE @[a]]]

write_ssd(s) ==
  /\ op = "write"
  /\ \E len \in 0 .. size : Transferred(s, WriteStart(s), len) /\ pwrite(s, len)
  /\ UNCHANGED matrix

(* pread(fd, matrix[s], size, ...) read len blocks. *)
pread(s, len) ==
  matrix' = [matrix EXCEPT ![s] = [p \in Positions |->
               IF p \in offset .. offset + len - 1
               THEN disk[ReadDevice(s)][ReadStart(s) + p] ELSE @[p]]]

read_ssd(s) ==
  /\ op = "read"
  /\ \E len \in 0 .. size : Transferred(s, ReadStart(s), len) /\ pread(s, len)
  /\ UNCHANGED disk

(* All iterations are done; the result is true whatever became of them. *)
Return ==
  /\ op # "idle"
  /\ todo = {}
  /\ op' = "idle"
  /\ UNCHANGED <<disk, matrix, args, todo, incomplete>>

Next == \/ parallel_write_ssd
        \/ parallel_read_ssd
        \/ \E s \in Strips : write_ssd(s) \/ read_ssd(s)
        \/ Return

Spec == Init /\ [][Next]_vars

-----------------------------------------------------------------------------
TypeOK ==
  /\ disk \in [Devices -> [Addresses -> Content]]
  /\ matrix \in [Strips -> [Positions -> Content]]
  /\ op \in {"idle", "write", "read"}
  /\ offset \in Nat
  /\ size \in Nat
  /\ offset + size <= strip_offset
  /\ version \in Versions
  /\ todo \subseteq Strips
  /\ incomplete \subseteq Strips

(* A strip whose write was complete is on its device, whatever the threads *)
(* of the other strips have written since: the regions of a stripe never   *)
(* overlap, with an odd number of data strips, several strips on a device  *)
(* and devices too small for the last of them.                             *)
WriteLands ==
  op = "write" =>
    \A s \in Strips \ (todo \cup incomplete) :
      \A p \in offset .. offset + size - 1 :
        disk[WriteDevice(s)][WriteStart(s) + p] = <<s, version>>

(* The calls give every strip storage of its own, although strips share    *)
(* devices and reading and writing each compute the place of a strip: a    *)
(* write changes no other strip and no block outside its range, and a read *)
(* finds what was written.                                                 *)
Stored(s, p) == IF ReadStart(s) + p < Capacity
                THEN disk[ReadDevice(s)][ReadStart(s) + p]
                ELSE Blank

Store == INSTANCE StripStore WITH
           Size <- strip_offset,
           strip <- [s \in Strips |-> [p \in Positions |-> Stored(s, p)]]

ImplementsStripStore == Store!Spec
=============================================================================
