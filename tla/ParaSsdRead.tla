---------------------------- MODULE ParaSsdRead ----------------------------
(***************************************************************************)
(* The SSD program test/para_ssd_read.cpp: main encodes blocks of          *)
(* parallel_size bytes in one OpenMP section while the other writes them   *)
(* to the devices, then reads every strip back and compares it with        *)
(* memory, erases strips, reads the devices again, decodes and compares.   *)
(*                                                                         *)
(* The writer's  while (write_offset < encode_offset) continue;  is a race *)
(* on plain variables with an empty body.  The project builds with -O3:    *)
(* compilers that may assume loops to end (GCC 10 and later, Clang) drop   *)
(* the loop, older ones test its condition once and then spin for ever.    *)
(***************************************************************************)
EXTENDS Stripe, FiniteSets

CONSTANTS
  NumBlocks,  \* len / parallel_size
  Teams,      \* threads the sections may get: one each (2), or 1 for both
  Builds,     \* what compilers make of the waiting loop
  MaxFaults   \* bound on failed or short device calls

ASSUME PipelineAssumption == /\ K \in Nat \ {0}
                             /\ N \in Nat \ {0}
                             /\ NumBlocks \in Nat \ {0}
                             /\ Teams \subseteq {1, 2}
                             /\ Builds \subseteq {"elided", "tested_once"}
                             /\ MaxFaults \in Nat

Data   == 0 .. K - 1
Blocks == 0 .. NumBlocks - 1

(* Content of a block of a strip: the codeword's bytes, part of them, or   *)
(* none of them.                                                           *)
BlockContent == {"good", "torn", "blank"}

VARIABLES
  threads, loop,  \* team and build of this run
  encode_offset, write_offset,  \* in blocks; shared by the two sections
  encoder,   \* first section:  "test", "encode" or "done"
  writer,    \* second section: "test", "wait", "spin", "write" or "done"
  unwritten, \* strips of the block still to be handed to pwrite
  mem,       \* in and out: content of every block of every strip
  regions,   \* the strips' regions on the devices
  wrong,     \* a block was handed to pwrite before it was encoded
  phase,     \* main: "pipeline", "read", "check", ... "exit"
  read_matrix, \* read_matrix, later matrix: the strips read back
  unread,    \* strips of the current parallel_read_ssd still to be read
  err_list,  \* the erased strips
  result,    \* "none" until main returns: "success" or "failure"
  faults     \* device calls that failed or were short so far

pipeline == <<encode_offset, write_offset, encoder, writer, unwritten, wrong>>
env      == <<threads, loop>>
check    == <<phase, read_matrix, unread, err_list, result>>
programVars ==
  <<threads, loop, encode_offset, write_offset, encoder, writer, unwritten, mem, regions, wrong, phase,
    read_matrix, unread, err_list, result, faults>>

ProgramInit ==
  /\ threads \in Teams
  /\ loop \in Builds
  /\ encode_offset = 0
  /\ write_offset = 0
  /\ encoder = "test"
  /\ writer = "test"
  /\ unwritten = {}
  /\ mem = [s \in Strips |-> [b \in Blocks |->
              IF s \in Data THEN "good" ELSE "blank"]]
  /\ regions = [s \in Strips |-> [b \in Blocks |-> "blank"]]
  /\ wrong = FALSE
  /\ phase = "pipeline"
  /\ read_matrix = [s \in Strips |-> [b \in Blocks |-> "blank"]]
  /\ unread = {}
  /\ err_list = {}
  /\ result = "none"
  /\ faults = 0

-----------------------------------------------------------------------------
(* Variant: the offset is published when encode_ptr is called. *)
EncodeTest_publishfirst ==
  /\ encoder = "test"
  /\ IF encode_offset < NumBlocks
     THEN /\ encoder' = "encode"
          /\ encode_offset' = encode_offset + 1
          /\ UNCHANGED mem
     ELSE /\ encoder' = "done"
          /\ UNCHANGED <<mem, encode_offset>>
  /\ UNCHANGED <<write_offset, writer, unwritten, regions, wrong, check, faults>>

(* Variant: the loop condition is encode_offset <= len. *)
EncodeTest_inclusive ==
  /\ encoder = "test"
  /\ IF encode_offset <= NumBlocks
     THEN /\ encoder' = "encode"
          /\ mem' = [s \in Strips |->
                       IF s \in Data THEN mem[s]
                       ELSE [mem[s] EXCEPT ![encode_offset] = "torn"]]
     ELSE /\ encoder' = "done"
          /\ UNCHANGED mem
  /\ UNCHANGED <<encode_offset, write_offset, writer, unwritten, regions, wrong,
                 check, faults>>

(* First section: while (encode_offset < len) *)
EncodeTest ==
  /\ encoder = "test"
  /\ IF encode_offset < NumBlocks
     THEN /\ encoder' = "encode"
          /\ mem' = [s \in Strips |->
                       IF s \in Data THEN mem[s]
                       ELSE [mem[s] EXCEPT ![encode_offset] = "torn"]]
     ELSE /\ encoder' = "done"
          /\ UNCHANGED mem
  /\ UNCHANGED <<encode_offset, write_offset, writer, unwritten, regions, wrong,
                 check, faults>>

(* encode_ptr returns: its block is encoded, then the offset is published. *)
EncodeReturn ==
  /\ encoder = "encode"
  /\ mem' = [s \in Strips |-> [mem[s] EXCEPT ![encode_offset] = "good"]]
  /\ encode_offset' = encode_offset + 1
  /\ encoder' = "test"
  /\ UNCHANGED <<write_offset, writer, unwritten, regions, wrong, check, faults>>

(* Variant: a single thread may run the second section first. *)
WriteTest_anyorder ==
  /\ writer = "test"
  /\ writer' = IF write_offset < NumBlocks THEN "wait" ELSE "done"
  /\ UNCHANGED <<encode_offset, write_offset, encoder, unwritten, mem, regions,
                 wrong, check, faults>>

(* Second section: while (write_offset < len).  A single thread comes here *)
(* after the first section.                                                *)
WriteTest ==
  /\ writer = "test"
  /\ threads = 2 \/ encoder = "done"
  /\ writer' = IF write_offset < NumBlocks THEN "wait" ELSE "done"
  /\ UNCHANGED <<encode_offset, write_offset, encoder, unwritten, mem, regions,
                 wrong, check, faults>>

(* The waiting loop: once its condition was seen true, it never ends. *)
WriteWait ==
  /\ writer = "wait"
  /\ IF loop = "tested_once" /\ write_offset < encode_offset
     THEN writer' = "spin" /\ UNCHANGED unwritten
     ELSE writer' = "write" /\ unwritten' = Strips
  /\ UNCHANGED <<encode_offset, write_offset, encoder, mem, regions, wrong,
                 check, faults>>

(* Variant: every block goes to the start of the strip's region. *)
WriteStrip_nooffset(s) ==
  /\ writer = "write"
  /\ s \in unwritten
  /\ regions' = [regions EXCEPT ![s][0] = mem[s][write_offset]]
  /\ wrong' = (wrong \/ mem[s][write_offset] # "good")
  /\ unwritten' = unwritten \ {s}
  /\ UNCHANGED <<encode_offset, write_offset, encoder, writer, mem, check,
                 faults>>

(* One thread of parallel_write_ssd hands its strip to pwrite.             *)
WriteStrip(s) ==
  /\ writer = "write"
  /\ s \in unwritten
  /\ regions' = [regions EXCEPT ![s][write_offset] = mem[s][write_offset]]
  /\ wrong' = (wrong \/ mem[s][write_offset] # "good")
  /\ unwritten' = unwritten \ {s}
  /\ UNCHANGED <<encode_offset, write_offset, encoder, writer, mem, check,
                 faults>>

(* open or pwrite fails, or pwrite is short: write_ssd's result is ignored *)
(* by parallel_write_ssd.                                                  *)
WriteFails(s) ==
  /\ faults < MaxFaults
  /\ faults' = faults + 1
  /\ writer = "write"
  /\ s \in unwritten
  /\ unwritten' = unwritten \ {s}
  /\ \/ UNCHANGED regions
     \/ regions' = [regions EXCEPT ![s][write_offset] = "torn"]
  /\ UNCHANGED <<encode_offset, write_offset, encoder, writer, mem, wrong, check>>

(* Variant: once a device call has failed, the offset no longer advances. *)
WriteReturn_sticky ==
  /\ writer = "write"
  /\ unwritten = {}
  /\ write_offset' = IF faults = 0 THEN write_offset + 1 ELSE write_offset
  /\ writer' = "test"
  /\ UNCHANGED <<encode_offset, encoder, unwritten, mem, regions, wrong, check,
                 faults>>

(* parallel_write_ssd returns, write_offset += iter_len. *)
WriteReturn ==
  /\ writer = "write"
  /\ unwritten = {}
  /\ write_offset' = write_offset + 1
  /\ writer' = "test"
  /\ UNCHANGED <<encode_offset, encoder, unwritten, mem, regions, wrong, check,
                 faults>>

-----------------------------------------------------------------------------
(* main after the sections: it reads every strip back. *)
SectionsJoin ==
  /\ phase = "pipeline"
  /\ encoder = "done"
  /\ writer = "done"
  /\ phase' = "read"
  /\ unread' = Strips
  /\ UNCHANGED <<pipeline, mem, regions, read_matrix, err_list, result, faults>>

(* read_ssd of a strip, in main's loop or in a thread of parallel_read_ssd. *)
ReadStrip(s) ==
  /\ phase \in {"read", "reread"}
  /\ s \in unread
  /\ unread' = unread \ {s}
  /\ read_matrix' = [read_matrix EXCEPT ![s] = regions[s]]
  /\ UNCHANGED <<pipeline, mem, regions, phase, err_list, result, faults>>

(* open or pread fails (cut = 0), or pread is short: both go unnoticed.    *)
ReadFails(s) ==
  /\ faults < MaxFaults
  /\ faults' = faults + 1
  /\ phase \in {"read", "reread"}
  /\ s \in unread
  /\ unread' = unread \ {s}
  /\ \E cut \in Blocks :
       read_matrix' = [read_matrix EXCEPT ![s] =
                    [b \in Blocks |-> IF b < cut THEN regions[s][b] ELSE @[b]]]
  /\ UNCHANGED <<pipeline, mem, regions, phase, err_list, result>>

(* Variant: only the data strips are compared. *)
CompareRead_dataonly ==
  /\ phase = "read"
  /\ unread = {}
  /\ IF \A s \in Data : read_matrix[s] = mem[s]
     THEN phase' = "erase" /\ UNCHANGED result
     ELSE phase' = "exit" /\ result' = "failure"
  /\ UNCHANGED <<pipeline, mem, regions, read_matrix, unread, err_list, faults>>

(* memcmp of every strip read back with in and out: "read error". *)
CompareRead ==
  /\ phase = "read"
  /\ unread = {}
  /\ IF read_matrix = mem
     THEN phase' = "erase" /\ UNCHANGED result
     ELSE phase' = "exit" /\ result' = "failure"
  /\ UNCHANGED <<pipeline, mem, regions, read_matrix, unread, err_list, faults>>

(* The strips are copied and n of them, repeats included, overwritten;     *)
(* parallel_read_ssd then reads all strips into the same buffers.          *)
Erase ==
  /\ phase = "erase"
  /\ \E E \in SUBSET Strips :
       /\ Cardinality(E) \in 1 .. N
       /\ err_list' = E
       /\ read_matrix' = [s \in Strips |-> IF s \in E THEN [b \in Blocks |-> "blank"]
                                      ELSE mem[s]]
  /\ phase' = "reread"
  /\ unread' = Strips
  /\ UNCHANGED <<pipeline, mem, regions, result, faults>>

(* decode_index: the first k strips that are not erased. *)
Survivors ==
  { s \in Strips \ err_list :
      Cardinality({ t \in Strips \ err_list : t < s }) < K }

(* decode_ptr rebuilds the erased strips from the survivors. *)
Decode ==
  /\ phase = "reread"
  /\ unread = {}
  /\ read_matrix' = [s \in Strips |->
       IF s \in err_list
       THEN [b \in Blocks |-> IF \A t \in Survivors : read_matrix[t][b] = "good"
                              THEN "good" ELSE "torn"]
       ELSE read_matrix[s]]
  /\ phase' = "verify"
  /\ UNCHANGED <<pipeline, mem, regions, unread, err_list, result, faults>>

(* memcmp of the erased strips with in and out: "decode error" or success. *)
CompareDecoded ==
  /\ phase = "verify"
  /\ phase' = "exit"
  /\ result' = IF \A s \in err_list : read_matrix[s] = mem[s]
               THEN "success" ELSE "failure"
  /\ UNCHANGED <<pipeline, mem, regions, read_matrix, unread, err_list, faults>>

-----------------------------------------------------------------------------
Encoder == /\ EncodeTest \/ EncodeReturn
           /\ UNCHANGED env
Writer  == /\ \/ WriteTest \/ WriteWait \/ WriteReturn
              \/ \E s \in Strips : WriteStrip(s) \/ WriteFails(s)
           /\ UNCHANGED env
Main    == /\ \/ SectionsJoin \/ CompareRead \/ Erase \/ Decode \/ CompareDecoded
              \/ \E s \in Strips : ReadStrip(s) \/ ReadFails(s)
           /\ UNCHANGED env

ProgramNext == Encoder \/ Writer \/ Main

(* Each section is run by a thread of the team, main goes on after them. *)
ProgramSpec == /\ ProgramInit /\ [][ProgramNext]_programVars
               /\ WF_programVars(Encoder) /\ WF_programVars(Writer) /\ WF_programVars(Main)

-----------------------------------------------------------------------------
ProgramTypeOK ==
  /\ threads \in Teams
  /\ loop \in Builds
  /\ encode_offset \in 0 .. NumBlocks
  /\ write_offset \in 0 .. NumBlocks
  /\ encoder \in {"test", "encode", "done"}
  /\ writer \in {"test", "wait", "spin", "write", "done"}
  /\ unwritten \subseteq Strips
  /\ mem \in [Strips -> [Blocks -> BlockContent]]
  /\ regions \in [Strips -> [Blocks -> BlockContent]]
  /\ read_matrix \in [Strips -> [Blocks -> BlockContent]]
  /\ wrong \in BOOLEAN
  /\ phase \in {"pipeline", "read", "erase", "reread", "verify", "exit"}
  /\ unread \subseteq Strips
  /\ err_list \subseteq Strips
  /\ result \in {"none", "success", "failure"}
  /\ faults \in 0 .. MaxFaults

(* encode_offset, the only thing the encoder tells the writer, never runs  *)
(* ahead of the parity in memory.                                          *)
PublishedIsEncoded ==
  \A s \in Strips, b \in Blocks : b < encode_offset => mem[s][b] = "good"

(* When main returns 0 the devices hold the whole codeword, however the    *)
(* sections raced and whatever device calls failed unnoticed.              *)
VerdictSound ==
  result = "success" => \A s \in Strips, b \in Blocks : regions[s][b] = "good"

(* Without device faults every strip is read back EQUAL, as in the output  *)
(* README.md shows: main does not return an error.                         *)
NoErrorWithoutFault == faults = 0 => result # "failure"

(* When one thread runs both sections, no block is handed to pwrite before *)
(* all its strips are encoded ...                                          *)
InOrderWritesEncoded == threads = 1 => ~ wrong

(* ... and without device faults the program finds no error: each block    *)
(* went to its own place, and decoding rebuilds what was erased.           *)
InOrderNoError == threads = 1 => NoErrorWithoutFault

(* The program ends where the waiting loop is dropped: both sections get   *)
(* through all blocks, whatever device calls fail.  (A build that tests    *)
(* the loop's condition once hangs in "spin".)                             *)
Terminates == loop = "elided" => <>(phase = "exit")
=============================================================================
