------------------------------ MODULE SsdProofs ------------------------------
(***************************************************************************)
(* Proofs about the SSD functions (SsdArray), for every number of strips,  *)
(* every size of region and device, and every sequence of calls that stay  *)
(* within the regions.  Then proofs about the SSD program (ParaSsdRead),   *)
(* for any number of strips, blocks and device faults, both builds of the  *)
(* waiting loop and either team:                                           *)
(*   - the encoder publishes nothing before it is encoded;                 *)
(*   - a run that returns 0 has the whole codeword on its devices;         *)
(*   - one thread that runs both sections writes only what is encoded and, *)
(*     when no device call fails, finds no error.                          *)
(* The two share nothing but the numbering of the strips.                  *)
(***************************************************************************)
EXTENDS SsdArray, ParaSsdRead, TLAPS

(* Reading and writing compute the same place. *)
LEMMA SamePlace ==
  ASSUME NEW i \in Strips
  PROVE  /\ ReadDevice(i) = WriteDevice(i)
         /\ ReadStart(i) = WriteStart(i)
BY DEF ReadDevice, WriteDevice, ReadStart, WriteStart

(* The half of the data strips is a number of strips. *)
LEMMA HalfNat == K \div 2 \in Nat /\ K \div 2 <= K
BY ArrayAssumption DEF ArrayAssumption

(* Which slot of its device a strip has. *)
Slot(i) == IF i < K \div 2 THEN i ELSE IF i < K THEN i - K \div 2 ELSE i - K

LEMMA SlotNat ==
  ASSUME NEW i \in Strips
  PROVE  Slot(i) \in Nat /\ WriteStart(i) = strip_offset * Slot(i)
BY HalfNat, ArrayAssumption DEF ArrayAssumption, Slot, Strips, WriteStart

(* No two strips have the same slot of the same device. *)
LEMMA SlotsDiffer ==
  ASSUME NEW i \in Strips, NEW j \in Strips, i # j,
         WriteDevice(i) = WriteDevice(j)
  PROVE  Slot(i) # Slot(j)
BY HalfNat, ArrayAssumption DEF ArrayAssumption, Slot, Strips, WriteDevice

(* Positions in different slots are at different addresses. *)
LEMMA SlotsApart ==
  ASSUME NEW d \in Nat, NEW x \in Nat, NEW y \in Nat,
         NEW p \in 0 .. d - 1, NEW q \in 0 .. d - 1, x # y
  PROVE  d * x + p # d * y + q
<1>1. ASSUME NEW u \in Nat, NEW v \in Nat, u < v
      PROVE  d * u + d <= d * v
  <2>1. PICK w \in Nat : v = u + 1 + w
    <3>1. v - u - 1 \in Nat /\ v = u + 1 + (v - u - 1)
      BY <1>1
    <3> QED
      BY <3>1
  <2>2. d * (u + 1 + w) = d * u + d + d * w
    OBVIOUS
  <2>3. d * w >= 0 /\ d * w \in Int /\ d * u \in Int
    OBVIOUS
  <2> QED
    BY <2>1, <2>2, <2>3
<1>2. d * x \in Int /\ d * y \in Int
  OBVIOUS
<1>3. CASE x < y
  BY <1>1, <1>2, <1>3
<1>4. CASE y < x
  BY <1>1, <1>2, <1>4
<1> QED
  BY <1>3, <1>4

(* The regions of a stripe never overlap, however many strips share a      *)
(* device (parallel_write_ssd).                                            *)
THEOREM RegionsDisjoint ==
  ASSUME NEW i \in Strips, NEW j \in Strips, i # j,
         WriteDevice(i) = WriteDevice(j),
         NEW p \in Positions, NEW q \in Positions
  PROVE  WriteStart(i) + p # WriteStart(j) + q
<1>1. Slot(i) \in Nat /\ Slot(j) \in Nat /\ Slot(i) # Slot(j)
  BY SlotNat, SlotsDiffer
<1>2. strip_offset * Slot(i) + p # strip_offset * Slot(j) + q
  BY <1>1, SlotsApart, ArrayAssumption DEF ArrayAssumption, Positions
<1> QED
  BY <1>2, SlotNat

-----------------------------------------------------------------------------
(* A complete write of at least one block fitted the device: without this  *)
(* WriteLands would speak of addresses that do not exist.                  *)
WrittenFits ==
  op = "write" /\ size > 0 =>
    \A s \in Strips \ (todo \cup incomplete) :
      WriteStart(s) + offset + size <= Capacity

IInv == TypeOK /\ WriteLands /\ WrittenFits

LEMMA DeviceType == \A i \in Strips : /\ WriteDevice(i) \in Devices
                                      /\ WriteStart(i) \in Nat
<1>1. ASSUME NEW i \in Strips PROVE WriteDevice(i) \in Devices
  BY DEF WriteDevice, Devices
<1>2. ASSUME NEW i \in Strips PROVE WriteStart(i) \in Nat
  <2>1. strip_offset * Slot(i) \in Nat
    BY SlotNat, ArrayAssumption DEF ArrayAssumption
  <2> QED
    BY <2>1, SlotNat
<1> QED
  BY <1>1, <1>2

(* What one pwrite does to the address of position p of strip t.           *)
LEMMA WriteEffect ==
  ASSUME TypeOK, NEW s \in Strips, NEW len \in 0 .. size,
         Transferred(s, WriteStart(s), len), pwrite(s, len),
         NEW t \in Strips, NEW p \in Positions,
         WriteStart(t) + p < Capacity
  PROVE  disk'[WriteDevice(t)][WriteStart(t) + p] =
           IF t = s /\ p \in offset .. offset + len - 1
           THEN <<s, version>>
           ELSE disk[WriteDevice(t)][WriteStart(t) + p]
<1> DEFINE from == WriteStart(s) + offset
           addr == WriteStart(t) + p
<1>1. /\ WriteDevice(s) \in Devices /\ WriteDevice(t) \in Devices
      /\ WriteStart(s) \in Nat /\ WriteStart(t) \in Nat
  BY DeviceType
<1>2. addr \in Addresses
  BY <1>1, ArrayAssumption DEF ArrayAssumption, Addresses, Positions
<1>3. disk'[WriteDevice(t)][addr] =
        IF WriteDevice(t) = WriteDevice(s) /\ addr \in from .. from + len - 1
        THEN <<s, version>> ELSE disk[WriteDevice(t)][addr]
  BY <1>1, <1>2 DEF pwrite, TypeOK
<1>4. CASE t = s
  BY <1>1, <1>3, <1>4, ArrayAssumption
  DEF ArrayAssumption, Positions, TypeOK
<1>5. CASE t # s
  <2>1. SUFFICES ASSUME WriteDevice(t) = WriteDevice(s),
                        addr \in from .. from + len - 1
                 PROVE  FALSE
    BY <1>3, <1>5
  <2>2. addr - WriteStart(s) \in Positions
    BY <1>1, <2>1, ArrayAssumption, SMTT(60) DEF ArrayAssumption, Positions, TypeOK
  <2>3. addr # WriteStart(s) + (addr - WriteStart(s))
    BY <1>5, <2>1, <2>2, RegionsDisjoint
  <2> QED
    BY <1>1, <2>3, ArrayAssumption DEF ArrayAssumption, Positions
<1> QED
  BY <1>4, <1>5

LEMMA InitIInv == Init => IInv
BY ArrayAssumption
DEF ArrayAssumption, Init, IInv, TypeOK, WriteLands, WrittenFits, Content

LEMMA StartStep ==
  ASSUME IInv, parallel_write_ssd \/ parallel_read_ssd
  PROVE  IInv'
<1>1. TypeOK'
  BY ArrayAssumption
  DEF ArrayAssumption, IInv, TypeOK, parallel_write_ssd, parallel_read_ssd, Start
<1>2. todo' = Strips
  BY DEF parallel_write_ssd, parallel_read_ssd, Start
<1> QED
  BY <1>1, <1>2 DEF IInv, WriteLands, WrittenFits

LEMMA WriteStep ==
  ASSUME IInv, NEW s \in Strips, write_ssd(s)
  PROVE  IInv'
<1>1. PICK len \in 0 .. size : Transferred(s, WriteStart(s), len) /\ pwrite(s, len)
  BY DEF write_ssd
<1>2. /\ UNCHANGED <<matrix, op, offset, size, version>>
      /\ op = "write"
      /\ todo' = todo \ {s}
      /\ len > 0 => WriteStart(s) + offset + len <= Capacity
      /\ incomplete' = IF len < size THEN incomplete \cup {s} ELSE incomplete
  BY <1>1 DEF write_ssd, Transferred, args
<1>3. disk' \in [Devices -> [Addresses -> Content]]
  <2>1. <<s, version>> \in Content
    BY DEF Content, IInv, TypeOK
  <2> QED
    BY <1>1, <2>1 DEF pwrite, IInv, TypeOK
<1>4. TypeOK'
  BY <1>2, <1>3 DEF IInv, TypeOK
<1>5. WrittenFits'
  <2>1. SUFFICES ASSUME size > 0, NEW t \in Strips \ (todo' \cup incomplete')
                 PROVE  WriteStart(t) + offset + size <= Capacity
    BY <1>2 DEF WrittenFits
  <2>2. CASE t = s
    <3>1. len = size
      BY <1>2, <2>1, <2>2 DEF IInv, TypeOK
    <3> QED
      BY <1>2, <2>1, <2>2, <3>1
  <2>3. CASE t # s
    BY <1>2, <2>1, <2>3 DEF IInv, WrittenFits
  <2> QED
    BY <2>2, <2>3
<1>6. WriteLands'
  <2>1. SUFFICES ASSUME NEW t \in Strips \ (todo' \cup incomplete'),
                        NEW p \in offset .. offset + size - 1
                 PROVE  disk'[WriteDevice(t)][WriteStart(t) + p] = <<t, version>>
    BY <1>2 DEF WriteLands
  <2>2. p \in Positions /\ size > 0
    BY ArrayAssumption DEF ArrayAssumption, Positions, IInv, TypeOK
  <2>3. WriteStart(t) + p < Capacity
    BY <1>2, <1>5, <2>2, DeviceType, ArrayAssumption
    DEF ArrayAssumption, WrittenFits, IInv, TypeOK
  <2>4. disk'[WriteDevice(t)][WriteStart(t) + p] =
          IF t = s /\ p \in offset .. offset + len - 1
          THEN <<s, version>>
          ELSE disk[WriteDevice(t)][WriteStart(t) + p]
    BY <1>1, <2>2, <2>3, WriteEffect DEF IInv
  <2>5. CASE t = s
    <3>1. len = size
      BY <1>2, <2>1, <2>5 DEF IInv, TypeOK
    <3> QED
      BY <2>4, <2>5, <3>1
  <2>6. CASE t # s
    BY <1>2, <2>1, <2>4, <2>6 DEF IInv, WriteLands
  <2> QED
    BY <2>5, <2>6
<1> QED
  BY <1>4, <1>5, <1>6 DEF IInv

LEMMA NextIInv == IInv /\ [Next]_vars => IInv'
<1> SUFFICES ASSUME IInv, [Next]_vars PROVE IInv'
  OBVIOUS
<1>1. CASE parallel_write_ssd \/ parallel_read_ssd
  BY <1>1, StartStep
<1>2. ASSUME NEW s \in Strips, write_ssd(s) PROVE IInv'
  BY <1>2, WriteStep
<1>3. ASSUME NEW s \in Strips, read_ssd(s) PROVE IInv'
  <2>1. PICK len \in 0 .. size : Transferred(s, ReadStart(s), len) /\ pread(s, len)
    BY <1>3 DEF read_ssd
  <2>2. UNCHANGED <<disk, op, offset, size, version>> /\ op = "read"
    BY <1>3, <2>1 DEF read_ssd, Transferred, args
  <2>3. ASSUME NEW p \in offset .. offset + len - 1
        PROVE  disk[ReadDevice(s)][ReadStart(s) + p] \in Content
    <3>1. ReadStart(s) \in Nat /\ ReadDevice(s) \in Devices
      BY DeviceType, SamePlace
    <3>2. ReadStart(s) + p \in Addresses
      BY <2>1, <3>1, ArrayAssumption
      DEF Transferred, ArrayAssumption, Addresses, IInv, TypeOK
    <3> QED
      BY <3>1, <3>2 DEF IInv, TypeOK
  <2>4. matrix' \in [Strips -> [Positions -> Content]]
    BY <2>1, <2>3 DEF pread, IInv, TypeOK
  <2>5. todo' \subseteq Strips /\ incomplete' \subseteq Strips
    BY <2>1 DEF Transferred, IInv, TypeOK
  <2> QED
    BY <2>2, <2>4, <2>5 DEF IInv, TypeOK, WriteLands, WrittenFits
<1>4. CASE Return
  BY <1>4 DEF Return, args, IInv, TypeOK, WriteLands, WrittenFits
<1>5. CASE UNCHANGED vars
  BY <1>5 DEF vars, args, IInv, TypeOK, WriteLands, WrittenFits
<1> QED
  BY <1>1, <1>2, <1>3, <1>4, <1>5 DEF Next

LEMMA Invariance == Spec => []IInv
BY InitIInv, NextIInv, PTL DEF Spec

(* Devices, buffers and the state of a call keep their shape.              *)
THEOREM TypeCorrect == Spec => []TypeOK
<1>1. IInv => TypeOK
  BY DEF IInv
<1> QED
  BY <1>1, Invariance, PTL

(* A strip whose write was complete stays on its device whatever the       *)
(* threads writing the other strips of the stripe do.                      *)
THEOREM CompleteWritesLand == Spec => []WriteLands
<1>1. IInv => WriteLands
  BY DEF IInv
<1> QED
  BY <1>1, Invariance, PTL

-----------------------------------------------------------------------------
(* The refinement.                                                         *)
LEMMA StoredType ==
  ASSUME TypeOK, NEW s \in Strips, NEW p \in Positions
  PROVE  Stored(s, p) \in Content
<1>1. ReadDevice(s) \in Devices /\ ReadStart(s) \in Nat
  BY DeviceType, SamePlace
<1>2. ReadStart(s) + p < Capacity => ReadStart(s) + p \in Addresses
  BY <1>1, ArrayAssumption DEF ArrayAssumption, Addresses, Positions
<1> QED
  BY <1>1, <1>2 DEF Stored, TypeOK, Content

LEMMA InitRefines == Init => Store!Init
<1> SUFFICES ASSUME Init PROVE Store!Init
  OBVIOUS
<1>1. TypeOK
  BY InitIInv DEF IInv
<1>2. [s \in Strips |-> [p \in Positions |-> Stored(s, p)]]
        \in [Strips -> [Positions -> Content]]
  BY <1>1, StoredType
<1> QED
  BY <1>1, <1>2
  DEF Store!Init, Store!Image, Store!Positions, Positions, Content, TypeOK

LEMMA WriteRefines ==
  ASSUME IInv, NEW s \in Strips, write_ssd(s)
  PROVE  [Store!Next]_(Store!vars)
<1>1. PICK len \in 0 .. size : Transferred(s, WriteStart(s), len) /\ pwrite(s, len)
  BY DEF write_ssd
<1>2. TypeOK /\ UNCHANGED matrix
  BY DEF IInv, write_ssd
<1>3. ASSUME NEW t \in Strips, NEW p \in Positions
      PROVE  Stored(t, p)' = IF t = s /\ p \in offset .. offset + len - 1
                             THEN <<s, version>> ELSE Stored(t, p)
  <2>1. ReadDevice(t) = WriteDevice(t) /\ ReadStart(t) = WriteStart(t)
    BY SamePlace
  <2>2. CASE WriteStart(t) + p < Capacity
    BY <1>1, <1>2, <2>1, <2>2, WriteEffect DEF Stored
  <2>3. CASE ~ (WriteStart(t) + p < Capacity)
    <3>1. ~ (t = s /\ p \in offset .. offset + len - 1)
      BY <1>1, <1>2, <2>3, DeviceType, ArrayAssumption
      DEF Transferred, TypeOK, ArrayAssumption, Positions
    <3> QED
      BY <2>1, <2>3, <3>1 DEF Stored
  <2> QED
    BY <2>2, <2>3
<1> DEFINE image == [t \in Strips |-> [p \in Positions |-> Stored(t, p)]]
<1>4. CASE len = 0
  <2>1. ASSUME NEW t \in Strips, NEW p \in Positions
        PROVE  Stored(t, p)' = Stored(t, p)
    BY <1>2, <1>3, <1>4 DEF TypeOK
  <2>2. image' = image
    BY <2>1
  <2> QED
    BY <1>2, <2>2 DEF Store!vars
<1>5. CASE len # 0
  <2>1. /\ offset \in Positions
        /\ offset + len - 1 \in offset .. strip_offset - 1
    BY <1>2, <1>5, ArrayAssumption DEF TypeOK, ArrayAssumption, Positions
  <2>2. image' = [image EXCEPT ![s] = [p \in Positions |->
                    IF p \in offset .. offset + len - 1 THEN <<s, version>>
                    ELSE @[p]]]
    BY <1>3
  <2>3. Store!Put(s, offset, offset + len - 1, version)
    BY <1>2, <2>2 DEF Store!Put, Store!Positions, Positions
  <2> QED
    BY <1>2, <2>1, <2>3 DEF Store!Next, Store!Positions, Positions, TypeOK
<1> QED
  BY <1>4, <1>5

LEMMA ReadRefines ==
  ASSUME IInv, NEW s \in Strips, read_ssd(s)
  PROVE  [Store!Next]_(Store!vars)
<1>1. PICK len \in 0 .. size : Transferred(s, ReadStart(s), len) /\ pread(s, len)
  BY DEF read_ssd
<1>2. TypeOK /\ UNCHANGED disk
  BY DEF IInv, read_ssd
<1> DEFINE image == [t \in Strips |-> [p \in Positions |-> Stored(t, p)]]
<1>3. image' = image
  BY <1>2 DEF Stored
<1>4. ASSUME NEW p \in offset .. offset + len - 1
      PROVE  disk[ReadDevice(s)][ReadStart(s) + p] = image[s][p]
  <2>1. p \in Positions
    BY <1>2, ArrayAssumption DEF TypeOK, ArrayAssumption, Positions
  <2>2. ReadStart(s) + p < Capacity
    BY <1>1, <1>2, DeviceType, SamePlace, ArrayAssumption
    DEF Transferred, TypeOK, ArrayAssumption
  <2> QED
    BY <2>1, <2>2 DEF Stored
<1>5. CASE len = 0
  <2>1. matrix' = matrix
    BY <1>1, <1>2, <1>5 DEF pread, TypeOK
  <2> QED
    BY <1>3, <2>1 DEF Store!vars
<1>6. CASE len # 0
  <2>1. /\ offset \in Positions
        /\ offset + len - 1 \in offset .. strip_offset - 1
    BY <1>2, <1>6, ArrayAssumption DEF TypeOK, ArrayAssumption, Positions
  <2>2. matrix' = [matrix EXCEPT ![s] = [p \in Positions |->
                     IF p \in offset .. offset + len - 1 THEN image[s][p]
                     ELSE @[p]]]
    BY <1>1, <1>2, <1>4 DEF pread, TypeOK
  <2>3. Store!Get(s, offset, offset + len - 1)
    BY <1>3, <2>2 DEF Store!Get, Store!Positions, Positions
  <2> QED
    BY <2>1, <2>3 DEF Store!Next, Store!Positions, Positions
<1> QED
  BY <1>5, <1>6

LEMMA StepRefines == IInv /\ [Next]_vars => [Store!Next]_(Store!vars)
<1> SUFFICES ASSUME IInv, [Next]_vars PROVE [Store!Next]_(Store!vars)
  OBVIOUS
<1>1. ASSUME NEW s \in Strips, write_ssd(s) PROVE [Store!Next]_(Store!vars)
  BY <1>1, WriteRefines
<1>2. ASSUME NEW s \in Strips, read_ssd(s) PROVE [Store!Next]_(Store!vars)
  BY <1>2, ReadRefines
<1>3. CASE UNCHANGED <<disk, matrix>>
  BY <1>3 DEF Store!vars, Stored
<1>4. parallel_write_ssd \/ parallel_read_ssd \/ Return \/ UNCHANGED vars
        => UNCHANGED <<disk, matrix>>
  BY DEF parallel_write_ssd, parallel_read_ssd, Start, Return, vars
<1> QED
  BY <1>1, <1>2, <1>3, <1>4 DEF Next

(* Strips that share devices do not share storage: whatever transfers fail *)
(* or are cut short, the calls implement a store with one image for each   *)
(* strip.                                                                  *)
THEOREM SsdFunctionsImplementStore == Spec => ImplementsStripStore
<1>1. Spec => []IInv
  BY Invariance
<1> QED
  BY <1>1, InitRefines, StepRefines, PTL DEF Spec, ImplementsStripStore, Store!Spec

-----------------------------------------------------------------------------
(* A section that is done has been through all blocks, and main goes on    *)
(* after both of them.                                                     *)
SectionsDone ==
  /\ encoder = "encode" => encode_offset < NumBlocks
  /\ encoder = "done" => encode_offset = NumBlocks
  /\ writer \in {"wait", "spin", "write"} => write_offset < NumBlocks
  /\ writer = "done" => write_offset = NumBlocks
  /\ phase # "pipeline" => encoder = "done" /\ writer = "done"

OnDisk == \A s \in Strips, b \in Blocks : regions[s][b] = "good"

(* What main knows of the devices: what it has read back good is good      *)
(* there, and past the comparison that is everything.                      *)
ReadBack ==
  /\ phase = "pipeline" =>
       \A s \in Strips, b \in Blocks : read_matrix[s][b] = "blank"
  /\ phase = "read" =>
       \A s \in Strips, b \in Blocks : read_matrix[s][b] = "good" => regions[s][b] = "good"
  /\ phase \in {"erase", "reread", "verify"} => OnDisk
  /\ result = "success" => phase = "exit" /\ OnDisk

PipelineInv == ProgramTypeOK /\ SectionsDone /\ PublishedIsEncoded /\ ReadBack

LEMMA InitPipeline == ProgramInit => PipelineInv
<1> SUFFICES ASSUME ProgramInit PROVE PipelineInv
  OBVIOUS
<1>1. ProgramTypeOK
  <2>1. /\ mem \in [Strips -> [Blocks -> BlockContent]]
        /\ regions \in [Strips -> [Blocks -> BlockContent]]
        /\ read_matrix \in [Strips -> [Blocks -> BlockContent]]
    BY DEF ProgramInit, BlockContent
  <2>2. 0 \in 0 .. NumBlocks /\ 0 \in 0 .. MaxFaults
    BY PipelineAssumption
  <2> QED
    BY <2>1, <2>2 DEF ProgramInit, ProgramTypeOK
<1>2. SectionsDone /\ ReadBack
  BY DEF ProgramInit, SectionsDone, ReadBack
<1>3. PublishedIsEncoded
  BY DEF ProgramInit, PublishedIsEncoded, Blocks
<1> QED
  BY <1>1, <1>2, <1>3 DEF PipelineInv

LEMMA TypeStep ==
  ASSUME ProgramTypeOK, SectionsDone, [ProgramNext]_programVars
  PROVE  ProgramTypeOK'
<1> USE PipelineAssumption DEF ProgramTypeOK, BlockContent
<1>1. CASE UNCHANGED programVars
  BY <1>1 DEF programVars
<1>2. CASE EncodeTest /\ UNCHANGED env
  <2>1. mem' \in [Strips -> [Blocks -> BlockContent]]
    BY <1>2 DEF EncodeTest
  <2> QED
    BY <1>2, <2>1 DEF EncodeTest, check, env
<1>3. CASE EncodeReturn /\ UNCHANGED env
  <2>1. mem' \in [Strips -> [Blocks -> BlockContent]]
    BY <1>3 DEF EncodeReturn
  <2>2. encode_offset' \in 0 .. NumBlocks
    BY <1>3 DEF EncodeReturn, SectionsDone
  <2> QED
    BY <1>3, <2>1, <2>2 DEF EncodeReturn, check, env
<1>4. CASE WriteTest /\ UNCHANGED env
  BY <1>4 DEF WriteTest, check, env
<1>5. CASE WriteWait /\ UNCHANGED env
  BY <1>5 DEF WriteWait, check, env
<1>6. CASE WriteReturn /\ UNCHANGED env
  <2>1. write_offset' \in 0 .. NumBlocks
    BY <1>6 DEF WriteReturn, SectionsDone
  <2> QED
    BY <1>6, <2>1 DEF WriteReturn, check, env
<1>7. ASSUME NEW s \in Strips, WriteStrip(s), UNCHANGED env
      PROVE  ProgramTypeOK'
  <2>1. write_offset \in Blocks
    BY <1>7 DEF WriteStrip, SectionsDone, Blocks
  <2>2. regions' \in [Strips -> [Blocks -> BlockContent]]
    BY <1>7, <2>1 DEF WriteStrip
  <2>3. wrong' \in BOOLEAN
    BY <1>7 DEF WriteStrip
  <2> QED
    BY <1>7, <2>2, <2>3 DEF WriteStrip, check, env
<1>8. ASSUME NEW s \in Strips, WriteFails(s), UNCHANGED env
      PROVE  ProgramTypeOK'
  <2>1. write_offset \in Blocks
    BY <1>8 DEF WriteFails, SectionsDone, Blocks
  <2>2. regions' \in [Strips -> [Blocks -> BlockContent]]
    <3>1. CASE UNCHANGED regions
      BY <3>1
    <3>2. CASE regions' = [regions EXCEPT ![s][write_offset] = "torn"]
      BY <2>1, <3>2
    <3> QED
      BY <1>8, <3>1, <3>2 DEF WriteFails
  <2> QED
    BY <1>8, <2>2 DEF WriteFails, check, env
<1>9. CASE SectionsJoin /\ UNCHANGED env
  BY <1>9 DEF SectionsJoin, pipeline, env
<1>10. ASSUME NEW s \in Strips, ReadStrip(s), UNCHANGED env
       PROVE  ProgramTypeOK'
  <2>1. read_matrix' \in [Strips -> [Blocks -> BlockContent]]
    BY <1>10 DEF ReadStrip
  <2> QED
    BY <1>10, <2>1 DEF ReadStrip, pipeline, env
<1>11. ASSUME NEW s \in Strips, ReadFails(s), UNCHANGED env
       PROVE  ProgramTypeOK'
  <2>1. read_matrix' \in [Strips -> [Blocks -> BlockContent]]
    BY <1>11 DEF ReadFails
  <2> QED
    BY <1>11, <2>1 DEF ReadFails, pipeline, env
<1>12. CASE CompareRead /\ UNCHANGED env
  BY <1>12 DEF CompareRead, pipeline, env
<1>13. CASE Erase /\ UNCHANGED env
  <2>1. PICK E \in SUBSET Strips :
          /\ err_list' = E
          /\ read_matrix' = [s \in Strips |-> IF s \in E THEN [b \in Blocks |-> "blank"]
                                         ELSE mem[s]]
    BY <1>13 DEF Erase
  <2>2. read_matrix' \in [Strips -> [Blocks -> BlockContent]]
    BY <2>1
  <2> QED
    BY <1>13, <2>1, <2>2 DEF Erase, pipeline, env
<1>14. CASE Decode /\ UNCHANGED env
  <2>1. read_matrix' \in [Strips -> [Blocks -> BlockContent]]
    BY <1>14 DEF Decode
  <2> QED
    BY <1>14, <2>1 DEF Decode, pipeline, env
<1>15. CASE CompareDecoded /\ UNCHANGED env
  BY <1>15 DEF CompareDecoded, pipeline, env
<1> QED
  BY <1>1, <1>2, <1>3, <1>4, <1>5, <1>6, <1>7, <1>8, <1>9, <1>10, <1>11, <1>12,
     <1>13, <1>14, <1>15 DEF ProgramNext, Encoder, Writer, Main

LEMMA SectionsStep ==
  ASSUME PipelineInv, [ProgramNext]_programVars
  PROVE  SectionsDone'
<1> USE PipelineAssumption DEF PipelineInv, ProgramTypeOK, SectionsDone
<1>1. CASE UNCHANGED programVars
  BY <1>1 DEF programVars
<1>2. CASE Encoder
  BY <1>2 DEF Encoder, EncodeTest, EncodeReturn, check
<1>3. CASE Writer
  BY <1>3 DEF Writer, WriteTest, WriteWait, WriteReturn, WriteStrip, WriteFails, check
<1>4. CASE Main
  BY <1>4 DEF Main, SectionsJoin, CompareRead, Erase, Decode, CompareDecoded,
              ReadStrip, ReadFails, pipeline
<1> QED
  BY <1>1, <1>2, <1>3, <1>4 DEF ProgramNext

(* Only the block at encode_offset is ever torn.                           *)
LEMMA PublishedStep ==
  ASSUME PipelineInv, [ProgramNext]_programVars
  PROVE  PublishedIsEncoded'
<1> USE PipelineAssumption DEF PipelineInv, ProgramTypeOK, PublishedIsEncoded
<1>1. CASE UNCHANGED <<mem, encode_offset>>
  BY <1>1
<1>2. CASE EncodeTest
  <2> SUFFICES ASSUME NEW s \in Strips, NEW b \in Blocks, b < encode_offset
               PROVE  mem'[s][b] = "good"
    BY <1>2 DEF EncodeTest
  <2>1. b # encode_offset
    BY DEF Blocks
  <2>2. \/ mem'[s] = mem[s]
        \/ mem'[s] = [mem[s] EXCEPT ![encode_offset] = "torn"]
    BY <1>2 DEF EncodeTest
  <2> QED
    BY <2>1, <2>2
<1>3. CASE EncodeReturn
  <2> SUFFICES ASSUME NEW s \in Strips, NEW b \in Blocks, b < encode_offset + 1
               PROVE  mem'[s][b] = "good"
    BY <1>3 DEF EncodeReturn
  <2>1. b = encode_offset \/ b < encode_offset
    BY DEF Blocks
  <2>2. mem'[s] = [mem[s] EXCEPT ![encode_offset] = "good"]
    BY <1>3 DEF EncodeReturn
  <2> QED
    BY <2>1, <2>2
<1> QED
  BY <1>1, <1>2, <1>3 DEF ProgramNext, Encoder, Writer, Main, programVars, pipeline,
     WriteTest, WriteWait, WriteReturn, WriteStrip, WriteFails, SectionsJoin,
     CompareRead, Erase, Decode, CompareDecoded, ReadStrip, ReadFails

(* The devices change in the pipeline only; main never takes for good what *)
(* they do not hold.                                                       *)
LEMMA ReadBackStep ==
  ASSUME PipelineInv, [ProgramNext]_programVars
  PROVE  ReadBack'
<1> USE PipelineAssumption DEF PipelineInv
<1>1. CASE UNCHANGED <<phase, read_matrix, regions, result>>
  BY <1>1 DEF ReadBack, OnDisk
<1>2. CASE Writer
  <2>1. writer # "done" /\ phase = "pipeline"
    BY <1>2 DEF Writer, WriteTest, WriteWait, WriteReturn, WriteStrip, WriteFails,
                SectionsDone
  <2>2. UNCHANGED <<phase, read_matrix, result>>
    BY <1>2 DEF Writer, WriteTest, WriteWait, WriteReturn, WriteStrip, WriteFails, check
  <2> QED
    BY <2>1, <2>2 DEF ReadBack
<1>3. CASE SectionsJoin
  BY <1>3 DEF SectionsJoin, ReadBack, OnDisk
<1>4. ASSUME NEW s \in Strips, ReadStrip(s)
      PROVE  ReadBack'
  <2>1. UNCHANGED <<phase, regions, result>> /\ phase \in {"read", "reread"}
    BY <1>4 DEF ReadStrip
  <2>2. \A u \in Strips : read_matrix'[u] = IF u = s THEN regions[s] ELSE read_matrix[u]
    BY <1>4 DEF ReadStrip, ProgramTypeOK
  <2> QED
    BY <2>1, <2>2 DEF ReadBack, OnDisk
<1>5. ASSUME NEW s \in Strips, ReadFails(s)
      PROVE  ReadBack'
  <2>1. UNCHANGED <<phase, regions, result>> /\ phase \in {"read", "reread"}
    BY <1>5 DEF ReadFails
  <2>2. \A u \in Strips, b \in Blocks : \/ read_matrix'[u][b] = regions[u][b]
                                        \/ read_matrix'[u][b] = read_matrix[u][b]
    BY <1>5 DEF ReadFails, ProgramTypeOK
  <2> QED
    BY <2>1, <2>2 DEF ReadBack, OnDisk
<1>6. CASE CompareRead
  <2>1. CASE read_matrix = mem
    <3>1. \A s \in Strips, b \in Blocks : mem[s][b] = "good"
      BY <1>6 DEF CompareRead, SectionsDone, PublishedIsEncoded, Blocks
    <3>2. OnDisk
      BY <1>6, <2>1, <3>1 DEF CompareRead, ReadBack, OnDisk
    <3> QED
      BY <1>6, <2>1, <3>2 DEF CompareRead, ReadBack, OnDisk
  <2>2. CASE read_matrix # mem
    BY <1>6, <2>2 DEF CompareRead, ReadBack
  <2> QED
    BY <2>1, <2>2
<1>7. CASE Erase
  BY <1>7 DEF Erase, ReadBack, OnDisk
<1>8. CASE Decode
  BY <1>8 DEF Decode, ReadBack, OnDisk
<1>9. CASE CompareDecoded
  BY <1>9 DEF CompareDecoded, ReadBack, OnDisk
<1> QED
  BY <1>1, <1>2, <1>3, <1>4, <1>5, <1>6, <1>7, <1>8, <1>9
  DEF ProgramNext, Encoder, Main, programVars, check, EncodeTest, EncodeReturn

LEMMA PipelineStep ==
  ASSUME PipelineInv, [ProgramNext]_programVars
  PROVE  PipelineInv'
BY TypeStep, SectionsStep, PublishedStep, ReadBackStep DEF PipelineInv

LEMMA PipelineInvariant == ProgramSpec => []PipelineInv
BY InitPipeline, PipelineStep, PTL DEF ProgramSpec

-----------------------------------------------------------------------------
(* The program's fields keep their types, the offsets within the strips.   *)
THEOREM ProgramTypeCorrect == ProgramSpec => []ProgramTypeOK
<1>1. PipelineInv => ProgramTypeOK
  BY DEF PipelineInv
<1> QED
  BY <1>1, PipelineInvariant, PTL

(* What encode_offset publishes is encoded, whatever the writer does.      *)
THEOREM PublishesEncoded == ProgramSpec => []PublishedIsEncoded
<1>1. PipelineInv => PublishedIsEncoded
  BY DEF PipelineInv
<1> QED
  BY <1>1, PipelineInvariant, PTL

(* A run that returns 0 has the codeword on its devices, however the two   *)
(* sections raced and whatever device calls failed.                        *)
THEOREM SoundVerdict == ProgramSpec => []VerdictSound
<1>1. PipelineInv => VerdictSound
  BY DEF PipelineInv, ReadBack, OnDisk, VerdictSound
<1> QED
  BY <1>1, PipelineInvariant, PTL

-----------------------------------------------------------------------------
(* One thread for both sections: the writer begins when all is encoded.    *)

EncodedFirst == writer # "test" \/ write_offset > 0 => encoder = "done"

(* Without device faults, the blocks written so far are good on disk, the  *)
(* strips read back are good, and so are those that were not erased.       *)
Written ==
  /\ \A s \in Strips, b \in Blocks : b < write_offset => regions[s][b] = "good"
  /\ writer = "write" => \A s \in Strips \ unwritten : regions[s][write_offset] = "good"
Whole(s) == \A b \in Blocks : read_matrix[s][b] = "good"
ReadWhole ==
  /\ phase = "read" => \A s \in Strips \ unread : Whole(s)
  /\ phase = "reread" => \A s \in Strips : s \notin unread \/ s \notin err_list => Whole(s)
  /\ phase = "verify" => \A s \in Strips : Whole(s)
  /\ result # "failure"

InOrderInv ==
  threads = 1 => /\ EncodedFirst
                 /\ ~ wrong
                 /\ faults = 0 => Written /\ ReadWhole

LEMMA InitInOrder == ProgramInit => InOrderInv
BY DEF ProgramInit, InOrderInv, EncodedFirst, Written, ReadWhole, Blocks

LEMMA AllEncoded ==
  ASSUME PipelineInv, encoder = "done"
  PROVE  \A s \in Strips, b \in Blocks : mem[s][b] = "good"
BY PipelineAssumption DEF PipelineInv, SectionsDone, PublishedIsEncoded, Blocks

LEMMA EncodedFirstStep ==
  ASSUME PipelineInv, threads = 1, EncodedFirst, [ProgramNext]_programVars
  PROVE  EncodedFirst'
<1> USE PipelineAssumption DEF PipelineInv, ProgramTypeOK, EncodedFirst
<1>1. CASE UNCHANGED <<encoder, writer, write_offset>>
  BY <1>1
<1>2. CASE Encoder
  BY <1>2 DEF Encoder, EncodeTest, EncodeReturn
<1>3. CASE Writer
  BY <1>3 DEF Writer, WriteTest, WriteWait, WriteReturn, WriteStrip, WriteFails
<1> QED
  BY <1>1, <1>2, <1>3 DEF ProgramNext, Main, programVars, pipeline, SectionsJoin,
     CompareRead, Erase, Decode, CompareDecoded, ReadStrip, ReadFails

LEMMA RightStep ==
  ASSUME PipelineInv, threads = 1, EncodedFirst, ~ wrong, [ProgramNext]_programVars
  PROVE  ~ wrong'
<1>1. ASSUME NEW s \in Strips, WriteStrip(s)
      PROVE  ~ wrong'
  <2>1. encoder = "done" /\ write_offset \in Blocks
    BY <1>1, PipelineAssumption DEF WriteStrip, EncodedFirst, PipelineInv, SectionsDone,
                                    ProgramTypeOK, Blocks
  <2> QED
    BY <1>1, <2>1, AllEncoded DEF WriteStrip
<1> QED
  BY <1>1 DEF ProgramNext, Encoder, Writer, Main, programVars, pipeline,
     EncodeTest, EncodeReturn, WriteTest, WriteWait, WriteReturn, WriteFails,
     SectionsJoin, CompareRead, Erase, Decode, CompareDecoded, ReadStrip, ReadFails

LEMMA WrittenStep ==
  ASSUME PipelineInv, threads = 1, EncodedFirst, Written, [ProgramNext]_programVars, faults' = 0
  PROVE  Written'
<1> USE PipelineAssumption DEF PipelineInv, ProgramTypeOK
<1>1. CASE UNCHANGED <<writer, write_offset, unwritten, regions>>
  BY <1>1 DEF Written
<1>2. ASSUME NEW s \in Strips, WriteStrip(s)
      PROVE  Written'
  <2>1. encoder = "done" /\ write_offset \in Blocks
    BY <1>2 DEF WriteStrip, EncodedFirst, SectionsDone, Blocks
  <2>2. mem[s][write_offset] = "good"
    BY <2>1, AllEncoded
  <2>3. \A u \in Strips, b \in Blocks :
          regions'[u][b] = IF u = s /\ b = write_offset THEN "good" ELSE regions[u][b]
    BY <1>2, <2>1, <2>2 DEF WriteStrip
  <2> QED
    BY <1>2, <2>1, <2>3 DEF WriteStrip, Written
<1>3. ASSUME NEW s \in Strips, WriteFails(s)
      PROVE  FALSE
  BY <1>3 DEF WriteFails
<1>4. CASE WriteTest
  BY <1>4 DEF WriteTest, Written
<1>5. CASE WriteWait
  BY <1>5 DEF WriteWait, Written
<1>6. CASE WriteReturn
  <2>1. \A s \in Strips, b \in Blocks : b < write_offset + 1 => regions[s][b] = "good"
    <3> SUFFICES ASSUME NEW s \in Strips, NEW b \in Blocks, b < write_offset + 1
                 PROVE  regions[s][b] = "good"
      OBVIOUS
    <3>1. b < write_offset \/ b = write_offset
      BY DEF Blocks
    <3> QED
      BY <1>6, <3>1 DEF WriteReturn, Written
  <2> QED
    BY <1>6, <2>1 DEF WriteReturn, Written
<1> QED
  BY <1>1, <1>2, <1>3, <1>4, <1>5, <1>6
  DEF ProgramNext, Encoder, Writer, Main, programVars, pipeline,
     EncodeTest, EncodeReturn, SectionsJoin, CompareRead, Erase, Decode, CompareDecoded,
     ReadStrip, ReadFails

LEMMA ReadWholeStep ==
  ASSUME PipelineInv, Written, ReadWhole, [ProgramNext]_programVars, faults' = 0
  PROVE  ReadWhole'
<1> USE PipelineAssumption DEF PipelineInv, ProgramTypeOK
<1>1. CASE UNCHANGED <<phase, read_matrix, unread, err_list, result>>
  BY <1>1 DEF ReadWhole, Whole
<1>2. phase # "pipeline" => OnDisk /\ \A s \in Strips, b \in Blocks : mem[s][b] = "good"
  BY AllEncoded DEF SectionsDone, Written, OnDisk, Blocks
<1>3. CASE SectionsJoin
  BY <1>3 DEF SectionsJoin, ReadWhole
<1>4. ASSUME NEW s \in Strips, ReadStrip(s)
      PROVE  ReadWhole'
  <2>1. \A u \in Strips : read_matrix'[u] = IF u = s THEN regions[s] ELSE read_matrix[u]
    BY <1>4 DEF ReadStrip
  <2>2. Whole(s)' /\ \A u \in Strips : Whole(u) => Whole(u)'
    BY <1>2, <1>4, <2>1 DEF ReadStrip, OnDisk, Whole
  <2> QED
    BY <1>4, <2>2 DEF ReadStrip, ReadWhole
<1>5. ASSUME NEW s \in Strips, ReadFails(s)
      PROVE  FALSE
  BY <1>5 DEF ReadFails
<1>6. CASE CompareRead
  <2>1. \A s \in Strips, b \in Blocks : read_matrix[s][b] = mem[s][b]
    BY <1>2, <1>6 DEF CompareRead, ReadWhole, Whole
  <2>2. read_matrix = mem
    BY <2>1
  <2> QED
    BY <1>6, <2>2 DEF CompareRead, ReadWhole
<1>7. CASE Erase
  <2>1. PICK E \in SUBSET Strips :
          /\ err_list' = E
          /\ read_matrix' = [s \in Strips |-> IF s \in E THEN [b \in Blocks |-> "blank"]
                                         ELSE mem[s]]
    BY <1>7 DEF Erase
  <2>2. \A s \in Strips : s \notin err_list' => Whole(s)'
    BY <1>2, <1>7, <2>1 DEF Erase, Whole
  <2> QED
    BY <1>7, <2>2 DEF Erase, ReadWhole
<1>8. CASE Decode
  <2>1. \A s \in Strips : Whole(s)
    BY <1>8 DEF Decode, ReadWhole
  <2>2. \A s \in Strips : Whole(s)'
    BY <1>8, <2>1 DEF Decode, Whole, Survivors
  <2> QED
    BY <1>8, <2>2 DEF Decode, ReadWhole
<1>9. CASE CompareDecoded
  <2>1. \A s \in Strips, b \in Blocks : read_matrix[s][b] = mem[s][b]
    BY <1>2, <1>9 DEF CompareDecoded, ReadWhole, Whole
  <2>2. read_matrix = mem
    BY <2>1
  <2> QED
    BY <1>9, <2>2 DEF CompareDecoded, ReadWhole
<1> QED
  BY <1>1, <1>3, <1>4, <1>5, <1>6, <1>7, <1>8, <1>9
  DEF ProgramNext, Encoder, Writer, Main, programVars,
     check, EncodeTest, EncodeReturn, WriteTest, WriteWait, WriteReturn, WriteStrip, WriteFails

LEMMA InOrderStep ==
  ASSUME PipelineInv, InOrderInv, [ProgramNext]_programVars
  PROVE  InOrderInv'
<1>1. UNCHANGED threads
  BY DEF ProgramNext, Encoder, Writer, Main, env, programVars
<1>2. faults' = 0 => faults = 0
  BY DEF PipelineInv, ProgramTypeOK, ProgramNext, Encoder, Writer, Main, programVars,
     EncodeTest, EncodeReturn, WriteTest, WriteWait, WriteReturn, WriteStrip, WriteFails,
     SectionsJoin, CompareRead, Erase, Decode, CompareDecoded, ReadStrip, ReadFails
<1> QED
  BY <1>1, <1>2, EncodedFirstStep, RightStep, WrittenStep, ReadWholeStep DEF InOrderInv

LEMMA InOrderInvariant == ProgramSpec => []InOrderInv
BY InitPipeline, PipelineStep, InitInOrder, InOrderStep, PTL DEF ProgramSpec

(* When one thread runs both sections, nothing is written before it is     *)
(* encoded.                                                                *)
THEOREM OneThreadWritesEncoded == ProgramSpec => []InOrderWritesEncoded
<1>1. InOrderInv => InOrderWritesEncoded
  BY DEF InOrderInv, InOrderWritesEncoded
<1> QED
  BY <1>1, InOrderInvariant, PTL

(* When one thread runs both sections and no device call fails, main finds *)
(* neither a read error nor a decode error, whatever it erases.            *)
THEOREM OneThreadFindsNoError == ProgramSpec => []InOrderNoError
<1>1. InOrderInv => InOrderNoError
  BY DEF InOrderInv, ReadWhole, InOrderNoError, NoErrorWithoutFault
<1> QED
  BY <1>1, InOrderInvariant, PTL
=============================================================================
