----------------------------- MODULE TextProofs -----------------------------
(***************************************************************************)
(* Inflate implements Decompressor (InflateKeepsPromise), for windows,     *)
(* buffers and files of any size.                                          *)
(*                                                                         *)
(* PlaceInv of GrammarProofs says at which unit of the file the code is;   *)
(* Grammar says what the units before it decompress to, from which window  *)
(* and with which checksum.  Four invariants say that the code agrees:     *)
(* what it has handed over and still holds (TextInv), the window it copies *)
(* matches from (ViewInv), a dictionary while it is read (DictInv), and    *)
(* the checksum of a header (SumInv).  RetInv: within the loops of a call  *)
(* ret is what a decoder reported.                                         *)
(***************************************************************************)
EXTENDS GrammarProofs

-----------------------------------------------------------------------------
(* TextInv: all that was decoded so far, and what overflowed, is what the  *)
(* units taken so far say, as long as they are valid; when isal_inflate    *)
(* finds that they are not, the grammar says so too.                       *)
Whole == TextOf(file.dict \o user, tmp_out, processed)
(* What a match may reach: the text from where the member began.           *)
View  == TextOf(Drop(file.dict \o user, base), tmp_out, processed)
RefusedNow == ret \in Refused \/ (field = "returned" /\ hdr_ret \in Refused)
OnText == \E p \in 0 .. Len(file.units) : SaidAt(file, p).out = Flushed(Whole)
TextRefused == ~ Said.ok /\ OnText
TextValid == /\ Said.ok /\ Said.out = Flushed(Whole)
             /\ WithinMember \/ Here.at # "end" => Said.from = base
AllGiven == block_state \in {"CHECKSUM_CHECK", "FINISH"} => processed = Len(tmp_out)
TextInv == /\ RefusedNow => TextRefused
           /\ ~ RefusedNow => TextValid
           /\ ~ WithinMember => tmp_out = <<>> /\ base = Len(user)
           /\ AllGiven

(* ViewInv: the window of the decoder is that of the grammar.              *)
SeenBy(s) == EndsRight(s, View)
Loaded == file.dict # <<>> => tmp_out # <<>>
CopyInView ==
  copy_overflow.len # 0 =>
    block_state = "CODED" /\ copy_overflow.dist \in 1 .. Len(View) + Len(write_overflow)
ViewInv ==
  /\ Loaded /\ Going /\ pc \notin {"out", "end"} => SeenBy(tmp_out)
  /\ Going /\ pc = "out" => Hist <= Len(Produced) \/ SeenBy(tmp_out)
  /\ Going /\ pc = "end" => FromUser \/ SeenBy(tmp_out)
  /\ processed <= Len(file.dict) + Len(user) - base
  /\ CopyInView

(* DictInv: nothing is decoded before a dictionary that is due is set.     *)
Starved == rest = <<>> /\ next_in = <<>> /\ Len(tmp_in) < ZLIB_DICT_LEN
DictAsked == wrapper_flag /\ pc = "idle" /\ ret = "NEED_DICT" /\ block_state = "NEW_HDR"
IdWaits == /\ ~ wrapper_flag /\ block_state = "ZLIB_DICT" /\ Starved
           /\ pc \in {"idle", "zlib"} /\ ret # "NEED_DICT"
IdNext == /\ ~ wrapper_flag /\ pc = "dict_id" /\ block_state = "NEW_HDR" /\ tmp_in = <<>>
          /\ Len(next_in) >= ZLIB_DICT_LEN \/ rest = <<>>
BaseNext ==
  /\ ~ wrapper_flag /\ block_state = "NEW_HDR" /\ pc \in {"idle", "zlib"} /\ ret # "NEED_DICT"
  /\ ret \notin Refused =>
       /\ Coming = file.units
       /\ \/ Starved
          \/ /\ tmp_in = <<>>
             /\ IF pc = "idle" THEN next_in = <<>>
                ELSE Len(next_in) >= ZLIB_HDR_BASE + ZLIB_DICT_LEN \/ rest = <<>>
DictInv ==
  ~ Loaded =>
    /\ user = <<>>
    /\ \/ /\ crc_flag = "deflate" /\ pc = "idle" /\ rest = file.units
          /\ ret = "DECOMP_OK" /\ block_state = "NEW_HDR"
       \/ crc_flag = "zlib" /\ (DictAsked \/ IdWaits \/ IdNext \/ BaseNext)

(* SumInv: the checksum of a gzip header that the caller reads is of the   *)
(* units of the header so far, in however many calls they come.            *)
SumAt(s) == Extended(0, Values(Take(file.units, Before(file, s))))
SumFields == {"base", "extra_len", "extra", "name", "comment", "sum"}
FromStart == /\ start_in \in Seq(FileUnits) /\ Rest(file, start_in \o rest)
             /\ \E p \in 0 .. Len(start_in) : next_in = Drop(start_in, p)
(* What waits of a field of fixed size is less than all of it.             *)
HeaderShort ==
  /\ At("NEW_HDR", "base") => Len(tmp_in) < GZIP_HDR_BASE
  /\ At("GZIP_EXTRA_LEN", "extra_len") => Len(tmp_in) < GZIP_EXTRA_LEN
SumWaits ==
  Resumable =>
    /\ block_state = "NEW_HDR" /\ tmp_in # <<>> => gz_hdr.hcrc = SumAt(next_in \o rest)
    /\ block_state \in {"GZIP_EXTRA_LEN", "GZIP_EXTRA", "GZIP_NAME", "GZIP_COMMENT"}
         /\ Has(gz_hdr.flags, HCRC_FLAG) => gz_hdr.hcrc = SumAt(next_in \o rest)
    /\ block_state = "GZIP_HCRC" => gz_hdr.hcrc = SumAt(Coming)
SumInv ==
  ~ WithinMember /\ crc_flag = "gzip_no_hdr_ver" =>
    /\ field \in SumFields => FromStart
    /\ field = "base" => hcrc = SumAt(start_in \o rest) /\ flags = -1
    /\ field \in SumFields \ {"base"} /\ Has(flags, HCRC_FLAG) => hcrc = SumAt(start_in \o rest)
    /\ field = "sum" => Has(flags, HCRC_FLAG)
    /\ field = "hcrc" => hcrc = SumAt(Coming) /\ gz_hdr.hcrc = hcrc
    /\ SumWaits /\ HeaderShort

LEMMA WholeTypes ==
  ASSUME Inv
  PROVE  /\ file.dict \o user \in Seq(Nat) /\ Len(file.dict \o user) = Len(file.dict) + Len(user)
         /\ Drop(file.dict \o user, base) \in Seq(Nat)
         /\ Len(Drop(file.dict \o user, base)) = Len(file.dict) + Len(user) - base
         /\ tmp_out \in Seq(Nat) /\ user \in Seq(Nat) /\ file.dict \in Seq(Nat)
         /\ processed \in Nat /\ processed <= Len(tmp_out) /\ base \in Nat /\ base <= Len(user)
         /\ Whole \in Seq(Nat) /\ View \in Seq(Nat)
         /\ Len(View) = Len(file.dict) + Len(user) - base + (Len(tmp_out) - processed)
         /\ Len(Whole) = Len(file.dict) + Len(user) + (Len(tmp_out) - processed)
         /\ base <= Len(Whole) /\ View = Drop(Whole, base)
<1>1. /\ file.dict \in Seq(Nat) /\ user \in Seq(Nat) /\ tmp_out \in Seq(Nat)
      /\ processed \in Nat /\ processed <= Len(tmp_out) /\ base \in Nat /\ base <= Len(user)
  <2>1. file.dict \in Seq(Nat)
    BY PlaceTypes
  <2> QED
    BY <2>1 DEF Inv, BufferInv
<1>2. PICK g : g = file.dict \o user
  OBVIOUS
<1>3. g \in Seq(Nat) /\ Len(g) = Len(file.dict) + Len(user)
  BY <1>1, <1>2
<1>4. PICK v : v = Drop(g, base)
  OBVIOUS
<1>5. PICK d : d = Drop(tmp_out, processed)
  OBVIOUS
<1>6. v \in Seq(Nat) /\ Len(v) = Len(file.dict) + Len(user) - base
  <2>1. base <= Len(g)
    BY <1>1, <1>3
  <2> QED
    <3>1. g \in Seq(Nat) /\ base \in Nat
      BY <1>1, <1>3
    <3>2. Drop(g, base) \in Seq(Nat) /\ Len(Drop(g, base)) = Len(g) - base
      BY <2>1, <3>1, Dropped, Zenon
    <3>3. v \in Seq(Nat) /\ Len(v) = Len(g) - base
      BY <1>4, <3>2, Zenon
    <3>4. Len(file.dict) \in Nat /\ Len(user) \in Nat /\ base \in Nat
      BY <1>1
    <3> QED
      BY <1>3, <3>3, <3>4
<1>7. d \in Seq(Nat) /\ Len(d) = Len(tmp_out) - processed
  BY <1>1, <1>5, Dropped
<1>8. Whole = g \o d /\ View = v \o d
  BY <1>2, <1>4, <1>5 DEF Whole, View, TextOf
<1>9. g \o d \in Seq(Nat) /\ Len(g \o d) = Len(g) + Len(d)
  BY <1>3, <1>7, Joined, Zenon
<1>10. v \o d \in Seq(Nat) /\ Len(v \o d) = Len(v) + Len(d)
  BY <1>6, <1>7
<1>11. Drop(g \o d, base) = v \o d
  <2>1. base <= Len(g)
    BY <1>1, <1>3
  <2> QED
    BY <1>1, <1>3, <1>4, <1>7, <2>1, DropJoined
<1>12. base <= Len(g \o d)
  BY <1>1, <1>3, <1>7, <1>9, SMTT(60)
<1> QED
  BY <1>1, <1>2, <1>3, <1>4, <1>6, <1>7, <1>8, <1>9, <1>10, <1>11, <1>12

LEMMA NotRefused ==
  ASSUME Inv, field # "returned", pc \in Entering \cup {"header"} \/ ret = "OK"
  PROVE  ~ RefusedNow /\ ret \notin Refused
BY DEF Inv, ControlInv, RefusedNow, Refused, Errors

(* Steps that leave the text and both buffers alone.                       *)
LEMMA TextFrame ==
  ASSUME Inv, PlaceInv, TextInv,
         UNCHANGED <<file, tmp_out, processed, user, base, write_overflow, copy_overflow>>,
         \/ RefusedNow /\ RefusedNow' /\ Said' = Said
         \/ ~ RefusedNow /\ RefusedNow' /\ ~ Said'.ok
         \/ /\ ~ RefusedNow /\ ~ RefusedNow' /\ Said'.ok /\ Said'.out = Said.out
            /\ WithinMember' \/ Here'.at # "end" => Said'.from = base,
         ~ WithinMember' => ~ WithinMember,
         block_state' \in {"CHECKSUM_CHECK", "FINISH"} =>
           block_state \in {"CHECKSUM_CHECK", "FINISH"} \/ processed = Len(tmp_out)
  PROVE  TextInv'
<1>1. Flushed(Whole)' = Flushed(Whole)
  BY DEF Flushed, Whole
<1>2. OnText' <=> OnText
  BY <1>1 DEF OnText
<1>3. RefusedNow' => TextRefused'
  <2>1. CASE RefusedNow
    BY <1>2, <2>1 DEF TextInv, TextRefused
  <2>2. CASE ~ RefusedNow /\ RefusedNow'
    <3>1. ~ Said'.ok
      BY <2>2
    <3>2. Said.out = Flushed(Whole)
      BY <2>2 DEF TextInv, TextValid
    <3>3. Before(file, Coming) \in 0 .. Len(file.units) /\ Said = SaidAt(file, Before(file, Coming))
      <4>1. Rest(file, Coming)
        BY DEF PlaceInv
      <4> QED
        BY <4>1, PlaceTypes, RestFacts, SaidAtIs DEF Said
    <3> QED
      BY <1>2, <3>1, <3>2, <3>3 DEF TextRefused, OnText
  <2> QED
    BY <2>1, <2>2
<1>4. ~ RefusedNow' => TextValid'
  BY <1>1 DEF TextInv, TextValid
<1>5. ~ WithinMember' => (tmp_out = <<>> /\ base = Len(user))'
  BY DEF TextInv
<1>6. AllGiven'
  BY DEF TextInv, AllGiven
<1> QED
  BY <1>3, <1>4, <1>5, <1>6 DEF TextInv

LEMMA ViewFrame ==
  ASSUME ViewInv, UNCHANGED <<file, tmp_out, processed, user, base, write_overflow, copy_overflow>>,
         pc \notin {"out", "end"}, pc' \notin {"out", "end"}, Going' => Going,
         copy_overflow.len = 0
  PROVE  ViewInv'
<1>1. View' = View
  BY DEF View
<1>2. /\ Loaded' <=> Loaded
      /\ EndsRight(tmp_out, View)' <=> EndsRight(tmp_out, View)
  BY <1>1 DEF Loaded, EndsRight, EndsAlike
<1> QED
  BY <1>1, <1>2 DEF ViewInv, SeenBy, CopyInView

(* Outside the loops nothing overflows.                                    *)
LEMMA NoOverflow ==
  ASSUME Inv, pc \notin {"drain", "end"} \/ ret = "OK"
  PROVE  /\ write_overflow = <<>> /\ copy_overflow.len = 0 /\ OverflowLen = 0
         /\ \A s \in Seq(Nat) : Flushed(s) = s
<1>1. OverflowLen = 0 /\ write_overflow \in Seq(Nat) /\ copy_overflow.len \in Nat
  BY DEF Inv, BufferInv
<1>2. write_overflow = <<>> /\ copy_overflow.len = 0
  BY <1>1 DEF OverflowLen
<1>3. ASSUME NEW s \in Seq(Nat) PROVE Flushed(s) = s
  <2>1. s \o <<>> = s /\ s \in Seq(Nat)
    OBVIOUS
  <2>2. Copied(s, copy_overflow.dist, copy_overflow.len) = <<>>
    BY <1>2, CopiedNone
  <2> QED
    BY <1>2, <2>1, <2>2 DEF Flushed
<1> QED
  BY <1>1, <1>2, <1>3

-----------------------------------------------------------------------------
(* Steps that neither read nor decode.                                     *)
LEMMA NoDict ==
  ASSUME Inv, OneFormat, crc_flag \in {"gzip", "gzip_no_hdr_ver"}
  PROVE  file.dict = <<>>
<1>1. file \in Files /\ file.flag \notin {"deflate", "zlib"}
  BY DEF Inv, ControlInv, OneFormat
<1> QED
  BY <1>1, DictAssumption

LEMMA TextQuiet ==
  ASSUME Inv, PlaceInv, TextInv, Coming' = Coming,
         UNCHANGED <<file, tmp_out, processed, user, base, write_overflow, copy_overflow>>,
         RefusedNow' <=> RefusedNow, WithinMember' <=> WithinMember, block_state' = block_state
  PROVE  TextInv'
<1>1. Said' = Said /\ Here' = Here
  BY DEF Said, Here
<1>2. ~ RefusedNow => /\ Said'.ok /\ Said'.out = Said.out
                      /\ WithinMember' \/ Here'.at # "end" => Said'.from = base
  BY <1>1 DEF TextInv, TextValid
<1> QED
  BY <1>1, <1>2, TextFrame

(* Calls, and the starts and ends of their parts.                          *)
QuietStep ==
  \/ \E n \in InSizes : (\E o \in OutSizes : Call(n, o)) \/ CallHeader(n)
  \/ StartHeader \/ EndHeader \/ Begin
QuietFrame ==
  /\ UNCHANGED <<file, crc_flag, wrapper_flag, block_state, read_in, tmp_in>>
  /\ UNCHANGED <<tmp_out, processed, user, base, write_overflow, copy_overflow>>
  /\ Coming' = Coming /\ (RefusedNow' <=> RefusedNow)
  /\ pc \notin {"out", "end"} /\ pc' \notin {"out", "end"} /\ copy_overflow.len = 0
LEMMA QuietSteps ==
  ASSUME Inv, QuietStep
  PROVE  QuietFrame
<1>0. pc \notin {"drain", "end"} => copy_overflow.len = 0
  BY NoOverflow
<1>1. ASSUME NEW n \in InSizes, NEW o \in OutSizes, Call(n, o) PROVE QuietFrame
  <2>1. n \in Nat
    BY InflateAssumption
  <2>2. Coming' = Coming
    BY <1>1, <2>1, SupplyComing DEF Call
  <2>3. field = "none" /\ ret \notin Refused
    BY <1>1 DEF Call, Inv, HeaderInv
  <2>4. pc = "idle" /\ pc' \in {"wrapper", "zlib", "trailer", "begin"} /\ ret' = "OK" /\ field' = field
        /\ UNCHANGED <<file, crc_flag, wrapper_flag, block_state, read_in, tmp_in>>
        /\ UNCHANGED <<tmp_out, processed, user, base, write_overflow, copy_overflow>>
    BY <1>1 DEF Call, params, block, over, header, hdr_locals
  <2> QED
    BY <1>0, <2>2, <2>3, <2>4 DEF QuietFrame, RefusedNow, Refused, Errors
<1>2. ASSUME NEW n \in InSizes, CallHeader(n) PROVE QuietFrame
  <2>1. n \in Nat
    BY InflateAssumption
  <2>2. Coming' = Coming
    BY <1>2, <2>1, SupplyComing DEF CallHeader
  <2>3. field = "none" /\ ret \notin Refused
    BY <1>2 DEF CallHeader, Inv, HeaderInv
  <2>4. pc = "idle" /\ pc' = "header" /\ ret' = ret /\ field' = field
        /\ UNCHANGED <<file, crc_flag, wrapper_flag, block_state, read_in, tmp_in>>
        /\ UNCHANGED <<tmp_out, processed, user, base, write_overflow, copy_overflow>>
    BY <1>2 DEF CallHeader, params, block, over, output, hdr_locals
  <2> QED
    BY <1>0, <2>2, <2>3, <2>4 DEF QuietFrame, RefusedNow
<1>3. CASE StartHeader
  <2>1. /\ pc \in {"header", "wrapper"} /\ pc' = pc /\ ret' = ret /\ field = "none"
        /\ field' = Resumes[block_state]
        /\ UNCHANGED <<file, crc_flag, wrapper_flag, block_state, read_in, tmp_in, next_in, rest>>
        /\ UNCHANGED <<tmp_out, processed, user, base, write_overflow, copy_overflow>>
    BY <1>3 DEF StartHeader, EnterHeader, outside_header, params, over, output
  <2>2. field' # "returned"
    <3>1. block_state \in WrapperStates
      BY <2>1 DEF Inv, ControlInv, HeaderInv, WithinMember
    <3> QED
      BY <2>1, <3>1 DEF WrapperStates, Resumes
  <2>3. Coming' = Coming
    BY <2>1, ComingSame
  <2> QED
    BY <1>0, <2>1, <2>2, <2>3 DEF QuietFrame, RefusedNow
<1>4. CASE EndHeader
  <2>1. /\ pc \in {"header", "wrapper"} /\ pc' \in {"idle", "begin"} /\ field = "returned" /\ field' = "none"
        /\ UNCHANGED <<file, crc_flag, wrapper_flag, block_state, read_in, tmp_in, next_in, rest>>
        /\ UNCHANGED <<tmp_out, processed, user, base, write_overflow, copy_overflow>>
    BY <1>4 DEF EndHeader, LeaveHeader, outside_header, params, over, output
  <2>2. Coming' = Coming
    BY <2>1, ComingSame
  <2>3. ret \notin Refused
    BY <2>1 DEF Inv, ControlInv, Entering, Refused, Errors
  <2>4. ret' \in Refused <=> hdr_ret \in Refused
    BY <1>4, <2>3 DEF EndHeader, LeaveHeader, Returned, Refused, Errors
  <2> QED
    BY <1>0, <2>1, <2>2, <2>3, <2>4 DEF QuietFrame, RefusedNow
<1>5. CASE Begin
  <2>1. /\ pc = "begin" /\ pc' \in {"tmp", "drain"} /\ ret' = ret /\ field' = field /\ hdr_ret' = hdr_ret
        /\ UNCHANGED <<file, crc_flag, wrapper_flag, block_state, read_in, tmp_in, next_in, rest>>
        /\ UNCHANGED <<tmp_out, processed, user, base, write_overflow, copy_overflow>>
    BY <1>5 DEF Begin, input, params, block, over, header, hdr_locals
  <2>2. Coming' = Coming
    BY <2>1, ComingSame
  <2> QED
    BY <1>0, <2>1, <2>2 DEF QuietFrame, RefusedNow
<1> QED
  BY <1>1, <1>2, <1>3, <1>4, <1>5 DEF QuietStep

LEMMA TextQuietStep ==
  ASSUME Inv, PlaceInv, TextInv, QuietStep
  PROVE  TextInv'
BY QuietSteps, TextQuiet DEF QuietFrame, WithinMember

LEMMA ViewQuietStep ==
  ASSUME Inv, ViewInv, QuietStep
  PROVE  ViewInv'
<1>1. QuietFrame
  BY QuietSteps
<1> QED
  BY <1>1, ViewFrame DEF QuietFrame, Going

LEMMA JoinNone ==
  ASSUME NEW s \in Seq(Nat)
  PROVE  s \o <<>> = s /\ <<>> \o s = s
OBVIOUS

(* Nothing decoded, nothing given: the text is the dictionary.             *)
LEMMA TextBegins ==
  ASSUME Inv, user = <<>>, base = 0, processed = Len(tmp_out)
  PROVE  Whole = file.dict /\ View = file.dict
<1>1. file.dict \in Seq(Nat) /\ tmp_out \in Seq(Nat) /\ file.dict \o user = file.dict
  BY WholeTypes, JoinNone
<1>2. Drop(file.dict, 0) = file.dict
  BY <1>1, DropNone
<1> QED
  BY <1>1, <1>2, TextAll DEF Whole, View

LEMMA TextInit ==
  ASSUME Init
  PROVE  TextInv /\ ViewInv
<1>1. Inv /\ PlaceInv
  BY InvInit, PlaceInit
<1>2. Coming = file.units
  <2>1. file.units \in Seq(FileUnits)
    BY <1>1, PlaceTypes
  <2>2. <<>> \o file.units = file.units
    BY <2>1
  <2> QED
    BY <2>2 DEF Init, Coming, ComingOf
<1>3. Said = Nothing(file)
  BY <1>1, <1>2, PlaceTypes, RestWhole DEF Said
<1>4. /\ ret = "DECOMP_OK" /\ field = "none" /\ pc = "idle" /\ block_state = "NEW_HDR"
      /\ user = <<>> /\ base = 0 /\ processed = 0 /\ tmp_out = <<>> /\ copy_overflow.len = 0
  BY DEF Init, NoCopy
<1>5. Whole = file.dict /\ View = file.dict /\ file.dict \in Seq(Nat)
  BY <1>1, <1>4, TextBegins, PlaceTypes
<1>6. Flushed(file.dict) = file.dict
  BY <1>1, <1>4, <1>5, NoOverflow
<1>7. ~ RefusedNow
  BY <1>4 DEF RefusedNow, Refused, Errors
<1>8. TextValid
  BY <1>3, <1>4, <1>5, <1>6 DEF TextValid, Nothing, Says
<1>9. TextInv
  BY <1>4, <1>7, <1>8 DEF TextInv, AllGiven
<1>10. ASSUME Loaded PROVE SeenBy(tmp_out)
  <2>1. View = <<>>
    BY <1>4, <1>5, <1>10 DEF Loaded
  <2> QED
    BY <1>1, <2>1, RightNone DEF SeenBy, Inv, BufferInv
<1>11. processed <= Len(file.dict) + Len(user) - base
  BY <1>4, <1>5
<1> QED
  BY <1>4, <1>9, <1>10, <1>11 DEF ViewInv, CopyInView

LEMMA DictInit ==
  ASSUME Init
  PROVE  DictInv /\ SumInv
<1>1. Inv /\ PlaceInv
  BY InvInit, PlaceInit
<1>2. Coming = file.units
  <2>1. file.units \in Seq(FileUnits)
    BY <1>1, PlaceTypes
  <2>2. <<>> \o file.units = file.units
    BY <2>1
  <2> QED
    BY <2>2 DEF Init, Coming, ComingOf
<1>3. file.dict # <<>> => crc_flag \in {"deflate", "zlib"}
  BY DictAssumption DEF Init
<1>4. crc_flag = "zlib" => BaseNext
  BY <1>2 DEF Init, BaseNext
<1>5. DictInv
  BY <1>3, <1>4 DEF DictInv, Loaded, Init
<1>6. SumWaits /\ HeaderShort
  BY DEF SumWaits, HeaderShort, At, Init, GZIP_HDR_BASE
<1> QED
  BY <1>5, <1>6 DEF SumInv, SumFields, Init

(* A dictionary is set before anything is decoded.                         *)
LEMMA DictSets ==
  ASSUME Inv, DictInv, SetDict
  PROVE  /\ ~ Loaded /\ user = <<>> /\ base = 0 /\ processed = Len(tmp_out) /\ tmp_out = <<>>
         /\ crc_flag \in {"deflate", "zlib"} /\ ret \in {"DECOMP_OK", "NEED_DICT"} /\ field = "none"
         /\ WithinMember
<1>1. ~ Loaded /\ processed = Len(tmp_out) /\ tmp_out = <<>> /\ pc = "idle" /\ block_state = "NEW_HDR"
  BY DEF SetDict, DictDue, Loaded
<1>2. user = <<>> /\ base = 0
  <2>1. user = <<>>
    BY <1>1 DEF DictInv
  <2> QED
    BY <2>1 DEF Inv, BufferInv
<1>3. crc_flag = "zlib" => ret = "NEED_DICT" /\ wrapper_flag
  BY <1>1 DEF SetDict, DictDue, DictInv, DictAsked, IdWaits, IdNext, BaseNext
<1>4. crc_flag = "deflate" => ret = "DECOMP_OK"
  BY <1>1 DEF DictInv
<1>5. crc_flag \in {"deflate", "zlib"}
  BY <1>1 DEF DictInv
<1>6. field = "none"
  BY <1>1 DEF Inv, HeaderInv
<1> QED
  BY <1>1, <1>2, <1>3, <1>4, <1>5, <1>6 DEF WithinMember

LEMMA TextSetDict ==
  ASSUME Inv, PlaceInv, TextInv, ViewInv, DictInv, SetDict
  PROVE  TextInv' /\ ViewInv' /\ DictInv' /\ SumInv'
<1>1. /\ ~ Loaded /\ user = <<>> /\ base = 0 /\ processed = Len(tmp_out) /\ tmp_out = <<>>
      /\ crc_flag \in {"deflate", "zlib"} /\ ret \in {"DECOMP_OK", "NEED_DICT"} /\ field = "none"
      /\ WithinMember
  BY DictSets
<1>2. /\ pc = "idle" /\ pc' = pc /\ ret' = "DECOMP_OK" /\ field' = field /\ file' = file
      /\ UNCHANGED <<rest, next_in, tmp_in, read_in, block_state, wrapper_flag, crc_flag, user, base>>
      /\ UNCHANGED <<write_overflow, copy_overflow>> /\ block_state = "NEW_HDR"
  BY DEF SetDict, params, input, block, over, header, hdr_locals
<1>3. Coming' = Coming
  BY <1>2, ComingSame
<1>4. Inv'
  BY InvSetDict
<1>5. /\ file.dict \in Seq(Nat) /\ file.dict # <<>>
      /\ tmp_out' = Drop(file.dict, Len(file.dict) - Least(Len(file.dict), Hist))
      /\ processed' = Least(Len(file.dict), Hist)
  BY PlaceTypes DEF SetDict, DictDue
<1>6. PICK n \in Nat : n = Least(Len(file.dict), Hist) /\ n <= Len(file.dict) /\ n <= Hist
                       /\ (n = Len(file.dict) \/ n = Hist) /\ Hist \in Nat /\ Hist > 0
                       /\ Len(file.dict) \in Nat /\ Len(file.dict) > 0
  <2>1. Len(file.dict) \in Nat /\ Hist \in Nat /\ Len(file.dict) > 0 /\ Hist > 0
    BY <1>5, InflateAssumption
  <2> QED
    BY <2>1, LeastOf
<1>20. PICK k \in Nat : k = Len(file.dict)
  BY <1>6
<1>21. PICK a \in Nat : a = k - n /\ a <= k /\ a + n = k
  <2>1. k - n \in Nat /\ n <= k
    BY <1>6, <1>20
  <2> QED
    BY <2>1
<1>7. tmp_out' \in Seq(Nat) /\ Len(tmp_out') = n /\ processed' = n /\ tmp_out' = Drop(file.dict, a)
  <2>1. tmp_out' = Drop(file.dict, a) /\ processed' = n
    BY <1>5, <1>6, <1>20, <1>21
  <2>2. Drop(file.dict, a) \in Seq(Nat) /\ Len(Drop(file.dict, a)) = k - a
    BY <1>5, <1>20, <1>21, Dropped
  <2> QED
    BY <1>21, <2>1, <2>2
<1>8. Whole = file.dict /\ View = file.dict
  BY <1>1, TextBegins
<1>9. Whole' = file.dict /\ View' = file.dict
  <2>1. file.dict \o <<>> = file.dict
    BY <1>5, JoinNone
  <2>2. Drop(file.dict, 0) = file.dict
    BY <1>5, DropNone
  <2>3. TextOf(file.dict, tmp_out', Len(tmp_out')) = file.dict
    BY <1>5, <1>7, TextAll
  <2> QED
    BY <1>1, <1>2, <1>7, <2>1, <2>2, <2>3 DEF Whole, View
<1>10. Flushed(Whole)' = Flushed(Whole)
  BY <1>2, <1>8, <1>9 DEF Flushed
<1>11. ~ RefusedNow /\ ~ RefusedNow'
  BY <1>1, <1>2 DEF RefusedNow, Refused, Errors
<1>12. TextValid'
  <2>1. Said' = Said /\ Here' = Here
    BY <1>2, <1>3 DEF Said, Here
  <2>2. WithinMember'
    BY <1>1, <1>2 DEF WithinMember
  <2> QED
    BY <1>1, <1>2, <1>10, <1>11, <2>1, <2>2 DEF TextInv, TextValid
<1>13. TextInv'
  <2>1. WithinMember'
    BY <1>1, <1>2 DEF WithinMember
  <2> QED
    BY <1>2, <1>11, <1>12, <2>1 DEF TextInv, AllGiven
<1>14. SeenBy(tmp_out)'
  <2>1. EndsRight(tmp_out', file.dict)
    <3>1. CASE n = Len(file.dict)
      <4>1. tmp_out' = file.dict
        <5>1. a = 0
          BY <1>20, <1>21, <3>1
        <5> QED
          BY <1>5, <1>7, <5>1, DropNone
      <4>2. Least(Hist, Len(file.dict)) \in Nat /\ Least(Hist, Len(file.dict)) <= Len(file.dict)
        BY <1>6, LeastOf
      <4> QED
        BY <4>1, <4>2 DEF EndsRight, EndsAlike
    <3>2. CASE n = Hist
      <4>1. a + Hist <= Len(file.dict)
        BY <1>20, <1>21, <3>2
      <4> QED
        BY <1>5, <1>7, <4>1, LastRight
    <3> QED
      BY <1>6, <3>1, <3>2
  <2> QED
    BY <1>9, <2>1 DEF SeenBy
<1>15. processed' <= Len(file'.dict) + Len(user') - base'
  BY <1>1, <1>2, <1>6, <1>7
<1>16. CopyInView'
  <2>1. copy_overflow.len = 0
    BY <1>2, NoOverflow
  <2> QED
    BY <1>2, <2>1 DEF CopyInView
<1>17. Loaded'
  BY <1>6, <1>7 DEF Loaded
<1>18. WithinMember'
  BY <1>1, <1>2 DEF WithinMember
<1> QED
  BY <1>2, <1>13, <1>14, <1>15, <1>16, <1>17, <1>18 DEF ViewInv, DictInv, SumInv

LEMMA TextNextMember ==
  ASSUME Inv, PlaceInv, TextInv, NEW n \in InSizes, NextMember(n)
  PROVE  TextInv' /\ ViewInv' /\ DictInv' /\ SumInv'
<1>1. /\ pc = "idle" /\ ret \notin Refused /\ block_state = "FINISH"
      /\ block_state' = "NEW_HDR" /\ wrapper_flag' = FALSE /\ crc_flag' = "gzip"
      /\ ret' = ret /\ pc' = pc /\ file' = file
      /\ UNCHANGED hdr_locals /\ field = "none" /\ WithinMember
      /\ Here.at = "end" /\ OneFormat /\ Gzip(file.flag) /\ Coming' = Coming
  BY NextTakes
<1>2. /\ user' = user /\ base' = Len(user) /\ tmp_out' = <<>> /\ processed' = 0
      /\ write_overflow' = <<>> /\ copy_overflow' = NoCopy /\ field' = field
  BY DEF NextMember, hdr_locals
<1>3. file.dict = <<>>
  BY <1>1, FormatFacts, NoDict
<1>4. user \in Seq(Nat) /\ tmp_out \in Seq(Nat) /\ file.dict \o user = user /\ Len(user) \in Nat
  BY <1>3, WholeTypes, JoinNone
<1>5. processed = Len(tmp_out)
  BY <1>1 DEF TextInv, AllGiven
<1>6. Whole = user
  BY <1>4, <1>5, TextAll DEF Whole
<1>7. Whole' = user /\ View' = <<>>
  <2>4. <<>> \in Seq(Nat) /\ Len(<<>>) = 0
    OBVIOUS
  <2>1. TextOf(user, <<>>, 0) = user
    BY <1>4, <2>4, TextAll
  <2>2. Drop(user, Len(user)) = <<>>
    BY <1>4, DropEmpties
  <2>3. TextOf(<<>>, <<>>, 0) = <<>>
    BY <2>4, TextAll
  <2> QED
    BY <1>1, <1>2, <1>4, <2>1, <2>2, <2>3 DEF Whole, View
<1>8. Flushed(Whole) = user
  BY <1>1, <1>4, <1>6, NoOverflow
<1>9. Inv'
  BY InvNextMember
<1>10. Flushed(Whole)' = user
  <2>1. user \o <<>> = user /\ Copied(user, 0, 0) = <<>>
    BY <1>4, JoinNone, CopiedNone
  <2> QED
    BY <1>2, <1>7, <2>1 DEF Flushed, NoCopy
<1>11. ~ RefusedNow /\ ~ RefusedNow'
  BY <1>1, <1>2 DEF RefusedNow
<1>12. Said' = Said /\ Here' = Here
  BY <1>1 DEF Said, Here
<1>13. ~ WithinMember'
  BY <1>1 DEF WithinMember
<1>14. TextValid'
  BY <1>1, <1>8, <1>10, <1>11, <1>12, <1>13 DEF TextInv, TextValid
<1>15. TextInv'
  BY <1>1, <1>2, <1>11, <1>14 DEF TextInv, AllGiven
<1>16. SeenBy(tmp_out)'
  <2>0. <<>> \in Seq(Nat)
    OBVIOUS
  <2>1. EndsRight(<<>>, <<>>)
    BY <2>0, RightNone
  <2> QED
    BY <1>2, <1>7, <2>1 DEF SeenBy
<1>17. ViewInv'
  BY <1>1, <1>2, <1>3, <1>4, <1>16 DEF ViewInv, CopyInView, NoCopy
<1> QED
  BY <1>1, <1>3, <1>15, <1>17 DEF DictInv, SumInv, Loaded

LEMMA CallSupplies ==
  ASSUME Inv, NEW n \in InSizes, Supply(n)
  PROVE  /\ n \in Nat /\ next_in' \o rest' = next_in \o rest
         /\ rest' = <<>> \/ Len(next_in') >= n
         /\ rest = <<>> => rest' = <<>> /\ next_in' = next_in
<1>1. n \in Nat /\ rest \in Seq(FileUnits) /\ next_in \in Seq(FileUnits)
  BY InflateAssumption, PlaceTypes
<1>2. next_in' \o rest' = next_in \o rest
  BY <1>1, SupplyAhead
<1>3. PICK r \in Nat, k \in Nat : r = Len(rest) /\ k = Least(n, r) /\ k <= r /\ (k = n \/ k = r)
  <2>1. Len(rest) \in Nat
    BY <1>1
  <2> QED
    BY <1>1, <2>1, LeastOf
<1>4. next_in' = next_in \o Take(rest, k) /\ rest' = Drop(rest, k)
  BY <1>3 DEF Supply
<1>5. Take(rest, k) \in Seq(FileUnits) /\ Len(Take(rest, k)) = k
  BY <1>1, <1>3, Taken1
<1>6. k = r => rest' = <<>>
  BY <1>1, <1>3, <1>4, DropEmpties
<1>7. Len(next_in') = Len(next_in) + k /\ Len(next_in) \in Nat
  <2>1. PICK t \in Seq(FileUnits) : t = Take(rest, k) /\ Len(t) = k
    BY <1>5
  <2>2. Len(next_in \o t) = Len(next_in) + Len(t) /\ Len(next_in) \in Nat
    BY <1>1, Joined
  <2> QED
    BY <1>4, <2>1, <2>2
<1>8. ASSUME rest = <<>> PROVE rest' = <<>> /\ next_in' = next_in
  <2>1. k = 0 /\ r = 0
    BY <1>3, <1>8
  <2>2. Take(rest, k) = <<>>
    BY <1>5, <2>1
  <2>3. next_in \o <<>> = next_in
    BY <1>1
  <2> QED
    BY <1>3, <1>4, <1>6, <2>1, <2>2, <2>3
<1> QED
  BY <1>1, <1>2, <1>3, <1>6, <1>7, <1>8

LEMMA DictQuietStep ==
  ASSUME Inv, PlaceInv, DictInv, ~ SplitHeaders, QuietStep
  PROVE  DictInv'
<1>1. QuietFrame
  BY QuietSteps
<1>2. Loaded' <=> Loaded
  BY <1>1 DEF Loaded, QuietFrame
<1> SUFFICES ASSUME ~ Loaded PROVE DictInv'
  BY <1>2 DEF DictInv
<1>3. user = <<>> /\ file.dict # <<>> /\ tmp_out = <<>>
  BY DEF DictInv, Loaded
<1>4. pc \notin {"header", "wrapper", "begin"} /\ crc_flag \in {"deflate", "zlib"}
  BY DEF DictInv, DictAsked, IdWaits, IdNext, BaseNext
<1>5. PICK n \in InSizes, o \in OutSizes : Call(n, o)
  BY <1>4 DEF QuietStep, CallHeader, StartHeader, EndHeader, Begin
<1>6. pc = "idle" /\ ret # "NEED_DICT" /\ ret \notin Refused /\ crc_flag = "zlib" /\ ~ wrapper_flag
      /\ (IdWaits \/ BaseNext)
  BY <1>3, <1>5 DEF Call, DictDue, DictInv, DictAsked, IdWaits, IdNext, BaseNext
<1>7. n >= 4 /\ Supply(n)
  BY <1>3, <1>5, <1>6 DEF Call, DictNamed, ZLIB_HDR_BASE, ZLIB_DICT_LEN
<1>8. rest' = <<>> \/ Len(next_in') >= 4
  BY <1>7, CallSupplies, PlaceTypes, SupplyOK
<1>9. rest = <<>> => rest' = <<>> /\ next_in' = next_in
  BY <1>7, CallSupplies
<1>10. pc' = "zlib" /\ ret' = "OK"
  BY <1>5, <1>6 DEF Call
<1>11. Starved => Starved'
  BY <1>1, <1>9 DEF Starved, QuietFrame
<1>12. CASE IdWaits
  <2>1. IdWaits'
    BY <1>1, <1>10, <1>11, <1>12 DEF IdWaits, QuietFrame
  <2> QED
    BY <1>1, <1>3, <1>6, <2>1 DEF DictInv, QuietFrame
<1>13. CASE BaseNext
  <2>1. BaseNext'
    BY <1>1, <1>6, <1>8, <1>10, <1>11, <1>13 DEF BaseNext, QuietFrame, ZLIB_HDR_BASE, ZLIB_DICT_LEN
  <2> QED
    BY <1>1, <1>3, <1>6, <2>1 DEF DictInv, QuietFrame
<1> QED
  BY <1>6, <1>12, <1>13

-----------------------------------------------------------------------------
(* The checksum of the header, one part after the other.                   *)
LEMMA SumStarts ==
  ASSUME Inv
  PROVE  SumAt(file.units) = 0
<1>1. file.units \in Seq(FileUnits) /\ Len(file.units) \in Nat
  BY PlaceTypes
<1>2. Before(file, file.units) = 0
  BY <1>1 DEF Before
<1>3. Values(Take(file.units, 0)) = <<>>
  <2>1. Take(file.units, 0) \in Seq(FileUnits) /\ Len(Take(file.units, 0)) = 0
    BY <1>1, Taken1
  <2> QED
    BY <2>1, ValuesSeq
<1>4. 0 \in Nat
  OBVIOUS
<1> QED
  BY <1>2, <1>3, <1>4, ExtendedNone DEF SumAt

LEMMA TakesJoin ==
  ASSUME NEW u \in Seq(FileUnits), NEW b \in Nat, NEW k \in Nat, b + k <= Len(u)
  PROVE  Values(Take(u, b + k)) = Values(Take(u, b)) \o Values(Take(Drop(u, b), k))
<1>1. /\ Take(u, b + k) \in Seq(FileUnits) /\ Len(Take(u, b + k)) = b + k
      /\ Take(u, b) \in Seq(FileUnits) /\ Len(Take(u, b)) = b
      /\ Drop(u, b) \in Seq(FileUnits) /\ Len(Drop(u, b)) = Len(u) - b
  <2>1. b + k \in 0 .. Len(u) /\ b \in 0 .. Len(u) /\ b <= Len(u)
    OBVIOUS
  <2> QED
    BY <2>1, Taken1, Dropped
<1>2. Take(Drop(u, b), k) \in Seq(FileUnits) /\ Len(Take(Drop(u, b), k)) = k
  <2>1. k \in 0 .. Len(Drop(u, b))
    BY <1>1
  <2> QED
    BY <1>1, <2>1, Taken1
<1>3. PICK x, y, z : x = Take(u, b + k) /\ y = Take(u, b) /\ z = Take(Drop(u, b), k)
  OBVIOUS
<1>4. /\ \A i \in 1 .. b + k : x[i] = u[i]
      /\ \A i \in 1 .. b : y[i] = u[i]
      /\ \A i \in 1 .. k : z[i] = u[b + i]
  <2>1. /\ \A i \in 1 .. b + k : x[i] = u[i]
        /\ \A i \in 1 .. b : y[i] = u[i]
    BY <1>3 DEF Take
  <2>2. \A i \in 1 .. k : Drop(u, b)[i] = u[b + i]
    BY DEF Drop
  <2>3. \A i \in 1 .. k : z[i] = Drop(u, b)[i]
    BY <1>1, <1>3 DEF Take
  <2> QED
    BY <2>1, <2>2, <2>3
<1>5. /\ Values(x) \in Seq(Nat) /\ Len(Values(x)) = b + k
      /\ Values(y) \in Seq(Nat) /\ Len(Values(y)) = b
      /\ Values(z) \in Seq(Nat) /\ Len(Values(z)) = k
  BY <1>1, <1>2, <1>3, ValuesSeq
<1>6. /\ \A i \in 1 .. b + k : Values(x)[i] = u[i].value
      /\ \A i \in 1 .. b : Values(y)[i] = u[i].value
      /\ \A i \in 1 .. k : Values(z)[i] = u[b + i].value
  BY <1>1, <1>2, <1>3, <1>4 DEF Values
<1>7. PICK p \in Seq(Nat), q \in Seq(Nat), r \in Seq(Nat) : p = Values(x) /\ q = Values(y) /\ r = Values(z)
  BY <1>5
<1>8. Joins(q \o r, q, r) /\ Len(q) = b /\ Len(r) = k
  BY <1>5, <1>7, JoinedParts
<1>9. q \o r \in Seq(Nat) /\ Len(q \o r) = b + k
      /\ \A i \in 1 .. b + k : (q \o r)[i] = u[i].value
  <2>1. \A i \in 1 .. b : (q \o r)[i] = u[i].value
    BY <1>6, <1>7, <1>8 DEF Joins
  <2>2. \A i \in 1 .. k : (q \o r)[b + i] = u[b + i].value
    <3> SUFFICES ASSUME NEW i \in 1 .. k PROVE (q \o r)[b + i] = u[b + i].value
      OBVIOUS
    <3>1. (q \o r)[Len(q) + i] = r[i]
      BY <1>8 DEF Joins
    <3>2. r[i] = u[b + i].value
      BY <1>6, <1>7
    <3> QED
      BY <1>8, <3>1, <3>2
  <2>3. \A i \in 1 .. b + k : i \in 1 .. b \/ (i - b \in 1 .. k /\ i = b + (i - b))
    OBVIOUS
  <2>4. q \o r \in Seq(Nat) /\ Len(q \o r) = b + k
    BY <1>8 DEF Joins
  <2> QED
    BY <2>1, <2>2, <2>3, <2>4
<1>10. p = q \o r
  <2>1. p \in Seq(Nat) /\ Len(p) = b + k /\ \A i \in 1 .. b + k : p[i] = u[i].value
    BY <1>5, <1>6, <1>7
  <2> QED
    BY <1>9, <2>1, SameSeq
<1> QED
  BY <1>3, <1>7, <1>10

LEMMA SumOn ==
  ASSUME Inv, NEW s, Rest(file, s), NEW k \in Nat, k <= Len(s)
  PROVE  Extended(SumAt(s), Values(Take(s, k))) = SumAt(Drop(s, k))
<1>1. PICK u \in Seq(FileUnits) : u = file.units
  BY PlaceTypes
<1>2. PICK b \in Nat : b = Before(file, s) /\ s = Drop(u, b) /\ b + Len(s) = Len(u) /\ Len(s) \in Nat
  BY <1>1, RestFacts
<1>3. Before(file, Drop(s, k)) = b + k
  BY <1>1, <1>2, RestDrop
<1>4. b + k <= Len(u)
  BY <1>2
<1>8. Values(Take(u, b + k)) = Values(Take(u, b)) \o Values(Take(Drop(u, b), k))
  BY <1>4, TakesJoin
<1>5. Values(Take(u, b + k)) = Values(Take(u, b)) \o Values(Take(s, k))
  BY <1>2, <1>8, Zenon
<1>6. Values(Take(u, b)) \in Seq(Nat) /\ Values(Take(s, k)) \in Seq(Nat) /\ 0 \in Nat
  <2>1. b \in 0 .. Len(u) /\ k \in 0 .. Len(s)
    BY <1>2
  <2>2. s \in Seq(FileUnits)
    BY <1>1, RestFacts
  <2> QED
    BY <2>1, <2>2, Taken1, ValuesSeq
<1>7. Extended(Extended(0, Values(Take(u, b))), Values(Take(s, k))) = Extended(0, Values(Take(u, b + k)))
  <2>1. Extended(Extended(0, Values(Take(u, b))), Values(Take(s, k)))
        = Extended(0, Values(Take(u, b)) \o Values(Take(s, k)))
    BY <1>6, ExtendedTwice, Zenon
  <2> QED
    BY <1>5, <2>1, Zenon
<1> QED
  BY <1>1, <1>2, <1>3, <1>7 DEF SumAt

(* What this call has taken, when the input has come to next.              *)
LEMMA SumTaken ==
  ASSUME Inv, FromStart, NEW p \in 0 .. Len(start_in), NEW next, next = Drop(start_in, p)
  PROVE  Extended(SumAt(start_in \o rest), Taken(next)) = SumAt(next \o rest)
<1>1. start_in \in Seq(FileUnits) /\ rest \in Seq(FileUnits) /\ Rest(file, start_in \o rest)
  BY PlaceTypes DEF FromStart
<1>2. PICK n \in Nat : n = Len(start_in) /\ p <= n
  BY <1>1
<1>3. Len(next) = n - p
  BY <1>1, <1>2, Dropped
<1>4. Take(start_in, p) = Take(start_in \o rest, p)
  <2>1. PICK w : w = start_in \o rest /\ w \in Seq(FileUnits) /\ Len(w) >= n
              /\ \A i \in 1 .. n : w[i] = start_in[i]
    <3>1. Len(rest) \in Nat
      BY <1>1
    <3>2. start_in \o rest \in Seq(FileUnits) /\ Len(start_in \o rest) = Len(start_in) + Len(rest)
      BY <1>1, Joined, Zenon
    <3>3. \A i \in 1 .. Len(start_in) : (start_in \o rest)[i] = start_in[i]
      BY <1>1, JoinedAt, Zenon
    <3>4. Len(start_in \o rest) >= n
      BY <1>2, <3>1, <3>2
    <3> QED
      BY <1>2, <3>2, <3>3, <3>4
  <2> QED
    BY <1>1, <1>2, <2>1 DEF Take
<1>5. Taken(next) = Values(Take(start_in \o rest, p))
  <2>1. Len(start_in) - Len(next) = p
    BY <1>2, <1>3
  <2> QED
    BY <1>4, <2>1 DEF Taken
<1>6. Drop(start_in \o rest, p) = next \o rest
  <2>1. p \in Nat /\ p <= Len(start_in)
    BY <1>2
  <2>2. Drop(start_in, p) \o rest = Drop(start_in \o rest, p)
    BY <1>1, <2>1, DropFront, Zenon
  <2> QED
    BY <2>2, Zenon
<1>7. p <= Len(start_in \o rest)
  <2>1. Len(start_in \o rest) = n + Len(rest) /\ Len(rest) \in Nat
    BY <1>1, <1>2, Joined
  <2> QED
    BY <1>2, <2>1
<1>8. p \in Nat
  OBVIOUS
<1>9. Extended(SumAt(start_in \o rest), Values(Take(start_in \o rest, p))) = SumAt(Drop(start_in \o rest, p))
  BY <1>1, <1>7, <1>8, SumOn, Zenon
<1> QED
  BY <1>5, <1>6, <1>9, Zenon

(* However a field is read, what is left of the input is the end of it.    *)
Drops1(next) == \E k \in 0 .. Len(next_in) : next = Drop(next_in, k)

LEMMA DropsAll ==
  ASSUME next_in \in Seq(FileUnits)
  PROVE  Drops1(<<>>) /\ Drops1(next_in)
<1>1. Len(next_in) \in 0 .. Len(next_in) /\ 0 \in 0 .. Len(next_in)
  OBVIOUS
<1>2. Drop(next_in, Len(next_in)) = <<>> /\ Drop(next_in, 0) = next_in
  BY DropEmpties, DropNone
<1> QED
  BY <1>1, <1>2 DEF Drops1

LEMMA FixedDrops ==
  ASSUME next_in \in Seq(FileUnits), tmp_in \in Seq(FileUnits), NEW n \in 1 .. 3, Len(tmp_in) < n
  PROVE  LET read == fixed_size_read(n)
         IN  /\ Drops1(read.next) /\ read.ret \in {"OK", "END_INPUT"}
             /\ read.ret = "END_INPUT" => Len(read.tmp) < n
             /\ read.ret = "OK" => read.tmp = <<>>
<1>1. PICK w : w = tmp_in \o next_in
  OBVIOUS
<1>2. PICK a \in Nat, b \in Nat : a = Len(tmp_in) /\ b = Len(next_in)
  OBVIOUS
<1>3. w \in Seq(FileUnits) /\ Len(w) = a + b
  BY <1>1, <1>2, Joined
<1>4. ASSUME a + b >= n PROVE Drop(w, n) = Drop(next_in, n - a) /\ n - a \in 0 .. b
  <2>1. n - a \in Nat /\ n - a <= b /\ a + (n - a) = n
    BY <1>2, <1>4
  <2>2. Drop(tmp_in \o next_in, Len(tmp_in) + (n - a)) = Drop(next_in, n - a)
    BY <1>2, <2>1, DropBehind
  <2> QED
    BY <1>1, <1>2, <2>1, <2>2
<1>5. CASE a + b >= n
  <2>1. fixed_size_read(n) = [ret |-> "OK", units |-> Take(w, n), next |-> Drop(w, n), tmp |-> <<>>]
    BY <1>1, <1>3, <1>5 DEF fixed_size_read
  <2>2. Drops1(Drop(w, n))
    BY <1>2, <1>4, <1>5 DEF Drops1
  <2> QED
    BY <2>1, <2>2
<1>6. CASE ~ (a + b >= n)
  <2>1. fixed_size_read(n) = [ret |-> "END_INPUT", units |-> <<>>, next |-> <<>>, tmp |-> w]
    BY <1>1, <1>3, <1>6 DEF fixed_size_read
  <2> QED
    BY <1>3, <1>6, <2>1, DropsAll
<1> QED
  BY <1>5, <1>6

LEMMA ExtraDrops ==
  ASSUME Inv, field = "extra"
  PROVE  Drops1(buffer_header_copy(count, gz_hdr.extra, gz_hdr.extra_len - count, "EXTRA_OVERFLOW").next)
<1>4. /\ next_in \in Seq(FileUnits) /\ count \in Nat
      /\ gz_hdr.extra.data \in Seq(Nat) /\ gz_hdr.extra_len \in Nat
      /\ ~ gz_hdr.extra.null =>
           count <= gz_hdr.extra_len /\ gz_hdr.extra_len - count <= Len(gz_hdr.extra.data)
  BY DEF Inv, InputInv, HeaderInv, At
<1> DEFINE len  == Least(count, Len(next_in))
           room == Len(gz_hdr.extra.data) - (gz_hdr.extra_len - count)
           full == ~gz_hdr.extra.null /\ room < len
           n    == IF full THEN room ELSE len
<1>1. Len(next_in) \in Nat /\ Len(gz_hdr.extra.data) \in Nat
  BY <1>4
<1>2. len \in 0 .. count /\ len <= Len(next_in)
  BY <1>4, <1>1 DEF Least
<1>3. room \in Int /\ (~ gz_hdr.extra.null => room >= 0)
  BY <1>4, <1>1
<1> HIDE DEF len, room
<1>5. n \in 0 .. Len(next_in)
  BY <1>1, <1>2, <1>3
<1>6. buffer_header_copy(count, gz_hdr.extra, gz_hdr.extra_len - count, "EXTRA_OVERFLOW").next
      = Drop(next_in, n)
  BY DEF buffer_header_copy, len, room
<1> QED
  BY <1>5, <1>6 DEF Drops1

LEMMA StringDrops ==
  ASSUME NEW buf \in Buffers, count \in Nat, NEW error, next_in \in Seq(FileUnits),
         ~ buf.null => count <= Len(buf.data), error # "OK"
  PROVE  Drops1(string_header_copy(buf, count, error).next)
<1>1. PICK copy : copy = string_header_copy(buf, count, error)
  OBVIOUS
<1>2. PICK k \in 0 .. Len(next_in) :
        \/ copy.next = Drop(next_in, k)
        \/ k + 1 <= Len(next_in) /\ copy.next = Drop(next_in, k + 1)
  BY <1>1, StringTakes DEF StringTaken
<1>3. k + 1 <= Len(next_in) => k + 1 \in 0 .. Len(next_in)
  OBVIOUS
<1> QED
  BY <1>1, <1>2, <1>3 DEF Drops1

LEMMA FromOn ==
  ASSUME FromStart, rest' = rest, file' = file, start_in' = start_in, Drops1(next_in')
  PROVE  /\ FromStart'
         /\ \E p \in 0 .. Len(start_in) : next_in' = Drop(start_in, p)
<1>1. start_in \in Seq(FileUnits)
  BY DEF FromStart
<1>2. PICK q \in 0 .. Len(start_in) : next_in = Drop(start_in, q)
  BY DEF FromStart
<1>3. PICK k \in 0 .. Len(next_in) : next_in' = Drop(next_in, k)
  BY DEF Drops1
<1>4. PICK n \in Nat : n = Len(start_in)
  BY <1>1
<1>5. Len(next_in) = n - q /\ q \in Nat /\ q <= n
  BY <1>1, <1>2, <1>4, Dropped
<1>6. k \in Nat /\ q + k <= n /\ q + k \in 0 .. n
  BY <1>5
<1>7. next_in' = Drop(start_in, q + k)
  BY <1>1, <1>2, <1>3, <1>4, <1>5, <1>6, DropMore
<1>8. \E p \in 0 .. Len(start_in) : next_in' = Drop(start_in, p)
  BY <1>4, <1>6, <1>7
<1> QED
  BY <1>8 DEF FromStart, Rest

(* The field breaks off, and the sum of what was read is kept.             *)
OwnHeader == ~ WithinMember /\ crc_flag = "gzip_no_hdr_ver"
NewSum == Extended(hcrc, Taken(next_in'))
LEMMA SumIs ==
  ASSUME Inv, FromStart, UNCHANGED <<rest, file, start_in>>, Drops1(next_in'),
         hcrc = SumAt(start_in \o rest)
  PROVE  NewSum = SumAt(next_in' \o rest)
<1>1. PICK p \in 0 .. Len(start_in) : next_in' = Drop(start_in, p)
  BY FromOn
<1> QED
  BY <1>1, SumTaken DEF NewSum

(* Of flags that are not known yet each is set.                            *)
LEMMA Halved ==
  ASSUME NEW i \in Int, NEW q \in Int, i = 2 * q + 1
  PROVE  i \div 2 = q /\ i % 2 = 1
OBVIOUS

LEMMA AllFlags == Has(-1, HCRC_FLAG)
<1>1. PICK i \in Int : i = -1
  OBVIOUS
<1>2. i = 2 * i + 1
  BY <1>1
<1>3. i \div 2 = i /\ i % 2 = 1
  BY <1>2, Halved
<1>4. (i \div 2) % 2 = 1
  BY <1>3
<1>5. Has(i, HCRC_FLAG)
  BY <1>4 DEF Has, HCRC_FLAG
<1> QED
  BY <1>1, <1>5

LEMMA SumBreak ==
  ASSUME Inv, PlaceInv, SumInv, OwnHeader, WithinHeader,
         NEW r, NEW state, NEW hdr, BreakOff(r, state, hdr), Drops1(next_in'),
         HdrOK(hdr), hdr.flags = gz_hdr.flags, <<state, field>> \in AtFields, field \in SumFields,
         state = "NEW_HDR" => Len(tmp_in') < GZIP_HDR_BASE,
         state = "GZIP_EXTRA_LEN" => Len(tmp_in') < GZIP_EXTRA_LEN
  PROVE  SumInv'
<1>1. UNCHANGED <<rest, file, start_in, flags, crc_flag, wrapper_flag>>
      /\ field' = "returned" /\ block_state' = state
      /\ gz_hdr' = IF Has(flags, HCRC_FLAG) THEN [hdr EXCEPT !.hcrc = NewSum] ELSE hdr
  BY DEF WithinHeader, outside_header, params, BreakOff, NewSum
<1>2. FromStart
  BY DEF SumInv, OwnHeader
<1>3. Has(flags, HCRC_FLAG) => hcrc = SumAt(start_in \o rest)
  <2>1. field = "base" \/ field \in SumFields \ {"base"}
    OBVIOUS
  <2> QED
    BY <2>1 DEF SumInv, OwnHeader
<1>4. Has(flags, HCRC_FLAG) => gz_hdr'.hcrc = SumAt(next_in' \o rest')
  <2> SUFFICES ASSUME Has(flags, HCRC_FLAG) PROVE gz_hdr'.hcrc = SumAt(next_in' \o rest')
    OBVIOUS
  <2>1. NewSum = SumAt(next_in' \o rest)
    BY <1>1, <1>2, <1>3, SumIs
  <2>2. gz_hdr'.hcrc = NewSum
    BY <1>1 DEF HdrOK
  <2> QED
    BY <1>1, <2>1, <2>2
<1>5. gz_hdr'.flags = gz_hdr.flags
  BY <1>1 DEF HdrOK
<1>6. state = "NEW_HDR" => Has(flags, HCRC_FLAG)
  <2> SUFFICES ASSUME state = "NEW_HDR" PROVE Has(flags, HCRC_FLAG)
    OBVIOUS
  <2>1. field = "base"
    BY DEF AtFields
  <2>2. flags = -1
    BY <2>1 DEF SumInv, OwnHeader
  <2> QED
    BY <2>2, AllFlags
<1>7. state # "NEW_HDR" => flags = gz_hdr.flags
  BY DEF PlaceInv, FlagsHeld, AtFields, HeaderFields
<1>8. (SumAt(next_in \o rest))' = SumAt(next_in' \o rest')
  BY <1>1 DEF SumAt
<1>9. state # "GZIP_HCRC"
  BY DEF AtFields, SumFields
<1>10. SumWaits'
  BY <1>1, <1>4, <1>5, <1>6, <1>7, <1>8, <1>9 DEF SumWaits
<1>11. HeaderShort'
  BY <1>1 DEF HeaderShort, At
<1> QED
  BY <1>1, <1>10, <1>11 DEF SumInv, SumFields

LEMMA SumGo ==
  ASSUME Inv, PlaceInv, SumInv, OwnHeader, WithinHeader, field \in SumFields, Drops1(next_in'),
         hcrc' = hcrc, start_in' = start_in, wrapper_flag' = wrapper_flag,
         field' \in {"extra_len", "extra", "name", "comment", "sum", "done"},
         flags' = flags \/ field = "base", field' = "sum" => Has(flags', HCRC_FLAG), tmp_in' = <<>>
  PROVE  SumInv'
<1>1. UNCHANGED <<rest, file, crc_flag>>
  BY DEF WithinHeader, outside_header, params
<1>2. FromStart'
  <2>1. FromStart
    BY DEF SumInv, OwnHeader
  <2> QED
    BY <1>1, <2>1, FromOn
<1>3. Has(flags', HCRC_FLAG) => hcrc = SumAt(start_in \o rest)
  BY DEF SumInv, OwnHeader
<1>4. (SumAt(start_in \o rest))' = SumAt(start_in \o rest)
  BY <1>1 DEF SumAt
<1>5. SumWaits' /\ HeaderShort'
  BY DEF SumWaits, HeaderShort, At, Resumable, GZIP_EXTRA_LEN
<1> QED
  BY <1>2, <1>3, <1>4, <1>5 DEF SumInv, SumFields

LEMMA SumNamed ==
  ASSUME NEW f
  PROVE  /\ AfterComment(f) = "sum" => Has(f, HCRC_FLAG)
         /\ AfterName(f) = "sum" => Has(f, HCRC_FLAG)
         /\ AfterExtra(f) = "sum" => Has(f, HCRC_FLAG)
         /\ AfterBase(f) = "sum" => Has(f, HCRC_FLAG)
         /\ AfterComment(f) \in {"sum", "done"} /\ AfterName(f) \in {"comment", "sum", "done"}
         /\ AfterExtra(f) \in {"name", "comment", "sum", "done"}
         /\ AfterBase(f) \in {"extra_len", "name", "comment", "sum", "done"}
BY DEF AfterBase, AfterExtra, AfterName, AfterComment

LEMMA SumVacuous ==
  ASSUME ~ OwnHeader'
  PROVE  SumInv'
BY DEF SumInv, OwnHeader

(* A header that is refused is not gone on with.                           *)
LEMMA SumReturn ==
  ASSUME field' = "returned", hdr_ret' \in Refused
  PROVE  SumInv'
BY DEF SumInv, SumWaits, HeaderShort, At, Resumable, SumFields

(* What the caller's header begins with is the rest of the file.           *)
LEMMA OwnAhead ==
  ASSUME Inv, PlaceInv, OwnHeader
  PROVE  /\ read_in = <<>> /\ Rest(file, next_in \o rest)
         /\ tmp_in = <<>> => Coming = next_in \o rest
<1>1. read_in = <<>> /\ Rest(file, Coming)
  BY DEF PlaceInv, ReadEmpty, OwnHeader
<1>2. /\ tmp_in \in Seq(FileUnits) /\ next_in \in Seq(FileUnits) /\ rest \in Seq(FileUnits)
      /\ file.units \in Seq(FileUnits)
  BY PlaceTypes
<1>3. PICK x \in Seq(FileUnits) : x = next_in \o rest
  <2>1. next_in \o rest \in Seq(FileUnits)
    BY <1>2, Joined
  <2> QED
    BY <2>1
<1>4. Coming = tmp_in \o x
  <2>1. tmp_in \o x \in Seq(FileUnits)
    BY <1>2
  <2>2. <<>> \o (tmp_in \o x) = tmp_in \o x
    BY <2>1, DropNone
  <2> QED
    BY <1>1, <1>3, <2>2 DEF Coming, ComingOf
<1>5. Drop(tmp_in \o x, Len(tmp_in)) = x /\ Len(tmp_in) \in Nat /\ Len(tmp_in) <= Len(tmp_in \o x)
  <2>1. 0 \in Nat /\ 0 <= Len(x) /\ Len(tmp_in) \in Nat /\ Len(tmp_in) + 0 = Len(tmp_in)
    BY <1>2
  <2>2. Drop(tmp_in \o x, Len(tmp_in) + 0) = Drop(x, 0) /\ Len(tmp_in) + 0 <= Len(tmp_in \o x)
    BY <1>2, <2>1, DropBehind
  <2>3. Drop(x, 0) = x
    BY DropNone
  <2> QED
    BY <2>1, <2>2, <2>3
<1>6. Rest(file, x)
  BY <1>1, <1>2, <1>4, <1>5, RestDrop
<1>7. tmp_in = <<>> => tmp_in \o x = x
  BY DropNone
<1> QED
  BY <1>1, <1>3, <1>4, <1>6, <1>7

LEMMA SumCallHeader ==
  ASSUME Inv, PlaceInv, SumInv, NEW n \in InSizes, CallHeader(n)
  PROVE  SumInv'
<1>1. /\ pc = "idle" /\ field' = field /\ hdr_ret' = hdr_ret /\ ret' = ret /\ block_state' = block_state
      /\ UNCHANGED <<file, tmp_in, read_in, crc_flag, wrapper_flag, flags, hcrc, start_in>>
      /\ OwnHeader /\ Supply(n)
      /\ gz_hdr' = [gz_hdr EXCEPT !.name  = IF ret = "NAME_OVERFLOW" THEN Grown(@) ELSE @,
                                  !.extra = IF ret = "EXTRA_OVERFLOW" THEN Grown(@) ELSE @]
  BY DEF CallHeader, params, block, over, output, hdr_locals, OwnHeader, WithinMember
<1>2. field = "none"
  BY <1>1 DEF Inv, HeaderInv
<1>3. n \in Nat /\ next_in' \o rest' = next_in \o rest
  BY <1>1, CallSupplies
<1>4. Coming' = Coming
  BY <1>1, <1>3, SupplyComing
<1>5. gz_hdr'.hcrc = gz_hdr.hcrc /\ gz_hdr'.flags = gz_hdr.flags
  BY <1>1 DEF Inv, HeaderInv
<1>6. (SumAt(next_in \o rest))' = SumAt(next_in \o rest) /\ SumAt(Coming)' = SumAt(Coming)
  BY <1>1, <1>3, <1>4 DEF SumAt
<1>7. SumWaits /\ HeaderShort
  BY <1>1 DEF SumInv, OwnHeader
<1>8. Resumable' <=> Resumable
  BY <1>1 DEF Resumable
<1>9. SumWaits' /\ HeaderShort'
  BY <1>1, <1>5, <1>6, <1>7, <1>8 DEF SumWaits, HeaderShort, At
<1> QED
  BY <1>1, <1>2, <1>9 DEF SumInv, SumFields

LEMMA SumEndHeader ==
  ASSUME Inv, SumInv, EndHeader
  PROVE  SumInv'
<1>1. /\ field = "returned" /\ field' = "none" /\ block_state' = block_state
      /\ UNCHANGED <<file, tmp_in, read_in, next_in, rest, crc_flag, wrapper_flag, gz_hdr>>
  BY DEF EndHeader, LeaveHeader, outside_header, params, over, output
<1> SUFFICES ASSUME OwnHeader' PROVE SumInv'
  BY SumVacuous
<1>2. OwnHeader
  BY <1>1 DEF OwnHeader, WithinMember
<1>3. pc = "header" /\ ret' = hdr_ret
  BY <1>1, <1>2 DEF EndHeader, OwnHeader, Inv, ControlInv
<1>4. Resumable' <=> Resumable
  BY <1>1, <1>3 DEF Resumable
<1>5. Coming' = Coming
  BY <1>1, ComingSame
<1>6. (SumAt(next_in \o rest))' = SumAt(next_in \o rest) /\ SumAt(Coming)' = SumAt(Coming)
  BY <1>1, <1>5 DEF SumAt
<1>7. SumWaits /\ HeaderShort
  BY <1>2 DEF SumInv, OwnHeader
<1>8. SumWaits' /\ HeaderShort'
  BY <1>1, <1>4, <1>6, <1>7 DEF SumWaits, HeaderShort, At
<1> QED
  BY <1>1, <1>8 DEF SumInv, SumFields

LEMMA SumStartHeader ==
  ASSUME Inv, PlaceInv, ExtraInv, SumInv, StartHeader
  PROVE  SumInv'
<1> SUFFICES ASSUME OwnHeader' PROVE SumInv'
  BY SumVacuous
<1>1. /\ field = "none" /\ field' = Resumes[block_state]
      /\ UNCHANGED <<file, tmp_in, read_in, next_in, rest, crc_flag, wrapper_flag, block_state>>
  BY DEF StartHeader, EnterHeader, outside_header, params, over, output
<1>2. OwnHeader
  BY <1>1 DEF OwnHeader, WithinMember
<1>3. pc = "header" /\ EnterHeader(gz_hdr)
  BY <1>2 DEF StartHeader, OwnHeader, Inv, ControlInv
<1>4. /\ gz_hdr' = gz_hdr /\ start_in' = next_in
      /\ flags' = (IF block_state = "NEW_HDR" THEN -1 ELSE gz_hdr.flags)
      /\ hcrc'  = (IF block_state = "NEW_HDR" /\ tmp_in = <<>> THEN 0 ELSE gz_hdr.hcrc)
  BY <1>3 DEF EnterHeader
<1>5. ret \notin Refused /\ block_state \in WrapperStates
  BY <1>2, <1>3 DEF OwnHeader, Inv, ControlInv
<1>6. Resumable /\ SumWaits /\ HeaderShort
  BY <1>1, <1>2, <1>5 DEF Resumable, SumInv, OwnHeader
<1>7. field' = "base" <=> block_state = "NEW_HDR"
  BY <1>1, <1>5 DEF WrapperStates, Resumes
<1>8. /\ field' = "extra_len" <=> block_state = "GZIP_EXTRA_LEN"
      /\ field' = "extra" <=> block_state = "GZIP_EXTRA" 
      /\ field' = "name" <=> block_state = "GZIP_NAME" 
      /\ field' = "comment" <=> block_state = "GZIP_COMMENT" 
      /\ field' = "hcrc" <=> block_state = "GZIP_HCRC" 
      /\ field' \in {"base", "extra_len", "extra", "name", "comment", "hcrc"}
  BY <1>1, <1>5 DEF WrapperStates, Resumes
<1>9. next_in \in Seq(FileUnits) /\ Drop(next_in, 0) = next_in /\ 0 \in 0 .. Len(next_in)
  <2>1. next_in \in Seq(FileUnits)
    BY PlaceTypes
  <2> QED
    BY <2>1, DropNone
<1>10. FromStart'
  <2>1. Rest(file, next_in \o rest)
    BY <1>2, OwnAhead
  <2>2. \E p \in 0 .. Len(start_in') : next_in' = Drop(start_in', p)
    BY <1>1, <1>4, <1>9
  <2> QED
    BY <1>1, <1>4, <1>9, <2>1, <2>2 DEF FromStart, Rest
<1>11. (SumAt(start_in \o rest))' = SumAt(next_in \o rest) /\ SumAt(Coming)' = SumAt(Coming)
  <2>1. Coming' = Coming
    BY <1>1, ComingSame
  <2> QED
    BY <1>1, <1>4, <2>1 DEF SumAt
<1>12. ASSUME field' = "base" PROVE hcrc' = SumAt(next_in \o rest) /\ flags' = -1
  <2>1. CASE tmp_in = <<>>
    <3>1. Ahead = file.units
      <4>1. BeforeBase
        BY <1>2, <1>6, <1>7, <1>12 DEF BeforeBase, At, OwnHeader, WithinMember
      <4> QED
        BY <1>2, <4>1 DEF ExtraInv, OwnHeader
    <3>2. Ahead = next_in \o rest
      <4>1. next_in \o rest \in Seq(FileUnits)
        BY PlaceTypes
      <4>2. <<>> \o (next_in \o rest) = next_in \o rest
        BY <4>1, DropNone
      <4> QED
        BY <2>1, <4>2 DEF Ahead
    <3>3. SumAt(next_in \o rest) = 0
      BY <3>1, <3>2, SumStarts
    <3> QED
      BY <1>4, <1>7, <1>12, <2>1, <3>3
  <2>2. CASE tmp_in # <<>>
    <3>1. gz_hdr.hcrc = SumAt(next_in \o rest)
      BY <1>6, <1>7, <1>12, <2>2 DEF SumWaits
    <3> QED
      BY <1>4, <1>7, <1>12, <2>2, <3>1
  <2> QED
    BY <2>1, <2>2
<1>13. ASSUME field' \in SumFields \ {"base"}, Has(flags', HCRC_FLAG)
       PROVE  hcrc' = SumAt(next_in \o rest)
  <2>1. block_state \in {"GZIP_EXTRA_LEN", "GZIP_EXTRA", "GZIP_NAME", "GZIP_COMMENT"}
    BY <1>8, <1>13 DEF SumFields
  <2>2. flags' = gz_hdr.flags /\ hcrc' = gz_hdr.hcrc
    BY <1>4, <2>1
  <2> QED
    BY <1>6, <1>13, <2>1, <2>2 DEF SumWaits
<1>14. field' = "hcrc" => hcrc' = SumAt(Coming) /\ gz_hdr'.hcrc = hcrc'
  BY <1>4, <1>6, <1>8 DEF SumWaits
<1>15. SumWaits'
  BY <1>8 DEF SumWaits, Resumable
<1>16. HeaderShort'
  <2>1. At("NEW_HDR", "base")' => At("NEW_HDR", "base")
    BY <1>1, <1>6, <1>7, <1>8 DEF At, Resumable
  <2>2. At("GZIP_EXTRA_LEN", "extra_len")' => At("GZIP_EXTRA_LEN", "extra_len")
    BY <1>1, <1>6, <1>7, <1>8 DEF At, Resumable
  <2> QED
    BY <1>1, <1>6, <2>1, <2>2 DEF HeaderShort
<1> QED
  BY <1>8, <1>10, <1>11, <1>12, <1>13, <1>14, <1>15, <1>16 DEF SumInv, SumFields

(* The steps of the header, as the caller's call takes them.               *)
LEMMA OwnField ==
  ASSUME Inv, PlaceInv, SumInv, OwnHeader, WithinHeader
  PROVE  /\ UNCHANGED <<file, rest, read_in, crc_flag, ret, pc>>
         /\ next_in \in Seq(FileUnits) /\ tmp_in \in Seq(FileUnits) /\ count \in Nat
         /\ field \in HeaderFields /\ HdrOK(gz_hdr) /\ gz_hdr.comment = NULL
         /\ HeaderShort /\ gz_hdr.extra \in Buffers /\ gz_hdr.name \in Buffers
         /\ field \in {"extra", "name", "comment", "sum", "done"} => tmp_in = <<>>
         /\ field = "base" => block_state = "NEW_HDR"
<1>1. UNCHANGED <<file, rest, read_in, crc_flag, ret, pc>>
  BY DEF WithinHeader, outside_header, params
<1>2. field \in HeaderFields
  BY DEF WithinHeader, HeaderStep, ReadBase, ReadExtraLen, CopyExtra, CopyName, CopyComment,
         SumHeader, ReadHcrc, HeaderDone, HeaderFields
<1>3. HeaderShort
  BY DEF SumInv, OwnHeader
<1>4. HdrOK(gz_hdr) /\ next_in \in Seq(FileUnits) /\ tmp_in \in Seq(FileUnits) /\ count \in Nat
  BY <1>2, InHeader
<1> QED
  BY <1>1, <1>2, <1>3, <1>4 DEF HdrOK, Inv, HeaderInv, InputInv

LEMMA SumReadBase ==
  ASSUME Inv, PlaceInv, SumInv, OwnHeader, WithinHeader, ReadBase
  PROVE  SumInv'
<1>1. PICK read : read = fixed_size_read(GZIP_HDR_BASE)
  OBVIOUS
<1>2. field = "base" /\ field \in SumFields /\ next_in' = read.next /\ tmp_in' = read.tmp
  BY <1>1 DEF ReadBase, SumFields
<1>3. Len(tmp_in) < GZIP_HDR_BASE /\ GZIP_HDR_BASE \in 1 .. 3
  BY <1>2, OwnField DEF HeaderShort, At, GZIP_HDR_BASE
<1>4. /\ Drops1(read.next) /\ read.ret \in {"OK", "END_INPUT"}
      /\ read.ret = "END_INPUT" => Len(read.tmp) < GZIP_HDR_BASE
      /\ read.ret = "OK" => read.tmp = <<>>
  BY <1>1, <1>3, FixedDrops, OwnField
<1>5. CASE read.ret # "OK"
  <2>1. BreakOff(read.ret, block_state, gz_hdr)
    BY <1>1, <1>5 DEF ReadBase
  <2>2. block_state = "NEW_HDR" /\ <<block_state, field>> \in AtFields /\ Len(tmp_in') < GZIP_HDR_BASE
    BY <1>2, <1>4, <1>5, OwnField DEF AtFields
  <2> QED
    BY <1>2, <1>4, <2>1, <2>2, OwnField, SumBreak
<1>6. CASE read.ret = "OK" /\ read.units[1].kind # "id"
  <2>1. Return("INVALID_WRAPPER")
    BY <1>1, <1>6 DEF ReadBase
  <2> QED
    BY <2>1, SumReturn DEF Return, Refused
<1>7. CASE read.ret = "OK" /\ read.units[1].kind = "id" /\ read.units[2].value # 0
  <2>1. Return("UNSUPPORTED_METHOD")
    BY <1>1, <1>7 DEF ReadBase
  <2> QED
    BY <2>1, SumReturn DEF Return, Refused
<1>8. CASE read.ret = "OK" /\ read.units[1].kind = "id" /\ read.units[2].value = 0
  <2>1. PICK f : f = read.units[3].value
    OBVIOUS
  <2>2. flags' = f /\ hcrc' = hcrc /\ field' = AfterBase(f) /\ start_in' = start_in
        /\ wrapper_flag' = wrapper_flag
    BY <1>1, <1>8, <2>1 DEF ReadBase, GoOn
  <2>3. field' \in {"extra_len", "extra", "name", "comment", "sum", "done"}
        /\ (field' = "sum" => Has(flags', HCRC_FLAG))
    BY <2>2, SumNamed
  <2> QED
    BY <1>2, <1>4, <1>8, <2>2, <2>3, SumGo
<1> QED
  BY <1>5, <1>6, <1>7, <1>8

LEMMA SumReadExtraLen ==
  ASSUME Inv, PlaceInv, SumInv, OwnHeader, WithinHeader, ReadExtraLen
  PROVE  SumInv'
<1>1. PICK read : read = fixed_size_read(GZIP_EXTRA_LEN)
  OBVIOUS
<1>2. field = "extra_len" /\ field \in SumFields /\ next_in' = read.next /\ tmp_in' = read.tmp
  BY <1>1 DEF ReadExtraLen, SumFields
<1>3. Len(tmp_in) < GZIP_EXTRA_LEN /\ GZIP_EXTRA_LEN \in 1 .. 3
  BY <1>2, OwnField DEF HeaderShort, At, GZIP_EXTRA_LEN
<1>4. /\ Drops1(read.next) /\ read.ret \in {"OK", "END_INPUT"}
      /\ read.ret = "END_INPUT" => Len(read.tmp) < GZIP_EXTRA_LEN
      /\ read.ret = "OK" => read.tmp = <<>>
  BY <1>1, <1>3, FixedDrops, OwnField
<1>5. CASE read.ret # "OK"
  <2>1. BreakOff(read.ret, "GZIP_EXTRA_LEN", gz_hdr)
    BY <1>1, <1>5 DEF ReadExtraLen
  <2>2. <<"GZIP_EXTRA_LEN", field>> \in AtFields /\ Len(tmp_in') < GZIP_EXTRA_LEN
    BY <1>2, <1>4, <1>5 DEF AtFields
  <2> QED
    BY <1>2, <1>4, <2>1, <2>2, OwnField, SumBreak
<1>6. CASE read.ret = "OK"
  <2>1. /\ flags' = flags /\ hcrc' = hcrc /\ field' = "extra" /\ start_in' = start_in
        /\ wrapper_flag' = wrapper_flag
    BY <1>1, <1>6 DEF ReadExtraLen, GoOn
  <2> QED
    BY <1>2, <1>4, <1>6, <2>1, SumGo
<1> QED
  BY <1>5, <1>6

(* A copied field.                                                         *)
LEMMA SumCopy ==
  ASSUME Inv, PlaceInv, SumInv, OwnHeader, WithinHeader, NEW copy, NEW state, NEW next, NEW hdr,
         Copy(copy, state, next, hdr), Drops1(copy.next), HdrOK(hdr), hdr.flags = gz_hdr.flags,
         <<state, field>> \in AtFields, field \in {"extra", "name", "comment"},
         next \in {"name", "comment", "sum", "done"}, next = "sum" => Has(flags, HCRC_FLAG)
  PROVE  SumInv'
<1>1. next_in' = copy.next /\ tmp_in' = tmp_in /\ tmp_in = <<>> /\ field \in SumFields
  BY OwnField DEF Copy, SumFields
<1>2. CASE copy.ret # "OK"
  <2>1. BreakOff(copy.ret, state, hdr)
    BY <1>2 DEF Copy
  <2>2. state # "NEW_HDR" /\ state # "GZIP_EXTRA_LEN"
    BY DEF AtFields
  <2> QED
    BY <1>1, <2>1, <2>2, SumBreak
<1>3. CASE copy.ret = "OK"
  <2>1. /\ flags' = flags /\ hcrc' = hcrc /\ field' = next /\ start_in' = start_in
        /\ wrapper_flag' = wrapper_flag
    BY <1>3 DEF Copy, GoOn
  <2> QED
    BY <1>1, <2>1, SumGo
<1> QED
  BY <1>2, <1>3

LEMMA SumCopyExtra ==
  ASSUME Inv, PlaceInv, SumInv, OwnHeader, WithinHeader, CopyExtra
  PROVE  SumInv'
<1>1. PICK copy : copy = buffer_header_copy(count, gz_hdr.extra, gz_hdr.extra_len - count,
                                            "EXTRA_OVERFLOW")
  OBVIOUS
<1>2. PICK hdr : hdr = [gz_hdr EXCEPT !.extra = copy.buf]
  OBVIOUS
<1>3. field = "extra" /\ Copy(copy, "GZIP_EXTRA", AfterExtra(flags), hdr)
  BY <1>1, <1>2 DEF CopyExtra
<1>4. Drops1(copy.next) /\ copy.buf \in Buffers
  BY <1>1, <1>3, ExtraDrops, ExtraCopyEnds
<1>5. HdrOK(hdr) /\ hdr.flags = gz_hdr.flags
  BY <1>2, <1>4, OwnField DEF HdrOK
<1>6. AfterExtra(flags) \in {"name", "comment", "sum", "done"}
      /\ (AfterExtra(flags) = "sum" => Has(flags, HCRC_FLAG))
  BY SumNamed
<1>7. <<"GZIP_EXTRA", field>> \in AtFields
  BY <1>3 DEF AtFields
<1> QED
  BY <1>3, <1>4, <1>5, <1>6, <1>7, SumCopy

LEMMA SumCopyName ==
  ASSUME Inv, PlaceInv, SumInv, OwnHeader, WithinHeader, CopyName
  PROVE  SumInv'
<1>1. PICK copy : copy = string_header_copy(gz_hdr.name, count, "NAME_OVERFLOW")
  OBVIOUS
<1>2. PICK hdr : hdr = [gz_hdr EXCEPT !.name = copy.buf]
  OBVIOUS
<1>3. field = "name" /\ Copy(copy, "GZIP_NAME", AfterName(flags), hdr)
  BY <1>1, <1>2 DEF CopyName
<1>4. ~ gz_hdr.name.null => count <= Len(gz_hdr.name.data)
  BY <1>3 DEF Inv, HeaderInv, At
<1>5. Drops1(copy.next) /\ copy.buf \in Buffers
  BY <1>1, <1>4, OwnField, StringDrops, StringCopyOK
<1>6. HdrOK(hdr) /\ hdr.flags = gz_hdr.flags
  BY <1>2, <1>5, OwnField DEF HdrOK
<1>7. AfterName(flags) \in {"comment", "sum", "done"}
      /\ (AfterName(flags) = "sum" => Has(flags, HCRC_FLAG))
  BY SumNamed
<1>8. <<"GZIP_NAME", field>> \in AtFields
  BY <1>3 DEF AtFields
<1> QED
  BY <1>3, <1>5, <1>6, <1>7, <1>8, SumCopy

LEMMA SumCopyComment ==
  ASSUME Inv, PlaceInv, SumInv, OwnHeader, WithinHeader, CopyComment
  PROVE  SumInv'
<1>1. PICK copy : copy = string_header_copy(gz_hdr.comment, count, "COMMENT_OVERFLOW")
  OBVIOUS
<1>2. PICK hdr : hdr = [gz_hdr EXCEPT !.comment = copy.buf]
  OBVIOUS
<1>3. field = "comment" /\ Copy(copy, "GZIP_COMMENT", AfterComment(flags), hdr)
  BY <1>1, <1>2 DEF CopyComment
<1>4. gz_hdr.comment = NULL /\ gz_hdr.comment \in Buffers /\ gz_hdr.comment.null
  BY OwnField, NullOK
<1>5. Drops1(copy.next) /\ copy.buf = gz_hdr.comment
  BY <1>1, <1>4, OwnField, StringDrops, StringCopyOK
<1>6. HdrOK(hdr) /\ hdr.flags = gz_hdr.flags
  BY <1>2, <1>4, <1>5, OwnField DEF HdrOK
<1>7. AfterComment(flags) \in {"sum", "done"}
      /\ (AfterComment(flags) = "sum" => Has(flags, HCRC_FLAG))
  BY SumNamed
<1>8. <<"GZIP_COMMENT", field>> \in AtFields
  BY <1>3 DEF AtFields
<1> QED
  BY <1>3, <1>5, <1>6, <1>7, <1>8, SumCopy

LEMMA SumSumHeader ==
  ASSUME Inv, PlaceInv, SumInv, OwnHeader, WithinHeader, SumHeader
  PROVE  SumInv'
<1>1. /\ field = "sum" /\ field' = "hcrc" /\ UNCHANGED <<next_in, tmp_in, rest, read_in, file, flags>>
      /\ hcrc' = Extended(hcrc, Taken(next_in)) /\ gz_hdr' = [gz_hdr EXCEPT !.hcrc = hcrc']
  BY OwnField DEF SumHeader, GoOn
<1>2. FromStart /\ hcrc = SumAt(start_in \o rest)
  BY <1>1 DEF SumInv, OwnHeader, SumFields
<1>3. hcrc' = SumAt(next_in \o rest)
  <2>1. PICK p \in 0 .. Len(start_in) : next_in = Drop(start_in, p)
    BY <1>2 DEF FromStart
  <2> QED
    BY <1>1, <1>2, <2>1, SumTaken
<1>4. SumAt(Coming)' = SumAt(Coming) /\ Coming = next_in \o rest
  <2>1. Coming' = Coming
    BY <1>1, ComingSame
  <2> QED
    BY <1>1, <2>1, OwnAhead, OwnField DEF SumAt
<1>5. gz_hdr'.hcrc = hcrc'
  BY <1>1, OwnField DEF HdrOK
<1>6. SumWaits' /\ HeaderShort'
  BY <1>1 DEF SumWaits, HeaderShort, At, Resumable
<1> QED
  BY <1>1, <1>3, <1>4, <1>5, <1>6 DEF SumInv, SumFields

LEMMA SumReadHcrc ==
  ASSUME Inv, PlaceInv, SumInv, OwnHeader, WithinHeader, ReadHcrc
  PROVE  SumInv'
<1>1. HcrcTaken /\ field = "hcrc" /\ hcrc = SumAt(Coming) /\ gz_hdr.hcrc = hcrc
  BY HcrcTakes DEF ReadHcrc, SumInv, OwnHeader
<1>2. PICK read : read = fixed_size_read(GZIP_HCRC_LEN)
  OBVIOUS
<1>3. CASE field' = "returned" /\ hdr_ret' = "END_INPUT" /\ Coming' = Coming /\ block_state' = "GZIP_HCRC"
  <2>1. gz_hdr' = gz_hdr
    BY <1>1, <1>3 DEF ReadHcrc, Return, GoOn
  <2>2. SumAt(Coming)' = SumAt(Coming)
    BY <1>3, OwnField DEF SumAt
  <2>3. SumWaits'
    BY <1>1, <1>3, <2>1, <2>2 DEF SumWaits
  <2>4. HeaderShort'
    BY <1>3 DEF HeaderShort, At
  <2> QED
    BY <1>3, <2>3, <2>4 DEF SumInv, SumFields
<1>4. CASE field' = "returned" /\ hdr_ret' = "INCORRECT_CHECKSUM"
  BY <1>4, SumReturn DEF Refused
<1>5. CASE field' = "done"
  BY <1>5 DEF SumInv, SumFields, SumWaits, HeaderShort, At, Resumable
<1> QED
  BY <1>1, <1>3, <1>4, <1>5 DEF HcrcTaken

LEMMA SumWithinHeader ==
  ASSUME Inv, PlaceInv, SumInv, WithinHeader
  PROVE  SumInv'
<1> SUFFICES ASSUME OwnHeader' PROVE SumInv'
  BY SumVacuous
<1>1. crc_flag' = crc_flag
  BY DEF WithinHeader, outside_header
<1>2. OwnHeader
  <2>1. wrapper_flag => wrapper_flag'
    BY DEF WithinHeader, HeaderStep, ReadBase, ReadExtraLen, CopyExtra, CopyName, CopyComment, Copy,
           SumHeader, ReadHcrc, HeaderDone, BreakOff, GoOn, Return
  <2> QED
    BY <1>1, <2>1 DEF OwnHeader, WithinMember
<1>3. CASE HeaderDone
  BY <1>3 DEF OwnHeader, WithinMember, HeaderDone
<1> QED
  BY <1>2, <1>3, SumReadBase, SumReadExtraLen, SumCopyExtra, SumCopyName, SumCopyComment,
     SumSumHeader, SumReadHcrc DEF WithinHeader, HeaderStep

-----------------------------------------------------------------------------
(* The text while a header is read.                                        *)
FieldSaid ==
  \/ field' = "returned" /\ hdr_ret' \in Refused /\ ~ Said'.ok
  \/ /\ field' = "returned" => hdr_ret' \notin Refused
     /\ Said'.ok /\ Said'.out = Said.out /\ (Here'.at # "end" \/ WithinMember' => Said'.from = base)
HeaderFixed ==
  /\ UNCHANGED <<file, rest, read_in, crc_flag, ret, pc>>
  /\ UNCHANGED <<tmp_out, processed, user, base, write_overflow, copy_overflow>>
  /\ field \in HeaderFields /\ pc \in {"header", "wrapper"} /\ ~ WithinMember
  /\ ~ RefusedNow /\ ret \notin Refused /\ copy_overflow.len = 0
  /\ block_state \in WrapperStates /\ block_state' \in WrapperStates
  /\ Said.ok /\ Said.out = Whole /\ (Here.at # "end" => Said.from = base)
LEMMA HeaderFix ==
  ASSUME Inv, PlaceInv, TextInv, WithinHeader
  PROVE  HeaderFixed
<1>1. /\ UNCHANGED <<file, rest, read_in, crc_flag, ret, pc>>
      /\ UNCHANGED <<tmp_out, processed, user, base, write_overflow, copy_overflow>>
  BY DEF WithinHeader, outside_header, params, over, output
<1>2. field \in HeaderFields
  BY DEF WithinHeader, HeaderStep, ReadBase, ReadExtraLen, CopyExtra, CopyName, CopyComment,
         SumHeader, ReadHcrc, HeaderDone, HeaderFields
<1>3. pc \in {"header", "wrapper"} /\ ~ wrapper_flag /\ block_state \in WrapperStates
      /\ crc_flag \in {"gzip", "gzip_no_hdr_ver"}
  BY <1>2, InHeader
<1>4. ~ WithinMember
  BY <1>3 DEF WithinMember
<1>5. ~ RefusedNow /\ ret \notin Refused
  <2>1. field # "returned" /\ pc \in Entering \cup {"header"}
    BY <1>2, <1>3 DEF HeaderFields, Entering
  <2> QED
    BY <2>1, NotRefused
<1>6. copy_overflow.len = 0 /\ Flushed(Whole) = Whole
  BY <1>3, NoOverflow, WholeTypes
<1>7. block_state' \in WrapperStates
  BY <1>3 DEF WithinHeader, HeaderStep, ReadBase, ReadExtraLen, CopyExtra, CopyName, CopyComment, Copy,
           SumHeader, ReadHcrc, HeaderDone, BreakOff, GoOn, Return, WrapperStates
<1>8. Said.ok /\ Said.out = Whole /\ (Here.at # "end" => Said.from = base)
  BY <1>5, <1>6 DEF TextInv, TextValid
<1> QED
  BY <1>1, <1>2, <1>3, <1>4, <1>5, <1>6, <1>7, <1>8 DEF HeaderFixed

LEMMA TextField ==
  ASSUME Inv, PlaceInv, TextInv, WithinHeader, FieldSaid
  PROVE  TextInv'
<1>1. HeaderFixed
  BY HeaderFix
<1>2. ret' \notin Refused
  BY <1>1 DEF HeaderFixed
<1>3. block_state' \notin {"CHECKSUM_CHECK", "FINISH"}
  BY <1>1 DEF HeaderFixed, WrapperStates
<1>4. \/ RefusedNow' /\ ~ Said'.ok
      \/ /\ ~ RefusedNow' /\ Said'.ok /\ Said'.out = Said.out
         /\ WithinMember' \/ Here'.at # "end" => Said'.from = base
  BY <1>2 DEF FieldSaid, RefusedNow
<1> QED
  BY <1>1, <1>3, <1>4, TextFrame DEF HeaderFixed

(* The header begins a member: behind the text of those before it.         *)
LEMMA TextReadBase ==
  ASSUME Inv, PlaceInv, TextInv, ~ SplitHeaders, WithinHeader, ReadBase
  PROVE  TextInv'
<1>1. HeaderFixed /\ BaseTaken
  BY HeaderFix, BaseTakes
<1>2. crc_flag \in {"gzip", "gzip_no_hdr_ver"} /\ OneFormat /\ field = "base"
  BY <1>1, InHeader DEF HeaderFixed, PlaceInv, ReadBase
<1>3. CASE Coming' = Coming /\ field' = "returned" /\ hdr_ret' = "END_INPUT"
  <2>1. Said' = Said /\ Here' = Here
    BY <1>1, <1>3 DEF HeaderFixed, Said, Here
  <2>2. ~ WithinMember'
    BY <1>1 DEF HeaderFixed, BaseTaken, WithinMember
  <2>3. hdr_ret' \notin Refused
    BY <1>3 DEF Refused, Errors
  <2>4. FieldSaid
    BY <1>1, <1>3, <2>1, <2>2, <2>3 DEF FieldSaid, HeaderFixed
  <2> QED
    BY <2>4, TextField
<1>4. CASE field' = "returned" /\ hdr_ret' \in {"INVALID_WRAPPER", "UNSUPPORTED_METHOD"} /\ ~ Said'.ok
  <2>1. FieldSaid
    BY <1>4 DEF FieldSaid, Refused
  <2> QED
    BY <2>1, TextField
<1>5. CASE field' = AfterBase(flags') /\ Said' = Begun(Said, Here.at)
  <2>1. field' # "returned"
    BY <1>5 DEF AfterBase, AfterExtra, AfterName, AfterComment
  <2>2. Said.ok /\ Said.out = Whole /\ (Here.at # "end" => Said.from = base)
    BY <1>1 DEF HeaderFixed
  <2>3. Len(Whole) = base
    <3>1. file.dict = <<>>
      BY <1>2, NoDict
    <3>2. tmp_out = <<>> /\ base = Len(user)
      BY <1>1 DEF TextInv, HeaderFixed
    <3>3. /\ processed \in Nat /\ processed <= Len(tmp_out) /\ user \in Seq(Nat)
          /\ Len(Whole) = Len(file.dict) + Len(user) + (Len(tmp_out) - processed)
      BY WholeTypes
    <3>4. Len(file.dict) = 0 /\ Len(tmp_out) = 0 /\ Len(user) \in Nat
      BY <3>1, <3>2, <3>3
    <3> QED
      BY <3>2, <3>3, <3>4
  <2>4. CASE Here.at = "end"
    <3>1. Said' = Says(Said.out, Len(Said.out), Said.len, TRUE)
      BY <1>5, <2>2, <2>4 DEF Begun
    <3>2. Said'.ok /\ Said'.out = Said.out /\ Said'.from = base
      BY <2>2, <2>3, <3>1 DEF Says
    <3>3. FieldSaid
      BY <2>1, <3>2 DEF FieldSaid
    <3> QED
      BY <3>3, TextField
  <2>5. CASE Here.at # "end"
    <3>1. Said' = Said
      BY <1>5, <2>5 DEF Begun
    <3>2. FieldSaid
      BY <2>1, <2>2, <2>5, <3>1 DEF FieldSaid
    <3> QED
      BY <3>2, TextField
  <2> QED
    BY <2>4, <2>5
<1> QED
  BY <1>1, <1>3, <1>4, <1>5 DEF BaseTaken

(* The later fields say nothing, but for the checksum, if it does not hold.*)
LEMMA TextLater ==
  ASSUME Inv, PlaceInv, TextInv, WithinHeader, Said' = Said, Here.at # "end",
         field' = "returned" => hdr_ret' \notin Refused
  PROVE  TextInv'
<1>1. HeaderFixed
  BY HeaderFix
<1>2. FieldSaid
  BY <1>1 DEF FieldSaid, HeaderFixed
<1> QED
  BY <1>2, TextField

LEMMA TextHcrc ==
  ASSUME Inv, PlaceInv, TextInv, SumInv, WithinHeader, ReadHcrc
  PROVE  TextInv'
<1>1. HcrcTaken /\ HeaderFixed /\ field = "hcrc"
  BY HcrcTakes, HeaderFix DEF ReadHcrc
<1>2. OnGzip /\ crc_flag \in {"gzip", "gzip_no_hdr_ver"} /\ ~ wrapper_flag
  BY <1>1, InHeader DEF PlaceInv, HeaderFixed
<1>3. Here.at = "hcrc" /\ crc_flag = "gzip_no_hdr_ver"
  BY <1>1, <1>2 DEF OnGzip, At
<1>4. hcrc = SumAt(Coming)
  BY <1>1, <1>3 DEF SumInv, HeaderFixed
<1>5. SumAt(Coming) = Extended(0, Values(SubSeq(file.units, 1, Before(file, Coming))))
  BY DEF SumAt, Take
<1>6. CASE Coming' = Coming /\ hdr_ret' = "END_INPUT"
  <2>1. Said' = Said
    BY <1>1, <1>6 DEF HeaderFixed, Said
  <2> QED
    BY <1>3, <1>6, <2>1, TextLater DEF Refused, Errors
<1>7. CASE field' = "returned" /\ hdr_ret' = "INCORRECT_CHECKSUM" /\ hcrc # Coming[1].value
            /\ (Coming[1].value # SumAt(Coming) => ~ Said'.ok)
  <2>1. FieldSaid
    BY <1>4, <1>7 DEF FieldSaid, Refused
  <2> QED
    BY <2>1, TextField
<1>8. CASE field' = "done" /\ hcrc = Coming[1].value /\ (Coming[1].value = SumAt(Coming) => Said' = Said)
  BY <1>3, <1>4, <1>8, TextLater
<1> QED
  BY <1>1, <1>5, <1>6, <1>7, <1>8 DEF HcrcTaken

LEMMA TextWithinHeader ==
  ASSUME Inv, PlaceInv, TextInv, SumInv, ~ SplitHeaders, WithinHeader
  PROVE  TextInv'
<1>1. HeaderFixed
  BY HeaderFix
<1>2. OnGzip
  BY <1>1, InHeader DEF PlaceInv, HeaderFixed
<1>3. CASE ReadExtraLen
  <2>1. ExtraLenTaken /\ field = "extra_len"
    BY <1>3, ExtraLenTakes DEF ReadExtraLen
  <2>2. Here.at = "xlen"
    BY <1>2, <2>1 DEF OnGzip, OnField, At
  <2> QED
    BY <2>1, <2>2, TextLater DEF ExtraLenTaken, Refused, Errors
<1>4. CASE CopyExtra
  <2>1. ExtraTaken /\ field = "extra"
    BY <1>4, ExtraTakes DEF CopyExtra
  <2>2. Here.at # "end"
    BY <1>2, <2>1 DEF OnGzip, At, OnExtra, BehindExtra, BehindName, BehindComment
  <2>3. AfterExtra(flags) # "returned"
    BY DEF AfterExtra, AfterName, AfterComment
  <2> QED
    BY <2>1, <2>2, <2>3, TextLater DEF ExtraTaken, Refused, Errors
<1>5. CASE CopyName
  <2>1. NameTaken /\ Here.at = "name"
    BY <1>5, NameTakes
  <2>2. AfterName(flags) # "returned"
    BY DEF AfterName, AfterComment
  <2> QED
    BY <2>1, <2>2, TextLater DEF NameTaken, TextTaken, Refused, Errors
<1>6. CASE CopyComment
  <2>1. CommentTaken /\ Here.at = "comment"
    BY <1>6, CommentTakes
  <2>2. AfterComment(flags) # "returned"
    BY DEF AfterComment
  <2> QED
    BY <2>1, <2>2, TextLater DEF CommentTaken, TextTaken, Refused, Errors
<1>7. CASE SumHeader
  <2>1. field = "sum" /\ field' = "hcrc" /\ Said' = Said
    BY <1>7, SumStays
  <2>2. Here.at = "hcrc"
    BY <1>2, <2>1 DEF OnGzip
  <2> QED
    BY <2>1, <2>2, TextLater
<1>8. CASE HeaderDone
  <2>1. Here.at = "block" /\ Said' = Said /\ hdr_ret' = "DECOMP_OK"
    BY <1>8, DoneStays
  <2> QED
    BY <2>1, TextLater DEF Refused, Errors
<1> QED
  BY <1>3, <1>4, <1>5, <1>6, <1>7, <1>8, TextReadBase, TextHcrc DEF WithinHeader, HeaderStep

LEMMA ViewWithinHeader ==
  ASSUME Inv, PlaceInv, TextInv, ViewInv, WithinHeader
  PROVE  ViewInv'
<1>1. HeaderFixed
  BY HeaderFix
<1>2. Going
  BY <1>1 DEF HeaderFixed, Going, WrapperStates
<1> QED
  BY <1>1, <1>2, ViewFrame DEF HeaderFixed

LEMMA DictWithinHeader ==
  ASSUME Inv, PlaceInv, TextInv, DictInv, WithinHeader
  PROVE  DictInv'
<1>1. HeaderFixed
  BY HeaderFix
<1>2. crc_flag \in {"gzip", "gzip_no_hdr_ver"}
  BY <1>1, InHeader DEF HeaderFixed
<1>3. Loaded
  BY <1>2 DEF DictInv
<1>4. Loaded' <=> Loaded
  BY <1>1 DEF HeaderFixed, Loaded
<1> QED
  BY <1>3, <1>4 DEF DictInv

-----------------------------------------------------------------------------
(* The text while a zlib header is read.                                   *)
ZlibFixed ==
  /\ UNCHANGED <<file, rest, read_in, crc_flag, field, hdr_ret>>
  /\ UNCHANGED <<tmp_out, processed, user, base, write_overflow, copy_overflow>>
  /\ pc \in {"zlib", "dict_id"} /\ pc' \in {"idle", "dict_id", "begin"} /\ ~ WithinMember
  /\ ~ RefusedNow /\ copy_overflow.len = 0 /\ crc_flag = "zlib" /\ field = "none"
  /\ block_state \in {"NEW_HDR", "ZLIB_DICT"} /\ block_state' \in {"NEW_HDR", "ZLIB_DICT"}
  /\ Said.ok /\ Said.from = base /\ ~ wrapper_flag
LEMMA ZlibFix ==
  ASSUME Inv, PlaceInv, TextInv, ReadZlibBase \/ ReadZlibDict
  PROVE  ZlibFixed
<1>1. /\ UNCHANGED <<file, rest, read_in, crc_flag, field, hdr_ret>>
      /\ UNCHANGED <<tmp_out, processed, user, base, write_overflow, copy_overflow>>
  BY DEF ReadZlibBase, ReadZlibDict, zlib_unchanged, outside_header, params, over, output, hdr_locals
<1>2. pc \in {"zlib", "dict_id"} /\ pc' \in {"idle", "dict_id", "begin"}
  BY DEF ReadZlibBase, ReadZlibDict, ZlibLeaves
<1>3. /\ field = "none" /\ ret = "OK" /\ ~ WithinMember /\ crc_flag = "zlib" /\ ~ wrapper_flag
      /\ Here.at \in {"dict", "cmf"}
  BY <1>2, ZlibFrame
<1>4. block_state \in {"NEW_HDR", "ZLIB_DICT"}
  BY <1>3 DEF Inv, ControlInv
<1>5. block_state' \in {"NEW_HDR", "ZLIB_DICT"}
  BY <1>4 DEF ReadZlibBase, ReadZlibDict
<1>6. ~ RefusedNow
  BY <1>3, NotRefused
<1>7. copy_overflow.len = 0
  BY <1>2, NoOverflow
<1>8. Said.ok /\ Said.from = base
  BY <1>3, <1>6 DEF TextInv, TextValid
<1> QED
  BY <1>1, <1>2, <1>3, <1>4, <1>5, <1>6, <1>7, <1>8 DEF ZlibFixed

LEMMA TextZlib ==
  ASSUME Inv, PlaceInv, TextInv, ReadZlibBase \/ ReadZlibDict
  PROVE  TextInv'
<1>1. ZlibFixed
  BY ZlibFix
<1>2. ASSUME Said' = Said, ret' \notin Refused
      PROVE  TextInv'
  <2>1. ~ RefusedNow'
    BY <1>1, <1>2 DEF ZlibFixed, RefusedNow
  <2>2. Said'.ok /\ Said'.out = Said.out /\ Said'.from = base
    BY <1>1, <1>2 DEF ZlibFixed
  <2>3. block_state' \notin {"CHECKSUM_CHECK", "FINISH"}
    BY <1>1 DEF ZlibFixed
  <2> QED
    BY <1>1, <2>1, <2>2, <2>3, TextFrame DEF ZlibFixed
<1>3. ret \notin Refused
  BY <1>1 DEF ZlibFixed, RefusedNow
<1>4. CASE ReadZlibDict
  <2>1. ZlibDictTaken
    BY <1>4, ZlibDictTakes
  <2> QED
    BY <1>2, <1>3, <2>1 DEF ZlibDictTaken, Refused, Errors
<1>5. CASE ReadZlibBase
  <2>1. ZlibBaseTaken
    BY <1>5, ZlibBaseTakes
  <2>2. CASE Coming' = Coming /\ ret' = "DECOMP_OK"
    <3>1. Said' = Said
      BY <1>1, <2>2 DEF ZlibFixed, Said
    <3> QED
      BY <1>2, <2>2, <3>1 DEF Refused, Errors
  <2>3. CASE ret' \in {"UNSUPPORTED_METHOD", "INCORRECT_CHECKSUM"} /\ ~ Said'.ok
    <3>1. RefusedNow'
      BY <2>3 DEF RefusedNow, Refused
    <3>2. block_state' \notin {"CHECKSUM_CHECK", "FINISH"}
      BY <1>1 DEF ZlibFixed
    <3> QED
      BY <1>1, <2>3, <3>1, <3>2, TextFrame DEF ZlibFixed
  <2>4. CASE Said' = Said /\ ret' = ret
    BY <1>2, <1>3, <2>4
  <2> QED
    BY <2>1, <2>2, <2>3, <2>4 DEF ZlibBaseTaken
<1> QED
  BY <1>4, <1>5

LEMMA ViewZlib ==
  ASSUME Inv, PlaceInv, TextInv, ViewInv, ReadZlibBase \/ ReadZlibDict
  PROVE  ViewInv' /\ SumInv'
<1>1. ZlibFixed
  BY ZlibFix
<1>2. Going
  BY <1>1 DEF ZlibFixed, Going
<1>3. ~ OwnHeader'
  BY <1>1 DEF ZlibFixed, OwnHeader
<1> QED
  BY <1>1, <1>2, <1>3, ViewFrame, SumVacuous DEF ZlibFixed

(* Two units are missing, or they are not.                                 *)
LEMMA TwoUnits ==
  ASSUME next_in \in Seq(FileUnits), tmp_in \in Seq(FileUnits), NEW read, read = fixed_size_read(2)
  PROVE  /\ read.ret # "OK" => /\ Len(tmp_in) + Len(next_in) < 2 /\ Len(read.tmp) < 2
                               /\ read.next = <<>>
         /\ read.ret = "OK" => /\ Len(tmp_in) + Len(next_in) >= 2 /\ read.tmp = <<>>
                               /\ tmp_in = <<>> => Len(read.next) = Len(next_in) - 2
<1>1. PICK w \in Seq(FileUnits) : w = tmp_in \o next_in /\ Len(w) = Len(tmp_in) + Len(next_in)
  BY Joined
<1>2. Len(tmp_in) \in Nat /\ Len(next_in) \in Nat
  OBVIOUS
<1>3. CASE Len(w) < 2
  BY <1>1, <1>2, <1>3 DEF fixed_size_read
<1>4. CASE ~ (Len(w) < 2)
  <2>1. read = [ret |-> "OK", units |-> Take(w, 2), next |-> Drop(w, 2), tmp |-> <<>>]
    BY <1>1, <1>4 DEF fixed_size_read
  <2>2. Len(Drop(w, 2)) = Len(w) - 2
    BY <1>4, Dropped
  <2>3. tmp_in = <<>> => Len(w) = Len(next_in)
    BY <1>1, <1>2
  <2> QED
    BY <1>1, <1>4, <2>1, <2>2, <2>3
<1> QED
  BY <1>3, <1>4

LEMMA DictZlibBase ==
  ASSUME Inv, PlaceInv, TextInv, DictInv, ReadZlibBase
  PROVE  DictInv'
<1>1. ZlibFixed /\ pc = "zlib" /\ block_state = "NEW_HDR" /\ block_state' = block_state
  BY ZlibFix DEF ReadZlibBase
<1>2. Loaded' <=> Loaded
  BY <1>1 DEF ZlibFixed, Loaded
<1> SUFFICES ASSUME ~ Loaded PROVE DictInv'
  BY <1>2 DEF DictInv
<1>3. user' = <<>> /\ crc_flag' = "zlib" /\ file.dict # <<>> /\ ~ wrapper_flag
  BY <1>1 DEF ZlibFixed, DictInv, Loaded
<1>4. BaseNext
  BY <1>1 DEF DictInv, ZlibFixed, DictAsked, IdWaits, IdNext
<1>5. ret = "OK" /\ ret \notin Refused /\ Rest(file, Coming) /\ OneFormat
  BY <1>1, ZlibFrame DEF Refused, Errors
<1>6. /\ Coming = file.units
      /\ \/ Starved
         \/ tmp_in = <<>> /\ (Len(next_in) >= 4 \/ rest = <<>>)
  BY <1>1, <1>4, <1>5 DEF BaseNext, ZLIB_HDR_BASE, ZLIB_DICT_LEN
<1>7. PICK read : read = fixed_size_read(2)
  OBVIOUS
<1>8. next_in' = read.next /\ tmp_in' = read.tmp
  BY <1>7 DEF ReadZlibBase, ZLIB_HDR_BASE
<1>9. /\ next_in \in Seq(FileUnits) /\ tmp_in \in Seq(FileUnits)
      /\ Len(next_in) \in Nat /\ Len(tmp_in) \in Nat
  BY PlaceTypes
<1>10. /\ read.ret # "OK" => /\ Len(tmp_in) + Len(next_in) < 2 /\ Len(read.tmp) < 2
                             /\ read.next = <<>>
       /\ read.ret = "OK" => /\ Len(tmp_in) + Len(next_in) >= 2 /\ read.tmp = <<>>
                             /\ tmp_in = <<>> => Len(read.next) = Len(next_in) - 2
  BY <1>7, <1>9, TwoUnits
<1>11. ZlibBaseTaken
  BY ZlibBaseTakes
<1>12. CASE read.ret # "OK"
  <2>1. pc' = "idle" /\ ret' = "DECOMP_OK" /\ wrapper_flag' = wrapper_flag
    BY <1>7, <1>12 DEF ReadZlibBase, ZlibLeaves, ZLIB_HDR_BASE
  <2>2. Coming' = Coming
    BY <1>11, <2>1 DEF ZlibBaseTaken
  <2>3. Starved'
    <3>1. rest = <<>>
      BY <1>6, <1>9, <1>10, <1>12 DEF Starved
    <3> QED
      BY <1>1, <1>8, <1>10, <1>12, <3>1 DEF ZlibFixed, Starved, ZLIB_DICT_LEN
  <2>4. BaseNext'
    BY <1>1, <1>3, <1>6, <2>1, <2>2, <2>3 DEF BaseNext, ZlibFixed
  <2> QED
    BY <1>3, <2>4 DEF DictInv
<1>13. CASE read.ret = "OK"
  <2>1. tmp_in = <<>> /\ (Len(read.next) >= 2 \/ rest = <<>>) /\ read.tmp = <<>>
    BY <1>6, <1>9, <1>10, <1>13 DEF Starved, ZLIB_DICT_LEN
  <2>2. CASE ret' \in Refused
    <3>1. pc' = "idle" /\ wrapper_flag' = wrapper_flag /\ ret' # "NEED_DICT"
      BY <1>5, <1>11, <2>2 DEF ZlibBaseTaken, Refused, Errors
    <3>2. BaseNext'
      BY <1>1, <1>3, <2>2, <3>1 DEF BaseNext
    <3> QED
      BY <1>3, <3>2 DEF DictInv
  <2>3. CASE ret' \notin Refused
    <3>1. read.units[1].value = 0 /\ read.units[2].value \in 0 .. 1
      BY <1>7, <1>13, <2>3 DEF ReadZlibBase, ZlibLeaves, ZLIB_HDR_BASE, Refused
    <3>2. FixedTaken(read, 2)
      <4>1. read_in = <<>> /\ 2 \in 1 .. 3
        BY <1>1, ZlibFrame
      <4> QED
        BY <1>5, <1>7, <4>1, FixedTakes
    <3>3. 2 <= Len(Coming) /\ read.units[2] = Coming[2]
      BY <1>13, <3>2 DEF FixedTaken
    <3>4. file.units[2].value = 1
      <4>1. file \in Files /\ file.flag = "zlib"
        BY <1>1, <1>5, PlaceTypes DEF OneFormat, ZlibFixed
      <4>2. Len(file.units) > 1
        BY <1>6, <3>3, PlaceTypes
      <4> QED
        BY <1>3, <4>1, <4>2, DictAssumption
    <3>5. read.units[2].value = 1
      BY <1>6, <3>3, <3>4
    <3>6. pc' = "dict_id" /\ wrapper_flag' = wrapper_flag
      BY <1>7, <1>13, <3>1, <3>5 DEF ReadZlibBase, ZLIB_HDR_BASE
    <3>7. IdNext'
      BY <1>1, <1>3, <1>8, <2>1, <3>6 DEF IdNext, ZlibFixed, ZLIB_DICT_LEN
    <3> QED
      BY <1>3, <3>7 DEF DictInv
  <2> QED
    BY <2>2, <2>3
<1> QED
  BY <1>12, <1>13

LEMMA DictZlibDict ==
  ASSUME Inv, PlaceInv, TextInv, DictInv, ReadZlibDict
  PROVE  DictInv'
<1>1. ZlibFixed /\ (pc = "dict_id" \/ (pc = "zlib" /\ block_state = "ZLIB_DICT"))
  BY ZlibFix DEF ReadZlibDict
<1>2. Loaded' <=> Loaded
  BY <1>1 DEF ZlibFixed, Loaded
<1> SUFFICES ASSUME ~ Loaded PROVE DictInv'
  BY <1>2 DEF DictInv
<1>3. user' = <<>> /\ crc_flag' = "zlib" /\ ~ wrapper_flag
  BY <1>1 DEF ZlibFixed, DictInv, Loaded
<1>4. \/ IdNext
      \/ IdWaits /\ pc = "zlib"
  BY <1>1 DEF DictInv, ZlibFixed, DictAsked, IdWaits, IdNext, BaseNext
<1>5. PICK read : read = fixed_size_read(2)
  OBVIOUS
<1>6. next_in' = read.next /\ tmp_in' = read.tmp
  BY <1>5 DEF ReadZlibDict, ZLIB_DICT_LEN
<1>7. /\ next_in \in Seq(FileUnits) /\ tmp_in \in Seq(FileUnits)
      /\ Len(next_in) \in Nat /\ Len(tmp_in) \in Nat
  BY PlaceTypes
<1>8. /\ read.ret # "OK" => /\ Len(tmp_in) + Len(next_in) < 2 /\ Len(read.tmp) < 2
                            /\ read.next = <<>>
      /\ read.ret = "OK" => Len(tmp_in) + Len(next_in) >= 2
  BY <1>5, <1>7, TwoUnits
<1>9. CASE read.ret # "OK"
  <2>1. pc' = "idle" /\ ret' = "DECOMP_OK" /\ wrapper_flag' = wrapper_flag /\ block_state' = "ZLIB_DICT"
    BY <1>5, <1>9 DEF ReadZlibDict, ZlibLeaves, ZLIB_DICT_LEN
  <2>2. rest = <<>>
    BY <1>4, <1>7, <1>8, <1>9 DEF IdNext, IdWaits, Starved, ZLIB_DICT_LEN
  <2>3. IdWaits'
    BY <1>1, <1>3, <1>6, <1>8, <1>9, <2>1, <2>2 DEF IdWaits, Starved, ZlibFixed, ZLIB_DICT_LEN
  <2> QED
    BY <1>3, <2>3 DEF DictInv
<1>10. CASE read.ret = "OK"
  <2>1. pc = "dict_id"
    BY <1>4, <1>7, <1>8, <1>10 DEF IdNext, IdWaits, Starved, ZLIB_DICT_LEN
  <2>2. DictAsked'
    BY <1>5, <1>10, <2>1 DEF ReadZlibDict, DictAsked, ZLIB_DICT_LEN
  <2> QED
    BY <1>3, <2>2 DEF DictInv
<1> QED
  BY <1>9, <1>10

-----------------------------------------------------------------------------
(* Steps within a member: its blocks and its trailer.                      *)
MemberStep ==
  \/ ReadHeader("tmp", "drain") \/ DecodeTmp \/ ReadHeader("out", "end") \/ DecodeOut
  \/ Drain \/ End \/ ReadTrailer
MemberFixed ==
  /\ UNCHANGED <<file, rest, crc_flag, wrapper_flag, field, hdr_ret, start_out, base>>
  /\ pc \in Decoding \cup {"trailer"} /\ field = "none" /\ WithinMember /\ WithinMember'

LEMMA MemberFix ==
  ASSUME Inv, MemberStep
  PROVE  MemberFixed
<1>1. /\ UNCHANGED <<file, rest, crc_flag, wrapper_flag, field, hdr_ret, start_out, base>>
      /\ pc \in Decoding \cup {"trailer"}
  <2>1. CASE ReadHeader("tmp", "drain")
    BY <2>1 DEF ReadHeader, Decoding, header, hdr_locals, params
  <2>2. CASE DecodeTmp
    BY <2>2 DEF DecodeTmp, Decode, Decoding, header, hdr_locals, params
  <2>3. CASE ReadHeader("out", "end")
    BY <2>3 DEF ReadHeader, Decoding, header, hdr_locals, params
  <2>4. CASE DecodeOut
    BY <2>4 DEF DecodeOut, Decode, Decoding, header, hdr_locals, params
  <2>5. CASE Drain
    BY <2>5 DEF Drain, Decoding, header, hdr_locals, params
  <2>6. CASE End
    BY <2>6 DEF End, Decoding, header, hdr_locals, params
  <2>7. CASE ReadTrailer
    BY <2>7 DEF ReadTrailer, Decoding, header, hdr_locals, params, output
  <2> QED
    BY <2>1, <2>2, <2>3, <2>4, <2>5, <2>6, <2>7 DEF MemberStep
<1>2. field = "none"
  BY <1>1 DEF Inv, HeaderInv, Decoding
<1>3. WithinMember
  BY <1>1 DEF Inv, ControlInv
<1>4. WithinMember'
  BY <1>1, <1>3 DEF WithinMember
<1> QED
  BY <1>1, <1>2, <1>3, <1>4 DEF MemberFixed

LEMMA SumMember ==
  ASSUME Inv, MemberStep
  PROVE  SumInv'
<1>1. WithinMember'
  BY MemberFix DEF MemberFixed
<1> QED
  BY <1>1, SumVacuous DEF OwnHeader

LEMMA SumCall ==
  ASSUME Inv, NEW n \in InSizes, NEW o \in OutSizes, Call(n, o)
  PROVE  SumInv'
<1>1. crc_flag' = crc_flag /\ wrapper_flag' = wrapper_flag
  BY DEF Call, header
<1>2. crc_flag = "gzip_no_hdr_ver" => wrapper_flag
  BY DEF Call
<1> QED
  BY <1>1, <1>2, SumVacuous DEF OwnHeader, WithinMember

LEMMA SumBegin ==
  ASSUME Inv, Begin
  PROVE  SumInv'
<1>1. crc_flag' = crc_flag /\ wrapper_flag' = wrapper_flag /\ pc = "begin"
  BY DEF Begin, header
<1>2. WithinMember
  BY <1>1 DEF Inv, ControlInv
<1> QED
  BY <1>1, <1>2, SumVacuous DEF OwnHeader, WithinMember

(* What was loaded stays loaded: the buffer is never emptied again.        *)
LEMMA KeptSome ==
  ASSUME Inv, pc = "end", tmp_out # <<>>
  PROVE  Len(Kept.buffer) >= 1
<1>1. tmp_out \in Seq(Nat) /\ Len(tmp_out) \in Nat /\ processed \in Nat /\ processed <= Len(tmp_out)
  BY DEF Inv, BufferInv
<1>2. Len(tmp_out) >= 1
  BY <1>1
<1>3. Hist \in Nat /\ Hist >= 1
  BY InflateAssumption
<1>4. user \in Seq(Nat) /\ start_out \in Nat
  BY DEF Inv, BufferInv
<1>5. Produced \in Seq(Nat) /\ Len(Produced) \in Nat
  <2>1. Drop(user, start_out) \in Seq(Nat)
    BY <1>4, DroppedAny, Zenon
  <2>2. Produced \in Seq(Nat)
    BY <2>1 DEF Produced
  <2> QED
    BY <2>2
<1>6. CASE FromUser
  <2>1. Len(Produced) >= Hist
    BY <1>6 DEF FromUser
  <2>2. Len(Drop(Produced, Len(Produced) - Hist)) = Len(Produced) - (Len(Produced) - Hist)
    <3>1. Len(Produced) - Hist \in Nat /\ Len(Produced) - Hist <= Len(Produced)
      BY <1>3, <1>5, <2>1
    <3> QED
      BY <1>5, <3>1, Dropped, Zenon
  <2> QED
    BY <1>2, <1>3, <1>5, <1>6, <2>2 DEF Kept
<1>7. CASE ~ FromUser /\ Shifts
  <2>1. Hist <= processed
    BY <1>1, <1>3, <1>7 DEF Shifts
  <2>2. Shift \in Nat /\ Shift <= Len(tmp_out) - Hist
    <3>1. Len(tmp_out) - Hist \in Nat
      BY <1>1, <1>3, <2>1
    <3> QED
      BY <1>1, <3>1, LeastOf DEF Shift
  <2>3. Len(Drop(tmp_out, Shift)) = Len(tmp_out) - Shift
    <3>1. Shift <= Len(tmp_out)
      BY <1>1, <1>3, <2>2
    <3> QED
      BY <1>1, <2>2, <3>1, Dropped, Zenon
  <2> QED
    BY <1>1, <1>2, <1>3, <1>7, <2>2, <2>3 DEF Kept
<1>8. CASE ~ FromUser /\ ~ Shifts
  BY <1>2, <1>8 DEF Kept
<1> QED
  BY <1>6, <1>7, <1>8

LEMMA DictMember ==
  ASSUME Inv, DictInv, MemberStep
  PROVE  DictInv' /\ Loaded'
<1>1. MemberFixed
  BY MemberFix
<1>2. Loaded
  BY <1>1 DEF MemberFixed, DictInv, DictAsked, IdWaits, IdNext, BaseNext, Decoding
<1>3. tmp_out \in Seq(Nat) /\ write_overflow \in Seq(Nat)
      /\ copy_overflow \in [len : 0 .. MaxMatch, dist : 0 .. Hist]
  BY DEF Inv, BufferInv
<1>4. tmp_out # <<>> => tmp_out' # <<>>
  <2> SUFFICES ASSUME tmp_out # <<>> PROVE tmp_out' # <<>>
    OBVIOUS
  <2>0. Len(tmp_out) \in Nat /\ Len(tmp_out) >= 1
    BY <1>3
  <2>1. CASE tmp_out' = tmp_out
    BY <2>1
  <2>2. CASE DecodeTmp
    <3>1. PICK dec : dec = Decoded(tmp_out, 2 * Hist - Len(tmp_out)) /\ tmp_out' = tmp_out \o dec.out
      BY <2>2 DEF DecodeTmp
    <3>2. pc = "tmp"
      BY <2>2 DEF DecodeTmp, Decode
    <3>3. 2 * Hist - Len(tmp_out) \in Nat
      BY <2>0, <3>2, Sizes DEF Inv, BufferInv
    <3>4. dec.out \in Seq(Nat)
      BY <1>3, <3>1, <3>3, DecodersOK DEF DecodedOK
    <3>5. Len(tmp_out \o dec.out) = Len(tmp_out) + Len(dec.out) /\ Len(dec.out) \in Nat
      BY <1>3, <3>4, Joined
    <3>6. Len(tmp_out \o dec.out) # 0
      BY <2>0, <3>5
    <3> QED
      BY <3>1, <3>6
  <2>3. CASE Drain
    <3>1. tmp_out' = Flushed(tmp_out)
      BY <2>3 DEF Drain
    <3>2. Len(Flushed(tmp_out)) = Len(tmp_out) + OverflowLen /\ OverflowLen \in Nat
      BY <1>3, FlushedOK
    <3>3. Len(Flushed(tmp_out)) # 0
      BY <2>0, <3>2
    <3> QED
      BY <3>1, <3>3
  <2>4. CASE End
    <3>1. tmp_out' = Flushed(Kept.buffer) /\ pc = "end"
      BY <2>4 DEF End
    <3>2. Kept.buffer \in Seq(Nat) /\ Len(Kept.buffer) \in Nat /\ Len(Kept.buffer) >= 1
      BY <3>1, KeptOK, KeptSome
    <3>3. Len(Flushed(Kept.buffer)) = Len(Kept.buffer) + OverflowLen /\ OverflowLen \in Nat
      BY <1>3, <3>2, FlushedOK
    <3>4. Len(Flushed(Kept.buffer)) # 0
      BY <3>2, <3>3
    <3> QED
      BY <3>1, <3>4
  <2> QED
    BY <2>1, <2>2, <2>3, <2>4 DEF MemberStep, ReadHeader, DecodeOut, ReadTrailer, output
<1>5. Loaded'
  BY <1>1, <1>2, <1>4 DEF Loaded, MemberFixed
<1> QED
  BY <1>5 DEF DictInv

-----------------------------------------------------------------------------
(* Headers of blocks.                                                      *)
LEMMA TextReadHeader ==
  ASSUME Inv, PlaceInv, TextInv, NEW here \in {"tmp", "out"}, NEW after \in {"drain", "end"},
         ReadHeader(here, after)
  PROVE  TextInv'
<1>1. PICK hdr : hdr = read_header_stateful(Input)
  OBVIOUS
<1>2. /\ pc = here /\ block_state \in {"NEW_HDR", "HDR"}
      /\ block_state' = hdr.block /\ ret' = hdr.ret
      /\ UNCHANGED <<file, rest, crc_flag, wrapper_flag, field, hdr_ret>>
      /\ UNCHANGED <<tmp_out, processed, user, base, write_overflow, copy_overflow>>
  BY <1>1 DEF ReadHeader, Loop, Input, params, header, hdr_locals, over
<1>3. /\ HeaderTaken(Coming, Input, hdr, rest)
      /\ Coming' = ComingOf(hdr.in.read, hdr.tmp_in, hdr.in.next, rest)
  BY <1>1, ReadHeaderTakes
<1>4. Rest(file, Coming) /\ Here.at = "block" /\ Coming \in Seq(FileUnits)
  BY <1>2, MemberFrame, PlaceTypes DEF OnMember, Errors
<1>5. /\ WithinMember /\ field = "none" /\ ret = "OK"
  BY <1>2, MemberFrame
<1>6. ~ RefusedNow
  BY <1>5, NotRefused
<1>7. Said.ok /\ Said.out = Flushed(Whole) /\ Said.from = base
  BY <1>5, <1>6 DEF TextInv, TextValid
<1>8. Said' = SaidOf(file, Coming') /\ WithinMember' /\ field' = "none"
  BY <1>2, <1>5 DEF Said, WithinMember
<1>9. ASSUME block_state' \notin {"CHECKSUM_CHECK", "FINISH"},
              (Said' = Said /\ ~ RefusedNow') \/ (RefusedNow' /\ ~ Said'.ok)
       PROVE  TextInv'
  <2>1. \/ RefusedNow /\ RefusedNow' /\ Said' = Said
        \/ ~ RefusedNow /\ RefusedNow' /\ ~ Said'.ok
        \/ /\ ~ RefusedNow /\ ~ RefusedNow' /\ Said'.ok /\ Said'.out = Said.out
           /\ WithinMember' \/ Here'.at # "end" => Said'.from = base
    BY <1>6, <1>7, <1>9
  <2>2. ~ WithinMember' => ~ WithinMember
    BY <1>8
  <2>3. block_state' \in {"CHECKSUM_CHECK", "FINISH"} =>
          block_state \in {"CHECKSUM_CHECK", "FINISH"} \/ processed = Len(tmp_out)
    BY <1>9
  <2>4. UNCHANGED <<file, tmp_out, processed, user, base, write_overflow, copy_overflow>>
    BY <1>2
  <2> QED
    BY <2>1, <2>2, <2>3, <2>4, TextFrame
<1>10. CASE hdr.ret = "END_INPUT"
  <2>1. Coming' = Coming /\ block_state' = "HDR" /\ ret' = "END_INPUT"
    BY <1>2, <1>3, <1>10 DEF HeaderTaken
  <2>2. Said' = Said
    BY <1>8, <2>1 DEF Said
  <2>3. ~ RefusedNow'
    BY <1>8, <2>1 DEF RefusedNow, Refused, Errors
  <2> QED
    BY <1>9, <2>1, <2>2, <2>3
<1>11. CASE hdr.ret # "END_INPUT"
  <2>1. PICK n \in 1 .. 3 : n = HeaderSize(Coming) /\ n <= Len(Coming) /\ Coming' = Drop(Coming, n)
    BY <1>3, <1>11 DEF HeaderTaken
  <2>2. 1 <= Len(Coming)
    <3>1. n \in Nat /\ n >= 1 /\ Len(Coming) \in Nat
      BY <1>4
    <3> QED
      BY <2>1, <3>1
  <2>3. /\ Coming[1].kind \in DOMAIN HeaderUnits => Said' = Said
        /\ Coming[1].kind \notin DOMAIN HeaderUnits => ~ Said'.ok
    BY <1>4, <1>8, <2>1, <2>2, PlaceTypes, HeaderPlaces DEF Here, Said
  <2>4. CASE hdr.ret = "INVALID_BLOCK"
    <3>1. RefusedNow' /\ ~ Said'.ok /\ block_state' = block_state
      BY <1>2, <1>3, <2>3, <2>4 DEF HeaderTaken, RefusedNow, Refused, Errors
    <3>2. block_state' \notin {"CHECKSUM_CHECK", "FINISH"}
      BY <1>2, <3>1
    <3> QED
      BY <1>9, <3>1, <3>2
  <2>5. CASE hdr.ret = "OK"
    <3>1. Said' = Said /\ block_state' \in {"TYPE0", "CODED"}
      BY <1>2, <1>3, <2>3, <2>5 DEF HeaderTaken
    <3>2. ~ RefusedNow'
      BY <1>2, <1>8, <2>5 DEF RefusedNow, Refused, Errors
    <3>3. block_state' \notin {"CHECKSUM_CHECK", "FINISH"}
      BY <3>1
    <3> QED
      BY <1>9, <3>1, <3>2, <3>3
  <2> QED
    BY <1>3, <1>11, <2>4, <2>5 DEF HeaderTaken
<1> QED
  BY <1>10, <1>11

LEMMA ViewReadHeader ==
  ASSUME Inv, ViewInv, ReadHeader("tmp", "drain") \/ ReadHeader("out", "end")
  PROVE  ViewInv'
<1>1. /\ pc \in {"tmp", "out"} /\ block_state \in {"NEW_HDR", "HDR"}
      /\ pc = "tmp" => pc' \in {"tmp", "drain"}
      /\ pc = "out" => pc' \in {"out", "end"}
      /\ UNCHANGED <<file, tmp_out, processed, user, base, write_overflow, copy_overflow, start_out>>
  BY DEF ReadHeader, Loop, params, over
<1>2. (Going /\ ret = "OK") \/ (Going /\ pc \notin {"drain", "end"})
  BY <1>1 DEF Going
<1>3. copy_overflow.len = 0
  BY <1>1, NoOverflow
<1>4. CASE pc = "tmp"
  BY <1>1, <1>2, <1>3, <1>4, ViewFrame
<1>5. CASE pc = "out"
  <2>1. View' = View /\ Produced' = Produced
    BY <1>1 DEF View, Produced
  <2>2. SeenBy(tmp_out)' <=> SeenBy(tmp_out)
    BY <1>1, <2>1 DEF SeenBy, EndsRight, EndsAlike
  <2>3. Hist <= Len(Produced) \/ SeenBy(tmp_out)
    BY <1>2, <1>5 DEF ViewInv
  <2>4. processed = Len(tmp_out)
    BY <1>5 DEF Inv, BufferInv
  <2>5. Len(Produced) \in Nat /\ Hist \in Nat
    <3>1. user \in Seq(Nat) /\ start_out \in Nat
      BY DEF Inv, BufferInv
    <3>2. Drop(user, start_out) \in Seq(Nat)
      BY <3>1, DroppedAny, Zenon
    <3> QED
      BY <3>2, InflateAssumption DEF Produced
  <2>6. Hist <= Len(Produced) => FromUser'
    BY <1>1, <2>1, <2>4, <2>5 DEF FromUser
  <2>7. pc' \in {"out", "end"}
    BY <1>1, <1>5
  <2>8. /\ processed' <= Len(file.dict)' + Len(user)' - base'
        /\ copy_overflow'.len = 0
    BY <1>1, <1>3 DEF ViewInv
  <2>9. CopyInView'
    BY <2>8 DEF CopyInView
  <2>10. (pc' = "out" => Hist <= Len(Produced)' \/ SeenBy(tmp_out)')
         /\ (pc' = "end" => FromUser' \/ SeenBy(tmp_out)')
    BY <2>1, <2>2, <2>3, <2>6
  <2> QED
    BY <2>7, <2>8, <2>9, <2>10 DEF ViewInv
<1> QED
  BY <1>1, <1>4, <1>5

-----------------------------------------------------------------------------
(* The window of a decoder is that of the grammar: a match is found where  *)
(* the grammar says, or neither finds it.                                  *)
Reaches(history, space, v, d) ==
  IF d <= Len(history) + Least(space, Len(v))
  THEN d <= Len(View) + Len(v) /\ EndsAlike(history \o v, Whole \o v, d)
  ELSE d > Len(View) + Len(v)
HistoryRight(history, space) ==
  \A v \in Seq(Nat) : \A d \in 1 .. Hist : Reaches(history, space, v, d)

LEMMA PlusThree ==
  ASSUME NEW a \in Nat, NEW b \in Nat, NEW c \in Nat
  PROVE  (a + b) + c = a + (b + c)
OBVIOUS

LEMMA AlikeTwice ==
  ASSUME NEW s \in Seq(Nat), NEW t \in Seq(Nat), NEW u \in Seq(Nat), NEW n \in Nat,
         EndsAlike(s, t, n), EndsAlike(t, u, n)
  PROVE  EndsAlike(s, u, n)
BY DEF EndsAlike

LEMMA DropAlike ==
  ASSUME NEW s \in Seq(Nat), NEW a \in Nat, a <= Len(s)
  PROVE  EndsAlike(Drop(s, a), s, Len(s) - a)
<1>1. Drop(s, a) \in Seq(Nat) /\ Len(Drop(s, a)) = Len(s) - a
  BY Dropped
<1>2. Len(s) \in Nat
  OBVIOUS
<1>3. \A i \in 1 .. Len(s) - a : Drop(s, a)[i] = s[i + a]
  BY <1>2 DEF Drop
<1>4. ASSUME NEW i \in 0 .. (Len(s) - a) - 1
      PROVE  Drop(s, a)[(Len(s) - a) - i] = s[Len(s) - i]
  <2>1. (Len(s) - a) - i \in 1 .. Len(s) - a /\ ((Len(s) - a) - i) + a = Len(s) - i
    BY <1>2
  <2> QED
    BY <1>3, <2>1
<1>5. Len(s) - a <= Len(s)
  BY <1>2
<1> QED
  BY <1>1, <1>4, <1>5 DEF EndsAlike

(* What ends like the view ends, behind the same literals, like the text.  *)
LEMMA ReachMore ==
  ASSUME Inv, NEW history \in Seq(Nat), NEW n \in Nat, EndsAlike(history, View, n),
         NEW v \in Seq(Nat), NEW d \in Nat, d <= n + Len(v)
  PROVE  EndsAlike(history \o v, Whole \o v, d)
<1>1. View \in Seq(Nat) /\ Whole \in Seq(Nat) /\ base \in Nat /\ base <= Len(Whole)
      /\ View = Drop(Whole, base) /\ Len(v) \in Nat /\ Len(Whole) \in Nat
  BY WholeTypes, SMTT(60)
<1>2. n <= Len(View)
  BY DEF EndsAlike
<1>3. EndsAlike(View, Whole, Len(Whole) - base) /\ Len(View) = Len(Whole) - base
  BY <1>1, DropAlike, Dropped
<1>4. EndsAlike(View, Whole, n)
  BY <1>1, <1>2, <1>3, AlikeLess
<1>5. EndsAlike(history, Whole, n)
  BY <1>1, <1>4, AlikeTwice
<1>6. EndsAlike(history \o v, Whole \o v, n + Len(v))
  BY <1>1, <1>5, AlikeMore
<1>7. history \o v \in Seq(Nat) /\ Whole \o v \in Seq(Nat)
  BY <1>1, Joined
<1>8. n + Len(v) \in Nat
  BY <1>1
<1> QED
  BY <1>6, <1>7, <1>8, AlikeLess

LEMMA ReachTmp ==
  ASSUME Inv, ViewInv, Loaded, Going, pc = "tmp"
  PROVE  HistoryRight(tmp_out, 2 * Hist - Len(tmp_out))
<1>1. /\ tmp_out \in Seq(Nat) /\ Len(tmp_out) \in Nat /\ Len(tmp_out) <= 2 * Hist
      /\ View \in Seq(Nat) /\ Len(View) \in Nat /\ Len(tmp_out) <= Len(View) /\ Hist \in Nat
  <2>1. /\ Len(View) = Len(file.dict) + Len(user) - base + (Len(tmp_out) - processed)
        /\ tmp_out \in Seq(Nat) /\ user \in Seq(Nat) /\ file.dict \in Seq(Nat) /\ base \in Nat
        /\ processed \in Nat /\ View \in Seq(Nat)
    BY WholeTypes
  <2>2. processed <= Len(file.dict) + Len(user) - base
    BY DEF ViewInv
  <2>3. Len(tmp_out) \in Nat /\ Len(user) \in Nat /\ Len(file.dict) \in Nat /\ Len(View) \in Nat
    BY <2>1
  <2>4. Len(tmp_out) <= Len(View)
    BY <2>1, <2>2, <2>3
  <2>5. Len(tmp_out) <= 2 * Hist /\ Hist \in Nat
    BY Sizes DEF Inv, BufferInv
  <2> QED
    BY <2>1, <2>3, <2>4, <2>5
<1>2. PICK n \in Nat : /\ n = Least(Hist, Len(View)) /\ EndsAlike(tmp_out, View, n)
                       /\ n <= Hist /\ n <= Len(View) /\ (n = Hist \/ n = Len(View))
  BY <1>1, LeastOf DEF ViewInv, SeenBy, EndsRight
<1>3. n <= Len(tmp_out)
  BY <1>2 DEF EndsAlike
<1>4. ASSUME NEW v \in Seq(Nat), NEW d \in 1 .. Hist
      PROVE  Reaches(tmp_out, 2 * Hist - Len(tmp_out), v, d)
  <2>0. 2 * Hist - Len(tmp_out) \in Nat
    BY <1>1, Sizes
  <2>1. PICK space \in Nat : space = 2 * Hist - Len(tmp_out)
    BY <2>0
  <2>3. Len(v) \in Nat
    OBVIOUS
  <2>2. PICK k \in Nat : k = Least(space, Len(v)) /\ k <= space /\ k <= Len(v) /\ (k = space \/ k = Len(v))
    BY <2>3, LeastOf
  <2>4. CASE d <= Len(tmp_out) + k
    <3>1. d <= Len(View) + Len(v)
      BY <1>1, <2>2, <2>3, <2>4
    <3>2. d <= n + Len(v)
      BY <1>1, <1>2, <2>3, <3>1
    <3>3. EndsAlike(tmp_out \o v, Whole \o v, d)
      <4>1. d \in Nat
        OBVIOUS
      <4> QED
        BY <1>1, <1>2, <3>2, <4>1, ReachMore
    <3> QED
      BY <2>1, <2>2, <2>4, <3>1, <3>3 DEF Reaches
  <2>5. CASE ~ (d <= Len(tmp_out) + k)
    <3>1. k = Len(v)
      BY <1>1, <2>1, <2>2, <2>5
    <3>2. n = Len(View)
      BY <1>1, <1>2, <1>3, <2>2, <2>5
    <3>3. d > Len(View) + Len(v)
      BY <1>1, <1>3, <2>3, <2>5, <3>1, <3>2
    <3> QED
      BY <2>1, <2>2, <2>5, <3>3 DEF Reaches
  <2> QED
    BY <2>4, <2>5
<1> QED
  BY <1>4 DEF HistoryRight

LEMMA DropOver ==
  ASSUME NEW s \in Seq(Nat), NEW t \in Seq(Nat), NEW a \in Nat, a <= Len(t)
  PROVE  Drop(s \o t, Len(s) + a) = Drop(t, a)
<1>1. PICK g \in Seq(Nat) : g = s \o t /\ Len(g) = Len(s) + Len(t)
  BY Joined
<1>2. PICK m \in Nat, n \in Nat : m = Len(s) /\ n = Len(t)
  OBVIOUS
<1>3. PICK w, u : w = Drop(g, m + a) /\ u = Drop(t, a)
  OBVIOUS
<1>4. m + a \in Nat /\ m + a <= Len(g)
  BY <1>1, <1>2
<1>5. Drops(w, g, m + a) /\ Drops(u, t, a)
  BY <1>1, <1>3, <1>4, DroppedParts
<1>6. \A i \in 1 .. n : g[m + i] = t[i]
  <2>1. Joins(g, s, t)
    BY <1>1, JoinedParts
  <2> QED
    BY <1>2, <2>1 DEF Joins
<1>7. w \in Seq(Nat) /\ u \in Seq(Nat) /\ Len(w) = n - a /\ Len(u) = n - a
  <2>1. Len(w) = (m + n) - (m + a) /\ Len(u) = n - a /\ w \in Seq(Nat) /\ u \in Seq(Nat)
    BY <1>1, <1>2, <1>5 DEF Drops
  <2> QED
    BY <1>2, <2>1
<1>8. ASSUME NEW i \in 1 .. n - a PROVE w[i] = u[i]
  <2>1. w[i] = g[(m + a) + i] /\ u[i] = t[a + i]
    <3>1. i \in 1 .. Len(g) - (m + a) /\ i \in 1 .. Len(t) - a
      BY <1>1, <1>2
    <3> QED
      BY <1>5, <3>1 DEF Drops
  <2>2. a + i \in 1 .. n /\ (m + a) + i = m + (a + i)
    BY <1>2
  <2> QED
    BY <1>6, <2>1, <2>2
<1>9. w = u
  <2>1. \A i \in 1 .. Len(w) : w[i] = u[i]
    BY <1>7, <1>8
  <2> QED
    BY <1>7, <2>1, SameSeq
<1> QED
  BY <1>1, <1>2, <1>3, <1>9

(* What this call has produced is the end of the view.                     *)
LEMMA ProducedAlike ==
  ASSUME Inv, pc \in {"out", "end"}, processed = Len(tmp_out)
  PROVE  /\ Produced \in Seq(Nat) /\ Len(Produced) \in Nat
         /\ EndsAlike(Produced, View, Len(Produced)) /\ Len(Produced) <= Len(user) - base
<1>1. /\ user \in Seq(Nat) /\ start_out \in Nat /\ start_out <= Len(user) /\ base <= start_out
      /\ base \in Nat /\ tmp_out \in Seq(Nat) /\ file.dict \in Seq(Nat)
  BY PlaceTypes DEF Inv, BufferInv, CountInv, Decoding
<1>2. Produced \in Seq(Nat) /\ Len(Produced) \in Nat
  <2>1. Drop(user, start_out) \in Seq(Nat)
    BY <1>1, DroppedAny, Zenon
  <2> QED
    BY <2>1 DEF Produced
<1>3. PICK g \in Seq(Nat) : g = file.dict \o user /\ Len(g) = Len(file.dict) + Len(user)
  BY <1>1, Joined
<1>4. View = Drop(g, base)
  <2>1. Drop(g, base) \in Seq(Nat)
    BY <1>1, <1>3, DroppedAny, Zenon
  <2> QED
    BY <1>1, <1>3, <2>1, TextAll DEF View
<1>5. Produced = Drop(View, Len(file.dict) + (start_out - base))
      /\ Len(file.dict) + (start_out - base) \in Nat
      /\ Len(file.dict) + (start_out - base) + Len(Produced) = Len(View)
  <2>0. Len(file.dict) \in Nat /\ Len(user) \in Nat /\ start_out - base \in Nat
    BY <1>1
  <2>1. PICK a \in Nat : a = Len(file.dict) + (start_out - base)
    BY <2>0
  <2>2. Drop(Drop(g, base), a) = Drop(g, base + a)
    <3>1. base + a <= Len(g)
      BY <1>1, <1>3, <2>0, <2>1
    <3> QED
      BY <1>1, <1>3, <2>1, <3>1, DropTwice
  <2>3. base + a = Len(file.dict) + start_out
    BY <1>1, <2>0, <2>1
  <2>4. Drop(g, Len(file.dict) + start_out) = Drop(user, start_out)
    BY <1>1, <1>3, DropOver
  <2>5. Produced = Drop(View, a)
    BY <1>4, <2>2, <2>3, <2>4 DEF Produced
  <2>6. Len(View) = Len(g) - base /\ Len(Produced) = Len(user) - start_out
    <3>1. base <= Len(g)
      BY <1>1, <1>3, <2>0
    <3>2. Len(Drop(g, base)) = Len(g) - base
      BY <1>1, <1>3, <3>1, Dropped, Zenon
    <3>3. Len(Drop(user, start_out)) = Len(user) - start_out
      BY <1>1, Dropped, Zenon
    <3> QED
      BY <1>4, <3>2, <3>3 DEF Produced
  <2>7. (Len(file.dict) + (start_out - base)) + (Len(user) - start_out)
          = (Len(file.dict) + Len(user)) - base
    BY <1>1, <2>0
  <2>8. a + Len(Produced) = Len(View)
    BY <1>3, <2>1, <2>6, <2>7
  <2> QED
    BY <2>1, <2>5, <2>8
<1>6. EndsAlike(Produced, View, Len(Produced))
  <2>1. PICK a \in Nat : a = Len(file.dict) + (start_out - base) /\ Produced = Drop(View, a)
                         /\ a + Len(Produced) = Len(View)
    BY <1>5
  <2>2. View \in Seq(Nat) /\ Len(View) \in Nat
    BY WholeTypes
  <2>3. a <= Len(View) /\ Len(View) - a = Len(Produced)
    BY <1>2, <2>1, <2>2
  <2> QED
    BY <2>1, <2>2, <2>3, DropAlike
<1>7. Len(Produced) <= Len(user) - base
  <2>1. Len(Produced) = Len(user) - start_out
    BY <1>1, Dropped, Zenon DEF Produced
  <2>2. Len(user) \in Nat
    BY <1>1
  <2> QED
    BY <1>1, <2>1, <2>2
<1> QED
  BY <1>2, <1>6, <1>7

LEMMA ReachOut ==
  ASSUME Inv, ViewInv, pc = "out", Hist <= Len(Produced)
  PROVE  HistoryRight(Produced, avail_out)
<1>1. avail_out \in Nat /\ Hist \in Nat
  BY InflateAssumption DEF Inv, BufferInv
<1>2. Produced \in Seq(Nat) /\ Len(Produced) \in Nat /\ EndsAlike(Produced, View, Len(Produced))
  <2>1. processed = Len(tmp_out)
    BY DEF Inv, BufferInv
  <2> QED
    BY <2>1, ProducedAlike
<1>7. Len(Produced) <= Len(View)
  BY <1>2 DEF EndsAlike
<1>8. ASSUME NEW v \in Seq(Nat), NEW d \in 1 .. Hist
      PROVE  Reaches(Produced, avail_out, v, d)
  <2>0. Len(v) \in Nat
    OBVIOUS
  <2>1. Least(avail_out, Len(v)) \in Nat /\ Least(avail_out, Len(v)) <= Len(v) /\ Len(v) \in Nat
    BY <1>1, <2>0, LeastOf
  <2>2. d <= Len(Produced) + Least(avail_out, Len(v)) /\ d <= Len(Produced) + Len(v) /\ d \in Nat
    BY <1>1, <1>2, <2>1
  <2>3. d <= Len(View) + Len(v)
    <3>1. Len(View) \in Nat
      BY WholeTypes
    <3> QED
      BY <1>2, <1>7, <2>1, <2>2, <3>1
  <2>4. EndsAlike(Produced \o v, Whole \o v, d)
    BY <1>2, <2>2, ReachMore
  <2> QED
    BY <2>2, <2>3, <2>4 DEF Reaches
<1> QED
  BY <1>8 DEF HistoryRight

-----------------------------------------------------------------------------
(* What a decoder writes, and what it leaves over, is what the units it    *)
(* has taken say.                                                          *)
Reading == /\ Rest(file, Coming) /\ Said.ok /\ Said.out = Whole /\ Said.from = base
Written1(dec) == Overflowed(Whole \o dec.out, dec.lits, dec.copy)
SaidBy(all) == \E p \in 0 .. Len(file.units) : SaidAt(file, p).out = all
SaysAll(dec, left) ==
  IF dec.ret \in Errors
  THEN ~ SaidOf(file, left).ok /\ SaidBy(Written1(dec))
  ELSE /\ SaidOf(file, left).ok /\ SaidOf(file, left).from = base
       /\ SaidOf(file, left).out = Written1(dec)
CopyHeld(dec) ==
  dec.copy.len # 0 =>
    dec.block = "CODED" /\ dec.copy.dist \in 1 .. Len(View) + Len(dec.out) + Len(dec.lits)

LEMMA LitsWritten ==
  ASSUME NEW text \in Seq(Nat), NEW v \in Seq(Nat), NEW space \in Nat
  PROVE  /\ Overflowed(text \o Take(v, Least(space, Len(v))), Drop(v, Least(space, Len(v))), NoCopy)
            = text \o v
         /\ Take(v, Least(space, Len(v))) \in Seq(Nat)
<1>1. PICK k \in Nat : k = Least(space, Len(v))
  <2>1. Len(v) \in Nat
    OBVIOUS
  <2> QED
    BY <2>1, LeastOf
<1>2. PICK t \in Seq(Nat) : t = Take(v, k)
  BY <1>1, TakeDrop
<1>3. PICK r \in Seq(Nat) : r = Drop(v, k)
  BY <1>1, TakeDrop
<1>4. t \o r = v
  BY <1>1, <1>2, <1>3, TakeDrop
<1>5. Together(text, t, r)
  BY TextTogether
<1>6. text \o t \in Seq(Nat)
  BY Joined
<1>7. Overflowed(text \o t, r, NoCopy) = (text \o t) \o r
  BY <1>6, OverflowedNone
<1>8. (text \o t) \o r = text \o v
  BY <1>4, <1>5 DEF Together
<1> QED
  BY <1>1, <1>2, <1>3, <1>7, <1>8

LEMMA LitsRead ==
  ASSUME Inv, Reading, Here.at = "coded", NEW j \in Nat, LitRun(Coming, j)
  PROVE  /\ ValuesOf(Coming, j) \in Seq(Nat) /\ Len(ValuesOf(Coming, j)) = j
         /\ SaidOf(file, Drop(Coming, j)) = Says(Whole \o ValuesOf(Coming, j), base, Said.len, TRUE)
         /\ Rest(file, Drop(Coming, j)) /\ Whole \in Seq(Nat)
<1>1. Coming \in Seq(FileUnits) /\ file.units \in Seq(FileUnits) /\ file.dict \in Seq(Nat)
  BY PlaceTypes
<1>2. j <= Len(Coming) /\ j \in 0 .. Len(Coming)
  BY <1>1 DEF LitRun
<1>3. ValuesOf(Coming, j) \in Seq(Nat) /\ Len(ValuesOf(Coming, j)) = j
  BY <1>1, <1>2, ValuesOK DEF ValuesOf
<1>4. Adds(Said, SaidOf(file, Drop(Coming, j)), ValuesOf(Coming, j))
  BY <1>1, LitsSay DEF Reading, Here, Said
<1>5. SaidOf(file, Drop(Coming, j)) = Says(Whole \o ValuesOf(Coming, j), base, Said.len, TRUE)
  BY <1>4 DEF Adds, Reading
<1>6. Rest(file, Drop(Coming, j))
  BY <1>1, <1>2, RestDrop DEF Reading
<1> QED
  BY <1>3, <1>5, <1>6, WholeTypes

(* What is said by a rest of the file is said at some place of it.         *)
LEMMA SaidSomewhere ==
  ASSUME Inv, NEW s, Rest(file, s)
  PROVE  SaidBy(SaidOf(file, s).out)
<1>1. Before(file, s) \in 0 .. Len(file.units) /\ SaidOf(file, s) = SaidAt(file, Before(file, s))
  BY PlaceTypes, RestFacts, SaidAtIs
<1> QED
  BY <1>1 DEF SaidBy

LEMMA StoredWrites ==
  ASSUME Inv, Reading, NEW dec, NEW n \in 0 .. count, count \in Nat,
         OnStored(Here, file.flag, count, bfinal), n <= Len(Coming),
         dec.out = ValuesOf(Coming, n), dec.lits = <<>>, dec.copy = NoCopy,
         dec.ret \in {"OK", "OUT_OVERFLOW", "END_INPUT"}
  PROVE  SaysAll(dec, Drop(Coming, n)) /\ CopyHeld(dec)
<1>1. Coming \in Seq(FileUnits) /\ file.units \in Seq(FileUnits) /\ file.dict \in Seq(Nat)
  BY PlaceTypes
<1>2. n \in 0 .. Len(Coming) /\ n \in Nat
  BY <1>1
<1>3. ValuesOf(Coming, n) \in Seq(Nat)
  BY <1>1, <1>2, ValuesOK DEF ValuesOf
<1>4. Adds(Said, SaidOf(file, Drop(Coming, n)), ValuesOf(Coming, n))
  BY <1>1, <1>2, StoredSays DEF Reading, Here, Said
<1>5. SaidOf(file, Drop(Coming, n)) = Says(Whole \o ValuesOf(Coming, n), base, Said.len, TRUE)
  BY <1>4 DEF Adds, Reading
<1>6. Whole \o ValuesOf(Coming, n) \in Seq(Nat)
  BY <1>3, WholeTypes, Joined
<1>7. Written1(dec) = Whole \o ValuesOf(Coming, n)
  BY <1>6, OverflowedNone DEF Written1
<1>8. dec.ret \notin Errors
  BY DEF Errors
<1>9. SaysAll(dec, Drop(Coming, n))
  BY <1>5, <1>7, <1>8 DEF SaysAll, Says
<1>10. CopyHeld(dec)
  BY DEF CopyHeld, NoCopy
<1> QED
  BY <1>9, <1>10

LEMMA AgainWrites ==
  ASSUME Inv, Reading, NEW dec, LooksAgain(dec, Coming, Coming)
  PROVE  SaysAll(dec, Coming) /\ CopyHeld(dec)
<1>1. Written1(dec) = Whole
  BY WholeTypes, JoinNone, OverflowedNone DEF Written1, LooksAgain
<1>2. SaysAll(dec, Coming)
  BY <1>1 DEF SaysAll, Reading, Said, LooksAgain, Errors
<1> QED
  BY <1>2 DEF CopyHeld, LooksAgain, NoCopy

LEMMA LitsWrite ==
  ASSUME Inv, Reading, Here.at = "coded", NEW dec, NEW left, NEW space \in Nat, NEW j \in 0 .. 3,
         LooksLits(dec, Coming, left, space, j)
  PROVE  SaysAll(dec, left) /\ CopyHeld(dec)
<1>1. PICK v : v = ValuesOf(Coming, j)
  OBVIOUS
<1>2. /\ v \in Seq(Nat) /\ Len(v) = j /\ Whole \in Seq(Nat)
      /\ SaidOf(file, Drop(Coming, j)) = Says(Whole \o v, base, Said.len, TRUE)
  <2>1. LitRun(Coming, j) /\ j \in Nat
    BY DEF LooksLits
  <2> QED
    BY <1>1, <2>1, LitsRead
<1>3. Written1(dec) = Whole \o v
  <2>1. Overflowed(Whole \o Take(v, Least(space, j)), Drop(v, Least(space, j)), NoCopy) = Whole \o v
    BY <1>2, LitsWritten
  <2>2. /\ dec.out = Take(v, Least(space, j)) /\ dec.lits = Drop(v, Least(space, j))
        /\ dec.copy = NoCopy
    BY <1>1 DEF LooksLits, Written
  <2> QED
    BY <2>1, <2>2 DEF Written1
<1>4. dec.ret \notin Errors /\ left = Drop(Coming, j)
  BY DEF LooksLits, Errors
<1>5. SaysAll(dec, left)
  BY <1>2, <1>3, <1>4 DEF SaysAll, Says
<1> QED
  BY <1>5 DEF CopyHeld, LooksLits, NoCopy

LEMMA EndWrites ==
  ASSUME Inv, Reading, Here.at = "coded", NEW dec, NEW left, NEW space \in Nat, NEW j \in 0 .. 3,
         LooksEnd(dec, Coming, left, space, j) \/ LooksBad(dec, Coming, left, space, j)
  PROVE  SaysAll(dec, left) /\ CopyHeld(dec)
<1>0. LooksPast(dec, Coming, left, space, j) /\ dec.out = Written(Coming, j, space) /\ dec.copy = NoCopy
  BY DEF LooksEnd, LooksBad
<1>1. PICK v : v = ValuesOf(Coming, j)
  OBVIOUS
<1>2. /\ v \in Seq(Nat) /\ Len(v) = j /\ Whole \in Seq(Nat) /\ Rest(file, Drop(Coming, j))
      /\ SaidOf(file, Drop(Coming, j)) = Says(Whole \o v, base, Said.len, TRUE)
  <2>1. LitRun(Coming, j) /\ j \in Nat
    BY <1>0 DEF LooksPast
  <2> QED
    BY <1>1, <2>1, LitsRead
<1>3. Written1(dec) = Whole \o v
  <2>1. Overflowed(Whole \o Take(v, Least(space, j)), Drop(v, Least(space, j)), NoCopy) = Whole \o v
    BY <1>2, LitsWritten
  <2>2. /\ dec.out = Take(v, Least(space, j)) /\ dec.lits = Drop(v, Least(space, j))
        /\ dec.copy = NoCopy
    BY <1>0, <1>1 DEF LooksPast, Written
  <2> QED
    BY <2>1, <2>2 DEF Written1
<1>4. EndSays(file, Coming, j) /\ BadSays(file, Coming, j)
  BY <1>0, PlaceTypes, EndsSay DEF LooksPast, Reading, Here
<1>5. left = Drop(Coming, j + 1)
  BY <1>0 DEF LooksPast
<1>6. CASE LooksEnd(dec, Coming, left, space, j)
  <2>1. SaidOf(file, left) = SaidOf(file, Drop(Coming, j))
    BY <1>4, <1>5, <1>6 DEF LooksEnd, EndSays
  <2>2. dec.ret \notin Errors
    BY <1>6 DEF LooksEnd, Errors
  <2> QED
    BY <1>0, <1>2, <1>3, <2>1, <2>2 DEF SaysAll, Says, CopyHeld, NoCopy
<1>7. CASE LooksBad(dec, Coming, left, space, j)
  <2>1. ~ SaidOf(file, left).ok /\ dec.ret \in Errors
    BY <1>4, <1>5, <1>7 DEF LooksBad, BadSays, Errors
  <2>2. SaidBy(Whole \o v)
    <3>1. SaidBy(SaidOf(file, Drop(Coming, j)).out)
      BY <1>2, SaidSomewhere
    <3>2. SaidOf(file, Drop(Coming, j)).out = Whole \o v
      BY <1>2 DEF Says
    <3> QED
      BY <3>1, <3>2
  <2> QED
    BY <1>0, <1>3, <2>1, <2>2 DEF SaysAll, CopyHeld, NoCopy
<1> QED
  BY <1>6, <1>7

(* The window behind j literals.                                           *)
LEMMA WindowIs ==
  ASSUME Inv, NEW v \in Seq(Nat), NEW len, NEW t, t = Says(Whole \o v, base, len, TRUE)
  PROVE  /\ Window(t) = View \o v /\ View \o v \in Seq(Nat) /\ Len(Window(t)) = Len(View) + Len(v)
         /\ t.ok /\ t.out = Whole \o v /\ t.from = base
<1>1. View \in Seq(Nat) /\ Whole \in Seq(Nat) /\ base \in Nat /\ base <= Len(Whole) /\ View = Drop(Whole, base)
  BY WholeTypes
<1>2. t.ok /\ t.out = Whole \o v /\ t.from = base
  BY DEF Says
<1>3. Drop(Whole \o v, base) = View \o v
  BY <1>1, DropJoined
<1>4. View \o v \in Seq(Nat) /\ Len(View \o v) = Len(View) + Len(v)
  BY <1>1, Joined
<1>5. Window(t) = Drop(Whole \o v, base)
  BY <1>2 DEF Window, Behind, Drop
<1> QED
  BY <1>2, <1>3, <1>4, <1>5

LEMMA ViewCopies ==
  ASSUME Inv, NEW v \in Seq(Nat), NEW d \in 1 .. Len(View) + Len(v), NEW len \in Nat
  PROVE  CopiesLike(View \o v, Whole \o v, d, len)
<1>1. View \in Seq(Nat) /\ Whole \in Seq(Nat) /\ Len(View) \in Nat /\ Len(v) \in Nat
  BY WholeTypes, SMTT(60)
<1>2. EndsAlike(View, View, Len(View))
  BY <1>1 DEF EndsAlike
<1>3. d \in Nat /\ d <= Len(View) + Len(v) /\ d \in Nat \ {0}
  BY <1>1
<1>4. EndsAlike(View \o v, Whole \o v, d)
  BY <1>1, <1>2, <1>3, ReachMore
<1>5. View \o v \in Seq(Nat) /\ Whole \o v \in Seq(Nat)
  BY <1>1, Joined
<1> QED
  BY <1>3, <1>4, <1>5, LikeCopies

LEMMA BackRead ==
  ASSUME Inv, Reading, Here.at = "coded", NEW dec, NEW left, NEW space \in Nat, NEW j \in 0 .. 3,
         LooksBack(dec, Coming, left, space, j), NEW v, v = ValuesOf(Coming, j)
  PROVE  /\ v \in Seq(Nat) /\ Len(v) = j /\ Whole \in Seq(Nat) /\ Rest(file, Drop(Coming, j))
         /\ SaidOf(file, Drop(Coming, j)) = Says(Whole \o v, base, Said.len, TRUE)
         /\ MatchSays(file, Coming, j) /\ left = Drop(Coming, j + 2)
         /\ dec.lits = Drop(v, Least(space, j)) /\ Written(Coming, j, space) = Take(v, Least(space, j))
         /\ Coming[j + 1].kind = "len" /\ Coming[j + 1].value \in 1 .. MaxMatch
         /\ Coming[j + 2].kind = "dist" => Coming[j + 2].value \in 1 .. Hist
<1>1. /\ LitRun(Coming, j) /\ j \in Nat /\ j + 2 <= Len(Coming) /\ left = Drop(Coming, j + 2)
      /\ dec.lits = Drop(v, Least(space, j)) /\ Coming[j + 1].kind = "len"
  BY DEF LooksBack
<1>2. /\ v \in Seq(Nat) /\ Len(v) = j /\ Whole \in Seq(Nat) /\ Rest(file, Drop(Coming, j))
      /\ SaidOf(file, Drop(Coming, j)) = Says(Whole \o v, base, Said.len, TRUE)
  BY <1>1, LitsRead
<1>3. MatchSays(file, Coming, j)
  BY <1>1, PlaceTypes, MatchesSay DEF Reading, Here
<1>4. Coming[j + 1] \in FileUnits /\ Coming[j + 2] \in FileUnits
  <2>1. Coming \in Seq(FileUnits)
    BY PlaceTypes
  <2> QED
    BY <1>1, <2>1
<1>5. /\ Coming[j + 1].value \in 1 .. MaxMatch
      /\ Coming[j + 2].kind = "dist" => Coming[j + 2].value \in 1 .. Hist
  BY <1>1, <1>4, UnitFacts
<1> QED
  BY <1>1, <1>2, <1>3, <1>5 DEF Written

LEMMA InvalidWrites ==
  ASSUME Inv, Reading, Here.at = "coded", NEW dec, NEW left, NEW history \in Seq(Nat),
         NEW space \in Nat, HistoryRight(history, space), NEW j \in 0 .. 3,
         LooksInvalid(dec, Coming, left, history, space, j)
  PROVE  SaysAll(dec, left) /\ CopyHeld(dec)
<1>0. LooksBack(dec, Coming, left, space, j) /\ dec.out = Written(Coming, j, space) /\ dec.copy = NoCopy
      /\ dec.ret \in Errors
  BY DEF LooksInvalid, Errors
<1>1. PICK v : v = ValuesOf(Coming, j)
  OBVIOUS
<1>2. /\ v \in Seq(Nat) /\ Len(v) = j /\ Whole \in Seq(Nat) /\ Rest(file, Drop(Coming, j))
      /\ SaidOf(file, Drop(Coming, j)) = Says(Whole \o v, base, Said.len, TRUE)
      /\ MatchSays(file, Coming, j) /\ left = Drop(Coming, j + 2)
      /\ dec.lits = Drop(v, Least(space, j)) /\ Written(Coming, j, space) = Take(v, Least(space, j))
      /\ Coming[j + 1].kind = "len"
      /\ Coming[j + 2].kind = "dist" => Coming[j + 2].value \in 1 .. Hist
  BY <1>0, <1>1, BackRead, ZenonT(60)
<1>3. Written1(dec) = Whole \o v
  <2>1. Overflowed(Whole \o Take(v, Least(space, j)), Drop(v, Least(space, j)), NoCopy) = Whole \o v
    BY <1>2, LitsWritten
  <2> QED
    BY <1>0, <1>2, <2>1 DEF Written1
<1>4. PICK t : t = SaidOf(file, Drop(Coming, j))
  OBVIOUS
<1>5. Len(Window(t)) = Len(View) + Len(v) /\ t.out = Whole \o v
  <2>1. PICK l : l = Said.len
    OBVIOUS
  <2>2. t = Says(Whole \o v, base, l, TRUE)
    BY <1>2, <1>4, <2>1
  <2>3. v \in Seq(Nat)
    BY <1>2
  <2> QED
    BY <2>2, <2>3, WindowIs
<1>6. Coming[j + 2].kind # "dist" \/ Coming[j + 2].value > Len(Window(t))
  <2> SUFFICES ASSUME Coming[j + 2].kind = "dist" PROVE Coming[j + 2].value > Len(Window(t))
    OBVIOUS
  <2>1. Coming[j + 2].value > Len(history) + Len(Written(Coming, j, space))
    BY DEF LooksInvalid
  <2>2. PICK d \in 1 .. Hist : d = Coming[j + 2].value
    BY <1>2
  <2>3. Len(Take(v, Least(space, Len(v)))) = Least(space, Len(v)) /\ Least(space, Len(v)) \in Nat
    <3>1. Len(v) \in Nat
      BY <1>2
    <3>2. Least(space, Len(v)) \in Nat
      BY <3>1, LeastOf
    <3> QED
      BY <1>2, <3>2, TakeDrop, Zenon
  <2>4. d > Len(history) + Least(space, Len(v))
    BY <1>2, <2>1, <2>2, <2>3
  <2>5. Reaches(history, space, v, d)
    BY <1>2 DEF HistoryRight
  <2>6. Len(history) \in Nat
    OBVIOUS
  <2>7. ~ (d <= Len(history) + Least(space, Len(v)))
    BY <2>3, <2>4, <2>6
  <2> QED
    BY <1>5, <2>2, <2>5, <2>7 DEF Reaches
<1>7. ~ SaidOf(file, left).ok
  BY <1>2, <1>4, <1>6 DEF MatchSays
<1>8. SaidBy(Whole \o v)
  BY <1>2, <1>4, <1>5, SaidSomewhere
<1> QED
  BY <1>0, <1>3, <1>7, <1>8 DEF SaysAll, CopyHeld, NoCopy

LEMMA MatchWrites ==
  ASSUME Inv, Reading, Here.at = "coded", NEW dec, NEW left, NEW history \in Seq(Nat),
         NEW space \in Nat, HistoryRight(history, space), NEW j \in 0 .. 3,
         LooksMatch(dec, Coming, left, history, space, j)
  PROVE  SaysAll(dec, left) /\ CopyHeld(dec)
<1>0. LooksBack(dec, Coming, left, space, j) /\ Coming[j + 2].kind = "dist" /\ dec.ret \notin Errors
  BY DEF LooksMatch, Errors
<1>1. PICK v : v = ValuesOf(Coming, j)
  OBVIOUS
<1>23. LooksBack(dec, Coming, left, space, j)
  BY <1>0
<1>2. /\ v \in Seq(Nat) /\ Len(v) = j /\ Whole \in Seq(Nat) /\ Rest(file, Drop(Coming, j))
      /\ SaidOf(file, Drop(Coming, j)) = Says(Whole \o v, base, Said.len, TRUE)
      /\ MatchSays(file, Coming, j) /\ left = Drop(Coming, j + 2)
      /\ dec.lits = Drop(v, Least(space, j)) /\ Written(Coming, j, space) = Take(v, Least(space, j))
      /\ Coming[j + 1].kind = "len"
      /\ Coming[j + 2].kind = "dist" => Coming[j + 2].value \in 1 .. Hist
  BY <1>1, <1>23, BackRead, ZenonT(60)
<1>22. Coming[j + 1].value \in 1 .. MaxMatch
  BY <1>1, <1>23, BackRead
<1>3. PICK d \in 1 .. Hist : d = Coming[j + 2].value
  BY <1>0, <1>2
<1>4. PICK len \in Nat : len = Coming[j + 1].value
  BY <1>22, InflateAssumption
<1>5. PICK k \in Nat : k = Least(space, Len(v)) /\ k <= space /\ k <= Len(v) /\ (k = space \/ k = Len(v))
  <2>1. Len(v) \in Nat
    BY <1>2
  <2> QED
    BY <2>1, LeastOf
<1>6. Take(v, k) \in Seq(Nat) /\ Drop(v, k) \in Seq(Nat) /\ Len(Take(v, k)) = k /\ Len(Drop(v, k)) = Len(v) - k
  <2>1. Take(v, k) \in Seq(Nat) /\ Drop(v, k) \in Seq(Nat) /\ Len(Take(v, k)) = k
    BY <1>2, <1>5, TakeDrop
  <2> QED
    BY <1>2, <1>5, <2>1, Dropped
<1>7. d <= Len(View) + Len(v) /\ EndsAlike(history \o v, Whole \o v, d)
  <2>1. Coming[j + 2].value <= Len(history) + Len(Written(Coming, j, space))
    BY DEF LooksMatch
  <2>2. d <= Len(history) + k
    BY <1>2, <1>3, <1>5, <1>6, <2>1
  <2>3. Reaches(history, space, v, d)
    BY <1>2 DEF HistoryRight
  <2> QED
    BY <1>5, <2>2, <2>3 DEF Reaches
<1>8. PICK room \in Nat : room = Least(space - k, len) /\ room <= space - k /\ room <= len
                         /\ (room = space - k \/ room = len)
  <2>1. space - k \in Nat
    BY <1>5
  <2> QED
    BY <2>1, LeastOf
<1>9. MatchRoom(v, space, len) = room /\ Room(Coming, j, space) = room
  BY <1>2, <1>4, <1>5, <1>6, <1>8 DEF MatchRoom, Room
<1>10. dec.out = MatchOut(history, v, space, d, room)
  <2>1. dec.out = Take(v, k) \o Copied(history \o Take(v, k), d, room)
    BY <1>2, <1>3, <1>5, <1>9 DEF LooksMatch
  <2> QED
    BY <1>5, <2>1 DEF MatchOut
<1>11. IF room < len THEN dec.copy = [len |-> len - room, dist |-> d] ELSE dec.copy = NoCopy
  BY <1>3, <1>4, <1>9 DEF LooksMatch
<1>12. MatchIs(Whole, history, v, space, d, len, dec.copy)
  <2>1. d \in Nat \ {0}
    BY <1>3
  <2>2. LET r == MatchRoom(v, space, len)
        IN  IF r < len THEN dec.copy = [len |-> len - r, dist |-> d] ELSE dec.copy = NoCopy
    BY <1>9, <1>11
  <2> QED
    BY <1>2, <1>7, <2>1, <2>2, MatchWritten
<1>13. dec.lits = Drop(v, Least(space, Len(v)))
  BY <1>2
<1>14. Written1(dec) = (Whole \o v) \o Copied(Whole \o v, d, len)
  BY <1>9, <1>10, <1>12, <1>13 DEF Written1, MatchIs
<1>15. d \in 1 .. Len(View) + Len(v)
  <2>1. Len(View) \in Nat /\ Len(v) \in Nat
    BY <1>2, WholeTypes
  <2> QED
    BY <1>3, <1>7, <2>1
<1>16. PICK t : t = SaidOf(file, Drop(Coming, j))
  OBVIOUS
<1>17. /\ Window(t) = View \o v /\ Len(Window(t)) = Len(View) + Len(v)
       /\ t.ok /\ t.out = Whole \o v /\ t.from = base
  <2>1. PICK l : l = Said.len
    OBVIOUS
  <2>2. t = Says(Whole \o v, base, l, TRUE)
    BY <1>2, <1>16, <2>1
  <2>3. v \in Seq(Nat)
    BY <1>2
  <2> QED
    BY <2>2, <2>3, WindowIs
<1>18. SaidOf(file, left) = Says(t.out \o Copied(Window(t), d, len), t.from, len, TRUE)
  <2>1. Coming[j + 2].value <= Len(Window(t))
    BY <1>3, <1>15, <1>17
  <2> QED
    BY <1>0, <1>2, <1>3, <1>4, <1>16, <1>17, <2>1 DEF MatchSays
<1>19. Copied(Window(t), d, len) = Copied(Whole \o v, d, len)
  BY <1>2, <1>15, <1>17, ViewCopies DEF CopiesLike
<1>20. SaysAll(dec, left)
  <2>1. SaidOf(file, left).ok /\ SaidOf(file, left).from = base
        /\ SaidOf(file, left).out = (Whole \o v) \o Copied(Whole \o v, d, len)
    BY <1>17, <1>18, <1>19 DEF Says
  <2> QED
    BY <1>0, <1>14, <2>1 DEF SaysAll
<1>21. CopyHeld(dec)
  <2> SUFFICES ASSUME dec.copy.len # 0
               PROVE  dec.block = "CODED" /\ dec.copy.dist \in 1 .. Len(View) + Len(dec.out) + Len(dec.lits)
    BY DEF CopyHeld
  <2>1. dec.block = "CODED"
    BY <1>0 DEF LooksBack
  <2>2. dec.copy.dist = d
    BY <1>11 DEF NoCopy
  <2>3. Len(dec.out) = k + room
    <3>1. Take(v, k) \in Seq(Nat) /\ history \o Take(v, k) \in Seq(Nat)
      BY <1>6, Joined
    <3>2. Copied(history \o Take(v, k), d, room) \in Seq(Nat) /\ Len(Copied(history \o Take(v, k), d, room)) = room
      BY <3>1, CopiedLen
    <3>3. Len(Take(v, k) \o Copied(history \o Take(v, k), d, room)) = Len(Take(v, k)) + room
      BY <3>1, <3>2, Joined
    <3> QED
      BY <1>5, <1>6, <1>10, <3>3 DEF MatchOut
  <2>4. Len(dec.lits) = Len(v) - k
    BY <1>5, <1>6, <1>13
  <2>5. PICK a \in Nat, b \in Nat : a = Len(View) /\ b = Len(v)
    <3>1. Len(View) \in Nat /\ Len(v) \in Nat
      BY <1>2, WholeTypes
    <3> QED
      BY <3>1
  <2>6. k <= b /\ a + (k + room) + (b - k) \in Nat /\ a + (k + room) + (b - k) >= a + b
    BY <1>5, <2>5
  <2>7. d \in 1 .. a + b
    BY <1>15, <2>5
  <2>8. d \in 1 .. a + (k + room) + (b - k)
    BY <2>6, <2>7
  <2> QED
    BY <2>1, <2>2, <2>3, <2>4, <2>5, <2>8
<1> QED
  BY <1>20, <1>21

(* One step of either loop.                                                *)
LEMMA MemberReads ==
  ASSUME Inv, PlaceInv, TextInv, pc \in {"tmp", "out"}
  PROVE  Reading /\ ~ RefusedNow /\ ret = "OK" /\ OnMember /\ field = "none" /\ WithinMember
<1>1. /\ WithinMember /\ ret = "OK" /\ field = "none" /\ OnMember /\ Rest(file, Coming)
  BY MemberFrame
<1>2. ~ RefusedNow
  BY <1>1, NotRefused
<1>3. Said.ok /\ Said.out = Flushed(Whole) /\ Said.from = base
  BY <1>1, <1>2 DEF TextInv, TextValid
<1>4. Flushed(Whole) = Whole
  BY <1>1, WholeTypes, NoOverflow
<1> QED
  BY <1>1, <1>2, <1>3, <1>4 DEF Reading

LEMMA CodeSays ==
  ASSUME Inv, Reading, Here.at = "coded", NEW dec, NEW history \in Seq(Nat), NEW space \in Nat,
         CodeStep(dec, history, space),
         HistoryRight(history, space) \/ dec.ret = "END_INPUT" \/ dec.block = "INPUT_DONE"
  PROVE  SaysAll(dec, Coming') /\ CopyHeld(dec)
<1>1. CASE LooksAgain(dec, Coming, Coming')
  <2>1. Coming' = Coming
    BY <1>1 DEF LooksAgain
  <2>2. LooksAgain(dec, Coming, Coming)
    BY <1>1 DEF LooksAgain
  <2>3. SaysAll(dec, Coming) /\ CopyHeld(dec)
    BY <2>2, AgainWrites
  <2> QED
    BY <2>1, <2>3
<1>2. ASSUME NEW j \in 0 .. 3,
             \/ LooksLits(dec, Coming, Coming', space, j)
             \/ LooksEnd(dec, Coming, Coming', space, j)
             \/ LooksBad(dec, Coming, Coming', space, j)
             \/ LooksInvalid(dec, Coming, Coming', history, space, j)
             \/ LooksMatch(dec, Coming, Coming', history, space, j)
      PROVE  SaysAll(dec, Coming') /\ CopyHeld(dec)
  <2>1. PICK left : left = Coming'
    OBVIOUS
  <2>2. CASE LooksLits(dec, Coming, left, space, j)
    BY <2>1, <2>2, LitsWrite
  <2>3. CASE LooksEnd(dec, Coming, left, space, j) \/ LooksBad(dec, Coming, left, space, j)
    BY <2>1, <2>3, EndWrites
  <2>4. CASE LooksInvalid(dec, Coming, left, history, space, j)
    <3>1. dec.ret # "END_INPUT" /\ dec.block # "INPUT_DONE"
      BY <2>4 DEF LooksInvalid, LooksBack
    <3> QED
      BY <2>1, <2>4, <3>1, InvalidWrites
  <2>5. CASE LooksMatch(dec, Coming, left, history, space, j)
    <3>1. dec.ret # "END_INPUT" /\ dec.block # "INPUT_DONE"
      BY <2>5 DEF LooksMatch, LooksBack
    <3> QED
      BY <2>1, <2>5, <3>1, MatchWrites
  <2> QED
    BY <1>2, <2>1, <2>2, <2>3, <2>4, <2>5
<1> QED
  BY <1>1, <1>2 DEF CodeStep

LEMMA DecodeSays ==
  ASSUME Inv, PlaceInv, TextInv, NEW history \in Seq(Nat), NEW space \in Nat, NEW dec,
         dec = Decoded(history, space), NEW here \in {"tmp", "out"}, NEW after \in {"drain", "end"},
         Decode(dec, here, after),
         HistoryRight(history, space) \/ dec.ret = "END_INPUT" \/ dec.block = "INPUT_DONE"
  PROVE  SaysAll(dec, Coming') /\ CopyHeld(dec)
<1>1. pc = here
  BY DEF Decode
<1>2. Reading /\ ret = "OK" /\ OnMember
  BY <1>1, MemberReads
<1>3. count \in Nat
  BY DEF Inv, HeaderInv
<1>4. CASE block_state = "TYPE0" /\ \E n \in 0 .. count : StoredStep(dec, n)
  <2>1. PICK n \in 0 .. count : StoredStep(dec, n)
    BY <1>4
  <2>2. OnStored(Here, file.flag, count, bfinal)
    BY <1>2, <1>4 DEF OnMember, Errors
  <2>3. /\ n <= Len(Coming) /\ Coming' = Drop(Coming, n)
        /\ dec.out = ValuesOf(Coming, n) /\ dec.lits = <<>> /\ dec.copy = NoCopy
        /\ dec.ret \in {"OK", "OUT_OVERFLOW", "END_INPUT"}
    BY <2>1 DEF StoredStep
  <2>4. SaysAll(dec, Drop(Coming, n)) /\ CopyHeld(dec)
    BY <1>2, <1>3, <2>2, <2>3, StoredWrites
  <2> QED
    BY <2>3, <2>4
<1>5. CASE block_state = "CODED" /\ CodeStep(dec, history, space)
  <2>1. Here.at = "coded"
    BY <1>2, <1>5 DEF OnMember, Errors
  <2> QED
    BY <1>2, <1>5, <2>1, CodeSays
<1> QED
  BY <1>4, <1>5, DecodeTakes

(* What is decoded is the next part of the text, in either buffer.         *)
DecodeFixed(dec) ==
  /\ UNCHANGED <<file, base, processed>> /\ block_state \in {"TYPE0", "CODED"}
  /\ write_overflow' = dec.lits /\ copy_overflow' = dec.copy /\ block_state' = dec.block
  /\ ret' = dec.ret /\ dec.out \in Seq(Nat) /\ Len(dec.out) \in Nat
  /\ dec.ret \in {"OK", "END_INPUT", "OUT_OVERFLOW"} \cup Errors
  /\ Whole' = Whole \o dec.out /\ View' = View \o dec.out /\ Len(View') = Len(View) + Len(dec.out)
  /\ block_state' \notin {"CHECKSUM_CHECK", "FINISH"}

LEMMA DecodeTmpFix ==
  ASSUME Inv, DecodeTmp, NEW dec, dec = Decoded(tmp_out, 2 * Hist - Len(tmp_out))
  PROVE  /\ DecodeFixed(dec) /\ pc = "tmp" /\ tmp_out' = tmp_out \o dec.out /\ user' = user
         /\ Decode(dec, "tmp", "drain") /\ pc' \in {"tmp", "drain"}
         /\ tmp_out \in Seq(Nat) /\ 2 * Hist - Len(tmp_out) \in Nat
<1>1. Decode(dec, "tmp", "drain") /\ tmp_out' = tmp_out \o dec.out /\ user' = user
  BY DEF DecodeTmp
<1>2. /\ UNCHANGED <<file, base, processed>> /\ block_state \in {"TYPE0", "CODED"} /\ pc = "tmp"
      /\ write_overflow' = dec.lits /\ copy_overflow' = dec.copy /\ block_state' = dec.block
      /\ ret' = dec.ret /\ pc' \in {"tmp", "drain"}
  BY <1>1 DEF Decode, Loop, params
<1>3. tmp_out \in Seq(Nat) /\ Len(tmp_out) <= 2 * Hist
  BY <1>2 DEF Inv, BufferInv
<1>4. 2 * Hist - Len(tmp_out) \in Nat
  <2>1. Len(tmp_out) \in Nat
    BY <1>3
  <2> QED
    BY <1>3, <2>1, Sizes
<1>5. dec.out \in Seq(Nat) /\ Len(dec.out) \in Nat /\ dec.block \notin {"CHECKSUM_CHECK", "FINISH"}
      /\ dec.ret \in {"OK", "END_INPUT", "OUT_OVERFLOW"} \cup Errors
  <2>1. DecodedOK(dec, 2 * Hist - Len(tmp_out))
    BY <1>3, <1>4, DecodersOK
  <2> QED
    BY <2>1 DEF DecodedOK, BlockStates
<1>6. /\ file.dict \o user \in Seq(Nat) /\ Drop(file.dict \o user, base) \in Seq(Nat)
      /\ processed \in Nat /\ processed <= Len(tmp_out) /\ Whole \in Seq(Nat) /\ View \in Seq(Nat)
  BY WholeTypes
<1>7. Whole' = Whole \o dec.out
  <2>1. Whole' = TextOf(file.dict \o user, tmp_out \o dec.out, processed)
    BY <1>1, <1>2 DEF Whole
  <2>2. TextOf(file.dict \o user, tmp_out \o dec.out, processed)
        = TextOf(file.dict \o user, tmp_out, processed) \o dec.out
    <3>1. PICK g \in Seq(Nat) : g = file.dict \o user
      BY <1>6
    <3>2. PICK x \in Seq(Nat) : x = dec.out
      BY <1>5
    <3>3. TextOf(g, tmp_out \o x, processed) = TextOf(g, tmp_out, processed) \o x
      <4>1. tmp_out \in Seq(Nat) /\ processed \in Nat /\ processed <= Len(tmp_out)
        BY <1>3, <1>6
      <4> QED
        BY <4>1, TextMore
    <3> QED
      BY <3>1, <3>2, <3>3
  <2> QED
    BY <2>1, <2>2 DEF Whole
<1>8. View' = View \o dec.out
  <2>1. View' = TextOf(Drop(file.dict \o user, base), tmp_out \o dec.out, processed)
    BY <1>1, <1>2 DEF View
  <2>2. TextOf(Drop(file.dict \o user, base), tmp_out \o dec.out, processed)
        = TextOf(Drop(file.dict \o user, base), tmp_out, processed) \o dec.out
    <3>1. PICK g \in Seq(Nat) : g = Drop(file.dict \o user, base)
      BY <1>6
    <3>2. PICK x \in Seq(Nat) : x = dec.out
      BY <1>5
    <3>3. TextOf(g, tmp_out \o x, processed) = TextOf(g, tmp_out, processed) \o x
      <4>1. tmp_out \in Seq(Nat) /\ processed \in Nat /\ processed <= Len(tmp_out)
        BY <1>3, <1>6
      <4> QED
        BY <4>1, TextMore
    <3> QED
      BY <3>1, <3>2, <3>3
  <2> QED
    BY <2>1, <2>2 DEF View
<1>9. Len(View') = Len(View) + Len(dec.out)
  BY <1>5, <1>6, <1>8, Joined
<1> QED
  BY <1>1, <1>2, <1>3, <1>4, <1>5, <1>7, <1>8, <1>9 DEF DecodeFixed

LEMMA DecodeOutFix ==
  ASSUME Inv, DecodeOut, NEW dec, dec = Decoded(Produced, avail_out)
  PROVE  /\ DecodeFixed(dec) /\ pc = "out" /\ tmp_out' = tmp_out /\ user' = user \o dec.out
         /\ Decode(dec, "out", "end") /\ pc' \in {"out", "end"} /\ processed = Len(tmp_out)
         /\ Produced \in Seq(Nat) /\ avail_out \in Nat /\ start_out' = start_out
         /\ Produced' = Produced \o dec.out
<1>1. Decode(dec, "out", "end") /\ tmp_out' = tmp_out /\ user' = user \o dec.out
  BY DEF DecodeOut, Produced
<1>2. /\ UNCHANGED <<file, base, processed, start_out>> /\ block_state \in {"TYPE0", "CODED"} /\ pc = "out"
      /\ write_overflow' = dec.lits /\ copy_overflow' = dec.copy /\ block_state' = dec.block
      /\ ret' = dec.ret /\ pc' \in {"out", "end"}
  BY <1>1 DEF Decode, Loop, params
<1>3. /\ tmp_out \in Seq(Nat) /\ processed = Len(tmp_out) /\ avail_out \in Nat /\ user \in Seq(Nat)
      /\ start_out \in Nat /\ start_out <= Len(user) /\ base \in Nat /\ base <= Len(user)
      /\ file.dict \in Seq(Nat)
  BY <1>2, PlaceTypes DEF Inv, BufferInv
<1>4. Produced \in Seq(Nat)
  <2>1. Drop(user, start_out) \in Seq(Nat)
    BY <1>3, DroppedAny, Zenon
  <2> QED
    BY <2>1 DEF Produced
<1>5. dec.out \in Seq(Nat) /\ Len(dec.out) \in Nat /\ dec.block \notin {"CHECKSUM_CHECK", "FINISH"}
      /\ dec.ret \in {"OK", "END_INPUT", "OUT_OVERFLOW"} \cup Errors
  <2>1. DecodedOK(dec, avail_out)
    BY <1>3, <1>4, DecodersOK
  <2> QED
    BY <2>1 DEF DecodedOK, BlockStates
<1>6. PICK g \in Seq(Nat) : g = file.dict \o user /\ Len(g) = Len(file.dict) + Len(user)
  BY <1>3, Joined
<1>7. PICK x \in Seq(Nat) : x = dec.out
  BY <1>5
<1>8. file.dict \o (user \o x) = g \o x
  BY <1>3, <1>6, JoinThree, ZenonT(60)
<1>9. g \o x \in Seq(Nat)
  BY Joined
<1>10. base <= Len(g)
  <2>1. Len(file.dict) \in Nat /\ Len(user) \in Nat
    BY <1>3
  <2> QED
    BY <1>3, <1>6, <2>1
<1>11. Drop(g \o x, base) = Drop(g, base) \o x /\ Drop(g, base) \in Seq(Nat) /\ Drop(g \o x, base) \in Seq(Nat)
  <2>1. Drop(g \o x, base) = Drop(g, base) \o x
    BY <1>3, <1>10, DropJoined
  <2>2. Drop(g, base) \in Seq(Nat)
    BY <1>3, DroppedAny, Zenon
  <2>3. Drop(g \o x, base) \in Seq(Nat)
    BY <1>3, <1>9, DroppedAny, Zenon
  <2> QED
    BY <2>1, <2>2, <2>3
<1>12. Whole = g /\ View = Drop(g, base)
  <2>1. TextOf(g, tmp_out, Len(tmp_out)) = g
    BY <1>3, TextAll, Zenon
  <2>2. TextOf(Drop(g, base), tmp_out, Len(tmp_out)) = Drop(g, base)
    BY <1>3, <1>11, TextAll, Zenon
  <2> QED
    BY <1>3, <1>6, <2>1, <2>2 DEF Whole, View
<1>13. Whole' = g \o x /\ View' = Drop(g \o x, base)
  <2>1. TextOf(g \o x, tmp_out, Len(tmp_out)) = g \o x
    BY <1>3, <1>9, TextAll, Zenon
  <2>2. TextOf(Drop(g \o x, base), tmp_out, Len(tmp_out)) = Drop(g \o x, base)
    BY <1>3, <1>11, TextAll, Zenon
  <2>3. Whole' = TextOf(file.dict \o (user \o x), tmp_out, Len(tmp_out))
    BY <1>1, <1>2, <1>3, <1>7 DEF Whole
  <2>4. View' = TextOf(Drop(file.dict \o (user \o x), base), tmp_out, Len(tmp_out))
    BY <1>1, <1>2, <1>3, <1>7 DEF View
  <2> QED
    BY <1>8, <2>1, <2>2, <2>3, <2>4
<1>14. Len(View') = Len(View) + Len(dec.out)
  BY <1>7, <1>11, <1>12, <1>13, Joined
<1>15. Produced' = Produced \o dec.out
  <2>1. Drop(user \o x, start_out) = Drop(user, start_out) \o x
    BY <1>3, DropJoined
  <2> QED
    BY <1>1, <1>2, <1>7, <2>1 DEF Produced
<1> QED
  BY <1>1, <1>2, <1>3, <1>4, <1>5, <1>7, <1>11, <1>12, <1>13, <1>14, <1>15 DEF DecodeFixed

LEMMA TextDecode ==
  ASSUME Inv, PlaceInv, TextInv, NEW dec, DecodeFixed(dec), SaysAll(dec, Coming'),
         pc \in {"tmp", "out"}, MemberFixed
  PROVE  TextInv'
<1>1. Flushed(Whole)' = Written1(dec)
  <2>1. Flushed(Whole)' = Overflowed(Whole', write_overflow', copy_overflow')
    BY DEF Flushed, Overflowed
  <2> QED
    BY <2>1 DEF DecodeFixed, Written1
<1>2. /\ file' = file /\ base' = base /\ field' = "none" /\ WithinMember' /\ ret' = dec.ret
      /\ block_state' \notin {"CHECKSUM_CHECK", "FINISH"} /\ Said' = SaidOf(file, Coming')
  BY DEF DecodeFixed, MemberFixed, Said
<1>3. dec.ret \in {"OK", "END_INPUT", "OUT_OVERFLOW"} \cup Errors => (RefusedNow' <=> dec.ret \in Errors)
  BY <1>2 DEF RefusedNow, Refused, Errors
<1>4. RefusedNow' => dec.ret \in Refused
  BY <1>2 DEF RefusedNow
<1>5. OnText' <=> SaidBy(Written1(dec))
  BY <1>1, <1>2 DEF OnText, SaidBy
<1>6. CASE dec.ret \in Errors
  <2>1. TextRefused'
    BY <1>2, <1>5, <1>6 DEF SaysAll, TextRefused
  <2>2. RefusedNow'
    BY <1>2, <1>6 DEF RefusedNow, Refused
  <2> QED
    BY <1>2, <2>1, <2>2 DEF TextInv, AllGiven
<1>7. CASE dec.ret \notin Errors
  <2>1. TextValid'
    BY <1>1, <1>2, <1>7 DEF SaysAll, TextValid
  <2>2. ~ RefusedNow'
    <3>1. dec.ret \in {"OK", "END_INPUT", "OUT_OVERFLOW"}
      BY <1>7 DEF DecodeFixed
    <3> QED
      BY <1>3, <1>7, <3>1
  <2> QED
    BY <1>2, <2>1, <2>2 DEF TextInv, AllGiven
<1> QED
  BY <1>6, <1>7

LEMMA CopyDecode ==
  ASSUME Inv, NEW dec, DecodeFixed(dec), CopyHeld(dec)
  PROVE  CopyInView'
<1>1. /\ write_overflow' = dec.lits /\ copy_overflow' = dec.copy /\ block_state' = dec.block
      /\ Len(View') = Len(View) + Len(dec.out)
  BY DEF DecodeFixed
<1> QED
  BY <1>1 DEF CopyHeld, CopyInView

LEMMA TextDecodeTmp ==
  ASSUME Inv, PlaceInv, TextInv, ViewInv, DictInv, DecodeTmp
  PROVE  TextInv' /\ ViewInv'
<1>1. PICK dec : dec = Decoded(tmp_out, 2 * Hist - Len(tmp_out))
  OBVIOUS
<1>2. /\ DecodeFixed(dec) /\ pc = "tmp" /\ tmp_out' = tmp_out \o dec.out /\ user' = user
      /\ Decode(dec, "tmp", "drain") /\ pc' \in {"tmp", "drain"}
      /\ tmp_out \in Seq(Nat) /\ 2 * Hist - Len(tmp_out) \in Nat
  BY <1>1, DecodeTmpFix
<1>3. Going
  BY <1>2 DEF DecodeFixed, Going
<1>4. Loaded
  BY <1>2 DEF DictInv, DictAsked, IdWaits, IdNext, BaseNext
<1>5. HistoryRight(tmp_out, 2 * Hist - Len(tmp_out))
  BY <1>2, <1>3, <1>4, ReachTmp
<1>6. SaysAll(dec, Coming') /\ CopyHeld(dec)
  BY <1>1, <1>2, <1>5, DecodeSays
<1>7. MemberFixed
  BY MemberFix DEF MemberStep
<1>8. TextInv'
  BY <1>2, <1>6, <1>7, TextDecode
<1>9. CopyInView'
  BY <1>2, <1>6, CopyDecode
<1>10. SeenBy(tmp_out)'
  <2>1. EndsRight(tmp_out, View)
    BY <1>2, <1>3, <1>4 DEF ViewInv, SeenBy
  <2>2. PICK x \in Seq(Nat) : x = dec.out
    BY <1>2 DEF DecodeFixed
  <2>3. View \in Seq(Nat)
    BY WholeTypes
  <2>4. EndsRight(tmp_out \o x, View \o x)
    BY <1>2, <2>1, <2>3, RightMore
  <2>5. tmp_out' = tmp_out \o x /\ View' = View \o x
    BY <1>2, <2>2 DEF DecodeFixed
  <2> QED
    BY <2>4, <2>5 DEF SeenBy, EndsRight, EndsAlike
<1>11. processed' <= Len(file.dict)' + Len(user)' - base'
  BY <1>2 DEF DecodeFixed, ViewInv
<1>12. ViewInv'
  BY <1>2, <1>9, <1>10, <1>11 DEF ViewInv
<1> QED
  BY <1>8, <1>12

LEMMA TextDecodeOut ==
  ASSUME Inv, HistoryInv, PlaceInv, TextInv, ViewInv, DecodeOut
  PROVE  TextInv' /\ ViewInv'
<1>1. PICK dec : dec = Decoded(Produced, avail_out)
  OBVIOUS
<1>2. /\ DecodeFixed(dec) /\ pc = "out" /\ tmp_out' = tmp_out /\ user' = user \o dec.out
      /\ Decode(dec, "out", "end") /\ pc' \in {"out", "end"} /\ processed = Len(tmp_out)
      /\ Produced \in Seq(Nat) /\ avail_out \in Nat /\ start_out' = start_out
      /\ Produced' = Produced \o dec.out
  BY <1>1, DecodeOutFix
<1>3. Going
  BY <1>2 DEF DecodeFixed, Going
<1>4. Hist <= Len(Produced) \/ Stalled
  BY <1>2, <1>3 DEF HistoryInv
<1>5. Hist <= Len(Produced) => HistoryRight(Produced, avail_out)
  BY <1>2, ReachOut
<1>6. WithinMember
  BY <1>2, MemberFrame
<1>7. Stalled => /\ dec.out = <<>>
                 /\ dec.ret = "END_INPUT" \/ dec.block = "INPUT_DONE"
  BY <1>1, <1>2, <1>6, StallsAfter
<1>8. SaysAll(dec, Coming') /\ CopyHeld(dec)
  BY <1>1, <1>2, <1>4, <1>5, <1>7, DecodeSays
<1>9. MemberFixed
  BY MemberFix DEF MemberStep
<1>10. TextInv'
  BY <1>2, <1>8, <1>9, TextDecode
<1>11. CopyInView'
  BY <1>2, <1>8, CopyDecode
<1>12. PICK x \in Seq(Nat) : x = dec.out
  BY <1>2 DEF DecodeFixed
<1>13. user \in Seq(Nat) /\ Len(user) \in Nat /\ Len(file.dict) \in Nat /\ base \in Nat
       /\ processed \in Nat
  <2>1. user \in Seq(Nat) /\ file.dict \in Seq(Nat) /\ base \in Nat /\ processed \in Nat
    BY WholeTypes
  <2> QED
    BY <2>1
<1>14. processed' <= Len(file.dict)' + Len(user)' - base'
  <2>1. Len(user') = Len(user) + Len(x) /\ Len(x) \in Nat
    BY <1>2, <1>12, <1>13, Joined
  <2>2. processed <= Len(file.dict) + Len(user) - base
    BY DEF ViewInv
  <2>3. processed' = processed /\ file' = file /\ base' = base
    BY <1>2 DEF DecodeFixed
  <2>4. PICK a \in Nat, b \in Nat, c \in Nat :
           a = Len(file.dict) /\ b = Len(user) /\ c = Len(x)
    BY <1>13, <2>1
  <2>5. processed <= a + (b + c) - base
    <3>1. PICK p \in Nat, q \in Nat : p = processed /\ q = base
      BY <1>13
    <3>2. p <= a + b - q
      BY <2>2, <2>4, <3>1
    <3>3. p <= a + (b + c) - q
      BY <3>2
    <3> QED
      BY <3>1, <3>3
  <2> QED
    BY <2>1, <2>3, <2>4, <2>5
<1>15. Hist <= Len(Produced) => Hist <= Len(Produced')
  <2>1. Len(Produced \o x) = Len(Produced) + Len(x) /\ Len(x) \in Nat /\ Len(Produced) \in Nat
    BY <1>2, Joined
  <2> QED
    BY <1>2, <1>12, <2>1, InflateAssumption
<1>16. Hist <= Len(Produced') \/ SeenBy(tmp_out)'
  <2>1. CASE Hist <= Len(Produced)
    BY <1>15, <2>1
  <2>2. CASE ~ (Hist <= Len(Produced))
    <3>1. SeenBy(tmp_out)
      BY <1>2, <1>3, <2>2 DEF ViewInv
    <3>2. View' = View
      BY <1>2, <1>4, <1>7, <2>2, WholeTypes, JoinNone DEF DecodeFixed
    <3> QED
      BY <1>2, <3>1, <3>2 DEF SeenBy, EndsRight, EndsAlike
  <2> QED
    BY <2>1, <2>2
<1>17. Hist <= Len(Produced') => FromUser'
  <2>1. processed' = Len(tmp_out') /\ Len(Produced') \in Nat /\ Hist \in Nat
    BY <1>2, <1>12, Joined, InflateAssumption DEF DecodeFixed
  <2> QED
    BY <2>1 DEF FromUser
<1>18. ViewInv'
  <2>1. (pc' = "out" => Hist <= Len(Produced)' \/ SeenBy(tmp_out)')
        /\ (pc' = "end" => FromUser' \/ SeenBy(tmp_out)')
    BY <1>16, <1>17
  <2> QED
    BY <1>2, <1>11, <1>14, <2>1 DEF ViewInv
<1> QED
  BY <1>10, <1>18

-----------------------------------------------------------------------------
(* RetInv: within the loops, ret is the result of a decoder.               *)
Reported == {"OK", "END_INPUT", "OUT_OVERFLOW"} \cup Errors
RetInv == pc \in Decoding => ret \in Reported

LEMMA RetInit ==
  ASSUME Init
  PROVE  RetInv
BY DEF Init, RetInv, Decoding

LEMMA RetMember ==
  ASSUME Inv, RetInv, MemberStep
  PROVE  RetInv'
<1>1. CASE ReadHeader("tmp", "drain") \/ ReadHeader("out", "end")
  BY <1>1 DEF ReadHeader, read_header_stateful, RetInv, Reported, Errors
<1>2. CASE DecodeTmp
  <2>1. PICK dec : dec = Decoded(tmp_out, 2 * Hist - Len(tmp_out))
    OBVIOUS
  <2>2. DecodeFixed(dec)
    BY <1>2, <2>1, DecodeTmpFix
  <2> QED
    BY <2>2 DEF DecodeFixed, RetInv, Reported
<1>3. CASE DecodeOut
  <2>1. PICK dec : dec = Decoded(Produced, avail_out)
    OBVIOUS
  <2>2. DecodeFixed(dec)
    BY <1>3, <2>1, DecodeOutFix
  <2> QED
    BY <2>2 DEF DecodeFixed, RetInv, Reported
<1>4. CASE Drain
  <2>1. ret' = ret \/ ret' = "OK"
    BY <1>4 DEF Drain
  <2>2. ret \in Reported
    BY <1>4 DEF Drain, RetInv, Decoding
  <2> QED
    BY <2>1, <2>2 DEF RetInv, Reported
<1>5. CASE End \/ ReadTrailer
  BY <1>5 DEF End, ReadTrailer, RetInv, Decoding
<1> QED
  BY <1>1, <1>2, <1>3, <1>4, <1>5 DEF MemberStep

LEMMA RetNext ==
  ASSUME Inv, RetInv, [Next]_vars
  PROVE  RetInv'
<1>1. CASE MemberStep
  BY <1>1, RetMember
<1>2. CASE Begin
  BY <1>2 DEF Begin, Inv, ControlInv, Entering, RetInv, Reported
<1>3. CASE UNCHANGED vars
  BY <1>3 DEF vars, RetInv
<1>4. ASSUME NEW n \in InSizes, (\E o \in OutSizes : Call(n, o)) \/ CallHeader(n) \/ NextMember(n)
      PROVE  RetInv'
  <2>1. ASSUME NEW o \in OutSizes, Call(n, o) PROVE RetInv'
    BY <2>1 DEF Call, RetInv, Decoding
  <2>2. CASE CallHeader(n) \/ NextMember(n)
    BY <2>2 DEF CallHeader, NextMember, RetInv, Decoding
  <2> QED
    BY <1>4, <2>1, <2>2
<1>5. CASE SetDict
  BY <1>5 DEF SetDict, RetInv, Decoding
<1>6. CASE StartHeader
  BY <1>6 DEF StartHeader, RetInv, Decoding
<1>7. CASE WithinHeader
  BY <1>7 DEF WithinHeader, RetInv
<1>8. CASE EndHeader
  BY <1>8 DEF EndHeader, RetInv, Decoding
<1>9. CASE ReadZlibBase
  BY <1>9 DEF ReadZlibBase, ZlibLeaves, RetInv, Decoding
<1>10. CASE ReadZlibDict
  BY <1>10 DEF ReadZlibDict, ZlibLeaves, RetInv, Decoding
<1> QED
  BY <1>1, <1>2, <1>3, <1>4, <1>5, <1>6, <1>7, <1>8, <1>9, <1>10 DEF Next, MemberStep

-----------------------------------------------------------------------------
(* The overflow goes on from a buffer as it goes on from the text.         *)
LEMMA FlushedAlike ==
  ASSUME Inv, CopyInView, NEW buffer \in Seq(Nat),
         copy_overflow.len = 0 \/ EndsRight(buffer, View)
  PROVE  \E more \in Seq(Nat) :
           Flushed(buffer) = buffer \o more /\ Flushed(Whole) = Whole \o more
<1>1. PICK lits \in Seq(Nat) : lits = write_overflow
  BY DEF Inv, BufferInv
<1>2. PICK d, len : d = copy_overflow.dist /\ len = copy_overflow.len
  OBVIOUS
<1>3. len \in Nat /\ d \in 0 .. Hist /\ Hist \in Nat
  BY <1>2, InflateAssumption DEF Inv, BufferInv
<1>4. /\ Whole \in Seq(Nat) /\ View \in Seq(Nat) /\ Len(View) \in Nat /\ Len(lits) \in Nat
  BY <1>1, WholeTypes
<1>5. buffer \o lits \in Seq(Nat) /\ Whole \o lits \in Seq(Nat)
  BY <1>4, Joined
<1>6. CopiesLike(buffer \o lits, Whole \o lits, d, len)
  <2>1. CASE len = 0
    BY <1>5, <2>1, CopiedNone DEF CopiesLike
  <2>2. CASE len # 0
    <3>1. d \in 1 .. Len(View) + Len(lits)
      BY <1>1, <1>2, <2>2 DEF CopyInView
    <3>2. PICK n \in Nat : /\ n = Least(Hist, Len(View)) /\ n <= Hist /\ n <= Len(View)
                           /\ (n = Hist \/ n = Len(View))
      BY <1>3, <1>4, LeastOf
    <3>3. EndsAlike(buffer, View, n)
      BY <1>2, <2>2, <3>2 DEF EndsRight
    <3>4. d <= n + Len(lits) /\ d \in Nat /\ d \in Nat \ {0}
      BY <1>3, <1>4, <3>1, <3>2
    <3>5. EndsAlike(buffer \o lits, Whole \o lits, d)
      BY <3>3, <3>4, ReachMore
    <3> QED
      BY <1>3, <1>5, <3>4, <3>5, LikeCopies
  <2> QED
    BY <2>1, <2>2
<1>7. PICK c : c = Copied(buffer \o lits, d, len) /\ c = Copied(Whole \o lits, d, len)
  BY <1>6 DEF CopiesLike
<1>8. c \in Seq(Nat)
  <2>1. PICK h \in Seq(Nat) : h = buffer \o lits
    BY <1>5
  <2>2. Copied(h, d, len) \in Seq(Nat)
    BY <1>3, CopiedLen
  <2> QED
    BY <1>7, <2>1, <2>2
<1>9. Flushed(buffer) = (buffer \o lits) \o c /\ Flushed(Whole) = (Whole \o lits) \o c
  BY <1>1, <1>2, <1>7 DEF Flushed
<1>10. (buffer \o lits) \o c = buffer \o (lits \o c) /\ (Whole \o lits) \o c = Whole \o (lits \o c)
  <2>1. (buffer \o lits) \o c = buffer \o (lits \o c)
    BY <1>8, JoinThree
  <2>2. (Whole \o lits) \o c = Whole \o (lits \o c)
    BY <1>4, <1>8, JoinThree, ZenonT(60)
  <2> QED
    BY <2>1, <2>2
<1>11. lits \o c \in Seq(Nat)
  BY <1>8, Joined
<1> QED
  BY <1>9, <1>10, <1>11

(* The overflow has been written: the text now ends with it.               *)
Wrote == /\ Whole' = Flushed(Whole) /\ Whole' \in Seq(Nat)
         /\ write_overflow' = <<>> /\ copy_overflow' = NoCopy
Judged ==
  \/ RefusedNow /\ RefusedNow' /\ Said' = Said
  \/ ~ RefusedNow /\ RefusedNow' /\ ~ Said'.ok
  \/ ~ RefusedNow /\ ~ RefusedNow' /\ Said' = Said

LEMMA TextWrote ==
  ASSUME Inv, PlaceInv, TextInv, MemberFixed, Wrote, Judged, AllGiven'
  PROVE  TextInv'
<1>1. file' = file /\ base' = base /\ WithinMember /\ WithinMember'
  BY DEF MemberFixed
<1>2. Flushed(Whole)' = Flushed(Whole)
  <2>1. PICK w \in Seq(Nat) : w = Whole'
    BY DEF Wrote
  <2>2. Flushed(Whole)' = Overflowed(w, <<>>, NoCopy)
    BY <2>1 DEF Flushed, Overflowed, Wrote
  <2>3. Overflowed(w, <<>>, NoCopy) = w
    <3>1. <<>> \in Seq(Nat)
      OBVIOUS
    <3> QED
      BY <3>1, OverflowedNone
  <2> QED
    BY <2>1, <2>2, <2>3 DEF Wrote
<1>3. OnText' <=> OnText
  BY <1>1, <1>2 DEF OnText
<1>4. RefusedNow' => TextRefused'
  <2>1. CASE RefusedNow
    BY <1>3, <2>1 DEF Judged, TextInv, TextRefused
  <2>2. CASE ~ RefusedNow /\ RefusedNow'
    <3>1. ~ Said'.ok
      BY <2>2 DEF Judged
    <3>2. Said.out = Flushed(Whole)
      BY <2>2 DEF TextInv, TextValid
    <3>3. Before(file, Coming) \in 0 .. Len(file.units) /\ Said = SaidAt(file, Before(file, Coming))
      <4>1. Rest(file, Coming)
        BY DEF PlaceInv
      <4> QED
        BY <4>1, PlaceTypes, RestFacts, SaidAtIs DEF Said
    <3> QED
      BY <1>3, <3>1, <3>2, <3>3 DEF TextRefused, OnText
  <2> QED
    BY <2>1, <2>2
<1>5. ~ RefusedNow' => TextValid'
  BY <1>1, <1>2 DEF Judged, TextInv, TextValid
<1> QED
  BY <1>1, <1>4, <1>5 DEF TextInv

(* The text and the window grow by the same units.                         *)
Behind1(more) ==
  /\ more \in Seq(Nat) /\ Flushed(Whole) = Whole \o more
  /\ Whole' = Whole \o more /\ View' = View \o more

LEMMA WroteBehind ==
  ASSUME Inv, NEW more, Behind1(more), write_overflow' = <<>>, copy_overflow' = NoCopy
  PROVE  Wrote
<1>1. Whole \o more \in Seq(Nat)
  BY WholeTypes, Joined DEF Behind1
<1> QED
  BY <1>1 DEF Behind1, Wrote

(* What is handed over from the buffer leaves the text as it is.           *)
Hands(g, s, more, p, q) ==
  /\ TextOf(g \o SubSeq(s \o more, p + 1, q), s \o more, q) = TextOf(g, s, p) \o more
  /\ SubSeq(s \o more, p + 1, q) \in Seq(Nat) /\ Len(SubSeq(s \o more, p + 1, q)) = q - p
LEMMA HandedOver ==
  ASSUME NEW g \in Seq(Nat), NEW s \in Seq(Nat), NEW more \in Seq(Nat), NEW p \in Nat,
         NEW q \in Nat, p <= Len(s), p <= q, q <= Len(s \o more)
  PROVE  Hands(g, s, more, p, q)
<1> DEFINE buffer == s \o more
<1>1. buffer \in Seq(Nat)
  BY Joined
<1>5. q <= Len(buffer)
  OBVIOUS
<1> HIDE DEF buffer
<1>2. TextOf(g \o SubSeq(buffer, p + 1, q), buffer, q) = TextOf(g, buffer, p)
  BY <1>1, <1>5, TextGiven
<1>3. TextOf(g, s \o more, p) = TextOf(g, s, p) \o more
  BY TextMore
<1>4. SubSeq(buffer, p + 1, q) \in Seq(Nat) /\ Len(SubSeq(buffer, p + 1, q)) = q - p
  BY <1>1, <1>5
<1> QED
  BY <1>2, <1>3, <1>4 DEF Hands, buffer

DrainFixed(more, given) ==
  /\ pc = "drain" /\ pc' \in {"idle", "out", "end"} /\ given \in Seq(Nat)
  /\ tmp_out' = tmp_out \o more /\ user' = user \o given /\ processed' = processed + Len(given)
  /\ UNCHANGED <<file, base, block_state>> /\ Coming' = Coming
  /\ (pc' = "idle" <=> ret \in Errors) /\ ret' = IF pc' = "out" THEN "OK" ELSE ret
  /\ write_overflow' = <<>> /\ copy_overflow' = NoCopy
  /\ Behind1(more)

LEMMA DrainFix ==
  ASSUME Inv, CopyInView, Drain, copy_overflow.len = 0 \/ EndsRight(tmp_out, View)
  PROVE  \E more \in Seq(Nat), given \in Seq(Nat) : DrainFixed(more, given)
<1> DEFINE buffer == Flushed(tmp_out)
           copy   == Least(Len(buffer) - processed, avail_out)
           given  == SubSeq(buffer, processed + 1, processed + copy)
<1>1. /\ pc = "drain" /\ pc' \in {"idle", "out", "end"}
      /\ tmp_out' = buffer /\ processed' = processed + copy /\ user' = user \o given
      /\ UNCHANGED <<file, base, block_state, read_in, tmp_in, next_in, rest>>
      /\ (pc' = "idle" <=> ret \in Errors) /\ ret' = IF pc' = "out" THEN "OK" ELSE ret
      /\ write_overflow' = <<>> /\ copy_overflow' = NoCopy
  BY DEF Drain, params, input, block
<1>2. Coming' = Coming
  BY <1>1, ComingSame
<1>3. /\ tmp_out \in Seq(Nat) /\ user \in Seq(Nat) /\ Len(tmp_out) \in Nat /\ Len(user) \in Nat
      /\ processed \in Nat /\ processed <= Len(tmp_out) /\ avail_out \in Nat
      /\ base \in Nat /\ base <= Len(user) /\ file.dict \in Seq(Nat)
      /\ file.dict \o user \in Seq(Nat) /\ Len(file.dict \o user) = Len(file.dict) + Len(user)
      /\ Whole \in Seq(Nat) /\ View \in Seq(Nat)
  <2>1. avail_out \in Nat
    BY DEF Inv, BufferInv
  <2>2. /\ tmp_out \in Seq(Nat) /\ user \in Seq(Nat) /\ processed \in Nat /\ processed <= Len(tmp_out)
        /\ base \in Nat /\ base <= Len(user) /\ file.dict \in Seq(Nat)
        /\ file.dict \o user \in Seq(Nat) /\ Len(file.dict \o user) = Len(file.dict) + Len(user)
        /\ Whole \in Seq(Nat) /\ View \in Seq(Nat)
    BY WholeTypes
  <2> QED
    BY <2>1, <2>2
<1>4. PICK more \in Seq(Nat) : buffer = tmp_out \o more /\ Flushed(Whole) = Whole \o more
  BY <1>3, FlushedAlike
<1>5. buffer \in Seq(Nat) /\ Len(buffer) \in Nat /\ Len(tmp_out) <= Len(buffer)
  <2> HIDE DEF buffer
  <2>1. tmp_out \o more \in Seq(Nat) /\ Len(tmp_out \o more) = Len(tmp_out) + Len(more)
        /\ Len(more) \in Nat
    BY <1>3, Joined
  <2> QED
    BY <1>3, <1>4, <2>1
<1> HIDE DEF buffer
<1>6. copy \in Nat /\ processed + copy \in Nat /\ processed <= processed + copy
      /\ processed + copy <= Len(buffer)
  <2>1. Len(buffer) - processed \in Nat
    BY <1>3, <1>5
  <2>2. copy \in Nat /\ copy <= Len(buffer) - processed
    BY <1>3, <2>1, LeastOf
  <2> HIDE DEF copy
  <2> QED
    BY <1>3, <1>5, <2>2
<1> HIDE DEF copy
<1>7. PICK p \in Nat, q \in Nat : p = processed /\ q = processed + copy
  BY <1>3, <1>6
<1>8. given = SubSeq(buffer, p + 1, q) /\ p <= q /\ q <= Len(buffer) /\ p <= Len(tmp_out)
      /\ q - p = copy
  BY <1>3, <1>6, <1>7
<1> HIDE DEF given
<1>9. PICK g \in Seq(Nat) : g = file.dict \o user
  BY <1>3
<1>10. PICK v \in Seq(Nat) : v = Drop(g, base)
  BY <1>9, WholeTypes
<1>17. PICK w : w = given /\ w = SubSeq(buffer, p + 1, q)
  BY <1>8
<1>20. tmp_out \in Seq(Nat) /\ buffer = tmp_out \o more
  BY <1>3, <1>4
<1>11. /\ TextOf(g \o w, buffer, q) = TextOf(g, tmp_out, p) \o more
       /\ w \in Seq(Nat) /\ Len(w) = q - p
  <2>1. PICK s \in Seq(Nat) : s = tmp_out
    BY <1>20
  <2>2. /\ buffer = s \o more /\ p <= Len(s) /\ p <= q /\ q <= Len(buffer)
        /\ w = SubSeq(buffer, p + 1, q)
    BY <1>8, <1>17, <1>20, <2>1
  <2>3. /\ TextOf(g \o w, buffer, q) = TextOf(g, s, p) \o more
        /\ w \in Seq(Nat) /\ Len(w) = q - p
    <3>1. p <= Len(s) /\ p <= q /\ q <= Len(s \o more)
      BY <2>2
    <3>2. Hands(g, s, more, p, q)
      BY <3>1, HandedOver
    <3> QED
      BY <2>2, <3>2, Zenon DEF Hands
  <2> QED
    BY <2>1, <2>3
<1>12. TextOf(v \o w, buffer, q) = TextOf(v, tmp_out, p) \o more
  <2>1. PICK s \in Seq(Nat) : s = tmp_out
    BY <1>20
  <2>2. /\ buffer = s \o more /\ p <= Len(s) /\ p <= q /\ q <= Len(buffer)
        /\ w = SubSeq(buffer, p + 1, q)
    BY <1>8, <1>17, <1>20, <2>1
  <2>3. TextOf(v \o w, buffer, q) = TextOf(v, s, p) \o more
    <3>1. p <= Len(s) /\ p <= q /\ q <= Len(s \o more)
      BY <2>2
    <3>2. Hands(v, s, more, p, q)
      BY <3>1, HandedOver
    <3> QED
      BY <2>2, <3>2, Zenon DEF Hands
  <2> QED
    BY <2>1, <2>3
<1>13. file.dict' \o user' = g \o w
  <2>0. file.dict \in Seq(Nat) /\ user \in Seq(Nat) /\ w \in Seq(Nat)
    BY <1>3, <1>11
  <2>2. PICK d \in Seq(Nat), u \in Seq(Nat), x \in Seq(Nat) : d = file.dict /\ u = user /\ x = w
    BY <2>0
  <2>3. (d \o u) \o x = d \o (u \o x)
    BY JoinThree, ZenonT(60)
  <2>1. (file.dict \o user) \o w = file.dict \o (user \o w)
    BY <2>2, <2>3
  <2> QED
    BY <1>1, <1>9, <1>17, <2>1
<1>14. Whole' = Whole \o more
  BY <1>1, <1>7, <1>9, <1>11, <1>13, Zenon DEF Whole
<1>15. Drop(g \o w, base) = v \o w
  <2>1. base <= Len(g)
    BY <1>3, <1>9
  <2> QED
    BY <1>3, <1>10, <1>11, <2>1, DropJoined, ZenonT(60)
<1>16. View' = View \o more
  <2>1. View' = TextOf(Drop(file.dict' \o user', base'), tmp_out', processed')
    BY DEF View, Drop, TextOf
  <2>2. View' = TextOf(Drop(g \o w, base), buffer, q)
    BY <1>1, <1>7, <1>13, <2>1, Zenon
  <2>3. View = TextOf(v, tmp_out, p)
    BY <1>7, <1>9, <1>10, Zenon DEF View
  <2> QED
    BY <1>12, <1>15, <2>2, <2>3, Zenon
<1>18. processed' = processed + Len(w)
  BY <1>1, <1>8, <1>11, <1>17
<1>19. DrainFixed(more, w)
  BY <1>1, <1>2, <1>4, <1>11, <1>14, <1>17, <1>16, <1>18 DEF DrainFixed, Behind1
<1> QED
  BY <1>11, <1>19

LEMMA TextDrain ==
  ASSUME Inv, PlaceInv, TextInv, ViewInv, DictInv, RetInv, Drain
  PROVE  TextInv' /\ ViewInv'
<1>1. MemberFixed /\ Loaded /\ pc = "drain"
  <2>1. MemberStep /\ pc = "drain"
    BY DEF MemberStep, Drain
  <2>2. Loaded
    BY <2>1 DEF DictInv, DictAsked, IdWaits, IdNext, BaseNext
  <2> QED
    BY <2>1, <2>2, MemberFix
<1>2. Going => EndsRight(tmp_out, View)
  BY <1>1 DEF ViewInv, SeenBy
<1>3. CopyInView /\ (copy_overflow.len = 0 \/ Going)
  BY DEF ViewInv, CopyInView, Going
<1>4. PICK more \in Seq(Nat), given \in Seq(Nat) : DrainFixed(more, given)
  BY <1>2, <1>3, DrainFix
<1>5. Wrote
  BY <1>4, WroteBehind DEF DrainFixed
<1>6. Judged
  <2>1. ret \in Reported
    BY <1>1 DEF RetInv, Decoding
  <2>2. Said' = Said
    BY <1>4 DEF Said, DrainFixed
  <2>3. field = "none" /\ field' = "none"
    BY <1>1 DEF MemberFixed
  <2>4. RefusedNow <=> ret \in Errors
    BY <2>1, <2>3 DEF RefusedNow, Reported, Refused, Errors
  <2>5. RefusedNow' <=> ret' \in Refused
    BY <2>3 DEF RefusedNow
  <2>6. ret \in Errors => ret' = ret
    BY <1>4 DEF DrainFixed
  <2>7. ret \notin Errors => ret' \in {"OK", ret}
    BY <1>4 DEF DrainFixed
  <2>8. ret \notin Errors => ret' \notin Refused
    BY <2>1, <2>7 DEF Reported, Refused, Errors
  <2>9. ret \in Errors => ret' \in Refused
    BY <2>6 DEF Refused
  <2> QED
    BY <2>2, <2>4, <2>5, <2>8, <2>9 DEF Judged
<1>7. AllGiven'
  <2>1. block_state \in BlockStates
    BY <1>1 DEF Inv, ControlInv, Decoding
  <2> QED
    BY <1>4, <2>1 DEF DrainFixed, AllGiven, BlockStates
<1>8. TextInv'
  BY <1>1, <1>5, <1>6, <1>7, TextWrote
<1>9. /\ tmp_out' = tmp_out \o more /\ user' = user \o given /\ processed' = processed + Len(given)
      /\ file' = file /\ base' = base /\ block_state' = block_state /\ pc' # "tmp"
      /\ copy_overflow' = NoCopy /\ View' = View \o more
  BY <1>4 DEF DrainFixed, Behind1
<1>10. Going' => EndsRight(tmp_out', View')
  <2> SUFFICES ASSUME Going' PROVE EndsRight(tmp_out', View')
    OBVIOUS
  <2>1. EndsRight(tmp_out, View)
    BY <1>2, <1>9 DEF Going
  <2>2. EndsRight(tmp_out \o more, View \o more)
    BY <2>1, WholeTypes, RightMore
  <2> QED
    BY <1>9, <2>2
<1>11. Going' => SeenBy(tmp_out)'
  BY <1>10 DEF SeenBy, EndsRight, EndsAlike
<1>12. processed' <= Len(file.dict)' + Len(user)' - base'
  <2>1. user \in Seq(Nat) /\ file.dict \in Seq(Nat) /\ base \in Nat /\ processed \in Nat
    BY WholeTypes
  <2>2. PICK a \in Nat, b \in Nat, c \in Nat, p \in Nat, q \in Nat :
          a = Len(file.dict) /\ b = Len(user) /\ c = Len(given) /\ p = processed /\ q = base
    BY <2>1
  <2>3. Len(user \o given) = b + c
    BY <2>1, <2>2, Joined
  <2>4. p <= a + b - q
    BY <2>2 DEF ViewInv
  <2>5. p + c <= a + (b + c) - q
    BY <2>4
  <2> QED
    BY <1>9, <2>2, <2>3, <2>5
<1>13. CopyInView'
  BY <1>9 DEF CopyInView, NoCopy
<1>14. ViewInv'
  BY <1>11, <1>12, <1>13 DEF ViewInv
<1> QED
  BY <1>8, <1>14

-----------------------------------------------------------------------------
(* What a call keeps at its end: what has not been handed over, and the    *)
(* window behind which decoding goes on.                                   *)
KeepsRight(buffer, from) ==
  /\ buffer \in Seq(Nat) /\ from \in Nat /\ from <= Len(buffer)
  /\ Drop(buffer, from) = Drop(tmp_out, processed)
  /\ Going => EndsRight(buffer, View)
  /\ from <= Len(file.dict) + Len(user) - base

LEMMA KeepsUser ==
  ASSUME Inv, FromUser, pc = "end"
  PROVE  KeepsRight(Drop(Produced, Len(Produced) - Hist), Hist)
<1>1. processed = Len(tmp_out) /\ Len(Produced) >= Hist /\ tmp_out \in Seq(Nat)
  BY DEF FromUser, Inv, BufferInv
<1>2. PICK made \in Seq(Nat) : made = Produced
  BY <1>1, ProducedAlike
<1>3. Len(made) \in Nat /\ EndsAlike(made, View, Len(made)) /\ Len(made) <= Len(user) - base
      /\ Hist \in Nat /\ View \in Seq(Nat) /\ Len(View) \in Nat
  BY <1>1, <1>2, ProducedAlike, InflateAssumption, WholeTypes
<1>4. PICK cut \in Nat : cut = Len(made) - Hist
  <2>1. PICK n \in Nat, h \in Nat : n = Len(made) /\ h = Hist
    BY <1>3
  <2>2. n >= h
    BY <1>1, <1>2, <2>1
  <2>3. n - h \in Nat
    BY <2>2
  <2> QED
    BY <2>1, <2>3
<1>5. cut <= Len(made) /\ Len(made) - cut = Hist
  BY <1>3, <1>4
<1>6. PICK kept : kept = Drop(made, cut)
  OBVIOUS
<1>7. kept \in Seq(Nat) /\ Len(kept) = Hist /\ EndsAlike(kept, made, Hist)
  <2>1. EndsAlike(Drop(made, cut), made, Len(made) - cut)
    BY <1>5, DropAlike
  <2>2. Drop(made, cut) \in Seq(Nat) /\ Len(Drop(made, cut)) = Len(made) - cut
    BY <1>5, Dropped
  <2> QED
    BY <1>5, <1>6, <2>1, <2>2
<1>8. EndsAlike(kept, View, Hist)
  <2>1. Hist <= Len(made)
    BY <1>1, <1>2, <1>3
  <2>2. EndsAlike(made, View, Hist)
    BY <1>3, <2>1, AlikeLess
  <2> QED
    BY <1>3, <1>7, <2>2, AlikeTwice
<1>9. EndsRight(kept, View)
  <2>1. Least(Hist, Len(View)) \in Nat /\ Least(Hist, Len(View)) <= Hist
    BY <1>3, LeastOf
  <2>2. EndsAlike(kept, View, Least(Hist, Len(View)))
    BY <1>3, <1>7, <1>8, <2>1, AlikeLess
  <2> QED
    BY <2>2 DEF EndsRight
<1>10. Drop(kept, Hist) = Drop(tmp_out, processed)
  <2>1. Drop(kept, Len(kept)) = <<>> /\ Drop(tmp_out, Len(tmp_out)) = <<>>
    BY <1>1, <1>7, DropEmpties
  <2> QED
    BY <1>1, <1>7, <2>1
<1>11. Hist <= Len(file.dict) + Len(user) - base
  <2>1. file.dict \in Seq(Nat) /\ user \in Seq(Nat) /\ base \in Nat
    BY WholeTypes
  <2>2. Len(file.dict) \in Nat /\ Len(user) \in Nat
    BY <2>1
  <2> QED
    BY <1>1, <1>2, <1>3, <2>1, <2>2
<1>12. kept = Drop(Produced, Len(Produced) - Hist)
  BY <1>2, <1>4, <1>6
<1>13. KeepsRight(kept, Hist)
  BY <1>3, <1>7, <1>9, <1>10, <1>11 DEF KeepsRight
<1> QED
  BY <1>12, <1>13

LEMMA KeepsTmp ==
  ASSUME Inv, ViewInv, pc = "end", Going => SeenBy(tmp_out), NEW shift \in Nat,
         shift <= processed, shift = 0 \/ shift + Hist <= Len(tmp_out)
  PROVE  KeepsRight(Drop(tmp_out, shift), processed - shift)
<1>1. /\ tmp_out \in Seq(Nat) /\ Len(tmp_out) \in Nat /\ processed \in Nat
      /\ processed <= Len(tmp_out) /\ View \in Seq(Nat) /\ Hist \in Nat
  <2>1. tmp_out \in Seq(Nat) /\ processed \in Nat /\ processed <= Len(tmp_out) /\ View \in Seq(Nat)
    BY WholeTypes
  <2> QED
    BY <2>1, InflateAssumption
<1>2. PICK from \in Nat : from = processed - shift
  BY <1>1
<1>3. shift + from = processed /\ shift <= Len(tmp_out) /\ from <= Len(tmp_out) - shift
      /\ from <= processed /\ shift + from <= Len(tmp_out)
  BY <1>1, <1>2
<1>4. PICK kept : kept = Drop(tmp_out, shift)
  OBVIOUS
<1>5. kept \in Seq(Nat) /\ Len(kept) = Len(tmp_out) - shift
  BY <1>1, <1>3, <1>4, Dropped
<1>6. Drop(kept, from) = Drop(tmp_out, processed)
  <2>1. Drop(Drop(tmp_out, shift), from) = Drop(tmp_out, shift + from)
    BY <1>1, <1>3, DropTwice
  <2> QED
    BY <1>3, <1>4, <2>1, Zenon
<1>7. Going => EndsRight(kept, View)
  <2> SUFFICES ASSUME Going PROVE EndsRight(kept, View)
    OBVIOUS
  <2>1. EndsRight(tmp_out, View)
    BY DEF SeenBy
  <2>2. CASE shift = 0
    BY <1>1, <1>4, <2>1, <2>2, DropNone
  <2>3. CASE shift + Hist <= Len(tmp_out)
    BY <1>1, <1>4, <2>1, <2>3, RightDrop
  <2> QED
    BY <2>2, <2>3
<1>8. from <= Len(file.dict) + Len(user) - base
  <2>1. file.dict \in Seq(Nat) /\ user \in Seq(Nat) /\ base \in Nat
    BY WholeTypes
  <2>2. PICK a \in Nat, b \in Nat, q \in Nat, p \in Nat :
          a = Len(file.dict) /\ b = Len(user) /\ q = base /\ p = processed
    BY <1>1, <2>1
  <2>3. p <= a + b - q
    BY <2>2 DEF ViewInv
  <2> QED
    BY <1>3, <2>2, <2>3
<1>9. from <= Len(kept)
  BY <1>3, <1>5
<1>10. KeepsRight(kept, from)
  BY <1>5, <1>6, <1>7, <1>8, <1>9 DEF KeepsRight
<1> QED
  BY <1>2, <1>4, <1>10

LEMMA KeptView ==
  ASSUME Inv, ViewInv, pc = "end"
  PROVE  KeepsRight(Kept.buffer, Kept.processed)
<1>1. /\ tmp_out \in Seq(Nat) /\ Len(tmp_out) \in Nat /\ processed \in Nat
      /\ processed <= Len(tmp_out) /\ Hist \in Nat
  <2>1. tmp_out \in Seq(Nat) /\ processed \in Nat /\ processed <= Len(tmp_out)
    BY WholeTypes
  <2> QED
    BY <2>1, InflateAssumption
<1>2. Drop(tmp_out, 0) = tmp_out /\ processed - 0 = processed
  BY <1>1, DropNone
<1>3. Going /\ ~ FromUser => SeenBy(tmp_out)
  BY DEF ViewInv
<1>4. CASE block_state = "INPUT_DONE" /\ OverflowLen + Len(tmp_out) <= TmpSize
  <2>1. ~ Going
    BY <1>4 DEF Going
  <2>2. KeepsRight(Drop(tmp_out, 0), processed - 0)
    BY <1>1, <2>1, KeepsTmp
  <2>3. Kept = [buffer |-> tmp_out, processed |-> processed]
    BY <1>4 DEF Kept
  <2> QED
    BY <1>2, <2>2, <2>3
<1>5. CASE ~ (block_state = "INPUT_DONE" /\ OverflowLen + Len(tmp_out) <= TmpSize) /\ FromUser
  <2>1. Kept = [buffer |-> Drop(Produced, Len(Produced) - Hist), processed |-> Hist]
    BY <1>5 DEF Kept
  <2> QED
    BY <1>5, <2>1, KeepsUser
<1>6. CASE ~ (block_state = "INPUT_DONE" /\ OverflowLen + Len(tmp_out) <= TmpSize)
           /\ ~ FromUser /\ Shifts
  <2>1. Len(tmp_out) - Hist \in Nat
    BY <1>1, <1>6 DEF Shifts
  <2>2. PICK shift \in Nat : shift = Shift /\ shift <= Len(tmp_out) - Hist /\ shift <= processed
    BY <1>1, <2>1, LeastOf DEF Shift
  <2>3. shift + Hist <= Len(tmp_out)
    BY <1>1, <2>1, <2>2
  <2>4. KeepsRight(Drop(tmp_out, shift), processed - shift)
    BY <1>3, <1>6, <2>2, <2>3, KeepsTmp
  <2>5. Kept = [buffer |-> Drop(tmp_out, shift), processed |-> processed - shift]
    BY <1>6, <2>2 DEF Kept
  <2> QED
    BY <2>4, <2>5
<1>7. CASE ~ (block_state = "INPUT_DONE" /\ OverflowLen + Len(tmp_out) <= TmpSize)
           /\ ~ FromUser /\ ~ Shifts
  <2>1. KeepsRight(Drop(tmp_out, 0), processed - 0)
    BY <1>1, <1>3, <1>7, KeepsTmp
  <2>2. Kept = [buffer |-> tmp_out, processed |-> processed]
    BY <1>7 DEF Kept
  <2> QED
    BY <1>2, <2>1, <2>2
<1> QED
  BY <1>4, <1>5, <1>6, <1>7

-----------------------------------------------------------------------------
(* The trailer holds, or the grammar says that it does not.                *)
SaysRight(s, n, sum, size) == s[1].value = sum /\ (n = 2 \/ s[2].value = size)
TrailerSaid(f, s, n, sum, size) ==
  IF SaysRight(s, n, sum, size) THEN SaidOf(f, Drop(s, n)) = SaidOf(f, s)
  ELSE ~ SaidOf(f, Drop(s, n)).ok

LEMMA TrailerSays ==
  ASSUME NEW f, f.units \in Seq(FileUnits), NEW s, Rest(f, s), PlaceOf(f, s).at = "sum",
         NEW n \in 2 .. 3, n <= Len(s), Gzip(f.flag) <=> n = 3, SaidOf(f, s).ok,
         NEW sum, sum = Extended(0, MemberText(f, SaidOf(f, s))),
         NEW size, size = Len(MemberText(f, SaidOf(f, s)))
  PROVE  TrailerSaid(f, s, n, sum, size)
<1>1. s \in Seq(FileUnits) /\ Drop(s, 0) = s /\ Len(s) \in Nat /\ 2 <= Len(s)
  <2>1. s \in Seq(FileUnits)
    BY RestFacts
  <2> QED
    BY <2>1, DropNone
<1>2. PICK t : t = SaidOf(f, s) /\ t.ok
  OBVIOUS
<1>3. PICK r : r = SaidOf(f, Drop(s, 1)) /\ PlaceOf(f, Drop(s, 1)).at = "size"
                /\ IF s[1].value = sum THEN r = t ELSE ~ r.ok
  <2>1. /\ PlaceOf(f, Drop(s, 0 + 1)) = PlaceAfter(f.flag, PlaceOf(f, Drop(s, 0)), s[0 + 1])
        /\ SaidOf(f, Drop(s, 0 + 1)) = SaidAfter(f, Before(f, s) + 0, PlaceOf(f, Drop(s, 0)),
                                                 SaidOf(f, Drop(s, 0)), s[0 + 1])
    BY <1>1, OneUnit
  <2>2. PICK k : SaidOf(f, Drop(s, 1)) = SaidAfter(f, k, PlaceOf(f, s), t, s[1])
    BY <1>1, <1>2, <2>1
  <2>3. PlaceOf(f, Drop(s, 1)) = PlaceAfter(f.flag, PlaceOf(f, s), s[1])
    BY <1>1, <2>1
  <2>4. PICK p, u : p = PlaceOf(f, s) /\ u = s[1] /\ p.at = "sum"
    OBVIOUS
  <2>5. Checks(f, k, p, t, u) <=> u.value = sum
    BY <1>2, <2>4 DEF Checks
  <2>6. Checks(f, k, p, t, u) => SaidAfter(f, k, p, t, u) = t
    BY <1>2, <2>4 DEF SaidAfter
  <2>7. ~ Checks(f, k, p, t, u) => ~ SaidAfter(f, k, p, t, u).ok
    BY <1>2, <2>4 DEF SaidAfter, Says
  <2> QED
    BY <2>2, <2>3, <2>4, <2>5, <2>6, <2>7 DEF PlaceAfter, TrailerAfter, To, Place
<1>4. PICK q : q = SaidOf(f, Drop(s, 2)) /\ (n = 3 => PlaceOf(f, Drop(s, 2)).at = "size2")
                /\ IF SaysRight(s, n, sum, size) THEN q = t ELSE ~ q.ok
  <2>1. /\ PlaceOf(f, Drop(s, 1 + 1)) = PlaceAfter(f.flag, PlaceOf(f, Drop(s, 1)), s[1 + 1])
        /\ SaidOf(f, Drop(s, 1 + 1)) = SaidAfter(f, Before(f, s) + 1, PlaceOf(f, Drop(s, 1)),
                                                 SaidOf(f, Drop(s, 1)), s[1 + 1])
    BY <1>1, OneUnit
  <2>2. PICK k : SaidOf(f, Drop(s, 2)) = SaidAfter(f, k, PlaceOf(f, Drop(s, 1)), r, s[2])
    BY <1>3, <2>1
  <2>3. PlaceOf(f, Drop(s, 2)) = PlaceAfter(f.flag, PlaceOf(f, Drop(s, 1)), s[2])
    BY <2>1
  <2>4. PICK p, u : p = PlaceOf(f, Drop(s, 1)) /\ u = s[2] /\ p.at = "size"
    BY <1>3
  <2>5. r = t => (Checks(f, k, p, r, u) <=> (Gzip(f.flag) => u.value = size))
    BY <1>2, <2>4 DEF Checks
  <2>6. ~ r.ok => SaidAfter(f, k, p, r, u) = r
    BY DEF SaidAfter
  <2>7. r = t /\ Checks(f, k, p, r, u) => SaidAfter(f, k, p, r, u) = t
    BY <1>2, <2>4 DEF SaidAfter
  <2>8. r = t /\ ~ Checks(f, k, p, r, u) => ~ SaidAfter(f, k, p, r, u).ok
    BY <1>2, <2>4 DEF SaidAfter, Says
  <2>9. n = 3 => PlaceOf(f, Drop(s, 2)).at = "size2"
    BY <2>3, <2>4 DEF PlaceAfter, TrailerAfter, To, Place
  <2> QED
    BY <1>2, <1>3, <2>2, <2>4, <2>5, <2>6, <2>7, <2>8, <2>9 DEF SaysRight
<1>5. CASE n = 2
  BY <1>2, <1>4, <1>5 DEF TrailerSaid
<1>6. CASE n = 3
  <2>1. SaidOf(f, Drop(s, 2 + 1)) = SaidAfter(f, Before(f, s) + 2, PlaceOf(f, Drop(s, 2)),
                                              SaidOf(f, Drop(s, 2)), s[2 + 1])
    BY <1>1, <1>6, OneUnit
  <2>2. PICK k, p, u : SaidOf(f, Drop(s, 3)) = SaidAfter(f, k, p, q, u) /\ p.at = "size2"
    BY <1>4, <1>6, <2>1
  <2>3. PlaceAfter(f.flag, p, u).at = "end"
    BY <2>2 DEF PlaceAfter, TrailerAfter, To, Place
  <2>4. Checks(f, k, p, q, u)
    BY <2>2, <2>3 DEF Checks
  <2>5. q.ok => SaidAfter(f, k, p, q, u) = q
    BY <2>2, <2>4 DEF SaidAfter
  <2>6. ~ q.ok => SaidAfter(f, k, p, q, u) = q
    BY DEF SaidAfter
  <2> QED
    BY <1>2, <1>4, <1>6, <2>2, <2>5, <2>6 DEF TrailerSaid
<1> QED
  BY <1>5, <1>6

(* The member's text is what was handed over since it began.               *)
LEMMA MemberIs ==
  ASSUME Inv, NEW t, t.out = file.dict \o user, t.from = base
  PROVE  MemberText(file, t) = Drop(user, base) /\ Len(Drop(user, base)) = Len(user) - base
<1>1. /\ user \in Seq(Nat) /\ file.dict \in Seq(Nat) /\ base \in Nat /\ base <= Len(user)
  BY WholeTypes
<1>2. PICK d \in Seq(Nat), u \in Seq(Nat) : d = file.dict /\ u = user
  BY <1>1
<1>3. Drop(d \o u, Len(d) + base) = Drop(u, base)
  BY <1>1, <1>2, DropOver
<1>4. MemberText(file, t) = Drop(d \o u, Len(d) + base)
  BY <1>2 DEF MemberText, Behind, Drop
<1>5. Len(Drop(u, base)) = Len(u) - base
  BY <1>1, <1>2, Dropped
<1> QED
  BY <1>2, <1>3, <1>4, <1>5

-----------------------------------------------------------------------------
(* What the trailer is found to be is what the grammar says of it.         *)
CheckJudged(check) ==
  /\ check.ret \in {"END_INPUT", "DECOMP_OK", "INCORRECT_CHECKSUM"}
  /\ IF check.ret = "INCORRECT_CHECKSUM" THEN ~ Said'.ok ELSE Said' = Said

LEMMA ChecksJudge ==
  ASSUME Inv, PlaceInv, NEW sum, NEW size, NEW check,
         check = check_checksum([read |-> read_in, next |-> next_in], sum, size),
         WithinMember, Here.at = TrailerAt(file.flag), crc_flag # "deflate",
         read_in = <<>> \/ tmp_in = <<>>,
         next_in' = check.in.next, read_in' = check.in.read, tmp_in' = check.tmp_in,
         file' = file, rest' = rest, Said.ok,
         sum = Extended(0, MemberText(file, Said)), size = Len(MemberText(file, Said))
  PROVE  CheckJudged(check)
<1> DEFINE in == [read |-> read_in, next |-> next_in]
<1>1. InputOK(in) /\ tmp_in \in Seq(FileUnits) /\ rest \in Seq(FileUnits) /\ in.read = read_in
      /\ in.next = next_in
  BY PlaceTypes DEF InputOK
<1>2. TrailerTaken(Coming, check, sum, size, rest)
  <2> HIDE DEF in
  <2>1. TrailerTaken(ComingOf(in.read, tmp_in, in.next, rest), check_checksum(in, sum, size),
                     sum, size, rest)
    BY <1>1, ChecksumTakes
  <2> QED
    BY <1>1, <2>1 DEF Coming, in
<1>3. Coming' = ComingOf(check.in.read, check.tmp_in, check.in.next, rest)
  BY DEF Coming
<1>4. OneFormat /\ Rest(file, Coming)
  BY DEF PlaceInv
<1>5. Gzip(crc_flag) <=> crc_flag # "zlib"
  BY <1>4, FormatFacts DEF Gzip
<1>6. check.ret \in {"END_INPUT", "DECOMP_OK", "INCORRECT_CHECKSUM"}
  BY <1>2 DEF TrailerTaken
<1>7. CASE check.ret = "END_INPUT"
  <2>1. Coming' = Coming
    BY <1>2, <1>3, <1>7 DEF TrailerTaken
  <2> QED
    BY <1>6, <1>7, <2>1 DEF CheckJudged, Said
<1>8. CASE check.ret # "END_INPUT"
  <2>1. /\ TrailerUnits <= Len(Coming) /\ Coming' = Drop(Coming, TrailerUnits)
        /\ check.ret = IF TrailerHolds(Coming, sum, size) THEN "DECOMP_OK" ELSE "INCORRECT_CHECKSUM"
    BY <1>2, <1>3, <1>8 DEF TrailerTaken
  <2>2. PICK n \in 2 .. 3 : n = TrailerUnits /\ (crc_flag = "zlib" <=> n = 2)
    BY DEF TrailerUnits
  <2>3. PlaceOf(file, Coming).at = "sum"
    <3>1. file.flag # "deflate"
      BY <1>4, FormatFacts
    <3> QED
      BY <3>1 DEF Here, TrailerAt
  <2>4. Gzip(file.flag) <=> n = 3
    BY <1>4, <1>5, <2>2, FormatFacts
  <2>5. PICK s : s = Coming /\ Rest(file, s) /\ SaidOf(file, s).ok
    BY <1>4 DEF Said
  <2>6. TrailerSaid(file, s, n, sum, size)
    <3>1. PlaceOf(file, s).at = "sum" /\ n <= Len(s) /\ file.units \in Seq(FileUnits)
      BY <2>1, <2>2, <2>3, <2>5, PlaceTypes
    <3>2. sum = Extended(0, MemberText(file, SaidOf(file, s)))
          /\ size = Len(MemberText(file, SaidOf(file, s)))
      BY <2>5 DEF Said
    <3> QED
      BY <2>4, <2>5, <3>1, <3>2, TrailerSays
  <2>7. SaysRight(s, n, sum, size) <=> TrailerHolds(Coming, sum, size)
    BY <2>2, <2>5 DEF SaysRight, TrailerHolds
  <2>8. Said' = SaidOf(file, Drop(s, n))
    BY <2>1, <2>2, <2>5 DEF Said
  <2>9. SaidOf(file, s) = Said
    BY <2>5 DEF Said
  <2> QED
    BY <1>6, <2>1, <2>6, <2>7, <2>8, <2>9 DEF TrailerSaid, CheckJudged
<1> QED
  BY <1>7, <1>8

(* Between calls the checksum and the size are those of the member.        *)
LEMMA SumsAre ==
  ASSUME Inv, NEW sum, NEW size, Said.out = file.dict \o user, Said.from = base,
         sum = Extended(0, Drop(user, base)), size = Len(user) - base
  PROVE  sum = Extended(0, MemberText(file, Said)) /\ size = Len(MemberText(file, Said))
BY MemberIs

LEMMA TextReadTrailer ==
  ASSUME Inv, PlaceInv, TextInv, ViewInv, ReadTrailer
  PROVE  TextInv' /\ ViewInv'
<1> DEFINE check == check_checksum([read |-> read_in, next |-> next_in], crc, total_out)
<1>1. /\ pc = "trailer" /\ pc' = "idle"
      /\ next_in' = check.in.next /\ read_in' = check.in.read /\ tmp_in' = check.tmp_in
      /\ block_state' = check.block /\ ret' = Returned(check.ret)
      /\ UNCHANGED <<params, rest, over, output, crc_flag, header>>
  BY DEF ReadTrailer
<1> HIDE DEF check
<1>2. /\ block_state = "CHECKSUM_CHECK" /\ ret = "OK" /\ WithinMember /\ field = "none"
      /\ field' = "none" /\ WithinMember'
  BY <1>1 DEF Inv, ControlInv, HeaderInv, Entering, header, hdr_locals, WithinMember
<1>3. read_in = <<>> /\ Here.at = TrailerAt(file.flag) /\ crc_flag # "deflate"
  BY <1>2 DEF PlaceInv, ReadEmpty, OnMember, Errors
<1>4. /\ UNCHANGED <<file, tmp_out, processed, user, base, write_overflow, copy_overflow>>
      /\ rest' = rest
  BY <1>1 DEF params, over, output
<1>5. ~ RefusedNow /\ processed = Len(tmp_out) /\ TextValid
  BY <1>2 DEF TextInv, RefusedNow, AllGiven, Refused, Errors
<1>6. copy_overflow.len = 0 /\ Flushed(Whole) = Whole
  BY <1>1, WholeTypes, NoOverflow
<1>7. Whole = file.dict \o user
  <2>1. file.dict \o user \in Seq(Nat) /\ tmp_out \in Seq(Nat)
    BY WholeTypes
  <2> QED
    BY <1>5, <2>1, TextAll DEF Whole
<1>8. Said.ok /\ Said.out = file.dict \o user /\ Said.from = base
  BY <1>2, <1>5, <1>6, <1>7 DEF TextValid
<1>9. crc = Extended(0, Drop(user, base)) /\ total_out = Len(user) - base
  BY <1>1, <1>3 DEF Inv, CountInv, Decoding, Sum
<1>10. CheckJudged(check)
  <2>1. crc = Extended(0, MemberText(file, Said)) /\ total_out = Len(MemberText(file, Said))
    BY <1>8, <1>9, SumsAre
  <2> QED
    BY <1>1, <1>2, <1>3, <1>4, <1>8, <2>1, ChecksJudge DEF check
<1>11. RefusedNow' <=> check.ret = "INCORRECT_CHECKSUM"
  BY <1>1, <1>2, <1>10 DEF RefusedNow, CheckJudged, Returned, Refused, Errors
<1>12. TextInv'
  <2>1. ~ RefusedNow' => Said' = Said
    BY <1>10, <1>11 DEF CheckJudged
  <2>2. RefusedNow' => ~ Said'.ok
    BY <1>10, <1>11 DEF CheckJudged
  <2> QED
    BY <1>2, <1>4, <1>5, <1>8, <2>1, <2>2, TextFrame
<1>13. ~ Going'
  <2>1. check.block \in {"FINISH", "CHECKSUM_CHECK"}
    BY DEF check, check_checksum
  <2> QED
    BY <1>1, <2>1 DEF Going
<1> QED
  BY <1>1, <1>4, <1>6, <1>12, <1>13, ViewFrame

-----------------------------------------------------------------------------
(* The end of a call: its text, and then its trailer.                      *)
Done == ret \notin Errors /\ block_state = "INPUT_DONE" /\ processed' = Len(tmp_out')
EndCheck == check_checksum([read |-> read_in, next |-> next_in], crc', total_out')
EndText ==
  /\ pc = "end" /\ pc' = "idle"
  /\ UNCHANGED <<file, rest, user, base, crc_flag>>
  /\ write_overflow' = <<>> /\ copy_overflow' = NoCopy
  /\ tmp_out' = Flushed(Kept.buffer) /\ processed' = Kept.processed
  /\ tmp_out' \in Seq(Nat) /\ processed' \in Nat
EndBlock ==
  IF Done /\ crc_flag # "deflate"
  THEN /\ next_in' = EndCheck.in.next /\ read_in' = EndCheck.in.read
       /\ tmp_in' = EndCheck.tmp_in
       /\ block_state' = EndCheck.block /\ ret' = Returned(EndCheck.ret)
  ELSE /\ block_state' = IF Done THEN "FINISH" ELSE block_state
       /\ ret' = Returned(ret)
       /\ UNCHANGED input

LEMMA EndIs ==
  ASSUME Inv, ViewInv, End
  PROVE  EndText /\ EndBlock
<1> DEFINE buffer == Flushed(Kept.buffer)
           left   == Len(buffer) - Kept.processed
           sum    == Sum(crc, Produced)
           total  == total_out + OverflowLen
           done   == ret \notin Errors /\ block_state = "INPUT_DONE" /\ left = 0
           check  == check_checksum([read |-> read_in, next |-> next_in], sum, total)
<1>1. /\ pc = "end" /\ pc' = "idle" /\ UNCHANGED <<params, rest, crc_flag, user, base>>
      /\ tmp_out' = buffer /\ processed' = Kept.processed
      /\ write_overflow' = <<>> /\ copy_overflow' = NoCopy
      /\ crc' = sum /\ total_out' = total - left
      /\ IF done /\ crc_flag # "deflate"
         THEN /\ next_in' = check.in.next /\ read_in' = check.in.read
              /\ tmp_in' = check.tmp_in
              /\ block_state' = check.block /\ ret' = Returned(check.ret)
         ELSE /\ block_state' = IF done THEN "FINISH" ELSE block_state
              /\ ret' = Returned(ret)
              /\ UNCHANGED input
  BY DEF End
<1>2. Inv'
  BY InvEnd
<1>3. tmp_out' \in Seq(Nat) /\ processed' \in Nat
  BY <1>2 DEF Inv, BufferInv
<1>4. EndText
  BY <1>1, <1>3 DEF EndText, params
<1>5. done <=> Done
  <2>1. Len(tmp_out') \in Nat /\ processed' \in Nat
    BY <1>3
  <2>2. left = Len(tmp_out') - processed'
    BY <1>1
  <2>3. left = 0 <=> processed' = Len(tmp_out')
    BY <2>1, <2>2
  <2> QED
    BY <2>3 DEF Done
<1>6. Done => check = EndCheck
  <2> SUFFICES ASSUME Done PROVE check = EndCheck
    OBVIOUS
  <2>1. total \in Nat
    <3>1. /\ total_out \in Nat /\ write_overflow \in Seq(Nat)
          /\ copy_overflow \in [len : 0 .. MaxMatch, dist : 0 .. Hist]
      BY DEF Inv, BufferInv, CountInv
    <3>2. Len(write_overflow) \in Nat /\ copy_overflow.len \in Nat
      BY <3>1
    <3> QED
      BY <3>1, <3>2 DEF OverflowLen
  <2>2. left = 0
    BY <1>5
  <2>3. total_out' = total
    BY <1>1, <2>1, <2>2
  <2> QED
    BY <1>1, <2>3 DEF EndCheck
<1> QED
  <2> HIDE DEF done, check, buffer, left, sum, total
  <2> QED
    BY <1>1, <1>4, <1>5, <1>6 DEF EndBlock

LEMMA EndBehind ==
  ASSUME Inv, ViewInv, EndText
  PROVE  \E more \in Seq(Nat) : Behind1(more) /\ (Going => EndsRight(tmp_out', View'))
                                /\ processed' <= Len(file.dict)' + Len(user)' - base'
<1>1. PICK kept, from : kept = Kept.buffer /\ from = Kept.processed
  OBVIOUS
<1>2. KeepsRight(kept, from)
  <2>1. KeepsRight(Kept.buffer, Kept.processed)
    BY KeptView DEF EndText
  <2> QED
    BY <1>1, <2>1, Zenon
<1>3. PICK s \in Seq(Nat), p \in Nat : s = kept /\ p = from /\ p <= Len(s)
  BY <1>2 DEF KeepsRight
<1>4. /\ Drop(s, p) = Drop(tmp_out, processed) /\ (Going => EndsRight(s, View))
      /\ p <= Len(file.dict) + Len(user) - base
  BY <1>2, <1>3 DEF KeepsRight
<1>5. CopyInView /\ (copy_overflow.len = 0 \/ EndsRight(s, View))
  BY <1>4 DEF ViewInv, CopyInView, Going
<1>6. PICK more \in Seq(Nat) : Flushed(s) = s \o more /\ Flushed(Whole) = Whole \o more
  BY <1>5, FlushedAlike
<1>7. /\ tmp_out' = s \o more /\ processed' = p
      /\ UNCHANGED <<file, user, base>>
  BY <1>1, <1>3, <1>6 DEF EndText
<1>8. PICK g \in Seq(Nat) : g = file.dict \o user
  BY WholeTypes
<1>9. PICK v \in Seq(Nat) : v = Drop(g, base)
  BY <1>8, WholeTypes
<1>10. TextOf(g, s, p) = Whole /\ TextOf(v, s, p) = View
  BY <1>4, <1>8, <1>9 DEF Whole, View, TextOf
<1>11. TextOf(g, s \o more, p) = Whole \o more
  <2>1. p <= Len(s)
    BY <1>3
  <2>2. TextOf(g, s \o more, p) = TextOf(g, s, p) \o more
    BY <2>1, TextMore
  <2> QED
    BY <1>10, <2>2
<1>12. TextOf(v, s \o more, p) = View \o more
  <2>1. p <= Len(s)
    BY <1>3
  <2>2. TextOf(v, s \o more, p) = TextOf(v, s, p) \o more
    BY <2>1, TextMore
  <2> QED
    BY <1>10, <2>2
<1>13. Whole' = Whole \o more
  BY <1>7, <1>8, <1>11, Zenon DEF Whole
<1>14. View' = View \o more
  <2>1. View' = TextOf(Drop(file.dict' \o user', base'), tmp_out', processed')
    BY DEF View, Drop, TextOf
  <2>2. View' = TextOf(Drop(g, base), s \o more, p)
    BY <1>7, <1>8, <2>1, Zenon
  <2> QED
    BY <1>9, <1>12, <2>2, Zenon
<1>15. Going => EndsRight(tmp_out', View')
  <2> SUFFICES ASSUME Going PROVE EndsRight(tmp_out', View')
    OBVIOUS
  <2>1. EndsRight(s \o more, View \o more)
    BY <1>4, WholeTypes, RightMore
  <2> QED
    BY <1>7, <1>14, <2>1
<1>16. Behind1(more)
  BY <1>6, <1>13, <1>14 DEF Behind1
<1>17. processed' <= Len(file.dict)' + Len(user)' - base'
  BY <1>4, <1>7
<1> QED
  BY <1>15, <1>16, <1>17

LEMMA EndJudged ==
  ASSUME Inv, PlaceInv, TextInv, ViewInv, RetInv, MemberFixed, Inv', EndText, EndBlock, Wrote
  PROVE  Judged /\ AllGiven' /\ (Going' => Going)
<1>1. /\ pc = "end" /\ pc' = "idle" /\ UNCHANGED <<file, rest, user, base, crc_flag>>
  BY DEF EndText
<1>2. /\ field = "none" /\ field' = "none" /\ WithinMember /\ WithinMember'
  BY DEF MemberFixed
<1>3. block_state \in BlockStates /\ ret \in Reported
  BY <1>1 DEF RetInv, Decoding, Inv, ControlInv
<1>4. RefusedNow <=> ret \in Errors
  BY <1>2, <1>3 DEF RefusedNow, Reported, Refused, Errors
<1>5. RefusedNow' <=> ret' \in Refused
  BY <1>2 DEF RefusedNow
<1>6. CASE Done /\ crc_flag # "deflate"
  <2>1. PICK check : check = EndCheck
    OBVIOUS
  <2>2. /\ next_in' = check.in.next /\ read_in' = check.in.read /\ tmp_in' = check.tmp_in
        /\ block_state' = check.block /\ ret' = Returned(check.ret)
    BY <1>6, <2>1 DEF EndBlock
  <2>3. Here.at = TrailerAt(file.flag) /\ tmp_in = <<>>
    BY <1>2, <1>6 DEF PlaceInv, OnMember, Done, Inv, InputInv, Half
  <2>4. ~ RefusedNow /\ TextValid
    BY <1>4, <1>6 DEF TextInv, Done
  <2>5. Whole' = file.dict \o user
    <3>1. processed' = Len(tmp_out') /\ tmp_out' \in Seq(Nat)
      BY <1>6 DEF Done, EndText
    <3>2. PICK g \in Seq(Nat) : g = file.dict \o user
      BY WholeTypes
    <3>3. TextOf(g, tmp_out', processed') = g
      BY <3>1, <3>2, TextAll
    <3> QED
      BY <1>1, <3>2, <3>3 DEF Whole
  <2>6. Said.ok /\ Said.out = file.dict \o user /\ Said.from = base
    BY <1>2, <2>4, <2>5 DEF TextValid, Wrote
  <2>7. crc' = Extended(0, Drop(user, base)) /\ total_out' = Len(user) - base
    BY <1>1, <1>6 DEF Inv, CountInv, Decoding, Sum, Drop
  <2>8. crc' = Extended(0, MemberText(file, Said)) /\ total_out' = Len(MemberText(file, Said))
    <3>1. PICK a, b : a = crc' /\ b = total_out'
      OBVIOUS
    <3>2. a = Extended(0, Drop(user, base)) /\ b = Len(user) - base
      BY <2>7, <3>1
    <3>3. a = Extended(0, MemberText(file, Said)) /\ b = Len(MemberText(file, Said))
      BY <2>6, <3>2, SumsAre
    <3> QED
      BY <3>1, <3>3
  <2>9. CheckJudged(check)
    <3>1. PICK a, b : a = crc' /\ b = total_out'
      OBVIOUS
    <3>2. a = Extended(0, MemberText(file, Said)) /\ b = Len(MemberText(file, Said))
      BY <2>8, <3>1
    <3>3. check = check_checksum([read |-> read_in, next |-> next_in], a, b)
      BY <2>1, <3>1 DEF EndCheck
    <3> QED
      BY <1>1, <1>2, <1>6, <2>2, <2>3, <2>6, <3>2, <3>3, ChecksJudge
  <2>10. RefusedNow' <=> check.ret = "INCORRECT_CHECKSUM"
    BY <1>5, <2>2, <2>9 DEF CheckJudged, Returned, Refused, Errors
  <2>11. check.block \in {"FINISH", "CHECKSUM_CHECK"}
    BY <2>1 DEF EndCheck, check_checksum
  <2>12. AllGiven' /\ ~ Going'
    BY <1>6, <2>2, <2>11 DEF AllGiven, Going, Done
  <2>13. Judged
    BY <2>4, <2>9, <2>10 DEF CheckJudged, Judged
  <2> QED
    BY <2>12, <2>13
<1>7. CASE ~ (Done /\ crc_flag # "deflate")
  <2>1. /\ block_state' = IF Done THEN "FINISH" ELSE block_state
        /\ ret' = Returned(ret) /\ UNCHANGED input
    BY <1>7 DEF EndBlock
  <2>2. Coming' = Coming
    BY <1>1, <2>1, ComingSame DEF input
  <2>3. Said' = Said
    BY <1>1, <2>2 DEF Said
  <2>4. ret \in Errors <=> ret' \in Refused
    BY <1>3, <2>1 DEF Returned, Refused, Errors, Reported
  <2>5. Judged
    BY <1>4, <1>5, <2>3, <2>4 DEF Judged
  <2>6. AllGiven'
    BY <1>3, <2>1 DEF AllGiven, BlockStates, Done
  <2>7. Going' => Going
    BY <2>1 DEF Going
  <2> QED
    BY <2>5, <2>6, <2>7
<1> QED
  BY <1>6, <1>7

LEMMA TextEnd ==
  ASSUME Inv, PlaceInv, TextInv, ViewInv, RetInv, End
  PROVE  TextInv' /\ ViewInv'
<1>1. EndText /\ EndBlock /\ Inv'
  BY EndIs, InvEnd
<1>2. MemberFixed
  <2>1. MemberStep
    BY DEF MemberStep
  <2> QED
    BY <2>1, MemberFix
<1>3. PICK more \in Seq(Nat) : Behind1(more) /\ (Going => EndsRight(tmp_out', View'))
                               /\ processed' <= Len(file.dict)' + Len(user)' - base'
  BY <1>1, EndBehind
<1>4. /\ pc' = "idle" /\ write_overflow' = <<>> /\ copy_overflow' = NoCopy
  BY <1>1 DEF EndText
<1>5. Wrote
  BY <1>3, <1>4, WroteBehind
<1>6. Judged /\ AllGiven' /\ (Going' => Going)
  BY <1>1, <1>2, <1>5, EndJudged
<1>7. TextInv'
  BY <1>2, <1>5, <1>6, TextWrote
<1>8. Going' => SeenBy(tmp_out)'
  BY <1>3, <1>6 DEF SeenBy, EndsRight, EndsAlike
<1>9. CopyInView'
  BY <1>4 DEF CopyInView, NoCopy
<1>10. ViewInv'
  BY <1>3, <1>4, <1>8, <1>9 DEF ViewInv
<1> QED
  BY <1>7, <1>10

-----------------------------------------------------------------------------
(* All of it together.                                                     *)
Base  == Inv /\ HistoryInv /\ ExtraInv /\ PlaceInv /\ RetInv
Right == TextInv /\ ViewInv /\ DictInv /\ SumInv

LEMMA RightHeader ==
  ASSUME Base, Right, ~ SplitHeaders, WithinHeader
  PROVE  Right'
BY TextWithinHeader, ViewWithinHeader, DictWithinHeader, SumWithinHeader DEF Base, Right

LEMMA RightZlib ==
  ASSUME Base, Right, ReadZlibBase \/ ReadZlibDict
  PROVE  Right'
BY TextZlib, ViewZlib, DictZlibBase, DictZlibDict DEF Base, Right

LEMMA RightQuiet ==
  ASSUME Base, Right, ~ SplitHeaders, QuietStep
  PROVE  Right'
<1>1. TextInv' /\ ViewInv' /\ DictInv'
  BY TextQuietStep, ViewQuietStep, DictQuietStep DEF Base, Right
<1>2. SumInv'
  BY SumCall, SumCallHeader, SumStartHeader, SumEndHeader, SumBegin DEF Base, Right, QuietStep
<1> QED
  BY <1>1, <1>2 DEF Right

LEMMA RightMember ==
  ASSUME Base, Right, MemberStep
  PROVE  Right'
<1>1. DictInv' /\ SumInv'
  BY DictMember, SumMember DEF Base, Right
<1>2. TextInv' /\ ViewInv'
  <2>1. CASE ReadHeader("tmp", "drain") \/ ReadHeader("out", "end")
    BY <2>1, TextReadHeader, ViewReadHeader DEF Base, Right
  <2>2. CASE DecodeTmp \/ DecodeOut
    BY <2>2, TextDecodeTmp, TextDecodeOut DEF Base, Right
  <2>3. CASE Drain \/ End \/ ReadTrailer
    BY <2>3, TextDrain, TextEnd, TextReadTrailer DEF Base, Right
  <2> QED
    BY <2>1, <2>2, <2>3 DEF MemberStep
<1> QED
  BY <1>1, <1>2 DEF Right

LEMMA RightStutter ==
  ASSUME Right, UNCHANGED vars
  PROVE  Right'
<1>1. /\ UNCHANGED <<file, rest, next_in, read_in, tmp_in, block_state, bfinal, count>>
      /\ UNCHANGED <<crc_flag, gz_hdr, wrapper_flag, flags, hcrc, start_in, field, hdr_ret, ret, pc>>
      /\ UNCHANGED <<tmp_out, processed, user, base, start_out, write_overflow, copy_overflow>>
  BY DEF vars, params, input, block, over, output, header, hdr_locals
<1>2. Coming' = Coming
  BY <1>1, ComingSame
<1>3. Said' = Said /\ Here' = Here
  BY <1>1, <1>2 DEF Said, Here
<1>4. Whole' = Whole /\ View' = View /\ Produced' = Produced
  BY <1>1 DEF Whole, View, TextOf, Drop, Produced
<1>5. Flushed(Whole)' = Flushed(Whole)
  BY <1>1, <1>4 DEF Flushed
<1>6. TextInv'
  <2>1. OnText' <=> OnText
    BY <1>1, <1>5 DEF OnText
  <2>2. RefusedNow' <=> RefusedNow
    BY <1>1 DEF RefusedNow
  <2>3. (WithinMember' <=> WithinMember) /\ (AllGiven' <=> AllGiven)
    BY <1>1 DEF WithinMember, AllGiven
  <2> QED
    BY <1>1, <1>3, <1>5, <2>1, <2>2, <2>3 DEF Right, TextInv, TextValid, TextRefused
<1>7. ViewInv'
  <2>1. SeenBy(tmp_out)' <=> SeenBy(tmp_out)
    BY <1>1, <1>4 DEF SeenBy, EndsRight, EndsAlike
  <2>2. (CopyInView' <=> CopyInView) /\ (Loaded' <=> Loaded) /\ (Going' <=> Going)
    BY <1>1, <1>4 DEF CopyInView, Loaded, Going
  <2>3. FromUser' <=> FromUser
    BY <1>1, <1>4 DEF FromUser
  <2> QED
    BY <1>1, <1>4, <2>1, <2>2, <2>3 DEF Right, ViewInv
<1>8. DictInv'
  BY <1>1, <1>2 DEF Right, DictInv, Loaded, DictAsked, IdWaits, IdNext, BaseNext, Starved
<1>9. SumInv'
  <2>1. SumAt(start_in \o rest)' = SumAt(start_in \o rest) /\ SumAt(Coming)' = SumAt(Coming)
        /\ SumAt(next_in \o rest)' = SumAt(next_in \o rest)
    BY <1>1, <1>2 DEF SumAt, Take, Before
  <2>2. (FromStart' <=> FromStart) /\ (Resumable' <=> Resumable) /\ (WithinMember' <=> WithinMember)
    BY <1>1 DEF FromStart, Rest, Drop, Resumable, WithinMember
  <2>3. (SumWaits' <=> SumWaits) /\ (HeaderShort' <=> HeaderShort)
    BY <1>1, <2>1, <2>2 DEF SumWaits, HeaderShort, At, Resumable
  <2> QED
    BY <1>1, <2>1, <2>2, <2>3 DEF Right, SumInv
<1> QED
  BY <1>6, <1>7, <1>8, <1>9 DEF Right

LEMMA RightNext ==
  ASSUME Base, Right, ~ SplitHeaders, [Next]_vars
  PROVE  Right'
<1>1. CASE UNCHANGED vars
  BY <1>1, RightStutter
<1>2. ASSUME NEW n \in InSizes, (\E o \in OutSizes : Call(n, o)) \/ CallHeader(n)
      PROVE  Right'
  BY <1>2, RightQuiet DEF QuietStep
<1>3. ASSUME NEW n \in InSizes, NextMember(n)
      PROVE  Right'
  BY <1>3, TextNextMember DEF Base, Right
<1>4. CASE SetDict
  BY <1>4, TextSetDict DEF Base, Right
<1>5. CASE StartHeader \/ EndHeader \/ Begin
  BY <1>5, RightQuiet DEF QuietStep
<1>6. CASE WithinHeader \/ ReadZlibBase \/ ReadZlibDict
  BY <1>6, RightHeader, RightZlib
<1>7. CASE ReadTrailer \/ Drain \/ End \/ ReadHeader("tmp", "drain") \/ DecodeTmp
           \/ ReadHeader("out", "end") \/ DecodeOut
  BY <1>7, RightMember DEF MemberStep
<1> QED
  BY <1>1, <1>2, <1>3, <1>4, <1>5, <1>6, <1>7 DEF Next

LEMMA BaseStep ==
  ASSUME Base, ~ SplitHeaders, [Next]_vars
  PROVE  Base'
<1>1. Inv'
  BY InvNext DEF Base
<1> QED
  BY <1>1, HistoryNext, ExtraNext, PlaceNext, RetNext DEF Base

-----------------------------------------------------------------------------
(* What the whole file says, and what the caller was given of it.          *)
LastSaid == SaidAt(file, Len(file.units))

LEMMA TextIs ==
  ASSUME Inv
  PROVE  /\ file.text = Drop(LastSaid.out, Len(file.dict))
         /\ file.ok <=> LastSaid.ok /\ Parse(file)[Len(file.units)].place.at = "end"
         /\ IsSaid(LastSaid)
<1>1. file \in Files /\ file.units \in Seq(FileUnits) /\ file.dict \in Seq(Nat)
  BY PlaceTypes
<1>2. PICK end : end = Parse(file)[Len(file.units)]
  OBVIOUS
<1>3. /\ file.text = Behind(end.said.out, Len(file.dict))
      /\ file.ok = (end.said.ok /\ end.place.at = "end")
  BY <1>1, <1>2, TextAssumption
<1>4. LastSaid = end.said
  BY <1>2 DEF LastSaid, SaidAt
<1>5. IsSaid(LastSaid)
  <2>1. Len(file.units) \in 0 .. Len(file.units)
    BY <1>1
  <2> QED
    BY <1>1, <2>1, SaidAtIs DEF LastSaid
<1> QED
  BY <1>2, <1>3, <1>4, <1>5 DEF Behind, Drop

LEMMA AllGrows ==
  ASSUME Inv, NEW p \in 0 .. Len(file.units)
  PROVE  Grows(SaidAt(file, p), LastSaid) /\ IsSaid(SaidAt(file, p))
<1>1. file.units \in Seq(FileUnits) /\ file.dict \in Seq(Nat)
  BY PlaceTypes
<1>2. PICK f : f = file /\ f.units \in Seq(FileUnits) /\ f.dict \in Seq(Nat)
  BY <1>1
<1>3. PICK N \in Nat : N = Len(f.units)
  BY <1>2
<1>4. PICK m \in Nat : p + m = N
  <2>1. p \in Nat /\ p <= N
    BY <1>2, <1>3
  <2>2. N - p \in Nat /\ p + (N - p) = N
    BY <2>1
  <2> QED
    BY <2>2
<1>5. p \in Nat /\ p + m <= Len(f.units)
  BY <1>3, <1>4
<1>6. Grows(SaidAt(f, p), SaidAt(f, p + m))
  BY <1>2, <1>5, SaidGrows
<1>7. IsSaid(SaidAt(f, p))
  BY <1>2, SaidAtIs
<1> QED
  BY <1>2, <1>3, <1>4, <1>6, <1>7 DEF LastSaid

(* What has been handed over, seen from the whole of what was said.        *)
StartsWith(u, t) == Promise!Continues(u, t)
LEMMA TextStarts ==
  ASSUME NEW d \in Seq(Nat), NEW u \in Seq(Nat), NEW w \in Seq(Nat), NEW e \in Seq(Nat),
         PrefixOf((d \o u) \o w, e)
  PROVE  StartsWith(u, Drop(e, Len(d)))
<1>1. PICK x \in Seq(Nat) : x = Drop(e, Len(d))
  BY DroppedAny
<1>2. PICK a \in Nat, b \in Nat, c \in Nat, n \in Nat :
        a = Len(d) /\ b = Len(u) /\ c = Len(w) /\ n = Len(e)
  OBVIOUS
<1>3. PICK g \in Seq(Nat) : g = d \o u /\ Len(g) = a + b /\ \A i \in 1 .. b : g[a + i] = u[i]
  <2>1. d \o u \in Seq(Nat) /\ Len(d \o u) = a + b
    BY <1>2, Joined
  <2>2. \A i \in 1 .. Len(d) + Len(u) : i > Len(d) => (d \o u)[i] = u[i - Len(d)]
    BY JoinedAt
  <2>3. \A i \in 1 .. b : a + i \in 1 .. a + b /\ a + i > a /\ (a + i) - a = i
    OBVIOUS
  <2>4. \A i \in 1 .. b : (d \o u)[a + i] = u[i]
    BY <1>2, <2>2, <2>3
  <2> QED
    BY <2>1, <2>4
<1>4. Len(g \o w) = a + b + c /\ \A i \in 1 .. a + b : (g \o w)[i] = g[i]
  <2>1. Len(g \o w) = Len(g) + Len(w)
    BY Joined
  <2>2. \A i \in 1 .. Len(g) : (g \o w)[i] = g[i]
    BY JoinedAt
  <2> QED
    BY <1>2, <1>3, <2>1, <2>2
<1>5. a + b + c <= n /\ \A i \in 1 .. a + b + c : e[i] = (g \o w)[i]
  BY <1>2, <1>3, <1>4 DEF PrefixOf
<1>6. \A i \in 1 .. b : e[a + i] = u[i]
  <2> SUFFICES ASSUME NEW i \in 1 .. b PROVE e[a + i] = u[i]
    OBVIOUS
  <2>1. a + i \in 1 .. a + b /\ a + i \in 1 .. a + b + c
    OBVIOUS
  <2>2. e[a + i] = (g \o w)[a + i] /\ (g \o w)[a + i] = g[a + i] /\ g[a + i] = u[i]
    BY <1>3, <1>4, <1>5, <2>1
  <2> QED
    BY <2>2
<1>7. Len(x) = n - a /\ \A i \in 1 .. n - a : x[i] = e[a + i]
  <2>1. Drops(x, e, a)
    <3>1. a \in Nat /\ a <= Len(e)
      BY <1>2, <1>5
    <3> QED
      BY <1>1, <1>2, <3>1, DroppedParts
  <2> QED
    BY <1>2, <2>1 DEF Drops
<1>8. b <= n - a /\ \A i \in 1 .. b : x[i] = u[i]
  BY <1>5, <1>6, <1>7
<1>9. SubSeq(u, 1, b) = u /\ SubSeq(x, 1, b) = u
  <2>1. SubSeq(u, 1, b) = u
    BY <1>2
  <2>2. SubSeq(x, 1, b) \in Seq(Nat) /\ Len(SubSeq(x, 1, b)) = b
        /\ \A i \in 1 .. b : SubSeq(x, 1, b)[i] = x[i]
    BY <1>7, <1>8, SMTT(60)
  <2>3. PICK y \in Seq(Nat) : y = SubSeq(x, 1, b)
    BY <2>2
  <2>4. Len(y) = Len(u) /\ \A i \in 1 .. Len(u) : y[i] = u[i]
    BY <1>2, <1>8, <2>2, <2>3
  <2>5. y = u
    BY <2>4, SameSeq
  <2> QED
    BY <2>1, <2>3, <2>5
<1> QED
  BY <1>1, <1>2, <1>7, <1>8, <1>9 DEF StartsWith, Promise!Continues

(* Whatever happens, what was handed over begins the text of the file.     *)
LEMMA WholeOnText ==
  ASSUME Base, Right
  PROVE  OnText
<1>1. CASE RefusedNow
  BY <1>1 DEF Right, TextInv, TextRefused
<1>2. CASE ~ RefusedNow
  <2>1. Said.out = Flushed(Whole) /\ Rest(file, Coming)
    BY <1>2 DEF Base, Right, TextInv, TextValid, PlaceInv
  <2>2. file.units \in Seq(FileUnits) /\ file.dict \in Seq(Nat)
    BY PlaceTypes DEF Base
  <2>3. Before(file, Coming) \in 0 .. Len(file.units) /\ Said = SaidAt(file, Before(file, Coming))
    BY <2>1, <2>2, RestFacts, SaidAtIs DEF Said
  <2> QED
    BY <2>1, <2>3 DEF OnText
<1> QED
  BY <1>1, <1>2

LEMMA GivenStarts ==
  ASSUME Base, Right
  PROVE  StartsWith(user, file.text)
<1>1. Inv
  BY DEF Base
<1>2. PICK p \in 0 .. Len(file.units) : SaidAt(file, p).out = Flushed(Whole)
  BY WholeOnText DEF OnText
<1>3. PICK e \in Seq(Nat) : e = LastSaid.out /\ file.text = Drop(e, Len(file.dict))
  BY <1>1, TextIs DEF IsSaid
<1>4. PrefixOf(Flushed(Whole), e)
  <2>1. Grows(SaidAt(file, p), LastSaid)
    BY <1>1, AllGrows
  <2> QED
    BY <1>2, <1>3, <2>1 DEF Grows
<1>5. PICK d \in Seq(Nat), u \in Seq(Nat), t \in Seq(Nat) : d = file.dict /\ u = user /\ t = tmp_out
  BY <1>1, WholeTypes
<1>6. PICK v \in Seq(Nat) : Whole = (d \o u) \o v
  <2>1. Drop(t, processed) \in Seq(Nat)
    <3>1. processed \in Nat
      BY <1>1, WholeTypes
    <3> QED
      BY <3>1, DroppedAny, Zenon
  <2> QED
    BY <1>5, <2>1 DEF Whole, TextOf
<1>7. PICK more \in Seq(Nat) : Flushed(Whole) = Whole \o more
  <2>1. Whole \in Seq(Nat)
    BY <1>1, WholeTypes
  <2>2. write_overflow \in Seq(Nat) /\ copy_overflow \in [len : 0 .. MaxMatch, dist : 0 .. Hist]
    BY <1>1 DEF Inv, BufferInv
  <2> QED
    BY <2>1, <2>2, FlushedMore
<1>8. PICK w \in Seq(Nat) : Flushed(Whole) = (d \o u) \o w
  <2>1. PICK g \in Seq(Nat) : g = d \o u
    BY Joined
  <2>2. (g \o v) \o more = g \o (v \o more) /\ v \o more \in Seq(Nat)
    BY JoinThree, Joined, ZenonT(60)
  <2> QED
    BY <1>6, <1>7, <2>1, <2>2
<1>9. StartsWith(u, Drop(e, Len(d)))
  <2>1. PrefixOf((d \o u) \o w, e)
    BY <1>4, <1>8
  <2> QED
    BY <2>1, TextStarts
<1> QED
  BY <1>3, <1>5, <1>9

(* Only an invalid file is refused.                                        *)
LEMMA OnlyInvalid ==
  ASSUME Base, Right, RefusedNow
  PROVE  ~ file.ok
<1>1. Inv /\ Rest(file, Coming) /\ ~ Said.ok
  BY DEF Base, PlaceInv, Right, TextInv, TextRefused
<1>2. file.units \in Seq(FileUnits) /\ file.dict \in Seq(Nat)
  BY <1>1, PlaceTypes
<1>3. PICK p \in 0 .. Len(file.units) : Said = SaidAt(file, p)
  BY <1>1, <1>2, RestFacts, SaidAtIs DEF Said
<1>4. ~ LastSaid.ok
  BY <1>1, <1>3, AllGrows DEF Grows
<1> QED
  BY <1>1, <1>4, TextIs

(* At the end nothing more is to come that would say anything.             *)
LEMMA EndIsLast ==
  ASSUME Inv, PlaceInv, pc = "idle", block_state = "FINISH", next_in \o rest = <<>>
  PROVE  Parse(file)[Len(file.units)] = Parse(file)[Before(file, Coming)] /\ Here.at = "end"
<1>1. /\ Rest(file, Coming) /\ file.units \in Seq(FileUnits) /\ file.dict \in Seq(Nat)
      /\ next_in \in Seq(FileUnits) /\ rest \in Seq(FileUnits) /\ OneFormat
  BY PlaceTypes DEF PlaceInv
<1>2. WithinMember
  BY DEF Inv, ControlInv, WrapperStates
<1>3. Here.at = "end"
  BY <1>2 DEF PlaceInv, OnMember
<1>4. CASE Gzip(file.flag)
  <2>1. read_in = <<>> /\ tmp_in = <<>>
    <3>1. Gzip(crc_flag)
      BY <1>1, <1>4, FormatFacts
    <3> QED
      BY <1>2, <3>1 DEF PlaceInv, ReadEmpty, Inv, InputInv, Half
  <2>2. next_in = <<>> /\ rest = <<>>
    <3>1. Len(next_in) + Len(rest) = 0
      <4>1. Len(next_in \o rest) = Len(next_in) + Len(rest)
        BY <1>1, Joined
      <4>2. Len(next_in \o rest) = 0
        OBVIOUS
      <4> QED
        BY <4>1, <4>2
    <3> QED
      BY <1>1, <3>1
  <2>3. Coming = <<>>
    <3>1. Coming = ComingOf(<<>>, <<>>, <<>>, <<>>)
      BY <2>1, <2>2 DEF Coming
    <3>2. Len(ComingOf(<<>>, <<>>, <<>>, <<>>)) = 0
      BY DEF ComingOf
    <3> QED
      BY <1>1, <3>1, <3>2, RestFacts
  <2>4. Before(file, Coming) = Len(file.units)
    BY <1>1, <2>3, RestFacts
  <2> QED
    BY <1>3, <2>4
<1>5. CASE ~ Gzip(file.flag)
  BY <1>1, <1>3, <1>5, EndStays DEF Here
<1> QED
  BY <1>3, <1>4, <1>5

(* At the end, everything was valid, and the text was handed over.         *)
LEMMA EndHasText ==
  ASSUME Base, Right, Status = "end"
  PROVE  file.ok /\ user = file.text
<1>1. /\ pc = "idle" /\ block_state = "FINISH" /\ next_in \o rest = <<>> /\ ret \notin Refused
      /\ Inv /\ PlaceInv
  BY DEF Status, Base
<1>2. ~ RefusedNow
  BY <1>1 DEF RefusedNow, Inv, HeaderInv
<1>3. WithinMember
  BY <1>1 DEF Inv, ControlInv, WrapperStates
<1>4. Said.ok /\ Said.out = Flushed(Whole) /\ processed = Len(tmp_out)
  BY <1>1, <1>2 DEF Right, TextInv, TextValid, AllGiven
<1>5. Flushed(Whole) = file.dict \o user
  <2>1. Flushed(Whole) = Whole
    BY <1>1, WholeTypes, NoOverflow
  <2>2. Whole = file.dict \o user
    <3>1. file.dict \o user \in Seq(Nat) /\ tmp_out \in Seq(Nat)
      BY <1>1, WholeTypes
    <3> QED
      BY <1>4, <3>1, TextAll DEF Whole
  <2> QED
    BY <2>1, <2>2
<1>6. Said = LastSaid /\ Here.at = "end" /\ Parse(file)[Len(file.units)].place = Here
  <2>1. Parse(file)[Len(file.units)] = Parse(file)[Before(file, Coming)] /\ Here.at = "end"
    BY <1>1, EndIsLast
  <2> QED
    BY <2>1 DEF Said, Here, SaidOf, PlaceOf, LastSaid, SaidAt
<1>7. file.ok
  BY <1>1, <1>4, <1>6, TextIs
<1>8. user = file.text
  <2>1. file.text = Drop(file.dict \o user, Len(file.dict))
    BY <1>1, <1>4, <1>5, <1>6, TextIs
  <2>2. PICK d \in Seq(Nat), u \in Seq(Nat) : d = file.dict /\ u = user
    BY <1>1, WholeTypes
  <2>3. Drop(d \o u, Len(d)) = Drop(u, 0)
    <3>1. Len(d) + 0 = Len(d)
      OBVIOUS
    <3>2. Drop(d \o u, Len(d) + 0) = Drop(u, 0)
      BY DropOver
    <3> QED
      BY <3>1, <3>2
  <2>4. Drop(u, 0) = u
    BY DropNone
  <2> QED
    BY <2>1, <2>2, <2>3, <2>4
<1> QED
  BY <1>7, <1>8

(* Promised: what the interface says of every state.                       *)
Promised ==
  /\ StartsWith(user, file.text)
  /\ Status = "end" => file.ok /\ user = file.text
  /\ Status = "refused" => ~ file.ok

LEMMA RightPromised ==
  ASSUME Base, Right
  PROVE  Promised
<1>1. Status = "refused" => RefusedNow
  BY DEF Status, RefusedNow
<1> QED
  BY <1>1, GivenStarts, OnlyInvalid, EndHasText DEF Promised

-----------------------------------------------------------------------------
(* What a step does to what the caller was given.                          *)
StartsBehind(u, v) == Promise!Continues(u, v)
LEMMA StartsJoined ==
  ASSUME NEW u \in Seq(Nat), NEW w \in Seq(Nat)
  PROVE  StartsBehind(u, u \o w) /\ StartsBehind(u, u)
<1>0. PICK a \in Nat, b \in Nat : a = Len(u) /\ b = Len(w)
  OBVIOUS
<1>1. PICK x \in Seq(Nat) : x = u \o w /\ Len(x) = a + b
  <2>1. u \o w \in Seq(Nat) /\ Len(u \o w) = Len(u) + Len(w)
    BY Joined
  <2> QED
    BY <1>0, <2>1
<1>2. \A i \in 1 .. a : x[i] = u[i]
  BY <1>0, <1>1, JoinedAt
<1>3. SubSeq(u, 1, a) = u
  BY <1>0, <1>1
<1>4. PICK y \in Seq(Nat) : y = SubSeq(x, 1, a) /\ Len(y) = a /\ \A i \in 1 .. a : y[i] = x[i]
  <2>1. SubSeq(x, 1, a) \in Seq(Nat) /\ Len(SubSeq(x, 1, a)) = a
        /\ \A i \in 1 .. a : SubSeq(x, 1, a)[i] = x[i]
    BY <1>0, <1>1
  <2> QED
    BY <2>1
<1>5. y = u
  <2>1. Len(y) = Len(u) /\ \A i \in 1 .. Len(u) : y[i] = u[i]
    BY <1>0, <1>1, <1>2, <1>4
  <2> QED
    BY <2>1, SameSeq
<1>6. a <= a + b
  OBVIOUS
<1> QED
  BY <1>0, <1>1, <1>3, <1>4, <1>5, <1>6 DEF StartsBehind, Promise!Continues

(* When the file has been refused, or has ended, nothing more happens.     *)
LEMMA NothingMore ==
  ASSUME Base, Right, Status # "more", Next
  PROVE  FALSE
<1>1. /\ pc = "idle" /\ Inv /\ DictInv
      /\ ret \in Refused \/ (ret \notin Refused /\ block_state = "FINISH" /\ next_in \o rest = <<>>)
  BY DEF Status, Base, Right
<1>2. block_state = "FINISH" => WithinMember
  BY <1>1 DEF Inv, ControlInv, WrapperStates
<1>3. ASSUME NEW n \in InSizes, (\E o \in OutSizes : Call(n, o)) \/ CallHeader(n) PROVE FALSE
  BY <1>1, <1>2, <1>3 DEF Call, CallHeader, WithinMember
<1>4. ASSUME NEW n \in InSizes, NextMember(n) PROVE FALSE
  <2>1. next_in \o rest = <<>> /\ Supply(IF next_in = <<>> THEN n ELSE 0) /\ next_in' # <<>>
    BY <1>1, <1>4 DEF NextMember
  <2>2. next_in \in Seq(FileUnits) /\ rest \in Seq(FileUnits)
    BY <1>1, PlaceTypes
  <2>3. Len(next_in) + Len(rest) = 0
    <3>1. Len(next_in \o rest) = Len(next_in) + Len(rest)
      BY <2>2, Joined
    <3>2. Len(next_in \o rest) = 0
      BY <2>1
    <3> QED
      BY <3>1, <3>2
  <2>4. next_in = <<>> /\ rest = <<>>
    BY <2>2, <2>3
  <2>5. Supply(n)
    BY <2>1, <2>4
  <2>6. next_in' = next_in
    BY <1>1, <2>4, <2>5, CallSupplies
  <2> QED
    BY <2>1, <2>4, <2>6
<1>5. CASE SetDict
  <2>1. ret \in {"DECOMP_OK", "NEED_DICT"} /\ block_state = "NEW_HDR"
    BY <1>1, <1>5, DictSets DEF SetDict
  <2> QED
    BY <1>1, <2>1 DEF Refused, Errors
<1>6. CASE StartHeader \/ EndHeader \/ WithinHeader
  <2>1. field \in HeaderFields \cup {"returned"} \/ pc \in {"header", "wrapper"}
    BY <1>6 DEF StartHeader, EndHeader, LeaveHeader, WithinHeader, HeaderStep, ReadBase,
          ReadExtraLen, CopyExtra, CopyName, CopyComment, Copy, SumHeader, ReadHcrc, HeaderDone, HeaderFields
  <2>2. field = "none"
    BY <1>1 DEF Inv, HeaderInv
  <2> QED
    BY <1>1, <2>1, <2>2 DEF HeaderFields
<1>7. CASE ReadZlibBase \/ ReadZlibDict \/ ReadTrailer \/ Begin \/ Drain \/ End
  BY <1>1, <1>7 DEF ReadZlibBase, ReadZlibDict, ReadTrailer, Begin, Drain, End
<1>8. CASE ReadHeader("tmp", "drain") \/ DecodeTmp \/ ReadHeader("out", "end") \/ DecodeOut
  BY <1>1, <1>8 DEF ReadHeader, DecodeTmp, DecodeOut, Decode
<1> QED
  BY <1>3, <1>4, <1>5, <1>6, <1>7, <1>8 DEF Next

(* A step leaves what was handed over alone, or adds to it within a call.  *)
Gives == \E w \in Seq(Nat) : user' = user \o w /\ (pc' = "idle" => ret' \in Errors)
LEMMA DrainGives ==
  ASSUME Base, Right, Drain
  PROVE  Gives
<1>1. pc = "drain" /\ Inv /\ ViewInv /\ Loaded
  BY DEF Drain, Base, Right, DictInv, DictAsked, IdWaits, IdNext, BaseNext
<1>2. Going => EndsRight(tmp_out, View)
  BY <1>1 DEF ViewInv, SeenBy
<1>3. CopyInView /\ (copy_overflow.len = 0 \/ Going)
  BY <1>1 DEF ViewInv, CopyInView, Going
<1>4. PICK more \in Seq(Nat), given \in Seq(Nat) : DrainFixed(more, given)
  BY <1>1, <1>2, <1>3, DrainFix
<1> QED
  BY <1>4 DEF DrainFixed, Gives

LEMMA StepGives ==
  ASSUME Base, Right, [Next]_vars
  PROVE  file' = file /\ (user' = user \/ Gives)
<1> USE DEF params, output, outside_header
<1>1. CASE UNCHANGED vars
  BY <1>1 DEF vars
<1>2. ASSUME NEW n \in InSizes, (\E o \in OutSizes : Call(n, o)) \/ CallHeader(n) \/ NextMember(n)
      PROVE  file' = file /\ user' = user
  BY <1>2 DEF Call, CallHeader, NextMember
<1>3. CASE SetDict \/ StartHeader \/ WithinHeader \/ EndHeader
  BY <1>3 DEF SetDict, StartHeader, WithinHeader, EndHeader
<1>4. CASE ReadZlibBase \/ ReadZlibDict
  BY <1>4 DEF ReadZlibBase, ReadZlibDict, zlib_unchanged
<1>5. CASE ReadTrailer \/ Begin \/ End
  BY <1>5 DEF ReadTrailer, Begin, End
<1>6. CASE ReadHeader("tmp", "drain") \/ DecodeTmp \/ ReadHeader("out", "end")
  BY <1>6 DEF ReadHeader, DecodeTmp, Decode
<1>7. CASE Drain
  BY <1>7, DrainGives DEF Drain
<1>8. CASE DecodeOut
  <2>1. file' = file
    BY <1>8 DEF DecodeOut, Decode
  <2>2. PICK dec : dec = Decoded(Produced, avail_out)
    OBVIOUS
  <2>3. dec.out \in Seq(Nat) /\ user' = user \o dec.out /\ pc' \in {"out", "end"}
    BY <1>8, <2>2, DecodeOutFix DEF Base, DecodeFixed
  <2> QED
    BY <2>1, <2>3 DEF Gives
<1> QED
  BY <1>1, <1>2, <1>3, <1>4, <1>5, <1>6, <1>7, <1>8 DEF Next

-----------------------------------------------------------------------------
(* A step keeps the promise: it hands over more of the text, or reports    *)
(* the end of a valid file or that the file is invalid, once.              *)
Kept1 == file' = file /\ StartsBehind(user, user') /\ (user' = user \/ Status' # "end")
LEMMA StepKept ==
  ASSUME Base, Right, [Next]_vars
  PROVE  Kept1
<1>1. file' = file /\ (user' = user \/ Gives)
  BY StepGives
<1>2. PICK u \in Seq(Nat) : u = user
  BY WholeTypes DEF Base
<1>3. CASE user' = user
  BY <1>1, <1>2, <1>3, StartsJoined DEF Kept1
<1>4. CASE Gives
  <2>1. PICK w \in Seq(Nat) : user' = u \o w /\ (pc' = "idle" => ret' \in Errors)
    BY <1>2, <1>4 DEF Gives
  <2>2. Status' # "end"
    BY <2>1 DEF Status, Refused
  <2>3. StartsBehind(u, u \o w)
    BY StartsJoined
  <2> QED
    BY <1>1, <1>2, <2>1, <2>2, <2>3 DEF Kept1
<1> QED
  BY <1>1, <1>3, <1>4

LEMMA StepPromised ==
  ASSUME Base, Right, Promised, Promised', [Next]_vars
  PROVE  [Promise!Write \/ Promise!Finish \/ Promise!Refuse]_<<file.text, file.ok, user, Status>>
<1>1. Kept1
  BY StepKept
<1>2. CASE UNCHANGED vars
  <2>1. UNCHANGED <<file, user, ret, pc, block_state, next_in, rest>>
    BY <1>2 DEF vars, params, input, block, output
  <2>2. Status' = Status
    BY <2>1 DEF Status
  <2> QED
    BY <2>1, <2>2
<1>3. CASE Next
  <2>1. Status = "more"
    BY <1>3, NothingMore
  <2>2. /\ file' = file /\ Promise!Continues(user, user') /\ Promise!Continues(user', file.text)
        /\ (user' = user \/ Status' # "end")
    BY <1>1 DEF Kept1, StartsBehind, StartsWith, Promised
  <2>3. Status' \in {"more", "end", "refused"}
    BY DEF Status
  <2>4. CASE Status' = "more"
    BY <2>1, <2>2, <2>4 DEF Promise!Write
  <2>5. CASE Status' = "end"
    BY <2>1, <2>2, <2>5 DEF Promise!Finish, Promised
  <2>6. CASE Status' = "refused"
    BY <2>1, <2>2, <2>6 DEF Promise!Refuse, Promised
  <2> QED
    BY <2>3, <2>4, <2>5, <2>6
<1> QED
  BY <1>2, <1>3

(* InflateKeepsPromise: isal_inflate keeps the promise of the library's    *)
(* interface for every size of its buffers, of its window and of the       *)
(* pieces the input comes in: what it hands over is, byte for byte, the    *)
(* text of the file; it reports the end when all of the text was handed    *)
(* over and the file is valid, and refuses a file only if it is not.       *)
(* Headers that isal_inflate cannot resume come in one piece.              *)
THEOREM InflateKeepsPromise ==
  ASSUME ~ SplitHeaders
  PROVE  Spec => ImplementsDecompressor
<1>1. Init => Base /\ Right
  BY InvInit, HistoryInit, ExtraInit, PlaceInit, RetInit, TextInit, DictInit DEF Base, Right
<1>2. Base /\ Right /\ [Next]_vars => (Base /\ Right)'
  BY BaseStep, RightNext
<1>3. Base /\ Right => Promised
  BY RightPromised
<1>4. Init => Promise!Init
  BY DEF Init, Promise!Init, Status, Refused, Errors
<1>5. Base /\ Right /\ Promised /\ Promised' /\ [Next]_vars =>
        [Promise!Write \/ Promise!Finish \/ Promise!Refuse]_<<file.text, file.ok, user, Status>>
  BY StepPromised
<1> QED
  BY <1>1, <1>2, <1>3, <1>4, <1>5, PTL DEF Spec, ImplementsDecompressor, Promise!Spec, Promise!dvars
=============================================================================
