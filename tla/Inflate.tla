------------------------------ MODULE Inflate ------------------------------
(***************************************************************************)
(* Streaming decompression: isal_inflate of igzip/igzip_inflate.c, which a *)
(* caller calls again and again with more input and an empty output buffer *)
(* of any size, and the caller of programs/igzip_cli.c, which resets the   *)
(* state between the members of a file.                                    *)
(*                                                                         *)
(* A call first decodes into tmp_out_buffer, up to twice the history size, *)
(* then hands over what fits, and only when nothing is left there decodes  *)
(* straight into the caller's buffer; before it returns it moves the last  *)
(* bytes it wrote back into tmp_out_buffer, where the next call looks for  *)
(* them.  A symbol that no longer fits is kept in the overflow fields.     *)
(*                                                                         *)
(* One step of "tmp" and "out" is one header, one lookup of the symbol     *)
(* table (up to three literals, or literals and one other symbol) or one   *)
(* copy from a stored block.  Files are sequences of units of Deflated.    *)
(***************************************************************************)
EXTENDS GzipHeader, Grammar, FiniteSetsExt

CONSTANTS
  Hist,       \* ISAL_DEF_HIST_SIZE, units
  LookAhead,  \* ISAL_LOOK_AHEAD
  MaxMatch,   \* ISAL_DEF_MAX_MATCH
  RegSize,    \* bytes that read_in holds
  HdrSize,    \* ISAL_DEF_MAX_HDR_SIZE
  Files,      \* files a caller may hold: units, dictionary, text, verdict
  Packs,      \* symbols per lookup: 1 to 3
  InSizes,    \* units a caller adds to the input before a call
  OutSizes,   \* sizes of the caller's output buffers
  SplitHeaders, \* headers that isal_inflate cannot resume may come in parts
  NameSizes,  \* first sizes of the caller's buffer for the file name
  Garbage     \* what a local of isal_inflate that is never set may hold

TmpSize == 2 * Hist + LookAhead

(* The bytes that a lookup may leave over and store_u32 writes past them.  *)
MaxLits  == 3
StoreU32 == 4

ASSUME InflateAssumption ==
  /\ Hist \in Nat \ {0} /\ LookAhead \in Nat /\ MaxMatch \in Nat
  /\ RegSize \in Nat \ {0} /\ HdrSize \in Nat \ {0}
  /\ LookAhead >= MaxMatch + MaxLits + StoreU32 - 1
  /\ Packs \subseteq 1 .. MaxLits
  /\ InSizes \subseteq Nat /\ OutSizes \subseteq Nat

(* What the extra field of a gzip file is: the units behind its length,    *)
(* when the flags of the header name one.                                  *)
ASSUME ExtraAssumption ==
  \A f \in Files : f.flag = "gzip_no_hdr_ver" =>
    /\ f.extra \in Seq(Nat) /\ Len(f.units) >= GZIP_HDR_BASE
    /\ LET n    == Len(f.extra)
           from == GZIP_HDR_BASE + GZIP_EXTRA_LEN
       IN  IF Has(f.units[3].value, EXTRA_FLAG)
           THEN /\ Len(f.units) >= from + n /\ f.units[4].value = n
                /\ \A i \in 1 .. n : f.units[from + i].value = f.extra[i]
           ELSE f.extra = <<>>

(* read_in has room for the symbols of one lookup: their codes together    *)
(* are shorter than its 64 bits.                                           *)
ASSUME LookupAssumption == RegSize >= MaxLits

(* What the symbol tables and headers of a file can say: a match is as     *)
(* long and as far back as DEFLATE allows.                                 *)
FileUnits ==
  {u \in [kind : STRING, value : Nat] :
     /\ u.kind = "len"  => u.value \in 1 .. MaxMatch
     /\ u.kind = "dist" => u.value \in 1 .. Hist}

ASSUME FilesAssumption ==
  /\ MaxMatch >= 1 /\ HdrSize >= 3 /\ NameSizes \subseteq Nat
  /\ \A f \in Files : /\ f.units \in Seq(FileUnits) /\ f.dict \in Seq(Nat)
                      /\ f.flag \in {"deflate", "gzip_no_hdr_ver", "gzip", "zlib"}

(* The text, the verdict and the ends of a file are those of its units; a  *)
(* dictionary is one that the units need.                                  *)
ASSUME TextAssumption ==
  \A f \in Files : LET end == Parse(f)[Len(f.units)]
                   IN  /\ f.text = Behind(end.said.out, Len(f.dict))
                       /\ f.ok = (end.said.ok /\ end.place.at = "end")
ASSUME EndsAssumption ==
  \A f \in Files : \A n \in 0 .. Len(f.units) :
    Parse(f)[n].place.at = "end" => n \in f.ends \/ f.flag = "deflate"
ASSUME DictAssumption ==
  \A f \in Files : f.dict # <<>> =>
    \/ f.flag = "deflate"
    \/ f.flag = "zlib" /\ (Len(f.units) > 1 => f.units[2].value = 1)

(* Only a gzip file has members, and the header that isal_inflate reads    *)
(* itself names no fields, since it cannot resume one that does.           *)
NoFields(u) == \A bit \in {HCRC_FLAG, EXTRA_FLAG, NAME_FLAG, COMMENT_FLAG} : ~ Has(u.value, bit)
ASSUME MembersAssumption ==
  \A f \in Files :
    /\ ~ Gzip(f.flag) => \A i \in 1 .. Len(f.units) : f.units[i].kind # "id"
    /\ ~ SplitHeaders => \A n \in 0 .. Len(f.units) - 1 :
         Parse(f)[n].place.at = "flags" /\ (n # 2 \/ f.flag = "gzip") => NoFields(f.units[n + 1])

(* read_in is no longer than the trailer of a gzip file: 8 bytes each.     *)
ASSUME TrailerAssumption == RegSize <= 3

VARIABLES
  file,        \* the file of this behaviour
  pack, trunc, \* its symbol tables: literals per lookup; whether the zeros
               \* that follow the last bits of the input end a lookup early
  rest,        \* units the caller has not handed over yet
  read_in,     \* units in read_in; next_in is the input behind them
  bfinal,      \* of the current block; count is its type0_block_len (a union)
  write_overflow,           \* literals that did not fit
  copy_overflow,            \* rest of a match that did not fit
  tmp_out,                  \* tmp_out_buffer up to tmp_out_valid, or next_out
  processed,                \* tmp_out_processed
  total_out, crc, crc_flag,
  user,        \* all bytes written to the caller's buffers so far
  start_out,   \* how many of them when this call began
  avail_out,
  base,        \* how many when this member began
  ret,         \* result of the decoder within a call, or of the last call
  pc           \* "idle" outside a call, else the part of isal_inflate, or
               \* "header" in the caller's own call of isal_read_gzip_header

input  == <<next_in, read_in, tmp_in>>
block  == <<block_state, bfinal, count>>
over   == <<write_overflow, copy_overflow>>
params == <<file, pack, trunc>>
header == <<gz_hdr, wrapper_flag, hdr_locals>>
output == <<tmp_out, processed, total_out, crc, user, start_out, avail_out, base>>
vars == <<params, rest, input, block, over, output, crc_flag, header, ret, pc>>

NoCopy  == [len |-> 0, dist |-> 0]
Errors  == {"INVALID_LOOKBACK", "INVALID_BLOCK", "INVALID_SYMBOL"}
Refused == Errors \cup {"INCORRECT_CHECKSUM", "UNSUPPORTED_METHOD", "INVALID_WRAPPER"}
Returned(r) == IF r \in Refused THEN r ELSE "DECOMP_OK"
GzHdr(f, name) == [flags |-> f, extra_len |-> 0, hcrc |-> 0, name |-> name, comment |-> NULL,
                   extra |-> IF name.null THEN NULL ELSE Buffer(1)]

Init ==
  /\ file \in Files /\ pack \in Packs /\ trunc \in (IF pack = 1 THEN {FALSE} ELSE BOOLEAN)
  /\ rest = file.units /\ next_in = <<>> /\ read_in = <<>> /\ tmp_in = <<>>
  /\ block_state = "NEW_HDR" /\ bfinal = 0 /\ count = 0
  /\ write_overflow = <<>> /\ copy_overflow = NoCopy
  /\ tmp_out = <<>> /\ processed = 0 /\ total_out = 0
  /\ crc = 0 /\ crc_flag = file.flag /\ wrapper_flag = FALSE
  /\ \E n \in NameSizes : gz_hdr = GzHdr(0, Buffer(n))
  /\ flags = 0 /\ hcrc = 0 /\ start_in = <<>> /\ field = "none" /\ hdr_ret = "DECOMP_OK"
  /\ user = <<>> /\ start_out = 0 /\ avail_out = 0 /\ base = 0
  /\ ret = "DECOMP_OK" /\ pc = "idle"

-----------------------------------------------------------------------------
(* Decoding.  An input is a record [read, next]; a decoder returns what it *)
(* leaves of it, what it writes, and the fields it changes.                *)

inflate_in_load(in) ==
  LET n == Least(RegSize - Len(in.read), Len(in.next))
  IN  [read |-> in.read \o Take(in.next, n), next |-> Drop(in.next, n)]

(* Symbols that one lookup returns: literals, and at most one other symbol *)
(* after them.  Past the input it looks at zeros: these complete a lookup  *)
(* that then has to be done again (one unit too many), or they do not.     *)
Literals(units) ==
  Max({i \in 0 .. Len(units) : \A j \in 1 .. i : units[j].kind = "lit"})
SymCount(units) ==
  LET lits == Literals(units)
  IN  IF lits >= pack THEN pack
      ELSE IF lits = Len(units) /\ trunc /\ lits > 0 THEN lits ELSE lits + 1

AfterBlock == IF bfinal = 1 THEN "INPUT_DONE" ELSE "NEW_HDR"

(* One round of decode_huffman_code_block_stateless: history is what lies  *)
(* between start_out and next_out, space is avail_out.                     *)
decode_huffman_code(in, history, space) ==
  LET loaded  == inflate_in_load(in)
      syms    == SymCount(loaded.read)
      symbol  == loaded.read[syms]
      literal == syms - (IF symbol.kind = "lit" THEN 0 ELSE 1)
      values  == [i \in 1 .. literal |-> loaded.read[i].value]
      written == Take(values, Least(space, literal))
      left    == Drop(values, Least(space, literal))
      full    == IF left # <<>> THEN "OUT_OVERFLOW" ELSE "OK"
      popped  == [read |-> Drop(loaded.read, syms), next |-> loaded.next]
      extra   == inflate_in_load(popped)
      behind  == [read |-> Tail(extra.read), next |-> extra.next]
      dist    == Head(extra.read).value
      room    == Least(space - Len(written), symbol.value)
      copied  == written \o Copied(history \o written, dist, room)
      Outcome(status, input_left, out, lits, copy, state) ==
        [ret |-> status, in |-> input_left, out |-> out, lits |-> lits, copy |-> copy,
         block |-> state, len0 |-> count]
      again                    == Outcome("END_INPUT", loaded, <<>>, <<>>, NoCopy, "CODED")
      after(status, state)     == Outcome(status, popped, written, left, NoCopy, state)
      match(status, out, copy) == Outcome(status, behind, out, left, copy, "CODED")
  IN  IF syms > Len(loaded.read) THEN again
      ELSE CASE symbol.kind = "lit" -> after(full, "CODED")
             [] symbol.kind = "eob" -> after(full, AfterBlock)
             [] symbol.kind = "len" ->
                  IF extra.read = <<>> THEN again
                  ELSE IF Head(extra.read).kind # "dist"
                  THEN match("INVALID_SYMBOL", written, NoCopy)
                  ELSE IF dist > Len(history) + Len(written)
                  THEN match("INVALID_LOOKBACK", written, NoCopy)
                  ELSE IF room < symbol.value
                  THEN match("OUT_OVERFLOW", copied,
                             [len |-> symbol.value - room, dist |-> dist])
                  ELSE match("OK", copied, NoCopy)
             [] OTHER -> after("INVALID_SYMBOL", "CODED")

(* decode_literal_block: what read_in holds comes first.                   *)
decode_literal_block(in, space) ==
  LET bytes == Len(in.read)
      n     == Least(count, Least(space, bytes + Len(in.next)))
      left  == [read |-> Drop(in.read, Least(n, bytes)),
                next |-> Drop(in.next, IF n > bytes THEN n - bytes ELSE 0)]
      state == IF n < count THEN "TYPE0" ELSE AfterBlock
      data  == Take(in.read \o in.next, n)
  IN  [ret   |-> IF left.read \o left.next = <<>> /\ state # "INPUT_DONE" THEN "END_INPUT"
                 ELSE IF space = n /\ n < count THEN "OUT_OVERFLOW" ELSE "OK",
       in    |-> left,
       out   |-> [i \in DOMAIN data |-> data[i].value],
       lits  |-> <<>>, copy |-> NoCopy, block |-> state, len0 |-> count - n]

(* read_header_stateful: a header that began in an earlier call is read    *)
(* from tmp_in_buffer, completed from the input; one that does not end     *)
(* here is put there, with all of the input, and read again.               *)
HeaderInput_fresh(in) == in.next
HeaderInput(in) ==
  IF block_state # "HDR" THEN in.next
  ELSE tmp_in \o Take(in.next, Least(HdrSize - Len(tmp_in), Len(in.next)))
read_header_stateful(in) ==
  LET units == in.read \o HeaderInput(in)
      first == Head(units)
      known == first.kind \in DOMAIN HeaderUnits
      size  == IF known THEN HeaderUnits[first.kind] ELSE 1
      reg   == Take(Drop(units, size), Least(RegSize - 1, Len(units) - size))
      taken == size + Len(reg) - Len(in.read) - Len(tmp_in)
      left  == [read |-> reg, next |-> Drop(in.next, IF taken < 0 THEN 0 ELSE taken)]
      short == [ret |-> "END_INPUT", in |-> [in EXCEPT !.next = <<>>],
                tmp_in |-> tmp_in \o in.next, block |-> "HDR", bfinal |-> bfinal,
                len0 |-> count]
      whole == [ret |-> "OK", in |-> left, tmp_in |-> <<>>, bfinal |-> first.value % 2,
                block |-> IF first.kind = "stored" THEN "TYPE0" ELSE "CODED",
                len0 |-> IF first.kind = "stored" THEN units[2].value ELSE count]
  IN  IF units = <<>> THEN short
      ELSE IF Len(units) < size THEN short
      ELSE IF known THEN whole
      ELSE [whole EXCEPT !.ret = "INVALID_BLOCK", !.block = block_state]

(* check_gzip_checksum and check_zlib_checksum: the trailer may begin in   *)
(* read_in, and its start waits in tmp_in_buffer when it does not end      *)
(* here.  A zlib trailer is shorter than read_in, which keeps the rest.    *)
TrailerUnits == IF crc_flag = "zlib" THEN 2 ELSE 3
TrailerInput_nextonly(in) == tmp_in \o in.next
TrailerInput(in) ==
  (IF Len(in.read) >= TrailerUnits THEN in.read ELSE tmp_in \o in.read) \o in.next
TrailerHolds(units, sum, size) ==
  units[1].value = sum /\ (crc_flag = "zlib" \/ units[2].value = size)
check_checksum(in, sum, size) ==
  LET units == TrailerInput(in)
      whole == Len(units) >= TrailerUnits
      read  == Drop(in.read, Least(TrailerUnits, Len(in.read)))
      behind == Drop(units, Least(TrailerUnits, Len(units)))
  IN  [ret    |-> IF ~whole THEN "END_INPUT"
                  ELSE IF TrailerHolds(units, sum, size) THEN "DECOMP_OK"
                  ELSE "INCORRECT_CHECKSUM",
       in     |-> [read |-> read, next |-> Drop(behind, Len(read))],
       tmp_in |-> IF whole THEN <<>> ELSE units,
       block  |-> IF whole THEN "FINISH" ELSE "CHECKSUM_CHECK"]

-----------------------------------------------------------------------------
(* The caller.                                                             *)

Supply(n) == /\ next_in' = next_in \o Take(rest, Least(n, Len(rest)))
             /\ rest' = Drop(rest, Least(n, Len(rest)))

ZLIB_HDR_BASE == 2
ZLIB_DICT_LEN == 2
DictNamed == crc_flag = "zlib" /\ file.dict # <<>>

(* A dictionary is due: at the start of a deflate file that needs one, or  *)
(* when isal_inflate has asked for it.                                     *)
DictDue == /\ file.dict # <<>> /\ tmp_out = <<>>
           /\ \/ ret = "NEED_DICT"
              \/ crc_flag = "deflate" /\ rest = file.units

(* isal_inflate is called with n more units and an output buffer of size o. *)
Call(n, o) ==
  /\ pc = "idle" /\ ret \notin Refused /\ block_state # "FINISH"
  /\ crc_flag = "gzip_no_hdr_ver" => wrapper_flag
  /\ ~DictDue
  /\ DictNamed /\ ~wrapper_flag /\ ~SplitHeaders => n >= ZLIB_HDR_BASE + ZLIB_DICT_LEN
  /\ Supply(n)
  /\ start_out' = Len(user) /\ avail_out' = o /\ ret' = "OK"
  /\ pc' = IF ~wrapper_flag /\ crc_flag = "gzip" THEN "wrapper"
           ELSE IF ~wrapper_flag /\ crc_flag = "zlib" THEN "zlib"
           ELSE IF block_state = "CHECKSUM_CHECK" THEN "trailer" ELSE "begin"
  /\ UNCHANGED <<params, read_in, tmp_in, block, over, tmp_out, processed, total_out, crc,
                 crc_flag, header, user, base>>

(* The caller calls isal_read_gzip_header itself, with more input, or with *)
(* a larger buffer in place of one that was too small.                     *)
Grown(buf) == [buf EXCEPT !.data = @ \o <<Stray, Stray>>]
CallHeader(n) ==
  /\ pc = "idle" /\ ret \notin Refused
  /\ crc_flag = "gzip_no_hdr_ver" /\ ~wrapper_flag
  /\ Supply(n)
  /\ gz_hdr' = [gz_hdr EXCEPT !.name  = IF ret = "NAME_OVERFLOW" THEN Grown(@) ELSE @,
                              !.extra = IF ret = "EXTRA_OVERFLOW" THEN Grown(@) ELSE @]
  /\ pc' = "header"
  /\ UNCHANGED <<params, read_in, tmp_in, block, over, output, crc_flag, wrapper_flag,
                 hdr_locals, ret>>

(* isal_inflate_set_dict.                                                  *)
SetDict ==
  /\ pc = "idle" /\ DictDue
  /\ block_state = "NEW_HDR" /\ processed = Len(tmp_out)
  /\ LET len == Least(Len(file.dict), Hist)
     IN  /\ tmp_out' = Drop(file.dict, Len(file.dict) - len)
         /\ processed' = len
  /\ ret' = "DECOMP_OK"
  /\ UNCHANGED <<params, rest, input, block, over, total_out, crc, crc_flag, header, user,
                 start_out, avail_out, base, pc>>

(* igzip_cli at the end of a member: if another begins, isal_inflate_reset *)
(* and let isal_inflate read its header.                                   *)
NextMember(n) ==
  /\ pc = "idle" /\ ret \notin Refused /\ block_state = "FINISH"
  /\ Supply(IF next_in = <<>> THEN n ELSE 0)
  /\ next_in' # <<>> /\ next_in'[1].kind = "id"
  /\ read_in' = <<>> /\ tmp_in' = <<>> /\ total_out' = 0 /\ crc' = 0
  /\ block_state' = "NEW_HDR" /\ bfinal' = 0 /\ count' = 0
  /\ write_overflow' = <<>> /\ copy_overflow' = NoCopy
  /\ tmp_out' = <<>> /\ processed' = 0
  /\ wrapper_flag' = FALSE /\ crc_flag' = "gzip" /\ base' = Len(user)
  /\ UNCHANGED <<params, user, start_out, avail_out, gz_hdr, hdr_locals, ret, pc>>

-----------------------------------------------------------------------------
(* Calls of isal_read_gzip_header: the caller's, whose header structure    *)
(* lasts, and isal_inflate's, with a new one on its stack every time, of   *)
(* which isal_gzip_header_init leaves flags as it finds it.                *)

outside_header == <<params, rest, read_in, bfinal, over, output, crc_flag>>

StartHeader ==
  /\ \/ pc = "header"  /\ EnterHeader(gz_hdr)
     \/ pc = "wrapper" /\ \E f \in Garbage : EnterHeader(GzHdr(f, NULL))
  /\ UNCHANGED <<outside_header, ret, pc>>

WithinHeader == /\ HeaderStep
                /\ UNCHANGED <<outside_header, ret, pc>>

EndHeader ==
  /\ LeaveHeader
  /\ \/ pc = "header" /\ pc' = "idle" /\ ret' = hdr_ret
     \/ pc = "wrapper" /\ hdr_ret = "DECOMP_OK" /\ pc' = "begin" /\ UNCHANGED ret
     \/ pc = "wrapper" /\ hdr_ret # "DECOMP_OK" /\ pc' = "idle" /\ ret' = Returned(hdr_ret)
  /\ UNCHANGED outside_header

(* isal_read_zlib_header, with a new zlib_hdr in every call of             *)
(* isal_inflate: when a call begins with the dictionary's identification,  *)
(* dict_flag is 0, and isal_inflate does not return ISAL_NEED_DICT.        *)
zlib_unchanged == <<outside_header, count, gz_hdr, hdr_locals>>
ZlibLeaves(result) == pc' = "idle" /\ ret' = result /\ UNCHANGED wrapper_flag

ReadZlibBase ==
  /\ pc = "zlib" /\ block_state = "NEW_HDR"
  /\ LET read == fixed_size_read(ZLIB_HDR_BASE)
     IN  /\ next_in' = read.next /\ tmp_in' = read.tmp
         /\ IF read.ret # "OK" THEN ZlibLeaves("DECOMP_OK")
            ELSE IF read.units[1].value # 0 THEN ZlibLeaves("UNSUPPORTED_METHOD")
            ELSE IF read.units[2].value \notin 0 .. 1 THEN ZlibLeaves("INCORRECT_CHECKSUM")
            ELSE IF read.units[2].value = 1 THEN pc' = "dict_id" /\ UNCHANGED <<ret, wrapper_flag>>
            ELSE pc' = "begin" /\ wrapper_flag' = TRUE /\ UNCHANGED ret
  /\ UNCHANGED <<zlib_unchanged, block_state>>

ReadZlibDict ==
  /\ \/ pc = "dict_id"
     \/ pc = "zlib" /\ block_state = "ZLIB_DICT"
  /\ LET read == fixed_size_read(ZLIB_DICT_LEN)
     IN  /\ next_in' = read.next /\ tmp_in' = read.tmp
         /\ IF read.ret # "OK" THEN block_state' = "ZLIB_DICT" /\ ZlibLeaves("DECOMP_OK")
            ELSE /\ block_state' = "NEW_HDR" /\ wrapper_flag' = TRUE
                 /\ IF pc = "dict_id" THEN pc' = "idle" /\ ret' = "NEED_DICT"
                    ELSE pc' = "begin" /\ UNCHANGED ret
  /\ UNCHANGED zlib_unchanged

-----------------------------------------------------------------------------
(* isal_inflate.                                                           *)

(* A call that only waits for the rest of the trailer.                     *)
ReadTrailer ==
  /\ pc = "trailer"
  /\ LET check == check_checksum([read |-> read_in, next |-> next_in], crc, total_out)
     IN  /\ next_in' = check.in.next /\ read_in' = check.in.read /\ tmp_in' = check.tmp_in
         /\ block_state' = check.block /\ ret' = Returned(check.ret)
  /\ pc' = "idle"
  /\ UNCHANGED <<params, rest, bfinal, count, over, output, crc_flag, header>>

Begin ==
  /\ pc = "begin"
  /\ total_out' = total_out + Len(tmp_out) - processed
  /\ pc' = IF Len(tmp_out) < 2 * Hist /\ block_state # "INPUT_DONE" THEN "tmp" ELSE "drain"
  /\ UNCHANGED <<params, rest, input, block, over, tmp_out, processed, crc, crc_flag,
                 header, user, start_out, avail_out, base, ret>>

(* A loop over headers and blocks ends when one of them reports something, *)
(* or with the last block.                                                 *)
Loop_once(here, after) == pc' = after
Loop(here, after) ==
  pc' = IF ret' # "OK" \/ block_state' = "INPUT_DONE" THEN after ELSE here

ReadHeader(here, after) ==
  /\ pc = here /\ block_state \in {"NEW_HDR", "HDR"}
  /\ LET hdr == read_header_stateful([read |-> read_in, next |-> next_in])
     IN  /\ read_in' = hdr.in.read /\ next_in' = hdr.in.next /\ tmp_in' = hdr.tmp_in
         /\ block_state' = hdr.block /\ bfinal' = hdr.bfinal /\ count' = hdr.len0
         /\ ret' = hdr.ret
  /\ Loop(here, after)
  /\ UNCHANGED <<params, rest, over, tmp_out, processed, total_out, crc, crc_flag,
                 header, user, start_out, avail_out, base>>

(* What a decoder leaves behind; out goes to one of the two buffers.       *)
Decoded(history, space) ==
  LET in == [read |-> read_in, next |-> next_in]
  IN  IF block_state = "TYPE0" THEN decode_literal_block(in, space)
      ELSE decode_huffman_code(in, history, space)
Decode(dec, here, after) ==
  /\ pc = here /\ block_state \in {"TYPE0", "CODED"}
  /\ read_in' = dec.in.read /\ next_in' = dec.in.next
  /\ write_overflow' = dec.lits /\ copy_overflow' = dec.copy
  /\ block_state' = dec.block /\ count' = dec.len0
  /\ ret' = dec.ret /\ total_out' = total_out + Len(dec.out)
  /\ Loop(here, after)
  /\ UNCHANGED <<params, rest, tmp_in, bfinal, processed, crc, crc_flag, header,
                 start_out, base>>

DecodeTmp ==
  LET dec == Decoded(tmp_out, 2 * Hist - Len(tmp_out))
  IN  /\ Decode(dec, "tmp", "drain")
      /\ tmp_out' = tmp_out \o dec.out
      /\ UNCHANGED <<user, avail_out>>

DecodeOut ==
  LET dec == Decoded(Drop(user, start_out), avail_out)
  IN  /\ Decode(dec, "out", "end")
      /\ user' = user \o dec.out /\ avail_out' = avail_out - Len(dec.out)
      /\ UNCHANGED tmp_out

(* A buffer with what the overflow fields hold written behind it.          *)
Flushed_copyfirst(buffer) ==
  buffer \o Copied(buffer, copy_overflow.dist, copy_overflow.len) \o write_overflow
Flushed(buffer) ==
  LET lits == buffer \o write_overflow
  IN  lits \o Copied(lits, copy_overflow.dist, copy_overflow.len)
OverflowLen_nolits == copy_overflow.len
OverflowLen == Len(write_overflow) + copy_overflow.len

Sum(sum, part) == IF crc_flag = "deflate" THEN sum ELSE Extended(sum, part)

(* The overflow goes to tmp_out_buffer, and what fits to the caller.       *)
Drain ==
  /\ pc = "drain"
  /\ LET buffer == Flushed(tmp_out)
         copy   == Least(Len(buffer) - processed, avail_out)
         left   == Len(buffer) - processed - copy
     IN  /\ tmp_out' = buffer /\ processed' = processed + copy
         /\ user' = user \o SubSeq(buffer, processed + 1, processed + copy)
         /\ avail_out' = avail_out - copy
         /\ write_overflow' = <<>> /\ copy_overflow' = NoCopy
         /\ IF ret \in Errors
            THEN /\ pc' = "idle"
                 /\ total_out' = total_out + OverflowLen - left
                 /\ crc' = Sum(crc, Drop(user', start_out))
            ELSE /\ pc' = IF left = 0 /\ block_state # "INPUT_DONE" THEN "out" ELSE "end"
                 /\ total_out' = total_out + OverflowLen
                 /\ UNCHANGED crc
         /\ ret' = IF pc' = "out" THEN "OK" ELSE ret
  /\ UNCHANGED <<params, rest, input, block, crc_flag, header, start_out, base>>

(* tmp_out_buffer as the end of a call leaves it, before the overflow: the *)
(* last bytes of the caller's buffer, when decoding has gone on there, or  *)
(* what it holds, less the bytes before the last Hist of it that have been *)
(* handed over.                                                            *)
Produced == Drop(user, start_out)
FromUser_never == FALSE
FromUser == processed = Len(tmp_out) /\ Len(Produced) >= Hist
Shifts_never == FALSE
Shifts == processed >= Hist
Shift_uncapped == Len(tmp_out) - Hist
Shift == Least(Len(tmp_out) - Hist, processed)
Kept ==
  IF block_state = "INPUT_DONE" /\ OverflowLen + Len(tmp_out) <= TmpSize
  THEN [buffer |-> tmp_out, processed |-> processed]
  ELSE IF FromUser THEN [buffer |-> Drop(Produced, Len(Produced) - Hist), processed |-> Hist]
  ELSE IF Shifts THEN [buffer |-> Drop(tmp_out, Shift), processed |-> processed - Shift]
  ELSE [buffer |-> tmp_out, processed |-> processed]

End ==
  /\ pc = "end" /\ pc' = "idle"
  /\ LET buffer == Flushed(Kept.buffer)
         left   == Len(buffer) - Kept.processed
         sum    == Sum(crc, Produced)
         total  == total_out + OverflowLen
         done   == ret \notin Errors /\ block_state = "INPUT_DONE" /\ left = 0
         check  == check_checksum([read |-> read_in, next |-> next_in], sum, total)
     IN  /\ tmp_out' = buffer /\ processed' = Kept.processed
         /\ write_overflow' = <<>> /\ copy_overflow' = NoCopy
         /\ crc' = sum /\ total_out' = total - left
         /\ IF done /\ crc_flag # "deflate"
            THEN /\ next_in' = check.in.next /\ read_in' = check.in.read
                 /\ tmp_in' = check.tmp_in
                 /\ block_state' = check.block /\ ret' = Returned(check.ret)
            ELSE /\ block_state' = IF done THEN "FINISH" ELSE block_state
                 /\ ret' = Returned(ret)
                 /\ UNCHANGED input
  /\ UNCHANGED <<params, rest, bfinal, count, crc_flag, header, user,
                 start_out, avail_out, base>>

Next == \/ \E n \in InSizes : (\E o \in OutSizes : Call(n, o)) \/ CallHeader(n) \/ NextMember(n)
        \/ SetDict \/ StartHeader \/ WithinHeader \/ EndHeader \/ ReadZlibBase \/ ReadZlibDict
        \/ ReadTrailer \/ Begin \/ Drain \/ End
        \/ ReadHeader("tmp", "drain") \/ DecodeTmp
        \/ ReadHeader("out", "end") \/ DecodeOut

(* A call that has begun goes on (weak fairness of its steps, one of which *)
(* is enabled until it returns); a caller that is told to go on does not   *)
(* only make calls without room for output or without the input it has.    *)
UsefulCall == \E n \in InSizes, o \in OutSizes :
                o > 0 /\ n > 0 /\ Call(n, o)
Fairness ==
  /\ []<>(pc = "idle") \/ []<><<pc # "idle">>_vars
  /\ WF_vars(SetDict)
  /\ SF_vars(UsefulCall)
  /\ SF_vars(\E n \in InSizes : n > 0 /\ CallHeader(n))
  /\ SF_vars(\E n \in InSizes : NextMember(n))

Spec == Init /\ [][Next]_vars /\ Fairness

-----------------------------------------------------------------------------
(* Properties.                                                             *)

(* TypeOK: the fields hold what their C types and isal_block_state allow.  *)
TypeOK ==
  /\ pack \in Packs /\ trunc \in BOOLEAN
  /\ block_state \in {"HDR", "TYPE0", "CODED", "INPUT_DONE", "CHECKSUM_CHECK", "FINISH"}
                     \cup DOMAIN Resumes \cup {"ZLIB_DICT"}
  /\ bfinal \in 0 .. 1 /\ count \in Nat
  /\ processed \in 0 .. Len(tmp_out)
  /\ copy_overflow.len \in 0 .. MaxMatch /\ copy_overflow.dist \in 0 .. Hist
  /\ crc_flag \in {"deflate", "gzip_no_hdr_ver", "gzip", "zlib"} /\ wrapper_flag \in BOOLEAN
  /\ total_out \in Nat /\ crc \in Nat /\ start_out \in 0 .. Len(user)
  /\ base \in 0 .. Len(user) /\ avail_out \in Nat
  /\ ret \in {"OK", "DECOMP_OK", "END_INPUT", "OUT_OVERFLOW", "NAME_OVERFLOW",
               "EXTRA_OVERFLOW", "NEED_DICT"} \cup Refused
  /\ pc \in {"idle", "header", "wrapper", "zlib", "dict_id", "trailer", "begin", "tmp", "drain", "out", "end"}

(* BuffersHold: read_in, tmp_in_buffer and tmp_out_buffer take everything  *)
(* that is put into them: all of a header that did not end, and behind     *)
(* tmp_out_valid the four bytes that store_u32 writes and a whole match.   *)
BuffersHold ==
  /\ Len(read_in) <= RegSize /\ Len(tmp_in) <= HdrSize
  /\ LET buffer == IF pc = "end" THEN Kept.buffer ELSE tmp_out
     IN  /\ Len(buffer) <= TmpSize
         /\ pc \in {"drain", "end"} =>
              /\ Len(buffer) + OverflowLen <= TmpSize
              /\ write_overflow # <<>> => Len(buffer) + StoreU32 <= TmpSize

(* HistoryKept: between calls, tmp_out_buffer ends with what was decoded   *)
(* last, as far back as a match may reach, whichever buffer it was decoded *)
(* into and however the call ended.                                        *)
Text == Drop(user, base) \o Drop(tmp_out, processed)
HistoryKept ==
  pc = "idle" /\ ret \notin Refused /\ block_state \in {"NEW_HDR", "HDR", "TYPE0", "CODED"} =>
    LET n == Least(Hist, Len(Text))
    IN  IsSuffix(Drop(Text, Len(Text) - n), tmp_out)

(* ExtraRead: a caller that reads the header itself, in any number of      *)
(* calls and into a buffer it has to enlarge, gets the extra field of the  *)
(* file.                                                                   *)
HeaderRead == pc = "idle" /\ crc_flag = "gzip_no_hdr_ver" /\ wrapper_flag
ExtraRead ==
  HeaderRead => /\ gz_hdr.extra_len = Len(file.extra)
                /\ Take(gz_hdr.extra.data, gz_hdr.extra_len) = file.extra

(* NameRead: and the file name, up to and with its 0.                      *)
NameRead ==
  HeaderRead /\ file.name # <<>> =>
    Take(gz_hdr.name.data, Len(file.name) + 1) = file.name \o <<0>>

(* ValidAccepted: a valid file is never refused, wherever its headers are  *)
(* divided between calls: isal_inflate parses them as the interface says.  *)
ValidAccepted == file.ok => ret \notin Refused

(* ReturnsWhenDone: a call that reports no error and asks for no           *)
(* dictionary returns only when the input is used up, the output buffer is *)
(* full or the member has ended, as include/igzip_lib.h says.              *)
ReturnsWhenDone ==
  [][ pc \notin {"idle", "header"} /\ pc' = "idle" =>
        \/ next_in' = <<>> \/ avail_out' = 0 \/ block_state' = "FINISH"
        \/ ret' \in Refused \cup {"NEED_DICT"} ]_vars

(* CountsWhatIsWritten: between calls, total_out and the checksum are of   *)
(* the bytes the caller was given, not of those still in tmp_out_buffer.   *)
CountsWhatIsWritten ==
  pc = "idle" =>
    /\ total_out = Len(user) - base
    /\ crc = Sum(0, Drop(user, base))

(* TrailerTakenExactly: at the end of a member exactly its units have been *)
(* used, although read_in is filled ahead; after a gzip trailer nothing is *)
(* left in read_in, so that igzip_cli finds the next member in next_in.    *)
TrailerTakenExactly ==
  pc = "idle" /\ block_state = "FINISH" /\ crc_flag # "deflate" =>
    /\ Len(file.units) - Len(rest) - Len(next_in) - Len(read_in) \in file.ends
    /\ crc_flag # "zlib" => read_in = <<>>

Status == IF ret \in Refused /\ pc = "idle" THEN "refused"
          ELSE IF pc = "idle" /\ block_state = "FINISH" /\ next_in \o rest = <<>> THEN "end"
          ELSE "more"
Promise == INSTANCE Decompressor WITH text <- file.text, valid <- file.ok, out <- user,
                                      status <- Status
(* ImplementsDecompressor: isal_inflate keeps the promise of the library's *)
(* interface for all sizes of the buffers it is called with.               *)
ImplementsDecompressor == Promise!Spec

(* Finishes: a caller that goes on gets all of a valid file, and learns of *)
(* an invalid one.                                                         *)
Finishes == <>(Status = IF file.ok THEN "end" ELSE "refused")
=============================================================================
