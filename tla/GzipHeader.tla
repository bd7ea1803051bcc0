----------------------------- MODULE GzipHeader -----------------------------
(***************************************************************************)
(* isal_read_gzip_header of igzip/igzip_inflate.c: it reads as much of a   *)
(* gzip header as the input holds and, called again, goes on where it      *)
(* stopped; the position is state->block_state, the rest of what it needs  *)
(* is in the state and in the caller's struct isal_gzip_header.            *)
(*                                                                         *)
(* One step is one field.  Inflate composes these steps with isal_inflate  *)
(* and with the callers of both.                                           *)
(***************************************************************************)
EXTENDS Deflated

VARIABLES
  next_in, tmp_in, block_state, count, wrapper_flag,  \* struct inflate_state
  gz_hdr,    \* the caller's isal_gzip_header: flags, extra_len, hcrc, buffers
  flags, hcrc, start_in,  \* locals of isal_read_gzip_header
  field,     \* the field it has come to; "none" outside a call
  hdr_ret    \* what it returns

hdr_locals == <<flags, hcrc, start_in, field, hdr_ret>>

(* Sizes of the fixed fields, units.                                       *)
GZIP_HDR_BASE  == 3
GZIP_EXTRA_LEN == 2
GZIP_HCRC_LEN  == 2

Take(s, n) == SubSeq(s, 1, n)
Drop(s, n) == SubSeq(s, n + 1, Len(s))
Least(a, b) == IF a < b THEN a ELSE b

(* A buffer of the caller, or NULL.                                        *)
NULL == [null |-> TRUE, data |-> <<>>]
Buffer(size) == [null |-> FALSE, data |-> [i \in 1 .. size |-> Stray]]
WrittenAt_start(buf, offset, values) ==
  IF buf.null THEN buf
  ELSE [buf EXCEPT !.data = [i \in DOMAIN @ |-> IF i \in DOMAIN values THEN values[i] ELSE @[i]]]
WrittenAt(buf, offset, values) ==
  IF buf.null THEN buf
  ELSE [buf EXCEPT !.data = [i \in DOMAIN @ |-> IF i - offset \in DOMAIN values
                                                THEN values[i - offset] ELSE @[i]]]

-----------------------------------------------------------------------------
(* fixed_size_read: what there is of a field waits in tmp_in_buffer.       *)
fixed_size_read(n) ==
  LET units == tmp_in \o next_in
  IN  IF Len(units) < n
      THEN [ret |-> "END_INPUT", units |-> <<>>, next |-> <<>>, tmp |-> units]
      ELSE [ret |-> "OK", units |-> Take(units, n), next |-> Drop(units, n), tmp |-> <<>>]

buffer_header_copy(in_len, buf, offset, error) ==
  LET len  == Least(in_len, Len(next_in))
      room == Len(buf.data) - offset
      full == ~buf.null /\ room < len
      n    == IF full THEN room ELSE len
  IN  [ret   |-> IF full THEN error ELSE IF len = in_len THEN "OK" ELSE "END_INPUT",
       next  |-> Drop(next_in, n), count |-> in_len - n,
       buf   |-> WrittenAt(buf, offset, Values(Take(next_in, n)))]

(* string_header_copy.  The 0 goes where this piece of the string would    *)
(* end if it had begun at the start of the buffer: str_buf[len] = 0.       *)
string_header_copy(buf, offset, error) ==
  LET room == Len(buf.data) - offset
      most == IF buf.null \/ room > Len(next_in) THEN Len(next_in) ELSE room
      len  == CHOOSE n \in 0 .. most : /\ \A i \in 1 .. n : next_in[i].value # 0
                                       /\ n < most => next_in[n + 1].value = 0
      left == Drop(next_in, len)
      copy == WrittenAt(buf, offset, Values(Take(next_in, len)))
  IN  IF ~buf.null /\ len = room
      THEN [ret |-> error, next |-> left, count |-> count + len, buf |-> copy]
      ELSE IF left = <<>>
      THEN [ret |-> "END_INPUT", next |-> left, count |-> count + len, buf |-> copy]
      ELSE [ret |-> "OK", next |-> Tail(left), count |-> 0,
            buf |-> WrittenAt(copy, len, <<0>>)]

(* Units taken from the input by this call, once it has come to next.      *)
Taken(next) == Values(Take(start_in, Len(start_in) - Len(next)))

(* The field that follows, by the flags the call knows.                    *)
AfterComment(f) == IF Has(f, HCRC_FLAG) THEN "sum" ELSE "done"
AfterName(f)    == IF Has(f, COMMENT_FLAG) THEN "comment" ELSE AfterComment(f)
AfterExtra(f)   == IF Has(f, NAME_FLAG) THEN "name" ELSE AfterName(f)
AfterBase(f)    == IF Has(f, EXTRA_FLAG) THEN "extra_len" ELSE AfterExtra(f)

Resumes == [NEW_HDR |-> "base", GZIP_EXTRA_LEN |-> "extra_len", GZIP_EXTRA |-> "extra",
            GZIP_NAME |-> "name", GZIP_COMMENT |-> "comment", GZIP_HCRC |-> "hcrc"]

-----------------------------------------------------------------------------
(* A call of isal_read_gzip_header with this header structure; nothing is  *)
(* known of its flags unless an earlier call has set them.                 *)
EnterHeader(hdr) ==
  /\ field = "none" /\ field' = Resumes[block_state]
  /\ gz_hdr' = hdr /\ start_in' = next_in
  /\ flags' = IF block_state = "NEW_HDR" THEN -1 ELSE hdr.flags
  /\ hcrc'  = IF block_state = "NEW_HDR" /\ tmp_in = <<>> THEN 0 ELSE hdr.hcrc
  /\ count' = IF block_state = "NEW_HDR" THEN 0 ELSE count
  /\ UNCHANGED <<next_in, tmp_in, block_state, wrapper_flag, hdr_ret>>

(* The input ends, or a buffer, within this field: the call breaks off.    *)
BreakOff(ret, state, hdr) ==
  /\ hdr_ret' = ret /\ block_state' = state /\ field' = "returned"
  /\ gz_hdr' = IF Has(flags, HCRC_FLAG)
               THEN [hdr EXCEPT !.hcrc = Extended(hcrc, Taken(next_in'))] ELSE hdr
  /\ UNCHANGED <<flags, hcrc, start_in, wrapper_flag>>

GoOn(next, hdr) ==
  /\ field' = next /\ gz_hdr' = hdr
  /\ UNCHANGED <<block_state, start_in, wrapper_flag, hdr_ret>>

Return(ret) == /\ field' = "returned" /\ hdr_ret' = ret
               /\ UNCHANGED <<block_state, wrapper_flag, gz_hdr, flags, hcrc, start_in>>

ReadBase ==
  /\ field = "base"
  /\ LET read == fixed_size_read(GZIP_HDR_BASE)
     IN  /\ next_in' = read.next /\ tmp_in' = read.tmp
         /\ IF read.ret # "OK" THEN BreakOff(read.ret, block_state, gz_hdr)
            ELSE IF read.units[1].kind # "id" THEN Return("INVALID_WRAPPER")
            ELSE IF read.units[2].value # 0 THEN Return("UNSUPPORTED_METHOD")
            ELSE LET f == read.units[3].value
                 IN  /\ flags' = f /\ UNCHANGED hcrc
                     /\ GoOn(AfterBase(f),
                             [gz_hdr EXCEPT !.flags = f,
                                !.extra_len = IF Has(f, EXTRA_FLAG) THEN @ ELSE 0])
  /\ UNCHANGED count

ReadExtraLen ==
  /\ field = "extra_len"
  /\ LET read == fixed_size_read(GZIP_EXTRA_LEN)
     IN  /\ next_in' = read.next /\ tmp_in' = read.tmp
         /\ IF read.ret # "OK"
            THEN BreakOff(read.ret, "GZIP_EXTRA_LEN", gz_hdr) /\ UNCHANGED count
            ELSE /\ count' = read.units[1].value
                 /\ GoOn("extra", [gz_hdr EXCEPT !.extra_len = read.units[1].value])
                 /\ UNCHANGED <<flags, hcrc>>

(* A field that is copied to a buffer of the caller.                       *)
Copy(copy, state, next, hdr) ==
  /\ next_in' = copy.next /\ count' = copy.count
  /\ IF copy.ret # "OK" THEN BreakOff(copy.ret, state, hdr)
     ELSE GoOn(next, hdr) /\ UNCHANGED <<flags, hcrc>>
  /\ UNCHANGED tmp_in

CopyExtra ==
  /\ field = "extra"
  /\ LET copy == buffer_header_copy(count, gz_hdr.extra, gz_hdr.extra_len - count,
                                    "EXTRA_OVERFLOW")
     IN  Copy(copy, "GZIP_EXTRA", AfterExtra(flags), [gz_hdr EXCEPT !.extra = copy.buf])

CopyName ==
  /\ field = "name"
  /\ LET copy == string_header_copy(gz_hdr.name, count, "NAME_OVERFLOW")
     IN  Copy(copy, "GZIP_NAME", AfterName(flags), [gz_hdr EXCEPT !.name = copy.buf])

CopyComment ==
  /\ field = "comment"
  /\ LET copy == string_header_copy(gz_hdr.comment, count, "COMMENT_OVERFLOW")
     IN  Copy(copy, "GZIP_COMMENT", AfterComment(flags), [gz_hdr EXCEPT !.comment = copy.buf])

SumHeader ==
  /\ field = "sum"
  /\ hcrc' = Extended(hcrc, Taken(next_in))
  /\ GoOn("hcrc", [gz_hdr EXCEPT !.hcrc = hcrc'])
  /\ UNCHANGED <<next_in, tmp_in, count, flags>>

ReadHcrc ==
  /\ field = "hcrc"
  /\ LET read == fixed_size_read(GZIP_HCRC_LEN)
     IN  /\ next_in' = read.next /\ tmp_in' = read.tmp
         /\ IF read.ret # "OK"
            THEN /\ field' = "returned" /\ hdr_ret' = read.ret /\ block_state' = "GZIP_HCRC"
                 /\ UNCHANGED <<wrapper_flag, gz_hdr, flags, hcrc, start_in>>
            ELSE IF hcrc # read.units[1].value THEN Return("INCORRECT_CHECKSUM")
            ELSE GoOn("done", gz_hdr) /\ UNCHANGED <<flags, hcrc>>
  /\ UNCHANGED count

HeaderDone ==
  /\ field = "done" /\ field' = "returned" /\ hdr_ret' = "DECOMP_OK"
  /\ wrapper_flag' = TRUE /\ block_state' = "NEW_HDR"
  /\ UNCHANGED <<next_in, tmp_in, count, gz_hdr, flags, hcrc, start_in>>

(* The call is over, and its locals with it.                               *)
LeaveHeader == /\ field = "returned" /\ field' = "none"
               /\ flags' = 0 /\ hcrc' = 0 /\ start_in' = <<>>
               /\ UNCHANGED <<next_in, tmp_in, block_state, count, wrapper_flag, gz_hdr, hdr_ret>>

HeaderStep == ReadBase \/ ReadExtraLen \/ CopyExtra \/ CopyName \/ CopyComment \/ SumHeader
              \/ ReadHcrc \/ HeaderDone
=============================================================================
