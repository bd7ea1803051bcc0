------------------------------ MODULE Deflated ------------------------------
(***************************************************************************)
(* Compressed files as isal_inflate reads them, one unit for each piece    *)
(* the decoder takes at a time: a header, a symbol, an extra field, a      *)
(* stored byte, a part of the trailer.  A unit stands for one byte.  Plain *)
(* says what a file decompresses to, one unit after the other; nothing in  *)
(* it depends on buffers.                                                  *)
(***************************************************************************)
EXTENDS Integers, Sequences, SequencesExt

Unit(kind, value) == [kind |-> kind, value |-> value]

(* The pieces of a file.  Every block header carries BFINAL.               *)
Static(final)    == <<Unit("static", final)>>
Dynamic(final)   == <<Unit("dynamic", final), Unit("lengths", 0), Unit("lengths", 0)>>
StoredHdr(final, n) == <<Unit("stored", final), Unit("len_nlen", n)>>
Bytes(s)         == [i \in DOMAIN s |-> Unit("byte", s[i])]
Lit(c)           == <<Unit("lit", c)>>
Match(len, dist) == <<Unit("len", len), Unit("dist", dist)>>
EndOfBlock       == <<Unit("eob", 0)>>

Stored(final, s) == StoredHdr(final, Len(s)) \o Bytes(s)
Coded(hdr, body) == hdr \o FlattenSeq(body) \o EndOfBlock

(* Units of a block header, by its first unit.                             *)
HeaderUnits == [static |-> 1, dynamic |-> 3, stored |-> 2]

(* Bytes that a match of any length at this distance copies; Stray where   *)
(* it reaches back before the history.                                     *)
Stray == 9
Copied(history, dist, len) ==
  [i \in 1 .. len |->
     LET from == Len(history) - dist + 1 + ((i - 1) % dist)
     IN  IF from \in DOMAIN history THEN history[from] ELSE Stray]

PlainUnit(acc, u) ==
  IF ~acc.ok THEN acc ELSE
  CASE u.kind \in {"lit", "byte"} -> [acc EXCEPT !.out = Append(@, u.value)]
    [] u.kind = "len"  -> [acc EXCEPT !.len = u.value]
    [] u.kind = "dist" -> IF u.value > Len(acc.out) THEN [acc EXCEPT !.ok = FALSE]
                          ELSE [acc EXCEPT !.out = @ \o Copied(@, u.value, acc.len)]
    [] OTHER -> acc

(* What the units decompress to after a dictionary, and whether every      *)
(* match stays within the text and the dictionary.                         *)
Plain(dictionary, units) ==
  LET end == FoldLeft(PlainUnit, [out |-> dictionary, len |-> 0, ok |-> TRUE], units)
  IN  [text |-> SubSeq(end.out, Len(dictionary) + 1, Len(end.out)), ok |-> end.ok]

(* The checksum of a text, extended one part after the other.              *)
Extended(sum, part) ==
  LET of[i \in 0 .. Len(part)] ==
        IF i = 0 THEN sum ELSE (37 * of[i - 1] + part[i] + 1) % 65521
  IN  of[Len(part)]
Trailer(text)  == <<Unit("crc", Extended(0, text)), Unit("size", Len(text)), Unit("size", 0)>>

(* A zlib file: method and flags (the bit for a dictionary; any other      *)
(* value: the two do not check), the identification of a dictionary if it  *)
(* needs one, and the checksum of the text.                                *)
ZlibHdr(dict) ==
  <<Unit("method", 0), Unit("flags", IF dict = <<>> THEN 0 ELSE 1)>>
  \o (IF dict = <<>> THEN <<>> ELSE <<Unit("dict_id", 0), Unit("dict_id", 0)>>)
ZlibTrailer(text) == <<Unit("adler", Extended(0, text)), Unit("adler", 0)>>

(* A gzip header: method, optional fields by the bits of the flags byte,   *)
(* and a checksum of all of it.  A name is a text without 0, then a 0.     *)
HCRC_FLAG    == 2
EXTRA_FLAG   == 4
NAME_FLAG    == 8
COMMENT_FLAG == 16
Has(flags, bit) == (flags \div bit) % 2 = 1
Values(units) == [i \in DOMAIN units |-> units[i].value]

GzipFields(flags, extra, name) ==
  (IF Has(flags, EXTRA_FLAG)
   THEN <<Unit("xlen", Len(extra)), Unit("xlen", 0)>> \o Bytes(extra) ELSE <<>>)
  \o (IF Has(flags, NAME_FLAG) THEN Bytes(name \o <<0>>) ELSE <<>>)
  \o (IF Has(flags, COMMENT_FLAG) THEN Bytes(<<5, 0>>) ELSE <<>>)
GzipHdr(method, flags, extra, name) ==
  LET h == <<Unit("id", 0), Unit("method", method), Unit("flags", flags)>>
           \o GzipFields(flags, extra, name)
  IN  h \o (IF Has(flags, HCRC_FLAG)
             THEN <<Unit("hcrc", Extended(0, Values(h))), Unit("hcrc", 0)>> ELSE <<>>)
=============================================================================
