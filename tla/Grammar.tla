------------------------------ MODULE Grammar ------------------------------
(***************************************************************************)
(* A compressed file read from its first unit to its last: where each unit *)
(* belongs, what the units before it say, and whether they are valid.  The *)
(* formats are those of RFC 1950, 1951 and 1952, reduced to the units of   *)
(* Deflated.  Nothing here knows of buffers, calls or lookups: this is     *)
(* what isal_inflate is compared with.                                     *)
(***************************************************************************)
EXTENDS Deflated

Gzip(format) == format \in {"gzip", "gzip_no_hdr_ver"}

(* A place: the part of the format the next unit is, the flags of the gzip *)
(* header, units left of a field or stored block, BFINAL of the block.     *)
Place(at, flags, left, final) == [at |-> at, flags |-> flags, left |-> left, final |-> final]
Start(format) ==
  Place(CASE format = "deflate" -> "block" [] format = "zlib" -> "cmf" [] OTHER -> "id", 0, 0, 0)

To(p, at) == Place(at, p.flags, p.left, p.final)
Bad(p)    == To(p, "bad")

(* The field of a gzip header that follows another.                        *)
BehindComment(flags) == IF Has(flags, HCRC_FLAG) THEN "hcrc" ELSE "block"
BehindName(flags)  == IF Has(flags, COMMENT_FLAG) THEN "comment" ELSE BehindComment(flags)
BehindExtra(flags) == IF Has(flags, NAME_FLAG) THEN "name" ELSE BehindName(flags)
BehindBase(flags)  == IF Has(flags, EXTRA_FLAG) THEN "xlen" ELSE BehindExtra(flags)

ExtraLeft(p, n) ==
  Place(IF n = 0 THEN BehindExtra(p.flags) ELSE "extra", p.flags, n, p.final)

GzipHdrAfter(p, u) ==
  CASE p.at \in {"id", "end"} -> IF u.kind = "id" THEN To(p, "method") ELSE Bad(p)
    [] p.at = "method"  -> IF u.value = 0 THEN To(p, "flags") ELSE Bad(p)
    [] p.at = "flags"   -> Place(BehindBase(u.value), u.value, p.left, p.final)
    [] p.at = "xlen"    -> Place("xlen2", p.flags, u.value, p.final)
    [] p.at = "xlen2"   -> ExtraLeft(p, p.left)
    [] p.at = "extra"   -> ExtraLeft(p, p.left - 1)
    [] p.at = "name"    -> IF u.value = 0 THEN To(p, BehindName(p.flags)) ELSE p
    [] p.at = "comment" -> IF u.value = 0 THEN To(p, BehindComment(p.flags)) ELSE p
    [] p.at = "hcrc"    -> To(p, "hcrc2")
    [] p.at = "hcrc2"   -> To(p, "block")

ZlibHdrAfter(p, u) ==
  CASE p.at = "cmf"   -> IF u.value = 0 THEN To(p, "flg") ELSE Bad(p)
    [] p.at = "flg"   -> IF u.value = 0 THEN To(p, "block")
                         ELSE IF u.value = 1 THEN To(p, "dict") ELSE Bad(p)
    [] p.at = "dict"  -> To(p, "dict2")
    [] p.at = "dict2" -> To(p, "block")

(* Behind a block comes the next one, or the trailer.                      *)
TrailerAt(format) == IF format = "deflate" THEN "end" ELSE "sum"
BlockEnds(format, p) == To(p, IF p.final = 1 THEN TrailerAt(format) ELSE "block")
StoredLeft(format, p, n) ==
  IF n = 0 THEN BlockEnds(format, p) ELSE Place("stored", p.flags, n, p.final)
BlockBegins(p, u, at) == Place(at, p.flags, p.left, u.value % 2)

BlockAfter(format, p, u) ==
  CASE p.at = "block" /\ u.kind = "static"  -> BlockBegins(p, u, "coded")
    [] p.at = "block" /\ u.kind = "dynamic" -> BlockBegins(p, u, "lengths")
    [] p.at = "block" /\ u.kind = "stored"  -> BlockBegins(p, u, "nlen")
    [] p.at = "block" /\ u.kind \notin DOMAIN HeaderUnits -> Bad(p)
    [] p.at = "lengths"  -> To(p, "lengths2")
    [] p.at = "lengths2" -> To(p, "coded")
    [] p.at = "nlen"     -> StoredLeft(format, p, u.value)
    [] p.at = "stored"   -> StoredLeft(format, p, p.left - 1)
    [] p.at = "coded" /\ u.kind = "lit" -> p
    [] p.at = "coded" /\ u.kind = "len" -> To(p, "dist")
    [] p.at = "coded" /\ u.kind = "eob" -> BlockEnds(format, p)
    [] p.at = "coded" /\ u.kind \notin {"lit", "len", "eob"} -> Bad(p)
    [] p.at = "dist"  -> IF u.kind = "dist" THEN To(p, "coded") ELSE Bad(p)

TrailerAfter(format, p, u) ==
  CASE p.at = "sum"   -> To(p, "size")
    [] p.at = "size"  -> To(p, IF Gzip(format) THEN "size2" ELSE "end")
    [] p.at = "size2" -> To(p, "end")

PlaceAfter(format, p, u) ==
  IF p.at \in {"block", "lengths", "lengths2", "nlen", "stored", "coded", "dist"}
  THEN BlockAfter(format, p, u)
  ELSE IF p.at \in {"sum", "size", "size2"} THEN TrailerAfter(format, p, u)
  ELSE IF p.at \in {"cmf", "flg", "dict", "dict2"} THEN ZlibHdrAfter(p, u)
  ELSE IF p.at = "bad" \/ (p.at = "end" /\ ~ Gzip(format)) THEN p
  ELSE GzipHdrAfter(p, u)

(* What has been said: all of the text behind the dictionary, where in it  *)
(* the member begins, the length of the match that is being read, and      *)
(* whether all is valid so far.  What follows something invalid says       *)
(* nothing.                                                                *)
Says(out, from, len, ok) == [out |-> out, from |-> from, len |-> len, ok |-> ok]
Nothing(f) == Says(f.dict, 0, 0, TRUE)
Behind(s, n) == SubSeq(s, n + 1, Len(s))
Window(t)    == Behind(t.out, t.from)
MemberText(f, t) == Behind(t.out, Len(f.dict) + t.from)

Checks(f, n, p, t, u) ==
  CASE p.at = "hcrc" -> u.value = Extended(0, Values(SubSeq(f.units, 1, n)))
    [] p.at = "sum"  -> u.value = Extended(0, MemberText(f, t))
    [] p.at = "size" -> Gzip(f.flag) => u.value = Len(MemberText(f, t))
    [] p.at = "dist" -> u.kind = "dist" /\ u.value <= Len(Window(t))
    [] OTHER -> PlaceAfter(f.flag, p, u).at # "bad"

SaidAfter(f, n, p, t, u) ==
  IF ~ t.ok THEN t
  ELSE IF ~ Checks(f, n, p, t, u) THEN Says(t.out, t.from, t.len, FALSE)
  ELSE CASE p.at = "stored" \/ (p.at = "coded" /\ u.kind = "lit") ->
              Says(t.out \o <<u.value>>, t.from, t.len, TRUE)
         [] p.at = "coded" /\ u.kind = "len" -> Says(t.out, t.from, u.value, TRUE)
         [] p.at = "dist" ->
              Says(t.out \o Copied(Window(t), u.value, t.len), t.from, t.len, TRUE)
         [] p.at = "end" /\ Gzip(f.flag) -> Says(t.out, Len(t.out), t.len, TRUE)
         [] OTHER -> t

(* The file f after its first n units, for every n.                        *)
ParseAfter(f, n, s) == [place |-> PlaceAfter(f.flag, s.place, f.units[n]),
                        said  |-> SaidAfter(f, n - 1, s.place, s.said, f.units[n])]
Parse(f) ==
  LET after[n \in 0 .. Len(f.units)] ==
        IF n = 0 THEN [place |-> Start(f.flag), said |-> Nothing(f)]
        ELSE ParseAfter(f, n, after[n - 1])
  IN  after
=============================================================================
