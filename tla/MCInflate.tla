----------------------------- MODULE MCInflate -----------------------------
(***************************************************************************)
(* Files for Inflate with a window of two bytes.                           *)
(***************************************************************************)
EXTENDS Inflate

Deflate(dict, units) ==
  [units |-> units, dict |-> dict, flag |-> "deflate", text |-> Plain(dict, units).text,
   ok |-> Plain(dict, units).ok, ends |-> {Len(units)}, extra |-> <<>>, name |-> <<>>]

Member(hdr, units) == hdr \o units \o Trailer(Plain(<<>>, units).text)

Gz(hdr, extra, name, units) ==
  LET u == Member(GzipHdr(0, hdr, extra, name), units)
      p == Plain(<<>>, units)
  IN  [units |-> u, dict |-> <<>>, flag |-> "gzip_no_hdr_ver", text |-> p.text, ok |-> p.ok,
       ends |-> {Len(u)}, extra |-> extra, name |-> name]

Zlib(dict, units) ==
  LET p == Plain(dict, units)
      u == ZlibHdr(dict) \o units \o ZlibTrailer(p.text)
  IN  [units |-> u, dict |-> dict, flag |-> "zlib", text |-> p.text, ok |-> p.ok,
       ends |-> {Len(u)}, extra |-> <<>>, name |-> <<>>]

Two(first, method, second) ==
  LET m == Gz(0, <<>>, <<>>, first)
      u == m.units \o Member(GzipHdr(method, 0, <<>>, <<>>), second)
  IN  [m EXCEPT !.units = u, !.ok = method = 0, !.ends = @ \cup {Len(u)},
                !.text = IF method = 0 THEN @ \o Plain(<<>>, second).text ELSE @]

Invalid(f) == [f EXCEPT !.ok = FALSE]
Wrong(f) == Invalid([f EXCEPT !.units[Len(f.units) - 2].value = @ + 1])

Body1 == <<Lit(0), Lit(1), Match(3, 2), Lit(1), Match(3, 1), Lit(0), Lit(1), Match(2, 2)>>
Body2 == <<Lit(1), Match(3, 1), Match(3, 2), Lit(0), Lit(0), Lit(1)>>
Body3 == <<Lit(0), Lit(1), Lit(1)>>

MCFiles ==
  { Gz(0, <<>>, <<>>, Coded(Static(1), Body1)),
    Gz(HCRC_FLAG + EXTRA_FLAG, <<1, 0, 1>>, <<>>,
       Coded(Dynamic(0), Body3) \o Stored(0, <<1, 0, 0>>)
       \o Coded(Static(1), <<Match(3, 2), Lit(1)>>)),
    Deflate(<<>>, Coded(Static(0), Body2) \o Coded(Dynamic(1), <<Match(3, 1), Lit(0)>>)),
    Deflate(<<1, 0, 1>>, Coded(Static(1), <<Match(3, 2), Lit(0), Match(3, 1)>>)),
    Deflate(<<1>>, Stored(0, <<>>) \o Coded(Static(1), <<Match(2, 1), Match(3, 2)>>)),
    Deflate(<<>>, Coded(Static(1), <<Lit(0), Match(3, 2)>>)),
    Gz(NAME_FLAG + COMMENT_FLAG, <<>>, <<3, 4>>,
       Coded(Static(1), <<Lit(0), Match(3, 1), Lit(1), Lit(0), Match(3, 2), Lit(0), Lit(1)>>)),
    Zlib(<<>>, Coded(Static(0), <<Lit(0), Lit(1), Match(3, 2)>>) \o Stored(1, <<1, 0>>)),
    Zlib(<<>>, Coded(Static(1), <<Lit(1), Match(2, 2)>>)),
    Zlib(<<1, 0>>, Coded(Static(1), <<Match(3, 2), Lit(1), Match(2, 2)>>)),
    Invalid([Zlib(<<>>, <<>>) EXCEPT !.units[1].value = 1]),
    Invalid([Zlib(<<>>, <<>>) EXCEPT !.units[2].value = 2]),
    Two(Coded(Static(1), <<Lit(0), Lit(1)>>), 0, Stored(1, <<1, 0>>)),
    Two(Stored(1, <<1, 1, 0, 1, 0>>), 0, Coded(Static(1), <<Lit(0), Match(2, 1)>>)),
    Two(Coded(Static(1), <<Lit(1)>>), 1, Stored(1, <<>>)),
    Invalid(Gz(0, <<>>, <<>>, Coded(Static(0), <<Lit(1), Lit(0)>>) \o EndOfBlock)),
    Invalid(Deflate(<<>>, Coded(Static(1), <<Lit(1), <<Unit("len", 2), Unit("eob", 0)>> >>))),
    Wrong(Gz(0, <<>>, <<>>, Coded(Static(1), <<Lit(1), Match(2, 1)>>))) }

(* Files on which isal_inflate and isal_read_gzip_header fail: a name in   *)
(* the first header and in that of a later member, a zlib dictionary.      *)
MCNamedFiles ==
  { Zlib(<<1, 0>>, Coded(Static(1), <<Match(3, 2)>>)),
    Gz(NAME_FLAG, <<>>, <<3, 4, 5>>, Stored(1, <<1>>)),
    LET m == Gz(0, <<>>, <<>>, Stored(1, <<0>>))
        u == m.units \o Member(GzipHdr(0, NAME_FLAG, <<>>, <<3, 4>>), Stored(1, <<1>>))
    IN  [m EXCEPT !.units = u, !.ends = @ \cup {Len(u)}, !.text = <<0, 1>>] }
=============================================================================
