---------------------------- MODULE GrammarProofs ----------------------------
(***************************************************************************)
(* Inflate against Grammar, for windows, buffers and files of any size:    *)
(* what isal_inflate, isal_read_gzip_header and isal_read_zlib_header have *)
(* taken of a file always ends where Grammar places the part they are at.  *)
(* So a member that is done has had exactly its units taken.               *)
(*                                                                         *)
(* PlaceInv, below, is the inductive invariant.  Before it come the        *)
(* lemmas about Grammar, then what each read takes (the lemmas named       *)
(* ...Takes and ...Taken), and behind it one lemma per action.             *)
(***************************************************************************)
EXTENDS InflateProofs

-----------------------------------------------------------------------------
(* Grammar: what the units of a file say, one unit after the other.        *)

ParseStarts(f) == [place |-> Start(f.flag), said |-> Nothing(f)]
Parses(g, f, n) ==
  g = [i \in 0 .. n |-> IF i = 0 THEN ParseStarts(f) ELSE ParseAfter(f, i, g[i - 1])]

LEMMA ParsesMore ==
  ASSUME NEW f, NEW n \in Nat, NEW g, Parses(g, f, n)
  PROVE  \E h : Parses(h, f, n + 1)
<1> DEFINE last == ParseAfter(f, n + 1, g[n])
           h == [i \in 0 .. n + 1 |-> IF i = n + 1 THEN last ELSE g[i]]
<1>1. ASSUME NEW i \in 0 .. n + 1
      PROVE  h[i] = IF i = 0 THEN ParseStarts(f) ELSE ParseAfter(f, i, h[i - 1])
  <2>1. CASE i = n + 1
    <3>1. h[i] = last /\ i # 0
      BY <2>1
    <3>2. h[i - 1] = g[n]
      BY <2>1
    <3> QED
      BY <2>1, <3>1, <3>2
  <2>2. CASE i # n + 1
    <3>1. i \in 0 .. n /\ h[i] = g[i]
      BY <2>2
    <3>2. g[i] = IF i = 0 THEN ParseStarts(f) ELSE ParseAfter(f, i, g[i - 1])
      BY <3>1 DEF Parses
    <3>3. i # 0 => h[i - 1] = g[i - 1]
      BY <2>2
    <3> HIDE DEF h, last
    <3> QED
      BY <3>1, <3>2, <3>3
  <2> QED
    BY <2>1, <2>2
<1>2. h = [i \in 0 .. n + 1 |-> h[i]]
  OBVIOUS
<1> HIDE DEF h
<1>3. h = [i \in 0 .. n + 1 |-> IF i = 0 THEN ParseStarts(f) ELSE ParseAfter(f, i, h[i - 1])]
  BY <1>1, <1>2, Zenon
<1> QED
  BY <1>3, Zenon DEF Parses

LEMMA ParsesAll ==
  ASSUME NEW f, NEW n \in Nat
  PROVE  \E g : Parses(g, f, n)
<1> DEFINE S == {m \in Nat : \E g : Parses(g, f, m)}
<1>1. 0 \in S
  <2> DEFINE g == [i \in 0 .. 0 |-> ParseStarts(f)]
  <2>1. g = [i \in 0 .. 0 |-> IF i = 0 THEN ParseStarts(f) ELSE ParseAfter(f, i, g[i - 1])]
    OBVIOUS
  <2> HIDE DEF g
  <2>2. Parses(g, f, 0)
    BY <2>1, Zenon DEF Parses
  <2> QED
    BY <2>2
<1>2. \A m \in Nat : m \in S => m + 1 \in S
  BY ParsesMore
<1> HIDE DEF S
<1>3. Nat \subseteq S
  BY <1>1, <1>2, SetInduction
<1> QED
  BY <1>3 DEF S

LEMMA ParseIs ==
  ASSUME NEW f, Len(f.units) \in Nat
  PROVE  Parses(Parse(f), f, Len(f.units))
<1>1. Parse(f) = CHOOSE g : Parses(g, f, Len(f.units))
  BY Zenon DEF Parse, Parses, ParseStarts
<1>2. \E g : Parses(g, f, Len(f.units))
  BY ParsesAll
<1> QED
  BY <1>1, <1>2, Zenon

LEMMA ParseSteps ==
  ASSUME NEW f, Len(f.units) \in Nat
  PROVE  /\ Parse(f)[0] = ParseStarts(f)
         /\ \A n \in 1 .. Len(f.units) : Parse(f)[n] = ParseAfter(f, n, Parse(f)[n - 1])
<1>1. PICK m \in Nat : m = Len(f.units)
  OBVIOUS
<1>2. PICK g : g = Parse(f)
  OBVIOUS
<1>3. g = [i \in 0 .. m |-> IF i = 0 THEN ParseStarts(f) ELSE ParseAfter(f, i, g[i - 1])]
  BY <1>1, <1>2, ParseIs DEF Parses
<1>4. g[0] = ParseStarts(f)
  BY <1>3
<1>5. ASSUME NEW n \in 1 .. m PROVE g[n] = ParseAfter(f, n, g[n - 1])
  <2>1. n \in 0 .. m /\ n # 0
    OBVIOUS
  <2> QED
    BY <1>3, <2>1
<1> QED
  BY <1>1, <1>2, <1>4, <1>5

(* What is left of a file stands for how far it has been read.             *)
Rest(f, s)  == \E p \in 0 .. Len(f.units) : s = Drop(f.units, p)
Before(f, s) == Len(f.units) - Len(s)
PlaceOf(f, s) == Parse(f)[Before(f, s)].place
SaidOf(f, s)  == Parse(f)[Before(f, s)].said

LEMMA RestFacts ==
  ASSUME NEW f, f.units \in Seq(FileUnits), NEW s, Rest(f, s)
  PROVE  /\ s \in Seq(FileUnits) /\ Len(s) \in 0 .. Len(f.units) /\ Before(f, s) \in 0 .. Len(f.units)
         /\ s = Drop(f.units, Before(f, s)) /\ Before(f, s) + Len(s) = Len(f.units)
         /\ \A i \in 1 .. Len(s) : s[i] = f.units[Before(f, s) + i]
<1>1. PICK p \in 0 .. Len(f.units) : s = Drop(f.units, p)
  BY DEF Rest
<1>2. PICK n \in Nat : n = Len(f.units)
  OBVIOUS
<1>3. p \in Nat /\ p <= n
  BY <1>1, <1>2
<1>4. Follows(s, FileUnits, f.units, p, n)
  BY <1>1, <1>2, <1>3, DroppedEach
<1>5. s \in Seq(FileUnits) /\ Len(s) = n - p /\ \A i \in 1 .. n - p : s[i] = f.units[p + i]
  BY <1>4 DEF Follows
<1>6. Before(f, s) = p
  BY <1>2, <1>3, <1>5 DEF Before
<1> QED
  BY <1>1, <1>2, <1>3, <1>5, <1>6

LEMMA RestWhole ==
  ASSUME NEW f, f.units \in Seq(FileUnits)
  PROVE  /\ Rest(f, f.units) /\ PlaceOf(f, f.units) = Start(f.flag)
         /\ SaidOf(f, f.units) = Nothing(f)
<1>1. Drop(f.units, 0) = f.units
  BY DEF Drop
<1>2. Len(f.units) \in Nat /\ Before(f, f.units) = 0
  BY DEF Before
<1>3. Parse(f)[0] = ParseStarts(f)
  BY <1>2, ParseSteps
<1> QED
  BY <1>1, <1>2, <1>3 DEF Rest, PlaceOf, SaidOf, ParseStarts

LEMMA RestDrop ==
  ASSUME NEW f, f.units \in Seq(FileUnits), NEW s, Rest(f, s), NEW k \in Nat, k <= Len(s)
  PROVE  Rest(f, Drop(s, k)) /\ Before(f, Drop(s, k)) = Before(f, s) + k
<1>1. PICK p \in 0 .. Len(f.units) : s = Drop(f.units, p) /\ p = Before(f, s)
  BY RestFacts
<1>2. PICK n \in Nat : n = Len(f.units)
  OBVIOUS
<1>3. s \in Seq(FileUnits) /\ Len(s) = n - p /\ p \in Nat /\ p <= n
  <2>1. PICK m \in Nat : m = Len(s) /\ p + m = n /\ p \in Nat
    BY <1>1, <1>2, RestFacts
  <2> QED
    BY <2>1, RestFacts
<1>4. p + k <= n
  BY <1>2, <1>3
<1>5. Drop(s, k) = Drop(f.units, p + k)
  BY <1>1, <1>2, <1>3, <1>4, DropMore
<1>6. Rest(f, Drop(s, k))
  BY <1>2, <1>3, <1>4, <1>5 DEF Rest
<1>7. Len(Drop(s, k)) = Len(s) - k
  BY <1>3, Dropped
<1>8. Before(f, Drop(s, k)) = Before(f, s) + k
  <2>1. PICK m \in Nat : m = Len(s) /\ m = n - p
    BY <1>2, <1>3, SMTT(60)
  <2>2. Len(Drop(s, k)) = m - k /\ n - (m - k) = p + k
    BY <1>3, <1>7, <2>1
  <2> QED
    BY <1>1, <1>2, <2>2 DEF Before
<1> QED
  BY <1>6, <1>8

(* One unit further.                                                       *)
LEMMA OneUnit ==
  ASSUME NEW f, f.units \in Seq(FileUnits), NEW s, Rest(f, s), NEW k \in Nat, k < Len(s)
  PROVE  LET t == Drop(s, k)
             u == s[k + 1]
         IN  /\ PlaceOf(f, Drop(s, k + 1)) = PlaceAfter(f.flag, PlaceOf(f, t), u)
             /\ SaidOf(f, Drop(s, k + 1)) =
                  SaidAfter(f, Before(f, s) + k, PlaceOf(f, t), SaidOf(f, t), u)
<1>1. PICK b \in Nat : b = Before(f, s) /\ b + Len(s) = Len(f.units)
  BY RestFacts
<1>2. s \in Seq(FileUnits) /\ Len(s) \in Nat /\ Len(f.units) \in Nat
  BY RestFacts
<1>3. Before(f, Drop(s, k)) = b + k /\ Before(f, Drop(s, k + 1)) = b + (k + 1)
  BY <1>1, <1>2, RestDrop
<1>4. s[k + 1] = f.units[b + (k + 1)]
  <2>1. k + 1 \in 1 .. Len(s)
    BY <1>2
  <2> QED
    BY <1>1, <2>1, RestFacts
<1>5. PICK n \in Nat : n = b + (k + 1) /\ n \in 1 .. Len(f.units) /\ n - 1 = b + k
  BY <1>1, <1>2, SMTT(60)
<1>6. Parse(f)[n] = ParseAfter(f, n, Parse(f)[n - 1])
  BY <1>2, <1>5, ParseSteps
<1>7. /\ Parse(f)[n].place = PlaceAfter(f.flag, Parse(f)[n - 1].place, f.units[n])
      /\ Parse(f)[n].said = SaidAfter(f, n - 1, Parse(f)[n - 1].place, Parse(f)[n - 1].said, f.units[n])
  BY <1>6 DEF ParseAfter
<1> QED
  BY <1>1, <1>3, <1>4, <1>5, <1>7 DEF PlaceOf, SaidOf

(* What can be said, and by units that only take their places.             *)
IsSaid(t) == /\ t = Says(t.out, t.from, t.len, t.ok)
             /\ t.out \in Seq(Nat) /\ t.from \in 0 .. Len(t.out) /\ t.len \in Nat /\ t.ok \in BOOLEAN
Silent == {"id", "method", "flags", "xlen", "xlen2", "extra", "name", "comment", "hcrc2",
           "cmf", "flg", "dict", "dict2", "block", "lengths", "lengths2", "nlen", "size2"}

LEMMA SilentSays ==
  ASSUME NEW f, NEW n, NEW p, NEW t, NEW u, p.at \in Silent
  PROVE  /\ t.ok /\ PlaceAfter(f.flag, p, u).at # "bad" => SaidAfter(f, n, p, t, u) = t
         /\ t.ok /\ PlaceAfter(f.flag, p, u).at = "bad" => ~ SaidAfter(f, n, p, t, u).ok
         /\ ~ t.ok => SaidAfter(f, n, p, t, u) = t
<1> USE DEF Silent
<1>1. Checks(f, n, p, t, u) = (PlaceAfter(f.flag, p, u).at # "bad")
  BY DEF Checks
<1>2. ~ t.ok => SaidAfter(f, n, p, t, u) = t
  BY DEF SaidAfter
<1>3. t.ok /\ PlaceAfter(f.flag, p, u).at # "bad" => SaidAfter(f, n, p, t, u) = t
  BY <1>1 DEF SaidAfter
<1>4. t.ok /\ PlaceAfter(f.flag, p, u).at = "bad" => ~ SaidAfter(f, n, p, t, u).ok
  BY <1>1 DEF SaidAfter, Says
<1> QED
  BY <1>2, <1>3, <1>4

LEMMA SaidAfterType ==
  ASSUME NEW f, NEW n, NEW p, NEW t, IsSaid(t), NEW u \in FileUnits
  PROVE  IsSaid(SaidAfter(f, n, p, t, u))
<1>1. PICK out \in Seq(Nat), from \in Nat, len \in Nat, ok \in BOOLEAN :
        /\ t.out = out /\ t.from = from /\ t.len = len /\ t.ok = ok /\ from <= Len(out)
  BY DEF IsSaid
<1>2. u.value \in Nat
  BY UnitFacts
<1>3. \A o \in Seq(Nat), k \in Nat, l \in Nat, b \in BOOLEAN :
        k <= Len(o) => IsSaid(Says(o, k, l, b))
  BY DEF IsSaid, Says
<1>4. out \o <<u.value>> \in Seq(Nat) /\ Len(out \o <<u.value>>) >= from
  BY <1>1, <1>2
<1>5. /\ out \o Copied(Window(t), u.value, len) \in Seq(Nat)
      /\ Len(out \o Copied(Window(t), u.value, len)) >= from
  <2>1. Window(t) \in Seq(Nat)
    BY <1>1 DEF Window, Behind
  <2>2. PICK c : c = Copied(Window(t), u.value, len)
    OBVIOUS
  <2>3. c \in Seq(Nat) /\ Len(c) \in Nat
    BY <2>1, <2>2, CopiedLen
  <2>4. out \o c \in Seq(Nat) /\ Len(out \o c) = Len(out) + Len(c)
    BY <2>3
  <2> QED
    BY <1>1, <2>2, <2>3, <2>4
<1>6. CASE ~ t.ok
  BY <1>6 DEF SaidAfter
<1>7. CASE t.ok /\ ~ Checks(f, n, p, t, u)
  <2>1. SaidAfter(f, n, p, t, u) = Says(out, from, len, FALSE)
    BY <1>1, <1>7 DEF SaidAfter
  <2> QED
    BY <1>1, <1>3, <2>1
<1>8. CASE t.ok /\ Checks(f, n, p, t, u)
  <2>1. \/ SaidAfter(f, n, p, t, u) = Says(out \o <<u.value>>, from, len, TRUE)
        \/ SaidAfter(f, n, p, t, u) = Says(out, from, u.value, TRUE)
        \/ SaidAfter(f, n, p, t, u) = Says(out \o Copied(Window(t), u.value, len), from, len, TRUE)
        \/ SaidAfter(f, n, p, t, u) = Says(out, Len(out), len, TRUE)
        \/ SaidAfter(f, n, p, t, u) = t
    <3> USE <1>1, <1>8
    <3>1. CASE p.at = "stored" \/ (p.at = "coded" /\ u.kind = "lit")
      BY <3>1 DEF SaidAfter
    <3>2. CASE p.at = "coded" /\ u.kind = "len"
      BY <3>2 DEF SaidAfter
    <3>3. CASE p.at = "dist"
      BY <3>3 DEF SaidAfter
    <3>4. CASE p.at = "end" /\ Gzip(f.flag)
      BY <3>4 DEF SaidAfter
    <3>5. CASE /\ ~ (p.at = "stored" \/ (p.at = "coded" /\ u.kind = "lit"))
               /\ ~ (p.at = "coded" /\ u.kind = "len") /\ p.at # "dist"
               /\ ~ (p.at = "end" /\ Gzip(f.flag))
      BY <3>5 DEF SaidAfter
    <3> QED
      BY <3>1, <3>2, <3>3, <3>4, <3>5
  <2>2. Len(out) \in Nat /\ Len(out) <= Len(out)
    OBVIOUS
  <2> QED
    BY <1>1, <1>2, <1>3, <1>4, <1>5, <2>1, <2>2, ZenonT(60)
<1> QED
  BY <1>6, <1>7, <1>8

LEMMA SaidType ==
  ASSUME NEW f, f.units \in Seq(FileUnits), f.dict \in Seq(Nat), NEW s, Rest(f, s)
  PROVE  IsSaid(SaidOf(f, s))
<1> DEFINE S == {m \in Nat : m <= Len(f.units) => IsSaid(Parse(f)[m].said)}
<1>0. Len(f.units) \in Nat
  OBVIOUS
<1>1. 0 \in S
  <2>1. Parse(f)[0].said = Nothing(f)
    <3>1. Parse(f)[0] = ParseStarts(f)
      BY <1>0, ParseSteps
    <3> QED
      BY <3>1 DEF ParseStarts
  <2>2. IsSaid(Nothing(f))
    BY DEF IsSaid, Nothing, Says
  <2> QED
    BY <2>1, <2>2
<1>2. ASSUME NEW m \in Nat, m \in S PROVE m + 1 \in S
  <2> SUFFICES ASSUME m + 1 <= Len(f.units) PROVE IsSaid(Parse(f)[m + 1].said)
    OBVIOUS
  <2>1. m + 1 \in 1 .. Len(f.units) /\ (m + 1) - 1 = m /\ m <= Len(f.units)
    OBVIOUS
  <2>2. Parse(f)[m + 1] = ParseAfter(f, m + 1, Parse(f)[m])
    BY <1>0, <2>1, ParseSteps
  <2>3. f.units[m + 1] \in FileUnits /\ IsSaid(Parse(f)[m].said)
    BY <1>2, <2>1
  <2> HIDE DEF S
  <2> QED
    BY <2>2, <2>3, SaidAfterType DEF ParseAfter
<1> HIDE DEF S
<1>3. Nat \subseteq S
  BY <1>1, <1>2, SetInduction
<1>4. Before(f, s) \in 0 .. Len(f.units)
  BY RestFacts
<1> QED
  BY <1>3, <1>4 DEF S, SaidOf

-----------------------------------------------------------------------------
(* What is said only grows, and what is invalid stays so.                  *)
PrefixOf(s, t)  == Len(s) <= Len(t) /\ \A i \in 1 .. Len(s) : t[i] = s[i]
Grows(t, new) == PrefixOf(t.out, new.out) /\ (~ t.ok => ~ new.ok)

LEMMA PrefixTwice ==
  ASSUME NEW s \in Seq(Nat), NEW t \in Seq(Nat), NEW u \in Seq(Nat),
         PrefixOf(s, t), PrefixOf(t, u)
  PROVE  PrefixOf(s, u)
<1>1. Len(s) \in Nat /\ Len(t) \in Nat /\ Len(u) \in Nat
  OBVIOUS
<1>2. Len(s) <= Len(t) /\ Len(t) <= Len(u)
  BY DEF PrefixOf
<1>3. ASSUME NEW i \in 1 .. Len(s)
      PROVE  u[i] = s[i]
  <2>1. i \in 1 .. Len(t)
    BY <1>1, <1>2
  <2>2. u[i] = t[i]
    BY <2>1, Zenon DEF PrefixOf
  <2>3. t[i] = s[i]
    BY Zenon DEF PrefixOf
  <2> QED
    BY <2>2, <2>3
<1>4. Len(s) <= Len(u)
  BY <1>1, <1>2
<1> QED
  BY <1>3, <1>4, Zenon DEF PrefixOf

LEMMA PrefixJoined ==
  ASSUME NEW s \in Seq(Nat), NEW t \in Seq(Nat)
  PROVE  PrefixOf(s, s \o t) /\ PrefixOf(s, s)
BY DEF PrefixOf

(* What one unit can make of what has been said.                           *)
OneSaid(t, u, new) ==
  \/ new = t
  \/ t.ok /\ new = Says(t.out, t.from, t.len, FALSE)
  \/ t.ok /\ new = Says(t.out \o <<u.value>>, t.from, t.len, TRUE)
  \/ t.ok /\ new = Says(t.out, t.from, u.value, TRUE)
  \/ t.ok /\ new = Says(t.out \o Copied(Window(t), u.value, t.len), t.from, t.len, TRUE)
  \/ t.ok /\ new = Says(t.out, Len(t.out), t.len, TRUE)
LEMMA SaysOne ==
  ASSUME NEW f, NEW n, NEW p, NEW t, IsSaid(t), NEW u
  PROVE  OneSaid(t, u, SaidAfter(f, n, p, t, u))
<1> USE DEF OneSaid
<1>1. CASE ~ t.ok
  BY <1>1 DEF SaidAfter
<1>2. CASE t.ok /\ ~ Checks(f, n, p, t, u)
  BY <1>2 DEF SaidAfter
<1>3. CASE t.ok /\ Checks(f, n, p, t, u)
  <2> USE <1>3
  <2>1. CASE p.at = "stored" \/ (p.at = "coded" /\ u.kind = "lit")
    BY <2>1 DEF SaidAfter
  <2>2. CASE p.at = "coded" /\ u.kind = "len"
    BY <2>2 DEF SaidAfter
  <2>3. CASE p.at = "dist"
    BY <2>3 DEF SaidAfter
  <2>4. CASE p.at = "end" /\ Gzip(f.flag)
    BY <2>4 DEF SaidAfter
  <2>5. CASE /\ ~ (p.at = "stored" \/ (p.at = "coded" /\ u.kind = "lit"))
             /\ ~ (p.at = "coded" /\ u.kind = "len") /\ p.at # "dist"
             /\ ~ (p.at = "end" /\ Gzip(f.flag))
    BY <2>5 DEF SaidAfter
  <2> QED
    BY <2>1, <2>2, <2>3, <2>4, <2>5
<1> QED
  BY <1>1, <1>2, <1>3

LEMMA OneGrows ==
  ASSUME NEW f, NEW n, NEW p, NEW t, IsSaid(t), NEW u \in FileUnits
  PROVE  Grows(t, SaidAfter(f, n, p, t, u))
<1>1. t.out \in Seq(Nat) /\ t.ok \in BOOLEAN
  BY DEF IsSaid
<1>2. u.value \in Nat /\ <<u.value>> \in Seq(Nat)
  BY UnitFacts
<1>3. Copied(Window(t), u.value, t.len) \in Seq(Nat)
  <2>1. Window(t) \in Seq(Nat) /\ t.len \in Nat
    BY DEF Window, Behind, IsSaid
  <2> QED
    BY <2>1, CopiedLen
<1>4. /\ PrefixOf(t.out, t.out) /\ PrefixOf(t.out, t.out \o <<u.value>>)
      /\ PrefixOf(t.out, t.out \o Copied(Window(t), u.value, t.len))
  BY <1>1, <1>2, <1>3, PrefixJoined
<1>5. \A o, k, l, b : Says(o, k, l, b).out = o
  BY DEF Says
<1>6. PICK new : new = SaidAfter(f, n, p, t, u)
  OBVIOUS
<1>7. OneSaid(t, u, new)
  BY <1>6, SaysOne
<1>8. PrefixOf(t.out, new.out) /\ (~ t.ok => new = t)
  <2>1. \/ new.out = t.out \/ new.out = t.out \o <<u.value>>
        \/ new.out = t.out \o Copied(Window(t), u.value, t.len)
    <3>1. CASE new = t
      BY <3>1
    <3>2. CASE \E l, k, b : new = Says(t.out, l, k, b)
      BY <3>2 DEF Says
    <3>3. CASE new = Says(t.out \o <<u.value>>, t.from, t.len, TRUE)
      BY <3>3 DEF Says
    <3>4. CASE new = Says(t.out \o Copied(Window(t), u.value, t.len), t.from, t.len, TRUE)
      BY <3>4 DEF Says
    <3> QED
      BY <1>7, <3>1, <3>2, <3>3, <3>4, Zenon DEF OneSaid
  <2>2. ~ t.ok => new = t
    BY <1>7, Zenon DEF OneSaid
  <2>3. PrefixOf(t.out, new.out)
    BY <1>4, <2>1, Zenon
  <2> QED
    BY <2>2, <2>3
<1> QED
  BY <1>6, <1>8 DEF Grows

SaidAt(f, n) == Parse(f)[n].said
LEMMA SaidAtIs ==
  ASSUME NEW f, f.units \in Seq(FileUnits), f.dict \in Seq(Nat)
  PROVE  /\ \A n \in 0 .. Len(f.units) : IsSaid(SaidAt(f, n))
         /\ \A s : Rest(f, s) => SaidOf(f, s) = SaidAt(f, Before(f, s))
         /\ \A n \in 0 .. Len(f.units) :
              SaidOf(f, Drop(f.units, n)) = SaidAt(f, n) /\ Rest(f, Drop(f.units, n))
<1>1. \A n \in 0 .. Len(f.units) :
        Rest(f, Drop(f.units, n)) /\ Before(f, Drop(f.units, n)) = n
  <2> TAKE n \in 0 .. Len(f.units)
  <2>1. Rest(f, f.units) /\ Before(f, f.units) = 0
    BY RestWhole DEF Before
  <2>2. n \in Nat /\ n <= Len(f.units)
    OBVIOUS
  <2> QED
    BY <2>1, <2>2, RestDrop
<1>2. \A n \in 0 .. Len(f.units) : SaidOf(f, Drop(f.units, n)) = SaidAt(f, n)
  BY <1>1 DEF SaidOf, SaidAt
<1>3. \A n \in 0 .. Len(f.units) : IsSaid(SaidAt(f, n))
  BY <1>1, <1>2, SaidType
<1> QED
  BY <1>1, <1>2, <1>3 DEF SaidOf, SaidAt

LEMMA SaidGrows ==
  ASSUME NEW f, f.units \in Seq(FileUnits), f.dict \in Seq(Nat), NEW n \in Nat, NEW m \in Nat,
         n + m <= Len(f.units)
  PROVE  Grows(SaidAt(f, n), SaidAt(f, n + m))
<1> DEFINE S == {k \in Nat : n + k <= Len(f.units) => Grows(SaidAt(f, n), SaidAt(f, n + k))}
<1>1. \A k \in 0 .. Len(f.units) : IsSaid(SaidAt(f, k)) /\ SaidAt(f, k).out \in Seq(Nat)
  BY SaidAtIs DEF IsSaid
<1>2. n \in 0 .. Len(f.units)
  OBVIOUS
<1>3. 0 \in S
  <2>1. n + 0 = n
    OBVIOUS
  <2>2. Grows(SaidAt(f, n), SaidAt(f, n))
    BY <1>1, <1>2 DEF Grows, PrefixOf
  <2> QED
    BY <2>1, <2>2
<1>4. ASSUME NEW k \in Nat, k \in S PROVE k + 1 \in S
  <2> SUFFICES ASSUME n + (k + 1) <= Len(f.units)
               PROVE  Grows(SaidAt(f, n), SaidAt(f, n + (k + 1)))
    OBVIOUS
  <2>0. Len(f.units) \in Nat /\ n + k \in 0 .. Len(f.units) /\ n + (k + 1) \in 1 .. Len(f.units)
        /\ (n + (k + 1)) - 1 = n + k /\ n + (k + 1) \in 0 .. Len(f.units)
    OBVIOUS
  <2>1. Grows(SaidAt(f, n), SaidAt(f, n + k))
    BY <1>4, <2>0
  <2>2. Parse(f)[n + (k + 1)] = ParseAfter(f, n + (k + 1), Parse(f)[n + k])
    BY <2>0, ParseSteps
  <2>3. f.units[n + (k + 1)] \in FileUnits /\ IsSaid(SaidAt(f, n + k))
    BY <1>1, <2>0
  <2>4. Grows(SaidAt(f, n + k), SaidAt(f, n + (k + 1)))
    BY <2>2, <2>3, OneGrows DEF ParseAfter, SaidAt
  <2>5. /\ SaidAt(f, n).out \in Seq(Nat) /\ SaidAt(f, n + k).out \in Seq(Nat)
        /\ SaidAt(f, n + (k + 1)).out \in Seq(Nat)
    BY <1>1, <1>2, <2>0
  <2>6. PrefixOf(SaidAt(f, n).out, SaidAt(f, n + (k + 1)).out)
    BY <2>1, <2>4, <2>5, PrefixTwice DEF Grows
  <2> QED
    BY <2>1, <2>4, <2>6 DEF Grows
<1> HIDE DEF S
<1>5. Nat \subseteq S
  BY <1>3, <1>4, SetInduction
<1> QED
  BY <1>5 DEF S

-----------------------------------------------------------------------------
(* Behind the end of a deflate or zlib file nothing more is said.          *)
LEMMA EndStays ==
  ASSUME NEW f, f.units \in Seq(FileUnits), f.dict \in Seq(Nat), NEW s, Rest(f, s),
         ~ Gzip(f.flag), PlaceOf(f, s).at = "end"
  PROVE  Parse(f)[Len(f.units)] = Parse(f)[Before(f, s)]
<1> DEFINE n == Before(f, s)
           S == {k \in Nat : n + k <= Len(f.units) => Parse(f)[n + k] = Parse(f)[n]}
<1>1. n \in Nat /\ n <= Len(f.units) /\ Len(f.units) \in Nat
  BY RestFacts
<1>2. Parse(f)[n].place.at = "end" /\ \A k \in 0 .. Len(f.units) : IsSaid(SaidAt(f, k))
  BY SaidAtIs DEF PlaceOf
<1> HIDE DEF n
<1>3. 0 \in S
  BY <1>1
<1>4. ASSUME NEW k \in Nat, k \in S PROVE k + 1 \in S
  <2> SUFFICES ASSUME n + (k + 1) <= Len(f.units)
               PROVE  Parse(f)[n + (k + 1)] = Parse(f)[n]
    OBVIOUS
  <2>0. /\ n + k \in 0 .. Len(f.units) /\ n + (k + 1) \in 1 .. Len(f.units)
        /\ (n + (k + 1)) - 1 = n + k
    BY <1>1
  <2>1. Parse(f)[n + k] = Parse(f)[n]
    BY <1>4, <2>0
  <2>2. Parse(f)[n + (k + 1)] = ParseAfter(f, n + (k + 1), Parse(f)[n])
    BY <1>1, <2>0, <2>1, ParseSteps
  <2>3. PICK p, t : Parse(f)[n].place = p /\ Parse(f)[n].said = t /\ p.at = "end" /\ IsSaid(t)
    BY <1>1, <1>2 DEF SaidAt
  <2>4. PlaceAfter(f.flag, p, f.units[n + (k + 1)]) = p
    BY <2>3 DEF PlaceAfter
  <2>5. SaidAfter(f, (n + (k + 1)) - 1, p, t, f.units[n + (k + 1)]) = t
    BY <2>3, <2>4 DEF SaidAfter, Checks
  <2>6. Parse(f)[n + (k + 1)] = [place |-> p, said |-> t]
    BY <2>2, <2>3, <2>4, <2>5 DEF ParseAfter
  <2>7. Parse(f)[n] = [place |-> p, said |-> t]
    <3>1. n = 0 \/ n \in 1 .. Len(f.units)
      BY <1>1
    <3>2. CASE n = 0
      <4>1. Parse(f)[n] = [place |-> Start(f.flag), said |-> Nothing(f)]
        BY <1>1, <3>2, ParseSteps DEF ParseStarts
      <4> QED
        BY <2>3, <4>1
    <3>3. CASE n \in 1 .. Len(f.units)
      <4>1. Parse(f)[n] = ParseAfter(f, n, Parse(f)[n - 1])
        BY <1>1, <3>3, ParseSteps
      <4> QED
        BY <2>3, <4>1 DEF ParseAfter
    <3> QED
      BY <3>1, <3>2, <3>3
  <2> QED
    BY <2>6, <2>7
<1> HIDE DEF S
<1>5. Nat \subseteq S
  BY <1>3, <1>4, SetInduction
<1>6. Len(f.units) - n \in Nat /\ n + (Len(f.units) - n) = Len(f.units)
  BY <1>1
<1> QED
  BY <1>1, <1>5, <1>6 DEF S, n

(* Runs of units of one sort.                                              *)
LitRun(s, k) == k <= Len(s) /\ \A i \in 1 .. k : s[i].kind = "lit"
NameRun(s, k) == k <= Len(s) /\ \A i \in 1 .. k : s[i].value # 0
ValuesOf(s, k) == [i \in 1 .. k |-> s[i].value]
Adds(t, new, part) ==
  /\ t.ok => new = Says(t.out \o part, t.from, t.len, TRUE)
  /\ ~ t.ok => new = t

LEMMA AddsNothing ==
  ASSUME NEW t, IsSaid(t)
  PROVE  Adds(t, t, <<>>)
<1>1. t.out \o <<>> = t.out
  BY DEF IsSaid
<1> QED
  BY <1>1 DEF Adds, IsSaid

LEMMA AddsOne ==
  ASSUME NEW t, IsSaid(t), NEW r, NEW a \in Seq(Nat), Adds(t, r, a), NEW new, NEW v \in Nat,
         r.ok => new = Says(r.out \o <<v>>, r.from, r.len, TRUE),
         ~ r.ok => new = r
  PROVE  Adds(t, new, a \o <<v>>)
<1>1. CASE t.ok
  <2>1. r.out = t.out \o a /\ r.from = t.from /\ r.len = t.len /\ r.ok
    BY <1>1 DEF Adds, Says
  <2>2. (t.out \o a) \o <<v>> = t.out \o (a \o <<v>>)
    <3>1. t.out \in Seq(Nat) /\ <<v>> \in Seq(Nat)
      BY DEF IsSaid
    <3> QED
      BY <3>1, JoinThree
  <2> QED
    BY <1>1, <2>1, <2>2 DEF Adds
<1>2. CASE ~ t.ok
  BY <1>2 DEF Adds
<1> QED
  BY <1>1, <1>2

LEMMA OneMoreValue ==
  ASSUME NEW s \in Seq(FileUnits), NEW k \in Nat, k < Len(s)
  PROVE  /\ ValuesOf(s, k) \in Seq(Nat) /\ s[k + 1].value \in Nat
         /\ ValuesOf(s, k) \o <<s[k + 1].value>> = ValuesOf(s, k + 1)
<1>1. \A i \in 1 .. k + 1 : s[i].value \in Nat
  <2>1. \A i \in 1 .. k + 1 : s[i] \in FileUnits
    OBVIOUS
  <2> QED
    BY <2>1, UnitFacts
<1>2. ValuesOf(s, k) \in Seq(Nat) /\ s[k + 1].value \in Nat
  BY <1>1 DEF ValuesOf
<1> QED
  BY <1>1, <1>2 DEF ValuesOf

LEMMA LitsSay ==
  ASSUME NEW f, f.units \in Seq(FileUnits), f.dict \in Seq(Nat), NEW s, Rest(f, s),
         NEW k \in Nat, LitRun(s, k), PlaceOf(f, s).at = "coded"
  PROVE  /\ PlaceOf(f, Drop(s, k)) = PlaceOf(f, s)
         /\ Adds(SaidOf(f, s), SaidOf(f, Drop(s, k)), ValuesOf(s, k))
<1>0. s \in Seq(FileUnits) /\ IsSaid(SaidOf(f, s))
  BY RestFacts, SaidType
<1> DEFINE S == {m \in Nat : m <= k =>
                   /\ PlaceOf(f, Drop(s, m)) = PlaceOf(f, s)
                   /\ Adds(SaidOf(f, s), SaidOf(f, Drop(s, m)), ValuesOf(s, m))}
<1>1. 0 \in S
  <2>1. Drop(s, 0) = s
    BY <1>0 DEF Drop
  <2>2. ValuesOf(s, 0) = <<>>
    BY DEF ValuesOf
  <2> QED
    BY <1>0, <2>1, <2>2, AddsNothing
<1>2. ASSUME NEW m \in Nat, m \in S PROVE m + 1 \in S
  <2> SUFFICES ASSUME m + 1 <= k
               PROVE  /\ PlaceOf(f, Drop(s, m + 1)) = PlaceOf(f, s)
                      /\ Adds(SaidOf(f, s), SaidOf(f, Drop(s, m + 1)), ValuesOf(s, m + 1))
    OBVIOUS
  <2>1. /\ PlaceOf(f, Drop(s, m)) = PlaceOf(f, s)
        /\ Adds(SaidOf(f, s), SaidOf(f, Drop(s, m)), ValuesOf(s, m))
    BY <1>2
  <2>2. m < Len(s) /\ s[m + 1].kind = "lit"
    BY <1>0 DEF LitRun
  <2> HIDE DEF S
  <2> DEFINE p == PlaceOf(f, Drop(s, m))
             r == SaidOf(f, Drop(s, m))
             u == s[m + 1]
             n == Before(f, s) + m
  <2>3. /\ PlaceOf(f, Drop(s, m + 1)) = PlaceAfter(f.flag, p, u)
        /\ SaidOf(f, Drop(s, m + 1)) = SaidAfter(f, n, p, r, u)
    BY <2>2, OneUnit
  <2>4. p.at = "coded" /\ u.kind = "lit"
    BY <2>1, <2>2
  <2> HIDE DEF p, r, u, n
  <2>5. PlaceAfter(f.flag, p, u) = p
    BY <2>4 DEF PlaceAfter, BlockAfter
  <2>6. /\ r.ok => SaidAfter(f, n, p, r, u) = Says(r.out \o <<u.value>>, r.from, r.len, TRUE)
        /\ ~ r.ok => SaidAfter(f, n, p, r, u) = r
    <3>1. Checks(f, n, p, r, u)
      BY <2>4, <2>5 DEF Checks
    <3> QED
      BY <2>4, <3>1 DEF SaidAfter
  <2>7. Adds(SaidOf(f, s), SaidOf(f, Drop(s, m + 1)), ValuesOf(s, m) \o <<u.value>>)
    <3>1. ValuesOf(s, m) \in Seq(Nat) /\ u.value \in Nat
      BY <1>0, <2>2, OneMoreValue DEF u
    <3> QED
      BY <1>0, <2>1, <2>3, <2>6, <3>1, AddsOne DEF r
  <2>8. ValuesOf(s, m) \o <<u.value>> = ValuesOf(s, m + 1)
    BY <1>0, <2>2, OneMoreValue DEF u
  <2> QED
    BY <2>1, <2>3, <2>5, <2>7, <2>8 DEF p
<1> HIDE DEF S
<1>3. Nat \subseteq S
  BY <1>1, <1>2, SetInduction
<1> QED
  BY <1>3 DEF S

(* Where n units of a stored block, or of an extra field, are left.        *)
OnStored(p, format, n, final) ==
  /\ p.final = final
  /\ IF n = 0 THEN p.at = IF final = 1 THEN TrailerAt(format) ELSE "block"
     ELSE p.at = "stored" /\ p.left = n
OnExtra(p, n, named) ==
  /\ p.flags = named
  /\ IF n = 0 THEN p.at = BehindExtra(named) ELSE p.at = "extra" /\ p.left = n

LEMMA StoredSays ==
  ASSUME NEW f, f.units \in Seq(FileUnits), f.dict \in Seq(Nat), NEW s, Rest(f, s),
         NEW c \in Nat, NEW k \in 0 .. c, k <= Len(s), NEW final,
         OnStored(PlaceOf(f, s), f.flag, c, final)
  PROVE  /\ OnStored(PlaceOf(f, Drop(s, k)), f.flag, c - k, final)
         /\ Adds(SaidOf(f, s), SaidOf(f, Drop(s, k)), ValuesOf(s, k))
<1>0. s \in Seq(FileUnits) /\ IsSaid(SaidOf(f, s))
  BY RestFacts, SaidType
<1> DEFINE S == {m \in Nat : m <= k =>
                   /\ OnStored(PlaceOf(f, Drop(s, m)), f.flag, c - m, final)
                   /\ Adds(SaidOf(f, s), SaidOf(f, Drop(s, m)), ValuesOf(s, m))}
<1>1. 0 \in S
  <2>1. Drop(s, 0) = s
    BY <1>0 DEF Drop
  <2>2. ValuesOf(s, 0) = <<>> /\ c - 0 = c
    BY DEF ValuesOf
  <2> QED
    BY <1>0, <2>1, <2>2, AddsNothing
<1>2. ASSUME NEW m \in Nat, m \in S PROVE m + 1 \in S
  <2> SUFFICES ASSUME m + 1 <= k
               PROVE  /\ OnStored(PlaceOf(f, Drop(s, m + 1)), f.flag, c - (m + 1), final)
                      /\ Adds(SaidOf(f, s), SaidOf(f, Drop(s, m + 1)), ValuesOf(s, m + 1))
    OBVIOUS
  <2>1. /\ OnStored(PlaceOf(f, Drop(s, m)), f.flag, c - m, final)
        /\ Adds(SaidOf(f, s), SaidOf(f, Drop(s, m)), ValuesOf(s, m))
    BY <1>2
  <2>2. m < Len(s)
    BY <1>0
  <2> HIDE DEF S
  <2> DEFINE p == PlaceOf(f, Drop(s, m))
             r == SaidOf(f, Drop(s, m))
             u == s[m + 1]
             n == Before(f, s) + m
  <2>3. /\ PlaceOf(f, Drop(s, m + 1)) = PlaceAfter(f.flag, p, u)
        /\ SaidOf(f, Drop(s, m + 1)) = SaidAfter(f, n, p, r, u)
    BY <2>2, OneUnit
  <2>4. p.at = "stored" /\ p.left = c - m /\ p.final = final /\ c - m # 0
    BY <2>1 DEF OnStored
  <2> HIDE DEF p, r, u, n
  <2>5. PlaceAfter(f.flag, p, u) = StoredLeft(f.flag, p, p.left - 1)
    BY <2>4 DEF PlaceAfter, BlockAfter
  <2>6. /\ r.ok => SaidAfter(f, n, p, r, u) = Says(r.out \o <<u.value>>, r.from, r.len, TRUE)
        /\ ~ r.ok => SaidAfter(f, n, p, r, u) = r
    <3>0. StoredLeft(f.flag, p, p.left - 1).at # "bad"
      BY DEF StoredLeft, BlockEnds, TrailerAt, To, Place
    <3>1. Checks(f, n, p, r, u)
      BY <2>4, <2>5, <3>0 DEF Checks
    <3> QED
      BY <2>4, <3>1 DEF SaidAfter
  <2>7. Adds(SaidOf(f, s), SaidOf(f, Drop(s, m + 1)), ValuesOf(s, m) \o <<u.value>>)
    <3>1. ValuesOf(s, m) \in Seq(Nat) /\ u.value \in Nat
      BY <1>0, <2>2, OneMoreValue DEF u
    <3> QED
      BY <1>0, <2>1, <2>3, <2>6, <3>1, AddsOne DEF r
  <2>8. ValuesOf(s, m) \o <<u.value>> = ValuesOf(s, m + 1)
    BY <1>0, <2>2, OneMoreValue DEF u
  <2>9. OnStored(StoredLeft(f.flag, p, p.left - 1), f.flag, c - (m + 1), final)
    <3>1. p.left - 1 = c - (m + 1)
      BY <2>4
    <3> QED
      BY <2>4, <3>1 DEF OnStored, StoredLeft, BlockEnds, To, Place
  <2> QED
    BY <2>3, <2>5, <2>7, <2>8, <2>9
<1> HIDE DEF S
<1>3. Nat \subseteq S
  BY <1>1, <1>2, SetInduction
<1> QED
  BY <1>3 DEF S

LEMMA ExtraSays ==
  ASSUME NEW f, f.units \in Seq(FileUnits), NEW s, Rest(f, s),
         NEW c \in Nat, NEW k \in 0 .. c, k <= Len(s), NEW named,
         OnExtra(PlaceOf(f, s), c, named)
  PROVE  /\ OnExtra(PlaceOf(f, Drop(s, k)), c - k, named)
         /\ SaidOf(f, Drop(s, k)) = SaidOf(f, s)
<1>0. s \in Seq(FileUnits)
  BY RestFacts
<1> DEFINE S == {m \in Nat : m <= k =>
                   /\ OnExtra(PlaceOf(f, Drop(s, m)), c - m, named)
                   /\ SaidOf(f, Drop(s, m)) = SaidOf(f, s)}
<1>1. 0 \in S
  <2>1. Drop(s, 0) = s /\ c - 0 = c
    BY <1>0 DEF Drop
  <2> QED
    BY <1>0, <2>1
<1>2. ASSUME NEW m \in Nat, m \in S PROVE m + 1 \in S
  <2> SUFFICES ASSUME m + 1 <= k
               PROVE  /\ OnExtra(PlaceOf(f, Drop(s, m + 1)), c - (m + 1), named)
                      /\ SaidOf(f, Drop(s, m + 1)) = SaidOf(f, s)
    OBVIOUS
  <2>1. /\ OnExtra(PlaceOf(f, Drop(s, m)), c - m, named)
        /\ SaidOf(f, Drop(s, m)) = SaidOf(f, s)
    BY <1>2
  <2>2. m < Len(s)
    BY <1>0
  <2> HIDE DEF S
  <2> DEFINE p == PlaceOf(f, Drop(s, m))
             r == SaidOf(f, Drop(s, m))
             u == s[m + 1]
             n == Before(f, s) + m
  <2>3. /\ PlaceOf(f, Drop(s, m + 1)) = PlaceAfter(f.flag, p, u)
        /\ SaidOf(f, Drop(s, m + 1)) = SaidAfter(f, n, p, r, u)
    BY <2>2, OneUnit
  <2>4. p.at = "extra" /\ p.left = c - m /\ p.flags = named /\ c - m # 0
    BY <2>1 DEF OnExtra
  <2> HIDE DEF p, r, u, n
  <2>5. PlaceAfter(f.flag, p, u) = ExtraLeft(p, p.left - 1)
    BY <2>4 DEF PlaceAfter, GzipHdrAfter
  <2>6. SaidAfter(f, n, p, r, u) = r
    <3>0. ExtraLeft(p, p.left - 1).at # "bad"
      BY DEF ExtraLeft, Place, BehindExtra, BehindName, BehindComment
    <3> QED
      BY <2>4, <2>5, <3>0, SilentSays DEF Silent
  <2>9. OnExtra(ExtraLeft(p, p.left - 1), c - (m + 1), named)
    <3>1. p.left - 1 = c - (m + 1)
      BY <2>4
    <3> QED
      BY <2>4, <3>1 DEF OnExtra, ExtraLeft, Place
  <2> QED
    BY <2>1, <2>3, <2>5, <2>6, <2>9 DEF r
<1> HIDE DEF S
<1>3. Nat \subseteq S
  BY <1>1, <1>2, SetInduction
<1> QED
  BY <1>3 DEF S

LEMMA NameSays ==
  ASSUME NEW f, f.units \in Seq(FileUnits), NEW s, Rest(f, s),
         NEW k \in Nat, NameRun(s, k), PlaceOf(f, s).at \in {"name", "comment"}
  PROVE  /\ PlaceOf(f, Drop(s, k)) = PlaceOf(f, s)
         /\ SaidOf(f, Drop(s, k)) = SaidOf(f, s)
<1>0. s \in Seq(FileUnits)
  BY RestFacts
<1> DEFINE S == {m \in Nat : m <= k => /\ PlaceOf(f, Drop(s, m)) = PlaceOf(f, s)
                                       /\ SaidOf(f, Drop(s, m)) = SaidOf(f, s)}
<1>1. 0 \in S
  <2>1. Drop(s, 0) = s
    BY <1>0 DEF Drop
  <2> QED
    BY <1>0, <2>1
<1>2. ASSUME NEW m \in Nat, m \in S PROVE m + 1 \in S
  <2> SUFFICES ASSUME m + 1 <= k
               PROVE  /\ PlaceOf(f, Drop(s, m + 1)) = PlaceOf(f, s)
                      /\ SaidOf(f, Drop(s, m + 1)) = SaidOf(f, s)
    OBVIOUS
  <2>1. /\ PlaceOf(f, Drop(s, m)) = PlaceOf(f, s)
        /\ SaidOf(f, Drop(s, m)) = SaidOf(f, s)
    BY <1>2
  <2>2. m < Len(s) /\ s[m + 1].value # 0
    BY <1>0 DEF NameRun
  <2> HIDE DEF S
  <2> DEFINE p == PlaceOf(f, Drop(s, m))
             r == SaidOf(f, Drop(s, m))
             u == s[m + 1]
             n == Before(f, s) + m
  <2>3. /\ PlaceOf(f, Drop(s, m + 1)) = PlaceAfter(f.flag, p, u)
        /\ SaidOf(f, Drop(s, m + 1)) = SaidAfter(f, n, p, r, u)
    BY <2>2, OneUnit
  <2>4. p.at \in {"name", "comment"} /\ u.value # 0
    BY <2>1, <2>2
  <2> HIDE DEF p, r, u, n
  <2>5. PlaceAfter(f.flag, p, u) = p
    BY <2>4 DEF PlaceAfter, GzipHdrAfter
  <2>6. SaidAfter(f, n, p, r, u) = r
    <3>1. p.at # "bad" /\ p.at \in Silent
      BY <2>4 DEF Silent
    <3> QED
      BY <2>5, <3>1, SilentSays
  <2> QED
    BY <2>1, <2>3, <2>5, <2>6 DEF p, r
<1> HIDE DEF S
<1>3. Nat \subseteq S
  BY <1>1, <1>2, SetInduction
<1> QED
  BY <1>3 DEF S

-----------------------------------------------------------------------------
(* What the decoders take from the input.                                  *)

LEMMA SplitWhole ==
  ASSUME NEW s \in Seq(FileUnits), NEW k \in Nat, k <= Len(s)
  PROVE  /\ Take(s, k) \in Seq(FileUnits) /\ Drop(s, k) \in Seq(FileUnits)
         /\ Len(Take(s, k)) = k /\ Take(s, k) \o Drop(s, k) = s
<1>1. PICK m \in Nat : m = Len(s) /\ k <= m
  OBVIOUS
<1>2. PICK a : a = Take(s, k)
  OBVIOUS
<1>3. a \in Seq(FileUnits) /\ Len(a) = k /\ \A i \in 1 .. k : a[i] = s[i]
  BY <1>1, <1>2 DEF Take
<1>4. PICK t : t = Drop(s, k)
  OBVIOUS
<1>5. t \in Seq(FileUnits) /\ Len(t) = m - k /\ \A i \in 1 .. m - k : t[i] = s[k + i]
  <2>1. Follows(t, FileUnits, s, k, m)
    BY <1>1, <1>4, DroppedEach
  <2> QED
    BY <2>1 DEF Follows
<1>6. PICK x : x = a \o t
  OBVIOUS
<1>7. /\ x \in Seq(FileUnits) /\ Len(x) = k + (m - k) /\ \A i \in 1 .. k : x[i] = a[i]
      /\ \A i \in 1 .. m - k : x[k + i] = t[i]
  <2>1. InTurn(x, FileUnits, a, k, t, m - k)
    BY <1>3, <1>5, <1>6, JoinedEach
  <2> QED
    BY <2>1 DEF InTurn
<1>8. ASSUME NEW i \in 1 .. m
      PROVE  x[i] = s[i]
  <2>1. CASE i <= k
    BY <1>1, <1>3, <1>7, <2>1
  <2>2. CASE ~ (i <= k)
    <3>1. i - k \in 1 .. m - k /\ i = k + (i - k)
      BY <1>1, <2>2
    <3> QED
      BY <1>5, <1>7, <3>1
  <2> QED
    BY <2>1, <2>2
<1>9. Len(x) = Len(s)
  BY <1>1, <1>7
<1>10. x = s
  BY <1>1, <1>7, <1>8, <1>9, SameSeq
<1> QED
  BY <1>2, <1>3, <1>4, <1>5, <1>6, <1>10

(* All that an input and the rest of the file behind it hold.              *)
AllOf(in, r) == in.read \o (in.next \o r)

LEMMA LoadJoins ==
  ASSUME NEW in, InputOK(in), NEW r \in Seq(FileUnits)
  PROVE  AllOf(inflate_in_load(in), r) = AllOf(in, r)
<1>1. PICK read \in Seq(FileUnits), next \in Seq(FileUnits) :
        in.read = read /\ in.next = next /\ Len(read) <= RegSize
  BY DEF InputOK
<1>2. PICK space \in Nat : space = RegSize - Len(read)
  BY <1>1, InflateAssumption, SMTT(60)
<1>3. PICK length \in Nat : length = Len(next)
  OBVIOUS
<1>4. PICK n \in Nat : n = Least(space, length) /\ n <= length
  BY LeastOf
<1>5. /\ inflate_in_load(in).read = read \o Take(next, n)
      /\ inflate_in_load(in).next = Drop(next, n)
  BY <1>1, <1>2, <1>3, <1>4 DEF inflate_in_load
<1> DEFINE front == Take(next, n)
           back == Drop(next, n)
<1>6. front \in Seq(FileUnits) /\ back \in Seq(FileUnits) /\ front \o back = next
  BY <1>3, <1>4, SplitWhole
<1> HIDE DEF front, back
<1>7. (read \o front) \o (back \o r) = read \o ((front \o back) \o r)
  <2>1. front \in Seq(FileUnits) /\ back \in Seq(FileUnits)
    BY <1>6
  <2> QED
    BY <2>1, SMTT(60)
<1> QED
  BY <1>1, <1>5, <1>6, <1>7 DEF AllOf, front, back

LEMMA SymsLead ==
  ASSUME NEW units \in Seq(FileUnits), pack \in Packs, SymCount(units) <= Len(units)
  PROVE  \A i \in 1 .. SymCount(units) - 1 : units[i].kind = "lit"
<1> DEFINE T == {i \in 0 .. Len(units) : \A j \in 1 .. i : units[j].kind = "lit"}
<1>1. T \subseteq 0 .. Len(units) /\ 0 \in T /\ Len(units) \in Nat
  OBVIOUS
<1>2. Literals(units) = Max(T)
  BY DEF Literals
<1> HIDE DEF T
<1>3. PICK lits \in 0 .. Len(units) : lits = Literals(units) /\ lits \in T
  BY <1>1, <1>2, GreatestNat
<1>4. pack \in 1 .. MaxLits
  BY InflateAssumption
<1>5. SymCount(units) - 1 <= lits /\ SymCount(units) \in Nat
  BY <1>3, <1>4 DEF SymCount, MaxLits
<1>6. \A j \in 1 .. lits : units[j].kind = "lit"
  BY <1>3 DEF T
<1> QED
  BY <1>5, <1>6

LEMMA AllTaken ==
  ASSUME NEW in, InputOK(in), NEW r \in Seq(FileUnits), NEW k \in Nat, k <= Len(in.read)
  PROVE  /\ AllOf(in, r) \in Seq(FileUnits) /\ k <= Len(AllOf(in, r))
         /\ AllOf([read |-> Drop(in.read, k), next |-> in.next], r) = Drop(AllOf(in, r), k)
         /\ \A i \in 1 .. k : AllOf(in, r)[i] = in.read[i] /\ in.read[i] \in FileUnits
<1>1. PICK read \in Seq(FileUnits), next \in Seq(FileUnits) : in.read = read /\ in.next = next
  BY DEF InputOK
<1>2. PICK more \in Seq(FileUnits) : more = next \o r
  BY Joined
<1>3. AllOf(in, r) = read \o more
  BY <1>1, <1>2 DEF AllOf
<1>4. read \o more \in Seq(FileUnits) /\ Len(read \o more) = Len(read) + Len(more)
  BY Joined
<1>5. Drop(read, k) \o more = Drop(read \o more, k)
  BY <1>1, DropFront
<1>6. \A i \in 1 .. k : (read \o more)[i] = read[i] /\ read[i] \in FileUnits
  BY <1>1
<1> QED
  BY <1>1, <1>2, <1>3, <1>4, <1>5, <1>6, SMTT(60) DEF AllOf

(* One lookup, by what it finds: too little; literals; then the end of the *)
(* block, an invalid symbol, or a match.                                   *)
Written(all, j, space) == Take(ValuesOf(all, j), Least(space, j))
Room(all, j, space)    == Least(space - Len(Written(all, j, space)), all[j + 1].value)
LooksAgain(dec, all, left) ==
  /\ left = all /\ dec.ret = "END_INPUT" /\ dec.block = "CODED"
  /\ dec.out = <<>> /\ dec.lits = <<>> /\ dec.copy = NoCopy
LooksLits(dec, all, left, space, j) ==
  /\ LitRun(all, j) /\ dec.lits = Drop(ValuesOf(all, j), Least(space, j))
  /\ left = Drop(all, j) /\ dec.ret = IF dec.lits # <<>> THEN "OUT_OVERFLOW" ELSE "OK"
  /\ dec.out = Written(all, j, space) /\ dec.copy = NoCopy /\ dec.block = "CODED"
LooksPast(dec, all, left, space, j) ==
  /\ LitRun(all, j) /\ dec.lits = Drop(ValuesOf(all, j), Least(space, j)) /\ j + 1 <= Len(all)
  /\ left = Drop(all, j + 1)
LooksEnd(dec, all, left, space, j) ==
  /\ LooksPast(dec, all, left, space, j) /\ all[j + 1].kind = "eob"
  /\ dec.ret = IF dec.lits # <<>> THEN "OUT_OVERFLOW" ELSE "OK"
  /\ dec.out = Written(all, j, space) /\ dec.copy = NoCopy /\ dec.block = AfterBlock
LooksBad(dec, all, left, space, j) ==
  /\ LooksPast(dec, all, left, space, j) /\ all[j + 1].kind \notin {"lit", "eob", "len"}
  /\ dec.ret = "INVALID_SYMBOL"
  /\ dec.out = Written(all, j, space) /\ dec.copy = NoCopy /\ dec.block = "CODED"
LooksBack(dec, all, left, space, j) ==
  /\ LitRun(all, j) /\ dec.lits = Drop(ValuesOf(all, j), Least(space, j)) /\ j + 2 <= Len(all)
  /\ left = Drop(all, j + 2) /\ all[j + 1].kind = "len" /\ dec.block = "CODED"
LooksInvalid(dec, all, left, history, space, j) ==
  /\ LooksBack(dec, all, left, space, j)
  /\ dec.out = Written(all, j, space) /\ dec.copy = NoCopy
  /\ \/ all[j + 2].kind # "dist" /\ dec.ret = "INVALID_SYMBOL"
     \/ /\ all[j + 2].kind = "dist" /\ dec.ret = "INVALID_LOOKBACK"
        /\ all[j + 2].value > Len(history) + Len(Written(all, j, space))
LooksMatch(dec, all, left, history, space, j) ==
  /\ LooksBack(dec, all, left, space, j) /\ all[j + 2].kind = "dist"
  /\ all[j + 2].value <= Len(history) + Len(Written(all, j, space))
  /\ dec.out = Written(all, j, space)
               \o Copied(history \o Written(all, j, space), all[j + 2].value, Room(all, j, space))
  /\ IF Room(all, j, space) < all[j + 1].value
     THEN /\ dec.ret = "OUT_OVERFLOW"
          /\ dec.copy = [len |-> all[j + 1].value - Room(all, j, space), dist |-> all[j + 2].value]
     ELSE dec.ret = "OK" /\ dec.copy = NoCopy

LEMMA CodeTakes ==
  ASSUME NEW in, InputOK(in), NEW history \in Seq(Nat), NEW space \in Nat, pack \in Packs,
         count \in Nat, NEW r \in Seq(FileUnits)
  PROVE  LET dec  == decode_huffman_code(in, history, space)
             left == AllOf(dec.in, r)
             all  == AllOf(in, r)
         IN  /\ dec.len0 = count
             /\ \/ LooksAgain(dec, all, left)
                \/ \E j \in 0 .. 3 :
                     \/ LooksLits(dec, all, left, space, j)
                     \/ LooksEnd(dec, all, left, space, j)
                     \/ LooksBad(dec, all, left, space, j)
                     \/ LooksInvalid(dec, all, left, history, space, j)
                     \/ LooksMatch(dec, all, left, history, space, j)
<1> DEFINE loaded  == inflate_in_load(in)
           syms    == SymCount(loaded.read)
           symbol  == loaded.read[syms]
           literal == syms - (IF symbol.kind = "lit" THEN 0 ELSE 1)
           values  == [i \in 1 .. literal |-> loaded.read[i].value]
           written == Take(values, Least(space, literal))
           lits    == Drop(values, Least(space, literal))
           full    == IF lits # <<>> THEN "OUT_OVERFLOW" ELSE "OK"
           popped  == [read |-> Drop(loaded.read, syms), next |-> loaded.next]
           extra   == inflate_in_load(popped)
           behind  == [read |-> Tail(extra.read), next |-> extra.next]
           dist    == Head(extra.read).value
           room    == Least(space - Len(written), symbol.value)
           copied  == written \o Copied(history \o written, dist, room)
           rest_of == [len |-> symbol.value - room, dist |-> dist]
           Outcome(status, input_left, out, over_lits, copy, state) ==
             [ret |-> status, in |-> input_left, out |-> out, lits |-> over_lits, copy |-> copy,
              block |-> state, len0 |-> count]
           again                    == Outcome("END_INPUT", loaded, <<>>, <<>>, NoCopy, "CODED")
           after(status, state)     == Outcome(status, popped, written, lits, NoCopy, state)
           match(status, out, copy) == Outcome(status, behind, out, lits, copy, "CODED")
           dec     == decode_huffman_code(in, history, space)
           all     == AllOf(in, r)
<1>1. dec = IF syms > Len(loaded.read) THEN again
            ELSE CASE symbol.kind = "lit" -> after(full, "CODED")
                   [] symbol.kind = "eob" -> after(full, AfterBlock)
                   [] symbol.kind = "len" ->
                        IF extra.read = <<>> THEN again
                        ELSE IF Head(extra.read).kind # "dist"
                        THEN match("INVALID_SYMBOL", written, NoCopy)
                        ELSE IF dist > Len(history) + Len(written)
                        THEN match("INVALID_LOOKBACK", written, NoCopy)
                        ELSE IF room < symbol.value
                        THEN match("OUT_OVERFLOW", copied, rest_of)
                        ELSE match("OK", copied, NoCopy)
                   [] OTHER -> after("INVALID_SYMBOL", "CODED")
  BY DEF decode_huffman_code
<1> HIDE DEF dec
<1>2. /\ InputOK(loaded) /\ Len(loaded.read) \in Nat /\ loaded.read \in Seq(FileUnits)
      /\ AllOf(loaded, r) = all
  BY LoadOK, LoadJoins DEF InputOK
<1> HIDE DEF loaded, all
<1>3. syms \in 1 .. 3
  BY <1>2, SymCountOK DEF MaxLits
<1>4. LooksAgain(again, all, AllOf(again.in, r))
  BY <1>2 DEF LooksAgain
<1>5. syms > Len(loaded.read) => LooksAgain(dec, all, AllOf(dec.in, r)) /\ dec.len0 = count
  <2> HIDE DEF again, after, match, symbol, lits, written, copied, room, dist, extra, full, syms
  <2>1. syms > Len(loaded.read) => dec = again
    BY ONLY <1>1, Zenon
  <2> QED
    BY <1>4, <2>1 DEF again
<1>6. ASSUME syms <= Len(loaded.read)
      PROVE  /\ dec.len0 = count
             /\ \/ LooksAgain(dec, all, AllOf(dec.in, r))
                \/ \E j \in 0 .. 3 :
                     \/ LooksLits(dec, all, AllOf(dec.in, r), space, j)
                     \/ LooksEnd(dec, all, AllOf(dec.in, r), space, j)
                     \/ LooksBad(dec, all, AllOf(dec.in, r), space, j)
                     \/ LooksInvalid(dec, all, AllOf(dec.in, r), history, space, j)
                     \/ LooksMatch(dec, all, AllOf(dec.in, r), history, space, j)
  <2>1. /\ all \in Seq(FileUnits) /\ syms <= Len(all) /\ AllOf(popped, r) = Drop(all, syms)
        /\ \A i \in 1 .. syms : all[i] = loaded.read[i] /\ all[i] \in FileUnits
    <3>1. syms \in Nat
      BY <1>3
    <3> QED
      BY <1>2, <1>6, <3>1, AllTaken
  <2>2. \A i \in 1 .. syms - 1 : loaded.read[i].kind = "lit"
    BY <1>2, <1>6, SymsLead
  <2>3. syms \in 1 .. syms /\ symbol = all[syms] /\ ~ (syms > Len(loaded.read))
    BY <1>2, <1>3, <1>6, <2>1, SMTT(60)
  <2> HIDE DEF syms
  <2> HIDE DEF symbol
  <2>4. /\ literal \in 0 .. 3 /\ literal <= syms
        /\ symbol.kind = "lit" => literal = syms
        /\ symbol.kind # "lit" => syms = literal + 1
    BY <1>3
  <2> HIDE DEF literal
  <2>5. LitRun(all, literal)
    <3>1. ASSUME NEW i \in 1 .. literal PROVE all[i].kind = "lit"
      <4>1. i \in 1 .. syms /\ (i = syms \/ i \in 1 .. syms - 1)
        BY <1>3, <2>4
      <4>2. i = syms => symbol.kind = "lit"
        BY <1>3, <2>4
      <4> QED
        BY <2>1, <2>2, <2>3, <4>1, <4>2
    <3> QED
      BY <1>3, <2>1, <2>4, <3>1 DEF LitRun
  <2>6. values = ValuesOf(all, literal)
    <3>1. \A i \in 1 .. literal : loaded.read[i] = all[i]
      BY <1>3, <2>1, <2>4
    <3> QED
      BY <3>1 DEF ValuesOf
  <2> HIDE DEF values
  <2>7. written = Written(all, literal, space) /\ lits = Drop(ValuesOf(all, literal), Least(space, literal))
    BY <2>6 DEF Written
  <2> HIDE DEF written, lits
  <2>8. InputOK(popped)
    <3>1. syms \in Nat /\ Len(loaded.read) - syms <= RegSize
      BY <1>2, <1>3, <1>6, InflateAssumption DEF InputOK
    <3>2. Drop(loaded.read, syms) \in Seq(FileUnits)
          /\ Len(Drop(loaded.read, syms)) = Len(loaded.read) - syms
      BY <1>2, <1>6, <3>1, Dropped
    <3> QED
      BY <1>2, <3>1, <3>2 DEF InputOK
  <2>9. InputOK(extra) /\ AllOf(extra, r) = Drop(all, syms)
    BY <2>1, <2>8, LoadOK, LoadJoins
  <2> HIDE DEF popped, extra
  <2>10. ASSUME extra.read # <<>>
         PROVE  /\ syms + 1 <= Len(all) /\ AllOf(behind, r) = Drop(all, syms + 1)
                /\ Head(extra.read) = all[syms + 1]
    <3>1. /\ 1 <= Len(extra.read) /\ Tail(extra.read) = Drop(extra.read, 1)
          /\ Head(extra.read) = extra.read[1]
      BY <2>9, <2>10 DEF InputOK, Drop
    <3>2. /\ 1 <= Len(AllOf(extra, r)) /\ AllOf(extra, r)[1] = extra.read[1]
          /\ AllOf([read |-> Drop(extra.read, 1), next |-> extra.next], r) = Drop(AllOf(extra, r), 1)
      <4>1. 1 \in Nat /\ 1 \in 1 .. 1
        OBVIOUS
      <4> QED
        BY <2>9, <3>1, <4>1, AllTaken, Zenon
    <3>3. PICK m \in Nat : m = Len(all) /\ syms <= m /\ syms \in Nat
      BY <1>3, <2>1
    <3>4. Follows(Drop(all, syms), FileUnits, all, syms, m)
      BY <2>1, <3>3, DroppedEach
    <3>5. 1 <= m - syms /\ 1 \in 1 .. m - syms
      BY <2>9, <3>2, <3>3, <3>4 DEF Follows
    <3>6. Drop(Drop(all, syms), 1) = Drop(all, syms + 1)
      <4>1. syms + 1 <= Len(all) /\ 1 \in Nat /\ syms \in Nat
        BY <3>3, <3>5
      <4> QED
        BY <2>1, <4>1, DropMore, Zenon
    <3>7. Drop(all, syms)[1] = all[syms + 1]
      BY <3>4, <3>5 DEF Follows
    <3>8. syms + 1 <= Len(all)
      BY <3>3, <3>5
    <3> QED
      BY <2>9, <3>1, <3>2, <3>6, <3>7, <3>8
  <2> HIDE DEF behind
  <2>14. CASE symbol.kind = "lit"
    <3> HIDE DEF again, match, room, copied, rest_of, dist
    <3>1. dec = after(full, "CODED")
      BY <1>1, <2>3, <2>14
    <3>2. /\ dec.ret = full /\ dec.in = popped /\ dec.out = written /\ dec.lits = lits
          /\ dec.copy = NoCopy /\ dec.block = "CODED" /\ dec.len0 = count
      BY <3>1
    <3>3. LooksLits(dec, all, AllOf(dec.in, r), space, literal)
      BY <2>1, <2>4, <2>5, <2>7, <2>14, <3>2 DEF LooksLits, popped
    <3> QED
      BY <2>4, <3>2, <3>3
  <2>15. CASE symbol.kind = "eob"
    <3> HIDE DEF again, match, room, copied, rest_of, dist
    <3>1. dec = after(full, AfterBlock)
      BY <1>1, <2>3, <2>15
    <3>2. /\ dec.ret = full /\ dec.in = popped /\ dec.out = written /\ dec.lits = lits
          /\ dec.copy = NoCopy /\ dec.block = AfterBlock /\ dec.len0 = count
      BY <3>1
    <3>3. LooksEnd(dec, all, AllOf(dec.in, r), space, literal)
      BY <2>1, <2>3, <2>4, <2>5, <2>7, <2>15, <3>2 DEF LooksEnd, LooksPast, popped
    <3> QED
      BY <2>4, <3>2, <3>3
  <2>16. CASE symbol.kind = "len"
    <3> HIDE DEF after, dist, room, copied, again
    <3>1. dec = IF extra.read = <<>> THEN again
                ELSE IF Head(extra.read).kind # "dist"
                THEN match("INVALID_SYMBOL", written, NoCopy)
                ELSE IF dist > Len(history) + Len(written)
                THEN match("INVALID_LOOKBACK", written, NoCopy)
                ELSE IF room < symbol.value THEN match("OUT_OVERFLOW", copied, rest_of)
                ELSE match("OK", copied, NoCopy)
      BY <1>1, <2>3, <2>16
    <3>2. CASE extra.read = <<>>
      <4>1. dec = again
        BY <3>1, <3>2
      <4> QED
        BY <1>4, <4>1 DEF again
    <3>3. ASSUME extra.read # <<>>
          PROVE  /\ dec.len0 = count
                 /\ \/ LooksInvalid(dec, all, AllOf(dec.in, r), history, space, literal)
                    \/ LooksMatch(dec, all, AllOf(dec.in, r), history, space, literal)
      <4>1. /\ literal + 2 <= Len(all) /\ AllOf(behind, r) = Drop(all, literal + 2)
            /\ Head(extra.read) = all[literal + 2] /\ symbol = all[literal + 1]
        <5>1. symbol.kind # "lit" /\ syms = literal + 1 /\ syms + 1 = literal + 2
          BY <2>4, <2>16
        <5> QED
          BY <2>3, <2>10, <3>3, <5>1
      <4>2. dist = all[literal + 2].value
        BY <4>1 DEF dist
      <4>3. room = Room(all, literal, space)
        BY <2>7, <4>1 DEF Room, room
      <4>4. copied = Written(all, literal, space) \o
                     Copied(history \o Written(all, literal, space), dist, Room(all, literal, space))
        BY <2>7, <4>3 DEF copied
      <4>5. ASSUME NEW status, NEW out, NEW copy, dec = match(status, out, copy)
            PROVE  /\ dec.ret = status /\ dec.out = out /\ dec.copy = copy /\ dec.len0 = count
                   /\ LooksBack(dec, all, AllOf(dec.in, r), space, literal)
        BY <2>5, <2>7, <2>16, <4>1, <4>5 DEF LooksBack
      <4>6. CASE Head(extra.read).kind # "dist"
        <5>1. dec = match("INVALID_SYMBOL", written, NoCopy)
          BY <3>1, <3>3, <4>6
        <5> HIDE DEF match
        <5> QED
          BY <2>7, <4>1, <4>5, <4>6, <5>1 DEF LooksInvalid
      <4>7. CASE Head(extra.read).kind = "dist" /\ dist > Len(history) + Len(written)
        <5>1. dec = match("INVALID_LOOKBACK", written, NoCopy)
          BY <3>1, <3>3, <4>7
        <5> HIDE DEF match
        <5> QED
          BY <2>7, <4>1, <4>2, <4>5, <4>7, <5>1 DEF LooksInvalid
      <4>8. CASE Head(extra.read).kind = "dist" /\ ~ (dist > Len(history) + Len(written))
        <5>0. Len(history) + Len(written) \in Nat /\ dist \in Nat
          <6>1. all[literal + 2] \in FileUnits /\ literal \in Nat /\ literal <= Len(all)
            BY <2>1, <2>4, <4>1
          <6>2. ValuesOf(all, literal) \in Seq(Nat) /\ Len(ValuesOf(all, literal)) = literal
            <7>1. literal \in 0 .. Len(all)
              BY <2>1, <2>4, <6>1
            <7> QED
              BY <2>1, <7>1, ValuesOK, Zenon DEF ValuesOf
          <6>3. Least(space, literal) \in 0 .. Len(ValuesOf(all, literal))
            BY <6>1, <6>2 DEF Least
          <6>4. Len(written) \in Nat
            BY <2>7, <6>2, <6>3, Taken1 DEF Written
          <6>5. all[literal + 2].value \in Nat
            BY <6>1, UnitFacts
          <6> QED
            BY <4>2, <6>4, <6>5
        <5>1. dec = IF room < symbol.value THEN match("OUT_OVERFLOW", copied, rest_of)
                    ELSE match("OK", copied, NoCopy)
          BY <3>1, <3>3, <4>8
        <5>2. dist <= Len(history) + Len(written)
          BY <4>8, <5>0
        <5> HIDE DEF match
        <5>3. CASE room < symbol.value
          <6>1. dec = match("OUT_OVERFLOW", copied, rest_of)
            BY <5>1, <5>3
          <6>2. rest_of = [len |-> all[literal + 1].value - Room(all, literal, space), dist |-> all[literal + 2].value]
            BY <4>1, <4>2, <4>3
          <6> HIDE DEF rest_of
          <6>3. /\ dec.ret = "OUT_OVERFLOW" /\ dec.out = copied /\ dec.copy = rest_of
                /\ dec.len0 = count /\ LooksBack(dec, all, AllOf(dec.in, r), space, literal)
            BY <4>5, <6>1
          <6> QED
            BY <2>7, <4>1, <4>2, <4>3, <4>4, <4>8, <5>2, <5>3, <6>2, <6>3 DEF LooksMatch
        <5>4. CASE ~ (room < symbol.value)
          <6>1. dec = match("OK", copied, NoCopy)
            BY <5>1, <5>4
          <6> HIDE DEF rest_of
          <6> QED
            BY <2>7, <4>1, <4>2, <4>3, <4>4, <4>5, <4>8, <5>2, <5>4, <6>1 DEF LooksMatch
        <5> QED
          BY <5>3, <5>4
      <4> QED
        BY <4>6, <4>7, <4>8
    <3> QED
      BY <2>4, <3>2, <3>3
  <2>17. CASE symbol.kind \notin {"lit", "eob", "len"}
    <3> HIDE DEF again, match, room, copied, rest_of, dist
    <3>1. dec = after("INVALID_SYMBOL", "CODED")
      BY <1>1, <2>3, <2>17
    <3>2. /\ dec.ret = "INVALID_SYMBOL" /\ dec.in = popped /\ dec.out = written /\ dec.lits = lits
          /\ dec.copy = NoCopy /\ dec.block = "CODED" /\ dec.len0 = count
      BY <3>1
    <3>3. LooksBad(dec, all, AllOf(dec.in, r), space, literal)
      BY <2>1, <2>3, <2>4, <2>5, <2>7, <2>17, <3>2 DEF LooksBad, LooksPast, popped
    <3> QED
      BY <2>4, <3>2, <3>3
  <2> QED
    BY <2>14, <2>15, <2>16, <2>17
<1>7. syms > Len(loaded.read) \/ syms <= Len(loaded.read)
  BY <1>2, <1>3
<1> QED
  BY <1>5, <1>6, <1>7 DEF dec, all

LEMMA DropNone ==
  ASSUME NEW S, NEW s \in Seq(S)
  PROVE  Drop(s, 0) = s /\ <<>> \o s = s
BY DEF Drop

LEMMA DropEmpties ==
  ASSUME NEW S, NEW s \in Seq(S)
  PROVE  Drop(s, Len(s)) = <<>>
BY DEF Drop

(* The first k units come from read_in, and from next_in behind it.        *)
LEMMA BothTaken ==
  ASSUME NEW in, InputOK(in), NEW r \in Seq(FileUnits), NEW k \in Nat,
         k <= Len(in.read) + Len(in.next)
  PROVE  LET bytes == Len(in.read)
             left  == [read |-> Drop(in.read, Least(k, bytes)),
                       next |-> Drop(in.next, IF k > bytes THEN k - bytes ELSE 0)]
         IN  AllOf(left, r) = Drop(AllOf(in, r), k) /\ k <= Len(AllOf(in, r))
<1>1. PICK read \in Seq(FileUnits), next \in Seq(FileUnits) : in.read = read /\ in.next = next
  BY DEF InputOK
<1>2. PICK b \in Nat, c \in Nat : b = Len(read) /\ c = Len(next) /\ k <= b + c
  BY <1>1
<1> DEFINE left == [read |-> Drop(read, Least(k, b)), next |-> Drop(next, IF k > b THEN k - b ELSE 0)]
<1>3. ASSUME k <= b
      PROVE  AllOf(left, r) = Drop(AllOf(in, r), k) /\ k <= Len(AllOf(in, r))
  <2>1. Least(k, b) = k /\ ~ (k > b)
    BY <1>2, <1>3 DEF Least
  <2>2. left = [read |-> Drop(in.read, k), next |-> in.next]
    BY <1>1, <2>1, DropNone
  <2>3. k <= Len(in.read)
    BY <1>1, <1>2, <1>3
  <2>4. /\ k <= Len(AllOf(in, r))
        /\ AllOf([read |-> Drop(in.read, k), next |-> in.next], r) = Drop(AllOf(in, r), k)
    BY <2>3, AllTaken, Zenon
  <2> HIDE DEF left
  <2> QED
    BY <2>2, <2>4
<1>4. ASSUME ~ (k <= b)
      PROVE  AllOf(left, r) = Drop(AllOf(in, r), k) /\ k <= Len(AllOf(in, r))
  <2>1. PICK m \in Nat : m = k - b /\ k = b + m /\ m <= c /\ k > b /\ Least(k, b) = b
    <3>1. k - b \in Nat /\ k = b + (k - b) /\ k - b <= c /\ k > b /\ Least(k, b) = b
      BY <1>2, <1>4 DEF Least
    <3> QED
      BY <3>1
  <2>2. left.read = <<>> /\ left.next = Drop(next, m)
    BY <1>2, <2>1, DropEmpties
  <2>3. PICK more \in Seq(FileUnits) : more = next \o r
    BY Joined
  <2>4. Drop(next, m) \in Seq(FileUnits) /\ Drop(next, m) \o r = Drop(more, m)
    <3>1. Drop(next, m) \in Seq(FileUnits)
      BY DroppedAny
    <3>2. m <= Len(next)
      BY <1>2, <2>1
    <3>3. Drop(next, m) \o r = Drop(next \o r, m)
      BY <3>2, DropFront
    <3> QED
      BY <2>3, <3>1, <3>3
  <2>5. Drop(more, m) \in Seq(FileUnits)
    BY DroppedAny
  <2>6. AllOf(left, r) = Drop(more, m)
    BY <2>2, <2>4, <2>5, DropNone DEF AllOf
  <2>7. AllOf(in, r) = read \o more /\ read \o more \in Seq(FileUnits)
    BY <1>1, <2>3, Joined DEF AllOf
  <2>8. Len(read \o more) = b + Len(more) /\ Len(more) = c + Len(r)
    BY <1>2, <2>3
  <2>9. k <= Len(read \o more)
    <3>1. PICK x \in Nat, y \in Nat : x = Len(r) /\ y = Len(more)
      OBVIOUS
    <3> QED
      BY <1>2, <2>1, <2>8, <3>1
  <2>10. Drop(read \o more, b) = more
    <3>1. Drop(read, b) \o more = Drop(read \o more, b)
      <4>1. b <= Len(read)
        BY <1>2
      <4> QED
        BY <4>1, DropFront
    <3> QED
      BY <1>2, <3>1, DropEmpties, DropNone
  <2>11. Drop(Drop(read \o more, b), m) = Drop(read \o more, b + m)
    <3>1. b + m <= Len(read \o more)
      BY <2>1, <2>9
    <3> QED
      BY <2>7, <3>1, DropMore, Zenon
  <2> QED
    BY <1>1, <1>2, <2>1, <2>6, <2>7, <2>9, <2>10, <2>11
<1> QED
  BY <1>1, <1>2, <1>3, <1>4

LEMMA StoredTakes ==
  ASSUME NEW in, InputOK(in), NEW space \in Nat, count \in Nat, NEW r \in Seq(FileUnits)
  PROVE  LET dec == decode_literal_block(in, space)
             all == AllOf(in, r)
         IN  \E n \in 0 .. count :
               /\ n <= Len(all) /\ AllOf(dec.in, r) = Drop(all, n)
               /\ dec.out = ValuesOf(all, n) /\ dec.lits = <<>> /\ dec.copy = NoCopy
               /\ dec.len0 = count - n /\ dec.block = IF n < count THEN "TYPE0" ELSE AfterBlock
               /\ dec.ret \in {"OK", "OUT_OVERFLOW", "END_INPUT"}
<1>1. PICK read \in Seq(FileUnits), next \in Seq(FileUnits) : in.read = read /\ in.next = next
  BY DEF InputOK
<1>2. PICK b \in Nat, c \in Nat : b = Len(read) /\ c = Len(next)
  OBVIOUS
<1> DEFINE n     == Least(count, Least(space, b + c))
           left  == [read |-> Drop(read, Least(n, b)), next |-> Drop(next, IF n > b THEN n - b ELSE 0)]
           state == IF n < count THEN "TYPE0" ELSE AfterBlock
           data  == Take(read \o next, n)
           dec   == decode_literal_block(in, space)
           all   == AllOf(in, r)
<1>3. n \in 0 .. count /\ n <= b + c /\ n \in Nat
  BY DEF Least
<1>4. dec = [ret   |-> IF left.read \o left.next = <<>> /\ state # "INPUT_DONE" THEN "END_INPUT"
                       ELSE IF space = n /\ n < count THEN "OUT_OVERFLOW" ELSE "OK",
             in    |-> left, out |-> [i \in DOMAIN data |-> data[i].value],
             lits  |-> <<>>, copy |-> NoCopy, block |-> state, len0 |-> count - n]
  BY <1>1, <1>2 DEF decode_literal_block
<1> HIDE DEF n
<1>5. AllOf(left, r) = Drop(all, n) /\ n <= Len(all)
  BY <1>1, <1>2, <1>3, BothTaken, ZenonT(60)
<1>6. data \in Seq(FileUnits) /\ Len(data) = n /\ \A i \in 1 .. n : data[i] = all[i]
  <2>1. PICK s \in Seq(FileUnits) : s = read \o next /\ Len(s) = b + c
    BY <1>2, Joined
  <2>2. all = s \o r
    <3>1. (read \o next) \o r = read \o (next \o r)
      OBVIOUS
    <3> QED
      BY <1>1, <2>1, <3>1 DEF AllOf
  <2>3. \A i \in 1 .. Len(s) : (s \o r)[i] = s[i]
    OBVIOUS
  <2>4. n <= Len(s)
    BY <1>3, <2>1
  <2>5. Take(s, n) \in Seq(FileUnits) /\ Len(Take(s, n)) = n /\ \A i \in 1 .. n : Take(s, n)[i] = s[i]
    BY <1>3, <2>4 DEF Take
  <2>6. data = Take(s, n)
    BY <2>1
  <2>7. data \in Seq(FileUnits) /\ Len(data) = n
    BY <2>5, <2>6
  <2>8. \A i \in 1 .. n : data[i] = s[i]
    BY <2>5, <2>6
  <2>9. \A i \in 1 .. n : i \in 1 .. Len(s)
    BY <1>3, <2>4
  <2> HIDE DEF data, all
  <2>10. \A i \in 1 .. n : data[i] = all[i]
    BY <2>2, <2>3, <2>8, <2>9
  <2> QED
    BY <2>7, <2>10
<1>7. [i \in DOMAIN data |-> data[i].value] = ValuesOf(all, n)
  <2>1. DOMAIN data = 1 .. n
    BY <1>3, <1>6
  <2> HIDE DEF data
  <2> QED
    BY <1>6, <2>1 DEF ValuesOf
<1> HIDE DEF left, data, all
<1>8. /\ dec.in = left /\ dec.out = ValuesOf(all, n) /\ dec.lits = <<>> /\ dec.copy = NoCopy
      /\ dec.len0 = count - n /\ dec.block = state /\ dec.ret \in {"OK", "OUT_OVERFLOW", "END_INPUT"}
  BY <1>4, <1>7
<1> HIDE DEF dec
<1>9. /\ n <= Len(all) /\ AllOf(dec.in, r) = Drop(all, n)
      /\ dec.out = ValuesOf(all, n) /\ dec.lits = <<>> /\ dec.copy = NoCopy
      /\ dec.len0 = count - n /\ dec.block = IF n < count THEN "TYPE0" ELSE AfterBlock
      /\ dec.ret \in {"OK", "OUT_OVERFLOW", "END_INPUT"}
  BY <1>5, <1>8
<1> QED
  BY <1>3, <1>9 DEF dec, all

LEMMA DropBehind ==
  ASSUME NEW a \in Seq(FileUnits), NEW x \in Seq(FileUnits), NEW k \in Nat, k <= Len(x)
  PROVE  Drop(a \o x, Len(a) + k) = Drop(x, k) /\ Len(a) + k <= Len(a \o x)
<1>1. PICK n \in Nat, m \in Nat : n = Len(a) /\ m = Len(x) /\ k <= m
  OBVIOUS
<1>2. PICK all \in Seq(FileUnits) : all = a \o x
  BY Joined
<1>3. Len(all) = n + m
  BY <1>1, <1>2, Joined
<1>4. Drop(all, n) = x
  <2>1. n <= Len(a)
    BY <1>1
  <2>2. Drop(a, n) \o x = Drop(a \o x, n)
    BY <2>1, DropFront
  <2> QED
    BY <1>1, <1>2, <2>2, DropEmpties, DropNone
<1>5. n + k <= Len(all)
  BY <1>1, <1>3
<1>6. Drop(Drop(all, n), k) = Drop(all, n + k)
  BY <1>5, DropMore, Zenon
<1> QED
  BY <1>1, <1>2, <1>4, <1>5, <1>6

(* The units from the m-th, k of them, are the same whatever follows.      *)
AlikeFrom(a, all, m, k) ==
  /\ Take(Drop(a, m), k) = Take(Drop(all, m), k)
  /\ k <= Len(Drop(all, m)) /\ m + k <= Len(all)
  /\ \A i \in 1 .. m + k : all[i] = a[i]

LEMMA PrefixSame ==
  ASSUME NEW a \in Seq(FileUnits), NEW x \in Seq(FileUnits), NEW m \in Nat, NEW k \in Nat, m + k <= Len(a)
  PROVE  AlikeFrom(a, a \o x, m, k)
<1>1. PICK n \in Nat, l \in Nat : n = Len(a) /\ l = Len(x) /\ m + k <= n /\ m <= n
  OBVIOUS
<1>2. PICK all : all = a \o x
  OBVIOUS
<1>3. all \in Seq(FileUnits) /\ Len(all) = n + l /\ \A i \in 1 .. n : all[i] = a[i]
  <2>1. InTurn(all, FileUnits, a, n, x, l)
    BY <1>1, <1>2, JoinedEach
  <2> QED
    BY <2>1 DEF InTurn
<1>4. PICK v : v = Drop(a, m)
  OBVIOUS
<1>5. v \in Seq(FileUnits) /\ Len(v) = n - m /\ \A i \in 1 .. n - m : v[i] = a[m + i]
  <2>1. Follows(v, FileUnits, a, m, n)
    BY <1>1, <1>4, DroppedEach
  <2> QED
    BY <2>1 DEF Follows
<1>6. PICK w : w = Drop(all, m)
  OBVIOUS
<1>7. w \in Seq(FileUnits) /\ Len(w) = (n + l) - m /\ \A i \in 1 .. (n + l) - m : w[i] = all[m + i]
  <2>1. Follows(w, FileUnits, all, m, n + l)
    BY <1>1, <1>3, <1>6, DroppedEach
  <2> QED
    BY <2>1 DEF Follows
<1>8. ASSUME NEW i \in 1 .. k PROVE v[i] = w[i]
  <2>1. i \in 1 .. n - m /\ i \in 1 .. (n + l) - m /\ m + i \in 1 .. n
    BY <1>1
  <2> QED
    BY <1>3, <1>5, <1>7, <2>1
<1>9. k <= Len(v) /\ k <= Len(w) /\ m + k <= Len(all)
  BY <1>1, <1>3, <1>5, <1>7
<1>10. Take(v, k) = Take(w, k)
  <2>1. /\ Take(v, k) \in Seq(FileUnits) /\ Len(Take(v, k)) = k
        /\ \A i \in 1 .. k : Take(v, k)[i] = v[i]
    BY <1>5, <1>9 DEF Take
  <2>2. /\ Take(w, k) \in Seq(FileUnits) /\ Len(Take(w, k)) = k
        /\ \A i \in 1 .. k : Take(w, k)[i] = w[i]
    BY <1>7, <1>9 DEF Take
  <2>3. Len(Take(v, k)) = Len(Take(w, k)) /\ \A i \in 1 .. Len(Take(v, k)) : Take(v, k)[i] = Take(w, k)[i]
    BY <1>8, <2>1, <2>2
  <2> QED
    BY <2>1, <2>2, <2>3, SameSeq
<1>11. \A i \in 1 .. m + k : all[i] = a[i]
  BY <1>1, <1>3
<1> QED
  BY <1>2, <1>4, <1>6, <1>9, <1>10, <1>11 DEF AlikeFrom

(* All that is coming: what read_in holds, what waits, and the input.      *)
ComingOf(read, tmp, next, r) == read \o (tmp \o (next \o r))

HeaderTaken(all, in, hdr, r) ==
  /\ hdr.ret = "END_INPUT" =>
       /\ ComingOf(hdr.in.read, hdr.tmp_in, hdr.in.next, r) = all
       /\ hdr.bfinal = bfinal /\ hdr.len0 = count
       /\ hdr.block = "HDR" /\ Short(hdr.in.read \o hdr.tmp_in)
  /\ hdr.ret # "END_INPUT" =>
       /\ HeaderSize(all) \in 1 .. 3 /\ HeaderSize(all) <= Len(all)
       /\ ComingOf(hdr.in.read, hdr.tmp_in, hdr.in.next, r) = Drop(all, HeaderSize(all))
  /\ hdr.ret = "OK" =>
       /\ all[1].kind \in DOMAIN HeaderUnits /\ hdr.bfinal = all[1].value % 2
       /\ hdr.block = IF all[1].kind = "stored" THEN "TYPE0" ELSE "CODED"
       /\ hdr.len0 = IF all[1].kind = "stored" THEN all[2].value ELSE count
  /\ hdr.ret = "INVALID_BLOCK" => all[1].kind \notin DOMAIN HeaderUnits /\ hdr.block = block_state
  /\ hdr.ret \in {"OK", "END_INPUT", "INVALID_BLOCK"}

(* The order in which sequences are put together does not matter.          *)
Together(a, b, c) == (a \o b) \o c = a \o (b \o c)
Pair(a, b) == a \o b

LEMMA PutTogether ==
  ASSUME NEW a \in Seq(FileUnits), NEW b \in Seq(FileUnits), NEW c \in Seq(FileUnits)
  PROVE  Together(a, b, c)
BY DEF Together

LEMMA PairOK ==
  ASSUME NEW a \in Seq(FileUnits), NEW b \in Seq(FileUnits)
  PROVE  Pair(a, b) \in Seq(FileUnits)
BY DEF Pair

FourTogether(a, b, c, d)    == (a \o b) \o (c \o d) = a \o (b \o (c \o d))
FiveTogether(a, b, c, d, e) == (a \o (b \o c)) \o (d \o e) = a \o (b \o ((c \o d) \o e))

LEMMA FourParts ==
  ASSUME NEW a \in Seq(FileUnits), NEW b \in Seq(FileUnits), NEW c \in Seq(FileUnits),
         NEW d \in Seq(FileUnits)
  PROVE  FourTogether(a, b, c, d)
<1>1. Together(a, b, Pair(c, d))
  BY PutTogether, PairOK, Zenon
<1> QED
  BY <1>1, Zenon DEF Together, Pair, FourTogether

LEMMA FiveParts ==
  ASSUME NEW a \in Seq(FileUnits), NEW b \in Seq(FileUnits), NEW c \in Seq(FileUnits),
         NEW d \in Seq(FileUnits), NEW e \in Seq(FileUnits)
  PROVE  FiveTogether(a, b, c, d, e)
<1>1. Together(c, d, e)
  BY PutTogether, Zenon
<1>2. Together(a, Pair(b, c), Pair(d, e))
  BY PutTogether, PairOK, Zenon
<1>3. Together(b, c, Pair(d, e))
  BY PutTogether, PairOK, Zenon
<1>4. (a \o (b \o c)) \o (d \o e) = a \o ((b \o c) \o (d \o e))
  BY <1>2, Zenon DEF Together, Pair
<1>5. (b \o c) \o (d \o e) = b \o (c \o (d \o e))
  BY <1>3, Zenon DEF Together, Pair
<1> QED
  BY <1>1, <1>4, <1>5, Zenon DEF Together, FiveTogether

LEMMA HeaderTakes ==
  ASSUME NEW in, InputOK(in), tmp_in \in Seq(FileUnits), Len(tmp_in) <= HdrSize,
         block_state \in {"NEW_HDR", "HDR"}, block_state # "HDR" => tmp_in = <<>>,
         block_state = "HDR" => Short(in.read \o tmp_in), NEW r \in Seq(FileUnits)
  PROVE  HeaderTaken(ComingOf(in.read, tmp_in, in.next, r), in, read_header_stateful(in), r)
<1> DEFINE units == in.read \o HeaderInput(in)
           first == Head(units)
           known == first.kind \in DOMAIN HeaderUnits
           size  == IF known THEN HeaderUnits[first.kind] ELSE 1
           reg   == Take(Drop(units, size), Least(RegSize - 1, Len(units) - size))
           taken == size + Len(reg) - Len(in.read) - Len(tmp_in)
           left  == [read |-> reg, next |-> Drop(in.next, IF taken < 0 THEN 0 ELSE taken)]
           short == [ret |-> "END_INPUT", in |-> [in EXCEPT !.next = <<>>],
                     tmp_in |-> tmp_in \o in.next, block |-> "HDR", bfinal |-> bfinal,
                     len0 |-> count]
           whole == [ret |-> "OK", in |-> left, tmp_in |-> <<>>, bfinal |-> first.value % 2,
                     block |-> IF first.kind = "stored" THEN "TYPE0" ELSE "CODED",
                     len0 |-> IF first.kind = "stored" THEN units[2].value ELSE count]
           wrong == [whole EXCEPT !.ret = "INVALID_BLOCK", !.block = block_state]
           hdr   == read_header_stateful(in)
           most  == Least(HdrSize - Len(tmp_in), Len(in.next))
           all   == ComingOf(in.read, tmp_in, in.next, r)
<1>1. PICK read \in Seq(FileUnits), next \in Seq(FileUnits) :
        in = [read |-> read, next |-> next] /\ in.read = read /\ in.next = next /\ Len(read) <= RegSize
  BY DEF InputOK
<1>2. PICK R \in Nat, T \in Nat, N \in Nat :
        R = Len(read) /\ T = Len(tmp_in) /\ N = Len(next) /\ R <= RegSize /\ T <= HdrSize
  BY <1>1
<1>3. RegSize \in Nat /\ RegSize >= 3 /\ HdrSize \in Nat /\ HdrSize >= 3
  BY InflateAssumption, FilesAssumption, LookupAssumption DEF MaxLits
<1>4. hdr = IF Short(units) THEN short ELSE IF known THEN whole ELSE wrong
  <2>1. hdr = IF units = <<>> THEN short
              ELSE IF Len(units) < size THEN short
              ELSE IF known THEN whole ELSE wrong
    BY DEF read_header_stateful
  <2>2. Short(units) <=> units = <<>> \/ Len(units) < size
    BY DEF Short, HeaderSize
  <2> HIDE DEF hdr, units, short, whole, wrong, size, known
  <2> QED
    BY <2>1, <2>2
<1>5. PICK front \in Seq(FileUnits), back \in Seq(FileUnits) :
        /\ units = front /\ all = front \o back
        /\ Len(front) <= R + T + N /\ R <= Len(front)
        /\ Len(front) >= R + T \/ block_state # "HDR"
  <2>1. CASE block_state # "HDR"
    <3>1. HeaderInput(in) = next /\ tmp_in = <<>> /\ T = 0
      BY <1>1, <1>2, <2>1 DEF HeaderInput
    <3>2. read \o next \in Seq(FileUnits) /\ Len(read \o next) = R + N
      BY <1>2, Joined
    <3>3. (read \o next) \o r = read \o (next \o r) /\ next \o r \in Seq(FileUnits)
      OBVIOUS
    <3>4. all = (read \o next) \o r
      BY <1>1, <3>1, <3>3, DropNone DEF ComingOf
    <3>5. units = read \o next
      BY <1>1, <3>1
    <3> HIDE DEF all, units
    <3>6. R + N <= R + T + N /\ R <= R + N
      BY <3>1
    <3> QED
      BY <2>1, <3>2, <3>4, <3>5, <3>6
  <2>2. CASE block_state = "HDR"
    <3>1. most \in Nat /\ most <= N
      <4>1. HdrSize - Len(tmp_in) \in Nat
        BY <1>2, <1>3
      <4> QED
        BY <1>1, <1>2, <4>1, LeastOf
    <3>2. HeaderInput(in) = tmp_in \o Take(next, most)
      BY <1>1, <2>2 DEF HeaderInput
    <3> HIDE DEF most
    <3> DEFINE a == Take(next, most)
               b == Drop(next, most)
    <3>3. a \in Seq(FileUnits) /\ b \in Seq(FileUnits) /\ Len(a) = most /\ a \o b = next
      BY <1>2, <3>1, SplitWhole
    <3> HIDE DEF a, b
    <3>4. /\ tmp_in \o a \in Seq(FileUnits) /\ Len(tmp_in \o a) = T + most
          /\ read \o (tmp_in \o a) \in Seq(FileUnits) /\ b \o r \in Seq(FileUnits)
      <4>1. tmp_in \o a \in Seq(FileUnits) /\ Len(tmp_in \o a) = Len(tmp_in) + Len(a)
        BY <3>3, Joined
      <4> QED
        BY <1>2, <3>3, <4>1, Joined
    <3>5. Len(read \o (tmp_in \o a)) = R + (T + most)
      BY <1>2, <3>4, Joined
    <3>6. (read \o (tmp_in \o a)) \o (b \o r) = read \o (tmp_in \o ((a \o b) \o r))
      <4>1. a \in Seq(FileUnits) /\ b \in Seq(FileUnits)
        BY <3>3
      <4>2. FiveTogether(read, tmp_in, a, b, r)
        BY <4>1, FiveParts, Zenon
      <4> QED
        BY <4>2, Zenon DEF FiveTogether
    <3>7. all = (read \o (tmp_in \o a)) \o (b \o r)
      BY <1>1, <3>3, <3>6 DEF ComingOf
    <3>8. units = read \o (tmp_in \o a)
      BY <1>1, <3>2 DEF a
    <3> HIDE DEF all, units
    <3>9. R + (T + most) <= R + T + N /\ R <= R + (T + most) /\ R + (T + most) >= R + T
      BY <3>1
    <3> QED
      BY <3>4, <3>5, <3>7, <3>8, <3>9
  <2> QED
    BY <2>1, <2>2
<1>6. HeaderWaitsFor(in, hdr)
  BY HeaderWaits
<1>7. CASE Short(units)
  <2>1. hdr = short
    BY <1>4, <1>7
  <2> HIDE DEF hdr, units
  <2>2. /\ hdr.ret = "END_INPUT" /\ hdr.in.read = read /\ hdr.in.next = <<>> /\ hdr.tmp_in = tmp_in \o next
        /\ hdr.bfinal = bfinal /\ hdr.len0 = count
    BY <1>1, <2>1
  <2>3. ComingOf(read, tmp_in \o next, <<>>, r) = all
    <3>1. <<>> \o r = r /\ (tmp_in \o next) \o r = tmp_in \o (next \o r)
      BY SMTT(60)
    <3> QED
      BY <1>1, <3>1 DEF ComingOf
  <2> HIDE DEF all, short
  <2> QED
    BY <1>6, <2>2, <2>3 DEF HeaderTaken, HeaderWaitsFor, all, hdr
<1>8. CASE ~ Short(units)
  <2> HIDE DEF hdr, units, first, known, size, all
  <2>1. front # <<>> /\ size = HeaderSize(front) /\ size <= Len(front) /\ first = front[1]
        /\ size \in 1 .. 3 /\ (known <=> front[1].kind \in DOMAIN HeaderUnits)
    <3>1. units # <<>> /\ ~ (Len(units) < HeaderSize(units)) /\ size = HeaderSize(units)
      BY <1>8 DEF Short, HeaderSize, size, known, first
    <3>2. size \in 1 .. 3
      BY DEF HeaderUnits, size, known
    <3>3. units = front /\ first = Head(units)
      BY <1>5 DEF first
    <3>4. first = front[1]
      BY <3>1, <3>3
    <3> QED
      BY <3>1, <3>2, <3>3, <3>4 DEF known
  <2>2. PICK L \in Nat : L = Len(front) /\ L >= 1 /\ size <= L /\ size \in Nat
    <3>1. Len(front) \in Nat /\ size \in Nat /\ size >= 1
      BY <2>1
    <3>2. Len(front) >= 1 /\ size <= Len(front)
      BY <2>1, <3>1
    <3> QED
      BY <3>1, <3>2
  <2>3. all \in Seq(FileUnits) /\ L <= Len(all) /\ \A i \in 1 .. L : all[i] = front[i]
    <3>1. front \o back \in Seq(FileUnits) /\ Len(front \o back) = Len(front) + Len(back)
          /\ \A i \in 1 .. Len(front) : (front \o back)[i] = front[i]
      OBVIOUS
    <3> HIDE DEF all
    <3> QED
      BY <1>5, <2>2, <3>1
  <2>4. HeaderSize(all) = size /\ all[1] = first /\ (size >= 2 => all[2] = units[2])
    <3>1. all[1] = front[1] /\ (size >= 2 => all[2] = front[2])
      BY <2>2, <2>3
    <3>2. Head(all) = all[1] /\ Head(front) = front[1]
      BY <2>1, <2>2, <2>3
    <3> HIDE DEF all, size, units
    <3>3. HeaderSize(all) = HeaderSize(front)
      BY <3>1, <3>2 DEF HeaderSize
    <3> QED
      BY <1>5, <2>1, <3>1, <3>3
  <2>5. first.kind = "stored" => size = 2
    BY DEF HeaderUnits, size, known
  <2> DEFINE g == Least(RegSize - 1, L - size)
  <2>6. /\ g \in Nat /\ g <= L - size /\ g <= RegSize - 1 /\ (g = L - size \/ g = RegSize - 1)
    <3>1. RegSize - 1 \in Nat /\ L - size \in Nat
      BY <1>3, <2>2
    <3> QED
      BY <3>1, LeastOf
  <2>7. reg = Take(Drop(front, size), g)
    <3>1. units = front
      BY <1>5
    <3> QED
      BY <2>2, <3>1
  <2> HIDE DEF g, reg
  <2>8. Len(reg) = g /\ size + g <= L /\ g <= L - size
    <3>1. Drop(front, size) \in Seq(FileUnits) /\ Len(Drop(front, size)) = L - size
      BY <2>2, Dropped
    <3>2. g \in 0 .. Len(Drop(front, size))
      BY <2>6, <3>1
    <3>3. Len(Take(Drop(front, size), g)) = g
      BY <3>1, <3>2, Taken1
    <3> QED
      BY <2>2, <2>6, <2>7, <3>3
  <2>9. taken = (size + g) - R - T
    <3>1. taken = size + Len(reg) - Len(in.read) - Len(tmp_in)
      BY DEF taken
    <3>2. Len(reg) = g /\ Len(in.read) = R /\ Len(tmp_in) = T
      BY <1>1, <1>2, <2>8
    <3> QED
      BY <2>2, <2>6, <3>1, <3>2
  <2> HIDE DEF taken
  <2>10. R + T <= size + g
    <3>1. CASE g = L - size /\ L >= R + T
      BY <2>2, <3>1
    <3>2. CASE block_state # "HDR"
      <4>1. T = 0 /\ R <= L
        BY <1>2, <1>5, <2>2, <3>2
      <4>2. RegSize - 1 >= 2
        BY <1>3
      <4>3. size >= 1
        BY <2>1
      <4>4. R <= RegSize
        BY <1>2
      <4>5. CASE g = L - size
        BY <2>2, <4>1, <4>5
      <4>6. CASE g = RegSize - 1
        BY <1>3, <2>2, <4>1, <4>3, <4>4, <4>6
      <4> QED
        BY <2>6, <4>5, <4>6
    <3>3. CASE block_state = "HDR" /\ g = RegSize - 1
      <4>1. Short(read \o tmp_in) /\ read \o tmp_in \in Seq(FileUnits) /\ Len(read \o tmp_in) = R + T
        BY <1>1, <1>2, <3>3, Joined
      <4>2. R + T < 3
        BY <4>1, HeaderSizes
      <4> QED
        <5>1. size >= 1 /\ RegSize - 1 >= 2
          BY <1>3, <2>1
        <5> QED
          BY <1>3, <2>2, <3>3, <4>2, <5>1
    <3> QED
      BY <1>5, <2>2, <2>6, <3>1, <3>2, <3>3
  <2>11. PICK t \in Nat : t = taken /\ R + T + t = size + g /\ ~ (t < 0) /\ t <= N
    <3>1. (size + g) - R - T \in Nat /\ R + T + ((size + g) - R - T) = size + g
          /\ (size + g) - R - T <= N
      BY <1>5, <2>2, <2>6, <2>8, <2>10
    <3> QED
      BY <2>9, <3>1
  <2>12. left.read = reg /\ left.next = Drop(next, t)
    BY <1>1, <2>11
  <2> HIDE DEF left
  <2>13. Drop(all, size + g) = Drop(next, t) \o r
    <3>1. read \o tmp_in \in Seq(FileUnits) /\ Len(read \o tmp_in) = R + T /\ next \o r \in Seq(FileUnits)
      BY <1>2, Joined
    <3>2. all = (read \o tmp_in) \o (next \o r)
      <4>1. (read \o tmp_in) \o (next \o r) = read \o (tmp_in \o (next \o r))
        <5>1. FourTogether(read, tmp_in, next, r)
          BY FourParts, Zenon
        <5> QED
          BY <5>1, Zenon DEF FourTogether
      <4> QED
        BY <1>1, <4>1, Zenon DEF ComingOf, all
    <3>3. t <= Len(next) /\ t <= Len(next \o r)
      BY <1>2, <2>11
    <3>4. Drop(next, t) \o r = Drop(next \o r, t)
      BY <3>3, DropFront, ZenonT(60)
    <3>5. PICK x \in Seq(FileUnits), y \in Seq(FileUnits) :
            x = read \o tmp_in /\ y = next \o r /\ t <= Len(y) /\ Len(x) = R + T
      BY <3>1, <3>3
    <3>6. Drop(x \o y, Len(x) + t) = Drop(y, t)
      BY <3>5, DropBehind, ZenonT(60)
    <3> HIDE DEF all
    <3> QED
      BY <2>11, <3>2, <3>4, <3>5, <3>6
  <2>14. reg = Take(Drop(all, size), g) /\ g <= Len(Drop(all, size)) /\ size + g <= Len(all)
    <3>1. size + g <= Len(front)
      BY <2>2, <2>8
    <3> HIDE DEF all, size
    <3>0. size \in Nat /\ g \in Nat
      BY <2>2, <2>6
    <3>2. AlikeFrom(front, front \o back, size, g)
      BY <3>0, <3>1, PrefixSame, Zenon
    <3>3. AlikeFrom(front, all, size, g)
      BY <1>5, <3>2
    <3> QED
      BY <2>7, <3>3 DEF AlikeFrom
  <2> HIDE DEF all, size
  <2>15. reg \o (Drop(next, t) \o r) = Drop(all, size)
    <3>1. Drop(all, size) \in Seq(FileUnits)
      BY <2>2, <2>3, DroppedAny
    <3>2. Take(Drop(all, size), g) \o Drop(Drop(all, size), g) = Drop(all, size)
      BY <2>6, <2>14, <3>1, SplitWhole
    <3>3. Drop(Drop(all, size), g) = Drop(all, size + g)
      BY <2>2, <2>3, <2>6, <2>14, DropMore, SMTT(60)
    <3> QED
      BY <2>13, <2>14, <3>2, <3>3
  <2>16. /\ hdr.in = left /\ hdr.tmp_in = <<>>
         /\ IF known THEN hdr.ret = "OK" ELSE hdr.ret = "INVALID_BLOCK" /\ hdr.block = block_state
         /\ known => /\ hdr.bfinal = first.value % 2
                     /\ hdr.block = IF first.kind = "stored" THEN "TYPE0" ELSE "CODED"
                     /\ hdr.len0 = IF first.kind = "stored" THEN units[2].value ELSE count
    <3>1. hdr = IF known THEN whole ELSE wrong
      BY <1>4, <1>8 DEF hdr, size, known, first
    <3> QED
      BY <3>1
  <2>17. ComingOf(hdr.in.read, hdr.tmp_in, hdr.in.next, r) = Drop(all, size)
    <3>1. Drop(next, t) \o r \in Seq(FileUnits)
      BY DroppedAny, Joined
    <3>2. <<>> \o (Drop(next, t) \o r) = Drop(next, t) \o r
      BY <3>1
    <3> HIDE DEF hdr
    <3> QED
      BY <2>12, <2>15, <2>16, <3>2 DEF ComingOf
  <2>18. (known <=> all[1].kind \in DOMAIN HeaderUnits) /\ first = all[1]
    BY <2>1, <2>4
  <2>19. first.kind = "stored" => units[2] = all[2]
    BY <2>4, <2>5
  <2>20. size \in 1 .. 3 /\ size <= Len(all) /\ HeaderSize(all) = size
    BY <2>1, <2>2, <2>3, <2>4
  <2> HIDE DEF hdr, known, first, units
  <2>21. HeaderTaken(all, in, hdr, r)
    BY <2>16, <2>17, <2>18, <2>19, <2>20 DEF HeaderTaken
  <2> QED
    BY <2>21 DEF all, hdr
<1> QED
  BY <1>7, <1>8

(* A text with what overflowed behind it.                                  *)
Overflowed(text, lits, copy) ==
  (text \o lits) \o Copied(text \o lits, copy.dist, copy.len)

LEMMA FlushedIs ==
  \A text : Flushed(text) = Overflowed(text, write_overflow, copy_overflow)
BY DEF Flushed, Overflowed

LEMMA CopiedNone ==
  ASSUME NEW h \in Seq(Nat), NEW d
  PROVE  Copied(h, d, 0) = <<>>
<1>1. Copied(h, d, 0) \in Seq(Nat) /\ Len(Copied(h, d, 0)) = 0
  BY CopiedLen
<1> QED
  BY <1>1

LEMMA OverflowedNone ==
  ASSUME NEW text \in Seq(Nat), NEW lits \in Seq(Nat)
  PROVE  /\ Overflowed(text, lits, NoCopy) = text \o lits
         /\ Overflowed(text, <<>>, NoCopy) = text
<1>1. NoCopy.len = 0
  BY DEF NoCopy
<1>2. text \o lits \in Seq(Nat) /\ <<>> \in Seq(Nat) /\ text \o <<>> = text
  OBVIOUS
<1>3. \A d : Copied(text \o lits, d, 0) = <<>> /\ Copied(text, d, 0) = <<>>
  BY <1>2, CopiedNone
<1>4. (text \o lits) \o <<>> = text \o lits
  BY <1>2
<1>5. Overflowed(text, lits, NoCopy) = (text \o lits) \o <<>>
  BY <1>1, <1>3 DEF Overflowed
<1>6. Overflowed(text, <<>>, NoCopy) = text \o <<>>
  BY <1>1, <1>2, <1>3 DEF Overflowed
<1> QED
  BY <1>2, <1>4, <1>5, <1>6

(* What does not fit of j values is left over.                             *)
LEMMA TakeDrop ==
  ASSUME NEW v \in Seq(Nat), NEW space \in Nat
  PROVE  LET k == Least(space, Len(v))
         IN  /\ Take(v, k) \in Seq(Nat) /\ Drop(v, k) \in Seq(Nat) /\ Len(Take(v, k)) = k
             /\ Take(v, k) \o Drop(v, k) = v
             /\ Len(v) <= space => Take(v, k) = v /\ Drop(v, k) = <<>>
             /\ Len(v) > space => k = space /\ Drop(v, k) # <<>>
<1>1. PICK n \in Nat : n = Len(v)
  OBVIOUS
<1>2. PICK k \in Nat : k = Least(space, n) /\ k <= n
  BY LeastOf
<1>3. Take(v, k) \in Seq(Nat) /\ Drop(v, k) \in Seq(Nat) /\ Len(Take(v, k)) = k /\ Len(Drop(v, k)) = n - k
  <2>1. k \in 0 .. Len(v) /\ k \in Nat /\ k <= Len(v)
    BY <1>1, <1>2
  <2>2. Take(v, k) \in Seq(Nat) /\ Len(Take(v, k)) = k
    BY <2>1, Taken1
  <2>3. Drop(v, k) \in Seq(Nat) /\ Len(Drop(v, k)) = Len(v) - k
    BY <2>1, Dropped
  <2> QED
    BY <1>1, <2>2, <2>3
<1>4. Take(v, k) \o Drop(v, k) = v
  <2>1. SubSeq(v, 0 + 1, k) \o Drop(v, k) = Drop(v, 0)
    <3>1. 0 \in Nat /\ k \in Nat /\ 0 <= k /\ k <= Len(v)
      BY <1>1, <1>2
    <3> QED
      BY <3>1, SplitDrop, Zenon
  <2>2. Drop(v, 0) = v /\ SubSeq(v, 0 + 1, k) = Take(v, k)
    BY DropNone DEF Take
  <2> QED
    BY <2>1, <2>2
<1>5. ASSUME n <= space PROVE Take(v, k) = v /\ Drop(v, k) = <<>>
  <2>1. k = n
    BY <1>2, <1>5 DEF Least
  <2>2. Drop(v, k) = <<>>
    BY <1>3, <2>1
  <2>3. Take(v, k) = v
    BY <1>1, <2>1 DEF Take
  <2> QED
    BY <2>2, <2>3
<1>6. ASSUME n > space PROVE k = space /\ Drop(v, k) # <<>>
  <2>1. k = space
    BY <1>2, <1>6 DEF Least
  <2> QED
    BY <1>3, <1>6, <2>1
<1> QED
  BY <1>1, <1>2, <1>3, <1>4, <1>5, <1>6

(* Facts about sequences by name.                                          *)
LEMMA TextTogether ==
  ASSUME NEW a \in Seq(Nat), NEW b \in Seq(Nat), NEW c \in Seq(Nat)
  PROVE  Together(a, b, c)
BY JoinThree DEF Together
CopiesLike(s, t, d, len) == Copied(s, d, len) = Copied(t, d, len)
LEMMA LikeCopies ==
  ASSUME NEW s \in Seq(Nat), NEW t \in Seq(Nat), NEW d \in Nat \ {0}, EndsAlike(s, t, d),
         NEW len \in Nat
  PROVE  CopiesLike(s, t, d, len)
BY CopiedAlike DEF CopiesLike
CopiesOn(h, d, a, b) == Copied(h, d, a) \o Copied(h \o Copied(h, d, a), d, b) = Copied(h, d, a + b)
LEMMA OnCopies ==
  ASSUME NEW h \in Seq(Nat), NEW d \in 1 .. Len(h), NEW a \in Nat, NEW b \in Nat
  PROVE  CopiesOn(h, d, a, b)
BY CopiedOn DEF CopiesOn

(* However much fits of literals and a match behind them, what is written  *)
(* and what is left over are the literals and the match.                   *)
MatchOut(history, v, space, d, room) ==
  Take(v, Least(space, Len(v))) \o Copied(history \o Take(v, Least(space, Len(v))), d, room)
MatchRoom(v, space, len) == Least(space - Len(Take(v, Least(space, Len(v)))), len)
MatchIs(text, history, v, space, d, len, copy) ==
  Overflowed(text \o MatchOut(history, v, space, d, MatchRoom(v, space, len)),
             Drop(v, Least(space, Len(v))), copy)
  = (text \o v) \o Copied(text \o v, d, len)
LEMMA MatchWritten ==
  ASSUME NEW text \in Seq(Nat), NEW history \in Seq(Nat), NEW v \in Seq(Nat), NEW space \in Nat,
         NEW d \in Nat \ {0}, NEW len \in Nat, EndsAlike(history \o v, text \o v, d), NEW copy,
         LET room == MatchRoom(v, space, len)
         IN  IF room < len THEN copy = [len |-> len - room, dist |-> d] ELSE copy = NoCopy
  PROVE  MatchIs(text, history, v, space, d, len, copy)
<1>1. PICK room : room = MatchRoom(v, space, len)
  OBVIOUS
<1>2. PICK w, left : w = Take(v, Least(space, Len(v))) /\ left = Drop(v, Least(space, Len(v)))
  OBVIOUS
<1>3. /\ w \in Seq(Nat) /\ left \in Seq(Nat) /\ w \o left = v /\ Len(w) = Least(space, Len(v))
      /\ Len(v) <= space => w = v /\ left = <<>>
      /\ Len(v) > space => Len(w) = space /\ left # <<>>
  BY <1>2, TakeDrop
<1>4. Len(v) \in Nat /\ Len(w) \in Nat /\ Len(w) <= space /\ space - Len(w) \in Nat
  <2>1. Len(v) \in Nat
    OBVIOUS
  <2>2. Least(space, Len(v)) \in Nat /\ Least(space, Len(v)) <= space
    BY <2>1, LeastOf
  <2> QED
    BY <1>3, <2>1, <2>2
<1>5. room \in Nat /\ room <= len /\ room <= space - Len(w)
  BY <1>1, <1>2, <1>4, LeastOf DEF MatchRoom
<1>6. copy.len = len - room /\ (room < len => copy.dist = d)
  BY <1>1, <1>5 DEF NoCopy
<1>7. PICK x : x = text \o v
  OBVIOUS
<1>8. x \in Seq(Nat) /\ history \o v \in Seq(Nat) /\ d \in 1 .. Len(x)
  <2>1. x \in Seq(Nat) /\ history \o v \in Seq(Nat)
    BY <1>7
  <2> QED
    BY <1>7, <2>1 DEF EndsAlike
<1>9. CASE Len(v) <= space
  <2>1. w = v /\ left = <<>>
    BY <1>3, <1>9
  <2>2. PICK c : c = Copied(x, d, room) /\ c \in Seq(Nat)
    BY <1>5, <1>8, CopiedLen
  <2>3. Copied(history \o v, d, room) = c
    <3>1. EndsAlike(history \o v, x, d)
      BY <1>7
    <3>2. CopiesLike(history \o v, x, d, room)
      BY <1>5, <1>8, <3>1, LikeCopies, Zenon
    <3> QED
      BY <2>2, <3>2 DEF CopiesLike
  <2>4. text \o (v \o c) = x \o c
    BY <1>7, <2>2, JoinThree, ZenonT(60)
  <2>5. x \o c \in Seq(Nat) /\ (x \o c) \o <<>> = x \o c
    BY <1>8, <2>2
  <2>6. Copied(x \o c, copy.dist, copy.len) = Copied(x \o c, d, len - room)
    <3>1. CASE room < len
      BY <1>6, <3>1
    <3>2. CASE room = len
      <4>1. copy.len = 0 /\ len - room = 0
        BY <1>5, <1>6, <3>2
      <4> QED
        BY <2>5, <4>1, CopiedNone
    <3> QED
      BY <1>5, <3>1, <3>2
  <2>7. PICK e : e = Copied(x \o c, d, len - room) /\ e \in Seq(Nat)
    <3>1. len - room \in Nat
      BY <1>5
    <3> QED
      BY <2>5, <3>1, CopiedLen
  <2>8. c \o e = Copied(x, d, len)
    <3>1. len - room \in Nat /\ room + (len - room) = len
      BY <1>5
    <3>2. c \o e = Copied(x, d, room + (len - room))
      <4>1. PICK more \in Nat : more = len - room
        BY <3>1
      <4>2. x \in Seq(Nat) /\ d \in 1 .. Len(x) /\ room \in Nat
        BY <1>5, <1>8
      <4>3. CopiesOn(x, d, room, more)
        BY <4>2, OnCopies
      <4> QED
        BY <2>2, <2>7, <4>1, <4>3 DEF CopiesOn
    <3> QED
      BY <3>1, <3>2
  <2>9. (x \o c) \o e = x \o (c \o e)
    <3>1. Together(x, c, e)
      BY <1>8, <2>2, <2>7, TextTogether, Zenon
    <3> QED
      BY <3>1, Zenon DEF Together
  <2>10. MatchOut(history, v, space, d, room) = v \o c
    BY <1>2, <2>1, <2>3 DEF MatchOut
  <2>11. Overflowed(text \o MatchOut(history, v, space, d, room), left, copy) = (x \o c) \o e
    BY <2>1, <2>4, <2>5, <2>6, <2>7, <2>10 DEF Overflowed
  <2> QED
    BY <1>1, <1>2, <1>7, <2>8, <2>9, <2>11 DEF MatchIs
<1>10. CASE Len(v) > space
  <2>1. Len(w) = space
    BY <1>3, <1>10
  <2>2. room = 0 /\ copy.len = len
    BY <1>4, <1>5, <1>6, <2>1
  <2>3. history \o w \in Seq(Nat) /\ w \o <<>> = w
    BY <1>3
  <2>4. MatchOut(history, v, space, d, room) = w
    BY <1>2, <2>2, <2>3, CopiedNone DEF MatchOut
  <2>5. (text \o w) \o left = x
    BY <1>3, <1>7, JoinThree, ZenonT(60)
  <2>6. Copied(x, copy.dist, copy.len) = Copied(x, d, len)
    <3>1. CASE len = 0
      BY <1>8, <2>2, <3>1, CopiedNone
    <3>2. CASE len # 0
      <4>1. copy.dist = d
        BY <1>6, <2>2, <3>2
      <4> QED
        BY <2>2, <4>1
    <3> QED
      BY <3>1, <3>2
  <2>7. Overflowed(text \o MatchOut(history, v, space, d, room), left, copy) = x \o Copied(x, d, len)
    BY <2>4, <2>5, <2>6 DEF Overflowed
  <2> QED
    BY <1>1, <1>2, <1>7, <2>7 DEF MatchIs
<1> QED
  BY <1>4, <1>9, <1>10

TrailerTaken(all, check, sum, size, r) ==
  /\ check.ret = "END_INPUT" =>
       /\ ComingOf(check.in.read, check.tmp_in, check.in.next, r) = all
       /\ check.block = "CHECKSUM_CHECK" /\ check.in.read = <<>>
  /\ check.ret # "END_INPUT" =>
       /\ TrailerUnits <= Len(all) /\ check.block = "FINISH" /\ check.tmp_in = <<>>
       /\ ComingOf(check.in.read, check.tmp_in, check.in.next, r) = Drop(all, TrailerUnits)
       /\ check.ret = IF TrailerHolds(all, sum, size) THEN "DECOMP_OK" ELSE "INCORRECT_CHECKSUM"
       /\ crc_flag # "zlib" => check.in.read = <<>>
  /\ check.ret \in {"END_INPUT", "DECOMP_OK", "INCORRECT_CHECKSUM"}

(* A trailer is taken as a whole, wherever its units wait, or waits itself.*)
LEMMA ChecksumTakes ==
  ASSUME NEW in, InputOK(in), NEW sum, NEW size, tmp_in \in Seq(FileUnits),
         in.read = <<>> \/ tmp_in = <<>>, NEW r \in Seq(FileUnits)
  PROVE  TrailerTaken(ComingOf(in.read, tmp_in, in.next, r), check_checksum(in, sum, size),
                      sum, size, r)
<1>1. PICK read \in Seq(FileUnits), next \in Seq(FileUnits) :
        in.read = read /\ in.next = next /\ Len(read) <= RegSize
  BY DEF InputOK
<1>2. PICK T \in 2 .. 3 : T = TrailerUnits /\ (crc_flag # "zlib" => T = 3)
  BY DEF TrailerUnits
<1>3. RegSize \in Nat /\ RegSize <= 3
  BY InflateAssumption, TrailerAssumption
<1>4. PICK R \in Nat : R = Len(read) /\ R <= 3
  BY <1>1, <1>3
<1>5. read = <<>> \/ tmp_in = <<>>
  BY <1>1
<1>6. PICK x \in Seq(FileUnits) : x = TrailerInput(in) /\ x = read \o (tmp_in \o next)
  <2>1. CASE read = <<>>
    <3>1. TrailerInput(in) = tmp_in \o next
      <4>1. Len(read) = 0 /\ tmp_in \o <<>> = tmp_in
        BY <2>1
      <4>2. ~ (Len(read) >= TrailerUnits)
        BY <1>2, <4>1
      <4> QED
        BY <1>1, <2>1, <4>1, <4>2 DEF TrailerInput
    <3>2. tmp_in \o next \in Seq(FileUnits) /\ <<>> \o (tmp_in \o next) = tmp_in \o next
      BY Joined, DropNone
    <3> QED
      BY <2>1, <3>1, <3>2
  <2>2. CASE tmp_in = <<>>
    <3>1. <<>> \o read = read /\ <<>> \o next = next
      BY DropNone
    <3>2. TrailerInput(in) = read \o next
      BY <1>1, <2>2, <3>1 DEF TrailerInput
    <3>3. read \o next \in Seq(FileUnits)
      BY Joined
    <3> QED
      BY <2>2, <3>1, <3>2, <3>3
  <2> QED
    BY <1>5, <2>1, <2>2
<1>7. PICK X \in Nat : X = Len(x) /\ R <= X
  <2>1. PICK y \in Seq(FileUnits) : y = tmp_in \o next
    BY Joined
  <2>2. Len(read \o y) = Len(read) + Len(y) /\ Len(y) \in Nat
    BY Joined
  <2>3. x = read \o y
    BY <1>6, <2>1
  <2> QED
    BY <1>4, <2>2, <2>3
<1>8. PICK all : all = ComingOf(in.read, tmp_in, in.next, r)
  OBVIOUS
<1>9. all = x \o r
  <2>1. Together(read, Pair(tmp_in, next), r)
    BY PutTogether, PairOK, Zenon
  <2>2. Together(tmp_in, next, r)
    BY PutTogether, Zenon
  <2>3. (read \o (tmp_in \o next)) \o r = read \o (tmp_in \o (next \o r))
    BY <2>1, <2>2, Zenon DEF Together, Pair
  <2> QED
    BY <1>1, <1>6, <1>8, <2>3, Zenon DEF ComingOf
<1>10. PICK check : check = check_checksum(in, sum, size)
  OBVIOUS
<1>11. /\ check.ret = IF ~ (X >= T) THEN "END_INPUT"
                      ELSE IF TrailerHolds(x, sum, size) THEN "DECOMP_OK" ELSE "INCORRECT_CHECKSUM"
       /\ check.in.read = Drop(read, Least(T, R))
       /\ check.in.next = Drop(Drop(x, Least(T, X)), Len(Drop(read, Least(T, R))))
       /\ check.tmp_in = IF X >= T THEN <<>> ELSE x
       /\ check.block  = IF X >= T THEN "FINISH" ELSE "CHECKSUM_CHECK"
  BY <1>1, <1>2, <1>4, <1>6, <1>7, <1>10, Zenon DEF check_checksum
<1>12. CASE ~ (X >= T)
  <2>1. Least(T, R) = R /\ Least(T, X) = X
    BY <1>2, <1>7, <1>12 DEF Least
  <2>2. Drop(read, R) = <<>> /\ Drop(x, X) = <<>>
    BY <1>4, <1>7, DropEmpties
  <2>3. Len(<<>>) = 0 /\ Drop(<<>>, 0) = <<>> /\ <<>> \o r = r
    BY DropNone DEF Drop
  <2>4. check.in.read = <<>> /\ check.in.next = <<>> /\ check.tmp_in = x
    BY <1>11, <1>12, <2>1, <2>2, <2>3
  <2>5. ComingOf(<<>>, x, <<>>, r) = x \o r
    <3>1. x \o r \in Seq(FileUnits)
      BY Joined
    <3>2. <<>> \o (x \o r) = x \o r
      BY <3>1, DropNone
    <3> QED
      BY <2>3, <3>2 DEF ComingOf
  <2> QED
    BY <1>8, <1>9, <1>10, <1>11, <1>12, <2>4, <2>5 DEF TrailerTaken
<1>13. CASE X >= T
  <2>1. T \in Nat /\ T <= Len(x)
    BY <1>2, <1>7, <1>13
  <2>2. Drop(x, T) \o r = Drop(all, T)
    BY <1>9, <2>1, DropFront
  <2>3. Least(T, X) = T
    BY <1>2, <1>7, <1>13 DEF Least
  <2>4. T <= Len(all) /\ all[1] = x[1] /\ all[2] = x[2]
    <3>1. Len(x \o r) = X + Len(r) /\ Len(r) \in Nat /\ \A i \in 1 .. X : (x \o r)[i] = x[i]
      <4>1. PICK v : v = x \o r
        OBVIOUS
      <4>2. PICK L \in Nat : L = Len(r)
        OBVIOUS
      <4>3. InTurn(v, FileUnits, x, X, r, L)
        BY <1>7, <4>1, <4>2, JoinedEach
      <4> QED
        BY <4>1, <4>2, <4>3 DEF InTurn
    <3> QED
      BY <1>2, <1>7, <1>9, <1>13, <3>1
  <2>5. TrailerHolds(all, sum, size) <=> TrailerHolds(x, sum, size)
    BY <2>4 DEF TrailerHolds
  <2>6. ComingOf(check.in.read, <<>>, check.in.next, r) = Drop(all, T)
        /\ (R <= T => check.in.read = <<>>)
    <3>1. CASE R <= T
      <4>1. Least(T, R) = R
        BY <1>2, <3>1 DEF Least
      <4>2. Drop(read, R) = <<>> /\ Len(<<>>) = 0
        BY <1>4, DropEmpties
      <4>3. Drop(x, T) \in Seq(FileUnits)
        BY <2>1, DroppedAny
      <4>4. Drop(Drop(x, T), 0) = Drop(x, T)
        BY <4>3, DropNone
      <4>5. check.in.read = <<>> /\ check.in.next = Drop(x, T)
        BY <1>11, <2>3, <4>1, <4>2, <4>4
      <4>6. Drop(x, T) \o r \in Seq(FileUnits)
        BY <4>3, Joined
      <4>7. <<>> \o (Drop(x, T) \o r) = Drop(x, T) \o r
        BY <4>6, DropNone
      <4> QED
        BY <2>2, <4>5, <4>7 DEF ComingOf
    <3>2. CASE ~ (R <= T)
      <4>1. Least(T, R) = T /\ T <= Len(read) /\ R - T \in Nat
        BY <1>2, <1>4, <3>2 DEF Least
      <4>2. Drop(read, T) \in Seq(FileUnits) /\ Len(Drop(read, T)) = R - T
        BY <1>4, <2>1, <4>1, Dropped
      <4>3. tmp_in = <<>>
        BY <1>2, <1>4, <1>5, <3>2
      <4>4. x = read \o next
        <5>1. <<>> \o next = next
          BY DropNone
        <5> QED
          BY <1>6, <4>3, <5>1
      <4>5. Drop(x, T) = Drop(read, T) \o next
        BY <2>1, <4>1, <4>4, DropFront
      <4>6. Drop(Drop(read, T) \o next, Len(Drop(read, T)) + 0) = next
        <5>1. PICK v \in Seq(FileUnits) : v = Drop(read, T)
          BY <4>2
        <5>2. 0 \in Nat /\ 0 <= Len(next)
          OBVIOUS
        <5>3. Drop(v \o next, Len(v) + 0) = Drop(next, 0)
          BY <5>2, DropBehind
        <5> QED
          BY <5>1, <5>3, DropNone
      <4>7. R - T + 0 = R - T
        BY <4>1
      <4>8. check.in.read = Drop(read, T) /\ check.in.next = next
        BY <1>11, <2>3, <4>1, <4>2, <4>5, <4>6, <4>7
      <4>9. ComingOf(Drop(read, T), <<>>, next, r) = (Drop(read, T) \o next) \o r
        <5>1. Together(Drop(read, T), next, r)
          BY <4>2, PutTogether, Zenon
        <5>2. next \o r \in Seq(FileUnits)
          BY Joined
        <5>3. <<>> \o (next \o r) = next \o r
          BY <5>2, DropNone
        <5> QED
          BY <5>1, <5>3, Zenon DEF ComingOf, Together
      <4> QED
        BY <2>2, <3>2, <4>5, <4>8, <4>9
    <3> QED
      BY <3>1, <3>2
  <2>7. check.tmp_in = <<>> /\ check.block = "FINISH"
        /\ check.ret = IF TrailerHolds(x, sum, size) THEN "DECOMP_OK" ELSE "INCORRECT_CHECKSUM"
    BY <1>11, <1>13
  <2>8. crc_flag # "zlib" => check.in.read = <<>>
    BY <1>2, <1>4, <2>6
  <2>9. ComingOf(check.in.read, check.tmp_in, check.in.next, r) = Drop(all, T)
    BY <2>6, <2>7
  <2>10. /\ check.ret # "END_INPUT"
         /\ check.ret = IF TrailerHolds(all, sum, size) THEN "DECOMP_OK" ELSE "INCORRECT_CHECKSUM"
    BY <2>5, <2>7
  <2> QED
    BY <1>2, <1>8, <1>10, <2>4, <2>7, <2>8, <2>9, <2>10 DEF TrailerTaken
<1> QED
  BY <1>12, <1>13

-----------------------------------------------------------------------------
(* PlaceInv: where isal_inflate is in the file.  What it has not taken yet *)
(* is the rest of the file, and what it is about to read there is what the *)
(* grammar expects: block_state, the field of the header it has come to,   *)
(* its counters and BFINAL say the same as the units before.               *)
Coming == ComingOf(read_in, tmp_in, next_in, rest)
Here   == PlaceOf(file, Coming)
Said   == SaidOf(file, Coming)

OnBase == At("NEW_HDR", "base") => Here.at = "end" \/ (Here.at = "id" /\ crc_flag = file.flag)
OnField(state, x, at) == At(state, x) => Here.at = at /\ Here.flags = gz_hdr.flags
OnGzip ==
  /\ OnBase
  /\ OnField("GZIP_EXTRA_LEN", "extra_len", "xlen")
  /\ At("GZIP_EXTRA", "extra") => OnExtra(Here, count, gz_hdr.flags)
  /\ OnField("GZIP_NAME", "name", "name") /\ OnField("GZIP_COMMENT", "comment", "comment")
  /\ field = "sum" => Here.at = "hcrc"
  /\ At("GZIP_HCRC", "hcrc") => Here.at = "hcrc"
  /\ field = "done" => Here.at = "block"
  /\ crc_flag = "gzip" => block_state = "NEW_HDR" /\ field \in {"none", "returned", "base", "done"}
OnZlib ==
  ret \notin Refused =>
    Here.at = IF block_state = "ZLIB_DICT" \/ pc = "dict_id" THEN "dict" ELSE "cmf"
OnMember ==
  /\ ret \notin Errors =>
       /\ block_state \in {"NEW_HDR", "HDR"} => Here.at = "block"
       /\ block_state = "TYPE0" => OnStored(Here, file.flag, count, bfinal)
       /\ block_state = "CODED" => Here.at = "coded" /\ Here.final = bfinal
       /\ block_state \in {"INPUT_DONE", "CHECKSUM_CHECK"} => Here.at = TrailerAt(file.flag)
       /\ block_state = "HDR" => Short(read_in \o tmp_in)
  /\ block_state = "FINISH" => Here.at = "end"
  /\ block_state = "CHECKSUM_CHECK" => crc_flag # "deflate"
FlagsHeld == field \in HeaderFields \ {"base"} => flags = gz_hdr.flags
OneFormat == crc_flag = file.flag \/ (crc_flag = "gzip" /\ file.flag = "gzip_no_hdr_ver")
ReadEmpty ==
  \/ block_state = "CHECKSUM_CHECK" \/ (block_state = "FINISH" /\ Gzip(crc_flag))
  \/ ~ WithinMember
PlaceInv ==
  /\ Rest(file, Coming) /\ OneFormat /\ FlagsHeld
  /\ ReadEmpty => read_in = <<>>
  /\ pc \in {"tmp", "out"} => ret = "OK"
  /\ ~ WithinMember /\ crc_flag # "zlib" => OnGzip
  /\ ~ WithinMember /\ crc_flag = "zlib" => OnZlib
  /\ WithinMember => OnMember

LEMMA PlaceTypes ==
  ASSUME Inv
  PROVE  /\ file \in Files /\ file.units \in Seq(FileUnits) /\ file.dict \in Seq(Nat)
         /\ file.flag \in {"deflate", "gzip_no_hdr_ver", "gzip", "zlib"}
         /\ rest \in Seq(FileUnits) /\ next_in \in Seq(FileUnits)
         /\ read_in \in Seq(FileUnits) /\ tmp_in \in Seq(FileUnits) /\ Len(read_in) <= RegSize
         /\ Len(tmp_in) <= HdrSize /\ Coming \in Seq(FileUnits)
<1>1. file \in Files
  BY DEF Inv, ControlInv
<1>2. /\ file.units \in Seq(FileUnits) /\ file.dict \in Seq(Nat)
      /\ file.flag \in {"deflate", "gzip_no_hdr_ver", "gzip", "zlib"}
  BY <1>1, FilesAssumption
<1>3. /\ rest \in Seq(FileUnits) /\ next_in \in Seq(FileUnits)
      /\ read_in \in Seq(FileUnits) /\ tmp_in \in Seq(FileUnits) /\ Len(read_in) <= RegSize
      /\ Len(tmp_in) <= HdrSize
  BY DEF Inv, InputInv
<1>4. Coming \in Seq(FileUnits)
  <2>1. next_in \o rest \in Seq(FileUnits)
    BY <1>3, Joined
  <2>2. tmp_in \o (next_in \o rest) \in Seq(FileUnits)
    BY <1>3, <2>1, Joined
  <2> QED
    BY <1>3, <2>2, Joined DEF Coming, ComingOf
<1> QED
  BY <1>1, <1>2, <1>3, <1>4

(* A step that takes no units and stays where it is.                       *)
LEMMA PlaceSame ==
  ASSUME PlaceInv, Coming' = Coming,
         UNCHANGED <<file, read_in, tmp_in, crc_flag, wrapper_flag, block_state, bfinal, count>>,
         gz_hdr'.flags = gz_hdr.flags, field' = "none" \/ (field' = field /\ flags' = flags),
         ret \in Errors => ret' \in Errors, pc' \in {"tmp", "out"} => ret' = "OK",
         WithinMember \/ /\ Resumable' => Resumable
                         /\ ret \in Refused => ret' \in Refused
                         /\ pc' = "dict_id" <=> pc = "dict_id"
  PROVE  PlaceInv'
<1>1. /\ Here' = Here /\ WithinMember' = WithinMember
  BY DEF Here, WithinMember
<1>2. ~ WithinMember => \A a, x : x # "none" => (At(a, x)' => At(a, x))
  BY DEF At
<1>3. Rest(file, Coming)' /\ OneFormat' /\ FlagsHeld' /\ (ReadEmpty' => read_in' = <<>>)
  BY <1>1 DEF PlaceInv, Rest, OneFormat, FlagsHeld, ReadEmpty, HeaderFields
<1>4. ASSUME OnGzip, ~ WithinMember PROVE OnGzip'
  BY <1>1, <1>2, <1>4 DEF OnGzip, OnBase, OnField
<1>5. ASSUME OnZlib, ~ WithinMember PROVE OnZlib'
  BY <1>1, <1>5 DEF OnZlib
<1>6. ASSUME OnMember PROVE OnMember'
  BY <1>1, <1>6 DEF OnMember
<1> QED
  BY <1>1, <1>3, <1>4, <1>5, <1>6 DEF PlaceInv

LEMMA PlaceInit ==
  ASSUME Init
  PROVE  PlaceInv
<1>1. Inv
  BY InvInit
<1>2. Coming = file.units
  <2>1. file.units \in Seq(FileUnits)
    BY <1>1, PlaceTypes
  <2>2. <<>> \o file.units = file.units
    BY <2>1
  <2> QED
    BY <2>2 DEF Init, Coming, ComingOf
<1>3. Rest(file, Coming) /\ Here = Start(file.flag)
  BY <1>1, <1>2, PlaceTypes, RestWhole DEF Here
<1>4. /\ crc_flag = file.flag /\ field = "none" /\ read_in = <<>> /\ tmp_in = <<>> /\ pc = "idle"
      /\ block_state = "NEW_HDR" /\ ret = "DECOMP_OK" /\ wrapper_flag = FALSE
  BY DEF Init
<1>5. /\ file.flag \in {"gzip", "gzip_no_hdr_ver"} => Here.at = "id"
      /\ file.flag = "zlib" => Here.at = "cmf"
      /\ file.flag = "deflate" => Here.at = "block"
  BY <1>3 DEF Start, Place
<1>6. OneFormat /\ FlagsHeld /\ (ReadEmpty => read_in = <<>>) /\ ~ (pc \in {"tmp", "out"})
  BY <1>4 DEF OneFormat, FlagsHeld, HeaderFields
<1>7. ASSUME crc_flag # "zlib", ~ WithinMember PROVE OnGzip
  BY <1>1, <1>4, <1>5, <1>7, PlaceTypes DEF OnGzip, OnBase, OnField, At, WithinMember
<1>8. ASSUME crc_flag = "zlib" PROVE OnZlib
  BY <1>4, <1>5, <1>8 DEF OnZlib
<1>9. ASSUME WithinMember PROVE OnMember
  BY <1>4, <1>5, <1>9 DEF OnMember, WithinMember
<1> QED
  BY <1>3, <1>6, <1>7, <1>8, <1>9 DEF PlaceInv

LEMMA SupplyComing ==
  ASSUME Inv, NEW n \in Nat, Supply(n), UNCHANGED <<read_in, tmp_in>>
  PROVE  Coming' = Coming
<1>1. next_in' \o rest' = next_in \o rest
  BY PlaceTypes, SupplyAhead
<1> QED
  BY <1>1 DEF Coming, ComingOf

LEMMA PlaceCall ==
  ASSUME Inv, PlaceInv, NEW n \in InSizes, NEW o \in OutSizes, Call(n, o)
  PROVE  PlaceInv'
<1>1. n \in Nat
  BY InflateAssumption
<1>2. /\ Supply(n) /\ pc = "idle" /\ ret \notin Refused /\ ret' = "OK"
      /\ UNCHANGED <<params, read_in, tmp_in, block, crc_flag, header>>
      /\ pc' \notin {"tmp", "out", "dict_id"}
  BY DEF Call
<1>3. Coming' = Coming
  BY <1>1, <1>2, SupplyComing
<1>4. Resumable' => Resumable
  BY <1>2 DEF Resumable, Refused, Errors, header, hdr_locals
<1> QED
  BY <1>2, <1>3, <1>4, PlaceSame
     DEF params, block, header, hdr_locals, Refused, Errors

LEMMA PlaceCallHeader ==
  ASSUME Inv, PlaceInv, NEW n \in InSizes, CallHeader(n)
  PROVE  PlaceInv'
<1>1. n \in Nat
  BY InflateAssumption
<1>2. /\ Supply(n) /\ pc = "idle" /\ pc' = "header"
      /\ UNCHANGED <<params, read_in, tmp_in, block, crc_flag, wrapper_flag, hdr_locals, ret>>
      /\ gz_hdr'.flags = gz_hdr.flags
  BY DEF CallHeader, Inv, HeaderInv
<1>3. Coming' = Coming
  BY <1>1, <1>2, SupplyComing
<1>4. Resumable' => Resumable
  BY <1>2 DEF Resumable, hdr_locals
<1> QED
  BY <1>2, <1>3, <1>4, PlaceSame DEF params, block, hdr_locals

LEMMA ComingSame ==
  ASSUME UNCHANGED <<read_in, tmp_in, next_in, rest>>
  PROVE  Coming' = Coming
BY DEF Coming, ComingOf

LEMMA PlaceBegin ==
  ASSUME Inv, PlaceInv, Begin
  PROVE  PlaceInv'
<1>1. /\ pc = "begin" /\ pc' \in {"tmp", "drain"} /\ ret' = ret
      /\ UNCHANGED <<params, rest, input, block, crc_flag, header>>
  BY DEF Begin
<1>2. ret = "OK"
  BY <1>1 DEF Inv, ControlInv, Entering
<1>3. Coming' = Coming
  BY <1>1, ComingSame DEF input
<1>4. Resumable' => Resumable
  BY <1>1 DEF Resumable, header, hdr_locals
<1> QED
  BY <1>1, <1>2, <1>3, <1>4, PlaceSame DEF params, input, block, header, hdr_locals

LEMMA PlaceDrain ==
  ASSUME Inv, PlaceInv, Drain
  PROVE  PlaceInv'
<1>1. /\ pc = "drain" /\ UNCHANGED <<params, rest, input, block, crc_flag, header>>
      /\ ret' = IF pc' = "out" THEN "OK" ELSE ret
      /\ ret \in Errors => pc' = "idle"
      /\ pc' \in {"idle", "out", "end"}
  BY DEF Drain
<1>2. Coming' = Coming
  BY <1>1, ComingSame DEF input
<1>3. WithinMember /\ (ret \in Errors => ret' \in Errors)
  BY <1>1 DEF Inv, ControlInv, Decoding
<1>4. field' = field /\ flags' = flags /\ gz_hdr'.flags = gz_hdr.flags
  BY <1>1 DEF header, hdr_locals
<1> QED
  BY <1>1, <1>2, <1>3, <1>4, PlaceSame DEF params, input, block, header, hdr_locals

LEMMA FormatFacts ==
  ASSUME Inv, OneFormat
  PROVE  /\ Gzip(file.flag) <=> crc_flag \in {"gzip", "gzip_no_hdr_ver"}
         /\ Gzip(crc_flag) <=> Gzip(file.flag)
         /\ crc_flag = "zlib" <=> file.flag = "zlib"
         /\ crc_flag = "deflate" <=> file.flag = "deflate"
         /\ TrailerAt(file.flag) = TrailerAt(crc_flag)
         /\ crc_flag \in {"deflate", "gzip_no_hdr_ver", "gzip", "zlib"}
<1>1. crc_flag \in {"deflate", "gzip_no_hdr_ver", "gzip", "zlib"}
  BY DEF Inv, ControlInv
<1>2. file.flag \in {"deflate", "gzip_no_hdr_ver", "gzip", "zlib"}
  BY PlaceTypes
<1> QED
  BY <1>1, <1>2 DEF OneFormat, Gzip, TrailerAt

(* A dictionary is set before the text, and takes nothing of the file.     *)
LEMMA PlaceSetDict ==
  ASSUME Inv, PlaceInv, SetDict
  PROVE  PlaceInv'
<1>1. /\ pc = "idle" /\ pc' = "idle" /\ block_state = "NEW_HDR" /\ ret' = "DECOMP_OK"
      /\ ret = "NEED_DICT" \/ (crc_flag = "deflate" /\ rest = file.units)
      /\ UNCHANGED <<params, rest, input, block, crc_flag, header>>
  BY DEF SetDict, DictDue
<1>2. Coming' = Coming
  BY <1>1, ComingSame DEF input
<1>3. CASE ret = "NEED_DICT"
  <2>1. ret \notin Refused /\ ret \notin Errors
    BY <1>3 DEF Refused, Errors
  <2>2. Resumable' => Resumable
    BY <1>1, <2>1 DEF Resumable, header, hdr_locals
  <2> QED
    BY <1>1, <1>2, <2>1, <2>2, PlaceSame DEF params, input, block, header, hdr_locals
<1>4. CASE crc_flag = "deflate" /\ rest = file.units
  <2>1. Here.at = "block"
    <3>1. PICK p \in Nat : p <= Len(file.units) /\ Coming = Drop(file.units, p)
      BY DEF PlaceInv, Rest
    <3>2. Len(Coming) >= Len(rest)
      <4>1. /\ rest \in Seq(FileUnits) /\ next_in \in Seq(FileUnits)
            /\ read_in \in Seq(FileUnits) /\ tmp_in \in Seq(FileUnits)
        BY PlaceTypes
      <4>2. PICK x \in Seq(FileUnits) : x = next_in \o rest /\ Len(x) = Len(next_in) + Len(rest)
        BY <4>1, Joined
      <4>3. PICK y \in Seq(FileUnits) : y = tmp_in \o x /\ Len(y) = Len(tmp_in) + Len(x)
        BY <4>1, Joined
      <4>4. PICK z : z = read_in \o y /\ Len(z) = Len(read_in) + Len(y)
        BY <4>1, Joined
      <4>5. z = Coming
        BY <4>2, <4>3, <4>4 DEF Coming, ComingOf
      <4>6. Len(rest) \in Nat /\ Len(next_in) \in Nat /\ Len(read_in) \in Nat /\ Len(tmp_in) \in Nat
        BY <4>1
      <4>7. Len(z) >= Len(rest)
        BY <4>2, <4>3, <4>4, <4>6
      <4> QED
        BY <4>5, <4>7
    <3>3. Len(Coming) = Len(file.units) - p /\ Len(file.units) \in Nat
      <4>1. file.units \in Seq(FileUnits)
        BY PlaceTypes
      <4> QED
        <5>1. Drop(file.units, p) \in Seq(FileUnits) /\ Len(Drop(file.units, p)) = Len(file.units) - p
          BY <3>1, <4>1, Dropped
        <5> QED
          BY <3>1, <4>1, <5>1
    <3>4. p = 0
      BY <1>4, <3>1, <3>2, <3>3
    <3>5. Coming = file.units
      BY <3>1, <3>4, PlaceTypes, DropNone
    <3>6. OneFormat
      BY DEF PlaceInv
    <3>7. file.flag = "deflate"
      BY <1>4, <3>6, FormatFacts
    <3>8. Here = Start(file.flag)
      BY <3>5, PlaceTypes, RestWhole DEF Here
    <3> QED
      BY <3>7, <3>8 DEF Start, Place
  <2>2. Here' = Here /\ WithinMember /\ WithinMember'
    BY <1>1, <1>2, <1>4 DEF Here, WithinMember, params
  <2>3. Rest(file, Coming)' /\ OneFormat' /\ FlagsHeld' /\ (ReadEmpty' => read_in' = <<>>)
    BY <1>1, <1>2, <2>2 DEF PlaceInv, Rest, OneFormat, FlagsHeld, ReadEmpty, HeaderFields, params,
       input, block, header, hdr_locals
  <2>4. OnMember'
    BY <1>1, <2>1, <2>2 DEF OnMember, block
  <2> QED
    BY <1>1, <2>2, <2>3, <2>4 DEF PlaceInv
<1> QED
  BY <1>1, <1>3, <1>4

(* Only a gzip file has another member, and its header is next.            *)
LEMMA NextTakes ==
  ASSUME Inv, PlaceInv, NEW n \in InSizes, NextMember(n)
  PROVE  /\ pc = "idle" /\ ret \notin Refused /\ block_state = "FINISH" /\ next_in' # <<>>
         /\ read_in' = <<>> /\ tmp_in' = <<>> /\ block_state' = "NEW_HDR"
         /\ wrapper_flag' = FALSE /\ crc_flag' = "gzip" /\ ret' = ret /\ pc' = pc /\ file' = file
         /\ UNCHANGED hdr_locals /\ field = "none" /\ WithinMember
         /\ Here.at = "end" /\ OneFormat /\ Rest(file, Coming) /\ Gzip(file.flag) /\ Coming' = Coming
<1>1. /\ pc = "idle" /\ ret \notin Refused /\ block_state = "FINISH" /\ next_in' # <<>>
      /\ next_in'[1].kind = "id" /\ read_in' = <<>> /\ tmp_in' = <<>> /\ block_state' = "NEW_HDR"
      /\ wrapper_flag' = FALSE /\ crc_flag' = "gzip" /\ ret' = ret /\ pc' = pc /\ file' = file
      /\ UNCHANGED hdr_locals /\ field = "none"
  BY DEF NextMember, params, Inv, HeaderInv
<1>2. next_in' \o rest' = next_in \o rest /\ next_in' \in Seq(FileUnits) /\ rest' \in Seq(FileUnits)
  <2>1. PICK m \in Nat : Supply(m)
    <3>1. n \in Nat /\ 0 \in Nat
      BY InflateAssumption
    <3> QED
      BY <3>1 DEF NextMember
  <2> QED
    BY <2>1, PlaceTypes, SupplyAhead, SupplyOK
<1>3. WithinMember
  BY <1>1 DEF Inv, ControlInv, WrapperStates
<1>4. tmp_in = <<>>
  BY <1>1, <1>3 DEF Inv, InputInv, Half
<1>5. Here.at = "end" /\ OneFormat /\ Rest(file, Coming)
  BY <1>1, <1>3 DEF PlaceInv, OnMember
<1>6. PICK x \in Seq(FileUnits) : x = next_in \o rest
  BY PlaceTypes, Joined
<1>7. Coming = read_in \o x
  BY <1>4, <1>6, DropNone DEF Coming, ComingOf
<1>8. x # <<>> /\ x[1].kind = "id"
  <2>1. Len(next_in') \in Nat /\ Len(next_in') >= 1
    BY <1>1, <1>2
  <2>2. (next_in' \o rest')[1] = next_in'[1] /\ Len(next_in' \o rest') = Len(next_in') + Len(rest')
        /\ Len(rest') \in Nat
    BY <1>2, <2>1, JoinedAt, Joined
  <2> QED
    BY <1>1, <1>2, <1>6, <2>1, <2>2
<1>9. Gzip(file.flag)
  <2> SUFFICES ASSUME ~ Gzip(file.flag) PROVE FALSE
    OBVIOUS
  <2>1. PICK a \in Nat, b \in Nat : a = Len(read_in) /\ b = Len(x) /\ b >= 1
    BY <1>8, PlaceTypes
  <2>2. Len(read_in \o x) = a + b /\ (read_in \o x)[a + 1] = x[1]
    <3>1. PICK v : v = read_in \o x
      OBVIOUS
    <3>2. InTurn(v, FileUnits, read_in, a, x, b)
      BY <2>1, <3>1, PlaceTypes, JoinedEach
    <3> QED
      BY <2>1, <3>1, <3>2 DEF InTurn
  <2>3. a + 1 \in 1 .. Len(Coming) /\ Coming[a + 1] = x[1]
    BY <1>7, <2>1, <2>2
  <2>4. /\ Coming[a + 1] = file.units[Before(file, Coming) + (a + 1)]
        /\ Before(file, Coming) + (a + 1) \in 1 .. Len(file.units)
    <3>1. /\ Before(file, Coming) \in 0 .. Len(file.units) /\ Len(Coming) \in 0 .. Len(file.units)
          /\ Before(file, Coming) + Len(Coming) = Len(file.units) /\ Len(file.units) \in Nat
          /\ \A i \in 1 .. Len(Coming) : Coming[i] = file.units[Before(file, Coming) + i]
      BY <1>5, PlaceTypes, RestFacts
    <3> QED
      BY <2>1, <2>3, <3>1
  <2>5. \A i \in 1 .. Len(file.units) : file.units[i].kind # "id"
    BY PlaceTypes, MembersAssumption
  <2> QED
    BY <1>8, <2>3, <2>4, <2>5
<1>10. read_in = <<>>
  <2>1. Gzip(crc_flag)
    BY <1>5, <1>9, FormatFacts
  <2> QED
    BY <1>1, <2>1 DEF PlaceInv, ReadEmpty
<1>11. Coming' = Coming
  <2>1. Coming' = <<>> \o (<<>> \o (next_in' \o rest'))
    BY <1>1 DEF Coming, ComingOf
  <2>2. Coming = <<>> \o (<<>> \o (next_in \o rest))
    BY <1>4, <1>10 DEF Coming, ComingOf
  <2> QED
    BY <1>2, <2>1, <2>2
<1> QED
  BY <1>1, <1>3, <1>5, <1>9, <1>11

LEMMA PlaceNextMember ==
  ASSUME Inv, PlaceInv, NEW n \in InSizes, NextMember(n)
  PROVE  PlaceInv'
<1>1. /\ pc = "idle" /\ ret \notin Refused /\ block_state = "FINISH"
      /\ read_in' = <<>> /\ tmp_in' = <<>> /\ block_state' = "NEW_HDR"
      /\ wrapper_flag' = FALSE /\ crc_flag' = "gzip" /\ ret' = ret /\ pc' = pc /\ file' = file
      /\ UNCHANGED hdr_locals /\ field = "none"
  BY NextTakes
<1>5. Here.at = "end" /\ OneFormat /\ Rest(file, Coming)
  BY NextTakes
<1>9. Gzip(file.flag)
  BY NextTakes
<1>11. Coming' = Coming
  BY NextTakes
<1>12. Here' = Here /\ Rest(file, Coming)'
  BY <1>1, <1>5, <1>11 DEF Here, Rest
<1>13. OneFormat' /\ FlagsHeld' /\ ~ WithinMember'
  <2>1. file.flag \in {"gzip", "gzip_no_hdr_ver"}
    BY <1>9 DEF Gzip
  <2> QED
    BY <1>1, <2>1 DEF OneFormat, FlagsHeld, HeaderFields, WithinMember, hdr_locals
<1>14. OnGzip'
  BY <1>1, <1>5, <1>12 DEF OnGzip, OnBase, OnField, At, hdr_locals
<1> QED
  BY <1>1, <1>12, <1>13, <1>14 DEF PlaceInv

(* The header goes on where it stopped.                                    *)
LEMMA PlaceStartHeader ==
  ASSUME Inv, PlaceInv, StartHeader
  PROVE  PlaceInv'
<1>1. PICK hdr : /\ EnterHeader(hdr) /\ pc \in {"header", "wrapper"}
                 /\ (pc = "header" => hdr = gz_hdr)
                 /\ UNCHANGED <<outside_header, ret, pc>>
  BY DEF StartHeader
<1>2. /\ field = "none" /\ field' = Resumes[block_state] /\ gz_hdr' = hdr
      /\ flags' = IF block_state = "NEW_HDR" THEN -1 ELSE hdr.flags
      /\ count' = IF block_state = "NEW_HDR" THEN 0 ELSE count
      /\ UNCHANGED <<next_in, tmp_in, block_state, wrapper_flag, hdr_ret>>
      /\ UNCHANGED <<params, rest, read_in, bfinal, crc_flag, ret, pc>>
  BY <1>1 DEF EnterHeader, outside_header
<1>3. ret \notin Refused /\ ~ wrapper_flag /\ crc_flag \in {"gzip", "gzip_no_hdr_ver"}
      /\ (crc_flag = "gzip_no_hdr_ver" => hdr = gz_hdr)
  <2>1. CASE pc = "header"
    BY <1>1, <1>2, <2>1 DEF Inv, ControlInv, HeaderInv
  <2>2. CASE pc = "wrapper"
    BY <1>1, <1>2, <2>2 DEF Inv, ControlInv, HeaderInv, Entering, Refused, Errors
  <2> QED
    BY <1>1, <2>1, <2>2
<1>4. ~ WithinMember /\ ~ WithinMember' /\ crc_flag # "zlib" /\ block_state \in WrapperStates
  BY <1>2, <1>3 DEF WithinMember, Inv, ControlInv
<1>5. field' = CASE block_state = "NEW_HDR" -> "base"
                 [] block_state = "GZIP_EXTRA_LEN" -> "extra_len"
                 [] block_state = "GZIP_EXTRA" -> "extra"
                 [] block_state = "GZIP_NAME" -> "name"
                 [] block_state = "GZIP_COMMENT" -> "comment"
                 [] block_state = "GZIP_HCRC" -> "hcrc"
  BY <1>2, <1>4 DEF Resumes, WrapperStates
<1>6. Coming' = Coming
  BY <1>2, ComingSame
<1>7. Here' = Here /\ Rest(file, Coming)' /\ OneFormat' /\ (ReadEmpty' => read_in' = <<>>)
  BY <1>2, <1>4, <1>6 DEF Here, PlaceInv, Rest, OneFormat, ReadEmpty, WithinMember, params
<1>8. /\ At("NEW_HDR", "base")' => At("NEW_HDR", "base")
      /\ At("GZIP_EXTRA_LEN", "extra_len")' => At("GZIP_EXTRA_LEN", "extra_len")
      /\ At("GZIP_EXTRA", "extra")' => At("GZIP_EXTRA", "extra") /\ count' = count
      /\ At("GZIP_NAME", "name")' => At("GZIP_NAME", "name")
      /\ At("GZIP_COMMENT", "comment")' => At("GZIP_COMMENT", "comment")
      /\ At("GZIP_HCRC", "hcrc")' => At("GZIP_HCRC", "hcrc")
      /\ field' \notin {"sum", "done"}
  <2>1. Resumable /\ ~ Resumable'
    BY <1>2, <1>3, <1>4, <1>5 DEF Resumable, WrapperStates
  <2> QED
    BY <1>2, <1>4, <1>5, <2>1 DEF At, WrapperStates
<1>9. FlagsHeld'
  BY <1>2, <1>4, <1>5 DEF FlagsHeld, WrapperStates
<1>10. OnGzip
  BY <1>4 DEF PlaceInv
<1>11. CASE crc_flag = "gzip_no_hdr_ver"
  <2>1. gz_hdr' = gz_hdr /\ crc_flag' = crc_flag /\ file' = file
    BY <1>2, <1>3, <1>11 DEF params
  <2>2. OnGzip'
    BY <1>7, <1>8, <1>10, <1>11, <2>1 DEF OnGzip, OnBase, OnField
  <2> QED
    BY <1>2, <1>4, <1>7, <1>9, <2>1, <2>2 DEF PlaceInv
<1>12. CASE crc_flag = "gzip"
  <2>1. block_state = "NEW_HDR" /\ field' = "base" /\ crc_flag' = crc_flag /\ file' = file
    BY <1>2, <1>5, <1>10, <1>12 DEF OnGzip, params
  <2>2. ~ Resumable'
    BY <2>1 DEF Resumable
  <2>3. OnGzip'
    BY <1>2, <1>7, <1>8, <1>10, <2>1, <2>2 DEF OnGzip, OnBase, OnField, At
  <2> QED
    BY <1>2, <1>4, <1>7, <1>9, <2>1, <2>3 DEF PlaceInv
<1> QED
  BY <1>3, <1>11, <1>12

(* The end of the header is the start of the text, or the caller's turn.   *)
LEMMA PlaceEndHeader ==
  ASSUME Inv, PlaceInv, EndHeader
  PROVE  PlaceInv'
<1>1. /\ field = "returned" /\ field' = "none" /\ pc \in {"header", "wrapper"}
      /\ pc' \in {"idle", "begin"}
      /\ UNCHANGED <<next_in, tmp_in, block_state, count, wrapper_flag, gz_hdr, hdr_ret>>
      /\ UNCHANGED <<params, rest, read_in, bfinal, crc_flag>>
      /\ \/ pc = "header" /\ ret' = hdr_ret
         \/ pc = "wrapper" /\ hdr_ret = "DECOMP_OK" /\ ret' = ret
         \/ pc = "wrapper" /\ hdr_ret # "DECOMP_OK" /\ ret' = Returned(hdr_ret)
  BY DEF EndHeader, LeaveHeader, outside_header
<1>2. ret \notin Refused /\ ret \notin Errors
  BY <1>1 DEF Inv, ControlInv, Entering, Refused, Errors
<1>3. Coming' = Coming
  BY <1>1, ComingSame
<1>4. WithinMember \/ (Resumable' => Resumable)
  <2>1. ret' \in Refused <=> hdr_ret \in Refused
    BY <1>1, <1>2 DEF Returned, Refused, Errors
  <2> QED
    BY <1>1, <2>1 DEF Resumable
<1> QED
  BY <1>1, <1>2, <1>3, <1>4, PlaceSame DEF params

LEMMA TrailerPlaces ==
  ASSUME NEW f, f.units \in Seq(FileUnits), NEW s, Rest(f, s), PlaceOf(f, s).at = "sum",
         NEW n \in 2 .. 3, n <= Len(s), Gzip(f.flag) <=> n = 3
  PROVE  PlaceOf(f, Drop(s, n)).at = "end"
<1>1. s \in Seq(FileUnits) /\ Drop(s, 0) = s /\ Len(s) \in Nat /\ 2 <= Len(s)
  <2>1. s \in Seq(FileUnits)
    BY RestFacts
  <2> QED
    BY <2>1, DropNone
<1>2. PlaceOf(f, Drop(s, 1)).at = "size"
  <2>1. PlaceOf(f, Drop(s, 0 + 1)) = PlaceAfter(f.flag, PlaceOf(f, Drop(s, 0)), s[0 + 1])
    BY <1>1, OneUnit
  <2>2. PlaceOf(f, Drop(s, 1)) = PlaceAfter(f.flag, PlaceOf(f, s), s[1])
    BY <1>1, <2>1
  <2> QED
    BY <2>2 DEF PlaceAfter, TrailerAfter, To, Place
<1>3. PlaceOf(f, Drop(s, 2)).at = IF Gzip(f.flag) THEN "size2" ELSE "end"
  <2>1. PlaceOf(f, Drop(s, 1 + 1)) = PlaceAfter(f.flag, PlaceOf(f, Drop(s, 1)), s[1 + 1])
    BY <1>1, OneUnit
  <2>2. PlaceOf(f, Drop(s, 2)) = PlaceAfter(f.flag, PlaceOf(f, Drop(s, 1)), s[2])
    BY <2>1
  <2> QED
    BY <1>2, <2>2 DEF PlaceAfter, TrailerAfter, To, Place
<1>4. CASE n = 3
  <2>1. PlaceOf(f, Drop(s, 2 + 1)) = PlaceAfter(f.flag, PlaceOf(f, Drop(s, 2)), s[2 + 1])
    BY <1>1, <1>4, OneUnit
  <2>2. PlaceOf(f, Drop(s, 3)) = PlaceAfter(f.flag, PlaceOf(f, Drop(s, 2)), s[3])
    BY <2>1
  <2> QED
    BY <1>3, <1>4, <2>2 DEF PlaceAfter, TrailerAfter, To, Place
<1> QED
  BY <1>3, <1>4

(* The trailer is read, by a call of its own or at the end of one.         *)
LEMMA PlaceChecks ==
  ASSUME Inv, PlaceInv, NEW sum, NEW size, NEW check,
         check = check_checksum([read |-> read_in, next |-> next_in], sum, size),
         WithinMember, Here.at = TrailerAt(file.flag), crc_flag # "deflate",
         read_in = <<>> \/ tmp_in = <<>>,
         next_in' = check.in.next, read_in' = check.in.read, tmp_in' = check.tmp_in,
         block_state' = check.block, ret' = Returned(check.ret), pc' = "idle",
         field = "none", UNCHANGED <<file, rest, crc_flag, wrapper_flag, field>>
  PROVE  PlaceInv'
<1> DEFINE in == [read |-> read_in, next |-> next_in]
<1>1. InputOK(in) /\ tmp_in \in Seq(FileUnits) /\ rest \in Seq(FileUnits) /\ in.read = read_in
      /\ in.next = next_in
  BY PlaceTypes DEF InputOK
<1>2. TrailerTaken(Coming, check, sum, size, rest)
  <2> HIDE DEF in
  <2>1. TrailerTaken(ComingOf(in.read, tmp_in, in.next, rest), check_checksum(in, sum, size),
                     sum, size, rest)
    BY <1>1, ChecksumTakes
  <2> QED
    BY <1>1, <2>1 DEF Coming, in
<1>3. Coming' = ComingOf(check.in.read, check.tmp_in, check.in.next, rest)
  BY DEF Coming
<1>4. WithinMember' /\ OneFormat' /\ FlagsHeld' /\ Rest(file, Coming) /\ OneFormat
  BY DEF WithinMember, PlaceInv, OneFormat, FlagsHeld, HeaderFields
<1>5. Gzip(crc_flag) <=> crc_flag # "zlib"
  BY <1>4, FormatFacts DEF Gzip
<1>6. CASE check.ret = "END_INPUT"
  <2>1. Coming' = Coming /\ check.block = "CHECKSUM_CHECK" /\ check.in.read = <<>>
    BY <1>2, <1>3, <1>6 DEF TrailerTaken
  <2>2. Here' = Here /\ Rest(file, Coming)'
    BY <1>4, <2>1 DEF Here, Rest
  <2>3. OnMember'
    BY <2>1, <2>2 DEF OnMember
  <2> QED
    BY <1>4, <2>1, <2>2, <2>3 DEF PlaceInv
<1>7. CASE check.ret # "END_INPUT"
  <2>1. /\ TrailerUnits <= Len(Coming) /\ check.block = "FINISH"
        /\ Coming' = Drop(Coming, TrailerUnits) /\ (crc_flag # "zlib" => check.in.read = <<>>)
    BY <1>2, <1>3, <1>7 DEF TrailerTaken
  <2>2. PICK n \in 2 .. 3 : n = TrailerUnits /\ (crc_flag = "zlib" <=> n = 2)
    BY DEF TrailerUnits
  <2>3. PlaceOf(file, Drop(Coming, n)).at = "end"
    <3>1. PlaceOf(file, Coming).at = "sum"
      <4>1. file.flag # "deflate"
        BY <1>4, FormatFacts
      <4> QED
        BY <4>1 DEF Here, TrailerAt
    <3>2. Gzip(file.flag) <=> n = 3
      BY <1>4, <1>5, <2>2, FormatFacts
    <3> QED
      BY <1>4, <2>1, <2>2, <3>1, <3>2, PlaceTypes, TrailerPlaces
  <2>4. Rest(file, Drop(Coming, n))
    BY <1>4, <2>1, <2>2, PlaceTypes, RestDrop
  <2>5. Here'.at = "end" /\ Rest(file, Coming)'
    BY <2>1, <2>2, <2>3, <2>4 DEF Here, Rest
  <2>6. OnMember'
    BY <2>1, <2>5 DEF OnMember
  <2>7. ReadEmpty' => read_in' = <<>>
    BY <1>4, <1>5, <2>1 DEF ReadEmpty
  <2> QED
    BY <1>4, <2>5, <2>6, <2>7 DEF PlaceInv
<1> QED
  BY <1>6, <1>7

LEMMA PlaceReadTrailer ==
  ASSUME Inv, PlaceInv, ReadTrailer
  PROVE  PlaceInv'
<1> DEFINE check == check_checksum([read |-> read_in, next |-> next_in], crc, total_out)
<1>1. /\ pc = "trailer" /\ pc' = "idle"
      /\ next_in' = check.in.next /\ read_in' = check.in.read /\ tmp_in' = check.tmp_in
      /\ block_state' = check.block /\ ret' = Returned(check.ret)
      /\ UNCHANGED <<params, rest, crc_flag, header>>
  BY DEF ReadTrailer
<1> HIDE DEF check
<1>2. block_state = "CHECKSUM_CHECK" /\ ret = "OK" /\ WithinMember /\ field = "none"
  BY <1>1 DEF Inv, ControlInv, HeaderInv, Entering
<1>3. read_in = <<>> /\ Here.at = TrailerAt(file.flag) /\ crc_flag # "deflate"
  BY <1>2 DEF PlaceInv, ReadEmpty, OnMember, Errors
<1> QED
  BY <1>1, <1>2, <1>3, PlaceChecks DEF params, header, hdr_locals, check

(* The end of a call, after the last block with the trailer.               *)
LEMMA PlaceEnd ==
  ASSUME Inv, PlaceInv, End
  PROVE  PlaceInv'
<1> DEFINE buffer == Flushed(Kept.buffer)
           left   == Len(buffer) - Kept.processed
           sum    == Sum(crc, Produced)
           total  == total_out + OverflowLen
           done   == ret \notin Errors /\ block_state = "INPUT_DONE" /\ left = 0
           check  == check_checksum([read |-> read_in, next |-> next_in], sum, total)
<1>1. /\ pc = "end" /\ pc' = "idle" /\ UNCHANGED <<params, rest, bfinal, count, crc_flag, header>>
      /\ IF done /\ crc_flag # "deflate"
         THEN /\ next_in' = check.in.next /\ read_in' = check.in.read
              /\ tmp_in' = check.tmp_in
              /\ block_state' = check.block /\ ret' = Returned(check.ret)
         ELSE /\ block_state' = IF done THEN "FINISH" ELSE block_state
              /\ ret' = Returned(ret)
              /\ UNCHANGED input
  BY DEF End
<1>2. PICK d \in BOOLEAN : (d <=> done) /\ (d => ret \notin Errors /\ block_state = "INPUT_DONE")
  OBVIOUS
<1> HIDE DEF buffer, left, sum, total, done, check
<1>3. /\ WithinMember /\ field = "none" /\ block_state \in BlockStates
  BY <1>1 DEF Inv, ControlInv, HeaderInv, Decoding
<1>4. CASE d /\ crc_flag # "deflate"
  <2>1. Here.at = TrailerAt(file.flag)
    BY <1>2, <1>3, <1>4 DEF PlaceInv, OnMember
  <2>2. tmp_in = <<>>
    BY <1>2, <1>3, <1>4 DEF Inv, InputInv, Half
  <2>3. /\ next_in' = check.in.next /\ read_in' = check.in.read /\ tmp_in' = check.tmp_in
        /\ block_state' = check.block /\ ret' = Returned(check.ret)
    BY <1>1, <1>2, <1>4
  <2>4. field' = field /\ wrapper_flag' = wrapper_flag /\ file' = file /\ rest' = rest
        /\ crc_flag' = crc_flag
    BY <1>1 DEF params, header, hdr_locals
  <2>5. check = check_checksum([read |-> read_in, next |-> next_in], sum, total)
    BY DEF check
  <2> QED
    BY <1>1, <1>3, <1>4, <2>1, <2>2, <2>3, <2>4, <2>5, PlaceChecks, Zenon
<1>5. CASE d /\ crc_flag = "deflate"
  <2>1. Here.at = TrailerAt(file.flag) /\ Rest(file, Coming) /\ OneFormat
    BY <1>2, <1>3, <1>5 DEF PlaceInv, OnMember
  <2>2. Here.at = "end"
    BY <1>5, <2>1, FormatFacts DEF TrailerAt
  <2>3. block_state' = "FINISH" /\ UNCHANGED input /\ ret' = Returned(ret) /\ crc_flag' = "deflate"
    BY <1>1, <1>2, <1>5
  <2>4. Coming' = Coming
    BY <1>1, <2>3, ComingSame DEF input
  <2>5. Here' = Here /\ Rest(file, Coming)' /\ WithinMember' /\ OneFormat' /\ FlagsHeld'
    BY <1>1, <1>3, <2>1, <2>4
       DEF Here, Rest, WithinMember, OneFormat, FlagsHeld, HeaderFields, params, header, hdr_locals
  <2>6. OnMember' /\ ~ ReadEmpty'
    BY <2>2, <2>3, <2>5 DEF OnMember, ReadEmpty, Gzip
  <2> QED
    BY <1>1, <2>5, <2>6 DEF PlaceInv
<1>6. CASE ~ d
  <2>1. block_state' = block_state /\ UNCHANGED input /\ ret' = Returned(ret)
    BY <1>1, <1>2, <1>6
  <2>2. Coming' = Coming
    BY <1>1, <2>1, ComingSame DEF input
  <2>3. ret \in Errors => ret' \in Errors
    BY <2>1 DEF Returned, Refused
  <2>4. gz_hdr'.flags = gz_hdr.flags /\ field' = field /\ flags' = flags
    BY <1>1 DEF header, hdr_locals
  <2>5. UNCHANGED <<file, read_in, tmp_in, crc_flag, wrapper_flag, block_state, bfinal, count>>
    BY <1>1, <2>1 DEF params, header, input
  <2> QED
    BY <1>1, <1>3, <2>2, <2>3, <2>4, <2>5, PlaceSame
<1> QED
  BY <1>2, <1>4, <1>5, <1>6

-----------------------------------------------------------------------------
(* The units of a header.                                                  *)

(* The k + 1st of the units of s, from where the first k lead.             *)
Leads(f, s, k, place, said) == PlaceOf(f, Drop(s, k)) = place /\ SaidOf(f, Drop(s, k)) = said

LEMMA Leading ==
  ASSUME NEW f, f.units \in Seq(FileUnits), NEW s, Rest(f, s)
  PROVE  Leads(f, s, 0, PlaceOf(f, s), SaidOf(f, s)) /\ s \in Seq(FileUnits) /\ Len(s) \in Nat
<1>1. s \in Seq(FileUnits)
  BY RestFacts
<1> QED
  BY <1>1, DropNone DEF Leads

LEMMA LeadsOn ==
  ASSUME NEW f, f.units \in Seq(FileUnits), NEW s, Rest(f, s), NEW k \in Nat, k < Len(s),
         NEW p, NEW t, Leads(f, s, k, p, t)
  PROVE  Leads(f, s, k + 1, PlaceAfter(f.flag, p, s[k + 1]),
               SaidAfter(f, Before(f, s) + k, p, t, s[k + 1]))
BY OneUnit DEF Leads

LEMMA SilentStep ==
  ASSUME NEW f, NEW n, NEW p, NEW t, NEW u, p.at \in Silent
  PROVE  /\ PlaceAfter(f.flag, p, u).at # "bad" => SaidAfter(f, n, p, t, u) = t
         /\ PlaceAfter(f.flag, p, u).at = "bad" => ~ SaidAfter(f, n, p, t, u).ok
BY SilentSays

LEMMA NotOkStays ==
  ASSUME NEW f, NEW n, NEW p, NEW t, NEW u, ~ t.ok
  PROVE  SaidAfter(f, n, p, t, u) = t
BY DEF SaidAfter

(* A unit that leads on as it does from a silent place.                    *)
LEMMA SilentLeads ==
  ASSUME NEW f, f.units \in Seq(FileUnits), NEW s, Rest(f, s), NEW k \in Nat, k < Len(s),
         NEW p, NEW t, Leads(f, s, k, p, t), p.at \in Silent, NEW q,
         PlaceAfter(f.flag, p, s[k + 1]) = q
  PROVE  /\ PlaceOf(f, Drop(s, k + 1)) = q
         /\ q.at # "bad" => Leads(f, s, k + 1, q, t)
         /\ q.at = "bad" => ~ SaidOf(f, Drop(s, k + 1)).ok
<1>1. Leads(f, s, k + 1, q, SaidAfter(f, Before(f, s) + k, p, t, s[k + 1]))
  BY LeadsOn
<1>2. /\ q.at # "bad" => SaidAfter(f, Before(f, s) + k, p, t, s[k + 1]) = t
      /\ q.at = "bad" => ~ SaidAfter(f, Before(f, s) + k, p, t, s[k + 1]).ok
  BY SilentStep
<1> QED
  BY <1>1, <1>2 DEF Leads

(* What is invalid stays so.                                               *)
LEMMA StaysBad ==
  ASSUME NEW f, f.units \in Seq(FileUnits), NEW s, Rest(f, s), NEW k \in Nat, k < Len(s),
         ~ SaidOf(f, Drop(s, k)).ok
  PROVE  ~ SaidOf(f, Drop(s, k + 1)).ok
<1>1. Leads(f, s, k, PlaceOf(f, Drop(s, k)), SaidOf(f, Drop(s, k)))
  BY DEF Leads
<1>2. Leads(f, s, k + 1, PlaceAfter(f.flag, PlaceOf(f, Drop(s, k)), s[k + 1]),
            SaidAfter(f, Before(f, s) + k, PlaceOf(f, Drop(s, k)), SaidOf(f, Drop(s, k)), s[k + 1]))
  BY <1>1, LeadsOn
<1> QED
  BY <1>2, NotOkStays DEF Leads

(* The first three units of a gzip header.                                 *)
Begun(t, at) == IF at = "end" /\ t.ok THEN Says(t.out, Len(t.out), t.len, TRUE) ELSE t
BasePlaced(f, s) ==
  /\ s[1].kind = "id" /\ s[2].value = 0 =>
       /\ PlaceOf(f, Drop(s, 2)).at = "flags"
       /\ PlaceOf(f, Drop(s, 3)).at = BehindBase(s[3].value)
       /\ PlaceOf(f, Drop(s, 3)).flags = s[3].value
       /\ SaidOf(f, Drop(s, 3)) = Begun(SaidOf(f, s), PlaceOf(f, s).at)
  /\ ~ (s[1].kind = "id" /\ s[2].value = 0) => ~ SaidOf(f, Drop(s, 3)).ok

LEMMA BasePlaces ==
  ASSUME NEW f, f.units \in Seq(FileUnits), NEW s, Rest(f, s), 3 <= Len(s), Gzip(f.flag),
         PlaceOf(f, s).at \in {"id", "end"}
  PROVE  BasePlaced(f, s)
<1> DEFINE p == PlaceOf(f, s)
           t == SaidOf(f, s)
           b == Begun(t, p.at)
<1>1. Leads(f, s, 0, p, t) /\ Len(s) \in Nat
  BY Leading
<1>2. /\ s[1].kind = "id" => PlaceAfter(f.flag, p, s[1]) = To(p, "method")
      /\ s[1].kind # "id" => PlaceAfter(f.flag, p, s[1]) = Bad(p)
  BY DEF PlaceAfter, GzipHdrAfter
<1>3. To(p, "method").at = "method" /\ Bad(p).at = "bad"
  BY DEF To, Bad, Place
<1> HIDE DEF p, t, b
<1>4. Leads(f, s, 1, PlaceAfter(f.flag, p, s[1]), SaidAfter(f, Before(f, s) + 0, p, t, s[1]))
  <2>1. Leads(f, s, 0 + 1, PlaceAfter(f.flag, p, s[0 + 1]),
              SaidAfter(f, Before(f, s) + 0, p, t, s[0 + 1]))
    BY <1>1, LeadsOn
  <2> QED
    BY <2>1
<1>5. /\ s[1].kind = "id" => SaidAfter(f, Before(f, s) + 0, p, t, s[1]) = b
      /\ s[1].kind # "id" => ~ SaidAfter(f, Before(f, s) + 0, p, t, s[1]).ok
  <2>1. CASE p.at = "id"
    <3>1. b = t /\ p.at \in Silent
      BY <2>1 DEF b, Begun, Silent
    <3> QED
      BY <1>2, <1>3, <3>1, SilentStep
  <2>2. CASE p.at = "end"
    <3>1. Checks(f, Before(f, s) + 0, p, t, s[1]) <=> s[1].kind = "id"
      BY <1>2, <1>3, <2>2 DEF Checks
    <3>2. CASE ~ t.ok
      BY <2>2, <3>2, NotOkStays DEF b, Begun
    <3>3. CASE t.ok /\ s[1].kind = "id"
      BY <2>2, <3>1, <3>3 DEF SaidAfter, b, Begun
    <3>4. CASE t.ok /\ s[1].kind # "id"
      BY <2>2, <3>1, <3>4 DEF SaidAfter, Says
    <3> QED
      BY <3>2, <3>3, <3>4
  <2> QED
    BY <2>1, <2>2 DEF p
<1>6. CASE s[1].kind # "id"
  <2>1. ~ SaidOf(f, Drop(s, 1)).ok
    BY <1>4, <1>5, <1>6 DEF Leads
  <2>2. ~ SaidOf(f, Drop(s, 1 + 1)).ok
    BY <1>1, <2>1, StaysBad
  <2>3. ~ SaidOf(f, Drop(s, 2 + 1)).ok
    BY <1>1, <2>2, StaysBad
  <2> QED
    BY <1>6, <2>3 DEF BasePlaced
<1>7. CASE s[1].kind = "id"
  <2>1. Leads(f, s, 1, To(p, "method"), b)
    BY <1>2, <1>4, <1>5, <1>7
  <2>2. PlaceAfter(f.flag, To(p, "method"), s[1 + 1])
          = IF s[2].value = 0 THEN To(To(p, "method"), "flags") ELSE Bad(To(p, "method"))
    BY <1>3 DEF PlaceAfter, GzipHdrAfter
  <2>3. To(To(p, "method"), "flags").at = "flags" /\ Bad(To(p, "method")).at = "bad"
    BY DEF To, Bad, Place
  <2>4. "method" \in Silent /\ "flags" \in Silent
    BY DEF Silent
  <2>5. CASE s[2].value # 0
    <3>1. ~ SaidOf(f, Drop(s, 1 + 1)).ok
      BY <1>1, <1>3, <2>1, <2>2, <2>3, <2>4, <2>5, SilentLeads
    <3>2. ~ SaidOf(f, Drop(s, 2 + 1)).ok
      BY <1>1, <3>1, StaysBad
    <3> QED
      BY <2>5, <3>2 DEF BasePlaced
  <2>6. CASE s[2].value = 0
    <3>1. Leads(f, s, 1 + 1, To(To(p, "method"), "flags"), b)
      BY <1>1, <1>3, <2>1, <2>2, <2>3, <2>4, <2>6, SilentLeads
    <3>2. Leads(f, s, 2, To(To(p, "method"), "flags"), b)
      BY <3>1
    <3>3. PICK q : q = PlaceAfter(f.flag, To(To(p, "method"), "flags"), s[2 + 1])
      OBVIOUS
    <3>4. q.at = BehindBase(s[3].value) /\ q.flags = s[3].value
      BY <2>3, <3>3 DEF PlaceAfter, GzipHdrAfter, Place
    <3>5. q.at # "bad"
      BY <3>4 DEF BehindBase, BehindExtra, BehindName, BehindComment
    <3>6. Leads(f, s, 2 + 1, q, b)
      BY <1>1, <2>3, <2>4, <3>2, <3>3, <3>5, SilentLeads
    <3> QED
      BY <1>7, <2>3, <2>6, <3>2, <3>4, <3>6 DEF BasePlaced, Leads, b, p, t
  <2> QED
    BY <2>5, <2>6
<1> QED
  BY <1>6, <1>7

(* A field of fixed size is read as a whole, or waits.                     *)
FixedTaken(read, n) ==
  /\ read.ret \in {"OK", "END_INPUT"}
  /\ read.ret = "END_INPUT" => ComingOf(<<>>, read.tmp, read.next, rest) = Coming
  /\ read.ret = "OK" =>
       /\ n <= Len(Coming) /\ read.tmp = <<>>
       /\ ComingOf(<<>>, read.tmp, read.next, rest) = Drop(Coming, n)
       /\ \A i \in 1 .. n : read.units[i] = Coming[i]

LEMMA FixedTakes ==
  ASSUME Inv, Rest(file, Coming), read_in = <<>>, NEW n \in 1 .. 3
  PROVE  FixedTaken(fixed_size_read(n), n)
<1>1. PICK read : read = fixed_size_read(n)
  OBVIOUS
<1>2. PICK p \in Nat : /\ p = Before(file, Coming) /\ p <= Len(file.units)
                       /\ Coming = Drop(file.units, p) /\ p + Len(Coming) = Len(file.units)
                       /\ \A i \in 1 .. Len(Coming) : Coming[i] = file.units[p + i]
  <2>1. /\ Before(file, Coming) \in 0 .. Len(file.units)
        /\ Coming = Drop(file.units, Before(file, Coming))
        /\ Before(file, Coming) + Len(Coming) = Len(file.units)
        /\ \A i \in 1 .. Len(Coming) : Coming[i] = file.units[Before(file, Coming) + i]
    BY PlaceTypes, RestFacts
  <2> QED
    BY <2>1, SMTT(60)
<1>3. file.units \in Seq(FileUnits) /\ next_in \in Seq(FileUnits) /\ tmp_in \in Seq(FileUnits)
      /\ rest \in Seq(FileUnits) /\ Coming \in Seq(FileUnits)
  BY PlaceTypes
<1>4. Coming = <<>> \o Ahead /\ Ahead = Coming
  <2>1. Coming = <<>> \o Ahead
    BY DEF Coming, ComingOf, Ahead
  <2>2. Ahead \in Seq(FileUnits)
    <3>1. next_in \o rest \in Seq(FileUnits)
      BY <1>3, Joined
    <3> QED
      BY <1>3, <3>1, Joined DEF Ahead
  <2> QED
    BY <2>1, <2>2, DropNone
<1>5. /\ read.ret \in {"OK", "END_INPUT"}
      /\ read.ret = "END_INPUT" => read.tmp \o (read.next \o rest) = Ahead
      /\ read.ret = "OK" =>
           /\ read.tmp = <<>> /\ p + n <= Len(file.units)
           /\ read.tmp \o (read.next \o rest) = Drop(file.units, p + n)
           /\ \A i \in 1 .. n : read.units[i] = file.units[p + i]
  BY <1>1, <1>2, <1>3, <1>4, FixedReadAhead, ZenonT(60)
<1>6. CASE read.ret = "END_INPUT"
  <2>1. ComingOf(<<>>, read.tmp, read.next, rest) = Coming
    BY <1>4, <1>5, <1>6 DEF ComingOf
  <2> QED
    BY <1>1, <1>6, <2>1 DEF FixedTaken
<1>7. CASE read.ret = "OK"
  <2>1. /\ read.tmp = <<>> /\ p + n <= Len(file.units)
        /\ read.tmp \o (read.next \o rest) = Drop(file.units, p + n)
        /\ \A i \in 1 .. n : read.units[i] = file.units[p + i]
    BY <1>5, <1>7
  <2>2. Len(file.units) \in Nat /\ Len(Coming) \in Nat /\ n \in Nat /\ n <= Len(Coming)
    BY <1>2, <1>3, <2>1, SMTT(60)
  <2>3. Drop(Coming, n) = Drop(file.units, p + n)
    BY <1>2, <1>3, <2>1, <2>2, DropMore
  <2>4. Drop(Coming, n) \in Seq(FileUnits)
    BY <1>3, <2>2, Dropped
  <2>5. ComingOf(<<>>, read.tmp, read.next, rest) = Drop(Coming, n)
    <3>1. PICK d \in Seq(FileUnits) : d = Drop(Coming, n)
      BY <2>4
    <3>2. <<>> \o d = d
      BY DropNone
    <3> QED
      BY <2>1, <2>3, <3>1, <3>2 DEF ComingOf
  <2>6. \A i \in 1 .. n : read.units[i] = Coming[i]
    <3> SUFFICES ASSUME NEW i \in 1 .. n PROVE read.units[i] = Coming[i]
      OBVIOUS
    <3>1. i \in 1 .. Len(Coming)
      BY <2>2
    <3> QED
      BY <1>2, <2>1, <3>1
  <2> QED
    BY <1>1, <1>7, <2>1, <2>2, <2>5, <2>6 DEF FixedTaken
<1> QED
  BY <1>5, <1>6, <1>7

-----------------------------------------------------------------------------
(* The fields of fixed size.                                               *)
LEMMA ZlibBasePlaces ==
  ASSUME NEW f, f.units \in Seq(FileUnits), NEW s, Rest(f, s), 2 <= Len(s),
         PlaceOf(f, s).at = "cmf"
  PROVE  /\ s[1].value = 0 /\ s[2].value = 0 => PlaceOf(f, Drop(s, 2)).at = "block"
         /\ s[1].value = 0 /\ s[2].value = 1 => PlaceOf(f, Drop(s, 2)).at = "dict"
         /\ s[1].value = 0 /\ s[2].value \in 0 .. 1 => SaidOf(f, Drop(s, 2)) = SaidOf(f, s)
         /\ ~ (s[1].value = 0 /\ s[2].value \in 0 .. 1) => ~ SaidOf(f, Drop(s, 2)).ok
<1> DEFINE p == PlaceOf(f, s)
           t == SaidOf(f, s)
<1>1. Leads(f, s, 0, p, t) /\ Len(s) \in Nat
  BY Leading
<1> HIDE DEF p, t
<1>2. p.at = "cmf"
  BY DEF p
<1>3. PICK q : q = PlaceAfter(f.flag, p, s[0 + 1])
  OBVIOUS
<1>4. q = IF s[1].value = 0 THEN To(p, "flg") ELSE Bad(p)
  BY <1>2, <1>3 DEF PlaceAfter, ZlibHdrAfter
<1>5. "cmf" \in Silent /\ "flg" \in Silent
  BY DEF Silent
<1>6. CASE s[1].value # 0
  <2>1. q.at = "bad"
    BY <1>4, <1>6 DEF Bad, To, Place
  <2>2. ~ SaidOf(f, Drop(s, 0 + 1)).ok
    BY <1>1, <1>2, <1>3, <1>5, <2>1, SilentLeads
  <2>3. ~ SaidOf(f, Drop(s, 1 + 1)).ok
    BY <1>1, <2>2, StaysBad
  <2> QED
    BY <1>6, <2>3
<1>7. CASE s[1].value = 0
  <2>1. q.at = "flg"
    BY <1>4, <1>7 DEF To, Place
  <2>2. Leads(f, s, 0 + 1, q, t)
    BY <1>1, <1>2, <1>3, <1>5, <2>1, SilentLeads
  <2>3. Leads(f, s, 1, q, t)
    BY <2>2
  <2>4. PICK r : r = PlaceAfter(f.flag, q, s[1 + 1])
    OBVIOUS
  <2>5. r.at = IF s[2].value = 0 THEN "block" ELSE IF s[2].value = 1 THEN "dict" ELSE "bad"
    BY <2>1, <2>4 DEF PlaceAfter, ZlibHdrAfter, To, Bad, Place
  <2>6. /\ PlaceOf(f, Drop(s, 1 + 1)) = r
        /\ r.at # "bad" => Leads(f, s, 1 + 1, r, t)
        /\ r.at = "bad" => ~ SaidOf(f, Drop(s, 1 + 1)).ok
    BY <1>1, <1>5, <2>1, <2>3, <2>4, SilentLeads
  <2>7. r.at # "bad" <=> s[2].value \in 0 .. 1
    BY <2>5
  <2>8. SaidOf(f, Drop(s, 1 + 1)) = t \/ r.at = "bad"
    BY <2>6 DEF Leads
  <2> QED
    BY <1>7, <2>5, <2>6, <2>7, <2>8 DEF t
<1> QED
  BY <1>6, <1>7

(* Two units that only take their places.                                  *)
LEMMA TwoSilent ==
  ASSUME NEW f, f.units \in Seq(FileUnits), NEW s, Rest(f, s), 2 <= Len(s),
         PlaceOf(f, s).at \in Silent, NEW q, q.at \in Silent, NEW r, r.at # "bad",
         PlaceAfter(f.flag, PlaceOf(f, s), s[1]) = q, PlaceAfter(f.flag, q, s[2]) = r
  PROVE  PlaceOf(f, Drop(s, 2)) = r /\ SaidOf(f, Drop(s, 2)) = SaidOf(f, s)
<1> DEFINE p == PlaceOf(f, s)
           t == SaidOf(f, s)
<1>1. Leads(f, s, 0, p, t) /\ Len(s) \in Nat
  BY Leading
<1>2. p.at \in Silent /\ PlaceAfter(f.flag, p, s[0 + 1]) = q /\ q.at # "bad"
  BY DEF Silent
<1> HIDE DEF p, t
<1>3. Leads(f, s, 0 + 1, q, t)
  BY <1>1, <1>2, SilentLeads
<1>4. Leads(f, s, 1, q, t) /\ PlaceAfter(f.flag, q, s[1 + 1]) = r
  BY <1>3
<1>5. Leads(f, s, 1 + 1, r, t)
  BY <1>1, <1>4, SilentLeads
<1> QED
  BY <1>5 DEF Leads, t

LEMMA ZlibDictPlaces ==
  ASSUME NEW f, f.units \in Seq(FileUnits), NEW s, Rest(f, s), 2 <= Len(s),
         PlaceOf(f, s).at = "dict"
  PROVE  PlaceOf(f, Drop(s, 2)).at = "block" /\ SaidOf(f, Drop(s, 2)) = SaidOf(f, s)
<1> DEFINE p == PlaceOf(f, s)
<1>1. p.at = "dict" /\ PlaceOf(f, s).at \in Silent
  BY DEF Silent
<1>2. PICK q : q = PlaceAfter(f.flag, p, s[1])
  OBVIOUS
<1>3. PICK r : r = PlaceAfter(f.flag, q, s[2])
  OBVIOUS
<1>4. q.at = "dict2"
  BY <1>1, <1>2 DEF PlaceAfter, ZlibHdrAfter, To, Place
<1>5. r.at = "block" /\ q.at \in Silent
  BY <1>3, <1>4 DEF PlaceAfter, ZlibHdrAfter, To, Place, Silent
<1> QED
  BY <1>1, <1>2, <1>3, <1>5, TwoSilent

LEMMA ExtraLenPlaces ==
  ASSUME NEW f, f.units \in Seq(FileUnits), NEW s, Rest(f, s), 2 <= Len(s),
         PlaceOf(f, s).at = "xlen"
  PROVE  /\ OnExtra(PlaceOf(f, Drop(s, 2)), s[1].value, PlaceOf(f, s).flags)
         /\ SaidOf(f, Drop(s, 2)) = SaidOf(f, s)
<1> DEFINE p == PlaceOf(f, s)
<1>1. p.at = "xlen" /\ PlaceOf(f, s).at \in Silent
  BY DEF Silent
<1>2. PICK q : q = PlaceAfter(f.flag, p, s[1])
  OBVIOUS
<1>3. PICK r : r = PlaceAfter(f.flag, q, s[2])
  OBVIOUS
<1>4. q.at = "xlen2" /\ q.left = s[1].value /\ q.flags = p.flags
  BY <1>1, <1>2 DEF PlaceAfter, GzipHdrAfter, Place
<1>5. r = ExtraLeft(q, q.left)
  BY <1>3, <1>4 DEF PlaceAfter, GzipHdrAfter
<1>6. r.at # "bad" /\ OnExtra(r, s[1].value, p.flags) /\ q.at \in Silent
  BY <1>4, <1>5 DEF ExtraLeft, OnExtra, Place, BehindExtra, BehindName, BehindComment, Silent
<1>7. PlaceOf(f, Drop(s, 2)) = r /\ SaidOf(f, Drop(s, 2)) = SaidOf(f, s)
  BY <1>1, <1>2, <1>3, <1>6, TwoSilent
<1> QED
  BY <1>6, <1>7

(* The checksum of the header: what is said there is whether it holds.     *)
LEMMA HcrcPlaces ==
  ASSUME NEW f, f.units \in Seq(FileUnits), NEW s, Rest(f, s), 2 <= Len(s),
         PlaceOf(f, s).at = "hcrc"
  PROVE  LET sum == Extended(0, Values(SubSeq(f.units, 1, Before(f, s))))
         IN  /\ PlaceOf(f, Drop(s, 2)).at = "block"
             /\ s[1].value = sum => SaidOf(f, Drop(s, 2)) = SaidOf(f, s)
             /\ s[1].value # sum => ~ SaidOf(f, Drop(s, 2)).ok
<1> DEFINE p == PlaceOf(f, s)
           t == SaidOf(f, s)
           sum == Extended(0, Values(SubSeq(f.units, 1, Before(f, s))))
<1>1. Leads(f, s, 0, p, t) /\ Len(s) \in Nat
  BY Leading
<1> HIDE DEF p, t
<1>2. p.at = "hcrc"
  BY DEF p
<1>3. PICK q : q = PlaceAfter(f.flag, p, s[0 + 1])
  OBVIOUS
<1>4. PICK r : r = PlaceAfter(f.flag, q, s[1 + 1])
  OBVIOUS
<1>5. q.at = "hcrc2"
  BY <1>2, <1>3 DEF PlaceAfter, GzipHdrAfter, To, Place
<1>6. r.at = "block" /\ q.at \in Silent
  BY <1>4, <1>5 DEF PlaceAfter, GzipHdrAfter, To, Place, Silent
<1>7. PICK v : v = SaidAfter(f, Before(f, s) + 0, p, t, s[0 + 1])
  OBVIOUS
<1>8. Leads(f, s, 0 + 1, q, v)
  BY <1>1, <1>3, <1>7, LeadsOn
<1>9. Leads(f, s, 1, q, v)
  BY <1>8
<1>10. /\ PlaceOf(f, Drop(s, 1 + 1)) = r
       /\ r.at # "bad" => Leads(f, s, 1 + 1, r, v)
  BY <1>1, <1>4, <1>6, <1>9, SilentLeads
<1>11. PlaceOf(f, Drop(s, 2)) = r /\ SaidOf(f, Drop(s, 2)) = v
  BY <1>6, <1>10 DEF Leads
<1>12. Before(f, s) + 0 = Before(f, s)
  <2>1. Before(f, s) \in Nat
    BY RestFacts
  <2> QED
    BY <2>1
<1>13. Checks(f, Before(f, s), p, t, s[1]) <=> s[1].value = sum
  BY <1>2 DEF Checks
<1> HIDE DEF sum
<1>14. s[1].value = sum => v = t
  <2>1. v = SaidAfter(f, Before(f, s), p, t, s[1])
    BY <1>7, <1>12
  <2>2. CASE ~ t.ok
    BY <2>1, <2>2 DEF SaidAfter
  <2>3. CASE t.ok /\ s[1].value = sum
    <3>1. Checks(f, Before(f, s), p, t, s[1])
      BY <1>13, <2>3
    <3>2. ~ (p.at = "stored" \/ (p.at = "coded" /\ s[1].kind = "lit")) /\ p.at # "dist"
          /\ ~ (p.at = "coded" /\ s[1].kind = "len") /\ ~ (p.at = "end" /\ Gzip(f.flag))
      BY <1>2
    <3> QED
      BY <2>1, <2>3, <3>1, <3>2 DEF SaidAfter
  <2> QED
    BY <2>2, <2>3
<1>15. s[1].value # sum => ~ v.ok
  BY <1>7, <1>12, <1>13 DEF SaidAfter, Says
<1> QED
  BY <1>6, <1>11, <1>14, <1>15 DEF t, sum

-----------------------------------------------------------------------------
(* The fields of a gzip header and what they take of the file.             *)
Following == {<<"extra_len", "xlen">>, <<"name", "name">>, <<"comment", "comment">>,
              <<"sum", "hcrc">>, <<"done", "block">>}

LEMMA FieldsMatch ==
  ASSUME NEW f
  PROVE  /\ <<AfterComment(f), BehindComment(f)>> \in Following
         /\ <<AfterName(f), BehindName(f)>> \in Following
         /\ <<AfterExtra(f), BehindExtra(f)>> \in Following
         /\ <<AfterBase(f), BehindBase(f)>> \in Following
<1>1. <<AfterComment(f), BehindComment(f)>> \in Following
  BY DEF Following, AfterComment, BehindComment
<1>2. <<AfterName(f), BehindName(f)>> \in Following
  BY <1>1 DEF Following, AfterName, BehindName
<1>3. <<AfterExtra(f), BehindExtra(f)>> \in Following
  BY <1>2 DEF Following, AfterExtra, BehindExtra
<1>4. <<AfterBase(f), BehindBase(f)>> \in Following
  BY <1>3 DEF Following, AfterBase, BehindBase
<1> QED
  BY <1>1, <1>2, <1>3, <1>4

(* What a step of the header leaves as it is.                              *)
HeaderStays == /\ WithinHeader /\ field \in HeaderFields /\ wrapper_flag' = wrapper_flag

LEMMA HeaderFrame ==
  ASSUME Inv, PlaceInv, HeaderStays
  PROVE  /\ UNCHANGED <<file, rest, read_in, crc_flag, ret, pc>>
         /\ ~ WithinMember /\ ~ WithinMember' /\ crc_flag \in {"gzip", "gzip_no_hdr_ver"}
         /\ read_in = <<>> /\ Rest(file, Coming) /\ OnGzip /\ OneFormat /\ OneFormat'
         /\ ~ (pc' \in {"tmp", "out"}) /\ FlagsHeld
         /\ Coming' = ComingOf(<<>>, tmp_in', next_in', rest)
         /\ Here' = PlaceOf(file, Coming') /\ Said' = SaidOf(file, Coming')
         /\ Rest(file, Coming)' <=> Rest(file, Coming')
<1>1. UNCHANGED <<file, rest, read_in, crc_flag, ret, pc>>
  BY DEF HeaderStays, WithinHeader, outside_header, params
<1>2. /\ pc \in {"header", "wrapper"} /\ ~ wrapper_flag
      /\ crc_flag \in {"gzip", "gzip_no_hdr_ver"}
  BY InHeader DEF HeaderStays
<1>3. ~ WithinMember /\ ~ WithinMember' /\ crc_flag # "zlib"
  BY <1>1, <1>2 DEF WithinMember, HeaderStays
<1>4. read_in = <<>> /\ Rest(file, Coming) /\ OnGzip /\ OneFormat /\ FlagsHeld
  BY <1>3 DEF PlaceInv, ReadEmpty
<1>5. OneFormat' /\ ~ (pc' \in {"tmp", "out"})
  BY <1>1, <1>2, <1>4 DEF OneFormat
<1>6. /\ Coming' = ComingOf(<<>>, tmp_in', next_in', rest)
      /\ Here' = PlaceOf(file, Coming') /\ Said' = SaidOf(file, Coming')
      /\ Rest(file, Coming)' <=> Rest(file, Coming')
  BY <1>1, <1>4 DEF Coming, Here, Said, Rest
<1> QED
  BY <1>1, <1>2, <1>3, <1>4, <1>5, <1>6

LEMMA PlaceField ==
  ASSUME Inv, PlaceInv, HeaderStays, Rest(file, Coming)', FlagsHeld', OnGzip'
  PROVE  PlaceInv'
BY HeaderFrame DEF PlaceInv

(* The next field of a header, where the grammar expects it.               *)
LEMMA OnFollowing ==
  ASSUME Inv, PlaceInv, HeaderStays, Rest(file, Coming)',
         <<field', Here'.at>> \in Following, Here'.flags = gz_hdr'.flags, flags' = gz_hdr'.flags,
         crc_flag = "gzip" => field' = "done" /\ block_state' = "NEW_HDR"
  PROVE  PlaceInv'
<1>1. ~ Resumable'
  BY DEF Resumable, Following
<1>2. FlagsHeld'
  BY DEF FlagsHeld
<1>3. OnGzip'
  BY <1>1, HeaderFrame DEF OnGzip, OnBase, OnField, At, Following
<1> QED
  BY <1>2, <1>3, PlaceField

(* A call that breaks off within a field, and can be resumed there.        *)
LEMMA OnBreak ==
  ASSUME Inv, PlaceInv, HeaderStays, Rest(file, Coming)', field' = "returned",
         hdr_ret' \notin Refused =>
           \/ block_state' = "NEW_HDR" /\ (Here'.at = "end" \/ (Here'.at = "id" /\ crc_flag = file.flag))
           \/ crc_flag # "gzip" /\ Here'.flags = gz_hdr'.flags
                /\ <<block_state', Here'.at>> \in {<<"GZIP_EXTRA_LEN", "xlen">>, <<"GZIP_NAME", "name">>,
                                                   <<"GZIP_COMMENT", "comment">>}
           \/ crc_flag # "gzip" /\ block_state' = "GZIP_HCRC" /\ Here'.at = "hcrc"
           \/ crc_flag # "gzip" /\ block_state' = "GZIP_EXTRA" /\ OnExtra(Here', count', gz_hdr'.flags),
         crc_flag = "gzip" => block_state' = "NEW_HDR"
  PROVE  PlaceInv'
<1>1. FlagsHeld'
  BY DEF FlagsHeld, HeaderFields
<1>2. Resumable' <=> hdr_ret' \notin Refused
  BY DEF Resumable
<1>3. \A a, x : x # "returned" => (At(a, x)' <=> (Resumable' /\ block_state' = a))
  BY DEF At
<1>4. file' = file /\ crc_flag' = crc_flag
  BY HeaderFrame
<1>5. OnBase' /\ OnField("GZIP_EXTRA_LEN", "extra_len", "xlen")'
      /\ OnField("GZIP_NAME", "name", "name")' /\ OnField("GZIP_COMMENT", "comment", "comment")'
  BY <1>2, <1>3, <1>4 DEF OnBase, OnField
<1>6. At("GZIP_EXTRA", "extra")' => OnExtra(Here, count, gz_hdr.flags)'
  BY <1>2, <1>3, <1>4
<1>7. At("GZIP_HCRC", "hcrc")' => Here'.at = "hcrc"
  BY <1>2, <1>3, <1>4
<1>8. OnGzip'
  BY <1>4, <1>5, <1>6, <1>7 DEF OnGzip
<1> QED
  BY <1>1, <1>8, PlaceField

BaseTaken ==
  /\ Rest(file, Coming)'
  /\ \/ /\ field' = "returned" /\ hdr_ret' = "END_INPUT" /\ Coming' = Coming
     \/ /\ field' = "returned" /\ hdr_ret' \in {"INVALID_WRAPPER", "UNSUPPORTED_METHOD"}
        /\ ~ Said'.ok
     \/ /\ field' = AfterBase(flags') /\ Here'.at = BehindBase(flags') /\ Here'.flags = flags'
        /\ gz_hdr'.flags = flags' /\ Said' = Begun(Said, Here.at)
        /\ crc_flag = "gzip" => AfterBase(flags') = "done"
  /\ block_state' = "NEW_HDR" /\ wrapper_flag' = wrapper_flag

(* The flags that isal_inflate reads itself name no fields.                *)
LEMMA NamesNone ==
  ASSUME Inv, PlaceInv, ~ SplitHeaders, field = "base", crc_flag = "gzip", 3 <= Len(Coming),
         Rest(file, Coming), PlaceOf(file, Drop(Coming, 2)).at = "flags"
  PROVE  NoFields(Coming[3])
<1>1. file \in Files /\ file.units \in Seq(FileUnits) /\ Coming \in Seq(FileUnits)
      /\ file.flag \in {"deflate", "gzip_no_hdr_ver", "gzip", "zlib"}
  BY PlaceTypes
<1>2. PICK b \in Nat : /\ b = Before(file, Coming) /\ b + Len(Coming) = Len(file.units)
                       /\ \A i \in 1 .. Len(Coming) : Coming[i] = file.units[b + i]
  <2>1. /\ Before(file, Coming) \in 0 .. Len(file.units)
        /\ Before(file, Coming) + Len(Coming) = Len(file.units)
        /\ \A i \in 1 .. Len(Coming) : Coming[i] = file.units[Before(file, Coming) + i]
    BY <1>1, RestFacts
  <2> QED
    BY <2>1, SMTT(60)
<1>3. Before(file, Drop(Coming, 2)) = b + 2
  BY <1>1, <1>2, RestDrop
<1>4. Len(Coming) \in Nat /\ Len(file.units) \in Nat
  BY <1>1
<1>5. b + 2 \in 0 .. Len(file.units) - 1 /\ Coming[3] = file.units[(b + 2) + 1]
  <2>1. 3 \in 1 .. Len(Coming) /\ (b + 2) + 1 = b + 3
    BY <1>2, <1>4
  <2> QED
    BY <1>2, <1>4, <2>1
<1>6. Parse(file)[b + 2].place.at = "flags"
  BY <1>3 DEF PlaceOf
<1>7. b + 2 # 2 \/ file.flag = "gzip"
  <2> SUFFICES ASSUME b = 0, file.flag # "gzip" PROVE FALSE
    BY <1>2
  <2>1. Here.at = "end"
    <3>1. ~ WithinMember /\ crc_flag # "zlib"
      BY DEF Inv, HeaderInv, HeaderFields, WithinMember
    <3> QED
      BY <3>1 DEF PlaceInv, OnGzip, OnBase, At
  <2>2. Here = Start(file.flag)
    <3>1. Parse(file)[0] = ParseStarts(file)
      BY <1>4, ParseSteps
    <3>2. Before(file, Coming) = 0
      BY <1>2
    <3> QED
      BY <3>1, <3>2 DEF Here, PlaceOf, ParseStarts
  <2> QED
    BY <2>1, <2>2 DEF Start, Place
<1>8. \A n \in 0 .. Len(file.units) - 1 :
        Parse(file)[n].place.at = "flags" /\ (n # 2 \/ file.flag = "gzip") => NoFields(file.units[n + 1])
  BY <1>1, MembersAssumption
<1> QED
  BY <1>5, <1>6, <1>7, <1>8

LEMMA BaseTakes ==
  ASSUME Inv, PlaceInv, ~ SplitHeaders, WithinHeader, ReadBase
  PROVE  BaseTaken
<1>1. PICK read : read = fixed_size_read(GZIP_HDR_BASE)
  OBVIOUS
<1>2. /\ field = "base" /\ next_in' = read.next /\ tmp_in' = read.tmp
      /\ IF read.ret # "OK" THEN BreakOff(read.ret, block_state, gz_hdr)
         ELSE IF read.units[1].kind # "id" THEN Return("INVALID_WRAPPER")
         ELSE IF read.units[2].value # 0 THEN Return("UNSUPPORTED_METHOD")
         ELSE /\ flags' = read.units[3].value
              /\ GoOn(AfterBase(read.units[3].value),
                      [gz_hdr EXCEPT !.flags = read.units[3].value,
                         !.extra_len = IF Has(read.units[3].value, EXTRA_FLAG) THEN @ ELSE 0])
  BY <1>1 DEF ReadBase
<1>3. block_state = "NEW_HDR" /\ block_state' = block_state /\ wrapper_flag' = wrapper_flag
  BY <1>2 DEF Inv, HeaderInv, BreakOff, Return, GoOn
<1>4. HeaderStays
  BY <1>2, <1>3 DEF HeaderStays, HeaderFields
<1>5. /\ read_in = <<>> /\ Rest(file, Coming) /\ OnGzip /\ OneFormat
      /\ Coming' = ComingOf(<<>>, read.tmp, read.next, rest)
      /\ Here' = PlaceOf(file, Coming') /\ Said' = SaidOf(file, Coming')
      /\ Rest(file, Coming)' <=> Rest(file, Coming')
  BY <1>2, <1>4, HeaderFrame
<1>6. FixedTaken(read, 3)
  BY <1>1, <1>5, FixedTakes DEF GZIP_HDR_BASE
<1>7. CASE read.ret = "END_INPUT"
  <2>1. Coming' = Coming
    BY <1>5, <1>6, <1>7 DEF FixedTaken
  <2>2. field' = "returned" /\ hdr_ret' = "END_INPUT"
    BY <1>2, <1>7 DEF BreakOff
  <2> QED
    BY <1>3, <1>5, <2>1, <2>2 DEF BaseTaken
<1>8. CASE read.ret = "OK"
  <2>1. /\ 3 <= Len(Coming) /\ Coming' = Drop(Coming, 3)
        /\ read.units[1] = Coming[1] /\ read.units[2] = Coming[2] /\ read.units[3] = Coming[3]
    BY <1>5, <1>6, <1>8 DEF FixedTaken
  <2>2. Rest(file, Coming)'
    BY <1>5, <2>1, PlaceTypes, RestDrop
  <2>3. Here.at \in {"id", "end"} /\ Gzip(file.flag)
    <3>1. Here.at \in {"id", "end"}
      BY <1>2, <1>5 DEF OnGzip, OnBase, At
    <3>2. crc_flag \in {"gzip", "gzip_no_hdr_ver"}
      BY <1>4, HeaderFrame
    <3> QED
      BY <1>5, <3>1, <3>2 DEF OneFormat, Gzip
  <2>4. BasePlaced(file, Coming)
    BY <1>5, <2>1, <2>3, PlaceTypes, BasePlaces DEF Here
  <2>5. CASE Coming[1].kind = "id" /\ Coming[2].value = 0
    <3>1. /\ flags' = Coming[3].value /\ field' = AfterBase(flags')
          /\ gz_hdr' = [gz_hdr EXCEPT !.flags = Coming[3].value,
                          !.extra_len = IF Has(Coming[3].value, EXTRA_FLAG) THEN @ ELSE 0]
      BY <1>2, <1>8, <2>1, <2>5 DEF GoOn
    <3>2. gz_hdr'.flags = flags'
      BY <3>1 DEF Inv, HeaderInv
    <3>3. /\ PlaceOf(file, Drop(Coming, 2)).at = "flags" /\ Here'.at = BehindBase(flags')
          /\ Here'.flags = flags' /\ Said' = Begun(Said, Here.at)
      BY <1>5, <2>1, <2>4, <2>5, <3>1 DEF BasePlaced, Here, Said
    <3>4. crc_flag = "gzip" => AfterBase(flags') = "done"
      <4> SUFFICES ASSUME crc_flag = "gzip" PROVE AfterBase(flags') = "done"
        OBVIOUS
      <4>1. NoFields(Coming[3])
        BY <1>2, <1>5, <2>1, <3>3, NamesNone
      <4> QED
        BY <3>1, <4>1 DEF NoFields, AfterBase, AfterExtra, AfterName, AfterComment
    <3> QED
      BY <1>3, <2>2, <3>1, <3>2, <3>3, <3>4 DEF BaseTaken
  <2>6. CASE ~ (Coming[1].kind = "id" /\ Coming[2].value = 0)
    <3>1. ~ Said'.ok
      BY <1>5, <2>1, <2>4, <2>6 DEF BasePlaced
    <3>2. field' = "returned" /\ hdr_ret' \in {"INVALID_WRAPPER", "UNSUPPORTED_METHOD"}
      BY <1>2, <1>8, <2>1, <2>6 DEF Return
    <3> QED
      BY <1>3, <2>2, <3>1, <3>2 DEF BaseTaken
  <2> QED
    BY <2>5, <2>6
<1> QED
  BY <1>6, <1>7, <1>8 DEF FixedTaken

LEMMA PlaceReadBase ==
  ASSUME Inv, PlaceInv, ~ SplitHeaders, WithinHeader, ReadBase
  PROVE  PlaceInv'
<1>1. BaseTaken
  BY BaseTakes
<1>2. field = "base" /\ HeaderStays
  BY <1>1 DEF ReadBase, BaseTaken, HeaderStays, HeaderFields
<1>3. Rest(file, Coming)' /\ block_state' = "NEW_HDR"
  BY <1>1 DEF BaseTaken
<1>4. CASE field' = "returned" /\ hdr_ret' = "END_INPUT" /\ Coming' = Coming
  <2>1. Here' = Here /\ file' = file
    BY <1>2, <1>4, HeaderFrame DEF Here
  <2>2. Here.at = "end" \/ (Here.at = "id" /\ crc_flag = file.flag)
    BY <1>2, HeaderFrame DEF OnGzip, OnBase, At
  <2> QED
    BY <1>2, <1>3, <1>4, <2>1, <2>2, OnBreak
<1>5. CASE field' = "returned" /\ hdr_ret' \in {"INVALID_WRAPPER", "UNSUPPORTED_METHOD"}
  <2>1. hdr_ret' \in Refused
    BY <1>5 DEF Refused
  <2> QED
    BY <1>2, <1>3, <1>5, <2>1, OnBreak
<1>6. CASE /\ field' = AfterBase(flags') /\ Here'.at = BehindBase(flags') /\ Here'.flags = flags'
           /\ gz_hdr'.flags = flags' /\ (crc_flag = "gzip" => AfterBase(flags') = "done")
  <2>1. <<field', Here'.at>> \in Following
    BY <1>6, FieldsMatch
  <2> QED
    BY <1>2, <1>3, <1>6, <2>1, OnFollowing
<1> QED
  BY <1>1, <1>4, <1>5, <1>6 DEF BaseTaken

(* What the input holds is next, once nothing waits before it.             *)
LEMMA NextComes ==
  ASSUME Inv, read_in = <<>>, tmp_in = <<>>, NEW k \in Nat, k <= Len(next_in)
  PROVE  /\ ComingOf(<<>>, <<>>, Drop(next_in, k), rest) = Drop(Coming, k)
         /\ k <= Len(Coming) /\ Len(next_in) <= Len(Coming)
         /\ \A i \in 1 .. Len(next_in) : Coming[i] = next_in[i]
<1>1. next_in \in Seq(FileUnits) /\ rest \in Seq(FileUnits)
  BY PlaceTypes
<1>2. PICK a \in Nat, b \in Nat : a = Len(next_in) /\ b = Len(rest)
  BY <1>1
<1>3. PICK w \in Seq(FileUnits) : w = next_in \o rest
  BY <1>1, Joined
<1>4. InTurn(w, FileUnits, next_in, a, rest, b)
  BY <1>1, <1>2, <1>3, JoinedEach
<1>5. Coming = w
  BY <1>3, DropNone DEF Coming, ComingOf
<1>6. Drop(next_in, k) \in Seq(FileUnits) /\ Drop(next_in, k) \o rest = Drop(next_in \o rest, k)
  BY <1>1, Dropped, DropFront
<1>7. PICK v \in Seq(FileUnits) : v = Drop(next_in, k) \o rest
  BY <1>1, <1>6, Joined
<1>8. ComingOf(<<>>, <<>>, Drop(next_in, k), rest) = v
  BY <1>7, DropNone DEF ComingOf
<1>9. Len(w) = a + b /\ \A i \in 1 .. a : w[i] = next_in[i]
  BY <1>4 DEF InTurn
<1>10. k <= a + b /\ a <= a + b
  BY <1>2
<1> QED
  BY <1>2, <1>3, <1>5, <1>6, <1>7, <1>8, <1>9, <1>10

(* Fields of fixed size.                                                   *)
ExtraLenTaken ==
  /\ HeaderStays /\ Rest(file, Coming)' /\ Said' = Said
  /\ \/ /\ field' = "returned" /\ hdr_ret' = "END_INPUT" /\ Coming' = Coming
        /\ block_state' = "GZIP_EXTRA_LEN" /\ gz_hdr'.flags = gz_hdr.flags
     \/ /\ field' = "extra" /\ OnExtra(Here', count', Here.flags) /\ flags' = flags
        /\ gz_hdr'.flags = gz_hdr.flags /\ block_state' = block_state

LEMMA ExtraLenTakes ==
  ASSUME Inv, PlaceInv, WithinHeader, ReadExtraLen
  PROVE  ExtraLenTaken
<1>1. PICK read : read = fixed_size_read(GZIP_EXTRA_LEN)
  OBVIOUS
<1>2. /\ field = "extra_len" /\ next_in' = read.next /\ tmp_in' = read.tmp
      /\ IF read.ret # "OK"
         THEN BreakOff(read.ret, "GZIP_EXTRA_LEN", gz_hdr)
         ELSE /\ count' = read.units[1].value
              /\ GoOn("extra", [gz_hdr EXCEPT !.extra_len = read.units[1].value])
              /\ flags' = flags
  BY <1>1 DEF ReadExtraLen
<1>3. HeaderStays
  BY <1>2 DEF HeaderStays, HeaderFields, BreakOff, GoOn
<1>4. /\ read_in = <<>> /\ Rest(file, Coming) /\ OnGzip /\ file' = file
      /\ Coming' = ComingOf(<<>>, read.tmp, read.next, rest)
      /\ Here' = PlaceOf(file, Coming') /\ Said' = SaidOf(file, Coming')
      /\ Rest(file, Coming)' <=> Rest(file, Coming')
  BY <1>2, <1>3, HeaderFrame
<1>5. FixedTaken(read, 2)
  BY <1>1, <1>4, FixedTakes DEF GZIP_EXTRA_LEN
<1>6. CASE read.ret = "END_INPUT"
  <2>1. Coming' = Coming
    BY <1>4, <1>5, <1>6 DEF FixedTaken
  <2>2. /\ field' = "returned" /\ hdr_ret' = "END_INPUT" /\ block_state' = "GZIP_EXTRA_LEN"
        /\ gz_hdr'.flags = gz_hdr.flags
    BY <1>2, <1>6 DEF BreakOff, Inv, HeaderInv
  <2>3. Said' = Said /\ Rest(file, Coming)'
    BY <1>4, <2>1 DEF Said
  <2> QED
    BY <1>3, <2>1, <2>2, <2>3 DEF ExtraLenTaken
<1>7. CASE read.ret = "OK"
  <2>1. 2 <= Len(Coming) /\ Coming' = Drop(Coming, 2) /\ read.units[1] = Coming[1]
    BY <1>4, <1>5, <1>7 DEF FixedTaken
  <2>2. Rest(file, Coming)'
    BY <1>4, <2>1, PlaceTypes, RestDrop
  <2>3. Here.at = "xlen"
    BY <1>2, <1>4 DEF OnGzip, OnField, At
  <2>4. /\ field' = "extra" /\ count' = Coming[1].value /\ flags' = flags
        /\ gz_hdr'.flags = gz_hdr.flags /\ block_state' = block_state
    BY <1>2, <1>7, <2>1 DEF GoOn, Inv, HeaderInv
  <2>5. OnExtra(Here', count', Here.flags) /\ Said' = Said
    BY <1>4, <2>1, <2>3, <2>4, PlaceTypes, ExtraLenPlaces DEF Here, Said
  <2> QED
    BY <1>3, <2>2, <2>4, <2>5 DEF ExtraLenTaken
<1> QED
  BY <1>5, <1>6, <1>7 DEF FixedTaken

LEMMA PlaceReadExtraLen ==
  ASSUME Inv, PlaceInv, WithinHeader, ReadExtraLen
  PROVE  PlaceInv'
<1>1. ExtraLenTaken /\ field = "extra_len"
  BY ExtraLenTakes DEF ReadExtraLen
<1>2. HeaderStays /\ Rest(file, Coming)'
  BY <1>1 DEF ExtraLenTaken
<1>3. OnGzip /\ FlagsHeld /\ file' = file /\ crc_flag' = crc_flag
  BY <1>2, HeaderFrame
<1>4. Here.at = "xlen" /\ Here.flags = gz_hdr.flags /\ crc_flag # "gzip" /\ flags = gz_hdr.flags
  BY <1>1, <1>3 DEF OnGzip, OnField, At, FlagsHeld, HeaderFields
<1>5. CASE /\ field' = "returned" /\ Coming' = Coming
           /\ block_state' = "GZIP_EXTRA_LEN" /\ gz_hdr'.flags = gz_hdr.flags
  <2>1. Here' = Here
    BY <1>3, <1>5 DEF Here
  <2> QED
    BY <1>2, <1>4, <1>5, <2>1, OnBreak
<1>6. CASE /\ field' = "extra" /\ OnExtra(Here', count', Here.flags) /\ flags' = flags
           /\ gz_hdr'.flags = gz_hdr.flags /\ block_state' = block_state
  <2>1. ~ Resumable' /\ FlagsHeld'
    BY <1>4, <1>6 DEF Resumable, FlagsHeld
  <2>2. OnGzip'
    BY <1>3, <1>4, <1>6, <2>1 DEF OnGzip, OnBase, OnField, At
  <2> QED
    BY <1>2, <2>1, <2>2, PlaceField
<1> QED
  BY <1>1, <1>5, <1>6 DEF ExtraLenTaken

HcrcTaken ==
  /\ HeaderStays /\ Rest(file, Coming)'
  /\ \/ /\ field' = "returned" /\ hdr_ret' = "END_INPUT" /\ Coming' = Coming
        /\ block_state' = "GZIP_HCRC"
     \/ /\ block_state' = block_state /\ Here'.at = "block" /\ flags' = flags
        /\ gz_hdr' = gz_hdr /\ 2 <= Len(Coming)
        /\ LET sum == Extended(0, Values(SubSeq(file.units, 1, Before(file, Coming))))
           IN  /\ Coming[1].value = sum => Said' = Said
               /\ Coming[1].value # sum => ~ Said'.ok
        /\ \/ field' = "returned" /\ hdr_ret' = "INCORRECT_CHECKSUM" /\ hcrc # Coming[1].value
           \/ field' = "done" /\ hcrc = Coming[1].value /\ hdr_ret' = hdr_ret

LEMMA HcrcTakes ==
  ASSUME Inv, PlaceInv, WithinHeader, ReadHcrc
  PROVE  HcrcTaken
<1>1. PICK read : read = fixed_size_read(GZIP_HCRC_LEN)
  OBVIOUS
<1>2. /\ field = "hcrc" /\ next_in' = read.next /\ tmp_in' = read.tmp
      /\ IF read.ret # "OK"
         THEN /\ field' = "returned" /\ hdr_ret' = read.ret /\ block_state' = "GZIP_HCRC"
              /\ UNCHANGED <<wrapper_flag, gz_hdr, flags, hcrc, start_in>>
         ELSE IF hcrc # read.units[1].value THEN Return("INCORRECT_CHECKSUM")
         ELSE GoOn("done", gz_hdr) /\ UNCHANGED <<flags, hcrc>>
  BY <1>1 DEF ReadHcrc
<1>3. HeaderStays
  BY <1>2 DEF HeaderStays, HeaderFields, Return, GoOn
<1>4. /\ read_in = <<>> /\ Rest(file, Coming) /\ OnGzip /\ file' = file
      /\ Coming' = ComingOf(<<>>, read.tmp, read.next, rest)
      /\ Here' = PlaceOf(file, Coming') /\ Said' = SaidOf(file, Coming')
      /\ Rest(file, Coming)' <=> Rest(file, Coming')
  BY <1>2, <1>3, HeaderFrame
<1>5. FixedTaken(read, 2)
  BY <1>1, <1>4, FixedTakes DEF GZIP_HCRC_LEN
<1>6. CASE read.ret = "END_INPUT"
  <2>1. Coming' = Coming
    BY <1>4, <1>5, <1>6 DEF FixedTaken
  <2>2. field' = "returned" /\ hdr_ret' = "END_INPUT" /\ block_state' = "GZIP_HCRC"
    BY <1>2, <1>6
  <2>3. Rest(file, Coming)'
    BY <1>4, <2>1
  <2> QED
    BY <1>3, <2>1, <2>2, <2>3 DEF HcrcTaken
<1>7. CASE read.ret = "OK"
  <2>1. 2 <= Len(Coming) /\ Coming' = Drop(Coming, 2) /\ read.units[1] = Coming[1]
    BY <1>4, <1>5, <1>7 DEF FixedTaken
  <2>2. Rest(file, Coming)'
    BY <1>4, <2>1, PlaceTypes, RestDrop
  <2>3. Here.at = "hcrc"
    BY <1>2, <1>4 DEF OnGzip, At
  <2>4. /\ flags' = flags /\ gz_hdr' = gz_hdr /\ block_state' = block_state
        /\ \/ field' = "returned" /\ hdr_ret' = "INCORRECT_CHECKSUM" /\ hcrc # Coming[1].value
           \/ field' = "done" /\ hcrc = Coming[1].value /\ hdr_ret' = hdr_ret
    BY <1>2, <1>7, <2>1 DEF GoOn, Return
  <2> DEFINE sum == Extended(0, Values(SubSeq(file.units, 1, Before(file, Coming))))
  <2>5. /\ Here'.at = "block"
        /\ Coming[1].value = sum => Said' = Said
        /\ Coming[1].value # sum => ~ Said'.ok
    BY <1>4, <2>1, <2>3, PlaceTypes, HcrcPlaces DEF Here, Said
  <2> QED
    BY <1>3, <2>1, <2>2, <2>4, <2>5 DEF HcrcTaken
<1> QED
  BY <1>5, <1>6, <1>7 DEF FixedTaken

LEMMA PlaceReadHcrc ==
  ASSUME Inv, PlaceInv, WithinHeader, ReadHcrc
  PROVE  PlaceInv'
<1>1. HcrcTaken /\ field = "hcrc"
  BY HcrcTakes DEF ReadHcrc
<1>2. HeaderStays /\ Rest(file, Coming)'
  BY <1>1 DEF HcrcTaken
<1>3. OnGzip /\ FlagsHeld /\ file' = file /\ crc_flag' = crc_flag
  BY <1>2, HeaderFrame
<1>4. Here.at = "hcrc" /\ crc_flag # "gzip" /\ flags = gz_hdr.flags
  BY <1>1, <1>3 DEF OnGzip, OnField, At, FlagsHeld, HeaderFields
<1>5. CASE field' = "returned" /\ Coming' = Coming /\ block_state' = "GZIP_HCRC"
  <2>1. Here' = Here
    BY <1>3, <1>5 DEF Here
  <2> QED
    BY <1>2, <1>4, <1>5, <2>1, OnBreak
<1>6. CASE field' = "returned" /\ hdr_ret' = "INCORRECT_CHECKSUM"
  <2>1. hdr_ret' \in Refused
    BY <1>6 DEF Refused
  <2> QED
    BY <1>2, <1>4, <1>6, <2>1, OnBreak
<1>7. CASE field' = "done" /\ Here'.at = "block" /\ flags' = flags /\ gz_hdr' = gz_hdr
  <2>1. ~ Resumable' /\ FlagsHeld'
    BY <1>4, <1>7 DEF Resumable, FlagsHeld
  <2>2. OnGzip'
    BY <1>3, <1>4, <1>7, <2>1 DEF OnGzip, OnBase, OnField, At
  <2> QED
    BY <1>2, <2>1, <2>2, PlaceField
<1> QED
  BY <1>1, <1>5, <1>6, <1>7 DEF HcrcTaken

(* The copies: of an extra field, and of a text up to its 0.               *)
ExtraTaken ==
  /\ HeaderStays /\ Rest(file, Coming)' /\ Said' = Said /\ flags' = flags
  /\ gz_hdr'.flags = gz_hdr.flags /\ OnExtra(Here', count', Here.flags)
  /\ \/ field' = "returned" /\ hdr_ret' \in {"END_INPUT", "EXTRA_OVERFLOW"} /\ block_state' = "GZIP_EXTRA"
     \/ field' = AfterExtra(flags) /\ count' = 0 /\ block_state' = block_state

LEMMA ExtraTakes ==
  ASSUME Inv, PlaceInv, WithinHeader, CopyExtra
  PROVE  ExtraTaken
<1>1. PICK copy : copy = buffer_header_copy(count, gz_hdr.extra, gz_hdr.extra_len - count,
                                            "EXTRA_OVERFLOW")
  OBVIOUS
<1>2. field = "extra" /\ Copy(copy, "GZIP_EXTRA", AfterExtra(flags), [gz_hdr EXCEPT !.extra = copy.buf])
  BY <1>1 DEF CopyExtra
<1>3. field \in HeaderFields
  BY <1>2 DEF HeaderFields
<1>4. /\ next_in \in Seq(FileUnits) /\ count \in Nat /\ tmp_in = <<>>
      /\ gz_hdr.extra.data \in Seq(Nat) /\ gz_hdr.extra_len \in Nat
      /\ ~ gz_hdr.extra.null =>
           count <= gz_hdr.extra_len /\ gz_hdr.extra_len - count <= Len(gz_hdr.extra.data)
  BY <1>2 DEF Inv, InputInv, HeaderInv, At
<1>5. PICK k \in 0 .. count :
        /\ k <= Len(next_in) /\ copy.next = Drop(next_in, k) /\ copy.count = count - k
        /\ copy.ret = "OK" => k = count
        /\ copy.ret \in {"OK", "END_INPUT", "EXTRA_OVERFLOW"}
  <2> DEFINE len  == Least(count, Len(next_in))
             room == Len(gz_hdr.extra.data) - (gz_hdr.extra_len - count)
             full == ~gz_hdr.extra.null /\ room < len
             n    == IF full THEN room ELSE len
  <2>1. Len(next_in) \in Nat /\ Len(gz_hdr.extra.data) \in Nat
    BY <1>4
  <2>2. len \in 0 .. count /\ len <= Len(next_in)
    BY <1>4, <2>1 DEF Least
  <2>3. room \in Int /\ (~ gz_hdr.extra.null => room >= 0)
    BY <1>4, <2>1
  <2> HIDE DEF len, room
  <2>4. n \in 0 .. count /\ n <= Len(next_in) /\ n \in Nat
    BY <1>4, <2>1, <2>2, <2>3
  <2>5. copy = [ret   |-> IF full THEN "EXTRA_OVERFLOW" ELSE IF len = count THEN "OK" ELSE "END_INPUT",
                next  |-> Drop(next_in, n), count |-> count - n,
                buf   |-> WrittenAt(gz_hdr.extra, gz_hdr.extra_len - count, Values(Take(next_in, n)))]
    BY <1>1 DEF buffer_header_copy, len, room
  <2>6. /\ copy.next = Drop(next_in, n) /\ copy.count = count - n
        /\ copy.ret = IF full THEN "EXTRA_OVERFLOW" ELSE IF len = count THEN "OK" ELSE "END_INPUT"
    BY <2>5
  <2>7. copy.ret = "OK" => n = count
    BY <2>6
  <2> HIDE DEF n
  <2> QED
    BY <2>4, <2>6, <2>7
<1>6. /\ next_in' = copy.next /\ count' = copy.count /\ tmp_in' = tmp_in /\ flags' = flags
      /\ wrapper_flag' = wrapper_flag /\ gz_hdr'.flags = gz_hdr.flags
      /\ \/ /\ copy.ret # "OK" /\ field' = "returned" /\ hdr_ret' = copy.ret
            /\ block_state' = "GZIP_EXTRA"
         \/ copy.ret = "OK" /\ field' = AfterExtra(flags) /\ block_state' = block_state
  BY <1>2 DEF Copy, BreakOff, GoOn, Inv, HeaderInv
<1>7. HeaderStays
  BY <1>3, <1>6 DEF HeaderStays
<1>8. /\ read_in = <<>> /\ Rest(file, Coming) /\ OnGzip /\ file' = file
      /\ Coming' = ComingOf(<<>>, <<>>, Drop(next_in, k), rest)
      /\ Here' = PlaceOf(file, Coming') /\ Said' = SaidOf(file, Coming')
      /\ Rest(file, Coming)' <=> Rest(file, Coming')
  BY <1>4, <1>5, <1>6, <1>7, HeaderFrame
<1>9. k \in Nat /\ Coming' = Drop(Coming, k) /\ k <= Len(Coming)
  <2>1. k \in Nat
    OBVIOUS
  <2> QED
    BY <1>4, <1>5, <1>8, <2>1, NextComes
<1>10. Rest(file, Coming)'
  BY <1>8, <1>9, PlaceTypes, RestDrop
<1>11. OnExtra(Here, count, Here.flags)
  BY <1>2, <1>8 DEF OnGzip, At, OnExtra
<1>12. OnExtra(Here', count', Here.flags) /\ Said' = Said
  BY <1>4, <1>5, <1>6, <1>8, <1>9, <1>11, PlaceTypes, ExtraSays DEF Here, Said
<1>13. copy.ret = "OK" => count' = 0
  BY <1>4, <1>5, <1>6
<1> QED
  BY <1>5, <1>6, <1>7, <1>10, <1>12, <1>13 DEF ExtraTaken

LEMMA PlaceCopyExtra ==
  ASSUME Inv, PlaceInv, WithinHeader, CopyExtra
  PROVE  PlaceInv'
<1>1. ExtraTaken /\ field = "extra"
  BY ExtraTakes DEF CopyExtra
<1>2. HeaderStays /\ Rest(file, Coming)'
  BY <1>1 DEF ExtraTaken
<1>3. OnGzip /\ FlagsHeld /\ file' = file /\ crc_flag' = crc_flag
  BY <1>2, HeaderFrame
<1>4. Here.flags = gz_hdr.flags /\ crc_flag # "gzip" /\ flags = gz_hdr.flags
  BY <1>1, <1>3 DEF OnGzip, OnExtra, At, FlagsHeld, HeaderFields
<1>5. OnExtra(Here', count', gz_hdr'.flags) /\ flags' = gz_hdr'.flags
  BY <1>1, <1>4 DEF ExtraTaken
<1>6. CASE field' = "returned" /\ block_state' = "GZIP_EXTRA"
  BY <1>2, <1>4, <1>5, <1>6, OnBreak
<1>7. CASE field' = AfterExtra(flags) /\ count' = 0
  <2>1. Here'.at = BehindExtra(flags) /\ Here'.flags = gz_hdr'.flags
    BY <1>1, <1>4, <1>5, <1>7 DEF OnExtra, ExtraTaken
  <2>2. <<field', Here'.at>> \in Following
    BY <1>7, <2>1, FieldsMatch
  <2> QED
    BY <1>2, <1>4, <1>5, <2>1, <2>2, OnFollowing
<1> QED
  BY <1>1, <1>6, <1>7 DEF ExtraTaken

StringTaken(copy, error) ==
  \E k \in 0 .. Len(next_in) :
    /\ \A i \in 1 .. k : next_in[i].value # 0
    /\ \/ copy.ret \in {"END_INPUT", error} /\ copy.next = Drop(next_in, k)
       \/ /\ copy.ret = "OK" /\ k + 1 <= Len(next_in) /\ next_in[k + 1].value = 0
          /\ copy.next = Drop(next_in, k + 1)

LEMMA StringTakes ==
  ASSUME NEW buf \in Buffers, count \in Nat, NEW error, next_in \in Seq(FileUnits),
         ~ buf.null => count <= Len(buf.data), error # "OK"
  PROVE  StringTaken(string_header_copy(buf, count, error), error)
<1> DEFINE room == Len(buf.data) - count
           most == IF buf.null \/ room > Len(next_in) THEN Len(next_in) ELSE room
           Ends(n) == /\ \A i \in 1 .. n : next_in[i].value # 0
                      /\ n < most => next_in[n + 1].value = 0
           len  == CHOOSE n \in 0 .. most : Ends(n)
           left == Drop(next_in, len)
           new  == WrittenAt(buf, count, Values(Take(next_in, len)))
<1>1. Len(buf.data) \in Nat /\ Len(next_in) \in Nat
  BY DEF Buffers
<1>2. room \in Int /\ (~ buf.null => room >= 0)
  BY <1>1
<1> HIDE DEF room
<1>3. most \in Nat /\ most <= Len(next_in)
      /\ (buf.null \/ room > Len(next_in) => most = Len(next_in))
      /\ (~ (buf.null \/ room > Len(next_in)) => most = room)
  BY <1>1, <1>2
<1> HIDE DEF most
<1>4. \E n \in 0 .. most : Ends(n)
  <2> DEFINE T == {n \in 0 .. most : n = most \/ next_in[n + 1].value = 0}
  <2>1. T \subseteq Nat /\ most \in T
    BY <1>3
  <2>2. PICK n \in T : \A m \in T : n <= m
    BY <2>1, LeastNat
  <2>3. n \in 0 .. most /\ (n < most => next_in[n + 1].value = 0)
    BY <1>3, <2>2
  <2>4. ASSUME NEW i \in 1 .. n PROVE next_in[i].value # 0
    <3>1. i - 1 \in 0 .. most /\ (i - 1) + 1 = i /\ ~ (n <= i - 1)
      BY <1>3, <2>3
    <3> QED
      BY <2>2, <3>1
  <2> QED
    BY <2>3, <2>4
<1>5. len \in 0 .. most /\ Ends(len)
  <2> HIDE DEF Ends
  <2> QED
    BY <1>4
<1>6. PICK k \in 0 .. most :
        k = len /\ (\A i \in 1 .. k : next_in[i].value # 0) /\ (k < most => next_in[k + 1].value = 0)
  BY <1>5
<1>7. PICK copy : copy = string_header_copy(buf, count, error)
  OBVIOUS
<1>8. /\ ~buf.null /\ len = room => copy.ret = error /\ copy.next = left
      /\ ~ (~buf.null /\ len = room) /\ left = <<>> => copy.ret = "END_INPUT" /\ copy.next = left
      /\ ~ (~buf.null /\ len = room) /\ left # <<>> => copy.ret = "OK" /\ copy.next = Tail(left)
  BY <1>7 DEF string_header_copy, len, most, room, left, new
<1> HIDE DEF len
<1>9. k \in 0 .. Len(next_in) /\ k \in Nat /\ k <= Len(next_in) /\ left = Drop(next_in, k)
  BY <1>1, <1>3, <1>6
<1> HIDE DEF left
<1>10. CASE (~buf.null /\ len = room) \/ left = <<>>
  <2>1. copy.ret \in {"END_INPUT", error} /\ copy.next = Drop(next_in, k)
    BY <1>8, <1>9, <1>10
  <2> QED
    BY <1>6, <1>7, <1>9, <2>1 DEF StringTaken
<1>11. CASE ~ (~buf.null /\ len = room) /\ left # <<>>
  <2>1. left \in Seq(FileUnits) /\ Len(left) = Len(next_in) - k
    BY <1>9, Dropped
  <2>2. k < Len(next_in)
    <3> SUFFICES ASSUME k = Len(next_in) PROVE FALSE
      BY <1>1, <1>9
    <3>1. Len(left) = 0
      BY <1>1, <2>1
    <3> QED
      BY <1>11, <2>1, <3>1
  <2>3. k < most
    BY <1>3, <1>6, <1>11, <2>2
  <2>4. next_in[k + 1].value = 0 /\ k + 1 <= Len(next_in)
    BY <1>1, <1>6, <1>9, <2>2, <2>3
  <2>5. Tail(left) = Drop(left, 1)
    <3>1. Len(left) \in Nat /\ Len(left) >= 1
      BY <1>1, <1>9, <2>1, <2>2
    <3> QED
      BY <2>1, <3>1 DEF Drop
  <2>6. Drop(left, 1) = Drop(next_in, k + 1)
    BY <1>9, <2>4, DropMore
  <2> QED
    BY <1>6, <1>7, <1>8, <1>9, <1>11, <2>4, <2>5, <2>6 DEF StringTaken
<1> QED
  BY <1>10, <1>11

(* A text in the header: the units up to its 0, and the 0.                 *)
TextTaken(at, state, behind, next) ==
  /\ HeaderStays /\ Rest(file, Coming)' /\ Said' = Said /\ flags' = flags
  /\ gz_hdr'.flags = gz_hdr.flags
  /\ \/ /\ field' = "returned" /\ hdr_ret' \in {"END_INPUT", "NAME_OVERFLOW", "COMMENT_OVERFLOW"}
        /\ block_state' = state /\ Here' = Here
     \/ /\ field' = next /\ block_state' = block_state
        /\ Here'.at = behind /\ Here'.flags = Here.flags

LEMMA TextTakes ==
  ASSUME Inv, PlaceInv, WithinHeader, NEW x \in {"name", "comment"}, field = x, Here.at = x,
         NEW buf \in Buffers, ~ buf.null => count <= Len(buf.data),
         NEW error \in {"NAME_OVERFLOW", "COMMENT_OVERFLOW"}, NEW state, NEW next, NEW hdr,
         Copy(string_header_copy(buf, count, error), state, next, hdr),
         \A h : [hdr EXCEPT !.hcrc = h].flags = gz_hdr.flags, hdr.flags = gz_hdr.flags
  PROVE  TextTaken(x, state, IF x = "name" THEN BehindName(Here.flags) ELSE BehindComment(Here.flags),
                   next)
<1>1. PICK copy : copy = string_header_copy(buf, count, error)
  OBVIOUS
<1>2. field \in HeaderFields
  BY DEF HeaderFields
<1>3. next_in \in Seq(FileUnits) /\ count \in Nat /\ tmp_in = <<>>
  BY DEF Inv, InputInv, HeaderInv
<1>4. PICK k \in 0 .. Len(next_in) :
    /\ \A i \in 1 .. k : next_in[i].value # 0
    /\ \/ copy.ret \in {"END_INPUT", error} /\ copy.next = Drop(next_in, k)
       \/ /\ copy.ret = "OK" /\ k + 1 <= Len(next_in) /\ next_in[k + 1].value = 0
          /\ copy.next = Drop(next_in, k + 1)
  BY <1>1, <1>3, StringTakes DEF StringTaken
<1>5. /\ next_in' = copy.next /\ tmp_in' = tmp_in /\ flags' = flags
      /\ wrapper_flag' = wrapper_flag /\ gz_hdr'.flags = gz_hdr.flags
      /\ \/ /\ copy.ret # "OK" /\ field' = "returned" /\ hdr_ret' = copy.ret
            /\ block_state' = state
         \/ copy.ret = "OK" /\ field' = next /\ block_state' = block_state
  BY <1>1 DEF Copy, BreakOff, GoOn
<1>6. HeaderStays
  BY <1>2, <1>5 DEF HeaderStays
<1>7. /\ read_in = <<>> /\ Rest(file, Coming) /\ file' = file
      /\ Coming' = ComingOf(<<>>, <<>>, copy.next, rest)
      /\ Here' = PlaceOf(file, Coming') /\ Said' = SaidOf(file, Coming')
      /\ Rest(file, Coming)' <=> Rest(file, Coming')
  BY <1>3, <1>5, <1>6, HeaderFrame
<1>8. /\ k \in Nat /\ k <= Len(next_in) /\ k <= Len(Coming) /\ Len(next_in) <= Len(Coming)
      /\ ComingOf(<<>>, <<>>, Drop(next_in, k), rest) = Drop(Coming, k)
      /\ \A i \in 1 .. Len(next_in) : Coming[i] = next_in[i]
      /\ Len(next_in) \in Nat /\ Len(Coming) \in Nat
  <2>1. k \in Nat /\ k <= Len(next_in) /\ Len(next_in) \in Nat /\ Len(Coming) \in Nat
    BY <1>3, PlaceTypes
  <2> QED
    BY <1>3, <1>7, <2>1, NextComes
<1>9. NameRun(Coming, k)
  <2> SUFFICES ASSUME NEW i \in 1 .. k PROVE Coming[i].value # 0
    BY <1>8 DEF NameRun
  <2>1. i \in 1 .. Len(next_in)
    BY <1>8
  <2> QED
    BY <1>4, <1>8, <2>1
<1>10. PlaceOf(file, Drop(Coming, k)) = Here /\ SaidOf(file, Drop(Coming, k)) = Said
  BY <1>7, <1>8, <1>9, PlaceTypes, NameSays DEF Here, Said
<1>11. CASE copy.ret \in {"END_INPUT", error} /\ copy.next = Drop(next_in, k)
  <2>1. Coming' = Drop(Coming, k)
    BY <1>7, <1>8, <1>11
  <2>2. Rest(file, Coming)'
    BY <1>7, <1>8, <2>1, PlaceTypes, RestDrop
  <2>3. /\ field' = "returned" /\ block_state' = state
        /\ hdr_ret' \in {"END_INPUT", "NAME_OVERFLOW", "COMMENT_OVERFLOW"}
    BY <1>5, <1>11
  <2> QED
    BY <1>5, <1>6, <1>7, <1>10, <2>1, <2>2, <2>3 DEF TextTaken
<1>12. CASE /\ copy.ret = "OK" /\ k + 1 <= Len(next_in) /\ next_in[k + 1].value = 0
            /\ copy.next = Drop(next_in, k + 1)
  <2>1. k + 1 \in Nat /\ k + 1 \in 1 .. Len(next_in) /\ k + 1 <= Len(Coming) /\ k < Len(Coming)
    BY <1>8, <1>12
  <2>2. Coming' = Drop(Coming, k + 1) /\ Coming[k + 1].value = 0
    <3>1. ComingOf(<<>>, <<>>, Drop(next_in, k + 1), rest) = Drop(Coming, k + 1)
      BY <1>3, <1>7, <2>1, NextComes
    <3> QED
      BY <1>7, <1>8, <1>12, <2>1, <3>1
  <2>3. Rest(file, Coming)'
    BY <1>7, <2>1, <2>2, PlaceTypes, RestDrop
  <2>4. Leads(file, Coming, k, Here, Said)
    BY <1>10 DEF Leads
  <2>5. PICK q : q = PlaceAfter(file.flag, Here, Coming[k + 1])
    OBVIOUS
  <2>6. /\ q.at = IF x = "name" THEN BehindName(Here.flags) ELSE BehindComment(Here.flags)
        /\ q.flags = Here.flags
    BY <2>2, <2>5 DEF PlaceAfter, GzipHdrAfter, To, Place
  <2>7. q.at # "bad" /\ Here.at \in Silent
    BY <2>6 DEF BehindName, BehindComment, Silent
  <2>8. Leads(file, Coming, k + 1, q, Said)
    <3>1. file.units \in Seq(FileUnits)
      BY PlaceTypes
    <3> QED
      BY <1>7, <1>8, <2>1, <2>4, <2>5, <2>7, <3>1, SilentLeads
  <2>9. Here' = q /\ Said' = Said
    BY <1>7, <2>2, <2>8 DEF Leads
  <2>10. field' = next /\ block_state' = block_state
    BY <1>5, <1>12
  <2> QED
    BY <1>5, <1>6, <2>3, <2>6, <2>9, <2>10 DEF TextTaken
<1> QED
  BY <1>4, <1>11, <1>12

NameTaken    == TextTaken("name", "GZIP_NAME", BehindName(Here.flags), AfterName(flags))
CommentTaken == TextTaken("comment", "GZIP_COMMENT", BehindComment(Here.flags), AfterComment(flags))

LEMMA NameTakes ==
  ASSUME Inv, PlaceInv, WithinHeader, CopyName
  PROVE  NameTaken /\ Here.at = "name" /\ Here.flags = gz_hdr.flags
<1> DEFINE copy == string_header_copy(gz_hdr.name, count, "NAME_OVERFLOW")
           hdr  == [gz_hdr EXCEPT !.name = copy.buf]
<1>1. field = "name" /\ Copy(copy, "GZIP_NAME", AfterName(flags), hdr)
  BY DEF CopyName
<1>2. /\ gz_hdr.name \in Buffers /\ ~ wrapper_flag /\ crc_flag # "zlib"
      /\ ~ gz_hdr.name.null => count <= Len(gz_hdr.name.data)
  BY <1>1, InHeader DEF Inv, HeaderInv, Buffers, At, HeaderFields
<1>3. hdr.flags = gz_hdr.flags /\ \A h : [hdr EXCEPT !.hcrc = h].flags = gz_hdr.flags
  BY DEF Inv, HeaderInv
<1>4. Here.at = "name" /\ Here.flags = gz_hdr.flags
  <2>1. ~ WithinMember
    BY <1>1, <1>2, InHeader DEF WithinMember, HeaderFields
  <2> QED
    BY <1>1, <1>2, <2>1 DEF PlaceInv, OnGzip, OnField, At
<1>5. TextTaken("name", "GZIP_NAME", IF "name" = "name" THEN BehindName(Here.flags)
                                    ELSE BehindComment(Here.flags), AfterName(flags))
  <2> HIDE DEF hdr
  <2> QED
    BY <1>1, <1>2, <1>3, <1>4, TextTakes
<1> QED
  BY <1>4, <1>5 DEF NameTaken

LEMMA CommentTakes ==
  ASSUME Inv, PlaceInv, WithinHeader, CopyComment
  PROVE  CommentTaken /\ Here.at = "comment" /\ Here.flags = gz_hdr.flags
<1> DEFINE copy == string_header_copy(gz_hdr.comment, count, "COMMENT_OVERFLOW")
           hdr  == [gz_hdr EXCEPT !.comment = copy.buf]
<1>1. field = "comment" /\ Copy(copy, "GZIP_COMMENT", AfterComment(flags), hdr)
  BY DEF CopyComment
<1>2. /\ gz_hdr.comment \in Buffers /\ ~ wrapper_flag /\ crc_flag # "zlib"
      /\ ~ gz_hdr.comment.null => count <= Len(gz_hdr.comment.data)
  <2>1. gz_hdr.comment = NULL /\ NULL.null /\ NULL \in Buffers
    <3>1. NULL.data \in Seq(Nat)
      BY DEF NULL
    <3>2. NULL \in [null : BOOLEAN, data : Seq(Nat)]
      BY <3>1 DEF NULL
    <3> QED
      BY <3>2 DEF Inv, HeaderInv, NULL, Buffers
  <2> QED
    BY <1>1, <2>1, InHeader DEF HeaderFields
<1>3. hdr.flags = gz_hdr.flags /\ \A h : [hdr EXCEPT !.hcrc = h].flags = gz_hdr.flags
  BY DEF Inv, HeaderInv
<1>4. Here.at = "comment" /\ Here.flags = gz_hdr.flags
  <2>1. ~ WithinMember
    BY <1>1, <1>2, InHeader DEF WithinMember, HeaderFields
  <2> QED
    BY <1>1, <1>2, <2>1 DEF PlaceInv, OnGzip, OnField, At
<1>5. TextTaken("comment", "GZIP_COMMENT", IF "comment" = "name" THEN BehindName(Here.flags)
                                    ELSE BehindComment(Here.flags), AfterComment(flags))
  <2> HIDE DEF hdr
  <2> QED
    BY <1>1, <1>2, <1>3, <1>4, TextTakes
<1> QED
  BY <1>4, <1>5 DEF CommentTaken

(* After a text of the header, whichever it is.                            *)
LEMMA PlaceText ==
  ASSUME Inv, PlaceInv, NEW x \in {"name", "comment"}, field = x,
         Here.at = x, Here.flags = gz_hdr.flags,
         NEW state, <<state, x>> \in {<<"GZIP_NAME", "name">>, <<"GZIP_COMMENT", "comment">>},
         NEW behind, NEW next, <<next, behind>> \in Following, TextTaken(x, state, behind, next)
  PROVE  PlaceInv'
<1>1. HeaderStays /\ Rest(file, Coming)' /\ flags' = flags /\ gz_hdr'.flags = gz_hdr.flags
  BY DEF TextTaken
<1>2. OnGzip /\ FlagsHeld /\ file' = file /\ crc_flag' = crc_flag
  BY <1>1, HeaderFrame
<1>3. crc_flag # "gzip" /\ flags = gz_hdr.flags
  BY <1>2 DEF OnGzip, FlagsHeld, HeaderFields
<1>4. CASE field' = "returned" /\ block_state' = state /\ Here' = Here
  <2>1. <<block_state', Here'.at>> \in {<<"GZIP_EXTRA_LEN", "xlen">>, <<"GZIP_NAME", "name">>,
                                        <<"GZIP_COMMENT", "comment">>}
    BY <1>4
  <2> QED
    BY <1>1, <1>3, <1>4, <2>1, OnBreak
<1>5. CASE field' = next /\ Here'.at = behind /\ Here'.flags = Here.flags
  <2>1. <<field', Here'.at>> \in Following
    BY <1>5
  <2> QED
    BY <1>1, <1>3, <1>5, <2>1, OnFollowing
<1> QED
  BY <1>4, <1>5 DEF TextTaken

LEMMA PlaceCopyName ==
  ASSUME Inv, PlaceInv, WithinHeader, CopyName
  PROVE  PlaceInv'
<1>1. NameTaken /\ Here.at = "name" /\ Here.flags = gz_hdr.flags /\ field = "name"
  BY NameTakes DEF CopyName
<1>2. flags = Here.flags
  BY <1>1 DEF PlaceInv, FlagsHeld, HeaderFields
<1>3. <<AfterName(flags), BehindName(Here.flags)>> \in Following
  BY <1>2, FieldsMatch
<1> QED
  BY <1>1, <1>3, PlaceText DEF NameTaken

LEMMA PlaceCopyComment ==
  ASSUME Inv, PlaceInv, WithinHeader, CopyComment
  PROVE  PlaceInv'
<1>1. CommentTaken /\ Here.at = "comment" /\ Here.flags = gz_hdr.flags /\ field = "comment"
  BY CommentTakes DEF CopyComment
<1>2. flags = Here.flags
  BY <1>1 DEF PlaceInv, FlagsHeld, HeaderFields
<1>3. <<AfterComment(flags), BehindComment(Here.flags)>> \in Following
  BY <1>2, FieldsMatch
<1> QED
  BY <1>1, <1>3, PlaceText DEF CommentTaken

LEMMA SumStays ==
  ASSUME Inv, PlaceInv, WithinHeader, SumHeader
  PROVE  /\ HeaderStays /\ field = "sum" /\ field' = "hcrc" /\ Coming' = Coming
         /\ Here' = Here /\ Said' = Said /\ Rest(file, Coming)' /\ hdr_ret' = hdr_ret
         /\ flags' = flags /\ gz_hdr'.flags = gz_hdr.flags /\ block_state' = block_state
<1>1. /\ field = "sum" /\ field' = "hcrc" /\ gz_hdr'.flags = gz_hdr.flags
      /\ UNCHANGED <<block_state, start_in, wrapper_flag, hdr_ret, next_in, tmp_in, count, flags>>
  BY DEF SumHeader, GoOn, Inv, HeaderInv
<1>2. HeaderStays
  BY <1>1 DEF HeaderStays, HeaderFields
<1>3. UNCHANGED <<file, rest, read_in>> /\ Rest(file, Coming)
  BY <1>2, HeaderFrame
<1>4. Coming' = Coming
  BY <1>1, <1>3, ComingSame
<1>5. Here' = Here /\ Said' = Said /\ Rest(file, Coming)'
  BY <1>3, <1>4 DEF Here, Said, Rest
<1> QED
  BY <1>1, <1>2, <1>4, <1>5

LEMMA PlaceSumHeader ==
  ASSUME Inv, PlaceInv, WithinHeader, SumHeader
  PROVE  PlaceInv'
<1>1. /\ HeaderStays /\ field = "sum" /\ field' = "hcrc" /\ Here' = Here /\ Rest(file, Coming)'
      /\ flags' = flags /\ gz_hdr'.flags = gz_hdr.flags /\ block_state' = block_state
  BY SumStays
<1>2. OnGzip /\ FlagsHeld /\ crc_flag' = crc_flag
  BY <1>1, HeaderFrame
<1>3. Here.at = "hcrc" /\ crc_flag # "gzip" /\ ~ Resumable'
  BY <1>1, <1>2 DEF OnGzip, Resumable
<1>4. FlagsHeld'
  BY <1>1, <1>2 DEF FlagsHeld, HeaderFields
<1>5. OnGzip'
  BY <1>1, <1>2, <1>3 DEF OnGzip, OnBase, OnField, At
<1> QED
  BY <1>1, <1>4, <1>5, PlaceField

LEMMA DoneStays ==
  ASSUME Inv, PlaceInv, WithinHeader, HeaderDone
  PROVE  /\ field' = "returned" /\ wrapper_flag' /\ block_state' = "NEW_HDR"
         /\ Coming' = Coming /\ Here' = Here /\ Said' = Said /\ Here.at = "block"
         /\ UNCHANGED <<file, rest, read_in, crc_flag, ret, pc>> /\ hdr_ret' = "DECOMP_OK"
<1>1. /\ field = "done" /\ field' = "returned" /\ wrapper_flag' = TRUE /\ block_state' = "NEW_HDR"
      /\ UNCHANGED <<next_in, tmp_in>> /\ hdr_ret' = "DECOMP_OK"
  BY DEF HeaderDone
<1>2. UNCHANGED <<file, rest, read_in, crc_flag, ret, pc>>
  BY DEF WithinHeader, outside_header, params
<1>3. Coming' = Coming
  BY <1>1, <1>2, ComingSame
<1>4. Here' = Here /\ Said' = Said
  BY <1>2, <1>3 DEF Here, Said
<1>5. crc_flag # "zlib" /\ ~ WithinMember
  BY <1>1, InHeader DEF HeaderFields, WithinMember
<1>6. Here.at = "block"
  BY <1>1, <1>5 DEF PlaceInv, OnGzip
<1> QED
  BY <1>1, <1>2, <1>3, <1>4, <1>6

LEMMA PlaceHeaderDone ==
  ASSUME Inv, PlaceInv, WithinHeader, HeaderDone
  PROVE  PlaceInv'
<1>1. /\ field' = "returned" /\ wrapper_flag' /\ block_state' = "NEW_HDR" /\ Coming' = Coming
      /\ Here' = Here /\ Here.at = "block"
      /\ UNCHANGED <<file, rest, read_in, crc_flag, ret, pc>>
  BY DoneStays
<1>2. WithinMember' /\ ~ ReadEmpty' /\ FlagsHeld'
  BY <1>1 DEF WithinMember, ReadEmpty, FlagsHeld, HeaderFields
<1>3. OneFormat' /\ Rest(file, Coming)'
  BY <1>1 DEF PlaceInv, OneFormat, Rest
<1>4. OnMember'
  BY <1>1 DEF OnMember
<1>5. ~ (pc' \in {"tmp", "out"})
  <2>1. field \in HeaderFields
    BY DEF HeaderDone, HeaderFields
  <2> QED
    BY <1>1, <2>1, InHeader
<1> QED
  BY <1>2, <1>3, <1>4, <1>5 DEF PlaceInv

LEMMA PlaceWithinHeader ==
  ASSUME Inv, PlaceInv, ~ SplitHeaders, WithinHeader
  PROVE  PlaceInv'
<1>1. HeaderStep
  BY DEF WithinHeader
<1> QED
  BY <1>1, PlaceReadBase, PlaceReadExtraLen, PlaceCopyExtra, PlaceCopyName, PlaceCopyComment,
     PlaceSumHeader, PlaceReadHcrc, PlaceHeaderDone DEF HeaderStep

-----------------------------------------------------------------------------
(* A zlib header.                                                          *)
ZlibBaseTaken ==
  /\ Rest(file, Coming)' /\ pc = "zlib"
  /\ UNCHANGED <<file, rest, read_in, crc_flag, block_state>> /\ UNCHANGED hdr_locals
  /\ \/ /\ Coming' = Coming /\ pc' = "idle" /\ ret' = "DECOMP_OK" /\ wrapper_flag' = wrapper_flag
     \/ /\ pc' = "idle" /\ ret' \in {"UNSUPPORTED_METHOD", "INCORRECT_CHECKSUM"} /\ ~ Said'.ok
        /\ wrapper_flag' = wrapper_flag
     \/ /\ pc' = "dict_id" /\ ret' = ret /\ Here'.at = "dict" /\ Said' = Said
        /\ wrapper_flag' = wrapper_flag /\ 2 <= Len(Coming) /\ Coming[2].value = 1
        /\ Coming' = Drop(Coming, 2)
     \/ /\ pc' = "begin" /\ ret' = ret /\ Here'.at = "block" /\ Said' = Said /\ wrapper_flag'
        /\ 2 <= Len(Coming) /\ Coming[2].value = 0 /\ Coming' = Drop(Coming, 2)

LEMMA ZlibFrame ==
  ASSUME Inv, PlaceInv, pc \in {"zlib", "dict_id"}
  PROVE  /\ read_in = <<>> /\ Rest(file, Coming) /\ OneFormat /\ field = "none" /\ ret = "OK"
         /\ ~ WithinMember /\ crc_flag = "zlib" /\ ~ wrapper_flag
         /\ Here.at = IF block_state = "ZLIB_DICT" \/ pc = "dict_id" THEN "dict" ELSE "cmf"
<1>1. ~ WithinMember /\ crc_flag = "zlib" /\ field = "none" /\ ret = "OK" /\ ~ wrapper_flag
  BY DEF Inv, ControlInv, HeaderInv, Entering, WithinMember
<1> QED
  BY <1>1 DEF PlaceInv, ReadEmpty, OnZlib, Refused, Errors

LEMMA ZlibBaseTakes ==
  ASSUME Inv, PlaceInv, ReadZlibBase
  PROVE  ZlibBaseTaken
<1>1. PICK read : read = fixed_size_read(ZLIB_HDR_BASE)
  OBVIOUS
<1>2. /\ pc = "zlib" /\ block_state = "NEW_HDR"
      /\ next_in' = read.next /\ tmp_in' = read.tmp
      /\ IF read.ret # "OK" THEN ZlibLeaves("DECOMP_OK")
         ELSE IF read.units[1].value # 0 THEN ZlibLeaves("UNSUPPORTED_METHOD")
         ELSE IF read.units[2].value \notin 0 .. 1 THEN ZlibLeaves("INCORRECT_CHECKSUM")
         ELSE IF read.units[2].value = 1 THEN pc' = "dict_id" /\ UNCHANGED <<ret, wrapper_flag>>
         ELSE pc' = "begin" /\ wrapper_flag' = TRUE /\ UNCHANGED ret
      /\ UNCHANGED <<file, rest, read_in, crc_flag, block_state>> /\ UNCHANGED hdr_locals
  BY <1>1 DEF ReadZlibBase, zlib_unchanged, outside_header, params
<1>3. read_in = <<>> /\ Rest(file, Coming) /\ Here.at = "cmf"
  BY <1>2, ZlibFrame
<1>4. /\ Coming' = ComingOf(<<>>, read.tmp, read.next, rest)
      /\ Here' = PlaceOf(file, Coming') /\ Said' = SaidOf(file, Coming')
      /\ Rest(file, Coming)' <=> Rest(file, Coming')
  BY <1>2, <1>3 DEF Coming, Here, Said, Rest
<1>5. FixedTaken(read, 2)
  BY <1>1, <1>3, FixedTakes DEF ZLIB_HDR_BASE
<1>6. CASE read.ret = "END_INPUT"
  <2>1. Coming' = Coming
    BY <1>4, <1>5, <1>6 DEF FixedTaken
  <2>2. pc' = "idle" /\ ret' = "DECOMP_OK" /\ wrapper_flag' = wrapper_flag
    BY <1>2, <1>6 DEF ZlibLeaves
  <2> QED
    BY <1>2, <1>3, <1>4, <2>1, <2>2 DEF ZlibBaseTaken
<1>7. CASE read.ret = "OK"
  <2>1. /\ 2 <= Len(Coming) /\ Coming' = Drop(Coming, 2)
        /\ read.units[1] = Coming[1] /\ read.units[2] = Coming[2]
    BY <1>4, <1>5, <1>7 DEF FixedTaken
  <2>2. Rest(file, Coming)'
    BY <1>3, <1>4, <2>1, PlaceTypes, RestDrop
  <2>3. /\ Coming[1].value = 0 /\ Coming[2].value = 0 => Here'.at = "block"
        /\ Coming[1].value = 0 /\ Coming[2].value = 1 => Here'.at = "dict"
        /\ Coming[1].value = 0 /\ Coming[2].value \in 0 .. 1 => Said' = Said
        /\ ~ (Coming[1].value = 0 /\ Coming[2].value \in 0 .. 1) => ~ Said'.ok
    BY <1>3, <1>4, <2>1, PlaceTypes, ZlibBasePlaces DEF Here, Said
  <2>4. CASE ~ (Coming[1].value = 0 /\ Coming[2].value \in 0 .. 1)
    <3>1. /\ pc' = "idle" /\ ret' \in {"UNSUPPORTED_METHOD", "INCORRECT_CHECKSUM"}
          /\ wrapper_flag' = wrapper_flag
      BY <1>2, <1>7, <2>1, <2>4 DEF ZlibLeaves
    <3> QED
      BY <1>2, <2>2, <2>3, <2>4, <3>1 DEF ZlibBaseTaken
  <2>5. CASE Coming[1].value = 0 /\ Coming[2].value = 1
    <3>1. pc' = "dict_id" /\ ret' = ret /\ wrapper_flag' = wrapper_flag
      BY <1>2, <1>7, <2>1, <2>5
    <3>2. Here'.at = "dict" /\ Said' = Said
      BY <2>3, <2>5
    <3> QED
      BY <1>2, <2>1, <2>2, <2>5, <3>1, <3>2 DEF ZlibBaseTaken
  <2>6. CASE Coming[1].value = 0 /\ Coming[2].value = 0
    <3>1. pc' = "begin" /\ ret' = ret /\ wrapper_flag'
      BY <1>2, <1>7, <2>1, <2>6
    <3>2. Here'.at = "block" /\ Said' = Said
      BY <2>3, <2>6
    <3> QED
      BY <1>2, <2>1, <2>2, <2>6, <3>1, <3>2 DEF ZlibBaseTaken
  <2>7. Coming[2].value \in 0 .. 1 => Coming[2].value = 0 \/ Coming[2].value = 1
    OBVIOUS
  <2> QED
    BY <2>4, <2>5, <2>6, <2>7
<1> QED
  BY <1>5, <1>6, <1>7 DEF FixedTaken

LEMMA PlaceReadZlibBase ==
  ASSUME Inv, PlaceInv, ReadZlibBase
  PROVE  PlaceInv'
<1>1. ZlibBaseTaken /\ block_state = "NEW_HDR"
  BY ZlibBaseTakes DEF ReadZlibBase
<1>2. /\ pc = "zlib" /\ Rest(file, Coming)' /\ field' = field
      /\ UNCHANGED <<file, rest, read_in, crc_flag, block_state>>
  BY <1>1 DEF ZlibBaseTaken, hdr_locals
<1>3. /\ read_in = <<>> /\ OneFormat /\ field = "none" /\ crc_flag = "zlib" /\ Here.at = "cmf"
      /\ ~ wrapper_flag
  BY <1>1, <1>2, ZlibFrame
<1>4. OneFormat' /\ FlagsHeld' /\ (ReadEmpty' => read_in' = <<>>)
  BY <1>2, <1>3 DEF OneFormat, FlagsHeld, HeaderFields
<1>5. pc' \notin {"tmp", "out"}
  BY <1>1 DEF ZlibBaseTaken
<1>6. CASE wrapper_flag' = wrapper_flag
  <2>1. ~ WithinMember'
    BY <1>2, <1>3, <1>6 DEF WithinMember
  <2>2. OnZlib'
    <3>1. CASE Coming' = Coming /\ pc' = "idle"
      <4>1. Here'.at = "cmf"
        BY <1>2, <1>3, <3>1 DEF Here
      <4> QED
        BY <1>1, <1>2, <3>1, <4>1 DEF OnZlib
    <3>2. CASE ret' \in {"UNSUPPORTED_METHOD", "INCORRECT_CHECKSUM"}
      BY <3>2 DEF OnZlib, Refused
    <3>3. CASE pc' = "dict_id" /\ Here'.at = "dict"
      BY <3>3 DEF OnZlib
    <3> QED
      BY <1>1, <1>3, <1>6, <3>1, <3>2, <3>3 DEF ZlibBaseTaken
  <2> QED
    BY <1>2, <1>3, <1>4, <1>5, <2>1, <2>2 DEF PlaceInv
<1>7. CASE wrapper_flag' /\ Here'.at = "block"
  <2>1. WithinMember'
    BY <1>7 DEF WithinMember
  <2>2. OnMember'
    BY <1>1, <1>2, <1>7 DEF OnMember
  <2> QED
    BY <1>2, <1>4, <1>5, <2>1, <2>2 DEF PlaceInv
<1> QED
  BY <1>1, <1>6, <1>7 DEF ZlibBaseTaken

ZlibDictTaken ==
  /\ Rest(file, Coming)' /\ Said' = Said
  /\ UNCHANGED <<file, rest, read_in, crc_flag>> /\ UNCHANGED hdr_locals
  /\ \/ /\ Coming' = Coming /\ pc' = "idle" /\ ret' = "DECOMP_OK" /\ wrapper_flag' = wrapper_flag
        /\ block_state' = "ZLIB_DICT"
     \/ /\ Here'.at = "block" /\ wrapper_flag' /\ block_state' = "NEW_HDR"
        /\ 2 <= Len(Coming) /\ Coming' = Drop(Coming, 2)
        /\ \/ pc = "dict_id" /\ pc' = "idle" /\ ret' = "NEED_DICT"
           \/ pc = "zlib" /\ pc' = "begin" /\ ret' = ret

LEMMA ZlibDictTakes ==
  ASSUME Inv, PlaceInv, ReadZlibDict
  PROVE  ZlibDictTaken
<1>1. PICK read : read = fixed_size_read(ZLIB_DICT_LEN)
  OBVIOUS
<1>2. /\ pc = "dict_id" \/ (pc = "zlib" /\ block_state = "ZLIB_DICT")
      /\ next_in' = read.next /\ tmp_in' = read.tmp
      /\ IF read.ret # "OK" THEN block_state' = "ZLIB_DICT" /\ ZlibLeaves("DECOMP_OK")
         ELSE /\ block_state' = "NEW_HDR" /\ wrapper_flag' = TRUE
              /\ IF pc = "dict_id" THEN pc' = "idle" /\ ret' = "NEED_DICT"
                 ELSE pc' = "begin" /\ UNCHANGED ret
      /\ UNCHANGED <<file, rest, read_in, crc_flag>> /\ UNCHANGED hdr_locals
  BY <1>1 DEF ReadZlibDict, zlib_unchanged, outside_header, params
<1>3. read_in = <<>> /\ Rest(file, Coming) /\ Here.at = "dict"
  BY <1>2, ZlibFrame
<1>4. /\ Coming' = ComingOf(<<>>, read.tmp, read.next, rest)
      /\ Here' = PlaceOf(file, Coming') /\ Said' = SaidOf(file, Coming')
      /\ Rest(file, Coming)' <=> Rest(file, Coming')
  BY <1>2, <1>3 DEF Coming, Here, Said, Rest
<1>5. FixedTaken(read, 2)
  BY <1>1, <1>3, FixedTakes DEF ZLIB_DICT_LEN
<1>6. CASE read.ret = "END_INPUT"
  <2>1. Coming' = Coming
    BY <1>4, <1>5, <1>6 DEF FixedTaken
  <2>2. pc' = "idle" /\ ret' = "DECOMP_OK" /\ wrapper_flag' = wrapper_flag
        /\ block_state' = "ZLIB_DICT"
    BY <1>2, <1>6 DEF ZlibLeaves
  <2>3. Said' = Said
    BY <1>4, <2>1 DEF Said
  <2> QED
    BY <1>2, <1>3, <1>4, <2>1, <2>2, <2>3 DEF ZlibDictTaken
<1>7. CASE read.ret = "OK"
  <2>1. 2 <= Len(Coming) /\ Coming' = Drop(Coming, 2)
    BY <1>4, <1>5, <1>7 DEF FixedTaken
  <2>2. Rest(file, Coming)'
    BY <1>3, <1>4, <2>1, PlaceTypes, RestDrop
  <2>3. Here'.at = "block" /\ Said' = Said
    BY <1>3, <1>4, <2>1, PlaceTypes, ZlibDictPlaces DEF Here, Said
  <2>4. /\ block_state' = "NEW_HDR" /\ wrapper_flag'
        /\ \/ pc = "dict_id" /\ pc' = "idle" /\ ret' = "NEED_DICT"
           \/ pc = "zlib" /\ pc' = "begin" /\ ret' = ret
    BY <1>2, <1>7
  <2> QED
    BY <1>2, <2>1, <2>2, <2>3, <2>4 DEF ZlibDictTaken
<1> QED
  BY <1>5, <1>6, <1>7 DEF FixedTaken

LEMMA PlaceReadZlibDict ==
  ASSUME Inv, PlaceInv, ReadZlibDict
  PROVE  PlaceInv'
<1>1. ZlibDictTaken /\ (pc = "dict_id" \/ (pc = "zlib" /\ block_state = "ZLIB_DICT"))
  BY ZlibDictTakes DEF ReadZlibDict
<1>2. /\ Rest(file, Coming)' /\ field' = field
      /\ UNCHANGED <<file, rest, read_in, crc_flag>>
  BY <1>1 DEF ZlibDictTaken, hdr_locals
<1>3. /\ read_in = <<>> /\ OneFormat /\ field = "none" /\ crc_flag = "zlib" /\ Here.at = "dict"
      /\ ~ wrapper_flag
  BY <1>1, <1>2, ZlibFrame
<1>4. OneFormat' /\ FlagsHeld' /\ (ReadEmpty' => read_in' = <<>>)
  BY <1>2, <1>3 DEF OneFormat, FlagsHeld, HeaderFields
<1>5. pc' \notin {"tmp", "out"}
  BY <1>1 DEF ZlibDictTaken
<1>6. CASE Coming' = Coming /\ wrapper_flag' = wrapper_flag /\ block_state' = "ZLIB_DICT"
  <2>1. ~ WithinMember' /\ Here' = Here
    BY <1>2, <1>3, <1>6 DEF WithinMember, Here
  <2>2. OnZlib'
    BY <1>3, <1>6, <2>1 DEF OnZlib
  <2> QED
    BY <1>2, <1>3, <1>4, <1>5, <2>1, <2>2 DEF PlaceInv
<1>7. CASE wrapper_flag' /\ Here'.at = "block" /\ block_state' = "NEW_HDR"
  <2>1. WithinMember'
    BY <1>7 DEF WithinMember
  <2>2. OnMember'
    BY <1>7 DEF OnMember
  <2> QED
    BY <1>2, <1>4, <1>5, <2>1, <2>2 DEF PlaceInv
<1> QED
  BY <1>1, <1>6, <1>7 DEF ZlibDictTaken

-----------------------------------------------------------------------------
(* Headers of blocks, and what the decoders take.                          *)
LEMMA HeaderPlaces ==
  ASSUME NEW f, f.units \in Seq(FileUnits), NEW s, Rest(f, s), PlaceOf(f, s).at = "block",
         1 <= Len(s), HeaderSize(s) <= Len(s)
  PROVE  /\ s[1].kind \in {"static", "dynamic"} =>
              /\ PlaceOf(f, Drop(s, HeaderSize(s))).at = "coded"
              /\ PlaceOf(f, Drop(s, HeaderSize(s))).final = s[1].value % 2
         /\ s[1].kind = "stored" =>
              OnStored(PlaceOf(f, Drop(s, HeaderSize(s))), f.flag, s[2].value, s[1].value % 2)
         /\ s[1].kind \in DOMAIN HeaderUnits =>
              SaidOf(f, Drop(s, HeaderSize(s))) = SaidOf(f, s)
         /\ s[1].kind \notin DOMAIN HeaderUnits => ~ SaidOf(f, Drop(s, HeaderSize(s))).ok
<1> DEFINE p == PlaceOf(f, s)
           t == SaidOf(f, s)
<1>1. Leads(f, s, 0, p, t) /\ s \in Seq(FileUnits) /\ Len(s) \in Nat
  BY Leading
<1>2. HeaderSize(s) = CASE s[1].kind = "static" -> 1 [] s[1].kind = "dynamic" -> 3
                        [] s[1].kind = "stored" -> 2 [] OTHER -> 1
  <2>1. Head(s) = s[1]
    BY <1>1
  <2> QED
    BY <2>1 DEF HeaderSize, HeaderUnits
<1>3. DOMAIN HeaderUnits = {"static", "dynamic", "stored"}
  BY DEF HeaderUnits
<1>4. p.at = "block" /\ p.at \in Silent
  BY DEF Silent
<1> HIDE DEF p, t
<1>5. PICK q : q = PlaceAfter(f.flag, p, s[0 + 1])
  OBVIOUS
<1>6. q = CASE s[1].kind = "static" -> BlockBegins(p, s[1], "coded")
            [] s[1].kind = "dynamic" -> BlockBegins(p, s[1], "lengths")
            [] s[1].kind = "stored" -> BlockBegins(p, s[1], "nlen")
            [] OTHER -> Bad(p)
  BY <1>3, <1>4, <1>5 DEF PlaceAfter, BlockAfter
<1>7. /\ PlaceOf(f, Drop(s, 1)) = q
      /\ q.at # "bad" => Leads(f, s, 1, q, t)
      /\ q.at = "bad" => ~ SaidOf(f, Drop(s, 1)).ok
  <2>1. /\ PlaceOf(f, Drop(s, 0 + 1)) = q
        /\ q.at # "bad" => Leads(f, s, 0 + 1, q, t)
        /\ q.at = "bad" => ~ SaidOf(f, Drop(s, 0 + 1)).ok
    BY <1>1, <1>4, <1>5, SilentLeads
  <2> QED
    BY <2>1
<1>8. CASE s[1].kind \notin DOMAIN HeaderUnits
  <2>1. q.at = "bad"
    BY <1>3, <1>6, <1>8 DEF Bad, To, Place
  <2> QED
    BY <1>2, <1>3, <1>7, <1>8, <2>1
<1>9. CASE s[1].kind = "static"
  <2>1. q.at = "coded" /\ q.final = s[1].value % 2
    BY <1>6, <1>9 DEF BlockBegins, Place
  <2> QED
    BY <1>2, <1>3, <1>7, <1>9, <2>1 DEF Leads, t
<1>10. CASE s[1].kind = "dynamic"
  <2>1. q.at = "lengths" /\ q.final = s[1].value % 2 /\ q.at \in Silent
    BY <1>6, <1>10 DEF BlockBegins, Place, Silent
  <2>2. Leads(f, s, 1, q, t)
    BY <1>7, <2>1
  <2>3. PICK r : r = PlaceAfter(f.flag, q, s[1 + 1])
    OBVIOUS
  <2>4. r.at = "lengths2" /\ r.final = s[1].value % 2 /\ r.at \in Silent
    BY <2>1, <2>3 DEF PlaceAfter, BlockAfter, To, Place, Silent
  <2>0. 1 < Len(s) /\ 2 < Len(s) /\ r.at # "bad"
    BY <1>1, <1>2, <1>10, <2>4
  <2>5. Leads(f, s, 1 + 1, r, t)
    BY <2>0, <2>1, <2>2, <2>3, SilentLeads
  <2>6. Leads(f, s, 2, r, t)
    BY <2>5
  <2>7. PICK v : v = PlaceAfter(f.flag, r, s[2 + 1])
    OBVIOUS
  <2>8. v.at = "coded" /\ v.final = s[1].value % 2
    BY <2>4, <2>7 DEF PlaceAfter, BlockAfter, To, Place
  <2>9. Leads(f, s, 2 + 1, v, t)
    BY <2>0, <2>4, <2>6, <2>7, <2>8, SilentLeads
  <2> QED
    BY <1>2, <1>3, <1>10, <2>8, <2>9 DEF Leads, t
<1>11. CASE s[1].kind = "stored"
  <2>1. q.at = "nlen" /\ q.final = s[1].value % 2 /\ q.at \in Silent
    BY <1>6, <1>11 DEF BlockBegins, Place, Silent
  <2>2. Leads(f, s, 1, q, t)
    BY <1>7, <2>1
  <2>3. PICK r : r = PlaceAfter(f.flag, q, s[1 + 1])
    OBVIOUS
  <2>4. r = StoredLeft(f.flag, q, s[2].value)
    BY <2>1, <2>3 DEF PlaceAfter, BlockAfter
  <2>5. r.at # "bad" /\ OnStored(r, f.flag, s[2].value, s[1].value % 2)
    BY <2>1, <2>4 DEF StoredLeft, BlockEnds, TrailerAt, To, Place, OnStored
  <2>0. 1 < Len(s)
    BY <1>1, <1>2, <1>11
  <2>6. Leads(f, s, 1 + 1, r, t)
    BY <2>0, <2>1, <2>2, <2>3, <2>5, SilentLeads
  <2> QED
    BY <1>2, <1>3, <1>11, <2>5, <2>6 DEF Leads, t
<1> QED
  BY <1>3, <1>8, <1>9, <1>10, <1>11

(* What comes behind j literals of a block.                                *)
EndSays(f, s, j) ==
  s[j + 1].kind = "eob" =>
    /\ PlaceOf(f, Drop(s, j + 1)) = BlockEnds(f.flag, PlaceOf(f, s))
    /\ SaidOf(f, Drop(s, j + 1)) = SaidOf(f, Drop(s, j))
BadSays(f, s, j) ==
  s[j + 1].kind \notin {"lit", "eob", "len"} => ~ SaidOf(f, Drop(s, j + 1)).ok
MatchSays(f, s, j) ==
  LET t == SaidOf(f, Drop(s, j))
      new == SaidOf(f, Drop(s, j + 2))
  IN  s[j + 1].kind = "len" =>
        /\ s[j + 2].kind # "dist" \/ s[j + 2].value > Len(Window(t)) => ~ new.ok
        /\ s[j + 2].kind = "dist" =>
             /\ PlaceOf(f, Drop(s, j + 2)).at = "coded"
             /\ PlaceOf(f, Drop(s, j + 2)).final = PlaceOf(f, s).final
             /\ t.ok /\ s[j + 2].value <= Len(Window(t)) =>
                  new = Says(t.out \o Copied(Window(t), s[j + 2].value, s[j + 1].value), t.from,
                             s[j + 1].value, TRUE)
             /\ ~ t.ok => new = t

LEMMA EndsSay ==
  ASSUME NEW f, f.units \in Seq(FileUnits), f.dict \in Seq(Nat), NEW s, Rest(f, s),
         PlaceOf(f, s).at = "coded", NEW j \in Nat, LitRun(s, j), j + 1 <= Len(s)
  PROVE  EndSays(f, s, j) /\ BadSays(f, s, j)
<1> DEFINE p == PlaceOf(f, s)
           t == SaidOf(f, Drop(s, j))
<1>1. Leads(f, s, j, p, t) /\ p.at = "coded"
  BY LitsSay DEF Leads
<1>2. Len(s) \in Nat /\ j < Len(s)
  BY Leading
<1> HIDE DEF p, t
<1>3. PICK q : q = PlaceAfter(f.flag, p, s[j + 1])
  OBVIOUS
<1>4. PICK new : new = SaidAfter(f, Before(f, s) + j, p, t, s[j + 1])
  OBVIOUS
<1>5. Leads(f, s, j + 1, q, new)
  BY <1>1, <1>2, <1>3, <1>4, LeadsOn
<1>6. Checks(f, Before(f, s) + j, p, t, s[j + 1]) <=> q.at # "bad"
  BY <1>1, <1>3 DEF Checks
<1>7. CASE s[j + 1].kind = "eob"
  <2>1. q = BlockEnds(f.flag, p)
    BY <1>1, <1>3, <1>7 DEF PlaceAfter, BlockAfter
  <2>2. q.at # "bad"
    BY <2>1 DEF BlockEnds, TrailerAt, To, Place
  <2>3. new = t
    BY <1>1, <1>4, <1>6, <1>7, <2>2 DEF SaidAfter
  <2> QED
    BY <1>5, <1>7, <2>1, <2>3 DEF EndSays, BadSays, Leads, p, t
<1>8. CASE s[j + 1].kind \notin {"lit", "eob", "len"}
  <2>1. q = Bad(p)
    BY <1>1, <1>3, <1>8 DEF PlaceAfter, BlockAfter
  <2>2. q.at = "bad"
    BY <2>1 DEF Bad, To, Place
  <2>3. ~ new.ok
    BY <1>4, <1>6, <2>2 DEF SaidAfter, Says
  <2> QED
    BY <1>5, <1>8, <2>3 DEF EndSays, BadSays, Leads
<1>9. CASE s[j + 1].kind \in {"lit", "len"}
  BY <1>9 DEF EndSays, BadSays
<1> QED
  BY <1>7, <1>8, <1>9

LEMMA MatchesSay ==
  ASSUME NEW f, f.units \in Seq(FileUnits), f.dict \in Seq(Nat), NEW s, Rest(f, s),
         PlaceOf(f, s).at = "coded", NEW j \in Nat, LitRun(s, j), j + 2 <= Len(s)
  PROVE  MatchSays(f, s, j)
<1> DEFINE p == PlaceOf(f, s)
           t == SaidOf(f, Drop(s, j))
<1>1. Leads(f, s, j, p, t) /\ p.at = "coded"
  BY LitsSay DEF Leads
<1>2. Len(s) \in Nat /\ j < Len(s) /\ j + 1 < Len(s) /\ j + 1 \in Nat /\ (j + 1) + 1 = j + 2
  BY Leading
<1>3. SUFFICES ASSUME s[j + 1].kind = "len" PROVE MatchSays(f, s, j)
  BY DEF MatchSays
<1> HIDE DEF p, t
<1>4. PICK q : q = PlaceAfter(f.flag, p, s[j + 1])
  OBVIOUS
<1>5. PICK mid : mid = SaidAfter(f, Before(f, s) + j, p, t, s[j + 1])
  OBVIOUS
<1>6. Leads(f, s, j + 1, q, mid)
  BY <1>1, <1>2, <1>4, <1>5, LeadsOn
<1>7. q = To(p, "dist") /\ q.at = "dist" /\ q.final = p.final
  BY <1>1, <1>3, <1>4 DEF PlaceAfter, BlockAfter, To, Place
<1>8. Checks(f, Before(f, s) + j, p, t, s[j + 1])
  BY <1>1, <1>4, <1>7 DEF Checks
<1>9. /\ t.ok => mid = Says(t.out, t.from, s[j + 1].value, TRUE)
      /\ ~ t.ok => mid = t
  BY <1>1, <1>3, <1>5, <1>8 DEF SaidAfter
<1>10. PICK r : r = PlaceAfter(f.flag, q, s[(j + 1) + 1])
  OBVIOUS
<1>11. PICK new : new = SaidAfter(f, Before(f, s) + (j + 1), q, mid, s[(j + 1) + 1])
  OBVIOUS
<1>12. Leads(f, s, (j + 1) + 1, r, new)
  BY <1>2, <1>6, <1>10, <1>11, LeadsOn
<1>13. Leads(f, s, j + 2, r, new)
  BY <1>2, <1>12
<1>14. PICK u : u = s[j + 2] /\ u = s[(j + 1) + 1]
  BY <1>2
<1>15. u.kind = "dist" => r.at = "coded" /\ r.final = p.final
  BY <1>7, <1>10, <1>14 DEF PlaceAfter, BlockAfter, To, Place
<1>16. Window(mid) = Window(t)
  <2>1. mid.out = t.out /\ mid.from = t.from
    <3>1. CASE t.ok
      BY <1>9, <3>1 DEF Says
    <3>2. CASE ~ t.ok
      BY <1>9, <3>2
    <3> QED
      BY <3>1, <3>2
  <2> QED
    BY <2>1 DEF Window
<1>17. Checks(f, Before(f, s) + (j + 1), q, mid, u) <=>
         (u.kind = "dist" /\ u.value <= Len(Window(t)))
  BY <1>7, <1>16 DEF Checks
<1>18. CASE ~ t.ok
  <2>1. new = t
    BY <1>9, <1>11, <1>18 DEF SaidAfter
  <2> QED
    BY <1>13, <1>14, <1>15, <1>18, <2>1 DEF MatchSays, Leads, p, t
<1>19. CASE t.ok
  <2>1. mid.ok /\ mid.out = t.out /\ mid.from = t.from /\ mid.len = s[j + 1].value
    BY <1>9, <1>19 DEF Says
  <2>2. CASE ~ (u.kind = "dist" /\ u.value <= Len(Window(t)))
    <3>1. ~ new.ok
      BY <1>11, <1>14, <1>17, <2>1, <2>2 DEF SaidAfter, Says
    <3>2. ~ (s[j + 2].value <= Len(Window(t))) \/ s[j + 2].kind # "dist"
      BY <1>14, <2>2
    <3> QED
      BY <1>13, <1>14, <1>15, <1>19, <3>1, <3>2 DEF MatchSays, Leads, p, t
  <2>3. CASE u.kind = "dist" /\ u.value <= Len(Window(t))
    <3>1. new = Says(mid.out \o Copied(Window(mid), u.value, mid.len), mid.from, mid.len, TRUE)
      BY <1>7, <1>11, <1>14, <1>17, <2>1, <2>3 DEF SaidAfter
    <3>2. ~ (u.value > Len(Window(t)))
      <4>1. u.value \in Nat /\ Len(Window(t)) \in Nat
        <5>1. u \in FileUnits
          <6>1. s \in Seq(FileUnits) /\ j + 2 \in 1 .. Len(s)
            BY <1>2, Leading
          <6> QED
            BY <1>14, <6>1
        <5>2. u.value \in Nat
          BY <5>1, UnitFacts
        <5>3. Rest(f, Drop(s, j))
          BY <1>2, RestDrop
        <5>4. IsSaid(t)
          BY <5>3, SaidType DEF t
        <5>5. Window(t) \in Seq(Nat)
          <6>1. t.out \in Seq(Nat) /\ t.from \in Nat /\ t.from <= Len(t.out)
            BY <5>4 DEF IsSaid
          <6> QED
            BY <6>1, SMTT(60) DEF Window, Behind
        <5> QED
          BY <5>2, <5>5
      <4> QED
        BY <2>3, <4>1
    <3> QED
      BY <1>13, <1>14, <1>15, <1>16, <1>19, <2>1, <2>3, <3>1, <3>2 DEF MatchSays, Leads, p, t
  <2> QED
    BY <2>2, <2>3
<1> QED
  BY <1>18, <1>19

LEMMA MemberFrame ==
  ASSUME Inv, PlaceInv, pc \in {"tmp", "out"}
  PROVE  /\ WithinMember /\ ret = "OK" /\ field = "none" /\ OnMember /\ OneFormat /\ FlagsHeld
         /\ Rest(file, Coming) /\ block_state \in BlockStates
         /\ block_state # "HDR" => tmp_in = <<>>
<1>1. WithinMember /\ field = "none" /\ block_state \in BlockStates
  BY DEF Inv, ControlInv, HeaderInv, Decoding
<1>2. block_state # "HDR" => tmp_in = <<>>
  BY <1>1 DEF Inv, InputInv, Half, BlockStates
<1> QED
  BY <1>1, <1>2 DEF PlaceInv

LEMMA PlaceMember ==
  ASSUME Inv, PlaceInv, pc \in {"tmp", "out"}, ret' = "OK" \/ pc' \notin {"tmp", "out"},
         UNCHANGED <<file, crc_flag, wrapper_flag, field>>, Rest(file, Coming)', OnMember',
         block_state' \in BlockStates
  PROVE  PlaceInv'
<1>1. WithinMember' /\ OneFormat' /\ FlagsHeld' /\ ~ ReadEmpty'
  BY MemberFrame DEF WithinMember, OneFormat, FlagsHeld, HeaderFields, ReadEmpty, BlockStates
<1> QED
  BY <1>1 DEF PlaceInv

LEMMA ReadHeaderTakes ==
  ASSUME Inv, PlaceInv, NEW here \in {"tmp", "out"}, NEW after \in {"drain", "end"},
         ReadHeader(here, after)
  PROVE  LET hdr == read_header_stateful(Input)
         IN  /\ HeaderTaken(Coming, Input, hdr, rest)
             /\ Coming' = ComingOf(hdr.in.read, hdr.tmp_in, hdr.in.next, rest)
<1>1. pc = here /\ block_state \in {"NEW_HDR", "HDR"}
  BY DEF ReadHeader
<1>2. /\ InputOK(Input) /\ tmp_in \in Seq(FileUnits) /\ rest \in Seq(FileUnits)
      /\ Len(tmp_in) <= HdrSize /\ Input.read = read_in /\ Input.next = next_in
  BY PlaceTypes DEF InputOK, Input
<1>3. block_state # "HDR" => tmp_in = <<>>
  BY <1>1, MemberFrame
<1>4. block_state = "HDR" => Short(Input.read \o tmp_in)
  BY <1>1, <1>2, MemberFrame DEF OnMember, Errors
<1>5. PICK in : in = Input
  OBVIOUS
<1>6. HeaderTaken(ComingOf(in.read, tmp_in, in.next, rest), in, read_header_stateful(in), rest)
  BY <1>1, <1>2, <1>3, <1>4, <1>5, HeaderTakes
<1>7. Coming = ComingOf(in.read, tmp_in, in.next, rest)
  BY <1>2, <1>5 DEF Coming
<1>8. Coming' = ComingOf(read_header_stateful(Input).in.read, read_header_stateful(Input).tmp_in,
                         read_header_stateful(Input).in.next, rest)
  BY DEF ReadHeader, Coming, Input
<1> QED
  BY <1>5, <1>6, <1>7, <1>8

LEMMA PlaceReadHeader ==
  ASSUME Inv, PlaceInv, NEW here \in {"tmp", "out"}, NEW after \in {"drain", "end"},
         ReadHeader(here, after)
  PROVE  PlaceInv'
<1>1. PICK hdr : hdr = read_header_stateful(Input)
  OBVIOUS
<1>2. /\ pc = here /\ block_state \in {"NEW_HDR", "HDR"}
      /\ read_in' = hdr.in.read /\ next_in' = hdr.in.next /\ tmp_in' = hdr.tmp_in
      /\ block_state' = hdr.block /\ bfinal' = hdr.bfinal /\ count' = hdr.len0
      /\ ret' = hdr.ret
      /\ pc' = IF ret' # "OK" \/ block_state' = "INPUT_DONE" THEN after ELSE here
      /\ UNCHANGED <<file, rest, crc_flag, wrapper_flag, field>>
  BY <1>1 DEF ReadHeader, Loop, Input, params, header, hdr_locals
<1>3. /\ HeaderTaken(Coming, Input, hdr, rest)
      /\ Coming' = ComingOf(hdr.in.read, hdr.tmp_in, hdr.in.next, rest)
  BY <1>1, ReadHeaderTakes
<1>4. Rest(file, Coming) /\ Here.at = "block" /\ Coming \in Seq(FileUnits)
  BY <1>2, MemberFrame, PlaceTypes DEF OnMember, Errors
<1>5. /\ Here' = PlaceOf(file, Coming') /\ (Rest(file, Coming)' <=> Rest(file, Coming'))
  BY <1>2 DEF Here, Rest
<1>6. ret' = "OK" \/ pc' \notin {"tmp", "out"}
  BY <1>2
<1>7. CASE hdr.ret = "END_INPUT"
  <2>1. Coming' = Coming /\ block_state' = "HDR" /\ Short(read_in' \o tmp_in')
    BY <1>2, <1>3, <1>7 DEF HeaderTaken
  <2>2. Here' = Here /\ Rest(file, Coming)'
    BY <1>4, <1>5, <2>1 DEF Here
  <2>3. OnMember'
    BY <1>4, <2>1, <2>2 DEF OnMember
  <2>4. block_state' \in BlockStates
    BY <2>1 DEF BlockStates
  <2> QED
    BY <1>2, <1>6, <2>2, <2>3, <2>4, PlaceMember
<1>8. CASE hdr.ret # "END_INPUT"
  <2>1. PICK n \in 1 .. 3 : n = HeaderSize(Coming) /\ n <= Len(Coming) /\ Coming' = Drop(Coming, n)
    BY <1>3, <1>8 DEF HeaderTaken
  <2>2. Rest(file, Coming)' /\ 1 <= Len(Coming)
    <3>1. n \in Nat /\ n >= 1 /\ Len(Coming) \in Nat
      BY <1>4
    <3> QED
      BY <1>4, <1>5, <2>1, <3>1, PlaceTypes, RestDrop
  <2>3. CASE hdr.ret = "INVALID_BLOCK"
    <3>1. ret' \in Errors /\ block_state' \in {"NEW_HDR", "HDR"}
      BY <1>2, <1>3, <2>3 DEF HeaderTaken, Errors
    <3>2. OnMember'
      BY <3>1 DEF OnMember
    <3>3. block_state' \in BlockStates
      BY <3>1 DEF BlockStates
    <3> QED
      BY <1>2, <1>6, <2>2, <3>2, <3>3, PlaceMember
  <2>4. CASE hdr.ret = "OK"
    <3>1. /\ Coming[1].kind \in DOMAIN HeaderUnits /\ bfinal' = Coming[1].value % 2
          /\ block_state' = IF Coming[1].kind = "stored" THEN "TYPE0" ELSE "CODED"
          /\ count' = IF Coming[1].kind = "stored" THEN Coming[2].value ELSE count
      BY <1>2, <1>3, <2>4 DEF HeaderTaken
    <3>2. /\ Coming[1].kind \in {"static", "dynamic"} =>
               Here'.at = "coded" /\ Here'.final = Coming[1].value % 2
          /\ Coming[1].kind = "stored" =>
               OnStored(Here', file.flag, Coming[2].value, Coming[1].value % 2)
      BY <1>4, <1>5, <2>1, <2>2, PlaceTypes, HeaderPlaces DEF Here
    <3>3. CASE Coming[1].kind = "stored"
      <4>1. OnMember'
        BY <1>2, <3>1, <3>2, <3>3 DEF OnMember
      <4>2. block_state' \in BlockStates
        BY <3>1, <3>3 DEF BlockStates
      <4> QED
        BY <1>2, <1>6, <2>2, <4>1, <4>2, PlaceMember
    <3>4. CASE Coming[1].kind \in {"static", "dynamic"}
      <4>1. OnMember'
        BY <1>2, <3>1, <3>2, <3>4 DEF OnMember
      <4>2. block_state' \in BlockStates
        BY <3>1, <3>4 DEF BlockStates
      <4> QED
        BY <1>2, <1>6, <2>2, <4>1, <4>2, PlaceMember
    <3> QED
      BY <3>1, <3>3, <3>4 DEF HeaderUnits
  <2> QED
    BY <1>3, <1>8, <2>3, <2>4 DEF HeaderTaken
<1> QED
  BY <1>7, <1>8

(* What one step of the decoders takes and gives.                          *)
StoredStep(dec, n) ==
  /\ n <= Len(Coming) /\ Coming' = Drop(Coming, n)
  /\ dec.out = ValuesOf(Coming, n) /\ dec.lits = <<>> /\ dec.copy = NoCopy
  /\ dec.len0 = count - n /\ dec.block = IF n < count THEN "TYPE0" ELSE AfterBlock
  /\ dec.ret \in {"OK", "OUT_OVERFLOW", "END_INPUT"}
CodeStep(dec, history, space) ==
  /\ dec.len0 = count
  /\ \/ LooksAgain(dec, Coming, Coming')
     \/ \E j \in 0 .. 3 :
          \/ LooksLits(dec, Coming, Coming', space, j)
          \/ LooksEnd(dec, Coming, Coming', space, j)
          \/ LooksBad(dec, Coming, Coming', space, j)
          \/ LooksInvalid(dec, Coming, Coming', history, space, j)
          \/ LooksMatch(dec, Coming, Coming', history, space, j)

(* The bytes of a stored block, in one predicate.                          *)
StoredTaken(dec, all, left) ==
  \E n \in 0 .. count :
    /\ n <= Len(all) /\ left = Drop(all, n)
    /\ dec.out = ValuesOf(all, n) /\ dec.lits = <<>> /\ dec.copy = NoCopy
    /\ dec.len0 = count - n /\ dec.block = IF n < count THEN "TYPE0" ELSE AfterBlock
    /\ dec.ret \in {"OK", "OUT_OVERFLOW", "END_INPUT"}

LEMMA StoredLeaves ==
  ASSUME NEW in, InputOK(in), NEW space \in Nat, count \in Nat, NEW r \in Seq(FileUnits)
  PROVE  StoredTaken(decode_literal_block(in, space), AllOf(in, r),
                     AllOf(decode_literal_block(in, space).in, r))
BY StoredTakes DEF StoredTaken

LEMMA DecodeTakes ==
  ASSUME Inv, PlaceInv, NEW history \in Seq(Nat), NEW space \in Nat, NEW dec,
         dec = Decoded(history, space), NEW here \in {"tmp", "out"}, NEW after \in {"drain", "end"},
         Decode(dec, here, after)
  PROVE  \/ block_state = "TYPE0" /\ \E n \in 0 .. count : StoredStep(dec, n)
         \/ block_state = "CODED" /\ CodeStep(dec, history, space)
<1>1. /\ pc = here /\ block_state \in {"TYPE0", "CODED"} /\ read_in' = dec.in.read
      /\ next_in' = dec.in.next /\ UNCHANGED <<rest, tmp_in>>
  BY DEF Decode
<1>2. tmp_in = <<>>
  BY <1>1, MemberFrame
<1>3. /\ InputOK(Input) /\ rest \in Seq(FileUnits) /\ next_in \in Seq(FileUnits)
      /\ Input.read = read_in /\ Input.next = next_in /\ count \in Nat /\ pack \in Packs
  BY PlaceTypes DEF InputOK, Input, Inv, ControlInv, HeaderInv
<1>4. \A s : s \in Seq(FileUnits) =>
         \A r : ComingOf(r, <<>>, s, rest) = r \o (s \o rest)
  <2> SUFFICES ASSUME NEW s \in Seq(FileUnits), NEW r
               PROVE  ComingOf(r, <<>>, s, rest) = r \o (s \o rest)
    OBVIOUS
  <2>1. PICK w \in Seq(FileUnits) : w = s \o rest
    BY <1>3, Joined
  <2>2. <<>> \o w = w
    BY DropNone
  <2> QED
    BY <2>1, <2>2 DEF ComingOf
<1>5. Coming = AllOf(Input, rest)
  BY <1>2, <1>3, <1>4 DEF Coming, AllOf
<1>6. dec.in.next \in Seq(FileUnits)
  BY <1>3, DecodersOK DEF DecodedOK, InputOK
<1>7. Coming' = AllOf(dec.in, rest)
  BY <1>1, <1>2, <1>4, <1>6 DEF Coming, AllOf
<1>8. CASE block_state = "TYPE0"
  <2>1. dec = decode_literal_block(Input, space)
    BY <1>8 DEF Decoded, Input
  <2>2. StoredTaken(dec, AllOf(Input, rest), AllOf(dec.in, rest))
    <3>1. StoredTaken(decode_literal_block(Input, space), AllOf(Input, rest),
                      AllOf(decode_literal_block(Input, space).in, rest))
      BY <1>3, StoredLeaves
    <3> QED
      BY <2>1, <3>1
  <2>3. StoredTaken(dec, Coming, Coming')
    BY <1>5, <1>7, <2>2
  <2> QED
    BY <1>8, <2>3 DEF StoredTaken, StoredStep
<1>9. CASE block_state = "CODED"
  <2>1. dec = decode_huffman_code(Input, history, space)
    BY <1>9 DEF Decoded, Input
  <2>2. CodeStep(dec, history, space)
    BY <1>3, <1>5, <1>7, <2>1, CodeTakes DEF CodeStep
  <2> QED
    BY <1>9, <2>2
<1> QED
  BY <1>1, <1>8, <1>9

LEMMA AfterTypes ==
  AfterBlock \in {"INPUT_DONE", "NEW_HDR"} /\ (AfterBlock = "INPUT_DONE" <=> bfinal = 1)
BY DEF AfterBlock

LEMMA PlaceDecode ==
  ASSUME Inv, PlaceInv, NEW history \in Seq(Nat), NEW space \in Nat, NEW dec,
         dec = Decoded(history, space), NEW here \in {"tmp", "out"}, NEW after \in {"drain", "end"},
         Decode(dec, here, after)
  PROVE  PlaceInv'
<1>1. /\ pc = here /\ block_state \in {"TYPE0", "CODED"} /\ bfinal' = bfinal /\ count' = dec.len0
      /\ block_state' = dec.block /\ ret' = dec.ret
      /\ pc' = IF ret' # "OK" \/ block_state' = "INPUT_DONE" THEN after ELSE here
      /\ UNCHANGED <<file, rest, crc_flag, wrapper_flag, field>>
  BY DEF Decode, Loop, params, header, hdr_locals
<1>2. /\ Rest(file, Coming) /\ OnMember /\ ret \notin Errors /\ Coming \in Seq(FileUnits)
      /\ file.units \in Seq(FileUnits) /\ file.dict \in Seq(Nat)
  BY <1>1, MemberFrame, PlaceTypes DEF Errors
<1>3. /\ Here' = PlaceOf(file, Coming') /\ (Rest(file, Coming)' <=> Rest(file, Coming'))
  BY <1>1 DEF Here, Rest
<1>4. ret' = "OK" \/ pc' \notin {"tmp", "out"}
  BY <1>1
<1>5. count \in Nat /\ Len(Coming) \in Nat
  BY <1>2 DEF Inv, HeaderInv
<1>6. SUFFICES Rest(file, Coming)' /\ OnMember' /\ block_state' \in BlockStates
  BY <1>1, <1>4, PlaceMember
<1>7. CASE block_state = "TYPE0"
  <2>1. PICK n \in 0 .. count : StoredStep(dec, n)
    BY <1>7, DecodeTakes
  <2>2. n \in Nat /\ n <= Len(Coming) /\ Coming' = Drop(Coming, n)
    BY <1>5, <2>1 DEF StoredStep
  <2>3. Rest(file, Coming)'
    BY <1>2, <1>3, <2>2, RestDrop
  <2>4. OnStored(Here, file.flag, count, bfinal)
    BY <1>2, <1>7 DEF OnMember
  <2>5. OnStored(Here', file.flag, count - n, bfinal)
    BY <1>2, <1>3, <1>5, <2>2, <2>4, StoredSays DEF Here
  <2>6. /\ count' = count - n /\ bfinal' = bfinal /\ file' = file
        /\ block_state' = IF n < count THEN "TYPE0" ELSE AfterBlock
    BY <1>1, <2>1 DEF StoredStep
  <2>7. CASE n < count
    BY <2>3, <2>5, <2>6, <2>7 DEF OnMember, BlockStates
  <2>8. CASE n = count
    <3>1. Here'.at = IF bfinal = 1 THEN TrailerAt(file.flag) ELSE "block"
      BY <1>5, <2>5, <2>8 DEF OnStored
    <3> QED
      BY <2>3, <2>6, <2>8, <3>1, AfterTypes DEF OnMember, BlockStates
  <2> QED
    BY <1>5, <2>7, <2>8
<1>8. CASE block_state = "CODED"
  <2>1. Here.at = "coded" /\ Here.final = bfinal
    BY <1>2, <1>8 DEF OnMember
  <2>2. CodeStep(dec, history, space)
    BY <1>8, DecodeTakes
  <2>3. CASE LooksAgain(dec, Coming, Coming')
    <3>1. Coming' = Coming /\ block_state' = "CODED"
      BY <1>1, <2>3 DEF LooksAgain
    <3>2. Here' = Here /\ Rest(file, Coming)'
      BY <1>2, <1>3, <3>1 DEF Here
    <3> QED
      BY <1>1, <2>1, <3>1, <3>2 DEF OnMember, BlockStates
  <2>4. ASSUME NEW j \in 0 .. 3, LooksLits(dec, Coming, Coming', space, j)
        PROVE  Rest(file, Coming)' /\ OnMember' /\ block_state' \in BlockStates
    <3>1. LitRun(Coming, j) /\ Coming' = Drop(Coming, j) /\ block_state' = "CODED" /\ j \in Nat
      BY <1>1, <2>4 DEF LooksLits
    <3>2. j <= Len(Coming)
      BY <3>1 DEF LitRun
    <3>3. Here' = Here /\ Rest(file, Coming)'
      BY <1>2, <1>3, <2>1, <3>1, <3>2, LitsSay, RestDrop DEF Here
    <3> QED
      BY <1>1, <2>1, <3>1, <3>3 DEF OnMember, BlockStates
  <2>5. ASSUME NEW j \in 0 .. 3, LooksEnd(dec, Coming, Coming', space, j)
        PROVE  Rest(file, Coming)' /\ OnMember' /\ block_state' \in BlockStates
    <3>1. /\ LitRun(Coming, j) /\ j + 1 <= Len(Coming) /\ Coming' = Drop(Coming, j + 1)
          /\ Coming[j + 1].kind = "eob" /\ block_state' = AfterBlock /\ j \in Nat /\ j + 1 \in Nat
      BY <1>1, <2>5 DEF LooksEnd, LooksPast
    <3>2. EndSays(file, Coming, j) /\ Rest(file, Coming)'
      BY <1>2, <1>3, <2>1, <3>1, EndsSay, RestDrop DEF Here
    <3>3. Here' = BlockEnds(file.flag, Here)
      BY <1>3, <3>1, <3>2 DEF EndSays, Here
    <3>4. Here'.at = IF bfinal = 1 THEN TrailerAt(file.flag) ELSE "block"
      BY <2>1, <3>3 DEF BlockEnds, To, Place
    <3> QED
      BY <1>1, <3>1, <3>2, <3>4, AfterTypes DEF OnMember, BlockStates
  <2>6. ASSUME NEW j \in 0 .. 3, LooksBad(dec, Coming, Coming', space, j)
        PROVE  Rest(file, Coming)' /\ OnMember' /\ block_state' \in BlockStates
    <3>1. /\ j + 1 <= Len(Coming) /\ Coming' = Drop(Coming, j + 1) /\ j + 1 \in Nat
          /\ ret' \in Errors /\ block_state' = "CODED"
      BY <1>1, <2>6 DEF LooksBad, LooksPast, Errors
    <3>2. Rest(file, Coming)'
      BY <1>2, <1>3, <3>1, RestDrop
    <3> QED
      BY <3>1, <3>2 DEF OnMember, BlockStates
  <2>7. ASSUME NEW j \in 0 .. 3, LooksInvalid(dec, Coming, Coming', history, space, j)
        PROVE  Rest(file, Coming)' /\ OnMember' /\ block_state' \in BlockStates
    <3>1. /\ j + 2 <= Len(Coming) /\ Coming' = Drop(Coming, j + 2) /\ j + 2 \in Nat
          /\ ret' \in Errors /\ block_state' = "CODED"
      BY <1>1, <2>7 DEF LooksInvalid, LooksBack, Errors
    <3>2. Rest(file, Coming)'
      BY <1>2, <1>3, <3>1, RestDrop
    <3> QED
      BY <3>1, <3>2 DEF OnMember, BlockStates
  <2>8. ASSUME NEW j \in 0 .. 3, LooksMatch(dec, Coming, Coming', history, space, j)
        PROVE  Rest(file, Coming)' /\ OnMember' /\ block_state' \in BlockStates
    <3>1. /\ LitRun(Coming, j) /\ j + 2 <= Len(Coming) /\ Coming' = Drop(Coming, j + 2)
          /\ Coming[j + 1].kind = "len" /\ Coming[j + 2].kind = "dist"
          /\ block_state' = "CODED" /\ j \in Nat /\ j + 2 \in Nat
      BY <1>1, <2>8 DEF LooksMatch, LooksBack
    <3>2. MatchSays(file, Coming, j) /\ Rest(file, Coming)'
      BY <1>2, <1>3, <2>1, <3>1, MatchesSay, RestDrop DEF Here
    <3>3. Here'.at = "coded" /\ Here'.final = bfinal
      BY <1>3, <2>1, <3>1, <3>2 DEF MatchSays, Here
    <3> QED
      BY <1>1, <3>1, <3>2, <3>3 DEF OnMember, BlockStates
  <2> QED
    BY <2>2, <2>3, <2>4, <2>5, <2>6, <2>7, <2>8 DEF CodeStep
<1> QED
  BY <1>1, <1>7, <1>8

LEMMA PlaceDecodeTmp ==
  ASSUME Inv, PlaceInv, DecodeTmp
  PROVE  PlaceInv'
<1> DEFINE space == 2 * Hist - Len(tmp_out)
           dec   == Decoded(tmp_out, space)
<1>1. Decode(dec, "tmp", "drain")
  BY DEF DecodeTmp
<1>2. pc = "tmp"
  BY <1>1 DEF Decode
<1>3. tmp_out \in Seq(Nat) /\ space \in Nat
  BY <1>2, InflateAssumption DEF Inv, BufferInv
<1> HIDE DEF space, dec
<1> QED
  BY <1>1, <1>3, PlaceDecode DEF dec

LEMMA PlaceDecodeOut ==
  ASSUME Inv, PlaceInv, DecodeOut
  PROVE  PlaceInv'
<1> DEFINE dec == Decoded(Drop(user, start_out), avail_out)
<1>1. Decode(dec, "out", "end")
  BY DEF DecodeOut
<1>2. user \in Seq(Nat) /\ start_out \in Nat /\ avail_out \in Nat
  BY DEF Inv, BufferInv
<1>3. Drop(user, start_out) \in Seq(Nat)
  BY <1>2, DroppedAny
<1> HIDE DEF dec
<1> QED
  BY <1>1, <1>2, <1>3, PlaceDecode DEF dec

LEMMA PlaceStutter ==
  ASSUME PlaceInv, UNCHANGED vars
  PROVE  PlaceInv'
<1>1. /\ UNCHANGED <<file, rest, next_in, read_in, tmp_in, block_state, bfinal, count>>
      /\ UNCHANGED <<crc_flag, gz_hdr, wrapper_flag, flags, field, hdr_ret, ret, pc>>
  BY DEF vars, params, input, block, header, hdr_locals
<1>2. Coming' = Coming
  BY <1>1, ComingSame
<1>3. WithinMember \/ /\ Resumable' => Resumable
                      /\ ret \in Refused => ret' \in Refused
                      /\ pc' = "dict_id" <=> pc = "dict_id"
  BY <1>1 DEF Resumable
<1>4. pc' \in {"tmp", "out"} => ret' = "OK"
  BY <1>1 DEF PlaceInv
<1> QED
  BY <1>1, <1>2, <1>3, <1>4, PlaceSame

LEMMA PlaceNext ==
  ASSUME Inv, PlaceInv, ~ SplitHeaders, [Next]_vars
  PROVE  PlaceInv'
<1>1. CASE UNCHANGED vars
  BY <1>1, PlaceStutter
<1>2. CASE Next
  BY <1>2, PlaceCall, PlaceCallHeader, PlaceNextMember, PlaceSetDict, PlaceStartHeader,
     PlaceWithinHeader, PlaceEndHeader, PlaceReadZlibBase, PlaceReadZlibDict, PlaceReadTrailer,
     PlaceBegin, PlaceDrain, PlaceEnd, PlaceReadHeader, PlaceDecodeTmp, PlaceDecodeOut DEF Next
<1> QED
  BY <1>1, <1>2

LEMMA PlaceInvariant ==
  ASSUME ~ SplitHeaders
  PROVE  Spec => []PlaceInv
<1>1. Init => PlaceInv
  BY PlaceInit
<1>2. Inv /\ PlaceInv /\ [Next]_vars => PlaceInv'
  BY PlaceNext
<1>3. Spec => []Inv
  BY Invariant
<1> QED
  BY <1>1, <1>2, <1>3, PTL DEF Spec

LEMMA AtEnd ==
  ASSUME Inv, PlaceInv
  PROVE  TrailerTakenExactly
<1> SUFFICES ASSUME pc = "idle", block_state = "FINISH", crc_flag # "deflate"
             PROVE  /\ Len(file.units) - Len(rest) - Len(next_in) - Len(read_in) \in file.ends
                    /\ crc_flag # "zlib" => read_in = <<>>
  BY DEF TrailerTakenExactly
<1>1. WithinMember
  BY DEF Inv, ControlInv, WrapperStates
<1>2. tmp_in = <<>>
  BY <1>1 DEF Inv, InputInv, Half
<1>3. Here.at = "end" /\ Rest(file, Coming) /\ OneFormat
  BY <1>1 DEF PlaceInv, OnMember
<1>4. crc_flag # "zlib" => read_in = <<>>
  <2>1. crc_flag # "zlib" => Gzip(crc_flag)
    BY <1>3, FormatFacts DEF Gzip
  <2> QED
    BY <2>1 DEF PlaceInv, ReadEmpty
<1>5. PICK b \in 0 .. Len(file.units) :
        b = Before(file, Coming) /\ b + Len(Coming) = Len(file.units)
  BY <1>3, PlaceTypes, RestFacts
<1>6. b \in file.ends
  <2>1. file.flag # "deflate"
    BY <1>3, FormatFacts
  <2>2. Parse(file)[b].place.at = "end"
    BY <1>3, <1>5 DEF Here, PlaceOf
  <2> QED
    BY <2>1, <2>2, PlaceTypes, EndsAssumption
<1>7. Len(Coming) = Len(read_in) + (Len(next_in) + Len(rest))
  <2>1. /\ rest \in Seq(FileUnits) /\ next_in \in Seq(FileUnits) /\ read_in \in Seq(FileUnits)
    BY PlaceTypes
  <2>2. PICK x \in Seq(FileUnits) : x = next_in \o rest /\ Len(x) = Len(next_in) + Len(rest)
    BY <2>1, Joined
  <2>3. <<>> \o x = x
    BY DropNone
  <2>4. Coming = read_in \o x
    BY <1>2, <2>2, <2>3 DEF Coming, ComingOf
  <2> QED
    BY <2>1, <2>2, <2>4, Joined
<1>8. Len(file.units) - Len(rest) - Len(next_in) - Len(read_in) = b
  <2>1. /\ Len(rest) \in Nat /\ Len(next_in) \in Nat /\ Len(read_in) \in Nat
        /\ Len(file.units) \in Nat
    BY PlaceTypes
  <2> QED
    BY <1>5, <1>7, <2>1
<1> QED
  BY <1>4, <1>6, <1>8

(* TrailerTakenExactly: when a member of a gzip or zlib file is done,      *)
(* exactly its units are used, however far read_in had been filled ahead   *)
(* and wherever headers of blocks and the trailer were divided.            *)
THEOREM TakesTrailer ==
  ASSUME ~ SplitHeaders
  PROVE  Spec => []TrailerTakenExactly
<1>1. Inv /\ PlaceInv => TrailerTakenExactly
  BY AtEnd
<1> QED
  BY <1>1, Invariant, PlaceInvariant, PTL
=============================================================================
