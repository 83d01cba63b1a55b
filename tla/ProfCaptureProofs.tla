------------------------- MODULE ProfCaptureProofs -------------------------
(***************************************************************************)
(* What the capture reader never reports, for every capture, every shape   *)
(* of dump and any number of faults.                                       *)
(*                                                                         *)
(* The lines the firmware prints follow one another by their kind alone    *)
(* (After), so the reader's position in the capture is the line that comes *)
(* next (Coming), and every step leaves it where it is, moves it one line  *)
(* on, or cuts the capture off.  The invariants relate what the reader has *)
(* open, and the faults so far, to the line that comes next.               *)
(***************************************************************************)
EXTENDS ProfCapture, Integers, SequenceTheorems, NaturalsInduction,
        WellFoundedInduction, TLAPS

----------------------------------------------------------------------------
(* The lines of a capture of the items c, and which line follows which.    *)

RingTags  == {"hdr1", "hdr2", "begin", "sample", "end"}
StatsTags == {"top", "ver", "row", "span", "spantotal", "trans", "statsend"}
BootTags  == {"boot", "cal"}
Tags      == RingTags \cup StatsTags \cup BootTags

LineT(c) == [tag : Tags, of : 1..Len(c), i : Nat]

IsLine(c, x) ==
    /\ x \in LineT(c)
    /\ x.tag \in RingTags  => c[x.of].kind = "ring"
    /\ x.tag \in StatsTags => c[x.of].kind = "stats"
    /\ x.tag \in BootTags  => c[x.of].kind = "boot"
    /\ x.tag = "sample" => x.i \in 1..c[x.of].n
    /\ x.tag \in {"row", "span"} => x.i \in 1..Rows
    /\ x.tag \notin {"sample", "row", "span"} => x.i = 0
    /\ x.tag \in {"span", "spantotal"} => c[x.of].ver # 1
    /\ x.tag = "cal" => c[x.of].ver = 2

\* The end of the capture, as a line.
Eof(c) == Line("eof", Len(c) + 1, 0)

FirstOf(c, k) == IF k > Len(c) THEN Eof(c)
                 ELSE Line(CASE c[k].kind = "ring"  -> "hdr1"
                             [] c[k].kind = "stats" -> "top"
                             [] c[k].kind = "boot"  -> "boot", k, 0)

After(c, x) ==
    CASE x.tag = "hdr1" -> Line("hdr2", x.of, 0)
      [] x.tag = "hdr2" -> Line("begin", x.of, 0)
      [] x.tag \in {"begin", "sample"} ->
             IF x.i < c[x.of].n THEN Line("sample", x.of, x.i + 1)
                                ELSE Line("end", x.of, 0)
      [] x.tag = "top" -> Line("ver", x.of, 0)
      [] x.tag = "ver" -> Line("row", x.of, 1)
      [] x.tag = "row" -> IF x.i < Rows THEN Line("row", x.of, x.i + 1)
                          ELSE IF c[x.of].ver = 1 THEN Line("trans", x.of, 0)
                          ELSE Line("span", x.of, 1)
      [] x.tag = "span" -> IF x.i < Rows THEN Line("span", x.of, x.i + 1)
                           ELSE Line("spantotal", x.of, 0)
      [] x.tag = "spantotal" -> Line("trans", x.of, 0)
      [] x.tag = "trans" -> Line("statsend", x.of, 0)
      [] x.tag = "boot" -> IF c[x.of].ver = 2 THEN Line("cal", x.of, 0)
                           ELSE FirstOf(c, x.of + 1)
      [] x.tag \in {"end", "statsend", "cal"} -> FirstOf(c, x.of + 1)

\* s holds lines that follow one another, from a up to, and without, b.
Segment(c, s, a, b) ==
    /\ s \in Seq(LineT(c))
    /\ \A j \in 1..Len(s) : IsLine(c, s[j])
    /\ \A j \in 1..Len(s) : j < Len(s) => s[j + 1] = After(c, s[j])
    /\ IF s = <<>> THEN a = b ELSE s[1] = a /\ After(c, s[Len(s)]) = b

\* The firmware's lines that are to come, without what the way did to them.
Clean(x) == [x EXCEPT !.tag = CASE @ = "bare1" -> "hdr1"
                                [] @ = "bare2" -> "hdr2"
                                [] @ = "badsample" -> "sample"
                                [] OTHER -> @]
Cleaned(w) == [j \in 1..Len(w) |-> Clean(w[j])]
Firmware(w) == IF w # <<>> /\ Head(w).tag = "console" THEN Tail(w) ELSE w
Body(w) == Cleaned(Firmware(w))

Coming(c, w) == IF Body(w) = <<>> THEN Eof(c) ELSE Body(w)[1]
Here == Coming(items, wire)

AnyTag == Tags \cup {"console", "bare1", "bare2", "badsample"}
WireT(c) == [tag : AnyTag, of : 0..Len(c), i : Nat]

\* The lines to come are the firmware's, in its order, and to its last.
Wired(c, w) == /\ w \in Seq(WireT(c))
               /\ Segment(c, Body(w), Coming(c, w), Eof(c))

ChainInv ==
    /\ items \in Captures /\ lost \in Nat /\ eaten \in Nat
    /\ Wired(items, wire)
    /\ \A j \in 1..Len(wire) : wire[j].tag = "badsample" => lost >= 1

----------------------------------------------------------------------------
(* What the reader holds.                                                  *)

Ref(c)    == 0..Len(c)
Header(c) == [one : Ref(c), two : Ref(c), extra : Ref(c)]
Sample(c) == {x \in [tag : {"sample"}, of : 1..Len(c), i : Nat] : IsLine(c, x)}
RingOf(c) == [hdr : Header(c), samples : Seq(Sample(c))]
StatsOf(c) == [ver : Ref(c), shape : Ref(c), rows : [1..Rows -> Ref(c)],
               spans : [1..Rows -> Ref(c)], total : Ref(c), trans : Ref(c)]

ReaderType ==
    /\ ring # <<>> => ring[1] \in RingOf(items) /\ ring = <<ring[1]>>
    /\ st # <<>> => st[1] \in StatsOf(items) /\ st = <<st[1]>>
    /\ pending \in Header(items)
    /\ boot \in Ref(items) /\ cal \in Ref(items)
    /\ rings \in Seq(RingOf(items)) /\ stats \in Seq(StatsOf(items))
    /\ outcome \in {"reading", "done", "error"}
    /\ outcome = "done" => ring = <<>> /\ st = <<>>

----------------------------------------------------------------------------
(* Prices: a version is one the reader knows when its item was accepted.   *)

Accepted(c, k) == k # 0 => c[k].ver \in Known
PriceInv ==
    /\ Accepted(items, boot)
    /\ cal # 0 => items[cal].ver = 2
    /\ st # <<>> => Accepted(items, st[1].ver)
    /\ \A j \in DOMAIN stats : Accepted(items, stats[j].ver)

----------------------------------------------------------------------------
(* Rings.                                                                  *)

\* How many samples of the dump that comes have gone by.
Gone(c, x) == CASE x.tag = "sample" -> x.i - 1
                [] x.tag = "end"    -> c[x.of].n
                [] OTHER            -> 0

InDump(x) == x.tag \in {"sample", "end"}

\* A header read before x comes, and the losses it took to get here with it.
OldHeader(c, x, p, l) ==
    /\ p.one <= x.of /\ p.two <= x.of
    /\ p.one # 0 => c[p.one].kind = "ring"
    /\ p.two # 0 => c[p.two].kind = "ring"
    /\ p.one # 0 /\ p.one < x.of => l >= 1 /\ (x.tag \in {"hdr2", "begin"} => l >= 2)
    /\ p.one = x.of => x.tag # "hdr1" /\ (InDump(x) => l >= 1)
    /\ p.two # 0 /\ p.two < x.of => l >= 1 /\ (x.tag = "begin" => l >= 2)
    /\ p.two = x.of => x.tag \notin {"hdr1", "hdr2"} /\ (InDump(x) => l >= 1)
    /\ p.two # 0 /\ c[p.two].ver # 1 => p.extra = p.two

\* The order of the samples of the dump that comes.
Ordered(x, s, gone) ==
    /\ \A j \in DOMAIN s : /\ s[j].of <= x.of
                           /\ s[j].of = x.of => InDump(x) /\ s[j].i + (Len(s) - j) <= gone
    /\ (\A j \in DOMAIN s : s[j].of = x.of) => \A j \in DOMAIN s : j <= s[j].i

\* The lines that were lost for the open ring to hold what it holds: its begin
\* is that of the dump that comes, or the end of a dump was lost, that of its
\* header or of another.
OwnBegin(x, r, gone, l) ==
    /\ InDump(x) /\ \A j \in DOMAIN r.samples : r.samples[j].of = x.of
    /\ r.hdr.one = x.of => Len(r.samples) + l >= gone
    /\ r.hdr.one # x.of => l >= 2 /\ Len(r.samples) + l >= gone + 2
LostEnd(c, r, gone, l) == Len(r.samples) + l >= c[r.hdr.one].n + 1 + gone
MixedHeader(x, r, gone, l) ==
    /\ Len(r.samples) + l >= 3 + gone /\ l >= 3
    /\ (\E j \in DOMAIN r.samples : r.samples[j].of # x.of) =>
           Len(r.samples) + l >= 4 + gone
HeaderOfOne(c, h) == h.two = h.one /\ (c[h.one].ver # 1 => h.extra = h.one)

OpenRing(c, x, r, l) ==
    /\ r.hdr.one # 0
    /\ Ordered(x, r.samples, Gone(c, x))
    /\ \/ OwnBegin(x, r, Gone(c, x), l)
       \/ LostEnd(c, r, Gone(c, x), l)
       \/ MixedHeader(x, r, Gone(c, x), l)
    /\ HeaderOfOne(c, r.hdr) \/ l >= 2

OneDump(c, s) == /\ \A i \in DOMAIN s : s[i].of = s[1].of /\ s[i].i = i
                 /\ s # <<>> => Len(s) = c[s[1].of].n
ReadRing(c, r, l) ==
    /\ l <= Len(r.samples) /\ l < 4 => OneDump(c, r.samples)
    /\ l <= 1 => /\ HeaderOfOne(c, r.hdr)
                 /\ \A i \in DOMAIN r.samples : r.samples[i].of = r.hdr.one

RingsAt(c, x, p, g, l) ==
    /\ OldHeader(c, x, p, l)
    /\ g # <<>> => p = NoHeader /\ OpenRing(c, x, g[1], l)

RingInv ==
    /\ outcome = "reading" /\ Here.tag # "eof" => RingsAt(items, Here, pending, ring, lost)
    /\ \A j \in DOMAIN rings : ReadRing(items, rings[j], lost)

----------------------------------------------------------------------------
(* Stats dumps.                                                            *)

AfterTop == StatsTags \ {"top"}
Fields(s) == {s.ver, s.shape, s.total, s.trans}
                 \cup {s.rows[i] : i \in 1..Rows} \cup {s.spans[i] : i \in 1..Rows}

OfOneDump(c, x, s, open, l) ==
    \/ l >= 2
    \/ \E k \in 1..Len(c) :
          /\ Fields(s) \subseteq {0, k}
          /\ \/ x.of = k /\ x.tag \in AfterTop /\ ~open
             \/ x.of > k /\ x.tag \notin AfterTop /\ ~open /\ l >= 1
             \/ x.of > k /\ InDump(x) /\ open /\ l >= 1

StatsInv ==
    /\ outcome = "reading" /\ st # <<>> =>
          OfOneDump(items, Here, st[1], ring # <<>>, lost + eaten)
    /\ lost + eaten <= 1 => \A j \in DOMAIN stats : OneStats(stats[j])

\* Spans that no total was read for.
Loose(s) == s.spans # NoRows /\ s.total = 0 /\ s.trans = 0
Whole(c, s) == \E k \in 1..Len(c) : SumsTo(s, k)
UpTo(s, k, i) == \A j \in 1..Rows : j < i => s.spans[j] = k

SpanTags == {"span", "spantotal", "trans", "statsend"}

\* The losses it took for the spans of the open dump to be loose.
LooseAt(c, x, s, l) ==
    \/ x.tag \in {"span", "spantotal"}
    \/ x.tag = "trans" /\ (l >= 2 \/ (l >= 1 /\ Whole(c, s)))
    \/ x.tag = "statsend" /\ l >= 2 /\ Whole(c, s)
SpansOf(c, x, s, open, l) ==
    /\ ~open /\ x.tag = "span" => UpTo(s, x.of, x.i) \/ l >= 1
    /\ ~open /\ x.tag = "spantotal" => SumsTo(s, x.of) \/ l >= 1
    /\ Loose(s) => l >= 3 \/ (~open /\ LooseAt(c, x, s, l))

SpansInv ==
    /\ outcome = "reading" /\ st # <<>> =>
          SpansOf(items, Here, st[1], ring # <<>>, lost)
    /\ \A j \in DOMAIN stats : Loose(stats[j]) => lost >= 3 \/ Whole(items, stats[j])

----------------------------------------------------------------------------
(* A capture that lost nothing.                                            *)

AllKnown == \A k \in DOMAIN items : Ver(k) \in Known

\* The dumps of a kind before the item k have been reported.
Before(c, of, kind, k) ==
    /\ \A i, j \in DOMAIN of : i < j => of[i] < of[j]
    /\ {of[j] : j \in DOMAIN of} = {m \in 1..Len(c) : m < k /\ c[m].kind = kind}

OneDumpRing(c, r) == /\ HeaderOfOne(c, r.hdr)
                     /\ \A i \in DOMAIN r.samples : r.samples[i].of = r.hdr.one
RingsBefore(c, rs, k) ==
    /\ Before(c, [j \in DOMAIN rs |-> rs[j].hdr.one], "ring", k)
    /\ \A j \in DOMAIN rs : OneDumpRing(c, rs[j])

\* The record of a stats dump when its line x comes, and the whole record.
RowsBy(x)  == CASE x.tag = "ver" -> 1 [] x.tag = "row" -> x.i [] OTHER -> Rows + 1
SpansBy(x) == CASE x.tag = "span" -> x.i
                [] x.tag \in {"spantotal", "trans", "statsend"} -> Rows + 1
                [] OTHER -> 1
RecordBy(c, x) ==
    [ver   |-> IF x.tag = "ver" THEN 0 ELSE x.of,
     shape |-> IF RowsBy(x) > 1 THEN x.of ELSE 0,
     rows  |-> [i \in 1..Rows |-> IF i < RowsBy(x) THEN x.of ELSE 0],
     spans |-> [i \in 1..Rows |-> IF i < SpansBy(x) /\ c[x.of].ver # 1 THEN x.of ELSE 0],
     total |-> IF x.tag \in {"trans", "statsend"} /\ c[x.of].ver # 1 THEN x.of ELSE 0,
     trans |-> IF x.tag = "statsend" THEN x.of ELSE 0]
RecordOf(c, k) == RecordBy(c, Line("statsend", k, 0))
StatsBefore(c, ss, k) ==
    /\ Before(c, [j \in DOMAIN ss |-> ss[j].ver], "stats", k)
    /\ \A j \in DOMAIN ss : ss[j] = RecordOf(c, ss[j].ver)

HeaderAt(c, x, p) ==
    /\ x.tag \in {"hdr2", "begin"} => p.one = x.of
    /\ x.tag = "begin" => p.two = x.of /\ (c[x.of].ver # 1 => p.extra = x.of)
RingAt(c, x, g) ==
    IF InDump(x)
    THEN /\ g # <<>>
         /\ g[1].hdr.one = x.of /\ OneDumpRing(c, g[1])
         /\ Len(g[1].samples) = Gone(c, x)
    ELSE g = <<>>
RecordAt(c, x, s) ==
    IF x.tag \in AfterTop
    THEN s = <<RecordBy(c, x)>> \/ (x.tag = "ver" /\ s = <<>>)
    ELSE s = <<>>

IntactAt(c, x) == /\ HeaderAt(c, x, pending) /\ RingAt(c, x, ring) /\ RecordAt(c, x, st)
                  /\ RingsBefore(c, rings, x.of) /\ StatsBefore(c, stats, x.of)

IntactInv ==
    lost = 0 /\ AllKnown =>
        \/ outcome = "reading" /\ IntactAt(items, Here)
        \/ /\ outcome = "done"
           /\ RingsBefore(items, rings, Len(items) + 1)
           /\ StatsBefore(items, stats, Len(items) + 1)
        \/ outcome = "error" /\ \A k \in DOMAIN items : items[k].kind = "boot"

----------------------------------------------------------------------------
(* What the firmware prints is one chain of lines.                         *)

\* What follows a line is a line, or the end of the capture.
LEMMA FirstIsLine ==
    ASSUME NEW c \in Seq(Item), NEW k \in 1..Len(c) + 1
    PROVE  IsLine(c, FirstOf(c, k)) \/ FirstOf(c, k) = Eof(c)
<1>1. CASE k > Len(c)
  BY <1>1 DEF FirstOf
<1>2. CASE k \in 1..Len(c)
  <2>1. c[k] \in Item /\ ~(k > Len(c))
    BY <1>2
  <2>2. CASE c[k].kind = "ring"
    BY <1>2, <2>1, <2>2 DEF FirstOf, IsLine, LineT, Line, Tags, RingTags, StatsTags, BootTags
  <2>3. CASE c[k].kind = "stats"
    BY <1>2, <2>1, <2>3 DEF FirstOf, IsLine, LineT, Line, Tags, RingTags, StatsTags, BootTags
  <2>4. CASE c[k].kind = "boot"
    BY <1>2, <2>1, <2>4 DEF FirstOf, IsLine, LineT, Line, Tags, RingTags, StatsTags, BootTags
  <2> QED
    BY <2>1, <2>2, <2>3, <2>4 DEF Item
<1> QED
  BY <1>1, <1>2

\* What follows a line is a line, or the end of the capture.
LEMMA AfterIsLine ==
    ASSUME NEW c \in Seq(Item), NEW x, IsLine(c, x)
    PROVE  IsLine(c, After(c, x)) \/ After(c, x) = Eof(c)
<1> USE CaptureAssumption DEF IsLine, LineT, Line, Tags, RingTags, StatsTags, BootTags
<1>1. x.of \in 1..Len(c) /\ x.i \in Nat /\ c[x.of] \in Item
  OBVIOUS
<1>2. IsLine(c, FirstOf(c, x.of + 1)) \/ FirstOf(c, x.of + 1) = Eof(c)
  BY <1>1, FirstIsLine
<1>3. CASE x.tag \in {"hdr1", "hdr2"}
  BY <1>1, <1>3 DEF After
<1>4. CASE x.tag \in {"begin", "sample"}
  <2>1. x.i \in Nat /\ c[x.of].n \in Nat /\ c[x.of].kind = "ring"
    BY <1>1, <1>4 DEF Item
  <2>2. CASE x.i < c[x.of].n
    <3>1. After(c, x) = Line("sample", x.of, x.i + 1)
      BY <1>4, <2>2 DEF After
    <3>2. x.i + 1 \in 1..c[x.of].n
      BY <2>1, <2>2
    <3> QED
      BY <1>1, <2>1, <3>1, <3>2
  <2>3. CASE ~(x.i < c[x.of].n)
    <3>1. After(c, x) = Line("end", x.of, 0)
      BY <1>4, <2>3 DEF After
    <3> QED
      BY <1>1, <2>1, <3>1
  <2> QED
    BY <2>2, <2>3
<1>5a. CASE x.tag = "top"
  BY <1>1, <1>5a DEF After
<1>5. CASE x.tag = "ver"
  <2>1. After(c, x) = Line("row", x.of, 1) /\ 1 \in 1..Rows
    BY <1>5 DEF After
  <2> QED
    BY <1>1, <1>5, <2>1
<1>6. CASE x.tag = "row"
  BY <1>1, <1>6 DEF After, Item
<1>7. CASE x.tag = "span"
  BY <1>1, <1>7 DEF After
<1>8. CASE x.tag \in {"spantotal", "trans"}
  BY <1>1, <1>8 DEF After
<1>9. CASE x.tag = "boot" /\ c[x.of].ver = 2
  BY <1>1, <1>9 DEF After
<1>10. CASE x.tag \in {"end", "statsend", "cal"} \/ (x.tag = "boot" /\ c[x.of].ver # 2)
  <2>1. After(c, x) = FirstOf(c, x.of + 1)
    BY <1>1, <1>10 DEF After
  <2> QED
    BY <1>2, <2>1
<1> QED
  BY <1>3, <1>4, <1>5a, <1>5, <1>6, <1>7, <1>8, <1>9, <1>10

\* Two chains of which the second goes on where the first stops are one.
LEMMA SegmentConcat ==
    ASSUME NEW c \in Seq(Item), NEW s, NEW u, NEW a, NEW b, NEW d,
           Segment(c, s, a, b), Segment(c, u, b, d)
    PROVE  Segment(c, s \o u, a, d)
<1>1. s \in Seq(LineT(c)) /\ u \in Seq(LineT(c))
  BY DEF Segment
<1>2. /\ s \o u \in Seq(LineT(c)) /\ Len(s \o u) = Len(s) + Len(u)
      /\ Len(s) \in Nat /\ Len(u) \in Nat
      /\ \A j \in 1..Len(s) : (s \o u)[j] = s[j]
      /\ \A j \in 1..Len(u) : (s \o u)[Len(s) + j] = u[j]
  BY <1>1
<1>3. CASE s = <<>>
  <2>1. s \o u = u /\ a = b
    BY <1>1, <1>3 DEF Segment
  <2> QED
    BY <2>1
<1>4. CASE u = <<>>
  <2>1. s \o u = s /\ b = d
    BY <1>1, <1>4 DEF Segment
  <2> QED
    BY <2>1
<1>5. CASE s # <<>> /\ u # <<>>
  <2>1. Len(s) > 0 /\ Len(u) > 0 /\ s \o u # <<>>
    BY <1>1, <1>2, <1>5
  <2>2. \A j \in 1..Len(s \o u) :
           \/ j \in 1..Len(s) /\ (s \o u)[j] = s[j]
           \/ j - Len(s) \in 1..Len(u) /\ (s \o u)[j] = u[j - Len(s)]
    <3> TAKE j \in 1..Len(s \o u)
    <3>1. CASE j <= Len(s)
      BY <1>2, <3>1
    <3>2. CASE j > Len(s)
      <4>1. j - Len(s) \in 1..Len(u) /\ Len(s) + (j - Len(s)) = j
        BY <1>2, <3>2
      <4> QED
        BY <1>2, <4>1
    <3> QED
      BY <1>2, <3>1, <3>2
  <2>3. \A j \in 1..Len(s \o u) : IsLine(c, (s \o u)[j])
    BY <2>2 DEF Segment
  <2>4. u[1] = b /\ After(c, s[Len(s)]) = b
    BY <1>5 DEF Segment
  <2>5. ASSUME NEW j \in 1..Len(s \o u), j < Len(s \o u)
        PROVE  (s \o u)[j + 1] = After(c, (s \o u)[j])
    <3>1. CASE j < Len(s)
      <4>1. j \in 1..Len(s) /\ j + 1 \in 1..Len(s)
        BY <1>2, <3>1
      <4> QED
        BY <1>2, <3>1, <4>1 DEF Segment
    <3>2. CASE j = Len(s)
      <4>1. (s \o u)[j] = s[Len(s)] /\ (s \o u)[j + 1] = u[1]
        BY <1>2, <2>1, <3>2
      <4> QED
        BY <2>4, <4>1
    <3>3. CASE j > Len(s)
      <4> DEFINE m == j - Len(s)
      <4>1. /\ m \in 1..Len(u) /\ m + 1 \in 1..Len(u) /\ m < Len(u)
            /\ Len(s) + m = j /\ Len(s) + (m + 1) = j + 1
        BY <1>2, <2>5, <3>3
      <4> HIDE DEF m
      <4>2. (s \o u)[j] = u[m] /\ (s \o u)[j + 1] = u[m + 1]
        BY <1>2, <4>1
      <4> QED
        BY <4>1, <4>2 DEF Segment
    <3>4. j < Len(s) \/ j = Len(s) \/ j > Len(s)
      BY <1>2
    <3> QED
      BY <3>1, <3>2, <3>3, <3>4
  <2>6. (s \o u)[1] = a
    BY <1>2, <1>5, <2>1 DEF Segment
  <2>7. After(c, (s \o u)[Len(s \o u)]) = d
    <3>1. (s \o u)[Len(s \o u)] = u[Len(u)]
      BY <1>2, <2>1
    <3> QED
      BY <3>1, <1>5 DEF Segment
  <2> QED
    BY <1>2, <2>1, <2>3, <2>5, <2>6, <2>7 DEF Segment
<1> QED
  BY <1>3, <1>4, <1>5

\* A line on its own, and a run of lines of one kind.
LEMMA SegmentOne ==
    ASSUME NEW c \in Seq(Item), NEW x, IsLine(c, x)
    PROVE  Segment(c, <<x>>, x, After(c, x))
<1>1. x \in LineT(c)
  BY DEF IsLine, LineT
<1>2. <<x>> \in Seq(LineT(c)) /\ Len(<<x>>) = 1 /\ <<x>>[1] = x /\ <<x>> # <<>>
  BY <1>1
<1>3. \A j \in 1..Len(<<x>>) : <<x>>[j] = x /\ ~(j < Len(<<x>>))
  BY <1>2
<1> QED
  BY <1>2, <1>3 DEF Segment

\* A pair as a concatenation.
LEMMA PairConcat ==
    ASSUME NEW x, NEW y
    PROVE  <<x>> \o <<y>> = <<x, y>>
<1> DEFINE s == <<x>> \o <<y>>
           u == <<x, y>>
           S == {x, y}
<1>1. s \in Seq(S) /\ u \in Seq(S) /\ Len(s) = 2 /\ Len(u) = 2
  OBVIOUS
<1>2. s[1] = u[1] /\ s[2] = u[2]
  OBVIOUS
<1> HIDE DEF s, u, S
<1>3. \A j \in 1..Len(s) : s[j] = u[j]
  BY <1>1, <1>2
<1>4. s = u
  BY <1>1, <1>3, SeqEqual
<1> QED
  BY <1>4 DEF s, u

\* A triple as a concatenation.
LEMMA TripleConcat ==
    ASSUME NEW x, NEW y, NEW z
    PROVE  <<x, y>> \o <<z>> = <<x, y, z>>
<1> DEFINE s == <<x, y>> \o <<z>>
           u == <<x, y, z>>
           S == {x, y, z}
<1>1. s \in Seq(S) /\ u \in Seq(S) /\ Len(s) = 3 /\ Len(u) = 3
  OBVIOUS
<1>2. s[1] = u[1] /\ s[2] = u[2] /\ s[3] = u[3]
  OBVIOUS
<1> HIDE DEF s, u, S
<1>3. \A j \in 1..Len(s) : s[j] = u[j]
  BY <1>1, <1>2
<1>4. s = u
  BY <1>1, <1>3, SeqEqual
<1> QED
  BY <1>4 DEF s, u

\* A line and the one after it.
LEMMA SegmentTwo ==
    ASSUME NEW c \in Seq(Item), NEW x, IsLine(c, x), IsLine(c, After(c, x))
    PROVE  Segment(c, <<x, After(c, x)>>, x, After(c, After(c, x)))
<1> DEFINE y == After(c, x)
<1>1. Segment(c, <<x>>, x, y) /\ Segment(c, <<y>>, y, After(c, y))
  BY SegmentOne
<1>2. <<x>> \o <<y>> = <<x, y>>
  BY PairConcat
<1> HIDE DEF y
<1>3. Segment(c, <<x>> \o <<y>>, x, After(c, y))
  BY <1>1, SegmentConcat
<1> QED
  BY <1>2, <1>3 DEF y

\* A run of numbered lines: samples, rows or spans.
LEMMA SegmentRun ==
    ASSUME NEW c \in Seq(Item), NEW t, NEW k, NEW n \in Nat \ {0},
           \A i \in 1..n : IsLine(c, Line(t, k, i)),
           \A i \in 1..n : i < n => After(c, Line(t, k, i)) = Line(t, k, i + 1)
    PROVE  Segment(c, [i \in 1..n |-> Line(t, k, i)], Line(t, k, 1),
                   After(c, Line(t, k, n)))
<1> DEFINE s == [i \in 1..n |-> Line(t, k, i)]
<1>1. \A i \in 1..n : Line(t, k, i) \in LineT(c)
  BY DEF IsLine, LineT
<1>2. s \in Seq(LineT(c)) /\ Len(s) = n /\ s # <<>>
  BY <1>1
<1>3. \A j \in 1..n : s[j] = Line(t, k, j)
  OBVIOUS
<1> HIDE DEF s
<1>4. \A j \in 1..Len(s) : IsLine(c, s[j])
  BY <1>2, <1>3
<1>5. \A j \in 1..Len(s) : j < Len(s) => s[j + 1] = After(c, s[j])
  <2> TAKE j \in 1..Len(s)
  <2> HAVE j < Len(s)
  <2>1. j \in 1..n /\ j + 1 \in 1..n /\ j < n
    BY <1>2
  <2> QED
    BY <1>3, <2>1
<1>6. s[1] = Line(t, k, 1) /\ s[Len(s)] = Line(t, k, n)
  BY <1>2, <1>3
<1>7. Segment(c, s, Line(t, k, 1), After(c, Line(t, k, n)))
  BY <1>2, <1>4, <1>5, <1>6 DEF Segment
<1> QED
  BY <1>7 DEF s

\* Each dump goes from its first line to the first line of the next item.
LEMMA RingSegment ==
    ASSUME NEW c \in Seq(Item), NEW k \in 1..Len(c), c[k].kind = "ring"
    PROVE  Segment(c, RingDump(k, c[k].n), FirstOf(c, k), FirstOf(c, k + 1))
<1> DEFINE n == c[k].n
           h1 == Line("hdr1", k, 0)
           h2 == Line("hdr2", k, 0)
           b == Line("begin", k, 0)
           z == Line("end", k, 0)
<1>1. c[k] \in Item /\ n \in Nat
  <2>1. c[k] \in Item
    OBVIOUS
  <2> QED
    BY <2>1 DEF Item
<1>2. IsLine(c, h1) /\ IsLine(c, h2) /\ IsLine(c, b) /\ IsLine(c, z)
  BY DEF IsLine, LineT, Line, Tags, RingTags, StatsTags, BootTags
<1>3. \A i \in 1..n : IsLine(c, Line("sample", k, i))
  BY <1>1 DEF IsLine, LineT, Line, Tags, RingTags, StatsTags, BootTags
<1>4. After(c, h1) = h2 /\ After(c, h2) = b /\ After(c, z) = FirstOf(c, k + 1)
  BY DEF After, Line
<1>5. /\ After(c, b) = IF 0 < n THEN Line("sample", k, 1) ELSE z
      /\ \A i \in 1..n : After(c, Line("sample", k, i)) =
                            IF i < n THEN Line("sample", k, i + 1) ELSE z
  BY <1>1 DEF After, Line
<1>6. FirstOf(c, k) = h1
  BY DEF FirstOf
<1> DEFINE run == [i \in 1..n |-> Line("sample", k, i)]
<1>7. Segment(c, run, After(c, b), z)
  <2>1. CASE n = 0
    <3>1. run = <<>> /\ After(c, b) = z
      BY <1>5, <2>1
    <3> HIDE DEF run, b, z
    <3> QED
      BY <3>1 DEF Segment
  <2>2. CASE n # 0
    <3>1. n \in Nat \ {0} /\ n \in 1..n /\ ~(n < n)
      BY <1>1, <2>2
    <3>2. /\ After(c, b) = Line("sample", k, 1) /\ After(c, Line("sample", k, n)) = z
          /\ \A i \in 1..n : i < n =>
                After(c, Line("sample", k, i)) = Line("sample", k, i + 1)
      BY <1>5, <3>1
    <3> HIDE DEF n, z, b
    <3>3. Segment(c, run, Line("sample", k, 1), After(c, Line("sample", k, n)))
      BY <1>3, <3>1, <3>2, SegmentRun
    <3> QED
      BY <3>2, <3>3
  <2> QED
    BY <2>1, <2>2
<1>8. RingDump(k, n) = <<h1, h2, b>> \o run \o <<z>>
  BY DEF RingDump
<1> HIDE DEF h1, h2, b, z, run, n
<1>9. Segment(c, <<h1, h2>>, h1, b)
  BY <1>2, <1>4, SegmentTwo
<1>10. Segment(c, <<b>>, b, After(c, b)) /\ Segment(c, <<z>>, z, FirstOf(c, k + 1))
  BY <1>2, <1>4, SegmentOne
<1>11. <<h1, h2>> \o <<b>> = <<h1, h2, b>>
  BY TripleConcat
<1>12. Segment(c, <<h1, h2, b>>, h1, After(c, b))
  BY <1>9, <1>10, <1>11, SegmentConcat
<1>13. Segment(c, <<h1, h2, b>> \o run, h1, z)
  BY <1>7, <1>12, SegmentConcat
<1>14. Segment(c, <<h1, h2, b>> \o run \o <<z>>, h1, FirstOf(c, k + 1))
  BY <1>10, <1>13, SegmentConcat
<1> QED
  BY <1>6, <1>8, <1>14 DEF n

\* The spans of a dump, which version 1 does not have.
LEMMA SpansSegment ==
    ASSUME NEW c \in Seq(Item), NEW k \in 1..Len(c), c[k].kind = "stats"
    PROVE  Segment(c, Spans(k, c[k].ver), After(c, Line("row", k, Rows)),
                   Line("trans", k, 0))
<1> USE CaptureAssumption
<1>1. c[k] \in Item /\ Rows \in Nat \ {0}
  OBVIOUS
<1>2. CASE c[k].ver = 1
  <2>1. Spans(k, c[k].ver) = <<>> /\ After(c, Line("row", k, Rows)) = Line("trans", k, 0)
    BY <1>1, <1>2 DEF Spans, After, Line
  <2> QED
    BY <2>1 DEF Segment
<1>3. CASE c[k].ver # 1
  <2> DEFINE t == Line("spantotal", k, 0)
             run == [i \in 1..Rows |-> Line("span", k, i)]
  <2>1. Spans(k, c[k].ver) = run \o <<t>>
    BY <1>3 DEF Spans
  <2>2. After(c, Line("row", k, Rows)) = Line("span", k, 1)
    BY <1>1, <1>3 DEF After, Line
  <2>3. \A i \in 1..Rows : After(c, Line("span", k, i)) =
                             IF i < Rows THEN Line("span", k, i + 1) ELSE t
    BY <1>1 DEF After, Line
  <2>4. IsLine(c, t) /\ \A i \in 1..Rows : IsLine(c, Line("span", k, i))
    BY <1>3 DEF IsLine, LineT, Line, Tags, RingTags, StatsTags, BootTags
  <2>5. After(c, t) = Line("trans", k, 0)
    BY DEF After, Line
  <2>6. /\ Rows \in 1..Rows /\ ~(Rows < Rows)
        /\ \A i \in 1..Rows : i < Rows =>
              After(c, Line("span", k, i)) = Line("span", k, i + 1)
    BY <1>1, <2>3
  <2>7. After(c, Line("span", k, Rows)) = t
    BY <2>3, <2>6
  <2> HIDE DEF t
  <2>8. Segment(c, run, Line("span", k, 1), t)
    BY <1>1, <2>4, <2>6, <2>7, SegmentRun
  <2> HIDE DEF run
  <2>9. Segment(c, <<t>>, t, Line("trans", k, 0))
    BY <2>4, <2>5, SegmentOne
  <2> QED
    BY <2>1, <2>2, <2>8, <2>9, SegmentConcat
<1> QED
  BY <1>2, <1>3

\* A stats dump.
LEMMA StatsSegment ==
    ASSUME NEW c \in Seq(Item), NEW k \in 1..Len(c), c[k].kind = "stats"
    PROVE  Segment(c, StatsDump(k, c[k].ver), FirstOf(c, k), FirstOf(c, k + 1))
<1> DEFINE t == Line("top", k, 0)
           v == Line("ver", k, 0)
           run == [i \in 1..Rows |-> Line("row", k, i)]
           spans == Spans(k, c[k].ver)
           m == Line("trans", k, 0)
           z == Line("statsend", k, 0)
<1>1. c[k] \in Item /\ Rows \in Nat \ {0} /\ Rows \in 1..Rows
  BY CaptureAssumption
<1>2. IsLine(c, t) /\ IsLine(c, v) /\ IsLine(c, m) /\ IsLine(c, z)
  BY DEF IsLine, LineT, Line, Tags, RingTags, StatsTags, BootTags
<1>3. \A i \in 1..Rows : IsLine(c, Line("row", k, i))
  BY DEF IsLine, LineT, Line, Tags, RingTags, StatsTags, BootTags
<1>4. /\ After(c, t) = v /\ After(c, v) = Line("row", k, 1) /\ After(c, m) = z
      /\ After(c, z) = FirstOf(c, k + 1)
  BY DEF After, Line
<1>5. \A i \in 1..Rows : i < Rows => After(c, Line("row", k, i)) = Line("row", k, i + 1)
  BY <1>1 DEF After, Line
<1>6. FirstOf(c, k) = t
  BY DEF FirstOf
<1>7. StatsDump(k, c[k].ver) = <<t, v>> \o run \o spans \o <<m, z>>
  BY DEF StatsDump
<1>8. Segment(c, run, After(c, v), After(c, Line("row", k, Rows)))
  <2>1. Segment(c, run, Line("row", k, 1), After(c, Line("row", k, Rows)))
    <3> HIDE DEF t, v, m, z, spans
    <3> QED
      BY <1>1, <1>3, <1>5, SegmentRun
  <2> QED
    BY <1>4, <2>1
<1>9. Segment(c, spans, After(c, Line("row", k, Rows)), m)
  BY SpansSegment
<1> HIDE DEF t, v, run, spans, m, z
<1>10. Segment(c, <<t, v>>, t, After(c, v))
  BY <1>2, <1>4, SegmentTwo
<1>11. Segment(c, <<m, z>>, m, FirstOf(c, k + 1))
  BY <1>2, <1>4, SegmentTwo
<1>12. Segment(c, <<t, v>> \o run, t, After(c, Line("row", k, Rows)))
  BY <1>8, <1>10, SegmentConcat
<1>13. Segment(c, <<t, v>> \o run \o spans, t, m)
  BY <1>9, <1>12, SegmentConcat
<1>14. Segment(c, <<t, v>> \o run \o spans \o <<m, z>>, t, FirstOf(c, k + 1))
  BY <1>11, <1>13, SegmentConcat
<1> QED
  BY <1>6, <1>7, <1>14

\* The lines of a boot.
LEMMA BootSegment ==
    ASSUME NEW c \in Seq(Item), NEW k \in 1..Len(c), c[k].kind = "boot"
    PROVE  Segment(c, BootLines(k, c[k].ver), FirstOf(c, k), FirstOf(c, k + 1))
<1> DEFINE b == Line("boot", k, 0)
           l == Line("cal", k, 0)
<1>1. FirstOf(c, k) = b /\ IsLine(c, b)
  BY DEF FirstOf, IsLine, LineT, Line, Tags, RingTags, StatsTags, BootTags
<1>2. CASE c[k].ver = 2
  <2>1. BootLines(k, c[k].ver) = <<b, l>>
    BY <1>2, PairConcat DEF BootLines
  <2>2. IsLine(c, l) /\ After(c, b) = l /\ After(c, l) = FirstOf(c, k + 1)
    BY <1>2 DEF After, IsLine, LineT, Line, Tags, RingTags, StatsTags, BootTags
  <2> HIDE DEF b, l
  <2> QED
    BY <1>1, <2>1, <2>2, SegmentTwo
<1>3. CASE c[k].ver # 2
  <2>1. BootLines(k, c[k].ver) = <<b>>
    <3>1. BootLines(k, c[k].ver) = <<b>> \o <<>> /\ <<b>> \in Seq({b})
      BY <1>3 DEF BootLines
    <3> HIDE DEF b
    <3> QED
      BY <3>1
  <2>2. After(c, b) = FirstOf(c, k + 1)
    BY <1>3 DEF After, Line
  <2> HIDE DEF b
  <2> QED
    BY <1>1, <2>1, <2>2, SegmentOne
<1> QED
  BY <1>2, <1>3

\* What an item prints leads from its first line to that of the next item.
LEMMA ItemSegment ==
    ASSUME NEW c \in Seq(Item), NEW k \in 1..Len(c)
    PROVE  Segment(c, Printed(c, k), FirstOf(c, k), FirstOf(c, k + 1))
<1>1. c[k].kind \in {"ring", "stats", "boot"}
  <2>1. c[k] \in Item
    OBVIOUS
  <2> QED
    BY <2>1 DEF Item
<1>2. CASE c[k].kind = "ring"
  BY <1>2, RingSegment DEF Printed
<1>3. CASE c[k].kind = "stats"
  BY <1>3, StatsSegment DEF Printed
<1>4. CASE c[k].kind = "boot"
  BY <1>4, BootSegment DEF Printed
<1> QED
  BY <1>1, <1>2, <1>3, <1>4

\* What holds of 0, and of the next number when of one, holds of all.
LEMMA SetInduction ==
    ASSUME NEW T \in SUBSET Nat, 0 \in T, \A n \in T : n + 1 \in T
    PROVE  T = Nat
<1> DEFINE R == OpToRel(<, Nat)
<1>1. IsWellFoundedOn(R, Nat)
  BY NatLessThanWellFounded
<1> SUFFICES ASSUME Nat \ T # {} PROVE FALSE
  OBVIOUS
<1>2. PICK x \in Nat \ T : \A y \in Nat \ T : ~(<<y, x>> \in R)
  <2> HIDE DEF R
  <2> QED
    BY <1>1, WFMin
<1>3. \A y \in Nat \ T : ~(y < x)
  BY <1>2 DEF OpToRel
<1>4. x - 1 \in Nat /\ x - 1 < x
  OBVIOUS
<1>5. x - 1 \in T
  BY <1>3, <1>4
<1> QED
  BY <1>5

\* The lines s with those of the item i after them.
Printing(c, s, i) == s \o Printed(c, i)

\* PrintedUpTo's recursive function exists for every number of items.
LEMMA UpToExists ==
    ASSUME NEW c, NEW n \in Nat
    PROVE  \E g : g = [i \in 0..n |-> IF i = 0 THEN <<>> ELSE Printing(c, g[i - 1], i)]
<1> DEFINE Prints(g, m) ==
              g = [i \in 0..m |-> IF i = 0 THEN <<>> ELSE Printing(c, g[i - 1], i)]
           T == {m \in Nat : \E g : Prints(g, m)}
<1>1. 0 \in T
  <2> DEFINE g == [i \in 0..0 |-> <<>>]
  <2>1. Prints(g, 0)
    OBVIOUS
  <2> HIDE DEF Prints, g
  <2> QED
    BY <2>1
<1>2. ASSUME NEW m \in T PROVE m + 1 \in T
  <2>1. PICK g : Prints(g, m)
    OBVIOUS
  <2> DEFINE g2 == [i \in 0..m + 1 |-> IF i <= m THEN g[i] ELSE Printing(c, g[m], i)]
             g3 == [i \in 0..m + 1 |-> IF i = 0 THEN <<>> ELSE Printing(c, g2[i - 1], i)]
  <2>2. ASSUME NEW i \in 0..m + 1 PROVE g2[i] = g3[i]
    <3>1. \A j \in 0..m : g2[j] = g[j]
      OBVIOUS
    <3>2. \A j \in 0..m : g[j] = IF j = 0 THEN <<>> ELSE Printing(c, g[j - 1], j)
      BY <2>1
    <3>3. CASE i = 0
      BY <3>1, <3>2, <3>3
    <3>4. CASE i # 0 /\ i <= m
      <4>1. i - 1 \in 0..m /\ i \in 0..m
        BY <3>4
      <4>2. g2[i] = Printing(c, g2[i - 1], i)
        BY <3>1, <3>2, <3>4, <4>1
      <4> QED
        BY <3>4, <4>2
    <3>5. CASE i = m + 1
      <4>1. g2[i] = Printing(c, g[m], i) /\ g2[i - 1] = g[m] /\ i # 0
        BY <3>5
      <4> QED
        BY <4>1
    <3> QED
      BY <3>3, <3>4, <3>5
  <2> HIDE DEF Prints
  <2>3. g2 = g3
    BY <2>2
  <2>4. Prints(g2, m + 1)
    BY <2>3 DEF Prints
  <2> HIDE DEF g2, g3
  <2> QED
    BY <2>4
<1>3. T \in SUBSET Nat
  OBVIOUS
<1> HIDE DEF Prints
<1>4. n \in T
  <2> HIDE DEF T
  <2> QED
    BY <1>1, <1>2, <1>3, SetInduction
<1> QED
  BY <1>4 DEF Prints

\* All that the firmware prints is one chain.
LEMMA PrintedSegment ==
    ASSUME NEW c \in Seq(Item)
    PROVE  Segment(c, PrintedUpTo(c), FirstOf(c, 1), Eof(c))
<1> DEFINE Prints(g) ==
              g = [i \in 0..Len(c) |-> IF i = 0 THEN <<>> ELSE Printing(c, g[i - 1], i)]
<1>0. Len(c) \in Nat
  OBVIOUS
<1>1. \E g : Prints(g)
  BY <1>0, UpToExists
<1>2. PrintedUpTo(c) = (CHOOSE g : Prints(g))[Len(c)]
  BY DEF PrintedUpTo, Printing
<1> HIDE DEF Prints
<1>3. PICK g : Prints(g) /\ PrintedUpTo(c) = g[Len(c)]
  BY <1>1, <1>2
<1>4. \A i \in 0..Len(c) : g[i] = IF i = 0 THEN <<>> ELSE Printing(c, g[i - 1], i)
  BY <1>3 DEF Prints
<1> DEFINE T == {n \in Nat : n <= Len(c) => Segment(c, g[n], FirstOf(c, 1), FirstOf(c, n + 1))}
<1>5. 0 \in T
  <2>1. g[0] = <<>>
    BY <1>0, <1>4
  <2>2. Segment(c, <<>>, FirstOf(c, 1), FirstOf(c, 1))
    BY DEF Segment
  <2> QED
    BY <2>1, <2>2
<1>6. ASSUME NEW n \in T PROVE n + 1 \in T
  <2> SUFFICES ASSUME n + 1 <= Len(c)
               PROVE  Segment(c, g[n + 1], FirstOf(c, 1), FirstOf(c, (n + 1) + 1))
    OBVIOUS
  <2>1. n + 1 \in 1..Len(c) /\ n + 1 \in 0..Len(c) /\ n + 1 # 0 /\ (n + 1) - 1 = n /\ n <= Len(c)
    BY <1>0
  <2>2. g[n + 1] = g[n] \o Printed(c, n + 1)
    BY <1>4, <2>1 DEF Printing
  <2>3. Segment(c, g[n], FirstOf(c, 1), FirstOf(c, n + 1))
    BY <2>1
  <2>4. Segment(c, Printed(c, n + 1), FirstOf(c, n + 1), FirstOf(c, (n + 1) + 1))
    BY <2>1, ItemSegment
  <2> QED
    BY <2>2, <2>3, <2>4, SegmentConcat
<1>7. T \in SUBSET Nat
  OBVIOUS
<1>8. Len(c) \in T
  <2> HIDE DEF T
  <2> QED
    BY <1>0, <1>5, <1>6, <1>7, SetInduction
<1>9. FirstOf(c, Len(c) + 1) = Eof(c)
  BY <1>0 DEF FirstOf
<1> QED
  BY <1>3, <1>8, <1>9

----------------------------------------------------------------------------
(* What a step does to the lines that are to come.                         *)

\* A segment without its first line.
LEMMA SegmentTail ==
    ASSUME NEW c \in Seq(Item), NEW s, NEW a, NEW b, Segment(c, s, a, b), s # <<>>
    PROVE  /\ Segment(c, Tail(s), After(c, a), b)
           /\ Tail(s) # <<>> => Tail(s)[1] = After(c, a)
           /\ Tail(s) = <<>> => After(c, a) = b
<1>1. s \in Seq(LineT(c)) /\ Len(s) \in Nat \ {0}
  BY DEF Segment
<1>2. /\ Tail(s) \in Seq(LineT(c)) /\ Len(Tail(s)) = Len(s) - 1
      /\ \A j \in 1..Len(Tail(s)) : Tail(s)[j] = s[j + 1]
  BY <1>1
<1>2a. Tail(s) = <<>> <=> Len(Tail(s)) = 0
  <2> DEFINE t == Tail(s)
  <2>1. t \in Seq(LineT(c))
    BY <1>2
  <2> HIDE DEF t
  <2>2. t = <<>> <=> Len(t) = 0
    BY <2>1, EmptySeq
  <2> QED
    BY <2>2 DEF t
<1>3. \A j \in 1..Len(Tail(s)) : IsLine(c, Tail(s)[j])
  BY <1>1, <1>2 DEF Segment
<1>4. ASSUME NEW j \in 1..Len(Tail(s)), j < Len(Tail(s))
      PROVE  Tail(s)[j + 1] = After(c, Tail(s)[j])
  <2>1. /\ j + 1 \in 1..Len(Tail(s)) /\ j + 1 \in 1..Len(s) /\ j + 1 < Len(s)
    BY <1>1, <1>2, <1>4
  <2>2. s[(j + 1) + 1] = After(c, s[j + 1])
    BY <2>1 DEF Segment
  <2> QED
    BY <1>2, <2>1, <2>2
<1>5. s[1] = a /\ After(c, s[Len(s)]) = b
  BY DEF Segment
<1>6. CASE Len(s) = 1
  <2>1. Tail(s) = <<>> /\ After(c, a) = b
    BY <1>1, <1>2, <1>2a, <1>5, <1>6
  <2> QED
    BY <2>1 DEF Segment
<1>7. CASE Len(s) # 1
  <2>1. 1 \in 1..Len(s) /\ 1 < Len(s) /\ Tail(s) # <<>> /\ 1 \in 1..Len(Tail(s))
    BY <1>1, <1>2, <1>2a, <1>7
  <2>2. s[1 + 1] = After(c, s[1])
    BY <2>1 DEF Segment
  <2>3. Tail(s)[1] = s[1 + 1]
    BY <1>2, <2>1
  <2>4. Tail(s)[1] = After(c, a)
    BY <1>5, <2>2, <2>3
  <2>5. Tail(s)[Len(Tail(s))] = s[Len(s)]
    BY <1>1, <1>2, <1>7
  <2> QED
    BY <1>2, <1>3, <1>4, <1>5, <2>1, <2>4, <2>5 DEF Segment
<1> QED
  BY <1>6, <1>7

\* Cleaning goes line by line.
LEMMA CleanedSeq ==
    ASSUME NEW c \in Seq(Item), NEW w \in Seq(WireT(c))
    PROVE  /\ DOMAIN Cleaned(w) = 1..Len(w) /\ Len(Cleaned(w)) = Len(w)
           /\ Cleaned(w) \in Seq(WireT(c))
           /\ \A j \in 1..Len(w) : Cleaned(w)[j] = Clean(w[j])
           /\ Cleaned(w) = <<>> <=> w = <<>>
<1>1. \A x \in WireT(c) : Clean(x) \in WireT(c)
  BY DEF WireT, Clean, AnyTag, Tags, RingTags, StatsTags, BootTags
<1>2. \A j \in 1..Len(w) : Clean(w[j]) \in WireT(c)
  BY <1>1
<1>3. Cleaned(w) \in [1..Len(w) -> WireT(c)]
  BY <1>2 DEF Cleaned
<1>4. Cleaned(w) \in Seq(WireT(c)) /\ Len(Cleaned(w)) = Len(w) /\ Len(w) \in Nat
  BY <1>3
<1>5. \A j \in 1..Len(w) : Cleaned(w)[j] = Clean(w[j])
  BY DEF Cleaned
<1> QED
  BY <1>3, <1>4, <1>5

\* A line that is cleaned keeps its writer and its number.
LEMMA CleanFields ==
    ASSUME NEW c, NEW x \in WireT(c)
    PROVE  /\ Clean(x).of = x.of /\ Clean(x).i = x.i
           /\ Clean(x).tag = CASE x.tag = "bare1" -> "hdr1"
                               [] x.tag = "bare2" -> "hdr2"
                               [] x.tag = "badsample" -> "sample"
                               [] OTHER -> x.tag
           /\ x.tag \in Tags => Clean(x) = x
BY DEF WireT, Clean, AnyTag, Tags, RingTags, StatsTags, BootTags

\* Tail and Cleaned commute, and a first line can be put back.
LEMMA CleanedTail ==
    ASSUME NEW c \in Seq(Item), NEW w \in Seq(WireT(c)), w # <<>>
    PROVE  Cleaned(Tail(w)) = Tail(Cleaned(w))
<1>1. Tail(w) \in Seq(WireT(c)) /\ Len(Tail(w)) = Len(w) - 1 /\ Len(w) \in Nat \ {0}
  OBVIOUS
<1>2. \A j \in 1..Len(Tail(w)) : Tail(w)[j] = w[j + 1] /\ j + 1 \in 1..Len(w)
  BY <1>1
<1>3. /\ Cleaned(w) \in Seq(WireT(c)) /\ Len(Cleaned(w)) = Len(w)
      /\ \A j \in 1..Len(w) : Cleaned(w)[j] = Clean(w[j])
  BY CleanedSeq
<1>4. /\ Cleaned(Tail(w)) \in Seq(WireT(c)) /\ Len(Cleaned(Tail(w))) = Len(Tail(w))
      /\ \A j \in 1..Len(Tail(w)) : Cleaned(Tail(w))[j] = Clean(Tail(w)[j])
  BY <1>1, CleanedSeq
<1> DEFINE v == Cleaned(w)
<1> HIDE DEF v
<1>5. /\ Tail(v) \in Seq(WireT(c)) /\ Len(Tail(v)) = Len(w) - 1
      /\ \A j \in 1..Len(Tail(w)) : Tail(v)[j] = v[j + 1]
  BY <1>1, <1>3 DEF v
<1>6. \A j \in 1..Len(Cleaned(Tail(w))) : Cleaned(Tail(w))[j] = Tail(v)[j]
  BY <1>2, <1>3, <1>4, <1>5 DEF v
<1>7. Cleaned(Tail(w)) = Tail(v)
  BY <1>1, <1>4, <1>5, <1>6, SeqEqual
<1> QED
  BY <1>7 DEF v

\* A sequence whose first element is replaced.
LEMMA HeadReplaced ==
    ASSUME NEW S, NEW w \in Seq(S), w # <<>>, NEW y \in S
    PROVE  /\ <<y>> \o Tail(w) \in Seq(S) /\ <<y>> \o Tail(w) # <<>>
           /\ Len(<<y>> \o Tail(w)) = Len(w)
           /\ Head(<<y>> \o Tail(w)) = y /\ (<<y>> \o Tail(w))[1] = y
           /\ Tail(<<y>> \o Tail(w)) = Tail(w)
           /\ \A j \in 1..Len(w) : j # 1 => (<<y>> \o Tail(w))[j] = w[j]
<1> DEFINE t == Tail(w)
           s == <<y>> \o t
<1>1. t \in Seq(S) /\ Len(w) \in Nat \ {0} /\ Len(t) = Len(w) - 1
      /\ \A j \in 1..Len(t) : t[j] = w[j + 1]
  OBVIOUS
<1> HIDE DEF t
<1>2. /\ s \in Seq(S) /\ Len(s) = Len(w) /\ s[1] = y
      /\ \A j \in 1..Len(w) : j # 1 => s[j] = t[j - 1]
  BY <1>1
<1> HIDE DEF s
<1>3. s # <<>> /\ Head(s) = y /\ Tail(s) \in Seq(S) /\ Len(Tail(s)) = Len(t)
      /\ \A j \in 1..Len(t) : Tail(s)[j] = s[j + 1]
  BY <1>1, <1>2
<1>4. \A j \in 1..Len(t) : Tail(s)[j] = t[j]
  <2> TAKE j \in 1..Len(t)
  <2>1. j + 1 \in 1..Len(w) /\ j + 1 # 1 /\ (j + 1) - 1 = j
    BY <1>1
  <2>2. s[j + 1] = t[(j + 1) - 1]
    BY <1>2, <2>1
  <2> QED
    BY <1>3, <2>1, <2>2
<1>5. Tail(s) = t
  BY <1>1, <1>3, <1>4, SeqEqual
<1>6. ASSUME NEW j \in 1..Len(w), j # 1 PROVE s[j] = w[j]
  <2>1. j - 1 \in 1..Len(t) /\ (j - 1) + 1 = j
    BY <1>1, <1>6
  <2> QED
    BY <1>1, <1>2, <1>6, <2>1
<1> QED
  BY <1>2, <1>3, <1>5, <1>6 DEF s, t

\* Of lines that are the firmware's none is a line of the console.
LEMMA FirmwareLines ==
    ASSUME NEW c \in Seq(Item), NEW w \in Seq(WireT(c)),
           \A j \in 1..Len(Cleaned(w)) : IsLine(c, Cleaned(w)[j])
    PROVE  Firmware(w) = w /\ (w # <<>> => Head(w).tag # "console")
<1>1. CASE w = <<>>
  BY <1>1 DEF Firmware
<1>2. CASE w # <<>>
  <2>1. /\ 1 \in 1..Len(w) /\ Head(w) = w[1] /\ w[1] \in WireT(c)
    BY <1>2
  <2>2. IsLine(c, Clean(w[1]))
    BY <2>1, CleanedSeq
  <2>3. Clean(w[1]).tag # "console"
    BY <2>2 DEF IsLine, LineT, Tags, RingTags, StatsTags, BootTags
  <2>4. w[1].tag # "console"
    BY <2>1, <2>3, CleanFields
  <2> QED
    BY <2>1, <2>4 DEF Firmware
<1> QED
  BY <1>1, <1>2

\* The reader takes a line, or the line is lost.
LEMMA LineTaken ==
    ASSUME NEW c \in Seq(Item), NEW w, Wired(c, w), w # <<>>
    PROVE  /\ Wired(c, Tail(w))
           /\ Head(w).tag = "console" =>
                 /\ Body(Tail(w)) = Body(w)
                 /\ Coming(c, Tail(w)) = Coming(c, w)
           /\ Head(w).tag # "console" =>
                 /\ Body(w) = Cleaned(w) /\ Body(Tail(w)) = Cleaned(Tail(w))
                 /\ Coming(c, w) = Clean(Head(w)) /\ IsLine(c, Coming(c, w))
                 /\ Coming(c, Tail(w)) = After(c, Coming(c, w))
<1>1. /\ w \in Seq(WireT(c)) /\ Segment(c, Body(w), Coming(c, w), Eof(c))
      /\ Tail(w) \in Seq(WireT(c)) /\ Head(w) \in WireT(c) /\ Head(w) = w[1]
  BY DEF Wired
<1>2. CASE Head(w).tag = "console"
  <2>1. Body(w) = Cleaned(Tail(w))
    BY <1>2 DEF Body, Firmware
  <2>2. \A j \in 1..Len(Cleaned(Tail(w))) : IsLine(c, Cleaned(Tail(w))[j])
    BY <1>1, <2>1 DEF Segment
  <2>3. Body(Tail(w)) = Body(w)
    BY <1>1, <2>1, <2>2, FirmwareLines DEF Body
  <2>4. Coming(c, Tail(w)) = Coming(c, w)
    BY <2>3 DEF Coming
  <2> QED
    BY <1>1, <1>2, <2>3, <2>4 DEF Wired
<1>3. CASE Head(w).tag # "console"
  <2>1. Body(w) = Cleaned(w)
    BY <1>3 DEF Body, Firmware
  <2>2. Cleaned(w) # <<>> /\ Len(w) >= 1 /\ Cleaned(w)[1] = Clean(w[1])
    BY <1>1, CleanedSeq
  <2>3. Coming(c, w) = Clean(Head(w))
    BY <1>1, <2>1, <2>2 DEF Coming
  <2>4. \A j \in 1..Len(Cleaned(w)) : IsLine(c, Cleaned(w)[j])
    BY <1>1, <2>1 DEF Segment
  <2>5. IsLine(c, Coming(c, w))
    BY <1>1, <2>2, <2>3, <2>4, CleanedSeq
  <2>6. Cleaned(Tail(w)) = Tail(Cleaned(w))
    BY <1>1, CleanedTail
  <2>7. /\ Segment(c, Tail(Cleaned(w)), After(c, Coming(c, w)), Eof(c))
        /\ Tail(Cleaned(w)) # <<>> => Tail(Cleaned(w))[1] = After(c, Coming(c, w))
        /\ Tail(Cleaned(w)) = <<>> => After(c, Coming(c, w)) = Eof(c)
    BY <1>1, <2>1, <2>2, SegmentTail
  <2>8. \A j \in 1..Len(Cleaned(Tail(w))) : IsLine(c, Cleaned(Tail(w))[j])
    BY <2>6, <2>7 DEF Segment
  <2>9. Body(Tail(w)) = Cleaned(Tail(w))
    BY <1>1, <2>8, FirmwareLines DEF Body
  <2>10. Coming(c, Tail(w)) = After(c, Coming(c, w))
    BY <2>6, <2>7, <2>9 DEF Coming
  <2> QED
    BY <1>1, <1>3, <2>1, <2>3, <2>5, <2>6, <2>7, <2>9, <2>10 DEF Wired
<1> QED
  BY <1>2, <1>3

\* A line is changed on the way.
LEMMA LineChanged ==
    ASSUME NEW c \in Seq(Item), NEW w, Wired(c, w), w # <<>>, Head(w).tag # "console",
           NEW y \in WireT(c), y.tag # "console", Clean(y) = Clean(Head(w))
    PROVE  /\ Wired(c, <<y>> \o Tail(w))
           /\ Coming(c, <<y>> \o Tail(w)) = Coming(c, w)
<1> DEFINE v == <<y>> \o Tail(w)
<1>1. /\ w \in Seq(WireT(c)) /\ Segment(c, Body(w), Coming(c, w), Eof(c))
      /\ Head(w) = w[1] /\ Len(w) \in Nat \ {0}
  BY DEF Wired
<1>2. /\ v \in Seq(WireT(c)) /\ v # <<>> /\ Len(v) = Len(w) /\ Head(v) = y /\ v[1] = y
      /\ \A j \in 1..Len(w) : j # 1 => v[j] = w[j]
  BY <1>1, HeadReplaced
<1> HIDE DEF v
<1>3. Body(w) = Cleaned(w)
  BY DEF Body, Firmware
<1>4. Body(v) = Cleaned(v)
  BY <1>2 DEF Body, Firmware
<1>5. \A j \in 1..Len(w) : Clean(v[j]) = Clean(w[j])
  BY <1>1, <1>2
<1>6. /\ Cleaned(w) \in Seq(WireT(c)) /\ Cleaned(v) \in Seq(WireT(c))
      /\ Len(Cleaned(w)) = Len(w) /\ Len(Cleaned(v)) = Len(w)
      /\ \A j \in 1..Len(w) : Cleaned(w)[j] = Clean(w[j])
      /\ \A j \in 1..Len(w) : Cleaned(v)[j] = Clean(v[j])
  BY <1>1, <1>2, CleanedSeq
<1>7. Cleaned(v) = Cleaned(w)
  BY <1>5, <1>6, SeqEqual
<1>8. Body(v) = Body(w) /\ Coming(c, v) = Coming(c, w)
  BY <1>3, <1>4, <1>7 DEF Coming
<1> QED
  BY <1>1, <1>2, <1>8 DEF Wired, v

\* A line of the console comes before a line, or in its place.
LEMMA LineHidden ==
    ASSUME NEW c \in Seq(Item), NEW w, Wired(c, w), w # <<>>, Head(w).tag # "console",
           NEW z \in WireT(c), z.tag = "console"
    PROVE  /\ Wired(c, <<z>> \o w) /\ Coming(c, <<z>> \o w) = Coming(c, w)
           /\ Wired(c, <<z>> \o Tail(w))
           /\ Coming(c, <<z>> \o Tail(w)) = After(c, Coming(c, w))
<1>1. /\ w \in Seq(WireT(c)) /\ Segment(c, Body(w), Coming(c, w), Eof(c))
      /\ Tail(w) \in Seq(WireT(c))
  BY DEF Wired
<1>2. /\ Wired(c, Tail(w)) /\ Body(w) = Cleaned(w) /\ Body(Tail(w)) = Cleaned(Tail(w))
      /\ Coming(c, Tail(w)) = After(c, Coming(c, w))
  BY LineTaken
<1>3. ASSUME NEW v \in Seq(WireT(c)), Wired(c, v), Body(v) = Cleaned(v)
      PROVE  Wired(c, <<z>> \o v) /\ Coming(c, <<z>> \o v) = Coming(c, v)
  <2> DEFINE u == <<z>> \o v
  <2>1. u \in Seq(WireT(c)) /\ u # <<>> /\ Head(u) = z /\ Tail(u) = v
    <3>1. /\ u \in Seq(WireT(c)) /\ Len(u) = Len(v) + 1 /\ u[1] = z
          /\ \A j \in 1..Len(v) : u[j + 1] = v[j]
      OBVIOUS
    <3> HIDE DEF u
    <3>2. /\ u # <<>> /\ Head(u) = z /\ Tail(u) \in Seq(WireT(c)) /\ Len(Tail(u)) = Len(v)
          /\ \A j \in 1..Len(v) : Tail(u)[j] = u[j + 1]
      BY <3>1
    <3>3. \A j \in 1..Len(Tail(u)) : Tail(u)[j] = v[j]
      BY <3>1, <3>2
    <3>4. Tail(u) = v
      BY <3>2, <3>3, SeqEqual
    <3> QED
      BY <3>1, <3>2, <3>4
  <2> HIDE DEF u
  <2>2. Body(u) = Cleaned(v)
    BY <2>1 DEF Body, Firmware
  <2>3. Body(u) = Body(v) /\ Coming(c, u) = Coming(c, v)
    BY <1>3, <2>2 DEF Coming
  <2> QED
    BY <1>3, <2>1, <2>3 DEF Wired, u
<1> QED
  BY <1>1, <1>2, <1>3

----------------------------------------------------------------------------
(* The lines after a line, and what a step does to the line that comes.    *)

\* The last line of its item.
IsLast(c, x) == \/ x.tag \in {"end", "statsend", "cal"}
                \/ x.tag = "boot" /\ c[x.of].ver # 2

\* After the last line of an item comes the first of the next, or the end.
LEMMA AfterLast ==
    ASSUME NEW c \in Seq(Item), NEW x, IsLine(c, x), IsLast(c, x)
    PROVE  /\ After(c, x).of = x.of + 1
           /\ After(c, x).tag \in {"hdr1", "top", "boot", "eof"}
           /\ After(c, x).tag = "eof" <=> x.of = Len(c)
<1>1. x.of \in 1..Len(c) /\ Len(c) \in Nat
  BY DEF IsLine, LineT
<1>2. After(c, x) = FirstOf(c, x.of + 1)
  BY DEF After, IsLast
<1>3. CASE x.of = Len(c)
  BY <1>1, <1>2, <1>3 DEF FirstOf, Eof, Line
<1>4. CASE x.of # Len(c)
  <2>1. ~(x.of + 1 > Len(c)) /\ x.of + 1 \in 1..Len(c)
    BY <1>1, <1>4
  <2>2. c[x.of + 1] \in Item
    BY <2>1
  <2>3. c[x.of + 1].kind \in {"ring", "stats", "boot"}
    BY <2>2 DEF Item
  <2> QED
    BY <1>2, <1>4, <2>1, <2>3 DEF FirstOf, Line
<1> QED
  BY <1>3, <1>4

\* After any other line comes one of the same item.
LEMMA AfterSame ==
    ASSUME NEW c \in Seq(Item), NEW x, IsLine(c, x), ~IsLast(c, x)
    PROVE  /\ After(c, x).of = x.of /\ IsLine(c, After(c, x))
           /\ x.tag = "hdr1" => After(c, x).tag = "hdr2"
           /\ x.tag = "hdr2" => After(c, x).tag = "begin"
           /\ x.tag \in {"begin", "sample"} =>
                 \/ After(c, x).tag = "sample" /\ After(c, x).i = x.i + 1
                 \/ After(c, x).tag = "end" /\ x.i = c[x.of].n
           /\ x.tag = "top" => After(c, x).tag = "ver"
           /\ x.tag = "ver" => After(c, x).tag = "row" /\ After(c, x).i = 1
           /\ x.tag = "row" =>
                 \/ x.i < Rows /\ After(c, x).tag = "row" /\ After(c, x).i = x.i + 1
                 \/ x.i = Rows /\ c[x.of].ver = 1 /\ After(c, x).tag = "trans"
                 \/ /\ x.i = Rows /\ c[x.of].ver # 1
                    /\ After(c, x).tag = "span" /\ After(c, x).i = 1
           /\ x.tag = "span" =>
                 \/ x.i < Rows /\ After(c, x).tag = "span" /\ After(c, x).i = x.i + 1
                 \/ x.i = Rows /\ After(c, x).tag = "spantotal"
           /\ x.tag = "spantotal" => After(c, x).tag = "trans"
           /\ x.tag = "trans" => After(c, x).tag = "statsend"
           /\ x.tag = "boot" => After(c, x).tag = "cal"
<1> DEFINE y == After(c, x)
<1>1. /\ x.of \in 1..Len(c) /\ x.i \in Nat /\ x.tag \in Tags
      /\ c[x.of] \in Item /\ Rows \in Nat
  BY CaptureAssumption DEF IsLine, LineT
<1>2. /\ x.tag \in {"hdr1", "hdr2", "top", "ver", "spantotal", "trans", "boot"} => y.of = x.of
      /\ x.tag = "hdr1" => y.tag = "hdr2"
      /\ x.tag = "hdr2" => y.tag = "begin"
      /\ x.tag = "top" => y.tag = "ver"
      /\ x.tag = "ver" => y.tag = "row" /\ y.i = 1
      /\ x.tag = "spantotal" => y.tag = "trans"
      /\ x.tag = "trans" => y.tag = "statsend"
      /\ x.tag = "boot" => y.tag = "cal"
  BY DEF After, Line, IsLast
<1>3. x.tag \in {"begin", "sample"} =>
         /\ y.of = x.of
         /\ \/ y.tag = "sample" /\ y.i = x.i + 1
            \/ y.tag = "end" /\ x.i = c[x.of].n
  <2> SUFFICES ASSUME x.tag \in {"begin", "sample"}
               PROVE  /\ y.of = x.of
                      /\ \/ y.tag = "sample" /\ y.i = x.i + 1
                         \/ y.tag = "end" /\ x.i = c[x.of].n
    OBVIOUS
  <2>1. c[x.of].n \in Nat /\ x.i <= c[x.of].n
    BY <1>1 DEF IsLine, Item
  <2>2. y = IF x.i < c[x.of].n THEN Line("sample", x.of, x.i + 1)
                               ELSE Line("end", x.of, 0)
    BY DEF After
  <2> HIDE DEF y
  <2> QED
    BY <1>1, <2>1, <2>2 DEF Line
<1>4. x.tag = "row" =>
         /\ y.of = x.of
         /\ \/ x.i < Rows /\ y.tag = "row" /\ y.i = x.i + 1
            \/ x.i = Rows /\ c[x.of].ver = 1 /\ y.tag = "trans"
            \/ x.i = Rows /\ c[x.of].ver # 1 /\ y.tag = "span" /\ y.i = 1
  <2> SUFFICES ASSUME x.tag = "row"
               PROVE  /\ y.of = x.of
                      /\ \/ x.i < Rows /\ y.tag = "row" /\ y.i = x.i + 1
                         \/ x.i = Rows /\ c[x.of].ver = 1 /\ y.tag = "trans"
                         \/ x.i = Rows /\ c[x.of].ver # 1 /\ y.tag = "span" /\ y.i = 1
    OBVIOUS
  <2>1. x.i <= Rows
    BY DEF IsLine
  <2>2. y = IF x.i < Rows THEN Line("row", x.of, x.i + 1)
            ELSE IF c[x.of].ver = 1 THEN Line("trans", x.of, 0)
            ELSE Line("span", x.of, 1)
    BY DEF After
  <2> HIDE DEF y
  <2> QED
    BY <1>1, <2>1, <2>2 DEF Line
<1>5. x.tag = "span" =>
         /\ y.of = x.of
         /\ \/ x.i < Rows /\ y.tag = "span" /\ y.i = x.i + 1
            \/ x.i = Rows /\ y.tag = "spantotal"
  <2> SUFFICES ASSUME x.tag = "span"
               PROVE  /\ y.of = x.of
                      /\ \/ x.i < Rows /\ y.tag = "span" /\ y.i = x.i + 1
                         \/ x.i = Rows /\ y.tag = "spantotal"
    OBVIOUS
  <2>1. x.i <= Rows
    BY DEF IsLine
  <2>2. y = IF x.i < Rows THEN Line("span", x.of, x.i + 1) ELSE Line("spantotal", x.of, 0)
    BY DEF After
  <2> HIDE DEF y
  <2> QED
    BY <1>1, <2>1, <2>2 DEF Line
<1>6. y.of = x.of
  BY <1>1, <1>2, <1>3, <1>4, <1>5 DEF Tags, RingTags, StatsTags, BootTags, IsLast
<1>7. IsLine(c, y)
  <2>1. IsLine(c, y) \/ y = Eof(c)
    BY AfterIsLine
  <2>2. y # Eof(c)
    BY <1>1, <1>6 DEF Eof, Line
  <2> QED
    BY <2>1, <2>2
<1> HIDE DEF y
<1>8. QED
  BY <1>2, <1>3, <1>4, <1>5, <1>6, <1>7 DEF y

\* How many samples of the next line's dump have gone by.
LEMMA GoneAfter ==
    ASSUME NEW c \in Seq(Item), NEW x, IsLine(c, x)
    PROVE  /\ Gone(c, x) \in Nat /\ Gone(c, After(c, x)) \in Nat
           /\ x.tag = "begin" => Gone(c, After(c, x)) = 0
           /\ x.tag = "sample" => /\ Gone(c, x) = x.i - 1
                                  /\ Gone(c, After(c, x)) = Gone(c, x) + 1
           /\ x.tag = "end" => Gone(c, x) = c[x.of].n
           /\ x.tag \notin {"begin", "sample"} => Gone(c, After(c, x)) = 0
           /\ ~InDump(x) => Gone(c, x) = 0
<1>1. /\ x.of \in 1..Len(c) /\ x.i \in Nat /\ c[x.of].n \in Nat /\ x.tag \in Tags
      /\ x.tag = "sample" => x.i >= 1
      /\ x.tag = "begin" => x.i = 0
  <2>1. c[x.of] \in Item
    BY DEF IsLine, LineT
  <2> QED
    BY <2>1 DEF IsLine, LineT, Item
<1>2. CASE IsLast(c, x)
  BY <1>1, <1>2, AfterLast DEF Gone, InDump, IsLast
<1>3. CASE ~IsLast(c, x)
  <2> DEFINE y == After(c, x)
  <2>1. /\ y.of = x.of
        /\ x.tag \in {"begin", "sample"} =>
                 \/ y.tag = "sample" /\ y.i = x.i + 1
                 \/ y.tag = "end" /\ x.i = c[x.of].n
        /\ x.tag \notin {"begin", "sample"} => y.tag \notin {"sample", "end"}
    <3>1. x.tag \notin {"begin", "sample"} =>
             x.tag \in {"hdr1", "hdr2", "top", "ver", "row", "span", "spantotal", "trans",
                        "boot"}
      BY <1>1, <1>3 DEF IsLast, Tags, RingTags, StatsTags, BootTags
    <3> QED
      BY <1>3, <3>1, AfterSame
  <2> HIDE DEF y
  <2>2. /\ Gone(c, x) \in Nat /\ Gone(c, y) \in Nat
        /\ x.tag = "begin" => Gone(c, y) = 0
        /\ x.tag = "sample" => Gone(c, x) = x.i - 1 /\ Gone(c, y) = Gone(c, x) + 1
        /\ x.tag = "end" => Gone(c, x) = c[x.of].n
        /\ x.tag \notin {"begin", "sample"} => Gone(c, y) = 0
        /\ ~InDump(x) => Gone(c, x) = 0
    BY <1>1, <2>1 DEF Gone, InDump
  <2> QED
    BY <2>2 DEF y
<1> QED
  BY <1>2, <1>3

----------------------------------------------------------------------------
(* Every step, by what it does to the line that comes.                     *)

\* Nothing the reader holds changes, and the line that comes is the same.
Stay == /\ Here' = Here /\ UNCHANGED reader
        /\ lost' \in Nat /\ eaten' \in Nat /\ lost' >= lost /\ eaten' >= eaten

Advance == IsLine(items, Here) /\ Here' = After(items, Here) /\ outcome = "reading"

\* The line that comes is lost, or its banner is unreadable.
Miss == /\ Advance /\ UNCHANGED reader
        /\ \/ lost' = lost + 1 /\ eaten' = eaten
           \/ lost' = lost /\ eaten' = eaten + 1 /\ Here.tag = "top"

\* The reader has nothing open that the line that comes is a line of.
Skip == /\ Advance /\ UNCHANGED <<lost, eaten, reader>>
        /\ IF ring # <<>> THEN ~InDump(Here)
           ELSE InDump(Here) \/ (st = <<>> /\ Here.tag \in StatsTags \ {"top", "ver"})

CutOff == /\ Here' = Eof(items) /\ UNCHANGED <<eaten, reader>> /\ outcome = "reading"
          /\ wire # <<>> /\ lost' = lost + Len(wire)

Take == /\ Advance /\ UNCHANGED <<lost, eaten>>
        /\ wire # <<>> /\ Here = Clean(Head(wire)) /\ Head(wire) \in WireT(items)
        /\ \/ ReadSample \/ MalformedSample \/ ReadEnd \/ ReadBoot \/ ReadCal
           \/ ReadHdr \/ ReadBegin \/ ReadTop \/ ReadVer \/ ReadRow \/ ReadStatsEnd

Stop == Here.tag = "eof" /\ Here' = Here /\ UNCHANGED <<lost, eaten>> /\ Finish

Moves == Stay \/ Miss \/ Skip \/ CutOff \/ Take \/ Stop

\* At the start the first line of the first item comes.
LEMMA ChainInit == Init => ChainInv /\ Here = FirstOf(items, 1)
<1> SUFFICES ASSUME Init PROVE ChainInv /\ Here = FirstOf(items, 1)
  OBVIOUS
<1>1. items \in Captures /\ items \in Seq(Item) /\ wire = PrintedUpTo(items)
  BY CaptureAssumption DEF Init
<1>2. Segment(items, wire, FirstOf(items, 1), Eof(items))
  BY <1>1, PrintedSegment
<1>3. wire \in Seq(LineT(items)) /\ \A j \in 1..Len(wire) : IsLine(items, wire[j])
  BY <1>2 DEF Segment
<1>4. LineT(items) \subseteq WireT(items)
  BY DEF LineT, WireT, AnyTag
<1>5. wire \in Seq(WireT(items))
  BY <1>3, <1>4, SeqMonotonic
<1>6. \A j \in 1..Len(wire) : wire[j].tag \in Tags
  BY <1>3 DEF IsLine, LineT
<1>7. Cleaned(wire) = wire
  <2>1. \A j \in 1..Len(wire) : Cleaned(wire)[j] = wire[j]
    BY <1>1, <1>5, <1>6, CleanedSeq, CleanFields
  <2> QED
    BY <1>1, <1>5, <2>1, CleanedSeq, SeqEqual
<1>8. Body(wire) = wire
  BY <1>1, <1>3, <1>5, <1>7, FirmwareLines DEF Body
<1>9. Coming(items, wire) = FirstOf(items, 1)
  BY <1>2, <1>8 DEF Coming, Segment
<1>10. \A j \in 1..Len(wire) : wire[j].tag # "badsample"
  BY <1>6 DEF Tags, RingTags, StatsTags, BootTags
<1> QED
  BY <1>1, <1>2, <1>5, <1>8, <1>9, <1>10 DEF ChainInv, Wired, Here, Init

\* A line that the reader passes over is not one of what it has open.
LEMMA UnreadHere ==
    ASSUME NEW c \in Seq(Item), NEW x \in WireT(c), Unread(x.tag), x.tag # "console"
    PROVE  IF ring # <<>> THEN ~InDump(Clean(x))
           ELSE \/ InDump(Clean(x))
                \/ st = <<>> /\ Clean(x).tag \in StatsTags \ {"top", "ver"}
BY CleanFields
   DEF Unread, InDump, HdrLine, WireT, AnyTag, Tags, RingTags, StatsTags, BootTags

\* Every step leaves the reader's position, moves it one line on, or cuts the
\* capture off.
LEMMA MovesNext == ASSUME ChainInv, [Next]_vars PROVE ChainInv' /\ items' = items /\ Moves
<1> DEFINE c == items
           h == Head(wire)
<1>1. /\ c \in Captures /\ c \in Seq(Item) /\ lost \in Nat /\ eaten \in Nat
      /\ Wired(c, wire) /\ wire \in Seq(WireT(c))
      /\ \A j \in 1..Len(wire) : wire[j].tag = "badsample" => lost >= 1
  BY CaptureAssumption DEF ChainInv, Wired
<1>2. wire # <<>> =>
         /\ h \in WireT(c) /\ h = wire[1] /\ Len(wire) \in Nat \ {0} /\ 1 \in 1..Len(wire)
         /\ Tail(wire) \in Seq(WireT(c)) /\ Len(Tail(wire)) = Len(wire) - 1
         /\ \A j \in 1..Len(Tail(wire)) : Tail(wire)[j] = wire[j + 1] /\ j + 1 \in 1..Len(wire)
  BY <1>1
<1>3. wire # <<>> /\ h.tag # "console" =>
         IsLine(c, Here) /\ Here = Clean(h) /\ Coming(c, Tail(wire)) = After(c, Here)
  BY <1>1, LineTaken DEF Here
<1>4. wire # <<>> /\ h.tag = "console" => Coming(c, Tail(wire)) = Here
  BY <1>1, LineTaken DEF Here
<1>5. wire # <<>> => Wired(c, Tail(wire))
  BY <1>1, LineTaken
\* A line leaves the wire at its head.
<1>6. ASSUME wire # <<>>, wire' = Tail(wire), items' = items, lost' \in Nat, lost' >= lost,
             eaten' \in Nat
      PROVE  /\ ChainInv'
             /\ h.tag = "console" => Here' = Here
             /\ h.tag # "console" => /\ IsLine(c, Here) /\ Here = Clean(h)
                                     /\ Here' = After(c, Here)
  <2>1. Wired(items', wire')
    BY <1>5, <1>6
  <2>2. \A j \in 1..Len(wire') : wire'[j].tag = "badsample" => lost' >= 1
    <3> TAKE j \in 1..Len(wire')
    <3>1. wire'[j] = wire[j + 1] /\ j + 1 \in 1..Len(wire)
      BY <1>2, <1>6
    <3>2. wire[j + 1].tag = "badsample" => lost >= 1
      BY <1>1, <3>1
    <3> QED
      BY <1>1, <1>6, <3>1, <3>2
  <2>3. ChainInv'
    BY <1>1, <1>6, <2>1, <2>2 DEF ChainInv
  <2>4. Here' = Coming(c, Tail(wire))
    BY <1>6 DEF Here
  <2> QED
    BY <1>3, <1>4, <1>6, <2>3, <2>4
\* The line at the head is replaced by y.
<1>7. ASSUME wire # <<>>, NEW y \in WireT(c), wire' = <<y>> \o Tail(wire), items' = items,
             lost' \in Nat, eaten' \in Nat, lost' >= lost, Wired(c, wire'),
             y.tag = "badsample" => lost' >= 1
      PROVE  ChainInv'
  <2>1. /\ wire' \in Seq(WireT(c)) /\ Len(wire') = Len(wire) /\ wire'[1] = y
        /\ \A j \in 1..Len(wire) : j # 1 => wire'[j] = wire[j]
    BY <1>1, <1>7, HeadReplaced
  <2>2. \A j \in 1..Len(wire') : wire'[j].tag = "badsample" => lost' >= 1
    <3> TAKE j \in 1..Len(wire')
    <3>1. j \in 1..Len(wire) /\ (j = 1 \/ j # 1)
      BY <2>1
    <3>2. CASE j = 1
      BY <1>7, <2>1, <3>2
    <3>3. CASE j # 1
      <4>1. wire'[j] = wire[j] /\ (wire[j].tag = "badsample" => lost >= 1)
        BY <1>1, <2>1, <3>1, <3>3
      <4> QED
        BY <1>1, <1>7, <4>1
    <3> QED
      BY <3>1, <3>2, <3>3
  <2> QED
    BY <1>1, <1>7, <2>2 DEF ChainInv
<1>8. CASE Lose
  <2>1. /\ wire # <<>> /\ wire' = Tail(wire) /\ items' = items /\ lost' = lost + 1
        /\ eaten' = eaten /\ UNCHANGED reader /\ outcome = "reading"
    BY <1>8 DEF Lose, Faulty
  <2>2. lost' \in Nat /\ lost' >= lost /\ eaten' \in Nat /\ eaten' >= eaten
    BY <1>1, <2>1
  <2> QED
    BY <1>6, <2>1, <2>2 DEF Moves, Stay, Miss, Advance
<1>9. CASE Cut
  <2>1. /\ wire # <<>> /\ wire' = <<>> /\ items' = items /\ lost' = lost + Len(wire)
        /\ eaten' = eaten /\ UNCHANGED reader /\ outcome = "reading"
    BY <1>9 DEF Cut, Faulty
  <2>2. lost' \in Nat /\ wire' \in Seq(WireT(c)) /\ Len(wire') = 0
    BY <1>1, <1>2, <2>1
  <2>3. Body(<<>>) = <<>>
    BY DEF Body, Firmware, Cleaned
  <2>4. Coming(items', wire') = Eof(c) /\ Here' = Eof(c)
    BY <2>1, <2>3 DEF Coming, Here
  <2>5. Segment(c, <<>>, Eof(c), Eof(c))
    BY DEF Segment
  <2>6. Wired(items', wire')
    BY <2>1, <2>2, <2>3, <2>4, <2>5 DEF Wired
  <2>7. ChainInv'
    BY <1>1, <2>1, <2>2, <2>6 DEF ChainInv
  <2> QED
    BY <2>1, <2>4, <2>7 DEF Moves, CutOff
<1>10. CASE Break
  <2> DEFINE y == [h EXCEPT !.tag = "badsample"]
  <2>1. /\ wire # <<>> /\ wire' = <<y>> \o Tail(wire) /\ items' = items /\ lost' = lost + 1
        /\ eaten' = eaten /\ UNCHANGED reader /\ outcome = "reading" /\ h.tag = "sample"
    BY <1>10 DEF Break, Faulty
  <2>2. lost' \in Nat /\ lost' >= lost /\ lost' >= 1 /\ eaten' \in Nat /\ eaten' >= eaten
    BY <1>1, <2>1
  <2>3. /\ y \in WireT(c) /\ y.tag # "console" /\ Clean(y) = Clean(h) /\ h.tag # "console"
    <3>1. h \in WireT(c)
      BY <1>2, <2>1
    <3> HIDE DEF h
    <3>2. y \in WireT(c) /\ y.tag = "badsample" /\ y.of = h.of /\ y.i = h.i
      BY <3>1 DEF WireT, AnyTag
    <3> HIDE DEF y
    <3>3. Clean(y) = [tag |-> "sample", of |-> h.of, i |-> h.i]
      BY <3>1, <3>2 DEF WireT, Clean
    <3>4. Clean(h) = [tag |-> "sample", of |-> h.of, i |-> h.i]
      BY <2>1, <3>1 DEF WireT, Clean
    <3> QED
      BY <2>1, <3>2, <3>3, <3>4
  <2> HIDE DEF y, h
  <2>4. Wired(c, wire') /\ Coming(c, wire') = Coming(c, wire)
    BY <1>1, <2>1, <2>3, LineChanged DEF h
  <2>5. Here' = Here
    BY <2>1, <2>4 DEF Here
  <2>6. ChainInv'
    BY <1>7, <2>1, <2>2, <2>3, <2>4
  <2> QED
    BY <2>1, <2>2, <2>5, <2>6 DEF Moves, Stay
<1>11. CASE Eat /\ h.tag # "top"
  <2> DEFINE t == IF h.tag = "hdr1" THEN "bare1" ELSE "bare2"
             y == [h EXCEPT !.tag = t]
  <2>1. /\ wire # <<>> /\ wire' = <<y>> \o Tail(wire) /\ items' = items /\ lost' = lost
        /\ eaten' = eaten + 1 /\ UNCHANGED reader /\ outcome = "reading"
        /\ h.tag \in {"hdr1", "hdr2"}
    BY <1>11 DEF Eat, Faulty
  <2>2. lost' \in Nat /\ lost' >= lost /\ eaten' \in Nat /\ eaten' >= eaten
    BY <1>1, <2>1
  <2>3. /\ y \in WireT(c) /\ y.tag \notin {"console", "badsample"} /\ Clean(y) = Clean(h)
        /\ h.tag # "console"
    <3>1. h \in WireT(c)
      BY <1>2, <2>1
    <3> HIDE DEF h
    <3>2. y \in WireT(c) /\ y.tag = t /\ y.of = h.of /\ y.i = h.i
      BY <3>1 DEF WireT, AnyTag
    <3>3. Clean(y) = [tag |-> h.tag, of |-> h.of, i |-> h.i]
      BY <2>1, <3>1, <3>2 DEF WireT, Clean
    <3>4. Clean(h) = [tag |-> h.tag, of |-> h.of, i |-> h.i]
      BY <2>1, <3>1 DEF WireT, Clean
    <3> QED
      BY <2>1, <3>2, <3>3, <3>4
  <2> HIDE DEF y, h
  <2>4. Wired(c, wire') /\ Coming(c, wire') = Coming(c, wire)
    BY <1>1, <2>1, <2>3, LineChanged DEF h
  <2>5. Here' = Here
    BY <2>1, <2>4 DEF Here
  <2>6. ChainInv'
    BY <1>7, <2>1, <2>2, <2>3, <2>4
  <2> QED
    BY <2>1, <2>2, <2>5, <2>6 DEF Moves, Stay
<1> DEFINE z == Line("console", 0, 0)
<1>12. z \in WireT(c) /\ z.tag = "console"
  BY <1>1 DEF Line, WireT, AnyTag
<1>13. CASE Eat /\ h.tag = "top"
  <2>1. /\ wire # <<>> /\ wire' = <<z>> \o Tail(wire) /\ items' = items /\ lost' = lost
        /\ eaten' = eaten + 1 /\ UNCHANGED reader /\ outcome = "reading"
    BY <1>13 DEF Eat, Faulty
  <2>2. lost' \in Nat /\ lost' >= lost /\ eaten' \in Nat
    BY <1>1, <2>1
  <2> HIDE DEF z
  <2>3. Wired(c, wire') /\ Coming(c, wire') = After(c, Coming(c, wire))
    BY <1>1, <1>12, <1>13, <2>1, LineHidden
  <2>4. IsLine(c, Here) /\ Here' = After(c, Here) /\ Here.tag = "top"
    <3>1. Here = Clean(h) /\ h \in WireT(c) /\ IsLine(c, Here)
      BY <1>2, <1>3, <1>13, <2>1
    <3>2. Here.tag = "top"
      BY <1>13, <3>1, CleanFields
    <3> QED
      BY <2>1, <2>3, <3>1, <3>2 DEF Here
  <2>5. ChainInv'
    BY <1>7, <1>12, <2>1, <2>2, <2>3
  <2> QED
    BY <2>1, <2>4, <2>5 DEF Moves, Miss, Advance
<1>14. CASE Console
  <2>1. /\ wire # <<>> /\ wire' = <<z>> \o wire /\ items' = items /\ lost' = lost
        /\ eaten' = eaten + 1 /\ UNCHANGED reader /\ h.tag # "console"
    BY <1>14 DEF Console, Faulty
  <2> HIDE DEF z
  <2>2. Wired(c, wire') /\ Coming(c, wire') = Coming(c, wire)
    BY <1>1, <1>12, <2>1, LineHidden
  <2>3. /\ wire' \in Seq(WireT(c)) /\ Len(wire') = Len(wire) + 1 /\ wire'[1] = z
        /\ \A j \in 1..Len(wire) : wire'[j + 1] = wire[j]
    BY <1>1, <1>12, <2>1
  <2>4. \A j \in 1..Len(wire') : wire'[j].tag = "badsample" => lost' >= 1
    <3> TAKE j \in 1..Len(wire')
    <3>1. CASE j = 1
      BY <1>12, <2>3, <3>1
    <3>2. CASE j # 1
      <4>1. j - 1 \in 1..Len(wire) /\ (j - 1) + 1 = j
        BY <1>1, <2>3, <3>2
      <4>2. wire'[j] = wire[j - 1]
        BY <2>3, <4>1
      <4> QED
        BY <1>1, <2>1, <4>1, <4>2
    <3> QED
      BY <3>1, <3>2
  <2>5. ChainInv'
    BY <1>1, <2>1, <2>2, <2>4 DEF ChainInv
  <2>6. Here' = Here /\ lost' >= lost /\ eaten' >= eaten /\ lost' \in Nat /\ eaten' \in Nat
    BY <1>1, <2>1, <2>2 DEF Here
  <2> QED
    BY <2>1, <2>5, <2>6 DEF Moves, Stay
<1>15. CASE Ignore
  <2>1. /\ wire # <<>> /\ wire' = Tail(wire) /\ items' = items /\ lost' = lost
        /\ eaten' = eaten /\ UNCHANGED reader /\ outcome = "reading" /\ Unread(h.tag)
    BY <1>15 DEF Ignore, Consume, source
  <2>2. lost' >= lost /\ eaten' >= eaten /\ lost' \in Nat /\ eaten' \in Nat
    BY <1>1, <2>1
  <2>3. CASE h.tag = "console"
    BY <1>6, <2>1, <2>2, <2>3 DEF Moves, Stay
  <2>4. CASE h.tag # "console"
    <3>1. /\ ChainInv' /\ IsLine(c, Here) /\ Here = Clean(h) /\ Here' = After(c, Here)
      BY <1>6, <2>1, <2>2, <2>4
    <3>2. IF ring # <<>> THEN ~InDump(Clean(h))
           ELSE \/ InDump(Clean(h))
                \/ st = <<>> /\ Clean(h).tag \in StatsTags \ {"top", "ver"}
      <4>1. c \in Seq(Item) /\ h \in WireT(c)
        BY <1>1, <1>2, <2>1
      <4> HIDE DEF c, h
      <4> QED
        BY <2>1, <2>4, <4>1, UnreadHere
    <3>3. Skip
      BY <2>1, <3>1, <3>2 DEF Skip, Advance
    <3> QED
      BY <2>1, <3>1, <3>3 DEF Moves
  <2> QED
    BY <2>3, <2>4
<1>16. ASSUME \/ ReadSample \/ MalformedSample \/ ReadEnd \/ ReadBoot \/ ReadCal
              \/ ReadHdr \/ ReadBegin \/ ReadTop \/ ReadVer \/ ReadRow \/ ReadStatsEnd
       PROVE  ChainInv' /\ items' = items /\ Moves
  <2>1. wire # <<>> /\ outcome = "reading" /\ Consume /\ h.tag # "console"
    BY <1>16
       DEF ReadSample, MalformedSample, ReadEnd, ReadBoot, ReadCal, ReadHdr, ReadBegin,
           ReadTop, ReadVer, ReadRow, ReadStatsEnd, Reading, InStats, HdrLine
  <2>2. wire' = Tail(wire) /\ items' = items /\ lost' = lost /\ eaten' = eaten
    BY <2>1 DEF Consume, source
  <2>3. lost' >= lost /\ lost' \in Nat /\ eaten' \in Nat
    BY <1>1, <2>2
  <2>4. /\ ChainInv' /\ IsLine(c, Here) /\ Here = Clean(h) /\ Here' = After(c, Here)
    BY <1>6, <2>1, <2>2, <2>3
  <2>5. Take
    BY <1>2, <1>16, <2>1, <2>2, <2>4 DEF Take, Advance
  <2> QED
    BY <2>2, <2>4, <2>5 DEF Moves
<1>17. CASE Finish
  <2>1. wire = <<>> /\ wire' = wire /\ items' = items /\ lost' = lost /\ eaten' = eaten
    BY <1>17 DEF Finish, source
  <2>2. ChainInv'
    BY <2>1 DEF ChainInv
  <2>3. Here = Eof(c) /\ Here' = Here
    BY <2>1 DEF Here, Coming, Body, Firmware, Cleaned
  <2>4. Here.tag = "eof"
    BY <2>3 DEF Eof, Line
  <2> QED
    BY <1>17, <2>1, <2>2, <2>3, <2>4 DEF Moves, Stop
<1>18. CASE UNCHANGED vars
  <2>1. items' = items /\ wire' = wire /\ lost' = lost /\ eaten' = eaten /\ UNCHANGED reader
    BY <1>18 DEF vars
  <2>2. ChainInv' /\ Here' = Here
    BY <2>1 DEF ChainInv, Here
  <2> QED
    BY <1>1, <2>1, <2>2 DEF Moves, Stay
<1> QED
  BY <1>8, <1>9, <1>10, <1>11, <1>13, <1>14, <1>15, <1>16, <1>17, <1>18 DEF Next, Read

----------------------------------------------------------------------------
(* What the reader holds has its type.                                     *)

\* The line that is read, by the action that reads it.
LEMMA TakeLine ==
    ASSUME ChainInv, Take
    PROVE  /\ Here.of \in 1..Len(items) /\ Here.of = Head(wire).of
           /\ ReadSample => Here = Head(wire) /\ Here.tag = "sample"
           /\ MalformedSample => Here.tag = "sample"
           /\ ReadEnd => Here = Head(wire) /\ Here.tag = "end"
           /\ ReadBoot => Here = Head(wire) /\ Here.tag = "boot"
           /\ ReadCal => Here = Head(wire) /\ Here.tag = "cal"
           /\ ReadHdr => \/ HdrLine(Head(wire).tag) = 1 /\ Here.tag = "hdr1"
                         \/ HdrLine(Head(wire).tag) = 2 /\ Here.tag = "hdr2"
           /\ ReadBegin => Here = Head(wire) /\ Here.tag = "begin"
           /\ ReadTop => Here = Head(wire) /\ Here.tag = "top"
           /\ ReadVer => Here = Head(wire) /\ Here.tag = "ver"
           /\ ReadRow => /\ Here = Head(wire)
                         /\ Here.tag \in {"row", "span", "spantotal", "trans"}
           /\ ReadStatsEnd => Here = Head(wire) /\ Here.tag = "statsend"
<1> DEFINE h == Head(wire)
<1>1. h \in WireT(items) /\ Here = Clean(h) /\ IsLine(items, Here)
  BY DEF Take, Advance
<1>2. /\ Here.of = h.of
      /\ Here.tag = CASE h.tag = "bare1" -> "hdr1"
                      [] h.tag = "bare2" -> "hdr2"
                      [] h.tag = "badsample" -> "sample"
                      [] OTHER -> h.tag
      /\ h.tag \in Tags => Here = h
  BY <1>1, CleanFields
<1>3. Here.of \in 1..Len(items)
  BY <1>1 DEF IsLine, LineT
<1> HIDE DEF Here
<1>4. ReadHdr => \/ HdrLine(h.tag) = 1 /\ h.tag \in {"hdr1", "bare1"}
                 \/ HdrLine(h.tag) = 2 /\ h.tag \in {"hdr2", "bare2"}
  BY DEF ReadHdr, HdrLine
<1>5. /\ (ReadSample \/ ReadEnd \/ ReadBoot \/ ReadCal \/ ReadBegin \/ ReadTop \/ ReadVer
            \/ ReadRow \/ ReadStatsEnd) => h.tag \in Tags
      /\ ReadSample => h.tag = "sample"
      /\ MalformedSample => h.tag = "badsample"
      /\ ReadEnd => h.tag = "end"
      /\ ReadBoot => h.tag = "boot"
      /\ ReadCal => h.tag = "cal"
      /\ ReadBegin => h.tag = "begin"
      /\ ReadTop => h.tag = "top"
      /\ ReadVer => h.tag = "ver"
      /\ ReadRow => h.tag \in {"row", "span", "spantotal", "trans"}
      /\ ReadStatsEnd => h.tag = "statsend"
  BY DEF ReadSample, MalformedSample, ReadEnd, ReadBoot, ReadCal, ReadBegin, ReadTop,
         ReadVer, ReadRow, ReadStatsEnd, Reading, InStats, Tags, RingTags, StatsTags, BootTags
<1> HIDE DEF h
<1>6. Here.tag = h.tag \/ h.tag \in {"bare1", "bare2", "badsample"}
  BY <1>2
<1>7. /\ (ReadSample \/ ReadEnd \/ ReadBoot \/ ReadCal \/ ReadBegin \/ ReadTop \/ ReadVer
            \/ ReadRow \/ ReadStatsEnd) => Here = h
  BY <1>2, <1>5
<1>8. ReadHdr => \/ HdrLine(h.tag) = 1 /\ Here.tag = "hdr1"
                 \/ HdrLine(h.tag) = 2 /\ Here.tag = "hdr2"
  BY <1>2, <1>4
<1>9. MalformedSample => Here.tag = "sample"
  BY <1>2, <1>5
<1> QED
  BY <1>2, <1>3, <1>5, <1>7, <1>8, <1>9 DEF h

\* What the reader holds has its types.
LEMMA ReaderTypeInit == Init => ReaderType
<1> SUFFICES ASSUME Init PROVE ReaderType
  OBVIOUS
<1>1. items \in Seq(Item)
  BY CaptureAssumption DEF Init
<1> QED
  BY <1>1 DEF Init, ReaderType, NoHeader, Header, Ref

\* A stats dump of which the reader fills in a field.
LEMMA StatsFields ==
    ASSUME NEW c \in Seq(Item), NEW k \in Ref(c)
    PROVE  /\ Stats \in StatsOf(c)
           /\ \A s \in StatsOf(c) :
                 /\ [s EXCEPT !.ver = k] \in StatsOf(c)
                 /\ [s EXCEPT !.shape = k] \in StatsOf(c)
                 /\ [s EXCEPT !.total = k] \in StatsOf(c)
                 /\ [s EXCEPT !.trans = k] \in StatsOf(c)
                 /\ \A i \in 1..Rows : /\ [s EXCEPT !.rows[i] = k] \in StatsOf(c)
                                       /\ [s EXCEPT !.spans[i] = k] \in StatsOf(c)
                                       /\ Resolved(s, i, k) \in StatsOf(c)
<1>1. 0 \in Ref(c)
  BY DEF Ref
<1>2. Stats \in StatsOf(c)
  BY <1>1 DEF Stats, StatsOf, NoRows
<1>3. ASSUME NEW s \in StatsOf(c)
      PROVE  /\ [s EXCEPT !.ver = k] \in StatsOf(c)
             /\ [s EXCEPT !.shape = k] \in StatsOf(c)
             /\ [s EXCEPT !.total = k] \in StatsOf(c)
             /\ [s EXCEPT !.trans = k] \in StatsOf(c)
             /\ \A i \in 1..Rows : /\ [s EXCEPT !.rows[i] = k] \in StatsOf(c)
                                   /\ [s EXCEPT !.spans[i] = k] \in StatsOf(c)
                                   /\ Resolved(s, i, k) \in StatsOf(c)
  BY DEF StatsOf, Resolved
<1> QED
  BY <1>2, <1>3

\* The record after a row of a bucket or of its spans, a total, or the count
\* of the transitions has been read, of the line i of k.
RowRead(s, i, k)   == [Resolved(s, i, k) EXCEPT !.rows[i] = k]
SpanRead(s, i, k)  == [Resolved(s, i, k) EXCEPT !.spans[i] = k]
TotalRead(s, k)    == [s EXCEPT !.total = k]
TransRead(s, k)    == [s EXCEPT !.trans = k]
VersionRead(s, k)  == [s EXCEPT !.ver = k]

\* The fields of a stats dump after a row or a span was read.
LEMMA FieldsAfter ==
    ASSUME NEW c, NEW s \in StatsOf(c), NEW k, NEW i \in 1..Rows
    PROVE  /\ /\ RowRead(s, i, k).ver = s.ver /\ RowRead(s, i, k).total = s.total
              /\ RowRead(s, i, k).trans = s.trans /\ RowRead(s, i, k).spans = s.spans
              /\ \A m \in 1..Rows :
                    RowRead(s, i, k).rows[m] = IF m = i THEN k ELSE s.rows[m]
              /\ RowRead(s, i, k).shape = IF i = 1 /\ s.shape = 0 THEN k ELSE s.shape
           /\ /\ SpanRead(s, i, k).ver = s.ver /\ SpanRead(s, i, k).total = s.total
              /\ SpanRead(s, i, k).trans = s.trans /\ SpanRead(s, i, k).rows = s.rows
              /\ \A m \in 1..Rows :
                    SpanRead(s, i, k).spans[m] = IF m = i THEN k ELSE s.spans[m]
              /\ SpanRead(s, i, k).shape = IF i = 1 /\ s.shape = 0 THEN k ELSE s.shape
<1>1. s = [ver |-> s.ver, shape |-> s.shape, rows |-> s.rows, spans |-> s.spans,
           total |-> s.total, trans |-> s.trans]
  BY DEF StatsOf
<1> QED
  BY <1>1 DEF Resolved, StatsOf, RowRead, SpanRead

\* The fields of a stats dump after a total, TRANSITIONS or ver= was read.
LEMMA FieldAfter ==
    ASSUME NEW c, NEW s \in StatsOf(c), NEW k
    PROVE  /\ /\ TotalRead(s, k).ver = s.ver /\ TotalRead(s, k).total = k
              /\ TotalRead(s, k).trans = s.trans /\ TotalRead(s, k).rows = s.rows
              /\ TotalRead(s, k).spans = s.spans /\ TotalRead(s, k).shape = s.shape
           /\ /\ TransRead(s, k).ver = s.ver /\ TransRead(s, k).total = s.total
              /\ TransRead(s, k).trans = k /\ TransRead(s, k).rows = s.rows
              /\ TransRead(s, k).spans = s.spans /\ TransRead(s, k).shape = s.shape
           /\ /\ VersionRead(s, k).ver = k /\ VersionRead(s, k).total = s.total
              /\ VersionRead(s, k).trans = s.trans /\ VersionRead(s, k).rows = s.rows
              /\ VersionRead(s, k).spans = s.spans /\ VersionRead(s, k).shape = s.shape
<1>1. s = [ver |-> s.ver, shape |-> s.shape, rows |-> s.rows, spans |-> s.spans,
           total |-> s.total, trans |-> s.trans]
  BY DEF StatsOf
<1> QED
  BY <1>1 DEF StatsOf, TotalRead, TransRead, VersionRead

\* What reading a row of a stats dump does, by the kind of the row.
LEMMA RowTaken ==
    ASSUME ChainInv, ReaderType, Take, ReadRow
    PROVE  /\ ring = <<>> /\ st # <<>> /\ st[1] \in StatsOf(items)
           /\ UNCHANGED <<ring, pending, boot, cal, rings, stats, outcome>>
           /\ Here.tag \in {"row", "span"} => Here.i \in 1..Rows
           /\ \/ Here.tag = "row" /\ st' = <<RowRead(st[1], Here.i, Here.of)>>
              \/ Here.tag = "span" /\ st' = <<SpanRead(st[1], Here.i, Here.of)>>
              \/ Here.tag = "spantotal" /\ st' = <<TotalRead(st[1], Here.of)>>
              \/ Here.tag = "trans" /\ st' = <<TransRead(st[1], Here.of)>>
<1>1. /\ ring = <<>> /\ st # <<>> /\ st[1] \in StatsOf(items)
      /\ UNCHANGED <<ring, pending, boot, cal, rings, stats, outcome>>
  BY DEF ReadRow, InStats, ReaderType
<1>2. Here = Head(wire)
  BY TakeLine
<1>3. Here.tag \in {"row", "span"} => Here.i \in 1..Rows
  BY DEF Take, Advance, IsLine
<1>4. \/ Here.tag = "row" /\ st' = <<RowRead(st[1], Here.i, Here.of)>>
      \/ Here.tag = "span" /\ st' = <<SpanRead(st[1], Here.i, Here.of)>>
      \/ Here.tag = "spantotal" /\ st' = <<TotalRead(st[1], Here.of)>>
      \/ Here.tag = "trans" /\ st' = <<TransRead(st[1], Here.of)>>
  BY <1>2 DEF ReadRow, InStats, Reading, RowRead, SpanRead, TotalRead, TransRead
<1> QED
  BY <1>1, <1>3, <1>4

\* What the other steps of a stats dump do.
LEMMA VerTaken ==
    ASSUME ChainInv, ReaderType, Take, ReadVer
    PROVE  /\ ring = <<>> /\ Here.tag = "ver"
           /\ (IF st = <<>> THEN Stats ELSE st[1]) \in StatsOf(items)
           /\ UNCHANGED <<ring, pending, boot, cal, rings, stats>>
           /\ \/ /\ items[Here.of].ver \in Known /\ UNCHANGED outcome
                 /\ st' = <<VersionRead(IF st = <<>> THEN Stats ELSE st[1], Here.of)>>
              \/ outcome' = "error" /\ UNCHANGED st /\ items[Here.of].ver \notin Known
<1>1. Here.tag = "ver" /\ Here.of = Head(wire).of
  BY TakeLine
<1>2. (IF st = <<>> THEN Stats ELSE st[1]) \in StatsOf(items)
  <2>1. items \in Seq(Item) /\ 0 \in Ref(items)
    BY CaptureAssumption DEF ChainInv, Ref
  <2> QED
    BY <2>1, StatsFields DEF ReaderType
<1> QED
  BY <1>1, <1>2 DEF ReadVer, Ver, Refuse, VersionRead

\* Every step keeps the types of what the reader holds.
LEMMA ReaderTypeNext ==
    ASSUME ChainInv, ReaderType, items' = items, Moves
    PROVE  ReaderType'
<1> DEFINE c == items
<1>1. c \in Seq(Item) /\ 0 \in Ref(c) /\ 1..Len(c) \subseteq Ref(c)
  BY CaptureAssumption DEF ChainInv, Ref
<1>2. CASE UNCHANGED reader
  BY <1>2 DEF ReaderType, reader
<1>3. CASE Take
  <2>1. Here.of \in 1..Len(c) /\ Here.of \in Ref(c) /\ Head(wire).of = Here.of
    BY <1>1, <1>3, TakeLine
  <2>2. CASE ReadSample
    <3> DEFINE r == ring[1]
    <3>1. /\ ring # <<>> /\ ring' = <<[r EXCEPT !.samples = Append(@, Here)]>>
          /\ UNCHANGED <<st, pending, boot, cal, rings, stats, outcome>>
      BY <1>3, <2>2, TakeLine DEF ReadSample
    <3>2. r \in RingOf(c)
      BY <3>1 DEF ReaderType
    <3>3. Here \in Sample(c)
      <4>1. IsLine(c, Here) /\ Here.tag = "sample"
        BY <1>3, <2>2, TakeLine DEF Take, Advance
      <4>2. Here \in [tag : {"sample"}, of : 1..Len(c), i : Nat]
        BY <4>1 DEF IsLine, LineT
      <4> QED
        BY <4>1, <4>2 DEF Sample
    <3>4. [r EXCEPT !.samples = Append(@, Here)] \in RingOf(c)
      <4> HIDE DEF r
      <4> QED
        BY <3>2, <3>3 DEF RingOf
    <3>5. ring'[1] \in RingOf(c) /\ ring' = <<ring'[1]>>
      BY <3>1, <3>4
    <3>6. outcome = "reading"
      BY <1>3 DEF Take, Advance
    <3> QED
      BY <3>1, <3>5, <3>6 DEF ReaderType
  <2>3. CASE MalformedSample
    BY <2>3 DEF MalformedSample, Refuse, ReaderType
  <2>4. CASE ReadEnd
    <3>1. ring # <<>> /\ ring[1] \in RingOf(c)
      BY <2>4 DEF ReadEnd, ReaderType
    <3>2. CASE RingCloses(ring[1], items[Head(wire).of].n)
      <4>1. /\ rings' = Append(rings, ring[1]) /\ ring' = <<>>
            /\ UNCHANGED <<st, pending, boot, cal, stats, outcome>>
        BY <2>4, <3>2 DEF ReadEnd
      <4>2. rings' \in Seq(RingOf(c))
        <5> DEFINE T == RingOf(c)
        <5>1. rings \in Seq(T) /\ ring[1] \in T
          BY <3>1 DEF ReaderType
        <5> HIDE DEF T
        <5> QED
          BY <4>1, <5>1 DEF T
      <4> QED
        BY <4>1, <4>2 DEF ReaderType
    <3>3. CASE ~RingCloses(ring[1], items[Head(wire).of].n)
      BY <2>4, <3>3 DEF ReadEnd, Refuse, ReaderType
    <3> QED
      BY <3>2, <3>3
  <2>5. CASE ReadBoot
    BY <2>1, <2>5 DEF ReadBoot, Refuse, ReaderType
  <2>6. CASE ReadCal
    BY <2>1, <2>6 DEF ReadCal, ReaderType
  <2>7. CASE ReadHdr
    <3>1. pending' \in Header(c)
      BY <2>1, <2>7 DEF ReadHdr, ReaderType, Header
    <3> QED
      BY <2>7, <3>1 DEF ReadHdr, ReaderType
  <2>8. CASE ReadBegin
    <3>1. CASE HeaderComplete(pending)
      <4>1. /\ ring' = <<Ring(pending)>> /\ pending' = NoHeader
            /\ UNCHANGED <<st, boot, cal, rings, stats, outcome>>
        BY <2>8, <3>1 DEF ReadBegin, PendingAfter
      <4>2. Ring(pending) \in RingOf(c) /\ NoHeader \in Header(c)
        BY <1>1 DEF ReaderType, Ring, RingOf, NoHeader, Header
      <4>3. outcome = "reading"
        BY <1>3 DEF Take, Advance
      <4>4. ring'[1] = Ring(pending)
        BY <4>1
      <4> QED
        BY <4>1, <4>2, <4>3, <4>4 DEF ReaderType
    <3>2. CASE ~HeaderComplete(pending)
      BY <2>8, <3>2 DEF ReadBegin, Refuse, ReaderType
    <3> QED
      BY <3>1, <3>2
  <2>9. outcome = "reading"
    BY <1>3 DEF Take, Advance
  <2>10. CASE ReadTop
    <3>1. st' = <<Stats>> /\ UNCHANGED <<ring, pending, boot, cal, rings, stats, outcome>>
      BY <2>10 DEF ReadTop
    <3>2. Stats \in StatsOf(c) /\ st'[1] = Stats
      BY <1>1, <3>1, StatsFields
    <3> QED
      BY <2>9, <3>1, <3>2 DEF ReaderType
  <2>11. CASE ReadVer
    <3> DEFINE s == IF st = <<>> THEN Stats ELSE st[1]
    <3>1. /\ s \in StatsOf(c) /\ UNCHANGED <<ring, pending, boot, cal, rings, stats>>
          /\ \/ UNCHANGED outcome /\ st' = <<VersionRead(s, Here.of)>>
             \/ outcome' = "error" /\ UNCHANGED st
      BY <1>3, <2>11, VerTaken
    <3>2. VersionRead(s, Here.of) \in StatsOf(c)
      <4> HIDE DEF s
      <4> QED
        BY <1>1, <2>1, <3>1, StatsFields DEF VersionRead
    <3> HIDE DEF s
    <3>3. CASE st' = <<VersionRead(s, Here.of)>>
      <4>1. st'[1] = VersionRead(s, Here.of)
        BY <3>3
      <4> QED
        BY <2>9, <3>1, <3>2, <3>3, <4>1 DEF ReaderType
    <3>4. CASE UNCHANGED st
      BY <2>9, <3>1, <3>4 DEF ReaderType
    <3> QED
      BY <3>1, <3>3, <3>4
  <2>12. CASE ReadRow
    <3> DEFINE s == st[1]
               k == Here.of
               i == Here.i
    <3>1. /\ st # <<>> /\ s \in StatsOf(c)
          /\ UNCHANGED <<ring, pending, boot, cal, rings, stats, outcome>>
          /\ \/ i \in 1..Rows /\ st' = <<RowRead(s, i, k)>>
             \/ i \in 1..Rows /\ st' = <<SpanRead(s, i, k)>>
             \/ st' = <<TotalRead(s, k)>>
             \/ st' = <<TransRead(s, k)>>
      BY <1>3, <2>12, RowTaken
    <3> HIDE DEF s, i, k
    <3>2. k \in Ref(c)
      BY <2>1 DEF k
    <3>3. /\ TotalRead(s, k) \in StatsOf(c) /\ TransRead(s, k) \in StatsOf(c)
          /\ i \in 1..Rows => RowRead(s, i, k) \in StatsOf(c) /\ SpanRead(s, i, k) \in StatsOf(c)
      <4>1. i \in 1..Rows => Resolved(s, i, k) \in StatsOf(c)
        BY <1>1, <3>1, <3>2, StatsFields
      <4> QED
        BY <1>1, <3>1, <3>2, <4>1, StatsFields DEF RowRead, SpanRead, TotalRead, TransRead
    <3>4. PICK t : st' = <<t>> /\ t \in StatsOf(c)
      BY <3>1, <3>3
    <3>5. st'[1] = t
      BY <3>4
    <3> QED
      BY <2>9, <3>1, <3>4, <3>5 DEF ReaderType
  <2>13. CASE ReadStatsEnd
    <3>1. /\ st # <<>> /\ st' = <<>> /\ stats' = Append(stats, st[1])
          /\ UNCHANGED <<ring, pending, boot, cal, rings, outcome>>
      BY <2>13 DEF ReadStatsEnd, InStats
    <3>2. stats' \in Seq(StatsOf(c))
      BY <3>1 DEF ReaderType
    <3> QED
      BY <3>1, <3>2 DEF ReaderType
  <2> QED
    BY <1>3, <2>2, <2>3, <2>4, <2>5, <2>6, <2>7, <2>8, <2>10, <2>11, <2>12, <2>13 DEF Take
<1>4. CASE Finish
  <2>1. CASE ring # <<>> \/ (rings = <<>> /\ stats \o st = <<>>)
    BY <1>4, <2>1 DEF Finish, Refuse, ReaderType
  <2>2. CASE ~(ring # <<>> \/ (rings = <<>> /\ stats \o st = <<>>))
    <3>1. /\ stats' = stats \o st /\ st' = <<>> /\ outcome' = "done" /\ ring = <<>>
          /\ UNCHANGED <<ring, pending, boot, cal, rings>>
      BY <1>4, <2>2 DEF Finish
    <3>2. st \in Seq(StatsOf(c))
      <4>1. CASE st = <<>>
        BY <4>1
      <4>2. CASE st # <<>>
        <5>1. st[1] \in StatsOf(c) /\ st = <<st[1]>>
          BY <4>2 DEF ReaderType
        <5> DEFINE s == st[1]
        <5>2. <<s>> \in Seq(StatsOf(c))
          <6> HIDE DEF s
          <6> QED
            BY <5>1 DEF s
        <5> QED
          BY <5>1, <5>2
      <4> QED
        BY <4>1, <4>2
    <3>3. stats' \in Seq(StatsOf(c))
      BY <3>1, <3>2 DEF ReaderType
    <3> QED
      BY <3>1, <3>3 DEF ReaderType
  <2> QED
    BY <2>1, <2>2
<1> QED
  BY <1>2, <1>3, <1>4 DEF Moves, Stay, Miss, Skip, CutOff, Stop

\* The reader's position and the types of what it holds, of every capture.
CaptureInv == ChainInv /\ ReaderType

\* The chain of lines and the reader's types are kept by every step.
LEMMA CaptureInvariance == Spec => []CaptureInv
<1>1. Init => CaptureInv
  BY ChainInit, ReaderTypeInit DEF CaptureInv
<1>2. CaptureInv /\ [Next]_vars => CaptureInv'
  BY MovesNext, ReaderTypeNext DEF CaptureInv
<1> QED
  BY <1>1, <1>2, PTL DEF Spec

----------------------------------------------------------------------------
(* The price of the probes.                                                *)

\* What is reported when a stats dump is appended to those reported.
LEMMA StatsAppended ==
    ASSUME CaptureInv, st # <<>>
    PROVE  /\ Append(stats, st[1]) = stats \o st
           /\ Len(Append(stats, st[1])) = Len(stats) + 1 /\ Len(stats) \in Nat
           /\ DOMAIN stats = 1..Len(stats)
           /\ DOMAIN Append(stats, st[1]) = 1..Len(stats) + 1
           /\ \A j \in 1..Len(stats) : Append(stats, st[1])[j] = stats[j]
           /\ Append(stats, st[1])[Len(stats) + 1] = st[1]
<1> DEFINE T == StatsOf(items)
           s == st[1]
<1>1. stats \in Seq(T) /\ s \in T /\ st = <<s>>
  BY DEF CaptureInv, ReaderType
<1> HIDE DEF T, s
<1>2. Append(stats, s) = stats \o <<s>>
  <2>1. /\ Append(stats, s) \in Seq(T) /\ stats \o <<s>> \in Seq(T)
        /\ Len(Append(stats, s)) = Len(stats \o <<s>>)
        /\ \A j \in 1..Len(Append(stats, s)) : Append(stats, s)[j] = (stats \o <<s>>)[j]
    BY <1>1
  <2> QED
    BY <2>1, SeqEqual
<1>3. /\ Len(Append(stats, s)) = Len(stats) + 1 /\ Len(stats) \in Nat
      /\ DOMAIN stats = 1..Len(stats)
      /\ DOMAIN Append(stats, s) = 1..Len(stats) + 1
      /\ \A j \in 1..Len(stats) : Append(stats, s)[j] = stats[j]
      /\ Append(stats, s)[Len(stats) + 1] = s
  BY <1>1
<1> QED
  BY <1>1, <1>2, <1>3 DEF s

\* A stats dump that is reported was reported before, or is the open one.
LEMMA StatsReported ==
    ASSUME CaptureInv, stats' = stats \o st \/ (st # <<>> /\ stats' = Append(stats, st[1]))
    PROVE  \A j \in DOMAIN stats' : \/ st # <<>> /\ stats'[j] = st[1]
                                    \/ j \in DOMAIN stats /\ stats'[j] = stats[j]
<1>1. CASE st = <<>>
  <2>1. stats \in Seq(StatsOf(items))
    BY DEF CaptureInv, ReaderType
  <2>2. stats' = stats
    BY <1>1, <2>1, ConcatEmptySeq
  <2> QED
    BY <2>2
<1>2. CASE st # <<>>
  BY <1>2, StatsAppended
<1> QED
  BY <1>1, <1>2

\* What has a version the reader knows keeps it.
LEMMA PriceInvNext ==
    ASSUME CaptureInv, PriceInv, items' = items, Moves
    PROVE  PriceInv'
<1> USE DEF CaptureInv
<1>1. CASE UNCHANGED reader
  BY <1>1 DEF PriceInv, Accepted, reader
<1>2. CASE Take
  <2>1. Here.of = Head(wire).of
    BY <1>2, TakeLine
  <2>2. CASE ReadSample \/ MalformedSample \/ ReadEnd \/ ReadHdr \/ ReadBegin
    <3>1. UNCHANGED <<boot, cal, st, stats>>
      BY <2>2 DEF ReadSample, MalformedSample, ReadEnd, ReadHdr, ReadBegin, Refuse
    <3> QED
      BY <3>1 DEF PriceInv, Accepted
  <2>3. CASE ReadBoot
    <3>1. /\ boot' = boot \/ (boot' = Here.of /\ items[Here.of].ver \in Known)
          /\ UNCHANGED <<cal, st, stats>>
      BY <2>1, <2>3 DEF ReadBoot, Refuse, Ver
    <3> QED
      BY <3>1 DEF PriceInv, Accepted
  <2>4. CASE ReadCal
    <3>1. cal' = Here.of /\ UNCHANGED <<boot, st, stats>> /\ Here.tag = "cal"
      BY <1>2, <2>1, <2>4, TakeLine DEF ReadCal
    <3>2. items[Here.of].ver = 2
      BY <1>2, <3>1 DEF Take, Advance, IsLine
    <3> QED
      BY <3>1, <3>2 DEF PriceInv, Accepted
  <2>5. CASE ReadTop
    <3>1. st' = <<Stats>> /\ UNCHANGED <<boot, cal, stats>> /\ Stats.ver = 0
      BY <2>5 DEF ReadTop, Stats
    <3>2. st'[1].ver = 0
      BY <3>1
    <3> QED
      BY <3>1, <3>2 DEF PriceInv, Accepted
  <2>6. CASE ReadVer
    <3> DEFINE s == IF st = <<>> THEN Stats ELSE st[1]
    <3>1. /\ s \in StatsOf(items) /\ UNCHANGED <<boot, cal, stats>>
          /\ \/ items[Here.of].ver \in Known /\ st' = <<VersionRead(s, Here.of)>>
             \/ UNCHANGED st
      BY <1>2, <2>6, VerTaken
    <3> HIDE DEF s
    <3>2. VersionRead(s, Here.of).ver = Here.of
      BY <3>1, FieldAfter
    <3>3. CASE UNCHANGED st
      BY <3>1, <3>3 DEF PriceInv, Accepted
    <3>4. CASE items[Here.of].ver \in Known /\ st' = <<VersionRead(s, Here.of)>>
      <4>1. st'[1].ver = Here.of
        BY <3>2, <3>4
      <4> QED
        BY <3>1, <3>4, <4>1 DEF PriceInv, Accepted
    <3> QED
      BY <3>1, <3>3, <3>4
  <2>7. CASE ReadRow
    <3> DEFINE s == st[1]
               k == Here.of
               i == Here.i
    <3>1. /\ st # <<>> /\ s \in StatsOf(items) /\ UNCHANGED <<boot, cal, stats>>
          /\ \/ i \in 1..Rows /\ st' = <<RowRead(s, i, k)>>
             \/ i \in 1..Rows /\ st' = <<SpanRead(s, i, k)>>
             \/ st' = <<TotalRead(s, k)>> \/ st' = <<TransRead(s, k)>>
      BY <1>2, <2>7, RowTaken
    <3> HIDE DEF s, i, k
    <3>2. i \in 1..Rows => RowRead(s, i, k).ver = s.ver /\ SpanRead(s, i, k).ver = s.ver
      BY <3>1, FieldsAfter
    <3>3. TotalRead(s, k).ver = s.ver /\ TransRead(s, k).ver = s.ver
      BY <3>1, FieldAfter
    <3>4. PICK a : st' = <<a>> /\ a.ver = s.ver
      BY <3>1, <3>2, <3>3
    <3>5. st'[1].ver = s.ver
      BY <3>4
    <3> QED
      BY <3>1, <3>5 DEF PriceInv, Accepted, s
  <2>8. CASE ReadStatsEnd
    <3>1. /\ st # <<>> /\ st' = <<>> /\ stats' = Append(stats, st[1])
          /\ UNCHANGED <<boot, cal>> /\ st[1] \in StatsOf(items) /\ stats \in Seq(StatsOf(items))
      BY <2>8 DEF ReadStatsEnd, InStats, ReaderType
    <3>2. \A j \in DOMAIN stats' : \/ st # <<>> /\ stats'[j] = st[1]
                                   \/ j \in DOMAIN stats /\ stats'[j] = stats[j]
      BY <3>1, StatsReported
    <3> QED
      BY <3>1, <3>2 DEF PriceInv, Accepted
  <2> QED
    BY <1>2, <2>2, <2>3, <2>4, <2>5, <2>6, <2>7, <2>8 DEF Take
<1>3. CASE Finish
  <2>1. CASE ring # <<>> \/ (rings = <<>> /\ stats \o st = <<>>)
    BY <1>3, <2>1 DEF Finish, Refuse, PriceInv, Accepted
  <2>2. CASE ~(ring # <<>> \/ (rings = <<>> /\ stats \o st = <<>>))
    <3>1. stats' = stats \o st /\ st' = <<>> /\ UNCHANGED <<boot, cal>>
      BY <1>3, <2>2 DEF Finish
    <3>2. \A j \in DOMAIN stats' : \/ st # <<>> /\ stats'[j] = st[1]
                                   \/ j \in DOMAIN stats /\ stats'[j] = stats[j]
      BY <3>1, StatsReported
    <3> QED
      BY <3>1, <3>2 DEF PriceInv, Accepted
  <2> QED
    BY <2>1, <2>2
<1> QED
  BY <1>1, <1>2, <1>3 DEF Moves, Stay, Miss, Skip, CutOff, Stop

\* A capture may span a reflash of the card, and lose any of its lines: a dump
\* is not corrected with a price, or swept over a bracket, of another version.
THEOREM PricesInOwnUnit == Spec => []PriceInOwnUnit
<1>1. Init => PriceInv
  BY DEF Init, PriceInv, Accepted
<1>2. CaptureInv /\ PriceInv /\ [Next]_vars => PriceInv'
  BY MovesNext, PriceInvNext DEF CaptureInv
<1>3. CaptureInv /\ PriceInv => PriceInOwnUnit
  <2> SUFFICES ASSUME CaptureInv, PriceInv, NEW j \in DOMAIN stats, stats[j].ver # 0,
                      NEW k \in {Price(stats[j]), Bracket(stats[j])}, k # 0
               PROVE  Ver(k) = Ver(stats[j].ver)
    BY DEF PriceInOwnUnit
  <2> DEFINE s == stats[j]
  <2>1. ReadAs(s) = Ver(s.ver) /\ Ver(s.ver) \in Known /\ Known \subseteq {1, 2}
    BY CaptureAssumption DEF PriceInv, Accepted, ReadAs, Ver
  <2>2. cal # 0 => Ver(cal) = 2
    BY DEF PriceInv, Ver
  <2>3. CASE k = Price(s)
    BY <2>1, <2>2, <2>3 DEF Price, OwnUnit, BootVer
  <2>4. CASE k = Bracket(s)
    <3>1. SpansUsable(s) /\ k = cal
      BY <2>4 DEF Bracket
    <3>2. Ver(s.ver) = 2
      BY <2>1, <3>1 DEF SpansUsable
    <3> QED
      BY <2>2, <3>1, <3>2
  <2> QED
    BY <2>3, <2>4
<1> QED
  BY <1>1, <1>2, <1>3, CaptureInvariance, PTL DEF Spec

----------------------------------------------------------------------------
(* Rings.                                                                  *)

\* A header of the items of c, and the samples of an open ring.
LEMMA RingFields ==
    ASSUME NEW c \in Seq(Item), NEW r \in RingOf(c)
    PROVE  /\ r.hdr.one \in 0..Len(c) /\ r.hdr.two \in 0..Len(c) /\ r.hdr.extra \in 0..Len(c)
           /\ r.samples \in Seq(Sample(c)) /\ Len(r.samples) \in Nat
           /\ DOMAIN r.samples = 1..Len(r.samples)
           /\ \A j \in DOMAIN r.samples :
                 /\ r.samples[j].of \in 1..Len(c) /\ r.samples[j].i \in Nat
                 /\ r.samples[j].i \in 1..c[r.samples[j].of].n
                 /\ c[r.samples[j].of].n \in Nat
<1>1. /\ r.hdr.one \in 0..Len(c) /\ r.hdr.two \in 0..Len(c) /\ r.hdr.extra \in 0..Len(c)
      /\ r.samples \in Seq(Sample(c))
  BY DEF RingOf, Header, Ref
<1> DEFINE s == r.samples
           T == Sample(c)
<1>2. s \in Seq(T)
  BY <1>1
<1> HIDE DEF s, T
<1>3. Len(s) \in Nat /\ DOMAIN s = 1..Len(s) /\ \A j \in DOMAIN s : s[j] \in T
  BY <1>2
<1>4. \A x \in T : /\ x.of \in 1..Len(c) /\ x.i \in Nat /\ x.i \in 1..c[x.of].n
                   /\ c[x.of].n \in Nat
  <2> TAKE x \in T
  <2>1. IsLine(c, x) /\ x.tag = "sample"
    BY DEF T, Sample
  <2>2. x.of \in 1..Len(c) /\ x.i \in Nat /\ x.i \in 1..c[x.of].n
    BY <2>1 DEF IsLine, LineT
  <2>3. c[x.of] \in Item
    BY <2>2
  <2> QED
    BY <2>2, <2>3 DEF Item
<1> QED
  BY <1>1, <1>3, <1>4 DEF s

\* Further losses change nothing of it.
LEMMA HeaderMonotone ==
    ASSUME NEW c, NEW x, NEW p, NEW l \in Nat, NEW m \in Nat, m >= l, OldHeader(c, x, p, l)
    PROVE  OldHeader(c, x, p, m)
BY DEF OldHeader

\* More losses allow what fewer allow.
LEMMA OpenRingMonotone ==
    ASSUME NEW c \in Seq(Item), NEW x, Gone(c, x) \in Nat, NEW r \in RingOf(c),
           NEW l \in Nat, NEW m \in Nat, m >= l, OpenRing(c, x, r, l)
    PROVE  OpenRing(c, x, r, m)
<1>1. Len(r.samples) \in Nat /\ r.hdr.one \in 0..Len(c)
  BY RingFields
<1>2. r.hdr.one # 0 => c[r.hdr.one].n \in Nat
  <2>1. r.hdr.one # 0 => c[r.hdr.one] \in Item
    BY <1>1
  <2> QED
    BY <2>1 DEF Item
<1>3. OwnBegin(x, r, Gone(c, x), l) => OwnBegin(x, r, Gone(c, x), m)
  BY <1>1 DEF OwnBegin
<1>4. r.hdr.one # 0 /\ LostEnd(c, r, Gone(c, x), l) => LostEnd(c, r, Gone(c, x), m)
  <2> SUFFICES ASSUME r.hdr.one # 0, LostEnd(c, r, Gone(c, x), l)
               PROVE  LostEnd(c, r, Gone(c, x), m)
    OBVIOUS
  <2> DEFINE a == c[r.hdr.one].n
             g == Gone(c, x)
             k == Len(r.samples)
  <2>1. a \in Nat /\ g \in Nat /\ k \in Nat /\ k + l >= a + 1 + g
    BY <1>1, <1>2 DEF LostEnd
  <2> HIDE DEF a, g, k
  <2>2. k + m >= a + 1 + g
    BY <2>1
  <2> QED
    BY <2>2 DEF LostEnd, a, g, k
<1>5. MixedHeader(x, r, Gone(c, x), l) => MixedHeader(x, r, Gone(c, x), m)
  BY <1>1 DEF MixedHeader
<1> QED
  BY <1>3, <1>4, <1>5 DEF OpenRing

\* The same of a reported ring.
LEMMA ReadRingMonotone ==
    ASSUME NEW c, NEW r, Len(r.samples) \in Nat, NEW l \in Nat, NEW m \in Nat, m >= l,
           ReadRing(c, r, l)
    PROVE  ReadRing(c, r, m)
BY DEF ReadRing

\* A header that nothing has taken up when the line that comes has gone by.
LEMMA OldHeaderNext ==
    ASSUME NEW c \in Seq(Item), NEW x, IsLine(c, x), NEW p \in Header(c),
           NEW l \in Nat, NEW m \in Nat, OldHeader(c, x, p, l),
           m >= l, x.tag \in {"hdr1", "hdr2", "begin"} => m >= l + 1
    PROVE  OldHeader(c, After(c, x), p, m)
<1> DEFINE y == After(c, x)
<1>1. /\ p.one \in 0..Len(c) /\ p.two \in 0..Len(c)
      /\ x.of \in 1..Len(c) /\ x.tag \in Tags
      /\ x.tag \in RingTags <=> c[x.of].kind = "ring"
  BY DEF Header, Ref, IsLine, LineT, Tags, RingTags, StatsTags, BootTags
<1>2. CASE IsLast(c, x)
  <2>1. y.of = x.of + 1 /\ y.tag \in {"hdr1", "top", "boot", "eof"}
    BY <1>2, AfterLast
  <2>2. x.tag \notin {"hdr1", "hdr2", "begin"} /\ (x.tag \in RingTags => x.tag = "end")
    BY <1>2 DEF IsLast, RingTags
  <2> HIDE DEF y
  <2>3. p.one # 0 => m >= 1 /\ p.one < y.of
    BY <1>1, <2>1, <2>2 DEF OldHeader, InDump
  <2>4. p.two # 0 => m >= 1 /\ p.two < y.of
    BY <1>1, <2>1, <2>2 DEF OldHeader, InDump
  <2>5. p.one <= y.of /\ p.two <= y.of /\ p.one # y.of /\ p.two # y.of
    BY <1>1, <2>1, <2>3, <2>4
  <2>6. OldHeader(c, y, p, m)
    BY <2>1, <2>3, <2>4, <2>5 DEF OldHeader
  <2> QED
    BY <2>6 DEF y
<1>3. CASE ~IsLast(c, x)
  <2>1. /\ y.of = x.of
        /\ x.tag = "hdr1" => y.tag = "hdr2"
        /\ x.tag = "hdr2" => y.tag = "begin"
        /\ x.tag \in {"begin", "sample"} => InDump(y)
    BY <1>3, AfterSame DEF InDump
  <2>2. x.tag \notin RingTags => y.tag \notin RingTags
    <3>1. IsLine(c, y)
      BY <1>3, AfterSame
    <3>2. y.tag \in RingTags <=> c[y.of].kind = "ring"
      BY <3>1 DEF IsLine, LineT, Tags, RingTags, StatsTags, BootTags
    <3> HIDE DEF y
    <3> QED
      BY <1>1, <2>1, <3>2
  <2> HIDE DEF y
  <2>3. /\ x.tag \notin {"hdr1", "hdr2", "begin", "sample"} => y.tag \notin RingTags
        /\ x.tag \in {"begin", "sample"} => y.tag \notin {"hdr1", "hdr2", "begin"}
    <3>1. x.tag # "end"
      BY <1>3 DEF IsLast
    <3> QED
      BY <2>1, <2>2, <3>1 DEF RingTags, InDump
  <2>4. /\ p.one # 0 /\ p.one < y.of => m >= 1 /\ (y.tag \in {"hdr2", "begin"} => m >= 2)
        /\ p.one = y.of => y.tag # "hdr1" /\ (InDump(y) => m >= 1)
    BY <1>1, <2>1, <2>3 DEF OldHeader, InDump, RingTags
  <2>5. /\ p.two # 0 /\ p.two < y.of => m >= 1 /\ (y.tag = "begin" => m >= 2)
        /\ p.two = y.of => y.tag \notin {"hdr1", "hdr2"} /\ (InDump(y) => m >= 1)
    BY <1>1, <2>1, <2>3 DEF OldHeader, InDump, RingTags
  <2>6. OldHeader(c, y, p, m)
    BY <2>1, <2>4, <2>5 DEF OldHeader
  <2> QED
    BY <2>6 DEF y
<1> QED
  BY <1>2, <1>3

\* The first line of a header, and the second.
LEMMA FirstLineRead ==
    ASSUME NEW c \in Seq(Item), NEW x, IsLine(c, x), NEW p \in Header(c), NEW l \in Nat,
           OldHeader(c, x, p, l), x.tag = "hdr1"
    PROVE  OldHeader(c, After(c, x), [p EXCEPT !.one = x.of], l)
<1> DEFINE y == After(c, x)
           q == [p EXCEPT !.one = x.of]
<1>1. y.of = x.of /\ y.tag = "hdr2"
  BY AfterSame DEF IsLast
<1>2. /\ q.one = x.of /\ q.two = p.two /\ q.extra = p.extra
      /\ x.of \in 1..Len(c) /\ c[x.of].kind = "ring" /\ p.two \in 0..Len(c)
  BY DEF Header, Ref, IsLine, LineT, RingTags
<1> HIDE DEF y, q
<1>3. OldHeader(c, y, q, l)
  BY <1>1, <1>2 DEF OldHeader, InDump
<1> QED
  BY <1>3 DEF y, q

\* The second line of a header is read.
LEMMA SecondLineRead ==
    ASSUME NEW c \in Seq(Item), NEW x, IsLine(c, x), NEW p \in Header(c), NEW l \in Nat,
           OldHeader(c, x, p, l), x.tag = "hdr2", NEW e, c[x.of].ver # 1 => e = x.of
    PROVE  OldHeader(c, After(c, x), [p EXCEPT !.two = x.of, !.extra = e], l)
<1> DEFINE y == After(c, x)
           q == [p EXCEPT !.two = x.of, !.extra = e]
<1>1. y.of = x.of /\ y.tag = "begin"
  BY AfterSame DEF IsLast
<1>2. /\ q.one = p.one /\ q.two = x.of /\ q.extra = e
      /\ x.of \in 1..Len(c) /\ c[x.of].kind = "ring" /\ p.one \in 0..Len(c)
  BY DEF Header, Ref, IsLine, LineT, RingTags
<1> HIDE DEF y, q
<1>3. OldHeader(c, y, q, l)
  BY <1>1, <1>2 DEF OldHeader, InDump
<1> QED
  BY <1>3 DEF y, q

\* No header is no old header.
LEMMA NoOldHeader ==
    ASSUME NEW c \in Seq(Item), NEW x, NEW l, x.of \in Nat \ {0}
    PROVE  OldHeader(c, x, NoHeader, l)
BY DEF OldHeader, NoHeader

\* The line that comes goes by, and the open ring does not take it.
LEMMA OpenRingMiss ==
    ASSUME NEW c \in Seq(Item), NEW x, IsLine(c, x), NEW r \in RingOf(c),
           NEW l \in Nat, NEW m \in Nat, OpenRing(c, x, r, l), m >= l, InDump(x) => m = l + 1
    PROVE  OpenRing(c, After(c, x), r, m)
<1> DEFINE y == After(c, x)
           s == r.samples
           k == Len(s)
           g == Gone(c, x)
           d == Gone(c, y)
           a == c[r.hdr.one].n
<1>1. /\ k \in Nat /\ DOMAIN s = 1..k
      /\ \A j \in DOMAIN s : /\ s[j].of \in 1..Len(c) /\ s[j].i \in Nat
                             /\ s[j].i \in 1..c[s[j].of].n /\ c[s[j].of].n \in Nat
      /\ r.hdr.one \in 1..Len(c) /\ a \in Nat
  <2>1. r.hdr.one \in 1..Len(c)
    BY RingFields DEF OpenRing
  <2>2. c[r.hdr.one] \in Item
    BY <2>1
  <2> QED
    BY <2>1, <2>2, RingFields DEF Item
<1>2. /\ x.of \in 1..Len(c) /\ x.tag \in Tags
      /\ g \in Nat /\ d \in Nat /\ (~InDump(x) => g = 0)
      /\ x.tag = "sample" => d = g + 1
      /\ x.tag # "sample" => d = 0
      /\ x.tag = "end" => g = c[x.of].n
  BY GoneAfter DEF IsLine, LineT
<1>3. \/ y.of = x.of /\ x.tag # "end" /\ (x.tag = "sample" => InDump(y))
      \/ y.of = x.of + 1 /\ x.tag # "sample"
  BY AfterSame, AfterLast DEF IsLast, InDump
<1>4. /\ Ordered(x, s, g)
      /\ OwnBegin(x, r, g, l) \/ LostEnd(c, r, g, l) \/ MixedHeader(x, r, g, l)
      /\ HeaderOfOne(c, r.hdr) \/ l >= 2
  BY DEF OpenRing
<1>5. /\ \A j \in DOMAIN s : /\ s[j].of <= x.of
                             /\ s[j].of = x.of => InDump(x) /\ s[j].i + (k - j) <= g
      /\ (\A j \in DOMAIN s : s[j].of = x.of) => \A j \in DOMAIN s : j <= s[j].i
  BY <1>4 DEF Ordered
<1>6. /\ OwnBegin(x, r, g, l) =>
            /\ InDump(x) /\ \A j \in DOMAIN s : s[j].of = x.of
            /\ r.hdr.one = x.of => k + l >= g
            /\ r.hdr.one # x.of => l >= 2 /\ k + l >= g + 2
      /\ LostEnd(c, r, g, l) => k + l >= a + 1 + g
      /\ MixedHeader(x, r, g, l) =>
            /\ k + l >= 3 + g /\ l >= 3
            /\ (\E j \in DOMAIN s : s[j].of # x.of) => k + l >= 4 + g
  BY DEF OwnBegin, LostEnd, MixedHeader
<1>7. InDump(x) <=> x.tag \in {"sample", "end"}
  BY DEF InDump
<1>8. r.hdr.one = x.of => a = c[x.of].n
  OBVIOUS
<1> HIDE DEF y, s, k, g, d, a
<1>9. Ordered(y, s, d)
  <2>1. CASE y.of = x.of
    <3>1. ASSUME NEW j \in DOMAIN s, s[j].of = y.of PROVE InDump(y) /\ s[j].i + (k - j) <= d
      <4>1. InDump(x) /\ s[j].i + (k - j) <= g /\ j \in Nat
        BY <1>1, <1>5, <2>1, <3>1
      <4>2. x.tag = "sample" /\ d = g + 1 /\ InDump(y)
        BY <1>2, <1>3, <1>7, <2>1, <4>1
      <4> QED
        BY <1>1, <1>2, <4>1, <4>2
    <3> QED
      BY <1>5, <2>1, <3>1 DEF Ordered, k
  <2>2. CASE y.of = x.of + 1
    <3>1. \A j \in DOMAIN s : s[j].of <= y.of /\ s[j].of # y.of
      BY <1>1, <1>2, <1>5, <2>2
    <3> QED
      BY <3>1 DEF Ordered
  <2> QED
    BY <1>3, <2>1, <2>2
<1>10. OwnBegin(y, r, d, m) \/ LostEnd(c, r, d, m) \/ MixedHeader(y, r, d, m)
  <2>1. CASE OwnBegin(x, r, g, l)
    <3>1. CASE x.tag = "sample"
      <4>1. /\ InDump(y) /\ \A j \in DOMAIN s : s[j].of = y.of
            /\ r.hdr.one = y.of => k + m >= d
            /\ r.hdr.one # y.of => m >= 2 /\ k + m >= d + 2
        BY <1>1, <1>2, <1>3, <1>6, <1>7, <2>1, <3>1
      <4> QED
        BY <4>1 DEF OwnBegin, s, k
    <3>2. CASE x.tag = "end" /\ r.hdr.one = x.of
      <4>1. k + m >= a + 1 + d
        BY <1>1, <1>2, <1>6, <1>7, <1>8, <2>1, <3>2
      <4> QED
        BY <4>1 DEF LostEnd, s, k, a
    <3>3. CASE x.tag = "end" /\ r.hdr.one # x.of
      <4>1. k + m >= 3 + d /\ m >= 3
        BY <1>1, <1>2, <1>6, <1>7, <2>1, <3>3
      <4>2. ASSUME NEW j \in DOMAIN s PROVE k + m >= 4 + d
        <5>1. s[j].of = x.of /\ g >= 1
          BY <1>1, <1>2, <1>6, <2>1, <3>3
        <5> QED
          BY <1>1, <1>2, <1>6, <1>7, <2>1, <3>3, <5>1
      <4> QED
        BY <4>1, <4>2 DEF MixedHeader, s, k
    <3> QED
      BY <1>6, <1>7, <2>1, <3>1, <3>2, <3>3
  <2>2. m - l >= d - g
    BY <1>2, <1>7
  <2>3. CASE LostEnd(c, r, g, l)
    <3>1. k + m >= a + 1 + d
      BY <1>1, <1>2, <1>6, <2>2, <2>3
    <3> QED
      BY <3>1 DEF LostEnd, s, k, a
  <2>4. CASE MixedHeader(x, r, g, l)
    <3>1. k + m >= 3 + d /\ m >= 3
      BY <1>1, <1>2, <1>6, <2>2, <2>4
    <3>2. ASSUME NEW j \in DOMAIN s, s[j].of # y.of PROVE k + m >= 4 + d
      <4>1. CASE s[j].of # x.of
        BY <1>1, <1>2, <1>6, <2>2, <2>4, <4>1
      <4>2. CASE s[j].of = x.of
        <5>1. x.tag = "end" /\ d = 0
          BY <1>2, <1>3, <1>5, <1>7, <3>2, <4>2
        <5>2. g >= 1 /\ m = l + 1
          BY <1>1, <1>2, <1>7, <4>2, <5>1
        <5> QED
          BY <1>1, <1>2, <1>6, <2>4, <5>1, <5>2
      <4> QED
        BY <4>1, <4>2
    <3> QED
      BY <3>1, <3>2 DEF MixedHeader, s, k
  <2> QED
    BY <1>4, <2>1, <2>3, <2>4
<1>11. HeaderOfOne(c, r.hdr) \/ m >= 2
  BY <1>4
<1> QED
  BY <1>1, <1>9, <1>10, <1>11 DEF OpenRing, y, s, d

\* The open ring takes a sample.
LEMMA OpenRingSample ==
    ASSUME NEW c \in Seq(Item), NEW x, IsLine(c, x), NEW r \in RingOf(c),
           NEW l \in Nat, OpenRing(c, x, r, l), x.tag = "sample"
    PROVE  OpenRing(c, After(c, x), [r EXCEPT !.samples = Append(@, x)], l)
<1> DEFINE y == After(c, x)
           s == r.samples
           k == Len(s)
           g == Gone(c, x)
           d == Gone(c, y)
           a == c[r.hdr.one].n
           u == Append(s, x)
           q == [r EXCEPT !.samples = u]
<1>1. /\ k \in Nat /\ DOMAIN s = 1..k /\ s \in Seq(Sample(c))
      /\ \A j \in DOMAIN s : /\ s[j].of \in 1..Len(c) /\ s[j].i \in Nat
      /\ r.hdr.one \in 1..Len(c) /\ a \in Nat
  <2>1. r.hdr.one \in 1..Len(c)
    BY RingFields DEF OpenRing
  <2>2. c[r.hdr.one] \in Item
    BY <2>1
  <2> QED
    BY <2>1, <2>2, RingFields DEF Item
<1>2. /\ x.of \in 1..Len(c) /\ x.i \in Nat
      /\ g \in Nat /\ d = g + 1 /\ x.i = g + 1
  BY GoneAfter DEF IsLine, LineT
<1>3. y.of = x.of /\ InDump(y)
  BY AfterSame DEF IsLast, InDump
<1>4. /\ Ordered(x, s, g)
      /\ OwnBegin(x, r, g, l) \/ LostEnd(c, r, g, l) \/ MixedHeader(x, r, g, l)
      /\ HeaderOfOne(c, r.hdr) \/ l >= 2
  BY DEF OpenRing
<1>5. /\ \A j \in DOMAIN s : /\ s[j].of <= x.of
                             /\ s[j].of = x.of => InDump(x) /\ s[j].i + (k - j) <= g
      /\ (\A j \in DOMAIN s : s[j].of = x.of) => \A j \in DOMAIN s : j <= s[j].i
  BY <1>4 DEF Ordered
<1>6. /\ OwnBegin(x, r, g, l) =>
            /\ \A j \in DOMAIN s : s[j].of = x.of
            /\ r.hdr.one = x.of => k + l >= g
            /\ r.hdr.one # x.of => l >= 2 /\ k + l >= g + 2
      /\ LostEnd(c, r, g, l) => k + l >= a + 1 + g
      /\ MixedHeader(x, r, g, l) =>
            /\ k + l >= 3 + g /\ l >= 3
            /\ (\E j \in DOMAIN s : s[j].of # x.of) => k + l >= 4 + g
  BY DEF OwnBegin, LostEnd, MixedHeader
<1>7. q.hdr = r.hdr /\ q.samples = u
  BY DEF RingOf
<1>8. /\ Len(u) = k + 1 /\ DOMAIN u = 1..k + 1 /\ u[k + 1] = x
      /\ \A j \in DOMAIN s : u[j] = s[j]
      /\ \A j \in DOMAIN u : j \in DOMAIN s \/ j = k + 1
  <2>1. x \in Sample(c)
    BY DEF Sample, IsLine, LineT
  <2> DEFINE T == Sample(c)
  <2>2. s \in Seq(T) /\ x \in T
    BY <1>1, <2>1
  <2> HIDE DEF T, s
  <2> QED
    BY <1>1, <2>2
<1> HIDE DEF y, s, k, g, d, a, u, q
<1>9. Ordered(y, u, d)
  <2>1. ASSUME NEW j \in DOMAIN u
        PROVE  u[j].of <= y.of /\ (u[j].of = y.of => u[j].i + (Len(u) - j) <= d)
    <3>1. CASE j \in DOMAIN s
      <4>1. u[j] = s[j] /\ j \in Nat /\ s[j].of <= x.of
        BY <1>1, <1>5, <1>8, <3>1
      <4>2. s[j].of = x.of => s[j].i + (k - j) <= g
        BY <1>5, <3>1
      <4> QED
        BY <1>1, <1>2, <1>3, <1>8, <3>1, <4>1, <4>2
    <3>2. CASE j = k + 1
      BY <1>1, <1>2, <1>3, <1>8, <3>2
    <3> QED
      BY <1>8, <3>1, <3>2
  <2>2. ASSUME \A j \in DOMAIN u : u[j].of = y.of, NEW j \in DOMAIN u PROVE j <= u[j].i
    <3>1. \A i \in DOMAIN s : s[i].of = x.of /\ i <= s[i].i
      <4>1. \A i \in DOMAIN s : i \in DOMAIN u /\ u[i] = s[i]
        BY <1>1, <1>8
      <4> QED
        BY <1>3, <1>5, <2>2, <4>1
    <3>2. CASE j \in DOMAIN s
      BY <1>8, <3>1, <3>2
    <3>3. CASE j = k + 1
      <4>1. k <= g
        <5>1. CASE k = 0
          BY <1>2, <5>1
        <5>2. CASE k # 0
          <6>1. k \in DOMAIN s
            BY <1>1, <5>2
          <6>2. s[k].i + (k - k) <= g /\ k <= s[k].i /\ s[k].i \in Nat
            BY <1>1, <1>5, <3>1, <6>1
          <6> QED
            BY <1>1, <1>2, <6>2
        <5> QED
          BY <5>1, <5>2
      <4> QED
        BY <1>1, <1>2, <1>8, <3>3, <4>1
    <3> QED
      BY <1>8, <3>2, <3>3
  <2> QED
    BY <1>3, <2>1, <2>2 DEF Ordered
<1>10. OwnBegin(y, q, d, l) \/ LostEnd(c, q, d, l) \/ MixedHeader(y, q, d, l)
  <2>1. CASE OwnBegin(x, r, g, l)
    <3>1. \A j \in DOMAIN u : u[j].of = y.of
      BY <1>3, <1>6, <1>8, <2>1
    <3>2. /\ r.hdr.one = y.of => Len(u) + l >= d
          /\ r.hdr.one # y.of => l >= 2 /\ Len(u) + l >= d + 2
      BY <1>1, <1>2, <1>3, <1>6, <1>8, <2>1
    <3> QED
      BY <1>3, <1>7, <3>1, <3>2 DEF OwnBegin
  <2>2. CASE LostEnd(c, r, g, l)
    <3>1. Len(u) + l >= a + 1 + d
      BY <1>1, <1>2, <1>6, <1>8, <2>2
    <3> QED
      BY <1>7, <3>1 DEF LostEnd, a
  <2>3. CASE MixedHeader(x, r, g, l)
    <3>1. Len(u) + l >= 3 + d /\ l >= 3
      BY <1>1, <1>2, <1>6, <1>8, <2>3
    <3>2. ASSUME NEW j \in DOMAIN u, u[j].of # y.of PROVE Len(u) + l >= 4 + d
      <4>1. j \in DOMAIN s /\ s[j].of # x.of
        BY <1>3, <1>8, <3>2
      <4> QED
        BY <1>1, <1>2, <1>6, <1>8, <2>3, <4>1
    <3> QED
      BY <1>7, <3>1, <3>2 DEF MixedHeader
  <2> QED
    BY <1>4, <2>1, <2>2, <2>3
<1> QED
  BY <1>1, <1>4, <1>7, <1>9, <1>10 DEF OpenRing, y, d, u, q, s

\* The begin of a ring is read: the header taken up is the last one read.
LEMMA BeginRead ==
    ASSUME NEW c \in Seq(Item), NEW x, IsLine(c, x), NEW p \in Header(c), NEW l \in Nat,
           OldHeader(c, x, p, l), x.tag = "begin", p.one # 0, p.two # 0
    PROVE  OpenRing(c, After(c, x), Ring(p), l)
<1> DEFINE y == After(c, x)
           r == Ring(p)
<1>1. y.of = x.of /\ InDump(y) /\ Gone(c, y) = 0
  BY AfterSame, GoneAfter DEF IsLast, InDump
<1>2. /\ r.hdr = p /\ r.samples = <<>> /\ Len(r.samples) = 0 /\ DOMAIN r.samples = {}
      /\ p.one \in 1..Len(c) /\ p.two \in 1..Len(c) /\ x.of \in 1..Len(c)
  BY DEF Ring, Header, Ref, IsLine, LineT
<1> HIDE DEF y, r
<1>3. /\ p.one <= x.of /\ p.two <= x.of
      /\ p.one < x.of => l >= 2
      /\ p.two < x.of => l >= 2
      /\ c[p.two].ver # 1 => p.extra = p.two
  BY <1>2 DEF OldHeader
<1>4. OwnBegin(y, r, 0, l)
  BY <1>1, <1>2, <1>3 DEF OwnBegin
<1>5. HeaderOfOne(c, p) \/ l >= 2
  <2>1. CASE p.one = p.two
    BY <1>3, <2>1 DEF HeaderOfOne
  <2>2. CASE p.one # p.two
    BY <1>2, <1>3, <2>2
  <2> QED
    BY <2>1, <2>2
<1>6. Ordered(y, r.samples, 0)
  BY <1>2 DEF Ordered
<1>7. OpenRing(c, y, r, l)
  BY <1>1, <1>2, <1>4, <1>5, <1>6 DEF OpenRing
<1> QED
  BY <1>7 DEF y, r

\* The end of a ring is read, and the three counts agree.
LEMMA RingClosing ==
    ASSUME NEW c \in Seq(Item), NEW x, IsLine(c, x), NEW r \in RingOf(c), NEW l \in Nat,
           OpenRing(c, x, r, l), x.tag = "end",
           c[x.of].n = c[r.hdr.one].n, Len(r.samples) = c[x.of].n
    PROVE  ReadRing(c, r, l)
<1> DEFINE s == r.samples
           k == Len(s)
           g == Gone(c, x)
<1>1. /\ k \in Nat /\ DOMAIN s = 1..k /\ g = k
      /\ \A j \in DOMAIN s : s[j].of \in 1..Len(c) /\ s[j].i \in Nat
      /\ c[x.of].n = k /\ c[r.hdr.one].n = k
  BY RingFields, GoneAfter
<1>2. /\ Ordered(x, s, g)
      /\ OwnBegin(x, r, g, l) \/ LostEnd(c, r, g, l) \/ MixedHeader(x, r, g, l)
      /\ HeaderOfOne(c, r.hdr) \/ l >= 2
  BY DEF OpenRing
<1>3. /\ \A j \in DOMAIN s : s[j].of = x.of => s[j].i + (k - j) <= g
      /\ (\A j \in DOMAIN s : s[j].of = x.of) => \A j \in DOMAIN s : j <= s[j].i
  BY <1>2 DEF Ordered
<1>4. /\ OwnBegin(x, r, g, l) => /\ \A j \in DOMAIN s : s[j].of = x.of
                                 /\ r.hdr.one # x.of => l >= 2
      /\ LostEnd(c, r, g, l) => k + l >= k + 1 + g
      /\ MixedHeader(x, r, g, l) =>
            /\ l >= 3
            /\ (\E j \in DOMAIN s : s[j].of # x.of) => k + l >= 4 + g
  BY <1>1 DEF OwnBegin, LostEnd, MixedHeader
<1> HIDE DEF s, k, g
<1>5. LostEnd(c, r, g, l) => l >= k + 1
  BY <1>1, <1>4
<1>6. ASSUME l <= k, l < 4 PROVE OneDump(c, s)
  <2>1. \A j \in DOMAIN s : s[j].of = x.of
    <3>1. CASE OwnBegin(x, r, g, l)
      BY <1>4, <3>1
    <3>2. CASE MixedHeader(x, r, g, l)
      BY <1>1, <1>4, <1>6, <3>2
    <3> QED
      BY <1>1, <1>2, <1>5, <1>6, <3>1, <3>2
  <2>2. ASSUME NEW j \in DOMAIN s PROVE s[j].i = j
    <3>1. s[j].i + (k - j) <= g /\ j <= s[j].i /\ s[j].i \in Nat /\ j \in Nat
      BY <1>1, <1>3, <2>1
    <3> QED
      BY <1>1, <3>1
  <2>3. s # <<>> => 1 \in DOMAIN s
    <3>1. s \in Seq(Sample(c))
      BY RingFields DEF s
    <3> QED
      BY <1>1, <3>1, EmptySeq DEF k
  <2>4. \A j \in DOMAIN s : 1 \in DOMAIN s
    BY <1>1
  <2> QED
    BY <1>1, <2>1, <2>2, <2>3, <2>4 DEF OneDump, k
<1>7. ASSUME l <= 1
      PROVE  HeaderOfOne(c, r.hdr) /\ \A i \in DOMAIN s : s[i].of = r.hdr.one
  <2>1. HeaderOfOne(c, r.hdr)
    BY <1>2, <1>7
  <2>2. CASE OwnBegin(x, r, g, l)
    BY <1>4, <1>7, <2>1, <2>2
  <2>3. CASE LostEnd(c, r, g, l)
    <3>1. DOMAIN s = {}
      BY <1>1, <1>5, <1>7, <2>3
    <3> QED
      BY <2>1, <3>1
  <2> QED
    BY <1>2, <1>4, <1>7, <2>2, <2>3
<1> QED
  BY <1>6, <1>7 DEF ReadRing, s, k

\* The line that comes goes by, and neither the header that was read nor the
\* open ring takes it.
LEMMA RingsAtMiss ==
    ASSUME NEW c \in Seq(Item), NEW x, IsLine(c, x), NEW p \in Header(c), NEW g,
           g # <<>> => g[1] \in RingOf(c),
           NEW l \in Nat, NEW m \in Nat, RingsAt(c, x, p, g, l), m >= l,
           g = <<>> /\ x.tag \in {"hdr1", "hdr2", "begin"} => m >= l + 1,
           g # <<>> /\ InDump(x) => m = l + 1
    PROVE  RingsAt(c, After(c, x), p, g, m)
<1>1. OldHeader(c, x, p, l)
  BY DEF RingsAt
<1>2. After(c, x).of \in Nat \ {0}
  <2>1. x.of \in 1..Len(c)
    BY DEF IsLine, LineT
  <2> QED
    BY <2>1, AfterSame, AfterLast
<1>3. CASE g = <<>>
  <2>1. OldHeader(c, After(c, x), p, m)
    BY <1>1, <1>3, OldHeaderNext
  <2> QED
    BY <1>3, <2>1 DEF RingsAt
<1>4. CASE g # <<>>
  <2>1. p = NoHeader /\ OpenRing(c, x, g[1], l) /\ g[1] \in RingOf(c)
    BY <1>4 DEF RingsAt
  <2>2. OpenRing(c, After(c, x), g[1], m)
    BY <1>4, <2>1, OpenRingMiss
  <2>3. OldHeader(c, After(c, x), p, m)
    BY <1>2, <2>1, NoOldHeader
  <2> QED
    BY <2>1, <2>2, <2>3 DEF RingsAt
<1> QED
  BY <1>3, <1>4

\* What is reported when a ring is appended to those reported.
LEMMA RingsAppended ==
    ASSUME CaptureInv, ring # <<>>
    PROVE  /\ Len(rings) \in Nat /\ DOMAIN rings = 1..Len(rings)
           /\ DOMAIN Append(rings, ring[1]) = 1..Len(rings) + 1
           /\ \A j \in 1..Len(rings) : Append(rings, ring[1])[j] = rings[j]
           /\ Append(rings, ring[1])[Len(rings) + 1] = ring[1]
<1> DEFINE T == RingOf(items)
           r == ring[1]
<1>1. rings \in Seq(T) /\ r \in T
  BY DEF CaptureInv, ReaderType
<1> HIDE DEF T, r
<1>2. /\ Len(rings) \in Nat /\ DOMAIN rings = 1..Len(rings)
      /\ DOMAIN Append(rings, r) = 1..Len(rings) + 1
      /\ \A j \in 1..Len(rings) : Append(rings, r)[j] = rings[j]
      /\ Append(rings, r)[Len(rings) + 1] = r
  BY <1>1
<1> QED
  BY <1>2 DEF r

\* The line that comes is not the end of the capture.
LEMMA LineNotEof ==
    ASSUME NEW c, NEW x, IsLine(c, x)
    PROVE  x.tag # "eof" /\ x.tag \in Tags
BY DEF IsLine, LineT, Tags, RingTags, StatsTags, BootTags

\* Losses are only counted up.
LEMMA LostGrows ==
    ASSUME CaptureInv, Moves
    PROVE  lost \in Nat /\ eaten \in Nat /\ lost' \in Nat /\ eaten' \in Nat
              /\ lost' >= lost /\ eaten' >= eaten
<1>1. lost \in Nat /\ eaten \in Nat /\ (wire # <<>> => Len(wire) \in Nat)
  BY DEF CaptureInv, ChainInv, Wired
<1> QED
  BY <1>1 DEF Moves, Stay, Miss, Skip, CutOff, Take, Stop, Advance

\* The line that comes is a line, or the end of the capture.
LEMMA HereIsLine == ChainInv => IsLine(items, Here) \/ Here = Eof(items)
<1> SUFFICES ASSUME ChainInv PROVE IsLine(items, Here) \/ Here = Eof(items)
  OBVIOUS
<1>1. Segment(items, Body(wire), Here, Eof(items))
  BY DEF ChainInv, Wired, Here
<1>2. CASE Body(wire) = <<>>
  BY <1>2 DEF Here, Coming
<1>3. CASE Body(wire) # <<>>
  <2>1. Body(wire)[1] = Here /\ Body(wire) \in Seq(LineT(items))
    BY <1>1, <1>3 DEF Segment
  <2>2. 1 \in 1..Len(Body(wire))
    <3> DEFINE b == Body(wire)
               T == LineT(items)
    <3>1. b \in Seq(T) /\ b # <<>>
      BY <1>3, <2>1
    <3> HIDE DEF b, T
    <3> QED
      BY <3>1 DEF b
  <2> QED
    BY <1>1, <2>1, <2>2 DEF Segment
<1> QED
  BY <1>2, <1>3

\* Every step keeps what the open ring and the reported ones took.
LEMMA RingInvNext ==
    ASSUME CaptureInv, RingInv, items' = items, Moves
    PROVE  RingInv'
<1> DEFINE c == items
           x == Here
<1> USE DEF CaptureInv
<1>1. /\ c \in Seq(Item) /\ pending \in Header(c) /\ (ring # <<>> => ring[1] \in RingOf(c))
      /\ lost \in Nat /\ lost' \in Nat /\ lost' >= lost
      /\ \A j \in DOMAIN rings : rings[j] \in RingOf(c)
  BY CaptureAssumption, LostGrows DEF ChainInv, ReaderType
<1>2. \A j \in DOMAIN rings : ReadRing(c, rings[j], lost')
  <2> TAKE j \in DOMAIN rings
  <2>1. Len(rings[j].samples) \in Nat /\ ReadRing(c, rings[j], lost)
    BY <1>1, RingFields DEF RingInv
  <2> QED
    BY <1>1, <2>1, ReadRingMonotone
<1>3. Advance => IsLine(c, x) /\ Here' = After(c, x) /\ RingsAt(c, x, pending, ring, lost)
  <2> SUFFICES ASSUME Advance
               PROVE  IsLine(c, x) /\ Here' = After(c, x) /\ RingsAt(c, x, pending, ring, lost)
    OBVIOUS
  <2>1. IsLine(c, x) /\ Here' = After(c, x) /\ outcome = "reading"
    BY DEF Advance
  <2>2. x.tag # "eof"
    BY <2>1, LineNotEof
  <2> QED
    BY <2>1, <2>2 DEF RingInv
<1>4. Advance => After(c, x).of \in Nat \ {0}
  <2>1. Advance => x.of \in 1..Len(c)
    BY DEF Advance, IsLine, LineT
  <2> QED
    BY <1>1, <1>3, <2>1, AfterSame, AfterLast
<1>5. ASSUME Advance, UNCHANGED reader,
             ring = <<>> /\ x.tag \in {"hdr1", "hdr2", "begin"} => lost' >= lost + 1,
             ring # <<>> /\ InDump(x) => lost' = lost + 1
      PROVE  RingInv'
  <2> HIDE DEF c, x, Advance
  <2>1. RingsAt(c, After(c, x), pending, ring, lost')
    BY <1>1, <1>3, <1>5, RingsAtMiss
  <2>2. RingsAt(c, Here', pending, ring, lost')
    BY <1>3, <1>5, <2>1
  <2> QED
    BY <1>2, <1>5, <2>2 DEF RingInv, reader, c
<1>6. CASE Stay
  <2>1. Here' = x /\ UNCHANGED reader
    BY <1>6 DEF Stay
  <2>2. ASSUME outcome = "reading", x.tag # "eof"
        PROVE  RingsAt(c, x, pending, ring, lost')
    <3>1. RingsAt(c, x, pending, ring, lost)
      BY <2>2 DEF RingInv
    <3>2. IsLine(c, x)
      <4>1. x # Eof(c)
        BY <2>2 DEF Eof, Line
      <4> QED
        BY <4>1, HereIsLine
    <3>3. Gone(c, x) \in Nat
      BY <1>1, <3>2, GoneAfter
    <3> HIDE DEF c, x
    <3>4. OldHeader(c, x, pending, lost')
      BY <1>1, <3>1, HeaderMonotone DEF RingsAt
    <3>5. ring # <<>> => pending = NoHeader /\ OpenRing(c, x, ring[1], lost')
      BY <1>1, <3>1, <3>3, OpenRingMonotone DEF RingsAt
    <3> QED
      BY <3>4, <3>5 DEF RingsAt
  <2> QED
    BY <1>2, <2>1, <2>2 DEF RingInv, reader
<1>7. CASE Miss
  <2>1. Advance /\ UNCHANGED reader /\ (lost' = lost + 1 \/ x.tag = "top")
    BY <1>7 DEF Miss
  <2> QED
    BY <1>1, <1>5, <2>1 DEF InDump
<1>8. CASE Skip
  <2>1. /\ Advance /\ UNCHANGED reader
        /\ ring # <<>> => ~InDump(x)
        /\ ring = <<>> => x.tag \notin {"hdr1", "hdr2", "begin"}
    BY <1>8 DEF Skip, InDump, StatsTags
  <2> QED
    BY <1>5, <2>1
<1>9. CASE CutOff
  <2>1. Here'.tag = "eof" /\ UNCHANGED reader
    BY <1>9 DEF CutOff, Eof, Line
  <2> QED
    BY <1>2, <2>1 DEF RingInv, reader
<1>10. CASE Stop
  <2>1. Here'.tag = "eof" /\ UNCHANGED rings
    BY <1>10 DEF Stop, Finish, Refuse
  <2> QED
    BY <1>2, <2>1 DEF RingInv
<1>11. CASE Take
  <2>1. Advance /\ lost' = lost /\ outcome = "reading"
    BY <1>11 DEF Take, Advance
\* A line of no ring leaves them as they are.
  <2>2. CASE ReadBoot \/ ReadCal \/ ReadTop \/ ReadVer \/ ReadRow \/ ReadStatsEnd
    <3>1. UNCHANGED <<ring, pending, rings>> /\ ring = <<>>
      BY <2>2
         DEF ReadBoot, ReadCal, ReadTop, ReadVer, ReadRow, ReadStatsEnd, Reading, InStats, Refuse
    <3>2. x.tag \notin {"hdr1", "hdr2", "begin"}
      BY <1>11, <2>2, TakeLine
    <3> HIDE DEF c, x, Advance
    <3>3. RingsAt(c, After(c, x), pending, ring, lost')
      BY <1>1, <1>3, <2>1, <3>1, <3>2, RingsAtMiss
    <3>4. RingsAt(c, Here', pending, ring, lost')
      BY <1>3, <2>1, <3>3
    <3> QED
      BY <1>2, <3>1, <3>4 DEF RingInv, c
\* The reader gives up.
  <2>3. CASE outcome' = "error" /\ UNCHANGED rings
    BY <1>2, <2>3 DEF RingInv
  <2>4. CASE ReadSample
    <3> DEFINE r == ring[1]
               q == [r EXCEPT !.samples = Append(@, x)]
    <3>1. /\ ring # <<>> /\ ring' = <<q>> /\ UNCHANGED <<pending, rings>>
          /\ x.tag = "sample"
      BY <1>11, <2>4, TakeLine DEF ReadSample
    <3>2. ring'[1] = q /\ ring' # <<>>
      BY <3>1
    <3> HIDE DEF c, x, Advance
    <3>3. pending = NoHeader /\ OpenRing(c, x, r, lost) /\ r \in RingOf(c)
      BY <1>1, <1>3, <2>1, <3>1 DEF RingsAt
    <3>4. OpenRing(c, After(c, x), q, lost)
      <4> HIDE DEF r
      <4> QED
        BY <1>1, <1>3, <2>1, <3>1, <3>3, OpenRingSample
    <3>5. OldHeader(c, After(c, x), pending, lost)
      BY <1>1, <1>4, <1>3, <2>1, <3>3, NoOldHeader
    <3>6. RingsAt(c, Here', pending', ring', lost')
      <4> HIDE DEF q, r
      <4> QED
        BY <1>3, <2>1, <3>1, <3>2, <3>3, <3>4, <3>5 DEF RingsAt
    <3> QED
      BY <1>2, <3>1, <3>6 DEF RingInv, c
  <2>5. CASE ReadEnd /\ outcome' # "error"
    <3> DEFINE r == ring[1]
    <3>1. /\ ring # <<>> /\ ring' = <<>> /\ rings' = Append(rings, r)
          /\ UNCHANGED <<pending>> /\ RingCloses(r, items[Head(wire).of].n)
          /\ x = Head(wire) /\ x.tag = "end"
      BY <1>11, <2>5, TakeLine DEF ReadEnd, Refuse
    <3>2. c[x.of].n = c[r.hdr.one].n /\ Len(r.samples) = c[x.of].n
      BY <3>1 DEF RingCloses
    <3> HIDE DEF c, x, Advance
    <3>3. pending = NoHeader /\ OpenRing(c, x, r, lost) /\ r \in RingOf(c)
      BY <1>1, <1>3, <2>1, <3>1 DEF RingsAt
    <3>4. ReadRing(c, r, lost)
      <4> HIDE DEF r
      <4> QED
        BY <1>1, <1>3, <2>1, <3>1, <3>2, <3>3, RingClosing
    <3>5. OldHeader(c, After(c, x), pending, lost)
      BY <1>1, <1>4, <1>3, <2>1, <3>3, NoOldHeader
    <3>6. RingsAt(c, Here', pending', ring', lost')
      BY <1>3, <2>1, <3>1, <3>5 DEF RingsAt
    <3>7. \A j \in DOMAIN rings' : ReadRing(c, rings'[j], lost')
      <4>1. /\ Len(rings) \in Nat /\ DOMAIN rings = 1..Len(rings)
            /\ DOMAIN rings' = 1..Len(rings) + 1
            /\ \A j \in 1..Len(rings) : rings'[j] = rings[j]
            /\ rings'[Len(rings) + 1] = r
        BY <3>1, RingsAppended
      <4>2. \A j \in DOMAIN rings' : j \in 1..Len(rings) \/ j = Len(rings) + 1
        BY <4>1
      <4> QED
        BY <1>2, <2>1, <3>4, <4>1, <4>2
    <3> QED
      BY <3>6, <3>7 DEF RingInv, c
  <2>6. CASE ReadHdr
    <3> DEFINE k == x.of
               e == IF Ver(k) = 1 THEN pending.extra ELSE k
    <3>1. /\ ring = <<>> /\ UNCHANGED <<ring, rings>>
          /\ \/ x.tag = "hdr1" /\ pending' = [pending EXCEPT !.one = k]
             \/ x.tag = "hdr2" /\ pending' = [pending EXCEPT !.two = k, !.extra = e]
      <4>1. x.of = Head(wire).of
        BY <1>11, TakeLine
      <4>2. \/ HdrLine(Head(wire).tag) = 1 /\ x.tag = "hdr1"
            \/ HdrLine(Head(wire).tag) = 2 /\ x.tag = "hdr2"
        BY <1>11, <2>6, TakeLine
      <4> QED
        BY <2>6, <4>1, <4>2 DEF ReadHdr
    <3>2. c[k].ver # 1 => e = k
      BY DEF Ver
    <3> HIDE DEF c, x, Advance, e
    <3>3. OldHeader(c, x, pending, lost)
      BY <1>3, <2>1 DEF RingsAt
    <3>4. OldHeader(c, After(c, x), pending', lost)
      <4>1. IsLine(c, x)
        BY <1>3, <2>1
      <4>2. CASE x.tag = "hdr1" /\ pending' = [pending EXCEPT !.one = k]
        BY <1>1, <3>3, <4>1, <4>2, FirstLineRead
      <4>3. CASE x.tag = "hdr2" /\ pending' = [pending EXCEPT !.two = k, !.extra = e]
        BY <1>1, <3>2, <3>3, <4>1, <4>3, SecondLineRead
      <4> QED
        BY <3>1, <4>2, <4>3
    <3>5. RingsAt(c, Here', pending', ring', lost')
      BY <1>3, <2>1, <3>1, <3>4 DEF RingsAt
    <3> QED
      BY <1>2, <3>1, <3>5 DEF RingInv, c
  <2>7. CASE ReadBegin /\ outcome' # "error"
    <3>1. /\ HeaderComplete(pending) /\ ring' = <<Ring(pending)>> /\ pending' = NoHeader
          /\ UNCHANGED rings /\ x.tag = "begin"
      BY <1>11, <2>7, TakeLine DEF ReadBegin, Refuse, PendingAfter
    <3>2. ring'[1] = Ring(pending) /\ pending.one # 0 /\ pending.two # 0
      BY <3>1 DEF HeaderComplete
    <3> HIDE DEF c, x, Advance
    <3>3. OldHeader(c, x, pending, lost)
      BY <1>3, <2>1 DEF RingsAt
    <3>4. OpenRing(c, After(c, x), Ring(pending), lost)
      BY <1>1, <1>3, <2>1, <3>1, <3>2, <3>3, BeginRead
    <3>5. OldHeader(c, After(c, x), NoHeader, lost)
      BY <1>1, <1>3, <1>4, <2>1, NoOldHeader
    <3>6. RingsAt(c, Here', pending', ring', lost')
      BY <1>3, <2>1, <3>1, <3>2, <3>4, <3>5 DEF RingsAt
    <3> QED
      BY <1>2, <3>1, <3>6 DEF RingInv, c
  <2>8. \/ outcome' # "error"
        \/ ~(ReadEnd \/ ReadBegin) \/ UNCHANGED rings
    BY <2>1 DEF ReadEnd, ReadBegin, Refuse
  <2>9. MalformedSample => outcome' = "error" /\ UNCHANGED rings
    BY DEF MalformedSample, Refuse
  <2> QED
    BY <1>11, <2>2, <2>3, <2>4, <2>5, <2>6, <2>7, <2>8, <2>9 DEF Take
<1> QED
  BY <1>6, <1>7, <1>8, <1>9, <1>10, <1>11 DEF Moves

\* What it took to open a ring is true of every state.
LEMMA RingInvariance == Spec => []RingInv
<1>1. Init => RingInv
  <2> SUFFICES ASSUME Init PROVE RingInv
    OBVIOUS
  <2>1. CaptureInv /\ items \in Seq(Item)
    BY CaptureAssumption, ChainInit, ReaderTypeInit DEF CaptureInv, Init
  <2>2. Here.tag # "eof" => Here.of \in Nat \ {0}
    <3>1. IsLine(items, Here) \/ Here = Eof(items)
      BY <2>1, HereIsLine DEF CaptureInv
    <3> QED
      BY <3>1 DEF IsLine, LineT, Eof, Line
  <2>3. pending = NoHeader /\ ring = <<>> /\ DOMAIN rings = {}
    BY DEF Init
  <2>4. Here.tag # "eof" => OldHeader(items, Here, NoHeader, lost)
    BY <2>1, <2>2, NoOldHeader
  <2> HIDE DEF Here
  <2>5. Here.tag # "eof" => RingsAt(items, Here, pending, ring, lost)
    BY <2>3, <2>4 DEF RingsAt
  <2> QED
    BY <2>3, <2>5 DEF RingInv
<1>2. CaptureInv /\ RingInv /\ [Next]_vars => RingInv'
  BY MovesNext, RingInvNext DEF CaptureInv
<1> QED
  BY <1>1, <1>2, CaptureInvariance, PTL DEF Spec

\* A ring that is reported holds the samples of one dump, all of them and in
\* their order, unless the three counts of _close_ring agree by chance.
THEOREM RingsAreOneDump == Spec => []SamplesOfOneDump
<1>1. RingInv => SamplesOfOneDump
  BY DEF RingInv, ReadRing, OneDump, SamplesOfOneDump
<1> QED
  BY <1>1, RingInvariance, PTL

----------------------------------------------------------------------------
(* Stats dumps.                                                            *)

\* The fields of a stats dump are those of K, one by one.
LEMMA FieldsWithin ==
    ASSUME NEW s, NEW K
    PROVE  Fields(s) \subseteq K <=>
              /\ s.ver \in K /\ s.shape \in K /\ s.total \in K /\ s.trans \in K
              /\ \A i \in 1..Rows : s.rows[i] \in K
              /\ \A i \in 1..Rows : s.spans[i] \in K
BY DEF Fields

\* A stats dump that is filled in with lines of k is of k.
LEMMA FieldsFilled ==
    ASSUME NEW c \in Seq(Item), NEW k, NEW s \in StatsOf(c), Fields(s) \subseteq {0, k}
    PROVE  /\ Fields(TotalRead(s, k)) \subseteq {0, k}
           /\ Fields(TransRead(s, k)) \subseteq {0, k}
           /\ Fields(VersionRead(s, k)) \subseteq {0, k}
           /\ \A i \in 1..Rows : /\ Fields(RowRead(s, i, k)) \subseteq {0, k}
                                 /\ Fields(SpanRead(s, i, k)) \subseteq {0, k}
<1> DEFINE K == {0, k}
<1>1. k \in K
  OBVIOUS
<1> HIDE DEF K
<1>2. /\ s.ver \in K /\ s.shape \in K /\ s.total \in K /\ s.trans \in K
      /\ \A i \in 1..Rows : s.rows[i] \in K
      /\ \A i \in 1..Rows : s.spans[i] \in K
  BY FieldsWithin DEF K
<1>3. Fields(TotalRead(s, k)) \subseteq K
  BY <1>1, <1>2, FieldsWithin, FieldAfter
<1>4. Fields(TransRead(s, k)) \subseteq K
  BY <1>1, <1>2, FieldsWithin, FieldAfter
<1>5. Fields(VersionRead(s, k)) \subseteq K
  BY <1>1, <1>2, FieldsWithin, FieldAfter
<1>6. ASSUME NEW i \in 1..Rows
      PROVE  Fields(RowRead(s, i, k)) \subseteq K /\ Fields(SpanRead(s, i, k)) \subseteq K
  <2> DEFINE a == RowRead(s, i, k)
             b == SpanRead(s, i, k)
  <2>1. /\ a.ver \in K /\ a.shape \in K /\ a.total \in K /\ a.trans \in K
        /\ \A m \in 1..Rows : a.rows[m] \in K
        /\ a.spans = s.spans
    BY <1>1, <1>2, FieldsAfter
  <2>2. /\ b.ver \in K /\ b.shape \in K /\ b.total \in K /\ b.trans \in K
        /\ \A m \in 1..Rows : b.spans[m] \in K
        /\ b.rows = s.rows
    BY <1>1, <1>2, FieldsAfter
  <2> HIDE DEF a, b
  <2>3. Fields(a) \subseteq K /\ Fields(b) \subseteq K
    BY <1>2, <2>1, <2>2, FieldsWithin
  <2> QED
    BY <2>3 DEF a, b
<1> QED
  BY <1>3, <1>4, <1>5, <1>6 DEF K

\* A stats dump of which nothing was read is of any item.
LEMMA FieldsEmpty == \A k : Fields(Stats) \subseteq {0, k}
<1>1. /\ Stats.ver = 0 /\ Stats.shape = 0 /\ Stats.total = 0 /\ Stats.trans = 0
      /\ \A i \in 1..Rows : Stats.rows[i] = 0
      /\ \A i \in 1..Rows : Stats.spans[i] = 0
  BY DEF Stats, NoRows
<1> TAKE k
<1> DEFINE K == {0, k}
<1>2. 0 \in K
  OBVIOUS
<1> HIDE DEF K
<1>3. Fields(Stats) \subseteq K
  BY <1>1, <1>2, FieldsWithin
<1> QED
  BY <1>3 DEF K

\* Where a line of a stats dump is followed by one of the same.
LEMMA AfterTopNext ==
    ASSUME NEW c \in Seq(Item), NEW x, IsLine(c, x)
    PROVE  /\ x.tag \in AfterTop \ {"statsend"} =>
                 After(c, x).of = x.of /\ After(c, x).tag \in AfterTop
           /\ x.tag = "top" => After(c, x).of = x.of /\ After(c, x).tag \in AfterTop
           /\ x.tag = "statsend" =>
                 After(c, x).of = x.of + 1 /\ After(c, x).tag \notin AfterTop
           /\ x.tag \notin StatsTags =>
                 /\ After(c, x).of \in {x.of, x.of + 1}
                 /\ After(c, x).tag \notin AfterTop
           /\ x.tag = "begin" => After(c, x).of = x.of /\ InDump(After(c, x))
           /\ x.tag = "sample" => After(c, x).of = x.of /\ InDump(After(c, x))
           /\ x.tag = "end" => After(c, x).of = x.of + 1 /\ After(c, x).tag \notin AfterTop
<1> DEFINE y == After(c, x)
<1>1. x.tag \in Tags
  BY DEF IsLine, LineT
<1>2. CASE IsLast(c, x)
  <2>1. y.of = x.of + 1 /\ y.tag \in {"hdr1", "top", "boot", "eof"}
    BY <1>2, AfterLast
  <2>2. x.tag \in {"end", "statsend", "cal", "boot"}
    BY <1>2 DEF IsLast
  <2> HIDE DEF y
  <2>3. y.tag \notin AfterTop
    BY <2>1 DEF AfterTop, StatsTags
  <2> QED
    BY <2>1, <2>2, <2>3 DEF AfterTop, StatsTags, y
<1>3. CASE ~IsLast(c, x)
  <2>1. y.of = x.of /\ x.tag \notin {"end", "statsend", "cal"}
    BY <1>3, AfterSame DEF IsLast
  <2>2. x.tag \in StatsTags => y.tag \in AfterTop
    BY <1>3, <2>1, AfterSame DEF AfterTop, StatsTags
  <2>3. x.tag \in {"begin", "sample"} => InDump(y)
    BY <1>3, AfterSame DEF InDump
  <2>4. x.tag \in {"hdr1", "hdr2", "boot"} => y.tag \in {"hdr2", "begin", "cal"}
    BY <1>3, AfterSame
  <2> HIDE DEF y
  <2>5. x.tag \notin StatsTags => y.tag \notin AfterTop
    BY <1>1, <2>1, <2>3, <2>4
       DEF Tags, RingTags, StatsTags, BootTags, AfterTop, InDump
  <2> QED
    BY <2>1, <2>2, <2>3, <2>5 DEF AfterTop, StatsTags, y
<1> QED
  BY <1>2, <1>3

\* The line that comes goes by, and one more fault with it.
LEMMA OfOneDumpMiss ==
    ASSUME NEW c \in Seq(Item), NEW x, IsLine(c, x), NEW s, NEW open \in BOOLEAN,
           NEW l \in Nat, NEW m \in Nat, m >= l + 1, OfOneDump(c, x, s, open, l)
    PROVE  OfOneDump(c, After(c, x), s, open, m)
<1> DEFINE y == After(c, x)
<1>1. CASE l >= 1
  BY <1>1 DEF OfOneDump
<1>2. CASE l = 0
  <2>1. PICK k \in 1..Len(c) : Fields(s) \subseteq {0, k} /\ x.of = k /\ x.tag \in AfterTop /\ ~open
    BY <1>2 DEF OfOneDump
  <2>2. \/ y.of = k /\ y.tag \in AfterTop
        \/ y.of = k + 1 /\ y.tag \notin AfterTop
    BY <2>1, AfterTopNext
  <2> HIDE DEF y
  <2>3. OfOneDump(c, y, s, open, m)
    BY <1>2, <2>1, <2>2 DEF OfOneDump
  <2> QED
    BY <2>3 DEF y
<1> QED
  BY <1>1, <1>2

\* The line that comes is passed over, or a ring opens, goes on or closes.
LEMMA OfOneDumpPass ==
    ASSUME NEW c \in Seq(Item), NEW x, IsLine(c, x), NEW s, NEW open \in BOOLEAN,
           NEW after \in BOOLEAN, NEW l \in Nat, OfOneDump(c, x, s, open, l),
           \/ ~open /\ ~after /\ x.tag \notin StatsTags
           \/ ~open /\ after /\ x.tag = "begin"
           \/ open /\ after /\ x.tag = "sample"
           \/ open /\ ~after /\ x.tag = "end"
           \/ open /\ ~InDump(x)
    PROVE  OfOneDump(c, After(c, x), s, after, l)
<1> DEFINE y == After(c, x)
<1>1. CASE l >= 2
  BY <1>1 DEF OfOneDump
<1>2. CASE ~(l >= 2)
  <2>1. PICK k \in 1..Len(c) :
           /\ Fields(s) \subseteq {0, k}
           /\ \/ x.of = k /\ x.tag \in AfterTop /\ ~open
              \/ x.of > k /\ x.tag \notin AfterTop /\ ~open /\ l >= 1
              \/ x.of > k /\ InDump(x) /\ open /\ l >= 1
    BY <1>2 DEF OfOneDump
  <2>2. AfterTop \subseteq StatsTags /\ "begin" \notin AfterTop
    BY DEF AfterTop, StatsTags
  <2>3. x.of > k /\ l >= 1 /\ x.of \in 1..Len(c)
    BY <2>1, <2>2 DEF IsLine, LineT
  <2>4. \/ ~after /\ y.of \in {x.of, x.of + 1} /\ y.tag \notin AfterTop
        \/ after /\ y.of = x.of /\ InDump(y)
    BY <2>1, AfterTopNext
  <2> HIDE DEF y
  <2>5. y.of > k
    BY <2>3, <2>4
  <2>6. OfOneDump(c, y, s, after, l)
    BY <2>1, <2>3, <2>4, <2>5 DEF OfOneDump
  <2> QED
    BY <2>6 DEF y
<1> QED
  BY <1>1, <1>2

\* A line of the dump is read, or the first line of the next.
LEMMA OfOneDumpRead ==
    ASSUME NEW c \in Seq(Item), NEW x, IsLine(c, x), NEW s, NEW t, NEW l \in Nat,
           Fields(s) \subseteq {0, x.of} => Fields(t) \subseteq {0, x.of},
           \/ Fields(t) \subseteq {0, x.of}
           \/ OfOneDump(c, x, s, FALSE, l) /\ x.tag # "top",
           x.tag \in StatsTags \ {"statsend"}
    PROVE  OfOneDump(c, After(c, x), t, FALSE, l)
<1> DEFINE y == After(c, x)
<1>1. CASE l >= 2
  BY <1>1 DEF OfOneDump
<1>2. CASE ~(l >= 2)
  <2>1. x.of \in 1..Len(c)
    BY DEF IsLine, LineT
  <2>2. Fields(t) \subseteq {0, x.of}
    <3>1. CASE OfOneDump(c, x, s, FALSE, l) /\ x.tag # "top"
      <4>1. x.tag \in AfterTop /\ ~InDump(x)
        BY <3>1 DEF AfterTop, StatsTags, InDump
      <4>2. Fields(s) \subseteq {0, x.of}
        BY <1>2, <3>1, <4>1 DEF OfOneDump
      <4> QED
        BY <4>2
    <3> QED
      BY <3>1
  <2>3. y.of = x.of /\ y.tag \in AfterTop
    BY AfterTopNext DEF AfterTop
  <2> HIDE DEF y
  <2>4. OfOneDump(c, y, t, FALSE, l)
    BY <2>1, <2>2, <2>3 DEF OfOneDump
  <2> QED
    BY <2>4 DEF y
<1> QED
  BY <1>1, <1>2

\* The capture is cut off.
LEMMA OfOneDumpCut ==
    ASSUME NEW c \in Seq(Item), NEW x, IsLine(c, x) \/ x = Eof(c), NEW s,
           NEW open \in BOOLEAN, NEW l \in Nat, NEW m \in Nat, m >= l + 1,
           OfOneDump(c, x, s, open, l)
    PROVE  OfOneDump(c, Eof(c), s, open, m)
<1>1. CASE l >= 1
  BY <1>1 DEF OfOneDump
<1>2. CASE l = 0
  <2>1. PICK k \in 1..Len(c) : Fields(s) \subseteq {0, k} /\ ~open
    BY <1>2 DEF OfOneDump
  <2>2. Eof(c).of > k /\ Eof(c).tag \notin AfterTop
    BY <2>1 DEF Eof, Line, AfterTop, StatsTags
  <2>3. m >= 1
    BY <1>2
  <2> QED
    BY <2>1, <2>2, <2>3 DEF OfOneDump
<1> QED
  BY <1>1, <1>2

\* More faults allow what fewer allow.
LEMMA OfOneDumpMonotone ==
    ASSUME NEW c, NEW x, NEW s, NEW open \in BOOLEAN, NEW l \in Nat, NEW m \in Nat, m >= l,
           OfOneDump(c, x, s, open, l)
    PROVE  OfOneDump(c, x, s, open, m)
<1>1. CASE l >= 2
  BY <1>1 DEF OfOneDump
<1>2. CASE ~(l >= 2)
  <2>1. PICK k \in 1..Len(c) :
           /\ Fields(s) \subseteq {0, k}
           /\ \/ x.of = k /\ x.tag \in AfterTop /\ ~open
              \/ x.of > k /\ x.tag \notin AfterTop /\ ~open /\ l >= 1
              \/ x.of > k /\ InDump(x) /\ open /\ l >= 1
    BY <1>2 DEF OfOneDump
  <2>2. l >= 1 => m >= 1
    OBVIOUS
  <2> QED
    BY <2>1, <2>2 DEF OfOneDump
<1> QED
  BY <1>1, <1>2

\* Every step keeps an open stats dump one dump's, but for two faults.
LEMMA StatsInvNext ==
    ASSUME CaptureInv, StatsInv, items' = items, Moves
    PROVE  StatsInv'
<1> DEFINE c == items
           x == Here
           F == lost + eaten
           G == lost' + eaten'
           open == ring # <<>>
           Of(s) == \E k \in DOMAIN items : Fields(s) \subseteq {0, k}
           Opened == outcome' = "reading" /\ st' # <<>> =>
                         OfOneDump(c, Here', st'[1], ring' # <<>>, G)
<1> USE DEF CaptureInv
<1>1. /\ c \in Seq(Item) /\ DOMAIN c = 1..Len(c) /\ (st # <<>> => st[1] \in StatsOf(c))
      /\ F \in Nat /\ G \in Nat /\ G >= F /\ open \in BOOLEAN /\ (ring' # <<>>) \in BOOLEAN
      /\ lost \in Nat /\ eaten \in Nat
  BY CaptureAssumption, LostGrows DEF ChainInv, ReaderType
<1>2. /\ G <= 1 => \A j \in DOMAIN stats : Of(stats[j])
      /\ outcome = "reading" /\ st # <<>> => OfOneDump(c, x, st[1], open, F)
  <2>1. F <= 1 => \A j \in DOMAIN stats : OneStats(stats[j])
    BY DEF StatsInv
  <2>2. \A s : OneStats(s) => Of(s)
    BY DEF OneStats, Fields
  <2>3. G <= 1 => F <= 1
    BY <1>1
  <2> QED
    BY <2>1, <2>2, <2>3 DEF StatsInv
<1>3. ASSUME Opened, stats' = stats \/ (G <= 1 => \A j \in DOMAIN stats' : Of(stats'[j]))
      PROVE  StatsInv'
  <2>1. G <= 1 => \A j \in DOMAIN stats' : Of(stats'[j])
    BY <1>2, <1>3
  <2>2. ASSUME G <= 1, NEW j \in DOMAIN stats' PROVE OneStats(stats[j])'
    <3>1. Of(stats'[j])
      BY <2>1, <2>2
    <3> QED
      BY <3>1 DEF OneStats, Fields
  <2> QED
    BY <1>3, <2>2 DEF StatsInv
<1>4. ASSUME G <= 1, G = F, outcome = "reading", st # <<>> PROVE Of(st[1])
  BY <1>1, <1>2, <1>4 DEF OfOneDump
<1>5. Advance => IsLine(c, x) /\ Here' = After(c, x) /\ outcome = "reading"
  BY DEF Advance
<1>6. CASE Stay
  <2>1. Here' = x /\ UNCHANGED reader
    BY <1>6 DEF Stay
  <2> HIDE DEF c, x, F, G, open, Of
  <2>2. Opened
    BY <1>1, <1>2, <2>1, OfOneDumpMonotone DEF reader, open
  <2> QED
    BY <1>3, <2>1, <2>2 DEF reader
<1>7. CASE Miss
  <2>1. Advance /\ UNCHANGED reader /\ G >= F + 1
    BY <1>1, <1>7 DEF Miss
  <2> HIDE DEF c, x, F, G, open, Of, Advance
  <2>2. Opened
    BY <1>1, <1>2, <1>5, <2>1, OfOneDumpMiss DEF reader, open
  <2> QED
    BY <1>3, <2>1, <2>2 DEF reader
<1>8. CASE Skip
  <2>1. /\ Advance /\ UNCHANGED reader /\ G = F
        /\ st # <<>> => \/ open /\ ~InDump(x)
                        \/ ~open /\ x.tag \notin StatsTags
    BY <1>8 DEF Skip, InDump, StatsTags
  <2> HIDE DEF c, x, F, G, open, Of, Advance
  <2>2. Opened
    BY <1>1, <1>2, <1>5, <2>1, OfOneDumpPass DEF reader, open
  <2> QED
    BY <1>3, <2>1, <2>2 DEF reader
<1>9. CASE CutOff
  <2>1. Here' = Eof(c) /\ UNCHANGED reader /\ outcome = "reading"
    BY <1>9 DEF CutOff
  <2>2. G >= F + 1
    <3>1. Len(wire) \in Nat \ {0} /\ lost' = lost + Len(wire) /\ eaten' = eaten
      BY <1>9 DEF CutOff, ChainInv, Wired
    <3> QED
      BY <1>1, <3>1
  <2>3. IsLine(c, x) \/ x = Eof(c)
    BY HereIsLine
  <2> HIDE DEF c, x, F, G, open, Of
  <2>4. Opened
    BY <1>1, <1>2, <2>1, <2>2, <2>3, OfOneDumpCut DEF reader, open
  <2> QED
    BY <1>3, <2>1, <2>4 DEF reader
<1>10. CASE Stop
  <2>1. outcome' # "reading" /\ G = F /\ outcome = "reading"
    BY <1>10 DEF Stop, Finish, Refuse
  <2>2. CASE stats' = stats
    BY <1>3, <2>1, <2>2
  <2>3. CASE stats' = stats \o st
    <3>1. \A j \in DOMAIN stats' : \/ st # <<>> /\ stats'[j] = st[1]
                                   \/ j \in DOMAIN stats /\ stats'[j] = stats[j]
      BY <2>3, StatsReported
    <3> HIDE DEF c, x, F, G, open, Of
    <3>2. G <= 1 => \A j \in DOMAIN stats' : Of(stats'[j])
      BY <1>2, <1>4, <2>1, <3>1
    <3> QED
      BY <1>3, <2>1, <3>2
  <2> QED
    BY <1>10, <2>2, <2>3 DEF Stop, Finish, Refuse
<1>11. CASE Take
  <2>1. Advance /\ G = F /\ outcome = "reading"
    BY <1>11 DEF Take, Advance
\* The reader gives up.
  <2>2. CASE outcome' = "error" /\ UNCHANGED stats
    BY <1>3, <2>2
\* A line of another item.
  <2>3. CASE ReadBoot \/ ReadCal \/ ReadHdr
    <3>1. UNCHANGED <<ring, st, stats>> /\ ring = <<>>
      BY <2>3 DEF ReadBoot, ReadCal, ReadHdr, Reading, Refuse
    <3>2. x.tag \notin StatsTags
      BY <1>11, <2>3, TakeLine DEF StatsTags
    <3> HIDE DEF c, x, F, G, open, Of, Advance
    <3>3. Opened
      BY <1>1, <1>2, <1>5, <2>1, <3>1, <3>2, OfOneDumpPass DEF open
    <3> QED
      BY <1>3, <3>1, <3>3
\* A ring.
  <2>4. CASE ReadSample
    <3>1. ring # <<>> /\ ring' # <<>> /\ UNCHANGED <<st, stats>> /\ x.tag = "sample"
      BY <1>11, <2>4, TakeLine DEF ReadSample
    <3> HIDE DEF c, x, F, G, open, Of, Advance
    <3>2. Opened
      BY <1>1, <1>2, <1>5, <2>1, <3>1, OfOneDumpPass DEF open
    <3> QED
      BY <1>3, <3>1, <3>2
  <2>5. CASE ReadEnd /\ outcome' # "error"
    <3>1. ring # <<>> /\ ring' = <<>> /\ UNCHANGED <<st, stats>> /\ x.tag = "end"
      BY <1>11, <2>5, TakeLine DEF ReadEnd, Refuse
    <3> HIDE DEF c, x, F, G, open, Of, Advance
    <3>2. Opened
      BY <1>1, <1>2, <1>5, <2>1, <3>1, OfOneDumpPass DEF open
    <3> QED
      BY <1>3, <3>1, <3>2
  <2>6. CASE ReadBegin /\ outcome' # "error"
    <3>1. ring = <<>> /\ ring' # <<>> /\ UNCHANGED <<st, stats>> /\ x.tag = "begin"
      BY <1>11, <2>6, TakeLine DEF ReadBegin, Refuse
    <3> HIDE DEF c, x, F, G, open, Of, Advance
    <3>2. Opened
      BY <1>1, <1>2, <1>5, <2>1, <3>1, OfOneDumpPass DEF open
    <3> QED
      BY <1>3, <3>1, <3>2
\* A stats dump.
  <2>7. CASE ReadTop
    <3>1. st' = <<Stats>> /\ UNCHANGED <<ring, stats>> /\ ring = <<>> /\ x.tag = "top"
      BY <1>11, <2>7, TakeLine DEF ReadTop
    <3>2. st'[1] = Stats /\ x.tag \in StatsTags \ {"statsend"}
      BY <3>1 DEF StatsTags
    <3> HIDE DEF c, x, F, G, open, Of, Advance
    <3>3. Fields(Stats) \subseteq {0, x.of}
      BY FieldsEmpty
    <3>4. OfOneDump(c, After(c, x), Stats, FALSE, F)
      BY <1>1, <1>5, <2>1, <3>2, <3>3, OfOneDumpRead
    <3>5. Opened
      BY <1>5, <2>1, <3>1, <3>2, <3>4
    <3> QED
      BY <1>3, <3>1, <3>5
  <2>8. CASE ReadVer /\ outcome' # "error"
    <3> DEFINE s == IF st = <<>> THEN Stats ELSE st[1]
               t == VersionRead(s, x.of)
    <3>1. /\ s \in StatsOf(c) /\ UNCHANGED <<ring, stats>> /\ ring = <<>> /\ x.tag = "ver"
          /\ st' = <<t>>
      BY <1>11, <2>8, VerTaken
    <3>2. st'[1] = t /\ x.tag \in StatsTags \ {"statsend"} /\ x.tag # "top"
      BY <3>1 DEF StatsTags
    <3>3. st = <<>> => Fields(s) \subseteq {0, x.of}
      BY FieldsEmpty
    <3>4. st # <<>> => OfOneDump(c, x, s, FALSE, F)
      BY <1>2, <2>1, <3>1
    <3> HIDE DEF c, x, F, G, open, Of, Advance
    <3>5. Fields(s) \subseteq {0, x.of} => Fields(t) \subseteq {0, x.of}
      <4> HIDE DEF s
      <4> QED
        BY <1>1, <3>1, FieldsFilled
    <3> HIDE DEF s, t
    <3>6. OfOneDump(c, After(c, x), t, FALSE, F)
      BY <1>1, <1>5, <2>1, <3>2, <3>3, <3>4, <3>5, OfOneDumpRead
    <3>7. Opened
      BY <1>5, <2>1, <3>1, <3>2, <3>6
    <3> QED
      BY <1>3, <3>1, <3>7
  <2>9. CASE ReadRow
    <3> DEFINE s == st[1]
               k == x.of
               i == x.i
    <3>1. /\ st # <<>> /\ s \in StatsOf(c) /\ UNCHANGED <<ring, stats>> /\ ring = <<>>
          /\ \/ i \in 1..Rows /\ st' = <<RowRead(s, i, k)>>
             \/ i \in 1..Rows /\ st' = <<SpanRead(s, i, k)>>
             \/ st' = <<TotalRead(s, k)>>
             \/ st' = <<TransRead(s, k)>>
      BY <1>11, <2>9, RowTaken
    <3>2. x.tag \in StatsTags \ {"statsend"} /\ x.tag # "top"
      BY <1>11, <2>9, RowTaken DEF StatsTags
    <3>3. OfOneDump(c, x, s, FALSE, F)
      BY <1>2, <2>1, <3>1
    <3> HIDE DEF c, x, F, G, open, Of, Advance, s, k, i
    <3>4. PICK t : st' = <<t>> /\ (Fields(s) \subseteq {0, k} => Fields(t) \subseteq {0, k})
      BY <1>1, <3>1, FieldsFilled
    <3>5. st'[1] = t
      BY <3>4
    <3>6. OfOneDump(c, After(c, x), t, FALSE, F)
      BY <1>1, <1>5, <2>1, <3>2, <3>3, <3>4, OfOneDumpRead DEF k
    <3>7. Opened
      BY <1>5, <2>1, <3>1, <3>5, <3>6
    <3> QED
      BY <1>3, <3>1, <3>7
  <2>10. CASE ReadStatsEnd
    <3>1. st # <<>> /\ st' = <<>> /\ stats' = Append(stats, st[1])
      BY <2>10 DEF ReadStatsEnd, InStats
    <3>2. \A j \in DOMAIN stats' : \/ st # <<>> /\ stats'[j] = st[1]
                                   \/ j \in DOMAIN stats /\ stats'[j] = stats[j]
      BY <3>1, StatsReported
    <3> HIDE DEF c, x, F, G, open, Of, Advance
    <3>3. G <= 1 => \A j \in DOMAIN stats' : Of(stats'[j])
      BY <1>2, <1>4, <2>1, <3>2
    <3> QED
      BY <1>3, <3>1, <3>3
  <2>11. /\ (ReadEnd \/ ReadBegin \/ ReadVer) /\ outcome' = "error" => UNCHANGED stats
         /\ MalformedSample => outcome' = "error" /\ UNCHANGED stats
    BY <2>1 DEF ReadEnd, ReadBegin, ReadVer, MalformedSample, Refuse
  <2> QED
    BY <1>11, <2>2, <2>3, <2>4, <2>5, <2>6, <2>7, <2>8, <2>9, <2>10, <2>11 DEF Take
<1> QED
  BY <1>6, <1>7, <1>8, <1>9, <1>10, <1>11 DEF Moves

\* One fault never mixes two dumps: neither the header and the samples of a
\* ring, nor the fields of a stats dump.
THEOREM OneFaultMixesNone == Spec => []OneFaultNeverMixes
<1>1. Init => StatsInv
  BY DEF Init, StatsInv
<1>2. CaptureInv /\ StatsInv /\ [Next]_vars => StatsInv'
  BY MovesNext, StatsInvNext DEF CaptureInv
<1>3. CaptureInv /\ RingInv /\ StatsInv => OneFaultNeverMixes
  <2> SUFFICES ASSUME CaptureInv, RingInv, StatsInv, lost + eaten <= 1
               PROVE  /\ \A j \in DOMAIN rings : OneRing(rings[j])
                      /\ \A j \in DOMAIN stats : OneStats(stats[j])
    BY DEF OneFaultNeverMixes
  <2>1. lost <= 1
    BY DEF CaptureInv, ChainInv
  <2>2. \A j \in DOMAIN rings : OneRing(rings[j])
    BY <2>1 DEF RingInv, ReadRing, HeaderOfOne, OneRing, Ver
  <2> QED
    BY <2>2 DEF StatsInv
<1> QED
  BY <1>1, <1>2, <1>3, CaptureInvariance, RingInvariance, PTL DEF Spec

----------------------------------------------------------------------------
(* The spans of a stats dump.                                              *)

\* A chain that goes on to the end of the capture has the lines it goes by.
LEMMA SegmentLonger ==
    ASSUME NEW c \in Seq(Item), NEW s, NEW a, Segment(c, s, a, Eof(c)), IsLine(c, a)
    PROVE  /\ s # <<>> /\ Segment(c, Tail(s), After(c, a), Eof(c))
           /\ Len(s) \in Nat /\ Len(Tail(s)) \in Nat /\ Len(s) = Len(Tail(s)) + 1
<1>1. a # Eof(c)
  <2>1. a.tag \in Tags
    BY DEF IsLine, LineT
  <2> QED
    BY <2>1 DEF Eof, Line, Tags, RingTags, StatsTags, BootTags
<1>2. s # <<>> /\ s \in Seq(LineT(c))
  BY <1>1 DEF Segment
<1>3. Segment(c, Tail(s), After(c, a), Eof(c))
  BY <1>2, SegmentTail
<1> DEFINE T == LineT(c)
<1>4. s \in Seq(T) /\ s # <<>>
  BY <1>2
<1> HIDE DEF T
<1>5. Len(s) \in Nat /\ Len(Tail(s)) \in Nat /\ Len(s) = Len(Tail(s)) + 1
  BY <1>4
<1> QED
  BY <1>2, <1>3, <1>5

\* The lines that a capture still has when a line of a stats dump comes.
LEMMA LinesLeft ==
    ASSUME NEW c \in Seq(Item), NEW w, Wired(c, w), NEW x, x = Coming(c, w), IsLine(c, x)
    PROVE  /\ Len(w) \in Nat /\ Len(w) >= 1
           /\ x.tag = "trans" => Len(w) >= 2
           /\ x.tag \in {"span", "spantotal"} => Len(w) >= 3
<1> DEFINE b == Body(w)
<1>1. Len(w) \in Nat /\ Len(b) \in Nat /\ Len(w) >= Len(b)
  <2>1. w \in Seq(WireT(c))
    BY DEF Wired
  <2>2. /\ Firmware(w) \in Seq(WireT(c)) /\ Len(Firmware(w)) \in Nat
        /\ Len(w) \in Nat /\ Len(w) >= Len(Firmware(w))
    BY <2>1 DEF Firmware
  <2>3. Len(b) = Len(Firmware(w))
    BY <2>2, CleanedSeq DEF Body
  <2> QED
    BY <2>2, <2>3
<1>2. Segment(c, b, x, Eof(c))
  BY DEF Wired
<1> HIDE DEF b
<1> DEFINE y == After(c, x)
           z == After(c, y)
<1>3. Len(b) >= 1 /\ Len(b) = Len(Tail(b)) + 1 /\ Segment(c, Tail(b), y, Eof(c))
  BY <1>2, SegmentLonger
<1>4. ~IsLast(c, x) => /\ IsLine(c, y) /\ Len(Tail(b)) = Len(Tail(Tail(b))) + 1
                       /\ Len(Tail(Tail(b))) \in Nat /\ Segment(c, Tail(Tail(b)), z, Eof(c))
  <2> SUFFICES ASSUME ~IsLast(c, x)
               PROVE  /\ IsLine(c, y) /\ Len(Tail(b)) = Len(Tail(Tail(b))) + 1
                      /\ Len(Tail(Tail(b))) \in Nat /\ Segment(c, Tail(Tail(b)), z, Eof(c))
    OBVIOUS
  <2>1. IsLine(c, y)
    BY AfterSame
  <2> HIDE DEF y
  <2> QED
    BY <1>3, <2>1, SegmentLonger DEF z
<1>5. ~IsLast(c, x) /\ ~IsLast(c, y) => Len(Tail(Tail(b))) >= 1
  <2> SUFFICES ASSUME ~IsLast(c, x), ~IsLast(c, y) PROVE Len(Tail(Tail(b))) >= 1
    OBVIOUS
  <2> HIDE DEF y
  <2>1. IsLine(c, z)
    BY <1>4, AfterSame DEF z
  <2> DEFINE u == Tail(Tail(b))
  <2>2. Segment(c, u, z, Eof(c))
    BY <1>4
  <2> HIDE DEF z, u
  <2>3. Len(u) = Len(Tail(u)) + 1 /\ Len(Tail(u)) \in Nat
    BY <2>1, <2>2, SegmentLonger
  <2>4. Len(u) >= 1
    BY <2>3
  <2> QED
    BY <2>4 DEF u
<1>6. x.tag = "trans" => ~IsLast(c, x)
  BY DEF IsLast
<1>7. x.tag \in {"span", "spantotal"} => ~IsLast(c, x) /\ ~IsLast(c, y)
  <2>1. x.tag \in {"span", "spantotal"} => ~IsLast(c, x)
    BY DEF IsLast
  <2>2. x.tag \in {"span", "spantotal"} => y.tag \in {"span", "spantotal", "trans"}
    BY <2>1, AfterSame
  <2> HIDE DEF y
  <2> QED
    BY <2>1, <2>2 DEF IsLast
<1> HIDE DEF y, z
<1> QED
  BY <1>1, <1>3, <1>4, <1>5, <1>6, <1>7

\* Which lines come before the rows of the spans.
LEMMA BeforeSpans ==
    ASSUME NEW c \in Seq(Item), NEW x, IsLine(c, x)
    PROVE  /\ x.of \in 1..Len(c) /\ x.i \in Nat
           /\ x.tag = "span" => x.i \in 1..Rows /\ After(c, x).of = x.of
           /\ After(c, x).tag = "span" =>
                 \/ After(c, x).i = 1 /\ x.tag \notin SpanTags
                 \/ x.tag = "span" /\ After(c, x).i = x.i + 1
           /\ After(c, x).tag = "spantotal" => x.tag = "span" /\ x.i = Rows
           /\ x.tag = "span" => After(c, x).tag \in {"span", "spantotal"}
           /\ x.tag = "spantotal" => After(c, x).tag = "trans"
           /\ x.tag = "trans" => After(c, x).tag = "statsend"
<1>1. x.tag \in Tags /\ x.of \in 1..Len(c) /\ x.i \in Nat /\ (x.tag = "span" => x.i \in 1..Rows)
  BY DEF IsLine, LineT
<1>2. CASE IsLast(c, x)
  <2>1. After(c, x).tag \in {"hdr1", "top", "boot", "eof"}
    BY <1>2, AfterLast
  <2> QED
    BY <1>1, <1>2, <2>1 DEF IsLast
<1>3. CASE ~IsLast(c, x)
  <2>1. x.tag \in {"hdr1", "hdr2", "begin", "sample", "top", "ver", "row", "span",
                   "spantotal", "trans", "boot"}
    BY <1>1, <1>3 DEF IsLast, Tags, RingTags, StatsTags, BootTags
  <2> DEFINE y == After(c, x)
  <2>2. /\ x.tag = "hdr1" => y.tag = "hdr2"
        /\ x.tag = "hdr2" => y.tag = "begin"
        /\ x.tag \in {"begin", "sample"} => y.tag \in {"sample", "end"}
        /\ x.tag = "top" => y.tag = "ver"
        /\ x.tag = "ver" => y.tag = "row"
        /\ x.tag = "row" => y.tag \in {"row", "trans"} \/ (y.tag = "span" /\ y.i = 1)
        /\ x.tag = "span" => /\ y.of = x.of
                             /\ \/ y.tag = "span" /\ y.i = x.i + 1
                                \/ y.tag = "spantotal" /\ x.i = Rows
        /\ x.tag = "spantotal" => y.tag = "trans"
        /\ x.tag = "trans" => y.tag = "statsend"
        /\ x.tag = "boot" => y.tag = "cal"
    BY <1>3, AfterSame
  <2> HIDE DEF y
  <2>3. /\ x.tag = "span" => y.of = x.of
        /\ y.tag = "span" => \/ y.i = 1 /\ x.tag \notin SpanTags
                             \/ x.tag = "span" /\ y.i = x.i + 1
        /\ y.tag = "spantotal" => x.tag = "span" /\ x.i = Rows
        /\ x.tag = "span" => y.tag \in {"span", "spantotal"}
    BY <2>1, <2>2 DEF SpanTags
  <2> QED
    BY <1>1, <2>2, <2>3 DEF y
<1> QED
  BY <1>2, <1>3

\* A line that is no line of the spans, nor of what follows them, goes by,
\* whatever else becomes of the stats dump.
LEMMA SpansElsewhere ==
    ASSUME NEW c \in Seq(Item), NEW x, IsLine(c, x), NEW s, NEW t, NEW open \in BOOLEAN,
           NEW after \in BOOLEAN, NEW l \in Nat, NEW m \in Nat, m >= l,
           Loose(t) => Loose(s) /\ SpansOf(c, x, s, open, l),
           x.tag \notin SpanTags \/ (open /\ after)
    PROVE  SpansOf(c, After(c, x), t, after, m)
<1> DEFINE y == After(c, x)
<1>1. Loose(t) => l >= 3
  BY DEF SpansOf, LooseAt, SpanTags
<1>2. ~after /\ y.tag = "span" => y.i = 1
  BY BeforeSpans DEF SpanTags
<1>3. ~(~after /\ y.tag = "spantotal")
  BY BeforeSpans DEF SpanTags
<1> HIDE DEF y
<1>4. ~after /\ y.tag = "span" => UpTo(t, y.of, y.i)
  <2>1. \A j \in 1..Rows : ~(j < 1)
    OBVIOUS
  <2> QED
    BY <1>2, <2>1 DEF UpTo
<1>5. SpansOf(c, y, t, after, m)
  BY <1>1, <1>3, <1>4 DEF SpansOf
<1> QED
  BY <1>5 DEF y

\* The line that comes is lost.
LEMMA SpansMiss ==
    ASSUME NEW c \in Seq(Item), NEW x, IsLine(c, x), NEW s, NEW open \in BOOLEAN,
           NEW l \in Nat, SpansOf(c, x, s, open, l)
    PROVE  SpansOf(c, After(c, x), s, open, l + 1)
<1> DEFINE y == After(c, x)
<1>1. CASE x.tag \notin SpanTags \/ open
  <2> DEFINE m == l + 1
  <2>1. m \in Nat /\ m >= l
    OBVIOUS
  <2> HIDE DEF m
  <2>2. SpansOf(c, After(c, x), s, open, m)
    BY <1>1, <2>1, SpansElsewhere
  <2> QED
    BY <2>2 DEF m
<1>2. CASE x.tag \in SpanTags /\ ~open
  <2>1. /\ Loose(s) => l >= 3 \/ LooseAt(c, x, s, l)
        /\ x.tag = "spantotal" => SumsTo(s, x.of) \/ l >= 1
    BY <1>2 DEF SpansOf
  <2>2. x.of \in 1..Len(c)
    BY BeforeSpans
  <2>3. CASE x.tag = "span"
    <3>1. y.tag \in {"span", "spantotal"}
      BY <2>3, BeforeSpans
    <3> HIDE DEF y
    <3>2. SpansOf(c, y, s, open, l + 1)
      BY <1>2, <3>1 DEF SpansOf, LooseAt
    <3> QED
      BY <3>2 DEF y
  <2>4. CASE x.tag = "spantotal"
    <3>1. y.tag = "trans"
      BY <2>4, BeforeSpans
    <3> HIDE DEF y
    <3>2. SumsTo(s, x.of) => Whole(c, s)
      BY <2>2 DEF Whole
    <3>3. l + 1 >= 2 \/ (l + 1 >= 1 /\ Whole(c, s))
      BY <2>1, <2>4, <3>2
    <3>4. SpansOf(c, y, s, open, l + 1)
      BY <1>2, <3>1, <3>3 DEF SpansOf, LooseAt
    <3> QED
      BY <3>4 DEF y
  <2>5. CASE x.tag = "trans"
    <3>1. y.tag = "statsend"
      BY <2>5, BeforeSpans
    <3> HIDE DEF y
    <3>2. Loose(s) => l >= 2 \/ (l >= 1 /\ Whole(c, s))
      BY <2>1, <2>5 DEF LooseAt
    <3>3. SpansOf(c, y, s, open, l + 1)
      BY <1>2, <3>1, <3>2 DEF SpansOf, LooseAt
    <3> QED
      BY <3>3 DEF y
  <2>6. CASE x.tag = "statsend"
    <3>1. y.tag \in {"hdr1", "top", "boot", "eof"}
      BY <2>6, AfterLast DEF IsLast
    <3> HIDE DEF y
    <3>2. Loose(s) => l >= 2
      BY <2>1, <2>6 DEF LooseAt
    <3>3. SpansOf(c, y, s, open, l + 1)
      BY <3>1, <3>2 DEF SpansOf
    <3> QED
      BY <3>3 DEF y
  <2> QED
    BY <1>2, <2>3, <2>4, <2>5, <2>6 DEF SpanTags
<1> QED
  BY <1>1, <1>2

\* The capture is cut off, with the w lines it still had.
LEMMA SpansCut ==
    ASSUME NEW c \in Seq(Item), NEW w, Wired(c, w), w # <<>>, NEW x, x = Coming(c, w),
           IsLine(c, x) \/ x = Eof(c), NEW s, NEW open \in BOOLEAN, NEW l \in Nat,
           SpansOf(c, x, s, open, l)
    PROVE  SpansOf(c, Eof(c), s, open, l + Len(w))
<1>1. Len(w) \in Nat \ {0}
  BY DEF Wired
<1>2. Eof(c).tag = "eof"
  BY DEF Eof, Line
<1>3. ASSUME Loose(s) PROVE l + Len(w) >= 3
  <2>1. CASE l >= 3
    BY <1>1, <2>1
  <2>2. CASE LooseAt(c, x, s, l)
    <3>1. IsLine(c, x)
      BY <1>2, <2>2 DEF LooseAt
    <3> QED
      BY <1>1, <2>2, <3>1, LinesLeft DEF LooseAt
  <2> QED
    BY <1>3, <2>1, <2>2 DEF SpansOf
<1> QED
  BY <1>2, <1>3 DEF SpansOf

\* More losses allow what fewer allow.
LEMMA SpansMonotone ==
    ASSUME NEW c, NEW x, NEW s, NEW open \in BOOLEAN, NEW l \in Nat, NEW m \in Nat, m >= l,
           SpansOf(c, x, s, open, l)
    PROVE  SpansOf(c, x, s, open, m)
<1>1. /\ l >= 1 => m >= 1
      /\ l >= 2 => m >= 2
      /\ l >= 3 => m >= 3
  OBVIOUS
<1> QED
  BY <1>1 DEF SpansOf, LooseAt

\* A row of the spans is read.
LEMMA SpanReadNext ==
    ASSUME NEW c \in Seq(Item), NEW x, IsLine(c, x), x.tag = "span", NEW s \in StatsOf(c),
           NEW l \in Nat, SpansOf(c, x, s, FALSE, l)
    PROVE  SpansOf(c, After(c, x), SpanRead(s, x.i, x.of), FALSE, l)
<1> DEFINE y == After(c, x)
           k == x.of
           i == x.i
           t == SpanRead(s, i, k)
<1>1. /\ k \in 1..Len(c) /\ i \in 1..Rows /\ Rows \in Nat
      /\ y.of = k /\ y.tag \in {"span", "spantotal"}
      /\ y.tag = "span" => y.i = i + 1
      /\ y.tag = "spantotal" => i = Rows
  <2>1. y.tag = "span" => y.i = i + 1
    BY BeforeSpans DEF SpanTags
  <2> QED
    BY <2>1, BeforeSpans, CaptureAssumption
<1>2. \A m \in 1..Rows : t.spans[m] = IF m = i THEN k ELSE s.spans[m]
  BY <1>1, FieldsAfter
<1>3. UpTo(s, k, i) \/ l >= 1
  BY DEF SpansOf
<1> HIDE DEF y, t, k, i
<1>4. \A m \in 1..Rows : m < i + 1 => m < i \/ m = i
  BY <1>1
<1>5. UpTo(t, k, i + 1) \/ l >= 1
  BY <1>2, <1>3, <1>4 DEF UpTo
<1>6. i = Rows /\ UpTo(t, k, i + 1) => SumsTo(t, k)
  <2>1. \A m \in 1..Rows : m < Rows + 1
    BY <1>1
  <2> QED
    BY <2>1 DEF UpTo, SumsTo
<1>7. SpansOf(c, y, t, FALSE, l)
  BY <1>1, <1>5, <1>6 DEF SpansOf, LooseAt
<1> QED
  BY <1>7 DEF y, t, k, i

\* A total is read: the spans are loose no more.
LEMMA TotalsReadNext ==
    ASSUME NEW c \in Seq(Item), NEW x, IsLine(c, x), NEW t, NEW l \in Nat, ~Loose(t),
           x.tag \in {"spantotal", "trans"}
    PROVE  SpansOf(c, After(c, x), t, FALSE, l)
<1>1. After(c, x).tag \in {"trans", "statsend"}
  BY BeforeSpans
<1> QED
  BY <1>1 DEF SpansOf

\* Every step keeps the spans of a dump those of one, but for three losses.
LEMMA SpansInvNext ==
    ASSUME CaptureInv, SpansInv, items' = items, Moves
    PROVE  SpansInv'
<1> DEFINE c == items
           x == Here
           open == ring # <<>>
           after == ring' # <<>>
           Told(s) == Loose(s) => lost' >= 3 \/ Whole(c, s)
           Opened == outcome' = "reading" /\ st' # <<>> =>
                         SpansOf(c, Here', st'[1], after, lost')
<1> USE DEF CaptureInv
<1>1. /\ c \in Seq(Item) /\ (st # <<>> => st[1] \in StatsOf(c))
      /\ open \in BOOLEAN /\ after \in BOOLEAN
      /\ lost \in Nat /\ lost' \in Nat /\ lost' >= lost
  BY CaptureAssumption, LostGrows DEF ChainInv, ReaderType
<1>2. /\ \A j \in DOMAIN stats : Told(stats[j])
      /\ outcome = "reading" /\ st # <<>> => SpansOf(c, x, st[1], open, lost)
  <2>1. lost >= 3 => lost' >= 3
    BY <1>1
  <2> QED
    BY <2>1 DEF SpansInv
<1>3. ASSUME Opened, stats' = stats \/ \A j \in DOMAIN stats' : Told(stats'[j])
      PROVE  SpansInv'
  <2>1. \A j \in DOMAIN stats' : Told(stats'[j])
    BY <1>2, <1>3
  <2> QED
    BY <1>3, <2>1 DEF SpansInv
<1>5. Advance => IsLine(c, x) /\ Here' = After(c, x) /\ outcome = "reading"
  BY DEF Advance
\* A line that the stats dump has nothing to do with.
<1>5a. ASSUME Advance, st' = st, st # <<>> => x.tag \notin SpanTags \/ (open /\ after)
       PROVE  Opened
  <2> SUFFICES ASSUME st # <<>> PROVE SpansOf(c, Here', st[1], after, lost')
    BY <1>5a
  <2> DEFINE s == st[1]
  <2> HIDE DEF c, x, open, after, Advance, s
  <2>1. SpansOf(c, x, s, open, lost) /\ IsLine(c, x) /\ Here' = After(c, x)
    BY <1>2, <1>5, <1>5a DEF s
  <2>2. SpansOf(c, After(c, x), s, after, lost')
    BY <1>1, <1>5a, <2>1, SpansElsewhere
  <2> QED
    BY <2>1, <2>2 DEF s
<1>6. CASE Stay
  <2>1. Here' = x /\ UNCHANGED reader
    BY <1>6 DEF Stay
  <2> HIDE DEF c, x, open, Told
  <2>2. Opened
    BY <1>1, <1>2, <2>1, SpansMonotone DEF reader, open
  <2> QED
    BY <1>3, <2>1, <2>2 DEF reader
<1>7. CASE Miss
  <2>1. Advance /\ UNCHANGED reader /\ (lost' = lost + 1 \/ (lost' = lost /\ x.tag = "top"))
    BY <1>7 DEF Miss
  <2> HIDE DEF c, x, open, Told, Advance
  <2>2. CASE lost' = lost + 1
    <3>1. Opened
      BY <1>1, <1>2, <1>5, <2>1, <2>2, SpansMiss DEF reader, open
    <3> QED
      BY <1>3, <2>1, <3>1 DEF reader
  <2>3. CASE lost' = lost /\ x.tag = "top"
    <3>1. x.tag \notin SpanTags
      BY <2>3 DEF SpanTags
    <3>2. Opened
      BY <1>5a, <2>1, <3>1 DEF reader
    <3> QED
      BY <1>3, <2>1, <3>2 DEF reader
  <2> QED
    BY <2>1, <2>2, <2>3
<1>8. CASE Skip
  <2>1. /\ Advance /\ UNCHANGED reader /\ lost' = lost
        /\ st # <<>> => open \/ x.tag \notin SpanTags
    BY <1>8 DEF Skip, InDump, StatsTags, SpanTags
  <2> HIDE DEF c, x, open, Told, Advance
  <2>2. Opened
    BY <1>5a, <2>1 DEF reader, open
  <2> QED
    BY <1>3, <2>1, <2>2 DEF reader
<1>9. CASE CutOff
  <2>1. /\ Here' = Eof(c) /\ UNCHANGED reader /\ outcome = "reading" /\ wire # <<>>
        /\ lost' = lost + Len(wire)
    BY <1>9 DEF CutOff
  <2>2. (IsLine(c, x) \/ x = Eof(c)) /\ Wired(c, wire) /\ x = Coming(c, wire)
    BY HereIsLine DEF ChainInv, Here
  <2> HIDE DEF c, x, open, Told
  <2>3. Opened
    BY <1>1, <1>2, <2>1, <2>2, SpansCut DEF reader, open
  <2> QED
    BY <1>3, <2>1, <2>3 DEF reader
<1>10. CASE Stop
  <2>1. outcome' # "reading" /\ outcome = "reading" /\ x.tag = "eof" /\ lost' = lost
    BY <1>10 DEF Stop, Finish, Refuse
  <2>2. CASE stats' = stats
    BY <1>3, <2>1, <2>2
  <2>3. CASE stats' = stats \o st
    <3>1. \A j \in DOMAIN stats' : \/ st # <<>> /\ stats'[j] = st[1]
                                   \/ j \in DOMAIN stats /\ stats'[j] = stats[j]
      BY <2>3, StatsReported
    <3> HIDE DEF c, x, open
    <3>2. st # <<>> => Told(st[1])
      BY <1>2, <2>1 DEF SpansOf, LooseAt
    <3> HIDE DEF Told
    <3>3. \A j \in DOMAIN stats' : Told(stats'[j])
      BY <1>2, <3>1, <3>2
    <3> QED
      BY <1>3, <2>1, <3>3
  <2> QED
    BY <1>10, <2>2, <2>3 DEF Stop, Finish, Refuse
<1>11. CASE Take
  <2>1. Advance /\ lost' = lost /\ outcome = "reading"
    BY <1>11 DEF Take, Advance
\* The reader gives up.
  <2>2. CASE outcome' = "error" /\ UNCHANGED stats
    BY <1>3, <2>2
\* A line of another item.
  <2>3. CASE /\ ReadBoot \/ ReadCal \/ ReadHdr \/ ReadSample \/ ReadEnd \/ ReadBegin
             /\ outcome' # "error"
    <3>1. UNCHANGED <<st, stats>>
      BY <2>3 DEF ReadBoot, ReadCal, ReadHdr, ReadSample, ReadEnd, ReadBegin, Refuse
    <3>2. x.tag \notin SpanTags
      BY <1>11, <2>3, TakeLine DEF SpanTags
    <3> HIDE DEF c, x, open, after, Told, Advance
    <3>3. Opened
      BY <1>5a, <2>1, <3>1, <3>2
    <3> QED
      BY <1>3, <3>1, <3>3
\* A stats dump.
  <2>4. CASE ReadTop
    <3>1. st' = <<Stats>> /\ UNCHANGED stats /\ x.tag \notin SpanTags
      BY <1>11, <2>4, TakeLine DEF ReadTop, SpanTags
    <3>2. st'[1] = Stats
      BY <3>1
    <3>3. ~Loose(Stats)
      BY DEF Loose, Stats
    <3> HIDE DEF c, x, open, after, Told, Advance
    <3>4. SpansOf(c, After(c, x), Stats, after, lost)
      BY <1>1, <1>5, <2>1, <3>1, <3>3, SpansElsewhere
    <3>5. Opened
      BY <1>5, <2>1, <3>2, <3>4
    <3> QED
      BY <1>3, <3>1, <3>5
  <2>5. CASE ReadVer /\ outcome' # "error"
    <3> DEFINE s == IF st = <<>> THEN Stats ELSE st[1]
               t == VersionRead(s, x.of)
    <3>1. s \in StatsOf(c) /\ UNCHANGED stats /\ x.tag \notin SpanTags /\ st' = <<t>>
      BY <1>11, <2>5, VerTaken DEF SpanTags
    <3>2. st'[1] = t
      BY <3>1
    <3>3. Loose(t) <=> Loose(s)
      <4> HIDE DEF s
      <4> QED
        BY <3>1, FieldAfter DEF Loose
    <3>4. Loose(s) => SpansOf(c, x, s, open, lost)
      <4>1. ~Loose(Stats)
        BY DEF Loose, Stats
      <4> QED
        BY <1>2, <2>1, <4>1
    <3> HIDE DEF c, x, open, after, Told, Advance, s, t
    <3>5. SpansOf(c, After(c, x), t, after, lost)
      BY <1>1, <1>5, <2>1, <3>1, <3>3, <3>4, SpansElsewhere
    <3>6. Opened
      BY <1>5, <2>1, <3>2, <3>5
    <3> QED
      BY <1>3, <3>1, <3>6
  <2>6. CASE ReadRow
    <3> DEFINE s == st[1]
               k == x.of
               i == x.i
    <3>1. /\ st # <<>> /\ s \in StatsOf(c) /\ UNCHANGED stats /\ ring = <<>> /\ ring' = <<>>
          /\ \/ x.tag = "row" /\ i \in 1..Rows /\ st' = <<RowRead(s, i, k)>>
             \/ x.tag = "span" /\ i \in 1..Rows /\ st' = <<SpanRead(s, i, k)>>
             \/ x.tag = "spantotal" /\ st' = <<TotalRead(s, k)>>
             \/ x.tag = "trans" /\ st' = <<TransRead(s, k)>>
      BY <1>11, <2>6, RowTaken
    <3>2. SpansOf(c, x, s, FALSE, lost) /\ ~open /\ ~after
      BY <1>2, <2>1, <3>1
    <3> HIDE DEF c, x, Told, Advance, s
    <3>3. k \in 1..Len(c)
      BY <1>1, <1>5, <2>1, BeforeSpans
    <3>4. CASE x.tag = "row" /\ i \in 1..Rows /\ st' = <<RowRead(s, i, k)>>
      <4> DEFINE t == RowRead(s, i, k)
      <4>1. Loose(t) <=> Loose(s)
        BY <3>1, <3>4, FieldsAfter DEF Loose
      <4>2. st'[1] = t /\ x.tag \notin SpanTags
        BY <3>4 DEF SpanTags
      <4> HIDE DEF t, i, k
      <4>3. SpansOf(c, After(c, x), t, FALSE, lost)
        BY <1>1, <1>5, <2>1, <3>2, <4>1, <4>2, SpansElsewhere
      <4>4. Opened
        BY <1>5, <2>1, <3>2, <4>2, <4>3
      <4> QED
        BY <1>3, <3>1, <4>4
    <3>5. CASE x.tag = "span" /\ i \in 1..Rows /\ st' = <<SpanRead(s, i, k)>>
      <4> DEFINE t == SpanRead(s, i, k)
      <4>1. st'[1] = t
        BY <3>5
      <4>2. SpansOf(c, After(c, x), t, FALSE, lost)
        BY <1>1, <1>5, <2>1, <3>1, <3>2, <3>5, SpanReadNext
      <4> HIDE DEF t, i, k
      <4>3. Opened
        BY <1>5, <2>1, <3>2, <4>1, <4>2
      <4> QED
        BY <1>3, <3>1, <4>3
    <3>6. CASE \/ x.tag = "spantotal" /\ st' = <<TotalRead(s, k)>>
               \/ x.tag = "trans" /\ st' = <<TransRead(s, k)>>
      <4>1. TotalRead(s, k).total = k /\ TransRead(s, k).trans = k /\ k # 0
        BY <3>1, <3>3, FieldAfter
      <4>2. PICK t : st' = <<t>> /\ ~Loose(t)
        BY <3>6, <4>1 DEF Loose
      <4>3. st'[1] = t /\ x.tag \in {"spantotal", "trans"}
        BY <3>6, <4>2
      <4> HIDE DEF i, k
      <4>4. SpansOf(c, After(c, x), t, FALSE, lost)
        BY <1>1, <1>5, <2>1, <4>2, <4>3, TotalsReadNext
      <4>5. Opened
        BY <1>5, <2>1, <3>2, <4>3, <4>4
      <4> QED
        BY <1>3, <3>1, <4>5
    <3> QED
      BY <3>1, <3>4, <3>5, <3>6
  <2>7. CASE ReadStatsEnd
    <3>1. /\ st # <<>> /\ st' = <<>> /\ stats' = Append(stats, st[1])
          /\ x.tag = "statsend"
      BY <1>11, <2>7, TakeLine DEF ReadStatsEnd, InStats
    <3>2. \A j \in DOMAIN stats' : \/ st # <<>> /\ stats'[j] = st[1]
                                   \/ j \in DOMAIN stats /\ stats'[j] = stats[j]
      BY <3>1, StatsReported
    <3> HIDE DEF c, x, open, Advance
    <3>3. Told(st[1])
      BY <1>2, <2>1, <3>1 DEF SpansOf, LooseAt
    <3> HIDE DEF Told
    <3>4. \A j \in DOMAIN stats' : Told(stats'[j])
      BY <1>2, <3>2, <3>3
    <3> QED
      BY <1>3, <3>1, <3>4
  <2>8. /\ outcome' = "error" /\ ~ReadStatsEnd => UNCHANGED stats
        /\ MalformedSample => outcome' = "error"
        /\ ReadTop \/ ReadRow \/ ReadStatsEnd => outcome' # "error"
    BY <1>11, <2>1
       DEF Take, ReadEnd, ReadBegin, ReadVer, MalformedSample, Refuse, ReadTop, ReadRow,
           ReadStatsEnd, ReadBoot, ReadCal, ReadHdr, ReadSample
  <2> QED
    BY <1>11, <2>2, <2>3, <2>4, <2>5, <2>6, <2>7, <2>8 DEF Take
<1> QED
  BY <1>6, <1>7, <1>8, <1>9, <1>10, <1>11 DEF Moves

\* The spans a dump is corrected with are all those of one dump, unless more
\* than two faults came together.
THEOREM SpansAreOfOneDump == Spec => []SpansAreWhole
<1>1. Init => SpansInv
  BY DEF Init, SpansInv
<1>2. CaptureInv /\ SpansInv /\ [Next]_vars => SpansInv'
  BY MovesNext, SpansInvNext DEF CaptureInv
<1>3. CaptureInv /\ SpansInv => SpansAreWhole
  <2> SUFFICES ASSUME CaptureInv, SpansInv, lost + eaten <= 2, NEW j \in DOMAIN stats,
                      SpansUsable(stats[j])
               PROVE  \E k \in DOMAIN items : SumsTo(stats[j], k)
    BY DEF SpansAreWhole
  <2> DEFINE s == stats[j]
  <2>1. ~(lost >= 3)
    BY DEF CaptureInv, ChainInv
  <2>2. items \in Seq(Item) /\ DOMAIN items = 1..Len(items) /\ stats \in Seq(StatsOf(items))
    BY CaptureAssumption DEF CaptureInv, ChainInv, ReaderType
  <2>3. s \in StatsOf(items)
    <3> DEFINE T == StatsOf(items)
    <3>1. stats \in Seq(T)
      BY <2>2
    <3> HIDE DEF T
    <3>2. s \in T
      BY <3>1
    <3> QED
      BY <3>2 DEF T
  <2>4. s.total \in 0..Len(items) /\ s.trans \in 0..Len(items)
    BY <2>3 DEF StatsOf, Ref
  <2>5. CASE s.total # 0
    BY <2>2, <2>4, <2>5 DEF SpansUsable
  <2>6. CASE s.trans # 0
    BY <2>2, <2>4, <2>6 DEF SpansUsable
  <2>7. CASE s.total = 0 /\ s.trans = 0
    <3>1. Loose(s)
      BY <2>7 DEF SpansUsable, Loose
    <3> QED
      BY <2>1, <2>2, <3>1 DEF SpansInv, Whole
  <2> QED
    BY <2>5, <2>6, <2>7
<1> QED
  BY <1>1, <1>2, <1>3, CaptureInvariance, PTL DEF Spec

----------------------------------------------------------------------------
(* A capture that lost no line.                                            *)

\* An item of another kind is not of the dumps that are counted.
LEMMA BeforeOther ==
    ASSUME NEW c, NEW f, NEW kind, NEW k \in Nat, Before(c, f, kind, k),
           k \in 1..Len(c) => c[k].kind # kind, Len(c) \in Nat
    PROVE  Before(c, f, kind, k + 1)
<1>1. \A m \in 1..Len(c) : (m < k + 1 /\ c[m].kind = kind) <=> (m < k /\ c[m].kind = kind)
  <2> TAKE m \in 1..Len(c)
  <2>1. m < k + 1 <=> m < k \/ m = k
    OBVIOUS
  <2> QED
    BY <2>1
<1>2. {m \in 1..Len(c) : m < k + 1 /\ c[m].kind = kind}
         = {m \in 1..Len(c) : m < k /\ c[m].kind = kind}
  BY <1>1
<1> QED
  BY <1>2 DEF Before

\* One more dump of the kind is reported.
LEMMA BeforeMore ==
    ASSUME NEW c, Len(c) \in Nat, NEW f, NEW g, NEW n \in Nat, NEW kind,
           NEW k \in 1..Len(c), c[k].kind = kind, Before(c, f, kind, k),
           DOMAIN f = 1..n, DOMAIN g = 1..n + 1,
           \A j \in 1..n : g[j] = f[j], g[n + 1] = k
    PROVE  Before(c, g, kind, k + 1)
<1>1. \A j \in 1..n : f[j] \in 1..Len(c) /\ f[j] < k /\ c[f[j]].kind = kind
  <2> TAKE j \in 1..n
  <2>1. f[j] \in {f[i] : i \in DOMAIN f}
    OBVIOUS
  <2>2. f[j] \in {m \in 1..Len(c) : m < k /\ c[m].kind = kind}
    BY <2>1 DEF Before
  <2> QED
    BY <2>2
<1>2. \A m \in 1..Len(c) : m < k /\ c[m].kind = kind => \E j \in 1..n : f[j] = m
  <2> TAKE m \in 1..Len(c)
  <2> HAVE m < k /\ c[m].kind = kind
  <2>1. m \in {f[i] : i \in DOMAIN f}
    BY DEF Before
  <2> QED
    BY <2>1
<1>3. \A j \in DOMAIN g : j \in 1..n \/ j = n + 1
  OBVIOUS
<1>4. \A i, j \in DOMAIN g : i < j => g[i] < g[j]
  <2> SUFFICES ASSUME NEW i \in DOMAIN g, NEW j \in DOMAIN g, i < j PROVE g[i] < g[j]
    OBVIOUS
  <2>1. i \in 1..n
    BY <1>3
  <2>2. CASE j = n + 1
    BY <1>1, <2>1, <2>2
  <2>3. CASE j \in 1..n
    BY <2>1, <2>3 DEF Before
  <2> QED
    BY <1>3, <2>2, <2>3
<1>5. {g[j] : j \in DOMAIN g} = {m \in 1..Len(c) : m < k + 1 /\ c[m].kind = kind}
  <2>1. ASSUME NEW j \in DOMAIN g
        PROVE  g[j] \in 1..Len(c) /\ g[j] < k + 1 /\ c[g[j]].kind = kind
    <3>1. CASE j = n + 1
      BY <3>1
    <3>2. CASE j \in 1..n
      <4>1. g[j] = f[j] /\ f[j] \in 1..Len(c) /\ f[j] < k /\ c[f[j]].kind = kind
        BY <1>1, <3>2
      <4> QED
        BY <4>1
    <3> QED
      BY <1>3, <3>1, <3>2
  <2>2. ASSUME NEW m \in 1..Len(c), m < k + 1, c[m].kind = kind
        PROVE  \E j \in DOMAIN g : g[j] = m
    <3>1. CASE m = k
      <4>1. n + 1 \in DOMAIN g
        OBVIOUS
      <4> QED
        BY <3>1, <4>1
    <3>2. CASE m # k
      <4>1. m < k
        BY <2>2, <3>2
      <4>2. PICK j \in 1..n : f[j] = m
        BY <1>2, <2>2, <4>1
      <4>3. j \in DOMAIN g /\ g[j] = m
        BY <4>2
      <4> QED
        BY <4>3
    <3> QED
      BY <3>1, <3>2
  <2> QED
    BY <2>1, <2>2
<1> QED
  BY <1>4, <1>5 DEF Before

\* Two records of stats dumps whose fields are the same are the same.
LEMMA SameRecord ==
    ASSUME NEW c, NEW s \in StatsOf(c), NEW t \in StatsOf(c),
           s.ver = t.ver, s.shape = t.shape, s.total = t.total, s.trans = t.trans,
           \A i \in 1..Rows : s.rows[i] = t.rows[i],
           \A i \in 1..Rows : s.spans[i] = t.spans[i]
    PROVE  s = t
<1>1. s.rows \in [1..Rows -> Ref(c)] /\ t.rows \in [1..Rows -> Ref(c)]
  BY DEF StatsOf
<1>2. s.spans \in [1..Rows -> Ref(c)] /\ t.spans \in [1..Rows -> Ref(c)]
  BY DEF StatsOf
<1>3. s.rows = t.rows
  <2> DEFINE a == s.rows
             b == t.rows
  <2>1. a \in [1..Rows -> Ref(c)] /\ b \in [1..Rows -> Ref(c)] /\ \A i \in 1..Rows : a[i] = b[i]
    BY <1>1
  <2> DEFINE D == 1..Rows
             R == Ref(c)
  <2>2. a \in [D -> R] /\ b \in [D -> R] /\ \A i \in D : a[i] = b[i]
    BY <2>1
  <2> HIDE DEF a, b, D, R
  <2>3. a = b
    BY <2>2
  <2> QED
    BY <2>3 DEF a, b
<1>3a. s.spans = t.spans
  <2> DEFINE a == s.spans
             b == t.spans
  <2>1. a \in [1..Rows -> Ref(c)] /\ b \in [1..Rows -> Ref(c)] /\ \A i \in 1..Rows : a[i] = b[i]
    BY <1>2
  <2> DEFINE D == 1..Rows
             R == Ref(c)
  <2>2. a \in [D -> R] /\ b \in [D -> R] /\ \A i \in D : a[i] = b[i]
    BY <2>1
  <2> HIDE DEF a, b, D, R
  <2>3. a = b
    BY <2>2
  <2> QED
    BY <2>3 DEF a, b
<1>4. /\ s = [ver |-> s.ver, shape |-> s.shape, rows |-> s.rows, spans |-> s.spans,
              total |-> s.total, trans |-> s.trans]
      /\ t = [ver |-> t.ver, shape |-> t.shape, rows |-> t.rows, spans |-> t.spans,
              total |-> t.total, trans |-> t.trans]
  BY DEF StatsOf
<1> QED
  BY <1>3, <1>3a, <1>4

\* The record of a stats dump, field by field.
LEMMA RecordFields ==
    ASSUME NEW c \in Seq(Item), NEW x, x.of \in 1..Len(c), x.i \in Nat
    PROVE  /\ RecordBy(c, x) \in StatsOf(c)
           /\ RecordBy(c, x).ver = IF x.tag = "ver" THEN 0 ELSE x.of
           /\ RecordBy(c, x).shape = IF RowsBy(x) > 1 THEN x.of ELSE 0
           /\ \A i \in 1..Rows : RecordBy(c, x).rows[i] = IF i < RowsBy(x) THEN x.of ELSE 0
           /\ \A i \in 1..Rows : RecordBy(c, x).spans[i] =
                 IF i < SpansBy(x) /\ c[x.of].ver # 1 THEN x.of ELSE 0
           /\ RecordBy(c, x).total =
                 IF x.tag \in {"trans", "statsend"} /\ c[x.of].ver # 1 THEN x.of ELSE 0
           /\ RecordBy(c, x).trans = IF x.tag = "statsend" THEN x.of ELSE 0
<1>1. 0 \in Ref(c) /\ x.of \in Ref(c)
  BY DEF Ref
<1> QED
  BY <1>1 DEF RecordBy, StatsOf

\* The record a stats dump has when its next line comes is the one it has now
\* with this line read.
LEMMA RecordOpened ==
    ASSUME NEW c \in Seq(Item), NEW x, IsLine(c, x), x.tag = "top"
    PROVE  RecordBy(c, After(c, x)) = Stats
<1> DEFINE y == After(c, x)
<1>1. /\ y.of = x.of /\ y.tag = "ver" /\ y.of \in 1..Len(c) /\ y.i \in Nat
      /\ Rows \in Nat
  BY AfterSame, CaptureAssumption DEF IsLast, IsLine, LineT
<1>2. RowsBy(y) = 1 /\ SpansBy(y) = 1
  BY <1>1 DEF RowsBy, SpansBy
<1> HIDE DEF y
<1> DEFINE t == RecordBy(c, y)
<1>3. /\ t \in StatsOf(c) /\ t.ver = 0 /\ t.shape = 0 /\ t.total = 0 /\ t.trans = 0
      /\ \A i \in 1..Rows : t.rows[i] = 0
      /\ \A i \in 1..Rows : t.spans[i] = 0
  BY <1>1, <1>2, RecordFields
<1>4. /\ Stats.ver = 0 /\ Stats.shape = 0 /\ Stats.total = 0 /\ Stats.trans = 0
      /\ \A i \in 1..Rows : Stats.rows[i] = 0
      /\ \A i \in 1..Rows : Stats.spans[i] = 0
      /\ Stats \in StatsOf(c)
  <2>1. 0 \in Ref(c)
    BY DEF Ref
  <2> QED
    BY <2>1 DEF Stats, NoRows, StatsOf
<1> HIDE DEF t
<1>5. t = Stats
  BY <1>3, <1>4, SameRecord
<1> QED
  BY <1>5 DEF t, y

\* Each line of a stats dump takes its record to that of the next line: ver=,
LEMMA RecordVer ==
    ASSUME NEW c \in Seq(Item), NEW x, IsLine(c, x), x.tag = "ver"
    PROVE  /\ RecordBy(c, x) = Stats
           /\ RecordBy(c, After(c, x)) = VersionRead(Stats, x.of)
<1> DEFINE y == After(c, x)
           k == x.of
<1>1. /\ y.of = k /\ y.tag = "row" /\ y.i = 1 /\ k \in 1..Len(c) /\ x.i \in Nat
  BY AfterSame DEF IsLast, IsLine, LineT
<1>2. RowsBy(y) = 1 /\ SpansBy(y) = 1 /\ RowsBy(x) = 1 /\ SpansBy(x) = 1
  BY <1>1 DEF RowsBy, SpansBy
<1>4. /\ Stats.ver = 0 /\ Stats.shape = 0 /\ Stats.total = 0 /\ Stats.trans = 0
      /\ \A i \in 1..Rows : Stats.rows[i] = 0
      /\ \A i \in 1..Rows : Stats.spans[i] = 0
      /\ Stats \in StatsOf(c) /\ k \in Ref(c)
  <2>1. 0 \in Ref(c) /\ k \in Ref(c)
    BY <1>1 DEF Ref
  <2> QED
    BY <2>1 DEF Stats, NoRows, StatsOf
<1> DEFINE s == RecordBy(c, x)
           t == RecordBy(c, y)
           u == VersionRead(Stats, k)
<1> HIDE DEF y
<1>3. /\ t \in StatsOf(c) /\ t.ver = k /\ t.shape = 0 /\ t.total = 0 /\ t.trans = 0
      /\ \A i \in 1..Rows : t.rows[i] = 0
      /\ \A i \in 1..Rows : t.spans[i] = 0
  <2>1. ~(1 > 1) /\ \A i \in 1..Rows : ~(i < 1)
    OBVIOUS
  <2> QED
    BY <1>1, <1>2, <2>1, RecordFields
<1>5. /\ s \in StatsOf(c) /\ s.ver = 0 /\ s.shape = 0 /\ s.total = 0 /\ s.trans = 0
      /\ \A i \in 1..Rows : s.rows[i] = 0
      /\ \A i \in 1..Rows : s.spans[i] = 0
  <2>1. ~(1 > 1) /\ \A i \in 1..Rows : ~(i < 1)
    OBVIOUS
  <2> QED
    BY <1>1, <1>2, <2>1, RecordFields
<1>6. /\ u \in StatsOf(c) /\ u.ver = k /\ u.shape = 0 /\ u.total = 0 /\ u.trans = 0
      /\ u.rows = Stats.rows /\ u.spans = Stats.spans
  <2> DEFINE v == Stats
  <2>1. v \in StatsOf(c) /\ k \in Ref(c)
    BY <1>4
  <2> HIDE DEF v, k
  <2>2. VersionRead(v, k) \in StatsOf(c)
    BY <2>1, StatsFields DEF VersionRead
  <2>3. /\ VersionRead(v, k).ver = k /\ VersionRead(v, k).shape = v.shape
        /\ VersionRead(v, k).total = v.total /\ VersionRead(v, k).trans = v.trans
        /\ VersionRead(v, k).rows = v.rows /\ VersionRead(v, k).spans = v.spans
    BY <2>1, FieldAfter
  <2> QED
    BY <1>4, <2>2, <2>3 DEF v
<1> HIDE DEF s, t, u, k
<1>7. s = Stats
  BY <1>4, <1>5, SameRecord
<1>8. t = u
  BY <1>3, <1>4, <1>6, SameRecord
<1> QED
  BY <1>7, <1>8 DEF s, t, u, k, y

\* a row of the buckets,
LEMMA RecordRow ==
    ASSUME NEW c \in Seq(Item), NEW x, IsLine(c, x), x.tag = "row"
    PROVE  RecordBy(c, After(c, x)) = RowRead(RecordBy(c, x), x.i, x.of)
<1> DEFINE y == After(c, x)
           k == x.of
           i == x.i
           s == RecordBy(c, x)
           t == RecordBy(c, y)
           u == RowRead(s, i, k)
<1>1. /\ y.of = k /\ k \in 1..Len(c) /\ i \in 1..Rows /\ i \in Nat /\ Rows \in Nat
      /\ y.i \in Nat
      /\ \/ i < Rows /\ y.tag = "row" /\ y.i = i + 1
         \/ i = Rows /\ c[k].ver = 1 /\ y.tag = "trans"
         \/ i = Rows /\ c[k].ver # 1 /\ y.tag = "span" /\ y.i = 1
  <2>1. y.i \in Nat
    BY AfterSame DEF IsLast, IsLine, LineT
  <2> QED
    BY <2>1, AfterSame, CaptureAssumption DEF IsLast, IsLine, LineT
<1>2. RowsBy(x) = i /\ SpansBy(x) = 1
  BY DEF RowsBy, SpansBy
<1> HIDE DEF y
<1>3. RowsBy(y) = i + 1 /\ (SpansBy(y) = 1 \/ c[k].ver = 1)
  BY <1>1 DEF RowsBy, SpansBy
<1>4. \A m \in 1..Rows : ~(m < 1)
  OBVIOUS
<1>5. /\ s \in StatsOf(c) /\ s.ver = k /\ s.shape = (IF i > 1 THEN k ELSE 0)
      /\ s.total = 0 /\ s.trans = 0
      /\ \A m \in 1..Rows : s.rows[m] = IF m < i THEN k ELSE 0
      /\ \A m \in 1..Rows : s.spans[m] = 0
  BY <1>1, <1>2, <1>4, RecordFields
<1>6. /\ t \in StatsOf(c) /\ t.ver = k /\ t.shape = k /\ t.total = 0 /\ t.trans = 0
      /\ \A m \in 1..Rows : t.rows[m] = IF m < i + 1 THEN k ELSE 0
      /\ \A m \in 1..Rows : t.spans[m] = 0
  <2>1. i + 1 > 1 /\ y.tag # "ver" /\ y.tag # "statsend"
    BY <1>1
  <2>2. ~(y.tag \in {"trans", "statsend"} /\ c[k].ver # 1)
    BY <1>1
  <2> QED
    BY <1>1, <1>3, <1>4, <2>1, <2>2, RecordFields
<1> HIDE DEF s, t, k, i
<1>7. /\ u \in StatsOf(c) /\ u.ver = s.ver /\ u.total = s.total /\ u.trans = s.trans
      /\ u.spans = s.spans /\ u.shape = IF i = 1 /\ s.shape = 0 THEN k ELSE s.shape
      /\ \A m \in 1..Rows : u.rows[m] = IF m = i THEN k ELSE s.rows[m]
  <2>1. k \in Ref(c)
    BY <1>1 DEF Ref
  <2>2. Resolved(s, i, k) \in StatsOf(c)
    BY <1>1, <1>5, <2>1, StatsFields
  <2>3. u \in StatsOf(c)
    BY <1>1, <2>1, <2>2, StatsFields DEF RowRead
  <2> QED
    BY <1>1, <1>5, <2>3, FieldsAfter
<1> HIDE DEF u
<1>8. u.shape = k
  BY <1>1, <1>5, <1>7
<1>9. \A m \in 1..Rows : u.rows[m] = t.rows[m]
  <2> TAKE m \in 1..Rows
  <2>1. m < i + 1 <=> m < i \/ m = i
    BY <1>1
  <2> QED
    BY <1>5, <1>6, <1>7, <2>1
<1>10. t = u
  BY <1>5, <1>6, <1>7, <1>8, <1>9, SameRecord
<1> QED
  BY <1>10 DEF s, t, u, k, i, y

\* a row of the spans,
LEMMA RecordSpan ==
    ASSUME NEW c \in Seq(Item), NEW x, IsLine(c, x), x.tag = "span"
    PROVE  RecordBy(c, After(c, x)) = SpanRead(RecordBy(c, x), x.i, x.of)
<1> DEFINE y == After(c, x)
           k == x.of
           i == x.i
           s == RecordBy(c, x)
           t == RecordBy(c, y)
           u == SpanRead(s, i, k)
<1>1. /\ y.of = k /\ k \in 1..Len(c) /\ i \in 1..Rows /\ i \in Nat /\ Rows \in Nat \ {0}
      /\ y.i \in Nat /\ c[k].ver # 1
      /\ \/ i < Rows /\ y.tag = "span" /\ y.i = i + 1
         \/ i = Rows /\ y.tag = "spantotal"
  <2>1. y.i \in Nat
    BY AfterSame DEF IsLast, IsLine, LineT
  <2> QED
    BY <2>1, AfterSame, CaptureAssumption DEF IsLast, IsLine, LineT
<1>2. RowsBy(x) = Rows + 1 /\ SpansBy(x) = i
  BY DEF RowsBy, SpansBy
<1> HIDE DEF y
<1>3. RowsBy(y) = Rows + 1 /\ SpansBy(y) = i + 1
  BY <1>1 DEF RowsBy, SpansBy
<1>4. Rows + 1 > 1 /\ \A m \in 1..Rows : m < Rows + 1
  BY <1>1
<1>5. /\ s \in StatsOf(c) /\ s.ver = k /\ s.shape = k /\ s.total = 0 /\ s.trans = 0
      /\ \A m \in 1..Rows : s.rows[m] = k
      /\ \A m \in 1..Rows : s.spans[m] = IF m < i THEN k ELSE 0
  BY <1>1, <1>2, <1>4, RecordFields
<1>6. /\ t \in StatsOf(c) /\ t.ver = k /\ t.shape = k /\ t.total = 0 /\ t.trans = 0
      /\ \A m \in 1..Rows : t.rows[m] = k
      /\ \A m \in 1..Rows : t.spans[m] = IF m < i + 1 THEN k ELSE 0
  <2>1. y.tag # "ver" /\ y.tag \notin {"trans", "statsend"}
    BY <1>1
  <2> QED
    BY <1>1, <1>3, <1>4, <2>1, RecordFields
<1> HIDE DEF s, t, k, i
<1>7. /\ u \in StatsOf(c) /\ u.ver = s.ver /\ u.total = s.total /\ u.trans = s.trans
      /\ u.rows = s.rows /\ u.shape = IF i = 1 /\ s.shape = 0 THEN k ELSE s.shape
      /\ \A m \in 1..Rows : u.spans[m] = IF m = i THEN k ELSE s.spans[m]
  <2>1. k \in Ref(c)
    BY <1>1 DEF Ref
  <2>2. Resolved(s, i, k) \in StatsOf(c)
    BY <1>1, <1>5, <2>1, StatsFields
  <2>3. u \in StatsOf(c)
    BY <1>1, <2>1, <2>2, StatsFields DEF SpanRead
  <2> QED
    BY <1>1, <1>5, <2>3, FieldsAfter
<1> HIDE DEF u
<1>8. u.shape = k
  BY <1>1, <1>5, <1>7
<1>9. \A m \in 1..Rows : u.spans[m] = t.spans[m]
  <2> TAKE m \in 1..Rows
  <2>1. m < i + 1 <=> m < i \/ m = i
    BY <1>1
  <2> QED
    BY <1>5, <1>6, <1>7, <2>1
<1>10. t = u
  BY <1>5, <1>6, <1>7, <1>8, <1>9, SameRecord
<1> QED
  BY <1>10 DEF s, t, u, k, i, y

\* the totals.
LEMMA RecordTotals ==
    ASSUME NEW c \in Seq(Item), NEW x, IsLine(c, x)
    PROVE  /\ x.tag = "spantotal" =>
                 RecordBy(c, After(c, x)) = TotalRead(RecordBy(c, x), x.of)
           /\ x.tag = "trans" =>
                 RecordBy(c, After(c, x)) = TransRead(RecordBy(c, x), x.of)
<1> SUFFICES ASSUME x.tag \in {"spantotal", "trans"}
             PROVE  RecordBy(c, After(c, x)) = IF x.tag = "trans"
                                               THEN TransRead(RecordBy(c, x), x.of)
                                               ELSE TotalRead(RecordBy(c, x), x.of)
  OBVIOUS
<1> DEFINE y == After(c, x)
           k == x.of
           s == RecordBy(c, x)
           t == RecordBy(c, y)
           u == IF x.tag = "trans" THEN TransRead(s, k) ELSE TotalRead(s, k)
<1>1. /\ y.of = k /\ k \in 1..Len(c) /\ Rows \in Nat \ {0} /\ y.i \in Nat /\ x.i \in Nat
      /\ x.tag = "spantotal" => y.tag = "trans" /\ c[k].ver # 1
      /\ x.tag = "trans" => y.tag = "statsend"
  BY AfterSame, CaptureAssumption DEF IsLast, IsLine, LineT
<1>2. RowsBy(x) = Rows + 1 /\ SpansBy(x) = Rows + 1
  BY DEF RowsBy, SpansBy
<1> HIDE DEF y
<1>3. RowsBy(y) = Rows + 1 /\ SpansBy(y) = Rows + 1
  BY <1>1 DEF RowsBy, SpansBy
<1>4. Rows + 1 > 1 /\ \A m \in 1..Rows : m < Rows + 1
  BY <1>1
<1>5. /\ s \in StatsOf(c) /\ s.ver = k /\ s.shape = k /\ s.trans = 0
      /\ s.total = (IF x.tag = "trans" /\ c[k].ver # 1 THEN k ELSE 0)
      /\ \A m \in 1..Rows : s.rows[m] = k
      /\ \A m \in 1..Rows : s.spans[m] = IF c[k].ver # 1 THEN k ELSE 0
  BY <1>1, <1>2, <1>4, RecordFields
<1>6. /\ t \in StatsOf(c) /\ t.ver = k /\ t.shape = k
      /\ t.total = (IF c[k].ver # 1 THEN k ELSE 0)
      /\ t.trans = (IF x.tag = "trans" THEN k ELSE 0)
      /\ \A m \in 1..Rows : t.rows[m] = k
      /\ \A m \in 1..Rows : t.spans[m] = IF c[k].ver # 1 THEN k ELSE 0
  <2>1. y.tag # "ver" /\ y.tag \in {"trans", "statsend"} /\ (y.tag = "statsend" <=> x.tag = "trans")
    BY <1>1
  <2> QED
    BY <1>1, <1>3, <1>4, <2>1, RecordFields
<1> HIDE DEF s, t, k
<1>7. /\ u \in StatsOf(c) /\ u.ver = s.ver /\ u.shape = s.shape
      /\ u.rows = s.rows /\ u.spans = s.spans
      /\ u.total = (IF x.tag = "trans" THEN s.total ELSE k)
      /\ u.trans = (IF x.tag = "trans" THEN k ELSE s.trans)
  <2>1. k \in Ref(c)
    BY <1>1 DEF Ref
  <2>2. TotalRead(s, k) \in StatsOf(c) /\ TransRead(s, k) \in StatsOf(c)
    BY <1>5, <2>1, StatsFields DEF TotalRead, TransRead
  <2> QED
    BY <1>5, <2>2, FieldAfter
<1> HIDE DEF u
<1>8. t = u
  BY <1>1, <1>5, <1>6, <1>7, SameRecord
<1> QED
  BY <1>8 DEF s, t, u, k, y

\* The record at the last line of a stats dump is the whole record.
LEMMA RecordLast ==
    ASSUME NEW c \in Seq(Item), NEW x, IsLine(c, x), x.tag = "statsend"
    PROVE  RecordBy(c, x) = RecordOf(c, x.of) /\ RecordOf(c, x.of).ver = x.of
<1>1. /\ RowsBy(x) = Rows + 1 /\ SpansBy(x) = Rows + 1
      /\ RowsBy(Line("statsend", x.of, 0)) = Rows + 1
      /\ SpansBy(Line("statsend", x.of, 0)) = Rows + 1
      /\ Line("statsend", x.of, 0).of = x.of /\ Line("statsend", x.of, 0).tag = "statsend"
  BY DEF RowsBy, SpansBy, Line
<1> QED
  BY <1>1 DEF RecordOf, RecordBy

\* The reports at the next item, when this one is no dump of theirs.
LEMMA ReportsPass ==
    ASSUME NEW c \in Seq(Item), NEW x, IsLine(c, x), NEW rs, NEW ss,
           RingsBefore(c, rs, x.of), StatsBefore(c, ss, x.of)
    PROVE  /\ ~IsLast(c, x) => /\ RingsBefore(c, rs, After(c, x).of)
                               /\ StatsBefore(c, ss, After(c, x).of)
           /\ IsLast(c, x) =>
                 /\ c[x.of].kind # "ring" => RingsBefore(c, rs, After(c, x).of)
                 /\ c[x.of].kind # "stats" => StatsBefore(c, ss, After(c, x).of)
<1>1. x.of \in 1..Len(c) /\ x.of \in Nat /\ Len(c) \in Nat
  BY DEF IsLine, LineT
<1>2. ~IsLast(c, x) => After(c, x).of = x.of
  BY AfterSame
<1>3. IsLast(c, x) => After(c, x).of = x.of + 1
  BY AfterLast
<1>4. c[x.of].kind # "ring" => RingsBefore(c, rs, x.of + 1)
  BY <1>1, BeforeOther DEF RingsBefore
<1>5. c[x.of].kind # "stats" => StatsBefore(c, ss, x.of + 1)
  BY <1>1, BeforeOther DEF StatsBefore
<1> QED
  BY <1>2, <1>3, <1>4, <1>5

\* The ring that is open is reported.
LEMMA RingReported ==
    ASSUME CaptureInv, ring # <<>>, NEW k \in 1..Len(items), items[k].kind = "ring",
           RingsBefore(items, rings, k), ring[1].hdr.one = k, OneDumpRing(items, ring[1])
    PROVE  RingsBefore(items, Append(rings, ring[1]), k + 1)
<1> DEFINE n == Len(rings)
           rs == Append(rings, ring[1])
           f == [j \in DOMAIN rings |-> rings[j].hdr.one]
           g == [j \in DOMAIN rs |-> rs[j].hdr.one]
<1>1. /\ n \in Nat /\ DOMAIN rings = 1..n /\ DOMAIN rs = 1..n + 1
      /\ \A j \in 1..n : rs[j] = rings[j]
      /\ rs[n + 1] = ring[1]
  BY RingsAppended
<1>2. Len(items) \in Nat
  BY CaptureAssumption DEF CaptureInv, ChainInv
<1> HIDE DEF n, rs
<1>3. /\ DOMAIN f = 1..n /\ DOMAIN g = 1..n + 1
      /\ \A j \in 1..n : g[j] = f[j]
      /\ g[n + 1] = k
  <2>1. \A j \in 1..n : j \in 1..n + 1
    BY <1>1
  <2>2. n + 1 \in 1..n + 1
    BY <1>1
  <2> QED
    BY <1>1, <2>1, <2>2
<1>4. Before(items, f, "ring", k)
  BY DEF RingsBefore
<1> HIDE DEF f, g
<1>5. Before(items, g, "ring", k + 1)
  BY <1>1, <1>2, <1>3, <1>4, BeforeMore
<1>6. \A j \in DOMAIN rs : OneDumpRing(items, rs[j])
  <2>1. \A j \in DOMAIN rs : j \in 1..n \/ j = n + 1
    BY <1>1
  <2> QED
    BY <1>1, <2>1 DEF RingsBefore
<1> QED
  BY <1>5, <1>6 DEF RingsBefore, g, rs

\* The stats dump that is open is reported.
LEMMA RecordReported ==
    ASSUME CaptureInv, st # <<>>, NEW k \in 1..Len(items), items[k].kind = "stats",
           StatsBefore(items, stats, k), st[1] = RecordOf(items, k), st[1].ver = k
    PROVE  StatsBefore(items, Append(stats, st[1]), k + 1)
<1> DEFINE n == Len(stats)
           ss == Append(stats, st[1])
           f == [j \in DOMAIN stats |-> stats[j].ver]
           g == [j \in DOMAIN ss |-> ss[j].ver]
<1>1. /\ n \in Nat /\ DOMAIN stats = 1..n /\ DOMAIN ss = 1..n + 1
      /\ \A j \in 1..n : ss[j] = stats[j]
      /\ ss[n + 1] = st[1]
  BY StatsAppended
<1>2. Len(items) \in Nat
  BY CaptureAssumption DEF CaptureInv, ChainInv
<1> HIDE DEF n, ss
<1>3. /\ DOMAIN f = 1..n /\ DOMAIN g = 1..n + 1
      /\ \A j \in 1..n : g[j] = f[j]
      /\ g[n + 1] = k
  <2>1. \A j \in 1..n : j \in 1..n + 1
    BY <1>1
  <2>2. n + 1 \in 1..n + 1
    BY <1>1
  <2> QED
    BY <1>1, <2>1, <2>2
<1>4. Before(items, f, "stats", k)
  BY DEF StatsBefore
<1> HIDE DEF f, g
<1>5. Before(items, g, "stats", k + 1)
  BY <1>1, <1>2, <1>3, <1>4, BeforeMore
<1>6. \A j \in DOMAIN ss : ss[j] = RecordOf(items, ss[j].ver)
  <2>1. \A j \in DOMAIN ss : j \in 1..n \/ j = n + 1
    BY <1>1
  <2> QED
    BY <1>1, <2>1 DEF StatsBefore
<1> QED
  BY <1>5, <1>6 DEF StatsBefore, g, ss

\* When every line arrives none is passed over.
LEMMA NoSkip ==
    ASSUME CaptureInv, Skip, IntactAt(items, Here)
    PROVE  FALSE
<1>1. CASE ring # <<>>
  BY <1>1 DEF Skip, IntactAt, RingAt
<1>2. CASE ring = <<>>
  <2>1. ~InDump(Here)
    BY <1>2 DEF IntactAt, RingAt
  <2>2. st = <<>> /\ Here.tag \in StatsTags \ {"top", "ver"}
    BY <1>2, <2>1 DEF Skip
  <2>3. st = <<RecordBy(items, Here)>>
    BY <2>2 DEF IntactAt, RecordAt, AfterTop
  <2> QED
    BY <2>2, <2>3
<1> QED
  BY <1>1, <1>2

\* Nor is a sample that lost some bytes among them.
LEMMA NoBadSample ==
    ASSUME CaptureInv, lost = 0, MalformedSample
    PROVE  FALSE
<1>1. wire # <<>> /\ Head(wire).tag = "badsample"
  BY DEF MalformedSample, Reading
<1>2. wire \in Seq(WireT(items)) /\ \A j \in 1..Len(wire) : wire[j].tag = "badsample" => lost >= 1
  BY DEF CaptureInv, ChainInv, Wired
<1>3. 1 \in 1..Len(wire) /\ wire[1].tag = "badsample"
  BY <1>1, <1>2
<1>4. lost >= 1
  BY <1>2, <1>3
<1> QED
  BY <1>4

\* A ring: its header, its begin, a sample, its end.
LEMMA RingStepIntact ==
    ASSUME CaptureInv, items' = items, Take, IntactAt(items, Here), AllKnown,
           ReadHdr \/ ReadBegin \/ ReadSample \/ ReadEnd
    PROVE  outcome' = "reading" /\ IntactAt(items, Here)'
<1> DEFINE c == items
           x == Here
           y == After(c, x)
<1> USE DEF CaptureInv
<1>1. /\ c \in Seq(Item) /\ IsLine(c, x) /\ Here' = y /\ outcome = "reading" /\ items' = c
      /\ pending \in Header(c) /\ (ring # <<>> => ring[1] \in RingOf(c))
  BY CaptureAssumption DEF Take, Advance, ChainInv, ReaderType
<1>2. /\ HeaderAt(c, x, pending) /\ RingAt(c, x, ring) /\ RecordAt(c, x, st)
      /\ RingsBefore(c, rings, x.of) /\ StatsBefore(c, stats, x.of)
  BY DEF IntactAt
<1>3. /\ x.of \in 1..Len(c) /\ x.of = Head(wire).of /\ c[x.of] \in Item
      /\ x.tag \in {"hdr1", "hdr2", "begin", "sample", "end"}
  BY <1>1, TakeLine
<1>4. c[x.of].kind = "ring"
  BY <1>1, <1>3 DEF IsLine, RingTags
<1>5. st = <<>> /\ y.tag \notin AfterTop
  <2>1. x.tag \notin StatsTags
    BY <1>3 DEF StatsTags
  <2>2. y.tag \notin AfterTop
    BY <1>1, <2>1, AfterTopNext
  <2> QED
    BY <1>2, <2>1, <2>2 DEF RecordAt, AfterTop
<1>6. UNCHANGED <<st, stats>>
  BY <1>1 DEF ReadHdr, ReadBegin, ReadSample, ReadEnd, Refuse
<1>7. StatsBefore(c, stats, y.of)
  BY <1>1, <1>2, <1>4, ReportsPass
<1>8. ASSUME outcome' = "reading", HeaderAt(c, y, pending'), RingAt(c, y, ring'),
             RingsBefore(c, rings', y.of)
      PROVE  outcome' = "reading" /\ IntactAt(items, Here)'
  <2> HIDE DEF c, y
  <2>1. RecordAt(c, y, st') /\ StatsBefore(c, stats', y.of)
    BY <1>5, <1>6, <1>7 DEF RecordAt
  <2> QED
    BY <1>1, <1>8, <2>1 DEF IntactAt, c
<1>9. CASE ReadHdr
  <2>1. /\ ring = <<>> /\ UNCHANGED <<ring, rings, outcome>> /\ ~IsLast(c, x)
        /\ \/ x.tag = "hdr1" /\ pending' = [pending EXCEPT !.one = x.of]
           \/ /\ x.tag = "hdr2"
              /\ pending' = [pending EXCEPT !.two = x.of,
                                !.extra = IF Ver(x.of) = 1 THEN @ ELSE x.of]
    BY <1>3, <1>9, TakeLine DEF ReadHdr, IsLast
  <2>2. /\ y.of = x.of
        /\ x.tag = "hdr1" => y.tag = "hdr2"
        /\ x.tag = "hdr2" => y.tag = "begin"
    BY <1>1, <2>1, AfterSame
  <2>3. x.tag = "hdr2" => pending.one = x.of
    BY <1>2 DEF HeaderAt
  <2>4. RingsBefore(c, rings, y.of)
    BY <1>1, <1>2, <2>1, ReportsPass
  <2> HIDE DEF y
  <2>5. HeaderAt(c, y, pending')
    BY <1>1, <2>1, <2>2, <2>3 DEF HeaderAt, Header, Ver
  <2>6. RingAt(c, y, ring')
    BY <2>1, <2>2 DEF RingAt, InDump
  <2> QED
    BY <1>1, <1>8, <2>1, <2>4, <2>5, <2>6 DEF y
<1>10. CASE ReadBegin
  <2>1. x.tag = "begin" /\ ~IsLast(c, x)
    BY <1>10, TakeLine DEF IsLast
  <2>2. /\ pending.one = x.of /\ pending.two = x.of
        /\ c[x.of].ver # 1 => pending.extra = x.of
    BY <1>2, <2>1 DEF HeaderAt
  <2>3. HeaderComplete(pending)
    BY <1>3, <2>2 DEF HeaderComplete, Ver, AllKnown
  <2>4. ring' = <<Ring(pending)>> /\ UNCHANGED <<rings, outcome>>
    BY <1>10, <2>3 DEF ReadBegin
  <2>5. InDump(y) /\ y.of = x.of /\ Gone(c, y) = 0
    BY <1>1, <2>1, AfterSame, GoneAfter DEF InDump
  <2>6. RingsBefore(c, rings, y.of)
    BY <1>1, <1>2, <2>1, ReportsPass
  <2>7. ring'[1] = Ring(pending) /\ ring' # <<>>
    BY <2>4
  <2>8. /\ Ring(pending).hdr = pending /\ Ring(pending).samples = <<>>
        /\ Len(<<>>) = 0 /\ DOMAIN <<>> = {}
    BY DEF Ring
  <2> HIDE DEF y
  <2>9. OneDumpRing(c, Ring(pending))
    BY <2>2, <2>8 DEF OneDumpRing, HeaderOfOne
  <2>10. RingAt(c, y, ring')
    BY <2>2, <2>5, <2>7, <2>8, <2>9 DEF RingAt
  <2>11. HeaderAt(c, y, pending')
    BY <2>5 DEF HeaderAt, InDump
  <2> QED
    BY <1>1, <1>8, <2>4, <2>6, <2>10, <2>11 DEF y
<1>11. CASE ReadSample
  <2> DEFINE r == ring[1]
             q == [r EXCEPT !.samples = Append(@, x)]
  <2>1. /\ ring # <<>> /\ ring' = <<q>> /\ UNCHANGED <<pending, rings, outcome>>
        /\ x.tag = "sample" /\ ~IsLast(c, x)
    BY <1>11, TakeLine DEF ReadSample, IsLast
  <2>2. /\ r.hdr.one = x.of /\ OneDumpRing(c, r) /\ Len(r.samples) = Gone(c, x)
        /\ r \in RingOf(c)
    BY <1>1, <1>2, <2>1 DEF RingAt, InDump
  <2>3. InDump(y) /\ y.of = x.of /\ Gone(c, y) = Gone(c, x) + 1
    BY <1>1, <2>1, AfterSame, GoneAfter DEF InDump
  <2>4. RingsBefore(c, rings, y.of)
    BY <1>1, <1>2, <2>1, ReportsPass
  <2>5. x \in Sample(c)
    BY <1>1, <2>1 DEF Sample, IsLine, LineT
  <2> DEFINE S == Sample(c)
             s == r.samples
             u == Append(s, x)
  <2>6. s \in Seq(S) /\ x \in S
    BY <1>1, <2>2, <2>5, RingFields
  <2>7. q.hdr = r.hdr /\ q.samples = u
    BY <2>2 DEF RingOf
  <2>8. ring'[1] = q /\ ring' # <<>>
    BY <2>1
  <2> HIDE DEF c, x, y, S, s
  <2>9. /\ Len(u) = Len(s) + 1 /\ DOMAIN u = 1..Len(s) + 1 /\ u[Len(s) + 1] = x
        /\ \A j \in DOMAIN s : u[j] = s[j]
        /\ \A j \in DOMAIN u : j \in DOMAIN s \/ j = Len(s) + 1
    BY <2>6
  <2> HIDE DEF u, q, r
  <2>10. OneDumpRing(c, q)
    <3>1. HeaderOfOne(c, r.hdr) /\ \A j \in DOMAIN s : s[j].of = r.hdr.one
      BY <2>2 DEF OneDumpRing, s
    <3>2. \A j \in DOMAIN u : u[j].of = r.hdr.one
      BY <2>2, <2>9, <3>1
    <3> QED
      BY <2>7, <3>1, <3>2 DEF OneDumpRing
  <2>11. RingAt(c, y, ring')
    BY <2>2, <2>3, <2>7, <2>8, <2>9, <2>10 DEF RingAt, s
  <2>12. HeaderAt(c, y, pending')
    BY <2>3 DEF HeaderAt, InDump
  <2> QED
    BY <1>1, <1>8, <2>1, <2>4, <2>11, <2>12
<1>12. CASE ReadEnd
  <2> DEFINE r == ring[1]
  <2>1. ring # <<>> /\ x.tag = "end" /\ IsLast(c, x)
    BY <1>12, TakeLine DEF ReadEnd, IsLast
  <2>2. r.hdr.one = x.of /\ OneDumpRing(c, r) /\ Len(r.samples) = Gone(c, x)
    BY <1>2, <2>1 DEF RingAt, InDump
  <2>3. Gone(c, x) = c[x.of].n
    BY <1>1, <2>1, GoneAfter
  <2>4. RingCloses(r, items[Head(wire).of].n)
    BY <1>3, <2>2, <2>3 DEF RingCloses
  <2>5. ring' = <<>> /\ rings' = Append(rings, r) /\ UNCHANGED <<pending, outcome>>
    BY <1>12, <2>4 DEF ReadEnd
  <2>6. y.of = x.of + 1 /\ y.tag \in {"hdr1", "top", "boot", "eof"}
    BY <1>1, <2>1, AfterLast
  <2>7. RingsBefore(c, rings', y.of)
    BY <1>2, <1>3, <1>4, <2>1, <2>2, <2>5, <2>6, RingReported
  <2> HIDE DEF y
  <2>8. RingAt(c, y, ring') /\ HeaderAt(c, y, pending')
    BY <2>5, <2>6 DEF RingAt, InDump, HeaderAt
  <2> QED
    BY <1>1, <1>8, <2>5, <2>7, <2>8 DEF y
<1> QED
  BY <1>9, <1>10, <1>11, <1>12

\* A boot line or its calibration, and the lines of a stats dump.
LEMMA OtherStepIntact ==
    ASSUME CaptureInv, items' = items, Take, IntactAt(items, Here), AllKnown,
           ReadBoot \/ ReadCal \/ ReadTop \/ ReadVer \/ ReadRow \/ ReadStatsEnd
    PROVE  outcome' = "reading" /\ IntactAt(items, Here)'
<1> DEFINE c == items
           x == Here
           y == After(c, x)
<1> USE DEF CaptureInv
<1>1. /\ c \in Seq(Item) /\ IsLine(c, x) /\ Here' = y /\ outcome = "reading" /\ items' = c
      /\ (st # <<>> => st[1] \in StatsOf(c))
  BY CaptureAssumption DEF Take, Advance, ChainInv, ReaderType
<1>2. /\ HeaderAt(c, x, pending) /\ RingAt(c, x, ring) /\ RecordAt(c, x, st)
      /\ RingsBefore(c, rings, x.of) /\ StatsBefore(c, stats, x.of)
  BY DEF IntactAt
<1>3. /\ x.of \in 1..Len(c) /\ x.of = Head(wire).of /\ c[x.of].ver \in Known
      /\ x.tag \in BootTags \cup StatsTags
  <2>1. x.of \in 1..Len(c) /\ x.of = Head(wire).of
    BY TakeLine
  <2>2. x.tag \in BootTags \cup StatsTags
    BY TakeLine DEF BootTags, StatsTags
  <2>3. c[x.of].ver \in Known
    BY <1>1, <2>1 DEF AllKnown, Ver
  <2> QED
    BY <2>1, <2>2, <2>3
<1>4. /\ c[x.of].kind # "ring"
      /\ x.tag \in BootTags => c[x.of].kind = "boot"
      /\ x.tag \in StatsTags => c[x.of].kind = "stats"
  BY <1>1, <1>3 DEF IsLine
<1>5. UNCHANGED <<ring, rings, pending, outcome>> /\ ring = <<>>
  <2>1. ring = <<>> /\ UNCHANGED <<ring, rings, pending>>
    BY DEF ReadBoot, ReadCal, ReadTop, ReadVer, ReadRow, ReadStatsEnd, Reading, InStats, Refuse
  <2> QED
    BY <1>3, <2>1 DEF ReadBoot, ReadCal, ReadTop, ReadVer, ReadRow, ReadStatsEnd, Ver
<1>6. y.tag \notin {"hdr2", "begin", "sample", "end"}
  <2>1. CASE IsLast(c, x)
    BY <1>1, <2>1, AfterLast
  <2>2. CASE ~IsLast(c, x)
    <3>1. x.tag \in {"boot", "top", "ver", "row", "span", "spantotal", "trans"}
      BY <1>3, <2>2 DEF IsLast, BootTags, StatsTags
    <3>2. y.tag \in {"cal", "ver", "row", "span", "spantotal", "trans", "statsend"}
      BY <1>1, <2>2, <3>1, AfterSame
    <3> QED
      BY <3>2
  <2> QED
    BY <2>1, <2>2
<1>7. RingsBefore(c, rings, y.of)
  BY <1>1, <1>2, <1>4, ReportsPass
<1>8. ASSUME RecordAt(c, y, st'), StatsBefore(c, stats', y.of)
      PROVE  outcome' = "reading" /\ IntactAt(items, Here)'
  <2> HIDE DEF c, y
  <2>1. HeaderAt(c, y, pending') /\ RingAt(c, y, ring')
    BY <1>5, <1>6 DEF HeaderAt, RingAt, InDump
  <2> QED
    BY <1>1, <1>5, <1>7, <1>8, <2>1 DEF IntactAt, c
<1>9. CASE ReadBoot \/ ReadCal
  <2>1. x.tag \in BootTags /\ x.tag \notin StatsTags /\ UNCHANGED <<st, stats>>
    BY <1>9, TakeLine DEF BootTags, StatsTags, ReadBoot, ReadCal, Refuse
  <2>2. StatsBefore(c, stats, y.of)
    BY <1>1, <1>2, <1>4, <2>1, ReportsPass
  <2>3. st = <<>> /\ y.tag \notin AfterTop
    BY <1>1, <1>2, <2>1, AfterTopNext DEF RecordAt, AfterTop
  <2> HIDE DEF y
  <2>4. RecordAt(c, y, st')
    BY <2>1, <2>3 DEF RecordAt
  <2> QED
    BY <1>8, <2>1, <2>2, <2>4 DEF y
\* The other lines of a stats dump but its last.
<1>10. ASSUME x.tag \in StatsTags \ {"statsend"}, stats' = stats, st' = <<RecordBy(c, y)>>
       PROVE  outcome' = "reading" /\ IntactAt(items, Here)'
  <2>1. ~IsLast(c, x) /\ y.tag \in AfterTop
    BY <1>1, <1>10, AfterTopNext DEF IsLast, AfterTop, StatsTags
  <2>2. StatsBefore(c, stats, y.of)
    BY <1>1, <1>2, <2>1, ReportsPass
  <2> HIDE DEF y
  <2>3. RecordAt(c, y, st')
    BY <1>10, <2>1 DEF RecordAt
  <2> QED
    BY <1>8, <1>10, <2>2, <2>3 DEF y
<1>11. CASE ReadTop
  <2>1. x.tag = "top" /\ st' = <<Stats>> /\ stats' = stats
    BY <1>11, TakeLine DEF ReadTop
  <2>2. x.tag \in StatsTags \ {"statsend"} /\ RecordBy(c, y) = Stats
    BY <1>1, <2>1, RecordOpened DEF StatsTags
  <2> QED
    BY <1>10, <2>1, <2>2
<1>12. CASE ReadVer
  <2>1. /\ x.tag = "ver" /\ stats' = stats
        /\ st' = <<VersionRead(IF st = <<>> THEN Stats ELSE st[1], x.of)>>
    BY <1>3, <1>12, VerTaken
  <2>2. /\ x.tag \in StatsTags \ {"statsend"} /\ x.tag \in AfterTop
        /\ RecordBy(c, y) = VersionRead(Stats, x.of) /\ RecordBy(c, x) = Stats
    BY <1>1, <2>1, RecordVer DEF StatsTags, AfterTop
  <2>3. (IF st = <<>> THEN Stats ELSE st[1]) = Stats
    <3>1. st = <<Stats>> \/ st = <<>>
      BY <1>2, <2>2 DEF RecordAt
    <3>2. st = <<Stats>> => st[1] = Stats
      OBVIOUS
    <3> QED
      BY <3>1, <3>2
  <2> QED
    BY <1>10, <2>1, <2>2, <2>3
<1>13. CASE ReadRow
  <2> DEFINE s == st[1]
             k == x.of
             i == x.i
  <2>1. /\ st # <<>> /\ stats' = stats
        /\ \/ x.tag = "row" /\ st' = <<RowRead(s, i, k)>>
           \/ x.tag = "span" /\ st' = <<SpanRead(s, i, k)>>
           \/ x.tag = "spantotal" /\ st' = <<TotalRead(s, k)>>
           \/ x.tag = "trans" /\ st' = <<TransRead(s, k)>>
    BY <1>13, RowTaken
  <2>2. x.tag \in StatsTags \ {"statsend"} /\ x.tag \in AfterTop /\ x.tag # "ver"
    BY <2>1 DEF StatsTags, AfterTop
  <2>3. s = RecordBy(c, x)
    <3>1. st = <<RecordBy(c, x)>>
      BY <1>2, <2>2 DEF RecordAt
    <3> QED
      BY <3>1
  <2> HIDE DEF s
  <2>4. st' = <<RecordBy(c, y)>>
    BY <1>1, <2>1, <2>3, RecordRow, RecordSpan, RecordTotals
  <2> QED
    BY <1>10, <2>1, <2>2, <2>4
<1>14. CASE ReadStatsEnd
  <2>1. /\ x.tag = "statsend" /\ st # <<>> /\ st' = <<>> /\ stats' = Append(stats, st[1])
        /\ IsLast(c, x)
    BY <1>14, TakeLine DEF ReadStatsEnd, InStats, IsLast
  <2>2. st[1] = RecordOf(c, x.of) /\ st[1].ver = x.of
    <3>1. st = <<RecordBy(c, x)>>
      BY <1>2, <2>1 DEF RecordAt, AfterTop, StatsTags
    <3>2. st[1] = RecordBy(c, x)
      BY <3>1
    <3> QED
      BY <1>1, <2>1, <3>2, RecordLast
  <2>3. y.of = x.of + 1 /\ y.tag \notin AfterTop
    BY <1>1, <2>1, AfterTopNext
  <2>4. c[x.of].kind = "stats"
    BY <1>4, <2>1 DEF StatsTags
  <2>5. StatsBefore(c, stats', y.of)
    BY <1>2, <1>3, <2>1, <2>2, <2>3, <2>4, RecordReported
  <2> HIDE DEF y
  <2>6. RecordAt(c, y, st')
    BY <2>1, <2>3 DEF RecordAt
  <2> QED
    BY <1>8, <2>5, <2>6 DEF y
<1> QED
  BY <1>9, <1>11, <1>12, <1>13, <1>14

\* The end of a capture that lost no line.
LEMMA FinishIntact ==
    ASSUME CaptureInv, items' = items, Stop, IntactAt(items, Here)
    PROVE  \/ /\ outcome' = "done"
              /\ RingsBefore(items, rings', Len(items) + 1)
              /\ StatsBefore(items, stats', Len(items) + 1)
           \/ outcome' = "error" /\ \A k \in DOMAIN items : items[k].kind = "boot"
<1>1. /\ items \in Seq(Item) /\ DOMAIN items = 1..Len(items) /\ Len(items) \in Nat
      /\ rings \in Seq(RingOf(items)) /\ stats \in Seq(StatsOf(items))
  BY CaptureAssumption DEF CaptureInv, ChainInv, ReaderType
<1>2. Here = Eof(items)
  <2>1. Here.tag = "eof"
    BY DEF Stop
  <2> QED
    BY <2>1, HereIsLine, LineNotEof DEF CaptureInv
<1>3. Here.of = Len(items) + 1 /\ Here.tag = "eof"
  BY <1>2 DEF Eof, Line
<1> HIDE DEF Here
<1>4. /\ ring = <<>> /\ st = <<>>
      /\ RingsBefore(items, rings, Len(items) + 1)
      /\ StatsBefore(items, stats, Len(items) + 1)
  BY <1>3 DEF IntactAt, RingAt, RecordAt, InDump, AfterTop, StatsTags
<1>5. stats \o st = stats
  BY <1>1, <1>4, ConcatEmptySeq
<1>6. CASE rings = <<>> /\ stats = <<>>
  <2>1. outcome' = "error"
    BY <1>5, <1>6 DEF Stop, Finish, Refuse
  <2>2. DOMAIN rings = {} /\ DOMAIN stats = {}
    BY <1>6
  <2>3. ASSUME NEW k \in DOMAIN items PROVE items[k].kind = "boot"
    <3>1. k \in 1..Len(items) /\ k < Len(items) + 1 /\ items[k] \in Item
      BY <1>1
    <3>2. items[k].kind # "ring"
      <4>1. {m \in 1..Len(items) : m < Len(items) + 1 /\ items[m].kind = "ring"} = {}
        BY <1>4, <2>2 DEF RingsBefore, Before
      <4> QED
        BY <3>1, <4>1
    <3>3. items[k].kind # "stats"
      <4>1. {m \in 1..Len(items) : m < Len(items) + 1 /\ items[m].kind = "stats"} = {}
        BY <1>4, <2>2 DEF StatsBefore, Before
      <4> QED
        BY <3>1, <4>1
    <3> QED
      BY <3>1, <3>2, <3>3 DEF Item
  <2> QED
    BY <2>1, <2>3
<1>7. CASE ~(rings = <<>> /\ stats = <<>>)
  <2>1. outcome' = "done" /\ rings' = rings /\ stats' = stats
    BY <1>4, <1>5, <1>7 DEF Stop, Finish
  <2> QED
    BY <1>4, <2>1
<1> QED
  BY <1>6, <1>7

\* Every step of a capture without losses keeps the reader at one with it.
LEMMA IntactInvNext ==
    ASSUME CaptureInv, IntactInv, items' = items, Moves
    PROVE  IntactInv'
<1> SUFFICES ASSUME lost' = 0, AllKnown
             PROVE  \/ outcome' = "reading" /\ IntactAt(items, Here)'
                    \/ /\ outcome' = "done"
                       /\ RingsBefore(items, rings', Len(items) + 1)
                       /\ StatsBefore(items, stats', Len(items) + 1)
                    \/ outcome' = "error" /\ \A k \in DOMAIN items : items[k].kind = "boot"
  BY DEF IntactInv, AllKnown, Ver
<1>1. lost = 0 /\ lost \in Nat
  BY LostGrows
<1>2. \/ outcome = "reading" /\ IntactAt(items, Here)
      \/ /\ outcome = "done"
         /\ RingsBefore(items, rings, Len(items) + 1)
         /\ StatsBefore(items, stats, Len(items) + 1)
      \/ outcome = "error" /\ \A k \in DOMAIN items : items[k].kind = "boot"
  BY <1>1 DEF IntactInv
<1>3. CASE Stay
  <2>1. Here' = Here /\ UNCHANGED reader
    BY <1>3 DEF Stay
  <2> HIDE DEF Here
  <2>2. IntactAt(items, Here) => IntactAt(items, Here)'
    BY <2>1 DEF IntactAt, reader
  <2> QED
    BY <1>2, <2>1, <2>2 DEF reader
<1>4. CASE CutOff
  <2>1. wire # <<>> /\ lost' = lost + Len(wire) /\ wire \in Seq(WireT(items))
    BY <1>4 DEF CutOff, CaptureInv, ChainInv, Wired
  <2>2. Len(wire) \in Nat \ {0}
    BY <2>1
  <2> QED
    BY <1>1, <2>1, <2>2
<1>5. CASE outcome = "reading"
  <2>0. IntactAt(items, Here)
    BY <1>2, <1>5
  <2>1. CASE Skip
    BY <2>0, <2>1, NoSkip
  <2>2. CASE Stop
    BY <2>0, <2>2, FinishIntact
  <2>3. CASE Take
    <3>1. ~MalformedSample
      BY <1>1, NoBadSample
    <3> QED
      BY <2>0, <2>3, <3>1, RingStepIntact, OtherStepIntact DEF Take
  <2>4. CASE Miss
    <3> DEFINE c == items
               x == Here
               y == After(c, x)
    <3>1. x.tag = "top" /\ IsLine(c, x) /\ Here' = y /\ UNCHANGED reader /\ c \in Seq(Item)
      BY <1>1, <2>4, CaptureAssumption DEF Miss, Advance, CaptureInv, ChainInv
    <3>2. y.of = x.of /\ y.tag = "ver"
      BY <3>1, AfterSame DEF IsLast
    <3>3. ring = <<>> /\ st = <<>>
      BY <2>0, <3>1 DEF IntactAt, RingAt, RecordAt, InDump, AfterTop
    <3>4. RingsBefore(c, rings, y.of) /\ StatsBefore(c, stats, y.of)
      BY <2>0, <3>2 DEF IntactAt
    <3> HIDE DEF c, x, y
    <3>5. HeaderAt(c, y, pending) /\ RingAt(c, y, ring) /\ RecordAt(c, y, st)
      BY <3>2, <3>3 DEF HeaderAt, RingAt, RecordAt, InDump, AfterTop, StatsTags
    <3>6. IntactAt(items, Here)'
      BY <3>1, <3>4, <3>5 DEF IntactAt, reader, c
    <3> QED
      BY <1>5, <3>1, <3>6 DEF reader
  <2> QED
    BY <1>3, <1>4, <2>1, <2>2, <2>3, <2>4 DEF Moves
<1> QED
  BY <1>3, <1>4, <1>5 DEF Moves, Miss, Skip, Take, Stop, Advance, Finish

\* At the start nothing has been printed and nothing is reported.
LEMMA IntactInvInit == Init => IntactInv
<1> SUFFICES ASSUME Init PROVE IntactAt(items, Here) /\ outcome = "reading"
  BY DEF IntactInv
<1> DEFINE c == items
           x == Here
<1>1. c \in Seq(Item) /\ DOMAIN c = 1..Len(c) /\ Len(c) \in Nat
  BY CaptureAssumption DEF Init
<1>2. x = FirstOf(c, 1)
  BY ChainInit
<1>3. x.of = 1 /\ x.tag \in {"eof", "hdr1", "top", "boot"}
  <2> HIDE DEF x
  <2>1. CASE Len(c) = 0
    <3>1. x = Eof(c)
      BY <1>2, <2>1 DEF FirstOf
    <3> QED
      BY <2>1, <3>1 DEF Eof, Line
  <2>2. CASE Len(c) # 0
    <3>1. c[1] \in Item /\ ~(1 > Len(c))
      BY <1>1, <2>2
    <3>2. c[1].kind \in {"ring", "stats", "boot"}
      BY <3>1 DEF Item
    <3> HIDE DEF c
    <3>3. x = Line(CASE c[1].kind = "ring"  -> "hdr1"
                     [] c[1].kind = "stats" -> "top"
                     [] c[1].kind = "boot"  -> "boot", 1, 0)
      BY <1>2, <3>1 DEF FirstOf
    <3> QED
      BY <3>2, <3>3 DEF Line
  <2> QED
    BY <2>1, <2>2
<1>4. ring = <<>> /\ st = <<>> /\ rings = <<>> /\ stats = <<>> /\ outcome = "reading"
  BY DEF Init
<1>5. \A f, kind : DOMAIN f = {} => Before(c, f, kind, 1)
  <2> SUFFICES ASSUME NEW f, NEW kind, DOMAIN f = {} PROVE Before(c, f, kind, 1)
    OBVIOUS
  <2>1. {m \in 1..Len(c) : m < 1 /\ c[m].kind = kind} = {}
    BY <1>1
  <2> QED
    BY <2>1 DEF Before
<1>6. DOMAIN rings = {} /\ DOMAIN stats = {}
  BY <1>4
<1> HIDE DEF c, x
<1>7. RingsBefore(c, rings, 1) /\ StatsBefore(c, stats, 1)
  BY <1>5, <1>6 DEF RingsBefore, StatsBefore
<1>8. HeaderAt(c, x, pending) /\ RingAt(c, x, ring) /\ RecordAt(c, x, st)
  BY <1>3, <1>4 DEF HeaderAt, RingAt, RecordAt, InDump, AfterTop, StatsTags
<1> QED
  BY <1>3, <1>4, <1>7, <1>8 DEF IntactAt, c, x

\* The record after the last line is that of the whole dump.
LEMMA RecordIsWhole ==
    ASSUME NEW k
    PROVE  RecordOf(items, k) = WholeStats(k)
<1> DEFINE x == Line("statsend", k, 0)
<1>1. Rows \in Nat /\ x.tag = "statsend" /\ x.of = k
  BY CaptureAssumption DEF Line
<1> HIDE DEF x
<1>2. RowsBy(x) = Rows + 1 /\ SpansBy(x) = Rows + 1
  BY <1>1 DEF RowsBy, SpansBy
<1>3. Rows + 1 > 1
  BY CaptureAssumption
<1>4. \A i \in 1..Rows : i < Rows + 1
  BY <1>1
<1>5. [i \in 1..Rows |-> IF i < Rows + 1 THEN k ELSE 0] = [i \in 1..Rows |-> k]
  BY <1>4
<1>6. [i \in 1..Rows |-> IF i < Rows + 1 /\ items[k].ver # 1 THEN k ELSE 0]
         = IF Ver(k) = 1 THEN NoRows ELSE [i \in 1..Rows |-> k]
  BY <1>4 DEF Ver, NoRows
<1>7. RecordBy(items, x) = WholeStats(k)
  BY <1>1, <1>2, <1>3, <1>5, <1>6 DEF RecordBy, WholeStats, Ver
<1> QED
  BY <1>7 DEF RecordOf, x

\* The dumps before the end of the capture are all of them.
LEMMA AllReported ==
    ASSUME items \in Seq(Item), NEW of, NEW kind, Before(items, of, kind, Len(items) + 1)
    PROVE  Reported(of, kind)
<1>1. DOMAIN items = 1..Len(items) /\ Len(items) \in Nat
  OBVIOUS
<1>2. \A m \in 1..Len(items) : m < Len(items) + 1
  BY <1>1
<1>3. {m \in 1..Len(items) : m < Len(items) + 1 /\ items[m].kind = kind}
         = {k \in DOMAIN items : items[k].kind = kind}
  BY <1>1, <1>2
<1> QED
  BY <1>3 DEF Before, Reported

\* A capture of known versions that lost no line is read, whatever the console
\* ate or put in between: every dump of it is reported, whole, as its own and
\* in the order printed, and the reader refuses it only when there is none.
THEOREM IntactCapturesAreRead == Spec => []IntactIsRead
<1>1. CaptureInv /\ IntactInv /\ [Next]_vars => IntactInv'
  BY MovesNext, IntactInvNext DEF CaptureInv
<1>2. CaptureInv /\ IntactInv => IntactIsRead
  <2> SUFFICES ASSUME CaptureInv, IntactInv, outcome # "reading", lost = 0, AllKnown,
                      \E k \in DOMAIN items : items[k].kind # "boot"
               PROVE  /\ outcome = "done"
                      /\ Reported([j \in DOMAIN rings |-> rings[j].hdr.one], "ring")
                      /\ \A j \in DOMAIN rings : OneRing(rings[j])
                      /\ Reported([j \in DOMAIN stats |-> stats[j].ver], "stats")
                      /\ \A j \in DOMAIN stats : stats[j] = WholeStats(stats[j].ver)
    BY DEF IntactIsRead, AllKnown
  <2>1. items \in Seq(Item)
    BY CaptureAssumption DEF CaptureInv, ChainInv
  <2>2. /\ outcome = "done"
        /\ RingsBefore(items, rings, Len(items) + 1)
        /\ StatsBefore(items, stats, Len(items) + 1)
    BY DEF IntactInv
  <2>3. Reported([j \in DOMAIN rings |-> rings[j].hdr.one], "ring")
    BY <2>1, <2>2, AllReported DEF RingsBefore
  <2>4. Reported([j \in DOMAIN stats |-> stats[j].ver], "stats")
    BY <2>1, <2>2, AllReported DEF StatsBefore
  <2>5. \A j \in DOMAIN rings : OneRing(rings[j])
    BY <2>2 DEF RingsBefore, OneDumpRing, HeaderOfOne, OneRing, Ver
  <2>6. \A j \in DOMAIN stats : stats[j] = WholeStats(stats[j].ver)
    BY <2>2, RecordIsWhole DEF StatsBefore
  <2> QED
    BY <2>2, <2>3, <2>4, <2>5, <2>6
<1> QED
  BY <1>1, <1>2, IntactInvInit, CaptureInvariance, PTL DEF Spec
=============================================================================
