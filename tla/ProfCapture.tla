--------------------------- MODULE ProfCapture ---------------------------
(***************************************************************************)
(* The capture reader of the profiler, src/tools/prof-symbolize.py.        *)
(*                                                                         *)
(* The firmware of the card prints, over one serial line that it shares    *)
(* with a console, boot lines, dumps of the sample ring and dumps of the   *)
(* stage counters.  The reader turns the captured lines back into boots,   *)
(* rings and stats, and must never present a profile of something that did *)
(* not happen.  What a line says is abstracted to its kind and to the item *)
(* that printed it, so that a dump the reader reports can be compared with *)
(* the dump the firmware wrote.                                            *)
(*                                                                         *)
(* Three things happen to a line on the way: it is lost (an unrecognisable *)
(* line is a lost one), it loses a prefix the reader can do without, or a  *)
(* line of the console comes ahead of it.                                  *)
(***************************************************************************)
EXTENDS Naturals, Sequences

CONSTANTS Captures,     \* sequences of items the firmware may print
          Rows,         \* stages of a stats dump; the stage of id 0 is 1
          Known,        \* wire versions of WIRE_VERSIONS
          MaxFaults     \* bound: faults of one capture

\* n is the number of samples of a ring, and priced says that a stats dump
\* carries a probe cost of its own.
Item == [kind : {"boot", "ring", "stats"}, ver : Nat \ {0}, n : Nat,
         priced : BOOLEAN]

ASSUME CaptureAssumption ==
    /\ MaxFaults \in Nat /\ Rows \in Nat \ {0} /\ Known \subseteq {1, 2}
    /\ Captures \subseteq Seq(Item)

VARIABLES
    items,      \* what the firmware prints
    wire,       \* the lines that have not reached the reader
    lost,       \* lines lost or broken
    eaten,      \* prefixes lost
    ring,       \* parse_capture's `ring': <<>>, or the open one
    st,         \* its `st': <<>>, or the open stats dump
    pending,    \* its `pending_hdr': who wrote each group of fields, or 0
    boot,       \* its `boot', the last boot line, or 0
    cal,        \* its `cal', the last calibration, or 0
    rings,      \* ring dumps read
    stats,      \* stats dumps read
    outcome     \* "reading", "done", or "error" for a CaptureError

source == <<items, lost, eaten>>
reader == <<ring, st, pending, boot, cal, rings, stats, outcome>>
vars == <<items, wire, lost, eaten, reader>>

----------------------------------------------------------------------------
(* The firmware's lines.                                                   *)

Line(tag, k, i) == [tag |-> tag, of |-> k, i |-> i]

RingDump(k, n) ==
    <<Line("hdr1", k, 0), Line("hdr2", k, 0), Line("begin", k, 0)>>
        \o [i \in 1..n |-> Line("sample", k, i)] \o <<Line("end", k, 0)>>

\* A dump of version 2 has the span rows and their total; the count of the
\* transitions is a counter of either version.
Spans(k, ver) == IF ver = 1 THEN <<>>
                 ELSE [i \in 1..Rows |-> Line("span", k, i)]
                          \o <<Line("spantotal", k, 0)>>
StatsDump(k, ver) ==
    <<Line("top", k, 0), Line("ver", k, 0)>>
        \o [i \in 1..Rows |-> Line("row", k, i)] \o Spans(k, ver)
        \o <<Line("trans", k, 0), Line("statsend", k, 0)>>

\* Only the firmware of version 2 prints its calibration.
BootLines(k, ver) ==
    <<Line("boot", k, 0)>> \o (IF ver = 2 THEN <<Line("cal", k, 0)>> ELSE <<>>)

Printed(c, k) == CASE c[k].kind = "ring"  -> RingDump(k, c[k].n)
                   [] c[k].kind = "stats" -> StatsDump(k, c[k].ver)
                   [] c[k].kind = "boot"  -> BootLines(k, c[k].ver)

PrintedUpTo(c) ==
    LET upTo[k \in 0..Len(c)] == IF k = 0 THEN <<>>
                                          ELSE upTo[k - 1] \o Printed(c, k)
    IN  upTo[Len(c)]

Ver(k) == items[k].ver

----------------------------------------------------------------------------
(* The reader's records.                                                   *)

NoHeader == [one |-> 0, two |-> 0, extra |-> 0]

\* A ring with its header and the samples read so far.
Ring(h) == [hdr |-> h, samples |-> <<>>]

\* A stats dump: the writer of its ver= line, of the row that declared its
\* shape, of each row, of the total of the spans and of TRANSITIONS.
NoRows == [i \in 1..Rows |-> 0]
Stats == [ver |-> 0, shape |-> 0, rows |-> NoRows, spans |-> NoRows,
          total |-> 0, trans |-> 0]

Init == /\ items \in Captures
        /\ wire = PrintedUpTo(items)
        /\ lost = 0 /\ eaten = 0
        /\ ring = <<>> /\ st = <<>> /\ pending = NoHeader
        /\ boot = 0 /\ cal = 0 /\ rings = <<>> /\ stats = <<>>
        /\ outcome = "reading"

----------------------------------------------------------------------------
(* What happens to a line on the way.                                      *)

Faulty == outcome = "reading" /\ wire # <<>> /\ lost + eaten < MaxFaults

Lose == /\ Faulty
        /\ wire' = Tail(wire) /\ lost' = lost + 1
        /\ UNCHANGED <<items, eaten, reader>>

\* The capture stops: everything after this line is lost.
Cut == /\ Faulty
       /\ wire' = <<>> /\ lost' = lost + Len(wire)
       /\ UNCHANGED <<items, eaten, reader>>

\* Bytes of a sample line are lost, and it is no longer of the fixed width.
Break == /\ Faulty /\ Head(wire).tag = "sample"
         /\ wire' = <<[Head(wire) EXCEPT !.tag = "badsample"]>> \o Tail(wire)
         /\ lost' = lost + 1
         /\ UNCHANGED <<items, eaten, reader>>

\* The echo of the command that asked for the dump collides with the first
\* lines of it: a header line loses "[PROF] ", or the banner is unreadable.
Eat == /\ Faulty /\ Head(wire).tag \in {"hdr1", "hdr2", "top"}
       /\ wire' = CASE Head(wire).tag = "hdr1" ->
                           <<[Head(wire) EXCEPT !.tag = "bare1"]>> \o Tail(wire)
                    [] Head(wire).tag = "hdr2" ->
                           <<[Head(wire) EXCEPT !.tag = "bare2"]>> \o Tail(wire)
                    [] Head(wire).tag = "top" ->
                           <<Line("console", 0, 0)>> \o Tail(wire)
       /\ eaten' = eaten + 1
       /\ UNCHANGED <<items, lost, reader>>

\* A line of the console, one that does not begin like a sample.
Console == /\ Faulty /\ Head(wire).tag # "console"
           /\ wire' = <<Line("console", 0, 0)>> \o wire
           /\ eaten' = eaten + 1
           /\ UNCHANGED <<items, lost, reader>>

----------------------------------------------------------------------------
(* parse_capture, a line at a time.                                        *)

Reading(tag) == outcome = "reading" /\ wire # <<>> /\ Head(wire).tag = tag
Consume == wire' = Tail(wire) /\ UNCHANGED source
Refuse == /\ outcome' = "error"
          /\ UNCHANGED <<ring, st, pending, boot, cal, rings, stats>>

(* Between "ring begin" and "ring end".                                    *)

ReadSample ==
    /\ Reading("sample") /\ ring # <<>>
    /\ ring' = <<[ring[1] EXCEPT !.samples = Append(@, Head(wire))]>>
    /\ Consume
    /\ UNCHANGED <<st, pending, boot, cal, rings, stats, outcome>>

MalformedSample == /\ Reading("badsample") /\ ring # <<>>
                   /\ Refuse /\ Consume

\* _close_ring: the header, the terminator and the lines read must agree.
CountUnchecked(r, promised) == promised = items[r.hdr.one].n
RingCloses(r, promised) == /\ promised = items[r.hdr.one].n
                           /\ Len(r.samples) = promised

ReadEnd ==
    /\ Reading("end") /\ ring # <<>> /\ Consume
    /\ IF RingCloses(ring[1], items[Head(wire).of].n)
       THEN /\ rings' = Append(rings, ring[1]) /\ ring' = <<>>
            /\ UNCHANGED <<st, pending, boot, cal, stats, outcome>>
       ELSE Refuse

(* Outside a ring.                                                         *)

ReadBoot == /\ Reading("boot") /\ ring = <<>> /\ Consume
            /\ IF Ver(Head(wire).of) \in Known
               THEN /\ boot' = Head(wire).of
                    /\ UNCHANGED <<ring, st, pending, cal, rings, stats, outcome>>
               ELSE Refuse

ReadCal == /\ Reading("cal") /\ ring = <<>> /\ Consume
           /\ cal' = Head(wire).of
           /\ UNCHANGED <<ring, st, pending, boot, rings, stats, outcome>>

\* RE_HDR and _salvage_hdr: which of the two header lines this is, if it is
\* one.
HdrPrefixed(tag) == CASE tag = "hdr1" -> 1 [] tag = "hdr2" -> 2 [] OTHER -> 0
HdrLine(tag) == CASE tag \in {"hdr1", "bare1"} -> 1
                  [] tag \in {"hdr2", "bare2"} -> 2
                  [] OTHER -> 0

\* The second line of version 2 has the extra fields probe_cyc and clk.
ReadHdr ==
    /\ outcome = "reading" /\ wire # <<>> /\ ring = <<>> /\ Consume
    /\ LET k == Head(wire).of
       IN  \/ /\ HdrLine(Head(wire).tag) = 1
              /\ pending' = [pending EXCEPT !.one = k]
           \/ /\ HdrLine(Head(wire).tag) = 2
              /\ pending' = [pending EXCEPT !.two = k,
                                            !.extra = IF Ver(k) = 1 THEN @ ELSE k]
    /\ UNCHANGED <<ring, st, boot, cal, rings, stats, outcome>>

\* _check_ring_header
HeaderComplete(h) == /\ h.one # 0 /\ h.two # 0
                     /\ Ver(h.one) \in Known
                     /\ Ver(h.one) # 1 => h.extra # 0

PendingKept(h) == h
PendingAfter(h) == NoHeader

ReadBegin ==
    /\ Reading("begin") /\ ring = <<>> /\ Consume
    /\ IF HeaderComplete(pending)
       THEN /\ ring' = <<Ring(pending)>> /\ pending' = PendingAfter(pending)
            /\ UNCHANGED <<st, boot, cal, rings, stats, outcome>>
       ELSE Refuse

ReadTop == /\ Reading("top") /\ ring = <<>> /\ Consume
           /\ st' = <<Stats>>
           /\ UNCHANGED <<ring, pending, boot, cal, rings, stats, outcome>>

\* A ver= line opens a dump whose banner did not arrive.
ReadVer ==
    /\ Reading("ver") /\ ring = <<>> /\ Consume
    /\ IF Ver(Head(wire).of) \in Known
       THEN /\ st' = <<[(IF st = <<>> THEN Stats ELSE st[1])
                            EXCEPT !.ver = Head(wire).of]>>
            /\ UNCHANGED <<ring, pending, boot, cal, rings, stats, outcome>>
       ELSE Refuse

\* The first row of id 0, of a bucket or of its spans, declares the shape.
Resolved(s, i, k) == [s EXCEPT !.shape = IF i = 1 /\ @ = 0 THEN k ELSE @]

InStats(tag) == Reading(tag) /\ ring = <<>> /\ st # <<>>
ReadRow ==
    /\ \/ /\ InStats("row")
          /\ LET k == Head(wire).of
                 i == Head(wire).i
             IN  st' = <<[Resolved(st[1], i, k) EXCEPT !.rows[i] = k]>>
       \/ /\ InStats("span")
          /\ LET k == Head(wire).of
                 i == Head(wire).i
             IN  st' = <<[Resolved(st[1], i, k) EXCEPT !.spans[i] = k]>>
       \/ /\ InStats("spantotal")
          /\ st' = <<[st[1] EXCEPT !.total = Head(wire).of]>>
       \/ /\ InStats("trans")
          /\ st' = <<[st[1] EXCEPT !.trans = Head(wire).of]>>
    /\ Consume
    /\ UNCHANGED <<ring, pending, boot, cal, rings, stats, outcome>>

ReadStatsEnd ==
    /\ InStats("statsend") /\ Consume
    /\ stats' = Append(stats, st[1]) /\ st' = <<>>
    /\ UNCHANGED <<ring, pending, boot, cal, rings, outcome>>

\* Every other line changes nothing: inside a ring it is a noise line, and
\* outside, a sample, an end or a row with nothing open is no line of a dump.
Unread(tag) == IF ring # <<>> THEN tag \notin {"sample", "badsample", "end"}
               ELSE \/ tag \in {"sample", "badsample", "end", "console"}
                    \/ tag \in {"bare1", "bare2"} /\ HdrLine(tag) = 0
                    \/ /\ st = <<>>
                       /\ tag \in {"row", "span", "spantotal", "trans", "statsend"}

Ignore == /\ outcome = "reading" /\ wire # <<>> /\ Unread(Head(wire).tag)
          /\ Consume /\ UNCHANGED reader

\* The end of the capture: an open ring is refused, an open stats dump is
\* reported from what arrived, and no dump at all is refused.
Finish ==
    /\ outcome = "reading" /\ wire = <<>>
    /\ IF ring # <<>> \/ (rings = <<>> /\ stats \o st = <<>>)
       THEN Refuse
       ELSE /\ stats' = stats \o st /\ st' = <<>> /\ outcome' = "done"
            /\ UNCHANGED <<ring, pending, boot, cal, rings>>
    /\ UNCHANGED <<wire, source>>

Read == \/ ReadSample \/ MalformedSample \/ ReadEnd \/ ReadBoot \/ ReadCal
        \/ ReadHdr \/ ReadBegin \/ ReadTop \/ ReadVer \/ ReadRow
        \/ ReadStatsEnd \/ Ignore \/ Finish

Next == Lose \/ Cut \/ Break \/ Eat \/ Console \/ Read

Spec == Init /\ [][Next]_vars

----------------------------------------------------------------------------
(* The price of the probes, which main() takes for each stats dump.        *)

Assumed == 1    \* VERSION_ASSUMED, of a dump whose ver= line did not arrive
ReadAs(s) == IF s.ver = 0 THEN Assumed ELSE Ver(s.ver)

\* A calibration with no boot line stands for one, of version 2.
BootVer == IF boot # 0 THEN Ver(boot) ELSE IF cal # 0 THEN 2 ELSE 0

AnyBoot(s) == BootVer # 0
OwnUnit(s) == BootVer = ReadAs(s)

\* Who measured the price a dump is corrected with, or 0.
Price(s) == IF s.ver # 0 /\ items[s.ver].priced THEN s.ver
            ELSE IF ~OwnUnit(s) THEN 0
            ELSE IF boot # 0 THEN boot ELSE cal

\* _spans_usable: the rows must have the sum of their own total and that of
\* TRANSITIONS, of which either may not have arrived.  Sums of different
\* dumps, or of some of the rows, differ.
SumsTo(s, k) == \A i \in 1..Rows : s.spans[i] = k
SpansTrusted(s) == /\ ReadAs(s) # 1 /\ s.spans # NoRows
                   /\ s.trans # 0 => SumsTo(s, s.trans)
SpansUsable(s) == /\ ReadAs(s) # 1 /\ s.spans # NoRows
                  /\ s.total # 0 => SumsTo(s, s.total)
                  /\ s.trans # 0 => SumsTo(s, s.trans)

\* probe_bracket: who measured the bracket the spans are swept over, or 0.
Bracket(s) == IF SpansUsable(s) /\ OwnUnit(s) THEN cal ELSE 0

----------------------------------------------------------------------------
(* Properties.                                                             *)

\* A reported ring holds the samples of one dump, all of them and in their
\* order, unless the counts of the header, of the terminator and of the lines
\* read agree by chance (_close_ring).  That takes the loss of a terminator
\* and of a whole dump's worth of samples, or, where the header is that of a
\* third dump, of two more lines: the begin of the third dump, a header line
\* of the next, the terminator and a sample.
SamplesOfOneDump ==
    \A j \in DOMAIN rings : lost <= Len(rings[j].samples) /\ lost < 4 =>
        LET s == rings[j].samples
        IN  /\ \A i \in DOMAIN s : s[i].of = s[1].of /\ s[i].i = i
            /\ s # <<>> => Len(s) = items[s[1].of].n

\* One fault never mixes two dumps.  The header and the samples of a ring
\* are of one dump, and so are the fields of a stats dump; a field the dump's
\* version does not define is not looked at, nor a row that never came.
OneRing(r) ==
    /\ r.hdr.two = r.hdr.one
    /\ Ver(r.hdr.one) # 1 => r.hdr.extra = r.hdr.one
    /\ \A i \in DOMAIN r.samples : r.samples[i].of = r.hdr.one
OneStats(s) == \E k \in DOMAIN items :
    {s.ver, s.shape, s.total, s.trans}
        \cup {s.rows[i] : i \in 1..Rows} \cup {s.spans[i] : i \in 1..Rows}
            \subseteq {0, k}
OneFaultNeverMixes ==
    lost + eaten <= 1 => /\ \A j \in DOMAIN rings : OneRing(rings[j])
                         /\ \A j \in DOMAIN stats : OneStats(stats[j])

\* A capture of known versions that lost no line is read: prefixes that the
\* console ate and lines it put between those of the firmware are repaired or
\* passed over, and every dump is reported, whole and in the order printed.
Reported(of, kind) ==
    /\ \A i, j \in DOMAIN of : i < j => of[i] < of[j]
    /\ {of[j] : j \in DOMAIN of} = {k \in DOMAIN items : items[k].kind = kind}
WholeStats(k) ==
    LET all == [i \in 1..Rows |-> k]
    IN  [ver |-> k, shape |-> k, rows |-> all, trans |-> k,
         spans |-> IF Ver(k) = 1 THEN NoRows ELSE all,
         total |-> IF Ver(k) = 1 THEN 0 ELSE k]
IntactIsRead ==
    outcome # "reading" /\ lost = 0 /\ (\A k \in DOMAIN items : Ver(k) \in Known)
        /\ (\E k \in DOMAIN items : items[k].kind # "boot") =>
            /\ outcome = "done"
            /\ Reported([j \in DOMAIN rings |-> rings[j].hdr.one], "ring")
            /\ \A j \in DOMAIN rings : OneRing(rings[j])
            /\ Reported([j \in DOMAIN stats |-> stats[j].ver], "stats")
            /\ \A j \in DOMAIN stats : stats[j] = WholeStats(stats[j].ver)

\* The spans a dump is corrected with are all the spans of one dump, unless
\* more than two faults came together: a lost row is told from the total of
\* the spans and again from TRANSITIONS (_spans_usable).
SpansAreWhole ==
    outcome = "done" /\ lost + eaten <= 2 =>
        \A j \in DOMAIN stats : SpansUsable(stats[j]) =>
            \E k \in DOMAIN items : SumsTo(stats[j], k)

\* A dump is never corrected with a price in the unit of another version, or
\* swept over a bracket in it, whatever lines were lost: a capture can span a
\* reflash, and version 1 prices a pair of transitions where version 2 prices
\* one.  Of the dumps whose ver= line arrived.
PriceInOwnUnit ==
    outcome = "done" =>
        \A j \in DOMAIN stats : stats[j].ver # 0 =>
            \A k \in {Price(stats[j]), Bracket(stats[j])} \ {0} :
                Ver(k) = Ver(stats[j].ver)
=============================================================================
