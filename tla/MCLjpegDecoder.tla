--------------------------- MODULE MCLjpegDecoder ---------------------------
(***************************************************************************)
(* Small conforming streams, made by the encoder of LosslessJpeg, and      *)
(* streams the decoder has to refuse or to fill in.  Codes of at most four *)
(* bits, of which two index the lookup; samples of two bits.               *)
(***************************************************************************)
EXTENDS LjpegDecoder, TLC

ByteBits == 4

(* Tables for the categories 0..3; the second and third need the slow path *)
(* and have unused lengths.                                                *)
Table(counts, values) == [bits |-> counts, huffval |-> values]
T1 == Table(<<0, 3, 1, 0>>, <<0, 1, 2, 3>>)
T2 == Table(<<1, 0, 3, 0>>, <<1, 3, 0, 2>>)
T3 == Table(<<0, 1, 0, 3>>, <<2, 0, 3, 1>>)
AllTables ==
  {t \in {Table(counts, values) : counts \in [1..4 -> 0..4], values \in {<<2, 0, 1, 3>>}} :
     WellFormed(t)}

Sof3(ids, precision, w, h) ==
  [kind |-> "SOF3", cut |-> FALSE, precision |-> precision, width |-> w, height |-> h,
   ids |-> ids]
Entry(class, slot, table) == [class |-> class, slot |-> slot, cut |-> FALSE, table |-> table]
Dht(entries) == [kind |-> "DHT", tables |-> entries]
Dri(interval) == [kind |-> "DRI", interval |-> interval]
Sos(selectors, selection, transform) ==
  [kind |-> "SOS", cut |-> FALSE, selectors |-> selectors,
   selection |-> selection, transform |-> transform]
Other == [kind |-> "other"]
Eoi == [kind |-> "EOI"]

Stream(segments, scan, dimensions, source) ==
  [segments |-> segments, scan |-> scan, all |-> <<1, 1, 0>> \o scan,
   dimensions |-> dimensions, source |-> source]

-----------------------------------------------------------------------------
(* What an encoder is given, and makes of it; 1-bits fill the last byte.   *)

Plane(w, h, S) == [0..(w - 1) -> [0..(h - 1) -> S]]

Given(planes, tables, w, h, precision, selection, transform) ==
  [planes |-> planes, tables |-> tables, width |-> w, height |-> h,
   precision |-> precision, selection |-> selection, transform |-> transform]

Source(e, upTo) ==
  [ends |-> [i \in 1..(SampleCount(e) + 1) |-> Len(upTo[i - 1])], image |-> Image(e)] @@ e

PadToByte(s) == s \o [k \in 1..((-Len(s)) % ByteBits) |-> 1]

Encoded(segments, dimensions, e) ==
  LET upTo == ScanUpTo(e)
  IN Stream(segments, PadToByte(upTo[SampleCount(e)]), dimensions, Source(e, upTo))

-----------------------------------------------------------------------------
(* One component; the plane is a function of x and y.                      *)

(* Order of the segments, and what is defined on the way and not meant.    *)
Header(layout, sof, table, slot) ==
  CASE layout = 1 -> <<sof, Dht(<<Entry(0, slot, table)>>)>>
    [] layout = 2 -> <<Dri(None), Dht(<<Entry(0, slot, T3), Entry(1, slot, T3)>>), Other, sof,
                       Dht(<<Entry(0, slot, table), Entry(1, slot, T3),
                             Entry(0, 1 - slot, T3)>>)>>
    [] layout = 3 -> <<Sof3(<<8>>, 1, 1, 1), Dht(<<Entry(0, slot, table)>>), sof>>

OneStream(plane, w, h, precision, selection, transform, table, slot, layout) ==
  LET sized == layout = 1
      sof == IF sized THEN Sof3(<<7>>, precision, w, h) ELSE Sof3(<<7>>, precision, 1, 1)
  IN Encoded(Header(layout, sof, table, slot)
               \o <<Sos(<<[id |-> 7, table |-> slot]>>, selection, transform)>>,
             IF sized THEN None ELSE <<w, h>>,
             Given(<<plane>>, <<table>>, w, h, precision, selection, transform))

-----------------------------------------------------------------------------
(* Four components, planes[c][x][y], the header out of order; predicted    *)
(* from the left, as Sony's files are.                                     *)

FourStream(planes, w, h, tables) ==
  Encoded(<<Dht(<<Entry(0, 0, tables[1]), Entry(0, 1, tables[2])>>),
            Sof3(<<1, 2, 3, 4>>, 2, w, h), Other,
            Sos([k \in 1..4 |-> [id |-> 5 - k, table |-> (5 - k) % 2]], 1, 0)>>,
          <<2 * w, 2 * h>>,
          Given(planes, [c \in 1..4 |-> tables[(c % 2) + 1]], w, h, 2, 1, 0))

-----------------------------------------------------------------------------
Flat == [x \in {0, 1} |-> [y \in {0} |-> 1]]

ConformingStreams ==
  {OneStream(p, 2, 2, 2, s, 0, T2, 0, 2) : p \in Plane(2, 2, 0..3), s \in 1..7}
  \cup {OneStream(p, 2, 2, 3, s, 1, T1, 1, l) :
          p \in Plane(2, 2, {0, 1, 3}), s \in {4, 7}, l \in {1, 3}}
  \cup {OneStream(p, 3, 2, 2, s, 0, T3, 0, 1) : p \in Plane(3, 2, {0, 3}), s \in 4..6}
  \cup {OneStream(p, 2, 1, 2, 1, 0, t, 0, 1) : p \in Plane(2, 1, 0..3), t \in AllTables}
  \cup {FourStream([c \in 1..4 |-> p[c]], 1, 2, <<T1, T2>>) :
          p \in [1..4 -> Plane(1, 2, {0, 3})]}
  \cup {FourStream(<<p, p, q, q>>, 2, 2, <<T2, T3>>) :
          p \in Plane(2, 2, {0, 2}), q \in Plane(2, 2, {1, 3})}

(* Refused, cut off, or without a scan.                                    *)
OtherStreams ==
  LET s == OneStream(Flat, 2, 1, 2, 1, 0, T1, 0, 1)
      with(segments) == Stream(segments, s.scan, None, None)
      sof == s.segments[1]
      dht == s.segments[2]
      sos == s.segments[3]
  IN {with(<<[sof EXCEPT !.cut = TRUE], dht, sos>>),
      with(<<sof, dht, [sof EXCEPT !.cut = TRUE], sos>>),
      with(<<sof, dht, [sos EXCEPT !.cut = TRUE]>>),
      with(<<sof, Dht(<<Entry(0, 1, T2), Entry(0, 2, T1), Entry(0, 0, T3)>>), sos>>),
      with(<<sof, Dht(<<[Entry(0, 0, T2) EXCEPT !.cut = TRUE]>>), sos>>),
      with(<<[kind |-> "no SOI"]>>), with(<<sof, [kind |-> "overrun"]>>),
      with(<<dht, sos>>), with(<<sof, sos>>), with(<<sof, dht>>), with(<<sof, dht, Eoi>>),
      with(<<sof, dht, [sos EXCEPT !.selectors[1].table = Slots]>>),
      with(<<Sof3(<<1, 2>>, 2, 2, 1), dht, sos>>),
      [with(<<sof, dht, sos>>) EXCEPT !.scan = SubSeq(s.scan, 1, 3)],
      [with(<<sof, dht, sos>>) EXCEPT !.scan = <<>>]}

AllStreams == ConformingStreams \cup OtherStreams

=============================================================================
