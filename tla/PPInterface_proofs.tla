------------------------- MODULE PPInterface_proofs -------------------------
(***************************************************************************)
(* Proofs about PPInterface: the framing, for every header size, every     *)
(* limit on frames, every read buffer and every way to cut the stream in   *)
(* records; and the life cycle of the link.                                *)
(*                                                                         *)
(* That the parser is in step at every byte is not inductive: the header   *)
(* it has stored so far has to be the beginning of the header of the next  *)
(* frame, the payload so far the beginning of its payload, no byte can be  *)
(* read that the peer has not sent, and the frames of the peer lie behind  *)
(* one another without a gap.                                              *)
(***************************************************************************)
EXTENDS PPInterface, SequenceTheorems, TLAPS

Parser == [state : {"PP_HEADER", "PP_DATA"}, counter : Nat,
           header : [1..HeaderSize -> Nat], data : Seq(Nat) \cup {Null}]

\* The types of what the framing uses.
FramingType ==
    /\ frames \in Seq(S!Frame)
    /\ records \in Seq(Nat)
    /\ wire \in Nat /\ fetched \in Nat
    /\ s \in Nat \ {0} /\ l \in Nat /\ connected \in BOOLEAN
    /\ in \in Parser
    /\ delivered \in Seq(Seq(Nat))

End(f) == f.first + HeaderSize + f.size

\* The frames lie behind one another.
Layout ==
    /\ \A i \in 1..Len(frames), j \in 1..Len(frames) :
          i < j => End(frames[i]) <= frames[j].first
    /\ \A i \in 1..Len(frames), j \in 1..Len(frames) :
          j = i + 1 => frames[j].first = End(frames[i])

\* What is read has been fetched, what is fetched has been sent, and what is
\* sent belongs to a frame.  The records end in the order of the stream.
Sent ==
    /\ s + l <= fetched + 1
    /\ fetched <= wire
    /\ wire < NextFirst
    /\ \A i \in 1..Len(records) : fetched < records[i] /\ records[i] <= wire
    /\ \A i \in 1..Len(records), j \in 1..Len(records) :
          i < j => records[i] < records[j]
    /\ l > 0 => connected
    /\ phase = "closed" => l = 0 /\ in = InReset

\* The first byte of the next frame to deliver.
Base == IF Len(delivered) + 1 <= Len(frames)
        THEN frames[Len(delivered) + 1].first ELSE NextFirst

InHeader ==
    /\ in.counter < HeaderSize
    /\ s = Base + in.counter
    /\ \A i \in 1..in.counter : in.header[i] = Base + i - 1
    /\ in.data = Null

InData ==
    LET f == frames[Len(delivered) + 1]
    IN  /\ Len(delivered) + 1 <= Len(frames)
        /\ f.sound /\ f.size <= MaxFrame
        /\ \A i \in 1..HeaderSize : in.header[i] = f.first + i - 1
        /\ in.data \in Seq(Nat) /\ Len(in.data) = f.size
        /\ in.counter <= f.size
        /\ s = f.first + HeaderSize + in.counter
        /\ \A i \in 1..in.counter : in.data[i] = f.first + HeaderSize + i - 1

InStep ==
    connected =>
        /\ in.state = "PP_HEADER" => InHeader
        /\ in.state = "PP_DATA" => InData

FInv == FramingType /\ Layout /\ Sent /\ InStep /\ FramesWhole

-----------------------------------------------------------------------------
(***************************************************************************)
(* Facts about frames and buffers                                          *)
(***************************************************************************)
\* A function on an initial segment is a sequence of that length.
LEMMA MakeSeq ==
    ASSUME NEW T, NEW n \in Nat, NEW f \in [1..n -> T]
    PROVE  f \in Seq(T) /\ Len(f) = n
  OBVIOUS

\* The smaller of what is missing and what is there.
LEMMA MinFacts ==
    ASSUME NEW a \in Nat, NEW c \in Nat, NEW n \in Nat, c < a, n > 0
    PROVE  MinOf(a - c, n) \in 1..n /\ c + MinOf(a - c, n) <= a
  BY DEF MinOf

\* The bytes of a read, at most as many as are there.
LEMMA ReadFacts ==
    ASSUME NEW a \in Nat, NEW c \in Nat, NEW n \in Nat, c <= a + 1
    PROVE  MinOf(n, a - c + 1) \in Nat /\ c + MinOf(n, a - c + 1) <= a + 1
  BY DEF MinOf

\* The fields of the frames.
LEMMA FrameFields ==
    ASSUME FramingType, NEW k \in 1..Len(frames)
    PROVE  /\ frames[k] \in S!Frame
           /\ frames[k].first \in Nat \ {0} /\ frames[k].size \in Nat
           /\ frames[k].sound \in BOOLEAN
           /\ End(frames[k]) \in Nat
<1>1. frames[k] \in S!Frame
  BY DEF FramingType
<1>2. /\ frames[k].first \in Nat \ {0} /\ frames[k].size \in Nat
      /\ frames[k].sound \in BOOLEAN
  BY <1>1 DEF S!Frame
<1> QED
  BY <1>1, <1>2, PPInterfaceAssumption DEF End

\* The payload of a frame.
LEMMA PayloadSeq ==
    ASSUME NEW f, f.size \in Nat, f.first \in Nat
    PROVE  S!Payload(f) \in Seq(Nat) /\ Len(S!Payload(f)) = f.size
<1>1. HeaderSize \in Nat
  BY PPInterfaceAssumption
<1>2. \A i \in 1..f.size : f.first + HeaderSize + i - 1 \in Nat
  BY <1>1
<1>3. S!Payload(f) \in [1..f.size -> Nat]
  BY <1>2 DEF S!Payload
<1> QED
  BY <1>3, MakeSeq

\* The end of the stream laid out so far.
LEMMA NextFirstFacts ==
    ASSUME FramingType, Layout
    PROVE  /\ NextFirst \in Nat \ {0}
           /\ \A k \in 1..Len(frames) : End(frames[k]) <= NextFirst
           /\ Base \in Nat \ {0}
<1>1. CASE frames = <<>>
  <2>1. NextFirst = 1 /\ Len(frames) = 0
    BY <1>1 DEF NextFirst
  <2> QED
    BY <2>1 DEF Base, FramingType
<1>2. CASE frames # <<>>
  <2>1. Len(frames) \in 1..Len(frames) /\ Len(frames) \in Nat
    BY <1>2 DEF FramingType
  <2>2. NextFirst = End(frames[Len(frames)])
    BY <1>2 DEF NextFirst, End
  <2>3. NextFirst \in Nat \ {0}
    BY <2>1, <2>2, FrameFields, PPInterfaceAssumption DEF End
  <2>4. ASSUME NEW k \in 1..Len(frames) PROVE End(frames[k]) <= NextFirst
    <3>1. k < Len(frames) => End(frames[k]) <= frames[Len(frames)].first
      BY <2>1 DEF Layout
    <3> QED
      BY <2>1, <2>2, <3>1, FrameFields, PPInterfaceAssumption DEF End
  <2>5. Base \in Nat \ {0}
    <3>1. Len(delivered) + 1 <= Len(frames) => Len(delivered) + 1 \in 1..Len(frames)
      BY <2>1 DEF FramingType
    <3> QED
      BY <2>3, <3>1, FrameFields DEF Base
  <2> QED
    BY <2>3, <2>4, <2>5
<1> QED
  BY <1>1, <1>2

\* A byte of the stream that is still to be parsed belongs to a frame.
LEMMA InsideFrame ==
    ASSUME FInv, l > 0, in.state = "PP_HEADER"
    PROVE  /\ Len(delivered) + 1 \in 1..Len(frames)
           /\ Base = frames[Len(delivered) + 1].first
           /\ InHeader
<1>1. InHeader
  BY DEF FInv, InStep, Sent
<1>2. s < NextFirst
  BY NextFirstFacts DEF FInv, Sent, FramingType
<1>3. Base < NextFirst
  BY <1>1, <1>2, NextFirstFacts DEF InHeader, FInv, FramingType, Parser
<1>4. Len(delivered) \in Nat /\ Len(frames) \in Nat
  BY DEF FInv, FramingType
<1> QED
  BY <1>1, <1>3, <1>4, NextFirstFacts DEF Base, FInv

\* A complete header determines its frame.
LEMMA HeaderIdentifies ==
    ASSUME FInv, NEW k \in 1..Len(frames), NEW header,
           \A i \in 1..HeaderSize : header[i] = frames[k].first + i - 1
    PROVE  /\ FrameOf(header) = {k}
           /\ frame_size(header) = frames[k].size
<1>1. 1 \in 1..HeaderSize
  BY PPInterfaceAssumption
<1>2. ASSUME NEW j \in FrameOf(header) PROVE j = k
  <2>1. j \in 1..Len(frames) /\ header[1] = frames[j].first + 1 - 1
    BY <1>1 DEF FrameOf
  <2>2. frames[j].first = frames[k].first
    BY <1>1, <2>1, FrameFields DEF FInv
  <2>3. j < k => End(frames[j]) <= frames[k].first
    BY <2>1 DEF FInv, Layout
  <2>4. k < j => End(frames[k]) <= frames[j].first
    BY <2>1 DEF FInv, Layout
  <2>5. /\ frames[j].first \in Nat /\ frames[j].size \in Nat
        /\ frames[k].first \in Nat /\ frames[k].size \in Nat
    BY <2>1, FrameFields DEF FInv
  <2>6. ~(j < k) /\ ~(k < j)
    BY <2>2, <2>3, <2>4, <2>5, PPInterfaceAssumption DEF End
  <2> QED
    BY <2>1, <2>6
<1>3. k \in FrameOf(header)
  BY DEF FrameOf
<1>4. FrameOf(header) = {k}
  BY <1>2, <1>3
<1> QED
  BY <1>4 DEF frame_size

\* The invariant does not speak of the other variables.
fvars == <<frames, records, wire, fetched, connected, s, l, in, delivered>>

\* A step that touches nothing the invariant speaks of keeps it.
LEMMA Untouched ==
    ASSUME FInv, UNCHANGED fvars, phase' = "closed" => phase = "closed"
    PROVE  FInv'
<1>1. FramingType' /\ Layout'
  BY DEF FInv, fvars, FramingType, Layout, End
<1>2. NextFirst' = NextFirst /\ Base' = Base
  BY DEF fvars, NextFirst, Base
<1>3. Sent'
  BY <1>2 DEF FInv, Sent, fvars, InReset
<1>4. InStep'
  BY <1>2 DEF FInv, InStep, InHeader, InData, fvars
<1>5. FramesWhole'
  BY DEF FInv, FramesWhole, fvars
<1> QED
  BY <1>1, <1>3, <1>4, <1>5 DEF FInv

-----------------------------------------------------------------------------
(***************************************************************************)
(* The peer and the TLS layer                                              *)
(***************************************************************************)
\* A new frame is laid out behind the last one: the next frame to deliver does
\* not move.
LEMMA PeerFrameInv ==
    ASSUME FInv, NEW len \in Nat, NEW sound \in BOOLEAN, PeerFrame(len, sound)
    PROVE  FInv'
<1> DEFINE n == Len(frames)
           f == [first |-> NextFirst, size |-> len, sound |-> sound]
<1>0. /\ n \in Nat /\ Len(delivered) \in Nat /\ Len(delivered) <= n
      /\ NextFirst \in Nat \ {0}
      /\ HeaderSize \in Nat \ {0}
  BY NextFirstFacts, PPInterfaceAssumption DEF FInv, FramingType, FramesWhole
<1>1. /\ frames' = Append(frames, f)
      /\ UNCHANGED <<records, wire, fetched, connected, s, l, in, delivered, phase>>
      /\ phase = "closed"
  BY DEF PeerFrame, input
<1>2. f \in S!Frame /\ End(f) = NextFirst + HeaderSize + len
  BY <1>0 DEF S!Frame, End
<1>3. /\ frames' \in Seq(S!Frame) /\ Len(frames') = n + 1 /\ frames'[n + 1] = f
      /\ \A i \in 1..n : frames'[i] = frames[i]
  BY <1>1, <1>2 DEF FInv, FramingType
<1>4. FramingType'
  BY <1>1, <1>3 DEF FInv, FramingType
<1>5. NextFirst' = End(f)
  BY <1>0, <1>3 DEF NextFirst, End
<1>6. Layout'
  <2>1. \A i \in 1..n : End(frames[i]) <= NextFirst
    BY NextFirstFacts DEF FInv
  <2>2. n \in 1..n => End(frames[n]) = NextFirst
    BY <1>0 DEF NextFirst, End
  <2>3. ASSUME NEW i \in 1..n + 1, NEW j \in 1..n + 1, i < j
        PROVE  /\ End(frames'[i]) <= frames'[j].first
               /\ j = i + 1 => frames'[j].first = End(frames'[i])
    <3>1. i \in 1..n /\ frames'[i] = frames[i]
      BY <1>0, <1>3, <2>3
    <3>2. CASE j = n + 1
      BY <1>0, <1>3, <2>1, <2>2, <3>1, <3>2
    <3>3. CASE j # n + 1
      <4>1. j \in 1..n /\ frames'[j] = frames[j]
        BY <1>0, <1>3, <3>3
      <4> QED
        BY <2>3, <3>1, <4>1 DEF FInv, Layout
    <3> QED
      BY <3>2, <3>3
  <2> QED
    BY <1>0, <1>3, <2>3 DEF Layout, End
<1>7. Base' = Base
  <2>1. CASE Len(delivered) + 1 <= n
    BY <1>0, <1>1, <1>3, <2>1 DEF Base
  <2>2. CASE Len(delivered) = n
    BY <1>0, <1>1, <1>3, <2>2 DEF Base
  <2> QED
    BY <1>0, <2>1, <2>2
<1>8. Sent'
  <2>1. wire' < NextFirst'
    BY <1>0, <1>1, <1>2, <1>5 DEF FInv, Sent, FramingType
  <2> QED
    BY <1>1, <2>1 DEF FInv, Sent, InReset
<1>9. InStep'
  BY <1>1, <1>7 DEF FInv, InStep, InHeader, Sent, InReset
<1>10. FramesWhole'
  BY <1>0, <1>1, <1>3 DEF FInv, FramesWhole, S!Acceptable, S!Payload
<1> QED
  BY <1>4, <1>6, <1>8, <1>9, <1>10 DEF FInv

\* A record never holds more than the frames that are laid out.
LEMMA PeerRecordInv ==
    ASSUME FInv, NEW n \in Nat \ {0}, PeerRecord(n)
    PROVE  FInv'
<1>1. /\ wire' = wire + n /\ wire + n < NextFirst
      /\ records' = Append(records, wire + n)
      /\ phase # "closed"
      /\ UNCHANGED <<frames, fetched, connected, s, l, in, delivered, phase>>
  BY DEF PeerRecord, input, HasPcb
<1>2. wire \in Nat /\ records \in Seq(Nat) /\ Len(records) \in Nat
  BY DEF FInv, FramingType
<1>3. /\ records' \in Seq(Nat) /\ Len(records') = Len(records) + 1
      /\ records'[Len(records) + 1] = wire + n
      /\ \A i \in 1..Len(records) : records'[i] = records[i] /\ records[i] \in Nat
  BY <1>1, <1>2
<1>4. FramingType' /\ Layout' /\ FramesWhole'
  <2>1. FramingType'
    BY <1>1, <1>2, <1>3 DEF FInv, FramingType
  <2>2. Layout' /\ FramesWhole'
    BY <1>1 DEF FInv, Layout, FramesWhole, End
  <2> QED
    BY <2>1, <2>2
<1>5. NextFirst' = NextFirst /\ Base' = Base
  BY <1>1 DEF NextFirst, Base
<1>6. InStep'
  BY <1>1, <1>5 DEF FInv, InStep, InHeader, InData
<1>7. Sent'
  <2>1. \A i \in 1..Len(records') : fetched' < records'[i] /\ records'[i] <= wire'
    <3>1. fetched \in Nat
      BY DEF FInv, FramingType
    <3> QED
      BY <1>1, <1>2, <1>3, <3>1 DEF FInv, Sent
  <2>2. \A i \in 1..Len(records'), j \in 1..Len(records') :
            i < j => records'[i] < records'[j]
    <3>1. \A i \in 1..Len(records) : records[i] <= wire
      BY DEF FInv, Sent
    <3>2. \A i \in 1..Len(records), j \in 1..Len(records) :
              i < j => records[i] < records[j]
      BY DEF FInv, Sent
    <3>3. ASSUME NEW i \in 1..Len(records'), NEW j \in 1..Len(records'), i < j
          PROVE  records'[i] < records'[j]
      <4>1. i \in 1..Len(records) /\ records'[i] = records[i] /\ records[i] \in Nat
        BY <1>2, <1>3, <3>3
      <4>2. CASE j = Len(records) + 1
        BY <1>2, <1>3, <3>1, <4>1, <4>2
      <4>3. CASE j # Len(records) + 1
        <5>1. j \in 1..Len(records) /\ records'[j] = records[j]
          BY <1>2, <1>3, <4>3
        <5> QED
          BY <3>2, <3>3, <4>1, <5>1
      <4> QED
        BY <4>2, <4>3
    <3> QED
      BY <3>3
  <2>3. s' + l' <= fetched' + 1 /\ fetched' <= wire' /\ wire' < NextFirst'
    BY <1>1, <1>2, <1>5 DEF FInv, Sent, FramingType
  <2> QED
    BY <1>1, <2>1, <2>2, <2>3 DEF FInv, Sent, InReset
<1> QED
  BY <1>4, <1>6, <1>7 DEF FInv

\* recv() hands out bytes that have been fetched, and nothing beyond them.
LEMMA RecvInv ==
    ASSUME FInv, Recv
    PROVE  FInv'
<1>1. /\ l = 0 /\ connected /\ phase # "closed"
      /\ Pending \/ records # <<>>
      /\ fetched' = IF Pending THEN fetched ELSE Head(records)
      /\ records' = IF Pending THEN records ELSE Tail(records)
      /\ l' = MinOf(RecvBuf, fetched' - s + 1)
      /\ UNCHANGED <<frames, wire, connected, s, in, delivered, phase>>
  BY DEF Recv, HasPcb
<1>2. /\ wire \in Nat /\ fetched \in Nat /\ s \in Nat \ {0} /\ records \in Seq(Nat)
      /\ s <= fetched + 1 /\ fetched <= wire /\ RecvBuf \in Nat
  BY <1>1, PPInterfaceAssumption DEF FInv, FramingType, Sent
<1>3. /\ fetched' \in Nat /\ fetched <= fetched' /\ s <= fetched' + 1 /\ fetched' <= wire
      /\ records' \in Seq(Nat)
      /\ \A i \in 1..Len(records') : fetched' < records'[i] /\ records'[i] <= wire
      /\ \A i \in 1..Len(records'), j \in 1..Len(records') :
            i < j => records'[i] < records'[j]
  <2>1. CASE Pending
    BY <1>1, <1>2, <2>1 DEF FInv, Sent
  <2>2. CASE ~Pending
    <3>1. records # <<>> /\ fetched' = Head(records) /\ records' = Tail(records)
      BY <1>1, <2>2
    <3>2. /\ Len(records) \in Nat \ {0} /\ Head(records) = records[1]
          /\ Tail(records) \in Seq(Nat) /\ Len(Tail(records)) = Len(records) - 1
          /\ \A i \in 1..Len(Tail(records)) : Tail(records)[i] = records[i + 1]
          /\ \A i \in 1..Len(records) : records[i] \in Nat
      BY <1>2, <3>1
    <3>3. /\ \A i \in 1..Len(records) : fetched < records[i] /\ records[i] <= wire
          /\ \A i \in 1..Len(records), j \in 1..Len(records) :
                i < j => records[i] < records[j]
      BY DEF FInv, Sent
    <3> QED
      BY <1>2, <3>1, <3>2, <3>3
  <2> QED
    BY <2>1, <2>2
<1>4. l' \in Nat /\ s + l' <= fetched' + 1
  BY <1>1, <1>2, <1>3, ReadFacts
<1>5. NextFirst' = NextFirst /\ Base' = Base
  BY <1>1 DEF NextFirst, Base
<1>6. FramingType' /\ Layout' /\ FramesWhole'
  BY <1>1, <1>3, <1>4 DEF FInv, FramingType, Layout, FramesWhole, End
<1>7. Sent'
  BY <1>1, <1>3, <1>4, <1>5 DEF FInv, Sent
<1>8. InStep'
  BY <1>1, <1>5 DEF FInv, InStep, InHeader, InData
<1> QED
  BY <1>6, <1>7, <1>8 DEF FInv

\* When the tunnel goes down nothing is asked of the parser any more.
LEMMA DownInv ==
    ASSUME FInv, connected' = FALSE,
           UNCHANGED <<frames, records, wire, fetched, delivered>>,
           l' = 0, s' = s + l, in' \in Parser,
           phase' = "closed" => in' = InReset
    PROVE  FInv'
<1>1. s \in Nat \ {0} /\ l \in Nat /\ s' \in Nat \ {0} /\ l' \in Nat /\ s' + l' = s + l
  BY DEF FInv, FramingType
<1>2. FramingType' /\ Layout' /\ FramesWhole'
  BY <1>1 DEF FInv, FramingType, Layout, FramesWhole, End
<1>3. NextFirst' = NextFirst
  BY DEF NextFirst
<1>4. Sent'
  BY <1>1, <1>3 DEF FInv, Sent
<1>5. InStep'
  BY DEF InStep
<1> QED
  BY <1>2, <1>4, <1>5 DEF FInv

-----------------------------------------------------------------------------
(***************************************************************************)
(* pppossl_input                                                           *)
(***************************************************************************)
\* An iteration that consumes n bytes of the buffer.
LEMMA Consumed ==
    ASSUME FInv, UNCHANGED <<net, connected>>,
           NEW n \in 1..l, s' = s + n, l' = l - n,
           in' \in Parser, delivered' \in Seq(Seq(Nat)),
           phase' = "closed" => phase = "closed",
           InStep', FramesWhole'
    PROVE  FInv'
<1>1. /\ s \in Nat \ {0} /\ l \in Nat /\ n \in Nat
      /\ l > 0 /\ s' \in Nat \ {0} /\ l' \in Nat /\ s' + l' = s + l
  BY DEF FInv, FramingType
<1>2. UNCHANGED <<frames, records, wire, fetched, connected>> /\ NextFirst' = NextFirst
  BY DEF net, NextFirst
<1>3. FramingType' /\ Layout'
  BY <1>1, <1>2 DEF FInv, FramingType, Layout, End
<1>4. phase # "closed"
  BY <1>1 DEF FInv, Sent
<1>5. Sent'
  BY <1>1, <1>2, <1>4 DEF FInv, Sent
<1> QED
  BY <1>3, <1>5 DEF FInv

\* The fields of the parser.
LEMMA ParserFields ==
    ASSUME FInv
    PROVE  /\ in.state \in {"PP_HEADER", "PP_DATA"} /\ in.counter \in Nat
           /\ in.header \in [1..HeaderSize -> Nat]
           /\ s \in Nat \ {0} /\ l \in Nat
           /\ Len(delivered) \in Nat /\ Len(frames) \in Nat
           /\ HeaderSize \in Nat \ {0}
  BY PPInterfaceAssumption DEF FInv, FramingType, Parser

\* The header of the next frame, with one byte more.
LEMMA NewHeaderFacts ==
    ASSUME FInv, l > 0, in.state = "PP_HEADER"
    PROVE  /\ NewHeader \in [1..HeaderSize -> Nat]
           /\ \A i \in 1..in.counter + 1 : NewHeader[i] = Base + i - 1
<1>1. InHeader /\ Base \in Nat
  BY InsideFrame, NextFirstFacts DEF FInv
<1>2. in.counter + 1 \in 1..HeaderSize
  BY <1>1, ParserFields DEF InHeader
<1>3. /\ NewHeader \in [1..HeaderSize -> Nat]
      /\ NewHeader[in.counter + 1] = s
      /\ \A i \in 1..in.counter : NewHeader[i] = in.header[i]
  BY <1>2, ParserFields DEF NewHeader
<1>4. s = Base + in.counter /\ \A i \in 1..in.counter : in.header[i] = Base + i - 1
  BY <1>1 DEF InHeader
<1>5. ASSUME NEW i \in 1..in.counter + 1 PROVE NewHeader[i] = Base + i - 1
  <2>1. CASE i = in.counter + 1
    BY <1>1, <1>3, <1>4, <2>1, ParserFields
  <2>2. CASE i # in.counter + 1
    BY <1>3, <1>4, <2>2, ParserFields
  <2> QED
    BY <2>1, <2>2
<1> QED
  BY <1>3, <1>5

\* One more byte of a header.
LEMMA HeaderByteInv ==
    ASSUME FInv, InputHeaderByte
    PROVE  FInv'
<1>1. /\ l > 0 /\ in.state = "PP_HEADER" /\ in.counter + 1 < HeaderSize
      /\ in' = [in EXCEPT !.header = NewHeader, !.counter = @ + 1]
      /\ s' = s + 1 /\ l' = l - 1
      /\ UNCHANGED <<net, connected, delivered, phase>>
  BY DEF InputHeaderByte, Advance
<1>2. /\ in' \in Parser /\ in'.state = "PP_HEADER" /\ in'.header = NewHeader
      /\ in'.counter = in.counter + 1 /\ in'.data = in.data
  <2>1. in \in Parser /\ in.counter + 1 \in Nat
    BY ParserFields DEF FInv, FramingType
  <2>0. NewHeader \in [1..HeaderSize -> Nat]
    BY <1>1, NewHeaderFacts
  <2>2. in' = [in EXCEPT !.header = NewHeader, !.counter = in.counter + 1]
    BY <1>1, <2>1 DEF Parser
  <2> QED
    BY <1>1, <2>0, <2>1, <2>2 DEF Parser
<1>3. InHeader /\ Base \in Nat /\ Base' = Base
  BY <1>1, InsideFrame, NextFirstFacts DEF FInv, Base, NextFirst, net
<1>4. InHeader'
  <2>1. \A i \in 1..in'.counter : in'.header[i] = Base' + i - 1
    BY <1>1, <1>2, <1>3, NewHeaderFacts
  <2> QED
    BY <1>1, <1>2, <1>3, <2>1, ParserFields DEF InHeader
<1>5. InStep'
  BY <1>2, <1>4 DEF InStep
<1>6. FramesWhole'
  BY <1>1 DEF FInv, FramesWhole, net
<1>7. 1 \in 1..l
  BY <1>1, ParserFields
<1> QED
  BY <1>1, <1>2, <1>5, <1>6, <1>7, Consumed DEF FInv, FramingType

\* The last byte of a header that is accepted.
LEMMA HeaderDoneInv ==
    ASSUME FInv, InputHeaderDone
    PROVE  FInv'
<1> DEFINE k == Len(delivered) + 1
<1>1. /\ l > 0 /\ in.state = "PP_HEADER" /\ in.counter + 1 = HeaderSize
      /\ HeaderOk(NewHeader)
      /\ in' = StartData(NewHeader)
      /\ s' = s + 1 /\ l' = l - 1
      /\ UNCHANGED <<net, connected, delivered, phase>>
  BY DEF InputHeaderDone, Advance
<1>2. k \in 1..Len(frames) /\ Base = frames[k].first /\ InHeader
  BY <1>1, InsideFrame
<1>3. /\ NewHeader \in [1..HeaderSize -> Nat]
      /\ \A i \in 1..HeaderSize : NewHeader[i] = frames[k].first + i - 1
  BY <1>1, <1>2, NewHeaderFacts
<1>4. FrameOf(NewHeader) = {k} /\ frame_size(NewHeader) = frames[k].size
  BY <1>2, <1>3, HeaderIdentifies
<1>5. frames[k].sound /\ frames[k].size <= MaxFrame
  BY <1>1, <1>4 DEF HeaderOk
<1>6. frames[k].size \in Nat /\ frames[k].first \in Nat
  BY <1>2, FrameFields DEF FInv
<1>7. /\ pbuf_alloc(frames[k].size) \in Seq(Nat)
      /\ Len(pbuf_alloc(frames[k].size)) = frames[k].size
  <2>1. pbuf_alloc(frames[k].size) \in [1..frames[k].size -> Nat]
    BY DEF pbuf_alloc
  <2> QED
    BY <1>6, <2>1, MakeSeq
<1>8. /\ in'.state = "PP_DATA" /\ in'.counter = 0 /\ in'.header = NewHeader
      /\ in'.data = pbuf_alloc(frames[k].size)
      /\ in' \in Parser
  BY <1>1, <1>3, <1>4, <1>7 DEF StartData, Parser
<1>9. frames' = frames /\ delivered' = delivered
  BY <1>1 DEF net
<1>10. s' = frames[k].first + HeaderSize
  <2>1. s = frames[k].first + in.counter
    BY <1>2 DEF InHeader
  <2>2. s + 1 = frames[k].first + (in.counter + 1)
    <3>1. s \in Nat /\ frames[k].first \in Nat /\ in.counter \in Nat /\ 1 \in Nat
      BY <1>6, ParserFields
    <3> QED
      BY <2>1, <3>1
  <2> QED
    BY <1>1, <2>2
<1>11. InData'
  BY <1>2, <1>3, <1>5, <1>6, <1>7, <1>8, <1>9, <1>10, ParserFields DEF InData
<1>12. InStep'
  BY <1>8, <1>11 DEF InStep
<1>13. FramesWhole'
  BY <1>9 DEF FInv, FramesWhole
<1>14. 1 \in 1..l
  BY <1>1, ParserFields
<1> QED
  BY <1>1, <1>8, <1>12, <1>13, <1>14, Consumed DEF FInv, FramingType

\* The payload of the next frame, with data_len bytes more.
LEMMA TakeFacts ==
    ASSUME FInv, l > 0, in.state = "PP_DATA", can_take(data_len)
    PROVE  LET f == frames[Len(delivered) + 1]
           IN  /\ InData
               /\ Len(delivered) + 1 \in 1..Len(frames)
               /\ frame_size(in.header) = f.size
               /\ f.size \in Nat /\ f.first \in Nat
               /\ data_len \in 1..l /\ in.counter + data_len <= f.size
               /\ pbuf_take_at(data_len) \in Seq(Nat)
               /\ Len(pbuf_take_at(data_len)) = f.size
               /\ \A i \in 1..in.counter + data_len :
                     pbuf_take_at(data_len)[i] = f.first + HeaderSize + i - 1
<1> DEFINE f == frames[Len(delivered) + 1]
           d == pbuf_take_at(data_len)
<1>1. InData
  BY DEF FInv, InStep, Sent
<1>2. Len(delivered) + 1 \in 1..Len(frames)
  BY <1>1, ParserFields DEF InData
<1>3. f.size \in Nat /\ f.first \in Nat
  BY <1>2, FrameFields DEF FInv
<1>4. frame_size(in.header) = f.size
  BY <1>1, <1>2, HeaderIdentifies DEF InData
<1>5. in.data \in Seq(Nat) /\ Len(in.data) = f.size /\ in.counter < f.size
  BY <1>1 DEF InData, can_take
<1>6. data_len \in 1..l /\ in.counter + data_len <= f.size
  BY <1>3, <1>4, <1>5, MinFacts, ParserFields DEF data_len
<1>7. data_len \in Nat
  BY <1>6, ParserFields
<1>8. d \in [1..f.size -> Nat]
  <2>1. d \in [1..Len(in.data) -> Nat]
    <3>1. in.counter \in Nat /\ s \in Nat \ {0}
      BY ParserFields
    <3>2. ASSUME NEW i \in 1..Len(in.data)
          PROVE  (IF i \in in.counter + 1 .. in.counter + data_len
                  THEN s + i - in.counter - 1 ELSE in.data[i]) \in Nat
      <4>1. in.data[i] \in Nat
        BY <1>5
      <4>2. i \in in.counter + 1 .. in.counter + data_len => s + i - in.counter - 1 \in Nat
        BY <1>7, <3>1
      <4> QED
        BY <4>1, <4>2
    <3> QED
      BY <3>2 DEF pbuf_take_at
  <2> QED
    BY <1>5, <2>1
<1>9. d \in Seq(Nat) /\ Len(d) = f.size
  BY <1>3, <1>8, MakeSeq
<1>10. ASSUME NEW i \in 1..in.counter + data_len
       PROVE  d[i] = f.first + HeaderSize + i - 1
  <2>1. i \in 1..f.size
    BY <1>3, <1>6, ParserFields
  <2>2. CASE i \in in.counter + 1 .. in.counter + data_len
    <3>1. d[i] = s + i - in.counter - 1
      BY <1>5, <2>1, <2>2 DEF pbuf_take_at
    <3>2. s = f.first + HeaderSize + in.counter
      BY <1>1 DEF InData
    <3>3. f.first + HeaderSize \in Nat
      BY <1>3, ParserFields
    <3>4. i \in Nat /\ s \in Nat /\ in.counter \in Nat
      BY <2>1, ParserFields
    <3> QED
      BY <3>1, <3>2, <3>3, <3>4
  <2>3. CASE i \notin in.counter + 1 .. in.counter + data_len
    <3>1. i \in 1..in.counter
      BY <1>6, <2>3, ParserFields
    <3>2. d[i] = in.data[i]
      BY <1>5, <2>1, <2>3 DEF pbuf_take_at
    <3> QED
      BY <1>1, <3>1, <3>2 DEF InData
  <2> QED
    BY <2>2, <2>3
<1> QED
  BY <1>1, <1>2, <1>3, <1>4, <1>6, <1>9, <1>10

\* A part of a payload.
LEMMA DataPartInv ==
    ASSUME FInv, InputDataPart
    PROVE  FInv'
<1> DEFINE f == frames[Len(delivered) + 1]
<1>1. /\ l > 0 /\ in.state = "PP_DATA" /\ can_take(data_len)
      /\ in' = [in EXCEPT !.data = pbuf_take_at(data_len), !.counter = @ + data_len]
      /\ s' = s + data_len /\ l' = l - data_len
      /\ UNCHANGED <<net, connected, delivered, phase>>
  BY DEF InputDataPart, Advance
<1>2. /\ InData
      /\ f.size \in Nat /\ f.first \in Nat
      /\ data_len \in 1..l /\ in.counter + data_len <= f.size
      /\ pbuf_take_at(data_len) \in Seq(Nat)
      /\ Len(pbuf_take_at(data_len)) = f.size
      /\ \A i \in 1..in.counter + data_len :
            pbuf_take_at(data_len)[i] = f.first + HeaderSize + i - 1
  BY <1>1, TakeFacts
<1>3. data_len \in Nat
  BY <1>2, ParserFields
<1>4. /\ in' \in Parser /\ in'.state = "PP_DATA" /\ in'.header = in.header
      /\ in'.counter = in.counter + data_len /\ in'.data = pbuf_take_at(data_len)
  <2>1. in \in Parser /\ in.counter + data_len \in Nat
    BY <1>3, ParserFields DEF FInv, FramingType
  <2>0. pbuf_take_at(data_len) \in Seq(Nat)
    BY <1>2
  <2>2. in' = [in EXCEPT !.data = pbuf_take_at(data_len), !.counter = in.counter + data_len]
    BY <1>1, <2>1 DEF Parser
  <2> QED
    BY <1>1, <2>0, <2>1, <2>2 DEF Parser
<1>5. frames' = frames /\ delivered' = delivered
  BY <1>1 DEF net
<1>6. s' = f.first + HeaderSize + in'.counter
  <2>1. s = f.first + HeaderSize + in.counter
    BY <1>2 DEF InData
  <2>0. f.first + HeaderSize \in Nat /\ s \in Nat /\ in.counter \in Nat
    <3>1. f.first \in Nat
      BY <1>2
    <3> QED
      BY <3>1, ParserFields
  <2>2. s + data_len = f.first + HeaderSize + (in.counter + data_len)
    BY <1>3, <2>0, <2>1
  <2> QED
    BY <1>1, <1>4, <2>2
<1>7. InData'
  BY <1>2, <1>4, <1>5, <1>6 DEF InData
<1>8. InStep'
  BY <1>4, <1>7 DEF InStep
<1>9. FramesWhole'
  BY <1>5 DEF FInv, FramesWhole
<1> QED
  BY <1>1, <1>2, <1>4, <1>8, <1>9, Consumed DEF FInv, FramingType

\* What is delivered is the payload of the next frame.
LEMMA Delivers ==
    ASSUME FInv, InputDataFrame
    PROVE  LET k == Len(delivered) + 1
           IN  /\ connected
               /\ k \in 1..Len(frames)
               /\ S!Acceptable(frames[k])
               /\ S!Payload(frames[k]) \in Seq(Nat)
               /\ delivered' = Append(delivered, S!Payload(frames[k]))
               /\ s' = End(frames[k])
<1> DEFINE k == Len(delivered) + 1
           f == frames[k]
           d == pbuf_take_at(data_len)
<1>1. /\ l > 0 /\ in.state = "PP_DATA" /\ can_take(data_len)
      /\ in.counter + data_len = frame_size(in.header)
      /\ delivered' = Append(delivered, d)
      /\ s' = s + data_len
  BY DEF InputDataFrame, Advance
<1>2. /\ InData
      /\ k \in 1..Len(frames)
      /\ frame_size(in.header) = f.size
      /\ f.size \in Nat /\ f.first \in Nat
      /\ data_len \in 1..l
      /\ d \in Seq(Nat)
      /\ Len(d) = f.size
      /\ \A i \in 1..in.counter + data_len : d[i] = f.first + HeaderSize + i - 1
  BY <1>1, TakeFacts
<1>3. S!Payload(f) \in Seq(Nat) /\ Len(S!Payload(f)) = f.size
  BY <1>2, PayloadSeq
<1>4. \A i \in 1..f.size : d[i] = S!Payload(f)[i]
  BY <1>1, <1>2 DEF S!Payload
<1>5. d = S!Payload(f)
  BY <1>2, <1>3, <1>4, SeqEqual
<1>6. S!Acceptable(f)
  <2>1. f.sound /\ f.size <= MaxFrame
    BY <1>2 DEF InData
  <2>2. in.counter < f.size
    BY <1>1, <1>2 DEF can_take, InData
  <2> QED
    BY <1>2, <2>1, <2>2, ParserFields, PPInterfaceAssumption DEF S!Acceptable
<1>7. s' = End(f)
  <2>1. s = f.first + HeaderSize + in.counter
    BY <1>2 DEF InData
  <2>0. f.first + HeaderSize \in Nat /\ s \in Nat /\ in.counter \in Nat
    <3>1. f.first \in Nat
      BY <1>2
    <3> QED
      BY <3>1, ParserFields
  <2>2. data_len \in Nat
    BY <1>2, ParserFields
  <2>3. s + data_len = f.first + HeaderSize + (in.counter + data_len)
    BY <2>0, <2>1, <2>2
  <2> QED
    BY <1>1, <1>2, <2>3 DEF End
<1>8. connected
  BY <1>1 DEF FInv, Sent
<1> QED
  BY <1>1, <1>2, <1>3, <1>5, <1>6, <1>7, <1>8

\* The last part of a payload: the parser goes on with the next frame.
LEMMA DataFrameInv ==
    ASSUME FInv, InputDataFrame
    PROVE  FInv'
<1> DEFINE k == Len(delivered) + 1
           f == frames[k]
<1>1. /\ l > 0 /\ in.state = "PP_DATA" /\ can_take(data_len)
      /\ in' = InReset
      /\ s' = s + data_len /\ l' = l - data_len
      /\ UNCHANGED <<net, connected>>
      /\ phase' \in PppPhases
  BY DEF InputDataFrame, Advance
<1>2. /\ k \in 1..Len(frames) /\ S!Acceptable(f) /\ S!Payload(f) \in Seq(Nat)
      /\ delivered' = Append(delivered, S!Payload(f))
      /\ s' = End(f)
  BY Delivers
<1>3. data_len \in 1..l
  BY <1>1, TakeFacts
<1>4. delivered \in Seq(Seq(Nat)) /\ frames' = frames /\ Len(frames) \in Nat
      /\ Len(delivered) \in Nat
  BY <1>1, ParserFields DEF FInv, FramingType, net
<1>5. /\ delivered' \in Seq(Seq(Nat)) /\ Len(delivered') = k
      /\ delivered'[k] = S!Payload(f)
      /\ \A i \in 1..Len(delivered) : delivered'[i] = delivered[i]
  BY <1>2, <1>4
<1>6. phase # "closed" /\ phase' # "closed"
  <2>1. phase # "closed"
    BY <1>1, ParserFields DEF FInv, Sent
  <2> QED
    BY <1>1, <2>1 DEF PppPhases
<1>7. FramesWhole'
  <2>1. \A i \in 1..k : S!Acceptable(frames[i]) /\ delivered'[i] = S!Payload(frames[i])
    BY <1>2, <1>4, <1>5 DEF FInv, FramesWhole
  <2> QED
    BY <1>2, <1>4, <1>5, <2>1 DEF FramesWhole
<1>8. Base' = End(f)
  <2>1. CASE k + 1 <= Len(frames)
    <3>1. k + 1 \in 1..Len(frames)
      BY <1>2, <1>4, <2>1
    <3>2. frames[k + 1].first = End(f)
      BY <1>2, <3>1 DEF FInv, Layout
    <3> QED
      BY <1>4, <1>5, <2>1, <3>2 DEF Base
  <2>2. CASE k = Len(frames)
    <3>1. frames # <<>>
      BY <1>2, <1>4
    <3>2. NextFirst = End(f)
      BY <2>2, <3>1 DEF NextFirst, End
    <3>3. NextFirst' = NextFirst
      BY <1>4 DEF NextFirst
    <3> QED
      BY <1>4, <1>5, <2>2, <3>2, <3>3 DEF Base
  <2> QED
    BY <1>2, <1>4, <2>1, <2>2
<1>9. End(f) \in Nat
  BY <1>2, FrameFields DEF FInv
<1>10. in' \in Parser /\ in'.state = "PP_HEADER" /\ in'.counter = 0 /\ in'.data = Null
  BY <1>1, PPInterfaceAssumption DEF InReset, Parser
<1>11. InHeader'
  BY <1>2, <1>8, <1>9, <1>10, ParserFields DEF InHeader
<1>12. InStep'
  BY <1>10, <1>11 DEF InStep
<1> QED
  BY <1>1, <1>3, <1>5, <1>6, <1>7, <1>10, <1>12, Consumed

\* A drop ends the stream.
LEMMA DropInv ==
    ASSUME FInv, InputHeaderDrop \/ InputDataDrop
    PROVE  FInv'
<1>1. /\ l > 0 /\ in' = InReset /\ s' = s + l /\ l' = l - l /\ connected' = FALSE
      /\ UNCHANGED <<net, delivered, phase>>
  BY DEF InputHeaderDrop, InputDataDrop, Drop, Advance
<1>2. in' \in Parser /\ l' = 0
  BY <1>1, ParserFields, PPInterfaceAssumption DEF InReset, Parser
<1> QED
  BY <1>1, <1>2, DownInv DEF net

-----------------------------------------------------------------------------
(***************************************************************************)
(* Every step                                                              *)
(***************************************************************************)
\* The interface starts with an empty stream.
LEMMA InitFInv == Init => FInv
<1> SUFFICES ASSUME Init PROVE FInv
  OBVIOUS
<1>1. in \in Parser /\ in.state = "PP_HEADER" /\ in.counter = 0 /\ in.data = Null
  BY PPInterfaceAssumption DEF Init, InReset, Parser
<1>2. FramingType
  BY <1>1 DEF Init, FramingType
<1>3. NextFirst = 1 /\ Base = 1
  BY DEF Init, NextFirst, Base
<1>4. Layout /\ FramesWhole
  BY DEF Init, Layout, FramesWhole
<1>5. Sent
  BY <1>3 DEF Init, Sent
<1>6. InStep
  BY <1>1, <1>3, PPInterfaceAssumption DEF Init, InStep, InHeader
<1> QED
  BY <1>2, <1>4, <1>5, <1>6 DEF FInv

\* Every step keeps the invariant.
LEMMA NextFInv == FInv /\ [Next]_vars => FInv'
<1> SUFFICES ASSUME FInv, [Next]_vars PROVE FInv'
  OBVIOUS
<1>1. CASE \E len \in 0..MaxFrame + 1, sound \in BOOLEAN : PeerFrame(len, sound)
  <2>1. \A len \in 0..MaxFrame + 1 : len \in Nat
    BY PPInterfaceAssumption
  <2> QED
    BY <1>1, <2>1, PeerFrameInv
<1>2. CASE \E n \in 1..MaxRecord : PeerRecord(n)
  <2>1. \A n \in 1..MaxRecord : n \in Nat \ {0}
    BY PPInterfaceAssumption
  <2> QED
    BY <1>2, <2>1, PeerRecordInv
<1>3. CASE Open
  <2>1. in' = InReset /\ phase = "closed" /\ in = InReset
    BY <1>3 DEF Open, FInv, Sent
  <2>2. UNCHANGED fvars /\ phase' # "closed"
    BY <1>3, <2>1 DEF Open, fvars, net
  <2> QED
    BY <2>2, Untouched
<1>4. CASE Release
  <2>1. in' \in Parser
    BY <1>4, PPInterfaceAssumption DEF Release, FInv, FramingType, InReset, Parser
  <2>2. /\ connected' = FALSE /\ l = 0 /\ s' = s /\ l' = l /\ phase' # "closed"
        /\ UNCHANGED <<frames, records, wire, fetched, delivered>>
    BY <1>4 DEF Release, net
  <2>3. s' = s + l
    BY <2>2, ParserFields
  <2> QED
    BY <2>1, <2>2, <2>3, DownInv
<1>5. CASE TunnelFails \/ RecvEof
  <2>1. /\ connected' = FALSE /\ l = 0 /\ s' = s /\ l' = l /\ phase' = phase
        /\ in' = in /\ UNCHANGED <<frames, records, wire, fetched, delivered>>
    BY <1>5 DEF TunnelFails, RecvEof, net, input
  <2>2. s' = s + l
    BY <2>1, ParserFields
  <2> QED
    BY <2>1, <2>2, DownInv DEF FInv, FramingType, Sent
<1>6. CASE Recv
  BY <1>6, RecvInv
<1>7. CASE Input
  BY <1>7, HeaderByteInv, HeaderDoneInv, DataPartInv, DataFrameInv, DropInv DEF Input
<1>8. CASE \/ PeerCloses \/ OpenFails \/ LcpTimeout \/ Close \/ Tick
           \/ \E n \in 1..Mtu : Write(n)
           \/ send_keep_alive \/ MaxIdlePasses
           \/ \E n \in 1..HeaderSize + Mtu : Send(n)
           \/ UNCHANGED vars
  <2>1. UNCHANGED fvars
    BY <1>8 DEF PeerCloses, OpenFails, LcpTimeout, Close, Tick, Write, send_keep_alive,
                MaxIdlePasses, Send, vars, fvars, net, input
  <2>2. phase' = "closed" => phase = "closed"
    BY <1>8 DEF PeerCloses, OpenFails, LcpTimeout, Close, Tick, Write, send_keep_alive,
                MaxIdlePasses, Send, vars
  <2> QED
    BY <2>1, <2>2, Untouched
<1> QED
  BY <1>1, <1>2, <1>3, <1>4, <1>5, <1>6, <1>7, <1>8 DEF Next

\* The invariant of the framing holds for ever.
LEMMA AlwaysFInv == Spec => []FInv
  BY InitFInv, NextFInv, PTL DEF Spec

-----------------------------------------------------------------------------
(***************************************************************************)
(* The theorems about the framing                                          *)
(***************************************************************************)
\* pppossl_input hands complete payloads to ppp_input, those of the first frames
\* of the peer, in order, each byte in its place.
THEOREM WholeFrames == Spec => []FramesWhole
<1>1. FInv => FramesWhole
  BY DEF FInv
<1> QED
  BY <1>1, AlwaysFInv, PTL

\* The state machine of pppossl_input never loses its place in the stream.
THEOREM StepKept == Spec => []ParserInStep
<1>1. ASSUME FInv PROVE ParserInStep
  <2>1. CASE in.state = "PP_HEADER"
    BY <1>1, <2>1 DEF FInv, InStep, InHeader, ParserInStep, Base
  <2>2. CASE in.state = "PP_DATA"
    BY <1>1, <2>2 DEF FInv, InStep, InData, ParserInStep
  <2> QED
    BY <1>1, <2>1, <2>2, ParserFields
<1> QED
  BY <1>1, AlwaysFInv, PTL

\* Every step of the interface is a step of the abstract stream or leaves it
\* alone.
LEMMA StreamStep == FInv /\ [Next]_vars => [S!Next]_(S!vars)
<1> SUFFICES ASSUME FInv, [Next]_vars PROVE [S!Next]_(S!vars)
  OBVIOUS
<1>1. CASE \E len \in 0..MaxFrame + 1, sound \in BOOLEAN : PeerFrame(len, sound)
  <2>1. PICK len \in 0..MaxFrame + 1, sound \in BOOLEAN : PeerFrame(len, sound)
    BY <1>1
  <2>2. len \in Nat
    BY PPInterfaceAssumption
  <2>3. FramingType'
    BY <2>1, <2>2, PeerFrameInv DEF FInv
  <2>4. frames' = Append(frames, [first |-> NextFirst, size |-> len, sound |-> sound])
    BY <2>1 DEF PeerFrame
  <2>5. /\ Len(frames') = Len(frames) + 1
        /\ \A i \in 1..Len(frames) : frames'[i] = frames[i]
    BY <2>4 DEF FInv, FramingType
  <2>6. UNCHANGED <<delivered, connected>>
    BY <2>1 DEF PeerFrame, input
  <2> QED
    BY <2>3, <2>5, <2>6 DEF FramingType, S!Next, S!PeerSends
<1>2. CASE InputDataFrame
  <2>1. connected = TRUE
    BY <1>2, Delivers DEF FInv, FramingType
  <2> QED
    BY <1>2, <2>1, Delivers DEF S!Next, S!Deliver, FInv, FramesWhole, InputDataFrame, net
<1>3. CASE \/ InputHeaderDrop \/ InputDataDrop \/ TunnelFails \/ RecvEof \/ Release
  BY <1>3 DEF InputHeaderDrop, InputDataDrop, Drop, TunnelFails, RecvEof, Release, net,
              input, S!Next, S!Break
<1>4. CASE \/ InputHeaderByte \/ InputHeaderDone \/ InputDataPart \/ Recv
           \/ \E n \in 1..MaxRecord : PeerRecord(n)
  BY <1>4 DEF InputHeaderByte, InputHeaderDone, InputDataPart, Recv, PeerRecord, net,
              input, S!vars
<1>5. CASE \/ PeerCloses \/ Open \/ OpenFails \/ LcpTimeout \/ Close \/ Tick
           \/ \E n \in 1..Mtu : Write(n)
           \/ send_keep_alive \/ MaxIdlePasses
           \/ \E n \in 1..HeaderSize + Mtu : Send(n)
           \/ UNCHANGED vars
  BY <1>5 DEF PeerCloses, Open, OpenFails, LcpTimeout, Close, Tick, Write,
              send_keep_alive, MaxIdlePasses, Send, vars, net, input, S!vars
<1> QED
  BY <1>1, <1>2, <1>3, <1>4, <1>5 DEF Next, Input

\* The framing of pppossl.c implements the abstract stream of frames.
THEOREM Framing == Spec => FrameStream
<1>1. Init => S!Init
  BY DEF Init, S!Init
<1> QED
  BY <1>1, AlwaysFInv, StreamStep, PTL DEF Spec, FrameStream, S!Spec

-----------------------------------------------------------------------------
(***************************************************************************)
(* The payload                                                             *)
(***************************************************************************)
\* Taking, giving away and freeing a payload go with the pointer to it.
LEMMA NextOwned == FInv /\ PayloadOwnedOnce /\ [Next]_vars => PayloadOwnedOnce'
<1> SUFFICES ASSUME FInv, PayloadOwnedOnce, [Next]_vars PROVE PayloadOwnedOnce'
  OBVIOUS
<1>1. InReset.data = Null /\ \A d \in Seq(Nat) : d # Null
  BY PPInterfaceAssumption DEF InReset
<1>2. CASE InputHeaderDone
  <2>1. in.data = Null /\ pbufs' = pbufs + 1 /\ in' = StartData(NewHeader)
    BY <1>2, InsideFrame DEF InputHeaderDone, InHeader
  <2>2. FInv'
    BY <1>2, HeaderDoneInv
  <2>3. in'.data # Null
    <3>1. l > 0 /\ connected' = connected /\ in'.state = "PP_DATA"
      BY <1>2, <2>1 DEF InputHeaderDone, StartData
    <3>2. connected
      BY <3>1 DEF FInv, Sent
    <3>3. InData'
      BY <2>2, <3>1, <3>2 DEF FInv, InStep
    <3> QED
      BY <1>1, <3>3 DEF InData
  <2> QED
    BY <2>1, <2>3 DEF PayloadOwnedOnce
<1>3. CASE InputDataFrame
  <2>1. in.data \in Seq(Nat)
    BY <1>3, TakeFacts DEF InputDataFrame, InData
  <2>2. pbufs' = pbufs - 1 /\ in' = InReset
    BY <1>3 DEF InputDataFrame
  <2> QED
    BY <1>1, <2>1, <2>2 DEF PayloadOwnedOnce
<1>4. CASE InputHeaderDrop \/ InputDataDrop
  <2>1. pbufs' = pbufs - drop_free(in.data) /\ in' = InReset
    BY <1>4 DEF InputHeaderDrop, InputDataDrop, Drop
  <2> QED
    BY <1>1, <2>1 DEF PayloadOwnedOnce, drop_free
<1>5. CASE InputDataPart
  <2>1. in.data \in Seq(Nat) /\ pbuf_take_at(data_len) \in Seq(Nat)
    BY <1>5, TakeFacts DEF InputDataPart, InData
  <2>2. /\ in' = [in EXCEPT !.data = pbuf_take_at(data_len), !.counter = @ + data_len]
        /\ pbufs' = pbufs
    BY <1>5 DEF InputDataPart
  <2>3. in'.data = pbuf_take_at(data_len)
    BY <2>2 DEF FInv, FramingType, Parser
  <2> QED
    BY <1>1, <2>1, <2>2, <2>3 DEF PayloadOwnedOnce
<1>6. CASE Release
  <2>1. \/ pbufs' = pbufs - pppossl_input_free_current_packet(in.data) /\ in' = InReset
        \/ pbufs' = pbufs /\ in' = in
    BY <1>6 DEF Release
  <2> QED
    BY <1>1, <2>1 DEF PayloadOwnedOnce, pppossl_input_free_current_packet
<1>7. CASE Open
  BY <1>7 DEF Open, FInv, Sent, PayloadOwnedOnce
<1>8. CASE InputHeaderByte
  <2>1. /\ in' = [in EXCEPT !.header = NewHeader, !.counter = @ + 1]
        /\ pbufs' = pbufs
    BY <1>8 DEF InputHeaderByte
  <2>2. in'.data = in.data
    BY <2>1 DEF FInv, FramingType, Parser
  <2> QED
    BY <2>1, <2>2 DEF PayloadOwnedOnce
<1>9. CASE \/ \E len \in 0..MaxFrame + 1, sound \in BOOLEAN : PeerFrame(len, sound)
           \/ \E n \in 1..MaxRecord : PeerRecord(n)
           \/ PeerCloses \/ OpenFails \/ LcpTimeout \/ Close \/ Tick
           \/ \E n \in 1..Mtu : Write(n)
           \/ send_keep_alive \/ MaxIdlePasses
           \/ \E n \in 1..HeaderSize + Mtu : Send(n)
           \/ TunnelFails \/ Recv \/ RecvEof
           \/ UNCHANGED vars
  <2>1. in' = in /\ pbufs' = pbufs
    BY <1>9 DEF PeerFrame, PeerRecord, PeerCloses, OpenFails, LcpTimeout, Close, Tick,
                Write, send_keep_alive, MaxIdlePasses, Send, TunnelFails, Recv, RecvEof,
                vars, input
  <2> QED
    BY <2>1 DEF PayloadOwnedOnce
<1> QED
  BY <1>2, <1>3, <1>4, <1>5, <1>6, <1>7, <1>8, <1>9 DEF Next, Input

\* No payload pbuf is leaked or freed twice: the only one alive is the one the
\* parser points to.
THEOREM PayloadOwned == Spec => []PayloadOwnedOnce
<1>1. Init => PayloadOwnedOnce
  BY DEF Init, InReset, PayloadOwnedOnce
<1> QED
  BY <1>1, NextOwned, AlwaysFInv, PTL DEF Spec

-----------------------------------------------------------------------------
(***************************************************************************)
(* The life cycle of the link                                              *)
(***************************************************************************)
\* Once disconnect_timeout is armed the link terminates or is dead, and the
\* first tick, in which LCP gives up, comes before the second.
LinkInv ==
    /\ disc \in {-1, 0, 1}
    /\ phase \in Phases \ {"leaked"}
    /\ phase \notin {"dead", "released"} => term = 0
    /\ disc >= 0 => phase \in {"terminate", "dead", "released"}
    /\ disc = 1 => phase \in {"dead", "released"}

\* Every step keeps the invariant of the link.
LEMMA NextLinkInv == LinkInv /\ [Next]_vars => LinkInv'
<1> SUFFICES ASSUME LinkInv, [Next]_vars PROVE LinkInv'
  OBVIOUS
<1>1. CASE Open \/ OpenFails \/ LcpTimeout
  BY <1>1 DEF Open, OpenFails, LcpTimeout, timers, LinkInv, Phases
<1>2. CASE Close
  BY <1>2 DEF Close, HasPcb, LinkInv, Phases
<1>3. CASE Tick
  BY <1>3 DEF Tick, HasPcb, TermTicks, DisconnectTicks, LinkInv, Phases
<1>4. CASE Release
  BY <1>4 DEF Release, HasPcb, DisconnectTicks, timers, LinkInv, Phases
<1>5. CASE InputDataFrame
  BY <1>5 DEF InputDataFrame, PppPhases, timers, LinkInv, Phases
<1>6. CASE \/ \E len \in 0..MaxFrame + 1, sound \in BOOLEAN : PeerFrame(len, sound)
           \/ \E n \in 1..MaxRecord : PeerRecord(n)
           \/ PeerCloses
           \/ \E n \in 1..Mtu : Write(n)
           \/ send_keep_alive \/ MaxIdlePasses
           \/ \E n \in 1..HeaderSize + Mtu : Send(n)
           \/ TunnelFails \/ Recv \/ RecvEof
           \/ InputHeaderByte \/ InputHeaderDone \/ InputHeaderDrop
           \/ InputDataPart \/ InputDataDrop
           \/ UNCHANGED vars
  <2>1. phase' = phase /\ term' = term /\ disc' = disc
    BY <1>6 DEF PeerFrame, PeerRecord, PeerCloses, Write, send_keep_alive,
                MaxIdlePasses, Send, TunnelFails, Recv, RecvEof, InputHeaderByte,
                InputHeaderDone, InputHeaderDrop, InputDataPart, InputDataDrop, Drop,
                vars, timers
  <2> QED
    BY <2>1 DEF LinkInv
<1> QED
  BY <1>1, <1>2, <1>3, <1>4, <1>5, <1>6 DEF Next, Input

\* ppp_free is only called on a dead link: no PPP descriptor is leaked when the
\* tunneler ends.
THEOREM LinkReleased == Spec => []NeverLeaked
<1>1. Init => LinkInv
  BY DEF Init, LinkInv, Phases
<1>2. LinkInv => NeverLeaked
  BY DEF LinkInv, NeverLeaked
<1> QED
  BY <1>1, <1>2, NextLinkInv, PTL DEF Spec

-----------------------------------------------------------------------------
(***************************************************************************)
(* Types                                                                   *)
(***************************************************************************)
\* The variables of which the other invariants say nothing.
RestType == q \in Queue /\ idle \in BOOLEAN /\ eof \in BOOLEAN /\ term \in Nat

\* pppossl_write keeps the queue a queue.
LEMMA WriteType ==
    ASSUME RestType, NEW n \in Nat, pppossl_write(n)
    PROVE  q' \in Queue /\ idle' \in BOOLEAN
<1>1. q \in Queue /\ q.chain \in Seq(Pbuf) /\ q.offset \in Nat
  BY DEF RestType, Queue
<1> DEFINE p == [first |-> 0, len |-> HeaderSize + n, tot |-> HeaderSize + n, push |-> FALSE]
<1>2. HeaderSize + n \in Nat
  BY PPInterfaceAssumption
<1>3. /\ p \in Pbuf /\ OutFrame(n) = <<p>> /\ OutFrame(n) \in Seq(Pbuf)
      /\ OutFrame(n)[1].tot \in Nat
  BY <1>2 DEF Pbuf, OutFrame
<1>4. pbuf_chain(q.chain, OutFrame(n)) \in Seq(Pbuf)
  <2> DEFINE c == [i \in 1..Len(q.chain) |-> [q.chain[i] EXCEPT !.tot = @ + OutFrame(n)[1].tot]]
  <2>1. \A i \in 1..Len(q.chain) : q.chain[i] \in Pbuf
    BY <1>1
  <2>2. \A i \in 1..Len(q.chain) : [q.chain[i] EXCEPT !.tot = @ + OutFrame(n)[1].tot] \in Pbuf
    BY <1>3, <2>1 DEF Pbuf
  <2>3. c \in [1..Len(q.chain) -> Pbuf] /\ Len(q.chain) \in Nat
    BY <1>1, <2>2
  <2>4. c \in Seq(Pbuf)
    BY <2>3, MakeSeq
  <2> QED
    BY <1>3, <2>4, ConcatProperties DEF pbuf_chain
<1>5. push(q, OutFrame(n)) \in Queue
  BY <1>1, <1>3, <1>4 DEF push, Queue
<1> QED
  BY <1>1, <1>5 DEF pppossl_write, RestType

\* Every step keeps the types of the rest.
LEMMA NextRestType == RestType /\ [Next]_vars => RestType'
<1> SUFFICES ASSUME RestType, [Next]_vars PROVE RestType'
  OBVIOUS
<1>1. CASE \/ \E n \in 1..Mtu : Write(n)
           \/ send_keep_alive
  <2>1. eof' = eof /\ term' = term
    BY <1>1 DEF Write, send_keep_alive, net, timers
  <2>2. \E n \in Nat : pppossl_write(n)
    BY <1>1, PPInterfaceAssumption DEF Write, send_keep_alive
  <2> QED
    BY <2>1, <2>2, WriteType DEF RestType
<1>2. CASE \E n \in 1..HeaderSize + Mtu : Send(n)
  <2>1. PICK n \in Nat : Send(n)
    BY <1>2, PPInterfaceAssumption
  <2>2. q \in Queue /\ q.chain \in Seq(Pbuf) /\ q.chain # <<>> /\ q.offset \in Nat
    BY <2>1 DEF Send, is_empty, RestType, Queue
  <2>3. Tail(q.chain) \in Seq(Pbuf) /\ q.offset + n \in Nat
    BY <2>2
  <2>4. move(q, n) \in Queue
    BY <2>2, <2>3 DEF move, pop, Queue
  <2> QED
    BY <2>1, <2>4 DEF Send, RestType, net, timers
<1>3. CASE Tick \/ Close
  <2>1. term' \in Nat /\ q' = q /\ idle' = idle /\ eof' = eof
    BY <1>3 DEF Tick, Close, RestType, net
  <2> QED
    BY <2>1 DEF RestType
<1>4. CASE \/ \E len \in 0..MaxFrame + 1, sound \in BOOLEAN : PeerFrame(len, sound)
           \/ \E n \in 1..MaxRecord : PeerRecord(n)
           \/ PeerCloses
           \/ Open \/ OpenFails \/ LcpTimeout \/ Release
           \/ MaxIdlePasses
           \/ TunnelFails \/ Recv \/ RecvEof
           \/ InputHeaderByte \/ InputHeaderDone \/ InputHeaderDrop
           \/ InputDataPart \/ InputDataFrame \/ InputDataDrop
           \/ UNCHANGED vars
  <2>1. /\ q' = q /\ term' = term
        /\ idle' = idle \/ idle' = TRUE
        /\ eof' = eof \/ eof' = TRUE
    BY <1>4 DEF PeerFrame, PeerRecord, PeerCloses, Open, OpenFails, LcpTimeout, Release,
                MaxIdlePasses, TunnelFails, Recv, RecvEof, InputHeaderByte,
                InputHeaderDone, InputHeaderDrop, InputDataPart, InputDataFrame,
                InputDataDrop, Drop, vars, net, timers
  <2> QED
    BY <2>1 DEF RestType
<1> QED
  BY <1>1, <1>2, <1>3, <1>4 DEF Next, Input

\* Every variable of the interface keeps its type.
THEOREM TypeCorrect == Spec => []TypeOK
<1>1. Init => RestType /\ LinkInv /\ PayloadOwnedOnce
  <2>1. Init => RestType
    <3>1. <<>> \in Seq(Pbuf)
      OBVIOUS
    <3>2. EmptyQueue \in Queue
      BY <3>1 DEF EmptyQueue, Queue
    <3>3. Init => q \in Queue /\ idle \in BOOLEAN /\ eof \in BOOLEAN
      BY <3>2, Zenon DEF Init
    <3>4. Init => term \in Nat
      BY DEF Init
    <3> QED
      BY <3>3, <3>4 DEF RestType
  <2>2. Init => LinkInv
    BY DEF Init, LinkInv, Phases
  <2>3. Init => PayloadOwnedOnce
    BY DEF Init, InReset, PayloadOwnedOnce
  <2> QED
    BY <2>1, <2>2, <2>3
<1>2. FInv /\ RestType /\ LinkInv /\ PayloadOwnedOnce => TypeOK
  BY DEF FInv, FramingType, Parser, RestType, LinkInv, PayloadOwnedOnce, TypeOK
<1> QED
  BY <1>1, <1>2, AlwaysFInv, NextRestType, NextLinkInv, NextOwned, PTL DEF Spec
=============================================================================
