-------------------------- MODULE ReassemblyProofs --------------------------
(***************************************************************************)
(* Proofs about Reassembly, for every header length, payload limit, buffer *)
(* cap and set of segments: no byte is lost or repeated, nothing complete  *)
(* stays behind, the records handed over are exact consecutive slices of   *)
(* the stream, and the cap is out of reach of segments of bounded length.  *)
(***************************************************************************)
EXTENDS Reassembly, Integers, SequenceTheorems, TLAPS

-----------------------------------------------------------------------------
(* The inductive invariant.                                                *)

Located ==
  /\ position + Len(buf) = Len(received)
  /\ \A i \in 1..Len(buf) : buf[i] = received[position + i]
  /\ cursor <= Len(buf)

ParsedTile == Abstract!Tiles(received, records, position, position + cursor)

IdleClean == pc = "idle" => cursor = 0 /\ records = << >>

IInv == TypeOK /\ Located /\ ParsedTile /\ IdleClean /\ NothingCompleteLeft

LEMMA Lengths ==
  ASSUME TypeOK
  PROVE  /\ Len(buf) \in Nat /\ Len(received) \in Nat /\ Len(records) \in Nat
         /\ Len(delivered) \in Nat /\ cursor \in Nat /\ position \in Nat
         /\ RECORD_HEADER_LEN \in Nat /\ RECORD_HEADER_LEN >= 1
  BY LenProperties, ReassemblyAssumption DEF TypeOK

\* The loop's view of a header, in the buffer and in the stream.
LEMMA HeaderInStream ==
  ASSUME TypeOK, Located, HeaderComplete
  PROVE  /\ cursor + RECORD_HEADER_LEN \in 1..Len(buf)
         /\ Length \in Nat
         /\ Length = Abstract!Announced(received, position + cursor)
         /\ Abstract!HasHeader(received, position + cursor)
<1>1. cursor + RECORD_HEADER_LEN \in 1..Len(buf)
  BY Lengths DEF HeaderComplete
<1>2. Length \in Nat
  BY <1>1, ElementOfSeq, ReassemblyAssumption DEF Length, TypeOK
<1>3. Length = received[position + (cursor + RECORD_HEADER_LEN)]
  BY <1>1 DEF Located, Length
<1>4. position + (cursor + RECORD_HEADER_LEN) = position + cursor + RECORD_HEADER_LEN
  BY Lengths
<1>5. position + cursor + RECORD_HEADER_LEN <= Len(received)
  BY <1>1, Lengths DEF Located
<1> QED
  BY <1>1, <1>2, <1>3, <1>4, <1>5 DEF Abstract!Announced, Abstract!HasHeader

LEMMA InitOK == Init => IInv
<1> SUFFICES ASSUME Init PROVE IInv
  OBVIOUS
<1>0. /\ buf = << >> /\ received = << >> /\ records = << >> /\ delivered = << >>
      /\ cursor = 0 /\ position = 0 /\ pc = "idle" /\ errored = FALSE
  BY DEF Init
<1>1. Len(<< >>) = 0 /\ << >> \in Seq(Bytes) /\ << >> \in Seq(Slices)
  BY EmptySeq
<1>2. TypeOK
  BY <1>0, <1>1 DEF TypeOK
<1>3. Located
  BY <1>0, <1>1 DEF Located
<1>4. ParsedTile
  BY <1>0, <1>1 DEF ParsedTile, Abstract!Tiles
<1>5. IdleClean
  BY <1>0 DEF IdleClean
<1>6. NothingCompleteLeft
  BY <1>0, <1>1, ReassemblyAssumption DEF NothingCompleteLeft
<1> QED
  BY <1>2, <1>3, <1>4, <1>5, <1>6 DEF IInv

\* b is what follows the first p elements of r.
TailFrom(b, p, r) ==
  /\ p + Len(b) = Len(r)
  /\ \A i \in 1..Len(b) : b[i] = r[p + i]

LEMMA TailExtended ==
  ASSUME NEW b \in Seq(Bytes), NEW r \in Seq(Bytes), NEW t \in Seq(Bytes),
         NEW p \in Nat, TailFrom(b, p, r)
  PROVE  TailFrom(b \o t, p, r \o t)
<1> DEFINE bt == b \o t
           rt == r \o t
<1>1. Len(b) \in Nat /\ Len(r) \in Nat /\ Len(t) \in Nat
  BY LenProperties
<1>2. /\ Len(bt) = Len(b) + Len(t)
      /\ \A i \in 1..Len(b) + Len(t) : bt[i] = IF i <= Len(b) THEN b[i] ELSE t[i - Len(b)]
  BY ConcatProperties
<1>3. /\ Len(rt) = Len(r) + Len(t)
      /\ \A i \in 1..Len(r) + Len(t) : rt[i] = IF i <= Len(r) THEN r[i] ELSE t[i - Len(r)]
  BY ConcatProperties
<1>4. p + Len(b) = Len(r) /\ \A i \in 1..Len(b) : b[i] = r[p + i]
  BY DEF TailFrom
<1> HIDE DEF bt, rt
<1>5. ASSUME NEW i \in 1..Len(bt)
      PROVE  bt[i] = rt[p + i]
  <2>1. i \in 1..Len(b) + Len(t) /\ p + i \in 1..Len(r) + Len(t)
    BY <1>1, <1>2, <1>4
  <2>2. CASE i <= Len(b)
    <3>1. i \in 1..Len(b) /\ p + i <= Len(r)
      BY <1>1, <1>4, <2>1, <2>2
    <3>2. bt[i] = b[i] /\ rt[p + i] = r[p + i]
      BY <1>2, <1>3, <2>1, <3>1
    <3> QED
      BY <1>4, <3>1, <3>2
  <2>3. CASE ~(i <= Len(b))
    <3>1. ~(p + i <= Len(r)) /\ p + i - Len(r) = i - Len(b)
      <4>1. p + Len(b) = Len(r) /\ i \in Nat
        BY <1>1, <1>4, <2>1
      <4> QED
        BY <1>1, <2>3, <4>1, SMTT(20)
    <3>2. bt[i] = t[i - Len(b)]
      BY <1>2, <2>1, <2>3
    <3>3. rt[p + i] = t[p + i - Len(r)]
      BY <1>3, <2>1, <3>1
    <3> QED
      BY <3>1, <3>2, <3>3
  <2> QED
    BY <2>2, <2>3
<1>6. p + Len(bt) = Len(rt)
  BY <1>1, <1>2, <1>3, <1>4
<1>7. TailFrom(bt, p, rt)
  BY <1>5, <1>6 DEF TailFrom
<1> QED
  BY <1>7 DEF bt, rt

LEMMA TailDrained ==
  ASSUME NEW b \in Seq(Bytes), NEW r \in Seq(Bytes), NEW p \in Nat, NEW c \in Nat,
         TailFrom(b, p, r), c <= Len(b)
  PROVE  /\ SubSeq(b, c + 1, Len(b)) \in Seq(Bytes)
         /\ TailFrom(SubSeq(b, c + 1, Len(b)), p + c, r)
         /\ Len(SubSeq(b, c + 1, Len(b))) = Len(b) - c
         /\ \A i \in 1..Len(b) - c : SubSeq(b, c + 1, Len(b))[i] = b[c + i]
<1> DEFINE d == SubSeq(b, c + 1, Len(b))
<1>1. Len(b) \in Nat /\ Len(r) \in Nat
  BY LenProperties
<1>2. \A i \in c + 1..Len(b) : b[i] \in Bytes
  <2>1. \A i \in c + 1..Len(b) : i \in 1..Len(b)
    BY <1>1
  <2> QED
    BY <2>1, ElementOfSeq
<1>3. c + 1 \in Int /\ Len(b) \in Int
  BY <1>1
<1>4. /\ d \in Seq(Bytes)
      /\ Len(d) = IF c + 1 <= Len(b) THEN Len(b) - (c + 1) + 1 ELSE 0
      /\ \A i \in 1..Len(b) - (c + 1) + 1 : d[i] = b[c + 1 + i - 1]
  BY <1>2, <1>3, SubSeqProperties
<1> HIDE DEF d
<1>5. Len(d) = Len(b) - c
  BY <1>1, <1>4
<1>6. ASSUME NEW i \in 1..Len(b) - c
      PROVE  d[i] = b[c + i]
  <2>1. i \in 1..Len(b) - (c + 1) + 1 /\ c + 1 + i - 1 = c + i
    BY <1>1
  <2>2. d[i] = b[c + 1 + i - 1]
    BY <1>4, <2>1
  <2> QED
    BY <2>1, <2>2
<1>7. p + Len(b) = Len(r) /\ \A i \in 1..Len(b) : b[i] = r[p + i]
  BY DEF TailFrom
<1>8. ASSUME NEW i \in 1..Len(d)
      PROVE  d[i] = r[p + c + i]
  <2>1. i \in 1..Len(b) - c /\ c + i \in 1..Len(b) /\ p + (c + i) = p + c + i
    BY <1>1, <1>5
  <2>2. d[i] = b[c + i] /\ b[c + i] = r[p + (c + i)]
    BY <1>6, <1>7, <2>1
  <2> QED
    BY <2>1, <2>2
<1>9. p + c + Len(d) = Len(r)
  BY <1>1, <1>5, <1>7, SMTT(20)
<1>10. TailFrom(d, p + c, r)
  BY <1>8, <1>9 DEF TailFrom
<1> QED
  BY <1>4, <1>5, <1>6, <1>10 DEF d

LEMMA IngestOK ==
  ASSUME IInv, NEW payload \in Segments, Ingest(payload)
  PROVE  IInv'
<1>1. /\ payload \in Seq(Bytes) /\ buf \in Seq(Bytes) /\ received \in Seq(Bytes)
      /\ position \in Nat /\ TailFrom(buf, position, received)
  BY ReassemblyAssumption DEF IInv, TypeOK, Located, TailFrom
<1>2. /\ buf' = buf \o payload /\ received' = received \o payload /\ position' = position
      /\ cursor' = 0 /\ records' = << >> /\ pc' = "parsing"
      /\ delivered' = delivered /\ errored' = errored
  BY DEF Ingest
<1>3. /\ buf \o payload \in Seq(Bytes) /\ received \o payload \in Seq(Bytes)
      /\ Len(buf \o payload) \in Nat
  BY <1>1, ConcatProperties, LenProperties
<1>4. TypeOK'
  BY <1>2, <1>3, EmptySeq DEF IInv, TypeOK
<1>5. TailFrom(buf', position', received') /\ cursor' <= Len(buf')
  BY <1>1, <1>2, <1>3, TailExtended
<1>6. Located'
  BY <1>5 DEF TailFrom, Located
<1>7. Len(records') = 0
  BY <1>2, EmptySeq
<1>8. position' + cursor' = position'
  BY <1>1, <1>2
<1>9. ParsedTile'
  BY <1>2, <1>7, <1>8 DEF ParsedTile, Abstract!Tiles
<1>10. IdleClean' /\ NothingCompleteLeft'
  BY <1>2 DEF IdleClean, NothingCompleteLeft
<1> QED
  BY <1>4, <1>6, <1>9, <1>10 DEF IInv

LEMMA ParseRecordOK ==
  ASSUME IInv, ParseRecord
  PROVE  IInv'
<1> DEFINE r == [start |-> position + cursor, end |-> position + RecordEnd]
           m == Len(records)
<1>0. /\ TypeOK /\ Located /\ HeaderComplete /\ Length \in Nat /\ m \in Nat
      /\ RecordEnd \in Nat /\ cursor <= RecordEnd
  BY Lengths, HeaderInStream, SMTT(20) DEF IInv, ParseRecord, RecordEnd
<1>1. r \in Slices
  BY <1>0, Lengths DEF Slices
<1>2. /\ records' \in Seq(Slices) /\ Len(records') = m + 1 /\ records'[m + 1] = r
      /\ records' # << >>
      /\ \A i \in 1..m : records'[i] = records[i]
  BY <1>0, <1>1, AppendProperties DEF ParseRecord, TypeOK
<1>3. TypeOK'
  BY <1>0, <1>2 DEF ParseRecord, TypeOK
<1>4. Located'
  BY DEF IInv, Located, ParseRecord
<1>5. Abstract!IsRecord(received, r)
  <2>1. /\ Abstract!HasHeader(received, position + cursor)
        /\ Abstract!Announced(received, position + cursor) = Length
    BY <1>0, HeaderInStream
  <2>2. Length <= MAX_RECORD_PAYLOAD
    BY <1>0, ReassemblyAssumption DEF ParseRecord, Oversize
  <2>3. position + RecordEnd = Abstract!RecordEnd(received, position + cursor)
    BY <1>0, <2>1, Lengths DEF RecordEnd, Abstract!RecordEnd
  <2>4. position + RecordEnd <= Len(received)
    BY <1>0, Lengths DEF ParseRecord, Located
  <2> QED
    BY <2>1, <2>2, <2>3, <2>4 DEF Abstract!IsRecord
<1>6. ParsedTile'
  <2>1. /\ received' = received /\ position' = position /\ cursor' = RecordEnd
    BY DEF ParseRecord
  <2>2. /\ \A i \in 1..m : Abstract!IsRecord(received, records[i])
        /\ \A i \in 1..m : records[i].start = IF i = 1 THEN position ELSE records[i - 1].end
        /\ position + cursor = IF records = << >> THEN position ELSE records[m].end
    BY DEF IInv, ParsedTile, Abstract!Tiles
  <2>3. \A i \in 1..Len(records') : i \in 1..m \/ i = m + 1
    BY <1>0, <1>2
  <2>4. \A i \in 1..Len(records') : Abstract!IsRecord(received, records'[i])
    BY <1>2, <1>5, <2>2, <2>3
  <2>5. ASSUME NEW i \in 1..Len(records')
        PROVE  records'[i].start = IF i = 1 THEN position ELSE records'[i - 1].end
    <3>1. CASE i \in 1..m
      <4>1. i = 1 \/ i - 1 \in 1..m
        BY <1>0, <3>1
      <4> QED
        BY <1>2, <2>2, <3>1, <4>1
    <3>2. CASE i = m + 1
      <4>1. records'[i].start = position + cursor
        BY <1>2, <3>2
      <4>2. CASE m = 0
        <5>1. records = << >>
          BY <1>0, <4>2, EmptySeq DEF TypeOK
        <5> QED
          BY <2>2, <3>2, <4>1, <4>2, <5>1
      <4>3. CASE m # 0
        <5>1. records # << >> /\ m \in 1..m /\ i - 1 = m /\ i # 1
          BY <1>0, <3>2, <4>3
        <5> QED
          BY <1>2, <2>2, <4>1, <5>1
      <4> QED
        BY <4>2, <4>3
    <3> QED
      BY <2>3, <3>1, <3>2
  <2>6. position + RecordEnd = records'[Len(records')].end
    BY <1>2
  <2> QED
    BY <1>2, <2>1, <2>4, <2>5, <2>6 DEF ParsedTile, Abstract!Tiles
<1>7. IdleClean' /\ NothingCompleteLeft'
  BY DEF ParseRecord, IdleClean, NothingCompleteLeft
<1> QED
  BY <1>3, <1>4, <1>6, <1>7 DEF IInv

LEMMA ParseEndsOK ==
  ASSUME IInv, ParseEnds
  PROVE  IInv'
<1> DEFINE d == SubSeq(buf, cursor + 1, Len(buf))
<1>1. /\ buf \in Seq(Bytes) /\ received \in Seq(Bytes) /\ position \in Nat /\ cursor \in Nat
      /\ records \in Seq(Slices) /\ delivered \in Seq(Slices)
      /\ TailFrom(buf, position, received) /\ cursor <= Len(buf)
  BY DEF IInv, TypeOK, Located, TailFrom
<1>2. /\ buf' = d /\ received' = received /\ position' = position + cursor
      /\ cursor' = 0 /\ records' = << >> /\ pc' = "idle"
      /\ delivered' = delivered \o records /\ errored' = errored
  BY DEF ParseEnds
<1>3. /\ d \in Seq(Bytes) /\ TailFrom(d, position + cursor, received)
      /\ Len(d) = Len(buf) - cursor
      /\ \A i \in 1..Len(buf) - cursor : d[i] = buf[cursor + i]
  BY <1>1, TailDrained
<1> HIDE DEF d
<1>4. /\ Len(buf) \in Nat /\ Len(d) \in Nat
      /\ RECORD_HEADER_LEN \in Nat /\ RECORD_HEADER_LEN >= 1
  BY <1>1, <1>3, LenProperties, ReassemblyAssumption
<1>5. TypeOK'
  <2>1. delivered \o records \in Seq(Slices)
    BY <1>1, ConcatProperties
  <2>2. << >> \in Seq(Slices)
    BY EmptySeq
  <2>3. position + cursor \in Nat
    BY <1>1
  <2> QED
    BY <1>1, <1>2, <1>3, <2>1, <2>2, <2>3 DEF IInv, TypeOK
<1>6. Located'
  <2>1. TailFrom(buf', position', received') /\ cursor' <= Len(buf')
    BY <1>2, <1>3, <1>4
  <2> QED
    BY <2>1 DEF TailFrom, Located
<1>7. ParsedTile'
  <2>1. Len(records') = 0 /\ position' + cursor' = position'
    BY <1>1, <1>2, EmptySeq
  <2> QED
    BY <1>2, <2>1 DEF ParsedTile, Abstract!Tiles
<1>8. IdleClean'
  BY <1>2 DEF IdleClean
<1>9. ASSUME Len(d) >= RECORD_HEADER_LEN
      PROVE  /\ d[RECORD_HEADER_LEN] <= MAX_RECORD_PAYLOAD
             /\ Len(d) < RECORD_HEADER_LEN + d[RECORD_HEADER_LEN]
  <2>1. HeaderComplete
    BY <1>1, <1>3, <1>4, <1>9 DEF HeaderComplete
  <2>2. Length \in Nat
    BY <2>1, HeaderInStream DEF IInv
  <2>3. ~(Length > MAX_RECORD_PAYLOAD) /\ cursor + RECORD_HEADER_LEN + Length > Len(buf)
    BY <2>1 DEF ParseEnds, Oversize, RecordEnd
  <2>4. d[RECORD_HEADER_LEN] = Length
    BY <1>3, <1>4, <1>9 DEF Length
  <2> QED
    BY <1>1, <1>3, <1>4, <2>2, <2>3, <2>4, ReassemblyAssumption
<1>10. NothingCompleteLeft'
  BY <1>2, <1>9 DEF NothingCompleteLeft
<1> QED
  BY <1>5, <1>6, <1>7, <1>8, <1>10 DEF IInv

LEMMA ParseFailsOK ==
  ASSUME IInv, ParseFails
  PROVE  IInv'
<1>1. /\ buf' = << >> /\ received' = received /\ position' = position + Len(buf)
      /\ cursor' = 0 /\ records' = << >> /\ pc' = "idle"
      /\ delivered' = delivered /\ errored' = TRUE
  BY DEF ParseFails
<1>2. /\ Len(buf) \in Nat /\ position \in Nat /\ position + Len(buf) = Len(received)
      /\ Len(received) \in Nat
  BY Lengths DEF IInv, Located
<1>3. Len(<< >>) = 0 /\ << >> \in Seq(Bytes) /\ << >> \in Seq(Slices)
  BY EmptySeq
<1>4. TypeOK'
  BY <1>1, <1>2, <1>3 DEF IInv, TypeOK
<1>5. Located'
  BY <1>1, <1>2, <1>3 DEF Located
<1>6. Len(records') = 0 /\ position' + cursor' = position'
  BY <1>1, <1>2, <1>3
<1>7. ParsedTile'
  BY <1>1, <1>6 DEF ParsedTile, Abstract!Tiles
<1>8. IdleClean'
  BY <1>1 DEF IdleClean
<1>9. NothingCompleteLeft'
  BY <1>1, <1>3, ReassemblyAssumption DEF NothingCompleteLeft
<1> QED
  BY <1>4, <1>5, <1>7, <1>8, <1>9 DEF IInv

LEMMA OverflowOK ==
  ASSUME IInv, NEW payload \in Segments, Overflow(payload)
  PROVE  IInv'
<1>1. TypeOK'
  BY DEF Overflow, IInv, TypeOK
<1>2. Located' /\ ParsedTile'
  BY DEF Overflow, IInv, Located, ParsedTile
<1>3. IdleClean' /\ NothingCompleteLeft'
  BY DEF Overflow, IInv, IdleClean, NothingCompleteLeft
<1> QED
  BY <1>1, <1>2, <1>3 DEF IInv

THEOREM InvariantHolds == Spec => []IInv
<1>1. IInv /\ UNCHANGED vars => IInv'
  <2> SUFFICES ASSUME IInv, UNCHANGED vars PROVE IInv'
    OBVIOUS
  <2>1. TypeOK' /\ Located'
    BY DEF vars, IInv, TypeOK, Located
  <2>2. ParsedTile' /\ IdleClean' /\ NothingCompleteLeft'
    BY DEF vars, IInv, ParsedTile, IdleClean, NothingCompleteLeft
  <2> QED
    BY <2>1, <2>2 DEF IInv
<1>2. IInv /\ Next => IInv'
  BY IngestOK, OverflowOK, ParseRecordOK, ParseEndsOK, ParseFailsOK DEF Next
<1> QED
  BY InitOK, <1>1, <1>2, PTL DEF Spec

(* The buffer is at all times the tail of the accepted bytes (ingest's     *)
(* extend_from_slice, drain and clear).                                    *)
THEOREM BufferIsTheTail == Spec => []BufferIsTail
<1>1. IInv => BufferIsTail
  <2> SUFFICES ASSUME IInv PROVE BufferIsTail
    OBVIOUS
  <2>1. /\ buf \in Seq(Bytes) /\ received \in Seq(Bytes)
        /\ Len(buf) \in Nat /\ Len(received) \in Nat /\ position \in Nat
        /\ TailFrom(buf, position, received) /\ cursor <= Len(buf)
    BY Lengths DEF IInv, TypeOK, Located, TailFrom
  <2> DEFINE t == SubSeq(received, position + 1, Len(received))
  <2>2. TailFrom(received, 0, received) /\ position <= Len(received)
    BY <2>1 DEF TailFrom
  <2>3. /\ t \in Seq(Bytes) /\ Len(t) = Len(received) - position
        /\ \A i \in 1..Len(received) - position : t[i] = received[position + i]
    BY <2>1, <2>2, TailDrained
  <2> HIDE DEF t
  <2>4. Len(buf) = Len(received) - position /\ position + Len(buf) = Len(received)
    BY <2>1 DEF TailFrom
  <2>5. \A i \in 1..Len(buf) : buf[i] = t[i]
    BY <2>1, <2>3, <2>4 DEF TailFrom
  <2>6. buf = t
    BY <2>1, <2>3, <2>4, <2>5, SeqEqual
  <2> QED
    BY <2>1, <2>4, <2>6 DEF BufferIsTail, t
<1> QED
  BY <1>1, InvariantHolds, PTL

(* No complete record and no oversize header waits between calls           *)
(* (parse_records' loop).                                                  *)
THEOREM NothingCompleteStays == Spec => []NothingCompleteLeft
<1>1. IInv => NothingCompleteLeft
  BY DEF IInv
<1> QED
  BY <1>1, InvariantHolds, PTL

(* When a segment plus the longest incomplete record fits the buffer, as   *)
(* the capture's snap length makes it, the cap never refuses a payload     *)
(* (MAX_REASSEMBLY_BYTES).                                                 *)
THEOREM CapIsUnreachable ==
  ASSUME \A payload \in Segments :
           Len(payload) + RECORD_HEADER_LEN + MAX_RECORD_PAYLOAD <= MAX_REASSEMBLY_BYTES + 1
  PROVE  Spec => []CapUnreachable
<1>1. IInv => CapUnreachable
  <2> SUFFICES ASSUME IInv, pc = "idle", NEW payload \in Segments
               PROVE  Len(buf) + Len(payload) <= MAX_REASSEMBLY_BYTES
    BY DEF CapUnreachable, Fits
  <2>1. /\ Len(buf) \in Nat /\ RECORD_HEADER_LEN \in Nat \ {0}
        /\ MAX_RECORD_PAYLOAD \in Nat /\ MAX_REASSEMBLY_BYTES \in Nat
    BY Lengths, ReassemblyAssumption DEF IInv
  <2>2. Len(payload) \in Nat
    <3>1. payload \in Seq(Bytes)
      BY ReassemblyAssumption
    <3> QED
      BY <3>1, LenProperties
  <2>3. CASE Len(buf) >= RECORD_HEADER_LEN
    <3>1. RECORD_HEADER_LEN \in 1..Len(buf)
      BY <2>1, <2>3
    <3>2. buf[RECORD_HEADER_LEN] \in Nat
      BY <3>1, ElementOfSeq, ReassemblyAssumption DEF IInv, TypeOK
    <3>3. /\ buf[RECORD_HEADER_LEN] <= MAX_RECORD_PAYLOAD
          /\ Len(buf) < RECORD_HEADER_LEN + buf[RECORD_HEADER_LEN]
      BY <2>3 DEF IInv, NothingCompleteLeft
    <3> QED
      BY <2>1, <2>2, <3>2, <3>3
  <2>4. CASE ~(Len(buf) >= RECORD_HEADER_LEN)
    BY <2>1, <2>2, <2>4
  <2> QED
    BY <2>3, <2>4
<1> QED
  BY <1>1, InvariantHolds, PTL

-----------------------------------------------------------------------------
(* Refinement of RecordStream.                                             *)

LEMMA PartsOfConcat ==
  ASSUME NEW S, NEW s \in Seq(S), NEW t \in Seq(S)
  PROVE  /\ SubSeq(s \o t, 1, Len(s)) = s
         /\ SubSeq(s \o t, Len(s) + 1, Len(s \o t)) = t
<1> DEFINE st == s \o t
           u == SubSeq(st, 1, Len(s))
           v == SubSeq(st, Len(s) + 1, Len(st))
<1>1. Len(s) \in Nat /\ Len(t) \in Nat
  BY LenProperties
<1>2. /\ st \in Seq(S) /\ Len(st) = Len(s) + Len(t)
      /\ \A i \in 1..Len(s) + Len(t) : st[i] = IF i <= Len(s) THEN s[i] ELSE t[i - Len(s)]
  BY ConcatProperties
<1> HIDE DEF st
<1>3. \A i \in 1..Len(st) : st[i] \in S
  BY <1>2, ElementOfSeq
<1>4. \A i \in 1..Len(s) : i \in 1..Len(st)
  BY <1>1, <1>2
<1>5. /\ u \in Seq(S) /\ Len(u) = IF 1 <= Len(s) THEN Len(s) - 1 + 1 ELSE 0
      /\ \A i \in 1..Len(s) - 1 + 1 : u[i] = st[1 + i - 1]
  BY <1>1, <1>3, <1>4, SubSeqProperties
<1>6. \A i \in Len(s) + 1..Len(st) : i \in 1..Len(st)
  BY <1>1, <1>2
<1>7. Len(s) + 1 \in Int /\ Len(st) \in Int
  BY <1>1, <1>2
<1>8. /\ v \in Seq(S)
      /\ Len(v) = IF Len(s) + 1 <= Len(st) THEN Len(st) - (Len(s) + 1) + 1 ELSE 0
      /\ \A i \in 1..Len(st) - (Len(s) + 1) + 1 : v[i] = st[Len(s) + 1 + i - 1]
  BY <1>3, <1>6, <1>7, SubSeqProperties
<1> HIDE DEF u, v
<1>9. u = s
  <2>1. Len(u) = Len(s)
    BY <1>1, <1>5
  <2>2. ASSUME NEW i \in 1..Len(u) PROVE u[i] = s[i]
    <3>1. i \in 1..Len(s) - 1 + 1 /\ 1 + i - 1 = i /\ i \in 1..Len(s) + Len(t) /\ i <= Len(s)
      BY <1>1, <2>1
    <3>2. u[i] = st[1 + i - 1] /\ st[i] = s[i]
      BY <1>2, <1>5, <3>1
    <3> QED
      BY <3>1, <3>2
  <2> QED
    BY <1>5, <2>1, <2>2, SeqEqual
<1>10. v = t
  <2>1. Len(v) = Len(t)
    BY <1>1, <1>2, <1>8
  <2>2. ASSUME NEW i \in 1..Len(v) PROVE v[i] = t[i]
    <3>1. /\ i \in 1..Len(st) - (Len(s) + 1) + 1 /\ Len(s) + 1 + i - 1 = Len(s) + i
          /\ Len(s) + i \in 1..Len(s) + Len(t) /\ ~(Len(s) + i <= Len(s))
          /\ Len(s) + i - Len(s) = i
      BY <1>1, <1>2, <2>1
    <3>2. v[i] = st[Len(s) + 1 + i - 1]
      BY <1>8, <3>1
    <3>3. st[Len(s) + i] = t[Len(s) + i - Len(s)]
      BY <1>2, <3>1
    <3> QED
      BY <3>1, <3>2, <3>3
  <2> QED
    BY <1>8, <2>1, <2>2, SeqEqual
<1> QED
  BY <1>9, <1>10 DEF u, v, st

LEMMA IngestArrives ==
  ASSUME IInv, NEW payload \in Segments, Ingest(payload)
  PROVE  Abstract!Arrive
<1>1. payload \in Seq(Bytes) /\ payload # << >> /\ received \in Seq(Bytes)
  BY ReassemblyAssumption DEF IInv, TypeOK
<1>2. /\ Len(received) \in Nat /\ Len(payload) \in Nat \ {0}
      /\ Len(received \o payload) = Len(received) + Len(payload)
  BY <1>1, LenProperties, EmptySeq, ConcatProperties
<1>3. SubSeq(received \o payload, 1, Len(received)) = received
  BY <1>1, PartsOfConcat
<1>4. Len(received \o payload) > Len(received)
  BY <1>2
<1> QED
  BY <1>3, <1>4 DEF Ingest, Abstract!Arrive

LEMMA ParseEndsDelivers ==
  ASSUME IInv, ParseEnds
  PROVE  Abstract!Deliver
<1>1. records \in Seq(Slices) /\ delivered \in Seq(Slices)
  BY DEF IInv, TypeOK
<1>2. /\ delivered' = delivered \o records /\ received' = received
      /\ position' = position + cursor
  BY DEF ParseEnds
<1>3. /\ Len(delivered) \in Nat /\ Len(records) \in Nat
      /\ Len(delivered \o records) = Len(delivered) + Len(records)
  BY <1>1, LenProperties, ConcatProperties
<1>4. Len(delivered \o records) >= Len(delivered)
  BY <1>3
<1>5. /\ SubSeq(delivered', 1, Len(delivered)) = delivered
      /\ SubSeq(delivered', Len(delivered) + 1, Len(delivered')) = records
  BY <1>1, <1>2, PartsOfConcat
<1>6. Abstract!Tiles(received, records, position, position')
  BY <1>2 DEF IInv, ParsedTile
<1> QED
  BY <1>2, <1>4, <1>5, <1>6 DEF Abstract!Deliver

LEMMA ParseFailsFails ==
  ASSUME IInv, ParseFails
  PROVE  Abstract!Fail
<1>1. /\ Abstract!HasHeader(received, position + cursor)
      /\ Abstract!Announced(received, position + cursor) > MAX_RECORD_PAYLOAD
  BY HeaderInStream DEF IInv, ParseFails, Oversize
<1>2. position + cursor \in position..Len(received)
  BY Lengths DEF IInv, Located
<1>3. position' = Len(received)
  BY DEF ParseFails, IInv, Located
<1> QED
  BY <1>1, <1>2, <1>3 DEF ParseFails, Abstract!Fail

(* The buffer, drained record by record, implements the stream of records: *)
(* whatever the segment boundaries, ingest's loop sees consecutive exact   *)
(* slices of the accepted bytes (ingest, parse_records).                   *)
THEOREM StreamImplemented == Spec => ImplementsRecordStream
<1>1. Init => Abstract!AbsInit
  BY DEF Init, Abstract!AbsInit
<1>2. IInv /\ [Next]_vars => [Abstract!AbsNext]_(Abstract!absVars)
  <2> SUFFICES ASSUME IInv, [Next]_vars
               PROVE  Abstract!AbsNext \/ UNCHANGED Abstract!absVars
    OBVIOUS
  <2>1. ASSUME NEW payload \in Segments, Ingest(payload)
        PROVE  Abstract!AbsNext
    BY <2>1, IngestArrives DEF Abstract!AbsNext
  <2>2. ASSUME NEW payload \in Segments, Overflow(payload)
        PROVE  UNCHANGED Abstract!absVars
    BY <2>2 DEF Overflow, Abstract!absVars
  <2>3. CASE ParseRecord
    BY <2>3 DEF ParseRecord, Abstract!absVars
  <2>4. CASE ParseEnds
    BY <2>4, ParseEndsDelivers DEF Abstract!AbsNext
  <2>5. CASE ParseFails
    BY <2>5, ParseFailsFails DEF Abstract!AbsNext
  <2>6. CASE UNCHANGED vars
    BY <2>6 DEF vars, Abstract!absVars
  <2> QED
    BY <2>1, <2>2, <2>3, <2>4, <2>5, <2>6 DEF Next
<1> QED
  BY <1>1, <1>2, InvariantHolds, PTL DEF Spec, ImplementsRecordStream, Abstract!AbsSpec

=============================================================================
