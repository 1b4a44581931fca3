---------------------------- MODULE RecordStream ----------------------------
(***************************************************************************)
(* What reassembly promises to the rest of the tracker, for one direction  *)
(* of one TCP flow: whatever the segment boundaries, the records it hands  *)
(* over are consecutive slices of the accepted bytes, each exactly as long *)
(* as its own header says.  The only permitted break is a failure, after   *)
(* which reading resumes with the next byte to arrive.  A failure needs a  *)
(* header announcing an oversize payload among the bytes not handed over.  *)
(***************************************************************************)
EXTENDS Naturals, Sequences

CONSTANTS
  Bytes,               \* values of one cell of the stream
  RECORD_HEADER_LEN,   \* cells of a record header; the last announces the payload
  MAX_RECORD_PAYLOAD   \* the longest payload a header may announce

VARIABLES
  received,    \* every byte accepted so far
  delivered,   \* records handed over: slices of `received', as offsets
  position     \* where the next record starts

absVars == <<received, delivered, position>>

\* The payload length announced by the header that starts after offset p.
Announced(stream, p) == stream[p + RECORD_HEADER_LEN]

HasHeader(stream, p) == p + RECORD_HEADER_LEN <= Len(stream)

RecordEnd(stream, p) == p + RECORD_HEADER_LEN + Announced(stream, p)

\* A record that may be handed over.
IsRecord(stream, r) ==
  /\ HasHeader(stream, r.start)
  /\ Announced(stream, r.start) <= MAX_RECORD_PAYLOAD
  /\ r.end = RecordEnd(stream, r.start)
  /\ r.end <= Len(stream)

\* Records i of rs follow one another from offset `from' to offset `to'.
Tiles(stream, rs, from, to) ==
  /\ \A i \in 1..Len(rs) : IsRecord(stream, rs[i])
  /\ \A i \in 1..Len(rs) : rs[i].start = IF i = 1 THEN from ELSE rs[i - 1].end
  /\ to = IF rs = << >> THEN from ELSE rs[Len(rs)].end

AbsInit == received = << >> /\ delivered = << >> /\ position = 0

\* Bytes arrive at the end.
Arrive ==
  /\ Len(received') > Len(received)
  /\ SubSeq(received', 1, Len(received)) = received
  /\ UNCHANGED <<delivered, position>>

\* Some records that follow `position' are handed over.
Deliver ==
  /\ Len(delivered') >= Len(delivered)
  /\ SubSeq(delivered', 1, Len(delivered)) = delivered
  /\ Tiles(received, SubSeq(delivered', Len(delivered) + 1, Len(delivered')),
           position, position')
  /\ UNCHANGED received

\* An oversize header among the undelivered bytes: they are all dropped.
Fail ==
  /\ \E p \in position..Len(received) :
       HasHeader(received, p) /\ Announced(received, p) > MAX_RECORD_PAYLOAD
  /\ position' = Len(received)
  /\ UNCHANGED <<received, delivered>>

AbsNext == Arrive \/ Deliver \/ Fail

AbsSpec == AbsInit /\ [][AbsNext]_absVars
=============================================================================
