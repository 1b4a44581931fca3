----------------------------- MODULE Reassembly -----------------------------
(***************************************************************************)
(* The reassembly buffer of one direction of one flow: what ingest         *)
(* (src/src/tracker/reassembly.rs) does with a payload before it looks at  *)
(* the records, with the loop of parse_records (src/src/parser/record.rs)  *)
(* one step per iteration.                                                 *)
(*                                                                         *)
(* A header is RECORD_HEADER_LEN cells, of which the last announces the    *)
(* payload length (the source's two length bytes in one cell); the type    *)
(* and version cells are data.  `received', `delivered', `position' are    *)
(* history: the accepted bytes, the records handed to ingest's loop, and   *)
(* the offset in `received' of the first byte of the buffer.               *)
(***************************************************************************)
EXTENDS Naturals, Sequences

CONSTANTS
  Bytes, RECORD_HEADER_LEN, MAX_RECORD_PAYLOAD,
  MAX_REASSEMBLY_BYTES,   \* the cap on the buffer
  MAX_CIPHERTEXT,         \* what TLS itself allows a record (RFC 8446, 5.2); only properties use it
  Segments,               \* the payloads that may arrive, none empty
  MaxReceived             \* bound: bytes accepted in a behaviour

ASSUME ReassemblyAssumption ==
  /\ Bytes \subseteq Nat
  /\ RECORD_HEADER_LEN \in Nat \ {0}
  /\ MAX_RECORD_PAYLOAD \in Nat
  /\ MAX_REASSEMBLY_BYTES \in Nat
  /\ MaxReceived \in Nat
  /\ Segments \subseteq Seq(Bytes) \ {<< >>}

VARIABLES
  buf,        \* client_to_server_buf or server_to_client_buf
  cursor,     \* parse_records' locals
  records,
  pc,         \* "idle" between calls, "parsing" inside parse_records
  errored,    \* HandshakeInfo::error was set by this direction
  received, delivered, position

vars == <<buf, cursor, records, pc, errored, received, delivered, position>>

Slices == [start : Nat, end : Nat]

Init ==
  /\ buf = << >> /\ cursor = 0 /\ records = << >> /\ pc = "idle" /\ errored = FALSE
  /\ received = << >> /\ delivered = << >> /\ position = 0

Fits(payload) == Len(buf) + Len(payload) <= MAX_REASSEMBLY_BYTES

Ingest(payload) ==
  /\ pc = "idle"
  /\ Len(received) + Len(payload) <= MaxReceived
  /\ Fits(payload)
  /\ buf' = buf \o payload
  /\ received' = received \o payload
  /\ cursor' = 0 /\ records' = << >>
  /\ pc' = "parsing"
  /\ UNCHANGED <<errored, delivered, position>>

\* Fault: the payload is cut to what fits, and nobody tells the history.
OverflowTruncates(payload) ==
  /\ pc = "idle"
  /\ ~Fits(payload)
  /\ errored' = TRUE
  /\ buf' = SubSeq(buf \o payload, 1, MAX_REASSEMBLY_BYTES)
  /\ UNCHANGED <<cursor, records, pc, received, delivered, position>>

\* The payload is dropped and what the buffer holds stays.
Overflow(payload) ==
  /\ pc = "idle"
  /\ ~Fits(payload)
  /\ errored' = TRUE
  /\ UNCHANGED <<buf, cursor, records, pc, received, delivered, position>>

HeaderComplete == Len(buf) - cursor >= RECORD_HEADER_LEN
Length == buf[cursor + RECORD_HEADER_LEN]
Oversize == Length > MAX_RECORD_PAYLOAD
\* Fault: the length is taken to include the header.
RecordEndWithoutHeader == cursor + Length
RecordEnd == cursor + RECORD_HEADER_LEN + Length

ParseRecord ==
  /\ pc = "parsing"
  /\ HeaderComplete /\ ~Oversize /\ RecordEnd <= Len(buf)
  /\ records' = Append(records, [start |-> position + cursor,
                                 end |-> position + RecordEnd])
  /\ cursor' = RecordEnd
  /\ UNCHANGED <<buf, pc, errored, received, delivered, position>>

\* Fault: one record per call.
ParseEndsAfterOne ==
  /\ pc = "parsing"
  /\ HeaderComplete => ~Oversize /\ (RecordEnd > Len(buf) \/ records # << >>)
  /\ delivered' = delivered \o records
  /\ buf' = SubSeq(buf, cursor + 1, Len(buf))
  /\ position' = position + cursor
  /\ cursor' = 0 /\ records' = << >>
  /\ pc' = "idle"
  /\ UNCHANGED <<errored, received>>

\* parse_records returns what it has; ingest drains the buffer up to the cursor.
ParseEnds ==
  /\ pc = "parsing"
  /\ HeaderComplete => ~Oversize /\ RecordEnd > Len(buf)
  /\ delivered' = delivered \o records
  /\ buf' = SubSeq(buf, cursor + 1, Len(buf))
  /\ position' = position + cursor
  /\ cursor' = 0 /\ records' = << >>
  /\ pc' = "idle"
  /\ UNCHANGED <<errored, received>>

\* parse_records fails: the records before the bad header are lost with it.
ParseFails ==
  /\ pc = "parsing"
  /\ HeaderComplete /\ Oversize
  /\ errored' = TRUE
  /\ buf' = << >>
  /\ position' = position + Len(buf)
  /\ cursor' = 0 /\ records' = << >>
  /\ pc' = "idle"
  /\ UNCHANGED <<received, delivered>>

Next ==
  \/ \E payload \in Segments : Ingest(payload) \/ Overflow(payload)
  \/ ParseRecord
  \/ ParseEnds
  \/ ParseFails

Spec == Init /\ [][Next]_vars

-----------------------------------------------------------------------------
(* Properties.                                                             *)

TypeOK ==
  /\ buf \in Seq(Bytes) /\ received \in Seq(Bytes)
  /\ cursor \in Nat /\ position \in Nat
  /\ records \in Seq(Slices) /\ delivered \in Seq(Slices)
  /\ pc \in {"idle", "parsing"} /\ errored \in BOOLEAN

(* No byte is lost, repeated or reordered between segment and parser: the  *)
(* buffer is always the tail of the accepted bytes, and the cursor never   *)
(* leaves it (extend_from_slice, drain and clear in ingest).               *)
BufferIsTail ==
  /\ buf = SubSeq(received, position + 1, Len(received))
  /\ position + Len(buf) = Len(received)
  /\ cursor <= Len(buf)

(* After a call no complete record waits in the buffer, and no oversize    *)
(* header: what stays is a strict prefix of one legal record, so a record  *)
(* is never shown late because of where a segment ended (parse_records'    *)
(* loop condition and its break).                                          *)
NothingCompleteLeft ==
  pc = "idle" /\ Len(buf) >= RECORD_HEADER_LEN =>
    /\ buf[RECORD_HEADER_LEN] <= MAX_RECORD_PAYLOAD
    /\ Len(buf) < RECORD_HEADER_LEN + buf[RECORD_HEADER_LEN]

(* With the sizes the program has, the cap is never the reason for an      *)
(* error: what one call leaves plus one segment stays below it.  The       *)
(* bound on a segment is the capture's, not ingest's (MAX_REASSEMBLY_BYTES *)
(* against the snap length of capture/live.rs).                            *)
CapUnreachable ==
  pc = "idle" => \A payload \in Segments : Fits(payload)

(* Only a record longer than TLS allows is refused (the doc comment of     *)
(* MAX_RECORD_PAYLOAD, "permitted by RFC 8446"): the error stage is for    *)
(* bad records.                                                            *)
RefusedOnlyIfIllegal ==
  pc = "parsing" /\ HeaderComplete /\ Oversize => Length > MAX_CIPHERTEXT

(* The records handed over are consecutive exact slices of the stream.     *)
Abstract == INSTANCE RecordStream
ImplementsRecordStream == Abstract!AbsSpec
=============================================================================
