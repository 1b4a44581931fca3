------------------------------ MODULE Tracker ------------------------------
(***************************************************************************)
(* The connection tracker of src/src/tracker/reassembly.rs, driven the way *)
(* the tracker thread of src/src/ui/mod.rs drives it: for every captured   *)
(* TCP segment one call of ConnectionTracker::ingest, then one call of     *)
(* evict_stale with the same clock reading.                                *)
(*                                                                         *)
(* A call is cut at the loops of ingest: one step per TLS record and one   *)
(* per handshake message.  `phase', `key', `direction', `now_ms', `todo'   *)
(* and `remaining' are the locals of the call in progress.  The bytes are  *)
(* the subject of module Reassembly; here a segment is the batch of TLS    *)
(* records that parse_records returns for it, any batch being possible.    *)
(*                                                                         *)
(* A TLS version is abstracted to what the code tells apart: "Tls12" for   *)
(* every version up to TLS 1.2, "Tls13" for every other one.  Of the       *)
(* HandshakeInfo only the fields some decision reads are kept; of a logged *)
(* record its direction, number, outer type and the body's label without   *)
(* the size that refines the wording.                                      *)
(***************************************************************************)
EXTENDS Naturals, Sequences

CONSTANTS
  Keys,            \* the flows (canonical ConnectionKeys)
  Origins,         \* what OriginResolver::resolve may answer
  RECORD_LOG_CAP,  \* the length at which a record log stops growing
  StaleTimeout,    \* ConnectionTracker::stale_timeout_ms
  Batches,         \* what one segment may complete: sequences of records
  MaxTime,         \* bound: the clock reads 0..MaxTime
  MaxRecords       \* bound: records ingested in a behaviour

Directions == {"ClientToServer", "ServerToClient"}
Opposite(d) == IF d = "ClientToServer" THEN "ServerToClient" ELSE "ClientToServer"

Stages == {"Idle", "ClientHello", "ServerHello", "Certificate",
           "ServerCertificate", "ServerKeyExchange", "ServerHelloDone",
           "ClientKeyExchange", "ClientFinished", "ServerFinished",
           "ApplicationData", "Errored"}

Versions == {"None", "Tls12", "Tls13"}

\* The handshake messages apply_handshake_record looks at; "Other" is any it ignores.
Messages == [kind : {"ClientHello", "ServerHello", "Certificate", "ServerKeyExchange",
                     "ServerDone", "ClientKeyExchange", "Other"},
             version : Versions]

\* What decode_handshake_body makes of a plaintext record: a hello decoded,
\* or DecodedHandshake::Unknown with the type of the first message.
Decoded == {"ClientHello", "ServerHello", "HelloRetryRequest", "Certificate",
            "ServerKeyExchange", "ServerDone", "ClientKeyExchange", "Finished", "Unknown"}

\* An OwnedRecord: `msgs' are the messages tls_parser finds in the payload
\* before the first it cannot parse, `decoded' the view of the record log.
Records == [type : {"Handshake", "ApplicationData", "ChangeCipherSpec", "Other"},
            msgs : Seq(Messages),
            decoded : Decoded]

Labels == Decoded \cup
          {"ChangeCipherSpec",
           "ApplicationData",                               \* TLS 1.2
           "EncryptedExtensions", "FinishedOnly",           \* TLS 1.3, server
           "NewSessionTicket",
           "EarlyData", "FinishedClient",                   \* TLS 1.3, client
           "EncryptedApplicationData",
           "EncryptedFinishedClient",                       \* after a CCS
           "EncryptedTicketOrFinishedServer",
           "EncryptedFinishedServer",
           "EncryptedHandshake"}

RecordEvents == [direction : Directions, sequence : Nat,
                 outer_type : {"Handshake", "ApplicationData", "ChangeCipherSpec"},
                 label : Labels]

TrackedConnections ==
  [first_seen_ms : 0..MaxTime, last_seen_ms : 0..MaxTime,
   stage : Stages, tls_version : Versions, error : BOOLEAN,
   certificate_subject : {"None", "Encrypted"}, origin : Origins,
   records : Seq(RecordEvents), seq_counter : Nat, stop_logging : BOOLEAN,
   encrypted_records_from : [Directions -> Nat],
   post_ccs_records_from : [Directions -> Nat],
   ccs_seen : [Directions -> BOOLEAN],
   saw_client_finished_marker : BOOLEAN]

ASSUME TrackerAssumption ==
  /\ RECORD_LOG_CAP \in Nat
  /\ StaleTimeout \in Nat
  /\ MaxTime \in Nat
  /\ MaxRecords \in Nat
  /\ Origins # {}
  /\ Batches \subseteq Seq(Records)

VARIABLES
  tracked,     \* the keys of ConnectionTracker::connections
  conns,       \* their TrackedConnection; meaningless outside `tracked'
  phase,       \* where the call in progress is
  key,         \* ingest's arguments
  direction,
  now_ms,
  todo,        \* the owned records ingest has not applied yet
  remaining,   \* the messages apply_handshake_record has not parsed yet
  ingested     \* records ingested so far, for the bound only

vars == <<tracked, conns, phase, key, direction, now_ms, todo, remaining, ingested>>
call == <<key, direction, now_ms>>

NewConnection(now, o) ==
  [first_seen_ms |-> now, last_seen_ms |-> now,
   stage |-> "Idle", tls_version |-> "None", error |-> FALSE,
   certificate_subject |-> "None", origin |-> o,
   records |-> << >>, seq_counter |-> 0, stop_logging |-> FALSE,
   encrypted_records_from |-> [d \in Directions |-> 0],
   post_ccs_records_from |-> [d \in Directions |-> 0],
   ccs_seen |-> [d \in Directions |-> FALSE],
   saw_client_finished_marker |-> FALSE]

Untracked == NewConnection(0, CHOOSE o \in Origins : TRUE)

-----------------------------------------------------------------------------
(* Labels of the record log.                                               *)

EncryptedFlightLabel(c, d) ==
  CASE c.tls_version = "Tls12" -> "ApplicationData"
    [] c.tls_version # "Tls12" /\ d = "ServerToClient" ->
         (CASE c.encrypted_records_from[d] = 1 -> "EncryptedExtensions"
            [] c.encrypted_records_from[d] = 2 -> "FinishedOnly"
            [] OTHER -> "NewSessionTicket")
    [] OTHER ->
         (CASE c.encrypted_records_from["ServerToClient"] = 0 -> "EarlyData"
            [] c.encrypted_records_from["ServerToClient"] # 0
               /\ c.encrypted_records_from[d] = 1 -> "FinishedClient"
            [] OTHER -> "EncryptedApplicationData")

PostCcsHandshakeLabel(c, d) ==
  CASE d = "ClientToServer" /\ c.post_ccs_records_from[d] = 0 ->
         "EncryptedFinishedClient"
    [] d = "ServerToClient" /\ c.post_ccs_records_from[d] = 0 ->
         "EncryptedTicketOrFinishedServer"
    [] d = "ServerToClient" /\ c.post_ccs_records_from[d] = 1 ->
         "EncryptedFinishedServer"
    [] OTHER -> "EncryptedHandshake"

\* Fault: build_body consults the other direction's CCS flag.
BuildBodyOtherCcs(c, r, d) ==
  CASE r.type = "Handshake" /\ c.ccs_seen[Opposite(d)] -> PostCcsHandshakeLabel(c, d)
    [] r.type = "Handshake" /\ ~c.ccs_seen[Opposite(d)] -> r.decoded
    [] r.type = "ApplicationData" -> EncryptedFlightLabel(c, d)
    [] OTHER -> "ChangeCipherSpec"

BuildBody(c, r, d) ==
  CASE r.type = "Handshake" /\ c.ccs_seen[d] -> PostCcsHandshakeLabel(c, d)
    [] r.type = "Handshake" /\ ~c.ccs_seen[d] -> r.decoded
    [] r.type = "ApplicationData" -> EncryptedFlightLabel(c, d)
    [] OTHER -> "ChangeCipherSpec"

RecordEvent(c, r, d) ==
  [direction |-> d, sequence |-> c.seq_counter + 1, outer_type |-> r.type,
   label |-> BuildBody(c, r, d)]

\* Fault: the number is taken before the tests that drop the event.
PushRecordEventCountsDropped(c, r, d) ==
  IF c.stop_logging \/ Len(c.records) >= RECORD_LOG_CAP
  THEN [c EXCEPT !.seq_counter = @ + 1]
  ELSE [c EXCEPT !.seq_counter = @ + 1, !.records = Append(@, RecordEvent(c, r, d))]

\* Fault: the log ignores stop_logging.
PushRecordEventNeverStops(c, r, d) ==
  IF Len(c.records) >= RECORD_LOG_CAP
  THEN c
  ELSE [c EXCEPT !.seq_counter = @ + 1, !.records = Append(@, RecordEvent(c, r, d))]

\* seq_counter's saturating_add never saturates: the log is full long before.
PushRecordEvent(c, r, d) ==
  IF c.stop_logging \/ Len(c.records) >= RECORD_LOG_CAP
  THEN c
  ELSE [c EXCEPT !.seq_counter = @ + 1, !.records = Append(@, RecordEvent(c, r, d))]

-----------------------------------------------------------------------------
(* What one record does to the handshake.                                  *)

MergeClientHello(c, v) ==
  [c EXCEPT !.stage = "ClientHello",
            !.tls_version = IF @ = "None" THEN v ELSE @]

\* Fault: the version the client offered is kept.
MergeServerHelloKeepsOffer(c, v) ==
  [c EXCEPT !.stage = "ServerHello", !.tls_version = IF @ = "None" THEN v ELSE @]

MergeServerHello(c, v) ==
  [c EXCEPT !.stage = "ServerHello",
            !.tls_version = IF v = "None" THEN @ ELSE v]

\* One iteration of the loop of apply_handshake_record.
ApplyHandshakeMessage(c, m, d) ==
  CASE m.kind = "ClientHello" /\ d = "ClientToServer" -> MergeClientHello(c, m.version)
    [] m.kind = "ServerHello" /\ d = "ServerToClient" -> MergeServerHello(c, m.version)
    [] /\ m.kind = "Certificate" /\ d = "ServerToClient"
       /\ c.tls_version # "Tls13" -> [c EXCEPT !.stage = "ServerCertificate"]
    [] m.kind = "ServerKeyExchange" -> [c EXCEPT !.stage = "ServerKeyExchange"]
    [] m.kind = "ServerDone" -> [c EXCEPT !.stage = "ServerHelloDone"]
    [] m.kind = "ClientKeyExchange" /\ d = "ClientToServer" ->
         [c EXCEPT !.stage = "ClientKeyExchange"]
    [] OTHER -> c

\* Fault: the stage guards are missing.
ApplyCcsUnguarded(c, d) ==
  [c EXCEPT !.stage = IF d = "ClientToServer" THEN "ClientFinished" ELSE "ServerFinished"]

ApplyCcs(c, d) ==
  CASE d = "ClientToServer" /\ c.stage = "ClientKeyExchange" ->
         [c EXCEPT !.stage = "ClientFinished"]
    [] d = "ServerToClient" /\ c.stage = "ClientFinished" ->
         [c EXCEPT !.stage = "ServerFinished"]
    [] OTHER -> c

\* Fault: the flight ends one record early.
ServerFlightStageShort(c) ==
  CASE c.saw_client_finished_marker -> "ApplicationData"
    [] ~c.saw_client_finished_marker
       /\ c.encrypted_records_from["ServerToClient"] + 1 \in 1..2 -> "Certificate"
    [] OTHER -> "ServerFinished"

ServerFlightStage(c) ==
  CASE c.saw_client_finished_marker -> "ApplicationData"
    [] ~c.saw_client_finished_marker
       /\ c.encrypted_records_from["ServerToClient"] + 1 \in 1..3 -> "Certificate"
    [] OTHER -> "ServerFinished"

ApplyEncryptedRecord(c, d) ==
  CASE c.tls_version = "Tls12" -> [c EXCEPT !.stage = "ApplicationData"]
    [] c.tls_version # "Tls12" /\ d = "ServerToClient" ->
         [c EXCEPT !.encrypted_records_from[d] = @ + 1,
                   !.stage = ServerFlightStage(c),
                   !.certificate_subject = "Encrypted"]
    [] /\ c.tls_version # "Tls12" /\ d = "ClientToServer"
       /\ c.encrypted_records_from["ServerToClient"] > 0 ->
         [c EXCEPT !.encrypted_records_from[d] = @ + 1,
                   !.saw_client_finished_marker = TRUE,
                   !.stage = IF c.saw_client_finished_marker
                             THEN "ApplicationData" ELSE "ClientFinished"]
    [] OTHER -> c

BothCcsSeen(c) == \A d \in Directions : c.ccs_seen[d]

\* The three arms of ingest's loop that change the connection, each as a whole.

\* Fault: the record is counted before it is labelled.
AfterPostCcsHandshakeCountsFirst(c, r, d) ==
  LET p == PushRecordEvent([c EXCEPT !.post_ccs_records_from[d] = @ + 1], r, d)
  IN  [p EXCEPT !.stop_logging = @ \/ BothCcsSeen(p)]

\* Fault: the end of the handshake is tested before the record is logged.
AfterPostCcsHandshakeStopsFirst(c, r, d) ==
  LET s == [c EXCEPT !.stop_logging = @ \/ BothCcsSeen(c)]
  IN  [PushRecordEvent(s, r, d) EXCEPT !.post_ccs_records_from[d] = @ + 1]

AfterPostCcsHandshake(c, r, d) ==
  LET p == PushRecordEvent(c, r, d)
  IN  [p EXCEPT !.post_ccs_records_from[d] = @ + 1,
                !.stop_logging = @ \/ BothCcsSeen(p)]

\* Fault: the end of the handshake is tested before the record is counted.
AfterApplicationDataStopsLate(c, r, d) ==
  LET s == [c EXCEPT !.stop_logging = \/ @
                                      \/ c.encrypted_records_from["ClientToServer"] >= 2
                                      \/ BothCcsSeen(c)]
  IN  PushRecordEvent(ApplyEncryptedRecord(s, d), r, d)

\* Fault: the record is labelled before it is counted.
AfterApplicationDataLabelsFirst(c, r, d) ==
  LET e == ApplyEncryptedRecord(PushRecordEvent(c, r, d), d)
  IN  [e EXCEPT !.stop_logging = \/ @
                                 \/ e.encrypted_records_from["ClientToServer"] >= 2
                                 \/ BothCcsSeen(e)]

AfterApplicationData(c, r, d) ==
  LET e == ApplyEncryptedRecord(c, d)
      s == [e EXCEPT !.stop_logging = \/ @
                                      \/ e.encrypted_records_from["ClientToServer"] >= 2
                                      \/ BothCcsSeen(e)]
  IN  PushRecordEvent(s, r, d)

AfterChangeCipherSpec(c, r, d) ==
  LET a == [ApplyCcs(c, d) EXCEPT !.ccs_seen[d] = TRUE]
  IN  PushRecordEvent(a, r, d)

-----------------------------------------------------------------------------
Init ==
  /\ tracked = {}
  /\ conns = [k \in Keys |-> Untracked]
  /\ phase = "idle"
  /\ key \in Keys /\ direction \in Directions /\ now_ms = 0
  /\ todo = << >> /\ remaining = << >> /\ ingested = 0

(* The common start of every call with a non-empty payload: the entry, its *)
(* origin when it is new, and last_seen_ms.                                *)
Touched(k, now, o) ==
  [(IF k \in tracked THEN conns[k] ELSE NewConnection(now, o)) EXCEPT !.last_seen_ms = now]

StartCall(k, d, now) ==
  /\ phase = "idle"
  /\ key' = k /\ direction' = d /\ now_ms' = now

\* Fault: no eviction after an empty payload.
IngestEmptyNoEviction(k, d, now) ==
  /\ StartCall(k, d, now)
  /\ UNCHANGED <<tracked, conns, phase, todo, remaining, ingested>>

\* An empty payload (a bare ACK) returns at once; the eviction still follows.
IngestEmpty(k, d, now) ==
  /\ StartCall(k, d, now)
  /\ phase' = "evict"
  /\ UNCHANGED <<tracked, conns, todo, remaining, ingested>>

\* The payload fits and parses: the records of `batch' are to be applied.
Ingest(k, d, now, o, batch) ==
  /\ StartCall(k, d, now)
  /\ ingested + Len(batch) <= MaxRecords
  /\ tracked' = tracked \cup {k}
  /\ conns' = [conns EXCEPT ![k] = Touched(k, now, o)]
  /\ phase' = "records"
  /\ todo' = batch
  /\ ingested' = ingested + Len(batch)
  /\ UNCHANGED remaining

\* The buffer would exceed its cap, or holds a record longer than TLS allows.
IngestFails(k, d, now, o) ==
  /\ StartCall(k, d, now)
  /\ tracked' = tracked \cup {k}
  /\ conns' = [conns EXCEPT ![k] = [Touched(k, now, o) EXCEPT !.stage = "Errored",
                                                              !.error = TRUE]]
  /\ phase' = "records"
  /\ UNCHANGED <<todo, remaining, ingested>>

\* The loop over the records stands before a record of type t.
NextRecordIs(t) == phase = "records" /\ todo # << >> /\ Head(todo).type = t

Consume(c) ==
  /\ conns' = [conns EXCEPT ![key] = c]
  /\ phase' = "records"
  /\ todo' = Tail(todo)
  /\ UNCHANGED <<tracked, call, remaining, ingested>>

BeginHandshakeRecord ==
  /\ NextRecordIs("Handshake")
  /\ ~conns[key].ccs_seen[direction]
  /\ phase' = "messages"
  /\ remaining' = Head(todo).msgs
  /\ UNCHANGED <<tracked, conns, call, todo, ingested>>

ApplyMessage ==
  /\ phase = "messages" /\ remaining # << >>
  /\ conns' = [conns EXCEPT ![key] = ApplyHandshakeMessage(@, Head(remaining), direction)]
  /\ remaining' = Tail(remaining)
  /\ UNCHANGED <<tracked, phase, call, todo, ingested>>

EndHandshakeRecord ==
  /\ phase = "messages" /\ remaining = << >>
  /\ Consume(PushRecordEvent(conns[key], Head(todo), direction))

PostCcsHandshakeRecord ==
  /\ NextRecordIs("Handshake")
  /\ conns[key].ccs_seen[direction]
  /\ Consume(AfterPostCcsHandshake(conns[key], Head(todo), direction))

ApplicationDataRecord ==
  /\ NextRecordIs("ApplicationData")
  /\ Consume(AfterApplicationData(conns[key], Head(todo), direction))

ChangeCipherSpecRecord ==
  /\ NextRecordIs("ChangeCipherSpec")
  /\ Consume(AfterChangeCipherSpec(conns[key], Head(todo), direction))

\* Fault: skipped records reach the log all the same.
IgnoredRecordLogged ==
  /\ NextRecordIs("Other")
  /\ Consume(PushRecordEvent(conns[key], Head(todo), direction))

\* Alerts and unknown record types are skipped.
IgnoredRecord ==
  /\ NextRecordIs("Other")
  /\ Consume(conns[key])

\* ingest returns Some(state); the tracker thread sends it to the UI.
Return ==
  /\ phase = "records" /\ todo = << >>
  /\ phase' = "evict"
  /\ UNCHANGED <<tracked, conns, call, todo, remaining, ingested>>

\* now_ms.saturating_sub(stale_timeout_ms)
Cutoff == IF now_ms >= StaleTimeout THEN now_ms - StaleTimeout ELSE 0
\* Fault: age is measured from the first packet.
FreshSinceFirst(k) == conns[k].first_seen_ms >= Cutoff
Fresh(k) == conns[k].last_seen_ms >= Cutoff

EvictStale ==
  /\ phase = "evict"
  /\ tracked' = {k \in tracked : Fresh(k)}
  /\ conns' = [k \in Keys |-> IF k \in tracked' THEN conns[k] ELSE Untracked]
  /\ phase' = "idle"
  /\ UNCHANGED <<call, todo, remaining, ingested>>

StartOfCall ==
  \E k \in Keys, d \in Directions, now \in 0..MaxTime :
    \/ IngestEmpty(k, d, now)
    \/ \E o \in Origins :
         \/ \E batch \in Batches : Ingest(k, d, now, o, batch)
         \/ IngestFails(k, d, now, o)

StepOfCall ==
  \/ BeginHandshakeRecord
  \/ ApplyMessage
  \/ EndHandshakeRecord
  \/ PostCcsHandshakeRecord
  \/ ApplicationDataRecord
  \/ ChangeCipherSpecRecord
  \/ IgnoredRecord
  \/ Return
  \/ EvictStale

Next == StartOfCall \/ StepOfCall

Spec == Init /\ [][Next]_vars

-----------------------------------------------------------------------------
(* Properties.                                                             *)

TypeOK ==
  /\ tracked \in SUBSET Keys
  /\ conns \in [Keys -> TrackedConnections]
  /\ phase \in {"idle", "records", "messages", "evict"}
  /\ key \in Keys /\ direction \in Directions /\ now_ms \in 0..MaxTime
  /\ todo \in Seq(Records) /\ remaining \in Seq(Messages)
  /\ ingested \in 0..MaxRecords

(* The record log is gap-free and bounded: entry i carries sequence number *)
(* i, the counter is the length, and the length never passes the cap, so a *)
(* dropped record leaves no hole in the numbers the UI shows               *)
(* (push_record_event).                                                    *)
LogGapFree(c) ==
  /\ Len(c.records) = c.seq_counter
  /\ c.seq_counter <= RECORD_LOG_CAP
  /\ \A i \in 1..Len(c.records) : c.records[i].sequence = i

RecordLogGapFree == \A k \in Keys : LogGapFree(conns[k])

(* Once a direction's ChangeCipherSpec is in the log, no later record of   *)
(* that direction is shown decoded: its first byte is ciphertext (the      *)
(* comments on client_ccs_seen and on ingest's Handshake arm).             *)
NoneDecodedAfterCcs(c) ==
  \A i, j \in 1..Len(c.records) :
    /\ i < j
    /\ c.records[i].direction = c.records[j].direction
    /\ c.records[i].outer_type = "ChangeCipherSpec"
    => c.records[j].label \notin Decoded

CiphertextNeverDecoded == \A k \in Keys : NoneDecodedAfterCcs(conns[k])

(* The stage the UI shows is backed by what was observed, whatever the     *)
(* order, loss or repetition of the records: a Finished or application     *)
(* data stage needs the counted records, the CCS or the version that put   *)
(* it there, and the certificate is called encrypted only after an         *)
(* encrypted server record (apply_encrypted_record, apply_ccs).            *)
StageBacked(c) ==
  /\ c.stage = "ClientFinished" =>
       c.saw_client_finished_marker \/ c.ccs_seen["ClientToServer"]
  /\ c.stage = "ServerFinished" =>
       \/ c.encrypted_records_from["ServerToClient"] >= 4
       \/ c.ccs_seen["ServerToClient"]
  /\ c.stage = "ApplicationData" =>
       c.saw_client_finished_marker \/ c.tls_version = "Tls12"
  /\ c.stage = "Certificate" =>
       /\ c.tls_version # "Tls12"
       /\ c.encrypted_records_from["ServerToClient"] \in 1..3
  /\ c.stage = "ServerCertificate" => c.tls_version # "Tls13"
  /\ c.stage = "Errored" => c.error
  /\ c.certificate_subject # "None" <=> c.encrypted_records_from["ServerToClient"] > 0

StageHasEvidence == \A k \in Keys : StageBacked(conns[k])

(* The three records of the client's Finished agree: the marker, the       *)
(* counter, and the end of logging at the client's second encrypted record *)
(* or once both directions have changed cipher and one more record came    *)
(* (ingest's comments on handshake completion).                            *)
FinishAgrees(c) ==
  /\ c.saw_client_finished_marker <=> c.encrypted_records_from["ClientToServer"] > 0
  /\ c.saw_client_finished_marker => c.encrypted_records_from["ServerToClient"] > 0
  /\ c.encrypted_records_from["ClientToServer"] >= 2 => c.stop_logging
  /\ c.stop_logging =>
       \/ c.encrypted_records_from["ClientToServer"] >= 2
       \/ BothCcsSeen(c)
  /\ BothCcsSeen(c) /\ (\A d \in Directions : c.post_ccs_records_from[d] > 0)
       => c.stop_logging

FinishDetectionAgrees == \A k \in Keys : FinishAgrees(conns[k])

(* The labels inferred for encrypted records are consistent over the whole *)
(* log: 0-RTT early data is never shown after a record of the server's     *)
(* encrypted flight, the flight opens once, and the client's Finished is   *)
(* shown at most once (encrypted_flight_label, docs/tls13-visibility.md).  *)
ServerFlight == {"EncryptedExtensions", "FinishedOnly", "NewSessionTicket"}

LabelsOrdered(c) ==
  \A i, j \in 1..Len(c.records) : i < j =>
    /\ c.records[i].label \in ServerFlight => c.records[j].label # "EarlyData"
    /\ c.records[i].label = "FinishedClient" =>
         c.records[j].label \notin {"FinishedClient", "EarlyData"}
    /\ c.records[i].label \in ServerFlight => c.records[j].label # "EncryptedExtensions"

InferredLabelsOrdered == \A k \in Keys : LabelsOrdered(conns[k])

(* While a connection stays tracked its log only grows at the end, not at  *)
(* all once logging has stopped, and neither stop_logging nor the reported *)
(* error is ever taken back (push_record_event; HandshakeInfo::error).     *)
GrowsOnly(c, n) ==
  /\ SubSeq(n.records, 1, Len(c.records)) = c.records
  /\ c.stop_logging => n.stop_logging /\ n.records = c.records
  /\ c.error => n.error
  /\ n.first_seen_ms = c.first_seen_ms /\ n.origin = c.origin

HistoryKept == [][\A k \in tracked \cap tracked' : GrowsOnly(conns[k], conns'[k])]_vars

(* Eviction takes exactly the silent: after a call no tracked connection   *)
(* has been silent for longer than the timeout, and a step that removes a  *)
(* connection never removes one heard from within the timeout (so not the  *)
(* one just fed), whichever way the wall clock moved (evict_stale).        *)
NoStaleConnection ==
  phase = "idle" => \A k \in tracked : conns[k].last_seen_ms + StaleTimeout >= now_ms

OnlySilentEvicted ==
  [][\A k \in tracked \ tracked' :
       conns[k].last_seen_ms + StaleTimeout < now_ms]_vars

=============================================================================
