--------------------------- MODULE TrackerProofs ---------------------------
(***************************************************************************)
(* Proofs about Tracker, for every set of flows, every log cap, timeout,   *)
(* clock range and every set of record batches.                            *)
(***************************************************************************)
EXTENDS Tracker, SequenceTheorems, TLAPS

-----------------------------------------------------------------------------
(* The operators on one tracked connection keep its type.                  *)

LEMMA NewConnectionType ==
  ASSUME NEW now \in 0..MaxTime, NEW o \in Origins
  PROVE  NewConnection(now, o) \in TrackedConnections
  BY DEF NewConnection, TrackedConnections, Directions, Stages, Versions

LEMMA LabelType ==
  ASSUME NEW c \in TrackedConnections, NEW r \in Records, NEW d \in Directions
  PROVE  BuildBody(c, r, d) \in Labels
  BY DEF BuildBody, PostCcsHandshakeLabel, EncryptedFlightLabel, Labels, Records,
         TrackedConnections, Directions, Versions

LEMMA WithRecordsType ==
  ASSUME NEW c \in TrackedConnections, NEW n \in Nat, NEW s \in Seq(RecordEvents)
  PROVE  [c EXCEPT !.seq_counter = n, !.records = s] \in TrackedConnections
  BY DEF TrackedConnections

LEMMA PushedEventType ==
  ASSUME NEW c \in TrackedConnections, NEW r \in Records, NEW d \in Directions,
         r.type # "Other"
  PROVE  RecordEvent(c, r, d) \in RecordEvents
<1>1. c.seq_counter + 1 \in Nat
  BY DEF TrackedConnections
<1>2. r.type \in {"Handshake", "ApplicationData", "ChangeCipherSpec"}
  BY DEF Records
<1>3. BuildBody(c, r, d) \in Labels
  BY LabelType
<1> QED
  BY <1>1, <1>2, <1>3 DEF RecordEvent, RecordEvents

LEMMA PushType ==
  ASSUME NEW c \in TrackedConnections, NEW r \in Records, NEW d \in Directions,
         r.type # "Other"
  PROVE  PushRecordEvent(c, r, d) \in TrackedConnections
<1>1. RecordEvent(c, r, d) \in RecordEvents
  BY PushedEventType
<1>2. c.records \in Seq(RecordEvents)
  BY DEF TrackedConnections
<1>3. Append(c.records, RecordEvent(c, r, d)) \in Seq(RecordEvents)
  BY <1>1, <1>2
<1>4. [c EXCEPT !.seq_counter = @ + 1, !.records = Append(@, RecordEvent(c, r, d))]
        \in TrackedConnections
  <2>1. c.seq_counter + 1 \in Nat
    BY DEF TrackedConnections
  <2> QED
    BY <1>3, <2>1, WithRecordsType
<1> QED
  BY <1>4 DEF PushRecordEvent

LEMMA MessageType ==
  ASSUME NEW c \in TrackedConnections, NEW m \in Messages, NEW d \in Directions
  PROVE  ApplyHandshakeMessage(c, m, d) \in TrackedConnections
  BY DEF ApplyHandshakeMessage, MergeClientHello, MergeServerHello, TrackedConnections,
         Messages, Stages, Versions, Directions

LEMMA MessageKeeps ==
  ASSUME NEW c \in TrackedConnections, NEW m \in Messages, NEW d \in Directions
  PROVE  LET n == ApplyHandshakeMessage(c, m, d)
         IN  /\ n.records = c.records /\ n.seq_counter = c.seq_counter
             /\ n.ccs_seen = c.ccs_seen /\ n.error = c.error
             /\ n.encrypted_records_from = c.encrypted_records_from
             /\ n.post_ccs_records_from = c.post_ccs_records_from
             /\ n.stop_logging = c.stop_logging
             /\ n.saw_client_finished_marker = c.saw_client_finished_marker
             /\ n.first_seen_ms = c.first_seen_ms /\ n.last_seen_ms = c.last_seen_ms
             /\ n.origin = c.origin /\ n.certificate_subject = c.certificate_subject
  BY DEF ApplyHandshakeMessage, MergeClientHello, MergeServerHello, TrackedConnections

LEMMA CcsType ==
  ASSUME NEW c \in TrackedConnections, NEW d \in Directions
  PROVE  ApplyCcs(c, d) \in TrackedConnections
  BY DEF ApplyCcs, TrackedConnections, Stages

LEMMA WithCountType ==
  ASSUME NEW f \in [Directions -> Nat], NEW d \in Directions
  PROVE  [f EXCEPT ![d] = @ + 1] \in [Directions -> Nat]
  OBVIOUS

LEMMA WithServerFlightType ==
  ASSUME NEW c \in TrackedConnections, NEW f \in [Directions -> Nat], NEW s \in Stages
  PROVE  [c EXCEPT !.encrypted_records_from = f, !.stage = s,
                   !.certificate_subject = "Encrypted"] \in TrackedConnections
  BY DEF TrackedConnections

LEMMA WithClientFlightType ==
  ASSUME NEW c \in TrackedConnections, NEW f \in [Directions -> Nat], NEW s \in Stages
  PROVE  [c EXCEPT !.encrypted_records_from = f, !.saw_client_finished_marker = TRUE,
                   !.stage = s] \in TrackedConnections
  BY DEF TrackedConnections

LEMMA EncryptedType ==
  ASSUME NEW c \in TrackedConnections, NEW d \in Directions
  PROVE  ApplyEncryptedRecord(c, d) \in TrackedConnections
<1>1. [c.encrypted_records_from EXCEPT ![d] = @ + 1] \in [Directions -> Nat]
  BY WithCountType DEF TrackedConnections
<1>2. CASE c.tls_version = "Tls12"
  BY <1>2 DEF ApplyEncryptedRecord, TrackedConnections, Stages
<1>3. CASE c.tls_version # "Tls12" /\ d = "ServerToClient"
  <2>1. ServerFlightStage(c) \in Stages
    BY DEF ServerFlightStage, Stages
  <2> QED
    BY <1>1, <1>3, <2>1, WithServerFlightType DEF ApplyEncryptedRecord
<1>4. CASE c.tls_version # "Tls12" /\ d # "ServerToClient"
  <2>1. (IF c.saw_client_finished_marker THEN "ApplicationData" ELSE "ClientFinished")
          \in Stages
    BY DEF Stages
  <2> QED
    BY <1>1, <1>4, <2>1, WithClientFlightType DEF ApplyEncryptedRecord, Directions
<1> QED
  BY <1>2, <1>3, <1>4

\* What a record update leaves alone.
LEMMA WithClientFlight ==
  ASSUME NEW c \in TrackedConnections, NEW f, NEW s
  PROVE  LET n == [c EXCEPT !.encrypted_records_from = f,
                            !.saw_client_finished_marker = TRUE, !.stage = s]
         IN  /\ n.encrypted_records_from = f /\ n.stage = s
             /\ n.certificate_subject = c.certificate_subject
             /\ n.saw_client_finished_marker = TRUE
  BY DEF TrackedConnections

LEMMA WithPostCcsType ==
  ASSUME NEW c \in TrackedConnections, NEW f \in [Directions -> Nat], NEW b \in BOOLEAN
  PROVE  [c EXCEPT !.post_ccs_records_from = f, !.stop_logging = b] \in TrackedConnections
  BY DEF TrackedConnections

LEMMA ArmsType ==
  ASSUME NEW c \in TrackedConnections, NEW r \in Records, NEW d \in Directions,
         r.type # "Other"
  PROVE  /\ AfterPostCcsHandshake(c, r, d) \in TrackedConnections
         /\ AfterApplicationData(c, r, d) \in TrackedConnections
         /\ AfterChangeCipherSpec(c, r, d) \in TrackedConnections
<1>1. AfterPostCcsHandshake(c, r, d) \in TrackedConnections
  <2> DEFINE p == PushRecordEvent(c, r, d)
  <2>1. p \in TrackedConnections
    BY PushType
  <2>2. [p.post_ccs_records_from EXCEPT ![d] = @ + 1] \in [Directions -> Nat]
    BY <2>1, WithCountType DEF TrackedConnections
  <2>3. (p.stop_logging \/ BothCcsSeen(p)) \in BOOLEAN
    OBVIOUS
  <2> QED
    BY <2>1, <2>2, <2>3, WithPostCcsType DEF AfterPostCcsHandshake
<1>2. AfterApplicationData(c, r, d) \in TrackedConnections
  <2> DEFINE e == ApplyEncryptedRecord(c, d)
             s == [e EXCEPT !.stop_logging =
                        \/ @
                        \/ e.encrypted_records_from["ClientToServer"] >= 2
                        \/ BothCcsSeen(e)]
  <2>1. s \in TrackedConnections
    BY EncryptedType, ZenonT(40) DEF BothCcsSeen, TrackedConnections, Directions
  <2> QED
    BY <2>1, PushType DEF AfterApplicationData
<1>3. AfterChangeCipherSpec(c, r, d) \in TrackedConnections
  <2> DEFINE a == [ApplyCcs(c, d) EXCEPT !.ccs_seen[d] = TRUE]
  <2>1. a \in TrackedConnections
    BY CcsType DEF TrackedConnections
  <2> QED
    BY <2>1, PushType DEF AfterChangeCipherSpec
<1> QED
  BY <1>1, <1>2, <1>3

-----------------------------------------------------------------------------
(* Type correctness.                                                       *)

\* Where the call in progress stands: what is left to apply, and to whom.
CallOK ==
  /\ phase \in {"idle", "evict"} => todo = << >>
  /\ phase # "messages" => remaining = << >>
  /\ phase = "messages" => /\ todo # << >>
                           /\ Head(todo).type = "Handshake"
                           /\ ~conns[key].ccs_seen[direction]
  /\ phase \in {"records", "messages"} => key \in tracked

TypeInv == TypeOK /\ CallOK

LEMMA UntrackedType == Untracked \in TrackedConnections
<1>1. (CHOOSE o \in Origins : TRUE) \in Origins
  BY TrackerAssumption
<1>2. 0 \in 0..MaxTime
  BY TrackerAssumption
<1> QED
  BY <1>1, <1>2, NewConnectionType DEF Untracked

LEMMA TouchedType ==
  ASSUME TypeOK, NEW k \in Keys, NEW now \in 0..MaxTime, NEW o \in Origins
  PROVE  Touched(k, now, o) \in TrackedConnections
<1>1. ASSUME NEW c \in TrackedConnections
      PROVE  [c EXCEPT !.last_seen_ms = now] \in TrackedConnections
  BY <1>1 DEF TrackedConnections
<1>2. conns[k] \in TrackedConnections /\ NewConnection(now, o) \in TrackedConnections
  BY NewConnectionType DEF TypeOK
<1> QED
  BY <1>1, <1>2 DEF Touched

\* A step that consumes the record at the head of `todo'.
LEMMA ConsumeType ==
  ASSUME TypeInv, NEW c \in TrackedConnections, phase \in {"records", "messages"},
         todo # << >>, remaining = << >>, Consume(c)
  PROVE  TypeInv'
<1>1. Tail(todo) \in Seq(Records)
  BY DEF TypeInv, TypeOK
<1>2. conns' \in [Keys -> TrackedConnections]
  BY DEF TypeInv, TypeOK, Consume
<1> QED
  BY <1>1, <1>2 DEF TypeInv, TypeOK, CallOK, Consume, call

LEMMA TypeInit == Init => TypeInv
  BY UntrackedType, TrackerAssumption DEF Init, TypeInv, TypeOK, CallOK

LEMMA TypeNext == TypeInv /\ [Next]_vars => TypeInv'
<1> SUFFICES ASSUME TypeInv, [Next]_vars PROVE TypeInv'
  OBVIOUS
<1> USE TrackerAssumption
<1>1. ASSUME NEW k \in Keys, NEW d \in Directions, NEW now \in 0..MaxTime,
             IngestEmpty(k, d, now)
      PROVE  TypeInv'
  BY <1>1 DEF TypeInv, TypeOK, CallOK, IngestEmpty, StartCall
<1>2. ASSUME NEW k \in Keys, NEW d \in Directions, NEW now \in 0..MaxTime,
             NEW o \in Origins, NEW batch \in Batches, Ingest(k, d, now, o, batch)
      PROVE  TypeInv'
  <2>1. Touched(k, now, o) \in TrackedConnections
    BY TouchedType DEF TypeInv
  <2>2. batch \in Seq(Records) /\ Len(batch) \in Nat
    BY LenProperties
  <2>3. conns' \in [Keys -> TrackedConnections]
    BY <1>2, <2>1 DEF TypeInv, TypeOK, Ingest
  <2> QED
    BY <1>2, <2>2, <2>3 DEF TypeInv, TypeOK, CallOK, Ingest, StartCall
<1>3. ASSUME NEW k \in Keys, NEW d \in Directions, NEW now \in 0..MaxTime,
             NEW o \in Origins, IngestFails(k, d, now, o)
      PROVE  TypeInv'
  <2>1. ASSUME NEW c \in TrackedConnections
        PROVE  [c EXCEPT !.stage = "Errored", !.error = TRUE] \in TrackedConnections
    BY <2>1 DEF TrackedConnections, Stages
  <2>2. conns' \in [Keys -> TrackedConnections]
    BY <1>3, <2>1, TouchedType DEF TypeInv, TypeOK, IngestFails
  <2> QED
    BY <1>3, <2>2 DEF TypeInv, TypeOK, CallOK, IngestFails, StartCall
<1>4. CASE BeginHandshakeRecord
  <2>1. Head(todo) \in Records
    BY <1>4 DEF BeginHandshakeRecord, NextRecordIs, TypeInv, TypeOK
  <2>2. remaining' \in Seq(Messages)
    BY <1>4, <2>1 DEF BeginHandshakeRecord, Records
  <2> QED
    BY <1>4, <2>2 DEF BeginHandshakeRecord, NextRecordIs, TypeInv, TypeOK, CallOK, call
<1>5. CASE ApplyMessage
  <2>1. Head(remaining) \in Messages /\ Tail(remaining) \in Seq(Messages)
    BY <1>5 DEF ApplyMessage, TypeInv, TypeOK
  <2>2. ApplyHandshakeMessage(conns[key], Head(remaining), direction) \in TrackedConnections
    BY <2>1, MessageType DEF TypeInv, TypeOK
  <2>3. conns' \in [Keys -> TrackedConnections]
    BY <1>5, <2>2 DEF ApplyMessage, TypeInv, TypeOK
  <2>4. ApplyHandshakeMessage(conns[key], Head(remaining), direction).ccs_seen
          = conns[key].ccs_seen
    BY <2>1, MessageKeeps DEF TypeInv, TypeOK
  <2>5. conns'[key].ccs_seen = conns[key].ccs_seen
    BY <1>5, <2>4 DEF ApplyMessage, TypeInv, TypeOK
  <2> QED
    BY <1>5, <2>1, <2>3, <2>5 DEF ApplyMessage, TypeInv, TypeOK, CallOK, call
<1>6. CASE EndHandshakeRecord
  <2>1. Head(todo) \in Records /\ Head(todo).type # "Other"
    BY <1>6 DEF EndHandshakeRecord, TypeInv, TypeOK, CallOK
  <2>2. PushRecordEvent(conns[key], Head(todo), direction) \in TrackedConnections
    BY <2>1, PushType DEF TypeInv, TypeOK
  <2> QED
    BY <1>6, <2>2, ConsumeType DEF EndHandshakeRecord, TypeInv, CallOK
<1>7. CASE PostCcsHandshakeRecord \/ ApplicationDataRecord \/ ChangeCipherSpecRecord
  <2>1. Head(todo) \in Records /\ Head(todo).type # "Other"
    BY <1>7 DEF PostCcsHandshakeRecord, ApplicationDataRecord, ChangeCipherSpecRecord,
               NextRecordIs, TypeInv, TypeOK
  <2>2. conns[key] \in TrackedConnections /\ direction \in Directions
    BY DEF TypeInv, TypeOK
  <2>3. /\ AfterPostCcsHandshake(conns[key], Head(todo), direction) \in TrackedConnections
        /\ AfterApplicationData(conns[key], Head(todo), direction) \in TrackedConnections
        /\ AfterChangeCipherSpec(conns[key], Head(todo), direction) \in TrackedConnections
    BY <2>1, <2>2, ArmsType
  <2> QED
    BY <1>7, <2>3, ConsumeType
       DEF PostCcsHandshakeRecord, ApplicationDataRecord, ChangeCipherSpecRecord,
           NextRecordIs, TypeInv, CallOK
<1>8. CASE IgnoredRecord
  BY <1>8, ConsumeType DEF IgnoredRecord, NextRecordIs, TypeInv, TypeOK, CallOK
<1>9. CASE Return
  BY <1>9 DEF Return, TypeInv, TypeOK, CallOK, call
<1>10. CASE EvictStale
  BY <1>10, UntrackedType DEF EvictStale, TypeInv, TypeOK, CallOK, call
<1>11. CASE UNCHANGED vars
  BY <1>11 DEF vars, TypeInv, TypeOK, CallOK
<1> QED
  BY <1>1, <1>2, <1>3, <1>4, <1>5, <1>6, <1>7, <1>8, <1>9, <1>10, <1>11
     DEF Next, StartOfCall, StepOfCall

(* Every reachable state of the tracker is well typed, and a call in       *)
(* progress always has its flow in the map (ingest's entry().or_insert).   *)
LEMMA TypeInvariant == Spec => []TypeInv
<1> QED
  BY TypeInit, TypeNext, PTL DEF Spec

(* Every reachable state of the tracker is well typed: in particular no    *)
(* alert or unknown record ever enters a log (the last arm of ingest's     *)
(* match).                                                                 *)
THEOREM TypeCorrect == Spec => []TypeOK
<1>1. TypeInv => TypeOK
  BY DEF TypeInv
<1> QED
  BY <1>1, TypeInvariant, PTL

-----------------------------------------------------------------------------
(* The record log.  LogOK strengthens the three log invariants with what   *)
(* the counters and flags remember of the log's content.                   *)

FlightInLog(c) == \E i \in 1..Len(c.records) : c.records[i].label \in ServerFlight
FinishedInLog(c) == \E i \in 1..Len(c.records) : c.records[i].label = "FinishedClient"
CcsInLog(c, d) == \E i \in 1..Len(c.records) : /\ c.records[i].direction = d
                                              /\ c.records[i].outer_type = "ChangeCipherSpec"

LogRemembered(c) ==
  /\ FlightInLog(c) => c.encrypted_records_from["ServerToClient"] >= 1
  /\ FinishedInLog(c) => c.encrypted_records_from["ClientToServer"] >= 1
  /\ \A d \in Directions : CcsInLog(c, d) => c.ccs_seen[d]

LogOK(c) ==
  /\ LogGapFree(c)
  /\ NoneDecodedAfterCcs(c)
  /\ LabelsOrdered(c)
  /\ LogRemembered(c)

\* The log invariant survives any change that keeps the log and forgets nothing.
LEMMA LogOKKept ==
  ASSUME NEW c \in TrackedConnections, NEW n \in TrackedConnections, LogOK(c),
         n.records = c.records, n.seq_counter = c.seq_counter,
         \A d \in Directions : /\ n.encrypted_records_from[d] >= c.encrypted_records_from[d]
                               /\ c.ccs_seen[d] => n.ccs_seen[d]
  PROVE  LogOK(n)
<1>1. LogGapFree(n) /\ NoneDecodedAfterCcs(n) /\ LabelsOrdered(n)
  BY DEF LogOK, LogGapFree, NoneDecodedAfterCcs, LabelsOrdered
<1>2. \A d \in Directions : /\ c.encrypted_records_from[d] \in Nat
                            /\ n.encrypted_records_from[d] \in Nat
  BY DEF TrackedConnections
<1>3. LogRemembered(n)
  BY <1>2 DEF LogOK, LogRemembered, FlightInLog, FinishedInLog, CcsInLog, Directions
<1> QED
  BY <1>1, <1>3 DEF LogOK

LEMMA LogOKSame ==
  ASSUME NEW c \in TrackedConnections, NEW n \in TrackedConnections, LogOK(c),
         n.records = c.records, n.seq_counter = c.seq_counter, n.ccs_seen = c.ccs_seen,
         n.encrypted_records_from = c.encrypted_records_from
  PROVE  LogOK(n)
<1>1. \A d \in Directions : n.encrypted_records_from[d] >= c.encrypted_records_from[d]
  BY DEF TrackedConnections
<1> QED
  BY <1>1, LogOKKept

\* When the label l may be appended for direction d.
LabelFits(c, l, d) ==
  /\ l \in Decoded => ~c.ccs_seen[d]
  /\ l \in ServerFlight => c.encrypted_records_from["ServerToClient"] >= 1
  /\ l = "EncryptedExtensions" => ~FlightInLog(c)
  /\ l = "FinishedClient" => /\ ~FinishedInLog(c)
                            /\ c.encrypted_records_from["ClientToServer"] >= 1
  /\ l = "EarlyData" => ~FlightInLog(c) /\ ~FinishedInLog(c)

LEMMA PushShape ==
  ASSUME NEW c \in TrackedConnections, NEW r \in Records, NEW d \in Directions,
         r.type # "Other"
  PROVE  LET n == PushRecordEvent(c, r, d)
         IN  /\ \/ n = c
                \/ /\ ~c.stop_logging /\ Len(c.records) < RECORD_LOG_CAP
                   /\ n.records = Append(c.records, RecordEvent(c, r, d))
                   /\ n.seq_counter = c.seq_counter + 1
             /\ n.ccs_seen = c.ccs_seen /\ n.error = c.error /\ n.stage = c.stage
             /\ n.encrypted_records_from = c.encrypted_records_from
             /\ n.post_ccs_records_from = c.post_ccs_records_from
             /\ n.stop_logging = c.stop_logging /\ n.tls_version = c.tls_version
             /\ n.saw_client_finished_marker = c.saw_client_finished_marker
             /\ n.first_seen_ms = c.first_seen_ms /\ n.last_seen_ms = c.last_seen_ms
             /\ n.origin = c.origin /\ n.certificate_subject = c.certificate_subject
<1>1. c.records \in Seq(RecordEvents) /\ Len(c.records) \in Nat
  BY LenProperties DEF TrackedConnections
<1> QED
  BY <1>1, TrackerAssumption DEF PushRecordEvent, TrackedConnections

LEMMA LogOKPushed ==
  ASSUME NEW c \in TrackedConnections, LogOK(c), NEW r \in Records, NEW d \in Directions,
         r.type # "Other",
         LabelFits(c, BuildBody(c, r, d), d),
         r.type = "ChangeCipherSpec" => c.ccs_seen[d]
  PROVE  LogOK(PushRecordEvent(c, r, d))
<1> DEFINE n == PushRecordEvent(c, r, d)
           e == RecordEvent(c, r, d)
           m == Len(c.records)
<1>1. CASE n = c
  BY <1>1
<1>2. CASE n # c
  <2>1. /\ m < RECORD_LOG_CAP /\ n.records = Append(c.records, e)
        /\ n.seq_counter = c.seq_counter + 1 /\ n.ccs_seen = c.ccs_seen
        /\ n.encrypted_records_from = c.encrypted_records_from
    BY <1>2, PushShape
  <2>2. c.records \in Seq(RecordEvents) /\ m \in Nat /\ e \in RecordEvents
    BY LenProperties, PushedEventType DEF TrackedConnections
  <2>3. /\ Len(n.records) = m + 1
        /\ n.records[m + 1] = e
        /\ \A i \in 1..m : n.records[i] = c.records[i]
    BY <2>1, <2>2, AppendProperties
  <2>4. /\ e.label = BuildBody(c, r, d) /\ e.direction = d
        /\ e.sequence = c.seq_counter + 1 /\ e.outer_type = r.type
    BY DEF RecordEvent
  <2>5. LogGapFree(n)
    <3>1. c.seq_counter = m /\ \A i \in 1..m : c.records[i].sequence = i
      BY DEF LogOK, LogGapFree
    <3>2. \A i \in 1..Len(n.records) : i \in 1..m \/ i = m + 1
      BY <2>2, <2>3
    <3> QED
      BY <2>1, <2>2, <2>3, <2>4, <3>1, <3>2, TrackerAssumption DEF LogGapFree
  <2>6. \A i, j \in 1..Len(n.records) : i < j =>
          i \in 1..m /\ (j \in 1..m \/ j = m + 1)
    BY <2>2, <2>3
  <2>7. NoneDecodedAfterCcs(n)
    <3> SUFFICES ASSUME NEW i \in 1..Len(n.records), NEW j \in 1..Len(n.records), i < j,
                        n.records[i].direction = n.records[j].direction,
                        n.records[i].outer_type = "ChangeCipherSpec"
                 PROVE  n.records[j].label \notin Decoded
      BY DEF NoneDecodedAfterCcs
    <3>1. CASE j \in 1..m
      BY <2>3, <2>6, <3>1 DEF LogOK, NoneDecodedAfterCcs
    <3>2. CASE j = m + 1
      <4>1. CcsInLog(c, d)
        BY <2>3, <2>4, <2>6, <3>2 DEF CcsInLog
      <4>2. c.ccs_seen[d]
        BY <4>1 DEF LogOK, LogRemembered
      <4> QED
        BY <2>3, <2>4, <3>2, <4>2 DEF LabelFits
    <3> QED
      BY <2>6, <3>1, <3>2
  <2>8. LabelsOrdered(n)
    <3> SUFFICES ASSUME NEW i \in 1..Len(n.records), NEW j \in 1..Len(n.records), i < j
                 PROVE  /\ n.records[i].label \in ServerFlight =>
                             n.records[j].label # "EarlyData"
                        /\ n.records[i].label = "FinishedClient" =>
                             n.records[j].label \notin {"FinishedClient", "EarlyData"}
                        /\ n.records[i].label \in ServerFlight =>
                             n.records[j].label # "EncryptedExtensions"
      BY DEF LabelsOrdered
    <3>1. CASE j \in 1..m
      BY <2>3, <2>6, <3>1 DEF LogOK, LabelsOrdered
    <3>2. CASE j = m + 1
      <4>1. n.records[i].label \in ServerFlight => FlightInLog(c)
        BY <2>3, <2>6 DEF FlightInLog
      <4>2. n.records[i].label = "FinishedClient" => FinishedInLog(c)
        BY <2>3, <2>6 DEF FinishedInLog
      <4> QED
        BY <2>3, <2>4, <3>2, <4>1, <4>2 DEF LabelFits
    <3> QED
      BY <2>6, <3>1, <3>2
  <2>9. LogRemembered(n)
    <3>1. \A i \in 1..Len(n.records) : i \in 1..m \/ i = m + 1
      BY <2>2, <2>3
    <3>2. FlightInLog(n) => FlightInLog(c) \/ e.label \in ServerFlight
      BY <2>3, <3>1 DEF FlightInLog
    <3>3. FinishedInLog(n) => FinishedInLog(c) \/ e.label = "FinishedClient"
      BY <2>3, <3>1 DEF FinishedInLog
    <3>4. ASSUME NEW b \in Directions, CcsInLog(n, b)
          PROVE  CcsInLog(c, b) \/ (b = d /\ r.type = "ChangeCipherSpec")
      BY <2>3, <2>4, <3>1, <3>4 DEF CcsInLog
    <3> QED
      BY <2>1, <2>4, <3>2, <3>3, <3>4 DEF LogOK, LogRemembered, LabelFits
  <2> QED
    BY <2>5, <2>7, <2>8, <2>9 DEF LogOK
<1> QED
  BY <1>1, <1>2

-----------------------------------------------------------------------------
(* One connection: every arm of ingest keeps the log, the stage and the    *)
(* detection of the end of the handshake in agreement.                     *)

PostCcsNeedsCcs(c) ==
  \A d \in Directions : c.post_ccs_records_from[d] > 0 => c.ccs_seen[d]

ConnOK(c) == LogOK(c) /\ StageBacked(c) /\ FinishAgrees(c) /\ PostCcsNeedsCcs(c)

LEMMA NewConnectionOK ==
  ASSUME NEW now \in 0..MaxTime, NEW o \in Origins
  PROVE  ConnOK(NewConnection(now, o))
  BY TrackerAssumption
     DEF NewConnection, ConnOK, LogOK, LogGapFree, NoneDecodedAfterCcs, LabelsOrdered,
         LogRemembered, FlightInLog, FinishedInLog, CcsInLog, StageBacked, FinishAgrees,
         PostCcsNeedsCcs, BothCcsSeen, Directions

LEMMA TouchedOK ==
  ASSUME NEW c \in TrackedConnections, ConnOK(c), NEW now \in 0..MaxTime
  PROVE  ConnOK([c EXCEPT !.last_seen_ms = now])
<1> DEFINE n == [c EXCEPT !.last_seen_ms = now]
<1>1. n \in TrackedConnections
  BY DEF TrackedConnections
<1>2. /\ n.records = c.records /\ n.seq_counter = c.seq_counter /\ n.stage = c.stage
      /\ n.encrypted_records_from = c.encrypted_records_from /\ n.error = c.error
      /\ n.post_ccs_records_from = c.post_ccs_records_from /\ n.ccs_seen = c.ccs_seen
      /\ n.stop_logging = c.stop_logging /\ n.tls_version = c.tls_version
      /\ n.saw_client_finished_marker = c.saw_client_finished_marker
      /\ n.certificate_subject = c.certificate_subject
  BY DEF TrackedConnections
<1>3. LogOK(n)
  BY <1>1, <1>2, LogOKSame DEF ConnOK
<1> QED
  BY <1>2, <1>3 DEF ConnOK, StageBacked, FinishAgrees, PostCcsNeedsCcs, BothCcsSeen

LEMMA ErroredOK ==
  ASSUME NEW c \in TrackedConnections, ConnOK(c)
  PROVE  ConnOK([c EXCEPT !.stage = "Errored", !.error = TRUE])
<1> DEFINE n == [c EXCEPT !.stage = "Errored", !.error = TRUE]
<1>1. n \in TrackedConnections
  BY DEF TrackedConnections, Stages
<1>2. /\ n.records = c.records /\ n.seq_counter = c.seq_counter /\ n.stage = "Errored"
      /\ n.encrypted_records_from = c.encrypted_records_from /\ n.error
      /\ n.post_ccs_records_from = c.post_ccs_records_from /\ n.ccs_seen = c.ccs_seen
      /\ n.stop_logging = c.stop_logging
      /\ n.saw_client_finished_marker = c.saw_client_finished_marker
      /\ n.certificate_subject = c.certificate_subject
  BY DEF TrackedConnections
<1>3. LogOK(n)
  BY <1>1, <1>2, LogOKSame DEF ConnOK
<1> QED
  BY <1>2, <1>3 DEF ConnOK, StageBacked, FinishAgrees, PostCcsNeedsCcs, BothCcsSeen

\* A hello that sets the version also resets the stage, so no stage that
\* rests on the version outlives it.
LEMMA MessageOK ==
  ASSUME NEW c \in TrackedConnections, ConnOK(c), NEW m \in Messages, NEW d \in Directions
  PROVE  ConnOK(ApplyHandshakeMessage(c, m, d))
<1> DEFINE n == ApplyHandshakeMessage(c, m, d)
<1>1. n \in TrackedConnections
  BY MessageType
<1>2. /\ n.records = c.records /\ n.seq_counter = c.seq_counter
      /\ n.ccs_seen = c.ccs_seen /\ n.error = c.error
      /\ n.encrypted_records_from = c.encrypted_records_from
      /\ n.post_ccs_records_from = c.post_ccs_records_from
      /\ n.stop_logging = c.stop_logging
      /\ n.saw_client_finished_marker = c.saw_client_finished_marker
      /\ n.certificate_subject = c.certificate_subject
  BY MessageKeeps
<1>3. LogOK(n)
  BY <1>1, <1>2, LogOKSame DEF ConnOK
<1>4. \/ n.stage = c.stage /\ n.tls_version = c.tls_version
      \/ n.stage \in {"ClientHello", "ServerHello", "ServerKeyExchange",
                      "ServerHelloDone", "ClientKeyExchange"}
      \/ n.stage = "ServerCertificate" /\ n.tls_version # "Tls13"
  BY DEF ApplyHandshakeMessage, MergeClientHello, MergeServerHello, TrackedConnections
<1>5. StageBacked(n)
  BY <1>2, <1>4 DEF ConnOK, StageBacked
<1> QED
  BY <1>2, <1>3, <1>5 DEF ConnOK, FinishAgrees, PostCcsNeedsCcs, BothCcsSeen

\* Pushing a record event touches nothing but the log.
LEMMA PushOK ==
  ASSUME NEW c \in TrackedConnections, NEW r \in Records, NEW d \in Directions,
         r.type # "Other", StageBacked(c), FinishAgrees(c), PostCcsNeedsCcs(c)
  PROVE  LET n == PushRecordEvent(c, r, d)
         IN  StageBacked(n) /\ FinishAgrees(n) /\ PostCcsNeedsCcs(n)
  BY PushShape DEF StageBacked, FinishAgrees, PostCcsNeedsCcs, BothCcsSeen

LEMMA PlaintextRecordOK ==
  ASSUME NEW c \in TrackedConnections, ConnOK(c), NEW r \in Records, NEW d \in Directions,
         r.type = "Handshake", ~c.ccs_seen[d]
  PROVE  ConnOK(PushRecordEvent(c, r, d))
<1>1. BuildBody(c, r, d) = r.decoded /\ r.decoded \in Decoded
  BY DEF BuildBody, Records
<1>2. LabelFits(c, BuildBody(c, r, d), d)
  BY <1>1 DEF LabelFits, Decoded, ServerFlight
<1> QED
  BY <1>2, LogOKPushed, PushOK DEF ConnOK

LEMMA PostCcsShape ==
  ASSUME NEW c \in TrackedConnections, NEW r \in Records, NEW d \in Directions,
         r.type # "Other"
  PROVE  LET p == PushRecordEvent(c, r, d)
             n == AfterPostCcsHandshake(c, r, d)
         IN  /\ n.records = p.records /\ n.seq_counter = p.seq_counter /\ n.stage = p.stage
             /\ n.encrypted_records_from = p.encrypted_records_from /\ n.error = p.error
             /\ n.ccs_seen = p.ccs_seen /\ n.tls_version = p.tls_version
             /\ n.post_ccs_records_from = [p.post_ccs_records_from EXCEPT ![d] = @ + 1]
             /\ n.stop_logging <=> p.stop_logging \/ BothCcsSeen(p)
             /\ n.saw_client_finished_marker = p.saw_client_finished_marker
             /\ n.certificate_subject = p.certificate_subject
<1>1. PushRecordEvent(c, r, d) \in TrackedConnections
  BY PushType
<1> QED
  BY <1>1 DEF AfterPostCcsHandshake, TrackedConnections

LEMMA PostCcsRecordOK ==
  ASSUME NEW c \in TrackedConnections, ConnOK(c), NEW r \in Records, NEW d \in Directions,
         r.type = "Handshake", c.ccs_seen[d]
  PROVE  ConnOK(AfterPostCcsHandshake(c, r, d))
<1> DEFINE p == PushRecordEvent(c, r, d)
           n == AfterPostCcsHandshake(c, r, d)
<1>1. BuildBody(c, r, d) = PostCcsHandshakeLabel(c, d)
  BY DEF BuildBody
<1>2. LabelFits(c, BuildBody(c, r, d), d)
  BY <1>1 DEF PostCcsHandshakeLabel, LabelFits, Decoded, ServerFlight
<1>3. LogOK(p) /\ StageBacked(p) /\ FinishAgrees(p) /\ PostCcsNeedsCcs(p)
  BY <1>2, LogOKPushed, PushOK DEF ConnOK
<1>4. p \in TrackedConnections /\ n \in TrackedConnections /\ p.ccs_seen = c.ccs_seen
  BY PushType, PushShape, ArmsType
<1>5. /\ n.records = p.records /\ n.seq_counter = p.seq_counter /\ n.stage = p.stage
      /\ n.encrypted_records_from = p.encrypted_records_from /\ n.error = p.error
      /\ n.ccs_seen = p.ccs_seen /\ n.tls_version = p.tls_version
      /\ n.post_ccs_records_from = [p.post_ccs_records_from EXCEPT ![d] = @ + 1]
      /\ n.stop_logging <=> p.stop_logging \/ BothCcsSeen(p)
      /\ n.saw_client_finished_marker = p.saw_client_finished_marker
      /\ n.certificate_subject = p.certificate_subject
  BY PostCcsShape
<1>6. LogOK(n)
  BY <1>3, <1>4, <1>5, LogOKSame
<1>7. StageBacked(n)
  BY <1>3, <1>5 DEF StageBacked
<1>8. FinishAgrees(n)
  BY <1>3, <1>5 DEF FinishAgrees, BothCcsSeen
<1>9. PostCcsNeedsCcs(n)
  BY <1>3, <1>4, <1>5 DEF PostCcsNeedsCcs, TrackedConnections
<1> QED
  BY <1>6, <1>7, <1>8, <1>9 DEF ConnOK

\* What a ChangeCipherSpec makes of a connection, before it is logged.
Changed(c, d) == [ApplyCcs(c, d) EXCEPT !.ccs_seen[d] = TRUE]

LEMMA CcsShape ==
  ASSUME NEW c \in TrackedConnections, NEW d \in Directions
  PROVE  LET a == Changed(c, d)
         IN  /\ a \in TrackedConnections
             /\ a.records = c.records /\ a.seq_counter = c.seq_counter /\ a.error = c.error
             /\ a.encrypted_records_from = c.encrypted_records_from
             /\ a.post_ccs_records_from = c.post_ccs_records_from
             /\ a.ccs_seen = [c.ccs_seen EXCEPT ![d] = TRUE]
             /\ a.stop_logging = c.stop_logging /\ a.tls_version = c.tls_version
             /\ a.saw_client_finished_marker = c.saw_client_finished_marker
             /\ a.certificate_subject = c.certificate_subject
             /\ \/ a.stage = c.stage
                \/ /\ a.stage = "ClientFinished" /\ d = "ClientToServer"
                   /\ c.stage = "ClientKeyExchange"
                \/ /\ a.stage = "ServerFinished" /\ d = "ServerToClient"
                   /\ c.stage = "ClientFinished"
<1> DEFINE p == ApplyCcs(c, d)
           a == [p EXCEPT !.ccs_seen[d] = TRUE]
<1>1. p \in TrackedConnections
  BY CcsType
<1>2. a \in TrackedConnections
  BY <1>1 DEF TrackedConnections
<1>3. /\ a.records = c.records /\ a.seq_counter = c.seq_counter /\ a.error = c.error
      /\ a.encrypted_records_from = c.encrypted_records_from
      /\ a.post_ccs_records_from = c.post_ccs_records_from
      /\ a.ccs_seen = [c.ccs_seen EXCEPT ![d] = TRUE]
      /\ a.stop_logging = c.stop_logging /\ a.tls_version = c.tls_version
      /\ a.saw_client_finished_marker = c.saw_client_finished_marker
      /\ a.certificate_subject = c.certificate_subject
  BY <1>1 DEF ApplyCcs, TrackedConnections
<1>4. \/ a.stage = c.stage
      \/ /\ a.stage = "ClientFinished" /\ d = "ClientToServer"
         /\ c.stage = "ClientKeyExchange"
      \/ /\ a.stage = "ServerFinished" /\ d = "ServerToClient"
         /\ c.stage = "ClientFinished"
  BY DEF ApplyCcs, TrackedConnections
<1> QED
  BY <1>2, <1>3, <1>4 DEF Changed

LEMMA CcsRecordOK ==
  ASSUME NEW c \in TrackedConnections, ConnOK(c), NEW r \in Records, NEW d \in Directions,
         r.type = "ChangeCipherSpec"
  PROVE  ConnOK(AfterChangeCipherSpec(c, r, d))
<1> DEFINE a == Changed(c, d)
<1>2. a \in TrackedConnections
  BY CcsShape
<1>3. /\ a.records = c.records /\ a.seq_counter = c.seq_counter /\ a.error = c.error
      /\ a.encrypted_records_from = c.encrypted_records_from
      /\ a.post_ccs_records_from = c.post_ccs_records_from
      /\ a.ccs_seen = [c.ccs_seen EXCEPT ![d] = TRUE]
      /\ a.stop_logging = c.stop_logging /\ a.tls_version = c.tls_version
      /\ a.saw_client_finished_marker = c.saw_client_finished_marker
      /\ a.certificate_subject = c.certificate_subject
  BY CcsShape
<1>4. \/ a.stage = c.stage
      \/ /\ a.stage = "ClientFinished" /\ d = "ClientToServer"
         /\ c.stage = "ClientKeyExchange"
      \/ /\ a.stage = "ServerFinished" /\ d = "ServerToClient"
         /\ c.stage = "ClientFinished"
  BY CcsShape
<1> HIDE DEF a
<1>5. \A b \in Directions : c.ccs_seen[b] => a.ccs_seen[b]
  BY <1>3 DEF TrackedConnections
<1>6. a.ccs_seen[d]
  BY <1>3 DEF TrackedConnections
<1>7. LogOK(a)
  <2>1. \A b \in Directions : a.encrypted_records_from[b] >= c.encrypted_records_from[b]
    BY <1>3 DEF TrackedConnections
  <2> QED
    BY <1>2, <1>3, <1>5, <2>1, LogOKKept DEF ConnOK
<1>8. StageBacked(a)
  BY <1>3, <1>4, <1>5, <1>6 DEF ConnOK, StageBacked, Directions
<1>9. PostCcsNeedsCcs(a)
  BY <1>3, <1>5 DEF ConnOK, PostCcsNeedsCcs
<1>10. FinishAgrees(a)
  \* The second CCS cannot find records already counted after it.
  <2>1. c.post_ccs_records_from[d] > 0 => c.ccs_seen[d]
    BY DEF ConnOK, PostCcsNeedsCcs
  <2>2. c.ccs_seen[d] => a.ccs_seen = c.ccs_seen
    BY <1>3 DEF TrackedConnections
  <2>3. BothCcsSeen(c) => BothCcsSeen(a)
    BY <1>5 DEF BothCcsSeen
  <2>4. BothCcsSeen(a) /\ c.ccs_seen[d] => BothCcsSeen(c)
    BY <2>2 DEF BothCcsSeen
  <2> QED
    BY <1>3, <2>1, <2>3, <2>4 DEF ConnOK, FinishAgrees
<1>11. LabelFits(a, BuildBody(a, r, d), d)
  BY DEF BuildBody, LabelFits, Decoded, ServerFlight
<1> QED
  BY <1>2, <1>6, <1>7, <1>8, <1>9, <1>10, <1>11, LogOKPushed, PushOK
     DEF ConnOK, AfterChangeCipherSpec, Changed, a

\* What an encrypted record makes of a connection, before it is logged.
Encrypted(c, d) ==
  LET e == ApplyEncryptedRecord(c, d)
  IN  [e EXCEPT !.stop_logging = \/ @
                                 \/ e.encrypted_records_from["ClientToServer"] >= 2
                                 \/ BothCcsSeen(e)]

\* The four things an application_data record can be.
LEMMA EncryptedShape ==
  ASSUME NEW c \in TrackedConnections, NEW d \in Directions
  PROVE  LET s == Encrypted(c, d)
             fromServer(x) == x.encrypted_records_from["ServerToClient"]
             fromClient(x) == x.encrypted_records_from["ClientToServer"]
         IN  /\ s \in TrackedConnections
             /\ s.records = c.records /\ s.seq_counter = c.seq_counter /\ s.error = c.error
             /\ s.post_ccs_records_from = c.post_ccs_records_from
             /\ s.ccs_seen = c.ccs_seen /\ s.tls_version = c.tls_version
             /\ s.stop_logging <=> c.stop_logging \/ fromClient(s) >= 2 \/ BothCcsSeen(c)
             /\ \/ /\ c.tls_version = "Tls12" /\ s.stage = "ApplicationData"
                   /\ fromServer(s) = fromServer(c) /\ fromClient(s) = fromClient(c)
                   /\ s.saw_client_finished_marker = c.saw_client_finished_marker
                   /\ s.certificate_subject = c.certificate_subject
                \/ /\ c.tls_version # "Tls12" /\ d = "ServerToClient"
                   /\ fromServer(s) = fromServer(c) + 1 /\ fromClient(s) = fromClient(c)
                   /\ s.saw_client_finished_marker = c.saw_client_finished_marker
                   /\ s.certificate_subject = "Encrypted" /\ s.stage = ServerFlightStage(c)
                \/ /\ c.tls_version # "Tls12" /\ d = "ClientToServer" /\ fromServer(c) > 0
                   /\ fromServer(s) = fromServer(c) /\ fromClient(s) = fromClient(c) + 1
                   /\ s.saw_client_finished_marker = TRUE
                   /\ s.certificate_subject = c.certificate_subject
                   /\ s.stage = IF c.saw_client_finished_marker
                                THEN "ApplicationData" ELSE "ClientFinished"
                \/ /\ c.tls_version # "Tls12" /\ d = "ClientToServer" /\ fromServer(c) = 0
                   /\ fromServer(s) = fromServer(c) /\ fromClient(s) = fromClient(c)
                   /\ s.saw_client_finished_marker = c.saw_client_finished_marker
                   /\ s.certificate_subject = c.certificate_subject /\ s.stage = c.stage
<1> DEFINE e == ApplyEncryptedRecord(c, d)
           stop == \/ e.stop_logging
                   \/ e.encrypted_records_from["ClientToServer"] >= 2
                   \/ BothCcsSeen(e)
           s == [e EXCEPT !.stop_logging = stop]
<1>1. e \in TrackedConnections
  BY EncryptedType
<1>2. s \in TrackedConnections
  <2>1. stop \in BOOLEAN
    OBVIOUS
  <2>2. ASSUME NEW q \in TrackedConnections, NEW b \in BOOLEAN
        PROVE  [q EXCEPT !.stop_logging = b] \in TrackedConnections
    BY <2>2 DEF TrackedConnections
  <2> QED
    BY <1>1, <2>1, <2>2
<1>3. /\ s.records = e.records /\ s.seq_counter = e.seq_counter /\ s.error = e.error
      /\ s.encrypted_records_from = e.encrypted_records_from /\ s.stage = e.stage
      /\ s.post_ccs_records_from = e.post_ccs_records_from /\ s.ccs_seen = e.ccs_seen
      /\ s.tls_version = e.tls_version
      /\ s.stop_logging <=> stop
      /\ s.saw_client_finished_marker = e.saw_client_finished_marker
      /\ s.certificate_subject = e.certificate_subject
  BY <1>1 DEF TrackedConnections
<1>4. /\ e.records = c.records /\ e.seq_counter = c.seq_counter /\ e.error = c.error
      /\ e.post_ccs_records_from = c.post_ccs_records_from /\ e.ccs_seen = c.ccs_seen
      /\ e.tls_version = c.tls_version /\ e.stop_logging = c.stop_logging
  BY DEF ApplyEncryptedRecord, TrackedConnections
<1>5. /\ c.encrypted_records_from["ServerToClient"] \in Nat
      /\ c.encrypted_records_from["ClientToServer"] \in Nat
  BY DEF TrackedConnections, Directions
<1> DEFINE fromServer(x) == x.encrypted_records_from["ServerToClient"]
           fromClient(x) == x.encrypted_records_from["ClientToServer"]
<1>6. \/ /\ c.tls_version = "Tls12" /\ e.stage = "ApplicationData"
         /\ fromServer(e) = fromServer(c) /\ fromClient(e) = fromClient(c)
         /\ e.saw_client_finished_marker = c.saw_client_finished_marker
         /\ e.certificate_subject = c.certificate_subject
      \/ /\ c.tls_version # "Tls12" /\ d = "ServerToClient"
         /\ fromServer(e) = fromServer(c) + 1 /\ fromClient(e) = fromClient(c)
         /\ e.saw_client_finished_marker = c.saw_client_finished_marker
         /\ e.certificate_subject = "Encrypted" /\ e.stage = ServerFlightStage(c)
      \/ /\ c.tls_version # "Tls12" /\ d = "ClientToServer" /\ fromServer(c) > 0
         /\ fromServer(e) = fromServer(c) /\ fromClient(e) = fromClient(c) + 1
         /\ e.saw_client_finished_marker = TRUE
         /\ e.certificate_subject = c.certificate_subject
         /\ e.stage = IF c.saw_client_finished_marker
                      THEN "ApplicationData" ELSE "ClientFinished"
      \/ /\ c.tls_version # "Tls12" /\ d = "ClientToServer" /\ fromServer(c) = 0
         /\ e = c
  <2>1. CASE c.tls_version = "Tls12"
    BY <2>1 DEF ApplyEncryptedRecord, TrackedConnections
  <2>2. CASE c.tls_version # "Tls12" /\ d = "ServerToClient"
    <3>1. e = [c EXCEPT !.encrypted_records_from =
                            [c.encrypted_records_from EXCEPT !["ServerToClient"] = @ + 1],
                        !.stage = ServerFlightStage(c),
                        !.certificate_subject = "Encrypted"]
      BY <2>2 DEF ApplyEncryptedRecord
    <3> QED
      BY <2>2, <3>1, ZenonT(40) DEF TrackedConnections, Directions
  <2>3. CASE c.tls_version # "Tls12" /\ d = "ClientToServer" /\ fromServer(c) > 0
    <3>1. e = [c EXCEPT !.encrypted_records_from =
                            [c.encrypted_records_from EXCEPT !["ClientToServer"] = @ + 1],
                        !.saw_client_finished_marker = TRUE,
                        !.stage = IF c.saw_client_finished_marker
                                  THEN "ApplicationData" ELSE "ClientFinished"]
      BY <2>3 DEF ApplyEncryptedRecord, Directions
    <3>2. /\ e.encrypted_records_from =
                [c.encrypted_records_from EXCEPT !["ClientToServer"] = @ + 1]
          /\ e.saw_client_finished_marker = TRUE
          /\ e.certificate_subject = c.certificate_subject
          /\ e.stage = IF c.saw_client_finished_marker
                       THEN "ApplicationData" ELSE "ClientFinished"
      BY <3>1, WithClientFlight
    <3> QED
      BY <2>3, <3>2 DEF TrackedConnections, Directions
  <2>4. CASE c.tls_version # "Tls12" /\ d = "ClientToServer" /\ fromServer(c) = 0
    BY <2>4 DEF ApplyEncryptedRecord
  <2>5. \/ c.tls_version = "Tls12"
        \/ c.tls_version # "Tls12" /\ d = "ServerToClient"
        \/ c.tls_version # "Tls12" /\ d = "ClientToServer" /\ fromServer(c) > 0
        \/ c.tls_version # "Tls12" /\ d = "ClientToServer" /\ fromServer(c) = 0
    BY <1>5 DEF Directions
  <2> QED
    BY <2>1, <2>2, <2>3, <2>4, <2>5
<1>7. s.stop_logging <=> c.stop_logging \/ fromClient(s) >= 2 \/ BothCcsSeen(c)
  BY <1>3, <1>4 DEF BothCcsSeen
<1>8. s = Encrypted(c, d)
  BY DEF Encrypted
<1> HIDE DEF e, s
<1>9. /\ s.records = c.records /\ s.seq_counter = c.seq_counter /\ s.error = c.error
      /\ s.post_ccs_records_from = c.post_ccs_records_from
      /\ s.ccs_seen = c.ccs_seen /\ s.tls_version = c.tls_version
  BY <1>3, <1>4
<1>10. /\ fromServer(s) = fromServer(e) /\ fromClient(s) = fromClient(e)
       /\ s.stage = e.stage /\ s.certificate_subject = e.certificate_subject
       /\ s.saw_client_finished_marker = e.saw_client_finished_marker
  BY <1>3
<1> QED
  BY <1>2, <1>6, <1>7, <1>8, <1>9, <1>10

\* The label of an encrypted record is chosen after the counters moved, so
\* it must be compared with the log as it was before.
LEMMA EncryptedRecordOK ==
  ASSUME NEW c \in TrackedConnections, ConnOK(c), NEW r \in Records, NEW d \in Directions,
         r.type = "ApplicationData"
  PROVE  ConnOK(AfterApplicationData(c, r, d))
<1> DEFINE s == Encrypted(c, d)
           fromServer(x) == x.encrypted_records_from["ServerToClient"]
           fromClient(x) == x.encrypted_records_from["ClientToServer"]
<1>2. s \in TrackedConnections
  BY EncryptedShape
<1>3. /\ s.records = c.records /\ s.seq_counter = c.seq_counter /\ s.error = c.error
      /\ s.post_ccs_records_from = c.post_ccs_records_from
      /\ s.ccs_seen = c.ccs_seen /\ s.tls_version = c.tls_version
  <2>1. s.records = c.records
    BY EncryptedShape
  <2>2. s.seq_counter = c.seq_counter
    BY EncryptedShape
  <2>3. s.error = c.error
    BY EncryptedShape
  <2>4. s.post_ccs_records_from = c.post_ccs_records_from
    BY EncryptedShape
  <2>5. s.ccs_seen = c.ccs_seen
    BY EncryptedShape
  <2>6. s.tls_version = c.tls_version
    BY EncryptedShape
  <2> QED
    BY <2>1, <2>2, <2>3, <2>4, <2>5, <2>6
<1>4. s.stop_logging <=> c.stop_logging \/ fromClient(s) >= 2 \/ BothCcsSeen(c)
  BY EncryptedShape
<1>5. fromServer(c) \in Nat /\ fromClient(c) \in Nat
  BY DEF TrackedConnections, Directions
<1>6. \/ /\ c.tls_version = "Tls12" /\ s.stage = "ApplicationData"
         /\ fromServer(s) = fromServer(c) /\ fromClient(s) = fromClient(c)
         /\ s.saw_client_finished_marker = c.saw_client_finished_marker
         /\ s.certificate_subject = c.certificate_subject
      \/ /\ c.tls_version # "Tls12" /\ d = "ServerToClient"
         /\ fromServer(s) = fromServer(c) + 1 /\ fromClient(s) = fromClient(c)
         /\ s.saw_client_finished_marker = c.saw_client_finished_marker
         /\ s.certificate_subject = "Encrypted" /\ s.stage = ServerFlightStage(c)
      \/ /\ c.tls_version # "Tls12" /\ d = "ClientToServer" /\ fromServer(c) > 0
         /\ fromServer(s) = fromServer(c) /\ fromClient(s) = fromClient(c) + 1
         /\ s.saw_client_finished_marker = TRUE
         /\ s.certificate_subject = c.certificate_subject
         /\ s.stage = IF c.saw_client_finished_marker
                      THEN "ApplicationData" ELSE "ClientFinished"
      \/ /\ c.tls_version # "Tls12" /\ d = "ClientToServer" /\ fromServer(c) = 0
         /\ fromServer(s) = fromServer(c) /\ fromClient(s) = fromClient(c)
         /\ s.saw_client_finished_marker = c.saw_client_finished_marker
         /\ s.certificate_subject = c.certificate_subject /\ s.stage = c.stage
  BY EncryptedShape
<1> HIDE DEF s
<1>7. LogOK(s)
  <2>1. \A b \in Directions :
          /\ s.encrypted_records_from[b] >= c.encrypted_records_from[b]
          /\ c.ccs_seen[b] => s.ccs_seen[b]
    BY <1>3, <1>5, <1>6 DEF Directions
  <2>2. LogOK(c) /\ s.records = c.records /\ s.seq_counter = c.seq_counter
    BY <1>3 DEF ConnOK
  <2> QED
    BY <1>2, <2>1, <2>2, LogOKKept
<1>8. StageBacked(s)
  <2>1. StageBacked(c) /\ FinishAgrees(c)
    BY DEF ConnOK
  <2>2. CASE c.tls_version # "Tls12" /\ d = "ServerToClient"
    <3>1. /\ fromServer(s) = fromServer(c) + 1 /\ s.certificate_subject = "Encrypted"
          /\ s.saw_client_finished_marker = c.saw_client_finished_marker
          /\ s.stage = ServerFlightStage(c) /\ s.tls_version # "Tls12"
      BY <1>3, <1>6, <2>2
    <3>2. \/ s.stage = "ApplicationData" /\ s.saw_client_finished_marker
          \/ s.stage = "Certificate" /\ fromServer(s) \in 1..3
          \/ s.stage = "ServerFinished" /\ fromServer(s) >= 4
      BY <1>5, <3>1 DEF ServerFlightStage
    <3> QED
      BY <1>5, <3>1, <3>2 DEF StageBacked
  <2>3. CASE ~(c.tls_version # "Tls12" /\ d = "ServerToClient")
    <3>1. /\ fromServer(s) = fromServer(c) /\ s.certificate_subject = c.certificate_subject
          /\ s.tls_version = c.tls_version /\ s.ccs_seen = c.ccs_seen /\ s.error = c.error
          /\ \/ s.stage = c.stage
                /\ s.saw_client_finished_marker = c.saw_client_finished_marker
             \/ s.stage = "ApplicationData" /\ c.tls_version = "Tls12"
             \/ s.stage \in {"ApplicationData", "ClientFinished"}
                /\ s.saw_client_finished_marker
      BY <1>3, <1>6, <2>3
    <3> QED
      BY <2>1, <3>1 DEF StageBacked
  <2> QED
    BY <2>2, <2>3
<1>9. FinishAgrees(s)
  <2>1. FinishAgrees(c)
    BY DEF ConnOK
  <2>2. BothCcsSeen(s) <=> BothCcsSeen(c)
    BY <1>3 DEF BothCcsSeen
  <2>3. s.stop_logging <=> c.stop_logging \/ fromClient(s) >= 2 \/ BothCcsSeen(c)
    BY <1>4
  <2>4. /\ s.saw_client_finished_marker <=> fromClient(s) > 0
        /\ s.saw_client_finished_marker => fromServer(s) > 0
        /\ c.stop_logging => fromClient(s) >= 2 \/ BothCcsSeen(c)
    BY <1>3, <1>5, <1>6, <2>1 DEF FinishAgrees
  <2> QED
    BY <2>2, <2>3, <2>4 DEF FinishAgrees
<1>10. PostCcsNeedsCcs(s)
  BY <1>3 DEF ConnOK, PostCcsNeedsCcs
<1>11. LabelFits(s, BuildBody(s, r, d), d)
  <2>1. BuildBody(s, r, d) = EncryptedFlightLabel(s, d)
    BY DEF BuildBody
  <2>2. FlightInLog(s) = FlightInLog(c) /\ FinishedInLog(s) = FinishedInLog(c)
    BY <1>3 DEF FlightInLog, FinishedInLog
  <2>3. /\ FlightInLog(c) => fromServer(c) >= 1
        /\ FinishedInLog(c) => fromClient(c) >= 1
        /\ fromClient(c) > 0 => fromServer(c) > 0
    BY DEF ConnOK, LogOK, LogRemembered, FinishAgrees
  <2>4. s.tls_version = c.tls_version
    BY <1>3
  <2>5. EncryptedFlightLabel(s, d) \notin Decoded
    BY DEF EncryptedFlightLabel, Decoded
  <2>6. EncryptedFlightLabel(s, d) \in ServerFlight =>
          c.tls_version # "Tls12" /\ d = "ServerToClient"
    BY <2>4 DEF EncryptedFlightLabel, ServerFlight, Directions
  <2>7. EncryptedFlightLabel(s, d) = "EncryptedExtensions" => fromServer(s) = 1
    BY <2>4 DEF EncryptedFlightLabel, Directions
  <2>8. EncryptedFlightLabel(s, d) = "FinishedClient" =>
          d = "ClientToServer" /\ c.tls_version # "Tls12" /\ fromServer(s) # 0
          /\ fromClient(s) = 1
    BY <2>4 DEF EncryptedFlightLabel, Directions
  <2>9. EncryptedFlightLabel(s, d) = "EarlyData" => fromServer(s) = 0
    BY <2>4 DEF EncryptedFlightLabel, Directions
  <2>10. EncryptedFlightLabel(s, d) \in ServerFlight => fromServer(s) >= 1
    BY <1>5, <1>6, <2>4, <2>6
  <2>11. EncryptedFlightLabel(s, d) = "EncryptedExtensions" => ~FlightInLog(s)
    BY <1>5, <1>6, <2>2, <2>3, <2>6, <2>7 DEF ServerFlight
  <2>12. EncryptedFlightLabel(s, d) = "FinishedClient" =>
           ~FinishedInLog(s) /\ fromClient(s) >= 1
    BY <1>5, <1>6, <2>2, <2>3, <2>4, <2>8
  <2>13. EncryptedFlightLabel(s, d) = "EarlyData" => ~FlightInLog(s) /\ ~FinishedInLog(s)
    BY <1>5, <1>6, <2>2, <2>3, <2>9
  <2> QED
    BY <2>1, <2>5, <2>10, <2>11, <2>12, <2>13 DEF LabelFits
<1> QED
  BY <1>2, <1>7, <1>8, <1>9, <1>10, <1>11, LogOKPushed, PushOK
     DEF ConnOK, AfterApplicationData, Encrypted, s

-----------------------------------------------------------------------------
(* The safety invariant of the tracker.                                    *)

AllConnOK == \A k \in Keys : ConnOK(conns[k])

SafetyInv == TypeInv /\ AllConnOK

LEMMA UntrackedOK == ConnOK(Untracked)
<1>1. (CHOOSE o \in Origins : TRUE) \in Origins /\ 0 \in 0..MaxTime
  BY TrackerAssumption
<1> QED
  BY <1>1, NewConnectionOK DEF Untracked

\* A step that only replaces the connection of one flow.
LEMMA ReplacedOK ==
  ASSUME SafetyInv, NEW k \in Keys, NEW c, ConnOK(c), conns' = [conns EXCEPT ![k] = c]
  PROVE  AllConnOK'
  BY DEF SafetyInv, AllConnOK, TypeInv, TypeOK

LEMMA SafetyNext == SafetyInv /\ [Next]_vars => AllConnOK'
<1> SUFFICES ASSUME SafetyInv, [Next]_vars PROVE AllConnOK'
  OBVIOUS
<1>0. /\ key \in Keys /\ direction \in Directions
      /\ conns[key] \in TrackedConnections /\ ConnOK(conns[key])
  BY DEF SafetyInv, AllConnOK, TypeInv, TypeOK
<1>1. ASSUME NEW k \in Keys, NEW now \in 0..MaxTime, NEW o \in Origins
      PROVE  ConnOK(Touched(k, now, o)) /\ Touched(k, now, o) \in TrackedConnections
  <2>1. /\ conns[k] \in TrackedConnections /\ ConnOK(conns[k])
        /\ NewConnection(now, o) \in TrackedConnections /\ ConnOK(NewConnection(now, o))
    BY NewConnectionType, NewConnectionOK DEF SafetyInv, AllConnOK, TypeInv, TypeOK
  <2> QED
    BY <2>1, TouchedOK, TouchedType DEF Touched, SafetyInv, TypeInv
<1>2. ASSUME NEW k \in Keys, NEW d \in Directions, NEW now \in 0..MaxTime,
             \/ IngestEmpty(k, d, now)
             \/ \E o \in Origins : \/ \E batch \in Batches : Ingest(k, d, now, o, batch)
                                  \/ IngestFails(k, d, now, o)
      PROVE  AllConnOK'
  <2>1. CASE IngestEmpty(k, d, now)
    BY <2>1 DEF IngestEmpty, SafetyInv, AllConnOK
  <2>2. ASSUME NEW o \in Origins, NEW batch \in Batches, Ingest(k, d, now, o, batch)
        PROVE  AllConnOK'
    BY <1>1, <2>2, ReplacedOK DEF Ingest
  <2>3. ASSUME NEW o \in Origins, IngestFails(k, d, now, o)
        PROVE  AllConnOK'
    BY <1>1, <2>3, ErroredOK, ReplacedOK DEF IngestFails
  <2> QED
    BY <1>2, <2>1, <2>2, <2>3
<1>3. CASE ApplyMessage
  <2>1. Head(remaining) \in Messages
    BY <1>3 DEF ApplyMessage, SafetyInv, TypeInv, TypeOK
  <2>2. ConnOK(ApplyHandshakeMessage(conns[key], Head(remaining), direction))
    BY <1>0, <2>1, MessageOK
  <2> QED
    BY <1>0, <1>3, <2>2, ReplacedOK DEF ApplyMessage
<1>4. CASE EndHandshakeRecord
  <2>1. Head(todo) \in Records /\ Head(todo).type = "Handshake"
        /\ ~conns[key].ccs_seen[direction]
    BY <1>4 DEF EndHandshakeRecord, SafetyInv, TypeInv, TypeOK, CallOK
  <2>2. ConnOK(PushRecordEvent(conns[key], Head(todo), direction))
    BY <1>0, <2>1, PlaintextRecordOK
  <2> QED
    BY <1>0, <1>4, <2>2, ReplacedOK DEF EndHandshakeRecord, Consume
<1>5. CASE PostCcsHandshakeRecord
  <2>1. Head(todo) \in Records /\ Head(todo).type = "Handshake"
        /\ conns[key].ccs_seen[direction]
    BY <1>5 DEF PostCcsHandshakeRecord, NextRecordIs, SafetyInv, TypeInv, TypeOK
  <2>2. ConnOK(AfterPostCcsHandshake(conns[key], Head(todo), direction))
    BY <1>0, <2>1, PostCcsRecordOK
  <2> QED
    BY <1>0, <1>5, <2>2, ReplacedOK DEF PostCcsHandshakeRecord, Consume
<1>6. CASE ApplicationDataRecord
  <2>1. Head(todo) \in Records /\ Head(todo).type = "ApplicationData"
    BY <1>6 DEF ApplicationDataRecord, NextRecordIs, SafetyInv, TypeInv, TypeOK
  <2>2. ConnOK(AfterApplicationData(conns[key], Head(todo), direction))
    BY <1>0, <2>1, EncryptedRecordOK
  <2> QED
    BY <1>0, <1>6, <2>2, ReplacedOK DEF ApplicationDataRecord, Consume
<1>7. CASE ChangeCipherSpecRecord
  <2>1. Head(todo) \in Records /\ Head(todo).type = "ChangeCipherSpec"
    BY <1>7 DEF ChangeCipherSpecRecord, NextRecordIs, SafetyInv, TypeInv, TypeOK
  <2>2. ConnOK(AfterChangeCipherSpec(conns[key], Head(todo), direction))
    BY <1>0, <2>1, CcsRecordOK
  <2> QED
    BY <1>0, <1>7, <2>2, ReplacedOK DEF ChangeCipherSpecRecord, Consume
<1>8. CASE IgnoredRecord
  BY <1>0, <1>8, ReplacedOK DEF IgnoredRecord, Consume
<1>9. CASE BeginHandshakeRecord \/ Return \/ UNCHANGED vars
  BY <1>9 DEF BeginHandshakeRecord, Return, vars, SafetyInv, AllConnOK
<1>10. CASE EvictStale
  BY <1>10, UntrackedOK DEF EvictStale, SafetyInv, AllConnOK
<1> QED
  BY <1>2, <1>3, <1>4, <1>5, <1>6, <1>7, <1>8, <1>9, <1>10
     DEF Next, StartOfCall, StepOfCall

\* The inductive invariant behind the theorems below.
LEMMA Safety == Spec => []SafetyInv
<1>1. Init => SafetyInv
  BY TypeInit, UntrackedOK DEF SafetyInv, AllConnOK, Init
<1>2. SafetyInv /\ [Next]_vars => SafetyInv'
  BY TypeNext, SafetyNext DEF SafetyInv
<1> QED
  BY <1>1, <1>2, PTL DEF Spec

(* The record log of every connection is gap-free and never longer than    *)
(* the cap (push_record_event).                                            *)
THEOREM LogIsGapFree == Spec => []RecordLogGapFree
<1>1. SafetyInv => RecordLogGapFree
  BY DEF SafetyInv, AllConnOK, ConnOK, LogOK, RecordLogGapFree
<1> QED
  BY <1>1, Safety, PTL

(* No record is shown decoded after its direction changed cipher (ingest's *)
(* and build_body's post_ccs tests).                                       *)
THEOREM CiphertextIsNeverDecoded == Spec => []CiphertextNeverDecoded
<1>1. SafetyInv => CiphertextNeverDecoded
  BY DEF SafetyInv, AllConnOK, ConnOK, LogOK, CiphertextNeverDecoded
<1> QED
  BY <1>1, Safety, PTL

(* The displayed stage is backed by observed records, CCS, version or      *)
(* error, whatever sequence of records arrives (apply_handshake_record,    *)
(* apply_ccs, apply_encrypted_record).                                     *)
THEOREM StageIsBacked == Spec => []StageHasEvidence
<1>1. SafetyInv => StageHasEvidence
  BY DEF SafetyInv, AllConnOK, ConnOK, StageHasEvidence
<1> QED
  BY <1>1, Safety, PTL

(* Marker, counters, CCS flags and stop_logging agree on the client's      *)
(* Finished (ingest's completion tests).                                   *)
THEOREM FinishIsAgreed == Spec => []FinishDetectionAgrees
<1>1. SafetyInv => FinishDetectionAgrees
  BY DEF SafetyInv, AllConnOK, ConnOK, FinishDetectionAgrees
<1> QED
  BY <1>1, Safety, PTL

(* The inferred labels of a log are in an order a TLS 1.3 handshake can    *)
(* produce (encrypted_flight_label).                                       *)
THEOREM LabelsAreOrdered == Spec => []InferredLabelsOrdered
<1>1. SafetyInv => InferredLabelsOrdered
  BY DEF SafetyInv, AllConnOK, ConnOK, LogOK, InferredLabelsOrdered
<1> QED
  BY <1>1, Safety, PTL

-----------------------------------------------------------------------------
(* What no step takes back.                                                *)

LEMMA GrowsSame ==
  ASSUME NEW c \in TrackedConnections, NEW n, n.records = c.records,
         c.stop_logging => n.stop_logging, c.error => n.error,
         n.first_seen_ms = c.first_seen_ms, n.origin = c.origin
  PROVE  GrowsOnly(c, n)
<1>1. c.records \in Seq(RecordEvents)
  BY DEF TrackedConnections
<1>2. SubSeq(c.records, 1, Len(c.records)) = c.records
  BY <1>1
<1> QED
  BY <1>2 DEF GrowsOnly

LEMMA GrowsPushed ==
  ASSUME NEW c \in TrackedConnections, NEW r \in Records, NEW d \in Directions,
         r.type # "Other"
  PROVE  GrowsOnly(c, PushRecordEvent(c, r, d))
<1> DEFINE n == PushRecordEvent(c, r, d)
           e == RecordEvent(c, r, d)
<1>1. CASE n = c
  BY <1>1, GrowsSame
<1>2. CASE n # c
  <2>1. ~c.stop_logging /\ n.records = Append(c.records, e)
    BY <1>2, PushShape
  <2>2. c.records \in Seq(RecordEvents) /\ e \in RecordEvents
    BY PushedEventType DEF TrackedConnections
  <2>3. SubSeq(Append(c.records, e), 1, Len(c.records)) = c.records
    BY <2>2
  <2>4. /\ n.error = c.error /\ n.first_seen_ms = c.first_seen_ms /\ n.origin = c.origin
    BY PushShape
  <2> QED
    BY <2>1, <2>3, <2>4 DEF GrowsOnly
<1> QED
  BY <1>1, <1>2

\* Growth through an intermediate value that has the same log.
LEMMA GrowsThrough ==
  ASSUME NEW c, NEW s, NEW n, GrowsOnly(s, n), s.records = c.records,
         c.stop_logging => s.stop_logging, c.error => s.error,
         s.first_seen_ms = c.first_seen_ms, s.origin = c.origin
  PROVE  GrowsOnly(c, n)
  BY DEF GrowsOnly

LEMMA ArmsGrow ==
  ASSUME NEW c \in TrackedConnections, NEW r \in Records, NEW d \in Directions,
         r.type # "Other"
  PROVE  /\ GrowsOnly(c, AfterPostCcsHandshake(c, r, d))
         /\ GrowsOnly(c, AfterApplicationData(c, r, d))
         /\ GrowsOnly(c, AfterChangeCipherSpec(c, r, d))
<1>1. GrowsOnly(c, AfterPostCcsHandshake(c, r, d))
  <2> DEFINE p == PushRecordEvent(c, r, d)
             n == AfterPostCcsHandshake(c, r, d)
  <2>1. p \in TrackedConnections /\ GrowsOnly(c, p)
    BY PushType, GrowsPushed
  <2>2. /\ n.records = p.records
        /\ p.stop_logging => n.stop_logging
        /\ n.error = p.error /\ n.first_seen_ms = p.first_seen_ms /\ n.origin = p.origin
    BY <2>1 DEF AfterPostCcsHandshake, TrackedConnections
  <2> QED
    BY <2>1, <2>2 DEF GrowsOnly
<1>2. GrowsOnly(c, AfterApplicationData(c, r, d))
  <2> DEFINE e == ApplyEncryptedRecord(c, d)
             stop == \/ e.stop_logging
                     \/ e.encrypted_records_from["ClientToServer"] >= 2
                     \/ BothCcsSeen(e)
             s == [e EXCEPT !.stop_logging = stop]
  <2>1. e \in TrackedConnections
    BY EncryptedType
  <2>2. /\ e.records = c.records /\ e.stop_logging = c.stop_logging /\ e.error = c.error
        /\ e.first_seen_ms = c.first_seen_ms /\ e.origin = c.origin
    BY DEF ApplyEncryptedRecord, TrackedConnections
  <2>3. ASSUME NEW q \in TrackedConnections, NEW b \in BOOLEAN
        PROVE  [q EXCEPT !.stop_logging = b] \in TrackedConnections
    BY <2>3 DEF TrackedConnections
  <2>4. stop \in BOOLEAN
    OBVIOUS
  <2>5. s \in TrackedConnections
    BY <2>1, <2>3, <2>4
  <2>6. /\ s.records = e.records /\ s.error = e.error
        /\ e.stop_logging => s.stop_logging
        /\ s.first_seen_ms = e.first_seen_ms /\ s.origin = e.origin
    BY <2>1 DEF TrackedConnections
  <2>7. GrowsOnly(s, PushRecordEvent(s, r, d))
    BY <2>5, GrowsPushed
  <2>8. GrowsOnly(c, PushRecordEvent(s, r, d))
    BY <2>2, <2>6, <2>7, GrowsThrough
  <2> QED
    BY <2>8 DEF AfterApplicationData
<1>3. GrowsOnly(c, AfterChangeCipherSpec(c, r, d))
  <2> DEFINE p == ApplyCcs(c, d)
             a == [p EXCEPT !.ccs_seen[d] = TRUE]
  <2>1. p \in TrackedConnections
    BY CcsType
  <2>2. a \in TrackedConnections
    BY <2>1 DEF TrackedConnections
  <2>3. /\ a.records = c.records /\ a.stop_logging = c.stop_logging /\ a.error = c.error
        /\ a.first_seen_ms = c.first_seen_ms /\ a.origin = c.origin
    BY <2>1 DEF ApplyCcs, TrackedConnections
  <2>4. GrowsOnly(c, PushRecordEvent(a, r, d))
    BY <2>2, <2>3, GrowsPushed, GrowsThrough
  <2> QED
    BY <2>4 DEF AfterChangeCipherSpec
<1> QED
  BY <1>1, <1>2, <1>3

LEMMA HistoryStep ==
  ASSUME TypeInv, [Next]_vars, NEW k \in tracked \cap tracked'
  PROVE  GrowsOnly(conns[k], conns'[k])
<1>0. /\ k \in Keys /\ key \in Keys /\ direction \in Directions
      /\ conns[k] \in TrackedConnections /\ conns[key] \in TrackedConnections
      /\ conns \in [Keys -> TrackedConnections]
  BY DEF TypeInv, TypeOK
<1>1. GrowsOnly(conns[k], conns[k])
  BY <1>0, GrowsSame
<1>2. ASSUME NEW c, conns' = [conns EXCEPT ![key] = c], GrowsOnly(conns[key], c)
      PROVE  GrowsOnly(conns[k], conns'[k])
  BY <1>0, <1>1, <1>2
<1>3. ASSUME NEW j \in Keys, NEW now \in 0..MaxTime, NEW o \in Origins, j = k
      PROVE  /\ GrowsOnly(conns[k], Touched(j, now, o))
             /\ GrowsOnly(conns[k], [Touched(j, now, o) EXCEPT !.stage = "Errored",
                                                               !.error = TRUE])
  <2> DEFINE t == [conns[k] EXCEPT !.last_seen_ms = now]
             f == [t EXCEPT !.stage = "Errored", !.error = TRUE]
  <2>1. Touched(j, now, o) = t
    BY <1>3 DEF Touched
  <2>2. /\ t.records = conns[k].records /\ t.stop_logging = conns[k].stop_logging
        /\ t.error = conns[k].error /\ t.first_seen_ms = conns[k].first_seen_ms
        /\ t.origin = conns[k].origin
    BY <1>0 DEF TrackedConnections
  <2>3. /\ f.records = conns[k].records /\ f.stop_logging = conns[k].stop_logging
        /\ f.error /\ f.first_seen_ms = conns[k].first_seen_ms
        /\ f.origin = conns[k].origin
    BY <1>0 DEF TrackedConnections
  <2> QED
    BY <1>0, <2>1, <2>2, <2>3, GrowsSame
<1>4. ASSUME NEW j \in Keys, NEW d \in Directions, NEW now \in 0..MaxTime,
             \/ IngestEmpty(j, d, now)
             \/ \E o \in Origins : \/ \E batch \in Batches : Ingest(j, d, now, o, batch)
                                  \/ IngestFails(j, d, now, o)
      PROVE  GrowsOnly(conns[k], conns'[k])
  <2>1. CASE IngestEmpty(j, d, now)
    BY <1>1, <2>1 DEF IngestEmpty
  <2>2. ASSUME NEW o \in Origins, NEW batch \in Batches, Ingest(j, d, now, o, batch)
        PROVE  GrowsOnly(conns[k], conns'[k])
    BY <1>0, <1>1, <1>3, <2>2 DEF Ingest
  <2>3. ASSUME NEW o \in Origins, IngestFails(j, d, now, o)
        PROVE  GrowsOnly(conns[k], conns'[k])
    BY <1>0, <1>1, <1>3, <2>3 DEF IngestFails
  <2> QED
    BY <1>4, <2>1, <2>2, <2>3
<1>5. CASE ApplyMessage
  <2>1. Head(remaining) \in Messages
    BY <1>5 DEF ApplyMessage, TypeInv, TypeOK
  <2> DEFINE n == ApplyHandshakeMessage(conns[key], Head(remaining), direction)
  <2>2. /\ n.records = conns[key].records /\ n.stop_logging = conns[key].stop_logging
        /\ n.error = conns[key].error /\ n.first_seen_ms = conns[key].first_seen_ms
        /\ n.origin = conns[key].origin
    BY <1>0, <2>1, MessageKeeps
  <2>3. GrowsOnly(conns[key], n)
    BY <1>0, <2>2, GrowsSame
  <2> QED
    BY <1>2, <1>5, <2>3 DEF ApplyMessage
<1>6. CASE EndHandshakeRecord
  <2>1. Head(todo) \in Records /\ Head(todo).type # "Other"
    BY <1>6 DEF EndHandshakeRecord, TypeInv, TypeOK, CallOK
  <2>2. GrowsOnly(conns[key], PushRecordEvent(conns[key], Head(todo), direction))
    BY <1>0, <2>1, GrowsPushed
  <2> QED
    BY <1>2, <1>6, <2>2 DEF EndHandshakeRecord, Consume
<1>7. CASE PostCcsHandshakeRecord \/ ApplicationDataRecord \/ ChangeCipherSpecRecord
  <2>1. Head(todo) \in Records /\ Head(todo).type # "Other"
    BY <1>7 DEF PostCcsHandshakeRecord, ApplicationDataRecord, ChangeCipherSpecRecord,
               NextRecordIs, TypeInv, TypeOK
  <2>2. /\ GrowsOnly(conns[key], AfterPostCcsHandshake(conns[key], Head(todo), direction))
        /\ GrowsOnly(conns[key], AfterApplicationData(conns[key], Head(todo), direction))
        /\ GrowsOnly(conns[key], AfterChangeCipherSpec(conns[key], Head(todo), direction))
    BY <1>0, <2>1, ArmsGrow
  <2> QED
    BY <1>2, <1>7, <2>2
       DEF PostCcsHandshakeRecord, ApplicationDataRecord, ChangeCipherSpecRecord, Consume
<1>8. CASE IgnoredRecord
  <2>1. GrowsOnly(conns[key], conns[key])
    BY <1>0, GrowsSame
  <2> QED
    BY <1>2, <1>8, <2>1 DEF IgnoredRecord, Consume
<1>9. CASE BeginHandshakeRecord \/ Return \/ UNCHANGED vars
  BY <1>1, <1>9 DEF BeginHandshakeRecord, Return, vars
<1>10. CASE EvictStale
  BY <1>0, <1>1, <1>10 DEF EvictStale
<1> QED
  BY <1>4, <1>5, <1>6, <1>7, <1>8, <1>9, <1>10 DEF Next, StartOfCall, StepOfCall

(* While a connection is tracked its log only grows, a stopped log stays   *)
(* as it is, and the error stays reported (ingest, push_record_event).     *)
THEOREM HistoryIsKept == Spec => HistoryKept
<1>1. TypeInv /\ [Next]_vars
        => [\A k \in tracked \cap tracked' : GrowsOnly(conns[k], conns'[k])]_vars
  BY HistoryStep
<1> QED
  BY <1>1, TypeInvariant, PTL DEF Spec, HistoryKept

-----------------------------------------------------------------------------
(* Eviction.                                                               *)

LEMMA CutoffIsTimeout ==
  ASSUME TypeInv, NEW k \in Keys
  PROVE  Fresh(k) <=> conns[k].last_seen_ms + StaleTimeout >= now_ms
<1>1. now_ms \in Nat /\ StaleTimeout \in Nat
  BY TrackerAssumption DEF TypeInv, TypeOK
<1>2. conns[k].last_seen_ms \in Nat
  <2>1. conns[k] \in TrackedConnections
    BY DEF TypeInv, TypeOK
  <2>2. conns[k].last_seen_ms \in 0..MaxTime
    BY <2>1 DEF TrackedConnections
  <2> QED
    BY <2>2, TrackerAssumption
<1> QED
  BY <1>1, <1>2 DEF Fresh, Cutoff

(* After every call no tracked connection has been silent for longer than  *)
(* the timeout (evict_stale after each ingest, with the same clock).       *)
THEOREM NoneStaysStale == Spec => []NoStaleConnection
<1>1. Init => NoStaleConnection
  BY DEF Init, NoStaleConnection
<1>2. TypeInv /\ NoStaleConnection /\ [Next]_vars => NoStaleConnection'
  <2> SUFFICES ASSUME TypeInv, NoStaleConnection, [Next]_vars PROVE NoStaleConnection'
    OBVIOUS
  <2>1. CASE EvictStale
    <3> SUFFICES ASSUME NEW k \in tracked'
                 PROVE  conns'[k].last_seen_ms + StaleTimeout >= now_ms'
      BY DEF NoStaleConnection
    <3>1. k \in Keys /\ Fresh(k) /\ conns'[k] = conns[k] /\ now_ms' = now_ms
      BY <2>1 DEF EvictStale, call, TypeInv, TypeOK
    <3> QED
      BY <3>1, CutoffIsTimeout
  <2>2. CASE StartOfCall
    BY <2>2 DEF StartOfCall, IngestEmpty, Ingest, IngestFails, NoStaleConnection
  <2>3. CASE StepOfCall /\ ~EvictStale
    <3>1. phase' # "idle"
      <4>1. CASE BeginHandshakeRecord \/ ApplyMessage \/ Return
        BY <4>1 DEF BeginHandshakeRecord, ApplyMessage, Return
      <4>2. CASE EndHandshakeRecord \/ PostCcsHandshakeRecord \/ ApplicationDataRecord
        BY <4>2 DEF EndHandshakeRecord, PostCcsHandshakeRecord, ApplicationDataRecord, Consume
      <4>3. CASE ChangeCipherSpecRecord \/ IgnoredRecord
        BY <4>3 DEF ChangeCipherSpecRecord, IgnoredRecord, Consume
      <4> QED
        BY <2>3, <4>1, <4>2, <4>3 DEF StepOfCall
    <3> QED
      BY <3>1 DEF NoStaleConnection
  <2>4. CASE UNCHANGED vars
    BY <2>4 DEF vars, NoStaleConnection
  <2> QED
    BY <2>1, <2>2, <2>3, <2>4 DEF Next
<1> QED
  BY <1>1, <1>2, TypeInvariant, PTL DEF Spec

(* A connection leaves the map only after a silence longer than the        *)
(* timeout (evict_stale's retain).                                         *)
THEOREM OnlyTheSilentAreEvicted == Spec => OnlySilentEvicted
<1>1. TypeInv /\ [Next]_vars
        => [\A k \in tracked \ tracked' :
               conns[k].last_seen_ms + StaleTimeout < now_ms]_vars
  <2> SUFFICES ASSUME TypeInv, Next, NEW k \in tracked \ tracked'
               PROVE  conns[k].last_seen_ms + StaleTimeout < now_ms
    OBVIOUS
  <2>1. CASE EvictStale
    <3>1. k \in Keys /\ ~Fresh(k)
      BY <2>1 DEF EvictStale, TypeInv, TypeOK
    <3>2. conns[k].last_seen_ms \in Nat /\ now_ms \in Nat /\ StaleTimeout \in Nat
      <4>1. conns[k] \in TrackedConnections /\ now_ms \in 0..MaxTime
        BY <3>1 DEF TypeInv, TypeOK
      <4>2. conns[k].last_seen_ms \in 0..MaxTime
        BY <4>1 DEF TrackedConnections
      <4> QED
        BY <4>1, <4>2, TrackerAssumption
    <3> QED
      BY <3>1, <3>2, CutoffIsTimeout
  <2>2. CASE ~EvictStale
    <3>1. CASE StartOfCall
      BY <3>1 DEF StartOfCall, IngestEmpty, Ingest, IngestFails
    <3>2. CASE BeginHandshakeRecord \/ ApplyMessage \/ Return
      BY <3>2 DEF BeginHandshakeRecord, ApplyMessage, Return
    <3>3. CASE EndHandshakeRecord \/ PostCcsHandshakeRecord \/ ApplicationDataRecord
      BY <3>3 DEF EndHandshakeRecord, PostCcsHandshakeRecord, ApplicationDataRecord, Consume
    <3>4. CASE ChangeCipherSpecRecord \/ IgnoredRecord
      BY <3>4 DEF ChangeCipherSpecRecord, IgnoredRecord, Consume
    <3> QED
      BY <2>2, <3>1, <3>2, <3>3, <3>4 DEF Next, StepOfCall
  <2> QED
    BY <2>1, <2>2
<1> QED
  BY <1>1, TypeInvariant, PTL DEF Spec, OnlySilentEvicted

=============================================================================
