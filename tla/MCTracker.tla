----------------------------- MODULE MCTracker -----------------------------
(***************************************************************************)
(* Values for Tracker: long behaviours of one flow, and short ones of      *)
(* several flows while the clock moves.                                    *)
(***************************************************************************)
EXTENDS Tracker

CONSTANTS
  LongFlow,       \* the flow of the long behaviours
  MixedRecords    \* bound: records of a behaviour with several flows and times

Hs(msgs, dec) == [type |-> "Handshake", msgs |-> msgs, decoded |-> dec]
Msg(kind) == [kind |-> kind, version |-> "None"]
Hello(kind, v) == [kind |-> kind, version |-> v]
Plain(type) == [type |-> type, msgs |-> << >>, decoded |-> "Unknown"]

Handshakes ==
  {Hs(<<Hello("ClientHello", "Tls13")>>, "ClientHello"),
   Hs(<<Hello("ServerHello", "Tls13")>>, "ServerHello"),
   Hs(<<Hello("ServerHello", "Tls12"), Msg("Certificate")>>, "ServerHello"),
   Hs(<<Msg("ClientKeyExchange")>>, "ClientKeyExchange")}

LongBatches ==
  {<<r>> : r \in Handshakes \cup {Plain("ApplicationData"), Plain("ChangeCipherSpec")}}

\* A server's whole plaintext flight in one record, and several records at once.
MixedBatches ==
  {<< >>,
   <<Plain("Other"), Hs(<< >>, "Unknown")>>,
   <<Hs(<<Hello("ServerHello", "Tls12"), Msg("Certificate"), Msg("ServerKeyExchange"),
          Msg("ServerDone")>>, "ServerHello")>>,
   <<Plain("ChangeCipherSpec"), Hs(<< >>, "Unknown")>>,
   <<Plain("ApplicationData"), Plain("ApplicationData")>>}

MCBatches == LongBatches \cup MixedBatches

(* Two kinds of behaviour in one run.  The long ones are of one flow, all   *)
(* at time 0; the others, of MixedRecords records, of any flows at later    *)
(* times.                                                                   *)
Started == tracked # {} \/ now_ms # 0

LongCall ==
  \E d \in Directions, o \in Origins :
    /\ now_ms = 0
    /\ \/ IngestEmpty(LongFlow, d, 0)
       \/ \E batch \in LongBatches : Ingest(LongFlow, d, 0, o, batch)
       \/ IngestFails(LongFlow, d, 0, o)

MixedCall ==
  \E k \in Keys, d \in Directions, now \in 1..MaxTime, o \in Origins :
    /\ Started => now_ms > 0
    /\ \/ IngestEmpty(k, d, now)
       \/ \E batch \in MixedBatches :
            ingested + Len(batch) <= MixedRecords /\ Ingest(k, d, now, o, batch)
       \/ IngestFails(k, d, now, o)

MCNext == MixedCall \/ LongCall \/ StepOfCall

MCSpec == Init /\ [][MCNext]_vars
=============================================================================
