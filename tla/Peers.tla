------------------------------- MODULE Peers -------------------------------
(***************************************************************************)
(* The two TLS peers whose records the tracker overhears, composed with    *)
(* FlowKey, Tracker and FlowView: one session between two endpoints, every *)
(* interleaving of the directions that the protocol allows, and what the   *)
(* list and the diagram show of it.  The peers are not in the repository:  *)
(* the orders below are those of RFC 5246 (section 7.3) and RFC 8446       *)
(* (section 2 and appendix D.4), for the records ingest handles.           *)
(*                                                                         *)
(* A passive observer sees ciphertext only.  Here every record also says   *)
(* what it really is, so that what the tracker shows can be compared with  *)
(* what took place.                                                        *)
(***************************************************************************)
EXTENDS FlowKey, FlowView

CONSTANTS
  Ends,      \* where the peers may be: the endpoint of each direction's sender
  Sessions   \* the sessions the peers may run

Meanings == {"ClientHello", "HelloRetryRequest", "ServerHello", "Plaintext",
             "ChangeCipherSpec", "EarlyData", "ServerFlight", "Finished", "Ticket", "Data"}

\* A record, what it is, and how many records of the other peer its sender waits for.
Wires == [rec : Records, is : Meanings, after : Nat]

ASSUME PeersAssumption ==
  /\ Ends \subseteq [Directions -> Endpoints]
  /\ \A e \in Ends : Canonical(e["ClientToServer"], e["ServerToClient"]) \in Keys
  /\ Sessions \subseteq [tls13 : BOOLEAN, sends : [Directions -> Seq(Wires)]]

VARIABLES
  ends,
  session,   \* the session being run
  sent,      \* how many records of each direction passed the capture point
  observed   \* all of them, in the order they passed

peerVars == <<ends, session, sent, observed>>

-----------------------------------------------------------------------------
(* Records on the wire.                                                    *)

Clear(msgs, dec, is, after) ==
  [rec |-> [type |-> "Handshake", msgs |-> msgs, decoded |-> dec], is |-> is, after |-> after]
Message(kind, v) == <<[kind |-> kind, version |-> v]>>
Opaque(type, is, after) ==
  [rec |-> [type |-> type, msgs |-> << >>, decoded |-> "Unknown"], is |-> is, after |-> after]

ClientHelloWire(v, after) ==
  Clear(Message("ClientHello", v), "ClientHello", "ClientHello", after)
ServerHelloWire(v, after) ==
  Clear(Message("ServerHello", v), "ServerHello", "ServerHello", after)
RetryWire(after) ==
  Clear(Message("ServerHello", "Tls13"), "HelloRetryRequest", "HelloRetryRequest", after)
PlaintextWire(kind, after) == Clear(Message(kind, "None"), kind, "Plaintext", after)
CcsWire(after) == Opaque("ChangeCipherSpec", "ChangeCipherSpec", after)
EncryptedHandshakeWire(after) == Opaque("Handshake", "Finished", after)
EncryptedWire(is, after) == Opaque("ApplicationData", is, after)

Session(tls13, client, server) ==
  [tls13 |-> tls13,
   sends |-> [d \in Directions |-> IF d = "ClientToServer" THEN client ELSE server]]

\* A full TLS 1.2 handshake; v is what the ClientHello's supported_versions say.
Tls12Full(v) ==
  Session(FALSE,
    <<ClientHelloWire(v, 0), PlaintextWire("ClientKeyExchange", 4), CcsWire(4),
      EncryptedHandshakeWire(4), EncryptedWire("Data", 6)>>,
    <<ServerHelloWire("Tls12", 1), PlaintextWire("Certificate", 1),
      PlaintextWire("ServerKeyExchange", 1), PlaintextWire("ServerDone", 1),
      CcsWire(4), EncryptedHandshakeWire(4), EncryptedWire("Data", 5)>>)

\* An abbreviated TLS 1.2 handshake: the server finishes first.
Tls12Resumed(v) ==
  Session(FALSE,
    <<ClientHelloWire(v, 0), CcsWire(3), EncryptedHandshakeWire(3), EncryptedWire("Data", 3)>>,
    <<ServerHelloWire("Tls12", 1), CcsWire(1), EncryptedHandshakeWire(1),
      EncryptedWire("Data", 4)>>)

\* TLS 1.3, the server's flight in two records, one ticket; `compat' adds the
\* ChangeCipherSpec records of middlebox compatibility mode.
Tls13(compat) ==
  LET c == IF compat THEN <<CcsWire(1)>> ELSE << >>
      s == IF compat THEN <<CcsWire(1)>> ELSE << >>
  IN  Session(TRUE,
        <<ClientHelloWire("Tls13", 0)>> \o c
          \o <<EncryptedWire("Finished", 3 + Len(s)), EncryptedWire("Data", 3 + Len(s)),
               EncryptedWire("Data", 3 + Len(s))>>,
        <<ServerHelloWire("Tls13", 1)>> \o s
          \o <<EncryptedWire("ServerFlight", 1), EncryptedWire("Finished", 1),
               EncryptedWire("Ticket", 2 + Len(c)), EncryptedWire("Data", 3 + Len(c))>>)

\* TLS 1.3 with a HelloRetryRequest.
Tls13Retried(compat) ==
  LET c == IF compat THEN <<CcsWire(1)>> ELSE << >>
      s == IF compat THEN <<CcsWire(1)>> ELSE << >>
  IN  Session(TRUE,
        <<ClientHelloWire("Tls13", 0)>> \o c
          \o <<ClientHelloWire("Tls13", 1), EncryptedWire("Finished", 4 + Len(s)),
               EncryptedWire("Data", 4 + Len(s))>>,
        <<RetryWire(1)>> \o s
          \o <<ServerHelloWire("Tls13", 2 + Len(c)), EncryptedWire("ServerFlight", 2 + Len(c)),
               EncryptedWire("Finished", 2 + Len(c)), EncryptedWire("Ticket", 3 + Len(c)),
               EncryptedWire("Data", 4 + Len(c))>>)

\* TLS 1.3 with 0-RTT data in two records, sent without waiting for the server.
Tls13Early ==
  Session(TRUE,
    <<ClientHelloWire("Tls13", 0), EncryptedWire("EarlyData", 0), EncryptedWire("EarlyData", 0),
      EncryptedWire("Finished", 3), EncryptedWire("Data", 3)>>,
    <<ServerHelloWire("Tls13", 1), EncryptedWire("ServerFlight", 1),
      EncryptedWire("Finished", 1), EncryptedWire("Ticket", 4), EncryptedWire("Data", 5)>>)

-----------------------------------------------------------------------------
(* What every session above has in common, and what the proofs use: any    *)
(* session with these traits is followed as truly, however many messages,  *)
(* tickets, early and later data records it has.                           *)

\* A record that means `is', as the peer sending in direction d writes it.
Looks(w, tls13, d) ==
  CASE w.is = "ClientHello" ->
         \E v \in Versions : (tls13 => v = "Tls13") /\ w = ClientHelloWire(v, w.after)
    [] w.is = "ServerHello" ->
         w = ServerHelloWire(IF tls13 THEN "Tls13" ELSE "Tls12", w.after)
    [] w.is = "HelloRetryRequest" -> w = RetryWire(w.after)
    [] w.is = "Plaintext" ->
         \E kind \in IF d = "ClientToServer" THEN {"ClientKeyExchange"}
                     ELSE {"Certificate", "ServerKeyExchange", "ServerDone"} :
           w = PlaintextWire(kind, w.after)
    [] w.is = "ChangeCipherSpec" -> w = CcsWire(w.after)
    [] w.is = "Finished" /\ ~tls13 -> w = EncryptedHandshakeWire(w.after)
    [] OTHER -> w = EncryptedWire(w.is, w.after)

May(tls13, d) ==
  (IF d = "ClientToServer" THEN {"ClientHello"} ELSE {"ServerHello"})
    \cup {"ChangeCipherSpec", "Finished", "Data"}
    \cup (IF ~tls13 THEN {"Plaintext"}
          ELSE IF d = "ClientToServer" THEN {"EarlyData"}
          ELSE {"HelloRetryRequest", "ServerFlight", "Ticket"})

\* What the same peer may send later.
Follows(tls13, is) ==
  CASE is = "EarlyData" -> {"EarlyData", "Finished", "Data"}
    [] is = "ServerFlight" -> {"Finished", "Ticket", "Data"}
    [] is \in {"Finished", "Ticket", "Data"} -> {"Ticket", "Data"}
    [] is = "ChangeCipherSpec" /\ ~tls13 -> {"Finished", "Data"}
    [] OTHER -> Meanings

\* What the same peer has sent before.
Needs(tls13, d, is) ==
  CASE is \in {"Ticket", "Data"} -> {"Finished"}
    [] is = "Finished" /\ ~tls13 -> {"ChangeCipherSpec"}
    [] is = "Finished" /\ tls13 /\ d = "ServerToClient" -> {"ServerFlight"}
    [] OTHER -> {}

Opens(d) == IF d = "ClientToServer" THEN "ClientHello" ELSE "ServerHello"

\* What the other peer has sent before.  In TLS 1.3 the client speaks first.
Waits(tls13, d, is) ==
  (IF is = Opens("ClientToServer") \/ (tls13 /\ d = "ClientToServer") THEN {}
   ELSE {Opens(Opposite(d))})
  \cup (IF is = "Data" \/ (tls13 /\ d = "ClientToServer" /\ is = "Finished")
        THEN {"Finished"} ELSE {})
  \cup (IF tls13 /\ d = "ServerToClient" /\ is = "Data" THEN {"Data"} ELSE {})

Earlier(s, d, n, is) == \E j \in DOMAIN s.sends[d] : j <= n /\ s.sends[d][j].is = is

InProtocol(s, d, i) ==
  LET w == s.sends[d][i]
  IN  /\ w.is \in May(s.tls13, d) /\ Looks(w, s.tls13, d)
      /\ w.is = Opens(d) \/ (s.tls13 /\ d = "ServerToClient") \/ Earlier(s, d, i - 1, Opens(d))
      /\ \A j \in DOMAIN s.sends[d] : i < j => s.sends[d][j].is \in Follows(s.tls13, w.is)
      /\ \A is \in Needs(s.tls13, d, w.is) : Earlier(s, d, i - 1, is)
      /\ \A is \in Waits(s.tls13, d, w.is) : Earlier(s, Opposite(d), w.after, is)

\* In TLS 1.2 one peer changes cipher only after the other has finished.
SecondToFinish(s, d) ==
  \A i \in DOMAIN s.sends[d] :
    s.sends[d][i].is = "ChangeCipherSpec" =>
      Earlier(s, Opposite(d), s.sends[d][i].after, "Finished")

\* A ClientHello is repeated once.
HelloAgainOnce(s) ==
  \A i, j, k \in DOMAIN s.sends["ClientToServer"] :
    /\ i < j /\ j < k /\ s.sends["ClientToServer"][i].is = "ChangeCipherSpec"
    /\ s.sends["ClientToServer"][j].is = "ClientHello"
    => s.sends["ClientToServer"][k].is # "ClientHello"

\* The server's plaintext flight in TLS 1.2.
Flight == <<"ServerHello", "Certificate", "ServerKeyExchange", "ServerDone">>

\* The messages pass in the order in which the diagrams draw them: a second
\* ClientHello was asked for, in TLS 1.2 the client answers the server's whole
\* flight, and in TLS 1.3 tickets wait for the client's Finished.
InStages(s) ==
  LET client == s.sends["ClientToServer"]
      server == s.sends["ServerToClient"]
  IN  /\ \A i, j \in DOMAIN client :
           i < j /\ client[i].is = "ClientHello" /\ client[j].is = "ClientHello"
             => Earlier(s, "ServerToClient", client[j].after, "HelloRetryRequest")
      /\ \A j \in DOMAIN server :
           server[j].is = "Ticket" => Earlier(s, "ClientToServer", server[j].after, "Finished")
      /\ ~s.tls13 => \A j \in DOMAIN server, b \in DOMAIN Flight :
           server[j].rec.decoded = Flight[b] =>
             /\ \A i \in DOMAIN server, a \in DOMAIN Flight :
                  i < j /\ server[i].rec.decoded = Flight[a] => a <= b
             /\ \A i \in DOMAIN client : client[i].is = "Plaintext" => j <= client[i].after

Protocol(s) ==
  /\ \A d \in Directions : \A i \in DOMAIN s.sends[d] : InProtocol(s, d, i)
  /\ s.tls13 \/ \E d \in Directions : SecondToFinish(s, d)
  /\ HelloAgainOnce(s)

\* No hello hides behind a ChangeCipherSpec, as it does in a retried
\* handshake in compatibility mode.
HellosInClear(s) ==
  \A d \in Directions : \A i, j \in DOMAIN s.sends[d] :
    i < j /\ s.sends[d][i].is = "ChangeCipherSpec"
      => s.sends[d][j].is \notin {"ClientHello", "ServerHello", "HelloRetryRequest"}

RunsToTheEnd(s) ==
  /\ \A d \in Directions : Earlier(s, d, Len(s.sends[d]), "Finished")
  /\ Earlier(s, "ClientToServer", Len(s.sends["ClientToServer"]), "Data")

FitsTheLog(s) ==
  Len(s.sends["ClientToServer"]) + Len(s.sends["ServerToClient"]) <= RECORD_LOG_CAP

\* The tracker takes the client for the client.
Recognised(e) ==
  /\ e["ClientToServer"] # e["ServerToClient"]
  /\ Canonical(e["ClientToServer"], e["ServerToClient"]).client = e["ClientToServer"]

\* What the theorems assume of the endpoints and the sessions.
Orderly == (\A e \in Ends : Recognised(e)) /\ (\A s \in Sessions : Protocol(s))
Loggable == \A s \in Sessions : HellosInClear(s) /\ FitsTheLog(s)
Complete == \A s \in Sessions : RunsToTheEnd(s)
Staged == \A s \in Sessions : InStages(s)

-----------------------------------------------------------------------------
PeersInit ==
  /\ Init
  /\ ends \in Ends
  /\ key = Canonical(ends["ClientToServer"], ends["ServerToClient"])
  /\ session \in Sessions
  /\ sent = [d \in Directions |-> 0]
  /\ observed = << >>

\* The next record of direction d passes the capture point and is ingested,
\* under the key and in the direction found from its addresses and ports.
Observe(d) ==
  /\ sent[d] < Len(session.sends[d])
  /\ LET w == session.sends[d][sent[d] + 1]
     IN  /\ w.after <= sent[Opposite(d)]
         /\ LET flow == Canonical(ends[d], ends[Opposite(d)])
            IN  \E o \in Origins :
                  Ingest(flow, DirectionOf(flow, ends[d]), 0, o, <<w.rec>>)
         /\ observed' = Append(observed, [direction |-> d, is |-> w.is])
  /\ sent' = [sent EXCEPT ![d] = @ + 1]
  /\ UNCHANGED <<ends, session>>

Track == StepOfCall /\ UNCHANGED peerVars

PeersNext == (\E d \in Directions : Observe(d)) \/ Track

PeersSpec == PeersInit /\ [][PeersNext]_<<vars, peerVars>>

-----------------------------------------------------------------------------
(* Properties.                                                             *)

Flow == Canonical(ends["ClientToServer"], ends["ServerToClient"])
Shown == conns[Flow].records
Stage == conns[Flow].stage

Seen(d, is) == \E i \in 1..Len(observed) : observed[i] = [direction |-> d, is |-> is]
SeenBoth(is) == \A d \in Directions : Seen(d, is)

\* What a record with this label may be, with a server that uses two records.
Tells(label) ==
  CASE label \in {"ClientHello", "ServerHello", "HelloRetryRequest", "ChangeCipherSpec",
                  "EarlyData"}            -> {label}
    [] label \in Decoded \ {"ClientHello", "ServerHello", "HelloRetryRequest"} -> {"Plaintext"}
    [] label = "EncryptedExtensions"       -> {"ServerFlight"}
    [] label \in {"FinishedOnly", "FinishedClient", "EncryptedFinishedClient",
                  "EncryptedFinishedServer"} -> {"Finished"}
    [] label = "EncryptedTicketOrFinishedServer" -> {"Finished", "Ticket"}
    [] label = "NewSessionTicket"          -> {"Ticket"}
    [] label = "EncryptedHandshake"        -> {"Ticket"}
    [] OTHER                               -> {"Data"}

\* Early data that passes after the server's first encrypted record is taken
\* for the client's Finished; what is shown of the client is wrong from there.
EarlyDataLate ==
  \E i, j \in 1..Len(observed) :
    i < j /\ observed[i].is = "ServerFlight" /\ observed[j].is = "EarlyData"

(* Both directions are one connection: the tracker never has another entry *)
(* than the flow's (canonical; the doc comment on ConnectionKey, "both     *)
(* directions of the same flow map to the same value").                    *)
OneFlow == tracked \subseteq {Flow}

(* Between calls the timeline is a prefix of what passed the capture       *)
(* point: the same records in the same order and direction, none missing   *)
(* before logging stopped, each under a label that says what it really was *)
(* (canonical, build_body and the two label functions;                     *)
(* docs/tls13-visibility.md, "shows every TLS record observed on the wire  *)
(* in order").                                                             *)
LabelsTruthful ==
  phase = "idle" =>
    /\ Len(Shown) <= Len(observed)
    /\ conns[Flow].stop_logging \/ Len(Shown) = Len(observed)
    /\ \A i \in 1..Len(Shown) :
         /\ Shown[i].direction = observed[i].direction
         /\ \/ observed[i].is \in Tells(Shown[i].label)
            \/ EarlyDataLate /\ observed[i].direction = "ClientToServer"

(* The stage is never ahead of the session: a peer is shown as finished    *)
(* only after its Finished, which in TLS 1.2 its ChangeCipherSpec          *)
(* announces, and application data only after both (the doc comments of    *)
(* HandshakeStage; apply_ccs, apply_encrypted_record).                     *)
HasFinished(d) ==
  Seen(d, "Finished") \/ (~session.tls13 /\ Seen(d, "ChangeCipherSpec"))

StageNeverAhead ==
  EarlyDataLate \/
    /\ Stage = "ClientFinished" => HasFinished("ClientToServer")
    /\ Stage = "ServerFinished" => HasFinished("ServerToClient")
    /\ Stage = "ApplicationData" => SeenBoth("Finished")

(* A session observed to its end is reported to its end: the application   *)
(* data stage, and both Finished records in the timeline.  TLS 1.3         *)
(* sessions in compatibility mode are excepted, for them the log stops     *)
(* early (see TimelineStopsAfterTwo), and those with late early data.      *)
CompatibilityMode == session.tls13 /\ SeenBoth("ChangeCipherSpec")

Finishes(d) ==
  \E i \in 1..Len(Shown) :
    Shown[i].direction = d /\ observed[i] = [direction |-> d, is |-> "Finished"]

WholeSessionReported ==
  /\ phase = "idle"
  /\ \A d \in Directions : sent[d] = Len(session.sends[d])
  => /\ Stage = "ApplicationData"
     /\ CompatibilityMode \/ EarlyDataLate \/ \A d \in Directions : Finishes(d)

(* The stage only moves down the diagram, but for the second ClientHello   *)
(* after a HelloRetryRequest, also when the server's answer replaces the   *)
(* diagram by that of TLS 1.2 (merge_server_hello, apply_ccs,              *)
(* apply_encrypted_record; ordered and ordered_tls12).                     *)
StageNeverFallsBack ==
  [][\/ PositionOf(conns'[Flow], Stage') >= PositionOf(conns[Flow], Stage)
     \/ Stage' = "ClientHello" /\ Seen("ServerToClient", "HelloRetryRequest")
    ]_<<vars, peerVars>>

(* The stage reached and the step that each row of the list highlights are *)
(* steps of the diagram drawn for the version (render in                   *)
(* src/src/ui/panels/flow.rs looks both up in it and highlights nothing    *)
(* when they are not there).                                               *)
DiagramComplete ==
  /\ Stage \notin {"Idle", "Errored"} => OnDiagram(conns[Flow], Stage)
  /\ \A i \in 1..Len(Shown) : \A s \in Highlighted(conns[Flow], i) : OnDiagram(conns[Flow], s)

(* The arrow of the highlighted step points the way the row's record went, *)
(* and its E mark tells whether the record was encrypted (step_meta and    *)
(* selected_record_stage, which classify the same records separately).     *)
ArrowsTruthful ==
  \A i \in 1..Len(Shown) : \A s \in Highlighted(conns[Flow], i) :
    /\ Shown[i].direction \in StepDirections(s)
    /\ StepEncrypted(s) <=> Shown[i].label \notin Decoded

(* A plaintext record's row highlights the stage the record brought the    *)
(* connection to: the tracker, by tls_parser's messages, and the view, by  *)
(* the first byte, agree on what it was (apply_handshake_record,           *)
(* selected_record_stage).                                                 *)
RowsHighlightTheirStage ==
  [][/\ Len(Shown') > Len(Shown)
     /\ Shown'[Len(Shown')].label \in Decoded
     => Highlighted(conns'[Flow], Len(Shown')) = {Stage'}
    ]_<<vars, peerVars>>

(* In TLS 1.3 the timeline goes on until two application_data records from *)
(* the client have been observed (docs/tls13-visibility.md:108; the        *)
(* comment on the completion signal in ingest).                            *)
ClientEncrypted ==
  {i \in 1..Len(observed) :
     /\ observed[i].direction = "ClientToServer"
     /\ observed[i].is \in {"EarlyData", "Finished", "Data"}}

TimelineStopsAfterTwo ==
  session.tls13 /\ conns[Flow].stop_logging =>
    \E i, j \in ClientEncrypted : i # j
=============================================================================
