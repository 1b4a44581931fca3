---------------------------- MODULE PeersProofs ----------------------------
(***************************************************************************)
(* Proofs about FlowKey and Peers: a flow is identified whichever way its  *)
(* packets go, and what the list and the diagram show of a session is true *)
(* of it, for every session of the grammar in Peers, every pair of         *)
(* endpoints, and every interleaving of the two directions.                *)
(***************************************************************************)
EXTENDS Peers, TrackerProofs

-----------------------------------------------------------------------------
(* ConnectionKey::canonical, for all addresses and ports.                  *)

\* The order of endpoints is total and antisymmetric.
LEMMA NotAfterTotal ==
  ASSUME NEW a \in Endpoints, NEW b \in Endpoints
  PROVE  /\ NotAfter(a, b) \/ NotAfter(b, a)
         /\ NotAfter(a, b) /\ NotAfter(b, a) => a = b
<1>1. a.ip \in Nat /\ a.port \in Nat /\ b.ip \in Nat /\ b.port \in Nat
  BY DEF Endpoints
<1>2. a.ip = b.ip /\ a.port = b.port => a = b
  BY DEF Endpoints
<1>3. NotAfter(a, b) \/ NotAfter(b, a)
  BY <1>1 DEF NotAfter
<1>4. NotAfter(a, b) /\ NotAfter(b, a) => a.ip = b.ip /\ a.port = b.port
  BY <1>1 DEF NotAfter
<1> QED BY <1>2, <1>3, <1>4

\* The key holds the two endpoints, in one order or the other.
LEMMA CanonicalEnds ==
  ASSUME NEW a, NEW b
  PROVE  Canonical(a, b) \in {[client |-> a, server |-> b], [client |-> b, server |-> a]}
BY DEF Canonical

(* Both directions of a flow have the same key (the doc comment of         *)
(* ConnectionKey: "both directions of the same flow map to the same        *)
(* value").                                                                *)
THEOREM CanonicalSymmetric ==
  \A a, b \in Endpoints : Canonical(a, b) = Canonical(b, a)
<1> SUFFICES ASSUME NEW a \in Endpoints, NEW b \in Endpoints
             PROVE  Canonical(a, b) = Canonical(b, a)
  OBVIOUS
<1>1. CASE IsTlsServer(a) = IsTlsServer(b)
  <2>1. CASE a = b
    BY <2>1
  <2>2. CASE a # b
    <3>1. NotAfter(a, b) <=> ~NotAfter(b, a)
      BY <2>2, NotAfterTotal
    <3> QED BY <1>1, <3>1 DEF Canonical
  <2> QED BY <2>1, <2>2
<1>2. CASE IsTlsServer(a) # IsTlsServer(b)
  <2>1. IsTlsServer(a) <=> ~IsTlsServer(b)
    BY <1>2 DEF IsTlsServer
  <2> QED BY <1>2, <2>1 DEF Canonical
<1> QED BY <1>1, <1>2

(* Different flows have different keys: no two pairs of endpoints are      *)
(* merged into one connection (canonical).                                 *)
THEOREM CanonicalSeparatesFlows ==
  \A a, b, c, d \in Endpoints : Canonical(a, b) = Canonical(c, d) => {a, b} = {c, d}
<1> SUFFICES ASSUME NEW a \in Endpoints, NEW b \in Endpoints,
                    NEW c \in Endpoints, NEW d \in Endpoints,
                    Canonical(a, b) = Canonical(c, d)
             PROVE  {a, b} = {c, d}
  OBVIOUS
<1>1. {Canonical(a, b).client, Canonical(a, b).server} = {a, b}
  BY CanonicalEnds
<1>2. {Canonical(c, d).client, Canonical(c, d).server} = {c, d}
  BY CanonicalEnds
<1> QED BY <1>1, <1>2

(* The two ends of a flow are given opposite directions, whichever of them *)
(* is called the client (the tracker thread of run_live compares a         *)
(* packet's source with the key's client).                                 *)
THEOREM DirectionsOpposite ==
  \A a, b \in Endpoints :
    a # b => DirectionOf(Canonical(a, b), a) # DirectionOf(Canonical(b, a), b)
<1> SUFFICES ASSUME NEW a \in Endpoints, NEW b \in Endpoints, a # b
             PROVE  DirectionOf(Canonical(a, b), a) # DirectionOf(Canonical(b, a), b)
  OBVIOUS
<1>1. Canonical(a, b) = Canonical(b, a)
  BY CanonicalSymmetric
<1>2. (Canonical(a, b).client = a) <=> ~(Canonical(a, b).client = b)
  BY CanonicalEnds
<1> QED BY <1>1, <1>2 DEF DirectionOf

(* A server on a well-known TLS port whose client is on another port is    *)
(* recognised, in both directions and whatever the addresses (canonical).  *)
THEOREM ServerByPort ==
  \A c, s \in Endpoints :
    IsTlsServer(s) /\ ~IsTlsServer(c) =>
      /\ Canonical(c, s) = [client |-> c, server |-> s]
      /\ Canonical(s, c) = [client |-> c, server |-> s]
<1> SUFFICES ASSUME NEW c \in Endpoints, NEW s \in Endpoints, IsTlsServer(s), ~IsTlsServer(c)
             PROVE  Canonical(c, s) = [client |-> c, server |-> s]
  BY CanonicalSymmetric
<1>1. IsTlsServer(c) # IsTlsServer(s)
  OBVIOUS
<1> QED BY <1>1 DEF Canonical

-----------------------------------------------------------------------------
(* The tracker under the records of a session.                             *)

C2S == "ClientToServer"
S2C == "ServerToClient"

\* TypeNext and SafetyNext, for a batch of any records.
LEMMA IngestSafe ==
  ASSUME SafetyInv, NEW k \in Keys, NEW d \in Directions, NEW o \in Origins,
         NEW batch \in Seq(Records), Ingest(k, d, 0, o, batch)
  PROVE  SafetyInv'
<1> USE TrackerAssumption
<1>0. 0 \in 0..MaxTime
  OBVIOUS
<1>1. Touched(k, 0, o) \in TrackedConnections
  BY <1>0, TouchedType DEF SafetyInv, TypeInv
<1>2. ConnOK(Touched(k, 0, o))
  <2>1. /\ conns[k] \in TrackedConnections /\ ConnOK(conns[k])
        /\ NewConnection(0, o) \in TrackedConnections /\ ConnOK(NewConnection(0, o))
    BY <1>0, NewConnectionType, NewConnectionOK DEF SafetyInv, AllConnOK, TypeInv, TypeOK
  <2> QED
    BY <1>0, <2>1, TouchedOK DEF Touched
<1>3. AllConnOK'
  BY <1>2, ReplacedOK DEF Ingest
<1>4. conns' \in [Keys -> TrackedConnections]
  BY <1>1 DEF SafetyInv, TypeInv, TypeOK, Ingest
<1>5. TypeInv'
  <2>1. ingested' \in 0..MaxRecords
    <3>1. Len(batch) \in Nat
      BY LenProperties
    <3> QED
      BY <3>1 DEF SafetyInv, TypeInv, TypeOK, Ingest
  <2> QED
    BY <1>0, <1>4, <2>1 DEF SafetyInv, TypeInv, TypeOK, CallOK, Ingest, StartCall
<1> QED
  BY <1>3, <1>5 DEF SafetyInv

\* What holds whatever the sessions are.
PeersTypeInv ==
  /\ SafetyInv
  /\ ends \in Ends /\ session \in Sessions
  /\ sent \in [Directions -> Nat]
  /\ \A d \in Directions : sent[d] <= Len(session.sends[d])
  /\ observed \in Seq([direction : Directions, is : Meanings])
  /\ tracked \subseteq {Flow}

LEMMA SessionType ==
  ASSUME NEW s \in Sessions, NEW d \in Directions
  PROVE  s.tls13 \in BOOLEAN /\ s.sends[d] \in Seq(Wires)
  BY PeersAssumption

LEMMA WireType ==
  ASSUME NEW s \in Sessions, NEW d \in Directions, NEW i \in 1..Len(s.sends[d])
  PROVE  LET w == s.sends[d][i]
         IN  w \in Wires /\ w.rec \in Records /\ w.is \in Meanings /\ w.after \in Nat
<1>1. s.sends[d][i] \in Wires
  BY SessionType, ElementOfSeq
<1> QED
  BY <1>1 DEF Wires

\* Whichever way a record goes, it is ingested under the flow's key.
LEMMA SameFlow ==
  ASSUME NEW e \in Ends, NEW d \in Directions
  PROVE  /\ Canonical(e[d], e[Opposite(d)]) = Canonical(e[C2S], e[S2C])
         /\ Canonical(e[C2S], e[S2C]) \in Keys
<1>1. e[C2S] \in Endpoints /\ e[S2C] \in Endpoints
  BY PeersAssumption DEF Directions, C2S, S2C
<1>2. Canonical(e[S2C], e[C2S]) = Canonical(e[C2S], e[S2C])
  BY <1>1, CanonicalSymmetric
<1> QED
  BY <1>2, PeersAssumption DEF Directions, Opposite, C2S, S2C

LEMMA PeersTypeInit == PeersInit => PeersTypeInv
<1> SUFFICES ASSUME PeersInit PROVE PeersTypeInv
  OBVIOUS
<1>1. SafetyInv
  BY TypeInit, UntrackedOK DEF PeersInit, SafetyInv, AllConnOK, Init
<1>2. \A d \in Directions : 0 <= Len(session.sends[d])
  BY SessionType, LenProperties DEF PeersInit
<1> QED
  BY <1>1, <1>2 DEF PeersInit, PeersTypeInv, Init

LEMMA ObserveType ==
  ASSUME PeersTypeInv, NEW d \in Directions, Observe(d)
  PROVE  PeersTypeInv'
<1> DEFINE w == session.sends[d][sent[d] + 1]
<1>1. sent[d] + 1 \in 1..Len(session.sends[d])
  <2>1. Len(session.sends[d]) \in Nat /\ sent[d] \in Nat
    BY SessionType, LenProperties DEF PeersTypeInv
  <2> QED
    BY <2>1 DEF Observe
<1>2. w.rec \in Records /\ w.is \in Meanings
  BY <1>1, WireType DEF PeersTypeInv
<1> HIDE DEF w
<1>3. PICK o \in Origins :
        Ingest(Flow, DirectionOf(Canonical(ends[d], ends[Opposite(d)]), ends[d]), 0, o,
               <<w.rec>>)
  BY SameFlow DEF Observe, Flow, PeersTypeInv, w, C2S, S2C
<1>4. Flow \in Keys
  BY SameFlow DEF Flow, PeersTypeInv, C2S, S2C
<1>5. SafetyInv'
  <2>1. <<w.rec>> \in Seq(Records)
    BY <1>2
  <2>2. DirectionOf(Canonical(ends[d], ends[Opposite(d)]), ends[d]) \in Directions
    BY DEF DirectionOf, Directions
  <2> QED
    BY <1>3, <1>4, <2>1, <2>2, IngestSafe DEF PeersTypeInv
<1>6. ends' = ends /\ session' = session
  BY DEF Observe
<1>7. Flow' = Flow
  BY <1>6 DEF Flow
<1>8. tracked' \subseteq {Flow'}
  BY <1>3, <1>7 DEF Ingest, PeersTypeInv
<1>9. sent' \in [Directions -> Nat] /\ \A b \in Directions : sent'[b] <= Len(session'.sends[b])
  BY <1>1, <1>6 DEF Observe, PeersTypeInv
<1>10. observed' \in Seq([direction : Directions, is : Meanings])
  <2>1. observed' = Append(observed, [direction |-> d, is |-> w.is])
    BY DEF Observe, w
  <2> QED
    BY <1>2, <2>1 DEF PeersTypeInv
<1> QED
  BY <1>5, <1>6, <1>8, <1>9, <1>10 DEF PeersTypeInv

LEMMA PeersTypeNext == PeersTypeInv /\ [PeersNext]_<<vars, peerVars>> => PeersTypeInv'
<1> SUFFICES ASSUME PeersTypeInv, [PeersNext]_<<vars, peerVars>> PROVE PeersTypeInv'
  OBVIOUS
<1>1. CASE \E d \in Directions : Observe(d)
  BY <1>1, ObserveType
<1>2. CASE Track \/ UNCHANGED <<vars, peerVars>>
  <2>1. ends' = ends /\ session' = session /\ sent' = sent /\ observed' = observed
    BY <1>2 DEF Track, peerVars
  <2>2. [Next]_vars /\ (StepOfCall \/ UNCHANGED vars)
    BY <1>2 DEF Track, Next
  <2>3. SafetyInv'
    BY <2>2, TypeNext, SafetyNext DEF PeersTypeInv, SafetyInv
  <2>4. tracked' \subseteq tracked
    BY <2>2 DEF StepOfCall, BeginHandshakeRecord, ApplyMessage, EndHandshakeRecord,
                PostCcsHandshakeRecord, ApplicationDataRecord, ChangeCipherSpecRecord,
                IgnoredRecord, Return, EvictStale, Consume, vars
  <2>5. Flow' = Flow
    BY <2>1 DEF Flow
  <2> QED
    BY <2>1, <2>3, <2>4, <2>5 DEF PeersTypeInv
<1> QED
  BY <1>1, <1>2 DEF PeersNext

LEMMA PeersTypeInvariant == PeersSpec => []PeersTypeInv
<1> QED
  BY PeersTypeInit, PeersTypeNext, PTL DEF PeersSpec

(* Whatever session two endpoints run, and whichever of them the tracker   *)
(* takes for the client, both directions are one connection (canonical).   *)
THEOREM OneConnection == PeersSpec => []OneFlow
<1>1. PeersTypeInv => OneFlow
  BY DEF PeersTypeInv, OneFlow
<1> QED
  BY <1>1, PeersTypeInvariant, PTL

-----------------------------------------------------------------------------
(* The grammar of Peers, in terms of what each peer has sent so far: g[d]  *)
(* is the set of what the records of direction d were.                     *)

Got(s, d, n) == {s.sends[d][j].is : j \in 1..n}

\* The record `is' may come next in direction d.
Legal(tls13, g, d, is) ==
  /\ is \in May(tls13, d)
  /\ is = Opens(d) \/ (tls13 /\ d = S2C) \/ Opens(d) \in g[d]
  /\ \A x \in g[d] : is \in Follows(tls13, x)
  /\ Needs(tls13, d, is) \subseteq g[d]
  /\ Waits(tls13, d, is) \subseteq g[Opposite(d)]

\* Nothing was sent before what it rests on.
Grounded(tls13, g) ==
  \A d \in Directions : \A is \in g[d] :
    /\ is \in May(tls13, d)
    /\ is = Opens(d) \/ (tls13 /\ d = S2C) \/ Opens(d) \in g[d]
    /\ Needs(tls13, d, is) \subseteq g[d]
    /\ Waits(tls13, d, is) \subseteq g[Opposite(d)]

\* Of two peers of TLS 1.2, one changes cipher after the other has finished.
OneFinishesFirst(g) ==
  \E d \in Directions : "ChangeCipherSpec" \in g[d] => "Finished" \in g[Opposite(d)]

\* The first n[d] records of each direction, sent in an order the waiting allows.
Sent(s, n) == [d \in Directions |-> Got(s, d, n[d])]
Causal(s, n) ==
  \A d \in Directions : \A i \in 1..n[d] :
    i <= Len(s.sends[d]) /\ s.sends[d][i].after <= n[Opposite(d)]

LEMMA OtherDirection ==
  ASSUME NEW d \in Directions
  PROVE  Opposite(d) \in Directions /\ Opposite(d) # d /\ Opposite(Opposite(d)) = d
  BY DEF Directions, Opposite

LEMMA EarlierIsGot ==
  ASSUME NEW s \in Sessions, NEW d \in Directions, NEW n \in Nat, NEW is, Earlier(s, d, n, is)
  PROVE  is \in Got(s, d, n)
<1>1. DOMAIN s.sends[d] = 1..Len(s.sends[d]) /\ Len(s.sends[d]) \in Nat
  BY SessionType, LenProperties
<1>2. PICK j \in DOMAIN s.sends[d] : j <= n /\ s.sends[d][j].is = is
  BY DEF Earlier
<1>3. j \in 1..n
  BY <1>1, <1>2
<1> QED
  BY <1>2, <1>3 DEF Got

LEMMA GotGrows ==
  ASSUME NEW s, NEW d, NEW m \in Int, NEW n \in Int, m <= n
  PROVE  Got(s, d, m) \subseteq Got(s, d, n)
<1>1. 1..m \subseteq 1..n
  OBVIOUS
<1> QED
  BY <1>1 DEF Got

LEMMA GotNext ==
  ASSUME NEW s, NEW d, NEW n \in Nat
  PROVE  Got(s, d, n + 1) = Got(s, d, n) \cup {s.sends[d][n + 1].is}
<1>1. 1..(n + 1) = (1..n) \cup {n + 1}
  OBVIOUS
<1> QED
  BY <1>1 DEF Got

\* What InProtocol says of one record, in terms of the sets.
LEMMA RecordGrounded ==
  ASSUME NEW s \in Sessions, Protocol(s), NEW d \in Directions,
         NEW i \in 1..Len(s.sends[d]), NEW m \in Nat, s.sends[d][i].after <= m
  PROVE  LET w == s.sends[d][i]
         IN  /\ w.is \in May(s.tls13, d) /\ Looks(w, s.tls13, d)
             /\ \/ w.is = Opens(d) \/ (s.tls13 /\ d = S2C)
                \/ Opens(d) \in Got(s, d, i - 1)
             /\ \A is \in Needs(s.tls13, d, w.is) : is \in Got(s, d, i - 1)
             /\ \A is \in Waits(s.tls13, d, w.is) : is \in Got(s, Opposite(d), m)
             /\ \A j \in 1..Len(s.sends[d]) :
                  i < j => s.sends[d][j].is \in Follows(s.tls13, w.is)
<1> DEFINE w == s.sends[d][i]
<1>1. DOMAIN s.sends[d] = 1..Len(s.sends[d]) /\ Len(s.sends[d]) \in Nat
  BY SessionType, LenProperties
<1>2. InProtocol(s, d, i)
  BY <1>1 DEF Protocol
<1>3. i - 1 \in Nat /\ w.after \in Nat
  BY <1>1, WireType
<1>4. \A is : Earlier(s, d, i - 1, is) => is \in Got(s, d, i - 1)
  BY <1>3, EarlierIsGot
<1>5. \A is : Earlier(s, Opposite(d), w.after, is) => is \in Got(s, Opposite(d), m)
  <2>1. \A is : Earlier(s, Opposite(d), w.after, is) => is \in Got(s, Opposite(d), w.after)
    BY <1>3, EarlierIsGot, OtherDirection
  <2>2. Got(s, Opposite(d), w.after) \subseteq Got(s, Opposite(d), m)
    BY <1>3, GotGrows
  <2> QED
    BY <2>1, <2>2
<1>6. w.is \in May(s.tls13, d) /\ Looks(w, s.tls13, d)
  BY <1>2 DEF InProtocol
<1>7. w.is = Opens(d) \/ (s.tls13 /\ d = S2C) \/ Opens(d) \in Got(s, d, i - 1)
  BY <1>2, <1>4 DEF InProtocol, S2C
<1>8. \A is \in Needs(s.tls13, d, w.is) : is \in Got(s, d, i - 1)
  BY <1>2, <1>4 DEF InProtocol
<1>9. \A is \in Waits(s.tls13, d, w.is) : is \in Got(s, Opposite(d), m)
  BY <1>2, <1>5 DEF InProtocol
<1>10. \A j \in 1..Len(s.sends[d]) : i < j => s.sends[d][j].is \in Follows(s.tls13, w.is)
  BY <1>1, <1>2 DEF InProtocol
<1> QED
  BY <1>6, <1>7, <1>8, <1>9, <1>10

LEMMA SentGrounded ==
  ASSUME NEW s \in Sessions, Protocol(s), NEW n \in [Directions -> Nat], Causal(s, n)
  PROVE  Grounded(s.tls13, Sent(s, n))
<1> SUFFICES ASSUME NEW d \in Directions, NEW i \in 1..n[d]
             PROVE  LET is == s.sends[d][i].is
                    IN  /\ is \in May(s.tls13, d)
                        /\ \/ is = Opens(d) \/ (s.tls13 /\ d = S2C)
                           \/ Opens(d) \in Got(s, d, n[d])
                        /\ Needs(s.tls13, d, is) \subseteq Got(s, d, n[d])
                        /\ Waits(s.tls13, d, is) \subseteq Got(s, Opposite(d), n[Opposite(d)])
  BY OtherDirection DEF Grounded, Sent, Got
<1>1. n[d] \in Nat /\ n[Opposite(d)] \in Nat
  BY OtherDirection
<1>2. i \in 1..Len(s.sends[d]) /\ s.sends[d][i].after <= n[Opposite(d)]
  <2>1. Len(s.sends[d]) \in Nat
    BY SessionType, LenProperties
  <2> QED
    BY <1>1, <2>1 DEF Causal
<1>3. Got(s, d, i - 1) \subseteq Got(s, d, n[d])
  BY <1>1, GotGrows
<1> QED
  BY <1>1, <1>2, <1>3, RecordGrounded

LEMMA NextIsLegal ==
  ASSUME NEW s \in Sessions, Protocol(s), NEW n \in [Directions -> Nat],
         NEW d \in Directions, n[d] + 1 \in 1..Len(s.sends[d]),
         s.sends[d][n[d] + 1].after <= n[Opposite(d)]
  PROVE  /\ Legal(s.tls13, Sent(s, n), d, s.sends[d][n[d] + 1].is)
         /\ Looks(s.sends[d][n[d] + 1], s.tls13, d)
<1> DEFINE w == s.sends[d][n[d] + 1]
<1>1. n[d] \in Nat /\ n[Opposite(d)] \in Nat /\ (n[d] + 1) - 1 = n[d]
  BY OtherDirection
<1>2. /\ w.is \in May(s.tls13, d) /\ Looks(w, s.tls13, d)
      /\ w.is = Opens(d) \/ (s.tls13 /\ d = S2C) \/ Opens(d) \in Got(s, d, n[d])
      /\ \A is \in Needs(s.tls13, d, w.is) : is \in Got(s, d, n[d])
      /\ \A is \in Waits(s.tls13, d, w.is) : is \in Got(s, Opposite(d), n[Opposite(d)])
  BY <1>1, RecordGrounded
<1>3. \A x \in Got(s, d, n[d]) : w.is \in Follows(s.tls13, x)
  <2> SUFFICES ASSUME NEW i \in 1..n[d] PROVE w.is \in Follows(s.tls13, s.sends[d][i].is)
    BY DEF Got
  <2>1. DOMAIN s.sends[d] = 1..Len(s.sends[d]) /\ Len(s.sends[d]) \in Nat
    BY SessionType, LenProperties
  <2>2. i \in 1..Len(s.sends[d]) /\ i < n[d] + 1
    BY <1>1, <2>1
  <2> QED
    BY <2>1, <2>2 DEF Protocol, InProtocol
<1> QED
  BY <1>2, <1>3, OtherDirection DEF Legal, Sent

LEMMA SentOneFirst ==
  ASSUME NEW s \in Sessions, Protocol(s), ~s.tls13, NEW n \in [Directions -> Nat],
         Causal(s, n)
  PROVE  OneFinishesFirst(Sent(s, n))
<1>1. PICK d \in Directions : SecondToFinish(s, d)
  BY DEF Protocol
<1>2. "ChangeCipherSpec" \in Got(s, d, n[d]) => "Finished" \in Got(s, Opposite(d), n[Opposite(d)])
  <2> SUFFICES ASSUME NEW i \in 1..n[d], s.sends[d][i].is = "ChangeCipherSpec"
               PROVE  "Finished" \in Got(s, Opposite(d), n[Opposite(d)])
    BY DEF Got
  <2>1. DOMAIN s.sends[d] = 1..Len(s.sends[d]) /\ Len(s.sends[d]) \in Nat /\ n[d] \in Nat
        /\ n[Opposite(d)] \in Nat
    BY SessionType, LenProperties, OtherDirection
  <2>2. i \in 1..Len(s.sends[d]) /\ s.sends[d][i].after <= n[Opposite(d)]
    BY <2>1 DEF Causal
  <2>3. s.sends[d][i].after \in Nat
    BY <2>2, WireType
  <2>4. Earlier(s, Opposite(d), s.sends[d][i].after, "Finished")
    BY <1>1, <2>1, <2>2 DEF SecondToFinish
  <2>5. "Finished" \in Got(s, Opposite(d), s.sends[d][i].after)
    BY <2>3, <2>4, EarlierIsGot, OtherDirection
  <2>6. Got(s, Opposite(d), s.sends[d][i].after) \subseteq Got(s, Opposite(d), n[Opposite(d)])
    BY <2>1, <2>2, <2>3, GotGrows
  <2> QED
    BY <2>5, <2>6
<1> QED
  BY <1>2, OtherDirection DEF OneFinishesFirst, Sent

\* The grammar, spelled out for each version.
LEMMA Legal12 ==
  ASSUME NEW g, NEW d \in Directions, NEW is, Legal(FALSE, g, d, is), Grounded(FALSE, g)
  PROVE  /\ is \in {"ClientHello", "ServerHello", "Plaintext", "ChangeCipherSpec",
                    "Finished", "Data"}
         /\ is = "ClientHello" => d = C2S
         /\ is = "ServerHello" => d = S2C
         /\ is \notin {"ClientHello", "ServerHello"} => "ServerHello" \in g[S2C]
         /\ is # "Data" => "Finished" \notin g[d]
         /\ is \notin {"Finished", "Data"} => "ChangeCipherSpec" \notin g[d]
         /\ is = "Finished" => "ChangeCipherSpec" \in g[d]
         /\ is = "Data" => \A b \in Directions : "Finished" \in g[b]
         /\ (\E b \in Directions : "Data" \in g[b]) => is = "Data"
<1> USE DEF C2S, S2C, Directions, Opens, Opposite
<1>1. is \in {"ClientHello", "ServerHello", "Plaintext", "ChangeCipherSpec", "Finished", "Data"}
  BY DEF Legal, May
<1>2. (is = "ClientHello" => d = C2S) /\ (is = "ServerHello" => d = S2C)
  BY DEF Legal, May
<1>3. is \notin {"ClientHello", "ServerHello"} => "ServerHello" \in g[S2C]
  BY DEF Legal, Waits
<1>4. "Finished" \in g[d] => is = "Data"
  BY <1>1 DEF Legal, Follows
<1>5. "ChangeCipherSpec" \in g[d] => is \in {"Finished", "Data"}
  BY <1>1 DEF Legal, Follows
<1>6. is = "Finished" => "ChangeCipherSpec" \in g[d]
  BY DEF Legal, Needs
<1>7. is = "Data" => \A b \in Directions : "Finished" \in g[b]
  BY DEF Legal, Needs, Waits
<1>8. ASSUME NEW b \in Directions, "Data" \in g[b] PROVE "Finished" \in g[d]
  BY <1>8 DEF Grounded, Needs, Waits
<1> QED
  BY <1>1, <1>2, <1>3, <1>4, <1>5, <1>6, <1>7, <1>8

LEMMA Legal13 ==
  ASSUME NEW g, NEW d \in Directions, NEW is, Legal(TRUE, g, d, is), Grounded(TRUE, g)
  PROVE  /\ is \in IF d = C2S THEN {"ClientHello", "ChangeCipherSpec", "EarlyData",
                                    "Finished", "Data"}
                   ELSE {"ServerHello", "HelloRetryRequest", "ChangeCipherSpec",
                         "ServerFlight", "Finished", "Ticket", "Data"}
         /\ is # "ClientHello" => "ClientHello" \in g[C2S]
         /\ "Finished" \in g[d] => is \in {"Ticket", "Data"}
         /\ "ServerFlight" \in g[d] => is \in {"Finished", "Ticket", "Data"}
         /\ is = "Finished" => "ServerFlight" \in g[S2C]
         /\ is = "Finished" /\ d = C2S => "Finished" \in g[S2C]
         /\ is = "Ticket" => "Finished" \in g[S2C]
         /\ is = "Data" => \A b \in Directions : "Finished" \in g[b]
         /\ is = "Data" /\ d = S2C => "Data" \in g[C2S]
         /\ "Finished" \in g[C2S] => "Finished" \in g[S2C]
         /\ "Finished" \in g[S2C] => "ServerFlight" \in g[S2C]
         /\ "Data" \in g[C2S] => "Finished" \in g[C2S]
         /\ "ChangeCipherSpec" \in g[C2S] => "ClientHello" \in g[C2S]
<1> USE DEF C2S, S2C, Directions, Opens, Opposite
<1>1. is \in IF d = C2S THEN {"ClientHello", "ChangeCipherSpec", "EarlyData", "Finished", "Data"}
             ELSE {"ServerHello", "HelloRetryRequest", "ChangeCipherSpec", "ServerFlight",
                   "Finished", "Ticket", "Data"}
  BY DEF Legal, May
<1>2. is # "ClientHello" => "ClientHello" \in g[C2S]
  BY DEF Legal, Waits
<1>3. "Finished" \in g[d] => is \in {"Ticket", "Data"}
  BY DEF Legal, Follows
<1>4. "ServerFlight" \in g[d] => is \in {"Finished", "Ticket", "Data"}
  BY DEF Legal, Follows
<1>5. is = "Finished" /\ d = C2S => "Finished" \in g[S2C]
  BY DEF Legal, Waits
<1>6. is = "Ticket" => "Finished" \in g[S2C]
  BY <1>1 DEF Legal, Needs
<1>7. is = "Data" => \A b \in Directions : "Finished" \in g[b]
  BY DEF Legal, Needs, Waits
<1>8. is = "Data" /\ d = S2C => "Data" \in g[C2S]
  BY DEF Legal, Waits
<1>9. "Finished" \in g[C2S] => "Finished" \in g[S2C]
  BY DEF Grounded, Waits
<1>10. "Finished" \in g[S2C] => "ServerFlight" \in g[S2C]
  BY DEF Grounded, Needs
<1>11. "Data" \in g[C2S] => "Finished" \in g[C2S]
  BY DEF Grounded, Needs
<1>12. is = "Finished" => "ServerFlight" \in g[S2C]
  BY <1>5, <1>10 DEF Legal, Needs
<1>13. "ChangeCipherSpec" \in g[C2S] => "ClientHello" \in g[C2S]
  BY DEF Grounded
<1> QED
  BY <1>1, <1>2, <1>3, <1>4, <1>5, <1>6, <1>7, <1>8, <1>9, <1>10, <1>11, <1>12, <1>13

-----------------------------------------------------------------------------
(* What the tracker knows of the session.  `late' says that early data may *)
(* have been taken for the client's Finished, `behind' that a ClientHello  *)
(* came behind a ChangeCipherSpec.                                         *)

Facts12(c, g) ==
  /\ c.encrypted_records_from[C2S] = 0 /\ c.encrypted_records_from[S2C] = 0
  /\ "ServerHello" \in g[S2C] => c.tls_version = "Tls12"
  /\ "ServerHello" \notin g[S2C] => c.stage \in {"Idle", "ClientHello"}
  /\ \A d \in Directions : c.post_ccs_records_from[d] > 0 => "Finished" \in g[d]
  /\ c.stop_logging => \A d \in Directions : "Finished" \in g[d]
  /\ c.stage = "ApplicationData" => \A d \in Directions : "Finished" \in g[d]
  /\ (\E d \in Directions : "Data" \in g[d]) => c.stage = "ApplicationData"

Exact13(c, g) ==
  /\ c.encrypted_records_from[C2S] >= 1 => "Finished" \in g[C2S]
  /\ c.encrypted_records_from[C2S] >= 2 => "Data" \in g[C2S]
  /\ c.stage = "ClientFinished" => "Finished" \in g[C2S]
  /\ c.stage = "ServerFinished" => "Finished" \in g[S2C]
  /\ c.stage = "ApplicationData" => \A d \in Directions : "Finished" \in g[d]

Stages13 == {"Idle", "ClientHello", "ServerHello", "Certificate", "ClientFinished",
             "ServerFinished", "ApplicationData"}

Facts13(c, g, late, behind) ==
  /\ c.tls_version # "Tls12"
  /\ "ClientHello" \in g[C2S] => c.tls_version = "Tls13"
  /\ c.stage \in Stages13
  /\ c.encrypted_records_from[S2C] >= 1 <=> "ServerFlight" \in g[S2C]
  /\ c.encrypted_records_from[S2C] >= 2 <=> "Finished" \in g[S2C]
  /\ "Finished" \in g[C2S] => c.encrypted_records_from[C2S] >= 1
  /\ "Data" \in g[C2S] => c.encrypted_records_from[C2S] >= 2
  /\ "Data" \in g[C2S] => c.stage = "ApplicationData"
  /\ c.post_ccs_records_from[C2S] > 0 => behind
  /\ late \/ Exact13(c, g)

Facts(c, tls13, g, late, behind) ==
  /\ ~c.error
  /\ \A d \in Directions : c.ccs_seen[d] <=> "ChangeCipherSpec" \in g[d]
  /\ IF tls13 THEN Facts13(c, g, late, behind) ELSE Facts12(c, g)

\* h is g and one record more.
Adds(h, g, d, is) ==
  \A b \in Directions : \A x : x \in h[b] <=> x \in g[b] \/ (b = d /\ x = is)

\* The log is not among the facts.
LEMMA FactsKept ==
  ASSUME NEW c, NEW n, NEW tls13, NEW g, NEW late, NEW behind,
         Facts(c, tls13, g, late, behind),
         n.stage = c.stage, n.tls_version = c.tls_version, n.error = c.error,
         n.ccs_seen = c.ccs_seen, n.stop_logging = c.stop_logging,
         n.encrypted_records_from = c.encrypted_records_from,
         n.post_ccs_records_from = c.post_ccs_records_from
  PROVE  Facts(n, tls13, g, late, behind)
  BY DEF Facts, Facts12, Facts13, Exact13

LEMMA FactsWeakened ==
  ASSUME NEW c, NEW tls13, NEW g, NEW late, NEW behind, NEW late2, NEW behind2,
         Facts(c, tls13, g, late, behind), late => late2, behind => behind2
  PROVE  Facts(c, tls13, g, late2, behind2)
  BY DEF Facts, Facts13

LEMMA PushKeepsFacts ==
  ASSUME NEW c \in TrackedConnections, NEW r \in Records, NEW d \in Directions,
         r.type # "Other", NEW tls13, NEW g, NEW late, NEW behind,
         Facts(c, tls13, g, late, behind)
  PROVE  Facts(PushRecordEvent(c, r, d), tls13, g, late, behind)
<1> DEFINE n == PushRecordEvent(c, r, d)
<1>1. /\ n.stage = c.stage /\ n.tls_version = c.tls_version /\ n.error = c.error
      /\ n.ccs_seen = c.ccs_seen /\ n.stop_logging = c.stop_logging
      /\ n.encrypted_records_from = c.encrypted_records_from
      /\ n.post_ccs_records_from = c.post_ccs_records_from
  BY PushShape
<1> HIDE DEF n
<1>2. Facts(n, tls13, g, late, behind)
  BY <1>1, FactsKept
<1> QED
  BY <1>2 DEF n

\* A handshake message of a record in clear.
LEMMA MessageFacts12 ==
  ASSUME NEW c \in TrackedConnections, NEW m \in Messages, NEW d \in Directions,
         NEW g, NEW h, NEW is, NEW late, NEW behind,
         Facts(c, FALSE, g, late, behind), Adds(h, g, d, is),
         Legal(FALSE, g, d, is), Grounded(FALSE, g),
         \/ is = "ClientHello" /\ m.kind = "ClientHello"
         \/ is = "ServerHello" /\ m.kind = "ServerHello" /\ m.version = "Tls12"
         \/ is = "Plaintext" /\ d = C2S /\ m.kind = "ClientKeyExchange"
         \/ is = "Plaintext" /\ d = S2C
            /\ m.kind \in {"Certificate", "ServerKeyExchange", "ServerDone"}
  PROVE  Facts(ApplyHandshakeMessage(c, m, d), FALSE, h, late, behind)
<1> DEFINE n == ApplyHandshakeMessage(c, m, d)
<1>1. /\ n.ccs_seen = c.ccs_seen /\ n.error = c.error
      /\ n.encrypted_records_from = c.encrypted_records_from
      /\ n.post_ccs_records_from = c.post_ccs_records_from
      /\ n.stop_logging = c.stop_logging
  BY MessageKeeps
<1>2. /\ is = "ClientHello" => d = C2S
      /\ is = "ServerHello" => d = S2C
      /\ is \notin {"ClientHello", "ServerHello"} => "ServerHello" \in g[S2C]
      /\ (\E b \in Directions : "Data" \in g[b]) => is = "Data"
  BY Legal12
<1>3. Facts12(c, g) /\ ~c.error
      /\ \A b \in Directions : c.ccs_seen[b] <=> "ChangeCipherSpec" \in g[b]
  BY DEF Facts
<1>4. \/ is = "ClientHello" /\ n.stage = "ClientHello"
         /\ (c.tls_version = "Tls12" => n.tls_version = "Tls12")
      \/ is = "ServerHello" /\ n.stage = "ServerHello" /\ n.tls_version = "Tls12"
      \/ is = "Plaintext" /\ n.tls_version = c.tls_version
         /\ n.stage \in {"ClientKeyExchange", "ServerCertificate", "ServerKeyExchange",
                         "ServerHelloDone"}
  <2>1. CASE is = "ClientHello"
    BY <1>2, <2>1 DEF ApplyHandshakeMessage, MergeClientHello, TrackedConnections, C2S
  <2>2. CASE is = "ServerHello"
    BY <1>2, <2>2 DEF ApplyHandshakeMessage, MergeServerHello, TrackedConnections, S2C
  <2>3. CASE is = "Plaintext"
    <3>1. c.tls_version = "Tls12"
      BY <1>2, <1>3, <2>3 DEF Facts12
    <3> QED
      BY <2>3, <3>1 DEF ApplyHandshakeMessage, TrackedConnections, C2S, S2C
  <2> QED
    BY <2>1, <2>2, <2>3
<1>5. \A b \in Directions : /\ "ChangeCipherSpec" \in h[b] <=> "ChangeCipherSpec" \in g[b]
                            /\ "Finished" \in h[b] <=> "Finished" \in g[b]
                            /\ "Data" \in h[b] <=> "Data" \in g[b]
  <2>1. is \notin {"ChangeCipherSpec", "Finished", "Data"}
    OBVIOUS
  <2> QED
    BY <2>1 DEF Adds
<1>6. "ServerHello" \in h[S2C] <=> "ServerHello" \in g[S2C] \/ is = "ServerHello"
  BY <1>2 DEF Adds, S2C, Directions
<1>7. ~\E b \in Directions : "Data" \in g[b]
  BY <1>2
<1> HIDE DEF n
<1>8. Facts12(n, h)
  BY <1>1, <1>2, <1>3, <1>4, <1>5, <1>6, <1>7 DEF Facts12
<1>9. Facts(n, FALSE, h, late, behind)
  BY <1>1, <1>3, <1>5, <1>8 DEF Facts
<1> QED
  BY <1>9 DEF n

LEMMA MessageFacts13 ==
  ASSUME NEW c \in TrackedConnections, NEW m \in Messages, NEW d \in Directions,
         NEW g, NEW h, NEW is, NEW late, NEW behind,
         Facts(c, TRUE, g, late, behind), Adds(h, g, d, is),
         Legal(TRUE, g, d, is), Grounded(TRUE, g), m.version = "Tls13",
         \/ is = "ClientHello" /\ m.kind = "ClientHello"
         \/ is \in {"ServerHello", "HelloRetryRequest"} /\ m.kind = "ServerHello"
  PROVE  Facts(ApplyHandshakeMessage(c, m, d), TRUE, h, late, behind)
<1> DEFINE n == ApplyHandshakeMessage(c, m, d)
<1>1. /\ n.ccs_seen = c.ccs_seen /\ n.error = c.error
      /\ n.encrypted_records_from = c.encrypted_records_from
      /\ n.post_ccs_records_from = c.post_ccs_records_from
      /\ n.stop_logging = c.stop_logging
  BY MessageKeeps
<1>2. /\ is = "ClientHello" => d = C2S
      /\ is # "ClientHello" => d = S2C /\ "ClientHello" \in g[C2S]
      /\ "Finished" \notin g[d]
      /\ "Finished" \in g[C2S] => "Finished" \in g[S2C]
      /\ "Data" \in g[C2S] => "Finished" \in g[C2S]
  BY Legal13 DEF C2S, S2C, Directions
<1>3. Facts13(c, g, late, behind) /\ ~c.error
      /\ \A b \in Directions : c.ccs_seen[b] <=> "ChangeCipherSpec" \in g[b]
  BY DEF Facts
<1>4. n.tls_version = "Tls13" /\ n.stage \in {"ClientHello", "ServerHello"}
  <2>1. c.tls_version \in {"None", "Tls13"}
    BY <1>3 DEF Facts13, TrackedConnections, Versions
  <2>2. CASE is = "ClientHello"
    BY <1>2, <2>1, <2>2 DEF ApplyHandshakeMessage, MergeClientHello, TrackedConnections, C2S
  <2>3. CASE is # "ClientHello"
    BY <1>2, <2>3 DEF ApplyHandshakeMessage, MergeServerHello, TrackedConnections, S2C
  <2> QED
    BY <2>2, <2>3
<1>5. \A b \in Directions : /\ "ChangeCipherSpec" \in h[b] <=> "ChangeCipherSpec" \in g[b]
                            /\ "Finished" \in h[b] <=> "Finished" \in g[b]
                            /\ "ServerFlight" \in h[b] <=> "ServerFlight" \in g[b]
                            /\ "Data" \in h[b] <=> "Data" \in g[b]
  <2>1. is \notin {"ChangeCipherSpec", "Finished", "ServerFlight", "Data"}
    OBVIOUS
  <2> QED
    BY <2>1 DEF Adds
<1>6. "Data" \notin g[C2S]
  BY <1>2 DEF C2S, S2C, Directions
<1>7. C2S \in Directions /\ S2C \in Directions
  BY DEF C2S, S2C, Directions
<1> HIDE DEF n
<1>8. Exact13(c, g) => Exact13(n, h)
  BY <1>1, <1>4, <1>5, <1>7 DEF Exact13
<1>9. Facts13(n, h, late, behind)
  BY <1>1, <1>3, <1>4, <1>5, <1>6, <1>7, <1>8 DEF Facts13, Stages13
<1>10. Facts(n, TRUE, h, late, behind)
  BY <1>1, <1>3, <1>5, <1>9 DEF Facts
<1> QED
  BY <1>10 DEF n

\* A handshake record of a direction that has changed cipher.
LEMMA PostCcsFields ==
  ASSUME NEW c \in TrackedConnections, NEW r \in Records, NEW d \in Directions,
         r.type # "Other"
  PROVE  LET n == AfterPostCcsHandshake(c, r, d)
         IN  /\ n.stage = c.stage /\ n.tls_version = c.tls_version /\ n.error = c.error
             /\ n.ccs_seen = c.ccs_seen
             /\ n.encrypted_records_from = c.encrypted_records_from
             /\ n.post_ccs_records_from = [c.post_ccs_records_from EXCEPT ![d] = @ + 1]
             /\ n.stop_logging <=> c.stop_logging \/ BothCcsSeen(c)
             /\ n.records = PushRecordEvent(c, r, d).records
<1> DEFINE p == PushRecordEvent(c, r, d)
           n == AfterPostCcsHandshake(c, r, d)
<1>1. /\ p.ccs_seen = c.ccs_seen /\ p.error = c.error /\ p.stage = c.stage
      /\ p.encrypted_records_from = c.encrypted_records_from
      /\ p.post_ccs_records_from = c.post_ccs_records_from
      /\ p.stop_logging = c.stop_logging /\ p.tls_version = c.tls_version
  BY PushShape
<1>2. /\ n.records = p.records /\ n.stage = p.stage
      /\ n.encrypted_records_from = p.encrypted_records_from /\ n.error = p.error
      /\ n.ccs_seen = p.ccs_seen /\ n.tls_version = p.tls_version
      /\ n.post_ccs_records_from = [p.post_ccs_records_from EXCEPT ![d] = @ + 1]
      /\ n.stop_logging <=> p.stop_logging \/ BothCcsSeen(p)
  BY PostCcsShape
<1>3. BothCcsSeen(p) <=> BothCcsSeen(c)
  BY <1>1 DEF BothCcsSeen
<1> HIDE DEF p, n
<1>4. /\ n.stage = c.stage /\ n.tls_version = c.tls_version /\ n.error = c.error
      /\ n.ccs_seen = c.ccs_seen /\ n.records = p.records
      /\ n.encrypted_records_from = c.encrypted_records_from
      /\ n.post_ccs_records_from = [c.post_ccs_records_from EXCEPT ![d] = @ + 1]
      /\ n.stop_logging <=> c.stop_logging \/ BothCcsSeen(c)
  BY <1>1, <1>2, <1>3
<1> QED
  BY <1>4 DEF n, p

LEMMA PostCcsFacts12 ==
  ASSUME NEW c \in TrackedConnections, NEW r \in Records, NEW d \in Directions,
         NEW g, NEW h, NEW late, NEW behind, r.type # "Other",
         Facts(c, FALSE, g, late, behind), Adds(h, g, d, "Finished"),
         Legal(FALSE, g, d, "Finished"), Grounded(FALSE, g), OneFinishesFirst(g)
  PROVE  Facts(AfterPostCcsHandshake(c, r, d), FALSE, h, late, behind)
<1> DEFINE n == AfterPostCcsHandshake(c, r, d)
<1>1. /\ n.stage = c.stage /\ n.tls_version = c.tls_version /\ n.error = c.error
      /\ n.ccs_seen = c.ccs_seen
      /\ n.encrypted_records_from = c.encrypted_records_from
      /\ n.post_ccs_records_from = [c.post_ccs_records_from EXCEPT ![d] = @ + 1]
      /\ n.stop_logging <=> c.stop_logging \/ BothCcsSeen(c)
  BY PostCcsFields
<1> HIDE DEF n
<1>2. /\ "ServerHello" \in g[S2C] /\ "Finished" \notin g[d]
      /\ ~\E b \in Directions : "Data" \in g[b]
  BY Legal12
<1>3. Facts12(c, g) /\ ~c.error
      /\ \A b \in Directions : c.ccs_seen[b] <=> "ChangeCipherSpec" \in g[b]
  BY DEF Facts
<1>4. /\ \A b \in Directions : /\ "ChangeCipherSpec" \in h[b] <=> "ChangeCipherSpec" \in g[b]
                               /\ "Data" \in h[b] <=> "Data" \in g[b]
                               /\ "Finished" \in g[b] => "Finished" \in h[b]
      /\ "Finished" \in h[d]
      /\ "ServerHello" \in h[S2C]
  BY <1>2 DEF Adds, S2C, Directions
<1>5. n.stop_logging => \A b \in Directions : "Finished" \in h[b]
  <2> SUFFICES ASSUME BothCcsSeen(c) PROVE \A b \in Directions : "Finished" \in h[b]
    BY <1>1, <1>3, <1>4 DEF Facts12
  <2>1. PICK f \in Directions : "ChangeCipherSpec" \in g[f] => "Finished" \in g[Opposite(f)]
    BY DEF OneFinishesFirst
  <2>2. "Finished" \in g[Opposite(f)]
    BY <1>3, <2>1 DEF BothCcsSeen
  <2>3. \A b \in Directions : b = d \/ b = Opposite(f)
    BY <1>2, <2>2 DEF Opposite, Directions
  <2> QED
    BY <1>4, <2>2, <2>3
<1>6. \A b \in Directions : n.post_ccs_records_from[b] > 0 => "Finished" \in h[b]
  <2>1. c.post_ccs_records_from \in [Directions -> Nat]
    BY DEF TrackedConnections
  <2>2. \A b \in Directions : b # d => n.post_ccs_records_from[b] = c.post_ccs_records_from[b]
    BY <1>1, <2>1
  <2> QED
    BY <1>3, <1>4, <2>2 DEF Facts12
<1>7. Facts12(n, h)
  BY <1>1, <1>2, <1>3, <1>4, <1>5, <1>6 DEF Facts12
<1>8. Facts(n, FALSE, h, late, behind)
  BY <1>1, <1>3, <1>4, <1>7 DEF Facts
<1> QED
  BY <1>8 DEF n

LEMMA PostCcsFacts13 ==
  ASSUME NEW c \in TrackedConnections, NEW r \in Records, NEW d \in Directions,
         NEW g, NEW h, NEW is, NEW late, NEW behind, r.type # "Other",
         Facts(c, TRUE, g, late, behind), Adds(h, g, d, is),
         Legal(TRUE, g, d, is), Grounded(TRUE, g),
         is \in {"ClientHello", "ServerHello", "HelloRetryRequest"}, c.ccs_seen[d],
         is = "ClientHello" => behind
  PROVE  Facts(AfterPostCcsHandshake(c, r, d), TRUE, h, late, behind)
<1> DEFINE n == AfterPostCcsHandshake(c, r, d)
<1>1. /\ n.stage = c.stage /\ n.tls_version = c.tls_version /\ n.error = c.error
      /\ n.ccs_seen = c.ccs_seen
      /\ n.encrypted_records_from = c.encrypted_records_from
      /\ n.post_ccs_records_from = [c.post_ccs_records_from EXCEPT ![d] = @ + 1]
  BY PostCcsFields
<1> HIDE DEF n
<1>2. Facts13(c, g, late, behind) /\ ~c.error
      /\ \A b \in Directions : c.ccs_seen[b] <=> "ChangeCipherSpec" \in g[b]
  BY DEF Facts
<1>3. /\ is = "ClientHello" <=> d = C2S
      /\ "ClientHello" \in g[C2S]
  BY <1>2, Legal13 DEF C2S, S2C, Directions
<1>4. \A b \in Directions : /\ "ChangeCipherSpec" \in h[b] <=> "ChangeCipherSpec" \in g[b]
                            /\ "Finished" \in h[b] <=> "Finished" \in g[b]
                            /\ "ServerFlight" \in h[b] <=> "ServerFlight" \in g[b]
                            /\ "Data" \in h[b] <=> "Data" \in g[b]
  BY DEF Adds
<1>5. C2S \in Directions /\ S2C \in Directions /\ "ClientHello" \in h[C2S]
  BY <1>3 DEF C2S, S2C, Directions, Adds
<1>6. n.post_ccs_records_from[C2S] > 0 => behind
  <2>1. CASE d = C2S
    BY <1>3, <2>1
  <2>2. CASE d # C2S
    <3>1. n.post_ccs_records_from[C2S] = c.post_ccs_records_from[C2S]
      BY <1>1, <1>5, <2>2 DEF TrackedConnections
    <3> QED
      BY <1>2, <3>1 DEF Facts13
  <2> QED
    BY <2>1, <2>2
<1>7. Exact13(c, g) => Exact13(n, h)
  BY <1>1, <1>4, <1>5 DEF Exact13
<1>8. Facts13(n, h, late, behind)
  BY <1>1, <1>2, <1>3, <1>4, <1>5, <1>6, <1>7 DEF Facts13
<1>9. Facts(n, TRUE, h, late, behind)
  BY <1>1, <1>2, <1>4, <1>8 DEF Facts
<1> QED
  BY <1>9 DEF n

\* A ChangeCipherSpec.
LEMMA CcsFacts ==
  ASSUME NEW c \in TrackedConnections, NEW d \in Directions, NEW tls13 \in BOOLEAN,
         NEW g, NEW h, NEW late, NEW behind,
         Facts(c, tls13, g, late, behind), Adds(h, g, d, "ChangeCipherSpec"),
         Legal(tls13, g, d, "ChangeCipherSpec"), Grounded(tls13, g)
  PROVE  Facts(Changed(c, d), tls13, h, late, behind)
<1> DEFINE n == Changed(c, d)
<1>1. /\ n.tls_version = c.tls_version /\ n.error = c.error
      /\ n.encrypted_records_from = c.encrypted_records_from
      /\ n.post_ccs_records_from = c.post_ccs_records_from
      /\ n.stop_logging = c.stop_logging
      /\ n.ccs_seen = [c.ccs_seen EXCEPT ![d] = TRUE]
  BY CcsShape
<1>2. \/ n.stage = c.stage
      \/ /\ n.stage = "ClientFinished" /\ d = "ClientToServer"
         /\ c.stage = "ClientKeyExchange"
      \/ /\ n.stage = "ServerFinished" /\ d = "ServerToClient"
         /\ c.stage = "ClientFinished"
  BY CcsShape
<1> HIDE DEF n
<1>3. \A b \in Directions : c.ccs_seen[b] <=> "ChangeCipherSpec" \in g[b]
  BY DEF Facts
<1>4. \A b \in Directions : n.ccs_seen[b] <=> "ChangeCipherSpec" \in h[b]
  BY <1>1, <1>3 DEF Adds, TrackedConnections
<1>5. \A b \in Directions :
        \A x : x # "ChangeCipherSpec" => (x \in h[b] <=> x \in g[b])
  BY DEF Adds
<1>6. C2S \in Directions /\ S2C \in Directions
  BY DEF C2S, S2C, Directions
<1>7. \A b \in Directions : /\ "Finished" \in h[b] <=> "Finished" \in g[b]
                            /\ "Data" \in h[b] <=> "Data" \in g[b]
                            /\ "ClientHello" \in h[b] <=> "ClientHello" \in g[b]
                            /\ "ServerHello" \in h[b] <=> "ServerHello" \in g[b]
                            /\ "ServerFlight" \in h[b] <=> "ServerFlight" \in g[b]
  BY <1>5
<1>8. CASE tls13
  <2>1. Facts13(c, g, late, behind) /\ Legal(TRUE, g, d, "ChangeCipherSpec")
        /\ Grounded(TRUE, g)
    BY <1>8 DEF Facts
  <2>2. /\ "Finished" \notin g[d]
        /\ "Finished" \in g[C2S] => "Finished" \in g[S2C]
        /\ "Data" \in g[C2S] => "Finished" \in g[C2S]
    <3>1. PICK is : is = "ChangeCipherSpec"
      OBVIOUS
    <3>2. Legal(TRUE, g, d, is)
      BY <2>1, <3>1
    <3>3. /\ "Finished" \in g[d] => is \in {"Ticket", "Data"}
          /\ "Finished" \in g[C2S] => "Finished" \in g[S2C]
          /\ "Data" \in g[C2S] => "Finished" \in g[C2S]
      BY <2>1, <3>2, Legal13
    <3> QED
      BY <3>1, <3>3
  <2>3. "Data" \notin g[C2S]
    BY <2>2 DEF C2S, S2C, Directions
  <2>4. n.stage \in Stages13
    BY <1>2, <2>1 DEF Facts13, Stages13
  <2>5. Exact13(c, g) => Exact13(n, h)
    <3>1. \/ n.stage = c.stage
          \/ n.stage = "ServerFinished" /\ c.stage = "ClientFinished"
      BY <1>2, <2>1 DEF Facts13, Stages13
    <3> QED
      BY <1>1, <1>6, <1>7, <2>2, <3>1 DEF Exact13
  <2>6. Facts13(n, h, late, behind)
    BY <1>1, <1>6, <1>7, <2>1, <2>3, <2>4, <2>5 DEF Facts13
  <2>7. Facts(n, tls13, h, late, behind)
    BY <1>1, <1>4, <1>8, <2>6 DEF Facts
  <2> QED
    BY <2>7 DEF n
<1>9. CASE ~tls13
  <2>1. Facts12(c, g) /\ Legal(FALSE, g, d, "ChangeCipherSpec") /\ Grounded(FALSE, g)
    BY <1>9 DEF Facts
  <2>2. "ServerHello" \in g[S2C] /\ ~\E b \in Directions : "Data" \in g[b]
    <3>1. PICK is : is = "ChangeCipherSpec"
      OBVIOUS
    <3>2. Legal(FALSE, g, d, is)
      BY <2>1, <3>1
    <3>3. /\ is \notin {"ClientHello", "ServerHello"} => "ServerHello" \in g[S2C]
          /\ (\E b \in Directions : "Data" \in g[b]) => is = "Data"
      BY <2>1, <3>2, Legal12
    <3> QED
      BY <3>1, <3>3
  <2>3. n.stage = "ApplicationData" => c.stage = "ApplicationData"
    BY <1>2
  <2>4. Facts12(n, h)
    BY <1>1, <1>6, <1>7, <2>1, <2>2, <2>3 DEF Facts12
  <2>5. Facts(n, tls13, h, late, behind)
    BY <1>1, <1>4, <1>9, <2>4 DEF Facts
  <2> QED
    BY <2>5 DEF n
<1> QED
  BY <1>8, <1>9

\* An application_data record.
LEMMA DataFacts12 ==
  ASSUME NEW c \in TrackedConnections, NEW d \in Directions,
         NEW g, NEW h, NEW late, NEW behind,
         Facts(c, FALSE, g, late, behind), Adds(h, g, d, "Data"),
         Legal(FALSE, g, d, "Data"), Grounded(FALSE, g)
  PROVE  Facts(Encrypted(c, d), FALSE, h, late, behind)
<1> DEFINE n == Encrypted(c, d)
<1>1. "ServerHello" \in g[S2C] /\ \A b \in Directions : "Finished" \in g[b]
  BY Legal12
<1>2. Facts12(c, g) /\ ~c.error
      /\ \A b \in Directions : c.ccs_seen[b] <=> "ChangeCipherSpec" \in g[b]
  BY DEF Facts
<1>3. c.tls_version = "Tls12"
  BY <1>1, <1>2 DEF Facts12
<1>4. n.error = c.error /\ n.ccs_seen = c.ccs_seen
  BY EncryptedShape
<1>5. n.post_ccs_records_from = c.post_ccs_records_from /\ n.tls_version = c.tls_version
  BY EncryptedShape
<1>6. /\ n.stage = "ApplicationData"
      /\ n.encrypted_records_from["ServerToClient"] = c.encrypted_records_from["ServerToClient"]
      /\ n.encrypted_records_from["ClientToServer"] = c.encrypted_records_from["ClientToServer"]
  BY <1>3, EncryptedShape, ZenonT(40)
<1> HIDE DEF n
<1>7. \A b \in Directions : /\ "ChangeCipherSpec" \in h[b] <=> "ChangeCipherSpec" \in g[b]
                            /\ "Finished" \in h[b]
                            /\ "ServerHello" \in h[b] <=> "ServerHello" \in g[b]
  BY <1>1 DEF Adds
<1>8. C2S \in Directions /\ S2C \in Directions
  BY DEF C2S, S2C, Directions
<1>9. Facts12(n, h)
  BY <1>1, <1>2, <1>3, <1>4, <1>5, <1>6, <1>7, <1>8 DEF Facts12, C2S, S2C
<1>10. Facts(n, FALSE, h, late, behind)
  BY <1>2, <1>4, <1>7, <1>9 DEF Facts
<1> QED
  BY <1>10 DEF n

LEMMA DataFacts13 ==
  ASSUME NEW c \in TrackedConnections, FinishAgrees(c), NEW d \in Directions,
         NEW g, NEW h, NEW is, NEW late, NEW behind,
         Facts(c, TRUE, g, late, behind), Adds(h, g, d, is),
         Legal(TRUE, g, d, is), Grounded(TRUE, g),
         is \in {"EarlyData", "ServerFlight", "Finished", "Ticket", "Data"},
         is = "EarlyData" /\ "ServerFlight" \in g[S2C] => late
  PROVE  Facts(Encrypted(c, d), TRUE, h, late, behind)
<1> DEFINE n == Encrypted(c, d)
           fromServer(x) == x.encrypted_records_from["ServerToClient"]
           fromClient(x) == x.encrypted_records_from["ClientToServer"]
<1>1. /\ is \in IF d = C2S THEN {"EarlyData", "Finished", "Data"}
                ELSE {"ServerFlight", "Finished", "Ticket", "Data"}
      /\ "ClientHello" \in g[C2S]
  BY Legal13
<1>2. /\ "Finished" \in g[d] => is \in {"Ticket", "Data"}
      /\ "ServerFlight" \in g[d] => is \in {"Finished", "Ticket", "Data"}
      /\ is = "Finished" => "ServerFlight" \in g[S2C]
      /\ is = "Finished" /\ d = C2S => "Finished" \in g[S2C]
      /\ is = "Ticket" => "Finished" \in g[S2C]
      /\ is = "Data" => \A b \in Directions : "Finished" \in g[b]
      /\ is = "Data" /\ d = S2C => "Data" \in g[C2S]
      /\ "Finished" \in g[C2S] => "Finished" \in g[S2C]
      /\ "Finished" \in g[S2C] => "ServerFlight" \in g[S2C]
      /\ "Data" \in g[C2S] => "Finished" \in g[C2S]
  BY Legal13
<1>3. Facts13(c, g, late, behind) /\ ~c.error
      /\ \A b \in Directions : c.ccs_seen[b] <=> "ChangeCipherSpec" \in g[b]
  BY DEF Facts
<1>4. n.error = c.error /\ n.ccs_seen = c.ccs_seen
  BY EncryptedShape
<1>5. n.post_ccs_records_from = c.post_ccs_records_from /\ n.tls_version = c.tls_version
  BY EncryptedShape
<1>6. fromServer(c) \in Nat /\ fromClient(c) \in Nat
  BY DEF TrackedConnections, Directions
<1>7. c.saw_client_finished_marker <=> fromClient(c) > 0
  BY DEF FinishAgrees
<1>8. c.tls_version # "Tls12"
  BY <1>3 DEF Facts13
<1>9. d = S2C => /\ fromServer(n) = fromServer(c) + 1 /\ fromClient(n) = fromClient(c)
                 /\ n.stage = ServerFlightStage(c)
  BY <1>8, EncryptedShape DEF S2C
<1>10. d = C2S /\ fromServer(c) # 0 =>
         /\ fromServer(n) = fromServer(c) /\ fromClient(n) = fromClient(c) + 1
         /\ n.stage = IF c.saw_client_finished_marker
                      THEN "ApplicationData" ELSE "ClientFinished"
  <2> SUFFICES ASSUME d = "ClientToServer", fromServer(c) # 0
               PROVE  /\ fromServer(n) = fromServer(c) /\ fromClient(n) = fromClient(c) + 1
                      /\ n.stage = IF c.saw_client_finished_marker
                                   THEN "ApplicationData" ELSE "ClientFinished"
    BY DEF C2S
  <2> QED
    BY <1>8, EncryptedShape, ZenonT(40)
<1>11. d = C2S /\ fromServer(c) = 0 =>
         /\ fromServer(n) = fromServer(c) /\ fromClient(n) = fromClient(c)
         /\ n.stage = c.stage
  <2> SUFFICES ASSUME d = "ClientToServer", fromServer(c) = 0
               PROVE  /\ fromServer(n) = fromServer(c) /\ fromClient(n) = fromClient(c)
                      /\ n.stage = c.stage
    BY DEF C2S
  <2>1. ~(fromServer(c) > 0)
    OBVIOUS
  <2>2. fromServer(n) = fromServer(c)
    BY <1>8, <2>1, EncryptedShape
  <2>3. fromClient(n) = fromClient(c)
    BY <1>8, <2>1, EncryptedShape
  <2>4. n.stage = c.stage
    BY <1>8, <2>1, EncryptedShape
  <2> QED
    BY <2>2, <2>3, <2>4
<1> HIDE DEF n
<1>12. \A b \in Directions : /\ "ChangeCipherSpec" \in h[b] <=> "ChangeCipherSpec" \in g[b]
                             /\ "ClientHello" \in h[b] <=> "ClientHello" \in g[b]
  BY DEF Adds
<1>13. C2S \in Directions /\ S2C \in Directions /\ C2S # S2C
  BY DEF C2S, S2C, Directions
<1> DEFINE f == fromServer(c)
           k == fromClient(c)
<1>14. f \in Nat /\ k \in Nat
  BY <1>6
<1>15. /\ f >= 1 <=> "ServerFlight" \in g[S2C]
       /\ f >= 2 <=> "Finished" \in g[S2C]
       /\ "Finished" \in g[C2S] => k >= 1
       /\ "Data" \in g[C2S] => k >= 2 /\ c.stage = "ApplicationData"
       /\ late \/ /\ k >= 1 => "Finished" \in g[C2S]
                  /\ k >= 2 => "Data" \in g[C2S]
                  /\ c.stage = "ClientFinished" => "Finished" \in g[C2S]
                  /\ c.stage = "ServerFinished" => "Finished" \in g[S2C]
                  /\ c.stage = "ApplicationData" => \A b \in Directions : "Finished" \in g[b]
       /\ c.stage \in Stages13
  BY <1>3 DEF Facts13, Exact13, C2S, S2C
<1>16. c.saw_client_finished_marker <=> k >= 1
  BY <1>6, <1>7
\* What the counters and the stage become.
<1>17. /\ fromServer(n) >= 1 <=> "ServerFlight" \in h[S2C]
       /\ fromServer(n) >= 2 <=> "Finished" \in h[S2C]
       /\ "Finished" \in h[C2S] => fromClient(n) >= 1
       /\ "Data" \in h[C2S] => fromClient(n) >= 2 /\ n.stage = "ApplicationData"
       /\ n.stage \in Stages13
       /\ late \/ /\ fromClient(n) >= 1 => "Finished" \in h[C2S]
                  /\ fromClient(n) >= 2 => "Data" \in h[C2S]
                  /\ n.stage = "ClientFinished" => "Finished" \in h[C2S]
                  /\ n.stage = "ServerFinished" => "Finished" \in h[S2C]
                  /\ n.stage = "ApplicationData" => \A b \in Directions : "Finished" \in h[b]
  <2>1. CASE d = S2C
    <3>1. /\ fromServer(n) = f + 1 /\ fromClient(n) = k
          /\ \/ n.stage = "ApplicationData" /\ k >= 1
             \/ n.stage = "Certificate" /\ k < 1
             \/ n.stage = "ServerFinished" /\ k < 1 /\ f >= 2
      BY <1>9, <1>14, <1>16, <2>1 DEF ServerFlightStage, S2C
    <3>2. \A x : /\ x \in h[C2S] <=> x \in g[C2S]
                 /\ x \in h[S2C] <=> x \in g[S2C] \/ x = is
      BY <1>13, <2>1 DEF Adds
    <3> HIDE DEF f, k
    <3>3. /\ fromServer(n) >= 1 <=> "ServerFlight" \in h[S2C]
          /\ fromServer(n) >= 2 <=> "Finished" \in h[S2C]
      BY <1>1, <1>2, <1>13, <1>14, <1>15, <2>1, <3>1, <3>2
    <3>4. n.stage \in Stages13
      BY <3>1 DEF Stages13
    <3>5. /\ "Finished" \in h[C2S] => fromClient(n) >= 1
          /\ "Data" \in h[C2S] => fromClient(n) >= 2 /\ n.stage = "ApplicationData"
      BY <1>2, <1>14, <1>15, <3>1, <3>2
    <3>6. late \/ /\ fromClient(n) >= 1 => "Finished" \in h[C2S]
                  /\ fromClient(n) >= 2 => "Data" \in h[C2S]
                  /\ n.stage = "ClientFinished" => "Finished" \in h[C2S]
                  /\ n.stage = "ServerFinished" => "Finished" \in h[S2C]
                  /\ n.stage = "ApplicationData" => \A b \in Directions : "Finished" \in h[b]
      <4>1. \A b \in Directions : b \in {C2S, S2C}
        BY DEF C2S, S2C, Directions
      <4> QED
        BY <1>2, <1>15, <3>1, <3>2, <4>1
    <3> QED
      BY <3>3, <3>4, <3>5, <3>6
  <2>2. CASE d = C2S
    <3>1. \A x : /\ x \in h[S2C] <=> x \in g[S2C]
                 /\ x \in h[C2S] <=> x \in g[C2S] \/ x = is
      BY <1>13, <2>2 DEF Adds
    <3>2. \A b \in Directions : b \in {C2S, S2C}
      BY DEF C2S, S2C, Directions
    <3>3. CASE f = 0
      <4>1. fromServer(n) = f /\ fromClient(n) = k /\ n.stage = c.stage
        BY <1>11, <2>2, <3>3
      <4> HIDE DEF f, k
      <4>2. is = "EarlyData"
        BY <1>1, <1>2, <1>13, <1>15, <2>2, <3>3
      <4> QED
        BY <1>15, <3>1, <3>2, <4>1, <4>2
    <3>4. CASE f # 0
      <4>1. /\ fromServer(n) = f /\ fromClient(n) = k + 1
            /\ n.stage = IF k >= 1 THEN "ApplicationData" ELSE "ClientFinished"
        BY <1>10, <1>14, <1>16, <2>2, <3>4
      <4> HIDE DEF f, k
      <4>2. n.stage \in Stages13
        BY <4>1 DEF Stages13
      <4>3. /\ fromServer(n) >= 1 <=> "ServerFlight" \in h[S2C]
            /\ fromServer(n) >= 2 <=> "Finished" \in h[S2C]
        BY <1>15, <3>1, <4>1
      <4>4. /\ "Finished" \in h[C2S] => fromClient(n) >= 1
            /\ "Data" \in h[C2S] => fromClient(n) >= 2 /\ n.stage = "ApplicationData"
        BY <1>1, <1>2, <1>13, <1>14, <1>15, <2>2, <3>1, <4>1
      <4>5. late \/ /\ fromClient(n) >= 1 => "Finished" \in h[C2S]
                    /\ fromClient(n) >= 2 => "Data" \in h[C2S]
                    /\ n.stage = "ClientFinished" => "Finished" \in h[C2S]
                    /\ n.stage = "ServerFinished" => "Finished" \in h[S2C]
                    /\ n.stage = "ApplicationData" =>
                         \A b \in Directions : "Finished" \in h[b]
        <5>1. CASE is = "EarlyData"
          <6>1. late
            BY <1>14, <1>15, <3>4, <5>1
          <6> QED
            BY <6>1
        <5>2. CASE is = "Finished"
          <6>1. late \/ k = 0
            BY <1>2, <1>14, <1>15, <2>2, <5>2
          <6> QED
            BY <3>1, <4>1, <5>2, <6>1
        <5>3. CASE is = "Data"
          BY <1>2, <1>14, <1>15, <3>1, <3>2, <4>1, <5>3
        <5> QED
          BY <1>1, <2>2, <5>1, <5>2, <5>3
      <4> QED
        BY <4>2, <4>3, <4>4, <4>5
    <3> QED
      BY <3>3, <3>4
  <2> QED
    BY <2>1, <2>2 DEF C2S, S2C, Directions
<1>18. late \/ Exact13(n, h)
  BY <1>17 DEF Exact13, C2S, S2C
<1>19. Facts13(n, h, late, behind)
  BY <1>1, <1>3, <1>4, <1>5, <1>12, <1>13, <1>17, <1>18 DEF Facts13, C2S, S2C
<1>20. Facts(n, TRUE, h, late, behind)
  BY <1>3, <1>4, <1>12, <1>19 DEF Facts
<1> QED
  BY <1>20 DEF n

-----------------------------------------------------------------------------
(* What the log of such a connection shows.                                *)

\* The labels that records of such sessions are given.
LabelsOf(tls13, d) ==
  {"ChangeCipherSpec"} \cup
  IF d = C2S
  THEN {"ClientHello", "EncryptedFinishedClient"} \cup
       IF tls13 THEN {"EarlyData", "FinishedClient", "EncryptedApplicationData"}
       ELSE {"ClientKeyExchange", "ApplicationData"}
  ELSE {"ServerHello", "EncryptedTicketOrFinishedServer"} \cup
       IF tls13 THEN {"HelloRetryRequest", "EncryptedExtensions", "FinishedOnly",
                      "NewSessionTicket", "EncryptedFinishedServer", "EncryptedHandshake"}
       ELSE {"Certificate", "ServerKeyExchange", "ServerDone", "ApplicationData"}

\* A record of this type may be labelled l; what precedes the ServerHello of a
\* TLS 1.2 session is a ClientHello.
Fits(l, type, tls13, g, d) ==
  /\ l \in LabelsOf(tls13, d)
  /\ l = "ChangeCipherSpec" => type = "ChangeCipherSpec"
  /\ l = "ClientHello" \/ tls13 \/ "ServerHello" \in g[S2C]

LabelsFit(c, tls13, g) ==
  \A i \in 1..Len(c.records) :
    Fits(c.records[i].label, c.records[i].outer_type, tls13, g, c.records[i].direction)

Truthful(l, is, d, late) == is \in Tells(l) \/ (late /\ d = C2S)

\* The log against the first n records observed.
LogMatches(c, late, obs, n) ==
  /\ Len(c.records) <= n
  /\ c.stop_logging \/ Len(c.records) = n
  /\ \A i \in 1..Len(c.records) :
       /\ c.records[i].direction = obs[i].direction
       /\ Truthful(c.records[i].label, obs[i].is, obs[i].direction, late)

FinishedShown(c, obs, d) ==
  \E i \in 1..Len(c.records) :
    c.records[i].direction = d /\ obs[i] = [direction |-> d, is |-> "Finished"]

BothChanged(tls13, g) == tls13 /\ \A d \in Directions : "ChangeCipherSpec" \in g[d]

FinishedLogged(c, tls13, g, late, obs) ==
  \/ BothChanged(tls13, g)
  \/ late
  \/ \A d \in Directions : "Finished" \in g[d] => FinishedShown(c, obs, d)

LEMMA PushedLog ==
  ASSUME NEW c \in TrackedConnections, NEW r \in Records, NEW d \in Directions,
         r.type # "Other"
  PROVE  LET n == PushRecordEvent(c, r, d)
         IN  \/ n.records = c.records /\ (c.stop_logging \/ Len(c.records) >= RECORD_LOG_CAP)
             \/ /\ ~c.stop_logging
                /\ Len(n.records) = Len(c.records) + 1
                /\ \A i \in 1..Len(c.records) : n.records[i] = c.records[i]
                /\ n.records[Len(c.records) + 1] = RecordEvent(c, r, d)
<1> DEFINE e == RecordEvent(c, r, d)
           n == PushRecordEvent(c, r, d)
<1>1. c.records \in Seq(RecordEvents) /\ e \in RecordEvents
  BY PushedEventType DEF TrackedConnections
<1>2. /\ Len(Append(c.records, e)) = Len(c.records) + 1
      /\ \A i \in 1..Len(c.records) : Append(c.records, e)[i] = c.records[i]
      /\ Append(c.records, e)[Len(c.records) + 1] = e
  BY <1>1, AppendProperties
<1>3. CASE c.stop_logging \/ Len(c.records) >= RECORD_LOG_CAP
  BY <1>3 DEF PushRecordEvent
<1>4. CASE ~(c.stop_logging \/ Len(c.records) >= RECORD_LOG_CAP)
  <2>1. n.records = Append(c.records, e)
    BY <1>4 DEF PushRecordEvent, TrackedConnections
  <2> HIDE DEF n, e
  <2>2. /\ ~c.stop_logging
        /\ Len(n.records) = Len(c.records) + 1
        /\ \A i \in 1..Len(c.records) : n.records[i] = c.records[i]
        /\ n.records[Len(c.records) + 1] = e
    BY <1>2, <1>4, <2>1
  <2> QED
    BY <2>2 DEF n, e
<1> QED
  BY <1>3, <1>4

LEMMA LabelsFitPushed ==
  ASSUME NEW c \in TrackedConnections, NEW r \in Records, NEW d \in Directions,
         r.type # "Other", NEW tls13, NEW g, LabelsFit(c, tls13, g),
         Fits(BuildBody(c, r, d), r.type, tls13, g, d)
  PROVE  LabelsFit(PushRecordEvent(c, r, d), tls13, g)
<1> DEFINE n == PushRecordEvent(c, r, d)
           e == RecordEvent(c, r, d)
<1>1. \/ n.records = c.records
      \/ /\ Len(n.records) = Len(c.records) + 1
         /\ \A i \in 1..Len(c.records) : n.records[i] = c.records[i]
         /\ n.records[Len(c.records) + 1] = e
  BY PushedLog
<1>2. e.label = BuildBody(c, r, d) /\ e.outer_type = r.type /\ e.direction = d
  BY DEF RecordEvent
<1>3. PICK m \in Nat : m = Len(c.records)
  BY LenProperties DEF TrackedConnections
<1> HIDE DEF n, e
<1>4. CASE n.records = c.records
  BY <1>4 DEF LabelsFit, n
<1>5. CASE n.records # c.records
  <2> SUFFICES ASSUME NEW i \in 1..Len(n.records)
               PROVE  Fits(n.records[i].label, n.records[i].outer_type, tls13, g,
                           n.records[i].direction)
    BY DEF LabelsFit, n
  <2>1. i \in 1..m \/ i = m + 1
    BY <1>1, <1>3, <1>5
  <2> QED
    BY <1>1, <1>2, <1>3, <1>5, <2>1 DEF LabelsFit
<1> QED
  BY <1>4, <1>5

LEMMA LabelsFitKept ==
  ASSUME NEW c, NEW n, NEW tls13, NEW g, NEW h, LabelsFit(c, tls13, g),
         n.records = c.records, \A b \in Directions : g[b] \subseteq h[b]
  PROVE  LabelsFit(n, tls13, h)
  BY DEF LabelsFit, Fits, S2C, Directions

LEMMA LogMatchesKept ==
  ASSUME NEW c, NEW n, NEW late, NEW late2, NEW obs, NEW obs2, NEW k \in Nat,
         LogMatches(c, late, obs, k),
         n.records = c.records, c.stop_logging => n.stop_logging, late => late2,
         \A i \in 1..k : obs2[i] = obs[i], Len(c.records) \in Nat
  PROVE  LogMatches(n, late2, obs2, k)
<1>1. \A i \in 1..Len(c.records) : i \in 1..k
  BY DEF LogMatches
<1> QED
  BY <1>1 DEF LogMatches, Truthful

LEMMA FinishedLoggedLater ==
  ASSUME NEW c, NEW tls13, NEW g, NEW late, NEW late2, NEW obs, NEW obs2,
         NEW k \in Nat, FinishedLogged(c, tls13, g, late, obs), LogMatches(c, late, obs, k),
         late => late2, \A i \in 1..k : obs2[i] = obs[i], Len(c.records) \in Nat
  PROVE  FinishedLogged(c, tls13, g, late2, obs2)
<1>1. \A i \in 1..Len(c.records) : i \in 1..k
  BY DEF LogMatches
<1>2. \A b \in Directions : FinishedShown(c, obs, b) => FinishedShown(c, obs2, b)
  BY <1>1 DEF FinishedShown
<1> QED
  BY <1>2 DEF FinishedLogged

LEMMA FinishedLoggedGrown ==
  ASSUME NEW c, NEW n, NEW tls13, NEW g, NEW h, NEW late, NEW obs,
         FinishedLogged(c, tls13, g, late, obs), n.records = c.records,
         \A b \in Directions : g[b] \subseteq h[b],
         \A b \in Directions : "Finished" \in h[b] => "Finished" \in g[b]
  PROVE  FinishedLogged(n, tls13, h, late, obs)
<1>1. \A b \in Directions : FinishedShown(c, obs, b) => FinishedShown(n, obs, b)
  BY DEF FinishedShown
<1>2. BothChanged(tls13, g) => BothChanged(tls13, h)
  BY DEF BothChanged
<1> QED
  BY <1>1, <1>2 DEF FinishedLogged

LEMMA FinishedLoggedSame ==
  ASSUME NEW c, NEW n, NEW tls13, NEW g, NEW late, NEW obs,
         FinishedLogged(c, tls13, g, late, obs), n.records = c.records
  PROVE  FinishedLogged(n, tls13, g, late, obs)
  BY DEF FinishedLogged, FinishedShown

LEMMA LogMatchesPushed ==
  ASSUME NEW c \in TrackedConnections, NEW r \in Records, NEW d \in Directions,
         r.type # "Other", NEW late, NEW obs, NEW k \in Nat, NEW is,
         LogMatches(c, late, obs, k), k < RECORD_LOG_CAP,
         obs[k + 1] = [direction |-> d, is |-> is],
         c.stop_logging \/ Truthful(BuildBody(c, r, d), is, d, late)
  PROVE  LogMatches(PushRecordEvent(c, r, d), late, obs, k + 1)
<1> DEFINE n == PushRecordEvent(c, r, d)
           e == RecordEvent(c, r, d)
<1>1. \/ n.records = c.records /\ (c.stop_logging \/ Len(c.records) >= RECORD_LOG_CAP)
      \/ /\ ~c.stop_logging
         /\ Len(n.records) = Len(c.records) + 1
         /\ \A i \in 1..Len(c.records) : n.records[i] = c.records[i]
         /\ n.records[Len(c.records) + 1] = e
  BY PushedLog
<1>2. e.label = BuildBody(c, r, d) /\ e.direction = d
  BY DEF RecordEvent
<1>3. n.stop_logging = c.stop_logging
  BY PushShape
<1>4. PICK m \in Nat : m = Len(c.records)
  BY LenProperties DEF TrackedConnections
<1> HIDE DEF n, e
<1>5. m <= k /\ (c.stop_logging \/ m = k)
  BY <1>4 DEF LogMatches
<1>6. CASE c.stop_logging
  <2>1. n.records = c.records
    BY <1>1, <1>6
  <2>2. m <= k + 1
    BY <1>5
  <2> QED
    BY <1>3, <1>4, <1>6, <2>1, <2>2 DEF LogMatches, n
<1>7. CASE ~c.stop_logging
  <2>1. m = k /\ ~(m >= RECORD_LOG_CAP)
    BY <1>5, <1>7, TrackerAssumption
  <2>2. /\ Len(n.records) = k + 1
        /\ \A i \in 1..k : n.records[i] = c.records[i]
        /\ n.records[k + 1] = e
    BY <1>1, <1>4, <1>7, <2>1
  <2>3. \A i \in 1..(k + 1) : i \in 1..k \/ i = k + 1
    OBVIOUS
  <2>4. Truthful(e.label, is, d, late)
    BY <1>2, <1>7
  <2>5. \A i \in 1..Len(n.records) :
          /\ n.records[i].direction = obs[i].direction
          /\ Truthful(n.records[i].label, obs[i].is, obs[i].direction, late)
    <3> SUFFICES ASSUME NEW i \in 1..(k + 1)
                 PROVE  /\ n.records[i].direction = obs[i].direction
                        /\ Truthful(n.records[i].label, obs[i].is, obs[i].direction, late)
      BY <2>2
    <3>1. CASE i \in 1..k
      BY <1>4, <2>1, <2>2, <3>1 DEF LogMatches
    <3>2. CASE i = k + 1
      BY <1>2, <2>2, <2>4, <3>2
    <3> QED
      BY <2>3, <3>1, <3>2
  <2>6. Len(n.records) <= k + 1
    BY <2>2
  <2> QED
    BY <2>2, <2>5, <2>6 DEF LogMatches, n
<1> QED
  BY <1>6, <1>7

LEMMA FinishedLoggedPushed ==
  ASSUME NEW c \in TrackedConnections, NEW r \in Records, NEW d \in Directions,
         r.type # "Other", NEW late, NEW obs, NEW k \in Nat, NEW is,
         NEW tls13, NEW g, NEW h, Adds(h, g, d, is),
         LogMatches(c, late, obs, k), k < RECORD_LOG_CAP,
         obs[k + 1] = [direction |-> d, is |-> is],
         FinishedLogged(c, tls13, g, late, obs),
         is = "Finished" => late \/ BothChanged(tls13, g) \/ ~c.stop_logging
  PROVE  FinishedLogged(PushRecordEvent(c, r, d), tls13, h, late, obs)
<1> DEFINE n == PushRecordEvent(c, r, d)
           e == RecordEvent(c, r, d)
<1>1. \/ n.records = c.records /\ (c.stop_logging \/ Len(c.records) >= RECORD_LOG_CAP)
      \/ /\ ~c.stop_logging
         /\ Len(n.records) = Len(c.records) + 1
         /\ \A i \in 1..Len(c.records) : n.records[i] = c.records[i]
         /\ n.records[Len(c.records) + 1] = e
  BY PushedLog
<1>2. e.direction = d
  BY DEF RecordEvent
<1>3. PICK m \in Nat : m = Len(c.records)
  BY LenProperties DEF TrackedConnections
<1> HIDE DEF n, e
<1>4. m <= k /\ (c.stop_logging \/ m = k)
  BY <1>3 DEF LogMatches
<1>5. BothChanged(tls13, g) => BothChanged(tls13, h)
  BY DEF BothChanged, Adds
<1>6. \A b \in Directions : FinishedShown(c, obs, b) => FinishedShown(n, obs, b)
  <2> SUFFICES ASSUME NEW b \in Directions, NEW i \in 1..Len(c.records),
                      c.records[i].direction = b,
                      obs[i] = [direction |-> b, is |-> "Finished"]
               PROVE  FinishedShown(n, obs, b)
    BY DEF FinishedShown
  <2>1. i \in 1..Len(n.records) /\ n.records[i] = c.records[i]
    BY <1>1, <1>3
  <2> QED
    BY <2>1 DEF FinishedShown
<1>7. is = "Finished" /\ ~late /\ ~BothChanged(tls13, g) => FinishedShown(n, obs, d)
  <2> SUFFICES ASSUME is = "Finished", ~c.stop_logging PROVE FinishedShown(n, obs, d)
    OBVIOUS
  <2>1. m = k /\ ~(m >= RECORD_LOG_CAP)
    BY <1>4, TrackerAssumption
  <2>2. Len(n.records) = k + 1 /\ n.records[k + 1] = e
    BY <1>1, <1>3, <2>1
  <2>3. k + 1 \in 1..(k + 1)
    OBVIOUS
  <2> QED
    BY <1>2, <2>2, <2>3 DEF FinishedShown
<1>8. FinishedLogged(n, tls13, h, late, obs)
  BY <1>5, <1>6, <1>7 DEF FinishedLogged, Adds
<1> QED
  BY <1>8 DEF n

-----------------------------------------------------------------------------
(* The labels that the records of a session are given.                     *)

InClear == {"ClientHello", "ServerHello", "HelloRetryRequest", "Plaintext"}

\* The message in a record whose meaning is in InClear.
Carries(m, tls13, d, is) ==
  IF tls13
  THEN /\ m.version = "Tls13"
       /\ \/ is = "ClientHello" /\ m.kind = "ClientHello"
          \/ is \in {"ServerHello", "HelloRetryRequest"} /\ m.kind = "ServerHello"
  ELSE \/ is = "ClientHello" /\ m.kind = "ClientHello"
       \/ is = "ServerHello" /\ m.kind = "ServerHello" /\ m.version = "Tls12"
       \/ is = "Plaintext" /\ d = C2S /\ m.kind = "ClientKeyExchange"
       \/ is = "Plaintext" /\ d = S2C
          /\ m.kind \in {"Certificate", "ServerKeyExchange", "ServerDone"}

LEMMA LooksInClear ==
  ASSUME NEW w, NEW tls13 \in BOOLEAN, NEW d \in Directions, Looks(w, tls13, d),
         w.is \in May(tls13, d), w.is \in InClear
  PROVE  /\ w.rec.type = "Handshake"
         /\ \E m \in Messages : w.rec.msgs = <<m>> /\ Carries(m, tls13, d, w.is)
         /\ w.rec.decoded \in
              IF w.is # "Plaintext" THEN {w.is}
              ELSE IF d = C2S THEN {"ClientKeyExchange"}
              ELSE {"Certificate", "ServerKeyExchange", "ServerDone"}
<1> USE DEF C2S, S2C, Directions, Clear, Message, Messages, Versions, Carries
<1>1. CASE w.is = "ClientHello"
  BY <1>1 DEF Looks, ClientHelloWire
<1>2. CASE w.is = "ServerHello"
  BY <1>2 DEF Looks, ServerHelloWire
<1>3. CASE w.is = "HelloRetryRequest"
  BY <1>3 DEF Looks, RetryWire, May
<1>4. CASE w.is = "Plaintext"
  BY <1>4 DEF Looks, PlaintextWire, May
<1> QED
  BY <1>1, <1>2, <1>3, <1>4 DEF InClear

LEMMA LooksOpaque ==
  ASSUME NEW w, NEW tls13 \in BOOLEAN, NEW d \in Directions, Looks(w, tls13, d),
         w.is \in Meanings \ InClear
  PROVE  /\ w.is = "ChangeCipherSpec" => w.rec.type = "ChangeCipherSpec"
         /\ w.is = "Finished" /\ ~tls13 => w.rec.type = "Handshake"
         /\ w.is # "ChangeCipherSpec" /\ ~(w.is = "Finished" /\ ~tls13) =>
              w.rec.type = "ApplicationData"
<1> USE DEF Opaque, InClear
<1>1. CASE w.is = "ChangeCipherSpec"
  BY <1>1 DEF Looks, CcsWire
<1>2. CASE w.is = "Finished" /\ ~tls13
  BY <1>2 DEF Looks, EncryptedHandshakeWire
<1>3. CASE w.is # "ChangeCipherSpec" /\ ~(w.is = "Finished" /\ ~tls13)
  <2>1. w = EncryptedWire(w.is, w.after)
    BY <1>3 DEF Looks
  <2>2. w.rec.type = "ApplicationData"
    BY <2>1 DEF EncryptedWire
  <2> QED
    BY <1>3, <2>2
<1> QED
  BY <1>1, <1>2, <1>3

\* A record in clear is shown as what it is.
LEMMA ClearLabel ==
  ASSUME NEW c, NEW w, NEW tls13 \in BOOLEAN, NEW d \in Directions, Looks(w, tls13, d),
         w.is \in InClear, NEW g, NEW h, Adds(h, g, d, w.is), ~c.ccs_seen[d],
         Legal(tls13, g, d, w.is), Grounded(tls13, g), NEW late
  PROVE  /\ Fits(BuildBody(c, w.rec, d), w.rec.type, tls13, h, d)
         /\ Truthful(BuildBody(c, w.rec, d), w.is, d, late)
<1>1. w.is \in May(tls13, d)
  BY DEF Legal
<1>2. /\ w.rec.type = "Handshake"
      /\ w.rec.decoded \in
           IF w.is # "Plaintext" THEN {w.is}
           ELSE IF d = C2S THEN {"ClientKeyExchange"}
           ELSE {"Certificate", "ServerKeyExchange", "ServerDone"}
  BY <1>1, LooksInClear
<1>3. BuildBody(c, w.rec, d) = w.rec.decoded
  BY <1>2 DEF BuildBody
<1>4. w.rec.decoded = "ClientHello" \/ tls13 \/ "ServerHello" \in h[S2C]
  <2>1. CASE tls13
    BY <2>1
  <2>2. CASE ~tls13
    <3>1. Legal(FALSE, g, d, w.is) /\ Grounded(FALSE, g)
      BY <2>2
    <3>2. /\ w.is = "ServerHello" => d = S2C
          /\ w.is \notin {"ClientHello", "ServerHello"} => "ServerHello" \in g[S2C]
      BY <3>1, Legal12
    <3>3. S2C \in Directions
      BY DEF S2C, Directions
    <3> QED
      BY <1>2, <3>2, <3>3 DEF Adds
  <2> QED
    BY <2>1, <2>2
<1>5. w.rec.decoded \in LabelsOf(tls13, d) /\ w.rec.decoded # "ChangeCipherSpec"
  BY <1>1, <1>2 DEF LabelsOf, May, InClear, C2S, Directions
<1>6. w.is \in Tells(w.rec.decoded)
  BY <1>2 DEF Tells, Decoded, InClear
<1> QED
  BY <1>3, <1>4, <1>5, <1>6 DEF Fits, Truthful

\* In TLS 1.2 only the Finished follows the ChangeCipherSpec among the
\* handshake records, and nothing has been counted before it.
LEMMA PostCcsLabel12 ==
  ASSUME NEW c \in TrackedConnections, NEW w, NEW d \in Directions, w.is = "Finished",
         Looks(w, FALSE, d), NEW g, NEW h, Adds(h, g, d, w.is), c.ccs_seen[d],
         Legal(FALSE, g, d, w.is), Grounded(FALSE, g), NEW late, NEW behind,
         Facts(c, FALSE, g, late, behind)
  PROVE  /\ Fits(BuildBody(c, w.rec, d), w.rec.type, FALSE, h, d)
         /\ Truthful(BuildBody(c, w.rec, d), w.is, d, late)
<1>1. "ServerHello" \in g[S2C] /\ "Finished" \notin g[d]
  BY Legal12
<1>2. w.rec.type = "Handshake"
  BY LooksOpaque DEF Meanings, InClear
<1>3. c.post_ccs_records_from[d] = 0
  <2>1. c.post_ccs_records_from[d] \in Nat
    BY DEF TrackedConnections
  <2> QED
    BY <1>1, <2>1 DEF Facts, Facts12
<1>4. BuildBody(c, w.rec, d) =
        IF d = C2S THEN "EncryptedFinishedClient" ELSE "EncryptedTicketOrFinishedServer"
  BY <1>2, <1>3 DEF BuildBody, PostCcsHandshakeLabel, C2S, Directions
<1>5. "ServerHello" \in h[S2C]
  BY <1>1 DEF Adds, S2C, Directions
<1>6. BuildBody(c, w.rec, d) \in LabelsOf(FALSE, d)
      /\ BuildBody(c, w.rec, d) # "ChangeCipherSpec"
  BY <1>4 DEF LabelsOf, C2S
<1>7. w.is \in Tells(BuildBody(c, w.rec, d))
  BY <1>4 DEF Tells, Decoded
<1> QED
  BY <1>5, <1>6, <1>7 DEF Fits, Truthful

LEMMA PostCcsLabel13 ==
  ASSUME NEW c \in TrackedConnections, NEW w, NEW d \in Directions, w.is \in InClear,
         Looks(w, TRUE, d), NEW g, NEW h, c.ccs_seen[d], Legal(TRUE, g, d, w.is),
         d = C2S => c.post_ccs_records_from[d] = 0
  PROVE  Fits(BuildBody(c, w.rec, d), w.rec.type, TRUE, h, d)
<1>1. w.rec.type = "Handshake"
  BY LooksInClear DEF Legal
<1>2. BuildBody(c, w.rec, d) = PostCcsHandshakeLabel(c, d)
  BY <1>1 DEF BuildBody
<1>3. CASE d = C2S
  <2>1. PostCcsHandshakeLabel(c, d) = "EncryptedFinishedClient"
    BY <1>3 DEF PostCcsHandshakeLabel, C2S
  <2> QED
    BY <1>2, <1>3, <2>1 DEF Fits, LabelsOf
<1>4. CASE d # C2S
  <2>1. PostCcsHandshakeLabel(c, d) \in {"EncryptedTicketOrFinishedServer",
                                         "EncryptedFinishedServer", "EncryptedHandshake"}
    BY <1>4 DEF PostCcsHandshakeLabel, C2S, Directions
  <2> QED
    BY <1>2, <1>4, <2>1 DEF Fits, LabelsOf
<1> QED
  BY <1>3, <1>4

LEMMA CcsLabel ==
  ASSUME NEW c, NEW w, NEW tls13 \in BOOLEAN, NEW d \in Directions, Looks(w, tls13, d),
         w.is = "ChangeCipherSpec", NEW g, NEW h, Adds(h, g, d, w.is),
         Legal(tls13, g, d, w.is), Grounded(tls13, g), NEW late
  PROVE  /\ Fits(BuildBody(c, w.rec, d), w.rec.type, tls13, h, d)
         /\ Truthful(BuildBody(c, w.rec, d), w.is, d, late)
<1>1. w.rec.type = "ChangeCipherSpec"
  BY LooksOpaque DEF Meanings, InClear
<1>2. BuildBody(c, w.rec, d) = "ChangeCipherSpec"
  BY <1>1 DEF BuildBody
<1>3. tls13 \/ "ServerHello" \in h[S2C]
  <2> SUFFICES ASSUME ~tls13 PROVE "ServerHello" \in h[S2C]
    OBVIOUS
  <2>1. Legal(FALSE, g, d, w.is) /\ Grounded(FALSE, g)
    OBVIOUS
  <2>2. w.is \notin {"ClientHello", "ServerHello"} => "ServerHello" \in g[S2C]
    BY <2>1, Legal12
  <2> QED
    BY <2>2 DEF Adds, S2C, Directions
<1>4. w.is \in Tells("ChangeCipherSpec")
  BY DEF Tells, Decoded
<1> QED
  BY <1>1, <1>2, <1>3, <1>4 DEF Fits, Truthful, LabelsOf

\* An encrypted record is labelled by the counters as it leaves them.
LEMMA DataLabel12 ==
  ASSUME NEW c \in TrackedConnections, NEW w, NEW d \in Directions, w.is = "Data",
         Looks(w, FALSE, d), NEW g, NEW h, Adds(h, g, d, w.is),
         Legal(FALSE, g, d, w.is), Grounded(FALSE, g), NEW late, NEW behind,
         Facts(c, FALSE, h, late, behind)
  PROVE  /\ Fits(BuildBody(c, w.rec, d), w.rec.type, FALSE, h, d)
         /\ Truthful(BuildBody(c, w.rec, d), w.is, d, late)
<1>1. "ServerHello" \in g[S2C]
  BY Legal12
<1>2. "ServerHello" \in h[S2C]
  BY <1>1 DEF Adds, S2C, Directions
<1>3. w.rec.type = "ApplicationData"
  BY LooksOpaque DEF Meanings, InClear
<1>4. c.tls_version = "Tls12"
  BY <1>2 DEF Facts, Facts12
<1>5. BuildBody(c, w.rec, d) = "ApplicationData"
  BY <1>3, <1>4 DEF BuildBody, EncryptedFlightLabel
<1>6. w.is \in Tells("ApplicationData")
  BY DEF Tells, Decoded
<1> QED
  BY <1>2, <1>5, <1>6 DEF Fits, Truthful, LabelsOf

LEMMA ClientCounted ==
  ASSUME NEW c \in TrackedConnections, c.tls_version # "Tls12",
         c.encrypted_records_from["ServerToClient"] # 0
  PROVE  LET s == Encrypted(c, "ClientToServer")
             fromServer(x) == x.encrypted_records_from["ServerToClient"]
             fromClient(x) == x.encrypted_records_from["ClientToServer"]
         IN  fromServer(s) = fromServer(c) /\ fromClient(s) = fromClient(c) + 1
<1>1. PICK d \in Directions : d = "ClientToServer"
  BY DEF Directions
<1> DEFINE s == Encrypted(c, d)
           fromServer(x) == x.encrypted_records_from["ServerToClient"]
           fromClient(x) == x.encrypted_records_from["ClientToServer"]
<1>2. /\ fromServer(s) = fromServer(c) /\ fromClient(s) = fromClient(c) + 1
      /\ s.stage = IF c.saw_client_finished_marker
                   THEN "ApplicationData" ELSE "ClientFinished"
  BY <1>1, EncryptedShape, ZenonT(40)
<1> QED
  BY <1>1, <1>2

LEMMA DataLabel13 ==
  ASSUME NEW c \in TrackedConnections, FinishAgrees(c), NEW w, NEW d \in Directions,
         w.is \in {"EarlyData", "ServerFlight", "Finished", "Ticket", "Data"},
         Looks(w, TRUE, d), NEW g, NEW h, Adds(h, g, d, w.is),
         Legal(TRUE, g, d, w.is), Grounded(TRUE, g), NEW late, NEW behind,
         Facts(c, TRUE, g, late, behind),
         w.is = "EarlyData" /\ "ServerFlight" \in g[S2C] => late
  PROVE  LET n == Encrypted(c, d)
         IN  /\ Fits(BuildBody(n, w.rec, d), w.rec.type, TRUE, h, d)
             /\ n.stop_logging \/ Truthful(BuildBody(n, w.rec, d), w.is, d, late)
<1> DEFINE n == Encrypted(c, d)
           l == BuildBody(n, w.rec, d)
           fromServer(x) == x.encrypted_records_from["ServerToClient"]
           fromClient(x) == x.encrypted_records_from["ClientToServer"]
<1>0. d = C2S /\ fromServer(c) # 0 /\ c.tls_version # "Tls12" =>
        fromServer(n) = fromServer(c) /\ fromClient(n) = fromClient(c) + 1
  BY ClientCounted DEF C2S
<1>1. w.rec.type = "ApplicationData"
  BY LooksOpaque DEF Meanings, InClear
<1>2. w.is \in IF d = C2S THEN {"EarlyData", "Finished", "Data"}
               ELSE {"ServerFlight", "Finished", "Ticket", "Data"}
  BY Legal13
<1>3. /\ "Finished" \in g[d] => w.is \in {"Ticket", "Data"}
      /\ "ServerFlight" \in g[d] => w.is \in {"Finished", "Ticket", "Data"}
      /\ w.is = "Finished" => "ServerFlight" \in g[S2C]
      /\ w.is = "Ticket" => "Finished" \in g[S2C]
      /\ w.is = "Data" => \A b \in Directions : "Finished" \in g[b]
      /\ w.is = "Data" /\ d = S2C => "Data" \in g[C2S]
      /\ "Finished" \in g[S2C] => "ServerFlight" \in g[S2C]
  BY Legal13
<1>4. PICK f \in Nat : f = fromServer(c)
  BY DEF TrackedConnections, Directions
<1>5. PICK k \in Nat : k = fromClient(c)
  BY DEF TrackedConnections, Directions
<1>6. /\ f >= 1 <=> "ServerFlight" \in g[S2C]
      /\ f >= 2 <=> "Finished" \in g[S2C]
      /\ "Finished" \in g[C2S] => k >= 1
      /\ "Data" \in g[C2S] => k >= 2
      /\ late \/ (k >= 1 => "Finished" \in g[C2S])
      /\ c.tls_version # "Tls12"
  BY <1>4, <1>5 DEF Facts, Facts13, Exact13, C2S, S2C
<1>7. k >= 2 => c.stop_logging
  BY <1>5 DEF FinishAgrees
<1>8. n.tls_version = c.tls_version
  BY EncryptedShape
<1>9. n.stop_logging <=> c.stop_logging \/ fromClient(n) >= 2 \/ BothCcsSeen(c)
  BY EncryptedShape
<1>10. l = EncryptedFlightLabel(n, d)
  BY <1>1 DEF BuildBody
<1>11. C2S \in Directions /\ S2C \in Directions /\ C2S # S2C
       /\ \A b \in Directions : b = C2S \/ b = S2C
  BY DEF C2S, S2C, Directions
<1>12. CASE d = S2C
  <2>1. fromServer(n) = f + 1
    BY <1>4, <1>6, <1>12, EncryptedShape DEF S2C
  <2>2. \/ f = 0 /\ l = "EncryptedExtensions"
        \/ f = 1 /\ l = "FinishedOnly"
        \/ f >= 2 /\ l = "NewSessionTicket"
    BY <1>6, <1>8, <1>10, <1>12, <2>1 DEF EncryptedFlightLabel, S2C
  <2> HIDE DEF n, l
  <2>3. Fits(l, w.rec.type, TRUE, h, d)
    BY <1>11, <1>12, <2>2 DEF Fits, LabelsOf
  <2>4. n.stop_logging \/ Truthful(l, w.is, d, late)
    <3>1. CASE w.is = "ServerFlight"
      <4>1. f = 0
        BY <1>3, <1>6, <1>12, <3>1
      <4>2. l = "EncryptedExtensions"
        BY <2>2, <4>1
      <4> QED
        BY <3>1, <4>2 DEF Truthful, Tells, Decoded
    <3>2. CASE w.is = "Finished"
      <4>1. f = 1
        BY <1>3, <1>6, <1>12, <3>2
      <4>2. l = "FinishedOnly"
        BY <2>2, <4>1
      <4> QED
        BY <3>2, <4>2 DEF Truthful, Tells, Decoded
    <3>3. CASE w.is = "Ticket"
      <4>1. f >= 2
        BY <1>3, <1>6, <3>3
      <4>2. l = "NewSessionTicket"
        BY <2>2, <4>1
      <4> QED
        BY <3>3, <4>2 DEF Truthful, Tells, Decoded
    <3>4. CASE w.is = "Data"
      BY <1>3, <1>6, <1>7, <1>9, <1>12, <3>4
    <3> QED
      BY <1>2, <1>11, <1>12, <3>1, <3>2, <3>3, <3>4
  <2> QED
    BY <2>3, <2>4 DEF n, l
<1>13. CASE d = C2S
  <2>1. l \in {"EarlyData", "FinishedClient", "EncryptedApplicationData"}
    BY <1>6, <1>8, <1>10, <1>13 DEF EncryptedFlightLabel, C2S
  <2>2. Fits(l, w.rec.type, TRUE, h, d)
    BY <1>13, <2>1 DEF Fits, LabelsOf
  <2>3. n.stop_logging \/ Truthful(l, w.is, d, late)
    <3>1. CASE f = 0
      <4>1. fromServer(n) = 0
        <5>1. ~(fromServer(c) > 0)
          BY <1>4, <3>1
        <5> QED
          BY <1>4, <1>6, <1>13, <3>1, <5>1, EncryptedShape DEF C2S
      <4>2. l = "EarlyData"
        BY <1>6, <1>8, <1>10, <1>13, <4>1 DEF EncryptedFlightLabel, C2S
      <4>3. w.is = "EarlyData"
        BY <1>2, <1>3, <1>6, <1>11, <1>13, <3>1
      <4> HIDE DEF l, n
      <4>4. w.is \in Tells(l)
        BY <4>2, <4>3 DEF Tells, Decoded
      <4> QED
        BY <4>4 DEF Truthful
    <3>2. CASE f # 0
      <4>0. fromServer(c) > 0 /\ d = "ClientToServer"
        BY <1>4, <1>13, <3>2 DEF C2S
      <4>1. fromServer(n) = f /\ fromClient(n) = k + 1
        <5>1. fromServer(n) = fromServer(c) /\ fromClient(n) = fromClient(c) + 1
          BY <1>0, <1>4, <1>6, <1>13, <3>2
        <5> QED
          BY <1>4, <1>5, <5>1
      <4>2. CASE w.is = "EarlyData"
        <5>1. late
          BY <1>6, <3>2, <4>2
        <5> HIDE DEF l, n
        <5> QED
          BY <1>13, <5>1 DEF Truthful
      <4>3. CASE w.is = "Finished"
        <5>1. late \/ k = 0
          BY <1>3, <1>6, <1>13, <4>3
        <5>2. k = 0 => l = "FinishedClient"
          <6> SUFFICES ASSUME k = 0 PROVE l = "FinishedClient"
            OBVIOUS
          <6>1. fromServer(n) # 0 /\ fromClient(n) = 1
            BY <3>2, <4>1
          <6> QED
            BY <1>6, <1>8, <1>10, <1>13, <6>1 DEF EncryptedFlightLabel, C2S
        <5> HIDE DEF l, n
        <5>3. CASE late
          BY <1>13, <5>3 DEF Truthful
        <5>4. CASE ~late
          <6>1. l = "FinishedClient"
            BY <5>1, <5>2, <5>4
          <6> QED
            BY <4>3, <6>1 DEF Truthful, Tells, Decoded
        <5> QED
          BY <5>3, <5>4
      <4>4. CASE w.is = "Data"
        <5>1. k >= 1
          BY <1>3, <1>6, <1>11, <4>4
        <5>2. fromClient(n) >= 2
          BY <4>1, <5>1
        <5> QED
          BY <1>9, <5>2
      <4> QED
        BY <1>2, <1>13, <4>2, <4>3, <4>4
    <3> QED
      BY <3>1, <3>2
  <2> QED
    BY <2>2, <2>3
<1> QED
  BY <1>11, <1>12, <1>13

-----------------------------------------------------------------------------
(* One record, as a whole.                                                 *)

\* The record w comes next in direction d: g was sent before it, h with it.
\* `behind' and `behind2' say of g and h that a ClientHello came behind a
\* ChangeCipherSpec.
Comes(w, tls13, g, h, d, behind, behind2) ==
  /\ w \in Wires /\ Looks(w, tls13, d)
  /\ Legal(tls13, g, d, w.is) /\ Grounded(tls13, g) /\ Adds(h, g, d, w.is)
  /\ ~tls13 => OneFinishesFirst(g)
  /\ behind => behind2
  /\ w.is = "ClientHello" => ~behind /\ ("ChangeCipherSpec" \in g[d] => behind2)

Knows(c, tls13, g, late, behind) ==
  Facts(c, tls13, g, late, behind) /\ LabelsFit(c, tls13, g)

Logs(c, tls13, g, late, obs, k) ==
  LogMatches(c, late, obs, k) /\ FinishedLogged(c, tls13, g, late, obs)

Hellos == {"ClientHello", "ServerHello", "HelloRetryRequest"}

\* What a record is, from what the tracker goes by.
LEMMA RecordKinds ==
  ASSUME NEW w, NEW tls13 \in BOOLEAN, NEW g, NEW h, NEW d \in Directions,
         NEW behind, NEW behind2, Comes(w, tls13, g, h, d, behind, behind2)
  PROVE  /\ w.rec \in Records /\ w.rec.type # "Other"
         /\ w.rec.type = "Handshake" /\ "ChangeCipherSpec" \notin g[d] => w.is \in InClear
         /\ w.rec.type = "Handshake" /\ "ChangeCipherSpec" \in g[d] =>
              IF tls13 THEN w.is \in Hellos ELSE w.is = "Finished"
         /\ w.rec.type = "ChangeCipherSpec" => w.is = "ChangeCipherSpec"
         /\ w.rec.type = "ApplicationData" =>
              IF tls13 THEN w.is \in {"EarlyData", "ServerFlight", "Finished", "Ticket", "Data"}
              ELSE w.is = "Data"
<1>1. w.rec \in Records /\ w.is \in Meanings /\ w.is \in May(tls13, d) /\ Looks(w, tls13, d)
  BY DEF Comes, Wires, Legal
<1>2. w.is \in InClear => w.rec.type = "Handshake"
  BY <1>1, LooksInClear
<1>3. w.is \notin InClear =>
        /\ w.is = "ChangeCipherSpec" => w.rec.type = "ChangeCipherSpec"
        /\ w.is = "Finished" /\ ~tls13 => w.rec.type = "Handshake"
        /\ w.is # "ChangeCipherSpec" /\ ~(w.is = "Finished" /\ ~tls13) =>
             w.rec.type = "ApplicationData"
  BY <1>1, LooksOpaque
<1>4. CASE tls13
  <2>1. w.is \in {"ClientHello", "ServerHello", "HelloRetryRequest", "ChangeCipherSpec",
                  "EarlyData", "ServerFlight", "Finished", "Ticket", "Data"}
    BY <1>1, <1>4 DEF May
  <2> QED
    BY <1>1, <1>2, <1>3, <1>4, <2>1 DEF InClear, Hellos
<1>5. CASE ~tls13
  <2>1. Legal(FALSE, g, d, w.is) /\ Grounded(FALSE, g)
    BY <1>5 DEF Comes
  <2>2. /\ w.is \in {"ClientHello", "ServerHello", "Plaintext", "ChangeCipherSpec",
                     "Finished", "Data"}
        /\ w.is \notin {"Finished", "Data"} => "ChangeCipherSpec" \notin g[d]
        /\ w.is = "Finished" => "ChangeCipherSpec" \in g[d]
    BY <2>1, Legal12
  <2> QED
    BY <1>1, <1>2, <1>3, <1>5, <2>2 DEF InClear, Hellos
<1> QED
  BY <1>4, <1>5

LEMMA AddsMore ==
  ASSUME NEW g, NEW h, NEW d, NEW is, Adds(h, g, d, is)
  PROVE  \A b \in Directions : g[b] \subseteq h[b]
  BY DEF Adds

\* The message of a record in clear is applied.
LEMMA MessageKnown ==
  ASSUME NEW c \in TrackedConnections, NEW w, NEW tls13 \in BOOLEAN, NEW g, NEW h,
         NEW d \in Directions, NEW late, NEW behind, NEW behind2,
         Comes(w, tls13, g, h, d, behind, behind2), Knows(c, tls13, g, late, behind),
         w.rec.type = "Handshake", ~c.ccs_seen[d]
  PROVE  /\ w.is \in InClear
         /\ \E m \in Messages :
              w.rec.msgs = <<m>> /\ Knows(ApplyHandshakeMessage(c, m, d), tls13, h, late, behind2)
<1>1. "ChangeCipherSpec" \notin g[d]
  BY DEF Knows, Facts
<1>2. w.is \in InClear
  BY <1>1, RecordKinds
<1>3. PICK m \in Messages : w.rec.msgs = <<m>> /\ Carries(m, tls13, d, w.is)
  BY <1>2, LooksInClear DEF Comes, Legal
<1> DEFINE n == ApplyHandshakeMessage(c, m, d)
<1>4. Facts(c, tls13, g, late, behind2)
  BY FactsWeakened DEF Comes, Knows
<1>5. Facts(n, tls13, h, late, behind2)
  <2>1. Adds(h, g, d, w.is)
    BY DEF Comes
  <2>2. CASE tls13
    <3>1. /\ Facts(c, TRUE, g, late, behind2) /\ Legal(TRUE, g, d, w.is)
          /\ Grounded(TRUE, g) /\ Carries(m, TRUE, d, w.is)
      BY <1>3, <1>4, <2>2 DEF Comes
    <3>2. /\ m.version = "Tls13"
          /\ \/ w.is = "ClientHello" /\ m.kind = "ClientHello"
             \/ w.is \in {"ServerHello", "HelloRetryRequest"} /\ m.kind = "ServerHello"
      BY <3>1 DEF Carries
    <3>3. Facts(n, TRUE, h, late, behind2)
      BY <2>1, <3>1, <3>2, MessageFacts13
    <3> HIDE DEF n
    <3> QED
      BY <2>2, <3>3
  <2>3. CASE ~tls13
    <3>1. /\ Facts(c, FALSE, g, late, behind2) /\ Legal(FALSE, g, d, w.is)
          /\ Grounded(FALSE, g) /\ Carries(m, FALSE, d, w.is)
      BY <1>3, <1>4, <2>3 DEF Comes
    <3>2. \/ w.is = "ClientHello" /\ m.kind = "ClientHello"
          \/ w.is = "ServerHello" /\ m.kind = "ServerHello" /\ m.version = "Tls12"
          \/ w.is = "Plaintext" /\ d = C2S /\ m.kind = "ClientKeyExchange"
          \/ w.is = "Plaintext" /\ d = S2C
             /\ m.kind \in {"Certificate", "ServerKeyExchange", "ServerDone"}
      BY <3>1 DEF Carries
    <3>3. Facts(n, FALSE, h, late, behind2)
      BY <2>1, <3>1, <3>2, MessageFacts12
    <3> HIDE DEF n
    <3> QED
      BY <2>3, <3>3
  <2> QED
    BY <2>2, <2>3
<1>6. n.records = c.records
  BY MessageKeeps
<1>7. LabelsFit(n, tls13, h)
  <2> HIDE DEF n
  <2>1. \A b \in Directions : g[b] \subseteq h[b]
    BY AddsMore DEF Comes
  <2> QED
    BY <1>6, <2>1, LabelsFitKept DEF Knows
<1> QED
  BY <1>2, <1>3, <1>5, <1>7 DEF Knows

\* The record itself is logged.
LEMMA ClearLogged ==
  ASSUME NEW c \in TrackedConnections, NEW w, NEW tls13 \in BOOLEAN, NEW g, NEW h,
         NEW d \in Directions, NEW late, NEW behind, NEW behind2,
         Comes(w, tls13, g, h, d, behind, behind2), Knows(c, tls13, h, late, behind2),
         w.is \in InClear, ~c.ccs_seen[d], NEW obs, NEW k \in Nat,
         obs[k + 1] = [direction |-> d, is |-> w.is]
  PROVE  LET n == PushRecordEvent(c, w.rec, d)
         IN  /\ Knows(n, tls13, h, late, behind2)
             /\ k < RECORD_LOG_CAP /\ Logs(c, tls13, h, late, obs, k) =>
                  Logs(n, tls13, h, late, obs, k + 1)
<1> DEFINE n == PushRecordEvent(c, w.rec, d)
<1>1. w.rec \in Records /\ w.rec.type # "Other"
  BY RecordKinds
<1>2. /\ Fits(BuildBody(c, w.rec, d), w.rec.type, tls13, h, d)
      /\ Truthful(BuildBody(c, w.rec, d), w.is, d, late)
  BY ClearLabel DEF Comes
<1>3. Facts(n, tls13, h, late, behind2)
  BY <1>1, PushKeepsFacts DEF Knows
<1>4. LabelsFit(n, tls13, h)
  BY <1>1, <1>2, LabelsFitPushed DEF Knows
<1>5. ASSUME k < RECORD_LOG_CAP, Logs(c, tls13, h, late, obs, k)
      PROVE  Logs(n, tls13, h, late, obs, k + 1)
  <2>1. LogMatches(n, late, obs, k + 1)
    BY <1>1, <1>2, <1>5, LogMatchesPushed DEF Logs
  <2>2. Adds(h, h, d, w.is)
    BY DEF Comes, Adds
  <2>3. w.is # "Finished"
    BY DEF InClear
  <2>4. FinishedLogged(n, tls13, h, late, obs)
    BY <1>1, <1>5, <2>2, <2>3, FinishedLoggedPushed DEF Logs
  <2> QED
    BY <2>1, <2>4 DEF Logs
<1> QED
  BY <1>3, <1>4, <1>5 DEF Knows

\* A handshake record behind a ChangeCipherSpec.
LEMMA PostCcsKnown ==
  ASSUME NEW c \in TrackedConnections, NEW w, NEW tls13 \in BOOLEAN, NEW g, NEW h,
         NEW d \in Directions, NEW late, NEW behind, NEW behind2,
         Comes(w, tls13, g, h, d, behind, behind2), Knows(c, tls13, g, late, behind),
         w.rec.type = "Handshake", c.ccs_seen[d], NEW obs, NEW k \in Nat,
         obs[k + 1] = [direction |-> d, is |-> w.is]
  PROVE  LET n == AfterPostCcsHandshake(c, w.rec, d)
         IN  /\ Knows(n, tls13, h, late, behind2)
             /\ w.is \notin Hellos /\ k < RECORD_LOG_CAP /\ Logs(c, tls13, g, late, obs, k) =>
                  Logs(n, tls13, h, late, obs, k + 1)
<1> DEFINE n == AfterPostCcsHandshake(c, w.rec, d)
           p == PushRecordEvent(c, w.rec, d)
<1>1. w.rec \in Records /\ w.rec.type # "Other"
  BY RecordKinds
<1>2. "ChangeCipherSpec" \in g[d]
  BY DEF Knows, Facts
<1>3. IF tls13 THEN w.is \in Hellos ELSE w.is = "Finished"
  BY <1>2, RecordKinds
<1>4. Adds(h, g, d, w.is)
  BY DEF Comes
<1>5. Facts(c, tls13, g, late, behind2)
  BY FactsWeakened DEF Comes, Knows
<1>6. Facts(n, tls13, h, late, behind2) /\ Fits(BuildBody(c, w.rec, d), w.rec.type, tls13, h, d)
  <2>1. CASE tls13
    <3>1. /\ Facts(c, TRUE, g, late, behind2) /\ Legal(TRUE, g, d, w.is) /\ Grounded(TRUE, g)
          /\ Facts(c, TRUE, g, late, behind) /\ Looks(w, TRUE, d)
          /\ w.is = "ClientHello" => ~behind /\ behind2
      BY <1>2, <1>5, <2>1 DEF Comes, Knows
    <3>2. w.is \in {"ClientHello", "ServerHello", "HelloRetryRequest"} /\ w.is \in InClear
      BY <1>3, <2>1 DEF Hellos, InClear
    <3>3. Facts(n, TRUE, h, late, behind2)
      BY <1>1, <1>4, <3>1, <3>2, PostCcsFacts13
    <3>4. d = C2S => c.post_ccs_records_from[d] = 0
      <4>1. w.is \in IF d = C2S THEN {"ClientHello", "ChangeCipherSpec", "EarlyData",
                                      "Finished", "Data"}
                     ELSE {"ServerHello", "HelloRetryRequest", "ChangeCipherSpec",
                           "ServerFlight", "Finished", "Ticket", "Data"}
        BY <3>1, Legal13
      <4>2. d = C2S => ~behind
        BY <3>1, <3>2, <4>1
      <4>3. c.post_ccs_records_from[d] \in Nat
        BY DEF TrackedConnections
      <4> QED
        BY <3>1, <4>2, <4>3 DEF Facts, Facts13
    <3>5. Fits(BuildBody(c, w.rec, d), w.rec.type, TRUE, h, d)
      BY <3>1, <3>2, <3>4, PostCcsLabel13
    <3> HIDE DEF n
    <3> QED
      BY <2>1, <3>3, <3>5
  <2>2. CASE ~tls13
    <3>1. PICK is : is = "Finished"
      OBVIOUS
    <3>2. /\ Facts(c, FALSE, g, late, behind2) /\ Legal(FALSE, g, d, is) /\ Grounded(FALSE, g)
          /\ OneFinishesFirst(g) /\ Looks(w, FALSE, d) /\ w.is = is /\ Adds(h, g, d, is)
      BY <1>3, <1>4, <1>5, <2>2, <3>1 DEF Comes
    <3>3. Facts(n, FALSE, h, late, behind2)
      BY <1>1, <3>1, <3>2, PostCcsFacts12
    <3>4. Fits(BuildBody(c, w.rec, d), w.rec.type, FALSE, h, d)
      BY <3>1, <3>2, PostCcsLabel12
    <3> HIDE DEF n
    <3> QED
      BY <2>2, <3>3, <3>4
  <2> QED
    BY <2>1, <2>2
<1>7. n.records = p.records /\ (c.stop_logging => n.stop_logging)
  BY <1>1, PostCcsFields, ZenonT(40)
<1>8. p \in TrackedConnections /\ p.stop_logging = c.stop_logging
  BY <1>1, PushType, PushShape
<1>9. Len(p.records) \in Nat
  BY <1>8, LenProperties DEF TrackedConnections
<1>10. \A b \in Directions : g[b] \subseteq h[b]
  BY <1>4, AddsMore
<1>11. LabelsFit(p, tls13, h)
  <2>1. LabelsFit(c, tls13, h)
    BY <1>10, LabelsFitKept DEF Knows
  <2> QED
    BY <1>1, <1>6, <2>1, LabelsFitPushed
<1>12. ASSUME w.is \notin Hellos, k < RECORD_LOG_CAP, Logs(c, tls13, g, late, obs, k)
       PROVE  Logs(n, tls13, h, late, obs, k + 1)
  <2>1. ~tls13 /\ w.is = "Finished"
    BY <1>3, <1>12
  <2>2. PICK is : is = "Finished"
    OBVIOUS
  <2>3. /\ Facts(c, FALSE, g, late, behind) /\ Legal(FALSE, g, d, is) /\ Grounded(FALSE, g)
        /\ Looks(w, FALSE, d) /\ w.is = is
    BY <2>1, <2>2 DEF Comes, Knows
  <2>4. Truthful(BuildBody(c, w.rec, d), w.is, d, late)
    BY <1>4, <2>1, <2>3, PostCcsLabel12
  <2>5. ~c.stop_logging
    <3>1. is # "Data" => "Finished" \notin g[d]
      BY <2>3, Legal12
    <3> QED
      BY <2>2, <2>3, <3>1 DEF Facts, Facts12
  <2>6. LogMatches(p, late, obs, k + 1)
    BY <1>1, <1>12, <2>4, LogMatchesPushed DEF Logs
  <2>7. FinishedLogged(p, tls13, h, late, obs)
    BY <1>1, <1>4, <1>12, <2>5, FinishedLoggedPushed DEF Logs
  <2> HIDE DEF n, p
  <2>8. k + 1 \in Nat /\ Len(p.records) <= k + 1
    BY <2>6 DEF LogMatches
  <2>9. LogMatches(n, late, obs, k + 1)
    BY <1>7, <1>8, <1>9, <2>6, <2>8, LogMatchesKept
  <2>10. FinishedLogged(n, tls13, h, late, obs)
    BY <1>7, <2>7, FinishedLoggedSame
  <2> QED
    BY <2>9, <2>10 DEF Logs
<1> HIDE DEF n, p
<1>13. LabelsFit(n, tls13, h)
  BY <1>7, <1>11, LabelsFitKept
<1>14. Knows(n, tls13, h, late, behind2)
  BY <1>6, <1>13 DEF Knows
<1> QED
  BY <1>12, <1>14 DEF n

\* A ChangeCipherSpec.
LEMMA CcsKnown ==
  ASSUME NEW c \in TrackedConnections, NEW w, NEW tls13 \in BOOLEAN, NEW g, NEW h,
         NEW d \in Directions, NEW late, NEW behind, NEW behind2,
         Comes(w, tls13, g, h, d, behind, behind2), Knows(c, tls13, g, late, behind),
         w.rec.type = "ChangeCipherSpec", NEW obs, NEW k \in Nat,
         obs[k + 1] = [direction |-> d, is |-> w.is]
  PROVE  LET n == AfterChangeCipherSpec(c, w.rec, d)
         IN  /\ Knows(n, tls13, h, late, behind2)
             /\ k < RECORD_LOG_CAP /\ Logs(c, tls13, g, late, obs, k) =>
                  Logs(n, tls13, h, late, obs, k + 1)
<1> DEFINE a == Changed(c, d)
           n == PushRecordEvent(a, w.rec, d)
<1>1. w.rec \in Records /\ w.rec.type # "Other" /\ w.is = "ChangeCipherSpec"
  BY RecordKinds
<1>2. PICK is : is = "ChangeCipherSpec"
  OBVIOUS
<1>3. /\ Adds(h, g, d, w.is) /\ Legal(tls13, g, d, w.is) /\ Grounded(tls13, g)
      /\ Looks(w, tls13, d)
  BY DEF Comes
<1>4. Adds(h, g, d, is) /\ Legal(tls13, g, d, is)
  BY <1>1, <1>2, <1>3
<1>5. Facts(c, tls13, g, late, behind2)
  BY FactsWeakened DEF Comes, Knows
<1>6. Facts(a, tls13, h, late, behind2)
  BY <1>2, <1>3, <1>4, <1>5, CcsFacts
<1>7. a \in TrackedConnections
  BY CcsShape
<1>8. a.records = c.records /\ a.stop_logging = c.stop_logging
  BY CcsShape
<1>9. /\ Fits(BuildBody(a, w.rec, d), w.rec.type, tls13, h, d)
      /\ Truthful(BuildBody(a, w.rec, d), w.is, d, late)
  BY <1>1, <1>3, CcsLabel
<1>10. \A b \in Directions : g[b] \subseteq h[b]
  BY <1>3, AddsMore
<1>11. AfterChangeCipherSpec(c, w.rec, d) = n
  BY DEF AfterChangeCipherSpec, Changed
<1> HIDE DEF a
<1>12. Len(a.records) \in Nat
  BY <1>7, LenProperties DEF TrackedConnections
<1>13. LabelsFit(a, tls13, h)
  BY <1>8, <1>10, LabelsFitKept DEF Knows
<1>14. LabelsFit(n, tls13, h)
  BY <1>1, <1>7, <1>9, <1>13, LabelsFitPushed
<1>15. Facts(n, tls13, h, late, behind2)
  BY <1>1, <1>6, <1>7, PushKeepsFacts
<1>16. ASSUME k < RECORD_LOG_CAP, Logs(c, tls13, g, late, obs, k)
       PROVE  Logs(n, tls13, h, late, obs, k + 1)
  <2>1. LogMatches(a, late, obs, k)
    BY <1>8, <1>12, <1>16, LogMatchesKept DEF Logs
  <2>2. LogMatches(n, late, obs, k + 1)
    BY <1>1, <1>7, <1>9, <1>16, <2>1, LogMatchesPushed
  <2>3. FinishedLogged(a, tls13, g, late, obs)
    BY <1>8, <1>16, FinishedLoggedSame DEF Logs
  <2>4. FinishedLogged(n, tls13, h, late, obs)
    BY <1>1, <1>3, <1>7, <1>16, <2>1, <2>3, FinishedLoggedPushed
  <2> QED
    BY <2>2, <2>4 DEF Logs
<1> HIDE DEF n
<1> QED
  BY <1>11, <1>14, <1>15, <1>16 DEF Knows

\* A Finished that comes as ciphertext is logged, unless both sides have
\* changed cipher.
LEMMA FinishNotStopped ==
  ASSUME NEW c \in TrackedConnections, FinishAgrees(c), NEW g, NEW h, NEW d \in Directions,
         NEW is, is = "Finished", Adds(h, g, d, is), Legal(TRUE, g, d, is), Grounded(TRUE, g),
         Exact13(c, g), Exact13(Encrypted(c, d), h), ~BothCcsSeen(c)
  PROVE  ~Encrypted(c, d).stop_logging
<1> DEFINE a == Encrypted(c, d)
<1>1. a.stop_logging <=> \/ c.stop_logging
                         \/ a.encrypted_records_from["ClientToServer"] >= 2
                         \/ BothCcsSeen(c)
  BY EncryptedShape
<1> HIDE DEF a
<1>2. /\ "Finished" \notin g[d]
      /\ "Data" \in g[C2S] => "Finished" \in g[C2S]
      /\ "Finished" \in g[C2S] => "Finished" \in g[S2C]
  <2>1. /\ "Finished" \in g[d] => is \in {"Ticket", "Data"}
        /\ "Data" \in g[C2S] => "Finished" \in g[C2S]
        /\ "Finished" \in g[C2S] => "Finished" \in g[S2C]
    BY Legal13
  <2> QED
    BY <2>1
<1>3. "Data" \notin g[C2S]
  BY <1>2 DEF C2S, S2C, Directions
<1>4. "Data" \notin h[C2S]
  BY <1>3 DEF Adds, C2S, Directions
<1>5. ~(c.encrypted_records_from[C2S] >= 2) /\ ~(a.encrypted_records_from[C2S] >= 2)
  BY <1>3, <1>4 DEF Exact13, a
<1>6. ~c.stop_logging
  BY <1>5 DEF FinishAgrees, C2S
<1> QED
  BY <1>1, <1>5, <1>6 DEF a, C2S

\* An encrypted record.
LEMMA DataKnown ==
  ASSUME NEW c \in TrackedConnections, FinishAgrees(c), NEW w, NEW tls13 \in BOOLEAN,
         NEW g, NEW h, NEW d \in Directions, NEW late, NEW behind, NEW behind2,
         Comes(w, tls13, g, h, d, behind, behind2), Knows(c, tls13, g, late, behind),
         w.rec.type = "ApplicationData", NEW obs, NEW k \in Nat,
         obs[k + 1] = [direction |-> d, is |-> w.is],
         w.is = "EarlyData" /\ "ServerFlight" \in g[S2C] => late
  PROVE  LET n == AfterApplicationData(c, w.rec, d)
         IN  /\ Knows(n, tls13, h, late, behind2)
             /\ k < RECORD_LOG_CAP /\ Logs(c, tls13, g, late, obs, k) =>
                  Logs(n, tls13, h, late, obs, k + 1)
<1> DEFINE a == Encrypted(c, d)
           n == PushRecordEvent(a, w.rec, d)
<1>1. w.rec \in Records /\ w.rec.type # "Other"
  BY RecordKinds
<1>2. /\ Adds(h, g, d, w.is) /\ Legal(tls13, g, d, w.is) /\ Grounded(tls13, g)
      /\ Looks(w, tls13, d)
  BY DEF Comes
<1>3. Facts(c, tls13, g, late, behind2)
  BY FactsWeakened DEF Comes, Knows
<1>4. a \in TrackedConnections
  BY EncryptedShape
<1>5. a.records = c.records
  BY EncryptedShape
<1>6. a.stop_logging <=> \/ c.stop_logging
                         \/ a.encrypted_records_from["ClientToServer"] >= 2
                         \/ BothCcsSeen(c)
  BY EncryptedShape
<1>7. /\ Facts(a, tls13, h, late, behind2)
      /\ Fits(BuildBody(a, w.rec, d), w.rec.type, tls13, h, d)
      /\ a.stop_logging \/ Truthful(BuildBody(a, w.rec, d), w.is, d, late)
      /\ tls13 \/ w.is = "Data"
  <2>1. CASE tls13
    <3>1. w.is \in {"EarlyData", "ServerFlight", "Finished", "Ticket", "Data"}
      BY <2>1, RecordKinds
    <3>2. /\ Facts(c, TRUE, g, late, behind2) /\ Legal(TRUE, g, d, w.is) /\ Grounded(TRUE, g)
          /\ Looks(w, TRUE, d)
      BY <1>2, <1>3, <2>1
    <3>3. Facts(a, TRUE, h, late, behind2)
      BY <1>2, <3>1, <3>2, DataFacts13
    <3>4. /\ Fits(BuildBody(a, w.rec, d), w.rec.type, TRUE, h, d)
          /\ a.stop_logging \/ Truthful(BuildBody(a, w.rec, d), w.is, d, late)
      BY <1>2, <3>1, <3>2, DataLabel13
    <3> HIDE DEF a
    <3> QED
      BY <2>1, <3>3, <3>4
  <2>2. CASE ~tls13
    <3>1. w.is = "Data"
      BY <2>2, RecordKinds
    <3>2. PICK is : is = "Data"
      OBVIOUS
    <3>3. /\ Facts(c, FALSE, g, late, behind2) /\ Legal(FALSE, g, d, is) /\ Grounded(FALSE, g)
          /\ Looks(w, FALSE, d) /\ Adds(h, g, d, is)
      BY <1>2, <1>3, <2>2, <3>1, <3>2
    <3>4. Facts(a, FALSE, h, late, behind2)
      BY <3>2, <3>3, DataFacts12
    <3>5. Legal(FALSE, g, d, w.is) /\ Grounded(FALSE, g) /\ Adds(h, g, d, w.is)
      BY <1>2, <2>2
    <3> HIDE DEF a
    <3>6. /\ Fits(BuildBody(a, w.rec, d), w.rec.type, FALSE, h, d)
          /\ Truthful(BuildBody(a, w.rec, d), w.is, d, late)
      BY <1>4, <3>1, <3>3, <3>4, <3>5, DataLabel12
    <3> QED
      BY <2>2, <3>1, <3>4, <3>6
  <2> QED
    BY <2>1, <2>2
<1>8. \A b \in Directions : g[b] \subseteq h[b]
  BY <1>2, AddsMore
<1>9. w.is = "Finished" => late \/ BothChanged(tls13, g) \/ ~a.stop_logging
  <2> SUFFICES ASSUME w.is = "Finished", ~late, ~BothChanged(tls13, g)
               PROVE  ~a.stop_logging
    OBVIOUS
  <2>1. tls13 /\ Legal(TRUE, g, d, w.is) /\ Grounded(TRUE, g)
    BY <1>2, <1>7
  <2>2. Facts13(c, g, late, behind) /\ Facts13(a, h, late, behind2)
    BY <1>7, <2>1 DEF Knows, Facts
  <2>3. Exact13(c, g) /\ Exact13(a, h)
    BY <2>2 DEF Facts13
  <2>4. ~BothCcsSeen(c)
    BY <2>1 DEF BothCcsSeen, BothChanged, Knows, Facts
  <2> QED
    BY <1>2, <2>1, <2>3, <2>4, FinishNotStopped
<1>10. AfterApplicationData(c, w.rec, d) = n
  BY DEF AfterApplicationData, Encrypted
<1> HIDE DEF a
<1>11. Len(a.records) \in Nat
  BY <1>4, LenProperties DEF TrackedConnections
<1>12. LabelsFit(a, tls13, h)
  BY <1>5, <1>8, LabelsFitKept DEF Knows
<1>13. LabelsFit(n, tls13, h)
  BY <1>1, <1>4, <1>7, <1>12, LabelsFitPushed
<1>14. Facts(n, tls13, h, late, behind2)
  BY <1>1, <1>4, <1>7, PushKeepsFacts
<1>15. ASSUME k < RECORD_LOG_CAP, Logs(c, tls13, g, late, obs, k)
       PROVE  Logs(n, tls13, h, late, obs, k + 1)
  <2>1. LogMatches(a, late, obs, k)
    BY <1>5, <1>6, <1>11, <1>15, LogMatchesKept DEF Logs
  <2>2. LogMatches(n, late, obs, k + 1)
    BY <1>1, <1>4, <1>7, <1>15, <2>1, LogMatchesPushed
  <2>3. FinishedLogged(a, tls13, g, late, obs)
    BY <1>5, <1>15, FinishedLoggedSame DEF Logs
  <2>4. FinishedLogged(n, tls13, h, late, obs)
    BY <1>1, <1>2, <1>4, <1>9, <1>15, <2>1, <2>3, FinishedLoggedPushed
  <2> QED
    BY <2>2, <2>4 DEF Logs
<1> HIDE DEF n
<1> QED
  BY <1>10, <1>13, <1>14, <1>15 DEF Knows

-----------------------------------------------------------------------------
(* The invariant of the composition.                                       *)

\* The client's second hello is among its first n records, behind a ChangeCipherSpec.
HelloBehind(s, n) ==
  \E i, j \in 1..n : /\ i < j /\ s.sends[C2S][i].is = "ChangeCipherSpec"
                     /\ s.sends[C2S][j].is = "ClientHello"

\* The next record of a session, after the first n[d] of each direction.
LEMMA RecordComes ==
  ASSUME NEW s \in Sessions, Protocol(s), NEW n \in [Directions -> Nat], Causal(s, n),
         NEW d \in Directions, NEW m, m = [n EXCEPT ![d] = @ + 1],
         m[d] <= Len(s.sends[d]), s.sends[d][m[d]].after <= n[Opposite(d)]
  PROVE  /\ Comes(s.sends[d][m[d]], s.tls13, Sent(s, n), Sent(s, m), d,
                  HelloBehind(s, n[C2S]), HelloBehind(s, m[C2S]))
         /\ Causal(s, m)
<1> DEFINE w == s.sends[d][m[d]]
<1>1. /\ m[d] = n[d] + 1 /\ \A b \in Directions : b # d => m[b] = n[b]
      /\ n[d] \in Nat /\ m \in [Directions -> Nat]
      /\ \A b \in Directions : n[b] <= m[b]
  OBVIOUS
<1>2. DOMAIN s.sends[d] = 1..Len(s.sends[d]) /\ Len(s.sends[d]) \in Nat
  BY SessionType, LenProperties
<1>3. m[d] \in 1..Len(s.sends[d])
  BY <1>1, <1>2
<1>4. w \in Wires /\ w.after \in Nat
  BY <1>3, WireType
<1>5. Legal(s.tls13, Sent(s, n), d, w.is) /\ Looks(w, s.tls13, d)
  BY <1>1, <1>3, NextIsLegal
<1>6. Grounded(s.tls13, Sent(s, n))
  BY SentGrounded
<1>7. Adds(Sent(s, m), Sent(s, n), d, w.is)
  <2>1. Got(s, d, m[d]) = Got(s, d, n[d]) \cup {w.is}
    BY <1>1, GotNext
  <2> QED
    BY <1>1, <2>1 DEF Adds, Sent
<1>8. ~s.tls13 => OneFinishesFirst(Sent(s, n))
  BY SentOneFirst
<1>9. HelloBehind(s, n[C2S]) => HelloBehind(s, m[C2S])
  <2>1. C2S \in Directions
    BY DEF C2S, Directions
  <2>2. 1..n[C2S] \subseteq 1..m[C2S]
    BY <1>1, <2>1
  <2> QED
    BY <2>2 DEF HelloBehind
<1>10. w.is = "ClientHello" => d = C2S
  BY <1>5 DEF Legal, May, C2S
<1>11. ASSUME d = C2S, w.is = "ClientHello" PROVE ~HelloBehind(s, n[C2S])
  <2> SUFFICES ASSUME NEW i \in 1..n[d], NEW j \in 1..n[d], i < j,
                      s.sends[d][i].is = "ChangeCipherSpec", s.sends[d][j].is = "ClientHello"
               PROVE  FALSE
    BY <1>11 DEF HelloBehind
  <2>1. i \in DOMAIN s.sends[d] /\ j \in DOMAIN s.sends[d] /\ m[d] \in DOMAIN s.sends[d]
        /\ j < m[d]
    BY <1>1, <1>2, <1>3
  <2> QED
    BY <1>11, <2>1 DEF Protocol, HelloAgainOnce, C2S
<1>12. ASSUME d = C2S, w.is = "ClientHello", "ChangeCipherSpec" \in Sent(s, n)[d]
       PROVE  HelloBehind(s, m[C2S])
  <2>1. PICK i \in 1..n[d] : s.sends[d][i].is = "ChangeCipherSpec"
    BY <1>12 DEF Sent, Got
  <2>2. i \in 1..m[d] /\ m[d] \in 1..m[d] /\ i < m[d]
    BY <1>1
  <2> QED
    BY <1>12, <2>1, <2>2 DEF HelloBehind
<1>13. Comes(w, s.tls13, Sent(s, n), Sent(s, m), d,
             HelloBehind(s, n[C2S]), HelloBehind(s, m[C2S]))
  BY <1>4, <1>5, <1>6, <1>7, <1>8, <1>9, <1>10, <1>11, <1>12 DEF Comes
<1>14. Causal(s, m)
  <2> SUFFICES ASSUME NEW b \in Directions, NEW i \in 1..m[b]
               PROVE  i <= Len(s.sends[b]) /\ s.sends[b][i].after <= m[Opposite(b)]
    BY DEF Causal
  <2>1. Opposite(b) \in Directions /\ n[Opposite(b)] \in Nat /\ m[Opposite(b)] \in Nat
        /\ n[Opposite(b)] <= m[Opposite(b)]
    BY <1>1, OtherDirection
  <2>2. CASE i \in 1..n[b]
    <3>1. i <= Len(s.sends[b]) /\ s.sends[b][i].after <= n[Opposite(b)]
      BY <2>2 DEF Causal
    <3>2. Len(s.sends[b]) \in Nat
      BY SessionType, LenProperties
    <3>3. i \in 1..Len(s.sends[b])
      BY <3>1, <3>2
    <3>4. s.sends[b][i].after \in Nat
      BY <3>3, WireType
    <3> QED
      BY <2>1, <3>1, <3>4
  <2>3. CASE i \notin 1..n[b]
    <3>1. b = d /\ i = m[d]
      BY <1>1, <2>3
    <3> QED
      BY <1>3, <1>4, <2>1, <3>1
  <2> QED
    BY <2>2, <2>3
<1> QED
  BY <1>13, <1>14

-----------------------------------------------------------------------------
(* The state of the capture.  While a record is being ingested it counts   *)
(* as applied once its messages are.                                       *)

Current == session.sends[direction][sent[direction]]
Before == IF todo = << >> THEN sent ELSE [sent EXCEPT ![direction] = @ - 1]
Entered == phase = "messages" /\ remaining = << >>
Applied == IF Entered THEN sent ELSE Before
Logged == IF todo = << >> THEN Len(observed) ELSE Len(observed) - 1

\* The call in progress is about the record that passed last.
CurrentInv ==
  /\ sent[direction] \in Nat \ {0}
  /\ todo = <<Current.rec>>
  /\ Current.after <= sent[Opposite(direction)]
  /\ observed[Len(observed)] = [direction |-> direction, is |-> Current.is]
  /\ Current.is = "EarlyData" /\ "ServerFlight" \in Sent(session, Before)[S2C]
       => EarlyDataLate

PlaceInv ==
  /\ Recognised(ends) /\ Protocol(session)
  /\ key = Flow /\ now_ms = 0
  /\ Flow \in tracked \/ (phase = "idle" /\ \A d \in Directions : sent[d] = 0)
  /\ Causal(session, Before)
  /\ todo # << >> => CurrentInv
  /\ phase = "messages" => remaining \in {<< >>, Current.rec.msgs}

ObservedInv ==
  /\ Len(observed) = sent[C2S] + sent[S2C]
  /\ \A d \in Directions : \A is \in Meanings : Seen(d, is) <=> is \in Got(session, d, sent[d])

KnownInv ==
  Knows(conns[Flow], session.tls13, Sent(session, Applied), EarlyDataLate,
        HelloBehind(session, Applied[C2S]))

LoggedInv ==
  HellosInClear(session) /\ FitsTheLog(session) =>
    Logs(conns[Flow], session.tls13, Sent(session, Applied), EarlyDataLate, observed, Logged)

PeersInv == PeersTypeInv /\ PlaceInv /\ ObservedInv /\ KnownInv /\ LoggedInv

\* Of a new connection nothing is known and nothing is shown.
LEMMA NewKnown ==
  ASSUME NEW now \in 0..MaxTime, NEW o \in Origins, NEW tls13 \in BOOLEAN, NEW g,
         \A d \in Directions : g[d] = {}, NEW late, NEW behind, NEW obs
  PROVE  LET c == NewConnection(now, o)
         IN  Knows(c, tls13, g, late, behind) /\ Logs(c, tls13, g, late, obs, 0)
<1> DEFINE c == NewConnection(now, o)
<1>1. /\ c.stage = "Idle" /\ c.tls_version = "None" /\ c.error = FALSE /\ c.records = << >>
      /\ c.stop_logging = FALSE
      /\ \A d \in Directions : /\ c.encrypted_records_from[d] = 0
                               /\ c.post_ccs_records_from[d] = 0
                               /\ c.ccs_seen[d] = FALSE
  BY DEF NewConnection
<1>2. C2S \in Directions /\ S2C \in Directions
  BY DEF C2S, S2C, Directions
<1>3. Len(c.records) = 0
  BY <1>1
<1> HIDE DEF c
<1>4. Facts12(c, g)
  BY <1>1, <1>2 DEF Facts12
<1>5. Facts13(c, g, late, behind)
  BY <1>1, <1>2 DEF Facts13, Exact13, Stages13
<1>6. Facts(c, tls13, g, late, behind)
  BY <1>1, <1>4, <1>5 DEF Facts
<1>7. LabelsFit(c, tls13, g)
  BY <1>3 DEF LabelsFit
<1>8. LogMatches(c, late, obs, 0)
  BY <1>3 DEF LogMatches
<1>9. FinishedLogged(c, tls13, g, late, obs)
  BY DEF FinishedLogged
<1> QED
  BY <1>6, <1>7, <1>8, <1>9 DEF Knows, Logs, c

LEMMA NoneGot ==
  ASSUME NEW s, NEW d
  PROVE  Got(s, d, 0) = {}
  BY DEF Got

LEMMA PeersInvInit ==
  ASSUME Orderly
  PROVE  PeersInit => PeersInv
<1> SUFFICES ASSUME PeersInit PROVE PeersInv
  OBVIOUS
<1>1. PeersTypeInv
  BY PeersTypeInit
<1>2. /\ todo = << >> /\ phase = "idle" /\ observed = << >> /\ now_ms = 0
      /\ sent = [d \in Directions |-> 0] /\ key = Flow
      /\ Recognised(ends) /\ Protocol(session)
  BY DEF PeersInit, Init, Flow, Orderly
<1>3. Applied = sent /\ Before = sent /\ Logged = 0
  BY <1>2 DEF Applied, Before, Entered, Logged
<1>4. \A d \in Directions : sent[d] = 0 /\ Got(session, d, sent[d]) = {}
  BY <1>2, NoneGot
<1>5. C2S \in Directions /\ S2C \in Directions
  BY DEF C2S, S2C, Directions
<1>6. Causal(session, Before)
  BY <1>3, <1>4 DEF Causal
<1>7. PlaceInv
  BY <1>2, <1>4, <1>6 DEF PlaceInv
<1>8. Len(observed) = 0 /\ sent[C2S] + sent[S2C] = 0
  BY <1>2, <1>4, <1>5
<1>9. ObservedInv
  BY <1>4, <1>8 DEF ObservedInv, Seen
<1>10. Flow \in Keys
  BY <1>1, <1>5, SameFlow DEF Flow, PeersTypeInv, C2S, S2C
<1>11. conns[Flow] = Untracked
  BY <1>10 DEF PeersInit, Init
<1>12. PICK o \in Origins : conns[Flow] = NewConnection(0, o)
  BY <1>11, TrackerAssumption DEF Untracked
<1>13. 0 \in 0..MaxTime /\ session.tls13 \in BOOLEAN
  BY TrackerAssumption, <1>5, SessionType DEF PeersInit
<1>14. \A d \in Directions : Sent(session, sent)[d] = {}
  BY <1>4 DEF Sent
<1>15. /\ Knows(conns[Flow], session.tls13, Sent(session, sent), EarlyDataLate,
                HelloBehind(session, sent[C2S]))
       /\ Logs(conns[Flow], session.tls13, Sent(session, sent), EarlyDataLate, observed, 0)
  BY <1>12, <1>13, <1>14, NewKnown
<1>16. KnownInv /\ LoggedInv
  BY <1>3, <1>15 DEF KnownInv, LoggedInv
<1> QED
  BY <1>1, <1>7, <1>9, <1>16 DEF PeersInv

\* The fields of a connection that an ingest without records keeps.
LEMMA TouchedKnown ==
  ASSUME NEW c \in TrackedConnections, NEW now, NEW n, n = [c EXCEPT !.last_seen_ms = now],
         NEW tls13, NEW g, NEW late, NEW behind, Knows(c, tls13, g, late, behind)
  PROVE  /\ Knows(n, tls13, g, late, behind)
         /\ n.records = c.records /\ n.stop_logging = c.stop_logging
<1>1. /\ n.stage = c.stage /\ n.tls_version = c.tls_version /\ n.error = c.error
      /\ n.ccs_seen = c.ccs_seen /\ n.stop_logging = c.stop_logging
      /\ n.encrypted_records_from = c.encrypted_records_from
      /\ n.post_ccs_records_from = c.post_ccs_records_from
      /\ n.records = c.records
  BY DEF TrackedConnections
<1>2. Facts(n, tls13, g, late, behind)
  BY <1>1, FactsKept DEF Knows
<1>3. LabelsFit(n, tls13, g)
  BY <1>1, LabelsFitKept DEF Knows
<1> QED
  BY <1>1, <1>2, <1>3 DEF Knows

\* More is seen, and late early data stays late.
LEMMA SeenMore ==
  ASSUME observed \in Seq([direction : Directions, is : Meanings]), NEW e,
         e \in [direction : Directions, is : Meanings], observed' = Append(observed, e)
  PROVE  /\ Len(observed') = Len(observed) + 1 /\ observed'[Len(observed')] = e
         /\ \A i \in 1..Len(observed) : observed'[i] = observed[i]
         /\ \A d \in Directions : \A is \in Meanings :
              Seen(d, is)' <=> Seen(d, is) \/ e = [direction |-> d, is |-> is]
         /\ EarlyDataLate => EarlyDataLate'
         /\ e.is = "EarlyData" /\ Seen(S2C, "ServerFlight") => EarlyDataLate'
<1>1. PICK k \in Nat : k = Len(observed)
  BY LenProperties
<1>2. /\ Len(observed') = k + 1 /\ observed'[k + 1] = e
      /\ \A i \in 1..k : observed'[i] = observed[i]
  BY <1>1, AppendProperties
<1>3. \A i : i \in 1..(k + 1) <=> i \in 1..k \/ i = k + 1
  BY <1>1
<1>4. \A d \in Directions : \A is \in Meanings :
        Seen(d, is)' <=> Seen(d, is) \/ e = [direction |-> d, is |-> is]
  BY <1>1, <1>2, <1>3 DEF Seen
<1>5. EarlyDataLate => EarlyDataLate'
  <2> SUFFICES ASSUME NEW i \in 1..k, NEW j \in 1..k, i < j,
                      observed[i].is = "ServerFlight", observed[j].is = "EarlyData"
               PROVE  EarlyDataLate'
    BY <1>1 DEF EarlyDataLate
  <2>1. i \in 1..Len(observed') /\ j \in 1..Len(observed')
    BY <1>2, <1>3
  <2> QED
    BY <1>2, <2>1 DEF EarlyDataLate
<1>6. ASSUME e.is = "EarlyData", Seen(S2C, "ServerFlight") PROVE EarlyDataLate'
  <2>1. PICK i \in 1..k : observed[i].is = "ServerFlight"
    BY <1>1, <1>6 DEF Seen
  <2>2. i \in 1..Len(observed') /\ k + 1 \in 1..Len(observed') /\ i < k + 1
    BY <1>2, <1>3
  <2> QED
    BY <1>2, <1>6, <2>1, <2>2 DEF EarlyDataLate
<1> QED
  BY <1>1, <1>2, <1>4, <1>5, <1>6

\* A record passes the capture point.
LEMMA ObserveInv ==
  ASSUME PeersInv, NEW d \in Directions, Observe(d)
  PROVE  PeersInv'
<1> DEFINE w == session.sends[d][sent[d] + 1]
           e == [direction |-> d, is |-> w.is]
<1>1. PeersTypeInv'
  BY ObserveType DEF PeersInv
<1>2. /\ ends' = ends /\ session' = session /\ Flow' = Flow
      /\ sent' = [sent EXCEPT ![d] = @ + 1] /\ observed' = Append(observed, e)
      /\ w.after <= sent[Opposite(d)]
  BY DEF Observe, Flow
<1>3. /\ sent \in [Directions -> Nat] /\ sent[d] \in Nat /\ sent'[d] = sent[d] + 1
      /\ \A b \in Directions : b # d => sent'[b] = sent[b]
      /\ Opposite(d) \in Directions /\ Opposite(d) # d
  BY <1>2, OtherDirection DEF PeersInv, PeersTypeInv
<1>4. sent[d] + 1 \in 1..Len(session.sends[d])
  <2>1. Len(session.sends[d]) \in Nat
    BY SessionType, LenProperties DEF PeersInv, PeersTypeInv
  <2> QED
    BY <1>3, <2>1 DEF Observe
<1>5. w.rec \in Records /\ w.is \in Meanings
  BY <1>4, WireType DEF PeersInv, PeersTypeInv
<1>6. DirectionOf(Canonical(ends[d], ends[Opposite(d)]), ends[d]) = d
  <2>1. Canonical(ends[d], ends[Opposite(d)]) = Flow
    BY SameFlow DEF PeersInv, PeersTypeInv, Flow, C2S, S2C
  <2> QED
    BY <2>1 DEF PeersInv, PlaceInv, Recognised, Flow, DirectionOf, Directions
<1>7. PICK o \in Origins : Ingest(Flow, d, 0, o, <<w.rec>>)
  <2>1. Canonical(ends[d], ends[Opposite(d)]) = Flow
    BY SameFlow DEF PeersInv, PeersTypeInv, Flow, C2S, S2C
  <2> QED
    BY <1>6, <2>1 DEF Observe
<1> HIDE DEF w
<1>8. /\ phase = "idle" /\ key' = Flow /\ direction' = d /\ now_ms' = 0
      /\ tracked' = tracked \cup {Flow} /\ conns' = [conns EXCEPT ![Flow] = Touched(Flow, 0, o)]
      /\ phase' = "records" /\ todo' = <<w.rec>>
  BY <1>7 DEF Ingest, StartCall
<1>9. todo = << >> /\ todo' # << >>
  BY <1>8 DEF PeersInv, PeersTypeInv, SafetyInv, TypeInv, CallOK
<1>10. Before = sent /\ Applied = sent
  BY <1>8, <1>9 DEF Before, Applied, Entered
<1>11. Before' = sent /\ Applied' = sent
  <2>1. Before' = [sent' EXCEPT ![d] = @ - 1]
    BY <1>8, <1>9 DEF Before
  <2>2. Before' = sent
    BY <1>2, <1>3, <2>1
  <2> QED
    BY <1>8, <2>2 DEF Applied, Entered
<1>12. e \in [direction : Directions, is : Meanings]
  BY <1>5
<1>13. /\ Len(observed') = Len(observed) + 1 /\ observed'[Len(observed')] = e
       /\ \A i \in 1..Len(observed) : observed'[i] = observed[i]
       /\ \A b \in Directions : \A is \in Meanings :
            Seen(b, is)' <=> Seen(b, is) \/ e = [direction |-> b, is |-> is]
       /\ EarlyDataLate => EarlyDataLate'
       /\ e.is = "EarlyData" /\ Seen(S2C, "ServerFlight") => EarlyDataLate'
  BY <1>2, <1>12, SeenMore DEF PeersInv, PeersTypeInv
<1>14. Current' = w
  BY <1>2, <1>3, <1>8 DEF Current, w
<1>15. CurrentInv'
  <2>1. sent'[direction'] \in Nat \ {0}
    BY <1>3, <1>8
  <2>2. Current'.after <= sent'[Opposite(direction')]
    BY <1>2, <1>3, <1>8, <1>14
  <2>3. Current'.is = "EarlyData" /\ "ServerFlight" \in Sent(session', Before')[S2C]
          => EarlyDataLate'
    <3>1. "ServerFlight" \in Sent(session, sent)[S2C] => Seen(S2C, "ServerFlight")
      BY DEF PeersInv, ObservedInv, Sent, S2C, Directions, Meanings
    <3> QED
      BY <1>2, <1>11, <1>13, <1>14, <3>1
  <2> QED
    BY <1>8, <1>13, <1>14, <2>1, <2>2, <2>3 DEF CurrentInv
<1>16. PlaceInv'
  <2>1. Causal(session', Before')
    BY <1>2, <1>10, <1>11 DEF PeersInv, PlaceInv
  <2>2. Recognised(ends') /\ Protocol(session')
    BY <1>2 DEF PeersInv, PlaceInv
  <2> QED
    BY <1>2, <1>8, <1>15, <2>1, <2>2 DEF PlaceInv
<1>17. ObservedInv'
  <2>1. Len(observed') = sent'[C2S] + sent'[S2C]
    <3>1. PICK m \in Nat : m = sent[Opposite(d)]
      BY <1>3
    <3>2. PICK n \in Nat : n = sent[d]
      BY <1>3
    <3>3. Len(observed) = m + n
      BY <3>1, <3>2, <1>3 DEF PeersInv, ObservedInv, C2S, S2C, Directions, Opposite
    <3>4. sent'[C2S] + sent'[S2C] = m + (n + 1)
      BY <3>1, <3>2, <1>3 DEF C2S, S2C, Directions, Opposite
    <3> QED
      BY <1>13, <3>3, <3>4
  <2>2. ASSUME NEW b \in Directions, NEW is \in Meanings
        PROVE  Seen(b, is)' <=> is \in Got(session', b, sent'[b])
    <3>1. Seen(b, is) <=> is \in Got(session, b, sent[b])
      BY DEF PeersInv, ObservedInv
    <3>2. Seen(b, is)' <=> Seen(b, is) \/ (b = d /\ is = w.is)
      BY <1>13
    <3>3. Got(session, d, sent[d] + 1) = Got(session, d, sent[d]) \cup {w.is}
      BY <1>3, GotNext DEF w
    <3> QED
      BY <1>2, <1>3, <3>1, <3>2, <3>3
  <2> QED
    BY <2>1, <2>2 DEF ObservedInv
<1>18. Flow \in Keys /\ conns \in [Keys -> TrackedConnections]
  BY SameFlow DEF Flow, PeersInv, PeersTypeInv, SafetyInv, TypeInv, TypeOK, C2S, S2C, Directions
<1>19. conns'[Flow] = Touched(Flow, 0, o) /\ conns[Flow] \in TrackedConnections
  BY <1>8, <1>18
<1>20. Logged = Len(observed) /\ Logged' = Len(observed)
  <2>1. PICK n \in Nat : n = Len(observed)
    BY LenProperties DEF PeersInv, PeersTypeInv
  <2>2. Logged = n /\ Logged' = (n + 1) - 1
    BY <1>9, <1>13, <2>1 DEF Logged
  <2> QED
    BY <2>1, <2>2
<1> DEFINE g == Sent(session, sent)
           behind == HelloBehind(session, sent[C2S])
<1>21. /\ Knows(conns'[Flow], session.tls13, g, EarlyDataLate', behind)
       /\ HellosInClear(session) /\ FitsTheLog(session) =>
            Logs(conns'[Flow], session.tls13, g, EarlyDataLate', observed', Len(observed))
  <2>1. CASE Flow \in tracked
    <3>1. conns'[Flow] = [conns[Flow] EXCEPT !.last_seen_ms = 0]
      BY <1>19, <2>1 DEF Touched
    <3>2. Knows(conns[Flow], session.tls13, g, EarlyDataLate, behind)
      BY <1>10 DEF PeersInv, KnownInv
    <3>3. Knows(conns[Flow], session.tls13, g, EarlyDataLate', behind)
      BY <1>13, <3>2, FactsWeakened DEF Knows
    <3>4. /\ Knows(conns'[Flow], session.tls13, g, EarlyDataLate', behind)
          /\ conns'[Flow].records = conns[Flow].records
          /\ conns'[Flow].stop_logging = conns[Flow].stop_logging
      BY <1>19, <3>1, <3>3, TouchedKnown
    <3>5. ASSUME HellosInClear(session), FitsTheLog(session)
          PROVE  Logs(conns'[Flow], session.tls13, g, EarlyDataLate', observed', Len(observed))
      <4>1. Logs(conns[Flow], session.tls13, g, EarlyDataLate, observed, Len(observed))
        BY <1>10, <1>20, <3>5 DEF PeersInv, LoggedInv
      <4>2. Len(observed) \in Nat /\ Len(conns[Flow].records) \in Nat
        BY <1>19, LenProperties DEF PeersInv, PeersTypeInv, TrackedConnections
      <4>3. LogMatches(conns'[Flow], EarlyDataLate', observed', Len(observed))
        BY <1>13, <3>4, <4>1, <4>2, LogMatchesKept DEF Logs
      <4>4. FinishedLogged(conns'[Flow], session.tls13, g, EarlyDataLate', observed')
        <5>1. FinishedLogged(conns[Flow], session.tls13, g, EarlyDataLate', observed')
          BY <1>13, <4>1, <4>2, FinishedLoggedLater DEF Logs
        <5> QED
          BY <3>4, <5>1, FinishedLoggedSame
      <4> QED
        BY <4>3, <4>4 DEF Logs
    <3> QED
      BY <3>4, <3>5
  <2>2. CASE Flow \notin tracked
    <3>1. \A b \in Directions : sent[b] = 0 /\ g[b] = {}
      BY <2>2, NoneGot DEF PeersInv, PlaceInv, Sent
    <3>2. Len(observed) = 0
      BY <3>1 DEF PeersInv, ObservedInv, C2S, S2C, Directions
    <3>3. conns'[Flow] = [NewConnection(0, o) EXCEPT !.last_seen_ms = 0]
      BY <1>19, <2>2 DEF Touched
    <3>4. conns'[Flow] = NewConnection(0, o)
      BY <3>3 DEF NewConnection
    <3>5. 0 \in 0..MaxTime /\ session.tls13 \in BOOLEAN
      BY SessionType, TrackerAssumption DEF PeersInv, PeersTypeInv
    <3> HIDE DEF g, behind
    <3>6. /\ Knows(conns'[Flow], session.tls13, g, EarlyDataLate', behind)
          /\ Logs(conns'[Flow], session.tls13, g, EarlyDataLate', observed', 0)
      BY <3>1, <3>4, <3>5, NewKnown
    <3> QED
      BY <3>2, <3>6
  <2> QED
    BY <2>1, <2>2
<1>22. KnownInv'
  BY <1>2, <1>11, <1>21 DEF KnownInv
<1>23. LoggedInv'
  BY <1>2, <1>11, <1>20, <1>21 DEF LoggedInv
<1> QED
  BY <1>1, <1>16, <1>17, <1>22, <1>23 DEF PeersInv

\* The record being ingested is the next one of its direction.
LEMMA CurrentComes ==
  ASSUME PeersInv, todo # << >>
  PROVE  /\ Comes(Current, session.tls13, Sent(session, Before), Sent(session, sent), direction,
                  HelloBehind(session, Before[C2S]), HelloBehind(session, sent[C2S]))
         /\ Causal(session, sent)
<1>1. /\ session \in Sessions /\ direction \in Directions /\ sent \in [Directions -> Nat]
      /\ sent[direction] \in Nat \ {0} /\ sent[direction] <= Len(session.sends[direction])
      /\ Current.after <= sent[Opposite(direction)]
      /\ Protocol(session) /\ Causal(session, Before)
  BY DEF PeersInv, PeersTypeInv, SafetyInv, TypeInv, TypeOK, PlaceInv, CurrentInv
<1>2. Before = [sent EXCEPT ![direction] = @ - 1]
  BY DEF Before
<1>3. /\ Before \in [Directions -> Nat] /\ sent = [Before EXCEPT ![direction] = @ + 1]
      /\ Before[Opposite(direction)] = sent[Opposite(direction)]
  <2>1. PICK k \in Nat : sent[direction] = k + 1
    <3>1. PICK m \in Nat \ {0} : m = sent[direction]
      BY <1>1
    <3>2. m - 1 \in Nat /\ m = (m - 1) + 1
      OBVIOUS
    <3> QED
      BY <3>1, <3>2
  <2>2. Before = [sent EXCEPT ![direction] = k]
    BY <1>2, <2>1
  <2>3. Before \in [Directions -> Nat] /\ Before[direction] = k
        /\ \A b \in Directions : b # direction => Before[b] = sent[b]
    BY <1>1, <2>2
  <2>4. sent = [Before EXCEPT ![direction] = k + 1]
    BY <1>1, <2>1, <2>3
  <2> QED
    BY <1>1, <2>3, <2>4, OtherDirection
<1>4. PICK n \in [Directions -> Nat] : n = Before
  BY <1>3
<1>5. PICK d \in Directions : d = direction
  BY <1>1
<1>6. /\ sent = [n EXCEPT ![d] = @ + 1] /\ Causal(session, n)
      /\ sent[d] <= Len(session.sends[d])
      /\ session.sends[d][sent[d]].after <= n[Opposite(d)]
  BY <1>1, <1>3, <1>4, <1>5 DEF Current
<1>7. /\ Comes(session.sends[d][sent[d]], session.tls13, Sent(session, n),
               Sent(session, sent), d, HelloBehind(session, n[C2S]),
               HelloBehind(session, sent[C2S]))
      /\ Causal(session, sent)
  BY <1>1, <1>6, RecordComes
<1> QED
  BY <1>4, <1>5, <1>7 DEF Current

\* Where it will be in the log.
LEMMA CurrentLogged ==
  ASSUME PeersInv, todo # << >>
  PROVE  /\ Logged \in Nat /\ Len(observed) = Logged + 1
         /\ observed[Logged + 1] = [direction |-> direction, is |-> Current.is]
         /\ FitsTheLog(session) => Logged < RECORD_LOG_CAP
         /\ HellosInClear(session) /\ "ChangeCipherSpec" \in Sent(session, Before)[direction]
              => Current.is \notin Hellos
<1>1. /\ direction \in Directions /\ sent \in [Directions -> Nat]
      /\ sent[direction] \in Nat \ {0} /\ session \in Sessions
      /\ observed[Len(observed)] = [direction |-> direction, is |-> Current.is]
      /\ Len(observed) = sent[C2S] + sent[S2C]
      /\ \A d \in Directions : sent[d] <= Len(session.sends[d])
  BY DEF PeersInv, PeersTypeInv, SafetyInv, TypeInv, TypeOK, PlaceInv, CurrentInv, ObservedInv
<1>2. /\ sent[C2S] \in Nat /\ sent[S2C] \in Nat /\ sent[C2S] + sent[S2C] >= 1
      /\ sent[C2S] <= Len(session.sends[C2S]) /\ sent[S2C] <= Len(session.sends[S2C])
  BY <1>1 DEF C2S, S2C, Directions
<1>3. Logged = Len(observed) - 1
  BY DEF Logged
<1>4. PICK n \in Nat : n = Len(observed) /\ n >= 1 /\ n = sent[C2S] + sent[S2C]
  BY <1>1, <1>2
<1>5. Logged = n - 1
  BY <1>3, <1>4
<1>6. Logged \in Nat /\ Logged + 1 = n
  BY <1>4, <1>5
<1>7. ASSUME FitsTheLog(session) PROVE Logged < RECORD_LOG_CAP
  <2>1. Len(session.sends[C2S]) \in Nat /\ Len(session.sends[S2C]) \in Nat
    BY <1>1, SessionType, LenProperties DEF C2S, S2C, Directions
  <2>2. PICK a, b \in Nat : a = Len(session.sends[C2S]) /\ b = Len(session.sends[S2C])
    BY <2>1
  <2>3. PICK x, y \in Nat : x = sent[C2S] /\ y = sent[S2C]
    BY <1>2
  <2>4. x <= a /\ y <= b /\ n = x + y
    BY <1>2, <1>4, <2>2, <2>3
  <2>5. a + b <= RECORD_LOG_CAP
    BY <1>7, <2>2 DEF FitsTheLog, C2S, S2C
  <2>6. n - 1 < RECORD_LOG_CAP
    BY <1>4, <2>4, <2>5, TrackerAssumption
  <2> QED
    BY <1>5, <2>6
<1>8. ASSUME HellosInClear(session), "ChangeCipherSpec" \in Sent(session, Before)[direction]
      PROVE  Current.is \notin Hellos
  <2>1. PICK i \in 1..Before[direction] :
          session.sends[direction][i].is = "ChangeCipherSpec"
    BY <1>1, <1>8 DEF Sent, Got
  <2>2. Before[direction] = sent[direction] - 1
    BY <1>1 DEF Before
  <2>3. DOMAIN session.sends[direction] = 1..Len(session.sends[direction])
        /\ Len(session.sends[direction]) \in Nat
    BY <1>1, SessionType, LenProperties
  <2>4. i \in 1..Len(session.sends[direction]) /\ i < sent[direction]
        /\ sent[direction] \in 1..Len(session.sends[direction])
    BY <1>1, <2>1, <2>2, <2>3
  <2> QED
    BY <1>1, <1>8, <2>1, <2>3, <2>4 DEF HellosInClear, Current, Hellos
<1> QED
  BY <1>1, <1>4, <1>6, <1>7, <1>8

\* A step of the call changes nothing of the session.
LEMMA Unobserved ==
  ASSUME PeersInv, UNCHANGED peerVars
  PROVE  /\ Flow' = Flow /\ EarlyDataLate' = EarlyDataLate /\ ObservedInv'
         /\ Recognised(ends') /\ Protocol(session')
         /\ ends' = ends /\ session' = session /\ sent' = sent /\ observed' = observed
<1>1. ends' = ends /\ session' = session /\ sent' = sent /\ observed' = observed
  BY DEF peerVars
<1>2. Flow' = Flow
  BY <1>1 DEF Flow
<1>3. EarlyDataLate' = EarlyDataLate
  BY <1>1 DEF EarlyDataLate
<1>4. ObservedInv'
  BY <1>1 DEF PeersInv, ObservedInv, Seen
<1> QED
  BY <1>1, <1>2, <1>3, <1>4 DEF PeersInv, PlaceInv

\* A record has been ingested.
LEMMA ConsumeInv ==
  ASSUME PeersInv, UNCHANGED peerVars, PeersTypeInv', todo # << >>, NEW c, Consume(c),
         Knows(c, session.tls13, Sent(session, sent), EarlyDataLate,
               HelloBehind(session, sent[C2S])),
         HellosInClear(session) /\ FitsTheLog(session) =>
           Logs(c, session.tls13, Sent(session, sent), EarlyDataLate, observed, Logged + 1)
  PROVE  PeersInv'
<1>1. /\ Flow' = Flow /\ EarlyDataLate' = EarlyDataLate /\ ObservedInv'
      /\ Recognised(ends') /\ Protocol(session')
      /\ ends' = ends /\ session' = session /\ sent' = sent /\ observed' = observed
  BY Unobserved
<1>2. /\ conns' = [conns EXCEPT ![Flow] = c] /\ phase' = "records" /\ key' = Flow
      /\ direction' = direction /\ now_ms' = 0 /\ tracked' = tracked /\ todo' = Tail(todo)
  BY DEF Consume, call, PeersInv, PlaceInv
<1>3. todo' = << >>
  <2>1. todo = <<Current.rec>>
    BY DEF PeersInv, PlaceInv, CurrentInv
  <2> QED
    BY <1>2, <2>1
<1>4. Flow \in tracked
  BY DEF PeersInv, PlaceInv, PeersTypeInv, SafetyInv, TypeInv, CallOK
<1>5. Flow \in Keys /\ conns \in [Keys -> TrackedConnections]
  BY SameFlow DEF Flow, PeersInv, PeersTypeInv, SafetyInv, TypeInv, TypeOK, C2S, S2C, Directions
<1>6. conns'[Flow] = c
  BY <1>2, <1>5
<1>7. Before' = sent /\ Applied' = sent /\ Logged' = Len(observed)
  BY <1>1, <1>2, <1>3 DEF Before, Applied, Entered, Logged
<1>8. Causal(session, sent) /\ Len(observed) = Logged + 1
  BY CurrentComes, CurrentLogged
<1>9. PlaceInv'
  BY <1>1, <1>2, <1>3, <1>4, <1>7, <1>8 DEF PlaceInv
<1>10. KnownInv'
  BY <1>1, <1>6, <1>7 DEF KnownInv
<1>11. LoggedInv'
  BY <1>1, <1>6, <1>7, <1>8 DEF LoggedInv
<1> QED
  BY <1>1, <1>9, <1>10, <1>11 DEF PeersInv

\* The message it carries when it is in clear.
LEMMA CurrentMessage ==
  ASSUME conns[Flow] \in TrackedConnections, NEW tls13 \in BOOLEAN, NEW g, NEW h,
         direction \in Directions, NEW late, NEW behind, NEW behind2,
         Comes(Current, tls13, g, h, direction, behind, behind2),
         Knows(conns[Flow], tls13, g, late, behind),
         Current.rec.type = "Handshake", ~conns[Flow].ccs_seen[direction]
  PROVE  /\ Current.is \in InClear
         /\ \E m \in Messages :
              /\ Current.rec.msgs = <<m>>
              /\ Knows(ApplyHandshakeMessage(conns[Flow], m, direction), tls13, h, late, behind2)
<1>1. PICK c \in TrackedConnections : c = conns[Flow]
  OBVIOUS
<1>2. PICK d \in Directions : d = direction
  OBVIOUS
<1>3. PICK w : w = Current
  OBVIOUS
<1>4. /\ Comes(w, tls13, g, h, d, behind, behind2) /\ Knows(c, tls13, g, late, behind)
      /\ w.rec.type = "Handshake" /\ ~c.ccs_seen[d]
  BY <1>1, <1>2, <1>3
<1>5. /\ w.is \in InClear
      /\ \E m \in Messages :
           w.rec.msgs = <<m>> /\ Knows(ApplyHandshakeMessage(c, m, d), tls13, h, late, behind2)
  BY <1>4, MessageKnown
<1> QED
  BY <1>1, <1>2, <1>3, <1>5

\* A step of the call.
LEMMA TrackInv ==
  ASSUME PeersInv, StepOfCall, UNCHANGED peerVars, PeersTypeInv'
  PROVE  PeersInv'
<1> DEFINE late == EarlyDataLate
           tls13 == session.tls13
           g == Sent(session, Before)
           h == Sent(session, sent)
           behind == HelloBehind(session, Before[C2S])
           behind2 == HelloBehind(session, sent[C2S])
           fits == HellosInClear(session) /\ FitsTheLog(session)
<1>1. /\ Flow' = Flow /\ EarlyDataLate' = EarlyDataLate /\ ObservedInv'
      /\ Recognised(ends') /\ Protocol(session')
      /\ ends' = ends /\ session' = session /\ sent' = sent /\ observed' = observed
  BY Unobserved
<1>2. /\ Flow \in Keys /\ conns \in [Keys -> TrackedConnections]
      /\ conns[Flow] \in TrackedConnections /\ FinishAgrees(conns[Flow])
      /\ direction \in Directions /\ tls13 \in BOOLEAN
  <2>1. Flow \in Keys
    BY SameFlow DEF Flow, PeersInv, PeersTypeInv, C2S, S2C, Directions
  <2> QED
    BY <2>1, SessionType
       DEF PeersInv, PeersTypeInv, SafetyInv, AllConnOK, ConnOK, TypeInv, TypeOK
<1>3. key = Flow /\ now_ms = 0
  BY DEF PeersInv, PlaceInv
<1>4. todo # << >> =>
        /\ Comes(Current, tls13, g, h, direction, behind, behind2)
        /\ Logged \in Nat /\ Len(observed) = Logged + 1
        /\ observed[Logged + 1] = [direction |-> direction, is |-> Current.is]
        /\ FitsTheLog(session) => Logged < RECORD_LOG_CAP
        /\ HellosInClear(session) /\ "ChangeCipherSpec" \in g[direction]
             => Current.is \notin Hellos
  BY CurrentComes, CurrentLogged
<1>5. todo # << >> => Head(todo) = Current.rec
  <2>1. todo # << >> => todo = <<Current.rec>>
    BY DEF PeersInv, PlaceInv, CurrentInv
  <2> QED
    BY <2>1
<1>6. phase # "messages" =>
        /\ Knows(conns[Flow], tls13, g, late, behind)
        /\ fits => Logs(conns[Flow], tls13, g, late, observed, Logged)
  BY DEF PeersInv, KnownInv, LoggedInv, Applied, Entered
<1>7. phase = "messages" /\ remaining # << >> =>
        /\ Knows(conns[Flow], tls13, g, late, behind)
        /\ fits => Logs(conns[Flow], tls13, g, late, observed, Logged)
  BY DEF PeersInv, KnownInv, LoggedInv, Applied, Entered
<1>8. phase = "messages" /\ remaining = << >> =>
        /\ Knows(conns[Flow], tls13, h, late, behind2)
        /\ fits => Logs(conns[Flow], tls13, h, late, observed, Logged)
  BY DEF PeersInv, KnownInv, LoggedInv, Applied, Entered
<1>9. CASE BeginHandshakeRecord
  <2>1. /\ phase = "records" /\ todo # << >>
        /\ Current.rec.type = "Handshake" /\ ~conns[Flow].ccs_seen[direction]
    BY <1>3, <1>5, <1>9 DEF BeginHandshakeRecord, NextRecordIs
  <2>2. /\ conns' = conns /\ tracked' = tracked /\ todo' = todo /\ key' = key
        /\ direction' = direction /\ now_ms' = now_ms
        /\ phase' = "messages" /\ remaining' = Current.rec.msgs
    BY <1>5, <1>9, <2>1 DEF BeginHandshakeRecord, call
  <2>3. remaining' # << >>
    <3> HIDE DEF g, h, late, tls13, behind, behind2, fits
    <3>1. PICK m \in Messages : Current.rec.msgs = <<m>>
      BY <1>2, <1>4, <1>6, <2>1, CurrentMessage
    <3> QED
      BY <2>2, <3>1
  <2>4. Before' = Before /\ Applied' = Before /\ Logged' = Logged /\ Current' = Current
    BY <1>1, <2>2, <2>3 DEF Before, Applied, Entered, Logged, Current
  <2>5. CurrentInv'
    BY <1>1, <2>1, <2>2, <2>4 DEF PeersInv, PlaceInv, CurrentInv
  <2>6. PlaceInv'
    BY <1>1, <2>1, <2>2, <2>4, <2>5 DEF PeersInv, PlaceInv
  <2>7. KnownInv' /\ LoggedInv'
    BY <1>1, <1>6, <2>1, <2>2, <2>4 DEF KnownInv, LoggedInv
  <2> QED
    BY <1>1, <2>6, <2>7 DEF PeersInv
<1>10. CASE ApplyMessage
  <2>1. /\ phase = "messages" /\ remaining # << >> /\ todo # << >>
        /\ Current.rec.type = "Handshake" /\ ~conns[Flow].ccs_seen[direction]
    BY <1>3, <1>5, <1>10 DEF ApplyMessage, PeersInv, PeersTypeInv, SafetyInv, TypeInv, CallOK
  <2>2. remaining = Current.rec.msgs
    BY <2>1 DEF PeersInv, PlaceInv
  <2> HIDE DEF g, h, late, tls13, behind, behind2, fits
  <2>3. Current.is \in InClear
    BY <1>2, <1>4, <1>7, <2>1, CurrentMessage
  <2>4. PICK m \in Messages :
          /\ Current.rec.msgs = <<m>>
          /\ Knows(ApplyHandshakeMessage(conns[Flow], m, direction), tls13, h, late, behind2)
    BY <1>2, <1>4, <1>7, <2>1, CurrentMessage
  <2> DEFINE n == ApplyHandshakeMessage(conns[Flow], m, direction)
  <2>5. /\ conns' = [conns EXCEPT ![Flow] = n] /\ tracked' = tracked /\ todo' = todo
        /\ key' = key /\ direction' = direction /\ now_ms' = now_ms
        /\ phase' = "messages" /\ remaining' = << >>
    BY <1>3, <1>10, <2>2, <2>4 DEF ApplyMessage, call
  <2>6. n.records = conns[Flow].records /\ n.stop_logging = conns[Flow].stop_logging
    BY <1>2, MessageKeeps
  <2> HIDE DEF n
  <2>7. conns'[Flow] = n
    BY <1>2, <2>5
  <2>8. Before' = Before /\ Applied' = sent /\ Logged' = Logged /\ Current' = Current
    BY <1>1, <2>5 DEF Before, Applied, Entered, Logged, Current
  <2>9. CurrentInv'
    BY <1>1, <2>1, <2>5, <2>8 DEF PeersInv, PlaceInv, CurrentInv
  <2>10. PlaceInv'
    BY <1>1, <2>1, <2>5, <2>8, <2>9 DEF PeersInv, PlaceInv
  <2>11. Knows(n, tls13, h, late, behind2)
    BY <2>4 DEF n
  <2>12. fits => Logs(n, tls13, h, late, observed, Logged)
    <3> SUFFICES ASSUME fits PROVE Logs(n, tls13, h, late, observed, Logged)
      OBVIOUS
    <3>1. Logs(conns[Flow], tls13, g, late, observed, Logged) /\ Logged \in Nat
      BY <1>4, <1>7, <2>1
    <3>2. Len(conns[Flow].records) \in Nat
      BY <1>2, LenProperties DEF TrackedConnections
    <3>3. LogMatches(n, late, observed, Logged)
      BY <2>6, <3>1, <3>2, LogMatchesKept DEF Logs
    <3>4. Adds(h, g, direction, Current.is)
      BY <1>4, <2>1 DEF Comes
    <3>5. /\ \A b \in Directions : g[b] \subseteq h[b]
          /\ \A b \in Directions : "Finished" \in h[b] => "Finished" \in g[b]
      BY <2>3, <3>4 DEF Adds, InClear
    <3>6. FinishedLogged(n, tls13, h, late, observed)
      BY <2>6, <3>1, <3>5, FinishedLoggedGrown DEF Logs
    <3> QED
      BY <3>3, <3>6 DEF Logs
  <2>13. KnownInv' /\ LoggedInv'
    BY <1>1, <2>7, <2>8, <2>11, <2>12
       DEF KnownInv, LoggedInv, g, h, late, tls13, behind, behind2, fits
  <2> QED
    BY <1>1, <2>10, <2>13 DEF PeersInv
<1>11. CASE EndHandshakeRecord
  <2>1. /\ phase = "messages" /\ remaining = << >> /\ todo # << >>
        /\ Current.rec.type = "Handshake" /\ ~conns[Flow].ccs_seen[direction]
    BY <1>3, <1>5, <1>11
       DEF EndHandshakeRecord, PeersInv, PeersTypeInv, SafetyInv, TypeInv, CallOK
  <2> DEFINE n == PushRecordEvent(conns[Flow], Current.rec, direction)
  <2>2. Consume(n)
    BY <1>3, <1>5, <1>11, <2>1 DEF EndHandshakeRecord
  <2>3. "ChangeCipherSpec" \notin g[direction]
    <3>1. "ChangeCipherSpec" \notin h[direction]
      BY <1>2, <1>8, <2>1 DEF Knows, Facts
    <3> QED
      BY <1>2, <1>4, <2>1, <3>1 DEF Comes, Adds
  <2> HIDE DEF g, h, late, tls13, behind, behind2, fits
  <2>4. Current.is \in InClear
    BY <1>2, <1>4, <2>1, <2>3, RecordKinds
  <2>5. /\ Knows(n, tls13, h, late, behind2)
        /\ Logged < RECORD_LOG_CAP /\ Logs(conns[Flow], tls13, h, late, observed, Logged) =>
             Logs(n, tls13, h, late, observed, Logged + 1)
    BY <1>2, <1>4, <1>8, <2>1, <2>4, ClearLogged
  <2> HIDE DEF n
  <2> QED
    BY <1>4, <1>8, <2>1, <2>2, <2>5, ConsumeInv DEF g, h, late, tls13, behind, behind2, fits
<1>12. CASE PostCcsHandshakeRecord
  <2>1. /\ phase # "messages" /\ todo # << >>
        /\ Current.rec.type = "Handshake" /\ conns[Flow].ccs_seen[direction]
    BY <1>3, <1>5, <1>12 DEF PostCcsHandshakeRecord, NextRecordIs
  <2> DEFINE n == AfterPostCcsHandshake(conns[Flow], Current.rec, direction)
  <2>2. Consume(n)
    BY <1>3, <1>5, <1>12, <2>1 DEF PostCcsHandshakeRecord
  <2>3. "ChangeCipherSpec" \in g[direction]
    BY <1>2, <1>6, <2>1 DEF Knows, Facts
  <2> HIDE DEF g, h, late, tls13, behind, behind2, fits
  <2>4. /\ Knows(n, tls13, h, late, behind2)
        /\ /\ Current.is \notin Hellos /\ Logged < RECORD_LOG_CAP
           /\ Logs(conns[Flow], tls13, g, late, observed, Logged)
           => Logs(n, tls13, h, late, observed, Logged + 1)
    BY <1>2, <1>4, <1>6, <2>1, PostCcsKnown
  <2> HIDE DEF n
  <2> QED
    BY <1>4, <1>6, <2>1, <2>2, <2>3, <2>4, ConsumeInv
       DEF g, h, late, tls13, behind, behind2, fits
<1>13. CASE ApplicationDataRecord
  <2>1. phase # "messages" /\ todo # << >> /\ Current.rec.type = "ApplicationData"
    BY <1>5, <1>13 DEF ApplicationDataRecord, NextRecordIs
  <2> DEFINE n == AfterApplicationData(conns[Flow], Current.rec, direction)
  <2>2. Consume(n)
    BY <1>3, <1>5, <1>13, <2>1 DEF ApplicationDataRecord
  <2>3. Current.is = "EarlyData" /\ "ServerFlight" \in g[S2C] => late
    BY <2>1 DEF PeersInv, PlaceInv, CurrentInv
  <2> HIDE DEF g, h, late, tls13, behind, behind2, fits
  <2>4. /\ Knows(n, tls13, h, late, behind2)
        /\ Logged < RECORD_LOG_CAP /\ Logs(conns[Flow], tls13, g, late, observed, Logged) =>
             Logs(n, tls13, h, late, observed, Logged + 1)
    BY <1>2, <1>4, <1>6, <2>1, <2>3, DataKnown
  <2> HIDE DEF n
  <2> QED
    BY <1>4, <1>6, <2>1, <2>2, <2>4, ConsumeInv DEF g, h, late, tls13, behind, behind2, fits
<1>14. CASE ChangeCipherSpecRecord
  <2>1. phase # "messages" /\ todo # << >> /\ Current.rec.type = "ChangeCipherSpec"
    BY <1>5, <1>14 DEF ChangeCipherSpecRecord, NextRecordIs
  <2> DEFINE n == AfterChangeCipherSpec(conns[Flow], Current.rec, direction)
  <2>2. Consume(n)
    BY <1>3, <1>5, <1>14, <2>1 DEF ChangeCipherSpecRecord
  <2> HIDE DEF g, h, late, tls13, behind, behind2, fits
  <2>3. /\ Knows(n, tls13, h, late, behind2)
        /\ Logged < RECORD_LOG_CAP /\ Logs(conns[Flow], tls13, g, late, observed, Logged) =>
             Logs(n, tls13, h, late, observed, Logged + 1)
    BY <1>2, <1>4, <1>6, <2>1, CcsKnown
  <2> HIDE DEF n
  <2> QED
    BY <1>4, <1>6, <2>1, <2>2, <2>3, ConsumeInv DEF g, h, late, tls13, behind, behind2, fits
<1>15. CASE IgnoredRecord
  <2>1. todo # << >> /\ Current.rec.type = "Other"
    BY <1>5, <1>15 DEF IgnoredRecord, NextRecordIs
  <2> HIDE DEF g, h, late, tls13, behind, behind2, fits
  <2> QED
    BY <1>2, <1>4, <2>1, RecordKinds
<1>16. CASE Return
  <2>1. /\ phase = "records" /\ phase' = "evict" /\ todo = << >> /\ todo' = << >>
        /\ conns' = conns /\ tracked' = tracked /\ key' = key /\ now_ms' = now_ms
    BY <1>16 DEF Return, call
  <2>2. Before' = Before /\ Applied' = Before /\ Logged' = Logged
    BY <1>1, <2>1 DEF Before, Applied, Entered, Logged
  <2>3. PlaceInv'
    BY <1>1, <2>1, <2>2 DEF PeersInv, PlaceInv
  <2>4. KnownInv' /\ LoggedInv'
    BY <1>1, <1>6, <2>1, <2>2 DEF KnownInv, LoggedInv
  <2> QED
    BY <1>1, <2>3, <2>4 DEF PeersInv
<1>17. CASE EvictStale
  <2>1. /\ phase = "evict" /\ phase' = "idle" /\ todo' = todo /\ key' = key
        /\ now_ms' = now_ms /\ tracked' = {k \in tracked : Fresh(k)}
        /\ conns' = [k \in Keys |-> IF k \in tracked' THEN conns[k] ELSE Untracked]
    BY <1>17 DEF EvictStale, call
  <2>2. todo = << >>
    BY <2>1 DEF PeersInv, PeersTypeInv, SafetyInv, TypeInv, CallOK
  <2>3. Fresh(Flow)
    <3>1. Cutoff = 0
      BY <1>3, TrackerAssumption DEF Cutoff
    <3>2. conns[Flow].last_seen_ms \in Nat
      BY <1>2, TrackerAssumption DEF TrackedConnections
    <3> QED
      BY <3>1, <3>2 DEF Fresh
  <2>4. Flow \in tracked'
    BY <2>1, <2>3 DEF PeersInv, PlaceInv
  <2>5. conns'[Flow] = conns[Flow]
    BY <1>2, <2>1, <2>4
  <2>6. Before' = Before /\ Applied' = Before /\ Logged' = Logged
    BY <1>1, <2>1, <2>2 DEF Before, Applied, Entered, Logged
  <2>7. PlaceInv'
    BY <1>1, <1>3, <2>1, <2>2, <2>4, <2>6 DEF PeersInv, PlaceInv
  <2>8. KnownInv' /\ LoggedInv'
    BY <1>1, <1>6, <2>1, <2>5, <2>6 DEF KnownInv, LoggedInv
  <2> QED
    BY <1>1, <2>7, <2>8 DEF PeersInv
<1> QED
  BY <1>9, <1>10, <1>11, <1>12, <1>13, <1>14, <1>15, <1>16, <1>17 DEF StepOfCall

LEMMA PeersInvNext == PeersInv /\ [PeersNext]_<<vars, peerVars>> => PeersInv'
<1> SUFFICES ASSUME PeersInv, [PeersNext]_<<vars, peerVars>> PROVE PeersInv'
  OBVIOUS
<1>1. PeersTypeInv'
  BY PeersTypeNext DEF PeersInv
<1>2. CASE \E d \in Directions : Observe(d)
  BY <1>2, ObserveInv
<1>3. CASE Track
  BY <1>1, <1>3, TrackInv DEF Track
<1>4. CASE UNCHANGED <<vars, peerVars>>
  <2>1. /\ ends' = ends /\ session' = session /\ sent' = sent /\ observed' = observed
        /\ conns' = conns /\ tracked' = tracked /\ phase' = phase /\ key' = key
        /\ direction' = direction /\ now_ms' = now_ms /\ todo' = todo
        /\ remaining' = remaining
    BY <1>4 DEF vars, peerVars
  <2>2. /\ Flow' = Flow /\ EarlyDataLate' = EarlyDataLate /\ Current' = Current
        /\ Before' = Before /\ Applied' = Applied /\ Logged' = Logged
    BY <2>1 DEF Flow, EarlyDataLate, Current, Before, Applied, Entered, Logged
  <2>3. CurrentInv => CurrentInv'
    BY <2>1, <2>2 DEF CurrentInv
  <2>4. PlaceInv' /\ ObservedInv'
    BY <2>1, <2>2, <2>3 DEF PeersInv, PlaceInv, ObservedInv, Seen
  <2>5. KnownInv' /\ LoggedInv'
    BY <2>1, <2>2 DEF PeersInv, KnownInv, LoggedInv
  <2> QED
    BY <1>1, <2>4, <2>5 DEF PeersInv
<1> QED
  BY <1>2, <1>3, <1>4 DEF PeersNext

LEMMA PeersInvariant ==
  ASSUME Orderly
  PROVE  PeersSpec => []PeersInv
<1> QED
  BY PeersInvInit, PeersInvNext, PTL DEF PeersSpec

-----------------------------------------------------------------------------
(* What follows for the list and the diagram.                              *)

\* What is known of the connection was sent, and is seen.
LEMMA Known ==
  ASSUME PeersInv
  PROVE  \E c \in TrackedConnections : \E g : \E behind :
           /\ c = conns[Flow] /\ ConnOK(c)
           /\ Knows(c, session.tls13, g, EarlyDataLate, behind)
           /\ Grounded(session.tls13, g)
           /\ \A d \in Directions : \A is \in Meanings : is \in g[d] => Seen(d, is)
<1>1. conns[Flow] \in TrackedConnections /\ ConnOK(conns[Flow])
  <2>1. Flow \in Keys
    BY SameFlow DEF Flow, PeersInv, PeersTypeInv, C2S, S2C, Directions
  <2> QED
    BY <2>1 DEF PeersInv, PeersTypeInv, SafetyInv, AllConnOK, TypeInv, TypeOK
<1>2. Causal(session, Applied) /\ Applied \in [Directions -> Nat]
      /\ \A d \in Directions : Applied[d] <= sent[d]
  <2>1. CASE Applied = sent
    <3>1. sent \in [Directions -> Nat] /\ \A d \in Directions : sent[d] <= sent[d]
      BY DEF PeersInv, PeersTypeInv
    <3>2. todo # << >> => Causal(session, sent)
      BY CurrentComes
    <3>3. todo = << >> => Causal(session, sent)
      BY DEF PeersInv, PlaceInv, Before
    <3> QED
      BY <2>1, <3>1, <3>2, <3>3
  <2>2. CASE Applied # sent
    <3>1. Applied = Before /\ todo # << >> /\ Causal(session, Before)
      BY <2>2 DEF Applied, Before, PeersInv, PlaceInv
    <3>2. Before = [sent EXCEPT ![direction] = @ - 1]
      BY <3>1 DEF Before
    <3>3. sent \in [Directions -> Nat] /\ direction \in Directions
          /\ sent[direction] \in Nat \ {0}
      BY <3>1 DEF PeersInv, PeersTypeInv, PlaceInv, CurrentInv, SafetyInv, TypeInv, TypeOK
    <3>4. PICK k \in Nat : k = sent[direction] - 1 /\ k <= sent[direction]
      BY <3>3
    <3>5. Before = [sent EXCEPT ![direction] = k]
      BY <3>2, <3>4
    <3>6. \A d \in Directions : sent[d] <= sent[d]
      BY <3>3
    <3> QED
      BY <3>1, <3>3, <3>4, <3>5, <3>6
  <2> QED
    BY <2>1, <2>2
<1>3. Grounded(session.tls13, Sent(session, Applied))
  BY <1>2, SentGrounded DEF PeersInv, PeersTypeInv, PlaceInv
<1>4. \A d \in Directions : \A is \in Meanings :
        is \in Sent(session, Applied)[d] => Seen(d, is)
  <2> SUFFICES ASSUME NEW d \in Directions, NEW is \in Meanings,
                      is \in Got(session, d, Applied[d])
               PROVE  Seen(d, is)
    BY DEF Sent
  <2>1. Applied[d] \in Int /\ sent[d] \in Int /\ Applied[d] <= sent[d]
    BY <1>2 DEF PeersInv, PeersTypeInv
  <2>2. is \in Got(session, d, sent[d])
    BY <2>1, GotGrows
  <2> QED
    BY <2>2 DEF PeersInv, ObservedInv
<1> QED
  BY <1>1, <1>3, <1>4 DEF PeersInv, KnownInv

LEMMA NeverAhead == PeersInv => StageNeverAhead
<1> SUFFICES ASSUME PeersInv, ~EarlyDataLate
             PROVE  /\ Stage = "ClientFinished" => HasFinished("ClientToServer")
                    /\ Stage = "ServerFinished" => HasFinished("ServerToClient")
                    /\ Stage = "ApplicationData" => SeenBoth("Finished")
  BY DEF StageNeverAhead
<1>1. PICK c \in TrackedConnections : \E g : \E behind :
        /\ c = conns[Flow] /\ ConnOK(c)
        /\ Knows(c, session.tls13, g, EarlyDataLate, behind)
        /\ Grounded(session.tls13, g)
        /\ \A d \in Directions : \A is \in Meanings : is \in g[d] => Seen(d, is)
  BY Known
<1>2. PICK g, behind :
        /\ c = conns[Flow] /\ ConnOK(c)
        /\ Knows(c, session.tls13, g, EarlyDataLate, behind)
        /\ Grounded(session.tls13, g)
        /\ \A d \in Directions : \A is \in Meanings : is \in g[d] => Seen(d, is)
  BY <1>1
<1>3. /\ \A d \in Directions : "Finished" \in g[d] => Seen(d, "Finished")
      /\ \A d \in Directions : "ChangeCipherSpec" \in g[d] => Seen(d, "ChangeCipherSpec")
  BY <1>2 DEF Meanings
<1>4. "ClientToServer" \in Directions /\ "ServerToClient" \in Directions
  BY DEF Directions
<1>5. Stage = c.stage
  BY <1>2 DEF Stage
<1>6. CASE session.tls13
  <2>1. Exact13(c, g)
    BY <1>2, <1>6 DEF Knows, Facts, Facts13
  <2> QED
    BY <1>3, <1>4, <1>5, <2>1 DEF Exact13, HasFinished, SeenBoth, C2S, S2C
<1>7. CASE ~session.tls13
  <2>1. Facts12(c, g) /\ \A d \in Directions : c.ccs_seen[d] <=> "ChangeCipherSpec" \in g[d]
    BY <1>2, <1>7 DEF Knows, Facts
  <2>2. ~c.saw_client_finished_marker /\ ~(c.encrypted_records_from["ServerToClient"] >= 4)
    BY <1>2, <2>1 DEF Facts12, ConnOK, FinishAgrees, C2S, S2C
  <2>3. /\ c.stage = "ClientFinished" => c.ccs_seen["ClientToServer"]
        /\ c.stage = "ServerFinished" => c.ccs_seen["ServerToClient"]
    BY <1>2, <2>2 DEF ConnOK, StageBacked
  <2> QED
    BY <1>3, <1>4, <1>5, <1>7, <2>1, <2>3 DEF Facts12, HasFinished, SeenBoth
<1> QED
  BY <1>6, <1>7

(* The stage shown is never ahead of the session, for every session of the *)
(* grammar and every interleaving of its two directions, unless early data *)
(* came late (apply_ccs, apply_encrypted_record).                          *)
THEOREM NeverAheadOfSession ==
  ASSUME Orderly
  PROVE  PeersSpec => []StageNeverAhead
<1> QED
  BY NeverAhead, PeersInvariant, PTL

\* The steps that each diagram has.
LEMMA OnOrdered ==
  ASSUME NEW c, NEW stage
  PROVE  /\ c.tls_version # "Tls12" =>
              (OnDiagram(c, stage) <=>
                 stage \in {"ClientHello", "ServerHello", "Certificate", "ClientFinished",
                            "ServerFinished", "ApplicationData"})
         /\ c.tls_version = "Tls12" =>
              (OnDiagram(c, stage) <=>
                 stage \in {"ClientHello", "ServerHello", "ServerCertificate",
                            "ServerKeyExchange", "ServerHelloDone", "ClientKeyExchange",
                            "ClientFinished", "ServerFinished", "ApplicationData"})
<1>1. DOMAIN Ordered = 1..6 /\ DOMAIN OrderedTls12 = 1..9
  BY DEF Ordered, OrderedTls12
<1>2. 1..6 = {1, 2, 3, 4, 5, 6} /\ 1..9 = {1, 2, 3, 4, 5, 6, 7, 8, 9}
  OBVIOUS
<1>3. (\E i \in DOMAIN Ordered : Ordered[i] = stage) <=>
        stage \in {"ClientHello", "ServerHello", "Certificate", "ClientFinished",
                   "ServerFinished", "ApplicationData"}
  BY <1>1, <1>2 DEF Ordered
<1>4. (\E i \in DOMAIN OrderedTls12 : OrderedTls12[i] = stage) <=>
        stage \in {"ClientHello", "ServerHello", "ServerCertificate",
                   "ServerKeyExchange", "ServerHelloDone", "ClientKeyExchange",
                   "ClientFinished", "ServerFinished", "ApplicationData"}
  BY <1>1, <1>2 DEF OrderedTls12
<1> QED
  BY <1>3, <1>4 DEF OnDiagram, Steps, IsTls12

\* The steps that the rows of a session highlight.
LEMMA RowHighlights ==
  ASSUME NEW c, NEW i, NEW tls13 \in BOOLEAN, NEW g, c.records[i].direction \in Directions,
         Fits(c.records[i].label, c.records[i].outer_type, tls13, g, c.records[i].direction),
         tls13 => c.tls_version # "Tls12",
         ~tls13 /\ "ServerHello" \in g[S2C] => c.tls_version = "Tls12",
         NEW s \in Highlighted(c, i)
  PROVE  /\ c.records[i].direction \in StepDirections(s)
         /\ StepEncrypted(s) <=> c.records[i].label \notin Decoded
         /\ OnDiagram(c, s)
<1>1. PICK d \in Directions : \E l : l = c.records[i].label /\ d = c.records[i].direction
  OBVIOUS
<1>8. PICK l : l = c.records[i].label /\ d = c.records[i].direction
  BY <1>1
<1>2. c.records[i].outer_type # "ChangeCipherSpec"
  <2>1. c.records[i].outer_type = "ChangeCipherSpec" => Highlighted(c, i) = {}
    BY DEF Highlighted
  <2> QED
    BY <2>1
<1>3. /\ l \in LabelsOf(tls13, d) /\ l # "ChangeCipherSpec"
      /\ l = "ClientHello" \/ tls13 \/ "ServerHello" \in g[S2C]
  BY <1>8, <1>2 DEF Fits
<1>4. s \in IF l \in Decoded THEN PlaintextStage(l, d, IsTls12(c)) ELSE EncryptedStages(l, d)
  BY <1>8, <1>2 DEF Highlighted
<1>5. c.tls_version = "Tls12" => ~tls13
  OBVIOUS
<1>6. /\ d \in StepDirections(s) /\ (StepEncrypted(s) <=> l \notin Decoded)
      /\ \/ s = "ClientHello"
         \/ tls13 /\ s \in {"ServerHello", "Certificate", "ClientFinished", "ServerFinished",
                            "ApplicationData"}
         \/ ~tls13 /\ c.tls_version = "Tls12"
            /\ s \in {"ServerHello", "ServerCertificate", "ServerKeyExchange",
                      "ServerHelloDone", "ClientKeyExchange", "ClientFinished",
                      "ServerFinished", "ApplicationData"}
  <2>1. CASE l \in Decoded
    <3>1. s \in PlaintextStage(l, d, IsTls12(c))
      BY <1>4, <2>1
    <3>2. CASE l = "ClientHello"
      <4>1. s = "ClientHello" /\ d = C2S
        BY <1>3, <3>1, <3>2 DEF PlaintextStage, LabelsOf
      <4> QED
        BY <2>1, <4>1 DEF StepDirections, StepEncrypted, C2S
    <3>3. CASE l \in {"ServerHello", "HelloRetryRequest"}
      <4>1. s = "ServerHello" /\ d = S2C
        BY <1>3, <3>1, <3>3 DEF PlaintextStage, LabelsOf, C2S, S2C, Directions
      <4> QED
        BY <1>3, <2>1, <3>3, <4>1 DEF StepDirections, StepEncrypted, S2C
    <3>4. CASE l \in {"Certificate", "ServerKeyExchange", "ServerDone", "ClientKeyExchange"}
      <4>1. ~tls13
        BY <1>3, <3>4 DEF LabelsOf
      <4>2. IsTls12(c) /\ c.tls_version = "Tls12"
        BY <1>3, <3>4, <4>1 DEF IsTls12
      <4>3. \/ d = S2C /\ s \in {"ServerCertificate", "ServerKeyExchange", "ServerHelloDone"}
            \/ d = C2S /\ s = "ClientKeyExchange"
        BY <1>3, <3>1, <3>4, <4>1, <4>2 DEF PlaintextStage, LabelsOf, C2S, S2C, Directions
      <4> QED
        BY <2>1, <4>1, <4>2, <4>3 DEF StepDirections, StepEncrypted, C2S, S2C
    <3> QED
      BY <1>3, <2>1, <3>2, <3>3, <3>4 DEF LabelsOf, Decoded
  <2>2. CASE l \notin Decoded
    <3>1. s \in EncryptedStages(l, d)
      BY <1>4, <2>2
    <3>2. \/ s = "ApplicationData"
          \/ s = "ClientFinished" /\ d = C2S
          \/ s \in {"Certificate", "ServerFinished"} /\ tls13 /\ d = S2C
      <4>1. CASE d = C2S
        BY <1>3, <2>2, <3>1, <4>1 DEF EncryptedStages, LabelsOf, FinishedOf, Decoded, C2S
      <4>2. CASE d = S2C
        BY <1>3, <2>2, <3>1, <4>2 DEF EncryptedStages, LabelsOf, FinishedOf, Decoded, C2S, S2C
      <4> QED
        BY <1>1, <4>1, <4>2 DEF Directions, C2S, S2C
    <3>3. l # "ClientHello"
      BY <2>2 DEF Decoded
    <3>4. tls13 \/ c.tls_version = "Tls12"
      BY <1>3, <3>3
    <3> QED
      BY <1>1, <2>2, <3>2, <3>4 DEF StepDirections, StepEncrypted, C2S, S2C
  <2> QED
    BY <2>1, <2>2
<1>7. OnDiagram(c, s)
  <2>1. CASE c.tls_version = "Tls12"
    BY <1>5, <1>6, <2>1, OnOrdered
  <2>2. CASE c.tls_version # "Tls12"
    BY <1>6, <2>2, OnOrdered
  <2> QED
    BY <2>1, <2>2
<1> QED
  BY <1>8, <1>6, <1>7

LEMMA RowsAndStage == PeersInv => DiagramComplete /\ ArrowsTruthful
<1> SUFFICES ASSUME PeersInv PROVE DiagramComplete /\ ArrowsTruthful
  OBVIOUS
<1>1. PICK c \in TrackedConnections : \E g : \E behind :
        /\ c = conns[Flow] /\ ConnOK(c)
        /\ Knows(c, session.tls13, g, EarlyDataLate, behind)
        /\ Grounded(session.tls13, g)
        /\ \A d \in Directions : \A is \in Meanings : is \in g[d] => Seen(d, is)
  BY Known
<1>2. PICK g, behind :
        /\ c = conns[Flow] /\ ConnOK(c)
        /\ Knows(c, session.tls13, g, EarlyDataLate, behind)
  BY <1>1
<1>3. session.tls13 \in BOOLEAN
  <2>1. C2S \in Directions
    BY DEF C2S, Directions
  <2> QED
    BY <2>1, SessionType DEF PeersInv, PeersTypeInv
<1>4. PICK tls13 \in BOOLEAN : tls13 = session.tls13
  BY <1>3
<1>5. /\ tls13 => Facts13(c, g, EarlyDataLate, behind)
      /\ ~tls13 => Facts12(c, g)
      /\ ~c.error /\ LabelsFit(c, tls13, g)
  BY <1>2, <1>4 DEF Knows, Facts
<1>6. /\ tls13 => c.tls_version # "Tls12"
      /\ ~tls13 /\ "ServerHello" \in g[S2C] => c.tls_version = "Tls12"
  BY <1>5 DEF Facts13, Facts12
<1>7. Stage = c.stage /\ Shown = c.records
  BY <1>2 DEF Stage, Shown
<1>8. ASSUME NEW i \in 1..Len(c.records), NEW s \in Highlighted(c, i)
      PROVE  /\ c.records[i].direction \in StepDirections(s)
             /\ StepEncrypted(s) <=> c.records[i].label \notin Decoded
             /\ OnDiagram(c, s)
  <2>1. c.records[i].direction \in Directions
    <3>1. c.records[i] \in RecordEvents
      BY ElementOfSeq DEF TrackedConnections
    <3> QED
      BY <3>1 DEF RecordEvents
  <2>2. Fits(c.records[i].label, c.records[i].outer_type, tls13, g, c.records[i].direction)
    BY <1>5 DEF LabelsFit
  <2> QED
    BY <1>6, <2>1, <2>2, RowHighlights
<1>9. c.stage \notin {"Idle", "Errored"} => OnDiagram(c, c.stage)
  <2>1. CASE tls13
    BY <1>5, <1>6, <2>1, OnOrdered DEF Facts13, Stages13
  <2>2. CASE ~tls13 /\ "ServerHello" \in g[S2C]
    <3>1. c.tls_version = "Tls12" /\ c.stage \in Stages /\ c.stage # "Certificate"
      BY <1>2, <1>6, <2>2 DEF TrackedConnections, ConnOK, StageBacked
    <3> QED
      BY <3>1, OnOrdered DEF Stages
  <2>3. CASE ~tls13 /\ "ServerHello" \notin g[S2C]
    <3>1. c.stage \in {"Idle", "ClientHello"}
      BY <1>5, <2>3 DEF Facts12
    <3> QED
      BY <3>1, OnOrdered
  <2> QED
    BY <2>1, <2>2, <2>3
<1>10. DiagramComplete
  BY <1>2, <1>7, <1>8, <1>9 DEF DiagramComplete
<1>11. ArrowsTruthful
  BY <1>2, <1>7, <1>8 DEF ArrowsTruthful
<1> QED
  BY <1>10, <1>11

(* Every stage reached and every highlighted step is drawn in the diagram  *)
(* of the version shown (render in src/src/ui/panels/flow.rs).             *)
THEOREM DiagramsComplete ==
  ASSUME Orderly
  PROVE  PeersSpec => []DiagramComplete
<1>1. PeersInv => DiagramComplete
  BY RowsAndStage
<1> QED
  BY <1>1, PeersInvariant, PTL

(* The arrow and the E mark of the step that a row highlights are those of *)
(* its record (step_meta, selected_record_stage).                          *)
THEOREM ArrowsAreTruthful ==
  ASSUME Orderly
  PROVE  PeersSpec => []ArrowsTruthful
<1>1. PeersInv => ArrowsTruthful
  BY RowsAndStage
<1> QED
  BY <1>1, PeersInvariant, PTL

LEMMA TimelineTruthful ==
  ASSUME Loggable
  PROVE  PeersInv => LabelsTruthful
<1> SUFFICES ASSUME PeersInv, phase = "idle" PROVE LabelsTruthful
  BY DEF LabelsTruthful
<1>1. todo = << >>
  BY DEF PeersInv, PeersTypeInv, SafetyInv, TypeInv, CallOK
<1>2. HellosInClear(session) /\ FitsTheLog(session)
  BY DEF Loggable, PeersInv, PeersTypeInv
<1>3. LogMatches(conns[Flow], EarlyDataLate, observed, Len(observed))
  BY <1>1, <1>2 DEF PeersInv, LoggedInv, Logs, Logged
<1> QED
  BY <1>3 DEF LogMatches, LabelsTruthful, Shown, Truthful, C2S

(* Between calls the timeline says truly, in order and without gaps, what  *)
(* passed the capture point, for every session whose hellos come before    *)
(* its ChangeCipherSpec and whose records fit the log (canonical,          *)
(* build_body, encrypted_flight_label, post_ccs_handshake_label).          *)
THEOREM TimelineIsTruthful ==
  ASSUME Orderly, Loggable
  PROVE  PeersSpec => []LabelsTruthful
<1> QED
  BY TimelineTruthful, PeersInvariant, PTL

LEMMA WholeReported ==
  ASSUME Loggable, Complete
  PROVE  PeersInv => WholeSessionReported
<1> DEFINE g == Sent(session, sent)
           c == conns[Flow]
<1> SUFFICES ASSUME PeersInv, phase = "idle",
                    \A d \in Directions : sent[d] = Len(session.sends[d])
             PROVE  /\ c.stage = "ApplicationData"
                    /\ \/ CompatibilityMode \/ EarlyDataLate
                       \/ \A d \in Directions : Finishes(d)
  BY DEF WholeSessionReported, Stage
<1>1. todo = << >>
  BY DEF PeersInv, PeersTypeInv, SafetyInv, TypeInv, CallOK
<1>2. session \in Sessions /\ sent \in [Directions -> Nat]
  BY DEF PeersInv, PeersTypeInv
<1>3. Facts(c, session.tls13, g, EarlyDataLate, HelloBehind(session, sent[C2S]))
  BY <1>1 DEF PeersInv, KnownInv, Knows, Applied, Entered, Before
<1>4. FinishedLogged(c, session.tls13, g, EarlyDataLate, observed)
  BY <1>1, <1>2 DEF PeersInv, LoggedInv, Loggable, Logs, Applied, Entered, Before
<1>5. /\ \A d \in Directions : "Finished" \in g[d]
      /\ "Data" \in g[C2S]
  <2>1. RunsToTheEnd(session)
    BY <1>2 DEF Complete
  <2>2. C2S \in Directions
    BY DEF C2S, Directions
  <2>3. /\ \A d \in Directions : Earlier(session, d, sent[d], "Finished")
        /\ Earlier(session, C2S, sent[C2S], "Data")
    BY <2>1, <2>2 DEF RunsToTheEnd, C2S
  <2> QED
    BY <1>2, <2>2, <2>3, EarlierIsGot DEF Sent
<1>6. c.stage = "ApplicationData"
  <2> HIDE DEF c, g
  <2>1. C2S \in Directions
    BY DEF C2S, Directions
  <2> QED
    BY <1>3, <1>5, <2>1 DEF Facts, Facts12, Facts13
<1>7. BothChanged(session.tls13, g) => CompatibilityMode
  BY DEF BothChanged, CompatibilityMode, SeenBoth, PeersInv, ObservedInv, Sent, Meanings
<1>8. \A d \in Directions : FinishedShown(c, observed, d) => Finishes(d)
  BY DEF FinishedShown, Finishes, Shown
<1> QED
  BY <1>4, <1>5, <1>6, <1>7, <1>8 DEF FinishedLogged

(* A session observed to its end is reported to its end (ingest's          *)
(* completion signal, apply_encrypted_record, apply_ccs).                  *)
THEOREM WholeSessionsAreReported ==
  ASSUME Orderly, Loggable, Complete
  PROVE  PeersSpec => []WholeSessionReported
<1> QED
  BY WholeReported, PeersInvariant, PTL

-----------------------------------------------------------------------------
(* The step that a row highlights is the stage its record led to.          *)

\* A row with this label highlights the connection's stage.
Leads(label, d, c) == PlaintextStage(label, d, IsTls12(c)) = {c.stage}

EnteredInv == Entered => Leads(Current.rec.decoded, direction, conns[Flow])

\* The message parsed and the label shown are of one kind.
LEMMA MessageDecoded ==
  ASSUME NEW w, NEW tls13 \in BOOLEAN, NEW d \in Directions, Looks(w, tls13, d),
         w.is \in May(tls13, d), w.is \in InClear, NEW m, w.rec.msgs = <<m>>
  PROVE  \/ w.is = "ClientHello" /\ d = C2S /\ m.kind = "ClientHello"
            /\ w.rec.decoded = "ClientHello"
         \/ w.is \in {"ServerHello", "HelloRetryRequest"} /\ d = S2C /\ m.kind = "ServerHello"
            /\ w.rec.decoded \in {"ServerHello", "HelloRetryRequest"}
         \/ w.is = "Plaintext" /\ ~tls13 /\ d = C2S /\ m.kind = "ClientKeyExchange"
            /\ w.rec.decoded = "ClientKeyExchange"
         \/ w.is = "Plaintext" /\ ~tls13 /\ d = S2C /\ w.rec.decoded = m.kind
            /\ m.kind \in {"Certificate", "ServerKeyExchange", "ServerDone"}
<1> USE DEF C2S, S2C, Directions, Clear, Message
<1>1. CASE w.is = "ClientHello"
  BY <1>1 DEF Looks, ClientHelloWire, May
<1>2. CASE w.is = "ServerHello"
  BY <1>2 DEF Looks, ServerHelloWire, May
<1>3. CASE w.is = "HelloRetryRequest"
  BY <1>3 DEF Looks, RetryWire, May
<1>4. CASE w.is = "Plaintext"
  BY <1>4 DEF Looks, PlaintextWire, May
<1> QED
  BY <1>1, <1>2, <1>3, <1>4 DEF InClear

LEMMA MessageStage ==
  ASSUME NEW c \in TrackedConnections, NEW w, NEW tls13 \in BOOLEAN, NEW g, NEW h,
         NEW d \in Directions, NEW late, NEW behind, NEW behind2,
         Comes(w, tls13, g, h, d, behind, behind2), Knows(c, tls13, g, late, behind),
         w.is \in InClear, NEW m \in Messages, w.rec.msgs = <<m>>
  PROVE  Leads(w.rec.decoded, d, ApplyHandshakeMessage(c, m, d))
<1>0. Looks(w, tls13, d) /\ w.is \in May(tls13, d)
  BY DEF Comes, Legal
<1>1. \/ w.is = "ClientHello" /\ d = C2S /\ m.kind = "ClientHello"
         /\ w.rec.decoded = "ClientHello"
      \/ w.is \in {"ServerHello", "HelloRetryRequest"} /\ d = S2C /\ m.kind = "ServerHello"
         /\ w.rec.decoded \in {"ServerHello", "HelloRetryRequest"}
      \/ w.is = "Plaintext" /\ ~tls13 /\ d = C2S /\ m.kind = "ClientKeyExchange"
         /\ w.rec.decoded = "ClientKeyExchange"
      \/ w.is = "Plaintext" /\ ~tls13 /\ d = S2C /\ w.rec.decoded = m.kind
         /\ m.kind \in {"Certificate", "ServerKeyExchange", "ServerDone"}
  BY <1>0, MessageDecoded
<1> USE DEF C2S, S2C, ApplyHandshakeMessage, TrackedConnections, PlaintextStage, IsTls12,
        Leads
<1>2. CASE w.is = "ClientHello"
  BY <1>1, <1>2 DEF MergeClientHello
<1>3. CASE w.is \in {"ServerHello", "HelloRetryRequest"}
  BY <1>1, <1>3 DEF MergeServerHello
<1>4. CASE w.is = "Plaintext"
  <2>1. ~tls13 /\ Legal(FALSE, g, d, w.is) /\ Grounded(FALSE, g)
    BY <1>1, <1>4 DEF Comes
  <2>2. "ServerHello" \in g[S2C]
    BY <1>4, <2>1, Legal12
  <2>3. c.tls_version = "Tls12"
    BY <2>1, <2>2 DEF Knows, Facts, Facts12
  <2> QED
    BY <1>1, <1>4, <2>1, <2>3
<1> QED
  BY <1>2, <1>3, <1>4 DEF InClear

LEMMA CurrentStage ==
  ASSUME conns[Flow] \in TrackedConnections, NEW tls13 \in BOOLEAN, NEW g, NEW h,
         direction \in Directions, NEW late, NEW behind, NEW behind2,
         Comes(Current, tls13, g, h, direction, behind, behind2),
         Knows(conns[Flow], tls13, g, late, behind),
         Current.is \in InClear, NEW m \in Messages, Current.rec.msgs = <<m>>
  PROVE  Leads(Current.rec.decoded, direction, ApplyHandshakeMessage(conns[Flow], m, direction))
<1>1. PICK c \in TrackedConnections : c = conns[Flow]
  OBVIOUS
<1>2. PICK d \in Directions : d = direction
  OBVIOUS
<1>3. PICK w : w = Current
  OBVIOUS
<1>4. /\ Comes(w, tls13, g, h, d, behind, behind2) /\ Knows(c, tls13, g, late, behind)
      /\ w.is \in InClear /\ w.rec.msgs = <<m>>
  BY <1>1, <1>2, <1>3
<1>5. Leads(w.rec.decoded, d, ApplyHandshakeMessage(c, m, d))
  BY <1>4, MessageStage
<1> QED
  BY <1>1, <1>2, <1>3, <1>5

\* Where the call in progress is.
LEMMA InCall ==
  ASSUME PeersInv
  PROVE  /\ Flow \in Keys /\ conns \in [Keys -> TrackedConnections]
         /\ conns[Flow] \in TrackedConnections /\ direction \in Directions
         /\ session.tls13 \in BOOLEAN /\ key = Flow
         /\ todo # << >> => Head(todo) = Current.rec /\ Current.rec \in Records
<1>1. Flow \in Keys
  BY SameFlow DEF Flow, PeersInv, PeersTypeInv, C2S, S2C, Directions
<1>2. todo # << >> => todo = <<Current.rec>> /\ todo \in Seq(Records)
  BY DEF PeersInv, PeersTypeInv, SafetyInv, TypeInv, TypeOK, PlaceInv, CurrentInv
<1>3. todo # << >> => Head(todo) = Current.rec /\ Current.rec \in Records
  <2> SUFFICES ASSUME todo # << >>
               PROVE  Head(todo) = Current.rec /\ Current.rec \in Records
    OBVIOUS
  <2>1. PICK r : r = Current.rec
    OBVIOUS
  <2>2. <<r>> \in Seq(Records) /\ todo = <<r>>
    BY <1>2, <2>1
  <2>3. r \in Records /\ Head(<<r>>) = r
    BY <2>2, ElementOfSeq
  <2> QED
    BY <2>1, <2>2, <2>3
<1> QED
  BY <1>1, <1>3, SessionType
     DEF PeersInv, PeersTypeInv, SafetyInv, TypeInv, TypeOK, PlaceInv

LEMMA EnteredInvNext ==
  PeersInv /\ EnteredInv /\ [PeersNext]_<<vars, peerVars>> => EnteredInv'
<1> SUFFICES ASSUME PeersInv, EnteredInv, [PeersNext]_<<vars, peerVars>>, Entered'
             PROVE  Leads(Current.rec.decoded, direction, conns[Flow])'
  BY DEF EnteredInv
<1>1. phase' = "messages" /\ remaining' = << >>
  BY DEF Entered
<1>2. ~\E d \in Directions : Observe(d)
  BY <1>1 DEF Observe, Ingest
<1>3. CASE UNCHANGED <<vars, peerVars>>
  BY <1>3 DEF EnteredInv, Entered, Leads, Current, Flow, vars, peerVars
<1>4. CASE (BeginHandshakeRecord \/ ApplyMessage) /\ UNCHANGED peerVars
  <2> DEFINE late == EarlyDataLate
             tls13 == session.tls13
             g == Sent(session, Before)
             h == Sent(session, sent)
             behind == HelloBehind(session, Before[C2S])
             behind2 == HelloBehind(session, sent[C2S])
  <2>1. /\ todo # << >> /\ ~Entered
        /\ Current.rec.type = "Handshake" /\ ~conns[Flow].ccs_seen[direction]
    BY <1>4, InCall
       DEF BeginHandshakeRecord, ApplyMessage, NextRecordIs, Entered, PeersInv, PeersTypeInv,
           SafetyInv, TypeInv, CallOK
  <2>2. Knows(conns[Flow], tls13, g, late, behind)
    BY <2>1 DEF PeersInv, KnownInv, Applied
  <2>3. Comes(Current, tls13, g, h, direction, behind, behind2)
    BY <2>1, CurrentComes
  <2>4. conns[Flow] \in TrackedConnections /\ tls13 \in BOOLEAN /\ direction \in Directions
    BY InCall
  <2> HIDE DEF g, h, late, tls13, behind, behind2
  <2>5. PICK m \in Messages : Current.rec.msgs = <<m>>
    BY <2>1, <2>2, <2>3, <2>4, CurrentMessage
  <2>6. Current.is \in InClear
    BY <2>1, <2>2, <2>3, <2>4, CurrentMessage
  <2> DEFINE n == ApplyHandshakeMessage(conns[Flow], m, direction)
  <2>7. Leads(Current.rec.decoded, direction, n)
    BY <2>2, <2>3, <2>4, <2>5, <2>6, CurrentStage
  <2>8. ~BeginHandshakeRecord
    <3>1. BeginHandshakeRecord => remaining' = Current.rec.msgs
      BY InCall, <2>1 DEF BeginHandshakeRecord
    <3> QED
      BY <1>1, <2>5, <3>1
  <2>9. ApplyMessage
    BY <1>4, <2>8
  <2>10. remaining = <<m>>
    BY <2>5, <2>9 DEF ApplyMessage, PeersInv, PlaceInv
  <2>11. conns' = [conns EXCEPT ![Flow] = n] /\ direction' = direction
    BY <2>9, <2>10, InCall DEF ApplyMessage, call
  <2> HIDE DEF n
  <2>12. conns'[Flow] = n
    BY <2>11, InCall
  <2>13. Flow' = Flow /\ Current' = Current
    BY <1>4, <2>11, Unobserved DEF Current
  <2> QED
    BY <2>7, <2>11, <2>12, <2>13 DEF Leads
<1> QED
  BY <1>1, <1>2, <1>3, <1>4
     DEF PeersNext, Track, StepOfCall, EndHandshakeRecord, PostCcsHandshakeRecord,
         ApplicationDataRecord, ChangeCipherSpecRecord, IgnoredRecord, Return, EvictStale,
         Consume

\* What a step shows decoded.
AddsDecoded(c, n) ==
  Len(n.records) > Len(c.records) /\ n.records[Len(n.records)].label \in Decoded

LEMMA PushedDecoded ==
  ASSUME NEW c \in TrackedConnections, NEW r \in Records, NEW d \in Directions,
         r.type # "Other", AddsDecoded(c, PushRecordEvent(c, r, d))
  PROVE  LET n == PushRecordEvent(c, r, d)
         IN  /\ n.records[Len(n.records)] = RecordEvent(c, r, d)
             /\ BuildBody(c, r, d) \in Decoded
<1> DEFINE n == PushRecordEvent(c, r, d)
           e == RecordEvent(c, r, d)
<1>1. \/ n.records = c.records
      \/ Len(n.records) = Len(c.records) + 1 /\ n.records[Len(c.records) + 1] = e
  BY PushedLog
<1>2. PICK k \in Nat : Len(c.records) = k
  BY LenProperties DEF TrackedConnections
<1>3. Len(n.records) > Len(c.records) /\ n.records[Len(n.records)].label \in Decoded
  BY DEF AddsDecoded
<1>4. e.label = BuildBody(c, r, d)
  BY DEF RecordEvent
<1> HIDE DEF n, e
<1>5. n.records[Len(n.records)] = e
  BY <1>1, <1>2, <1>3
<1> QED
  BY <1>3, <1>4, <1>5 DEF n, e

\* Of the four kinds of records only the plaintext handshake ones.
LEMMA OtherArmsEncrypted ==
  ASSUME NEW c \in TrackedConnections, NEW r \in Records, NEW d \in Directions
  PROVE  /\ r.type = "Handshake" /\ c.ccs_seen[d] =>
              ~AddsDecoded(c, AfterPostCcsHandshake(c, r, d))
         /\ r.type = "ApplicationData" => ~AddsDecoded(c, AfterApplicationData(c, r, d))
         /\ r.type = "ChangeCipherSpec" => ~AddsDecoded(c, AfterChangeCipherSpec(c, r, d))
<1>1. ASSUME r.type = "Handshake", c.ccs_seen[d]
      PROVE  ~AddsDecoded(c, AfterPostCcsHandshake(c, r, d))
  <2>1. AfterPostCcsHandshake(c, r, d).records = PushRecordEvent(c, r, d).records
    BY PushType DEF AfterPostCcsHandshake, TrackedConnections
  <2>2. BuildBody(c, r, d) \notin Decoded
    BY <1>1 DEF BuildBody, PostCcsHandshakeLabel, Decoded
  <2> QED
    BY <1>1, <2>1, <2>2, PushedDecoded DEF AddsDecoded
<1>2. ASSUME r.type = "ApplicationData"
      PROVE  ~AddsDecoded(c, AfterApplicationData(c, r, d))
  <2>1. PICK s : s = Encrypted(c, d)
    OBVIOUS
  <2>2. s \in TrackedConnections /\ s.records = c.records
    BY <2>1, EncryptedShape
  <2>3. AfterApplicationData(c, r, d) = PushRecordEvent(s, r, d)
    BY <2>1 DEF AfterApplicationData, Encrypted
  <2>4. BuildBody(s, r, d) \notin Decoded
    BY <1>2 DEF BuildBody, EncryptedFlightLabel, Decoded
  <2> QED
    BY <1>2, <2>2, <2>3, <2>4, PushedDecoded DEF AddsDecoded
<1>3. ASSUME r.type = "ChangeCipherSpec"
      PROVE  ~AddsDecoded(c, AfterChangeCipherSpec(c, r, d))
  <2> DEFINE a == [ApplyCcs(c, d) EXCEPT !.ccs_seen[d] = TRUE]
  <2>1. a \in TrackedConnections /\ a.records = c.records
    BY DEF ApplyCcs, TrackedConnections, Stages, Directions
  <2>2. AfterChangeCipherSpec(c, r, d) = PushRecordEvent(a, r, d)
    BY DEF AfterChangeCipherSpec
  <2> HIDE DEF a
  <2>3. BuildBody(a, r, d) \notin Decoded
    BY <1>3 DEF BuildBody, Decoded
  <2> QED
    BY <1>3, <2>1, <2>2, <2>3, PushedDecoded DEF AddsDecoded
<1> QED
  BY <1>1, <1>2, <1>3

\* No step but the end of a plaintext handshake record adds a decoded row.
LEMMA OnlyEndDecodes ==
  ASSUME PeersInv, [PeersNext]_<<vars, peerVars>>,
         AddsDecoded(conns[Flow], conns'[Flow'])
  PROVE  EndHandshakeRecord /\ UNCHANGED peerVars
<1>1. Flow' = Flow
  BY DEF PeersNext, Observe, Track, Flow, vars, peerVars
<1>2. PICK c \in TrackedConnections : c = conns[Flow]
  BY InCall
<1>3. Len(c.records) \in Nat
  BY LenProperties DEF TrackedConnections
<1>4. conns'[Flow].records # conns[Flow].records
  BY <1>1, <1>2, <1>3 DEF AddsDecoded
<1>5. ~UNCHANGED <<vars, peerVars>>
  BY <1>4 DEF vars
<1>6. ~\E d \in Directions : Observe(d)
  <2> SUFFICES ASSUME NEW d \in Directions, Observe(d) PROVE FALSE
    OBVIOUS
  <2>1. PICK k, o : conns' = [conns EXCEPT ![k] = Touched(k, 0, o)]
    BY DEF Observe, Ingest
  <2>2. Flow \in tracked => conns'[Flow].records = conns[Flow].records
    BY <2>1, InCall DEF Touched, TrackedConnections
  <2>3. Flow \notin tracked => conns'[Flow] = conns[Flow] \/ conns'[Flow].records = << >>
    BY <2>1, InCall DEF Touched, NewConnection
  <2>4. conns'[Flow].records # << >>
    <3>1. Len(conns'[Flow].records) > Len(c.records)
      BY <1>1, <1>2 DEF AddsDecoded
    <3> QED
      BY <1>3, <3>1
  <2> QED
    BY <1>4, <2>2, <2>3, <2>4
<1>7. StepOfCall /\ UNCHANGED peerVars
  BY <1>5, <1>6 DEF PeersNext, Track
<1>8. ~(BeginHandshakeRecord \/ Return)
  BY <1>4 DEF BeginHandshakeRecord, Return
<1>9. ~ApplyMessage
  <2> SUFFICES ASSUME ApplyMessage PROVE FALSE
    OBVIOUS
  <2>1. PICK m : m = Head(remaining)
    OBVIOUS
  <2>2. m \in Messages
    BY <2>1 DEF ApplyMessage, PeersInv, PeersTypeInv, SafetyInv, TypeInv, TypeOK
  <2>3. PICK d \in Directions : d = direction
    BY InCall
  <2>4. conns' = [conns EXCEPT ![Flow] = ApplyHandshakeMessage(c, m, d)]
    BY <1>2, <2>1, <2>3, InCall DEF ApplyMessage
  <2>5. ApplyHandshakeMessage(c, m, d).records = c.records
    BY <2>2, MessageKeeps
  <2>6. conns'[Flow].records = conns[Flow].records
    BY <1>2, <2>4, <2>5, InCall
  <2> QED
    BY <1>4, <2>6
<1>10. ~EvictStale
  <2> SUFFICES ASSUME EvictStale PROVE FALSE
    OBVIOUS
  <2>1. conns'[Flow] = conns[Flow] \/ conns'[Flow] = Untracked
    BY InCall DEF EvictStale
  <2>2. Untracked.records = << >>
    BY DEF Untracked, NewConnection
  <2>3. Len(conns'[Flow].records) > Len(c.records)
    BY <1>1, <1>2 DEF AddsDecoded
  <2> QED
    BY <1>3, <1>4, <2>1, <2>2, <2>3
<1>11. ~(PostCcsHandshakeRecord \/ ApplicationDataRecord \/ ChangeCipherSpecRecord
         \/ IgnoredRecord)
  <2> SUFFICES ASSUME \/ PostCcsHandshakeRecord \/ ApplicationDataRecord
                      \/ ChangeCipherSpecRecord \/ IgnoredRecord
               PROVE  FALSE
    OBVIOUS
  <2>1. todo # << >> /\ Head(todo).type = Current.rec.type
    BY InCall
       DEF PostCcsHandshakeRecord, ApplicationDataRecord, ChangeCipherSpecRecord,
           IgnoredRecord, NextRecordIs
  <2>2. PICK r \in Records : r = Head(todo)
    BY <2>1, InCall
  <2>3. PICK d \in Directions : d = direction
    BY InCall
  <2>4. \/ /\ r.type = "Handshake" /\ c.ccs_seen[d]
            /\ Consume(AfterPostCcsHandshake(c, r, d))
         \/ /\ r.type = "ApplicationData"
            /\ Consume(AfterApplicationData(c, r, d))
         \/ /\ r.type = "ChangeCipherSpec"
            /\ Consume(AfterChangeCipherSpec(c, r, d))
         \/ Consume(c)
    BY <1>2, <2>2, <2>3, InCall
       DEF PostCcsHandshakeRecord, ApplicationDataRecord, ChangeCipherSpecRecord,
           IgnoredRecord, NextRecordIs
  <2>5. PICK n : Consume(n) /\ ~AddsDecoded(c, n)
    BY <1>3, <2>4, OtherArmsEncrypted DEF AddsDecoded
  <2>6. conns'[Flow] = n
    BY <2>5, InCall DEF Consume
  <2> QED
    BY <1>1, <1>2, <2>5, <2>6
<1> QED
  BY <1>7, <1>8, <1>9, <1>10, <1>11 DEF StepOfCall

RowHighlighted ==
  Len(Shown') > Len(Shown) /\ Shown'[Len(Shown')].label \in Decoded
  => Highlighted(conns'[Flow], Len(Shown')) = {Stage'}

LEMMA RowStep ==
  PeersInv /\ EnteredInv /\ [PeersNext]_<<vars, peerVars>> => RowHighlighted
<1> SUFFICES ASSUME PeersInv, EnteredInv, [PeersNext]_<<vars, peerVars>>,
                    Len(Shown') > Len(Shown), Shown'[Len(Shown')].label \in Decoded
             PROVE  Highlighted(conns'[Flow], Len(Shown')) = {Stage'}
  BY DEF RowHighlighted
<1>1. EndHandshakeRecord /\ UNCHANGED peerVars
  BY OnlyEndDecodes DEF AddsDecoded, Shown
<1>2. Flow' = Flow
  BY <1>1, Unobserved
<1>3. PICK c \in TrackedConnections : c = conns[Flow]
  BY InCall
<1>4. PICK d \in Directions : d = direction
  BY InCall
<1>5. /\ todo # << >> /\ Entered
      /\ Current.rec.type = "Handshake" /\ ~c.ccs_seen[d]
  BY <1>1, <1>3, <1>4, InCall
     DEF EndHandshakeRecord, Entered, PeersInv, PeersTypeInv, SafetyInv, TypeInv, CallOK
<1>6. PICK r \in Records : r = Current.rec
  BY <1>5, InCall
<1> DEFINE n == PushRecordEvent(c, r, d)
<1>7. conns'[Flow] = n
  BY <1>1, <1>3, <1>4, <1>5, <1>6, InCall DEF EndHandshakeRecord, Consume
<1>8. AddsDecoded(c, n)
  BY <1>2, <1>3, <1>7 DEF AddsDecoded, Shown
<1>9. n.records[Len(n.records)] = RecordEvent(c, r, d)
  BY <1>5, <1>6, <1>8, PushedDecoded
<1>10. n.stage = c.stage /\ n.tls_version = c.tls_version
  BY <1>5, <1>6, PushShape
<1>11. PlaintextStage(r.decoded, d, IsTls12(c)) = {c.stage}
  BY <1>3, <1>4, <1>5, <1>6 DEF EnteredInv, Leads
<1>12. RecordEvent(c, r, d).label = r.decoded /\ r.decoded \in Decoded
       /\ RecordEvent(c, r, d).direction = d /\ RecordEvent(c, r, d).outer_type = "Handshake"
  BY <1>5, <1>6 DEF RecordEvent, BuildBody, Records
<1> HIDE DEF n
<1>13. Highlighted(n, Len(n.records)) = PlaintextStage(r.decoded, d, IsTls12(n))
  BY <1>9, <1>12 DEF Highlighted
<1>14. IsTls12(n) = IsTls12(c)
  BY <1>10 DEF IsTls12
<1> QED
  BY <1>2, <1>7, <1>10, <1>11, <1>13, <1>14 DEF Shown, Stage

(* A plaintext record's row highlights the stage the record brought the    *)
(* connection to: the tracker, by tls_parser's messages, and the view, by  *)
(* the first byte, agree on what it was (apply_handshake_record,           *)
(* selected_record_stage).                                                 *)
THEOREM RowsHighlightTheirRecord ==
  ASSUME Orderly
  PROVE  PeersSpec => RowsHighlightTheirStage
<1>1. PeersInit => EnteredInv
  BY DEF PeersInit, Init, EnteredInv, Entered
<1>2. (PeersInv /\ EnteredInv) /\ [PeersNext]_<<vars, peerVars>> => (PeersInv /\ EnteredInv)'
  BY PeersInvNext, EnteredInvNext
<1>3. PeersInv /\ EnteredInv /\ [PeersNext]_<<vars, peerVars>>
        => [Len(Shown') > Len(Shown) /\ Shown'[Len(Shown')].label \in Decoded
            => Highlighted(conns'[Flow], Len(Shown')) = {Stage'}]_<<vars, peerVars>>
  BY RowStep DEF RowHighlighted
<1> QED
  BY PeersInvInit, <1>1, <1>2, <1>3, PTL DEF PeersSpec, RowsHighlightTheirStage

-----------------------------------------------------------------------------
(* The stage moves down the diagram only.                                  *)

\* The messages of the server's first n records that the log shows decoded.
Told(s, n) == {s.sends[S2C][i].rec.decoded : i \in 1..n[S2C]}

\* The record w of direction d is in its stage, after g and what the server told.
InOrder(w, tls13, g, told, d) ==
  /\ w.is = "ClientHello" /\ "ClientHello" \in g[C2S] => "HelloRetryRequest" \in g[S2C]
  /\ w.is = "Ticket" => "Finished" \in g[C2S]
  /\ ~tls13 /\ d = S2C => \A b \in DOMAIN Flight :
       w.rec.decoded = Flight[b] =>
         /\ \A a \in DOMAIN Flight : Flight[a] \in told => a <= b
         /\ "Plaintext" \notin g[C2S]

\* What a stage presupposes.  The second to the fifth step of the TLS 1.2
\* diagram are those of the server's flight.
Rises12(c, g, told) ==
  /\ \A a \in DOMAIN Flight : c.stage = OrderedTls12[a + 1] => Flight[a] \in told
  /\ c.stage \in {"ClientKeyExchange", "ClientFinished", "ServerFinished"} =>
       "Plaintext" \in g[C2S]
  /\ c.stage \in {"ClientFinished", "ServerFinished"} => "ChangeCipherSpec" \in g[C2S]

Rises13(c, g) ==
  /\ c.stage # "ServerFinished"
  /\ c.stage \in {"ClientFinished", "ApplicationData"} => c.saw_client_finished_marker
  /\ c.stage \in {"Certificate", "ClientFinished", "ApplicationData"} =>
       "ServerFlight" \in g[S2C]

Rises(c, tls13, g, told) ==
  /\ "ClientHello" \notin g[C2S] => c.stage = "Idle"
  /\ IF tls13 THEN Rises13(c, g) ELSE Rises12(c, g, told)

RisesInv ==
  Rises(conns[Flow], session.tls13, Sent(session, Applied), Told(session, Applied))

\* The stage of n is not above that of c in the diagram.
Climbs(c, n) == PositionOf(n, n.stage) >= PositionOf(c, c.stage)

MayFall(c, n, g) == n.stage = "ClientHello" /\ "HelloRetryRequest" \in g[S2C]
LEMMA PositionIs ==
  ASSUME NEW c, NEW stage, NEW k \in DOMAIN Steps(c), Steps(c)[k] = stage,
         \A i \in DOMAIN Steps(c) : Steps(c)[i] = stage => i = k
  PROVE  PositionOf(c, stage) = k
<1>1. OnDiagram(c, stage)
  BY DEF OnDiagram
<1>2. (CHOOSE i \in DOMAIN Steps(c) : Steps(c)[i] = stage) = k
  OBVIOUS
<1> QED
  BY <1>1, <1>2 DEF PositionOf

\* The rows of the two diagrams.
LEMMA Positions ==
  ASSUME NEW c
  PROVE  /\ PositionOf(c, "Idle") = 0 /\ PositionOf(c, "Errored") = 0
         /\ PositionOf(c, "ClientHello") = 1 /\ PositionOf(c, "ServerHello") = 2
         /\ c.tls_version # "Tls12" =>
              /\ PositionOf(c, "Certificate") = 3 /\ PositionOf(c, "ClientFinished") = 4
              /\ PositionOf(c, "ServerFinished") = 5 /\ PositionOf(c, "ApplicationData") = 6
         /\ c.tls_version = "Tls12" =>
              /\ PositionOf(c, "Certificate") = 0 /\ PositionOf(c, "ServerCertificate") = 3
              /\ PositionOf(c, "ServerKeyExchange") = 4
              /\ PositionOf(c, "ServerHelloDone") = 5
              /\ PositionOf(c, "ClientKeyExchange") = 6
              /\ PositionOf(c, "ClientFinished") = 7 /\ PositionOf(c, "ServerFinished") = 8
              /\ PositionOf(c, "ApplicationData") = 9
<1>1. 1..6 = {1, 2, 3, 4, 5, 6} /\ 1..9 = {1, 2, 3, 4, 5, 6, 7, 8, 9}
  OBVIOUS
<1>2. DOMAIN Ordered = 1..6 /\ DOMAIN OrderedTls12 = 1..9
  BY DEF Ordered, OrderedTls12
<1>3. ~OnDiagram(c, "Idle") /\ ~OnDiagram(c, "Errored")
      /\ (c.tls_version = "Tls12" => ~OnDiagram(c, "Certificate"))
  BY OnOrdered
<1>4. ASSUME c.tls_version # "Tls12", NEW k \in 1..6
      PROVE  PositionOf(c, Ordered[k]) = k
  <2>1. Steps(c) = Ordered
    BY <1>4 DEF Steps, IsTls12
  <2>2. \A i \in 1..6 : Ordered[i] = Ordered[k] => i = k
    BY <1>1 DEF Ordered
  <2> QED
    BY <1>2, <2>1, <2>2, PositionIs
<1>5. ASSUME c.tls_version = "Tls12", NEW k \in 1..9
      PROVE  PositionOf(c, OrderedTls12[k]) = k
  <2>1. Steps(c) = OrderedTls12
    BY <1>5 DEF Steps, IsTls12
  <2>2. \A i \in 1..9 : OrderedTls12[i] = OrderedTls12[k] => i = k
    BY <1>1 DEF OrderedTls12
  <2> QED
    BY <1>2, <2>1, <2>2, PositionIs
<1>6. /\ Ordered[1] = "ClientHello" /\ Ordered[2] = "ServerHello" /\ Ordered[3] = "Certificate"
      /\ Ordered[4] = "ClientFinished" /\ Ordered[5] = "ServerFinished"
      /\ Ordered[6] = "ApplicationData"
  BY DEF Ordered
<1>7. /\ OrderedTls12[1] = "ClientHello" /\ OrderedTls12[2] = "ServerHello"
      /\ OrderedTls12[3] = "ServerCertificate" /\ OrderedTls12[4] = "ServerKeyExchange"
      /\ OrderedTls12[5] = "ServerHelloDone" /\ OrderedTls12[6] = "ClientKeyExchange"
      /\ OrderedTls12[7] = "ClientFinished" /\ OrderedTls12[8] = "ServerFinished"
      /\ OrderedTls12[9] = "ApplicationData"
  BY DEF OrderedTls12
<1>8. PositionOf(c, "Idle") = 0 /\ PositionOf(c, "Errored") = 0
      /\ (c.tls_version = "Tls12" => PositionOf(c, "Certificate") = 0)
  BY <1>3 DEF PositionOf
<1>9. CASE c.tls_version # "Tls12"
  <2>1. /\ PositionOf(c, Ordered[1]) = 1 /\ PositionOf(c, Ordered[2]) = 2
        /\ PositionOf(c, Ordered[3]) = 3 /\ PositionOf(c, Ordered[4]) = 4
        /\ PositionOf(c, Ordered[5]) = 5 /\ PositionOf(c, Ordered[6]) = 6
    BY <1>4, <1>9
  <2> QED
    BY <1>6, <1>8, <1>9, <2>1
<1>10. CASE c.tls_version = "Tls12"
  <2>1. /\ PositionOf(c, OrderedTls12[1]) = 1 /\ PositionOf(c, OrderedTls12[2]) = 2
        /\ PositionOf(c, OrderedTls12[3]) = 3 /\ PositionOf(c, OrderedTls12[4]) = 4
        /\ PositionOf(c, OrderedTls12[5]) = 5 /\ PositionOf(c, OrderedTls12[6]) = 6
        /\ PositionOf(c, OrderedTls12[7]) = 7 /\ PositionOf(c, OrderedTls12[8]) = 8
        /\ PositionOf(c, OrderedTls12[9]) = 9
    BY <1>5, <1>10
  <2> QED
    BY <1>7, <1>8, <1>10, <2>1
<1> QED
  BY <1>9, <1>10

\* A record that leaves the stage alone.
LEMMA RisesKept ==
  ASSUME NEW c, NEW n, NEW tls13, NEW g, NEW h, NEW told, NEW told2,
         Rises(c, tls13, g, told), \A d \in Directions : g[d] \subseteq h[d],
         told \subseteq told2, n.stage = c.stage, n.tls_version = c.tls_version,
         n.saw_client_finished_marker = c.saw_client_finished_marker
  PROVE  Rises(n, tls13, h, told2) /\ Climbs(c, n)
<1>1. C2S \in Directions /\ S2C \in Directions
  BY DEF C2S, S2C, Directions
<1>2. Rises12(c, g, told) => Rises12(n, h, told2)
  BY <1>1 DEF Rises12
<1>3. Rises13(c, g) => Rises13(n, h)
  BY <1>1 DEF Rises13
<1>4. Rises(n, tls13, h, told2)
  BY <1>1, <1>2, <1>3 DEF Rises
<1>5. OnDiagram(n, n.stage) <=> OnDiagram(c, c.stage)
  BY DEF OnDiagram, Steps, IsTls12
<1>6. PositionOf(n, n.stage) = PositionOf(c, c.stage) /\ PositionOf(c, c.stage) \in Nat
  <2>1. Steps(n) = Steps(c)
    BY DEF Steps, IsTls12
  <2>2. PositionOf(n, n.stage) = PositionOf(c, c.stage)
    BY <1>5, <2>1 DEF PositionOf
  <2>3. ASSUME OnDiagram(c, c.stage) PROVE PositionOf(c, c.stage) \in Nat
    <3>1. PositionOf(c, c.stage) \in DOMAIN Steps(c)
      BY <2>3 DEF PositionOf, OnDiagram
    <3>2. DOMAIN Steps(c) \subseteq Nat
      <4>1. DOMAIN Ordered = 1..6 /\ DOMAIN OrderedTls12 = 1..9
        BY DEF Ordered, OrderedTls12
      <4> QED
        BY <4>1 DEF Steps
    <3> QED
      BY <3>1, <3>2
  <2> QED
    BY <2>2, <2>3 DEF PositionOf
<1> QED
  BY <1>4, <1>6 DEF Climbs

\* A handshake message of a record in clear.
LEMMA MessageRises12 ==
  ASSUME NEW c \in TrackedConnections, NEW w, NEW g, NEW h, NEW d \in Directions, NEW told,
         NEW told2, NEW late, NEW behind, NEW behind2,
         Comes(w, FALSE, g, h, d, behind, behind2), Knows(c, FALSE, g, late, behind),
         w.is \in InClear, NEW m \in Messages, w.rec.msgs = <<m>>,
         Rises(c, FALSE, g, told), InOrder(w, FALSE, g, told, d),
         told \subseteq told2, d = S2C => w.rec.decoded \in told2
  PROVE  LET n == ApplyHandshakeMessage(c, m, d)
         IN  Rises(n, FALSE, h, told2) /\ Climbs(c, n)
<1> DEFINE n == ApplyHandshakeMessage(c, m, d)
<1>1. /\ Looks(w, FALSE, d) /\ w.is \in May(FALSE, d) /\ Legal(FALSE, g, d, w.is)
      /\ Grounded(FALSE, g) /\ Adds(h, g, d, w.is) /\ FALSE \in BOOLEAN
  BY DEF Comes, Legal
<1>2. \/ w.is = "ClientHello" /\ d = C2S /\ m.kind = "ClientHello"
         /\ w.rec.decoded = "ClientHello"
      \/ w.is \in {"ServerHello", "HelloRetryRequest"} /\ d = S2C /\ m.kind = "ServerHello"
         /\ w.rec.decoded \in {"ServerHello", "HelloRetryRequest"}
      \/ w.is = "Plaintext" /\ d = C2S /\ m.kind = "ClientKeyExchange"
         /\ w.rec.decoded = "ClientKeyExchange"
      \/ w.is = "Plaintext" /\ d = S2C /\ w.rec.decoded = m.kind
         /\ m.kind \in {"Certificate", "ServerKeyExchange", "ServerDone"}
  BY <1>1, MessageDecoded
<1>3. \E x \in Messages : w.rec.msgs = <<x>> /\ Carries(x, FALSE, d, w.is)
      /\ w.rec.decoded \in
           IF w.is # "Plaintext" THEN {w.is}
           ELSE IF d = C2S THEN {"ClientKeyExchange"}
           ELSE {"Certificate", "ServerKeyExchange", "ServerDone"}
  BY <1>1, LooksInClear
<1>4. Carries(m, FALSE, d, w.is)
  <2>1. PICK x \in Messages : w.rec.msgs = <<x>> /\ Carries(x, FALSE, d, w.is)
    BY <1>3
  <2>2. x = m
    BY <2>1
  <2> QED
    BY <2>1, <2>2
<1>5. Facts12(c, g)
  BY DEF Knows, Facts
<1>6. /\ w.is \in {"ClientHello", "ServerHello", "Plaintext"}
      /\ w.is = "Plaintext" => "ServerHello" \in g[S2C]
      /\ "Finished" \notin g[d] /\ "ChangeCipherSpec" \notin g[d]
  BY <1>1, Legal12 DEF InClear
<1>7. /\ \A b \in Directions : g[b] \subseteq h[b]
      /\ w.is \in h[d] /\ C2S \in Directions /\ S2C \in Directions /\ C2S # S2C
  BY <1>1 DEF Adds, C2S, S2C, Directions
<1>8. /\ "HelloRetryRequest" \notin g[S2C]
      /\ "ServerHello" \in g[S2C] => "ClientHello" \in g[C2S]
      /\ d = S2C => "ClientHello" \in g[C2S]
  <2>1. "HelloRetryRequest" \notin g[S2C]
    BY <1>1, <1>7 DEF Grounded, May, S2C
  <2>2. /\ Opposite(S2C) = C2S
        /\ \A is : is # "ClientHello" => "ClientHello" \in Waits(FALSE, S2C, is)
    BY DEF Waits, Opens, Opposite, C2S, S2C
  <2>3. "ServerHello" \in g[S2C] => "ClientHello" \in g[C2S]
    <3>1. "ServerHello" \in g[S2C] => Waits(FALSE, S2C, "ServerHello") \subseteq g[Opposite(S2C)]
      BY <1>1, <1>7 DEF Grounded
    <3> QED
      BY <2>2, <3>1
  <2>4. d = S2C => "ClientHello" \in g[C2S]
    <3>1. d = S2C => Waits(FALSE, S2C, w.is) \subseteq g[Opposite(S2C)]
      BY <1>1 DEF Legal
    <3>2. d = S2C => w.is # "ClientHello"
      BY <1>2, <1>7
    <3> QED
      BY <2>2, <3>1, <3>2
  <2> QED
    BY <2>1, <2>3, <2>4
<1>9. /\ DOMAIN Flight = {1, 2, 3, 4}
      /\ Flight[1] = "ServerHello" /\ Flight[2] = "Certificate"
      /\ Flight[3] = "ServerKeyExchange" /\ Flight[4] = "ServerDone"
      /\ 1 + 1 = 2 /\ 2 + 1 = 3 /\ 3 + 1 = 4 /\ 4 + 1 = 5
      /\ OrderedTls12[2] = "ServerHello" /\ OrderedTls12[3] = "ServerCertificate"
      /\ OrderedTls12[4] = "ServerKeyExchange" /\ OrderedTls12[5] = "ServerHelloDone"
  BY DEF Flight, OrderedTls12
<1>10. c.stage \in Stages /\ Rises12(c, g, told)
       /\ ("ClientHello" \notin g[C2S] => c.stage = "Idle")
  BY DEF Rises, TrackedConnections
<1>11. CASE w.is = "ClientHello"
  <2>1. d = C2S /\ c.stage = "Idle"
    BY <1>2, <1>8, <1>10, <1>11 DEF InOrder
  <2>2. n.stage = "ClientHello"
    BY <1>2, <1>11
       DEF ApplyHandshakeMessage, MergeClientHello, TrackedConnections, C2S
  <2> HIDE DEF n
  <2>3. PositionOf(c, c.stage) = 0 /\ PositionOf(n, n.stage) = 1
    BY <2>1, <2>2, Positions
  <2>4. Rises12(n, h, told2)
    BY <1>9, <2>2 DEF Rises12
  <2>5. Rises(n, FALSE, h, told2)
    BY <1>7, <1>11, <2>1, <2>4 DEF Rises
  <2>6. Climbs(c, n)
    BY <2>3 DEF Climbs
  <2> QED
    BY <2>5, <2>6 DEF n
<1>12. CASE w.is = "Plaintext" /\ d = C2S
  <2>1. n.stage = "ClientKeyExchange" /\ n.tls_version = c.tls_version
    BY <1>2, <1>12 DEF ApplyHandshakeMessage, TrackedConnections, C2S, S2C
  <2>2. c.tls_version = "Tls12"
    BY <1>5, <1>6, <1>12 DEF Facts12
  <2> HIDE DEF n
  <2>3. c.stage \notin {"ClientFinished", "ServerFinished", "ApplicationData"}
    BY <1>5, <1>6, <1>7, <1>10, <1>12 DEF Rises12, Facts12
  <2>4. /\ PositionOf(c, "Idle") = 0 /\ PositionOf(c, "Errored") = 0
        /\ PositionOf(c, "ClientHello") = 1 /\ PositionOf(c, "ServerHello") = 2
        /\ PositionOf(c, "Certificate") = 0 /\ PositionOf(c, "ServerCertificate") = 3
        /\ PositionOf(c, "ServerKeyExchange") = 4
        /\ PositionOf(c, "ServerHelloDone") = 5
        /\ PositionOf(c, "ClientKeyExchange") = 6
    BY <2>2, Positions
  <2>5. PositionOf(n, n.stage) = 6
    BY <2>1, <2>2, Positions
  <2>6. Climbs(c, n)
    BY <1>10, <2>3, <2>4, <2>5 DEF Climbs, Stages
  <2>7. Rises12(n, h, told2)
    BY <1>7, <1>9, <1>12, <2>1 DEF Rises12
  <2>8. Rises(n, FALSE, h, told2)
    BY <1>6, <1>7, <1>8, <1>12, <2>7 DEF Rises
  <2> QED
    BY <2>6, <2>8 DEF n
<1>13. CASE w.is # "ClientHello" /\ d = S2C
  <2>1. PICK b \in {1, 2, 3, 4} :
          w.rec.decoded = Flight[b] /\ n.stage = OrderedTls12[b + 1] /\ n.tls_version = "Tls12"
    <3>1. CASE w.is = "ServerHello"
      <4>1. w.rec.decoded = "ServerHello" /\ m.version = "Tls12" /\ m.kind = "ServerHello"
        BY <1>3, <1>4, <3>1 DEF Carries
      <4>2. n.stage = "ServerHello" /\ n.tls_version = "Tls12"
        BY <1>13, <4>1
           DEF ApplyHandshakeMessage, MergeServerHello, TrackedConnections, S2C
      <4> HIDE DEF n
      <4>3. w.rec.decoded = Flight[1] /\ n.stage = OrderedTls12[1 + 1]
        BY <1>9, <4>1, <4>2
      <4> QED
        BY <4>2, <4>3
    <3>2. CASE w.is = "Plaintext"
      <4>1. c.tls_version = "Tls12"
        BY <1>5, <1>6, <3>2 DEF Facts12
      <4>2. w.rec.decoded = m.kind
            /\ m.kind \in {"Certificate", "ServerKeyExchange", "ServerDone"}
        BY <1>2, <1>13, <3>2 DEF C2S, S2C
      <4>3. /\ m.kind = "Certificate" => n.stage = "ServerCertificate"
            /\ m.kind = "ServerKeyExchange" => n.stage = "ServerKeyExchange"
            /\ m.kind = "ServerDone" => n.stage = "ServerHelloDone"
            /\ n.tls_version = "Tls12"
        BY <1>13, <4>1, <4>2 DEF ApplyHandshakeMessage, TrackedConnections, S2C
      <4> HIDE DEF n
      <4>4. CASE m.kind = "Certificate"
        <5>1. w.rec.decoded = Flight[2] /\ n.stage = OrderedTls12[2 + 1]
          BY <1>9, <4>2, <4>3, <4>4
        <5> QED
          BY <4>3, <5>1
      <4>5. CASE m.kind = "ServerKeyExchange"
        <5>1. w.rec.decoded = Flight[3] /\ n.stage = OrderedTls12[3 + 1]
          BY <1>9, <4>2, <4>3, <4>5
        <5> QED
          BY <4>3, <5>1
      <4>6. CASE m.kind = "ServerDone"
        <5>1. w.rec.decoded = Flight[4] /\ n.stage = OrderedTls12[4 + 1]
          BY <1>9, <4>2, <4>3, <4>6
        <5> QED
          BY <4>3, <5>1
      <4> QED
        BY <4>2, <4>4, <4>5, <4>6
    <3> QED
      BY <1>6, <1>13, <3>1, <3>2
  <2> HIDE DEF n
  <2>2. "Plaintext" \notin g[C2S] /\ \A a \in {1, 2, 3, 4} : Flight[a] \in told => a <= b
    BY <1>9, <1>13, <2>1 DEF InOrder
  <2>3. c.stage \notin {"ClientKeyExchange", "ClientFinished", "ServerFinished",
                        "ApplicationData"}
    BY <1>5, <1>6, <1>10, <2>2 DEF Rises12, Facts12
  <2>4. \A a \in {1, 2, 3, 4} : c.stage = OrderedTls12[a + 1] => a <= b
    BY <1>9, <1>10, <2>2 DEF Rises12
  <2>5. PositionOf(n, n.stage) = b + 1
    <3>1. /\ PositionOf(n, "ServerHello") = 2 /\ PositionOf(n, "ServerCertificate") = 3
          /\ PositionOf(n, "ServerKeyExchange") = 4 /\ PositionOf(n, "ServerHelloDone") = 5
      BY <2>1, Positions
    <3> QED
      BY <1>9, <2>1, <3>1
  <2>6. Climbs(c, n)
    <3>1. PositionOf(c, "Idle") = 0 /\ PositionOf(c, "Errored") = 0
          /\ PositionOf(c, "ClientHello") = 1
      BY Positions
    <3>2. CASE c.stage \in {"Idle", "ClientHello"}
      BY <2>5, <3>1, <3>2 DEF Climbs
    <3>3. CASE c.stage \notin {"Idle", "ClientHello"}
      <4>1. c.tls_version = "Tls12"
        BY <1>5, <3>3 DEF Facts12
      <4>2. /\ PositionOf(c, "ServerHello") = 2 /\ PositionOf(c, "ServerCertificate") = 3
            /\ PositionOf(c, "ServerKeyExchange") = 4 /\ PositionOf(c, "ServerHelloDone") = 5
            /\ PositionOf(c, "Certificate") = 0
        BY <4>1, Positions
      <4>3. /\ c.stage = "ServerHello" => 1 <= b
            /\ c.stage = "ServerCertificate" => 2 <= b
            /\ c.stage = "ServerKeyExchange" => 3 <= b
            /\ c.stage = "ServerHelloDone" => 4 <= b
        BY <1>9, <2>4
      <4>4. c.stage \in {"Errored", "Certificate", "ServerHello", "ServerCertificate",
                         "ServerKeyExchange", "ServerHelloDone"}
        BY <1>10, <2>3, <3>3 DEF Stages
      <4> QED
        BY <2>5, <3>1, <4>2, <4>3, <4>4 DEF Climbs
    <3> QED
      BY <3>2, <3>3
  <2>7. Rises12(n, h, told2)
    <3>1. n.stage \in {"ServerHello", "ServerCertificate", "ServerKeyExchange",
                       "ServerHelloDone"}
      BY <1>9, <2>1
    <3>2. /\ OrderedTls12[1 + 1] = "ServerHello" /\ OrderedTls12[2 + 1] = "ServerCertificate"
          /\ OrderedTls12[3 + 1] = "ServerKeyExchange"
          /\ OrderedTls12[4 + 1] = "ServerHelloDone"
      BY <1>9
    <3>3. \A a \in {1, 2, 3, 4} : OrderedTls12[b + 1] = OrderedTls12[a + 1] => a = b
      BY ONLY <2>1, <3>2
    <3>4. Flight[b] \in told2
      BY <1>13, <2>1
    <3>5. \A a \in {1, 2, 3, 4} : n.stage = OrderedTls12[a + 1] => Flight[a] \in told2
      BY <2>1, <3>3, <3>4
    <3> QED
      BY <1>9, <3>1, <3>5 DEF Rises12
  <2>8. Rises(n, FALSE, h, told2)
    BY <1>7, <1>8, <1>13, <2>7 DEF Rises
  <2> QED
    BY <2>6, <2>8 DEF n
<1> QED
  BY <1>2, <1>6, <1>11, <1>12, <1>13

LEMMA MessageRises13 ==
  ASSUME NEW c \in TrackedConnections, NEW w, NEW g, NEW h, NEW d \in Directions, NEW told,
         NEW told2, NEW late, NEW behind, NEW behind2,
         Comes(w, TRUE, g, h, d, behind, behind2), Knows(c, TRUE, g, late, behind),
         w.is \in InClear, NEW m \in Messages, w.rec.msgs = <<m>>,
         Rises(c, TRUE, g, told), InOrder(w, TRUE, g, told, d)
  PROVE  LET n == ApplyHandshakeMessage(c, m, d)
         IN  Rises(n, TRUE, h, told2) /\ (Climbs(c, n) \/ MayFall(c, n, g))
<1> DEFINE n == ApplyHandshakeMessage(c, m, d)
<1>1. /\ Looks(w, TRUE, d) /\ w.is \in May(TRUE, d) /\ Legal(TRUE, g, d, w.is)
      /\ Grounded(TRUE, g) /\ Adds(h, g, d, w.is) /\ TRUE \in BOOLEAN
  BY DEF Comes, Legal
<1>2. \/ w.is = "ClientHello" /\ d = C2S /\ m.kind = "ClientHello"
      \/ w.is \in {"ServerHello", "HelloRetryRequest"} /\ d = S2C /\ m.kind = "ServerHello"
  BY <1>1, MessageDecoded
<1>3. /\ w.is # "ClientHello" => "ClientHello" \in g[C2S]
      /\ "ServerFlight" \in g[d] => w.is \in {"Finished", "Ticket", "Data"}
  BY <1>1, Legal13
<1>4. /\ "ClientHello" \notin g[C2S] => c.stage = "Idle"
      /\ Rises13(c, g) /\ c.stage \in Stages13 /\ c.tls_version # "Tls12"
  BY DEF Rises, Knows, Facts, Facts13
<1>5. /\ C2S \in Directions /\ S2C \in Directions /\ "ClientHello" \in h[C2S]
  BY <1>1, <1>2, <1>3 DEF Adds, C2S, S2C, Directions
<1>6. CASE w.is = "ClientHello"
  <2>1. n.stage = "ClientHello"
    BY <1>2, <1>6 DEF ApplyHandshakeMessage, MergeClientHello, TrackedConnections, C2S
  <2> HIDE DEF n
  <2>2. Rises(n, TRUE, h, told2)
    BY <1>5, <2>1 DEF Rises, Rises13
  <2>3. Climbs(c, n) \/ MayFall(c, n, g)
    <3>1. CASE "ClientHello" \in g[C2S]
      BY <1>6, <2>1, <3>1 DEF InOrder, MayFall
    <3>2. CASE "ClientHello" \notin g[C2S]
      <4>1. PositionOf(c, c.stage) = 0 /\ PositionOf(n, n.stage) = 1
        BY <1>4, <2>1, <3>2, Positions
      <4> QED
        BY <4>1 DEF Climbs
    <3> QED
      BY <3>1, <3>2
  <2> QED
    BY <2>2, <2>3 DEF n
<1>7. CASE w.is # "ClientHello"
  <2>1. n.stage = "ServerHello" /\ d = S2C
    BY <1>2, <1>7 DEF ApplyHandshakeMessage, MergeServerHello, TrackedConnections, S2C
  <2> HIDE DEF n
  <2>2. Rises(n, TRUE, h, told2)
    BY <1>5, <2>1 DEF Rises, Rises13
  <2>3. c.stage \in {"Idle", "ClientHello", "ServerHello"}
    BY <1>2, <1>3, <1>4, <1>7, <2>1 DEF Rises13, Stages13
  <2>4. /\ PositionOf(c, "Idle") = 0 /\ PositionOf(c, "ClientHello") = 1
        /\ PositionOf(c, "ServerHello") = 2 /\ PositionOf(n, "ServerHello") = 2
    BY Positions
  <2>5. Climbs(c, n)
    BY <2>1, <2>3, <2>4 DEF Climbs
  <2> QED
    BY <2>2, <2>5 DEF n
<1> QED
  BY <1>6, <1>7

\* A ChangeCipherSpec.
LEMMA CcsRises ==
  ASSUME NEW c \in TrackedConnections, NEW tls13 \in BOOLEAN, NEW g, NEW h,
         NEW d \in Directions, NEW told, NEW told2, NEW late, NEW behind,
         Legal(tls13, g, d, "ChangeCipherSpec"), Grounded(tls13, g),
         Adds(h, g, d, "ChangeCipherSpec"), Knows(c, tls13, g, late, behind),
         Rises(c, tls13, g, told), told \subseteq told2
  PROVE  Rises(Changed(c, d), tls13, h, told2) /\ Climbs(c, Changed(c, d))
<1> DEFINE n == Changed(c, d)
<1>1. /\ n.tls_version = c.tls_version
      /\ n.saw_client_finished_marker = c.saw_client_finished_marker
      /\ \/ n.stage = c.stage
         \/ /\ n.stage = "ClientFinished" /\ d = "ClientToServer"
            /\ c.stage = "ClientKeyExchange"
         \/ /\ n.stage = "ServerFinished" /\ d = "ServerToClient"
            /\ c.stage = "ClientFinished"
  BY CcsShape
<1> HIDE DEF n
<1>2. \A b \in Directions : g[b] \subseteq h[b]
  BY AddsMore
<1>3. CASE n.stage = c.stage
  <2>1. Rises(n, tls13, h, told2) /\ Climbs(c, n)
    BY <1>1, <1>2, <1>3, RisesKept
  <2> QED
    BY <2>1 DEF n
<1>4. CASE n.stage # c.stage
  <2>1. C2S \in Directions /\ S2C \in Directions
    BY DEF C2S, S2C, Directions
  <2>2. ~tls13
    <3> SUFFICES ASSUME tls13 PROVE FALSE
      OBVIOUS
    <3>1. c.stage = "ClientFinished" /\ d = S2C
      BY <1>1, <1>4 DEF Knows, Facts, Facts13, Stages13, S2C
    <3>2. "ServerFlight" \in g[d]
      BY <3>1 DEF Rises, Rises13
    <3> QED
      BY <3>2 DEF Legal, Follows
  <2>3. Rises12(c, g, told) /\ Facts12(c, g)
    BY <2>2 DEF Rises, Knows, Facts
  <2>4. "ServerHello" \in g[S2C] /\ c.tls_version = "Tls12"
    BY <1>1, <1>4, <2>3 DEF Facts12
  <2>5. "ChangeCipherSpec" \in h[d] /\ "Plaintext" \in g[C2S]
    BY <1>1, <1>4, <2>3 DEF Rises12, Adds
  <2>6. DOMAIN Flight = {1, 2, 3, 4} /\ 1 + 1 = 2 /\ 2 + 1 = 3 /\ 3 + 1 = 4 /\ 4 + 1 = 5
        /\ OrderedTls12[2] = "ServerHello" /\ OrderedTls12[3] = "ServerCertificate"
        /\ OrderedTls12[4] = "ServerKeyExchange" /\ OrderedTls12[5] = "ServerHelloDone"
    BY DEF Flight, OrderedTls12
  <2>7. Rises12(n, h, told2)
    <3>1. "ChangeCipherSpec" \in h[C2S]
      BY <1>1, <1>2, <1>4, <2>1, <2>3, <2>5 DEF Rises12, C2S
    <3> QED
      BY <1>1, <1>2, <1>4, <2>1, <2>5, <2>6, <3>1 DEF Rises12
  <2>8. "ClientHello" \in g[C2S]
    BY <1>1, <1>4 DEF Rises
  <2>9. Rises(n, tls13, h, told2)
    BY <1>2, <2>1, <2>2, <2>7, <2>8 DEF Rises
  <2>10. /\ PositionOf(c, "ClientKeyExchange") = 6 /\ PositionOf(n, "ClientFinished") = 7
         /\ PositionOf(c, "ClientFinished") = 7 /\ PositionOf(n, "ServerFinished") = 8
    BY <1>1, <2>4, Positions
  <2>11. Climbs(c, n)
    BY <1>1, <1>4, <2>10 DEF Climbs
  <2> QED
    BY <2>9, <2>11 DEF n
<1> QED
  BY <1>3, <1>4

\* An application_data record.
LEMMA DataRises12 ==
  ASSUME NEW c \in TrackedConnections, NEW g, NEW h, NEW d \in Directions, NEW told, NEW told2,
         NEW late, NEW behind, Legal(FALSE, g, d, "Data"), Grounded(FALSE, g),
         Adds(h, g, d, "Data"), Knows(c, FALSE, g, late, behind), Rises(c, FALSE, g, told)
  PROVE  Rises(Encrypted(c, d), FALSE, h, told2) /\ Climbs(c, Encrypted(c, d))
<1> DEFINE n == Encrypted(c, d)
<1>1. "ServerHello" \in g[S2C]
  <2>1. PICK is : is = "Data"
    OBVIOUS
  <2>2. Legal(FALSE, g, d, is)
    BY <2>1
  <2>3. is \notin {"ClientHello", "ServerHello"} => "ServerHello" \in g[S2C]
    BY <2>2, Legal12
  <2> QED
    BY <2>1, <2>3
<1>2. c.tls_version = "Tls12"
  BY <1>1 DEF Knows, Facts, Facts12
<1>3. n.tls_version = c.tls_version /\ n.stage = "ApplicationData"
  BY <1>2, EncryptedShape, ZenonT(40)
<1> HIDE DEF n
<1>4. "ClientHello" \in h[C2S]
  <2>1. C2S \in Directions /\ S2C \in Directions
    BY DEF C2S, S2C, Directions
  <2>2. "ClientHello" \in Waits(FALSE, S2C, "ServerHello") /\ Opposite(S2C) = C2S
    BY DEF Waits, Opens, Opposite, C2S, S2C
  <2>3. Waits(FALSE, S2C, "ServerHello") \subseteq g[Opposite(S2C)]
    BY <1>1, <2>1 DEF Grounded
  <2> QED
    BY <2>1, <2>2, <2>3 DEF Adds
<1>5. Rises12(n, h, told2)
  <2>1. DOMAIN Flight = {1, 2, 3, 4} /\ 1 + 1 = 2 /\ 2 + 1 = 3 /\ 3 + 1 = 4 /\ 4 + 1 = 5
        /\ OrderedTls12[2] = "ServerHello" /\ OrderedTls12[3] = "ServerCertificate"
        /\ OrderedTls12[4] = "ServerKeyExchange" /\ OrderedTls12[5] = "ServerHelloDone"
    BY DEF Flight, OrderedTls12
  <2> QED
    BY <1>3, <2>1 DEF Rises12
<1>6. Rises(n, FALSE, h, told2)
  BY <1>4, <1>5 DEF Rises
<1>7. Climbs(c, n)
  <2>1. /\ PositionOf(c, "Idle") = 0 /\ PositionOf(c, "Errored") = 0
        /\ PositionOf(c, "ClientHello") = 1 /\ PositionOf(c, "ServerHello") = 2
        /\ PositionOf(c, "Certificate") = 0 /\ PositionOf(c, "ServerCertificate") = 3
        /\ PositionOf(c, "ServerKeyExchange") = 4
        /\ PositionOf(c, "ServerHelloDone") = 5
        /\ PositionOf(c, "ClientKeyExchange") = 6
        /\ PositionOf(c, "ClientFinished") = 7 /\ PositionOf(c, "ServerFinished") = 8
        /\ PositionOf(c, "ApplicationData") = 9 /\ PositionOf(n, "ApplicationData") = 9
    BY <1>2, <1>3, Positions
  <2>2. c.stage \in Stages
    BY DEF TrackedConnections
  <2> QED
    BY <1>3, <2>1, <2>2 DEF Climbs, Stages
<1> QED
  BY <1>6, <1>7 DEF n

LEMMA DataRises13 ==
  ASSUME NEW c \in TrackedConnections, FinishAgrees(c), NEW w, NEW g, NEW h,
         NEW d \in Directions, NEW told, NEW told2, NEW late, NEW behind,
         Legal(TRUE, g, d, w.is), Grounded(TRUE, g), Adds(h, g, d, w.is),
         w.is \in {"EarlyData", "ServerFlight", "Finished", "Ticket", "Data"},
         Knows(c, TRUE, g, late, behind), Rises(c, TRUE, g, told),
         InOrder(w, TRUE, g, told, d), told \subseteq told2
  PROVE  Rises(Encrypted(c, d), TRUE, h, told2) /\ Climbs(c, Encrypted(c, d))
<1> DEFINE n == Encrypted(c, d)
           fromServer(x) == x.encrypted_records_from["ServerToClient"]
           fromClient(x) == x.encrypted_records_from["ClientToServer"]
<1>1. Facts13(c, g, late, behind) /\ Rises13(c, g) /\ c.stage \in Stages13
      /\ c.tls_version # "Tls12"
  BY DEF Knows, Facts, Facts13, Rises
<1>2. /\ w.is \in IF d = C2S THEN {"EarlyData", "Finished", "Data"}
                  ELSE {"ServerFlight", "Finished", "Ticket", "Data"}
      /\ "ClientHello" \in g[C2S]
      /\ "Finished" \in g[d] => w.is \in {"Ticket", "Data"}
      /\ w.is = "Finished" => "ServerFlight" \in g[S2C]
      /\ w.is = "Ticket" => "Finished" \in g[S2C]
      /\ w.is = "Data" => \A b \in Directions : "Finished" \in g[b]
      /\ "Finished" \in g[S2C] => "ServerFlight" \in g[S2C]
  BY Legal13
<1>3. n.tls_version = c.tls_version
  BY EncryptedShape
<1>4. fromServer(c) \in Nat /\ fromClient(c) \in Nat
  BY DEF TrackedConnections, Directions
<1>5. /\ c.saw_client_finished_marker <=> fromClient(c) > 0
      /\ fromServer(c) >= 1 <=> "ServerFlight" \in g[S2C]
      /\ fromServer(c) >= 2 <=> "Finished" \in g[S2C]
      /\ "Finished" \in g[C2S] => fromClient(c) >= 1
  BY <1>1 DEF FinishAgrees, Facts13, C2S, S2C
<1>6. /\ PositionOf(c, "Idle") = 0 /\ PositionOf(c, "ClientHello") = 1
      /\ PositionOf(c, "ServerHello") = 2 /\ PositionOf(c, "Certificate") = 3
      /\ PositionOf(c, "ClientFinished") = 4 /\ PositionOf(c, "ApplicationData") = 6
      /\ PositionOf(n, "Certificate") = 3 /\ PositionOf(n, "ClientFinished") = 4
      /\ PositionOf(n, "ApplicationData") = 6
  BY <1>1, <1>3, Positions
<1>7. /\ C2S \in Directions /\ S2C \in Directions /\ C2S # S2C
      /\ \A b \in Directions : b \in {C2S, S2C}
      /\ \A b \in Directions : g[b] \subseteq h[b]
      /\ "ClientHello" \in h[C2S]
  BY <1>2, AddsMore DEF C2S, S2C, Directions

\* The stage of an ascending step.
<1>8. ASSUME n.stage \in {"Certificate", "ClientFinished", "ApplicationData"},
             "ServerFlight" \in h[S2C],
             n.stage # "Certificate" => n.saw_client_finished_marker,
             n.stage = "Certificate" =>
               c.stage \notin {"ClientFinished", "ApplicationData"},
             n.stage = "ClientFinished" => c.stage # "ApplicationData"
      PROVE  Rises(n, TRUE, h, told2) /\ Climbs(c, n)
  <2> HIDE DEF n
  <2>1. Rises13(n, h)
    BY <1>8 DEF Rises13
  <2>2. Rises(n, TRUE, h, told2)
    BY <1>7, <2>1 DEF Rises
  <2>3. c.stage \in {"Idle", "ClientHello", "ServerHello", "Certificate", "ClientFinished",
                     "ApplicationData"}
    BY <1>1 DEF Rises13, Stages13
  <2>4. Climbs(c, n)
    BY <1>6, <1>8, <2>3 DEF Climbs
  <2> QED
    BY <2>2, <2>4
<1>9. CASE d = S2C
  <2>1. /\ n.stage = ServerFlightStage(c)
        /\ n.saw_client_finished_marker = c.saw_client_finished_marker
    BY <1>1, <1>7, <1>9, EncryptedShape, ZenonT(40) DEF C2S, S2C
  <2>2. "ServerFlight" \in h[S2C]
    BY <1>2, <1>5, <1>7, <1>9 DEF Adds
  <2>3. CASE c.saw_client_finished_marker
    <3>1. n.stage = "ApplicationData"
      BY <2>1, <2>3 DEF ServerFlightStage
    <3> HIDE DEF n
    <3>2. Rises(n, TRUE, h, told2) /\ Climbs(c, n)
      BY <1>8, <2>1, <2>2, <2>3, <3>1
    <3> QED
      BY <3>2 DEF n
  <2>4. CASE ~c.saw_client_finished_marker
    <3>1. "Finished" \notin g[C2S]
      BY <1>4, <1>5, <2>4
    <3>2. w.is \in {"ServerFlight", "Finished"}
      BY <1>2, <1>7, <1>9, <3>1 DEF InOrder
    <3>3. fromServer(c) + 1 \in 1..3
      <4>1. "Finished" \notin g[S2C]
        BY <1>2, <1>9, <3>2
      <4> QED
        BY <1>4, <1>5, <4>1
    <3>4. n.stage = "Certificate"
      BY <2>1, <2>4, <3>3 DEF ServerFlightStage
    <3>5. c.stage \notin {"ClientFinished", "ApplicationData"}
      BY <1>1, <2>4 DEF Rises13
    <3> HIDE DEF n
    <3>6. Rises(n, TRUE, h, told2) /\ Climbs(c, n)
      BY <1>8, <2>2, <3>4, <3>5
    <3> QED
      BY <3>6 DEF n
  <2> QED
    BY <2>3, <2>4
<1>10. CASE d = C2S /\ fromServer(c) > 0
  <2>1. /\ n.saw_client_finished_marker = TRUE
        /\ n.stage = IF c.saw_client_finished_marker
                     THEN "ApplicationData" ELSE "ClientFinished"
    <3>1. d = "ClientToServer" /\ d # "ServerToClient" /\ c.encrypted_records_from["ServerToClient"] > 0
          /\ ~(c.encrypted_records_from["ServerToClient"] = 0)
      BY <1>4, <1>10 DEF C2S
    <3>2. n.saw_client_finished_marker = TRUE
      BY <1>1, <3>1, EncryptedShape
    <3>3. n.stage = IF c.saw_client_finished_marker
                    THEN "ApplicationData" ELSE "ClientFinished"
      BY <1>1, <3>1, EncryptedShape, ZenonT(40)
    <3> QED
      BY <3>2, <3>3
  <2>2. "ServerFlight" \in h[S2C]
    BY <1>4, <1>5, <1>7, <1>10
  <2>3. ~c.saw_client_finished_marker => c.stage # "ApplicationData"
    BY <1>1 DEF Rises13
  <2> HIDE DEF n
  <2>4. Rises(n, TRUE, h, told2) /\ Climbs(c, n)
    BY <1>8, <2>1, <2>2, <2>3
  <2> QED
    BY <2>4 DEF n
<1>11. CASE d = C2S /\ fromServer(c) = 0
  <2>1. /\ n.saw_client_finished_marker = c.saw_client_finished_marker
        /\ n.stage = c.stage
    <3>1. d = "ClientToServer" /\ d # "ServerToClient"
          /\ ~(c.encrypted_records_from["ServerToClient"] > 0)
      BY <1>11 DEF C2S
    <3>2. n.saw_client_finished_marker = c.saw_client_finished_marker
      BY <1>1, <3>1, EncryptedShape
    <3>3. n.stage = c.stage
      BY <1>1, <3>1, EncryptedShape
    <3> QED
      BY <3>2, <3>3
  <2> HIDE DEF n
  <2>2. Rises(n, TRUE, h, told2) /\ Climbs(c, n)
    BY <1>3, <1>7, <2>1, RisesKept, ZenonT(40)
  <2> QED
    BY <2>2 DEF n
<1>12. fromServer(c) > 0 \/ fromServer(c) = 0
  BY <1>4
<1>13. d = S2C \/ d = C2S
  BY <1>7
<1> HIDE DEF fromServer
<1> QED
  BY <1>9, <1>10, <1>11, <1>12, <1>13

LEMMA MessageRises ==
  ASSUME NEW c \in TrackedConnections, NEW w, NEW tls13 \in BOOLEAN, NEW g, NEW h,
         NEW d \in Directions, NEW told, NEW told2, NEW late, NEW behind, NEW behind2,
         Comes(w, tls13, g, h, d, behind, behind2), Knows(c, tls13, g, late, behind),
         w.is \in InClear, NEW m \in Messages, w.rec.msgs = <<m>>,
         Rises(c, tls13, g, told), InOrder(w, tls13, g, told, d),
         told \subseteq told2, d = S2C => w.rec.decoded \in told2
  PROVE  LET n == ApplyHandshakeMessage(c, m, d)
         IN  Rises(n, tls13, h, told2) /\ (Climbs(c, n) \/ MayFall(c, n, g))
<1> DEFINE n == ApplyHandshakeMessage(c, m, d)
<1>1. CASE tls13
  <2>1. /\ Comes(w, TRUE, g, h, d, behind, behind2) /\ Knows(c, TRUE, g, late, behind)
        /\ Rises(c, TRUE, g, told) /\ InOrder(w, TRUE, g, told, d)
    BY <1>1
  <2>2. Rises(n, TRUE, h, told2) /\ (Climbs(c, n) \/ MayFall(c, n, g))
    BY <2>1, MessageRises13
  <2> HIDE DEF n
  <2>3. Rises(n, tls13, h, told2) /\ (Climbs(c, n) \/ MayFall(c, n, g))
    BY <1>1, <2>2
  <2> QED
    BY <2>3 DEF n
<1>2. CASE ~tls13
  <2>1. /\ Comes(w, FALSE, g, h, d, behind, behind2) /\ Knows(c, FALSE, g, late, behind)
        /\ Rises(c, FALSE, g, told) /\ InOrder(w, FALSE, g, told, d)
    BY <1>2
  <2>2. Rises(n, FALSE, h, told2) /\ Climbs(c, n)
    BY <2>1, MessageRises12
  <2> HIDE DEF n
  <2>3. Rises(n, tls13, h, told2) /\ Climbs(c, n)
    BY <1>2, <2>2
  <2> QED
    BY <2>3 DEF n
<1> QED
  BY <1>1, <1>2

LEMMA DataRises ==
  ASSUME NEW c \in TrackedConnections, FinishAgrees(c), NEW w, NEW tls13 \in BOOLEAN,
         NEW g, NEW h, NEW d \in Directions, NEW told, NEW told2, NEW late, NEW behind,
         NEW behind2, Comes(w, tls13, g, h, d, behind, behind2),
         Knows(c, tls13, g, late, behind), w.rec.type = "ApplicationData",
         Rises(c, tls13, g, told), InOrder(w, tls13, g, told, d), told \subseteq told2
  PROVE  Rises(Encrypted(c, d), tls13, h, told2) /\ Climbs(c, Encrypted(c, d))
<1> DEFINE n == Encrypted(c, d)
<1>1. IF tls13 THEN w.is \in {"EarlyData", "ServerFlight", "Finished", "Ticket", "Data"}
      ELSE w.is = "Data"
  BY RecordKinds
<1>2. Legal(tls13, g, d, w.is) /\ Grounded(tls13, g) /\ Adds(h, g, d, w.is)
  BY DEF Comes
<1>3. CASE tls13
  <2>1. /\ Legal(TRUE, g, d, w.is) /\ Grounded(TRUE, g) /\ Knows(c, TRUE, g, late, behind)
        /\ Rises(c, TRUE, g, told) /\ InOrder(w, TRUE, g, told, d)
        /\ w.is \in {"EarlyData", "ServerFlight", "Finished", "Ticket", "Data"}
    BY <1>1, <1>2, <1>3
  <2>2. Rises(n, TRUE, h, told2) /\ Climbs(c, n)
    BY <1>2, <2>1, DataRises13
  <2> HIDE DEF n
  <2>3. Rises(n, tls13, h, told2) /\ Climbs(c, n)
    BY <1>3, <2>2
  <2> QED
    BY <2>3 DEF n
<1>4. CASE ~tls13
  <2>1. /\ Legal(FALSE, g, d, "Data") /\ Grounded(FALSE, g) /\ Adds(h, g, d, "Data")
        /\ Knows(c, FALSE, g, late, behind) /\ Rises(c, FALSE, g, told)
    BY <1>1, <1>2, <1>4
  <2>2. Rises(n, FALSE, h, told2) /\ Climbs(c, n)
    BY <2>1, DataRises12
  <2> HIDE DEF n
  <2>3. Rises(n, tls13, h, told2) /\ Climbs(c, n)
    BY <1>4, <2>2
  <2> QED
    BY <2>3 DEF n
<1> QED
  BY <1>3, <1>4

\* The next record of a session in stages.
LEMMA RecordInOrder ==
  ASSUME NEW s \in Sessions, InStages(s), NEW n \in [Directions -> Nat], Causal(s, n),
         NEW d \in Directions, NEW m \in [Directions -> Nat], m[d] = n[d] + 1,
         \A b \in Directions : b # d => m[b] = n[b],
         m[d] <= Len(s.sends[d]), s.sends[d][m[d]].after <= n[Opposite(d)],
         s.sends[d][m[d]].is \in May(s.tls13, d)
  PROVE  /\ InOrder(s.sends[d][m[d]], s.tls13, Sent(s, n), Told(s, n), d)
         /\ Told(s, n) \subseteq Told(s, m)
         /\ d = S2C => s.sends[d][m[d]].rec.decoded \in Told(s, m)
<1> DEFINE w == s.sends[d][m[d]]
<1>1. /\ m[d] = n[d] + 1 /\ \A b \in Directions : b # d => m[b] = n[b]
      /\ m \in [Directions -> Nat]
      /\ \A b \in Directions : n[b] \in Nat /\ n[b] <= m[b]
  OBVIOUS
<1>2. \A b \in Directions : DOMAIN s.sends[b] = 1..Len(s.sends[b]) /\ Len(s.sends[b]) \in Nat
  BY SessionType, LenProperties
<1>3. m[d] \in DOMAIN s.sends[d] /\ w.after \in Nat
  <2>1. m[d] \in 1..Len(s.sends[d])
    BY <1>1, <1>2
  <2> QED
    BY <1>2, <2>1, WireType
<1>4. /\ C2S \in Directions /\ S2C \in Directions /\ C2S # S2C
      /\ Opposite(C2S) = S2C /\ Opposite(S2C) = C2S
      /\ w.is = "ClientHello" => d = C2S
      /\ w.is = "Ticket" => d = S2C
  BY DEF C2S, S2C, Directions, Opposite, May
<1>5. \A b \in Directions : \A i \in 1..n[b] :
        i \in DOMAIN s.sends[b] /\ (b = d => i < m[d])
        /\ s.sends[b][i].after <= n[Opposite(b)]
  <2> SUFFICES ASSUME NEW b \in Directions, NEW i \in 1..n[b]
               PROVE  i \in DOMAIN s.sends[b] /\ (b = d => i < m[d])
                      /\ s.sends[b][i].after <= n[Opposite(b)]
    OBVIOUS
  <2>1. i <= Len(s.sends[b]) /\ s.sends[b][i].after <= n[Opposite(b)]
    BY DEF Causal
  <2> QED
    BY <1>1, <1>2, <2>1
<1>6. \A b \in Directions : \A is : b # d /\ Earlier(s, b, w.after, is) => is \in Got(s, b, n[b])
  <2> SUFFICES ASSUME NEW b \in Directions, NEW is, b # d, Earlier(s, b, w.after, is)
               PROVE  is \in Got(s, b, n[b])
    OBVIOUS
  <2>1. is \in Got(s, b, w.after)
    BY <1>3, EarlierIsGot
  <2>2. b = Opposite(d)
    BY DEF Opposite, Directions
  <2>3. Got(s, b, w.after) \subseteq Got(s, b, n[b])
    BY <1>1, <1>3, <2>2, GotGrows
  <2> QED
    BY <2>1, <2>3
<1>7. ASSUME w.is = "ClientHello", "ClientHello" \in Sent(s, n)[C2S]
      PROVE  "HelloRetryRequest" \in Sent(s, n)[S2C]
  <2>1. d = C2S
    BY <1>4, <1>7
  <2>2. PICK i \in 1..n[C2S] : s.sends[C2S][i].is = "ClientHello"
    BY <1>4, <1>7 DEF Sent, Got
  <2>3. i \in DOMAIN s.sends[C2S] /\ i < m[d] /\ m[d] \in DOMAIN s.sends[C2S]
    BY <1>3, <1>4, <1>5, <2>1
  <2>4. Earlier(s, S2C, w.after, "HelloRetryRequest")
    BY <1>7, <2>1, <2>2, <2>3 DEF InStages, C2S, S2C
  <2> QED
    BY <1>4, <1>6, <2>1, <2>4 DEF Sent
<1>8. ASSUME w.is = "Ticket" PROVE "Finished" \in Sent(s, n)[C2S]
  <2>1. d = S2C
    BY <1>4, <1>8
  <2>2. Earlier(s, C2S, w.after, "Finished")
    BY <1>3, <1>8, <2>1 DEF InStages, C2S, S2C
  <2> QED
    BY <1>4, <1>6, <2>1, <2>2 DEF Sent
<1>9. ASSUME ~s.tls13, d = S2C, NEW b \in DOMAIN Flight, w.rec.decoded = Flight[b]
      PROVE  /\ \A a \in DOMAIN Flight : Flight[a] \in Told(s, n) => a <= b
             /\ "Plaintext" \notin Sent(s, n)[C2S]
  <2>1. /\ \A i \in DOMAIN s.sends[S2C], a \in DOMAIN Flight :
             i < m[d] /\ s.sends[S2C][i].rec.decoded = Flight[a] => a <= b
        /\ \A i \in DOMAIN s.sends[C2S] :
             s.sends[C2S][i].is = "Plaintext" => m[d] <= s.sends[C2S][i].after
    BY <1>3, <1>9 DEF InStages, C2S, S2C
  <2>2. ASSUME NEW a \in DOMAIN Flight, Flight[a] \in Told(s, n) PROVE a <= b
    <3>1. PICK i \in 1..n[S2C] : s.sends[S2C][i].rec.decoded = Flight[a]
      BY <2>2 DEF Told
    <3> QED
      BY <1>4, <1>5, <1>9, <2>1, <3>1
  <2>3. ASSUME "Plaintext" \in Sent(s, n)[C2S] PROVE FALSE
    <3>1. PICK i \in 1..n[C2S] : s.sends[C2S][i].is = "Plaintext"
      BY <1>4, <2>3 DEF Sent, Got
    <3>2. i \in DOMAIN s.sends[C2S] /\ s.sends[C2S][i].after <= n[S2C]
      BY <1>4, <1>5, <3>1
    <3>3. m[d] <= s.sends[C2S][i].after /\ m[d] = n[S2C] + 1
      BY <1>1, <1>9, <2>1, <3>1, <3>2
    <3>4. s.sends[C2S][i].after \in Nat /\ n[S2C] \in Nat
      BY <1>1, <1>2, <1>4, <3>2, WireType
    <3> QED
      BY <3>2, <3>3, <3>4
  <2> QED
    BY <2>2, <2>3
<1>10. InOrder(w, s.tls13, Sent(s, n), Told(s, n), d)
  <2> HIDE DEF w
  <2> QED
    BY <1>7, <1>8, <1>9 DEF InOrder
<1>11. 1..n[S2C] \subseteq 1..m[S2C] /\ (d = S2C => m[d] \in 1..m[S2C])
  BY <1>1, <1>4
<1> QED
  BY <1>10, <1>11 DEF Told

\* The record being ingested keeps to the order.
LEMMA CurrentInOrder ==
  ASSUME PeersInv, InStages(session), todo # << >>
  PROVE  /\ InOrder(Current, session.tls13, Sent(session, Before), Told(session, Before),
                    direction)
         /\ Told(session, Before) \subseteq Told(session, sent)
         /\ direction = S2C => Current.rec.decoded \in Told(session, sent)
<1>1. /\ session \in Sessions /\ direction \in Directions /\ sent \in [Directions -> Nat]
      /\ sent[direction] \in Nat \ {0} /\ sent[direction] <= Len(session.sends[direction])
      /\ Current.after <= sent[Opposite(direction)] /\ Causal(session, Before)
  BY DEF PeersInv, PeersTypeInv, SafetyInv, TypeInv, TypeOK, PlaceInv, CurrentInv
<1>2. Current.is \in May(session.tls13, direction)
  BY CurrentComes DEF Comes, Legal
<1>3. PICK k \in Nat : sent[direction] = k + 1
  <2>1. PICK m \in Nat \ {0} : m = sent[direction]
    BY <1>1
  <2>2. m - 1 \in Nat /\ m = (m - 1) + 1
    OBVIOUS
  <2> QED
    BY <2>1, <2>2
<1>4. Before = [sent EXCEPT ![direction] = k]
  BY <1>3 DEF Before
<1>5. PICK d \in Directions : d = direction
  BY <1>1
<1>6. PICK n : n = Before
  OBVIOUS
<1>7. /\ n \in [Directions -> Nat] /\ n[d] = k
      /\ \A b \in Directions : b # d => n[b] = sent[b]
  BY <1>1, <1>4, <1>5, <1>6
<1>8. sent = [n EXCEPT ![d] = k + 1]
  BY <1>1, <1>3, <1>5, <1>7
<1>9. /\ sent = [n EXCEPT ![d] = @ + 1] /\ n[Opposite(d)] = sent[Opposite(d)]
  BY <1>7, <1>8, OtherDirection
<1>10. PICK m \in [Directions -> Nat] : m = sent
  BY <1>1
<1>11. PICK s \in Sessions : s = session
  BY <1>1
<1>12. /\ InStages(s) /\ Causal(s, n) /\ m[d] = n[d] + 1
       /\ \A b \in Directions : b # d => m[b] = n[b]
       /\ m[d] <= Len(s.sends[d]) /\ s.sends[d][m[d]].after <= n[Opposite(d)]
       /\ s.sends[d][m[d]].is \in May(s.tls13, d)
  BY <1>1, <1>2, <1>3, <1>5, <1>6, <1>7, <1>9, <1>10, <1>11 DEF Current
<1>13. /\ InOrder(s.sends[d][m[d]], s.tls13, Sent(s, n), Told(s, n), d)
       /\ Told(s, n) \subseteq Told(s, m)
       /\ d = S2C => s.sends[d][m[d]].rec.decoded \in Told(s, m)
  BY <1>7, <1>12, RecordInOrder
<1> QED
  BY <1>5, <1>6, <1>10, <1>11, <1>13 DEF Current

NeverFalls ==
  \/ PositionOf(conns'[Flow], Stage') >= PositionOf(conns[Flow], Stage)
  \/ Stage' = "ClientHello" /\ Seen("ServerToClient", "HelloRetryRequest")

LEMMA NeverFallsBy ==
  ASSUME PeersInv, Flow' = Flow, NEW n, conns'[Flow] = n,
         Climbs(conns[Flow], n) \/ MayFall(conns[Flow], n, Sent(session, sent))
  PROVE  NeverFalls
<1>1. "HelloRetryRequest" \in Sent(session, sent)[S2C] => Seen(S2C, "HelloRetryRequest")
  BY DEF PeersInv, ObservedInv, Sent, S2C, Directions, Meanings
<1> QED
  BY <1>1 DEF NeverFalls, Stage, Climbs, MayFall, S2C

\* A record has been ingested.
LEMMA ConsumeRises ==
  ASSUME PeersInv, UNCHANGED peerVars, todo # << >>, NEW c, Consume(c),
         Rises(c, session.tls13, Sent(session, sent), Told(session, sent)),
         Climbs(conns[Flow], c)
  PROVE  RisesInv' /\ NeverFalls
<1>1. Flow' = Flow /\ session' = session /\ sent' = sent
  BY Unobserved
<1>2. conns' = [conns EXCEPT ![Flow] = c] /\ phase' = "records" /\ todo' = Tail(todo)
  BY DEF Consume, PeersInv, PlaceInv
<1>3. todo' = << >>
  <2>1. todo = <<Current.rec>>
    BY DEF PeersInv, PlaceInv, CurrentInv
  <2> QED
    BY <1>2, <2>1
<1>4. conns'[Flow] = c
  BY <1>2, InCall
<1>5. Applied' = sent
  BY <1>1, <1>2, <1>3 DEF Before, Applied, Entered
<1>6. RisesInv'
  BY <1>1, <1>4, <1>5 DEF RisesInv
<1>7. NeverFalls
  BY <1>1, <1>4 DEF NeverFalls, Stage, Climbs
<1> QED
  BY <1>6, <1>7

\* A step that leaves the connection at its stage.
LEMMA SameRises ==
  ASSUME RisesInv, Flow' = Flow, session' = session, Applied' = Applied,
         conns'[Flow].stage = conns[Flow].stage,
         conns'[Flow].tls_version = conns[Flow].tls_version,
         conns'[Flow].saw_client_finished_marker = conns[Flow].saw_client_finished_marker
  PROVE  RisesInv' /\ NeverFalls
<1> DEFINE g == Sent(session, Applied)
           told == Told(session, Applied)
<1>1. Rises(conns[Flow], session.tls13, g, told)
  BY DEF RisesInv
<1>2. PICK c : c = conns[Flow]
  OBVIOUS
<1>3. PICK n : n = conns'[Flow]
  OBVIOUS
<1>4. /\ n.stage = c.stage /\ n.tls_version = c.tls_version
      /\ n.saw_client_finished_marker = c.saw_client_finished_marker
      /\ Rises(c, session.tls13, g, told)
  BY <1>1, <1>2, <1>3
<1> HIDE DEF g, told
<1>5. Rises(n, session.tls13, g, told) /\ Climbs(c, n)
  BY <1>4, RisesKept
<1>6. RisesInv'
  BY <1>3, <1>5 DEF RisesInv, g, told
<1>7. NeverFalls
  BY <1>2, <1>3, <1>5 DEF NeverFalls, Stage, Climbs
<1> QED
  BY <1>6, <1>7

\* A record that begins to be ingested changes no stage.
LEMMA ObserveRises ==
  ASSUME PeersInv, RisesInv, NEW d \in Directions, Observe(d)
  PROVE  RisesInv' /\ NeverFalls
<1>1. /\ ends' = ends /\ session' = session /\ Flow' = Flow
      /\ sent' = [sent EXCEPT ![d] = @ + 1]
  BY DEF Observe, Flow
<1>2. sent \in [Directions -> Nat] /\ sent[d] \in Nat
  BY DEF PeersInv, PeersTypeInv
<1>3. Canonical(ends[d], ends[Opposite(d)]) = Flow
  BY SameFlow DEF PeersInv, PeersTypeInv, Flow, C2S, S2C
<1>4. DirectionOf(Flow, ends[d]) = d
  BY <1>3 DEF PeersInv, PlaceInv, Recognised, Flow, DirectionOf, Directions
<1>5. PICK o \in Origins : Ingest(Flow, d, 0, o, <<session.sends[d][sent[d] + 1].rec>>)
  BY <1>3, <1>4 DEF Observe
<1>6. /\ phase = "idle" /\ phase' = "records" /\ direction' = d
      /\ conns' = [conns EXCEPT ![Flow] = Touched(Flow, 0, o)]
      /\ todo' = <<session.sends[d][sent[d] + 1].rec>>
  BY <1>5 DEF Ingest, StartCall
<1>7. todo = << >> /\ todo' # << >>
  BY <1>6 DEF PeersInv, PeersTypeInv, SafetyInv, TypeInv, CallOK
<1>8. Applied = sent
  BY <1>6, <1>7 DEF Before, Applied, Entered
<1>9. Applied' = sent
  <2>1. Before' = [sent' EXCEPT ![d] = @ - 1]
    BY <1>6, <1>7 DEF Before
  <2>2. Before' = sent
    BY <1>1, <1>2, <2>1
  <2> QED
    BY <1>6, <2>2 DEF Applied, Entered
<1>10. conns'[Flow] = Touched(Flow, 0, o) /\ conns[Flow] \in TrackedConnections
  BY <1>6, InCall
<1>11. CASE Flow \in tracked
  <2>1. conns'[Flow] = [conns[Flow] EXCEPT !.last_seen_ms = 0]
    BY <1>10, <1>11 DEF Touched
  <2>2. /\ conns'[Flow].stage = conns[Flow].stage
        /\ conns'[Flow].tls_version = conns[Flow].tls_version
        /\ conns'[Flow].saw_client_finished_marker = conns[Flow].saw_client_finished_marker
    BY <1>10, <2>1 DEF TrackedConnections
  <2> QED
    BY <1>1, <1>8, <1>9, <2>2, SameRises
<1>12. CASE Flow \notin tracked
  <2>1. conns'[Flow] = [NewConnection(0, o) EXCEPT !.last_seen_ms = 0]
    BY <1>10, <1>12 DEF Touched
  <2>2. conns'[Flow].stage = "Idle"
    BY <2>1 DEF NewConnection
  <2>3. \A b \in Directions : sent[b] = 0
    BY <1>12 DEF PeersInv, PlaceInv
  <2>4. "ClientHello" \notin Sent(session, sent)[C2S]
    BY <2>3, NoneGot DEF Sent, C2S, S2C, Directions
  <2>5. conns[Flow].stage = "Idle"
    BY <1>8, <2>4 DEF RisesInv, Rises
  <2>6. RisesInv'
    <3>1. PICK n : n = conns'[Flow]
      OBVIOUS
    <3>2. PICK g : g = Sent(session, sent)
      OBVIOUS
    <3>3. PICK told : told = Told(session, sent)
      OBVIOUS
    <3>4. n.stage = "Idle"
      BY <2>2, <3>1
    <3>5. Rises12(n, g, told) /\ Rises13(n, g)
      BY <3>4 DEF Rises12, Rises13, OrderedTls12, Flight
    <3>6. Rises(n, session.tls13, g, told)
      BY <3>4, <3>5 DEF Rises
    <3> QED
      BY <1>1, <1>9, <3>1, <3>2, <3>3, <3>6 DEF RisesInv
  <2>7. PositionOf(conns'[Flow], "Idle") = 0 /\ PositionOf(conns[Flow], "Idle") = 0
    BY Positions
  <2>8. NeverFalls
    BY <1>1, <2>2, <2>5, <2>7 DEF NeverFalls, Stage
  <2> QED
    BY <2>6, <2>8
<1> QED
  BY <1>11, <1>12

\* A step of the call.
LEMMA TrackRises ==
  ASSUME PeersInv, InStages(session), RisesInv, StepOfCall, UNCHANGED peerVars
  PROVE  RisesInv' /\ NeverFalls
<1> DEFINE late == EarlyDataLate
           tls13 == session.tls13
           g == Sent(session, Before)
           h == Sent(session, sent)
           told == Told(session, Before)
           told2 == Told(session, sent)
           behind == HelloBehind(session, Before[C2S])
           behind2 == HelloBehind(session, sent[C2S])
<1>1. Flow' = Flow /\ session' = session /\ sent' = sent
  BY Unobserved
<1>2. /\ Flow \in Keys /\ conns \in [Keys -> TrackedConnections]
      /\ conns[Flow] \in TrackedConnections /\ direction \in Directions
      /\ tls13 \in BOOLEAN /\ key = Flow
      /\ todo # << >> => Head(todo) = Current.rec /\ Current.rec \in Records
  BY InCall
<1>3. FinishAgrees(conns[Flow])
  BY <1>2 DEF PeersInv, PeersTypeInv, SafetyInv, AllConnOK, ConnOK
<1>4. todo # << >> =>
        /\ Comes(Current, tls13, g, h, direction, behind, behind2)
        /\ InOrder(Current, tls13, g, told, direction)
        /\ told \subseteq told2
        /\ direction = S2C => Current.rec.decoded \in told2
  BY CurrentComes, CurrentInOrder
<1>5. ~Entered => Knows(conns[Flow], tls13, g, late, behind) /\ Rises(conns[Flow], tls13, g, told)
  BY DEF PeersInv, KnownInv, RisesInv, Applied
<1>6. Entered => Rises(conns[Flow], tls13, h, told2)
  BY DEF RisesInv, Applied
<1>7. PICK c \in TrackedConnections : c = conns[Flow]
  BY <1>2
<1>8. PICK d \in Directions : d = direction
  BY <1>2
<1>9. PICK w : w = Current
  OBVIOUS
<1>10. CASE BeginHandshakeRecord
  <2>1. /\ phase = "records" /\ todo # << >> /\ ~Entered
        /\ Current.rec.type = "Handshake" /\ ~conns[Flow].ccs_seen[direction]
    BY <1>2, <1>10 DEF BeginHandshakeRecord, NextRecordIs, Entered
  <2>2. /\ conns' = conns /\ todo' = todo /\ direction' = direction
        /\ phase' = "messages" /\ remaining' = Current.rec.msgs
    BY <1>2, <1>10, <2>1 DEF BeginHandshakeRecord, call
  <2>3. remaining' # << >>
    <3> HIDE DEF g, h, late, tls13, behind, behind2, told, told2
    <3>1. PICK m \in Messages : Current.rec.msgs = <<m>>
      BY <1>2, <1>4, <1>5, <2>1, CurrentMessage
    <3> QED
      BY <2>2, <3>1
  <2>4. Applied' = Applied
    BY <1>1, <2>1, <2>2, <2>3 DEF Before, Applied, Entered
  <2> HIDE DEF g, h, late, tls13, behind, behind2, told, told2
  <2> QED
    BY <1>1, <2>2, <2>4, SameRises
<1>11. CASE ApplyMessage
  <2>1. /\ phase = "messages" /\ remaining # << >> /\ todo # << >> /\ ~Entered
        /\ Current.rec.type = "Handshake" /\ ~conns[Flow].ccs_seen[direction]
    BY <1>2, <1>11
       DEF ApplyMessage, Entered, PeersInv, PeersTypeInv, SafetyInv, TypeInv, CallOK
  <2>2. remaining = Current.rec.msgs
    BY <2>1 DEF PeersInv, PlaceInv
  <2> HIDE DEF g, h, late, tls13, behind, behind2, told, told2
  <2>3. Current.is \in InClear
    BY <1>2, <1>4, <1>5, <2>1, CurrentMessage
  <2>4. PICK m \in Messages : Current.rec.msgs = <<m>>
    BY <1>2, <1>4, <1>5, <2>1, CurrentMessage
  <2> DEFINE n == ApplyHandshakeMessage(c, m, d)
  <2>5. /\ conns' = [conns EXCEPT ![Flow] = n] /\ todo' = todo
        /\ direction' = direction /\ phase' = "messages" /\ remaining' = << >>
    BY <1>2, <1>7, <1>8, <1>11, <2>2, <2>4 DEF ApplyMessage, call
  <2>6. /\ Comes(w, tls13, g, h, d, behind, behind2) /\ InOrder(w, tls13, g, told, d)
        /\ told \subseteq told2
        /\ d = S2C => w.rec.decoded \in told2
        /\ Knows(c, tls13, g, late, behind) /\ Rises(c, tls13, g, told)
        /\ w.is \in InClear /\ w.rec.msgs = <<m>> /\ tls13 \in BOOLEAN
    BY <1>2, <1>4, <1>5, <1>7, <1>8, <1>9, <2>1, <2>3, <2>4
  <2>7. Rises(n, tls13, h, told2) /\ (Climbs(c, n) \/ MayFall(c, n, g))
    BY <2>6, MessageRises
  <2> HIDE DEF n
  <2>8. conns'[Flow] = n
    BY <1>2, <2>5
  <2>9. Applied' = sent
    BY <1>1, <2>5 DEF Applied, Entered
  <2>10. RisesInv'
    BY <1>1, <2>7, <2>8, <2>9 DEF RisesInv, h, told2, tls13
  <2>11. g[S2C] \subseteq h[S2C]
    BY <2>6, AddsMore DEF Comes, S2C, Directions
  <2>12. Climbs(conns[Flow], n) \/ MayFall(conns[Flow], n, Sent(session, sent))
    BY <1>7, <2>7, <2>11 DEF MayFall, h
  <2>13. NeverFalls
    BY <1>1, <2>8, <2>12, NeverFallsBy
  <2> QED
    BY <2>10, <2>13
<1>12. CASE EndHandshakeRecord
  <2>1. /\ Entered /\ todo # << >> /\ Current.rec.type = "Handshake"
    BY <1>2, <1>12
       DEF EndHandshakeRecord, Entered, PeersInv, PeersTypeInv, SafetyInv, TypeInv, CallOK
  <2>2. PICK r \in Records : r = Current.rec
    BY <1>2, <2>1
  <2> DEFINE n == PushRecordEvent(c, r, d)
  <2>3. Consume(n)
    BY <1>2, <1>7, <1>8, <1>12, <2>1, <2>2 DEF EndHandshakeRecord
  <2>4. /\ n.stage = c.stage /\ n.tls_version = c.tls_version
        /\ n.saw_client_finished_marker = c.saw_client_finished_marker
    BY <2>1, <2>2, PushShape
  <2> HIDE DEF g, h, late, tls13, behind, behind2, told, told2, n
  <2>5. Rises(c, tls13, h, told2)
    BY <1>6, <1>7, <2>1
  <2>6. Rises(n, tls13, h, told2) /\ Climbs(c, n)
    BY <2>4, <2>5, RisesKept
  <2>7. Climbs(conns[Flow], n)
    BY <1>7, <2>6
  <2> QED
    BY <2>1, <2>3, <2>6, <2>7, ConsumeRises DEF h, told2, tls13
<1>13. CASE PostCcsHandshakeRecord
  <2>1. /\ phase # "messages" /\ todo # << >> /\ Current.rec.type = "Handshake"
    BY <1>2, <1>13 DEF PostCcsHandshakeRecord, NextRecordIs
  <2>2. PICK r \in Records : r = Current.rec
    BY <1>2, <2>1
  <2> DEFINE n == AfterPostCcsHandshake(c, r, d)
             p == PushRecordEvent(c, r, d)
  <2>3. Consume(n)
    BY <1>2, <1>7, <1>8, <1>13, <2>1, <2>2 DEF PostCcsHandshakeRecord
  <2>4. /\ n.stage = p.stage /\ n.tls_version = p.tls_version
        /\ n.saw_client_finished_marker = p.saw_client_finished_marker
    BY <2>1, <2>2, PostCcsShape, ZenonT(40)
  <2>5. /\ p.stage = c.stage /\ p.tls_version = c.tls_version
        /\ p.saw_client_finished_marker = c.saw_client_finished_marker
    BY <2>1, <2>2, PushShape
  <2> HIDE DEF g, h, late, tls13, behind, behind2, told, told2, n, p
  <2>6. /\ Comes(w, tls13, g, h, d, behind, behind2) /\ told \subseteq told2
        /\ Rises(c, tls13, g, told)
    BY <1>4, <1>5, <1>7, <1>8, <1>9, <2>1 DEF Entered
  <2>7. \A b \in Directions : g[b] \subseteq h[b]
    BY <2>6, AddsMore DEF Comes
  <2>8. Rises(n, tls13, h, told2) /\ Climbs(c, n)
    BY <2>4, <2>5, <2>6, <2>7, RisesKept
  <2>9. Climbs(conns[Flow], n)
    BY <1>7, <2>8
  <2> QED
    BY <2>1, <2>3, <2>8, <2>9, ConsumeRises DEF h, told2, tls13
<1>14. CASE ApplicationDataRecord
  <2>1. phase # "messages" /\ todo # << >> /\ Current.rec.type = "ApplicationData"
    BY <1>2, <1>14 DEF ApplicationDataRecord, NextRecordIs
  <2>2. PICK r \in Records : r = Current.rec
    BY <1>2, <2>1
  <2> DEFINE s == Encrypted(c, d)
             n == PushRecordEvent(s, r, d)
  <2>3. Consume(n)
    BY <1>2, <1>7, <1>8, <1>14, <2>1, <2>2
       DEF ApplicationDataRecord, AfterApplicationData, Encrypted
  <2>4. s \in TrackedConnections
    BY EncryptedShape
  <2> HIDE DEF g, h, late, tls13, behind, behind2, told, told2
  <2>5. /\ Comes(w, tls13, g, h, d, behind, behind2) /\ InOrder(w, tls13, g, told, d)
        /\ told \subseteq told2 /\ Knows(c, tls13, g, late, behind)
        /\ Rises(c, tls13, g, told) /\ w.rec.type = "ApplicationData" /\ FinishAgrees(c)
    BY <1>3, <1>4, <1>5, <1>7, <1>8, <1>9, <2>1 DEF Entered
  <2>6. Rises(s, tls13, h, told2) /\ Climbs(c, s)
    BY <1>2, <2>5, DataRises
  <2> HIDE DEF s
  <2>7. /\ n.stage = s.stage /\ n.tls_version = s.tls_version
        /\ n.saw_client_finished_marker = s.saw_client_finished_marker
    BY <2>1, <2>2, <2>4, PushShape
  <2> HIDE DEF n
  <2>8. Rises(n, tls13, h, told2) /\ PositionOf(n, n.stage) = PositionOf(s, s.stage)
    <3>1. Rises(n, tls13, h, told2)
      BY <2>6, <2>7, RisesKept
    <3>2. Steps(n) = Steps(s)
      BY <2>7 DEF Steps, IsTls12
    <3> QED
      BY <2>7, <3>1, <3>2 DEF PositionOf, OnDiagram
  <2>9. Climbs(conns[Flow], n)
    BY <1>7, <2>6, <2>8 DEF Climbs
  <2> QED
    BY <2>1, <2>3, <2>8, <2>9, ConsumeRises DEF h, told2, tls13
<1>15. CASE ChangeCipherSpecRecord
  <2>1. phase # "messages" /\ todo # << >> /\ Current.rec.type = "ChangeCipherSpec"
    BY <1>2, <1>15 DEF ChangeCipherSpecRecord, NextRecordIs
  <2>2. PICK r \in Records : r = Current.rec
    BY <1>2, <2>1
  <2> DEFINE s == Changed(c, d)
             n == PushRecordEvent(s, r, d)
  <2>3. Consume(n)
    BY <1>2, <1>7, <1>8, <1>15, <2>1, <2>2
       DEF ChangeCipherSpecRecord, AfterChangeCipherSpec, Changed
  <2>4. s \in TrackedConnections
    BY CcsShape
  <2> HIDE DEF g, h, late, tls13, behind, behind2, told, told2
  <2>5. /\ Comes(w, tls13, g, h, d, behind, behind2) /\ told \subseteq told2
        /\ Knows(c, tls13, g, late, behind) /\ Rises(c, tls13, g, told)
        /\ w.rec.type = "ChangeCipherSpec"
    BY <1>4, <1>5, <1>7, <1>8, <1>9, <2>1 DEF Entered
  <2>6. w.is = "ChangeCipherSpec"
    BY <1>2, <2>5, RecordKinds
  <2>7. /\ Legal(tls13, g, d, "ChangeCipherSpec") /\ Grounded(tls13, g)
        /\ Adds(h, g, d, "ChangeCipherSpec")
    BY <2>5, <2>6 DEF Comes
  <2>8. Rises(s, tls13, h, told2) /\ Climbs(c, s)
    BY <1>2, <2>5, <2>7, CcsRises
  <2> HIDE DEF s
  <2>9. /\ n.stage = s.stage /\ n.tls_version = s.tls_version
        /\ n.saw_client_finished_marker = s.saw_client_finished_marker
    BY <2>1, <2>2, <2>4, PushShape
  <2> HIDE DEF n
  <2>10. Rises(n, tls13, h, told2) /\ PositionOf(n, n.stage) = PositionOf(s, s.stage)
    <3>1. Rises(n, tls13, h, told2)
      BY <2>8, <2>9, RisesKept
    <3>2. Steps(n) = Steps(s)
      BY <2>9 DEF Steps, IsTls12
    <3> QED
      BY <2>9, <3>1, <3>2 DEF PositionOf, OnDiagram
  <2>11. Climbs(conns[Flow], n)
    BY <1>7, <2>8, <2>10 DEF Climbs
  <2> QED
    BY <2>1, <2>3, <2>10, <2>11, ConsumeRises DEF h, told2, tls13
<1>16. CASE IgnoredRecord
  <2>1. todo # << >> /\ Current.rec.type = "Other"
    BY <1>2, <1>16 DEF IgnoredRecord, NextRecordIs
  <2> HIDE DEF g, h, late, tls13, behind, behind2, told, told2
  <2> QED
    BY <1>2, <1>4, <2>1, RecordKinds
<1>17. CASE Return
  <2>1. phase = "records" /\ phase' = "evict" /\ todo' = todo /\ conns' = conns /\ todo = << >>
    BY <1>17 DEF Return, call
  <2>2. Applied' = Applied
    BY <1>1, <2>1 DEF Before, Applied, Entered
  <2> HIDE DEF g, h, late, tls13, behind, behind2, told, told2
  <2> QED
    BY <1>1, <2>1, <2>2, SameRises
<1>18. CASE EvictStale
  <2>1. /\ phase = "evict" /\ phase' = "idle" /\ todo' = todo
        /\ tracked' = {k \in tracked : Fresh(k)}
        /\ conns' = [k \in Keys |-> IF k \in tracked' THEN conns[k] ELSE Untracked]
    BY <1>18 DEF EvictStale, call
  <2>2. todo = << >>
    BY <2>1 DEF PeersInv, PeersTypeInv, SafetyInv, TypeInv, CallOK
  <2>3. Fresh(Flow)
    <3>1. Cutoff = 0
      BY TrackerAssumption DEF Cutoff, PeersInv, PlaceInv
    <3>2. conns[Flow].last_seen_ms \in Nat
      BY <1>2, TrackerAssumption DEF TrackedConnections
    <3> QED
      BY <3>1, <3>2 DEF Fresh
  <2>4. conns'[Flow] = conns[Flow]
    BY <1>2, <2>1, <2>3 DEF PeersInv, PlaceInv
  <2>5. Applied' = Applied
    BY <1>1, <2>1, <2>2 DEF Before, Applied, Entered
  <2> HIDE DEF g, h, late, tls13, behind, behind2, told, told2
  <2> QED
    BY <1>1, <2>4, <2>5, SameRises
<1> QED
  BY <1>10, <1>11, <1>12, <1>13, <1>14, <1>15, <1>16, <1>17, <1>18 DEF StepOfCall

LEMMA RisesStep ==
  ASSUME Staged
  PROVE  PeersInv /\ RisesInv /\ [PeersNext]_<<vars, peerVars>> => RisesInv' /\ NeverFalls
<1> SUFFICES ASSUME PeersInv, RisesInv, [PeersNext]_<<vars, peerVars>>
             PROVE  RisesInv' /\ NeverFalls
  OBVIOUS
<1>1. InStages(session)
  BY DEF Staged, PeersInv, PeersTypeInv
<1>2. CASE \E d \in Directions : Observe(d)
  BY <1>2, ObserveRises
<1>3. CASE Track
  BY <1>1, <1>3, TrackRises DEF Track
<1>4. CASE UNCHANGED <<vars, peerVars>>
  <2>1. /\ ends' = ends /\ session' = session /\ sent' = sent /\ conns' = conns
        /\ phase' = phase /\ direction' = direction /\ todo' = todo /\ remaining' = remaining
    BY <1>4 DEF vars, peerVars, call
  <2>2. Flow' = Flow /\ Applied' = Applied
    BY <2>1 DEF Flow, Before, Applied, Entered
  <2> QED
    BY <2>1, <2>2, SameRises
<1> QED
  BY <1>2, <1>3, <1>4 DEF PeersNext

LEMMA RisesInit == PeersInit /\ PeersInv => RisesInv
<1> SUFFICES ASSUME PeersInit, PeersInv PROVE RisesInv
  OBVIOUS
<1>1. PICK n : n = conns[Flow]
  OBVIOUS
<1>2. PICK g : g = Sent(session, Applied)
  OBVIOUS
<1>3. PICK told : told = Told(session, Applied)
  OBVIOUS
<1>4. conns[Flow] = Untracked
  BY InCall DEF PeersInit, Init
<1>5. n.stage = "Idle"
  BY <1>1, <1>4 DEF Untracked, NewConnection
<1>6. Rises12(n, g, told) /\ Rises13(n, g)
  BY <1>5 DEF Rises12, Rises13, OrderedTls12, Flight
<1>7. Rises(n, session.tls13, g, told)
  BY <1>5, <1>6 DEF Rises
<1> QED
  BY <1>1, <1>2, <1>3, <1>7 DEF RisesInv

(* The stage only moves down the diagram, but for the second ClientHello   *)
(* after a HelloRetryRequest, also when the server's answer replaces the   *)
(* diagram by that of TLS 1.2, for sessions whose messages pass in the     *)
(* order in which the diagrams draw them (merge_server_hello, apply_ccs,   *)
(* apply_encrypted_record; ordered and ordered_tls12).                     *)
THEOREM StageOnlyDescends ==
  ASSUME Orderly, Staged
  PROVE  PeersSpec => StageNeverFallsBack
<1>1. PeersInit => PeersInv /\ RisesInv
  BY PeersInvInit, RisesInit
<1>2. (PeersInv /\ RisesInv) /\ [PeersNext]_<<vars, peerVars>> => (PeersInv /\ RisesInv)'
  BY PeersInvNext, RisesStep
<1>3. PeersInv /\ RisesInv /\ [PeersNext]_<<vars, peerVars>>
        => [\/ PositionOf(conns'[Flow], Stage') >= PositionOf(conns[Flow], Stage)
            \/ Stage' = "ClientHello" /\ Seen("ServerToClient", "HelloRetryRequest")
           ]_<<vars, peerVars>>
  BY RisesStep DEF NeverFalls
<1> QED
  BY <1>1, <1>2, <1>3, PTL DEF PeersSpec, StageNeverFallsBack
=============================================================================
