------------------------------ MODULE FlowKey ------------------------------
(***************************************************************************)
(* Which packets belong together, and which of the two ends is called the  *)
(* client: ConnectionKey::canonical of src/src/model/connection.rs and the *)
(* direction the tracker thread of src/src/ui/mod.rs derives from it.  An  *)
(* address is a number: of IpAddr only the order and equality are used.    *)
(***************************************************************************)
EXTENDS Naturals

Endpoints == [ip : Nat, port : Nat]
TLS_WELL_KNOWN_PORTS == {443, 8443}

IsTlsServer(e) == e.port \in TLS_WELL_KNOWN_PORTS

\* The lexicographic order of the pairs (ip, port).
NotAfter(a, b) == a.ip < b.ip \/ (a.ip = b.ip /\ a.port <= b.port)

\* Fault: the source of the packet is the client.
CanonicalAsSeen(a, b) == [client |-> a, server |-> b]

Canonical(a, b) ==
  IF IF IsTlsServer(a) = IsTlsServer(b) THEN NotAfter(a, b) ELSE IsTlsServer(b)
  THEN [client |-> a, server |-> b]
  ELSE [client |-> b, server |-> a]

DirectionOf(flow, src) ==
  IF src = flow.client THEN "ClientToServer" ELSE "ServerToClient"
=============================================================================
