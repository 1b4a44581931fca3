------------------------------ MODULE MCPeers ------------------------------
(***************************************************************************)
(* Endpoints and sessions for Peers.  The servers are recognised by their  *)
(* port whichever end sorts lower, or sort higher.                         *)
(***************************************************************************)
EXTENDS Peers

Between(client, server) == [d \in Directions |-> IF d = "ClientToServer" THEN client ELSE server]
At(ip, port) == [ip |-> ip, port |-> port]

MCEnds ==
  {Between(At(1, 5000), At(2, 443)), Between(At(2, 5000), At(1, 8443)),
   Between(At(1, 443), At(1, 8443)), Between(At(1, 4000), At(1, 4433))}
MCOneEnd == {Between(At(2, 5000), At(1, 443))}

MCKeys == {Canonical(e["ClientToServer"], e["ServerToClient"]) : e \in Ends}

MCHonestSessions ==
  {Tls12Full(v) : v \in {"None", "Tls12", "Tls13"}}
  \cup {Tls12Resumed(v) : v \in {"None", "Tls13"}}
  \cup {Tls13(FALSE), Tls13(TRUE), Tls13Retried(FALSE), Tls13Early}

MCCompatibilitySessions == {Tls13(TRUE)}
MCRetriedSessions == {Tls13Retried(TRUE)}

\* The premises under which the properties are proved hold of these sessions.
ASSUME MCProtocol ==
  /\ Orderly /\ Staged
  /\ \A s \in MCHonestSessions : HellosInClear(s) /\ RunsToTheEnd(s) /\ FitsTheLog(s)
=============================================================================
