------------------------------ MODULE FlowView ------------------------------
(***************************************************************************)
(* The handshake diagram: which step the row selected in the record list   *)
(* highlights (selected_record_stage of src/src/ui/app.rs), and what the   *)
(* diagram says of a step (src/src/model/handshake.rs and                  *)
(* src/src/ui/panels/flow.rs).  A highlight is a set: the wording of an    *)
(* inferred label depends on the record's size, which Tracker leaves out,  *)
(* and the code searches the wording.                                      *)
(***************************************************************************)
EXTENDS Tracker

IsTls12(c) == c.tls_version = "Tls12"

\* Fault: the directions are exchanged.
FinishedOfPeer(d) == IF d = "ServerToClient" THEN "ClientFinished" ELSE "ServerFinished"

FinishedOf(d) == IF d = "ClientToServer" THEN "ClientFinished" ELSE "ServerFinished"

\* Fault: a certificate is always that of TLS 1.3.
PlaintextStageOneVersion(label, d, tls12) ==
  CASE label = "ClientHello" -> {"ClientHello"}
    [] label \in {"ServerHello", "HelloRetryRequest"} -> {"ServerHello"}
    [] label = "Certificate" -> {"Certificate"}
    [] label = "ServerDone" -> {"ServerHelloDone"}
    [] label \in {"ServerKeyExchange", "ClientKeyExchange"} -> {label}
    [] label = "Finished" -> {FinishedOf(d)}
    [] OTHER -> {}

PlaintextStage(label, d, tls12) ==
  CASE label = "ClientHello" -> {"ClientHello"}
    [] label \in {"ServerHello", "HelloRetryRequest"} -> {"ServerHello"}
    [] label = "Certificate" -> IF tls12 THEN {"ServerCertificate"} ELSE {"Certificate"}
    [] label = "ServerDone" -> {"ServerHelloDone"}
    [] label \in {"ServerKeyExchange", "ClientKeyExchange"} -> {label}
    [] label = "Finished" -> {FinishedOf(d)}
    [] OTHER -> {}

EncryptedStages(label, d) ==
  CASE label \in {"FinishedOnly", "FinishedClient", "EncryptedFinishedClient",
                  "EncryptedFinishedServer"} -> {FinishedOf(d)}
    [] label \in {"ApplicationData", "EncryptedApplicationData", "EarlyData",
                  "NewSessionTicket", "EncryptedTicketOrFinishedServer"} -> {"ApplicationData"}
    [] label = "EncryptedExtensions" -> {"Certificate", FinishedOf(d)}
    [] OTHER -> {"Certificate"}

\* The steps the i-th record of the list may highlight; row 0 is the metadata.
Highlighted(c, i) ==
  LET r == c.records[i]
  IN  CASE r.outer_type = "ChangeCipherSpec" -> {}
        [] r.outer_type # "ChangeCipherSpec" /\ r.label \in Decoded ->
             PlaintextStage(r.label, r.direction, IsTls12(c))
        [] OTHER -> EncryptedStages(r.label, r.direction)

-----------------------------------------------------------------------------
(* The diagram.                                                            *)

Ordered == <<"ClientHello", "ServerHello", "Certificate", "ClientFinished",
             "ServerFinished", "ApplicationData">>

OrderedTls12 == <<"ClientHello", "ServerHello", "ServerCertificate", "ServerKeyExchange",
                  "ServerHelloDone", "ClientKeyExchange", "ClientFinished",
                  "ServerFinished", "ApplicationData">>

Steps(c) == IF IsTls12(c) THEN OrderedTls12 ELSE Ordered
OnDiagram(c, stage) == \E i \in DOMAIN Steps(c) : Steps(c)[i] = stage

\* The row of the diagram a stage is drawn in, 0 for none.
PositionOf(c, stage) ==
  IF OnDiagram(c, stage)
  THEN CHOOSE i \in DOMAIN Steps(c) : Steps(c)[i] = stage
  ELSE 0

\* step_meta: the directions a step's arrow points in, and its E mark.
StepDirections(stage) ==
  CASE stage \in {"ClientHello", "ClientKeyExchange", "ClientFinished"} -> {"ClientToServer"}
    [] stage = "ApplicationData" -> Directions
    [] OTHER -> {"ServerToClient"}

StepEncrypted(stage) ==
  stage \in {"Certificate", "ClientFinished", "ServerFinished", "ApplicationData"}
=============================================================================
