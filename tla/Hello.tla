------------------------------- MODULE Hello -------------------------------
(***************************************************************************)
(* The hello decoders of src/src/parser/handshake.rs: the full structure   *)
(* the detail view shows, and the summary the tracker keeps.  They are two *)
(* parsers: the first walks the bytes itself, the second takes them from   *)
(* tls_parser and interprets what that crate hands it.                     *)
(***************************************************************************)
EXTENDS Extensions, FiniteSetsExt

HelloRetryRandom ==
  <<207, 33, 173, 116, 229, 154, 97, 17, 190, 29, 140, 2, 30, 101, 184, 145,
    194, 162, 17, 22, 122, 187, 140, 94, 7, 158, 9, 226, 200, 168, 51, 156>>

(* A field of a hello is a number of bytes, or a vector behind its length. *)
(* Reading fails where the code's read_* return an error.                  *)
Fixed(n) == [width |-> 0, len |-> n]
Vector(width) == [width |-> width, len |-> 0]

FieldLen(f, s) == IF f.width = 0 THEN f.len ELSE Number(SubSeq(s, 1, f.width))

\* Where the i-th field ends; past the end of s once a field does not fit.
FieldEnds(fields, s) ==
  LET ends[i \in 0..Len(fields)] ==
        IF i = 0 THEN 0
        ELSE LET f == fields[i]
                 start == ends[i - 1]
             IN  IF start + f.width > Len(s) THEN Len(s) + 1
                 ELSE start + f.width + FieldLen(f, Drop(s, start))
  IN  ends

Read(fields, s) ==
  LET ends == FieldEnds(fields, s)
      end == ends[Len(fields)]
  IN  IF end > Len(s) THEN [ok |-> FALSE, values |-> << >>, rest |-> s]
      ELSE [ok |-> TRUE,
            values |-> [i \in 1..Len(fields) |->
                          SubSeq(s, ends[i - 1] + fields[i].width + 1, ends[i])],
            rest |-> Drop(s, end)]

\* legacy_version, random, session_id, cipher suites, compression.
HelloFields(msg_type) ==
  IF msg_type = 1
  THEN <<Fixed(2), Fixed(32), Vector(1), Vector(2), Vector(1)>>
  ELSE <<Fixed(2), Fixed(32), Vector(1), Fixed(2), Fixed(1)>>

BodyLen(m) == Number(SubSeq(m, 2, 4))

\* Fault: the announced length is not compared with what is there.
HeaderOkUnchecked(msg_type, m) == Len(m) >= 4 /\ m[1] = msg_type

\* strip_handshake_header
HeaderOk(msg_type, m) == Len(m) >= 4 /\ m[1] = msg_type /\ Len(m) >= 4 + BodyLen(m)

\* walk_extension_bodies: what was read before a cut entry is kept.
WalkExtensionBodies(s) ==
  LET entries == Walk(ExtensionList, s).entries
  IN  [i \in DOMAIN entries |-> DecodeExtension(entries[i].code, entries[i].data)]

Refused == [ok |-> FALSE]

\* decode_client_hello (msg_type 1) and decode_server_hello (2)
DecodeHello(msg_type, m) ==
  LET body == SubSeq(m, 5, IF 4 + BodyLen(m) <= Len(m) THEN 4 + BodyLen(m) ELSE Len(m))
      front == Read(HelloFields(msg_type), body)
      tail == Read(<<Vector(2)>>, front.rest)
      suites == front.values[4]
  IN  IF \/ ~HeaderOk(msg_type, m)
         \/ ~front.ok
         \/ Len(suites) % 2 # 0
         \/ front.rest # << >> /\ ~tail.ok
      THEN Refused
      ELSE [ok |-> TRUE, legacy_version |-> Number(front.values[1]),
            random |-> front.values[2], session_id |-> front.values[3],
            cipher_suites |-> Pairs(suites), compression |-> front.values[5],
            extensions |-> IF front.rest = << >> THEN << >>
                           ELSE WalkExtensionBodies(tail.values[1])]

\* decode_handshake_body: a record's payload shown as one handshake message.
DecodeHandshakeBody(payload) ==
  LET msg_type == IF payload = << >> THEN 0 ELSE payload[1]
      hello == DecodeHello(msg_type, payload)
      kind == CASE msg_type = 1 -> "ClientHello"
                [] msg_type = 2 /\ hello.random = HelloRetryRandom -> "HelloRetryRequest"
                [] OTHER -> "ServerHello"
  IN  IF msg_type \in {1, 2} /\ hello.ok
      THEN [kind |-> kind, hello |-> hello]
      ELSE [kind |-> "Unknown", msg_type |-> msg_type, raw |-> payload]

-----------------------------------------------------------------------------
(* The summaries.  `first' and `none' follow Option: a set with at most    *)
(* one element.  tls_parser delivers the extensions in wire order; of a    *)
(* repeated one the last counts.                                           *)

First(s) == IF s = << >> THEN {} ELSE {s[1]}

\* Fault: the server's share is read where the client's first share would be.
FirstKeyShareGroupAlwaysList(s) == IF Len(s) < 4 THEN {} ELSE {U16(Drop(s, 2))}

\* first_key_share_group
FirstKeyShareGroup(s) ==
  IF Len(s) < 4 THEN {} ELSE IF ClientForm(s) THEN {U16(Drop(s, 2))} ELSE {U16(s)}

\* preferred_version_rank, after TlsVersion::from_u16: the known versions
\* are 0x0300 to 0x0304, anything else ranks below them.
Rank(version) == IF version \in 768..772 THEN version - 767 ELSE 0

\* max_by_key: of equals the last.
Preferred(versions) ==
  {versions[i] : i \in {i \in DOMAIN versions : \A j \in DOMAIN versions :
     Rank(versions[j]) < Rank(versions[i]) \/ (Rank(versions[j]) = Rank(versions[i]) /\ j <= i)}}

Carriers(extensions, type) == {i \in DOMAIN extensions : extensions[i].ext_type = type}

Values(extensions, type) ==
  LET of == Carriers(extensions, type)
  IN  IF of = {} THEN << >> ELSE extensions[Max(of)].body.value

ShareGroup(extensions) ==
  LET of == Carriers(extensions, 51)
  IN  IF of = {} THEN {} ELSE FirstKeyShareGroup(extensions[Max(of)].raw)

\* extract_client_hello, of a well-formed hello.
ClientSummary(h) ==
  [sni |-> First(Values(h.extensions, 0)),
   alpn |-> Values(h.extensions, 16),
   cipher_suites |-> h.cipher_suites,
   groups |-> Values(h.extensions, 10),
   key_share_group |-> ShareGroup(h.extensions),
   version |-> Preferred(Values(h.extensions, 43))]

\* extract_server_hello: legacy_version unless supported_versions is there.
ServerSummary(h) ==
  [cipher_suite |-> h.cipher_suites[1],
   version |-> IF Values(h.extensions, 43) = << >>
               THEN {h.legacy_version} ELSE First(Values(h.extensions, 43)),
   key_share_group |-> ShareGroup(h.extensions),
   alpn |-> First(Values(h.extensions, 16))]
=============================================================================
