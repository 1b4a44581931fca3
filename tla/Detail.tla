------------------------------- MODULE Detail -------------------------------
(***************************************************************************)
(* From the bytes of a hello to the rows on the screen.  A peer composes a *)
(* hello from extensions of known meaning (the hello of RFC 8446 section   *)
(* 4.1, external to the program); a record carries its first bytes, or all *)
(* of it and the beginning of the next message; the decoders of Hello and  *)
(* Extensions read the record, Sections lists it, RightPane scrolls to the *)
(* section under the cursor.  Apart from that a peer may send any bytes at *)
(* all as the body of an extension.                                        *)
(***************************************************************************)
EXTENDS Sections, RightPane

CONSTANTS
  Offers,          \* [kind -> the extensions such a hello may carry, as DecodedExtensions]
  Alphabet,        \* the bytes an arbitrary body is made of
  Seeds,           \* what an arbitrary body may start with
  MaxGrowth,       \* bound: arbitrary bytes after a seed
  MaxExtensions,   \* bound: extensions in a hello
  Heights,         \* the panes' inner heights
  DETAILS          \* lines of edu_details in a section

Kinds == {"ClientHello", "ServerHello", "HelloRetryRequest"}
Bytes == Seq(0..255)

ASSUME DetailAssumption ==
  /\ DOMAIN Offers = Kinds
  /\ Alphabet \subseteq 0..255
  /\ << >> \in Seeds /\ Seeds \subseteq Bytes
  /\ Heights \subseteq Nat \ {0} /\ \E tallest \in Heights : \A h \in Heights : h <= tallest
  /\ MaxGrowth \in Nat /\ MaxExtensions \in Nat /\ DETAILS \in Nat

VARIABLES
  body,            \* an arbitrary extension body
  kind, exts,      \* the peer's hello
  message,         \* its bytes, once it is written
  payload,         \* the record's payload, empty until it is sent
  decoded,         \* the body of the RecordEvent made of it
  education,       \* App's toggle
  section_index,   \* App's cursor, from 0
  inner_h          \* the pane's inner height

helloVars == <<body, kind, exts, message, payload, decoded>>
viewVars == <<education, section_index, inner_h>>
vars == <<helloVars, viewVars>>

-----------------------------------------------------------------------------
(* The peer's encoding.                                                    *)
Weights == <<1, 256, 256 * 256, 256 * 256 * 256>>
BigEndian(n, width) == [i \in 1..width |-> (n \div Weights[width - i + 1]) % 256]
Framed(width, s) == BigEndian(Len(s), width) \o s
Codes(codes) ==
  [i \in 1..2 * Len(codes) |-> BigEndian(codes[(i + 1) \div 2], 2)[2 - (i % 2)]]

Written(layout, entries) ==
  FlattenSeq([i \in DOMAIN entries |->
    BigEndian(entries[i].code, layout.before) \o Framed(layout.width, entries[i].data)
      \o BigEndian(entries[i].after, layout.after)])

(* What a peer may mean by an extension, and the bytes it writes for it    *)
(* (RFC 8446 section 4.2).  Every number fits its width and every list its *)
(* length.  A share alone whose group's code is two more than its length   *)
(* would read as a client's list; no group has such keys.                  *)
Fits(n, width) == n \in Nat /\ IF width = 0 THEN n = 0 ELSE n \div Weights[width] < 256
Frames(raw, width, s) == Fits(Len(s), width) /\ raw = Framed(width, s)

EntrySet == [code : Nat, data : Bytes, after : Nat]

Writable(layout, e) ==
  /\ Fits(e.code, layout.before) /\ Fits(Len(e.data), layout.width) /\ Fits(e.after, layout.after)

IsList(layout, q) == q \in Seq(EntrySet) /\ \A i \in DOMAIN q : Writable(layout, q[i])
ListOf(layout, q, raw) == IsList(layout, q) /\ Frames(raw, 2, Written(layout, q))

IsCodes(q) == q \in Seq(Nat) /\ \A i \in DOMAIN q : Fits(q[i], 2)

KeysOffered(offer, raw) ==
  /\ offer = [identities |-> offer.identities, binders_len |-> offer.binders_len]
  /\ IsList(Identities, offer.identities) /\ Fits(Len(Written(Identities, offer.identities)), 2)
  /\ \E n \in 0..Len(raw) :
       LET binders == Drop(raw, n)
       IN  /\ Fits(Len(binders), 2) /\ offer.binders_len = Len(binders)
           /\ raw = Framed(2, Written(Identities, offer.identities)) \o Framed(2, binders)

ShareAlone(shares, raw) ==
  /\ Len(shares) = 1 /\ raw = Written(Shares, shares)
  /\ shares[1].code # 2 + Len(shares[1].data)

DECODED_EXTENSIONS == {0, 10, 13, 16, 41, 42, 43, 44, 45, 50, 51}

Conveys(type, form, v, raw) ==
  \/ type = 0 /\ form = "ServerName" /\ ListOf(Names, v, raw)
  \/ type = 10 /\ form = "SupportedGroups" /\ IsCodes(v) /\ Frames(raw, 2, Codes(v))
  \/ type \in {13, 50} /\ form = "SignatureAlgorithms" /\ IsCodes(v) /\ Frames(raw, 2, Codes(v))
  \/ type = 16 /\ form = "Alpn" /\ ListOf(Protocols, v, raw)
  \/ type = 41 /\ form = "PreSharedKey" /\ KeysOffered(v, raw)
  \/ type = 42 /\ form = "EarlyData" /\ v = << >> /\ raw = << >>
  \/ type = 43 /\ form = "SupportedVersions" /\ IsCodes(v) /\ v # << >>
       /\ (Frames(raw, 1, Codes(v)) \/ (Len(v) = 1 /\ raw = Codes(v)))
  \/ type = 44 /\ form = "Cookie" /\ v \in Bytes /\ Frames(raw, 2, v)
  \/ type = 45 /\ form = "PskKeyExchangeModes" /\ v \in Bytes /\ Frames(raw, 1, v)
  \/ type = 51 /\ form = "KeyShare" /\ IsList(Shares, v) /\ v # << >>
       /\ (Frames(raw, 2, Written(Shares, v)) \/ ShareAlone(v, raw))

\* The two-byte forms of 41 and 51, a server's choice of one, are not decoded.
Unconveyed(type, raw) == type \notin DECODED_EXTENSIONS \/ (type \in {41, 51} /\ Len(raw) = 2)

Means(e) ==
  /\ e = [ext_type |-> e.ext_type, raw |-> e.raw, body |-> e.body]
  /\ Fits(e.ext_type, 2) /\ e.raw \in Bytes /\ Fits(Len(e.raw), 2)
  /\ \/ e.body = Opaque /\ Unconveyed(e.ext_type, e.raw)
     \/ e.body # Opaque /\ e.body = Body(e.body.form, e.body.value)
          /\ Conveys(e.ext_type, e.body.form, e.body.value, e.raw)

(* A client offers at least one version that exists.                       *)
ASSUME OffersAssumption ==
  \A k \in Kinds : \A e \in Offers[k] :
    /\ Means(e)
    /\ k = "ClientHello" /\ e.ext_type = 43 => \E i \in DOMAIN e.body.value : e.body.value[i] \in 768..772

MsgType == IF kind = "ClientHello" THEN 1 ELSE 2
Random == IF kind = "HelloRetryRequest" THEN HelloRetryRandom ELSE [i \in 1..32 |-> i]
SessionId == <<7>>
Suites == IF kind = "ClientHello" THEN <<4865, 4866>> ELSE <<4865>>

ExtensionBytes ==
  Written(ExtensionList,
          [i \in DOMAIN exts |-> [code |-> exts[i].ext_type, data |-> exts[i].raw, after |-> 0]])

HelloBytes ==
  LET front == <<3, 3>> \o Random \o Framed(1, SessionId)
      choice == IF kind = "ClientHello" THEN Framed(2, Codes(Suites)) \o Framed(1, <<0>>)
                ELSE Codes(Suites) \o <<0>>
      tail == IF exts = << >> THEN << >> ELSE Framed(2, ExtensionBytes)
  IN  <<MsgType>> \o Framed(3, front \o choice \o tail)

NextMessage == <<11, 0, 0>>

-----------------------------------------------------------------------------
\* App::sections
Shown == SectionsFor(decoded)

Init ==
  /\ body \in Seeds /\ kind \in Kinds /\ (body = << >> \/ kind = "ClientHello")
  /\ exts = << >> /\ message = << >> /\ payload = << >> /\ decoded = DecodeHandshakeBody(<< >>)
  /\ education = FALSE /\ section_index = 0 /\ inner_h = Max(Heights)

AppendByte(b) ==
  /\ exts = << >> /\ message = << >> /\ kind = "ClientHello"
  /\ \E s \in Seeds : IsPrefix(s, body) /\ Len(body) < Len(s) + MaxGrowth
  /\ body' = Append(body, b)
  /\ UNCHANGED <<kind, exts, message, payload, decoded, viewVars>>

AddExtension(e) ==
  /\ body = << >> /\ message = << >> /\ Len(exts) < MaxExtensions
  /\ \A i \in DOMAIN exts : exts[i].ext_type # e.ext_type
  /\ exts' = Append(exts, e)
  /\ UNCHANGED <<body, kind, message, payload, decoded, viewVars>>

WriteHello ==
  /\ body = << >> /\ message = << >> /\ Fits(Len(ExtensionBytes), 2)
  /\ message' = HelloBytes
  /\ UNCHANGED <<body, kind, exts, payload, decoded, viewVars>>

\* The record ends inside the hello, or with it, or after the start of another message.
SendRecord(n) ==
  /\ message # << >> /\ payload = << >>
  /\ payload' = SubSeq(message \o NextMessage, 1, n)
  /\ decoded' = DecodeHandshakeBody(payload')
  /\ UNCHANGED <<body, kind, exts, message, viewVars>>

Complete == payload # << >> /\ Len(payload) >= Len(message)

\* The cursor moves within the list (module App).
SelectSection(i) ==
  /\ i < Len(Shown) /\ section_index' = i
  /\ UNCHANGED <<helloVars, education, inner_h>>

ToggleEducation ==
  /\ education' = ~education
  /\ UNCHANGED <<helloVars, section_index, inner_h>>

Resize(h) ==
  /\ inner_h' = h
  /\ UNCHANGED <<helloVars, education, section_index>>

Next ==
  \/ \E b \in Alphabet : AppendByte(b)
  \/ \E e \in Offers[kind] : AddExtension(e)
  \/ WriteHello
  \/ \E n \in 1..Len(message) + Len(NextMessage) : SendRecord(n)
  \/ Complete /\ \E i \in 0..Len(Shown) - 1 : SelectSection(i)
  \/ Complete /\ ToggleEducation
  \/ Complete /\ \E h \in Heights : Resize(h)

Spec == Init /\ [][Next]_vars

-----------------------------------------------------------------------------
(* Properties.                                                             *)

(* A hello is shown whole or not at all: a record that ends inside it, at  *)
(* whatever byte, is shown as an undecoded message with all the bytes of   *)
(* its body, and a record that holds all of it is shown with exactly the   *)
(* sender's version, suites, session id and extensions, each with the      *)
(* sender's meaning, whatever message starts behind it                     *)
(* (strip_handshake_header, the read_* functions and the two forms of      *)
(* key_share, supported_versions, pre_shared_key).  The code keeps the     *)
(* handshake header in raw, which model/record.rs:111 says it excludes:    *)
(* the property holds for either.                                          *)
HelloWholeOrNothing ==
  payload # << >> =>
    IF Complete
    THEN /\ decoded.kind = kind
         /\ decoded.hello.legacy_version = 771 /\ decoded.hello.extensions = exts
         /\ decoded.hello.cipher_suites = Suites
         /\ decoded.hello.session_id = SessionId /\ decoded.hello.random = Random
    ELSE /\ decoded.kind = "Unknown" /\ decoded.msg_type = MsgType
         /\ decoded.raw \in {payload, Drop(payload, 4)}

(* What a decoder shows of an arbitrary body is what the body says: groups *)
(* and algorithms, protocols, versions, modes, a cookie and key shares are *)
(* the whole body when they are encoded again.  A server_name's names and  *)
(* a pre_shared_key's identities are their list up to the stub of an entry *)
(* it may end in; a server_name's body may go on behind the list, and of   *)
(* the binders the length they announce is all that is read.  Such bodies  *)
(* are malformed and shown all the same, where extensions.rs:6-7 speaks of *)
(* Opaque; early_data is left out, being shown as empty whatever arrives.  *)
EndsInStub(layout, entries, s) ==
  LET list == SubSeq(s, 3, 2 + U16(s))
  IN  /\ IsPrefix(Written(layout, entries), list)
      /\ Len(list) - Len(Written(layout, entries)) < HeaderLen(layout)

AccountsFor(b, s) ==
  CASE b.form = "Opaque" -> TRUE
    [] b.form = "ServerName" -> EndsInStub(Names, b.value, s)
    [] b.form \in {"SupportedGroups", "SignatureAlgorithms"} -> s = Framed(2, Codes(b.value))
    [] b.form = "Alpn" -> s = Framed(2, Written(Protocols, b.value))
    [] b.form = "PreSharedKey" ->
         /\ EndsInStub(Identities, b.value.identities, s)
         /\ b.value.binders_len = U16(Drop(s, 2 + U16(s)))
    [] b.form = "SupportedVersions" -> s \in {Codes(b.value), Framed(1, Codes(b.value))}
    [] b.form = "Cookie" -> s = Framed(2, b.value)
    [] b.form = "PskKeyExchangeModes" -> s = Framed(1, b.value)
    [] b.form = "KeyShare" -> s \in {Written(Shares, b.value), Framed(2, Written(Shares, b.value))}

BodiesReadBack ==
  \A t \in DECODED_EXTENSIONS \ {42} : AccountsFor(DecodeBody(t, body), body)

(* The tracker's summary and the detail view tell the same story although  *)
(* they are two parsers.  For any bytes at all, when the view lists key    *)
(* shares the tracker's group is the first one's; for a hello, group and   *)
(* version are those the sender meant, the highest it knows for a client,  *)
(* legacy_version when no extension says otherwise for a server            *)
(* (first_key_share_group, preferred_version_rank).                        *)
Meant(type) == {exts[i].body.value : i \in {i \in DOMAIN exts :
                  exts[i].ext_type = type /\ exts[i].body # Opaque}}

GroupsAgree ==
  \/ DecodeKeyShare(body) \in {Opaque, Body("KeyShare", << >>)}
  \/ FirstKeyShareGroup(body) = {DecodeKeyShare(body).value[1].code}

SummaryTrue(summary) ==
  /\ summary.key_share_group = {shares[1].code : shares \in Meant(51)}
  /\ \A versions \in Meant(43) :
       summary.version = IF kind = "ClientHello"
                         THEN {Max({v \in ToSet(versions) : v <= 772})} ELSE {versions[1]}
  /\ Meant(43) = {} => summary.version = IF kind = "ClientHello" THEN {} ELSE {771}

ReadersAgree ==
  /\ GroupsAgree
  /\ Complete => SummaryTrue(IF kind = "ClientHello" THEN ClientSummary(decoded.hello)
                             ELSE ServerSummary(decoded.hello))

(* No extension of a hello is listed twice, pinned and again in wire       *)
(* order; a client's are all listed, and a server's but for the types that *)
(* are promoted and pinned for the client only, of which nothing is asked  *)
(* here (see EveryExtensionShown).  The lines of a key share together are  *)
(* the whole key, whatever its size and form; only hybrid keys are         *)
(* abbreviated (push_client_hello, push_server_hello,                      *)
(* key_share_structure).                                                   *)
ClientOnly == {0, 10, 13, 16, 42, 45}

Listings(e) == Cardinality({s \in DOMAIN Shown : Shown[s] = OfExtension(e)})

KeyShown(share) ==
  share.code \in DOMAIN HybridSizes \/ FlattenSeq(KeyLines(share)) = share.data

ExtensionsShownOnce ==
  Complete =>
    \A i \in DOMAIN exts :
      /\ Listings(exts[i]) <= 1
      /\ kind = "ClientHello" \/ exts[i].ext_type \notin ClientOnly => Listings(exts[i]) = 1
      /\ exts[i].body # Opaque /\ exts[i].ext_type = 51 =>
           \A j \in DOMAIN exts[i].body.value : KeyShown(exts[i].body.value[j])

(* Every extension of a plaintext hello is among the sections: "every      *)
(* extension with its decoded body and raw bytes" (src/README.md:43-44),   *)
(* and what is not pinned "is emitted in wire order after the promoted     *)
(* ones" (sections.rs:237-238).  push_server_hello leaves out what is      *)
(* promoted but pinned for the client only, such as a server's ALPN.       *)
EveryExtensionShown ==
  Complete => \A i \in DOMAIN exts : OfExtension(exts[i]) \in ToSet(Shown)

(* The section under the cursor is in view, whatever its height, the       *)
(* pane's and the rows above it: its title, all of it when it fits, and    *)
(* never a pane scrolled past the last row (scroll_offset).                *)
SectionHeights ==
  [i \in DOMAIN Shown |-> SectionHeight(ValueRows(Shown[i], decoded), education, DETAILS)]

SelectedVisible ==
  payload # << >> =>
    LET start == Start(SectionHeights, section_index + 1)
        height == SectionHeights[section_index + 1]
        total == TotalRows(SectionHeights)
    IN  InView(ScrollOffset(start, height, total, inner_h), start, height, total, inner_h)
=============================================================================
