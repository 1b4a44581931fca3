------------------------------ MODULE Sections ------------------------------
(***************************************************************************)
(* What the right pane lists for a record: sections_for and the push_*     *)
(* functions of src/src/ui/sections.rs, and how the bytes of a key share   *)
(* are laid out (key_share_structure).  A section is its subject: a fixed  *)
(* part of the message, or one extension.  Titles, wording and colours are *)
(* left out; the number of value lines is kept, since scrolling reads it.  *)
(***************************************************************************)
EXTENDS Hello, SequencesExt

Part(name) == <<name>>
OfExtension(e) == <<"extension", e>>

PROMOTED_EXTENSIONS == {0, 10, 13, 16, 41, 42, 43, 45, 51}

\* push_extension_if_present, push_key_share_if_present: the first of that type.
IfPresent(extensions, type) ==
  LET of == Carriers(extensions, type)
  IN  IF of = {} THEN << >> ELSE <<OfExtension(extensions[Min(of)])>>

Pinned(extensions, types) ==
  FlattenSeq([i \in DOMAIN types |-> IfPresent(extensions, types[i])])

\* Fault: the pinned ones are listed again in wire order.
OthersAll(extensions) == [i \in DOMAIN extensions |-> OfExtension(extensions[i])]

Others(extensions) ==
  FlattenSeq([i \in DOMAIN extensions |->
    IF extensions[i].ext_type \in PROMOTED_EXTENSIONS THEN << >>
    ELSE <<OfExtension(extensions[i])>>])

ClientHelloSections(extensions) ==
  <<Part("cipher suites")>>
    \o Pinned(extensions, <<51, 43, 13, 10, 45, 41, 42>>)
    \o <<Part("random")>> \o Pinned(extensions, <<0, 16>>)
    \o Others(extensions) \o <<Part("legacy")>>

ServerHelloSections(extensions) ==
  <<Part("cipher suite")>> \o Pinned(extensions, <<51, 43>>)
    \o <<Part("random")>> \o Pinned(extensions, <<41>>)
    \o Others(extensions) \o <<Part("legacy")>>

\* sections_for, of a decoded handshake record.
SectionsFor(decoded) ==
  (CASE decoded.kind = "ClientHello" -> ClientHelloSections(decoded.hello.extensions)
     [] decoded.kind \in {"ServerHello", "HelloRetryRequest"} ->
          ServerHelloSections(decoded.hello.extensions)
     [] OTHER -> <<Part("message")>>)
  \o <<Part("framing")>>

-----------------------------------------------------------------------------
(* The lines of a key share.  A line is the bytes it shows; a line of text *)
(* shows none, but for the one that names a compressed point's first byte. *)
Text == << >>

\* x25519, x448 and the finite-field groups: one value of a fixed size.
PlainSize ==
  [group \in {29, 30, 256, 257, 258} |->
    CASE group = 29 -> 32 [] group = 30 -> 56
      [] group = 256 -> 256 [] group = 257 -> 384 [] group = 258 -> 512]

PlainLines(key, size) ==
  <<Text, Text>> \o (IF Len(key) = size THEN <<key>> ELSE <<Text, key>>)

\* secp256r1, secp384r1, secp521r1: 4 then X and Y, or 2 or 3 then X.
CoordSize ==
  [group \in {23, 24, 25} |-> CASE group = 23 -> 32 [] group = 24 -> 48 [] group = 25 -> 66]

PointLines(key, size) ==
  <<Text>> \o
  (CASE Len(key) = 1 + 2 * size /\ key[1] = 4 ->
          <<Text, <<4>>, SubSeq(key, 2, 1 + size), Drop(key, 1 + size)>>
     [] Len(key) = 1 + size /\ key[1] \in {2, 3} -> <<SubSeq(key, 1, 1), Drop(key, 1)>>
     [] OTHER -> <<Text, key>>)

\* preview_head_tail
Preview(key) == IF Len(key) <= 32 THEN key ELSE SubSeq(key, 1, 16) \o Drop(key, Len(key) - 16)

\* A classical key and both ends of an ML-KEM encapsulation key; of another size the head.
HybridSizes ==
  [group \in {4587, 4588, 25497} |-> <<IF group = 4587 THEN 65 ELSE 32, 1184>>]

HybridLines(key, classical, pq) ==
  <<Text, Text, Text>> \o
  (IF Len(key) = classical + pq
   THEN <<SubSeq(key, 1, classical), Preview(Drop(key, classical))>>
   ELSE <<Text, SubSeq(key, 1, IF Len(key) < 48 THEN Len(key) ELSE 48)>>)

KeyLines(share) ==
  LET group == share.code
  IN  CASE group \in DOMAIN PlainSize -> PlainLines(share.data, PlainSize[group])
        [] group \in DOMAIN CoordSize -> PointLines(share.data, CoordSize[group])
        [] group \in DOMAIN HybridSizes ->
             HybridLines(share.data, HybridSizes[group][1], HybridSizes[group][2])
        [] OTHER -> <<share.data>>

\* key_share_lines: a header per share, an empty line between two.
ShareLines(shares) ==
  FlattenSeq([i \in DOMAIN shares |->
    (IF i = 1 THEN << >> ELSE <<Text>>) \o <<Text>> \o KeyLines(shares[i])])

\* value_lines of a section, in lines before wrapping.
ExtensionRows(body) ==
  CASE body.form = "ServerName" -> Len(body.value)
    [] body.form = "KeyShare" -> Len(ShareLines(body.value))
    [] body.form = "PreSharedKey" -> 1 + Len(body.value.identities)
    [] OTHER -> 1

HexRows(bytes) == IF bytes = << >> THEN 1 ELSE (Len(bytes) + 15) \div 16

ValueRows(section, decoded) ==
  CASE section[1] = "extension" -> ExtensionRows(section[2].body)
    [] section[1] = "cipher suites" -> Len(decoded.hello.cipher_suites)
    [] section[1] = "legacy" -> 3
    [] section[1] = "framing" -> 4
    [] section[1] = "message" -> 1 + HexRows(decoded.raw)
    [] OTHER -> 1
=============================================================================
