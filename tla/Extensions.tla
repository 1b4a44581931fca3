----------------------------- MODULE Extensions -----------------------------
(***************************************************************************)
(* The decoders of extension bodies, src/src/parser/extensions.rs.  Bytes  *)
(* are numbers below 256 and slices are sequences of them.  A decoder      *)
(* yields the decoded body or Opaque, which stands for the None that       *)
(* decode_extension turns into ExtensionBody::Opaque.                      *)
(*                                                                         *)
(* NamedGroup and TlsVersion are kept as the code they were read from:     *)
(* from_u16 gives every code a value of its own (Other(v) for the rest).   *)
(***************************************************************************)
EXTENDS Integers, Sequences

\* The number of up to four bytes, the first the highest: from_be_bytes of
\* u8, u16 and u32; 0 where a layout has no bytes.
Number(bytes) ==
  CASE Len(bytes) = 0 -> 0
    [] Len(bytes) = 1 -> bytes[1]
    [] Len(bytes) = 2 -> 256 * bytes[1] + bytes[2]
    [] Len(bytes) = 3 -> 256 * (256 * bytes[1] + bytes[2]) + bytes[3]
    [] OTHER -> 256 * (256 * (256 * bytes[1] + bytes[2]) + bytes[3]) + bytes[4]

Drop(s, n) == SubSeq(s, n + 1, Len(s))
U16(s) == Number(SubSeq(s, 1, 2))

(* Every list of the wire format is walked the same way: an entry is       *)
(* `before' bytes of a code, a length of `width' bytes, that many bytes of *)
(* data and `after' bytes.  The walk ends when what is left is too short   *)
(* for a header, or is `cut' by an entry that announces more than is left. *)
Names == [before |-> 1, width |-> 2, after |-> 0]
Protocols == [before |-> 0, width |-> 1, after |-> 0]
Shares == [before |-> 2, width |-> 2, after |-> 0]
Identities == [before |-> 0, width |-> 2, after |-> 4]
ExtensionList == [before |-> 2, width |-> 2, after |-> 0]

HeaderLen(layout) == layout.before + layout.width
DataLen(layout, s) == Number(SubSeq(s, layout.before + 1, HeaderLen(layout)))
EntryLen(layout, s) == HeaderLen(layout) + DataLen(layout, s) + layout.after

Entry(layout, s) ==
  LET end == HeaderLen(layout) + DataLen(layout, s)
  IN  [code |-> Number(SubSeq(s, 1, layout.before)),
       data |-> SubSeq(s, HeaderLen(layout) + 1, end),
       after |-> Number(SubSeq(s, end + 1, end + layout.after))]

\* What the walk finds from the offset where an entry would start.
Walk(layout, s) ==
  LET from[p \in 0..Len(s)] ==
        LET left == Drop(s, p)
        IN  IF Len(left) < HeaderLen(layout)
            THEN [entries |-> << >>, rest |-> left, cut |-> FALSE]
            ELSE IF Len(left) < EntryLen(layout, left)
            THEN [entries |-> << >>, rest |-> left, cut |-> TRUE]
            ELSE LET others == from[p + EntryLen(layout, left)]
                 IN  [others EXCEPT !.entries = <<Entry(layout, left)>> \o @]
  IN  from[0]

-----------------------------------------------------------------------------
Opaque == [form |-> "Opaque"]
Body(form, value) == [form |-> form, value |-> value]

\* read_opaque_u16: a 16-bit length that accounts for all that follows.
IsVector(s) == Len(s) >= 2 /\ Len(s) = 2 + U16(s)

\* chunks_exact(2)
Pairs(s) == [i \in 1..Len(s) \div 2 |-> Number(<<s[2 * i - 1], s[2 * i]>>)]

\* The names end with the list; what follows the list is not looked at.
DecodeServerName(s) ==
  LET names == Walk(Names, SubSeq(s, 3, 2 + U16(s)))
  IN  IF Len(s) >= 2 /\ Len(s) >= 2 + U16(s) /\ ~names.cut
      THEN Body("ServerName", names.entries) ELSE Opaque

\* supported_groups and signature_algorithms
DecodeCodes(form, s) ==
  IF IsVector(s) /\ Len(s) % 2 = 0 THEN Body(form, Pairs(Drop(s, 2))) ELSE Opaque

DecodeAlpn(s) ==
  LET protocols == Walk(Protocols, Drop(s, 2))
  IN  IF IsVector(s) /\ ~protocols.cut THEN Body("Alpn", protocols.entries) ELSE Opaque

\* The server's single version, or the client's list.
DecodeSupportedVersions(s) ==
  CASE Len(s) = 2 -> Body("SupportedVersions", Pairs(s))
    [] Len(s) \notin {0, 2} /\ Len(s) = 1 + s[1] /\ s[1] % 2 = 0 ->
         Body("SupportedVersions", Pairs(Tail(s)))
    [] OTHER -> Opaque

DecodePskModes(s) ==
  IF s # << >> /\ Len(s) = 1 + s[1] THEN Body("PskKeyExchangeModes", Tail(s)) ELSE Opaque

\* The client's list of shares is told from the server's single share by its length.
ClientForm(s) == Len(s) >= 4 /\ Len(s) = 2 + U16(s)

\* Fault: a share too long for the body ends the list instead of refusing it.
DecodeKeyShareKeepsPart(s) ==
  Body("KeyShare", Walk(Shares, IF ClientForm(s) THEN Drop(s, 2) ELSE s).entries)

DecodeKeyShare(s) ==
  LET shares == Walk(Shares, IF ClientForm(s) THEN Drop(s, 2) ELSE s)
  IN  IF shares.rest = << >> THEN Body("KeyShare", shares.entries) ELSE Opaque

\* Only the client's form; the binders are counted, not read.
DecodePreSharedKey(s) ==
  LET end == 2 + U16(s)
      identities == Walk(Identities, SubSeq(s, 3, end))
  IN  IF Len(s) >= 2 /\ Len(s) >= end + 2 /\ ~identities.cut
      THEN Body("PreSharedKey", [identities |-> identities.entries,
                                 binders_len |-> U16(Drop(s, end))])
      ELSE Opaque

DecodeCookie(s) == IF IsVector(s) THEN Body("Cookie", Drop(s, 2)) ELSE Opaque

DecodeBody(ext_type, s) ==
  CASE ext_type = 0 -> DecodeServerName(s)
    [] ext_type = 10 -> DecodeCodes("SupportedGroups", s)
    [] ext_type \in {13, 50} -> DecodeCodes("SignatureAlgorithms", s)
    [] ext_type = 16 -> DecodeAlpn(s)
    [] ext_type = 41 -> DecodePreSharedKey(s)
    [] ext_type = 42 -> Body("EarlyData", << >>)
    [] ext_type = 43 -> DecodeSupportedVersions(s)
    [] ext_type = 44 -> DecodeCookie(s)
    [] ext_type = 45 -> DecodePskModes(s)
    [] ext_type = 51 -> DecodeKeyShare(s)
    [] OTHER -> Opaque

DecodeExtension(ext_type, s) ==
  [ext_type |-> ext_type, raw |-> s, body |-> DecodeBody(ext_type, s)]
=============================================================================
