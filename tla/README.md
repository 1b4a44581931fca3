# SeeHandshake in TLA+

SeeHandshake captures TCP segments from a network interface, reassembles the
TLS records in them, infers how far each handshake has got, and shows the
connections in a terminal UI. These modules model that program from its Rust
source; paths below are relative to the directory that holds `src/`, so
`src/src/ui/mod.rs` is the file `src/ui/mod.rs` of the crate. `PROJECT.json`
maps every definition to the lines it stands for.

## 1. Inventory

Three threads, connected by two `mpsc` channels (`src/src/ui/mod.rs`):

    capture thread --Frame--> tracker thread --UiEvent--> UI thread (main)
         ^                                                   |
         +-------------- shutdown: AtomicBool ---------------+

| Component | State | Operations | What makes it correct |
|---|---|---|---|
| Packet capture (`capture/`) | the pcap handle | `open`, `next_frame` with a 100 ms read timeout, `extract_tcp` | it notices the shutdown flag on an idle interface; its errors reach the user |
| Flow identity (`model/connection.rs`) | none | `ConnectionKey::canonical`, the direction derived from it | both directions of a flow get one key and opposite directions |
| Connection tracker (`tracker/reassembly.rs`) | a map from keys to `TrackedConnection`: stage, version, counters, CCS flags, record log | `ingest`, `evict_stale` | the log is gap-free, ciphertext is never decoded, stage and labels are justified by what passed, only silent connections go |
| Record reassembly (`tracker/reassembly.rs`, `parser/record.rs`) | one byte buffer per direction | append, `parse_records`, drain, clear on error | the records are exact consecutive slices of the stream wherever segments end |
| Handshake and extension decoders (`parser/`) | none | parse hellos, walk the extensions, choose the preferred version | a decoded field is what the message says |
| Process attribution (`origin/`) | a `/proc` snapshot kept 500 ms | `resolve`, refresh, look-up | a flow is attributed to the process that owns its socket, or to none |
| UI state machine (`ui/app.rs`, `ui/event.rs`) | list and map of connections, three cursors, focus, middle mode, eviction counter | `handle_ui_event`, one operation per key | cursors point at things that exist, list and map agree, the view is the tracker's |
| Event loop and threads (`ui/mod.rs`) | thread handles, channels, shutdown flag, terminal modes | spawn, drain, draw, poll, tear-down, join | every exit of the loop restores the terminal and joins the threads |
| Panels, sections, educational text (`ui/panels/`, `ui/sections.rs`, `ui/education.rs`) | none | list the sections of a record, lay out key shares, scroll, draw the diagram | everything of a hello is listed, the selected section is in view, the highlighted step is the record's |
| Command line, errors, utilities (`cli.rs`, `main.rs`, `error.rs`, `util/`) | none | parse, log, exit codes | sequential code |

What is hard to test here: the two directions of a connection race at the
capture point, so the tracker must make sense of every interleaving of the
peers' records, after an eviction even from the middle of a session; segment
boundaries fall anywhere; events reach the UI between any two key presses; any
thread may end first, on an error, a panic or a hang-up, and the others must
still end; sockets and processes come and go while `/proc` is read; a record may
be cut at any byte of a hello, which two parsers read separately. `PROJECT.json` lists these hazards one by one, each at its line,
with the properties that watch it.

## 2. Modules

| Module | Contents |
|---|---|
| `Tracker` | `ConnectionTracker` driven as the tracker thread drives it |
| `TrackerProofs` | its type invariant, five safety invariants, three more temporal properties |
| `RecordStream` | abstract: what reassembly promises, bytes in, record slices out |
| `Reassembly` | the buffer and the loop of `parse_records` |
| `ReassemblyProofs` | its inductive invariant, and that it implements `RecordStream` |
| `FlowKey` | `ConnectionKey::canonical` and the direction of a frame |
| `FlowView` | the handshake diagram and the step a row highlights, on top of `Tracker` |
| `Peers` | `FlowKey`, `Tracker` and `FlowView` composed with two TLS peers whose records they overhear, and the grammar of the sessions |
| `PeersProofs` | one key and two directions per flow; what list and diagram show is true of every session of the grammar |
| `Attribution` | abstract: what an `OriginResolver` can promise while the machine changes and reads fail |
| `OriginResolver` | `LinuxProcResolver`, its cache and its reads of `/proc`, on a changing machine |
| `OriginResolverProofs` | its type invariant, that it implements `Attribution`, that undisturbed flows are attributed exactly |
| `App` | the UI state machine under the event loop, fed by an abstract tracker |
| `AppProofs` | its type invariant, its lists and cursors, that the view follows the tracker, that evictions are counted |
| `Extensions` | the decoders of extension bodies |
| `Hello` | the two parsers of hellos: full structure and summary |
| `Sections` | which sections a record lists, how key shares are laid out |
| `RightPane` | the rows of the right pane and its scrolling |
| `Detail` | a hello sent by a peer, decoded and looked at: the four modules above composed |
| `DetailProofs` | that decoded extension bodies are what their bytes say, that a hello is shown whole or not at all, no extension twice, that the two parsers agree, that the selected section is in view |
| `NatInduction` | induction over the natural numbers, stated of sets |
| `Pipeline` | the three threads of `run_live`, start to return |
| `PipelineProofs` | its three safety invariants |
| `MCTracker`, `MCReassembly`, `MCPeers`, `MCOriginResolver`, `MCApp`, `MCDetail`, `MCPipeline` | values for the constants, for TLC |

Operators under a comment "Fault:" are deliberately wrong variants of the
definition that follows them. Nothing uses them; substituting one shows that
the property named with it in `PROJECT.json` notices.

### Tracker

One call of `ingest` followed by `evict_stale` with the same clock reading is
cut into steps at the loops of `ingest`: one per TLS record, one per handshake
message in it. `phase`, `key`, `direction`, `now_ms`, `todo` and `remaining`
are the locals of the call in progress; `tracked` is the key set of the map and
`conns` its values. A segment is here the batch of records that
`parse_records` returns for it; a separate action, `IngestFails`, covers the
calls that end in an error. `AfterPostCcsHandshake`, `AfterApplicationData` and
`AfterChangeCipherSpec` are the three arms of the match, in the order of their
statements: whether a counter, a flag or `push_record_event` comes first
changes labels and the end of the log.

Abstracted: versions to "None", "Tls12" (TLS 1.2 and below) and "Tls13" (any
other), which is all the code distinguishes; of `HandshakeInfo` the fields no
decision reads (SNI, ALPN, suites, groups; `Hello` has them); of a label its
size-dependent wording. `OriginResolver::resolve` may answer anything. The
clock may move either way, as `SystemTime` may.

### RecordStream and Reassembly

A header has `RECORD_HEADER_LEN` cells, the last one announcing the payload
length (the two length bytes of the source in one cell). `ParseRecord` is one
iteration of `parse_records`, `ParseEnds` its return and the drain, `ParseFails`
its error with `buf.clear()`, `Overflow` the early return at the cap. The history
variables `received`, `delivered` and `position` are those of `RecordStream`:
the refinement mapping is the identity on them, and every action maps to
`Arrive`, `Deliver`, `Fail` or a stutter.

### FlowKey, FlowView and Peers

`Canonical` orders two endpoints by the rule of the source: an end on a
well-known TLS port is the server, else the lower address and port is the
client. `DirectionOf` is what the tracker thread then makes of a frame's source.
Neither looks at the ClientHello.

`FlowView` translates `is_tls12`, `selected_record_stage`, the two step tables
(`ordered`, `ordered_tls12`) and `step_meta`. What a row highlights is a set,
because for inferred labels the code searches the wording, which depends on the
record's size and is not in `Tracker`.

The peers are external: their record orders come from RFC 5246 (7.3, figures 1
and 2) and RFC 8446 (figures 1, 2 and 4, appendix D.4). A wire record carries what it
really is, which the tracker never sees, and the number of the other side's
records its sender waits for. `Observe` takes the next record of either
direction through `Canonical` and `DirectionOf` to `Ingest`. So labels, stages,
steps and arrows inferred from ciphertext can be compared with the truth.

TLC runs the sessions written out in `Peers`. The proofs go by `Protocol`, what
those sessions have in common: how a record of each meaning looks (`Looks`),
which side may send it and after what of its own (`May`, `Follows`), and what of
the other side's it has waited for (`Needs`, `Waits`). The number of messages,
tickets and data records is open. TLC evaluates `MCProtocol` in `MCPeers`, which
says that the sessions written out are in the grammar and in stages, and those of
`peers_honest` satisfy every premise of the theorems. In the grammar a TLS 1.3
server's flight is two encrypted records, as in the sessions.

### Attribution and OriginResolver

`snapshot` reads `/proc/net/tcp`, `/proc/net/tcp6`, the list of processes, and of
each process the descriptors one by one and then its status. Each is a step
(`ReadTable`, `OpenProc`, `EnterProcess`, `TakeLink`, `TakeStatus`), and each may
fail, in silence as in the code: `ReadTableFails` skips the table
(`origin/linux.rs:127-129`), `OpenProcFails` leaves no process to look at
(`:221-223`), `EnterProcessFails` skips a process, `LinkFails` a link, and
`StatusFails` falls back to uid 0 (`:251`). Between any two steps the machine goes
on: sockets open, are shared by fork, disconnect and are closed, processes exit,
time passes. `current`, `pending` and `found` are the locals of the walk over one
process: which it is, which of its links are left, and which sockets were found.
`Stale` is the test of `CACHE_TTL_MS`, `ResolveFromCache` and `EndSnapshot` are
the two ways `resolve` returns, and `ResolveIn` its two look-ups. A dual-stack
socket that carries an IPv4 connection is listed in `tcp6` under a mapped address
no flow has.

A snapshot need not be a state the machine ever was in. What it does promise is
`Attribution`: each entry of the view follows from facts of the time the
snapshot was made, or from the failure of the read that would have told (the
history variable `seen`), and answers come from a view younger than the TTL. So a
named process held the socket then and is one this user may look into; where only
the user is named, every such process was without the socket at some time then;
an unknown flow was at some time not listed. This is the promise of
`docs/attribution.md:41-49` and `:68-71`. It is deliberately less than that of
`origin/mod.rs:23-25`, which the code does not keep (section 5). The refinement
maps `pc` to "refreshing" and the cache to the view it means. `SteadyFlowsExact`
adds that a flow nothing happened to and all of which was read (`steady`) is
attributed exactly; flows on dual-stack sockets are excepted from it, because
they get `Unknown` although a socket exists.

### App

The loop alternates "drain" (`handle_ui_event` per event) and "input" (at most
one key), the tracker sends at any time. A record is the kind of its body, which
fixes how many sections it lists. Indices are 0-based as in the source.
`toggle_education` is in `Detail`, where it changes what is on display. Not
included: `toggle_diagram`, an overlay nothing else reads, and `tick`, which is
empty.

### Extensions, Hello, Sections, RightPane and Detail

Bytes are numbers and slices sequences, with the field widths of the wire. All
the list walks of the source are one operator, `Walk`, over the layout of an
entry; a field sequence of a hello is read by `Read`. `DecodeHello` is the
parser behind the detail view, `ClientSummary` and `ServerSummary` are the
tracker's, which take their extensions from the `tls_parser` crate. That crate
is external and is modelled only for the hellos a peer may legally send.

`Detail` lets a peer write a ClientHello, ServerHello or HelloRetryRequest from
extensions whose meaning is known, and sends a record that ends at any byte of
it or goes on into another message; in other behaviours it grows an arbitrary
extension body byte by byte. `Means` says which bytes a peer writes for which
meaning, as RFC 8446 lays them out: numbers that fit their width, lists that fit
their length, no trailing bytes. `OffersAssumption` requires it of every
extension offered; TLC evaluates it for the offers of the run. The hello is
written only if its extensions fit their two-byte length. One legal-looking
encoding is excluded: a single share whose group's code is two more than the
length of its key could be read as a client's list; the groups that exist have no
such keys. Then the cursor moves, the education toggle flips
and the pane is resized. `SectionsFor`, `ValueRows` and `ScrollOffset` are
`sections_for`, the lines of `value_lines` and `scroll_offset`; `KeyLines` is a
key share cut into lines, whole unless it is a hybrid one, whose second part
shows its first and last 16 bytes (`Preview`).

### Pipeline

`main`, `capture` and `tracker` say where each thread is. Every step that
returns a `Result` fails if `MayFail` allows it; the tracker may panic while an
origin is resolved (`String::truncate` at `src/src/origin/linux.rs:291` inside a
multi-byte character). A send fails once the receiver is dropped, a receive loop
ends once the channel is empty and its sender dropped, and a receiver takes what
is unread with it (`lost`). A frame is one of three classes; events are counted.

## 3. Runs

| Run | Bounds | Question and answer |
|---|---|---|
| `tracker` | 1 flow, every sequence of 5 records of 6 kinds in either direction, log cap 4; and 2 flows, batches of up to 2 records, clock 0..3, timeout 1 | log, labels, stage and end of logging are consistent, also after an eviction in mid-session; exactly the silent flows are evicted; holds (2.5 million states) |
| `reassembly` | streams of 7 cells, segments of 1..3, cap 4 | buffer, completeness, refinement of `RecordStream`; holds |
| `reassembly_full` | TLS allows one cell more than `MAX_RECORD_PAYLOAD` | a legal ciphertext record is refused (finding) |
| `peers_honest` | TLS 1.2 full and resumed, TLS 1.3 with and without compatibility mode, retried, and with early data; four placements of the endpoints; all interleavings | one flow, truthful labels, stages, highlights and arrows, a whole session is reported; holds |
| `peers_compatibility` | TLS 1.3 in compatibility mode | the timeline stops too early (finding) |
| `peers_retried` | the same with a HelloRetryRequest | the second ClientHello is shown as encrypted (finding) |
| `origin` | an IPv4 and an IPv6 flow in both orders, a readable and an unreadable process, 2 sockets, 3 events (changes of the machine and failing reads), clock 0..1, TTL 1 | every answer follows from what was there or could not be read, exact for undisturbed flows; refinement of `Attribution`; holds (0.6 million states up to symmetry) |
| `hellos` | each hello with up to 2 of its kind's extensions, cut at every byte or followed by another message; every extension body of up to 6 bytes over 5 values behind 3 seeds; 4 pane heights | whole or nothing, decoded is sent, the two parsers agree, nothing is listed twice or out of view; holds (0.1 million states) |
| `server_extensions` | the same hellos | a server's ALPN is in no section (finding) |
| `app` | 2 flows, logs of 2 records, 5 events, any keys | cursors, list, counter, view and selection; holds (3 million states) |
| `pipeline` | any step fails, at most 6 events due | the capture goes on, clean exit, no frame lost, joins return, 'q' obeyed, events drawn; holds |
| `pipeline_errors` | only `open` fails | `run_live` returns Ok (finding) |

Why the bounds suffice. Five records are enough to change cipher in both
directions with one record after each, to count two client records after a
server record, and to fill a log of four; the thresholds of the labels (four
encrypted server records) are within reach. The six kinds are those whose record
changes something; the rest (an undecoded message, a type that is ignored, several
messages or records at once) come in the shorter behaviours, where the clock moves:
`MCTracker` keeps the two apart to keep the states few. Two records are enough for
one before and one after an eviction. Seven cells hold two records with a
rest, an oversize header behind a complete record, and a full buffer. In `app`,
five events cover update, eviction, fresh start and a second flow, with keys
anywhere between. In `pipeline`, six events due let frames, updates and evictions
queue at once in both channels; the bound stops only new frames and never the
threads. In `origin`, three events let a socket be opened, shared and closed, or
a process exit and a read fail, between any two reads, and a clock of one tick
lets a snapshot age to its TTL; four events were checked once, without a
difference, and take longer than a run may. The ends of a connection are
interchangeable, which is the symmetry used. In `hellos`, two extensions give an order, a pinned and an
unpinned one, and a pair whose second is cut; the alphabet has the
lengths that make both readings of a key share possible, the seeds a list and a
share with more bytes than six.

`peers_honest` leaves out exactly the kind of session `peers_retried` is about, a
HelloRetryRequest in compatibility mode. Within it, `WholeSessionReported`
excepts the compatibility mode from the demand that both Finished are in the
timeline, for the reason `peers_compatibility` shows, and the labels of a client
are not judged once its early data passed late (`EarlyDataLate`, section 5).

Deadlock is checked where the system never stops on its own (`tracker`'s bound
on records still lets empty segments arrive; `app`; `pipeline`, which ends in
`Terminated` only after `run_live` returned and the capture thread ended). It is
off for `Reassembly`, `Peers` and `Detail`, whose input simply ends, and for
`OriginResolver`, where the bound on the clock is reached.

### Fairness

Only `Pipeline` states any: weak fairness of each thread. The operating system
schedules a thread that can run, `ct_event::poll` returns after 150 ms and
`next_packet` after the 100 ms read timeout, so no step blocks except on a
channel or a join, and there the action is disabled. Nothing obliges the user
to type or frames to arrive. `QuitObeyed` and `UpdatesShown` are conditional on traffic
not being endless: the loop drains its channel until it is empty before it
draws or reads a key (`ui/mod.rs:178`), so under endless traffic neither holds.
`Returns` needs no such condition.

## 4. Proofs

The proof system checks these for every value of the constants that satisfies
the named assumptions (`TrackerAssumption`, `ReassemblyAssumption`,
`ResolverAssumption`, `AppAssumption`, `PipelineAssumption`, `PeersAssumption`,
`DetailAssumption`: bounds are naturals, sets are of the right kind, tuples are
closed under reversal).

* `TrackerProofs`. `TypeInv` (types plus what the phase says of the locals) is
  inductive. `SafetyInv` adds, per connection, one predicate that strengthens
  the five checked invariants at once: sequence numbers and cap; the CCS flag
  of a direction is set if its CCS is logged; counters, marker and flags agree;
  and the log's inferred labels are tied to the counters. The strengthening is
  needed because a label depends on counters at the time of logging, and the log
  stops before the counters do. Lemmas say what each arm of `ingest` does to it;
  the step proof has one case per action. From it follow `LogIsGapFree`,
  `CiphertextIsNeverDecoded`, `StageIsBacked`, `FinishIsAgreed` and
  `LabelsAreOrdered`; `HistoryIsKept`, `NoneStaysStale` and
  `OnlyTheSilentAreEvicted` are proved step by step from the types.
* `ReassemblyProofs`. `IInv` locates the buffer in the stream and says the
  records found so far tile it up to the cursor. It gives `BufferIsTheTail`
  and `NothingCompleteStays`, and `StreamImplemented`, the refinement:
  initial states map to initial states, every step to an abstract step or a
  stutter. `CapIsUnreachable` has a premise on sizes: a longest segment, a
  header and a longest payload exceed the cap by at most one. The program's
  sizes satisfy it: 65535 (snap length) + 5 + 16384 is below 131072 + 1.
* `OriginResolverProofs`. The invariant (`SnapshotFollows`) says of the snapshot
  in the making that what was read follows from `seen`: the rows (`RowsFollow`),
  the processes found (`ProcsFollow`), the links still to be taken and those
  passed over (`LinksFollow`), and the sockets that are looked for
  (`WantedFollow`); a read that failed is itself in `seen`. Below it `SocketsInv`
  says that a socket is listed in one place and `LoopsInv` where the walk over
  the processes is. Facts once seen stay seen, so what follows from them goes on
  to follow. `ResolverImplements` is the refinement of `Attribution`.
  `SteadyFlowsAreExact` has an invariant of its own, `SteadyInv`: of a flow
  nothing happens to and all of which was read, the tables already read hold
  exactly its row, and the processes not `Ahead` of the walk are found if and only
  if they are its readable holders.
* `PeersProofs`. For all endpoints: `CanonicalSymmetric`, both orders of the
  ends give one key; `CanonicalSeparatesFlows`, only those two do;
  `DirectionsOpposite`; `ServerByPort`, the end on the only well-known port is
  the server. `OneConnection` follows for any sessions whatever. The other
  theorems are about sessions of the grammar between endpoints whose client the
  key recognises (`Orderly`), of any length and under every interleaving of
  their directions: `NeverAheadOfSession`, `DiagramsComplete`,
  `ArrowsAreTruthful` and `RowsHighlightTheirRecord`. Three more need what the
  code needs: `TimelineIsTruthful` that no hello is sent behind a
  ChangeCipherSpec of its sender (else finding 3) and that the log has room
  (`Loggable`), `WholeSessionsAreReported` also that the session runs to its
  end (`Complete`), and `StageOnlyDescends` the order described below. The
  invariant, `PeersInv`, says where the call in progress is (`PlaceInv`), that
  what was observed is what was sent (`ObservedInv`), and what the tracker's
  connection says of the records sent so far (`KnownInv`): version, counters,
  flags and stage are determined by them (`Facts12`, `Facts13`), and each label
  in the log is one its version and direction allow at that point
  (`LabelsFit`). `LoggedInv` adds that the log matches the observation entry by
  entry. Per kind of record, a lemma carries these facts from the records
  before it to those with it; `EarlyDataLate` weakens them where the code is
  known to be misled. `RowsHighlightTheirRecord` needs one fact more,
  `EnteredInv`: once a record's message is applied, the stage is the one its
  first byte stands for.
  `StageOnlyDescends` needs more of a session's order than the grammar states
  (`Staged`): the server's plaintext messages come in theirs and before the
  client's answer, a second ClientHello after the HelloRetryRequest, and
  tickets after the client's Finished. A fourth encrypted record of the server
  before that is taken for its Finished (`apply_encrypted_record`), which
  `ordered` draws below the client's, so the client's Finished would then lead
  back a row. Early tickets (RFC 8446 4.6.1) would do this, and so would a
  server's flight in four records, which the grammar leaves out. Its
  invariant, `RisesInv`, says what each stage presupposes of the records
  applied so far. Per kind of record it follows that the next stage is not
  above the last (`Climbs`), by the rows of the two diagrams (`Positions`).
* `DetailProofs`. `BodiesAreReadBack`: for a body of any length and content, the
  decoded view, encoded again, is the body, with exceptions the property spells
  out: the names of a server_name and the identities of a pre_shared_key are
  their list up to a stub, what follows the list is not claimed to be shown, and
  early_data is left out. The argument is an induction over a walk's position for
  what `Walk` returns (`WalkAccounts`), on top of lemmas that `FlattenSeq` and
  big-endian numbers are read back.
  The converse is `MeaningIsRead`: what a peer writes for a meaning (`Means`) is
  decoded to it, by induction over the entries of a list (`ListIsWritten`).
  `HelloIsWholeOrNothing` builds on it. Its invariant (`HelloInv`) says what the
  message and the record are: the encoding of `exts`, which fits its length, and
  a prefix of it and the next message. `FieldsAreRead` and `HelloIsDecoded` find
  the fields of a complete hello wherever they lie; `RecordIsRead` adds what
  stands behind the hello, and that a record cut short fails `HeaderOk`.
  The other properties of a hello follow from it and from `WholeInv`, which adds
  that no extension is repeated (RFC 8446 section 4.2, `AddExtension`).
  `ReadersDoAgree` is `SummaryGroupIsFirst`, for arbitrary bytes, together with
  what a summary makes of extensions of known meaning (`HelloIsSummed`): the last
  of the highest-ranked versions is the highest known one (`BestIsPreferred`).
  For `ExtensionsAreShownOnce` a thing stands in a list at one place (`Once`) or
  nowhere (`Never`), and the lists a hello's is made of (the pinned ones, the
  others, the parts) each contribute one of the two; `KeyIsShown` puts the lines
  of a key together again. `SelectedIsVisible` adds to the invariant that the
  cursor points into the list (`ViewInv`) and that every section has a height,
  and applies `SelectedInView`, which is about any sections, heights and panes
  and rests on an induction over the sections (`SectionsStacked`). Its premise
  `RowsCounted`, that 16 bits count the rows above the section, is needed: the
  offset is a `u16`, and the model does not bound the rows of a hello.
* `NatInduction` states induction of a set of numbers instead of a predicate,
  since the library's theorems with an operator as parameter cannot be
  instantiated here; the set comes from the well-foundedness of `<`.
* `AppProofs`. The invariant adds to the types that `order` lists the domain of
  `connections` without repetition and that each cursor points into the list on
  display. `CursorsInRange`, `OrderIsTheIndex` and `SelectionIsKept` follow.
  `ViewFollows` is proved for one flow at a time: either the channel's last
  update of it carries the tracker's log, or there is none and the view has it.
  `EvictionsAreCounted` needs lemmas on the recursive sum over the channel:
  that it exists, and what sending and receiving one event add to it.
* `PipelineProofs`. `BothKeepRunning`, `ExitIsClean` and `NoFrameIsLost` depend
  on each other. The invariant adds to the types the order of the tear-down
  (`TearDown`) and why either thread may have ended (`TrackerEndsLast`): the
  capture on the flag, an error or an ended receiver, the tracker on a panic, a
  failed set-up or the capture thread's end.

Model-checked only:

* `SelectedVisible` without the premise of its theorem; within the bounds of
  `hellos` the premise holds.
* All liveness (`Returns`, `QuitObeyed`, `UpdatesShown`), which is out of the
  proof system's reach.

## 5. Findings

1. `parser/record.rs:82`: the plaintext limit of 2^14 is applied to ciphertext
   records, which may be 256 bytes longer; a full-size one makes the connection
   Errored (`reassembly_full`).
2. `tracker/reassembly.rs:264`: in TLS 1.3 compatibility mode both CCS flags are
   set, and the test meant for TLS 1.2 ends the log before any encrypted record
   (`peers_compatibility`).
3. `tracker/reassembly.rs:340`: after a HelloRetryRequest in compatibility mode
   the plaintext second ClientHello is shown as an encrypted Finished
   (`peers_retried`).
4. `ui/mod.rs:76`: a capture error is only logged; `run_live` returns Ok, so the
   permission hint and the exit code 77 are never reached from a live capture
   (`pipeline_errors`).
5. `ui/sections.rs:228`: of a server's hello the extensions 0, 10, 13, 16, 42 and
   45 are in no section, being promoted but pinned for the client only, although
   `README.md:43-44` promises every extension (`server_extensions`).
   `ExtensionsShownOnce` asks nothing of these.

What else was noticed, without a run of its own:

* Tracker. `tracker/reassembly.rs:651`: early data that passes after the
  server's first encrypted record is taken for the client's Finished; the
  condition `EarlyDataLate` in `Peers` marks those behaviours.
* Flow identity. The comment on `ConnectionKey` calls the sender of the
  ClientHello the client; the code goes by ports and address order, so on other
  ports hellos may arrive in the unexpected direction and are ignored.
* Diagram. `ui/app.rs:354`: a TLS 1.2 server's "NewSessionTicket or Finished"
  label contains the words searched first, so its row highlights application
  data.
* Attribution. `origin/mod.rs:23-25` promises Unknown, "never a lie", when the
  process exited between record and look-up. The code answers in two other ways
  as well: with the process and uid 0 when its status is gone
  (`origin/linux.rs:251`), and with `OtherUser` of the socket's uid, possibly this
  user's own, when its descriptors are. `docs/attribution.md:68-71` warns of a
  stale row. A table, a list of processes, a directory or a link that cannot be
  read is skipped in silence, and its flows are Unknown or another user's. An IPv4
  flow of a dual-stack socket is Unknown, though `docs/attribution.md:47-49` and
  `origin/mod.rs:59-61` have that say that no matching socket exists, and so is a
  flow opened after the snapshot. `Local` carries the process's user, not the
  socket's. `origin/linux.rs:291` may cut a command line inside a character and
  panic.
* Decoders. `parser/extensions.rs:6-7` says that malformed bodies fall back to
  Opaque. Some do not: early_data is decoded and shown as an empty body whatever
  its bytes (`extensions.rs:82`, `ui/sections.rs:451`), bytes behind the list of a
  server_name are ignored, a list of names or of PSK identities may end in part of
  an entry, and of the PSK binders only the announced length is read, so they may
  be cut or followed by anything. `BodiesReadBack` is stated with these
  exceptions. `model/record.rs:111` says that the `raw` of an undecoded message
  excludes the four-byte handshake header; `decode_handshake_body` stores the
  whole payload (`tracker/reassembly.rs:392`), header included.
  `HelloWholeOrNothing` accepts either. The comment on `decode_key_share`
  includes the HelloRetryRequest, whose two-byte form is left opaque, as is a
  client's empty list. The detail parser is called the single source of truth
  (`parser/handshake.rs:19`); the summary is read by `tls_parser`.
* Sections. Of a repeated extension only the first is pinned. A server's hybrid
  key share (with a ciphertext instead of an encapsulation key) is shown as a
  size mismatch. Of a record with several handshake messages the detail view
  shows the first.
* Event loop. `docs/architecture.md:65` promises bounded channels with dropped
  frames counted, but the channels are unbounded; `docs/development.md:243`
  expects Ctrl-C to restore the terminal, but in raw mode it is a key that no arm
  of the match names.

## 6. Not modelled

* libpcap and the header decoding of etherparse, which are external. TCP
  sequence numbers are not modelled because the code never reads them: segments
  count in the order they arrive.
* The text formats of `/proc`, `comm` and `cmdline`; `tls_parser` on malformed
  hellos. Each socket table and the list of processes is read in one step; no
  process starts while it is walked, and neither a pid nor an inode is used again.
* Wording, colours, wrapping of lines, the static panels, and the bodies of the
  sections of encrypted and ChangeCipherSpec records (`App` has their number).
* The command line, logging, exit codes and hex dumps: sequential code
  without state.
* The process's end, which kills threads left behind by a failed set-up, is
  outside `Pipeline`.

Worth adding: one specification of `Tracker` and `Reassembly` together, over an
abstract tracker fed directly from a `RecordStream`, if its states can be kept
few.
