-------------------------------- MODULE App --------------------------------
(***************************************************************************)
(* The UI thread: the App state machine of src/src/ui/app.rs under the     *)
(* event loop of src/src/ui/mod.rs, fed by the tracker thread through the  *)
(* channel ui_rx.  The loop drains the channel, draws, then handles at     *)
(* most one key; the tracker sends at any moment.                          *)
(*                                                                         *)
(* The tracker is reduced to what its events carry: per tracked flow the   *)
(* record log, which grows while the flow is tracked and starts anew after *)
(* an eviction (module Tracker shows both).  A record is the kind of its   *)
(* body, which fixes how many sections the right pane lists for it.        *)
(* Indices are 0-based as in the source; order[i + 1] is row i.            *)
(***************************************************************************)
EXTENDS Integers, Sequences, FiniteSets

CONSTANTS
  Keys,            \* the flows
  Bodies,          \* kinds of record bodies
  ClientHello,     \* the one toggle_middle_mode looks for
  SectionsFor,     \* [Bodies -> how many sections sections_for lists]
  MaxLog,          \* bound: records in a log
  MaxEvents        \* bound: events the tracker sends

ASSUME AppAssumption ==
  /\ IsFiniteSet(Keys)
  /\ ClientHello \in Bodies
  /\ SectionsFor \in [Bodies -> Nat \ {0}]
  /\ MaxLog \in Nat
  /\ MaxEvents \in Nat

VARIABLES
  tracked,         \* the tracker's flows
  log,             \* their record logs
  removed,         \* how many flows the tracker has evicted
  events,          \* how many events it has sent, for the bound
  ui_rx,           \* the channel
  pc,              \* the event loop: "drain" or "input"
  order, connections, selected, focus, middle_mode,
  records_row, section_index, evicted   \* App

trackerVars == <<tracked, log, removed, events>>
listVars == <<order, connections, evicted>>
cursorVars == <<selected, records_row, section_index>>
appVars == <<listVars, cursorVars, focus, middle_mode>>
vars == <<trackerVars, ui_rx, pc, appVars>>

Focuses == {"Connections", "Records", "Right"}
Logs == Seq(Bodies)
UiEvents == [type : {"HandshakeUpdated"}, key : Keys, records : Logs]
            \cup [type : {"StaleEvicted"}, n : Nat]

Lesser(a, b) == IF a <= b THEN a ELSE b

-----------------------------------------------------------------------------
(* Derived views.                                                          *)

\* App::selected
HasSelected == selected < Len(order)
SelectedKey == order[selected + 1]
SelectedRecords == IF HasSelected THEN connections[SelectedKey] ELSE << >>

\* App::section_count when the selected connection has log rs and the cursor is on `row'.
SectionCount(rs, row) == IF row \in 1..Len(rs) THEN SectionsFor[rs[row]] ELSE 0

\* Fault: subtraction without saturation.
LastSectionUnsaturated(rs, row) == SectionCount(rs, row) - 1

\* section_count().saturating_sub(1)
LastSection(rs, row) ==
  IF SectionCount(rs, row) = 0 THEN 0 ELSE SectionCount(rs, row) - 1

-----------------------------------------------------------------------------
Init ==
  /\ tracked = {} /\ log = [k \in Keys |-> << >>] /\ removed = 0 /\ events = 0
  /\ ui_rx = << >> /\ pc = "drain"
  /\ order = << >> /\ connections = << >> /\ evicted = 0
  /\ selected = 0 /\ records_row = 0 /\ section_index = 0
  /\ focus = "Connections" /\ middle_mode = "Records"

(* The tracker thread.                                                     *)

Send(e) ==
  /\ events < MaxEvents
  /\ events' = events + 1
  /\ ui_rx' = Append(ui_rx, e)
  /\ UNCHANGED <<pc, appVars>>

\* ingest on flow k appended `new' to its log.
TrackerUpdates(k, new) ==
  /\ Len(log[k]) + Len(new) <= MaxLog
  /\ tracked' = tracked \cup {k}
  /\ log' = [log EXCEPT ![k] = @ \o new]
  /\ Send([type |-> "HandshakeUpdated", key |-> k, records |-> log[k] \o new])
  /\ UNCHANGED removed

\* evict_stale removed the flows of S.
TrackerEvicts(S) ==
  /\ S # {}
  /\ tracked' = tracked \ S
  /\ log' = [k \in Keys |-> IF k \in S THEN << >> ELSE log[k]]
  /\ removed' = removed + Cardinality(S)
  /\ Send([type |-> "StaleEvicted", n |-> Cardinality(S)])

TrackerStep ==
  \/ \E k \in Keys : \/ TrackerUpdates(k, << >>)
                     \/ \E b \in Bodies : TrackerUpdates(k, <<b>>)
  \/ \E S \in SUBSET tracked : TrackerEvicts(S)

-----------------------------------------------------------------------------
(* handle_ui_event.                                                        *)

Receive(type) ==
  /\ pc = "drain" /\ ui_rx # << >> /\ Head(ui_rx).type = type
  /\ ui_rx' = Tail(ui_rx)
  /\ UNCHANGED <<trackerVars, pc, focus, middle_mode>>

\* Fault: a shrinking log leaves the cursor behind its end.
ClampIndicesRowOnly(rs) ==
  /\ records_row' = Lesser(records_row, Len(rs))
  /\ UNCHANGED section_index

ClampIndices(rs) ==
  /\ records_row' = Lesser(records_row, Len(rs))
  /\ section_index' = Lesser(section_index, LastSection(rs, records_row'))

\* Fault: every update enters the connection in the list.
OrderWithAlways(k) == Append(order, k)
OrderWith(k) == IF k \in DOMAIN connections THEN order ELSE Append(order, k)

\* Fault: only the first state of a connection is kept.
ConnectionsWithFirst(k, rs) ==
  [x \in DOMAIN connections \cup {k} |->
     IF x \in DOMAIN connections THEN connections[x] ELSE rs]

ConnectionsWith(k, rs) ==
  [x \in DOMAIN connections \cup {k} |-> IF x = k THEN rs ELSE connections[x]]

HandleUpdated ==
  /\ Receive("HandshakeUpdated")
  /\ LET k == Head(ui_rx).key
         rs == Head(ui_rx).records
     IN  /\ order' = OrderWith(k)
         /\ connections' = ConnectionsWith(k, rs)
         /\ IF selected < Len(order') /\ order'[selected + 1] = k
            THEN ClampIndices(rs)
            ELSE UNCHANGED <<records_row, section_index>>
  /\ UNCHANGED <<selected, evicted>>

\* order.retain(..): nothing takes a key out of `connections' alone.
Retained ==
  IF \A i \in 1..Len(order) : order[i] \in DOMAIN connections
  THEN order ELSE SelectSeq(order, LAMBDA k : k \in DOMAIN connections)

\* Fault: the selection is reset.
SelectAfterEvictionResets(kept) ==
  selected' = 0 /\ records_row' = 0 /\ section_index' = 0

SelectAfterEviction(kept) ==
  \/ /\ kept = << >>
     /\ selected' = 0 /\ records_row' = 0 /\ section_index' = 0
  \/ /\ kept # << >>
     /\ \E i \in 1..Len(kept) :
          /\ HasSelected /\ kept[i] = SelectedKey
          /\ selected' = i - 1
          /\ ClampIndices(connections[kept[i]])
  \/ /\ kept # << >>
     /\ ~HasSelected \/ \A i \in 1..Len(kept) : kept[i] # SelectedKey
     /\ selected' = Lesser(selected, Len(kept) - 1)
     /\ records_row' = 0 /\ section_index' = 0

\* saturating_add never saturates within a session.
HandleEvicted ==
  /\ Receive("StaleEvicted")
  /\ evicted' = evicted + Head(ui_rx).n
  /\ order' = Retained
  /\ SelectAfterEviction(order')
  /\ UNCHANGED connections

Drained == pc = "drain" /\ ui_rx = << >> /\ pc' = "input" /\ UNCHANGED <<trackerVars, ui_rx, appVars>>

-----------------------------------------------------------------------------
(* Keys.                                                                   *)

Input == pc = "input" /\ pc' = "drain" /\ UNCHANGED <<trackerVars, ui_rx>>

\* poll's timeout, and the keys that change nothing modelled here.
NoKey == Input /\ UNCHANGED appVars

ToRow(row) == records_row' = row /\ section_index' = 0
NoMove == UNCHANGED <<records_row, section_index>>

\* Fault: the eviction counter is reset with the rest.
ClearConnectionsAndCounter ==
  /\ Input
  /\ order' = << >> /\ connections' = << >> /\ selected' = 0 /\ evicted' = 0
  /\ focus' = "Connections"
  /\ ToRow(0)
  /\ UNCHANGED middle_mode

ClearConnections ==
  /\ Input
  /\ order' = << >> /\ connections' = << >> /\ selected' = 0
  /\ focus' = "Connections"
  /\ ToRow(0)
  /\ UNCHANGED <<evicted, middle_mode>>

FocusLeft ==
  /\ Input
  /\ focus' = IF focus = "Right" THEN "Records" ELSE "Connections"
  /\ UNCHANGED <<listVars, cursorVars, middle_mode>>

AdvancePastMetadataRow ==
  IF records_row = 0 /\ SelectedRecords # << >> THEN ToRow(1) ELSE NoMove

FocusTo(f) ==
  /\ Input
  /\ focus' = f
  /\ IF f = "Right" THEN AdvancePastMetadataRow ELSE NoMove
  /\ UNCHANGED <<listVars, selected, middle_mode>>

FocusRight == FocusTo(IF focus = "Connections" THEN "Records" ELSE "Right")

FocusCycle ==
  FocusTo(CASE focus = "Connections" -> "Records"
            [] focus = "Records" -> "Right"
            [] focus = "Right" -> "Connections")

SelectConnection(i) ==
  /\ Input /\ focus = "Connections"
  /\ selected' = i
  /\ ToRow(0)
  /\ UNCHANGED <<listVars, focus, middle_mode>>

SelectRecord(row) ==
  /\ Input /\ focus = "Records"
  /\ ToRow(row)
  /\ UNCHANGED <<listVars, selected, focus, middle_mode>>

SelectSection(s) ==
  /\ Input /\ focus = "Right" /\ records_row > 0
  /\ section_index' = s
  /\ UNCHANGED <<listVars, selected, records_row, focus, middle_mode>>

\* At either end of a list the arrow keys do nothing: NoKey.
SelectPrev ==
  \/ order # << >> /\ selected > 0 /\ SelectConnection(selected - 1)
  \/ records_row > 0 /\ SelectRecord(records_row - 1)
  \/ section_index > 0 /\ SelectSection(section_index - 1)

SelectNext ==
  \/ selected + 1 < Len(order) /\ SelectConnection(selected + 1)
  \/ records_row < Len(SelectedRecords) /\ SelectRecord(records_row + 1)
  \/ /\ section_index < LastSection(SelectedRecords, records_row)
     /\ SelectSection(section_index + 1)

\* The row of the first ClientHello, when there is one.
ClientHelloRow(row) ==
  /\ row \in 1..Len(SelectedRecords)
  /\ SelectedRecords[row] = ClientHello
  /\ \A i \in 1..row - 1 : SelectedRecords[i] # ClientHello

ToggleMiddleMode ==
  /\ Input
  /\ middle_mode' = IF middle_mode = "Records" THEN "Flow" ELSE "Records"
  /\ \/ /\ middle_mode' = "Flow"
        /\ \E row \in 1..Len(SelectedRecords) : ClientHelloRow(row) /\ ToRow(row)
     \/ /\ middle_mode' = "Flow" => \A row \in 1..Len(SelectedRecords) : ~ClientHelloRow(row)
        /\ NoMove
  /\ UNCHANGED <<listVars, selected, focus>>

UiStep ==
  \/ HandleUpdated \/ HandleEvicted \/ Drained
  \/ NoKey \/ ClearConnections \/ FocusLeft \/ FocusRight \/ FocusCycle
  \/ SelectPrev \/ SelectNext \/ ToggleMiddleMode

Next == TrackerStep \/ UiStep

Spec == Init /\ [][Next]_vars

-----------------------------------------------------------------------------
(* Properties.                                                             *)

TypeOK ==
  /\ tracked \in SUBSET Keys /\ log \in [Keys -> Logs] /\ removed \in Nat
  /\ events \in 0..MaxEvents /\ ui_rx \in Seq(UiEvents) /\ pc \in {"drain", "input"}
  /\ order \in Seq(Keys) /\ DOMAIN connections \in SUBSET Keys
  /\ connections \in [DOMAIN connections -> Logs]
  /\ selected \in Nat /\ records_row \in Nat /\ section_index \in Nat /\ evicted \in Nat
  /\ focus \in Focuses /\ middle_mode \in {"Records", "Flow"}

(* Whatever events and keys interleave, the three cursors point at things  *)
(* that exist: a listed connection, one of its records or the metadata     *)
(* row, and a section of that record (clamp_indices, on_connection_changed *)
(* and the bounds of the select functions).                                *)
CursorInRange ==
  /\ selected < Len(order) \/ (order = << >> /\ selected = 0)
  /\ records_row <= Len(SelectedRecords)
  /\ section_index <= LastSection(SelectedRecords, records_row)

(* The display order lists every known connection exactly once             *)
(* (handle_ui_event keeps a Vec and a HashMap in step).                    *)
OrderIsIndex ==
  /\ {order[i] : i \in 1..Len(order)} = DOMAIN connections
  /\ \A i, j \in 1..Len(order) : order[i] = order[j] => i = j

(* What the user looks at does not move under them: while the channel is   *)
(* drained the selected connection stays selected, and unless its log was  *)
(* replaced by one that does not extend it the cursors stay where they are *)
(* (handle_ui_event; row and section survive updates and evictions).       *)
Extends(new, old) == Len(old) <= Len(new) /\ SubSeq(new, 1, Len(old)) = old

SelectionKept ==
  [][pc = "drain" /\ HasSelected =>
       LET new == connections'[SelectedKey]
       IN  /\ selected' < Len(order') /\ order'[selected' + 1] = SelectedKey
           /\ Extends(new, SelectedRecords) => UNCHANGED <<records_row, section_index>>]_vars

(* The view lags the tracker by exactly the channel: for a tracked flow    *)
(* the last update under way, or else the state on display, is the         *)
(* tracker's (snapshots sent by value, applied in order).                  *)
Updates(k) ==
  {i \in 1..Len(ui_rx) : ui_rx[i].type = "HandshakeUpdated" /\ ui_rx[i].key = k}

ViewFollowsTracker ==
  \A k \in tracked :
    /\ \A i \in Updates(k) :
         (\A j \in Updates(k) : j <= i) => ui_rx[i].records = log[k]
    /\ Updates(k) = {} /\ k \in DOMAIN connections => connections[k] = log[k]

(* The status line's counter is truthful over the whole session: with the  *)
(* evictions still in the channel it is the number of flows the tracker    *)
(* removed, clear_connections or not (the doc comment there).              *)
Amounts ==
  [i \in 1..Len(ui_rx) |-> IF ui_rx[i].type = "StaleEvicted" THEN ui_rx[i].n ELSE 0]

SumOf(q) ==
  LET s[i \in 0..Len(q)] == IF i = 0 THEN 0 ELSE s[i - 1] + q[i]
  IN  s[Len(q)]

EvictionsCounted == removed = evicted + SumOf(Amounts)
=============================================================================
