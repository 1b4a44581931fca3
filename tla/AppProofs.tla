----------------------------- MODULE AppProofs -----------------------------
(***************************************************************************)
(* The UI state machine keeps its lists and cursors consistent, and the    *)
(* user's selection in place, for any flows, logs, kinds of record and     *)
(* numbers of sections.  The inductive invariant is the type of the state, *)
(* the list that indexes the map, and the cursors within it.               *)
(***************************************************************************)
EXTENDS App, FiniteSetTheorems, SequenceTheorems, NatInduction, TLAPS

USE AppAssumption

TrackerTypes ==
  /\ tracked \in SUBSET Keys /\ log \in [Keys -> Logs] /\ removed \in Nat
  /\ events \in 0..MaxEvents

ChannelTypes == ui_rx \in Seq(UiEvents) /\ pc \in {"drain", "input"}

ListTypes ==
  /\ order \in Seq(Keys) /\ DOMAIN connections \in SUBSET Keys
  /\ connections \in [DOMAIN connections -> Logs] /\ evicted \in Nat

CursorTypes ==
  /\ selected \in Nat /\ records_row \in Nat /\ section_index \in Nat
  /\ focus \in Focuses /\ middle_mode \in {"Records", "Flow"}

ListInv == ListTypes /\ OrderIsIndex
CursorInv == CursorTypes /\ CursorInRange

\* The inductive invariant.
IInv == TrackerTypes /\ ChannelTypes /\ ListInv /\ CursorInv

-----------------------------------------------------------------------------
(* The events.                                                             *)

LEMMA ReceivedEvent ==
  ASSUME ChannelTypes, NEW type, Receive(type)
  PROVE  /\ Head(ui_rx) \in UiEvents /\ Head(ui_rx).type = type
         /\ ui_rx' \in Seq(UiEvents)
         /\ pc' = pc /\ pc = "drain" /\ focus' = focus /\ middle_mode' = middle_mode
         /\ UNCHANGED trackerVars
<1>1. ui_rx \in Seq(UiEvents) /\ ui_rx # << >>
  BY DEF ChannelTypes, Receive
<1>2. Head(ui_rx) \in UiEvents /\ Tail(ui_rx) \in Seq(UiEvents)
  BY <1>1, HeadTailProperties
<1>3. QED
  BY <1>2 DEF Receive

LEMMA ReceivedUpdate ==
  ASSUME ChannelTypes, Receive("HandshakeUpdated")
  PROVE  Head(ui_rx).key \in Keys /\ Head(ui_rx).records \in Logs
<1>1. Head(ui_rx) \in UiEvents /\ Head(ui_rx).type = "HandshakeUpdated"
  BY ReceivedEvent
<1>2. QED
  BY <1>1 DEF UiEvents

LEMMA ReceivedEviction ==
  ASSUME ChannelTypes, Receive("StaleEvicted")
  PROVE  Head(ui_rx).n \in Nat
<1>1. Head(ui_rx) \in UiEvents /\ Head(ui_rx).type = "StaleEvicted"
  BY ReceivedEvent
<1>2. QED
  BY <1>1 DEF UiEvents

-----------------------------------------------------------------------------
(* The sections of a record and clamp_indices.                             *)

LEMMA LastSectionType ==
  ASSUME NEW rs \in Logs, NEW row \in Nat
  PROVE  LastSection(rs, row) \in Nat /\ LastSection(rs, 0) = 0
<1>1. ASSUME NEW r \in Nat PROVE SectionCount(rs, r) \in Nat
  <2>1. CASE r \in 1..Len(rs)
    <3>1. rs[r] \in Bodies
      BY <2>1, ElementOfSeq DEF Logs
    <3>2. QED
      BY <2>1, <3>1 DEF SectionCount
  <2>2. CASE r \notin 1..Len(rs)
    BY <2>2 DEF SectionCount
  <2>3. QED
    BY <2>1, <2>2
<1>2. SectionCount(rs, 0) = 0
  BY DEF SectionCount
<1>3. QED
  BY <1>1, <1>2 DEF LastSection

LEMMA ClampInRange ==
  ASSUME CursorTypes, NEW rs \in Logs, ClampIndices(rs)
  PROVE  /\ records_row' \in Nat /\ section_index' \in Nat
         /\ records_row' <= Len(rs)
         /\ section_index' <= LastSection(rs, records_row')
<1>1. Len(rs) \in Nat
  BY LenProperties DEF Logs
<1>2. records_row' \in Nat /\ records_row' <= Len(rs)
  BY <1>1 DEF ClampIndices, CursorTypes, Lesser
<1>3. LastSection(rs, records_row') \in Nat
  BY <1>2, LastSectionType
<1>4. QED
  BY <1>2, <1>3 DEF ClampIndices, CursorTypes, Lesser

(* A cursor within the old log stays where it is when the new one extends it. *)
LEMMA ClampKeeps ==
  ASSUME CursorTypes, NEW old \in Logs, NEW rs \in Logs, Extends(rs, old),
         records_row <= Len(old), section_index <= LastSection(old, records_row),
         ClampIndices(rs)
  PROVE  UNCHANGED <<records_row, section_index>>
<1>1. Len(old) \in Nat /\ Len(rs) \in Nat /\ Len(old) <= Len(rs) /\ records_row \in Nat
  BY LenProperties DEF Logs, Extends, CursorTypes
<1>2. records_row' = records_row
  BY <1>1 DEF ClampIndices, Lesser
<1>3. SectionCount(rs, records_row) = SectionCount(old, records_row)
  <2>1. CASE records_row \in 1..Len(old)
    <3>1. SubSeq(rs, 1, Len(old))[records_row] = rs[records_row]
      BY <1>1, <2>1, SubSeqProperties DEF Logs
    <3>2. rs[records_row] = old[records_row]
      BY <3>1 DEF Extends
    <3>3. QED
      BY <1>1, <2>1, <3>2 DEF SectionCount
  <2>2. CASE records_row \notin 1..Len(old)
    <3>1. records_row = 0
      BY <1>1, <2>2
    <3>2. QED
      BY <3>1 DEF SectionCount
  <2>3. QED
    BY <2>1, <2>2
<1>4. LastSection(rs, records_row) = LastSection(old, records_row)
  BY <1>3 DEF LastSection
<1>5. LastSection(old, records_row) \in Nat /\ section_index \in Nat
  BY <1>1, LastSectionType DEF CursorTypes
<1>6. section_index' = section_index
  BY <1>2, <1>4, <1>5 DEF ClampIndices, Lesser
<1>7. QED
  BY <1>2, <1>6

-----------------------------------------------------------------------------
(* The list and the map.                                                   *)

\* What leaves alone the list, the map and the counter keeps what is said of them.
LEMMA ListsUnchanged ==
  ASSUME ListInv, UNCHANGED listVars
  PROVE  ListInv'
BY DEF ListInv, ListTypes, OrderIsIndex, listVars

LEMMA RetainedAll ==
  ASSUME ListInv
  PROVE  Retained = order
<1>1. \A i \in 1..Len(order) : order[i] \in DOMAIN connections
  BY DEF ListInv, OrderIsIndex
<1>2. QED
  BY <1>1 DEF Retained

LEMMA UpdateKeepsLists ==
  ASSUME ListInv, ChannelTypes, HandleUpdated
  PROVE  ListInv'
<1> DEFINE k == Head(ui_rx).key
           rs == Head(ui_rx).records
<1>1. k \in Keys /\ rs \in Logs
  BY ReceivedUpdate DEF HandleUpdated
<1>2. order' = OrderWith(k) /\ connections' = ConnectionsWith(k, rs) /\ evicted' = evicted
  BY DEF HandleUpdated
<1> HIDE DEF k, rs
<1>3. DOMAIN connections' = DOMAIN connections \cup {k}
  BY <1>2 DEF ConnectionsWith
<1>4. connections' \in [DOMAIN connections' -> Logs]
  BY <1>1, <1>2, <1>3 DEF ConnectionsWith, ListInv, ListTypes
<1>5. CASE k \in DOMAIN connections
  <2>1. order' = order /\ DOMAIN connections' = DOMAIN connections
    BY <1>2, <1>3, <1>5 DEF OrderWith
  <2>2. QED
    BY <1>2, <1>4, <2>1 DEF ListInv, ListTypes, OrderIsIndex
<1>6. CASE k \notin DOMAIN connections
  <2>1. order \in Seq(Keys) /\ order' = Append(order, k)
    BY <1>2, <1>6 DEF OrderWith, ListInv, ListTypes
  <2>2. /\ order' \in Seq(Keys) /\ Len(order') = Len(order) + 1 /\ Len(order) \in Nat
        /\ \A i \in 1..Len(order) : order'[i] = order[i]
        /\ order'[Len(order) + 1] = k
    BY <1>1, <2>1, AppendProperties, LenProperties
  <2>3. {order'[i] : i \in 1..Len(order')} = DOMAIN connections'
    <3>1. {order[i] : i \in 1..Len(order)} = DOMAIN connections
      BY DEF ListInv, OrderIsIndex
    <3>2. QED
      BY <1>3, <2>2, <3>1
  <2>4. ASSUME NEW i \in 1..Len(order'), NEW j \in 1..Len(order'), order'[i] = order'[j]
        PROVE  i = j
    <3>1. \A n \in 1..Len(order) : order[n] # k
      BY <1>6 DEF ListInv, OrderIsIndex
    <3>2. \A n, m \in 1..Len(order) : order[n] = order[m] => n = m
      BY DEF ListInv, OrderIsIndex
    <3>3. QED
      BY <2>2, <2>4, <3>1, <3>2
  <2>5. QED
    BY <1>1, <1>2, <1>3, <1>4, <2>2, <2>3, <2>4 DEF ListInv, ListTypes, OrderIsIndex
<1>7. QED
  BY <1>5, <1>6

LEMMA EvictionKeepsLists ==
  ASSUME ListInv, ChannelTypes, HandleEvicted
  PROVE  ListInv'
<1>1. order' = order /\ connections' = connections
  BY RetainedAll DEF HandleEvicted
<1>2. Head(ui_rx).n \in Nat
  BY ReceivedEviction DEF HandleEvicted
<1>3. evicted' \in Nat
  BY <1>2 DEF HandleEvicted, ListInv, ListTypes
<1>4. QED
  BY <1>1, <1>3 DEF ListInv, ListTypes, OrderIsIndex

LEMMA ClearKeepsLists ==
  ASSUME ListInv, ClearConnections
  PROVE  ListInv'
<1>1. order' = << >> /\ connections' = << >> /\ evicted' = evicted
  BY DEF ClearConnections
<1>2. order' \in Seq(Keys) /\ Len(order') = 0
  BY <1>1, EmptySeq
<1>3. DOMAIN connections' = {} /\ connections' \in [DOMAIN connections' -> Logs]
  BY <1>1
<1>4. QED
  BY <1>1, <1>2, <1>3 DEF ListInv, ListTypes, OrderIsIndex

\* The other steps leave the lists alone.
LEMMA OthersKeepLists ==
  ASSUME Next, ~HandleUpdated, ~HandleEvicted, ~ClearConnections
  PROVE  UNCHANGED listVars
<1>1. CASE TrackerStep
  BY <1>1 DEF TrackerStep, TrackerUpdates, TrackerEvicts, Send, appVars
<1>2. CASE Drained \/ NoKey
  BY <1>2 DEF Drained, NoKey, appVars
<1>3. CASE FocusLeft \/ FocusRight \/ FocusCycle
  BY <1>3 DEF FocusLeft, FocusRight, FocusCycle, FocusTo
<1>4. CASE SelectPrev \/ SelectNext
  BY <1>4 DEF SelectPrev, SelectNext, SelectConnection, SelectRecord, SelectSection
<1>5. CASE ToggleMiddleMode
  BY <1>5 DEF ToggleMiddleMode
<1>6. QED
  BY <1>1, <1>2, <1>3, <1>4, <1>5 DEF Next, UiStep

LEMMA StepKeepsLists ==
  ASSUME ListInv, ChannelTypes, [Next]_vars
  PROVE  ListInv'
<1>1. CASE HandleUpdated
  BY <1>1, UpdateKeepsLists
<1>2. CASE HandleEvicted
  BY <1>2, EvictionKeepsLists
<1>3. CASE ClearConnections
  BY <1>3, ClearKeepsLists
<1>4. CASE UNCHANGED vars
  BY <1>4, ListsUnchanged DEF vars, appVars
<1>5. CASE Next /\ ~HandleUpdated /\ ~HandleEvicted /\ ~ClearConnections
  BY <1>5, OthersKeepLists, ListsUnchanged
<1>6. QED
  BY <1>1, <1>2, <1>3, <1>4, <1>5

-----------------------------------------------------------------------------
(* The tracker and the channel.                                            *)

LEMMA SendKeepsChannel ==
  ASSUME ChannelTypes, NEW e \in UiEvents, Send(e), TrackerTypes
  PROVE  ChannelTypes' /\ events' \in 0..MaxEvents
<1>1. ui_rx' \in Seq(UiEvents)
  BY AppendProperties DEF ChannelTypes, Send
<1>2. events' \in 0..MaxEvents
  BY DEF Send, TrackerTypes
<1>3. QED
  BY <1>1, <1>2 DEF ChannelTypes, Send

LEMMA TrackerUpdateKeepsTypes ==
  ASSUME TrackerTypes, ChannelTypes, NEW k \in Keys, NEW new \in Logs, TrackerUpdates(k, new)
  PROVE  TrackerTypes' /\ ChannelTypes'
<1> DEFINE rs == log[k] \o new
           e == [type |-> "HandshakeUpdated", key |-> k, records |-> rs]
<1>1. rs \in Logs
  BY ConcatProperties DEF TrackerTypes, Logs
<1>2. e \in UiEvents
  BY <1>1 DEF UiEvents
<1>3. log' = [log EXCEPT ![k] = rs] /\ tracked' = tracked \cup {k} /\ removed' = removed
  BY DEF TrackerUpdates
<1>4. Send(e)
  BY DEF TrackerUpdates
<1> HIDE DEF rs, e
<1>5. ChannelTypes' /\ events' \in 0..MaxEvents
  BY <1>2, <1>4, SendKeepsChannel
<1>6. QED
  BY <1>1, <1>3, <1>5 DEF TrackerTypes

LEMMA TrackerEvictionKeepsTypes ==
  ASSUME TrackerTypes, ChannelTypes, NEW S \in SUBSET tracked, TrackerEvicts(S)
  PROVE  TrackerTypes' /\ ChannelTypes'
<1> DEFINE e == [type |-> "StaleEvicted", n |-> Cardinality(S)]
<1>1. Cardinality(S) \in Nat
  <2>1. S \subseteq Keys
    BY DEF TrackerTypes
  <2>2. IsFiniteSet(S)
    BY <2>1, FS_Subset
  <2>3. QED
    BY <2>2, FS_CardinalityType
<1>2. e \in UiEvents
  BY <1>1 DEF UiEvents
<1>3. Send(e)
  BY DEF TrackerEvicts
<1> HIDE DEF e
<1>4. ChannelTypes' /\ events' \in 0..MaxEvents
  BY <1>2, <1>3, SendKeepsChannel
<1>5. log' \in [Keys -> Logs]
  <2>1. << >> \in Logs
    BY EmptySeq DEF Logs
  <2>2. QED
    BY <2>1 DEF TrackerEvicts, TrackerTypes
<1>6. tracked' \in SUBSET Keys /\ removed' \in Nat
  BY <1>1 DEF TrackerEvicts, TrackerTypes
<1>7. QED
  BY <1>4, <1>5, <1>6 DEF TrackerTypes

LEMMA TrackerStepKeepsTypes ==
  ASSUME TrackerTypes, ChannelTypes, TrackerStep
  PROVE  TrackerTypes' /\ ChannelTypes'
<1>1. CASE \E k \in Keys : TrackerUpdates(k, << >>)
  <2>1. << >> \in Logs
    BY EmptySeq DEF Logs
  <2>2. QED
    BY <1>1, <2>1, TrackerUpdateKeepsTypes
<1>2. CASE \E k \in Keys : \E b \in Bodies : TrackerUpdates(k, <<b>>)
  <2>1. \A b \in Bodies : <<b>> \in Logs
    BY DEF Logs
  <2>2. QED
    BY <1>2, <2>1, TrackerUpdateKeepsTypes
<1>3. CASE \E S \in SUBSET tracked : TrackerEvicts(S)
  BY <1>3, TrackerEvictionKeepsTypes
<1>4. QED
  BY <1>1, <1>2, <1>3 DEF TrackerStep

\* The UI takes events out of the channel and leaves the tracker alone.
LEMMA UiLeavesTracker ==
  ASSUME ChannelTypes, UiStep
  PROVE  UNCHANGED trackerVars /\ ChannelTypes'
<1>1. CASE HandleUpdated \/ HandleEvicted
  <2>1. PICK type : Receive(type)
    BY <1>1 DEF HandleUpdated, HandleEvicted
  <2>2. QED
    BY <2>1, ReceivedEvent DEF ChannelTypes
<1>2. CASE Drained
  BY <1>2 DEF Drained, ChannelTypes
<1>3. CASE ~HandleUpdated /\ ~HandleEvicted /\ ~Drained
  <2>1. Input
    BY <1>3 DEF UiStep, NoKey, ClearConnections, FocusLeft, FocusRight, FocusCycle, FocusTo,
                SelectPrev, SelectNext, SelectConnection, SelectRecord, SelectSection,
                ToggleMiddleMode
  <2>2. QED
    BY <2>1 DEF Input, ChannelTypes
<1>4. QED
  BY <1>1, <1>2, <1>3

LEMMA StepKeepsTracker ==
  ASSUME TrackerTypes, ChannelTypes, [Next]_vars
  PROVE  TrackerTypes' /\ ChannelTypes'
<1>1. CASE TrackerStep
  BY <1>1, TrackerStepKeepsTypes
<1>2. CASE UiStep
  <2>1. UNCHANGED trackerVars /\ ChannelTypes'
    BY <1>2, UiLeavesTracker
  <2>2. QED
    BY <2>1 DEF trackerVars, TrackerTypes
<1>3. CASE UNCHANGED vars
  BY <1>3 DEF vars, trackerVars, TrackerTypes, ChannelTypes
<1>4. QED
  BY <1>1, <1>2, <1>3 DEF Next

-----------------------------------------------------------------------------
(* The cursors.                                                            *)

LEMMA SelectedIsKnown ==
  ASSUME ListInv, CursorTypes
  PROVE  /\ Len(order) \in Nat /\ Len(SelectedRecords) \in Nat
         /\ SelectedRecords \in Logs
         /\ HasSelected => SelectedKey \in DOMAIN connections
<1>1. Len(order) \in Nat
  BY LenProperties DEF ListInv, ListTypes
<1>2. HasSelected => SelectedKey \in DOMAIN connections
  BY <1>1 DEF HasSelected, SelectedKey, ListInv, OrderIsIndex, CursorTypes
<1>3. SelectedRecords \in Logs
  <2>1. CASE HasSelected
    BY <1>2, <2>1 DEF SelectedRecords, ListInv, ListTypes
  <2>2. CASE ~HasSelected
    BY <2>2, EmptySeq DEF SelectedRecords, Logs
  <2>3. QED
    BY <2>1, <2>2
<1>4. Len(SelectedRecords) \in Nat
  BY <1>3, LenProperties DEF Logs
<1>5. QED
  BY <1>1, <1>2, <1>3, <1>4

RecordsAreLog == SelectedRecords \in Logs

\* The same as an implication, to be primed.
LEMMA ListInvGivesLog == ListInv /\ CursorTypes => RecordsAreLog
BY SelectedIsKnown DEF RecordsAreLog

\* With the lists and the selection the records in view stay the same.
LEMMA RecordsUnchanged ==
  ASSUME UNCHANGED <<listVars, selected>>
  PROVE  SelectedRecords' = SelectedRecords
BY DEF SelectedRecords, HasSelected, SelectedKey, listVars

LEMMA CursorsUnchanged ==
  ASSUME CursorInv, UNCHANGED <<listVars, cursorVars>>, focus' \in Focuses,
         middle_mode' \in {"Records", "Flow"}
  PROVE  CursorInv'
<1>1. SelectedRecords' = SelectedRecords
  BY RecordsUnchanged DEF cursorVars
<1>2. QED
  BY <1>1 DEF CursorInv, CursorTypes, CursorInRange, cursorVars, listVars

\* An update leaves the listed connections in their rows.
LEMMA OrderGrows ==
  ASSUME ListInv, ChannelTypes, HandleUpdated
  PROVE  /\ Len(order') \in Nat /\ Len(order) <= Len(order')
         /\ \A i \in 1..Len(order) : order'[i] = order[i]
<1> DEFINE k == Head(ui_rx).key
<1>1. k \in Keys /\ order' = OrderWith(k) /\ order \in Seq(Keys)
  BY ReceivedUpdate DEF HandleUpdated, ListInv, ListTypes
<1> HIDE DEF k
<1>2. Len(order) \in Nat
  BY <1>1, LenProperties
<1>3. CASE k \in DOMAIN connections
  BY <1>1, <1>2, <1>3 DEF OrderWith
<1>4. CASE k \notin DOMAIN connections
  <2>1. order' = Append(order, k)
    BY <1>1, <1>4 DEF OrderWith
  <2>2. QED
    BY <1>1, <1>2, <2>1, AppendProperties
<1>5. QED
  BY <1>3, <1>4

LEMMA UpdateKeepsCursors ==
  ASSUME ListInv, ChannelTypes, CursorInv, HandleUpdated
  PROVE  CursorInv'
<1> DEFINE k == Head(ui_rx).key
           rs == Head(ui_rx).records
<1>1. k \in Keys /\ rs \in Logs
  BY ReceivedUpdate DEF HandleUpdated
<1>2. /\ order' = OrderWith(k) /\ connections' = ConnectionsWith(k, rs) /\ selected' = selected
      /\ IF selected < Len(order') /\ order'[selected + 1] = k
         THEN ClampIndices(rs)
         ELSE UNCHANGED <<records_row, section_index>>
  BY DEF HandleUpdated
<1>3. focus' = focus /\ middle_mode' = middle_mode
  BY ReceivedEvent DEF HandleUpdated
<1> HIDE DEF k, rs
<1>4. /\ Len(order) \in Nat /\ selected \in Nat
      /\ selected < Len(order) \/ (order = << >> /\ selected = 0)
  BY SelectedIsKnown DEF CursorInv, CursorTypes, CursorInRange
<1>5. /\ Len(order') \in Nat /\ Len(order) <= Len(order')
      /\ \A i \in 1..Len(order) : order'[i] = order[i]
  BY OrderGrows
<1>6. CASE selected < Len(order') /\ order'[selected + 1] = k
  <2>1. /\ records_row' \in Nat /\ section_index' \in Nat /\ records_row' <= Len(rs)
        /\ section_index' <= LastSection(rs, records_row')
    BY <1>1, <1>2, <1>6, ClampInRange DEF CursorInv
  <2>2. SelectedRecords' = rs
    BY <1>2, <1>6 DEF SelectedRecords, HasSelected, SelectedKey, ConnectionsWith
  <2>3. QED
    BY <1>2, <1>3, <1>6, <2>1, <2>2 DEF CursorInv, CursorTypes, CursorInRange
<1>7. CASE ~(selected < Len(order') /\ order'[selected + 1] = k)
  <2>1. UNCHANGED <<records_row, section_index>>
    BY <1>2, <1>7
  <2>2. HasSelected
    <3>1. SUFFICES ASSUME order = << >>, selected = 0 PROVE FALSE
      BY <1>4 DEF HasSelected
    <3>2. k \notin DOMAIN connections
      BY <3>1 DEF ListInv, OrderIsIndex
    <3>3. order' = <<k>>
      BY <1>2, <3>1, <3>2 DEF OrderWith
    <3>4. QED
      BY <1>7, <3>1, <3>3
  <2>3. selected < Len(order') /\ order'[selected + 1] = SelectedKey
    BY <1>4, <1>5, <2>2 DEF HasSelected, SelectedKey
  <2>4. SelectedKey \in DOMAIN connections /\ SelectedKey # k
    BY <1>7, <2>2, <2>3, SelectedIsKnown DEF CursorInv
  <2>5. connections'[SelectedKey] = connections[SelectedKey]
    BY <1>2, <2>4 DEF ConnectionsWith
  <2>6. SelectedRecords' = connections'[SelectedKey]
    BY <1>2, <2>3 DEF SelectedRecords, HasSelected, SelectedKey
  <2>7. SelectedRecords' = SelectedRecords
    BY <2>2, <2>5, <2>6 DEF SelectedRecords
  <2>8. QED
    BY <1>2, <1>3, <2>1, <2>3, <2>7 DEF CursorInv, CursorTypes, CursorInRange
<1>8. QED
  BY <1>6, <1>7

\* No event of the tracker moves the selection: what it retains holds the selected key.
LEMMA EvictionKeepsSelection ==
  ASSUME ListInv, CursorInv, HandleEvicted
  PROVE  /\ order' = order /\ connections' = connections
         /\ \/ order = << >> /\ selected' = 0 /\ records_row' = 0 /\ section_index' = 0
            \/ HasSelected /\ selected' = selected /\ ClampIndices(SelectedRecords)
<1>1. order' = order /\ connections' = connections /\ SelectAfterEviction(order)
  BY RetainedAll DEF HandleEvicted
<1>2. Len(order) \in Nat /\ selected \in Nat
  BY SelectedIsKnown DEF CursorInv, CursorTypes
<1>3. CASE order = << >>
  <2>1. ~HasSelected
    BY <1>2, <1>3 DEF HasSelected
  <2>2. QED
    BY <1>1, <1>3, <2>1 DEF SelectAfterEviction
<1>4. CASE order # << >>
  <2>1. HasSelected
    BY <1>4 DEF CursorInv, CursorInRange, HasSelected
  <2>2. selected + 1 \in 1..Len(order) /\ order[selected + 1] = SelectedKey
    BY <1>2, <2>1 DEF HasSelected, SelectedKey
  <2>3. PICK i \in 1..Len(order) :
          order[i] = SelectedKey /\ selected' = i - 1 /\ ClampIndices(connections[order[i]])
    BY <1>1, <1>4, <2>1, <2>2 DEF SelectAfterEviction
  <2>4. i = selected + 1
    BY <2>2, <2>3 DEF ListInv, OrderIsIndex
  <2>5. SelectedRecords = connections[order[i]]
    BY <2>1, <2>3 DEF SelectedRecords
  <2>6. QED
    BY <1>1, <1>2, <2>1, <2>3, <2>4, <2>5
<1>5. QED
  BY <1>3, <1>4

LEMMA EvictionKeepsCursors ==
  ASSUME ListInv, ChannelTypes, CursorInv, HandleEvicted
  PROVE  CursorInv'
<1>1. focus' = focus /\ middle_mode' = middle_mode /\ order' = order /\ connections' = connections
  BY ReceivedEvent, EvictionKeepsSelection DEF HandleEvicted
<1>2. CASE order = << >> /\ selected' = 0 /\ records_row' = 0 /\ section_index' = 0
  <2>1. SelectedRecords' = << >>
    BY <1>1, <1>2 DEF SelectedRecords, HasSelected
  <2>2. LastSection(<< >>, 0) = 0 /\ Len(<< >>) = 0
    BY EmptySeq, LastSectionType DEF Logs
  <2>3. QED
    BY <1>1, <1>2, <2>1, <2>2 DEF CursorInv, CursorTypes, CursorInRange
<1>3. CASE HasSelected /\ selected' = selected /\ ClampIndices(SelectedRecords)
  <2>1. SelectedRecords \in Logs
    BY SelectedIsKnown DEF CursorInv
  <2>2. /\ records_row' \in Nat /\ section_index' \in Nat
        /\ records_row' <= Len(SelectedRecords)
        /\ section_index' <= LastSection(SelectedRecords, records_row')
    BY <1>3, <2>1, ClampInRange DEF CursorInv
  <2>3. SelectedRecords' = SelectedRecords
    BY <1>1, <1>3 DEF SelectedRecords, HasSelected, SelectedKey
  <2>4. QED
    BY <1>1, <1>3, <2>2, <2>3 DEF CursorInv, CursorTypes, CursorInRange, HasSelected
<1>4. QED
  BY <1>2, <1>3, EvictionKeepsSelection

LEMMA ClearKeepsCursors ==
  ASSUME CursorInv, ClearConnections
  PROVE  CursorInv'
<1>1. /\ order' = << >> /\ selected' = 0 /\ records_row' = 0 /\ section_index' = 0
      /\ focus' = "Connections" /\ middle_mode' = middle_mode
  BY DEF ClearConnections, ToRow
<1>2. SelectedRecords' = << >>
  BY <1>1, EmptySeq DEF SelectedRecords, HasSelected
<1>3. LastSection(<< >>, 0) = 0 /\ Len(<< >>) = 0
  BY EmptySeq, LastSectionType DEF Logs
<1>4. QED
  BY <1>1, <1>2, <1>3 DEF CursorInv, CursorTypes, CursorInRange, Focuses

\* A step to a row of the list in view, or none, with the selection in place.
LEMMA RowKeepsCursors ==
  ASSUME ListInv, CursorInv, UNCHANGED <<listVars, selected>>,
         focus' \in Focuses, middle_mode' \in {"Records", "Flow"},
         NoMove \/ \E row \in 0..Len(SelectedRecords) : ToRow(row)
  PROVE  CursorInv'
<1>1. SelectedRecords' = SelectedRecords
  BY RecordsUnchanged
<1>2. Len(SelectedRecords) \in Nat /\ SelectedRecords \in Logs
  BY SelectedIsKnown DEF CursorInv
<1>3. CASE NoMove
  BY <1>1, <1>3, CursorsUnchanged DEF NoMove, cursorVars
<1>4. CASE \E row \in 0..Len(SelectedRecords) : ToRow(row)
  <2>1. PICK row \in 0..Len(SelectedRecords) : records_row' = row /\ section_index' = 0
    BY <1>4 DEF ToRow
  <2>2. LastSection(SelectedRecords, row) \in Nat
    BY <1>2, <2>1, LastSectionType
  <2>3. QED
    BY <1>1, <1>2, <2>1, <2>2 DEF CursorInv, CursorTypes, CursorInRange, listVars
<1>5. QED
  BY <1>3, <1>4

LEMMA FocusKeepsCursors ==
  ASSUME ListInv, CursorInv, NEW f \in Focuses, FocusTo(f)
  PROVE  CursorInv'
<1>1. /\ UNCHANGED <<listVars, selected>> /\ focus' \in Focuses
      /\ middle_mode' \in {"Records", "Flow"}
  BY DEF FocusTo, CursorInv, CursorTypes
<1>2. SelectedRecords \in Logs /\ Len(SelectedRecords) \in Nat
  BY SelectedIsKnown DEF CursorInv
<1>3. SelectedRecords # << >> => 1 \in 0..Len(SelectedRecords)
  BY <1>2, EmptySeq DEF Logs
<1>4. NoMove \/ \E row \in 0..Len(SelectedRecords) : ToRow(row)
  BY <1>3 DEF FocusTo, AdvancePastMetadataRow
<1>5. QED
  BY <1>1, <1>4, RowKeepsCursors

LEMMA ConnectionKeepsCursors ==
  ASSUME ListInv, CursorInv, NEW i \in Nat, i < Len(order), SelectConnection(i)
  PROVE  CursorInv'
<1>1. /\ selected' = i /\ records_row' = 0 /\ section_index' = 0 /\ UNCHANGED listVars
      /\ focus' = focus /\ middle_mode' = middle_mode
  BY DEF SelectConnection, ToRow
<1>2. ListInv' /\ CursorTypes'
  BY <1>1, ListsUnchanged DEF CursorInv, CursorTypes
<1>3. SelectedRecords' \in Logs /\ Len(SelectedRecords') \in Nat
  <2>1. RecordsAreLog'
    BY <1>2, ListInvGivesLog, PTL
  <2>2. SelectedRecords' \in Logs
    BY <2>1 DEF RecordsAreLog
  <2>3. QED
    BY <2>2, LenProperties DEF Logs
<1>4. LastSection(SelectedRecords', 0) = 0
  BY <1>3, LastSectionType
<1>5. QED
  BY <1>1, <1>2, <1>3, <1>4 DEF CursorInv, CursorInRange, listVars

LEMMA SectionKeepsCursors ==
  ASSUME CursorInv, NEW s \in Nat, s <= LastSection(SelectedRecords, records_row),
         SelectSection(s)
  PROVE  CursorInv'
<1>1. /\ section_index' = s /\ UNCHANGED <<listVars, selected, records_row>>
      /\ focus' = focus /\ middle_mode' = middle_mode
  BY DEF SelectSection
<1>2. SelectedRecords' = SelectedRecords
  BY <1>1, RecordsUnchanged
<1>3. QED
  BY <1>1, <1>2 DEF CursorInv, CursorTypes, CursorInRange, listVars

LEMMA SelectKeepsCursors ==
  ASSUME ListInv, CursorInv, SelectPrev \/ SelectNext
  PROVE  CursorInv'
<1>1. /\ Len(order) \in Nat /\ Len(SelectedRecords) \in Nat /\ SelectedRecords \in Logs
      /\ selected \in Nat /\ records_row \in Nat /\ section_index \in Nat
      /\ records_row <= Len(SelectedRecords)
      /\ section_index <= LastSection(SelectedRecords, records_row)
      /\ selected < Len(order) \/ selected = 0
  BY SelectedIsKnown DEF CursorInv, CursorTypes, CursorInRange
<1>2. LastSection(SelectedRecords, records_row) \in Nat
  BY <1>1, LastSectionType
<1>3. CASE \E i \in Nat : i < Len(order) /\ SelectConnection(i)
  BY <1>3, ConnectionKeepsCursors
<1>4. CASE \E row \in 0..Len(SelectedRecords) : SelectRecord(row)
  <2>1. /\ UNCHANGED <<listVars, selected, focus, middle_mode>>
        /\ \E row \in 0..Len(SelectedRecords) : ToRow(row)
    BY <1>4 DEF SelectRecord
  <2>2. focus' \in Focuses /\ middle_mode' \in {"Records", "Flow"}
    BY <2>1 DEF CursorInv, CursorTypes
  <2>3. QED
    BY <2>1, <2>2, RowKeepsCursors
<1>5. CASE \E s \in Nat : s <= LastSection(SelectedRecords, records_row) /\ SelectSection(s)
  BY <1>5, SectionKeepsCursors
<1>6. CASE SelectPrev
  <2>1. CASE order # << >> /\ selected > 0 /\ SelectConnection(selected - 1)
    <3>1. selected - 1 \in Nat /\ selected - 1 < Len(order)
      BY <1>1, <2>1
    <3>2. QED
      BY <1>3, <2>1, <3>1
  <2>2. CASE records_row > 0 /\ SelectRecord(records_row - 1)
    <3>1. records_row - 1 \in 0..Len(SelectedRecords)
      BY <1>1, <2>2
    <3>2. QED
      BY <1>4, <2>2, <3>1
  <2>3. CASE section_index > 0 /\ SelectSection(section_index - 1)
    <3>1. section_index - 1 \in Nat
          /\ section_index - 1 <= LastSection(SelectedRecords, records_row)
      BY <1>1, <1>2, <2>3
    <3>2. QED
      BY <1>5, <2>3, <3>1
  <2>4. QED
    BY <1>6, <2>1, <2>2, <2>3 DEF SelectPrev
<1>7. CASE SelectNext
  <2>1. CASE selected + 1 < Len(order) /\ SelectConnection(selected + 1)
    <3>1. selected + 1 \in Nat
      BY <1>1
    <3>2. QED
      BY <1>3, <2>1, <3>1
  <2>2. CASE records_row < Len(SelectedRecords) /\ SelectRecord(records_row + 1)
    <3>1. records_row + 1 \in 0..Len(SelectedRecords)
      BY <1>1, <2>2
    <3>2. QED
      BY <1>4, <2>2, <3>1
  <2>3. CASE /\ section_index < LastSection(SelectedRecords, records_row)
             /\ SelectSection(section_index + 1)
    <3>1. section_index + 1 \in Nat
          /\ section_index + 1 <= LastSection(SelectedRecords, records_row)
      BY <1>1, <1>2, <2>3
    <3>2. QED
      BY <1>5, <2>3, <3>1
  <2>4. QED
    BY <1>7, <2>1, <2>2, <2>3 DEF SelectNext
<1>8. QED
  BY <1>6, <1>7

LEMMA ToggleKeepsCursors ==
  ASSUME ListInv, CursorInv, ToggleMiddleMode
  PROVE  CursorInv'
<1>1. UNCHANGED <<listVars, selected, focus>> /\ middle_mode' \in {"Records", "Flow"}
  BY DEF ToggleMiddleMode
<1>2. focus' \in Focuses
  BY <1>1 DEF CursorInv, CursorTypes
<1>3. Len(SelectedRecords) \in Nat
  BY SelectedIsKnown DEF CursorInv
<1>4. NoMove \/ \E row \in 0..Len(SelectedRecords) : ToRow(row)
  BY <1>3 DEF ToggleMiddleMode
<1>5. QED
  BY <1>1, <1>2, <1>4, RowKeepsCursors

LEMMA StepKeepsCursors ==
  ASSUME ListInv, ChannelTypes, CursorInv, [Next]_vars
  PROVE  CursorInv'
<1>1. focus \in Focuses /\ middle_mode \in {"Records", "Flow"}
  BY DEF CursorInv, CursorTypes
<1>2. CASE HandleUpdated
  BY <1>2, UpdateKeepsCursors
<1>3. CASE HandleEvicted
  BY <1>3, EvictionKeepsCursors
<1>4. CASE ClearConnections
  BY <1>4, ClearKeepsCursors
<1>5. CASE FocusRight \/ FocusCycle
  <2>1. PICK f \in Focuses : FocusTo(f)
    BY <1>1, <1>5 DEF FocusRight, FocusCycle, Focuses
  <2>2. QED
    BY <2>1, FocusKeepsCursors
<1>6. CASE SelectPrev \/ SelectNext
  BY <1>6, SelectKeepsCursors
<1>7. CASE ToggleMiddleMode
  BY <1>7, ToggleKeepsCursors
<1>8. CASE TrackerStep \/ Drained \/ NoKey \/ UNCHANGED vars
  <2>1. UNCHANGED appVars
    BY <1>8 DEF TrackerStep, TrackerUpdates, TrackerEvicts, Send, Drained, NoKey, vars
  <2>2. /\ UNCHANGED <<listVars, cursorVars>>
        /\ focus' \in Focuses /\ middle_mode' \in {"Records", "Flow"}
    BY <1>1, <2>1 DEF appVars
  <2>3. QED
    BY <2>2, CursorsUnchanged
<1>9. CASE FocusLeft
  <2>1. /\ UNCHANGED <<listVars, cursorVars>>
        /\ focus' \in Focuses /\ middle_mode' \in {"Records", "Flow"}
    BY <1>1, <1>9 DEF FocusLeft, Focuses
  <2>2. QED
    BY <2>1, CursorsUnchanged
<1>10. QED
  BY <1>2, <1>3, <1>4, <1>5, <1>6, <1>7, <1>8, <1>9 DEF Next, UiStep

-----------------------------------------------------------------------------
(* The selection.                                                          *)

LEMMA UpdateKeepsSelection ==
  ASSUME ListInv, ChannelTypes, CursorInv, HandleUpdated, HasSelected
  PROVE  /\ selected' < Len(order') /\ order'[selected' + 1] = SelectedKey
         /\ Extends(connections'[SelectedKey], SelectedRecords) =>
              UNCHANGED <<records_row, section_index>>
<1> DEFINE k == Head(ui_rx).key
           rs == Head(ui_rx).records
<1>1. k \in Keys /\ rs \in Logs
  BY ReceivedUpdate DEF HandleUpdated
<1>2. /\ connections' = ConnectionsWith(k, rs) /\ selected' = selected
      /\ IF selected < Len(order') /\ order'[selected + 1] = k
         THEN ClampIndices(rs)
         ELSE UNCHANGED <<records_row, section_index>>
  BY DEF HandleUpdated
<1> HIDE DEF k, rs
<1>3. selected' < Len(order') /\ order'[selected' + 1] = SelectedKey
  <2>1. Len(order) \in Nat /\ selected \in Nat
    BY SelectedIsKnown DEF CursorInv, CursorTypes
  <2>2. QED
    BY <1>2, <2>1, OrderGrows DEF HasSelected, SelectedKey
<1>4. CASE SelectedKey # k
  BY <1>2, <1>3, <1>4
<1>5. CASE SelectedKey = k
  <2>1. connections'[SelectedKey] = rs /\ ClampIndices(rs)
    BY <1>2, <1>3, <1>5 DEF ConnectionsWith
  <2>2. /\ CursorTypes /\ SelectedRecords \in Logs
        /\ records_row <= Len(SelectedRecords)
        /\ section_index <= LastSection(SelectedRecords, records_row)
    BY SelectedIsKnown DEF CursorInv, CursorInRange
  <2>3. QED
    BY <1>1, <1>3, <2>1, <2>2, ClampKeeps
<1>6. QED
  BY <1>4, <1>5

LEMMA EvictionKeepsPlace ==
  ASSUME ListInv, CursorInv, HandleEvicted, HasSelected
  PROVE  /\ selected' < Len(order') /\ order'[selected' + 1] = SelectedKey
         /\ UNCHANGED <<records_row, section_index>>
<1>1. /\ CursorTypes /\ SelectedRecords \in Logs /\ Len(SelectedRecords) \in Nat
      /\ records_row <= Len(SelectedRecords)
      /\ section_index <= LastSection(SelectedRecords, records_row)
  BY SelectedIsKnown DEF CursorInv, CursorInRange
<1>2. order # << >>
  <2>1. SUFFICES ASSUME order = << >> PROVE FALSE
    OBVIOUS
  <2>2. Len(order) = 0 /\ selected \in Nat
    BY <1>1, <2>1, EmptySeq DEF CursorTypes
  <2>3. QED
    BY <2>2 DEF HasSelected
<1>3. order' = order /\ selected' = selected /\ ClampIndices(SelectedRecords)
  BY <1>2, EvictionKeepsSelection
<1>4. Extends(SelectedRecords, SelectedRecords)
  <2>1. SubSeq(SelectedRecords, 1, Len(SelectedRecords)) = SelectedRecords
    BY <1>1, SubSeqFull DEF Logs
  <2>2. QED
    BY <1>1, <2>1 DEF Extends
<1>5. UNCHANGED <<records_row, section_index>>
  BY <1>1, <1>3, <1>4, ClampKeeps
<1>6. QED
  BY <1>3, <1>5 DEF HasSelected, SelectedKey

LEMMA StepKeepsSelection ==
  ASSUME IInv, [Next]_vars, pc = "drain", HasSelected
  PROVE  /\ selected' < Len(order') /\ order'[selected' + 1] = SelectedKey
         /\ Extends(connections'[SelectedKey], SelectedRecords) =>
              UNCHANGED <<records_row, section_index>>
<1>1. ListInv /\ ChannelTypes /\ CursorInv
  BY DEF IInv
<1>2. CASE HandleUpdated
  BY <1>1, <1>2, UpdateKeepsSelection
<1>3. CASE HandleEvicted
  BY <1>1, <1>3, EvictionKeepsPlace
<1>4. CASE TrackerStep \/ Drained \/ UNCHANGED vars
  <2>1. UNCHANGED appVars
    BY <1>4 DEF TrackerStep, TrackerUpdates, TrackerEvicts, Send, Drained, vars
  <2>2. QED
    BY <2>1 DEF appVars, listVars, cursorVars, HasSelected, SelectedKey
<1>5. CASE Next /\ ~HandleUpdated /\ ~HandleEvicted /\ ~TrackerStep /\ ~Drained
  \* Keys are not read while the channel is drained.
  BY <1>5 DEF Next, UiStep, NoKey, ClearConnections, FocusLeft, FocusRight, FocusCycle, FocusTo,
              SelectPrev, SelectNext, SelectConnection, SelectRecord, SelectSection,
              ToggleMiddleMode, Input
<1>6. QED
  BY <1>2, <1>3, <1>4, <1>5

-----------------------------------------------------------------------------
(* The view and the channel.                                               *)

\* A state sent joins the updates of its flow; another event joins none.
LEMMA UpdatesAfterSend ==
  ASSUME ChannelTypes, NEW e \in UiEvents, Send(e), NEW k \in Keys
  PROVE  /\ Len(ui_rx) \in Nat
         /\ \A i \in Updates(k) : i \in 1..Len(ui_rx) /\ ui_rx'[i] = ui_rx[i]
         /\ ui_rx'[Len(ui_rx) + 1] = e
         /\ e.type = "HandshakeUpdated" /\ e.key = k =>
              Updates(k)' = Updates(k) \cup {Len(ui_rx) + 1}
         /\ e.type # "HandshakeUpdated" \/ e.key # k => Updates(k)' = Updates(k)
<1>1. /\ Len(ui_rx) \in Nat /\ Len(ui_rx') = Len(ui_rx) + 1
      /\ \A i \in 1..Len(ui_rx) : ui_rx'[i] = ui_rx[i]
      /\ ui_rx'[Len(ui_rx) + 1] = e
  BY AppendProperties, LenProperties DEF ChannelTypes, Send
<1>2. 1..Len(ui_rx') = 1..Len(ui_rx) \cup {Len(ui_rx) + 1}
  BY <1>1
<1>3. QED
  BY <1>1, <1>2 DEF Updates

\* What is received leaves the channel and the rest moves up.
LEMMA UpdatesAfterReceive ==
  ASSUME ChannelTypes, NEW type, Receive(type), NEW k \in Keys
  PROVE  /\ \A i \in Updates(k)' : i \in Nat /\ i + 1 \in Updates(k) /\ ui_rx'[i] = ui_rx[i + 1]
         /\ \A i \in Updates(k) : i \in Nat /\ (i = 1 \/ i - 1 \in Updates(k)')
         /\ 1 \in Updates(k) <=> Head(ui_rx).type = "HandshakeUpdated" /\ Head(ui_rx).key = k
         /\ ui_rx[1] = Head(ui_rx)
<1>1. ui_rx \in Seq(UiEvents) /\ ui_rx # << >> /\ ui_rx' = Tail(ui_rx)
  BY DEF ChannelTypes, Receive
<1>2. /\ Len(ui_rx) \in Nat \ {0} /\ Len(ui_rx') = Len(ui_rx) - 1
      /\ \A i \in 1..Len(ui_rx') : ui_rx'[i] = ui_rx[i + 1]
      /\ ui_rx[1] = Head(ui_rx)
  BY <1>1, HeadTailProperties, LenProperties, EmptySeq
<1>3. QED
  BY <1>2 DEF Updates

\* ViewFollowsTracker, of one flow.
Followed(k) ==
  k \in tracked =>
    /\ \A i \in Updates(k) :
         (\A j \in Updates(k) : j <= i) => ui_rx[i].records = log[k]
    /\ Updates(k) = {} /\ k \in DOMAIN connections => connections[k] = log[k]

LEMMA TrackerKeepsFollowed ==
  ASSUME TrackerTypes, ChannelTypes, NEW k \in Keys, Followed(k), TrackerStep
  PROVE  Followed(k)'
<1>1. ASSUME NEW k0 \in Keys, NEW new \in Logs, TrackerUpdates(k0, new)
      PROVE  Followed(k)'
  <2> DEFINE rs == log[k0] \o new
             e == [type |-> "HandshakeUpdated", key |-> k0, records |-> rs]
  <2>1. rs \in Logs
    BY ConcatProperties DEF TrackerTypes, Logs
  <2>2. e \in UiEvents /\ e.type = "HandshakeUpdated" /\ e.key = k0 /\ e.records = rs
    BY <2>1 DEF UiEvents
  <2>3. Send(e) /\ log' = [log EXCEPT ![k0] = rs] /\ tracked' = tracked \cup {k0}
    BY <1>1 DEF TrackerUpdates
  <2>4. connections' = connections
    BY <1>1 DEF TrackerUpdates, Send, appVars, listVars
  <2> HIDE DEF rs, e
  <2>5. CASE k = k0
    <3>1. Updates(k)' = Updates(k) \cup {Len(ui_rx) + 1} /\ Len(ui_rx) \in Nat
          /\ ui_rx'[Len(ui_rx) + 1] = e /\ \A i \in Updates(k) : i \in 1..Len(ui_rx)
      BY <2>2, <2>3, <2>5, UpdatesAfterSend
    <3>2. log'[k] = rs
      BY <2>3, <2>5 DEF TrackerTypes
    <3>3. ASSUME NEW i \in Updates(k)', \A j \in Updates(k)' : j <= i
          PROVE  ui_rx'[i].records = log'[k]
      <4>1. i = Len(ui_rx) + 1
        BY <3>1, <3>3
      <4>2. QED
        BY <2>2, <3>1, <3>2, <4>1
    <3>4. QED
      BY <3>1, <3>3 DEF Followed
  <2>6. CASE k # k0
    <3>1. Updates(k)' = Updates(k) /\ \A i \in Updates(k) : ui_rx'[i] = ui_rx[i]
      BY <2>2, <2>3, <2>6, UpdatesAfterSend
    <3>2. log'[k] = log[k] /\ (k \in tracked' => k \in tracked)
      BY <2>3, <2>6 DEF TrackerTypes
    <3>3. QED
      BY <2>4, <3>1, <3>2 DEF Followed
  <2>7. QED
    BY <2>5, <2>6
<1>2. ASSUME NEW S \in SUBSET tracked, TrackerEvicts(S)
      PROVE  Followed(k)'
  <2> DEFINE e == [type |-> "StaleEvicted", n |-> Cardinality(S)]
  <2>1. e \in UiEvents /\ e.type # "HandshakeUpdated"
    <3>1. S \subseteq Keys
      BY DEF TrackerTypes
    <3>2. Cardinality(S) \in Nat
      BY <3>1, FS_Subset, FS_CardinalityType
    <3>3. QED
      BY <3>2 DEF UiEvents
  <2>2. Send(e) /\ tracked' = tracked \ S
        /\ log' = [x \in Keys |-> IF x \in S THEN << >> ELSE log[x]]
    BY <1>2 DEF TrackerEvicts
  <2>3. connections' = connections
    BY <1>2 DEF TrackerEvicts, Send, appVars, listVars
  <2> HIDE DEF e
  <2>4. Updates(k)' = Updates(k) /\ \A i \in Updates(k) : ui_rx'[i] = ui_rx[i]
    BY <2>1, <2>2, UpdatesAfterSend
  <2>5. k \in tracked' => k \in tracked /\ log'[k] = log[k]
    BY <2>2
  <2>6. QED
    BY <2>3, <2>4, <2>5 DEF Followed
<1>3. CASE \E k0 \in Keys : TrackerUpdates(k0, << >>)
  BY <1>1, <1>3, EmptySeq DEF Logs
<1>4. CASE \E k0 \in Keys : \E b \in Bodies : TrackerUpdates(k0, <<b>>)
  <2>1. \A b \in Bodies : <<b>> \in Logs
    BY DEF Logs
  <2>2. QED
    BY <1>1, <1>4, <2>1
<1>5. QED
  BY <1>2, <1>3, <1>4 DEF TrackerStep

LEMMA ReceiveKeepsFollowed ==
  ASSUME ChannelTypes, ListInv, NEW k \in Keys, Followed(k), HandleUpdated \/ HandleEvicted
  PROVE  Followed(k)'
<1>1. PICK type : Receive(type)
  BY DEF HandleUpdated, HandleEvicted
<1>2. UNCHANGED <<tracked, log>>
  BY <1>1 DEF Receive, trackerVars
<1>3. /\ \A i \in Updates(k)' : i \in Nat /\ i + 1 \in Updates(k) /\ ui_rx'[i] = ui_rx[i + 1]
      /\ \A i \in Updates(k) : i \in Nat /\ (i = 1 \/ i - 1 \in Updates(k)')
      /\ 1 \in Updates(k) <=> Head(ui_rx).type = "HandshakeUpdated" /\ Head(ui_rx).key = k
      /\ ui_rx[1] = Head(ui_rx)
  BY <1>1, UpdatesAfterReceive
<1>4. ASSUME k \in tracked, NEW i \in Updates(k)', \A j \in Updates(k)' : j <= i
      PROVE  ui_rx'[i].records = log[k]
  <2>1. \A j \in Updates(k) : j <= i + 1
    BY <1>3, <1>4
  <2>2. QED
    BY <1>3, <1>4, <2>1 DEF Followed
<1>5. ASSUME k \in tracked, Updates(k)' = {}, k \in DOMAIN connections'
      PROVE  connections'[k] = log[k]
  <2>1. \A i \in Updates(k) : i = 1
    BY <1>3, <1>5
  <2>2. CASE 1 \in Updates(k)
    <3>1. Head(ui_rx).records = log[k]
      BY <1>3, <1>5, <2>1, <2>2 DEF Followed
    <3>2. HandleUpdated
      <4>1. Head(ui_rx).type = "HandshakeUpdated"
        BY <1>3, <2>2
      <4>2. QED
        BY <4>1 DEF HandleEvicted, Receive
    <3>3. connections' = ConnectionsWith(k, Head(ui_rx).records)
      BY <1>3, <2>2, <3>2 DEF HandleUpdated
    <3>4. QED
      BY <3>1, <3>3 DEF ConnectionsWith
  <2>3. CASE 1 \notin Updates(k)
    <3>1. Updates(k) = {}
      BY <2>1, <2>3
    <3>2. k \in DOMAIN connections /\ connections'[k] = connections[k]
      <4>1. CASE HandleEvicted
        BY <1>5, <4>1 DEF HandleEvicted
      <4>2. CASE HandleUpdated
        <5>1. Head(ui_rx).type = "HandshakeUpdated"
          BY <4>2 DEF HandleUpdated, Receive
        <5>2. connections' = ConnectionsWith(Head(ui_rx).key, Head(ui_rx).records)
              /\ Head(ui_rx).key # k
          BY <1>3, <2>3, <4>2, <5>1 DEF HandleUpdated
        <5>3. QED
          BY <1>5, <5>2 DEF ConnectionsWith
      <4>3. QED
        BY <4>1, <4>2
    <3>3. QED
      BY <1>5, <3>1, <3>2 DEF Followed
  <2>4. QED
    BY <2>2, <2>3
<1>6. QED
  BY <1>2, <1>4, <1>5 DEF Followed

LEMMA StepKeepsFollowed ==
  ASSUME IInv, NEW k \in Keys, Followed(k), [Next]_vars
  PROVE  Followed(k)'
<1>1. CASE TrackerStep
  BY <1>1, TrackerKeepsFollowed DEF IInv
<1>2. CASE HandleUpdated \/ HandleEvicted
  BY <1>2, ReceiveKeepsFollowed DEF IInv
<1>3. CASE ClearConnections
  <2>1. UNCHANGED <<tracked, log, ui_rx>> /\ DOMAIN connections' = {}
    BY <1>3 DEF ClearConnections, Input, trackerVars
  <2>2. Updates(k)' = Updates(k)
    BY <2>1 DEF Updates
  <2>3. QED
    BY <2>1, <2>2 DEF Followed
<1>4. CASE /\ [Next]_vars
           /\ ~TrackerStep /\ ~HandleUpdated /\ ~HandleEvicted /\ ~ClearConnections
  <2>1. UNCHANGED <<tracked, log, ui_rx, connections>>
    <3>1. CASE UNCHANGED vars
      BY <3>1 DEF vars, trackerVars, appVars, listVars
    <3>2. CASE Next
      <4>1. UNCHANGED connections
        BY <1>4, <3>2, OthersKeepLists DEF listVars
      <4>2. Drained \/ Input
        BY <1>4, <3>2 DEF Next, UiStep, NoKey, FocusLeft, FocusRight, FocusCycle, FocusTo,
               SelectPrev, SelectNext, SelectConnection, SelectRecord, SelectSection,
               ToggleMiddleMode
      <4>3. QED
        BY <4>1, <4>2 DEF Drained, Input, trackerVars
    <3>3. QED
      BY <1>4, <3>1, <3>2
  <2>2. Updates(k)' = Updates(k)
    BY <2>1 DEF Updates
  <2>3. QED
    BY <2>1, <2>2 DEF Followed
<1>5. QED
  BY <1>1, <1>2, <1>3, <1>4

-----------------------------------------------------------------------------
(* The counter.                                                            *)

\* f is the running sum of q.
Sums(f, q) ==
  f = [i \in 0..Len(q) |-> IF i = 0 THEN 0 ELSE f[i - 1] + q[i]]

LEMMA SumsUnique ==
  ASSUME NEW q \in Seq(Nat), NEW f, NEW g, Sums(f, q), Sums(g, q)
  PROVE  f = g
<1>1. Len(q) \in Nat
  BY LenProperties
<1> DEFINE S == {i \in Nat : i <= Len(q) => f[i] = g[i]}
<1>2. \A i \in 0..Len(q) : f[i] = (IF i = 0 THEN 0 ELSE f[i - 1] + q[i])
                          /\ g[i] = (IF i = 0 THEN 0 ELSE g[i - 1] + q[i])
  BY DEF Sums
<1>3. 0 \in S
  BY <1>1, <1>2
<1>4. ASSUME NEW n \in Nat, n \in S PROVE n + 1 \in S
  BY <1>1, <1>2, <1>4
<1>5. Nat \subseteq S
  <2> HIDE DEF S
  <2> QED BY <1>3, <1>4, SetInduction
<1>6. \A i \in 0..Len(q) : f[i] = g[i]
  BY <1>5
<1>7. f = [i \in 0..Len(q) |-> f[i]] /\ g = [i \in 0..Len(q) |-> g[i]]
  BY DEF Sums
<1> QED BY <1>6, <1>7

LEMMA SumsOfAppend ==
  ASSUME NEW q \in Seq(Nat), NEW x \in Nat, NEW f \in [0..Len(q) -> Nat], Sums(f, q)
  PROVE  \E g \in [0..Len(Append(q, x)) -> Nat] :
           Sums(g, Append(q, x)) /\ g[Len(Append(q, x))] = f[Len(q)] + x
<1> DEFINE r == Append(q, x)
           g == [i \in 0..Len(r) |-> IF i <= Len(q) THEN f[i] ELSE f[Len(q)] + x]
<1>1. /\ Len(q) \in Nat /\ Len(r) = Len(q) + 1 /\ r[Len(q) + 1] = x
      /\ \A i \in 1..Len(q) : r[i] = q[i]
  BY AppendProperties, LenProperties
<1> HIDE DEF r
<1>2. g \in [0..Len(r) -> Nat] /\ g[Len(r)] = f[Len(q)] + x
  BY <1>1
<1>3. ASSUME NEW i \in 0..Len(r) PROVE g[i] = IF i = 0 THEN 0 ELSE g[i - 1] + r[i]
  <2>1. CASE i <= Len(q)
    <3>1. f[i] = IF i = 0 THEN 0 ELSE f[i - 1] + q[i]
      <4> HIDE DEF g
      <4>1. i \in 0..Len(q)
        BY <1>1, <2>1
      <4> QED BY <4>1 DEF Sums
    <3> QED BY <1>1, <2>1, <3>1
  <2>2. CASE i = Len(q) + 1
    BY <1>1, <2>2
  <2> QED BY <1>1, <2>1, <2>2
<1>4. Sums(g, r)
  BY <1>3 DEF Sums
<1> QED BY <1>2, <1>4 DEF r

LEMMA SumsExist ==
  ASSUME NEW q \in Seq(Nat)
  PROVE  \E f \in [0..Len(q) -> Nat] : Sums(f, q)
<1> DEFINE P(r) == \E f \in [0..Len(r) -> Nat] : Sums(f, r)
           S == {n \in Nat : \A r \in Seq(Nat) : Len(r) = n => P(r)}
<1>1. 0 \in S
  <2> SUFFICES ASSUME NEW r \in Seq(Nat), Len(r) = 0 PROVE P(r)
    OBVIOUS
  <2> DEFINE f == [i \in 0..0 |-> 0]
  <2>1. f \in [0..Len(r) -> Nat] /\ Sums(f, r)
    BY DEF Sums
  <2> QED BY <2>1
<1>2. ASSUME NEW n \in Nat, n \in S PROVE n + 1 \in S
  <2> SUFFICES ASSUME NEW r \in Seq(Nat), Len(r) = n + 1 PROVE P(r)
    OBVIOUS
  <2> DEFINE front == SubSeq(r, 1, n)
  <2>1. front \in Seq(Nat) /\ Len(front) = n /\ r[n + 1] \in Nat
    BY SubSeqProperties, ElementOfSeq
  <2>2. r = Append(front, r[n + 1])
    BY <2>1, AppendProperties, SubSeqProperties, SeqEqual
  <2> HIDE DEF front
  <2>3. PICK f \in [0..Len(front) -> Nat] : Sums(f, front)
    BY <1>2, <2>1
  <2> DEFINE whole == Append(front, r[n + 1])
  <2>4. \E g \in [0..Len(whole) -> Nat] : Sums(g, whole)
    BY <2>1, <2>3, SumsOfAppend
  <2> HIDE DEF whole
  <2>5. whole = r
    BY <2>2 DEF whole
  <2> QED BY <2>4, <2>5
<1>3. Nat \subseteq S
  <2> HIDE DEF S
  <2> QED BY <1>1, <1>2, SetInduction
<1>4. Len(q) \in Nat
  BY LenProperties
<1> QED BY <1>3, <1>4

\* SumOf is the last of any running sum.
LEMMA SumOfIs ==
  ASSUME NEW q \in Seq(Nat), NEW f, Sums(f, q)
  PROVE  SumOf(q) = f[Len(q)]
<1> DEFINE s == CHOOSE s : Sums(s, q)
<1>1. Sums(s, q)
  OBVIOUS
<1>2. SumOf(q) = s[Len(q)]
  BY DEF SumOf, Sums
<1> HIDE DEF s
<1>3. s = f
  BY <1>1, SumsUnique
<1> QED BY <1>2, <1>3

LEMMA SumOfAppend ==
  ASSUME NEW q \in Seq(Nat), NEW x \in Nat
  PROVE  SumOf(q) \in Nat /\ SumOf(Append(q, x)) = SumOf(q) + x
<1> DEFINE r == Append(q, x)
<1>1. PICK f \in [0..Len(q) -> Nat] : Sums(f, q)
  BY SumsExist
<1>2. PICK g \in [0..Len(r) -> Nat] : Sums(g, r) /\ g[Len(r)] = f[Len(q)] + x
  BY <1>1, SumsOfAppend
<1>3. Len(q) \in Nat /\ r \in Seq(Nat)
  BY LenProperties, AppendProperties
<1> HIDE DEF r
<1>4. SumOf(q) = f[Len(q)] /\ SumOf(r) = g[Len(r)]
  BY <1>1, <1>2, <1>3, SumOfIs
<1> QED BY <1>1, <1>2, <1>3, <1>4 DEF r

LEMMA SumOfTail ==
  ASSUME NEW q \in Seq(Nat), q # << >>
  PROVE  SumOf(q) = Head(q) + SumOf(Tail(q))
<1> DEFINE t == Tail(q)
<1>1. PICK f \in [0..Len(q) -> Nat] : Sums(f, q)
  BY SumsExist
<1>2. /\ t \in Seq(Nat) /\ Len(q) \in Nat \ {0} /\ Len(t) = Len(q) - 1
      /\ \A i \in 1..Len(t) : t[i] = q[i + 1]
      /\ q[1] = Head(q) /\ Head(q) \in Nat
  BY HeadTailProperties, LenProperties, EmptySeq
<1> HIDE DEF t
<1> DEFINE g == [i \in 0..Len(t) |-> f[i + 1] - Head(q)]
<1>3. \A i \in 0..Len(q) : f[i] = IF i = 0 THEN 0 ELSE f[i - 1] + q[i]
  BY <1>1 DEF Sums
<1>4. ASSUME NEW i \in 0..Len(t) PROVE g[i] = IF i = 0 THEN 0 ELSE g[i - 1] + t[i]
  <2>1. i \in Nat /\ i \in 0..Len(q) /\ i + 1 \in 0..Len(q) /\ i + 1 # 0 /\ (i + 1) - 1 = i
    BY <1>2
  <2>2. f[i + 1] = f[i] + q[i + 1] /\ f[i + 1] \in Nat /\ f[i] \in Nat
    BY <1>1, <1>3, <2>1
  <2>3. CASE i = 0
    <3>1. f[i] = 0
      BY <1>3, <2>1, <2>3
    <3>2. f[1] = q[1]
      BY <1>2, <2>2, <2>3, <3>1
    <3>3. g[0] = f[1] - Head(q)
      BY <1>2
    <3> QED BY <1>2, <2>3, <3>2, <3>3
  <2>4. CASE i # 0
    <3>1. g[i] = f[i + 1] - Head(q)
      OBVIOUS
    <3>2. i - 1 \in 0..Len(t) /\ (i - 1) + 1 = i
      BY <1>2, <2>1, <2>4
    <3>3. g[i - 1] = f[i] - Head(q)
      BY <3>2
    <3>4. t[i] = q[i + 1] /\ q[i + 1] \in Nat
      BY <1>2, <2>1, <2>4, ElementOfSeq, SMTT(20)
    <3> HIDE DEF g
    <3> QED BY <1>2, <2>2, <2>4, <3>1, <3>3, <3>4
  <2> QED BY <2>3, <2>4
<1>5. Sums(g, t)
  BY <1>4 DEF Sums
<1>6. g[Len(t)] = f[Len(q)] - Head(q) /\ f[Len(q)] \in Nat
  <2>1. Len(t) \in 0..Len(t) /\ Len(t) + 1 = Len(q) /\ Len(q) \in 0..Len(q)
    BY <1>2
  <2>2. g[Len(t)] = f[Len(t) + 1] - Head(q)
    BY <2>1
  <2> QED BY <1>1, <2>1, <2>2
<1> HIDE DEF g
<1>7. SumOf(q) = f[Len(q)] /\ SumOf(t) = g[Len(t)]
  BY <1>1, <1>2, <1>5, SumOfIs
<1> QED BY <1>2, <1>6, <1>7 DEF t

LEMMA AmountsType ==
  ASSUME ChannelTypes
  PROVE  Amounts \in Seq(Nat) /\ Len(Amounts) = Len(ui_rx) /\ Len(ui_rx) \in Nat
<1>1. Len(ui_rx) \in Nat /\ \A i \in 1..Len(ui_rx) : ui_rx[i] \in UiEvents
  BY LenProperties, ElementOfSeq DEF ChannelTypes
<1>2. \A i \in 1..Len(ui_rx) : ui_rx[i].type = "StaleEvicted" => ui_rx[i].n \in Nat
  BY <1>1 DEF UiEvents
<1>3. \A i \in 1..Len(ui_rx) :
        (IF ui_rx[i].type = "StaleEvicted" THEN ui_rx[i].n ELSE 0) \in Nat
  BY <1>2
<1> QED BY <1>1, <1>3 DEF Amounts

LEMMA SendCounts ==
  ASSUME ChannelTypes, NEW e \in UiEvents, Send(e), NEW x \in Nat,
         x = IF e.type = "StaleEvicted" THEN e.n ELSE 0
  PROVE  Amounts' = Append(Amounts, x) /\ SumOf(Amounts)' = SumOf(Amounts) + x
<1>1. ui_rx' = Append(ui_rx, e) /\ ui_rx \in Seq(UiEvents)
  BY DEF Send, ChannelTypes
<1>2. /\ Len(ui_rx') = Len(ui_rx) + 1 /\ ui_rx'[Len(ui_rx) + 1] = e
      /\ \A i \in 1..Len(ui_rx) : ui_rx'[i] = ui_rx[i]
  BY <1>1, AppendProperties
<1>3. Amounts \in Seq(Nat) /\ Len(Amounts) = Len(ui_rx) /\ Len(ui_rx) \in Nat
  BY AmountsType
<1> DEFINE a == Append(Amounts, x)
<1>4. /\ a \in Seq(Nat) /\ Len(a) = Len(ui_rx) + 1 /\ a[Len(ui_rx) + 1] = x
      /\ \A i \in 1..Len(ui_rx) : a[i] = Amounts[i]
  BY <1>3, AppendProperties
<1> HIDE DEF a
<1>5. a = [i \in 1..Len(a) |-> a[i]]
  BY <1>4
<1>6. ASSUME NEW i \in 1..Len(a)
      PROVE  a[i] = IF ui_rx'[i].type = "StaleEvicted" THEN ui_rx'[i].n ELSE 0
  <2>1. CASE i \in 1..Len(ui_rx)
    BY <1>2, <1>4, <2>1 DEF Amounts
  <2>2. CASE i = Len(ui_rx) + 1
    BY <1>2, <1>4, <2>2
  <2> QED BY <1>3, <1>4, <2>1, <2>2
<1>7. Amounts' = a
  BY <1>2, <1>4, <1>5, <1>6 DEF Amounts
<1>8. SumOf(a) = SumOf(Amounts) + x
  BY <1>3, SumOfAppend DEF a
<1>9. SumOf(Amounts)' = SumOf(Amounts')
  BY DEF SumOf
<1> QED BY <1>7, <1>8, <1>9 DEF a

LEMMA ReceiveCounts ==
  ASSUME ChannelTypes, NEW type, Receive(type)
  PROVE  /\ SumOf(Amounts) = SumOf(Amounts)'
              + (IF Head(ui_rx).type = "StaleEvicted" THEN Head(ui_rx).n ELSE 0)
         /\ SumOf(Amounts)' \in Nat
<1>1. ui_rx' = Tail(ui_rx) /\ ui_rx # << >> /\ ui_rx \in Seq(UiEvents)
  BY DEF Receive, ChannelTypes
<1>2. /\ Len(ui_rx) \in Nat \ {0} /\ Len(ui_rx') = Len(ui_rx) - 1
      /\ \A i \in 1..Len(ui_rx') : ui_rx'[i] = ui_rx[i + 1]
      /\ ui_rx[1] = Head(ui_rx)
  BY <1>1, HeadTailProperties, LenProperties, EmptySeq
<1>3. Amounts \in Seq(Nat) /\ Len(Amounts) = Len(ui_rx)
  BY AmountsType
<1>4. Amounts # << >>
  BY <1>2, <1>3
<1> DEFINE t == Tail(Amounts)
<1>5. /\ t \in Seq(Nat) /\ Len(t) = Len(ui_rx) - 1 /\ Head(Amounts) = Amounts[1]
      /\ Head(Amounts) \in Nat
      /\ \A i \in 1..Len(t) : t[i] = Amounts[i + 1]
  BY <1>3, <1>4, HeadTailProperties, LenProperties
<1>6. SumOf(Amounts) = Head(Amounts) + SumOf(t)
  BY <1>3, <1>4, SumOfTail
<1> HIDE DEF t
<1>7. t = [i \in 1..Len(t) |-> t[i]]
  BY <1>5
<1>8. ASSUME NEW i \in 1..Len(t)
      PROVE  t[i] = IF ui_rx'[i].type = "StaleEvicted" THEN ui_rx'[i].n ELSE 0
  <2>1. i + 1 \in 1..Len(ui_rx) /\ i \in 1..Len(ui_rx')
    BY <1>2, <1>5
  <2>2. t[i] = Amounts[i + 1] /\ ui_rx'[i] = ui_rx[i + 1]
    BY <1>2, <1>5, <2>1
  <2> QED BY <2>1, <2>2 DEF Amounts
<1>9. Amounts' = t
  BY <1>2, <1>5, <1>7, <1>8 DEF Amounts
<1>10. Amounts[1] = IF Head(ui_rx).type = "StaleEvicted" THEN Head(ui_rx).n ELSE 0
  BY <1>2 DEF Amounts
<1>11. SumOf(Amounts)' = SumOf(Amounts')
  BY DEF SumOf
<1>12. SumOf(t) \in Nat
  BY <1>5, SumOfAppend
<1> QED BY <1>5, <1>6, <1>9, <1>10, <1>11, <1>12

LEMMA StepCounts ==
  IInv /\ EvictionsCounted /\ [Next]_vars => EvictionsCounted'
<1> SUFFICES ASSUME IInv, EvictionsCounted, [Next]_vars PROVE EvictionsCounted'
  OBVIOUS
<1>0. ChannelTypes /\ TrackerTypes /\ removed \in Nat /\ evicted \in Nat /\ SumOf(Amounts) \in Nat
  BY AmountsType, SumOfAppend DEF IInv, TrackerTypes, ListInv, ListTypes
<1>1. ASSUME NEW k \in Keys, NEW new \in Logs, TrackerUpdates(k, new) PROVE EvictionsCounted'
  <2> DEFINE e == [type |-> "HandshakeUpdated", key |-> k, records |-> log[k] \o new]
  <2>1. log[k] \o new \in Logs
    BY <1>0, ConcatProperties DEF TrackerTypes, Logs
  <2>2. e \in UiEvents /\ e.type # "StaleEvicted" /\ Send(e)
    BY <1>1, <2>1 DEF UiEvents, TrackerUpdates
  <2>3. removed' = removed /\ evicted' = evicted
    BY <1>1 DEF TrackerUpdates, Send, appVars, listVars
  <2> HIDE DEF e
  <2>4. SumOf(Amounts)' = SumOf(Amounts) + 0
    BY <1>0, <2>2, SendCounts
  <2> QED BY <1>0, <2>3, <2>4 DEF EvictionsCounted
<1>2. ASSUME NEW S \in SUBSET tracked, TrackerEvicts(S) PROVE EvictionsCounted'
  <2> DEFINE n == Cardinality(S)
             e == [type |-> "StaleEvicted", n |-> n]
  <2>1. n \in Nat
    <3>1. S \subseteq Keys
      BY <1>0 DEF TrackerTypes
    <3> QED BY <3>1, FS_Subset, FS_CardinalityType
  <2>2. removed' = removed + n /\ evicted' = evicted /\ Send(e)
    BY <1>2 DEF TrackerEvicts, Send, appVars, listVars
  <2> HIDE DEF n
  <2>3. e \in UiEvents /\ e.type = "StaleEvicted" /\ e.n = n
    BY <2>1 DEF UiEvents
  <2> HIDE DEF e
  <2>4. SumOf(Amounts)' = SumOf(Amounts) + n
    BY <1>0, <2>1, <2>2, <2>3, SendCounts
  <2> QED BY <1>0, <2>1, <2>2, <2>4 DEF EvictionsCounted
<1>3. CASE HandleUpdated
  <2>1. Receive("HandshakeUpdated") /\ evicted' = evicted
    BY <1>3 DEF HandleUpdated
  <2>2. Head(ui_rx).type = "HandshakeUpdated" /\ removed' = removed
    BY <2>1 DEF Receive, trackerVars
  <2>3. SumOf(Amounts) = SumOf(Amounts)' + 0 /\ SumOf(Amounts)' \in Nat
    BY <1>0, <2>1, <2>2, ReceiveCounts
  <2> QED BY <2>1, <2>2, <2>3 DEF EvictionsCounted
<1>4. CASE HandleEvicted
  <2>1. Receive("StaleEvicted") /\ evicted' = evicted + Head(ui_rx).n
    BY <1>4 DEF HandleEvicted
  <2>2. Head(ui_rx).type = "StaleEvicted" /\ removed' = removed
    BY <2>1 DEF Receive, trackerVars
  <2>3. Head(ui_rx).n \in Nat
    BY <1>0, <2>1, ReceivedEviction
  <2>4. SumOf(Amounts) = SumOf(Amounts)' + Head(ui_rx).n /\ SumOf(Amounts)' \in Nat
    BY <1>0, <2>1, <2>2, ReceiveCounts
  <2> QED BY <1>0, <2>1, <2>2, <2>3, <2>4 DEF EvictionsCounted
<1>5. ASSUME UNCHANGED <<removed, evicted, ui_rx>> PROVE EvictionsCounted'
  <2>1. Amounts' = Amounts
    BY <1>5 DEF Amounts
  <2>2. SumOf(Amounts)' = SumOf(Amounts')
    BY DEF SumOf
  <2> QED BY <1>5, <2>1, <2>2 DEF EvictionsCounted
<1>6. CASE ClearConnections
  BY <1>5, <1>6 DEF ClearConnections, Input, trackerVars
<1>7. CASE UNCHANGED vars
  BY <1>5, <1>7 DEF vars, trackerVars, appVars, listVars
<1>8. CASE TrackerStep
  <2>1. << >> \in Logs /\ \A b \in Bodies : <<b>> \in Logs
    BY EmptySeq DEF Logs
  <2> QED BY <1>1, <1>2, <1>8, <2>1 DEF TrackerStep
<1>9. CASE Next /\ ~TrackerStep /\ ~HandleUpdated /\ ~HandleEvicted /\ ~ClearConnections
  <2>1. evicted' = evicted
    BY <1>9, OthersKeepLists DEF listVars
  <2>2. Drained \/ Input
    BY <1>9 DEF Next, UiStep, NoKey, FocusLeft, FocusRight, FocusCycle, FocusTo, SelectPrev,
           SelectNext, SelectConnection, SelectRecord, SelectSection, ToggleMiddleMode
  <2>3. UNCHANGED <<removed, ui_rx>>
    BY <2>2 DEF Drained, Input, trackerVars
  <2> QED BY <1>5, <2>1, <2>3
<1> QED BY <1>3, <1>4, <1>6, <1>7, <1>8, <1>9

-----------------------------------------------------------------------------
(* The theorems.                                                           *)

LEMMA InitEstablishes == Init => IInv /\ \A k \in Keys : Followed(k)
<1> SUFFICES ASSUME Init PROVE IInv /\ \A k \in Keys : Followed(k)
  OBVIOUS
<1>1. << >> \in Logs /\ << >> \in Seq(UiEvents) /\ << >> \in Seq(Keys) /\ Len(<< >>) = 0
  BY EmptySeq DEF Logs
<1>2. TrackerTypes
  BY <1>1 DEF Init, TrackerTypes
<1>3. ChannelTypes
  BY <1>1 DEF Init, ChannelTypes
<1>4. order = << >> /\ connections = << >> /\ evicted = 0
  BY DEF Init
<1>5. DOMAIN connections = {} /\ connections \in [DOMAIN connections -> Logs]
  BY <1>4
<1>6. ListInv
  BY <1>1, <1>4, <1>5 DEF ListInv, ListTypes, OrderIsIndex
<1>7. CursorInv
  <2>1. selected = 0 /\ records_row = 0 /\ section_index = 0
    BY DEF Init
  <2>2. SelectedRecords = << >>
    BY <1>1, <1>4, <2>1 DEF SelectedRecords, HasSelected
  <2>3. LastSection(<< >>, 0) = 0
    BY <1>1, LastSectionType
  <2>4. QED
    BY <1>1, <1>4, <2>1, <2>2, <2>3 DEF Init, CursorInv, CursorTypes, CursorInRange, Focuses
<1>8. \A k \in Keys : Followed(k)
  BY DEF Init, Followed
<1>9. QED
  BY <1>2, <1>3, <1>6, <1>7, <1>8 DEF IInv

LEMMA StepKeeps == IInv /\ [Next]_vars => IInv'
<1> SUFFICES ASSUME IInv, [Next]_vars PROVE IInv'
  OBVIOUS
<1>1. TrackerTypes' /\ ChannelTypes'
  BY StepKeepsTracker DEF IInv
<1>2. ListInv'
  BY StepKeepsLists DEF IInv
<1>3. CursorInv'
  BY StepKeepsCursors DEF IInv
<1>4. QED
  BY <1>1, <1>2, <1>3 DEF IInv

LEMMA Invariance == Spec => []IInv
<1>1. Init => IInv
  BY InitEstablishes
<1>2. QED
  BY <1>1, StepKeeps, PTL DEF Spec

(* Whatever the tracker sends and whichever keys are pressed, every        *)
(* variable of the UI, the channel and the tracker keeps its type.         *)
THEOREM TypeCorrect == Spec => []TypeOK
<1>1. IInv => TypeOK
  BY DEF IInv, ListInv, CursorInv, TrackerTypes, ChannelTypes, ListTypes, CursorTypes, TypeOK
<1>2. QED
  BY <1>1, Invariance, PTL

(* The display order lists every known connection once (handle_ui_event    *)
(* and clear_connections keep the Vec and the HashMap in step).            *)
THEOREM OrderIsTheIndex == Spec => []OrderIsIndex
<1>1. IInv => OrderIsIndex
  BY DEF IInv, ListInv
<1>2. QED
  BY <1>1, Invariance, PTL

(* The cursors point at a listed connection, one of its records or the     *)
(* metadata row, and one of the record's sections (clamp_indices and the   *)
(* bounds of the select functions).                                        *)
THEOREM CursorsInRange == Spec => []CursorInRange
<1>1. IInv => CursorInRange
  BY DEF IInv, CursorInv
<1>2. QED
  BY <1>1, Invariance, PTL

(* Draining the channel never moves the selection, and moves the cursors   *)
(* only when the selected log is replaced by one that does not extend it   *)
(* (handle_ui_event).                                                      *)
THEOREM SelectionIsKept == Spec => SelectionKept
<1>1. IInv /\ [Next]_vars =>
        [pc = "drain" /\ HasSelected =>
           LET new == connections'[SelectedKey]
           IN  /\ selected' < Len(order') /\ order'[selected' + 1] = SelectedKey
               /\ Extends(new, SelectedRecords) => UNCHANGED <<records_row, section_index>>]_vars
  BY StepKeepsSelection
<1>2. QED
  BY <1>1, Invariance, PTL DEF Spec, SelectionKept

(* The state on display is the tracker's, or the last update under way is  *)
(* (the channel carries whole states in order).                            *)
THEOREM ViewFollows == Spec => []ViewFollowsTracker
<1> DEFINE J == IInv /\ \A k \in Keys : Followed(k)
<1>1. Init => J
  BY InitEstablishes
<1>2. J /\ [Next]_vars => J'
  BY StepKeeps, StepKeepsFollowed
<1>3. J => ViewFollowsTracker
  BY DEF IInv, TrackerTypes, Followed, ViewFollowsTracker
<1>4. QED
  BY <1>1, <1>2, <1>3, PTL DEF Spec

(* The counter of the status line, with the evictions under way, is the    *)
(* number of flows the tracker removed over the whole session (evict_stale *)
(* counts what it removes, handle_ui_event adds, clear_connections keeps). *)
THEOREM EvictionsAreCounted == Spec => []EvictionsCounted
<1>1. Init => EvictionsCounted
  <2> SUFFICES ASSUME Init PROVE EvictionsCounted
    OBVIOUS
  <2>1. removed = 0 /\ evicted = 0 /\ Len(ui_rx) = 0
    BY EmptySeq DEF Init
  <2>2. Amounts \in Seq(Nat) /\ Len(Amounts) = 0
    BY <2>1, EmptySeq DEF Amounts
  <2>3. PICK f \in [0..Len(Amounts) -> Nat] : Sums(f, Amounts)
    BY <2>2, SumsExist
  <2>4. SumOf(Amounts) = f[Len(Amounts)]
    BY <2>2, <2>3, SumOfIs
  <2>5. f[0] = 0
    BY <2>2, <2>3 DEF Sums
  <2> QED BY <2>1, <2>2, <2>4, <2>5 DEF EvictionsCounted
<1>2. IInv /\ EvictionsCounted /\ [Next]_vars => EvictionsCounted'
  BY StepCounts
<1> QED BY <1>1, <1>2, Invariance, PTL DEF Spec
=============================================================================
