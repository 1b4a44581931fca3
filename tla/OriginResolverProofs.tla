------------------------ MODULE OriginResolverProofs ------------------------
(***************************************************************************)
(* OriginResolver implements Attribution, for all processes, flows, users  *)
(* and any TTL.                                                            *)
(***************************************************************************)
EXTENDS OriginResolver, TLAPS

USE ResolverAssumption

RowType == [inode : Inodes, uid : Nat]
ProcType == [pid : Pids, uid : Nat]

MachineOK ==
  /\ established \in [Tuples -> SUBSET Inodes] /\ mapped \in SUBSET Inodes
  /\ held \in [Inodes -> SUBSET Pids] /\ owner \in [Inodes -> Nat]
  /\ running \in SUBSET Pids /\ opened \in 0..MaxOpens /\ clock \in 0..MaxClock
  /\ events \in 0..MaxEvents

CacheOK ==
  cache \in [taken : BOOLEAN, taken_at : 0..MaxClock,
             sockets : [Tuples -> SUBSET RowType], procs : [Inodes -> SUBSET ProcType]]

LocalsOK ==
  /\ pc \in {"idle", "tcp", "tcp6", "proc", "procs"} /\ asked \in SUBSET Tuples
  /\ sockets \in [Tuples -> SUBSET RowType]
  /\ procs \in [Inodes -> SUBSET ProcType]
  /\ wanted \in SUBSET Inodes /\ unvisited \in SUBSET Pids
  /\ current \in SUBSET Pids /\ pending \in SUBSET Inodes /\ found \in SUBSET Inodes

HistoryOK ==
  /\ seen \in Mapping!FactSets /\ steady \in SUBSET Tuples
  /\ answer \in SUBSET [to : Tuples, origin : Mapping!Origins]

LEMMA TypesSplit == TypeOK <=> MachineOK /\ CacheOK /\ LocalsOK /\ HistoryOK
BY DEF TypeOK, MachineOK, CacheOK, LocalsOK, HistoryOK, RowType, ProcType

\* What a snapshot says of a flow is an origin.
LEMMA OriginType ==
  ASSUME NEW s \in [Tuples -> SUBSET RowType], NEW p \in [Inodes -> SUBSET ProcType],
         NEW t \in Tuples
  PROVE  /\ Origin(s, p, t) \in Mapping!Origins
         /\ ResolveIn(s, p, t) \in Mapping!Origins
<1>1. ASSUME NEW u \in Tuples PROVE Origin(s, p, u) \in Mapping!Origins
  <2>1. CASE s[u] = {}
    BY <2>1 DEF Origin, Unknown, Mapping!Origins
  <2>2. CASE s[u] # {}
    <3>1. PICK row \in RowType : row = CHOOSE r \in s[u] : TRUE
      BY <2>2
    <3>2. row.inode \in Inodes /\ row.uid \in Nat
      BY DEF RowType
    <3>3. CASE p[row.inode] = {}
      BY <2>2, <3>1, <3>2, <3>3 DEF Origin, Mapping!Origins
    <3>4. CASE p[row.inode] # {}
      <4>1. PICK proc \in ProcType : proc = CHOOSE r \in p[row.inode] : TRUE
        BY <3>2, <3>4
      <4>2. proc.pid \in Pids /\ proc.uid \in Nat
        BY DEF ProcType
      <4> QED BY <2>2, <3>1, <3>4, <4>1, <4>2 DEF Origin, Mapping!Origins
    <3> QED BY <3>3, <3>4
  <2> QED BY <2>1, <2>2
<1>2. Reverse(t) \in Tuples
  OBVIOUS
<1> QED BY <1>1, <1>2 DEF ResolveIn

\* The abstract way to try both orders is the concrete one.
LEMMA EitherIsResolveIn ==
  ASSUME NEW s \in [Tuples -> SUBSET RowType], NEW p \in [Inodes -> SUBSET ProcType],
         NEW t \in Tuples
  PROVE  Mapping!Either([u \in Tuples |-> Origin(s, p, u)], t) = ResolveIn(s, p, t)
<1> DEFINE f == [u \in Tuples |-> Origin(s, p, u)]
<1>1. Reverse(t) \in Tuples /\ Reverse(t) = <<t[2], t[1]>>
  BY DEF Reverse
<1>2. f[t] = Origin(s, p, t) /\ f[<<t[2], t[1]>>] = Origin(s, p, Reverse(t))
  BY <1>1
<1>3. CASE s[t] = {}
  <2>1. Origin(s, p, t).type = "Unknown"
    BY <1>3 DEF Origin, Unknown
  <2> QED BY <1>2, <1>3, <2>1 DEF Mapping!Either, ResolveIn
<1>4. CASE s[t] # {}
  <2>1. Origin(s, p, t).type # "Unknown"
    BY <1>4 DEF Origin
  <2> QED BY <1>2, <1>4, <2>1 DEF Mapping!Either, ResolveIn
<1> QED BY <1>3, <1>4

-----------------------------------------------------------------------------
(* Types.                                                                  *)

FactsOK == Mapping!Facts \in Mapping!FactSets

LEMMA FactsType == MachineOK => FactsOK
<1> SUFFICES ASSUME MachineOK PROVE FactsOK
  OBVIOUS
<1>1. \A t \in Tuples : Listed(t) \subseteq Inodes
  BY DEF MachineOK, Listed
<1>2. UNION {{[at |-> t, inode |-> i, uid |-> owner[i]] : i \in [u \in Tuples |-> Listed(u)][t]} : t \in Tuples}
        \subseteq [at : Tuples, inode : Inodes, uid : Nat]
  BY <1>1 DEF MachineOK
<1> QED BY <1>2 DEF FactsOK, Mapping!Facts, Mapping!FactSets

LEMMA WithType ==
  ASSUME NEW s \in Mapping!FactSets, NEW f \in Mapping!FactSets
  PROVE  Mapping!With(s, f) \in Mapping!FactSets
BY DEF Mapping!With, Mapping!FactSets

\* The machine keeps its types, and its steps are seen.
LEMMA MachineTypes ==
  ASSUME TypeOK, MachineStep PROVE MachineOK'
<1>0. MachineOK
  BY TypesSplit
<1>1. CASE Tick
  BY <1>0, <1>1 DEF MachineOK, Tick
<1>2. ASSUME NEW t \in Tuples, NEW p \in Pids, Open(t, p) PROVE MachineOK'
  <2>1. opened + 1 \in Inodes
    BY <1>0, <1>2 DEF Inodes, MachineOK, Open
  <2>2. opened' \in 0..MaxOpens /\ events' \in 0..MaxEvents
    BY <1>0, <1>2 DEF MachineOK, Open, Change, Event
  <2>3. UidOf[p] \in Nat
    OBVIOUS
  <2>4. owner' \in [Inodes -> Nat] /\ held' \in [Inodes -> SUBSET Pids]
    BY <1>0, <1>2, <2>1, <2>3 DEF MachineOK, Open
  <2>5. established' \in [Tuples -> SUBSET Inodes] /\ mapped' \in SUBSET Inodes
    BY <1>0, <1>2, <2>1 DEF MachineOK, Open
  <2> QED BY <1>0, <1>2, <2>2, <2>4, <2>5 DEF MachineOK, Open, Change, Event
<1>3. ASSUME NEW t \in Tuples, Disconnect(t) PROVE MachineOK'
  BY <1>0, <1>3 DEF MachineOK, Disconnect, Change, Event
<1>4. ASSUME NEW i \in Inodes, NEW p \in Pids, Share(i, p) PROVE MachineOK'
  BY <1>0, <1>4 DEF MachineOK, Share, Change, Event
<1>5. ASSUME NEW p \in Pids, NEW S, Released(p, S)
      PROVE  held' \in [Inodes -> SUBSET Pids] /\ established' \in [Tuples -> SUBSET Inodes]
  BY <1>0, <1>5 DEF MachineOK, Released
<1>6. ASSUME NEW i \in Inodes, NEW p \in Pids, Close(i, p) PROVE MachineOK'
  BY <1>0, <1>5, <1>6 DEF MachineOK, Close, Change, Event
<1>7. ASSUME NEW p \in Pids, Exit(p) PROVE MachineOK'
  BY <1>0, <1>5, <1>7 DEF MachineOK, Exit, Change, Event
<1> QED BY <1>1, <1>2, <1>3, <1>4, <1>6, <1>7 DEF MachineStep

\* A step of the machine, whoever is looking.
LEMMA MachineStepObserved ==
  ASSUME TypeOK, MachineStep
  PROVE  /\ MachineOK' /\ Unobserved
         /\ seen' \in Mapping!FactSets
<1>1. MachineOK'
  BY MachineTypes
<1>2. Unobserved
  BY DEF MachineStep, Tick, Open, Share, Disconnect, Close, Exit
<1>3. FactsOK'
  BY <1>1, FactsType, PTL
<1>4. seen \in Mapping!FactSets
  BY DEF TypeOK
<1>5. Mapping!With(seen, (Mapping!Facts)') \in Mapping!FactSets
  BY <1>3, <1>4, WithType DEF FactsOK
<1> QED BY <1>1, <1>2, <1>4, <1>5 DEF Unobserved

LEMMA InodesInType ==
  ASSUME MachineOK, NEW table, NEW t \in Tuples
  PROVE  /\ InodesIn(table, t) \subseteq Inodes
         /\ Rows(t) \subseteq RowType /\ Listed(t) \subseteq Inodes
BY DEF MachineOK, InodesIn, Rows, Listed, RowType

LEMMA AttributeType ==
  ASSUME TypeOK, NEW p \in Pids, NEW uid \in Nat, Attribute(p, uid)
  PROVE  LocalsOK'
<1>1. [pid |-> p, uid |-> uid] \in ProcType
  BY DEF ProcType
<1>2. LocalsOK
  BY TypesSplit
<1>3. procs' \in [Inodes -> SUBSET ProcType]
  BY <1>1, <1>2 DEF Attribute, LocalsOK
<1> QED BY <1>2, <1>3 DEF Attribute, Reading, LocalsOK

LEMMA MissedType ==
  ASSUME HistoryOK, NEW D \in SUBSET Mapping!Descriptors, Missed(D)
  PROVE  seen' \in Mapping!FactSets /\ steady' \in SUBSET Tuples
BY DEF HistoryOK, Missed, Mapping!FactSets

\* A step of a read leaves the machine and the cache as they are.
LEMMA ReadingTypes ==
  ASSUME MachineOK, CacheOK, NEW next, Reading(next), Event \/ UNCHANGED events
  PROVE  MachineOK' /\ CacheOK'
<1>1. events' \in 0..MaxEvents
  BY DEF Event, MachineOK
<1> QED BY <1>1 DEF Reading, machine, MachineOK, CacheOK

LEMMA InitTypes == Init => TypeOK
<1> SUFFICES ASSUME Init PROVE TypeOK
  OBVIOUS
<1>1. NoRows \in [Tuples -> SUBSET Inodes] /\ NoRows \in [Tuples -> SUBSET RowType]
  BY DEF NoRows
<1>2. NoProcs \in [Inodes -> SUBSET Pids] /\ NoProcs \in [Inodes -> SUBSET ProcType]
  BY DEF NoProcs
<1>3. MachineOK
  BY <1>1, <1>2 DEF Init, MachineOK
<1>4. CacheOK
  BY <1>1, <1>2 DEF Init, CacheOK
<1>5. LocalsOK
  BY <1>1, <1>2 DEF Init, LocalsOK
<1>6. HistoryOK
  BY DEF Init, HistoryOK, Mapping!NoFacts, Mapping!FactSets
<1> QED BY <1>3, <1>4, <1>5, <1>6, TypesSplit

LEMMA TypesPreserved == TypeOK /\ [Next]_vars => TypeOK'
<1> SUFFICES ASSUME TypeOK, [Next]_vars PROVE TypeOK'
  OBVIOUS
<1>0. MachineOK /\ CacheOK /\ LocalsOK /\ HistoryOK
  BY TypesSplit
<1>s. ASSUME MachineOK', CacheOK', LocalsOK', HistoryOK' PROVE TypeOK'
  BY <1>s DEF TypeOK, MachineOK, CacheOK, LocalsOK, HistoryOK, RowType, ProcType
<1>1. CASE MachineStep
  <2>1. MachineOK' /\ Unobserved /\ seen' \in Mapping!FactSets
    BY <1>1, MachineStepObserved
  <2>2. CacheOK' /\ LocalsOK'
    BY <1>0, <2>1 DEF Unobserved, CacheOK, LocalsOK, tables
  <2>3. HistoryOK'
    BY <1>0, <2>1 DEF Unobserved, HistoryOK
  <2> QED BY <1>s, <2>1, <2>2, <2>3
<1>2. ASSUME NEW t \in Tuples, ResolveFromCache(t) PROVE TypeOK'
  <2>1. ResolveIn(cache.sockets, cache.procs, t) \in Mapping!Origins
    BY <1>0, OriginType DEF CacheOK
  <2>2. HistoryOK'
    BY <1>0, <1>2, <2>1 DEF ResolveFromCache, history, HistoryOK
  <2>3. MachineOK' /\ CacheOK' /\ LocalsOK'
    BY <1>0, <1>2 DEF ResolveFromCache, machine, tables, loops, MachineOK, CacheOK, LocalsOK
  <2> QED BY <1>s, <2>2, <2>3
<1>3. ASSUME NEW t \in Tuples, BeginSnapshot(t) PROVE TypeOK'
  <2>1. Mapping!Facts \in Mapping!FactSets
    BY <1>0, FactsType DEF FactsOK
  <2>2. HistoryOK'
    BY <1>0, <1>3, <2>1 DEF BeginSnapshot, HistoryOK
  <2>3. MachineOK' /\ CacheOK'
    BY <1>0, <1>3 DEF BeginSnapshot, machine, MachineOK, CacheOK
  <2>4. LocalsOK'
    BY <1>0, <1>3 DEF BeginSnapshot, tables, loops, LocalsOK
  <2> QED BY <1>s, <2>2, <2>3, <2>4
<1>r. ASSUME NEW next, Reading(next), Event \/ UNCHANGED events, LocalsOK', seen' \in Mapping!FactSets,
             steady' \in SUBSET Tuples
      PROVE  TypeOK'
  <2>1. MachineOK' /\ CacheOK'
    BY <1>0, <1>r, ReadingTypes
  <2>2. HistoryOK'
    BY <1>0, <1>r DEF Reading, HistoryOK
  <2> QED BY <1>r, <1>s, <2>1, <2>2
<1>u. ASSUME NEW next, Reading(next), UNCHANGED <<events, history>>, LocalsOK' PROVE TypeOK'
  BY <1>0, <1>r, <1>u DEF history, HistoryOK
<1>4. ASSUME NEW table \in {"tcp", "tcp6"}, ReadTable(table) PROVE TypeOK'
  <2>1. \A t \in Tuples : Rows(t) \subseteq RowType /\ InodesIn(table, t) \subseteq Inodes
    BY <1>0, InodesInType
  <2>2. sockets' \in [Tuples -> SUBSET RowType] /\ wanted' \in SUBSET Inodes
    BY <1>0, <1>4, <2>1 DEF ReadTable, LocalsOK
  <2>3. LocalsOK'
    BY <1>0, <1>4, <2>2 DEF ReadTable, Reading, AfterTable, loops, LocalsOK
  <2> QED BY <1>4, <1>u, <2>3 DEF ReadTable
<1>5. ASSUME NEW table \in {"tcp", "tcp6"}, ReadTableFails(table) PROVE TypeOK'
  <2>1. LocalsOK'
    BY <1>0, <1>5 DEF ReadTableFails, Reading, AfterTable, tables, loops, LocalsOK
  <2>2. seen' \in Mapping!FactSets /\ steady' \in SUBSET Tuples
    BY <1>0, <1>5 DEF ReadTableFails, HistoryOK, Mapping!FactSets
  <2> QED BY <1>5, <1>r, <2>1, <2>2 DEF ReadTableFails
<1>6. CASE OpenProc
  <2>1. LocalsOK'
    BY <1>0, <1>6 DEF OpenProc, Reading, tables, LocalsOK
  <2> QED BY <1>6, <1>u, <2>1 DEF OpenProc
<1>f. ASSUME NEW D \in SUBSET Mapping!Descriptors, Missed(D), NEW next, Reading(next), Event, LocalsOK'
      PROVE  TypeOK'
  BY <1>0, <1>f, <1>r, MissedType
<1>9. CASE OpenProcFails
  <2>1. LocalsOK'
    BY <1>0, <1>9 DEF OpenProcFails, Reading, tables, loops, LocalsOK
  <2> QED BY <1>9, <1>f, <2>1 DEF OpenProcFails
<1>10. ASSUME NEW p \in Pids, EnterProcess(p) PROVE TypeOK'
  <2>1. LocalsOK'
    BY <1>0, <1>10 DEF EnterProcess, Reading, tables, LocalsOK
  <2> QED BY <1>10, <1>u, <2>1 DEF EnterProcess
<1>11. ASSUME NEW p \in Pids, EnterProcessFails(p) PROVE TypeOK'
  <2>1. LocalsOK'
    BY <1>0, <1>11 DEF EnterProcessFails, Reading, tables, LocalsOK
  <2> DEFINE D == {d \in Mapping!Descriptors : d.pid = p}
  <2>2. D \in SUBSET Mapping!Descriptors /\ Missed(D) /\ Event /\ Reading("procs")
    BY <1>11 DEF EnterProcessFails
  <2> QED BY <1>f, <2>1, <2>2
<1>12. ASSUME NEW p \in Pids, SkipProcess(p) PROVE TypeOK'
  <2>1. LocalsOK'
    BY <1>0, <1>12 DEF SkipProcess, Reading, tables, LocalsOK
  <2> QED BY <1>12, <1>u, <2>1 DEF SkipProcess
<1>13. ASSUME NEW p \in Pids, NEW i \in Inodes, TakeLink(p, i) PROVE TypeOK'
  <2>1. LocalsOK'
    BY <1>0, <1>13 DEF TakeLink, Reading, tables, LocalsOK
  <2> QED BY <1>13, <1>u, <2>1 DEF TakeLink
<1>14. ASSUME NEW p \in Pids, NEW i \in Inodes, LinkFails(p, i) PROVE TypeOK'
  <2>1. LocalsOK'
    BY <1>0, <1>14 DEF LinkFails, Reading, tables, LocalsOK
  <2> DEFINE D == {[inode |-> i, pid |-> p]}
  <2>2. D \in SUBSET Mapping!Descriptors /\ Missed(D) /\ Event /\ Reading("procs")
    BY <1>14 DEF LinkFails, Mapping!Descriptors
  <2> QED BY <1>f, <2>1, <2>2
<1>15. ASSUME NEW p \in Pids, TakeStatus(p) PROVE TypeOK'
  <2>1. UidOf[p] \in Nat
    OBVIOUS
  <2>2. LocalsOK'
    BY <1>15, <2>1, AttributeType DEF TakeStatus
  <2> QED BY <1>15, <1>u, <2>2 DEF TakeStatus, Attribute
<1>16. ASSUME NEW p \in Pids, StatusFails(p) PROVE TypeOK'
  <2>1. LocalsOK'
    BY <1>16, AttributeType DEF StatusFails
  <2>2. seen' \in Mapping!FactSets /\ steady' \in SUBSET Tuples
    BY <1>0, <1>16 DEF StatusFails, HistoryOK, Mapping!FactSets
  <2>3. Reading("procs") /\ (Event \/ UNCHANGED events)
    BY <1>16 DEF StatusFails, Attribute
  <2> QED BY <1>r, <2>1, <2>2, <2>3
<1>17. ASSUME NEW p \in Pids, LeaveProcess(p) PROVE TypeOK'
  <2>1. LocalsOK'
    BY <1>0, <1>17 DEF LeaveProcess, Reading, tables, LocalsOK
  <2> QED BY <1>17, <1>u, <2>1 DEF LeaveProcess
<1>7. CASE EndSnapshot
  <2>1. NoRows \in [Tuples -> SUBSET RowType] /\ NoProcs \in [Inodes -> SUBSET ProcType]
    BY DEF NoRows, NoProcs
  <2>2. \A t \in Tuples : ResolveIn(sockets, procs, t) \in Mapping!Origins
    BY <1>0, OriginType DEF LocalsOK
  <2>3. answer' \in SUBSET [to : Tuples, origin : Mapping!Origins]
    BY <1>0, <1>7, <2>2 DEF EndSnapshot, LocalsOK
  <2>4. HistoryOK'
    BY <1>0, <1>7, <2>3 DEF EndSnapshot, HistoryOK, Mapping!NoFacts, Mapping!FactSets
  <2>5. CacheOK'
    BY <1>0, <1>7 DEF EndSnapshot, Snapshot, CacheOK, LocalsOK, MachineOK
  <2>6. MachineOK' /\ LocalsOK'
    BY <1>0, <1>7, <2>1 DEF EndSnapshot, machine, MachineOK, LocalsOK
  <2> QED BY <1>s, <2>4, <2>5, <2>6
<1>8. CASE UNCHANGED vars
  <2>1. MachineOK' /\ CacheOK'
    BY <1>0, <1>8 DEF vars, machine, MachineOK, CacheOK
  <2>2. LocalsOK' /\ HistoryOK'
    BY <1>0, <1>8 DEF vars, tables, loops, history, LocalsOK, HistoryOK
  <2> QED BY <1>s, <2>1, <2>2
<1> QED BY <1>1, <1>2, <1>3, <1>4, <1>5, <1>6, <1>7, <1>8, <1>9, <1>10, <1>11, <1>12, <1>13, <1>14, <1>15,
           <1>16, <1>17 DEF Next, ResolverStep

(* Every variable of the machine, the cache and a lookup keeps its type,   *)
(* whatever the machine does meanwhile (snapshot, read_sockets,            *)
(* read_procs, resolve).                                                   *)
THEOREM TypeCorrect == Spec => []TypeOK
<1>1. Init => TypeOK
  BY InitTypes
<1>2. TypeOK /\ [Next]_vars => TypeOK'
  BY TypesPreserved
<1> QED BY <1>1, <1>2, PTL DEF Spec

-----------------------------------------------------------------------------
(* What the machine and the loops of a snapshot look like.                 *)

\* A tuple has one socket, opened before; what a process holds, it holds running.
SocketsInv ==
  /\ \A t \in Tuples : \A i, j \in established[t] : i = j
  /\ \A t \in Tuples : \A i \in established[t] : i <= opened
  /\ \A i \in Inodes : held[i] \subseteq running

TableRead(t) == pc \in {"proc", "procs"} \/ (pc = "tcp6" /\ Family[t] = "tcp")

\* One process at a time is looked into, and one socket of its at a time.
LoopsInv ==
  /\ \A p, q \in current : p = q
  /\ current \subseteq Readable
  /\ current = {} => found = {}
  /\ pc # "procs" => current = {} /\ procs = NoProcs
  /\ \A t \in Tuples : ~TableRead(t) => sockets[t] = {}

LEMMA SocketsPreserved == TypeOK /\ SocketsInv /\ [Next]_vars => SocketsInv'
<1> SUFFICES ASSUME TypeOK, SocketsInv, [Next]_vars PROVE SocketsInv'
  OBVIOUS
<1>0. MachineOK
  BY TypesSplit
<1>1. ASSUME UNCHANGED <<established, held, running, opened>> PROVE SocketsInv'
  BY <1>1 DEF SocketsInv
<1>2. ASSUME NEW t \in Tuples, NEW p \in Pids, Open(t, p) PROVE SocketsInv'
  <2>1. opened \in Nat /\ opened' = opened + 1 /\ p \in running /\ running' = running
    BY <1>0, <1>2 DEF MachineOK, Open
  <2>2. \A u \in Tuples : established'[u] = IF u = t THEN {opened + 1} ELSE established[u]
    BY <1>0, <1>2 DEF MachineOK, Open
  <2>3. \A u \in Tuples : \A i \in established[u] : i \in Nat /\ i <= opened
    BY <1>0 DEF SocketsInv, MachineOK, Inodes
  <2>4. \A i \in Inodes : held'[i] \subseteq running
    BY <1>0, <1>2, <2>1 DEF MachineOK, Open, SocketsInv
  <2>5. \A u \in Tuples : \A i \in established'[u] : i <= opened'
    BY <2>1, <2>2, <2>3
  <2>6. \A u \in Tuples : \A i, j \in established'[u] : i = j
    BY <2>2 DEF SocketsInv
  <2> QED BY <2>1, <2>4, <2>5, <2>6 DEF SocketsInv
<1>3. ASSUME NEW t \in Tuples, Disconnect(t) PROVE SocketsInv'
  BY <1>0, <1>3 DEF MachineOK, Disconnect, SocketsInv
<1>4. ASSUME NEW i \in Inodes, NEW p \in Pids, Share(i, p) PROVE SocketsInv'
  BY <1>0, <1>4 DEF MachineOK, Share, SocketsInv
<1>5. ASSUME NEW i \in Inodes, NEW p \in Pids, Close(i, p) PROVE SocketsInv'
  BY <1>0, <1>5 DEF MachineOK, Close, Released, SocketsInv
<1>6. ASSUME NEW p \in Pids, Exit(p) PROVE SocketsInv'
  BY <1>0, <1>6 DEF MachineOK, Exit, Released, SocketsInv
<1>7. CASE MachineStep
  BY <1>1, <1>2, <1>3, <1>4, <1>5, <1>6, <1>7 DEF MachineStep, Tick
<1>8. CASE ResolverStep
  <2>1. UNCHANGED machine
    BY <1>8 DEF ResolverStep, ResolveFromCache, BeginSnapshot, ReadTable, ReadTableFails, OpenProc, OpenProcFails,
         EnterProcess, EnterProcessFails, SkipProcess, TakeLink, LinkFails, TakeStatus, StatusFails, Attribute,
         LeaveProcess, EndSnapshot, Reading
  <2> QED BY <1>1, <2>1 DEF machine
<1>9. CASE UNCHANGED vars
  BY <1>1, <1>9 DEF vars, machine
<1> QED BY <1>7, <1>8, <1>9 DEF Next

LEMMA LoopsPreserved == TypeOK /\ LoopsInv /\ [Next]_vars => LoopsInv'
<1> SUFFICES ASSUME TypeOK, LoopsInv, [Next]_vars PROVE LoopsInv'
  OBVIOUS
<1>1. ASSUME UNCHANGED <<pc, sockets, procs, current, found>> PROVE LoopsInv'
  BY <1>1 DEF LoopsInv, TableRead
<1>2. CASE MachineStep
  BY <1>1, <1>2, MachineStepObserved DEF Unobserved, tables
<1>3. ASSUME NEW t \in Tuples, ResolveFromCache(t) PROVE LoopsInv'
  BY <1>1, <1>3 DEF ResolveFromCache, tables, loops
<1>4. ASSUME NEW t \in Tuples, BeginSnapshot(t) PROVE LoopsInv'
  BY <1>4 DEF BeginSnapshot, tables, loops, LoopsInv, TableRead
<1>5. ASSUME NEW table \in {"tcp", "tcp6"}, pc = table, pc' = AfterTable(table), UNCHANGED <<procs, loops>>,
             \A t \in Tuples : Family[t] # table => sockets'[t] = sockets[t]
      PROVE  LoopsInv'
  <2>1. UNCHANGED <<procs, current, found>> /\ pc' \in {"tcp6", "proc"} /\ pc # "procs"
    BY <1>5 DEF loops, AfterTable
  <2>2. ASSUME NEW t \in Tuples, ~(TableRead(t)') PROVE sockets'[t] = {}
    <3>1. table = "tcp" /\ Family[t] = "tcp6" /\ ~TableRead(t)
      BY <1>5, <2>2 DEF TableRead, AfterTable
    <3> QED BY <1>5, <3>1 DEF LoopsInv
  <2> QED BY <2>1, <2>2 DEF LoopsInv
<1>6. ASSUME NEW table \in {"tcp", "tcp6"}, ReadTable(table) PROVE LoopsInv'
  BY <1>5, <1>6 DEF ReadTable, Reading
<1>7. ASSUME NEW table \in {"tcp", "tcp6"}, ReadTableFails(table) PROVE LoopsInv'
  BY <1>5, <1>7 DEF ReadTableFails, Reading, tables
<1>8. CASE OpenProc \/ OpenProcFails
  BY <1>8 DEF OpenProc, OpenProcFails, Reading, tables, loops, LoopsInv, TableRead
<1>9. ASSUME NEW p \in Pids, EnterProcess(p) PROVE LoopsInv'
  BY <1>9 DEF EnterProcess, AtProcess, Reading, tables, LoopsInv, TableRead
<1>10. ASSUME NEW p \in Pids, EnterProcessFails(p) \/ SkipProcess(p) PROVE LoopsInv'
  BY <1>1, <1>10 DEF EnterProcessFails, SkipProcess, AtProcess, Reading, tables
<1>11. ASSUME NEW p \in Pids, NEW i \in Inodes, TakeLink(p, i) \/ LinkFails(p, i) PROVE LoopsInv'
  <2>1. pc = "procs" /\ pc' = "procs"
    BY <1>11 DEF TakeLink, LinkFails, Reading, LoopsInv
  <2> QED BY <1>11, <2>1 DEF TakeLink, LinkFails, Reading, tables, LoopsInv, TableRead
<1>12. ASSUME NEW p \in Pids, TakeStatus(p) \/ StatusFails(p) PROVE LoopsInv'
  <2>1. pc = "procs" /\ pc' = "procs" /\ UNCHANGED <<sockets, current>> /\ found' = {}
    BY <1>12 DEF TakeStatus, StatusFails, Attribute, Reading, LoopsInv
  <2> QED BY <2>1 DEF LoopsInv, TableRead
<1>13. ASSUME NEW p \in Pids, LeaveProcess(p) PROVE LoopsInv'
  <2>1. pc = "procs" /\ pc' = "procs"
    BY <1>13 DEF LeaveProcess, Reading, LoopsInv
  <2> QED BY <1>13, <2>1 DEF LeaveProcess, Reading, tables, LoopsInv, TableRead
<1>14. CASE EndSnapshot
  BY <1>14 DEF EndSnapshot, LoopsInv, TableRead, NoRows
<1>15. CASE UNCHANGED vars
  BY <1>1, <1>15 DEF vars, tables, loops
<1> QED BY <1>2, <1>3, <1>4, <1>6, <1>7, <1>8, <1>9, <1>10, <1>11, <1>12, <1>13, <1>14, <1>15 DEF Next, ResolverStep

-----------------------------------------------------------------------------
(* The refinement.                                                         *)

Covers(s, f) ==
  /\ f.listed \subseteq s.listed /\ f.unlisted \subseteq s.unlisted
  /\ f.held \subseteq s.held /\ f.unheld \subseteq s.unheld
  /\ f.unread \subseteq s.unread /\ f.missed \subseteq s.missed /\ f.nameless \subseteq s.nameless

RowsFollow(s) ==
  \A t \in Tuples : TableRead(t) =>
    /\ sockets[t] = {} => t \in s.unlisted \cup s.unread
    /\ \A r \in sockets[t] : [at |-> t, inode |-> r.inode, uid |-> r.uid] \in s.listed

ProcsFollow(s) ==
  \A i \in Inodes : \A r \in procs[i] :
    /\ [inode |-> i, pid |-> r.pid] \in s.held /\ r.pid \in Readable
    /\ r.uid = UidOf[r.pid] \/ (r.uid = 0 /\ r.pid \in s.nameless)

LinksFollow(s) == \A p \in current, i \in found : [inode |-> i, pid |-> p] \in s.held

\* A socket still wanted was not found in the processes that have been left.
WantedFollow(s) ==
  /\ \A t \in Tuples : \A r \in sockets[t] : procs[r.inode] = {} => r.inode \in wanted
  /\ pc = "procs" =>
       \A i \in wanted, p \in Readable \ unvisited :
         Mapping!NotFound(i, p, s) \/ (p \in current /\ i \in pending \cup found)

ReadSoFar(s) == RowsFollow(s) /\ ProcsFollow(s) /\ LinksFollow(s) /\ WantedFollow(s)

\* The inductive invariant: what has been read follows from the facts seen
\* so far, and the facts of now are among them.
SnapshotFollows ==
  pc # "idle" =>
    /\ \E t \in Tuples : asked = {t}
    /\ answer = {}
    /\ ReadSoFar(seen)
    /\ Covers(seen, Mapping!Facts)

IInv == TypeOK /\ SocketsInv /\ LoopsInv /\ SnapshotFollows

LEMMA WithCovers ==
  ASSUME NEW s \in Mapping!FactSets
  PROVE  Covers(Mapping!With(s, Mapping!Facts), s) /\ Covers(Mapping!With(s, Mapping!Facts), Mapping!Facts)
BY DEF Covers, Mapping!With, Mapping!Facts, Mapping!FactSets

LEMMA CoversSelf == \A s : Covers(s, s)
BY DEF Covers

\* What has been read goes on following when more is seen.
LEMMA FollowsMonotone ==
  ASSUME NEW s, NEW f, Covers(s, f), ReadSoFar(f)
  PROVE  ReadSoFar(s)
<1>1. RowsFollow(s)
  BY DEF RowsFollow, Covers, ReadSoFar
<1>2. ProcsFollow(s)
  BY DEF ProcsFollow, Covers, ReadSoFar
<1>3. LinksFollow(s)
  BY DEF LinksFollow, Covers, ReadSoFar
<1>4. \A i, p : Mapping!NotFound(i, p, f) => Mapping!NotFound(i, p, s)
  BY DEF Covers, Mapping!NotFound
<1>5. WantedFollow(s)
  BY <1>4 DEF WantedFollow, ReadSoFar
<1> QED BY <1>1, <1>2, <1>3, <1>5 DEF ReadSoFar

\* What the facts of now say of the tables and the descriptors.
LEMMA InFacts ==
  ASSUME NEW t \in Tuples
  PROVE  /\ \A i \in Listed(t) : [at |-> t, inode |-> i, uid |-> owner[i]] \in Mapping!Facts.listed
         /\ Listed(t) = {} => t \in Mapping!Facts.unlisted
<1>1. \A i \in [u \in Tuples |-> Listed(u)][t] :
        [at |-> t, inode |-> i, uid |-> owner[i]] \in
          {[at |-> t, inode |-> j, uid |-> owner[j]] : j \in [u \in Tuples |-> Listed(u)][t]}
  OBVIOUS
<1> QED BY <1>1 DEF Mapping!Facts

LEMMA HeldInFacts ==
  ASSUME NEW i \in Inodes, NEW p \in Pids
  PROVE  /\ p \in held[i] => [inode |-> i, pid |-> p] \in Mapping!Facts.held
         /\ p \notin held[i] => [inode |-> i, pid |-> p] \in Mapping!Facts.unheld
BY DEF Mapping!Facts, Mapping!Descriptors

UnheldNow(i, p) == [inode |-> i, pid |-> p] \in Mapping!Facts.unheld

LEMMA UnheldIsSeen == \A i \in Inodes, p \in Pids : p \notin held[i] => UnheldNow(i, p)
BY DEF Mapping!Facts, Mapping!Descriptors, UnheldNow

\* Facts are of the machine only.
LEMMA FactsUnchanged == UNCHANGED machine => (Mapping!Facts)' = Mapping!Facts
<1> SUFFICES ASSUME UNCHANGED machine PROVE (Mapping!Facts)' = Mapping!Facts
  OBVIOUS
<1>1. established' = established /\ mapped' = mapped /\ held' = held /\ owner' = owner
  BY DEF machine
<1> QED BY <1>1 DEF Mapping!Facts, Listed

\* Whatever ends on the machine is seen.
LEMMA ObservedCovers ==
  ASSUME TypeOK, seen' = Mapping!With(seen, (Mapping!Facts)')
  PROVE  Covers(seen', seen) /\ Covers(seen', (Mapping!Facts)')
<1>1. seen \in Mapping!FactSets
  BY DEF TypeOK
<1> QED BY <1>1 DEF Covers, Mapping!With, Mapping!Facts, Mapping!FactSets

LEMMA MachineKeepsFollows ==
  ASSUME IInv, MachineStep PROVE SnapshotFollows'
<1>1. MachineOK' /\ Unobserved
  BY MachineStepObserved DEF IInv
<1>2. UNCHANGED <<pc, asked, sockets, procs, wanted, unvisited, current, found>> /\ answer' = {}
      /\ pending' = {i \in pending : current \subseteq held'[i]}
  BY <1>1 DEF Unobserved, tables
<1>3. CASE pc = "idle"
  BY <1>2, <1>3 DEF SnapshotFollows
<1>4. CASE pc # "idle"
  <2>1. seen' = Mapping!With(seen, (Mapping!Facts)')
    BY <1>1, <1>4 DEF Unobserved
  <2>2. Covers(seen', seen) /\ Covers(seen', (Mapping!Facts)')
    BY <2>1, ObservedCovers DEF IInv
  <2>3. ReadSoFar(seen) /\ \E t \in Tuples : asked = {t}
    BY <1>4 DEF IInv, SnapshotFollows
  <2>4. ReadSoFar(seen')
    BY <2>2, <2>3, FollowsMonotone
  <2>5. RowsFollow(seen)' /\ ProcsFollow(seen)' /\ LinksFollow(seen)'
    BY <1>2, <2>4 DEF ReadSoFar, RowsFollow, ProcsFollow, LinksFollow, TableRead
  <2>6. ASSUME NEW i \in wanted, NEW p \in Readable \ unvisited, p \in current, i \in pending,
               i \notin pending'
        PROVE  Mapping!NotFound(i, p, seen')
    <3>1. i \in Inodes /\ p \in Pids
      BY TypesSplit DEF IInv, LocalsOK
    <3>2. PICK q \in current : q \notin held'[i]
      BY <1>2, <2>6
    <3>3. q = p
      BY <2>6 DEF IInv, LoopsInv
    <3>4. (p \notin held[i] => UnheldNow(i, p))'
      BY <3>1, UnheldIsSeen DEF UnheldNow, Mapping!Facts, Mapping!Descriptors
    <3>5. [inode |-> i, pid |-> p] \in (Mapping!Facts)'.unheld
      BY <3>2, <3>3, <3>4 DEF UnheldNow
    <3> QED BY <2>2, <3>5 DEF Covers, Mapping!NotFound
  <2>7. WantedFollow(seen)'
    <3>1. WantedFollow(seen')
      BY <2>4 DEF ReadSoFar
    <3>2. ASSUME NEW i \in wanted, NEW p \in Readable \ unvisited, pc = "procs"
          PROVE  Mapping!NotFound(i, p, seen') \/ (p \in current /\ i \in pending' \cup found)
      BY <2>6, <3>1, <3>2 DEF WantedFollow
    <3> QED BY <1>2, <3>1, <3>2 DEF WantedFollow, Mapping!NotFound
  <2> QED BY <1>2, <1>4, <2>2, <2>3, <2>5, <2>7 DEF SnapshotFollows, ReadSoFar
<1> QED BY <1>3, <1>4

LEMMA BeginFollows ==
  ASSUME IInv, NEW t \in Tuples, BeginSnapshot(t) PROVE SnapshotFollows'
<1>1. pc' = "tcp" /\ asked' = {t} /\ answer' = {} /\ procs' = NoProcs /\ current' = {}
      /\ \A u \in Tuples : sockets'[u] = {}
  BY DEF BeginSnapshot, tables, loops, IInv, LoopsInv, TableRead
<1>2. RowsFollow(seen)'
  BY <1>1 DEF RowsFollow, TableRead
<1>3. ProcsFollow(seen)'
  BY <1>1 DEF ProcsFollow, NoProcs
<1>4. LinksFollow(seen)' /\ WantedFollow(seen)'
  BY <1>1 DEF LinksFollow, WantedFollow
<1>5. seen' = Mapping!Facts /\ (Mapping!Facts)' = Mapping!Facts
  BY FactsUnchanged DEF BeginSnapshot
<1>6. Covers(seen', (Mapping!Facts)')
  BY <1>5, CoversSelf
<1> QED BY <1>1, <1>2, <1>3, <1>4, <1>6 DEF SnapshotFollows, ReadSoFar

\* It remains to be shown of a read that what it adds follows.
LEMMA ReadingFollows ==
  ASSUME IInv, pc # "idle", NEW next, Reading(next), next # "idle", Covers(seen', seen), ReadSoFar(seen)'
  PROVE  SnapshotFollows'
<1>1. Covers(seen, Mapping!Facts) /\ answer = {} /\ \E t \in Tuples : asked = {t}
  BY DEF IInv, SnapshotFollows
<1>2. (Mapping!Facts)' = Mapping!Facts /\ UNCHANGED <<asked, answer>> /\ pc' # "idle"
  BY FactsUnchanged DEF Reading
<1>3. Covers(seen', (Mapping!Facts)')
  BY <1>1, <1>2 DEF Covers
<1> QED BY <1>1, <1>2, <1>3 DEF SnapshotFollows

\* After a table, read or not.
LEMMA TableFollows ==
  ASSUME IInv, NEW table \in {"tcp", "tcp6"}, pc = table, Reading(AfterTable(table)), UNCHANGED <<procs, loops>>,
         Covers(seen', seen), wanted \subseteq wanted',
         \A t \in Tuples : Family[t] # table => sockets'[t] = sockets[t],
         \A t \in Tuples : Family[t] = table =>
           /\ sockets'[t] = {} => t \in seen'.unlisted \cup seen'.unread
           /\ \A r \in sockets'[t] : [at |-> t, inode |-> r.inode, uid |-> r.uid] \in seen'.listed
                                     /\ r.inode \in wanted'
  PROVE  SnapshotFollows'
<1>1. pc # "idle" /\ pc' \in {"tcp6", "proc"} /\ pc' = AfterTable(table) /\ AfterTable(table) # "idle"
  BY DEF AfterTable, Reading
<1>2. ReadSoFar(seen)
  BY <1>1 DEF IInv, SnapshotFollows
<1>3. ReadSoFar(seen')
  BY <1>2, FollowsMonotone
<1>4. UNCHANGED <<procs, current, found>>
  BY DEF loops
<1>5. RowsFollow(seen)'
  <2> SUFFICES ASSUME NEW t \in Tuples, TableRead(t)'
               PROVE  /\ sockets'[t] = {} => t \in seen'.unlisted \cup seen'.unread
                      /\ \A r \in sockets'[t] : [at |-> t, inode |-> r.inode, uid |-> r.uid] \in seen'.listed
    BY DEF RowsFollow
  <2>1. CASE Family[t] = table
    BY <2>1
  <2>2. CASE Family[t] # table
    <3>1. TableRead(t)
      BY <1>1, <2>2 DEF TableRead, AfterTable
    <3> QED BY <1>3, <2>2, <3>1 DEF RowsFollow, ReadSoFar
  <2> QED BY <2>1, <2>2
<1>6. ProcsFollow(seen)' /\ LinksFollow(seen)'
  BY <1>3, <1>4 DEF ProcsFollow, LinksFollow, ReadSoFar
<1>7. WantedFollow(seen)'
  <2>1. ASSUME NEW t \in Tuples, NEW r \in sockets'[t], procs[r.inode] = {} PROVE r.inode \in wanted'
    <3>1. CASE Family[t] = table
      BY <2>1, <3>1
    <3>2. CASE Family[t] # table
      <4>1. r \in sockets[t]
        BY <2>1, <3>2
      <4> QED BY <1>2, <2>1, <4>1 DEF WantedFollow, ReadSoFar
    <3> QED BY <3>1, <3>2
  <2> QED BY <1>1, <1>4, <2>1 DEF WantedFollow
<1> QED BY <1>1, <1>5, <1>6, <1>7, ReadingFollows DEF ReadSoFar

LEMMA ReadTableFollows ==
  ASSUME IInv, NEW table \in {"tcp", "tcp6"}, ReadTable(table) PROVE SnapshotFollows'
<1>1. pc = table /\ pc # "idle" /\ UNCHANGED <<procs, loops, seen>> /\ Reading(AfterTable(table))
      /\ wanted' = wanted \cup UNION {InodesIn(table, t) : t \in Tuples}
  BY DEF ReadTable, history
<1>2. Covers(seen, Mapping!Facts)
  BY <1>1 DEF IInv, SnapshotFollows
<1>3. ASSUME NEW t \in Tuples, Family[t] = table
      PROVE  /\ sockets'[t] = {} => t \in seen.unlisted
             /\ \A r \in sockets'[t] : [at |-> t, inode |-> r.inode, uid |-> r.uid] \in seen.listed
                                       /\ r.inode \in wanted'
  <2>1. sockets'[t] = Rows(t)
    BY <1>3 DEF ReadTable
  <2>2. sockets'[t] = {} => Listed(t) = {}
    <3>1. ASSUME NEW i \in Listed(t) PROVE [inode |-> i, uid |-> owner[i]] \in Rows(t)
      BY DEF Rows
    <3> QED BY <2>1, <3>1
  <2>3. ASSUME NEW r \in sockets'[t]
        PROVE  [at |-> t, inode |-> r.inode, uid |-> r.uid] \in Mapping!Facts.listed /\ r.inode \in wanted'
    <3>1. PICK i \in Listed(t) : r = [inode |-> i, uid |-> owner[i]]
      BY <2>1 DEF Rows
    <3>2. [at |-> t, inode |-> i, uid |-> owner[i]] \in Mapping!Facts.listed
      BY InFacts
    <3>3. i \in InodesIn(table, t)
      BY <1>3 DEF InodesIn, Listed
    <3> QED BY <1>1, <3>1, <3>2, <3>3
  <2> QED BY <1>2, <2>2, <2>3, InFacts DEF Covers
<1>4. \A t \in Tuples : Family[t] # table => sockets'[t] = sockets[t]
  BY DEF ReadTable
<1>5. Covers(seen', seen)
  BY <1>1, CoversSelf
<1> QED BY <1>1, <1>3, <1>4, <1>5, TableFollows

LEMMA ReadTableFailsFollows ==
  ASSUME IInv, NEW table \in {"tcp", "tcp6"}, ReadTableFails(table) PROVE SnapshotFollows'
<1> DEFINE lost == {t \in Tuples : Family[t] = table /\ Listed(t) # {}}
<1>1. pc = table /\ pc # "idle" /\ UNCHANGED <<sockets, wanted, procs, loops>> /\ Reading(AfterTable(table))
      /\ seen' = [seen EXCEPT !.unread = @ \cup lost]
  BY DEF ReadTableFails, tables
<1>2. seen \in Mapping!FactSets /\ Covers(seen, Mapping!Facts)
  BY <1>1 DEF IInv, TypeOK, SnapshotFollows
<1>3. Covers(seen', seen) /\ seen'.unread = seen.unread \cup lost /\ seen'.unlisted = seen.unlisted
  BY <1>1, <1>2 DEF Covers, Mapping!FactSets
<1>4. ASSUME NEW t \in Tuples, Family[t] = table
      PROVE  sockets'[t] = {} /\ t \in seen'.unlisted \cup seen'.unread
  <2>1. ~TableRead(t)
    BY <1>1, <1>4 DEF TableRead
  <2>2. sockets'[t] = {}
    BY <1>1, <2>1 DEF IInv, LoopsInv
  <2> QED BY <1>2, <1>3, <1>4, <2>2, InFacts DEF Covers
<1> QED BY <1>1, <1>3, <1>4, TableFollows

\* Of what is not read, each process this user may look into was without it, or is noted.
LEMMA MissedIsNoted ==
  ASSUME IInv, pc # "idle", NEW D \in SUBSET Mapping!Descriptors, Missed(D)
  PROVE  /\ Covers(seen', seen)
         /\ \A i \in Inodes, p \in Readable : [inode |-> i, pid |-> p] \in D => Mapping!NotFound(i, p, seen')
<1> DEFINE lost == {d \in D : d.pid \in held[d.inode] \cap Readable}
<1>1. seen \in Mapping!FactSets /\ Covers(seen, Mapping!Facts)
  BY DEF IInv, TypeOK, SnapshotFollows
<1>2. seen' = [seen EXCEPT !.missed = @ \cup lost]
  BY DEF Missed
<1>3. Covers(seen', seen) /\ seen'.missed = seen.missed \cup lost /\ seen'.unheld = seen.unheld
  BY <1>1, <1>2 DEF Covers, Mapping!FactSets
<1>4. ASSUME NEW i \in Inodes, NEW p \in Readable, [inode |-> i, pid |-> p] \in D
      PROVE  Mapping!NotFound(i, p, seen')
  <2>1. CASE p \in held[i]
    BY <1>3, <1>4, <2>1 DEF Mapping!NotFound
  <2>2. CASE p \notin held[i]
    <3>1. [inode |-> i, pid |-> p] \in Mapping!Facts.unheld
      BY <2>2, HeldInFacts
    <3> QED BY <1>1, <1>3, <3>1 DEF Mapping!NotFound, Covers
  <2> QED BY <2>1, <2>2
<1> QED BY <1>3, <1>4

LEMMA UnheldNotFound ==
  ASSUME IInv, pc # "idle", NEW i \in Inodes, NEW p \in Pids, p \notin held[i]
  PROVE  Mapping!NotFound(i, p, seen)
<1>1. Covers(seen, Mapping!Facts)
  BY DEF IInv, SnapshotFollows
<1>2. [inode |-> i, pid |-> p] \in Mapping!Facts.unheld
  BY HeldInFacts
<1> QED BY <1>1, <1>2 DEF Mapping!NotFound, Covers

\* A read of read_procs that adds to no table.
LEMMA WalkFollows ==
  ASSUME IInv, pc \in {"proc", "procs"}, Reading("procs"), UNCHANGED tables, Covers(seen', seen),
         \A p \in current', i \in found' : [inode |-> i, pid |-> p] \in seen'.held,
         \A i \in wanted, p \in Readable \ unvisited' :
           Mapping!NotFound(i, p, seen') \/ (p \in current' /\ i \in pending' \cup found')
  PROVE  SnapshotFollows'
<1>1. pc # "idle" /\ pc' = "procs" /\ UNCHANGED <<sockets, procs, wanted>>
  BY DEF Reading, tables
<1>2. ReadSoFar(seen')
  BY <1>1, FollowsMonotone DEF IInv, SnapshotFollows
<1>3. RowsFollow(seen)' /\ ProcsFollow(seen)'
  BY <1>1, <1>2 DEF RowsFollow, ProcsFollow, TableRead, ReadSoFar
<1>4. LinksFollow(seen)'
  BY DEF LinksFollow
<1>5. WantedFollow(seen)'
  BY <1>1, <1>2 DEF WantedFollow, ReadSoFar, Mapping!NotFound
<1> QED BY <1>1, <1>3, <1>4, <1>5, ReadingFollows DEF ReadSoFar

\* What is known of a wanted socket while read_procs is at work.
LEMMA SoFar ==
  ASSUME IInv, pc = "procs", NEW s, Covers(s, seen)
  PROVE  /\ \A i \in wanted, p \in Readable \ unvisited :
              Mapping!NotFound(i, p, s) \/ (p \in current /\ i \in pending \cup found)
         /\ \A p \in current, i \in found : [inode |-> i, pid |-> p] \in s.held
<1>1. ReadSoFar(seen)
  BY DEF IInv, SnapshotFollows
<1>2. ReadSoFar(s)
  BY <1>1, FollowsMonotone
<1> QED BY <1>2 DEF ReadSoFar, WantedFollow, LinksFollow

LEMMA OpenProcFollows ==
  ASSUME IInv, OpenProc \/ OpenProcFails PROVE SnapshotFollows'
<1>1. pc = "proc" /\ pc # "idle" /\ Reading("procs") /\ UNCHANGED <<tables, current, pending, found>>
      /\ current = {}
  BY DEF OpenProc, OpenProcFails, loops, IInv, LoopsInv
<1>2. CASE OpenProc
  <2>1. Covers(seen', seen) /\ unvisited' = Pids
    BY <1>2, CoversSelf DEF OpenProc, history
  <2> QED BY <1>1, <2>1, WalkFollows
<1>3. CASE OpenProcFails
  <2>1. /\ Covers(seen', seen)
        /\ \A i \in Inodes, p \in Readable :
             [inode |-> i, pid |-> p] \in Mapping!Descriptors => Mapping!NotFound(i, p, seen')
    BY <1>1, <1>3, MissedIsNoted DEF OpenProcFails
  <2>2. \A i \in wanted, p \in Readable : [inode |-> i, pid |-> p] \in Mapping!Descriptors /\ i \in Inodes
    BY TypesSplit DEF IInv, LocalsOK, Mapping!Descriptors
  <2> QED BY <1>1, <2>1, <2>2, WalkFollows
<1> QED BY <1>2, <1>3

LEMMA EnterProcessFollows ==
  ASSUME IInv, NEW p \in Pids, EnterProcess(p) \/ SkipProcess(p) \/ EnterProcessFails(p)
  PROVE  SnapshotFollows'
<1>1. pc = "procs" /\ pc # "idle" /\ current = {} /\ found = {} /\ Reading("procs") /\ UNCHANGED <<tables, found>>
      /\ unvisited' = unvisited \ {p}
  BY DEF EnterProcess, SkipProcess, EnterProcessFails, AtProcess, IInv, LoopsInv
<1>2. wanted \subseteq Inodes
  BY TypesSplit DEF IInv, LocalsOK
<1>3. ASSUME Covers(seen', seen),
             \A i \in wanted : p \in Readable =>
               Mapping!NotFound(i, p, seen') \/ (p \in current' /\ i \in pending')
      PROVE  SnapshotFollows'
  <2>1. \A i \in wanted, q \in Readable \ unvisited : Mapping!NotFound(i, q, seen')
    BY <1>1, <1>3, SoFar
  <2> QED BY <1>1, <1>3, <2>1, WalkFollows
<1>4. CASE EnterProcess(p)
  <2>1. seen' = seen /\ current' = {p} /\ pending' = {i \in Inodes : p \in held[i]}
    BY <1>4 DEF EnterProcess, history
  <2>2. \A i \in Inodes : i \notin pending' => Mapping!NotFound(i, p, seen)
    BY <1>1, <2>1, UnheldNotFound
  <2> QED BY <1>2, <1>3, <2>1, <2>2, CoversSelf
<1>5. CASE SkipProcess(p)
  <2>1. seen' = seen /\ (p \in Readable => p \notin running)
    BY <1>5 DEF SkipProcess, history
  <2>2. p \in Readable => \A i \in Inodes : p \notin held[i]
    BY <2>1 DEF IInv, SocketsInv
  <2>3. p \in Readable => \A i \in Inodes : Mapping!NotFound(i, p, seen)
    BY <1>1, <2>2, UnheldNotFound
  <2> QED BY <1>2, <1>3, <2>1, <2>3, CoversSelf
<1>6. CASE EnterProcessFails(p)
  <2> DEFINE D == {d \in Mapping!Descriptors : d.pid = p}
  <2>1. D \in SUBSET Mapping!Descriptors /\ Missed(D)
    BY <1>6 DEF EnterProcessFails
  <2>2. \A i \in Inodes : [inode |-> i, pid |-> p] \in D
    BY DEF Mapping!Descriptors
  <2>3. /\ Covers(seen', seen)
        /\ \A i \in Inodes, q \in Readable : [inode |-> i, pid |-> q] \in D => Mapping!NotFound(i, q, seen')
    <3> HIDE DEF D
    <3> QED BY <1>1, <2>1, MissedIsNoted
  <2>4. p \in Readable => \A i \in Inodes : Mapping!NotFound(i, p, seen')
    BY <2>2, <2>3
  <2> QED BY <1>2, <1>3, <2>3, <2>4
<1> QED BY <1>4, <1>5, <1>6

LEMMA LinkFollows ==
  ASSUME IInv, NEW p \in Pids, NEW i \in Inodes, TakeLink(p, i) \/ LinkFails(p, i)
  PROVE  SnapshotFollows'
<1>1. current = {p} /\ found = {} /\ pc = "procs" /\ pc # "idle" /\ Reading("procs")
      /\ UNCHANGED <<tables, unvisited, current>> /\ pending' = pending \ {i}
  BY DEF TakeLink, LinkFails, IInv, LoopsInv
<1>2. Covers(seen, Mapping!Facts) /\ wanted \subseteq Inodes /\ p \in Readable
  BY <1>1, TypesSplit DEF IInv, SnapshotFollows, LocalsOK, LoopsInv
<1>3. CASE TakeLink(p, i)
  <2>1. seen' = seen /\ found' = {i} /\ p \in held[i]
    BY <1>3 DEF TakeLink, history
  <2>2. Covers(seen', seen) /\ [inode |-> i, pid |-> p] \in seen'.held
    BY <1>2, <2>1, HeldInFacts, CoversSelf DEF Covers
  <2>3. \A j \in wanted, q \in Readable \ unvisited :
          Mapping!NotFound(j, q, seen') \/ (q \in current /\ j \in pending \cup found)
    BY <1>1, <2>2, SoFar
  <2>4. \A j \in wanted, q \in Readable \ unvisited' :
          Mapping!NotFound(j, q, seen') \/ (q \in current' /\ j \in pending' \cup found')
    BY <1>1, <2>1, <2>3
  <2> QED BY <1>1, <2>1, <2>2, <2>4, WalkFollows
<1>4. CASE LinkFails(p, i)
  <2> DEFINE D == {[inode |-> i, pid |-> p]}
  <2>1. D \in SUBSET Mapping!Descriptors /\ Missed(D) /\ found' = {}
    BY <1>1, <1>4 DEF LinkFails, Mapping!Descriptors
  <2>2. Covers(seen', seen) /\ Mapping!NotFound(i, p, seen')
    BY <1>1, <1>2, <2>1, MissedIsNoted
  <2>3. \A j \in wanted, q \in Readable \ unvisited :
          Mapping!NotFound(j, q, seen') \/ (q \in current /\ j \in pending \cup found)
    BY <1>1, <2>2, SoFar
  <2>4. \A j \in wanted, q \in Readable \ unvisited' :
          Mapping!NotFound(j, q, seen') \/ (q \in current' /\ j \in pending' \cup found')
    BY <1>1, <2>1, <2>2, <2>3
  <2> QED BY <1>1, <2>1, <2>2, <2>4, WalkFollows
<1> QED BY <1>3, <1>4

LEMMA AttributeFollows ==
  ASSUME IInv, NEW p \in Pids, NEW uid, Attribute(p, uid), Covers(seen', seen),
         uid = UidOf[p] \/ (uid = 0 /\ p \in seen'.nameless)
  PROVE  SnapshotFollows'
<1>1. current = {p} /\ pc = "procs" /\ pc # "idle" /\ Reading("procs") /\ found' = {} /\ wanted' = wanted \ found
      /\ UNCHANGED <<sockets, unvisited, current, pending>> /\ p \in Readable /\ pc' = "procs"
  BY DEF Attribute, Reading, IInv, LoopsInv
<1>2. ReadSoFar(seen')
  BY <1>1, FollowsMonotone DEF IInv, SnapshotFollows
<1>3. RowsFollow(seen)'
  BY <1>1, <1>2 DEF RowsFollow, TableRead, ReadSoFar
<1>4. LinksFollow(seen)'
  BY <1>1 DEF LinksFollow
<1>5. ProcsFollow(seen)'
  <2> SUFFICES ASSUME NEW i \in Inodes, NEW r \in procs'[i]
               PROVE  /\ [inode |-> i, pid |-> r.pid] \in seen'.held /\ r.pid \in Readable
                      /\ r.uid = UidOf[r.pid] \/ (r.uid = 0 /\ r.pid \in seen'.nameless)
    BY DEF ProcsFollow
  <2>1. CASE i \in found
    <3>1. r = [pid |-> p, uid |-> uid]
      BY <2>1 DEF Attribute
    <3>2. [inode |-> i, pid |-> p] \in seen'.held
      BY <1>1, <2>1, SoFar
    <3> QED BY <1>1, <3>1, <3>2
  <2>2. CASE i \notin found
    <3>1. r \in procs[i]
      BY <2>2 DEF Attribute
    <3> QED BY <1>2, <3>1 DEF ProcsFollow, ReadSoFar
  <2> QED BY <2>1, <2>2
<1>6. WantedFollow(seen)'
  <2>1. ASSUME NEW t \in Tuples, NEW r \in sockets[t], procs'[r.inode] = {} PROVE r.inode \in wanted'
    <3>1. r.inode \in Inodes
      BY TypesSplit DEF IInv, LocalsOK, RowType
    <3>2. r.inode \notin found
      BY <2>1, <3>1 DEF Attribute
    <3>3. procs[r.inode] = {}
      BY <2>1, <3>1, <3>2 DEF Attribute
    <3> QED BY <1>1, <1>2, <3>2, <3>3 DEF WantedFollow, ReadSoFar
  <2>2. \A i \in wanted, q \in Readable \ unvisited :
          Mapping!NotFound(i, q, seen') \/ (q \in current /\ i \in pending \cup found)
    BY <1>1, SoFar
  <2>3. \A i \in wanted', q \in Readable \ unvisited' :
          Mapping!NotFound(i, q, seen') \/ (q \in current' /\ i \in pending' \cup found')
    BY <1>1, <2>2
  <2> QED BY <1>1, <2>1, <2>3 DEF WantedFollow, Mapping!NotFound
<1> QED BY <1>1, <1>3, <1>4, <1>5, <1>6, ReadingFollows DEF ReadSoFar

LEMMA StatusFollows ==
  ASSUME IInv, NEW p \in Pids, TakeStatus(p) \/ StatusFails(p) PROVE SnapshotFollows'
<1>1. CASE TakeStatus(p)
  <2>1. Attribute(p, UidOf[p]) /\ Covers(seen', seen)
    BY <1>1, CoversSelf DEF TakeStatus, history
  <2> QED BY <2>1, AttributeFollows
<1>2. CASE StatusFails(p)
  <2>1. seen \in Mapping!FactSets /\ seen' = [seen EXCEPT !.nameless = @ \cup {p}] /\ Attribute(p, 0)
    BY <1>2 DEF StatusFails, IInv, TypeOK
  <2>2. Covers(seen', seen) /\ p \in seen'.nameless
    BY <2>1 DEF Covers, Mapping!FactSets
  <2> QED BY <2>1, <2>2, AttributeFollows
<1> QED BY <1>1, <1>2

LEMMA LeaveProcessFollows ==
  ASSUME IInv, NEW p \in Pids, LeaveProcess(p) PROVE SnapshotFollows'
<1>1. current = {p} /\ found = {} /\ pending \cap wanted = {} /\ pc = "procs" /\ pc # "idle" /\ Reading("procs")
      /\ UNCHANGED <<tables, unvisited, found>> /\ current' = {} /\ seen' = seen
  BY DEF LeaveProcess, history, IInv, LoopsInv
<1>2. Covers(seen', seen)
  BY <1>1, CoversSelf
<1>3. \A i \in wanted, q \in Readable \ unvisited : Mapping!NotFound(i, q, seen')
  BY <1>1, <1>2, SoFar
<1> QED BY <1>1, <1>2, <1>3, WalkFollows

LEMMA InvariantPreserved == IInv /\ [Next]_vars => IInv'
<1> SUFFICES ASSUME IInv, [Next]_vars PROVE IInv'
  OBVIOUS
<1>0. TypeOK' /\ SocketsInv' /\ LoopsInv'
  BY TypesPreserved, SocketsPreserved, LoopsPreserved DEF IInv
<1>1. CASE MachineStep
  BY <1>0, <1>1, MachineKeepsFollows DEF IInv
<1>2. ASSUME UNCHANGED <<machine, pc, asked, tables, loops, history>>,
             pc = "idle" \/ UNCHANGED answer
      PROVE  SnapshotFollows'
  <2>1. (Mapping!Facts)' = Mapping!Facts
    BY <1>2, FactsUnchanged
  <2>2. UNCHANGED <<pc, asked, sockets, procs, wanted, unvisited, current, pending, found, seen>>
    BY <1>2 DEF tables, loops, history
  <2> QED BY <1>2, <2>1, <2>2 DEF IInv, SnapshotFollows, ReadSoFar, RowsFollow, ProcsFollow, LinksFollow,
        WantedFollow, Mapping!NotFound, TableRead
<1>3. ASSUME NEW t \in Tuples, ResolveFromCache(t) PROVE IInv'
  BY <1>0, <1>2, <1>3 DEF ResolveFromCache, IInv
<1>4. ASSUME NEW t \in Tuples, BeginSnapshot(t) PROVE IInv'
  BY <1>0, <1>4, BeginFollows DEF IInv
<1>5. ASSUME NEW table \in {"tcp", "tcp6"}, ReadTable(table) \/ ReadTableFails(table) PROVE IInv'
  BY <1>0, <1>5, ReadTableFollows, ReadTableFailsFollows DEF IInv
<1>6. CASE OpenProc \/ OpenProcFails
  BY <1>0, <1>6, OpenProcFollows DEF IInv
<1>7. ASSUME NEW p \in Pids, EnterProcess(p) \/ SkipProcess(p) \/ EnterProcessFails(p) PROVE IInv'
  BY <1>0, <1>7, EnterProcessFollows DEF IInv
<1>8. ASSUME NEW p \in Pids, NEW i \in Inodes, TakeLink(p, i) \/ LinkFails(p, i) PROVE IInv'
  BY <1>0, <1>8, LinkFollows DEF IInv
<1>9. ASSUME NEW p \in Pids, TakeStatus(p) \/ StatusFails(p) PROVE IInv'
  BY <1>0, <1>9, StatusFollows DEF IInv
<1>10. ASSUME NEW p \in Pids, LeaveProcess(p) PROVE IInv'
  BY <1>0, <1>10, LeaveProcessFollows DEF IInv
<1>11. CASE EndSnapshot
  BY <1>0, <1>11 DEF EndSnapshot, IInv, SnapshotFollows
<1>12. CASE UNCHANGED vars
  BY <1>0, <1>2, <1>12 DEF vars, IInv
<1> QED BY <1>1, <1>3, <1>4, <1>5, <1>6, <1>7, <1>8, <1>9, <1>10, <1>11, <1>12 DEF Next, ResolverStep

\* What the view of a complete snapshot says of each flow follows.
LEMMA ViewFollows ==
  ASSUME IInv, pc = "procs", current = {}, wanted = {} \/ unvisited = {}, NEW t \in Tuples
  PROVE  Mapping!Follows(Origin(sockets, procs, t), t, seen)
<1>1. LocalsOK
  BY TypesSplit DEF IInv
<1>2. RowsFollow(seen) /\ ProcsFollow(seen) /\ WantedFollow(seen) /\ TableRead(t)
  BY DEF IInv, SnapshotFollows, ReadSoFar, TableRead
<1>3. CASE sockets[t] = {}
  <2>1. t \in seen.unlisted \cup seen.unread
    BY <1>2, <1>3 DEF RowsFollow
  <2> QED BY <1>3, <2>1 DEF Origin, Unknown, Mapping!Follows
<1>4. CASE sockets[t] # {}
  <2> DEFINE row == CHOOSE r \in sockets[t] : TRUE
  <2>1. row \in sockets[t] /\ row \in RowType
    BY <1>1, <1>4 DEF LocalsOK
  <2>2. row.inode \in Inodes
    BY <2>1 DEF RowType
  <2> DEFINE l == [at |-> t, inode |-> row.inode, uid |-> row.uid]
  <2>3. l \in seen.listed
    BY <1>2, <2>1 DEF RowsFollow
  <2>4. CASE procs[row.inode] = {}
    <3>1. Origin(sockets, procs, t) = [type |-> "OtherUser", uid |-> row.uid]
      BY <1>4, <2>4 DEF Origin
    <3>2. row.inode \in wanted
      BY <1>2, <2>1, <2>4 DEF WantedFollow
    <3> HIDE DEF row
    <3>3. \A p \in Readable : Mapping!NotFound(row.inode, p, seen)
      BY <1>2, <3>2 DEF WantedFollow
    <3>4. l.at = t /\ l.uid = row.uid /\ l.inode = row.inode
      OBVIOUS
    <3> HIDE DEF l
    <3> QED BY <2>3, <3>1, <3>3, <3>4 DEF Mapping!Follows
  <2>5. CASE procs[row.inode] # {}
    <3> DEFINE proc == CHOOSE r \in procs[row.inode] : TRUE
    <3>1. proc \in procs[row.inode]
      BY <2>5
    <3>2. Origin(sockets, procs, t) = [type |-> "Local", pid |-> proc.pid, uid |-> proc.uid]
      BY <1>4, <2>5 DEF Origin
    <3>3. [inode |-> row.inode, pid |-> proc.pid] \in seen.held /\ proc.pid \in Readable
          /\ (proc.uid = UidOf[proc.pid] \/ (proc.uid = 0 /\ proc.pid \in seen.nameless))
      BY <1>2, <2>2, <3>1 DEF ProcsFollow
    <3> HIDE DEF row, proc
    <3>4. l.at = t /\ [inode |-> l.inode, pid |-> proc.pid] \in seen.held
      BY <3>3
    <3> QED BY <2>3, <3>2, <3>3, <3>4 DEF Mapping!Follows
  <2> QED BY <2>4, <2>5
<1> QED BY <1>3, <1>4

MappedListed == [t \in Tuples |-> Listed(t)]

LEMMA InitStructure == Init => SocketsInv /\ LoopsInv
BY DEF Init, SocketsInv, LoopsInv, NoRows, NoProcs

LEMMA InitRefines == Init => Mapping!Init
<1> SUFFICES ASSUME Init PROVE Mapping!Init
  OBVIOUS
<1>1. MappedListed = [t \in Tuples |-> {}]
  BY DEF Init, MappedListed, Listed, NoRows
<1>2. View = [t \in Tuples |-> [type |-> "Unknown"]]
  BY DEF Init, View, Origin, NoRows, Unknown
<1>3. held = [i \in Inodes |-> {}] /\ owner \in [Inodes -> Nat] /\ clock \in Nat
  BY DEF Init, NoProcs
<1>4. pc = "idle" /\ cache.taken = FALSE /\ cache.taken_at = 0 /\ answer = {} /\ seen = Mapping!NoFacts
  BY DEF Init
<1> QED BY <1>1, <1>2, <1>3, <1>4 DEF Mapping!Init, MappedListed

LEMMA FreshIsNotStale == TypeOK => (Mapping!Fresh <=> ~Stale)
<1> SUFFICES ASSUME TypeOK PROVE Mapping!Fresh <=> ~Stale
  OBVIOUS
<1>1. cache.taken_at \in Nat /\ clock \in Nat /\ CACHE_TTL \in Nat
  BY TypesSplit DEF MachineOK, CacheOK
<1>2. (clock < cache.taken_at + CACHE_TTL) <=> ~(clock - cache.taken_at >= CACHE_TTL)
  BY <1>1
<1> QED BY <1>2 DEF Mapping!Fresh, Stale

\* Every step of the resolver and of the machine is one of Attribution, or none.
LEMMA NextRefines == IInv /\ [Next]_vars => [Mapping!Next]_Mapping!vars
<1> SUFFICES ASSUME IInv, [Next]_vars PROVE [Mapping!Next]_Mapping!vars
  OBVIOUS
<1>a. TypeOK
  BY DEF IInv
<1>b. Mapping!Fresh <=> ~Stale
  BY <1>a, FreshIsNotStale
<1>c. ASSUME UNCHANGED machine
      PROVE  UNCHANGED Mapping!machine
  <2>1. UNCHANGED <<established, mapped, held, owner, clock>>
    BY <1>c DEF machine
  <2> QED BY <2>1 DEF Mapping!machine, Listed
<1>d. ASSUME UNCHANGED cache PROVE UNCHANGED View
  BY <1>d DEF View, Origin
<1>1. CASE MachineStep
  <2>1. Unobserved
    BY <1>1, <1>a, MachineStepObserved
  <2>2. UNCHANGED <<pc, cache, View>>
    BY <2>1, <1>d DEF Unobserved
  <2>3. Mapping!MachineStep
    BY <2>1, <2>2 DEF Mapping!MachineStep, Unobserved
  <2> QED BY <2>3 DEF Mapping!Next
<1>2. ASSUME NEW t \in Tuples, ResolveFromCache(t) PROVE Mapping!Next
  <2>1. UNCHANGED <<pc, cache, View, seen>> /\ UNCHANGED Mapping!machine /\ pc = "idle"
    BY <1>2, <1>c, <1>d DEF ResolveFromCache, history
  <2>2. Mapping!Fresh
    BY <1>2, <1>b DEF ResolveFromCache
  <2>3. Mapping!Either(View, t) = ResolveIn(cache.sockets, cache.procs, t)
    <3>1. CacheOK
      BY <1>a, TypesSplit
    <3> QED BY <3>1, EitherIsResolveIn DEF View, CacheOK
  <2>4. answer' = {[to |-> t, origin |-> Mapping!Either(View, t)]}
    BY <1>2, <2>3 DEF ResolveFromCache
  <2>5. Mapping!Answer(t)
    BY <2>1, <2>2, <2>4 DEF Mapping!Answer
  <2> QED BY <2>5 DEF Mapping!Next
<1>3. ASSUME NEW t \in Tuples, BeginSnapshot(t) PROVE Mapping!Next
  <2>1. UNCHANGED <<cache, View>> /\ UNCHANGED Mapping!machine
    BY <1>3, <1>c, <1>d DEF BeginSnapshot
  <2>2. pc = "idle" /\ pc' = "tcp" /\ seen' = Mapping!Facts /\ answer' = {} /\ ~Mapping!Fresh
    BY <1>3, <1>b DEF BeginSnapshot
  <2>3. Mapping!BeginRefresh
    BY <2>1, <2>2 DEF Mapping!BeginRefresh
  <2> QED BY <2>3 DEF Mapping!Next
<1>4. ASSUME NEW next, Reading(next), next # "idle", pc # "idle", UNCHANGED history PROVE UNCHANGED Mapping!vars
  <2>1. UNCHANGED <<cache, View, seen, answer>> /\ UNCHANGED Mapping!machine /\ pc' # "idle"
    BY <1>4, <1>c, <1>d DEF Reading, history
  <2> QED BY <1>4, <2>1 DEF Mapping!vars
<1>5. ASSUME NEW next, Reading(next), next # "idle", pc # "idle",
             \/ \E D : Missed(D)
             \/ \E S : seen' = [seen EXCEPT !.unread = @ \cup S]
             \/ \E S : seen' = [seen EXCEPT !.nameless = @ \cup S]
      PROVE  Mapping!ReadFails
  <2>1. UNCHANGED <<cache, View, answer>> /\ UNCHANGED Mapping!machine /\ pc' # "idle"
    BY <1>5, <1>c, <1>d DEF Reading
  <2>2. seen \in Mapping!FactSets
    BY <1>a DEF TypeOK
  <2> DEFINE Grown ==
        /\ seen.unread \subseteq seen'.unread /\ seen.missed \subseteq seen'.missed
        /\ seen.nameless \subseteq seen'.nameless
        /\ seen' = [seen EXCEPT !.unread = seen'.unread, !.missed = seen'.missed, !.nameless = seen'.nameless]
  <2>3. Grown
    <3>1. ASSUME NEW S, seen' = [seen EXCEPT !.unread = S], seen.unread \subseteq S PROVE Grown
      BY <2>2, <3>1 DEF Mapping!FactSets
    <3>2. ASSUME NEW S, seen' = [seen EXCEPT !.missed = S], seen.missed \subseteq S PROVE Grown
      BY <2>2, <3>2 DEF Mapping!FactSets
    <3>3. ASSUME NEW S, seen' = [seen EXCEPT !.nameless = S], seen.nameless \subseteq S PROVE Grown
      BY <2>2, <3>3 DEF Mapping!FactSets
    <3>4. CASE \E D : Missed(D)
      <4>1. PICK D : Missed(D)
        BY <3>4
      <4> DEFINE lost == {d \in D : d.pid \in held[d.inode] \cap Readable}
      <4>2. seen' = [seen EXCEPT !.missed = seen.missed \cup lost]
        BY <4>1 DEF Missed
      <4> HIDE DEF lost
      <4> QED BY <3>2, <4>2
    <3>5. CASE \E S : seen' = [seen EXCEPT !.unread = @ \cup S]
      <4>1. PICK S : seen' = [seen EXCEPT !.unread = @ \cup S]
        BY <3>5
      <4> QED BY <3>1, <4>1
    <3>6. CASE \E S : seen' = [seen EXCEPT !.nameless = @ \cup S]
      <4>1. PICK S : seen' = [seen EXCEPT !.nameless = @ \cup S]
        BY <3>6
      <4> QED BY <3>3, <4>1
    <3> QED BY <1>5, <3>4, <3>5, <3>6
  <2> QED BY <1>5, <2>1, <2>3 DEF Mapping!ReadFails
<1>20. Mapping!ReadFails => Mapping!Next
  BY DEF Mapping!Next
<1>p. current # {} => pc # "idle"
  BY DEF IInv, LoopsInv
<1>8. ASSUME NEW table \in {"tcp", "tcp6"}, ReadTable(table) PROVE UNCHANGED Mapping!vars
  BY <1>4, <1>8 DEF ReadTable, AfterTable
<1>10. ASSUME NEW table \in {"tcp", "tcp6"}, ReadTableFails(table) PROVE Mapping!ReadFails
  BY <1>5, <1>10 DEF ReadTableFails, AfterTable
<1>11. CASE OpenProc
  BY <1>4, <1>11 DEF OpenProc
<1>12. CASE OpenProcFails
  BY <1>5, <1>12, <1>20 DEF OpenProcFails
<1>13. ASSUME NEW p \in Pids, EnterProcess(p) \/ SkipProcess(p) PROVE UNCHANGED Mapping!vars
  BY <1>4, <1>13 DEF EnterProcess, SkipProcess, AtProcess
<1>14. ASSUME NEW p \in Pids, EnterProcessFails(p) PROVE Mapping!ReadFails
  BY <1>5, <1>14 DEF EnterProcessFails, AtProcess
<1>15. ASSUME NEW p \in Pids, NEW i \in Inodes, TakeLink(p, i) PROVE UNCHANGED Mapping!vars
  BY <1>4, <1>15, <1>p DEF TakeLink
<1>16. ASSUME NEW p \in Pids, NEW i \in Inodes, LinkFails(p, i) PROVE Mapping!ReadFails
  BY <1>5, <1>16, <1>p DEF LinkFails
<1>17. ASSUME NEW p \in Pids, TakeStatus(p) PROVE UNCHANGED Mapping!vars
  BY <1>4, <1>17, <1>p DEF TakeStatus, Attribute, history
<1>18. ASSUME NEW p \in Pids, StatusFails(p) PROVE Mapping!ReadFails
  BY <1>5, <1>18, <1>p DEF StatusFails, Attribute
<1>19. ASSUME NEW p \in Pids, LeaveProcess(p) PROVE UNCHANGED Mapping!vars
  BY <1>4, <1>19, <1>p DEF LeaveProcess
<1>7. CASE EndSnapshot
  <2>1. pc = "procs" /\ pc' = "idle" /\ cache' = Snapshot /\ seen' = Mapping!NoFacts
        /\ UNCHANGED Mapping!machine /\ current = {} /\ (wanted = {} \/ unvisited = {})
    BY <1>7, <1>c DEF EndSnapshot
  <2>2. PICK t \in Tuples : asked = {t}
    BY <2>1 DEF IInv, SnapshotFollows
  <2>3. View' = [u \in Tuples |-> Origin(sockets, procs, u)]
    BY <2>1 DEF View, Snapshot, Origin
  <2>4. cache'.taken = TRUE /\ cache'.taken_at = clock
    BY <2>1 DEF Snapshot
  <2>5. LocalsOK
    BY <1>a, TypesSplit
  <2>6. Mapping!Either(View', t) = ResolveIn(sockets, procs, t)
    BY <2>3, <2>5, EitherIsResolveIn DEF LocalsOK
  <2>7. answer' = {[to |-> t, origin |-> Mapping!Either(View', t)]}
    BY <1>7, <2>2, <2>6 DEF EndSnapshot
  <2>8. View' \in [Tuples -> Mapping!Origins]
    BY <2>3, <2>5, OriginType DEF LocalsOK
  <2>9. \A u \in Tuples : Mapping!Follows((View')[u], u, seen)
    BY <2>1, <2>3, ViewFollows
  <2>10. Mapping!EndRefresh(t)
    BY <2>1, <2>4, <2>7, <2>8, <2>9 DEF Mapping!EndRefresh
  <2> QED BY <2>10 DEF Mapping!Next
<1>9. CASE UNCHANGED vars
  <2>1. UNCHANGED <<machine, pc, cache, seen, answer>>
    BY <1>9 DEF vars, history
  <2>2. UNCHANGED View /\ UNCHANGED Mapping!machine
    BY <2>1, <1>c, <1>d
  <2> QED BY <2>1, <2>2 DEF Mapping!vars
<1> QED BY <1>1, <1>2, <1>3, <1>7, <1>8, <1>9, <1>10, <1>11, <1>12, <1>13, <1>14, <1>15, <1>16, <1>17, <1>18,
           <1>19, <1>20 DEF Next, ResolverStep

(* LinuxProcResolver implements Attribution: whatever the machine does     *)
(* between the reads of /proc, and whichever of them fail, every answer    *)
(* comes from a view younger than the TTL and follows from the facts and   *)
(* the failures of the snapshot's making (snapshot, read_sockets,          *)
(* read_procs, resolve).  An exited process may be answered as OtherUser   *)
(* or with uid 0, which is less than src/src/origin/mod.rs:23-25 promises. *)
THEOREM ResolverImplements == Spec => ImplementsAttribution
<1>1. Init => IInv /\ Mapping!Init
  BY InitTypes, InitStructure, InitRefines DEF IInv, SnapshotFollows, Init
<1>2. IInv /\ [Next]_vars => IInv'
  BY InvariantPreserved
<1>3. IInv /\ [Next]_vars => [Mapping!Next]_Mapping!vars
  BY NextRefines
<1> QED BY <1>1, <1>2, <1>3, PTL DEF Spec, ImplementsAttribution, Mapping!Spec

-----------------------------------------------------------------------------
(* Flows nothing happens to.                                               *)

\* Of a socket that has been looked for everywhere, the processes ps say who holds it.
Settled(i, ps) ==
  \/ held[i] \cap Readable = {} /\ ps[i] = {}
  \/ \E p \in held[i] \cap Readable : ps[i] = {[pid |-> p, uid |-> UidOf[p]]}

\* p is still to be visited, or its descriptor of socket i to come.
Ahead(p, i) == p \in unvisited \/ (p \in current /\ i \in pending \cup found)

\* So far: while it is wanted, every process that holds it is ahead.
SettledSoFar(i) ==
  /\ i \in found => current \subseteq held[i]
  /\ IF i \in wanted
     THEN procs[i] = {} /\ (pc = "procs" => \A p \in held[i] \cap Readable : Ahead(p, i))
     ELSE Settled(i, procs)

\* What the snapshots say of one flow.
FoundSoFar(t) ==
  TableRead(t) => sockets[t] = Rows(t) /\ \A i \in Listed(t) : SettledSoFar(i)

FoundBefore(t) ==
  pc = "idle" /\ cache.taken =>
    cache.sockets[t] = Rows(t) /\ \A i \in Listed(t) : Settled(i, cache.procs)

\* The inductive invariant: for a flow nothing happens to, the snapshot in the
\* making and the one in use say what is the case.
SteadyInv == \A t \in steady : FoundSoFar(t) /\ FoundBefore(t)

\* What stays of a flow that a step of the machine leaves alone.
Alone(t) ==
  /\ established'[t] = established[t]
  /\ \A i \in established[t] : held'[i] = held[i] /\ owner'[i] = owner[i]
  /\ Listed(t)' = Listed(t) /\ Rows(t)' = Rows(t)

LEMMA UndisturbedIsAlone ==
  ASSUME TypeOK, SocketsInv, MachineStep, NEW t \in Tuples \ Disturbed
  PROVE  Alone(t)
<1>0. MachineOK
  BY TypesSplit
<1>1. established'[t] = established[t] /\ \A i \in established[t] : held'[i] = held[i]
  BY DEF Disturbed
<1>2. \A i \in established[t] : i \in Inodes /\ i \in Nat /\ i <= opened /\ opened \in Nat
  BY <1>0 DEF MachineOK, SocketsInv, Inodes
<1>3. /\ owner' = owner /\ mapped' = mapped
      \/ \E u \in Tuples, p \in Pids : Open(u, p)
  BY DEF MachineStep, Tick, Disconnect, Share, Close, Exit
<1>4. \A i \in established[t] : owner'[i] = owner[i] /\ (i \in mapped' <=> i \in mapped)
  BY <1>0, <1>2, <1>3 DEF Open, MachineOK
<1>5. Listed(t)' = Listed(t)
  BY <1>1, <1>4 DEF Listed
<1>6. Rows(t)' = Rows(t)
  BY <1>4, <1>5 DEF Rows, Listed
<1> QED BY <1>1, <1>4, <1>5, <1>6 DEF Alone

LEMMA MachineKeepsSteady ==
  ASSUME TypeOK, SocketsInv, LoopsInv, SteadyInv, MachineStep PROVE SteadyInv'
<1>1. Unobserved
  BY MachineStepObserved
<1>2. /\ UNCHANGED <<pc, cache, sockets, procs, wanted, unvisited, current, found>>
      /\ steady' = steady \ Disturbed
      /\ pending' = {i \in pending : current \subseteq held'[i]}
  BY <1>1 DEF Unobserved, tables
<1>3. steady \subseteq Tuples
  BY TypesSplit DEF HistoryOK
<1>4. ASSUME NEW t \in steady' PROVE FoundSoFar(t)' /\ FoundBefore(t)'
  <2>1. t \in steady /\ t \in Tuples \ Disturbed
    BY <1>2, <1>3
  <2>2. Alone(t)
    BY <2>1, UndisturbedIsAlone
  <2>3. FoundSoFar(t) /\ FoundBefore(t)
    BY <2>1 DEF SteadyInv
  <2>4. \A i \in Listed(t) : held'[i] = held[i]
    BY <2>2 DEF Alone, Listed
  <2>5. ASSUME NEW i \in Listed(t), SettledSoFar(i) PROVE SettledSoFar(i)'
    <3>1. held'[i] = held[i]
      BY <2>4
    <3>2. \A p \in held[i] : Ahead(p, i) => Ahead(p, i)'
      BY <1>2, <3>1 DEF Ahead, LoopsInv
    <3> QED BY <1>2, <2>5, <3>1, <3>2 DEF SettledSoFar, Settled
  <2>6. FoundSoFar(t)'
    BY <1>2, <2>2, <2>3, <2>5 DEF FoundSoFar, TableRead, Alone
  <2>7. FoundBefore(t)'
    BY <1>2, <2>2, <2>3, <2>4 DEF FoundBefore, Settled, Alone
  <2> QED BY <2>6, <2>7
<1> QED BY <1>4 DEF SteadyInv

\* It remains to be shown of a read that what it leaves of a flow is settled so far.
LEMMA ReadingKeepsSteady ==
  ASSUME TypeOK, NEW next, Reading(next), next # "idle", steady' \subseteq Tuples,
         \A t \in steady' : TableRead(t)' => sockets'[t] = Rows(t) /\ \A i \in Listed(t) : SettledSoFar(i)'
  PROVE  SteadyInv'
<1>1. UNCHANGED <<established, mapped, held, owner>> /\ pc' # "idle"
  BY DEF Reading, machine
<1>2. \A t : Rows(t)' = Rows(t) /\ Listed(t)' = Listed(t)
  BY <1>1 DEF Rows, Listed
<1>3. \A t \in steady' : FoundSoFar(t)' /\ FoundBefore(t)'
  BY <1>1, <1>2 DEF FoundSoFar, FoundBefore
<1> QED BY <1>3 DEF SteadyInv

\* A table just read, or left out with what it lists, or the other one.
LEMMA TableKeepsSteady ==
  ASSUME TypeOK, LoopsInv, SteadyInv, NEW table \in {"tcp", "tcp6"}, pc = table, Reading(AfterTable(table)),
         UNCHANGED <<procs, loops>>, wanted \subseteq wanted', steady' \subseteq steady,
         \A t \in Tuples : Family[t] # table => sockets'[t] = sockets[t],
         \A t \in steady' : Family[t] = table => sockets'[t] = Rows(t) /\ Listed(t) \subseteq wanted'
  PROVE  SteadyInv'
<1>1. procs = NoProcs /\ current = {} /\ UNCHANGED <<procs, current, pending, found, unvisited, held>>
  BY DEF LoopsInv, loops, Reading, machine
<1>2. steady \subseteq Tuples /\ AfterTable(table) # "idle" /\ pc' = AfterTable(table) /\ pc' # "procs"
  BY TypesSplit DEF HistoryOK, AfterTable, Reading
<1>3. ASSUME NEW t \in steady', TableRead(t)'
      PROVE  sockets'[t] = Rows(t) /\ \A i \in Listed(t) : SettledSoFar(i)'
  <2>0. found = {} /\ t \in Tuples
    BY <1>1, <1>2 DEF LoopsInv
  <2>1. Listed(t) \subseteq Inodes
    BY <2>0, TypesSplit, InodesInType
  <2>2. CASE Family[t] = table
    BY <1>1, <1>2, <2>0, <2>1, <2>2 DEF SettledSoFar, NoProcs
  <2>3. CASE Family[t] # table
    <3>1. TableRead(t)
      BY <1>2, <1>3, <2>0, <2>3 DEF TableRead, AfterTable
    <3>2. sockets[t] = Rows(t) /\ \A i \in Listed(t) : SettledSoFar(i)
      BY <3>1 DEF SteadyInv, FoundSoFar
    <3>3. \A i \in Listed(t) : procs[i] = {}
      BY <1>1, <2>1 DEF NoProcs
    <3>4. \A i \in Listed(t) : SettledSoFar(i)'
      BY <1>1, <1>2, <2>0, <3>2, <3>3 DEF SettledSoFar, Settled
    <3> QED BY <2>0, <2>3, <3>2, <3>4
  <2> QED BY <2>2, <2>3
<1> QED BY <1>2, <1>3, ReadingKeepsSteady

LEMMA ReadTableKeepsSteady ==
  ASSUME TypeOK, LoopsInv, SteadyInv, NEW table \in {"tcp", "tcp6"}, ReadTable(table) \/ ReadTableFails(table)
  PROVE  SteadyInv'
<1>0. steady \subseteq Tuples
  BY TypesSplit DEF HistoryOK
<1>1. CASE ReadTable(table)
  <2>1. pc = table /\ Reading(AfterTable(table)) /\ UNCHANGED <<procs, loops, steady>>
        /\ wanted' = wanted \cup UNION {InodesIn(table, t) : t \in Tuples}
    BY <1>1 DEF ReadTable, history
  <2>2. ASSUME NEW t \in steady', Family[t] = table
        PROVE  sockets'[t] = Rows(t) /\ Listed(t) \subseteq wanted'
    <3>1. t \in Tuples
      BY <1>0, <2>1
    <3>2. Listed(t) \subseteq InodesIn(table, t)
      BY <2>2 DEF Listed, InodesIn
    <3> QED BY <1>1, <2>1, <2>2, <3>1, <3>2 DEF ReadTable
  <2>3. \A t \in Tuples : Family[t] # table => sockets'[t] = sockets[t]
    BY <1>1 DEF ReadTable
  <2> QED BY <2>1, <2>2, <2>3, TableKeepsSteady
<1>2. CASE ReadTableFails(table)
  <2>1. pc = table /\ Reading(AfterTable(table)) /\ UNCHANGED <<procs, sockets, wanted, loops>>
        /\ steady' = steady \ {t \in Tuples : Family[t] = table /\ Listed(t) # {}}
    BY <1>2 DEF ReadTableFails, tables
  <2>2. ASSUME NEW t \in steady', Family[t] = table
        PROVE  sockets'[t] = Rows(t) /\ Listed(t) \subseteq wanted'
    <3>1. t \in Tuples /\ Listed(t) = {}
      BY <1>0, <2>1, <2>2
    <3>2. sockets[t] = {}
      BY <2>1, <2>2, <3>1 DEF LoopsInv, TableRead
    <3> QED BY <2>1, <3>1, <3>2 DEF Rows
  <2> QED BY <2>1, <2>2, TableKeepsSteady
<1> QED BY <1>1, <1>2

\* A read of read_procs keeps settled what it keeps ahead, or adds to the table.
LEMMA WalkKeepsSteady ==
  ASSUME TypeOK, SteadyInv, pc \in {"proc", "procs"}, Reading("procs"), UNCHANGED sockets, steady' \subseteq steady,
         \A t \in steady' : \A i \in Listed(t) : i \in Inodes /\ SettledSoFar(i) => SettledSoFar(i)'
  PROVE  SteadyInv'
<1>1. steady \subseteq Tuples
  BY TypesSplit DEF HistoryOK
<1>2. ASSUME NEW t \in steady' PROVE sockets'[t] = Rows(t) /\ \A i \in Listed(t) : SettledSoFar(i)'
  <2>1. sockets[t] = Rows(t) /\ \A i \in Listed(t) : SettledSoFar(i)
    BY DEF SteadyInv, FoundSoFar, TableRead
  <2>2. Listed(t) \subseteq Inodes
    BY <1>1, TypesSplit, InodesInType
  <2> QED BY <2>1, <2>2
<1> QED BY <1>1, <1>2, ReadingKeepsSteady

\* For the reads that leave the tables: nothing found comes behind without having been there.
LEMMA AheadKeepsSteady ==
  ASSUME TypeOK, SteadyInv, pc \in {"proc", "procs"}, Reading("procs"), UNCHANGED tables, steady' \subseteq steady,
         \A i \in found' : current' \subseteq held[i] \/ (i \in found /\ current' \subseteq current),
         \A t \in steady' : \A i \in Listed(t) \cap wanted : \A p \in held[i] \cap Readable :
           (pc = "proc" \/ Ahead(p, i)) => Ahead(p, i)'
  PROVE  SteadyInv'
<1>1. pc' = "procs" /\ UNCHANGED <<sockets, procs, wanted, held>>
  BY DEF Reading, tables, machine
<1>2. ASSUME NEW t \in steady', NEW i \in Listed(t), i \in Inodes, SettledSoFar(i) PROVE SettledSoFar(i)'
  <2>1. i \in found' => current' \subseteq held[i]
    BY <1>2 DEF SettledSoFar
  <2>2. i \in wanted => \A p \in held[i] \cap Readable : Ahead(p, i)'
    BY <1>2 DEF SettledSoFar
  <2> QED BY <1>1, <1>2, <2>1, <2>2 DEF SettledSoFar, Settled
<1> QED BY <1>1, <1>2, WalkKeepsSteady

\* What is missed of a flow that stays steady is nothing.
LEMMA MissedIsNotSteady ==
  ASSUME TypeOK, NEW D, Missed(D)
  PROVE  /\ steady' \subseteq steady
         /\ \A t \in steady' : \A i, p : i \in Listed(t) /\ p \in held[i] \cap Readable =>
              [inode |-> i, pid |-> p] \notin D
BY DEF Missed, Listed

LEMMA OpenProcKeepsSteady ==
  ASSUME TypeOK, LoopsInv, SteadyInv, OpenProc \/ OpenProcFails PROVE SteadyInv'
<1>1. pc = "proc" /\ Reading("procs") /\ UNCHANGED <<tables, current, pending, found>> /\ current = {} /\ found = {}
  BY DEF OpenProc, OpenProcFails, loops, LoopsInv
<1>2. held \in [Inodes -> SUBSET Pids] /\ wanted \subseteq Inodes
  BY TypesSplit DEF MachineOK, LocalsOK
<1>3. CASE OpenProc
  <2>1. steady' = steady /\ unvisited' = Pids
    BY <1>3 DEF OpenProc, history
  <2> QED BY <1>1, <1>2, <2>1, AheadKeepsSteady DEF Ahead
<1>4. CASE OpenProcFails
  <2>1. Missed(Mapping!Descriptors)
    BY <1>4 DEF OpenProcFails
  <2>2. \A i \in wanted : \A p \in held[i] : [inode |-> i, pid |-> p] \in Mapping!Descriptors
    BY <1>2 DEF Mapping!Descriptors
  <2>3. /\ steady' \subseteq steady
        /\ \A t \in steady' : \A i \in Listed(t) \cap wanted : held[i] \cap Readable = {}
    BY <2>1, <2>2, MissedIsNotSteady
  <2> QED BY <1>1, <2>3, AheadKeepsSteady
<1> QED BY <1>3, <1>4

LEMMA EnterProcessKeepsSteady ==
  ASSUME TypeOK, SocketsInv, LoopsInv, SteadyInv, NEW p \in Pids,
         EnterProcess(p) \/ SkipProcess(p) \/ EnterProcessFails(p)
  PROVE  SteadyInv'
<1>1. pc = "procs" /\ Reading("procs") /\ UNCHANGED <<tables, found>> /\ current = {} /\ found = {}
      /\ unvisited' = unvisited \ {p}
  BY DEF EnterProcess, SkipProcess, EnterProcessFails, AtProcess, LoopsInv
<1>2. wanted \subseteq Inodes
  BY TypesSplit DEF LocalsOK
<1>3. ASSUME steady' \subseteq steady,
             \A t \in steady' : \A i \in Listed(t) \cap wanted : p \in held[i] \cap Readable => Ahead(p, i)'
      PROVE  SteadyInv'
  <2>1. \A i, q : q # p /\ Ahead(q, i) => Ahead(q, i)'
    BY <1>1 DEF Ahead
  <2>2. \A t \in steady' : \A i \in Listed(t) \cap wanted : \A q \in held[i] \cap Readable :
          Ahead(q, i) => Ahead(q, i)'
    BY <1>3, <2>1
  <2> QED BY <1>1, <1>3, <2>2, AheadKeepsSteady
<1>4. CASE EnterProcess(p)
  <2>1. steady' = steady /\ current' = {p} /\ pending' = {i \in Inodes : p \in held[i]}
    BY <1>4 DEF EnterProcess, history
  <2> QED BY <1>2, <1>3, <2>1 DEF Ahead
<1>5. CASE SkipProcess(p)
  <2>1. steady' = steady /\ (p \in Readable => p \notin running)
    BY <1>5 DEF SkipProcess, history
  <2> QED BY <1>2, <1>3, <2>1 DEF SocketsInv
<1>6. CASE EnterProcessFails(p)
  <2> DEFINE D == {d \in Mapping!Descriptors : d.pid = p}
  <2>1. Missed(D)
    BY <1>6 DEF EnterProcessFails
  <2>2. \A i \in Inodes : [inode |-> i, pid |-> p] \in D
    BY DEF Mapping!Descriptors
  <2> HIDE DEF D
  <2> QED BY <1>2, <1>3, <2>1, <2>2, MissedIsNotSteady
<1> QED BY <1>4, <1>5, <1>6

LEMMA LinkKeepsSteady ==
  ASSUME TypeOK, LoopsInv, SteadyInv, NEW p \in Pids, NEW i \in Inodes, TakeLink(p, i) \/ LinkFails(p, i)
  PROVE  SteadyInv'
<1>1. current = {p} /\ found = {} /\ pc = "procs" /\ Reading("procs") /\ UNCHANGED <<tables, unvisited, current>>
      /\ pending' = pending \ {i}
  BY DEF TakeLink, LinkFails, LoopsInv
<1>2. CASE TakeLink(p, i)
  <2>1. steady' = steady /\ found' = {i} /\ p \in held[i]
    BY <1>2 DEF TakeLink, history
  <2>2. \A j, q : Ahead(q, j) => Ahead(q, j)'
    BY <1>1, <2>1 DEF Ahead
  <2> QED BY <1>1, <2>1, <2>2, AheadKeepsSteady
<1>3. CASE LinkFails(p, i)
  <2> DEFINE D == {[inode |-> i, pid |-> p]}
  <2>1. Missed(D) /\ found' = {}
    BY <1>1, <1>3 DEF LinkFails
  <2>4. [inode |-> i, pid |-> p] \in D
    OBVIOUS
  <2>2. /\ steady' \subseteq steady
        /\ \A t \in steady' : \A j, q : j \in Listed(t) /\ q \in held[j] \cap Readable => ~(j = i /\ q = p)
    <3> HIDE DEF D
    <3> QED BY <2>1, <2>4, MissedIsNotSteady
  <2>3. \A j, q : ~(j = i /\ q = p) /\ Ahead(q, j) => Ahead(q, j)'
    BY <1>1, <2>1 DEF Ahead
  <2> QED BY <1>1, <2>1, <2>2, <2>3, AheadKeepsSteady
<1> QED BY <1>2, <1>3

LEMMA StatusKeepsSteady ==
  ASSUME TypeOK, LoopsInv, SteadyInv, NEW p \in Pids, TakeStatus(p) \/ StatusFails(p) PROVE SteadyInv'
<1>1. PICK uid : /\ Attribute(p, uid) /\ steady' \subseteq steady
                 /\ \A t \in steady' : uid = UidOf[p] \/ found \cap established[t] = {}
  BY DEF TakeStatus, StatusFails, history
<1>2. current = {p} /\ pc = "procs" /\ Reading("procs") /\ UNCHANGED <<sockets, unvisited, current, pending>>
      /\ found' = {} /\ wanted' = wanted \ found /\ p \in Readable /\ pc' = "procs" /\ held' = held
  BY <1>1 DEF Attribute, Reading, LoopsInv, machine
<1>3. ASSUME NEW t \in steady', NEW i \in Listed(t), i \in Inodes, SettledSoFar(i) PROVE SettledSoFar(i)'
  <2>1. CASE i \in found
    <3>1. uid = UidOf[p]
      BY <1>1, <2>1 DEF Listed
    <3>2. procs'[i] = {[pid |-> p, uid |-> UidOf[p]]} /\ i \notin wanted'
      BY <1>1, <1>2, <1>3, <2>1, <3>1 DEF Attribute
    <3>3. p \in held[i] \cap Readable
      BY <1>2, <1>3, <2>1 DEF SettledSoFar
    <3> QED BY <1>2, <3>2, <3>3 DEF SettledSoFar, Settled
  <2>2. CASE i \notin found
    <3>1. procs'[i] = procs[i] /\ (i \in wanted' <=> i \in wanted)
      BY <1>1, <1>2, <1>3, <2>2 DEF Attribute
    <3>2. \A q : Ahead(q, i) => Ahead(q, i)'
      BY <1>2, <2>2 DEF Ahead
    <3> QED BY <1>2, <1>3, <3>1, <3>2 DEF SettledSoFar, Settled
  <2> QED BY <2>1, <2>2
<1> QED BY <1>1, <1>2, <1>3, WalkKeepsSteady

LEMMA LeaveProcessKeepsSteady ==
  ASSUME TypeOK, LoopsInv, SteadyInv, NEW p \in Pids, LeaveProcess(p) PROVE SteadyInv'
<1>1. found = {} /\ pending \cap wanted = {} /\ pc = "procs" /\ Reading("procs")
      /\ UNCHANGED <<tables, unvisited, found, steady>> /\ current' = {}
  BY DEF LeaveProcess, history, LoopsInv
<1>2. \A i \in wanted : \A q : Ahead(q, i) => Ahead(q, i)'
  BY <1>1 DEF Ahead
<1> QED BY <1>1, <1>2, AheadKeepsSteady

LEMMA EndKeepsSteady ==
  ASSUME TypeOK, LoopsInv, SteadyInv, EndSnapshot PROVE SteadyInv'
<1>1. pc = "procs" /\ pc' = "idle" /\ cache' = Snapshot /\ current = {} /\ (wanted = {} \/ unvisited = {})
      /\ UNCHANGED <<established, mapped, held, owner, steady>>
  BY DEF EndSnapshot, machine
<1>2. cache'.sockets = sockets /\ cache'.procs = procs
  BY <1>1 DEF Snapshot
<1>3. ASSUME NEW t \in steady
      PROVE  cache'.sockets[t] = Rows(t)' /\ \A i \in Listed(t)' : Settled(i, cache.procs)'
  <2>1. Rows(t)' = Rows(t) /\ Listed(t)' = Listed(t)
    BY <1>1 DEF Rows, Listed
  <2>2. sockets[t] = Rows(t) /\ \A i \in Listed(t) : SettledSoFar(i)
    BY <1>1 DEF SteadyInv, FoundSoFar, TableRead
  <2>3. ASSUME NEW i \in Listed(t) PROVE Settled(i, procs)
    <3>1. \A q : ~Ahead(q, i) \/ wanted = {}
      BY <1>1 DEF Ahead
    <3> QED BY <1>1, <2>2, <3>1 DEF SettledSoFar, Settled
  <2> QED BY <1>1, <1>2, <2>1, <2>2, <2>3 DEF Settled
<1> QED BY <1>1, <1>3 DEF SteadyInv, FoundSoFar, FoundBefore, TableRead

LEMMA SteadyPreserved == IInv /\ SteadyInv /\ [Next]_vars => SteadyInv'
<1> SUFFICES ASSUME IInv, SteadyInv, [Next]_vars PROVE SteadyInv'
  OBVIOUS
<1>0. TypeOK /\ SocketsInv /\ LoopsInv
  BY DEF IInv
<1>1. ASSUME UNCHANGED <<machine, cache, pc, tables, loops, steady>> PROVE SteadyInv'
  BY <1>1 DEF SteadyInv, FoundSoFar, FoundBefore, TableRead, SettledSoFar, Settled, Ahead, Rows, Listed, machine,
       tables, loops
<1>2. CASE MachineStep
  BY <1>0, <1>2, MachineKeepsSteady
<1>3. ASSUME NEW t \in Tuples, ResolveFromCache(t) PROVE SteadyInv'
  BY <1>1, <1>3 DEF ResolveFromCache, history
<1>4. ASSUME NEW t \in Tuples, BeginSnapshot(t) PROVE SteadyInv'
  BY <1>4 DEF BeginSnapshot, SteadyInv, FoundSoFar, FoundBefore, TableRead
<1>5. ASSUME NEW table \in {"tcp", "tcp6"}, ReadTable(table) \/ ReadTableFails(table) PROVE SteadyInv'
  BY <1>0, <1>5, ReadTableKeepsSteady
<1>6. CASE OpenProc \/ OpenProcFails
  BY <1>0, <1>6, OpenProcKeepsSteady
<1>7. ASSUME NEW p \in Pids, EnterProcess(p) \/ SkipProcess(p) \/ EnterProcessFails(p) PROVE SteadyInv'
  BY <1>0, <1>7, EnterProcessKeepsSteady
<1>8. ASSUME NEW p \in Pids, NEW i \in Inodes, TakeLink(p, i) \/ LinkFails(p, i) PROVE SteadyInv'
  BY <1>0, <1>8, LinkKeepsSteady
<1>9. ASSUME NEW p \in Pids, TakeStatus(p) \/ StatusFails(p) PROVE SteadyInv'
  BY <1>0, <1>9, StatusKeepsSteady
<1>10. ASSUME NEW p \in Pids, LeaveProcess(p) PROVE SteadyInv'
  BY <1>0, <1>10, LeaveProcessKeepsSteady
<1>11. CASE EndSnapshot
  BY <1>0, <1>11, EndKeepsSteady
<1>12. CASE UNCHANGED vars
  BY <1>1, <1>12 DEF vars, history
<1> QED BY <1>2, <1>3, <1>4, <1>5, <1>6, <1>7, <1>8, <1>9, <1>10, <1>11, <1>12 DEF Next, ResolverStep

\* A snapshot that says what is the case answers exactly.
LEMMA AnswerExact ==
  ASSUME TypeOK, SocketsInv, NEW s, NEW ps, NEW t \in Tuples,
         \A u \in {t, Reverse(t)} : established[u] \cap mapped = {},
         \A u \in {t, Reverse(t)} : s[u] = Rows(u) /\ \A i \in Listed(u) : Settled(i, ps)
  PROVE  Exact(t, ResolveIn(s, ps, t))
<1>0. Reverse(t) \in Tuples /\ \A u \in {t, Reverse(t)} : Listed(u) = established[u]
  BY DEF Listed
<1>1. \A u \in {t, Reverse(t)} : s[u] = {} <=> Listed(u) = {}
  <2> SUFFICES ASSUME NEW u \in {t, Reverse(t)} PROVE s[u] = {} <=> Listed(u) = {}
    OBVIOUS
  <2>1. \A i \in Listed(u) : [inode |-> i, uid |-> owner[i]] \in Rows(u)
    BY DEF Rows
  <2>2. \A r \in Rows(u) : \E i \in Listed(u) : TRUE
    BY DEF Rows
  <2>3. s[u] = Rows(u)
    OBVIOUS
  <2> QED BY <2>1, <2>2, <2>3
<1>2. ASSUME NEW u \in {t, Reverse(t)}, Listed(u) # {}
      PROVE  \/ \E p \in Holders(u) : Origin(s, ps, u) = [type |-> "Local", pid |-> p, uid |-> UidOf[p]]
             \/ /\ Holders(u) = {}
                /\ \E i \in Listed(u) : Origin(s, ps, u) = [type |-> "OtherUser", uid |-> owner[i]]
  <2>1. u \in Tuples
    BY <1>0, <1>2
  <2>2. PICK i \in established[u] : Listed(u) = {i}
    <3>1. \A j, k \in established[u] : j = k
      BY <2>1 DEF SocketsInv
    <3> QED BY <1>0, <1>2, <3>1
  <2>3. Holders(u) = held[i] \cap Readable
    BY <1>0, <2>2 DEF Holders
  <2>4. s[u] = {[inode |-> i, uid |-> owner[i]]}
    BY <2>2 DEF Rows
  <2> DEFINE row == CHOOSE r \in s[u] : TRUE
  <2>5. row = [inode |-> i, uid |-> owner[i]]
    BY <2>4
  <2>6. row.inode = i /\ row.uid = owner[i]
    <3> HIDE DEF row
    <3> QED BY <2>5
  <2>7. Origin(s, ps, u) = IF ps[i] = {} THEN [type |-> "OtherUser", uid |-> owner[i]]
                           ELSE LET proc == CHOOSE r \in ps[i] : TRUE
                                IN  [type |-> "Local", pid |-> proc.pid, uid |-> proc.uid]
    <3> HIDE DEF row
    <3>1. Origin(s, ps, u) = IF ps[row.inode] = {} THEN [type |-> "OtherUser", uid |-> row.uid]
                             ELSE LET proc == CHOOSE r \in ps[row.inode] : TRUE
                                  IN  [type |-> "Local", pid |-> proc.pid, uid |-> proc.uid]
      BY <2>4 DEF Origin, row
    <3> QED BY <2>6, <3>1
  <2>8. Settled(i, ps)
    BY <2>2
  <2>9. CASE ps[i] = {}
    BY <2>2, <2>3, <2>7, <2>8, <2>9 DEF Settled
  <2>10. CASE ps[i] # {}
    <3>1. PICK p \in held[i] \cap Readable : ps[i] = {[pid |-> p, uid |-> UidOf[p]]}
      BY <2>8, <2>10 DEF Settled
    <3>2. (CHOOSE r \in ps[i] : TRUE) = [pid |-> p, uid |-> UidOf[p]]
      BY <3>1
    <3> QED BY <2>3, <2>7, <2>10, <3>1, <3>2
  <2> QED BY <2>9, <2>10
<1>3. CASE s[t] # {}
  <2>1. ResolveIn(s, ps, t) = Origin(s, ps, t) /\ Listed(t) # {}
    BY <1>1, <1>3 DEF ResolveIn
  <2> QED BY <1>0, <1>2, <2>1 DEF Exact
<1>4. CASE s[t] = {} /\ s[Reverse(t)] # {}
  <2>1. ResolveIn(s, ps, t) = Origin(s, ps, Reverse(t)) /\ Listed(Reverse(t)) # {} /\ Listed(t) = {}
    BY <1>1, <1>4 DEF ResolveIn
  <2> QED BY <1>0, <1>2, <2>1 DEF Exact
<1>5. CASE s[t] = {} /\ s[Reverse(t)] = {}
  BY <1>0, <1>1, <1>5 DEF ResolveIn, Origin, Exact
<1> QED BY <1>3, <1>4, <1>5

LEMMA StepExact == IInv /\ SteadyInv /\ SteadyFlowsExact /\ [Next]_vars => SteadyFlowsExact'
<1> SUFFICES ASSUME IInv, SteadyInv, SteadyFlowsExact, [Next]_vars
             PROVE  SteadyFlowsExact'
  OBVIOUS
<1> DEFINE Asks(t) == SteadyFlow(t) /\ SteadyFlow(Reverse(t))
<1>0. TypeOK /\ SocketsInv /\ steady \subseteq Tuples /\ asked \subseteq Tuples
  BY TypesSplit DEF IInv, HistoryOK, LocalsOK
<1>1. ASSUME answer' = {} PROVE SteadyFlowsExact'
  BY <1>1 DEF SteadyFlowsExact
<1>2. ASSUME machine' = machine, steady' \subseteq steady,
             \A a \in answer' : Asks(a.to) => Exact(a.to, a.origin)
      PROVE  SteadyFlowsExact'
  <2>1. UNCHANGED <<established, mapped, held, owner>>
    BY <1>2 DEF machine
  <2>2. \A u : Holders(u)' = Holders(u)
    BY <2>1 DEF Holders
  <2>3. \A t, o : Exact(t, o) => Exact(t, o)'
    BY <2>1, <2>2 DEF Exact
  <2>4. \A t : SteadyFlow(t)' => SteadyFlow(t)
    BY <1>2, <2>1 DEF SteadyFlow
  <2> QED BY <1>2, <2>3, <2>4 DEF SteadyFlowsExact
<1>3. CASE MachineStep
  BY <1>0, <1>1, <1>3, MachineStepObserved DEF Unobserved
<1>4. ASSUME NEW t \in Tuples, ResolveFromCache(t) PROVE SteadyFlowsExact'
  <2>1. pc = "idle" /\ cache.taken
    BY <1>4 DEF ResolveFromCache, Stale
  <2>2. \A u \in steady : cache.sockets[u] = Rows(u) /\ \A i \in Listed(u) : Settled(i, cache.procs)
    BY <2>1 DEF SteadyInv, FoundBefore
  <2>3. Asks(t) => Exact(t, ResolveIn(cache.sockets, cache.procs, t))
    BY <1>0, <2>2, AnswerExact DEF SteadyFlow
  <2>4. answer' = {[to |-> t, origin |-> ResolveIn(cache.sockets, cache.procs, t)]}
        /\ machine' = machine /\ steady' = steady
    BY <1>4 DEF ResolveFromCache, history
  <2>5. ASSUME NEW a \in answer', Asks(a.to) PROVE Exact(a.to, a.origin)
    <3>1. a.to = t /\ a.origin = ResolveIn(cache.sockets, cache.procs, t)
      BY <2>4
    <3> QED BY <2>3, <2>5, <3>1
  <2> HIDE DEF Asks
  <2> QED BY <1>2, <2>4, <2>5
<1>5. ASSUME NEW t \in Tuples, BeginSnapshot(t) PROVE SteadyFlowsExact'
  BY <1>1, <1>5 DEF BeginSnapshot
<1>6. ASSUME NEW next, Reading(next), pc # "idle" PROVE SteadyFlowsExact'
  <2>1. answer' = {}
    BY <1>6 DEF Reading, IInv, SnapshotFollows
  <2> QED BY <1>1, <2>1
<1>7. current # {} => pc # "idle"
  BY DEF IInv, LoopsInv
<1>8. ASSUME NEW table \in {"tcp", "tcp6"}, ReadTable(table) \/ ReadTableFails(table) PROVE SteadyFlowsExact'
  BY <1>6, <1>8 DEF ReadTable, ReadTableFails
<1>9. CASE OpenProc \/ OpenProcFails
  BY <1>6, <1>9 DEF OpenProc, OpenProcFails
<1>10. ASSUME NEW p \in Pids, EnterProcess(p) \/ SkipProcess(p) \/ EnterProcessFails(p) PROVE SteadyFlowsExact'
  BY <1>6, <1>10 DEF EnterProcess, SkipProcess, EnterProcessFails, AtProcess
<1>11. ASSUME NEW p \in Pids, NEW i \in Inodes, TakeLink(p, i) \/ LinkFails(p, i) PROVE SteadyFlowsExact'
  BY <1>6, <1>7, <1>11 DEF TakeLink, LinkFails
<1>12. ASSUME NEW p \in Pids, TakeStatus(p) \/ StatusFails(p) \/ LeaveProcess(p) PROVE SteadyFlowsExact'
  BY <1>6, <1>7, <1>12 DEF TakeStatus, StatusFails, Attribute, LeaveProcess
<1>13. CASE EndSnapshot
  <2>1. pc = "procs" /\ current = {} /\ (wanted = {} \/ unvisited = {}) /\ UNCHANGED <<machine, steady>>
        /\ answer' = {[to |-> t, origin |-> ResolveIn(sockets, procs, t)] : t \in asked}
    BY <1>13 DEF EndSnapshot
  <2>2. ASSUME NEW u \in steady PROVE sockets[u] = Rows(u) /\ \A i \in Listed(u) : Settled(i, procs)
    <3>1. sockets[u] = Rows(u) /\ \A i \in Listed(u) : SettledSoFar(i)
      BY <2>1 DEF SteadyInv, FoundSoFar, TableRead
    <3>2. \A i, q : ~Ahead(q, i) \/ wanted = {}
      BY <2>1 DEF Ahead
    <3> QED BY <2>1, <3>1, <3>2 DEF SettledSoFar, Settled
  <2>3. ASSUME NEW t \in asked, Asks(t) PROVE Exact(t, ResolveIn(sockets, procs, t))
    BY <1>0, <2>2, <2>3, AnswerExact DEF SteadyFlow
  <2>4. ASSUME NEW a \in answer', Asks(a.to) PROVE Exact(a.to, a.origin)
    <3>1. PICK t \in asked : a = [to |-> t, origin |-> ResolveIn(sockets, procs, t)]
      BY <2>1
    <3>2. a.to = t /\ a.origin = ResolveIn(sockets, procs, t)
      BY <3>1
    <3> QED BY <2>3, <2>4, <3>1, <3>2
  <2>5. machine' = machine /\ steady' = steady
    BY <2>1
  <2> HIDE DEF Asks
  <2> QED BY <1>2, <2>4, <2>5
<1>14. CASE UNCHANGED vars
  <2>1. machine' = machine /\ steady' = steady /\ answer' = answer
    BY <1>14 DEF vars, history
  <2>2. \A a \in answer' : Asks(a.to) => Exact(a.to, a.origin)
    BY <2>1 DEF SteadyFlowsExact
  <2> HIDE DEF Asks
  <2> QED BY <1>2, <2>1, <2>2
<1> QED BY <1>3, <1>4, <1>5, <1>8, <1>9, <1>10, <1>11, <1>12, <1>13, <1>14 DEF Next, ResolverStep

(* A flow on whose sockets, none of them dual-stack, nothing happened and  *)
(* no read failed since the snapshot began is attributed exactly, by the   *)
(* snapshot just made or from the cache, whatever happened to other flows  *)
(* while /proc was read (snapshot, read_sockets, read_procs, resolve).     *)
THEOREM SteadyFlowsAreExact == Spec => []SteadyFlowsExact
<1>1. Init => IInv /\ SteadyInv /\ SteadyFlowsExact
  <2>1. Init => IInv
    BY InitTypes, InitStructure DEF IInv, SnapshotFollows, Init
  <2>2. Init => SteadyInv /\ SteadyFlowsExact
    BY DEF Init, SteadyInv, FoundSoFar, FoundBefore, TableRead, SteadyFlowsExact
  <2> QED BY <2>1, <2>2
<1>2. IInv /\ [Next]_vars => IInv'
  BY InvariantPreserved
<1>3. IInv /\ SteadyInv /\ [Next]_vars => SteadyInv'
  BY SteadyPreserved
<1>4. IInv /\ SteadyInv /\ SteadyFlowsExact /\ [Next]_vars => SteadyFlowsExact'
  BY StepExact
<1> QED BY <1>1, <1>2, <1>3, <1>4, PTL DEF Spec
=============================================================================
