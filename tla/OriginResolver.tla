--------------------------- MODULE OriginResolver ---------------------------
(***************************************************************************)
(* LinuxProcResolver of src/src/origin/linux.rs, on a machine whose        *)
(* sockets and processes change while /proc is being read.  A lookup takes *)
(* the cached snapshot, or first makes a new one: the two socket tables,   *)
(* the list of processes, then the descriptors of one process after the    *)
(* other, each link and each status a step of its own.  Any of these reads *)
(* may fail, and the code goes on without what it would have read.         *)
(*                                                                         *)
(* A table's rows under given endpoints, and a socket's processes, are     *)
(* sets of at most one (the later entry of a HashMap replaces the earlier).*)
(* The texts of /proc are parsed, comm and cmdline kept, by code this      *)
(* module leaves out; a table is read in one step, no process is born and  *)
(* neither a pid nor an inode is used again.  `seen', `steady' and         *)
(* `answer' are history.                                                   *)
(***************************************************************************)
EXTENDS Naturals

CONSTANTS
  Tuples,     \* <<local, remote>> endpoint pairs, closed under reversal
  Family,     \* [Tuples -> {"tcp", "tcp6"}]: the version of their addresses
  Pids,
  UidOf,      \* [Pids -> Nat]: the user of a process
  Readable,   \* the processes whose fd directory this user may read
  CACHE_TTL,  \* CACHE_TTL_MS
  MaxOpens,   \* bound: sockets opened
  MaxEvents,  \* bound: changes of the machine's sockets and processes, and reads that fail
  MaxClock    \* bound: the clock

Reverse(t) == <<t[2], t[1]>>

ASSUME ResolverAssumption ==
  /\ \A t \in Tuples : Reverse(t) \in Tuples /\ Reverse(Reverse(t)) = t
  /\ Family \in [Tuples -> {"tcp", "tcp6"}]
  /\ UidOf \in [Pids -> Nat]
  /\ Readable \subseteq Pids
  /\ CACHE_TTL \in Nat \ {0} /\ MaxOpens \in Nat /\ MaxEvents \in Nat /\ MaxClock \in Nat

Inodes == 1..MaxOpens

VARIABLES
  established, \* established[t]: the established socket on t, in a set of at most one
  mapped,      \* the IPv6 sockets that carry an IPv4 connection
  held, owner, running, opened, clock,   \* the rest of the machine
  events,      \* how often the machine changed or a read failed, for the bound
  cache,       \* LinuxProcResolver::cache
  pc,          \* "idle", or what snapshot() reads next: "tcp", "tcp6", "proc", "procs"
  asked,       \* resolve's arguments while it makes a snapshot, in a set of at most one
  sockets, procs, wanted, unvisited,     \* locals of snapshot() and read_procs
  current,     \* the process whose links are being read, in a set of at most one
  pending,     \* the sockets it has held since, whose links are still to come
  found,       \* the socket for which its status is about to be read, likewise
  seen,        \* the facts since the snapshot began, see Attribution
  steady,      \* the tuples nothing happened to since then, all of which was read
  answer       \* what resolve returns, in a set of at most one

machine == <<established, mapped, held, owner, running, opened, clock>>
tables == <<sockets, procs, wanted>>
loops == <<unvisited, current, pending, found>>
history == <<seen, steady>>
vars == <<machine, events, cache, pc, asked, tables, loops, history, answer>>

Unknown == [type |-> "Unknown"]
NoRows == [t \in Tuples |-> {}]
NoProcs == [i \in Inodes |-> {}]

\* A mapped socket is listed in tcp6 under ::ffff: addresses, which no flow has.
Listed(t) == established[t] \ mapped
Rows(t) == {[inode |-> i, uid |-> owner[i]] : i \in Listed(t)}

-----------------------------------------------------------------------------
(* What a snapshot says of a flow.                                         *)

Origin(s, p, t) ==
  IF s[t] = {} THEN Unknown
  ELSE LET row == CHOOSE r \in s[t] : TRUE
       IN  IF p[row.inode] = {} THEN [type |-> "OtherUser", uid |-> row.uid]
           ELSE LET proc == CHOOSE r \in p[row.inode] : TRUE
                IN  [type |-> "Local", pid |-> proc.pid, uid |-> proc.uid]

ResolveIn(s, p, t) == IF s[t] # {} THEN Origin(s, p, t) ELSE Origin(s, p, Reverse(t))

View == [t \in Tuples |-> Origin(cache.sockets, cache.procs, t)]

Mapping == INSTANCE Attribution WITH
  listed <- [t \in Tuples |-> Listed(t)],
  refreshing <- (pc # "idle"),
  view <- [taken |-> cache.taken, at |-> cache.taken_at, of |-> View]

-----------------------------------------------------------------------------
Init ==
  /\ established = NoRows /\ mapped = {} /\ held = NoProcs
  /\ owner = [i \in Inodes |-> 0] /\ running = Pids /\ opened = 0 /\ clock = 0 /\ events = 0
  /\ cache = [taken |-> FALSE, taken_at |-> 0, sockets |-> NoRows, procs |-> NoProcs]
  /\ pc = "idle" /\ asked = {}
  /\ sockets = NoRows /\ procs = NoProcs /\ wanted = {}
  /\ unvisited = {} /\ current = {} /\ pending = {} /\ found = {}
  /\ seen = Mapping!NoFacts /\ steady = Tuples /\ answer = {}

(* The machine.                                                            *)

\* The tuples whose socket, or its holders, the step changes.
Disturbed ==
  {t \in Tuples : \/ established'[t] # established[t]
                  \/ \E i \in established[t] : held'[i] # held[i]}

\* A directory being read need not show what was not there from the start.
Unobserved ==
  /\ pending' = {i \in pending : current \subseteq held'[i]}
  /\ seen' = IF pc = "idle" THEN seen ELSE Mapping!With(seen, Mapping!Facts')
  /\ steady' = steady \ Disturbed
  /\ answer' = {}
  /\ UNCHANGED <<cache, pc, asked, tables, unvisited, current, found>>

Tick ==
  /\ clock < MaxClock /\ clock' = clock + 1
  /\ UNCHANGED <<established, mapped, held, owner, running, opened, events>>
  /\ Unobserved

Event == events < MaxEvents /\ events' = events + 1

Change == Event /\ UNCHANGED clock

\* Process p connects, or accepts, on t; a dual-stack socket may carry an IPv4 flow.
Open(t, p) ==
  /\ established[t] = {} /\ p \in running /\ opened < MaxOpens
  /\ opened' = opened + 1
  /\ established' = [established EXCEPT ![t] = {opened + 1}]
  /\ held' = [held EXCEPT ![opened + 1] = {p}]
  /\ owner' = [owner EXCEPT ![opened + 1] = UidOf[p]]
  /\ \/ UNCHANGED mapped
     \/ Family[t] = "tcp" /\ mapped' = mapped \cup {opened + 1}
  /\ UNCHANGED running
  /\ Change /\ Unobserved

\* By fork, or by passing the descriptor.
Share(i, p) ==
  /\ held[i] # {} /\ p \in running \ held[i]
  /\ held' = [held EXCEPT ![i] = @ \cup {p}]
  /\ UNCHANGED <<established, mapped, owner, running, opened>>
  /\ Change /\ Unobserved

\* The connection ends while descriptors to it are still open.
Disconnect(t) ==
  /\ established[t] # {}
  /\ established' = [established EXCEPT ![t] = {}]
  /\ UNCHANGED <<mapped, held, owner, running, opened>>
  /\ Change /\ Unobserved

\* Process p no longer holds the sockets of S; what nobody holds is closed.
Released(p, S) ==
  /\ held' = [i \in Inodes |-> IF i \in S THEN held[i] \ {p} ELSE held[i]]
  /\ established' = [t \in Tuples |-> {i \in established[t] : held'[i] # {}}]

Close(i, p) ==
  /\ p \in held[i]
  /\ Released(p, {i})
  /\ UNCHANGED <<mapped, owner, running, opened>>
  /\ Change /\ Unobserved

Exit(p) ==
  /\ p \in running /\ running' = running \ {p}
  /\ Released(p, Inodes)
  /\ UNCHANGED <<mapped, owner, opened>>
  /\ Change /\ Unobserved

MachineStep ==
  \/ Tick
  \/ \E t \in Tuples : Disconnect(t) \/ \E p \in Pids : Open(t, p)
  \/ \E i \in Inodes, p \in Pids : Share(i, p) \/ Close(i, p)
  \/ \E p \in Pids : Exit(p)

-----------------------------------------------------------------------------
(* The resolver.                                                           *)

\* Fault: a snapshot is never refreshed.
StaleNever == ~cache.taken
Stale == ~cache.taken \/ clock - cache.taken_at >= CACHE_TTL

ResolveFromCache(t) ==
  /\ pc = "idle" /\ ~Stale
  /\ answer' = {[to |-> t, origin |-> ResolveIn(cache.sockets, cache.procs, t)]}
  /\ UNCHANGED <<machine, events, cache, pc, asked, tables, loops, history>>

BeginSnapshot(t) ==
  /\ pc = "idle" /\ Stale
  /\ asked' = {t} /\ answer' = {}
  /\ pc' = "tcp"
  /\ seen' = Mapping!Facts /\ steady' = Tuples
  /\ UNCHANGED <<machine, events, cache, tables, loops>>

\* A step on the way from BeginSnapshot to EndSnapshot.
Reading(next) == pc' = next /\ UNCHANGED <<machine, cache, asked, answer>>

AfterTable(table) == IF table = "tcp" THEN "tcp6" ELSE "proc"

\* The socket of t, if `table' is where it is listed.
InodesIn(table, t) ==
  {i \in established[t] : table = IF i \in mapped THEN "tcp6" ELSE Family[t]}

\* read_sockets, one table.
ReadTable(table) ==
  /\ pc = table
  /\ sockets' = [t \in Tuples |-> IF Family[t] = table THEN Rows(t) ELSE sockets[t]]
  /\ wanted' = wanted \cup UNION {InodesIn(table, t) : t \in Tuples}
  /\ Reading(AfterTable(table))
  /\ UNCHANGED <<events, procs, loops, history>>

\* A table that cannot be read is left out.
ReadTableFails(table) ==
  /\ pc = table
  /\ LET lost == {t \in Tuples : Family[t] = table /\ Listed(t) # {}}
     IN  /\ seen' = [seen EXCEPT !.unread = @ \cup lost]
         /\ steady' = steady \ lost
  /\ Event /\ Reading(AfterTable(table))
  /\ UNCHANGED <<tables, loops>>

\* read_procs.  The descriptors in D are not read, though some are there to be read.
Missed(D) ==
  LET lost == {d \in D : d.pid \in held[d.inode] \cap Readable}
  IN  /\ seen' = [seen EXCEPT !.missed = @ \cup lost]
      /\ steady' = {t \in steady : \A d \in lost : d.inode \notin established[t]}

OpenProc ==
  /\ pc = "proc"
  /\ unvisited' = Pids
  /\ Reading("procs")
  /\ UNCHANGED <<events, tables, current, pending, found, history>>

OpenProcFails ==
  /\ pc = "proc"
  /\ Missed(Mapping!Descriptors)
  /\ Event /\ Reading("procs")
  /\ UNCHANGED <<tables, loops>>

\* Between two processes; /proc lists them in no known order.
AtProcess(p) == pc = "procs" /\ current = {} /\ wanted # {} /\ p \in unvisited

EnterProcess(p) ==
  /\ AtProcess(p) /\ p \in Readable \cap running
  /\ unvisited' = unvisited \ {p}
  /\ current' = {p} /\ pending' = {i \in Inodes : p \in held[i]}
  /\ Reading("procs")
  /\ UNCHANGED <<events, tables, found, history>>

\* Its fd directory is not this user's to read, or gone.
SkipProcess(p) ==
  /\ AtProcess(p) /\ p \notin Readable \cap running
  /\ unvisited' = unvisited \ {p}
  /\ Reading("procs")
  /\ UNCHANGED <<events, tables, current, pending, found, history>>

EnterProcessFails(p) ==
  /\ AtProcess(p)
  /\ unvisited' = unvisited \ {p}
  /\ Missed({d \in Mapping!Descriptors : d.pid = p})
  /\ Event /\ Reading("procs")
  /\ UNCHANGED <<tables, current, pending, found>>

\* The link of a descriptor of p's names a wanted socket.
TakeLink(p, i) ==
  /\ current = {p} /\ found = {} /\ i \in wanted /\ p \in held[i]
  /\ found' = {i} /\ pending' = pending \ {i}
  /\ Reading("procs")
  /\ UNCHANGED <<events, tables, unvisited, current, history>>

LinkFails(p, i) ==
  /\ current = {p} /\ found = {} /\ i \in pending
  /\ pending' = pending \ {i}
  /\ Missed({[inode |-> i, pid |-> p]})
  /\ Event /\ Reading("procs")
  /\ UNCHANGED <<tables, unvisited, current, found>>

\* The found socket is p's, whose user is uid.
Attribute(p, uid) ==
  /\ current = {p} /\ found # {}
  /\ procs' = [i \in Inodes |-> IF i \in found THEN {[pid |-> p, uid |-> uid]} ELSE procs[i]]
  /\ wanted' = wanted \ found
  /\ found' = {}
  /\ Reading("procs")
  /\ UNCHANGED <<sockets, unvisited, current, pending>>

TakeStatus(p) == p \in running /\ Attribute(p, UidOf[p]) /\ UNCHANGED <<events, history>>

\* The process has ended since its link was read, or the read fails: unwrap_or(0).
StatusFails(p) ==
  /\ Attribute(p, 0)
  /\ seen' = [seen EXCEPT !.nameless = @ \cup {p}]
  /\ steady' = {t \in steady : found \cap established[t] = {}}
  /\ IF p \in running THEN Event ELSE UNCHANGED events

\* Fault: one socket a process, whatever else it holds.
LeaveProcessEarly(p) ==
  /\ current = {p} /\ found = {}
  /\ pending \cap wanted = {} \/ \E i \in Inodes : \E r \in procs[i] : r.pid = p
  /\ current' = {} /\ pending' = {}
  /\ Reading("procs")
  /\ UNCHANGED <<events, tables, unvisited, found, history>>

\* The directory is at its end, or nothing is wanted any more.
LeaveProcess(p) ==
  /\ current = {p} /\ found = {} /\ pending \cap wanted = {}
  /\ current' = {} /\ pending' = {}
  /\ Reading("procs")
  /\ UNCHANGED <<events, tables, unvisited, found, history>>

\* Fault: the snapshot is dated with the end of its life.
SnapshotWithExpiry == [taken |-> TRUE, taken_at |-> clock + CACHE_TTL, sockets |-> sockets, procs |-> procs]

Snapshot == [taken |-> TRUE, taken_at |-> clock, sockets |-> sockets, procs |-> procs]

\* Dated when it is complete.
EndSnapshot ==
  /\ pc = "procs" /\ current = {} /\ (wanted = {} \/ unvisited = {})
  /\ cache' = Snapshot
  /\ answer' = {[to |-> t, origin |-> ResolveIn(sockets, procs, t)] : t \in asked}
  /\ asked' = {}
  /\ pc' = "idle"
  /\ sockets' = NoRows /\ procs' = NoProcs /\ wanted' = {} /\ unvisited' = {}
  /\ seen' = Mapping!NoFacts
  /\ UNCHANGED <<machine, events, current, pending, found, steady>>

ResolverStep ==
  \/ \E t \in Tuples : ResolveFromCache(t) \/ BeginSnapshot(t)
  \/ \E table \in {"tcp", "tcp6"} : ReadTable(table) \/ ReadTableFails(table)
  \/ OpenProc \/ OpenProcFails
  \/ \E p \in Pids :
       \/ EnterProcess(p) \/ EnterProcessFails(p) \/ SkipProcess(p) \/ LeaveProcess(p)
       \/ TakeStatus(p) \/ StatusFails(p)
       \/ \E i \in Inodes : TakeLink(p, i) \/ LinkFails(p, i)
  \/ EndSnapshot

Next == MachineStep \/ ResolverStep

Spec == Init /\ [][Next]_vars

-----------------------------------------------------------------------------
(* Properties.                                                             *)

TypeOK ==
  /\ established \in [Tuples -> SUBSET Inodes] /\ mapped \in SUBSET Inodes
  /\ held \in [Inodes -> SUBSET Pids] /\ owner \in [Inodes -> Nat]
  /\ running \in SUBSET Pids /\ opened \in 0..MaxOpens /\ clock \in 0..MaxClock
  /\ events \in 0..MaxEvents
  /\ cache \in [taken : BOOLEAN, taken_at : 0..MaxClock,
                sockets : [Tuples -> SUBSET [inode : Inodes, uid : Nat]],
                procs : [Inodes -> SUBSET [pid : Pids, uid : Nat]]]
  /\ pc \in {"idle", "tcp", "tcp6", "proc", "procs"} /\ asked \in SUBSET Tuples
  /\ sockets \in [Tuples -> SUBSET [inode : Inodes, uid : Nat]]
  /\ procs \in [Inodes -> SUBSET [pid : Pids, uid : Nat]]
  /\ wanted \in SUBSET Inodes /\ unvisited \in SUBSET Pids
  /\ current \in SUBSET Pids /\ pending \in SUBSET Inodes /\ found \in SUBSET Inodes
  /\ seen \in Mapping!FactSets /\ steady \in SUBSET Tuples
  /\ answer \in SUBSET [to : Tuples, origin : Mapping!Origins]

(* Whatever happens on the machine while /proc is read, although tables    *)
(* and processes are read one after the other and although any read may    *)
(* fail, every answer comes from a view younger than the TTL, each entry   *)
(* of which follows from the snapshot's making: a named process is one     *)
(* this user may look into and held the socket listed for the flow; where  *)
(* only the user is named, each such process was without the socket at     *)
(* some time; an unknown flow was at some time not listed; or the read     *)
(* that would have told failed (snapshot, read_sockets, read_procs,        *)
(* resolve).  The promise is docs/attribution.md:41-49 and :68-71, weaker  *)
(* than mod.rs:23-25: a process that exits meanwhile may leave OtherUser   *)
(* of its own uid, or itself with uid 0, where the comment says Unknown.   *)
ImplementsAttribution == Mapping!Spec

(* A flow to whose socket nothing happened since the snapshot began, and   *)
(* none of whose reads failed, is attributed exactly, whatever happened to *)
(* the others: to a process that holds the socket when this user may look  *)
(* into one, else to the socket's user; a flow without a socket to nobody  *)
(* (the variants of Origin in src/src/origin/mod.rs).  Flows on dual-stack *)
(* sockets are excepted: the code finds nobody, though a socket exists.    *)
Holders(t) == UNION {held[i] \cap Readable : i \in established[t]}

Exact(t, o) ==
  \/ established[t] = {} /\ established[Reverse(t)] = {} /\ o = Unknown
  \/ \E u \in {t, Reverse(t)} :
       /\ established[u] # {}
       /\ u = t \/ established[t] = {}
       /\ \/ \E p \in Holders(u) : o = [type |-> "Local", pid |-> p, uid |-> UidOf[p]]
          \/ /\ Holders(u) = {}
             /\ \E i \in established[u] : o = [type |-> "OtherUser", uid |-> owner[i]]

SteadyFlow(t) == t \in steady /\ established[t] \cap mapped = {}

SteadyFlowsExact ==
  \A a \in answer : SteadyFlow(a.to) /\ SteadyFlow(Reverse(a.to)) => Exact(a.to, a.origin)
=============================================================================
