---------------------------- MODULE Attribution ----------------------------
(***************************************************************************)
(* What an OriginResolver (src/src/origin/mod.rs) says of a machine that   *)
(* changes while it is being looked at, and parts of which it may fail to  *)
(* read.  The resolver refreshes a view of the sockets from time to time   *)
(* and answers from the view.  While a refresh lasts the machine goes on;  *)
(* the view it ends with holds, flow by flow, what follows from facts of   *)
(* the refresh, but need not be a state the whole machine was ever in.     *)
(* OriginResolver implements this.  It is less than mod.rs:23-25 promises: *)
(* a flow whose process has exited may be the other user's, or uid 0's.    *)
(***************************************************************************)
EXTENDS Naturals

CONSTANTS
  Tuples,     \* <<local, remote>> endpoint pairs, closed under reversal
  Inodes,     \* the sockets
  Pids,
  UidOf,      \* [Pids -> Nat]
  Readable,   \* the processes this user may look into
  CACHE_TTL   \* how long a view is used

Origins ==
  [type : {"Local"}, pid : Pids, uid : Nat]
  \cup [type : {"OtherUser"}, uid : Nat] \cup {[type |-> "Unknown"]}

Descriptors == [inode : Inodes, pid : Pids]

FactSets ==
  [listed : SUBSET [at : Tuples, inode : Inodes, uid : Nat], unlisted : SUBSET Tuples,
   held : SUBSET Descriptors, unheld : SUBSET Descriptors,
   unread : SUBSET Tuples, missed : SUBSET Descriptors, nameless : SUBSET Pids]

VARIABLES
  listed,     \* listed[t]: the socket listed under t, in a set of at most one
  held,       \* held[i]: the processes that hold socket i
  owner,      \* owner[i]: the user that opened it
  clock,
  refreshing, \* a refresh is under way
  seen,       \* the facts since it began, and what could not be read
  view,       \* what the last refresh ended with
  answer      \* the answer being given, in a set of at most one

machine == <<listed, held, owner, clock>>
vars == <<machine, refreshing, seen, view, answer>>

NoFacts ==
  [listed |-> {}, unlisted |-> {}, held |-> {}, unheld |-> {},
   unread |-> {}, missed |-> {}, nameless |-> {}]

Facts ==
  [listed   |-> UNION {{[at |-> t, inode |-> i, uid |-> owner[i]] : i \in listed[t]} : t \in Tuples},
   unlisted |-> {t \in Tuples : listed[t] = {}},
   held     |-> {d \in Descriptors : d.pid \in held[d.inode]},
   unheld   |-> {d \in Descriptors : d.pid \notin held[d.inode]},
   unread   |-> {}, missed |-> {}, nameless |-> {}]

With(s, f) ==
  [listed |-> s.listed \cup f.listed, unlisted |-> s.unlisted \cup f.unlisted,
   held |-> s.held \cup f.held, unheld |-> s.unheld \cup f.unheld,
   unread |-> s.unread, missed |-> s.missed, nameless |-> s.nameless]

\* At some time process p did not hold socket i, or its descriptor was missed.
NotFound(i, p, s) == [inode |-> i, pid |-> p] \in s.unheld \cup s.missed

\* Origin o of flow t follows from the facts s.
Follows(o, t, s) ==
  \/ o.type = "Unknown" /\ t \in s.unlisted \cup s.unread
  \/ /\ o.type = "OtherUser"
     /\ \E l \in s.listed : /\ l.at = t /\ l.uid = o.uid
                            /\ \A p \in Readable : NotFound(l.inode, p, s)
  \/ /\ o.type = "Local" /\ o.pid \in Readable
     /\ \E l \in s.listed : l.at = t /\ [inode |-> l.inode, pid |-> o.pid] \in s.held
     /\ o.uid = UidOf[o.pid] \/ (o.uid = 0 /\ o.pid \in s.nameless)

\* Both orders of the endpoints are tried, the packet's first.
Either(origins, t) ==
  IF origins[t].type # "Unknown" THEN origins[t] ELSE origins[<<t[2], t[1]>>]

Fresh == view.taken /\ clock < view.at + CACHE_TTL

Init ==
  /\ listed = [t \in Tuples |-> {}] /\ held = [i \in Inodes |-> {}]
  /\ owner \in [Inodes -> Nat] /\ clock \in Nat
  /\ refreshing = FALSE /\ seen = NoFacts
  /\ view = [taken |-> FALSE, at |-> 0, of |-> [t \in Tuples |-> [type |-> "Unknown"]]]
  /\ answer = {}

\* The machine does what it likes.
MachineStep ==
  /\ seen' = IF refreshing THEN With(seen, Facts') ELSE seen
  /\ answer' = {}
  /\ UNCHANGED <<refreshing, view>>

BeginRefresh ==
  /\ ~refreshing /\ ~Fresh
  /\ refreshing' = TRUE
  /\ seen' = Facts
  /\ answer' = {}
  /\ UNCHANGED <<machine, view>>

\* Something cannot be read.
ReadFails ==
  /\ refreshing
  /\ seen.unread \subseteq seen'.unread /\ seen.missed \subseteq seen'.missed
  /\ seen.nameless \subseteq seen'.nameless
  /\ seen' = [seen EXCEPT !.unread = seen'.unread, !.missed = seen'.missed,
                          !.nameless = seen'.nameless]
  /\ UNCHANGED <<machine, refreshing, view, answer>>

\* The refresh ends with a view and the question that made it necessary is answered.
EndRefresh(t) ==
  /\ refreshing /\ refreshing' = FALSE
  /\ view'.taken /\ view'.at = clock
  /\ view'.of \in [Tuples -> Origins]
  /\ \A u \in Tuples : Follows(view'.of[u], u, seen)
  /\ answer' = {[to |-> t, origin |-> Either(view'.of, t)]}
  /\ seen' = NoFacts
  /\ UNCHANGED machine

Answer(t) ==
  /\ ~refreshing /\ Fresh
  /\ answer' = {[to |-> t, origin |-> Either(view.of, t)]}
  /\ UNCHANGED <<machine, refreshing, seen, view>>

Next ==
  \/ MachineStep \/ BeginRefresh \/ ReadFails
  \/ \E t \in Tuples : EndRefresh(t) \/ Answer(t)

Spec == Init /\ [][Next]_vars
=============================================================================
