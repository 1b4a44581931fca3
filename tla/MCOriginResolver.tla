-------------------------- MODULE MCOriginResolver --------------------------
(***************************************************************************)
(* Values for OriginResolver: an IPv4 and an IPv6 connection, each between *)
(* two local endpoints both of whose sockets are listed, a process this    *)
(* user may read and one it may not.  Nothing tells the two ends of a      *)
(* connection apart.                                                       *)
(***************************************************************************)
EXTENDS OriginResolver
LOCAL INSTANCE TLC

CONSTANTS a4, b4, a6, b6

MCTuples == {<<a4, b4>>, <<b4, a4>>, <<a6, b6>>, <<b6, a6>>}
MCFamily == [t \in MCTuples |-> IF t[1] \in {a4, b4} THEN "tcp" ELSE "tcp6"]
MCUidOf == [p \in Pids |-> IF p \in Readable THEN 1 ELSE 2]

MCSymmetry == Permutations({a4, b4}) \cup Permutations({a6, b6})
=============================================================================
