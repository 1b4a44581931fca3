------------------------------- MODULE MCApp -------------------------------
(***************************************************************************)
(* Values for App: two flows, logs of at most two records of two kinds     *)
(* with different numbers of sections.                                     *)
(***************************************************************************)
EXTENDS App

MCSectionsFor == [b \in {"hello", "other"} |-> IF b = "hello" THEN 3 ELSE 2]
=============================================================================
