---------------------------- MODULE MCX1Collector ----------------------------
(***************************************************************************)
(* Small instances of X1Collector.  Every constant is a number, a set of   *)
(* numbers, a boolean or a model value, so the .cfg files give them all.   *)
(***************************************************************************)
EXTENDS X1Collector
===============================================================================
