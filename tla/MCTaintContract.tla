--------------------------- MODULE MCTaintContract ---------------------------
(***************************************************************************)
(* TaintContract has no sets to instantiate: the configurations only choose*)
(* the policy and the faults.                                              *)
(***************************************************************************)
EXTENDS TaintContract
=============================================================================
