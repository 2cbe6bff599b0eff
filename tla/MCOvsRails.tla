------------------------------ MODULE MCOvsRails ------------------------------
(***************************************************************************)
(* Two rails for TLC, every fault.                                         *)
(***************************************************************************)
EXTENDS OvsRails

mcFaultSets == {FaultKinds}
=============================================================================
