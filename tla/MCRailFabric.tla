----------------------------- MODULE MCRailFabric -----------------------------
(***************************************************************************)
(* Two VFs of a rail for TLC, and a profile of every shape: legacy,        *)
(* switchdev, without VFs, InfiniBand, and one that names the rail anew.   *)
(***************************************************************************)
EXTENDS RailFabric

rail(link, eswitch, vfs, roce, name) ==
  [link |-> link, eswitch |-> eswitch, vfs |-> vfs, roce |-> roce, rail |-> name]

mcProfiles ==
  { rail("Ethernet", "legacy", TRUE, TRUE, "r0"),
    rail("Ethernet", "switchdev", TRUE, TRUE, "r0"),
    rail("Ethernet", "legacy", TRUE, FALSE, "r1"),
    rail("Ethernet", "legacy", FALSE, TRUE, "r0"),
    rail("InfiniBand", "legacy", TRUE, TRUE, "r0") }

mcFaultSets == {FaultKinds}
=============================================================================
