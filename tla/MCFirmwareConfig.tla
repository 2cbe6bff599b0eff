--------------------------- MODULE MCFirmwareConfig ---------------------------
(***************************************************************************)
(* Three adapters for TLC: a ConnectX-4 that knows no adaptive routing and *)
(* whose tool rejects unknown keys, an emulated ConnectX-7, and a DPU with *)
(* two ports; and two profiles that differ in every value.                 *)
(***************************************************************************)
EXTENDS FirmwareConfig

mcFns == <<"cx4", "air", "dpu">>

mcClass == [cx4 |-> "ConnectX4", air |-> "Air", dpu |-> "DPU"]

mcExposes ==
  [ cx4 |-> {"SRIOV_EN", "NUM_OF_VFS"},
    air |-> {"SRIOV_EN", "NUM_OF_VFS", "LINK_TYPE_P1", "ROCE_ADAPTIVE_ROUTING_EN"},
    dpu |-> {"SRIOV_EN", "NUM_OF_VFS", "LINK_TYPE_P1", "LINK_TYPE_P2",
             "ROCE_RTT_RESP_DSCP_P2", "INTERNAL_CPU_OFFLOAD_ENGINE"} ]

mcProfiles ==
  { [lt |-> Ethernet, cc |-> 1, vfs |-> 8, dpu |-> TRUE],
    [lt |-> 1, cc |-> 0, vfs |-> 0, dpu |-> FALSE] }

\* The environments: those that remember every request, and every fault.
mcFaultSets == {FaultKinds, FaultKinds \ Losing, FaultKinds \ {"foreign", "classify"}}
=============================================================================
