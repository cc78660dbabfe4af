-------------------------- MODULE MCVpnGateExits --------------------------
(* Instances of VpnGateExits: one or two slots, two or three candidates.   *)
EXTENDS VpnGateExits
=============================================================================
