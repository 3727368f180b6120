----------------------------- MODULE MCTopology -----------------------------
(* Topology on small instances: the last node lies at the cap, beyond the  *)
(* indices the walk tries.                                                 *)
EXTENDS Topology
=============================================================================
