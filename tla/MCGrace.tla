------------------------------- MODULE MCGrace -------------------------------
(* The instances of MCGovernor, for GovernorGrace.                         *)
EXTENDS GovernorGrace, MCGovernor
=============================================================================
