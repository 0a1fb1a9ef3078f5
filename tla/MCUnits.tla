------------------------------- MODULE MCUnits -------------------------------
(* Two processes and two windows of one app for TLC.                       *)
EXTENDS Units
CONSTANTS p1, p2, s1, w1, w2
=============================================================================
