------------------------------- MODULE MCFeed -------------------------------
(* Two windows for TLC, of two apps at first.                              *)
EXTENDS Feed

CONSTANTS w1, w2, a, b, gui

TwoWindows == {[w \in Windows |-> IF w = w1 THEN a ELSE b]}
=============================================================================
