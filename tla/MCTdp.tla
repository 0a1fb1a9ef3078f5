-------------------------------- MODULE MCTdp --------------------------------
(* Two windows for TLC.                                                    *)
EXTENDS Tdp

CONSTANTS w1, w2
=============================================================================
