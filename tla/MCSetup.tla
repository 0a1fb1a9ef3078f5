------------------------------- MODULE MCSetup -------------------------------
(* Computers for TLC: a fresh one, one where an older version runs from    *)
(* the user's copy, one with the package installed.                        *)
EXTENDS Setup

AllFiles(c) == [f \in UserFiles |-> c]

ThreeMachines ==
    {[disk |-> AllFiles("absent"),
      service |-> [enabled |-> FALSE, package |-> FALSE, running |-> "nothing"]],
     [disk |-> AllFiles("old"),
      service |-> [enabled |-> TRUE, package |-> FALSE, running |-> "user"]],
     [disk |-> AllFiles("absent"),
      service |-> [enabled |-> FALSE, package |-> TRUE, running |-> "nothing"]]}
=============================================================================
