------------------------------- MODULE MCMeter -------------------------------
(* Instances of Meter for TLC.                                             *)
EXTENDS Meter

(* On battery; on battery with no reading; charging, while the package     *)
(* wraps its counter; on AC under a load the adapter does not carry.       *)
FourReadings ==
    {[w |-> 2, ac |-> FALSE, status |-> "Discharging", draw |-> 1, readable |-> TRUE],
     [w |-> NoReading, ac |-> FALSE, status |-> "Discharging", draw |-> 1, readable |-> FALSE],
     [w |-> 1, ac |-> TRUE, status |-> "Charging", draw |-> 3, readable |-> TRUE],
     [w |-> 1, ac |-> TRUE, status |-> "Discharging", draw |-> 0, readable |-> TRUE]}
=============================================================================
