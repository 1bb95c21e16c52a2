--------------------------- MODULE MCDeliveryQueue ---------------------------
(* Small instances of DeliveryQueue for TLC. *)
EXTENDS DeliveryQueue, TLC

\* Every job carries an event of the same monitor.
OneMonitor == [j \in Jobs |-> Monitors]

\* Graph jobs carry events of all monitors, the others of a single one.
FlowOverTwo == [j \in Jobs |-> IF j \in FlowJobs THEN Monitors
                               ELSE {CHOOSE m \in Monitors : TRUE}]

Symmetry == Permutations(Workers)
=============================================================================
