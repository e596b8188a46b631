------------------------ MODULE MCProductionDelivery ------------------------
EXTENDS ProductionDelivery

(* Two releases, the second with one migration more.                           *)
MCSources == {"v1", "v2"}
MCHorizon == [s \in MCSources |-> IF s = "v1" THEN 1 ELSE 2]

(* One delivery that another writer and a lost answer disturb, and two          *)
(* deliveries in turn, of which one call fails.                                 *)
MCBudgets == {[runs |-> 1, foreign |-> 1, lost |-> 1], [runs |-> 2, foreign |-> 0, lost |-> 1]}
=============================================================================
