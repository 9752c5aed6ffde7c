------------------------------ MODULE MCBroker ------------------------------
(* Broker on small instances: what the .cfg files need.                    *)
EXTENDS Broker, TLC

(* Threads and ids are interchangeable: nothing in Broker names one.       *)
Symmetry == Permutations(Threads) \cup Permutations(Ids)
=============================================================================
