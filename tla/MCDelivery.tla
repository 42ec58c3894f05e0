------------------------------ MODULE MCDelivery ------------------------------
(* Instances of Delivery for TLC. *)
EXTENDS Delivery, TLC

CONSTANT agent

OneAgent == [d \in Deliveries |-> agent]

Symmetry == Permutations(Deliveries)
===============================================================================
