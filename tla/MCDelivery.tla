----------------------------- MODULE MCDelivery -----------------------------
(* Small instances of Delivery: monitors that deliver to both channels.    *)
EXTENDS Delivery

CONSTANTS c1, c2

MCTargets == [m \in Monitors |-> <<c1, c2>>]
==============================================================================
