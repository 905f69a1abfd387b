--------------------------- MODULE MCEntitlements ---------------------------
(* Small instances of Entitlements: every session buys tier 2.             *)
EXTENDS Entitlements

MCTier == [s \in Sessions |-> 2]
==============================================================================
