------------------------- MODULE MCPricingDataCache -------------------------
(***************************************************************************)
(* A small instance of PricingDataCache for TLC: two tables, changed by    *)
(* transactions that touch both, so that parallel reads can be torn.       *)
(***************************************************************************)
EXTENDS PricingDataCache

CONSTANTS coefficients, products

MCTable == {coefficients, products}
MCTouched == {MCTable}
=============================================================================
