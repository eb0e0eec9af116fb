---------------------------- MODULE MCPrDelivery ----------------------------
(* An instance of PrDelivery. *)
EXTENDS PrDelivery

Anyone == {"server", "cli"}
=============================================================================
