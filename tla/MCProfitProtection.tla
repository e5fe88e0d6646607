-------------------------- MODULE MCProfitProtection --------------------------
(* An instance of ProfitProtection for TLC: two units of risk to the stop,   *)
(* activation at one risk, half a risk given back.                          *)
EXTENDS ProfitProtection

MCNets == {-2, -1, 2, 3, 4}
MCStop == -2
=============================================================================
