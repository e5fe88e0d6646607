-------------------------- MODULE MCReactionEpisodes --------------------------
(* An instance of ReactionEpisodes for TLC: one high; the zone, the level's *)
(* far side and the departure threshold each have a price.                  *)
EXTENDS ReactionEpisodes

MCOne     == {"l1"}
MCPriceOf == [l \in Levels |-> 2]
=============================================================================
