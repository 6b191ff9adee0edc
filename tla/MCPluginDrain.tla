---------------------------- MODULE MCPluginDrain ----------------------------
(***************************************************************************)
(* A chain of plugins, r -> m -> d: m and d are replaced together while a  *)
(* user acquires r.                                                        *)
(***************************************************************************)
EXTENDS PluginGenerations

CONSTANTS u1, h1

MCNames    == {"r", "m", "d"}
MCDeps     == [n \in MCNames |-> CASE n = "r" -> <<"m">> [] n = "m" -> <<"d">> [] n = "d" -> <<>>]
MCRequests == {<<"r">>}
MCBatches  == {{"m", "d"}}
=============================================================================
