---------------------------- MODULE MCAgentNetwork ----------------------------
(***************************************************************************)
(* One agent of a network and the goroutines that send it messages.        *)
(***************************************************************************)
EXTENDS AgentNetwork

CONSTANT a

MCHome  == [c \in Callers |-> a]
MCKinds == [c \in Callers |-> {"send"}]
=============================================================================
