--------------------------- MODULE MCWorkflowStale ---------------------------
(***************************************************************************)
(* One execution whose unsafe first step is followed by a safe one: a      *)
(* recovery may have read it while it still ran.                           *)
(***************************************************************************)
EXTENDS WorkflowExecutor

CONSTANTS r1, r2

MCSteps == <<"s1", "s2">>
MCNeeds == [s \in {"s1", "s2"} |-> IF s = "s2" THEN {"s1"} ELSE {}]
=============================================================================
