------------------------------- MODULE GraphRun -------------------------------
(***************************************************************************)
(* What the run of a plan promises, whoever executes it and however often  *)
(* it is interrupted: a graph without cycles is walked once.  A node is    *)
(* completed when something completed called it and nothing still under    *)
(* way can; each completed node calls the successors of one route.         *)
(***************************************************************************)
CONSTANTS
  Nodes, Entry,  \* the plan's nodes and where it begins
  Fixed,         \* node -> successors by ordinary edges
  Branches       \* node -> successors its conditional edge chooses from

VARIABLES
  completed,     \* nodes whose result was adopted
  calls,         \* completed node -> the successors it called
  ended          \* the run was declared successful

graph_vars == <<completed, calls, ended>>

Leads == [n \in Nodes |-> Fixed[n] \cup Branches[n]]

\* node -> everything its routes may come to
Below ==
  [n \in Nodes |-> {m \in Nodes : \A S \in SUBSET Nodes :
     /\ Leads[n] \subseteq S
     /\ \A k \in S : Leads[k] \subseteq S
     => m \in S}]

Routes(n) == {Fixed[n] \cup R : R \in IF Branches[n] = {} THEN {{}} ELSE {{m} : m \in Branches[n]}}

UnderWay == {n \in Nodes \ completed : n = Entry \/ \E m \in completed : n \in calls[m]}

Init == completed = {} /\ calls = [n \in Nodes |-> {}] /\ ended = FALSE

Complete(n) ==
  /\ ~ended /\ n \notin completed
  /\ completed' = completed \cup {n}
  /\ n \in UnderWay /\ \A m \in UnderWay : n \notin Below[m]
  /\ \E route \in Routes(n) : calls' = [calls EXCEPT ![n] = route]
  /\ UNCHANGED ended

End ==
  /\ ~ended /\ ended' = TRUE
  /\ UnderWay = {}
  /\ UNCHANGED <<completed, calls>>

Next == End \/ \E n \in Nodes : Complete(n)

Spec == Init /\ [][Next]_graph_vars
=============================================================================
