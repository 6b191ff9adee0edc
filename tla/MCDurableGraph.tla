--------------------------- MODULE MCDurableGraph ---------------------------
(***************************************************************************)
(* a calls b always and one of c and d; b and c lead to d; b may ask.      *)
(***************************************************************************)
EXTENDS DurableGraph

CONSTANTS w1, w2

MCTasks == {"a", "b", "c", "d"}
MCOrder == <<"a", "b", "c", "d">>
MCFixed == [n \in MCTasks |-> IF n = "a" THEN {"b"} ELSE IF n = "d" THEN {} ELSE {"d"}]
MCBranches == [n \in MCTasks |-> IF n = "a" THEN {"c", "d"} ELSE {}]
MCAsking == {"b"}

\* The two workers are interchangeable.
Symmetry == Permutations({w1, w2})
=============================================================================
