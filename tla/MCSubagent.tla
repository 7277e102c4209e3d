----------------------------- MODULE MCSubagent -----------------------------
(* Instances of Subagent for TLC. *)
EXTENDS Subagent

\* A child with all tools, and one that can only plan.
AllOrPlanner == {Tools, {"tasks"}}

\* The root plans and makes four calls, its first two children one each.
Calls    == [a \in Agent |-> CASE a = Root -> 4 [] a \in {1, 2} -> 1 [] OTHER -> 0]
OnlyRoot == {Root}
=============================================================================
