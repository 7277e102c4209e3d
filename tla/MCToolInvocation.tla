-------------------------- MODULE MCToolInvocation --------------------------
(* Instances of ToolInvocation for TLC. *)
EXTENDS ToolInvocation

CONSTANTS s1, s2, c1, c2, bash, read_file

Sessions == {s1, s2}
TwoCalls == {c1, c2}
Tools    == {bash, read_file}
Defaults == [u \in Tools |-> IF u = bash THEN "ask" ELSE "allow"]

On(s, u, x) == [session |-> s, tool |-> u, command |-> x]

\* Commands of every kind and a tool that is allowed, in two sessions.
Subjects == {On(s1, bash, "ordinary"), On(s2, bash, "outside"),
             On(s1, bash, "denied"), On(s1, bash, "listed"), On(s1, read_file, "ordinary")}
NoSession == {}
=============================================================================
