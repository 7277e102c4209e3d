------------------------ MODULE MCPermissionManager -------------------------
(* Instances of PermissionManager for TLC. *)
EXTENDS PermissionManager, TLC

CONSTANTS s1, s2, c1, c2, c3, bash, write_file

Sessions   == {s1, s2}
TwoCalls   == {c1, c2}
ThreeCalls == {c1, c2, c3}
Tools      == {bash, write_file}

\* DEFAULT_POLICIES (policy.py:40-46) asks for both tools.
AskForAll  == [u \in Tools |-> "ask"]

On(s, u, x) == [session |-> s, tool |-> u, command |-> x]

\* Two sessions that share a tool, and a command that reaches outside.
Subjects == {On(s1, bash, "ordinary"), On(s2, bash, "outside"),
             On(s1, bash, "listed")}

\* Calls of one session only, for what does not involve two.
OneSubject == {On(s1, bash, "ordinary")}

OnlyS2    == {s2}

Interchangeable == Permutations(Call)
=============================================================================
