-------------------------- MODULE MCSessionManager --------------------------
(* Instances of SessionManager for TLC. *)
EXTENDS SessionManager, TLC

CONSTANTS s1, t1, t2, t3

OneSession    == {s1}
ThreeRequests == {t1, t2, t3}

Interchangeable == Permutations(Task)
=============================================================================
