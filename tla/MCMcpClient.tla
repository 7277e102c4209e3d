---------------------------- MODULE MCMcpClient -----------------------------
(* An instance of McpClient for TLC. *)
EXTENDS McpClient

CONSTANTS s1, s2, c1, c2

\* Two servers of one name: the second takes the place of the first.
TwoServers == {s1, s2}
InOrder    == <<s1, s2>>
Namesakes  == [s \in TwoServers |-> "files"]

\* The calls go to the second, which also speaks unasked.
Second     == {s2}
Unread     == [s \in TwoServers |-> IF s = s2 THEN 1 ELSE 0]

\* One of the calls is tried again once.
TwoCalls   == {c1, c2}
OneRetry   == [c \in TwoCalls |-> IF c = c1 THEN 1 ELSE 0]
=============================================================================
