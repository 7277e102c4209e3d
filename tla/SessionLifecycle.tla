-------------------------- MODULE SessionLifecycle --------------------------
(***************************************************************************)
(* What a session promises to its clients: it is opened once, holds a      *)
(* conversation of turns that never overlap, may be folded into a summary  *)
(* between two turns, and once closed takes no further turn.               *)
(***************************************************************************)
EXTENDS Sequences

CONSTANTS
    Sid,        \* sessions
    Task,       \* requests; each takes at most one turn
    NoTask

VARIABLES
    phase,      \* Sid -> "none", "open" or "closed"
    turn,       \* Sid -> the request being answered, or NoTask
    talk        \* Sid -> the conversation

vars == <<phase, turn, talk>>

Entry(k, t) == [kind |-> k, by |-> t]

Init ==
    /\ phase = [s \in Sid |-> "none"]
    /\ turn = [s \in Sid |-> NoTask]
    /\ talk = [s \in Sid |-> <<>>]

Open(s) ==
    /\ phase[s] = "none"
    /\ phase' = [phase EXCEPT ![s] = "open"]
    /\ UNCHANGED <<turn, talk>>

Ask(s, t) ==
    /\ phase[s] = "open"
    /\ turn[s] = NoTask
    /\ turn' = [turn EXCEPT ![s] = t]
    /\ talk' = [talk EXCEPT ![s] = Append(@, Entry("user", t))]
    /\ UNCHANGED phase

\* The turn ends with an answer or without one; a session that lives for one
\* turn is closed in the same step.
Answer(s) ==
    /\ turn[s] # NoTask
    /\ turn' = [turn EXCEPT ![s] = NoTask]
    /\ talk' \in {talk, [talk EXCEPT ![s] = Append(@, Entry("output", turn[s]))]}
    /\ phase' \in {phase, [phase EXCEPT ![s] = "closed"]}

Fold(s, t) ==
    /\ phase[s] # "none"
    /\ turn[s] = NoTask
    /\ talk' = [talk EXCEPT ![s] = <<Entry("summary", t)>>]
    /\ UNCHANGED <<phase, turn>>

Shut(s) ==
    /\ phase[s] = "open"
    /\ turn[s] = NoTask
    /\ phase' = [phase EXCEPT ![s] = "closed"]
    /\ UNCHANGED <<turn, talk>>

Next ==
    \E s \in Sid :
        \/ Open(s)
        \/ Answer(s)
        \/ Shut(s)
        \/ \E t \in Task : Ask(s, t) \/ Fold(s, t)

Spec == Init /\ [][Next]_vars
=============================================================================
