--------------------------- MODULE ToolInvocation ---------------------------
(***************************************************************************)
(* One tool call from the model's request to its result: invoke_tool of    *)
(* tools/invocation.py, with the permission gate it passes on the way.     *)
(*                                                                         *)
(* The calls of several runs (and of subagents, which are called from a    *)
(* tool) are under way at once and share the gate.  An action is again     *)
(* what a task does between two awaits; an event is published where its    *)
(* await begins.                                                           *)
(***************************************************************************)
EXTENDS Naturals, Sequences, FiniteSets

CONSTANTS
    Call, Session, Tool, Bash, Default, Subject, TimeoutOn, Losable, MaxRestarts,
    MaxRetries      \* _MAX_RETRIES

ASSUME MaxRetriesAssumption == MaxRetries \in Nat

\* What the gate assumes of its constants.
ASSUME GateAssumption ==
    /\ Bash \in Tool
    /\ \A b \in Subject :
          /\ b \in [session : Session, tool : Tool,
                    command : {"ordinary", "denied", "outside", "listed"}]
          /\ b.tool # Bash => b.command = "ordinary"
    /\ Default \in [Tool -> {"allow", "deny", "ask"}]
    /\ TimeoutOn \in BOOLEAN
    /\ Losable \subseteq Session
    /\ MaxRestarts \in Nat

VARIABLES
    pc, about, pending, future, timer, session_always, persistent_always,
    policy_file, verdict, connected, restarts, accepted,
    stage,          \* the await invoke_tool is suspended in
    attempt,        \* the execution the call is at
    events,         \* what has been published about the call
    executions      \* history: how often the tool was entered

Gate == INSTANCE PermissionManager

gateVars == <<pc, about, pending, future, timer, session_always, persistent_always,
              policy_file, verdict, connected, restarts, accepted>>
vars     == <<gateVars, stage, attempt, events, executions>>

Event == {"started", "requested", "granted", "denied", "finished", "failed"}
Stage == {"idle", "started", "asking", "granted", "denied", "running", "failed",
          "sleeping", "ending", "ended", "cancelled"}
Over  == {"idle", "ended", "cancelled"}

-----------------------------------------------------------------------------
Init ==
    /\ Gate!Init
    /\ stage = [c \in Call |-> "idle"]
    /\ attempt = [c \in Call |-> 0]
    /\ events = [c \in Call |-> <<>>]
    /\ executions = [c \in Call |-> 0]

GoTo(c, s) == stage' = [stage EXCEPT ![c] = s]

Publish(c, e) == events' = [events EXCEPT ![c] = Append(@, e)]

\* _fail publishes the last event of the call.
Fail(c) ==
    /\ GoTo(c, "ending")
    /\ Publish(c, "failed")
    /\ UNCHANGED <<attempt, executions>>

\* The tool is entered.
Execute(c) ==
    /\ GoTo(c, "running")
    /\ attempt' = [attempt EXCEPT ![c] = @ + 1]
    /\ executions' = [executions EXCEPT ![c] = @ + 1]
    /\ UNCHANGED events

Start(c) ==
    /\ stage[c] = "idle"
    /\ GoTo(c, "started")
    /\ Publish(c, "started")
    /\ UNCHANGED <<gateVars, attempt, executions>>

\* The tool does not exist, or the parameters do not match its schema.
Reject(c) ==
    /\ stage[c] = "started"
    /\ Fail(c)
    /\ UNCHANGED gateVars

\* The gate settles the call by itself; no event says so.
Automatic(c) ==
    /\ stage[c] = "started"
    /\ \E b \in Subject : Gate!Decide(c, b)
    /\ \/ verdict'[c] = "auto_allow" /\ Execute(c)
       \/ verdict'[c] = "auto_deny" /\ Fail(c)

Request(c) ==
    /\ stage[c] = "started"
    /\ \E b \in Subject : Gate!Ask(c, b)
    /\ GoTo(c, "asking")
    /\ Publish(c, "requested")
    /\ UNCHANGED <<attempt, executions>>

\* The gate has settled the call, and these verdicts let it through.
Told(c, allowing) ==
    \/ /\ verdict'[c] \in allowing
       /\ GoTo(c, "granted")
       /\ Publish(c, "granted")
    \/ /\ verdict'[c] \notin allowing
       /\ GoTo(c, "denied")
       /\ Publish(c, "denied")

GateContinues(c) ==
    /\ stage[c] = "asking"
    /\ Gate!Emitted(c) \/ Gate!Answered(c) \/ Gate!TimedOut(c)
    /\ UNCHANGED <<attempt, executions>>

\* Deviation: only an explicit denial stops the call.
SettledLoosely(c) ==
    /\ GateContinues(c)
    /\ \/ pc'[c] = "waiting" /\ UNCHANGED <<stage, events>>
       \/ pc'[c] = "done" /\ Told(c, Gate!Allowing \cup {"timeout"})

\* Deviation: a request that times out is failed without being denied.
SettledSilently(c) ==
    /\ GateContinues(c)
    /\ \/ pc'[c] = "waiting" /\ UNCHANGED <<stage, events>>
       \/ /\ pc'[c] = "done"
          /\ IF verdict'[c] = "timeout"
             THEN GoTo(c, "denied") /\ UNCHANGED events
             ELSE Told(c, Gate!Allowing)

\* Deviation: the TimeoutError of wait_for is not caught.
SettledUncaught(c) ==
    /\ GateContinues(c)
    /\ \/ pc'[c] = "waiting" /\ UNCHANGED <<stage, events>>
       \/ pc'[c] = "done" /\ verdict'[c] # "timeout" /\ Told(c, Gate!Allowing)

\* The task runs inside check_and_wait until it waits or has a verdict.
Settled(c) ==
    /\ GateContinues(c)
    /\ \/ pc'[c] = "waiting" /\ UNCHANGED <<stage, events>>
       \/ pc'[c] = "done" /\ Told(c, Gate!Allowing)

\* permission.granted or permission.denied is published.
Enter(c) ==
    /\ \/ stage[c] = "granted" /\ Execute(c)
       \/ stage[c] = "denied" /\ Fail(c)
    /\ UNCHANGED gateVars

-----------------------------------------------------------------------------
(* Execution *)

Succeed(c) ==
    /\ stage[c] = "running"
    /\ GoTo(c, "ending")
    /\ Publish(c, "finished")
    /\ UNCHANGED <<gateVars, attempt, executions>>

\* Deviation: a retry is not reported.
RetryQuietly(c) ==
    /\ stage[c] = "running"
    /\ attempt[c] <= MaxRetries
    /\ GoTo(c, "failed")
    /\ UNCHANGED <<gateVars, attempt, events, executions>>

\* Deviation: one retry too many.
RetryOnceMore(c) ==
    /\ stage[c] = "running"
    /\ attempt[c] <= MaxRetries + 1
    /\ GoTo(c, "failed")
    /\ Publish(c, "failed")
    /\ UNCHANGED <<gateVars, attempt, executions>>

\* runtime_error, rate_limited or an exception: the attempt is reported.
RetryLater(c) ==
    /\ stage[c] = "running"
    /\ attempt[c] <= MaxRetries
    /\ GoTo(c, "failed")
    /\ Publish(c, "failed")
    /\ UNCHANGED <<gateVars, attempt, executions>>

\* The tool timed out, failed for good, or has used up its retries.
GiveUp(c) ==
    /\ stage[c] = "running"
    /\ Fail(c)
    /\ UNCHANGED gateVars

\* tool.call_failed of an attempt is published; the back-off begins.
Sleep(c) ==
    /\ stage[c] = "failed"
    /\ GoTo(c, "sleeping")
    /\ UNCHANGED <<gateVars, attempt, events, executions>>

Retry(c) ==
    /\ stage[c] = "sleeping"
    /\ Execute(c)
    /\ UNCHANGED gateVars

\* The last event is published and the result returned.
End(c) ==
    /\ stage[c] = "ending"
    /\ GoTo(c, "ended")
    /\ UNCHANGED <<gateVars, attempt, events, executions>>

-----------------------------------------------------------------------------
(* What happens to a call from outside *)

\* The task is cancelled: no further event is published.
Cancel(c) ==
    /\ stage[c] \notin Over
    /\ IF stage[c] = "asking" THEN Gate!Cancel(c) ELSE UNCHANGED gateVars
    /\ GoTo(c, "cancelled")
    /\ UNCHANGED <<attempt, events, executions>>

\* An answer or the timer changes only the gate.
Outside(c) ==
    /\ Gate!TimerFires(c) \/ \E d \in Gate!Answer : Gate!Respond(c, d)
    /\ UNCHANGED <<stage, attempt, events, executions>>

-----------------------------------------------------------------------------
Proceed(c) ==
    \/ Reject(c)
    \/ Automatic(c)
    \/ Request(c)
    \/ Settled(c)
    \/ Enter(c)
    \/ Succeed(c)
    \/ RetryLater(c)
    \/ GiveUp(c)
    \/ Sleep(c)
    \/ Retry(c)
    \/ End(c)

Next == \E c \in Call : Start(c) \/ Proceed(c) \/ Cancel(c) \/ Outside(c)

Spec == Init /\ [][Next]_vars

\* The call waits until its event has been published to every client.
Publishing(c) ==
    \/ stage[c] \in {"started", "granted", "denied", "failed", "ending"}
    \/ stage[c] = "asking" /\ pc[c] = "emitting"

\* The event loop runs what is ready; wait_for ends every execution and,
\* when permission.timeout_s is set, every question.  Nobody has to answer,
\* and nothing says that a publication ends.
Fairness ==
    \A c \in Call :
        /\ WF_vars(~Publishing(c) /\ Proceed(c))
        /\ WF_vars(Gate!TimerFires(c) /\ UNCHANGED <<stage, attempt, events, executions>>)

FairSpec == Spec /\ Fairness

-----------------------------------------------------------------------------
(* Properties *)

TypeOK ==
    /\ Gate!TypeOK
    /\ stage \in [Call -> Stage]
    /\ attempt \in [Call -> 0 .. MaxRetries + 1]
    /\ events \in [Call -> Seq(Event)]
    /\ executions \in [Call -> 0 .. MaxRetries + 1]

Count(c, E) == Cardinality({i \in 1 .. Len(events[c]) : events[c][i] \in E})

\* A tool is entered only with consent, in its first execution and in every
\* retry, and the client has been told whenever somebody was asked.
ExecutedWithConsent ==
    \A c \in Call :
        executions[c] > 0 =>
            /\ verdict[c] \in Gate!Allowing
            /\ Gate!AllowNeedsConsent
            /\ Count(c, {"granted"}) = Count(c, {"requested"})

\* Each request for approval that was published is followed by a published
\* permission.granted or permission.denied before the call goes on or ends, by
\* whatever way it was settled (invocation.py:107-142): only a cancelled call
\* leaves one without.  What a client makes of the event is its own matter: the
\* TUI handles permission.denied alone (app.py:1028).
PromptIsClosed ==
    \A c \in Call :
        stage[c] \notin {"asking", "cancelled"} =>
            Count(c, {"requested"}) = Count(c, {"granted", "denied"})

\* A call that has ended was reported once and for all: the last event and
\* no other is final.  Each earlier failure was followed by one more
\* execution.
ReportedOnce ==
    \A c \in Call :
        stage[c] = "ended" =>
            /\ events[c][Len(events[c])] \in {"finished", "failed"}
            /\ Count(c, {"finished", "failed"}) =
                  IF executions[c] = 0 THEN 1 ELSE executions[c]

\* What invoke_tool does not see to: that a publication ends.  It waits for the
\* drain of every client, without a time limit (ipc_broadcaster.py:68).
PublicationsEnd == \A c \in Call : WF_vars(Publishing(c) /\ Proceed(c))

\* Every call that is started ends, if clients read what is published: nobody
\* has to answer, and the tool may hang or fail again and again.
CallEnds ==
    PublicationsEnd =>
        \A c \in Call : stage[c] = "started" ~> stage[c] \in {"ended", "cancelled"}
=============================================================================
