------------------------- MODULE PermissionManager --------------------------
(***************************************************************************)
(* The permission gate in front of every tool call: permissions/manager.py *)
(* with the policy file of permissions/storage.py.                         *)
(*                                                                         *)
(* A call is named by its tool_use_id.  It is either settled by rules and  *)
(* remembered decisions at once, or parked on a future until a client      *)
(* answers, the timer of asyncio.wait_for fires, or its task is cancelled. *)
(* An action is what happens between two suspensions.                      *)
(*                                                                         *)
(* A bash command is abstracted to what the rules tell apart: it matches a *)
(* deny pattern, it reaches outside the working directory, it matches an   *)
(* allow pattern, or none of these.  Other tools have no command.          *)
(***************************************************************************)
EXTENDS Naturals, FiniteSets

CONSTANTS
    Call,           \* tool_use_ids
    Session,
    Tool,
    Bash,           \* the tool whose command is inspected
    Default,        \* Tool -> policy default; an unknown tool is "ask"
    Subject,        \* bound: the sessions, tools and commands calls are about
    TimeoutOn,      \* permission.timeout_s > 0
    Losable,        \* bound: the sessions whose client may go away
    MaxRestarts     \* bound: how often the daemon is restarted

Command == {"ordinary", "denied", "outside", "listed"}

ASSUME BashAssumption == Bash \in Tool
ASSUME SubjectAssumption ==
    \A b \in Subject :
        /\ b \in [session : Session, tool : Tool, command : Command]
        /\ b.tool # Bash => b.command = "ordinary"
ASSUME DefaultAssumption == Default \in [Tool -> {"allow", "deny", "ask"}]
ASSUME TimeoutAssumption == TimeoutOn \in BOOLEAN
ASSUME LosableAssumption == Losable \subseteq Session
ASSUME RestartAssumption == MaxRestarts \in Nat

VARIABLES
    pc,             \* where the task of a call is
    about,          \* the session, tool and command of a call
    pending,        \* keys of _pending
    future,         \* the future of a call
    timer,          \* the timeout of wait_for
    session_always, \* _session_always
    persistent_always,
    policy_file,    \* policy.toml on disk
    verdict,        \* what check_and_wait returned, as its decision string
    connected,      \* the sessions whose client is still there
    restarts,
    accepted        \* history: the answer that respond() put into the future

callVars   == <<pc, about, timer, verdict>>
futureVars == <<pending, future, accepted>>
cacheVars  == <<session_always, persistent_always, policy_file>>
vars       == <<callVars, futureVars, cacheVars, connected, restarts>>

-----------------------------------------------------------------------------
(* Data *)

Answer   == {"allow_once", "always_allow", "deny_once", "always_deny"}
Allowing == {"allow_once", "always_allow", "auto_allow"}
Memory   == {"none", "allow", "deny"}
Verdict  == Answer \cup {"none", "auto_allow", "auto_deny", "timeout", "cancelled"}
Where    == {"idle", "emitting", "waiting", "done"}

\* A call that has not been made is about nothing.
Nothing == [session |-> "none", tool |-> "none", command |-> "ordinary"]

-----------------------------------------------------------------------------
Init ==
    /\ pc = [c \in Call |-> "idle"]
    /\ about = [c \in Call |-> Nothing]
    /\ pending = {}
    /\ future = [c \in Call |-> "none"]
    /\ timer = [c \in Call |-> "off"]
    /\ session_always = [s \in Session |-> [u \in Tool |-> "none"]]
    /\ persistent_always = [u \in Tool |-> "none"]
    /\ policy_file = [u \in Tool |-> "none"]
    /\ verdict = [c \in Call |-> "none"]
    /\ connected = Session
    /\ restarts = 0
    /\ accepted = [c \in Call |-> "none"]

-----------------------------------------------------------------------------
(* check_and_wait *)

\* The remembered decision for a call, the session's own before the shared.
Remembered(b) ==
    IF session_always[b.session][b.tool] # "none"
    THEN session_always[b.session][b.tool]
    ELSE persistent_always[b.tool]

\* Deviation: the caches are consulted before the command is looked at.
EvaluateCachesFirst(b) ==
    IF b.command = "denied" THEN "deny"
    ELSE IF Remembered(b) # "none" THEN Remembered(b)
    ELSE IF b.command = "outside" THEN "ask"
    ELSE IF b.command = "listed" THEN "allow"
    ELSE Default[b.tool]

\* The tiers, in the order of the code: deny patterns; commands that reach
\* outside are always asked about; remembered decisions; allow patterns; the
\* default of the tool.
Evaluate(b) ==
    IF b.command = "denied" THEN "deny"
    ELSE IF b.command = "outside" THEN "ask"
    ELSE IF Remembered(b) # "none" THEN Remembered(b)
    ELSE IF b.command = "listed" THEN "allow"
    ELSE Default[b.tool]

Settle(c, v) ==
    /\ pc' = [pc EXCEPT ![c] = "done"]
    /\ verdict' = [verdict EXCEPT ![c] = v]

\* Tiers 1 to 6 settle the call without suspending.
Decide(c, b) ==
    /\ pc[c] = "idle"
    /\ about' = [about EXCEPT ![c] = b]
    /\ \/ Evaluate(b) = "allow" /\ Settle(c, "auto_allow")
       \/ Evaluate(b) = "deny" /\ Settle(c, "auto_deny")
    /\ UNCHANGED <<timer, futureVars, cacheVars, connected, restarts>>

\* The call is put into _pending and permission.requested is published.
Ask(c, b) ==
    /\ pc[c] = "idle"
    /\ about' = [about EXCEPT ![c] = b]
    /\ Evaluate(b) = "ask"
    /\ pending' = pending \cup {c}
    /\ future' = [future EXCEPT ![c] = "unset"]
    /\ pc' = [pc EXCEPT ![c] = "emitting"]
    /\ UNCHANGED <<timer, verdict, accepted, cacheVars, connected, restarts>>

\* Deviation: what the client sent is remembered as it came.
RememberVerbatim(c, d, m) ==
    LET b == about[c] IN
    /\ session_always' = [session_always EXCEPT ![b.session][b.tool] = d]
    /\ persistent_always' = [persistent_always EXCEPT ![b.tool] = m]
    /\ policy_file' \in {policy_file, persistent_always'}
    /\ Settle(c, d)

\* _apply_response: an "always" is remembered for the session and for all,
\* and the file is rewritten; a failing write is logged and forgotten.
Remember(c, d, m) ==
    LET b == about[c] IN
    /\ session_always' = [session_always EXCEPT ![b.session][b.tool] = m]
    /\ persistent_always' = [persistent_always EXCEPT ![b.tool] = m]
    /\ policy_file' \in {policy_file, persistent_always'}
    /\ Settle(c, d)

Apply(c, d) ==
    \/ d = "always_allow" /\ Remember(c, d, "allow")
    \/ d = "always_deny" /\ Remember(c, d, "deny")
    \/ d \in {"allow_once", "deny_once"} /\ Settle(c, d) /\ UNCHANGED cacheVars

\* The event is out.  A future that is done already is read without
\* suspending, so no timer can interfere; else the task waits.
Emitted(c) ==
    /\ pc[c] = "emitting"
    /\ \/ /\ future[c] # "unset"
          /\ Apply(c, future[c])
          /\ UNCHANGED timer
       \/ /\ future[c] = "unset"
          /\ pc' = [pc EXCEPT ![c] = "waiting"]
          /\ timer' = [timer EXCEPT ![c] = IF TimeoutOn THEN "armed" ELSE "off"]
          /\ UNCHANGED <<verdict, cacheVars>>
    /\ UNCHANGED <<about, futureVars, connected, restarts>>

\* The timer cancels the task, and with it the future if nobody has answered.
TimerFires(c) ==
    /\ pc[c] = "waiting"
    /\ timer[c] = "armed"
    /\ timer' = [timer EXCEPT ![c] = "fired"]
    /\ future' = [future EXCEPT ![c] = IF @ = "unset" THEN "void" ELSE @]
    /\ UNCHANGED <<pc, about, pending, verdict, accepted, cacheVars, connected,
                   restarts>>

\* Deviation: the entry of a call that timed out is not removed.
TimedOutKept(c) ==
    /\ pc[c] = "waiting"
    /\ timer[c] = "fired"
    /\ Settle(c, "timeout")
    /\ UNCHANGED <<about, timer, futureVars, cacheVars, connected, restarts>>

\* A fired timer turns into TimeoutError whatever the future holds by then.
TimedOut(c) ==
    /\ pc[c] = "waiting"
    /\ timer[c] = "fired"
    /\ pending' = pending \ {c}
    /\ Settle(c, "timeout")
    /\ UNCHANGED <<about, timer, future, accepted, cacheVars, connected, restarts>>

\* The future has been resolved and the waiting task runs before any timer.
Answered(c) ==
    /\ pc[c] = "waiting"
    /\ timer[c] # "fired"
    /\ future[c] \in Answer
    /\ Apply(c, future[c])
    /\ UNCHANGED <<about, timer, futureVars, connected, restarts>>

\* The task of the call is cancelled: the tool timeout of the spawn_agent it
\* runs under, or shutdown.  Only TimeoutError is caught: the entry stays.
Cancel(c) ==
    /\ pc[c] \in {"emitting", "waiting"}
    /\ future' = [future EXCEPT ![c] =
                     IF pc[c] = "waiting" /\ @ = "unset" THEN "void" ELSE @]
    /\ Settle(c, "cancelled")
    /\ UNCHANGED <<about, timer, pending, accepted, cacheVars, connected, restarts>>

-----------------------------------------------------------------------------
(* respond, and the world around the manager *)

\* Deviation: the decision is remembered when it arrives, not when the call
\* takes it.
RespondRemembers(c, d) ==
    /\ c \in pending
    /\ pending' = pending \ {c}
    /\ future' = [future EXCEPT ![c] = IF @ = "unset" THEN d ELSE @]
    /\ accepted' = [accepted EXCEPT ![c] = IF future[c] = "unset" THEN d ELSE @]
    /\ d = "always_allow"
    /\ session_always' =
          [session_always EXCEPT ![about[c].session][about[c].tool] = "allow"]
    /\ UNCHANGED <<callVars, persistent_always, policy_file, connected, restarts>>

\* Deviation: the entry is looked up and left where it is, and a second
\* answer replaces the first.
RespondAgain(c, d) ==
    /\ c \in pending
    /\ future' = [future EXCEPT ![c] = d]
    /\ accepted' = [accepted EXCEPT ![c] = d]
    /\ UNCHANGED <<callVars, pending, cacheVars, connected, restarts>>

\* A client answers, the session's own or any other.  An answer to a call that
\* is not pending changes nothing; every answer is acknowledged with ok.
Respond(c, d) ==
    /\ c \in pending
    /\ pending' = pending \ {c}
    /\ future' = [future EXCEPT ![c] = IF @ = "unset" THEN d ELSE @]
    /\ accepted' = [accepted EXCEPT ![c] = IF future[c] = "unset" THEN d ELSE @]
    /\ UNCHANGED <<callVars, cacheVars, connected, restarts>>

\* The connection of the session's client ends.  SocketServer drops its
\* subscriptions; nothing calls cancel_session.
Disconnect(s) ==
    /\ s \in connected \cap Losable
    /\ connected' = connected \ {s}
    /\ UNCHANGED <<callVars, futureVars, cacheVars, restarts>>

\* The daemon ends and is started again: its tasks are gone, __init__ loads
\* the policy file, clients connect anew.
Restart ==
    /\ restarts < MaxRestarts
    /\ restarts' = restarts + 1
    /\ pc' = [c \in Call |-> IF pc[c] = "idle" THEN "idle" ELSE "done"]
    /\ verdict' = [c \in Call |->
                     IF pc[c] \in {"emitting", "waiting"} THEN "cancelled" ELSE verdict[c]]
    /\ timer' = [c \in Call |-> "off"]
    /\ pending' = {}
    /\ future' = [c \in Call |-> "none"]
    /\ session_always' = [s \in Session |-> [u \in Tool |-> "none"]]
    /\ persistent_always' = policy_file
    /\ connected' = Session
    /\ UNCHANGED <<about, policy_file, accepted>>

-----------------------------------------------------------------------------
Step(c) ==
    \/ \E b \in Subject : Decide(c, b) \/ Ask(c, b)
    \/ Emitted(c)
    \/ TimerFires(c)
    \/ TimedOut(c)
    \/ Answered(c)

Next ==
    \/ \E c \in Call : Step(c) \/ Cancel(c) \/ \E d \in Answer : Respond(c, d)
    \/ \E s \in Session : Disconnect(s)
    \/ Restart

Spec == Init /\ [][Next]_vars

\* The loop runs tasks whose await is over, and timers that are due.  Nobody
\* has to answer.
Fairness ==
    \A c \in Call : WF_vars(Emitted(c) \/ TimerFires(c) \/ TimedOut(c) \/ Answered(c))

FairSpec == Spec /\ Fairness

-----------------------------------------------------------------------------
(* Properties *)

TypeOK ==
    /\ pc \in [Call -> Where]
    /\ about \in [Call -> Subject \cup {Nothing}]
    /\ \A c \in Call : pc[c] # "idle" => about[c] \in Subject
    /\ pending \subseteq Call
    /\ future \in [Call -> Answer \cup {"none", "unset", "void"}]
    /\ timer \in [Call -> {"off", "armed", "fired"}]
    /\ session_always \in [Session -> [Tool -> Memory]]
    /\ persistent_always \in [Tool -> Memory]
    /\ policy_file \in [Tool -> Memory]
    /\ verdict \in [Call -> Verdict]
    /\ connected \subseteq Session
    /\ restarts \in 0 .. MaxRestarts
    /\ accepted \in [Call -> Answer \cup {"none"}]

\* A user has said "always allow" to a call of this tool, and the call took it.
Consented(u) ==
    \E c \in Call : about[c].tool = u /\ verdict[c] = "always_allow"

\* No call is let through unless a user, a rule or the tool's default allows
\* it: never when it matches a deny pattern, and when it reaches outside the
\* working directory only by an answer to that very call, whatever has been
\* remembered by other sessions or before a restart (manager.py:76-112).
AllowNeedsConsent ==
    \A c \in Call :
        verdict[c] \in Allowing =>
            /\ about[c].command # "denied"
            /\ \/ accepted[c] \in {"allow_once", "always_allow"}
               \/ /\ about[c].command # "outside"
                  /\ \/ about[c].command = "listed"
                     \/ Default[about[c].tool] = "allow"
                     \/ Consented(about[c].tool)

\* A call ends with the one answer that respond() accepted for it, however
\* often and in whatever order clients answer, and a call settled by a rule
\* never takes an answer (manager.py:135-155).
AnswerIsOwn ==
    \A c \in Call :
        /\ verdict[c] \in Answer => verdict[c] = accepted[c]
        /\ verdict[c] \in {"auto_allow", "auto_deny"} => accepted[c] = "none"

\* _pending names the calls somebody can still answer: whoever crosses answers,
\* the timer and a restart, an entry goes when its call is settled.  Only a call
\* whose task was cancelled leaves its entry behind (manager.py:140-141).
PendingIsAwaited ==
    \A c \in pending :
        \/ pc[c] \in {"emitting", "waiting"} /\ future[c] \in {"unset", "void"}
        \/ pc[c] = "done" /\ verdict[c] = "cancelled"

Always(m) == IF m = "allow" THEN "always_allow" ELSE "always_deny"

\* What is remembered for a session, for all sessions and on disk has been
\* taken by a call: an answer that came too late to count is not remembered
\* either (manager.py:145, 158-190).
MemoryIsTaken ==
    \A u \in Tool, m \in {"allow", "deny"} :
        /\ \A s \in Session :
              session_always[s][u] = m =>
                  \E c \in Call : /\ about[c].session = s
                                  /\ about[c].tool = u
                                  /\ verdict[c] = Always(m)
        /\ m \in {persistent_always[u], policy_file[u]} =>
              \E c \in Call : about[c].tool = u /\ verdict[c] = Always(m)

\* "reject all pending approvals of the session when its client disconnects,
\* so that no Future hangs forever" (manager.py:192).
DisconnectRejects ==
    \A c \in Call :
        pc[c] = "waiting" /\ about[c].session \notin connected ~> pc[c] = "done"
=============================================================================
