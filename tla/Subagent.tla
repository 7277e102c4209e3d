------------------------------ MODULE Subagent ------------------------------
(***************************************************************************)
(* The agents of one run: the root agent, the subagents it spawns with     *)
(* spawn_agent, and theirs (subagent/tool.py, subagent/registry.py), each  *)
(* with the task board of its own run (TaskManager).                       *)
(*                                                                         *)
(* A foreground child runs inside the tool call of its parent: it is the   *)
(* same asyncio task, so cancelling the parent cancels it.  A background   *)
(* child is a task of its own and outlives whoever started it.  The tool   *)
(* calls of one agent follow each other; what invoke_tool does about       *)
(* failures (ToolInvocation) is part of the spawn call here, because a     *)
(* retry spawns another child.                                             *)
(***************************************************************************)
EXTENDS TaskManager, FiniteSets

CONSTANTS
    MaxRetries,     \* _MAX_RETRIES of invoke_tool
    Profiles,       \* the tool sets a child may be given (allowed_tools)
    MaxChildren,    \* bound on the children ever spawned
    MaxCalls,       \* bound on the calls of an agent that are modelled
    Planners,       \* bound: the agents whose task calls are modelled
    Dependency      \* bound: the ids a task call may add or remove, one a call

Agent    == 0 .. MaxChildren
Root     == 0
Children == 1 .. MaxChildren
NoAgent  == MaxChildren + 1
Tools    == {"spawn_agent", "agent_result", "tasks"}

ASSUME SubagentAssumption ==
    /\ MaxRetries \in Nat /\ MaxChildren \in Nat
    /\ Profiles \subseteq SUBSET Tools
    /\ MaxCalls \in [Agent -> Nat]
    /\ Planners \subseteq Agent /\ Dependency \subseteq Nat

VARIABLES
    at,         \* what the loop of an agent is doing
    status,     \* context.status once the loop has ended
    mode,       \* how the agent was started
    depth,      \* _depth of the agent's own SpawnAgentTool
    tools,      \* the tools in the agent's registry
    child,      \* the child of the spawn call the agent is in
    attempt,    \* which execution of that call it is
    calls,      \* the calls the agent has made
    events,     \* what was published about the agent on its parent's bus
    registry,   \* the ids in the BackgroundTaskRegistry of the run
    told,       \* history: the children whose result agent_result has given
    board,      \* the task board of the agent's run
    late,       \* history: dependencies added on tasks already completed
    daemon      \* the daemon's life cycle

treeVars == <<at, status, mode, depth, tools, child, attempt, events, registry>>
vars     == <<treeVars, calls, told, board, late, daemon>>

At     == {"unborn", "thinking", "spawning", "joining", "sleeping", "looped",
           "reporting", "ended", "raised", "cancelled"}
Over   == {"ended", "raised", "cancelled"}
Active == At \ (Over \cup {"unborn"})

-----------------------------------------------------------------------------
\* The children spawned so far are 1 .. Spawned.
Spawned == Cardinality({c \in Children : events[c] # <<>>})

Init ==
    /\ at = [a \in Agent |-> IF a = Root THEN "thinking" ELSE "unborn"]
    /\ status = [a \in Agent |-> "running"]
    /\ mode = [a \in Agent |-> IF a = Root THEN "root" ELSE "foreground"]
    /\ depth = [a \in Agent |-> 0]
    /\ tools = [a \in Agent |-> IF a = Root THEN Tools ELSE {}]
    /\ child = [a \in Agent |-> NoAgent]
    /\ attempt = [a \in Agent |-> 0]
    /\ calls = [a \in Agent |-> 0]
    /\ events = [a \in Agent |-> <<>>]
    /\ registry = {}
    /\ told = {}
    /\ board = [a \in Agent |-> EmptyBoard]
    /\ late = [a \in Agent |-> {}]
    /\ daemon = "up"

GoTo(a, s) == at' = [at EXCEPT ![a] = s]

\* A call of a tool that is in the agent's registry.
Call(a, tool) ==
    /\ at[a] = "thinking"
    /\ tool \in tools[a]
    /\ calls[a] < MaxCalls[a]
    /\ calls' = [calls EXCEPT ![a] = @ + 1]

-----------------------------------------------------------------------------
(* spawn_agent *)

\* Deviation: every child is given a SpawnAgentTool.
ChildToolsAnyDepth(a, profile) == profile

\* _build_child_registry: nested agents only below the root.
ChildTools(a, profile) ==
    IF depth[a] < 1 THEN profile ELSE profile \ {"spawn_agent", "agent_result"}

\* invoke up to its first await: the child is made and subagent.started is
\* being published on the bus of the parent.
Execute(a, m, profile) ==
    LET c == Spawned + 1 IN
    /\ c \in Children
    /\ mode' = [mode EXCEPT ![c] = m]
    /\ depth' = [depth EXCEPT ![c] = depth[a] + 1]
    /\ tools' = [tools EXCEPT ![c] = ChildTools(a, profile)]
    /\ child' = [child EXCEPT ![a] = c]
    /\ events' = [events EXCEPT ![c] = Append(@, "started")]
    /\ GoTo(a, "spawning")
    /\ attempt' = [attempt EXCEPT ![a] = @ + 1]
    /\ UNCHANGED <<status, registry, told, board, late, daemon>>

Spawn(a) ==
    /\ Call(a, "spawn_agent")
    /\ \E m \in {"foreground", "background"}, profile \in Profiles : Execute(a, m, profile)

\* The spawn call of an agent is over; its loop goes on.
Return(a) ==
    /\ child' = [child EXCEPT ![a] = NoAgent]
    /\ attempt' = [attempt EXCEPT ![a] = 0]

\* subagent.started is published: a background child becomes a task and is
\* registered, a foreground child begins inside the call.
Started(a) ==
    /\ at[a] = "spawning"
    /\ IF mode[child[a]] = "background"
       THEN /\ at' = [at EXCEPT ![a] = "thinking", ![child[a]] = "thinking"]
            /\ registry' = registry \cup {child[a]}
            /\ Return(a)
       ELSE /\ at' = [at EXCEPT ![a] = "joining", ![child[a]] = "thinking"]
            /\ UNCHANGED <<registry, child, attempt>>
    /\ UNCHANGED <<status, mode, depth, tools, events, calls, told, board, late, daemon>>

\* The execution of a spawn call fails, which leaves its child at z:
\* invoke_tool makes every exception and every failed child a runtime_error,
\* which it retries after a back-off.
CallFails(a, z) ==
    \/ /\ attempt[a] <= MaxRetries
       /\ at' = [at EXCEPT ![a] = "sleeping", ![child[a]] = z]
       /\ UNCHANGED <<child, attempt>>
    \/ /\ attempt[a] > MaxRetries
       /\ at' = [at EXCEPT ![a] = "thinking", ![child[a]] = z]
       /\ Return(a)

\* The directory of the child cannot be made: subagent.started was published
\* of a child that never begins.  (An execution that fails before that event
\* leaves nothing behind, and is one retry less.)
StartFails(a) ==
    /\ at[a] = "spawning"
    /\ CallFails(a, "raised")
    /\ UNCHANGED <<status, mode, depth, tools, events, registry,
                   calls, told, board, late, daemon>>

\* AgentLoop.run returns.  How the root ended is told by AgentRun.
EndLoop(a) ==
    /\ at[a] = "thinking"
    /\ GoTo(a, IF a = Root THEN "ended" ELSE "looped")
    /\ IF a = Root
       THEN UNCHANGED status
       ELSE \E s \in {"success", "failed"} : status' = [status EXCEPT ![a] = s]
    /\ UNCHANGED <<mode, depth, tools, child, attempt, events, registry,
                   calls, told, board, late, daemon>>

\* The loop of a child raises, or its event writer on opening or closing:
\* the child's end is never published.  A background child is a task that
\* ends with the exception.
Raise(c) ==
    /\ at[c] \in {"thinking", "looped"}
    /\ mode[c] = "background"
    /\ GoTo(c, "raised")
    /\ UNCHANGED <<status, mode, depth, tools, child, attempt, events, registry,
                   calls, told, board, late, daemon>>

\* The exception of a foreground child goes to the call it runs in.
ChildRaises(a) ==
    /\ at[a] = "joining"
    /\ at[child[a]] \in {"thinking", "looped"}
    /\ CallFails(a, "raised")
    /\ UNCHANGED <<status, mode, depth, tools, events, registry,
                   calls, told, board, late, daemon>>

\* Deviation: only a background child reports its end.
ReportBackground(c) ==
    /\ at[c] = "looped"
    /\ GoTo(c, "reporting")
    /\ events' = IF mode[c] = "background" THEN [events EXCEPT ![c] = Append(@, "finished")]
                                           ELSE events
    /\ UNCHANGED <<status, mode, depth, tools, child, attempt, registry,
                   calls, told, board, late, daemon>>

\* The event writer of the child is closed; subagent.finished is being
\* published on the bus of the parent, whether or not the parent still runs.
Report(c) ==
    /\ at[c] = "looped"
    /\ GoTo(c, "reporting")
    /\ events' = [events EXCEPT ![c] = Append(@, "finished")]
    /\ UNCHANGED <<status, mode, depth, tools, child, attempt, registry,
                   calls, told, board, late, daemon>>

\* The task of a background child is done.
Reported(c) ==
    /\ at[c] = "reporting"
    /\ mode[c] = "background"
    /\ GoTo(c, "ended")
    /\ UNCHANGED <<status, mode, depth, tools, child, attempt, events, registry,
                   calls, told, board, late, daemon>>

\* invoke returns to invoke_tool; the failure of a child fails the call.
Joined(a) ==
    /\ at[a] = "joining"
    /\ at[child[a]] = "reporting"
    /\ IF status[child[a]] = "failed"
       THEN CallFails(a, "ended")
       ELSE at' = [at EXCEPT ![a] = "thinking", ![child[a]] = "ended"] /\ Return(a)
    /\ UNCHANGED <<status, mode, depth, tools, events, registry,
                   calls, told, board, late, daemon>>

\* The retry has the parameters of the call: it spawns a like child.
Retry(a) ==
    /\ at[a] = "sleeping"
    /\ \E profile \in Profiles :
          /\ ChildTools(a, profile) = tools[child[a]]
          /\ Execute(a, mode[child[a]], profile)
    /\ UNCHANGED calls

-----------------------------------------------------------------------------
(* Cancellation *)

\* The foreground child an agent's task is inside of.
Inside(a) == IF at[a] \in {"spawning", "joining"} THEN {child[a]} ELSE {}

\* Deviation: a cancelled spawn call leaves its children alone.
TaskAlone(A) == A

\* The agents that run in the tasks of the agents A.
TaskOf(A) ==
    LET below == A \cup UNION {Inside(a) : a \in A}
    IN  below \cup UNION {Inside(a) : a \in below}

\* CancelledError goes through the loops; nothing is published any more.
CancelTasks(A) ==
    at' = [a \in Agent |-> IF a \in TaskOf(A) THEN "cancelled" ELSE at[a]]

\* wait_for gives up the spawn call; its TimeoutError is not retried.  The
\* timer of a call inside a foreground child started later than that of the
\* call it is inside of, which ends both.
TimedOut(a) ==
    /\ at[a] \in {"spawning", "joining"}
    /\ mode[a] \in {"root", "background"}
    /\ at' = [x \in Agent |-> CASE x = a -> "thinking"
                                [] x \in TaskOf(Inside(a)) -> "cancelled"
                                [] OTHER -> at[x]]
    /\ Return(a)
    /\ UNCHANGED <<status, mode, depth, tools, events, registry,
                   calls, told, board, late, daemon>>

\* Shutdown cancels and awaits the runs it knows of, and no background child.
Shutdown ==
    /\ daemon = "up"
    /\ daemon' = "stopping"
    /\ IF at[Root] \in Over THEN UNCHANGED at ELSE CancelTasks({Root})
    /\ UNCHANGED <<status, mode, depth, tools, child, attempt, events, registry,
                   calls, told, board, late>>

\* asyncio.run cancels every task that is left.
TearDown ==
    /\ daemon = "stopping"
    /\ daemon' = "down"
    /\ CancelTasks({a \in Agent : mode[a] = "background" /\ at[a] \in Active})
    /\ UNCHANGED <<status, mode, depth, tools, child, attempt, events, registry,
                   calls, told, board, late>>

-----------------------------------------------------------------------------
(* agent_result *)

\* Deviation: the status of the context is taken for the end of the task.
SaysEarly(c) ==
    CASE c \notin registry       -> "unknown"
      [] at[c] = "cancelled"     -> "cancelled"
      [] at[c] = "raised"        -> "raised"
      [] status[c] = "running"   -> "running"
      [] OTHER                   -> "result"

\* The failure of a child is a result like its success; an exception is not.
Says(c) ==
    CASE c \notin registry       -> "unknown"
      [] at[c] = "cancelled"     -> "cancelled"
      [] at[c] = "raised"        -> "raised"
      [] at[c] # "ended"         -> "running"
      [] OTHER                   -> "result"

\* Any id may be asked for: the registry is shared by all agents of the run.
AgentResult(a) ==
    /\ Call(a, "agent_result")
    /\ \E c \in 1 .. Spawned : told' = IF Says(c) = "result" THEN told \cup {c} ELSE told
    /\ UNCHANGED <<treeVars, board, late, daemon>>

-----------------------------------------------------------------------------
(* The task tools *)

\* task_create: a dependency without a file fails the call.
CreateTask(a, deps) ==
    /\ Call(a, "tasks")
    /\ CanCreate(board[a], deps)
    /\ board' = [board EXCEPT ![a] = Create(@, deps)]
    /\ late' = [late EXCEPT ![a] =
                  @ \cup {<<Len(board[a]) + 1, d>> : d \in {x \in deps : board[a][x].status = "completed"}}]
    /\ UNCHANGED <<treeVars, told, daemon>>

\* task_update.
UpdateTask(a, id, s, add, remove) ==
    /\ Call(a, "tasks")
    /\ id \in DOMAIN board[a]
    /\ board' = [board EXCEPT ![a] = Update(@, id, s, add, remove)]
    /\ late' = [late EXCEPT ![a] =
                  {p \in @ : s # "completed" \/ p[2] # id}
                  \cup {<<id, d>> : d \in {x \in add \cap DOMAIN board[a] :
                                             board[a][x].status = "completed"}}]
    /\ UNCHANGED <<treeVars, told, daemon>>

Plan(a) ==
    LET Named == {{}} \cup {{d} : d \in Dependency} IN
    /\ a \in Planners
    /\ \/ \E deps \in Named : CreateTask(a, deps)
       \/ \E id \in DOMAIN board[a], s \in Status \cup {Keep}, d \in Named :
              UpdateTask(a, id, s, d, {}) \/ UpdateTask(a, id, s, {}, d)

-----------------------------------------------------------------------------
Next ==
    \/ daemon # "down" /\ \E a \in Agent :
          \/ Spawn(a) \/ Started(a) \/ StartFails(a) \/ EndLoop(a)
          \/ Joined(a) \/ ChildRaises(a) \/ Retry(a)
          \/ TimedOut(a) \/ AgentResult(a) \/ Plan(a)
    \/ daemon # "down" /\ \E c \in Children : Report(c) \/ Reported(c) \/ Raise(c)
    \/ Shutdown
    \/ TearDown

Spec == Init /\ [][Next]_vars

-----------------------------------------------------------------------------
(* Properties *)

TypeOK ==
    /\ at \in [Agent -> At]
    /\ status \in [Agent -> {"running", "success", "failed"}]
    /\ mode \in [Agent -> {"root", "foreground", "background"}]
    /\ depth \in [Agent -> 0 .. 2]
    /\ tools \in [Agent -> SUBSET Tools]
    /\ child \in [Agent -> Children \cup {NoAgent}]
    /\ attempt \in [Agent -> 0 .. MaxRetries + 1]
    /\ calls \in [Agent -> Nat]
    /\ events \in [Agent -> {<<>>, <<"started">>, <<"started", "finished">>}]
    /\ registry \subseteq Children
    /\ told \subseteq Children
    /\ board \in [Agent -> Seq(Task)]
    /\ late \in [Agent -> SUBSET (Nat \X Nat)]
    /\ daemon \in {"up", "stopping", "down"}

\* A foreground child never runs without the call that spawned it: however
\* the agents above it end, raise, time out, retry or are cancelled, it ends
\* with them, and a call has one child at a time.
NoOrphan ==
    \A c \in Children :
        (mode[c] = "foreground" /\ at[c] \in Active) =>
            Cardinality({a \in Agent : at[a] = "joining" /\ child[a] = c}) = 1

\* A child that came to its end has reported it to its parent, and whoever
\* got its result from agent_result got it after that report: a client has
\* seen the end of a subagent before the model acts on its result.  A child
\* that raised or was cancelled has no result: whoever asks for it is told
\* what happened, and its end may never be reported.
ResultFollowsReport ==
    /\ \A c \in Children : at[c] = "ended" => events[c] = <<"started", "finished">>
    /\ \A c \in told : at[c] = "ended" /\ mode[c] = "background"

\* Completing a task unblocks every task that waits for it, in whatever
\* order tasks are created, changed, reopened and completed: a task waits
\* for a completed one only if it was told to afterwards, or for itself.
NoStaleBlock ==
    \A a \in Agent : \A id \in DOMAIN board[a] :
        \A d \in board[a][id].blocked_by \cap DOMAIN board[a] :
            (d # id /\ board[a][d].status = "completed") => <<id, d>> \in late[a]
=============================================================================
