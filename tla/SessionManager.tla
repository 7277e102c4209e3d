--------------------------- MODULE SessionManager ---------------------------
(***************************************************************************)
(* The session service of kama-core: session/manager.py, the handlers of   *)
(* core/app.py that call it, and the files session/store.py keeps.         *)
(*                                                                         *)
(* The daemon is one asyncio thread.  A request runs in a task of its own  *)
(* (socket_server.py starts one per line) and gives the processor away     *)
(* only at an await, so an action of this module is everything a task does *)
(* from one suspension to the next, and pc names the await it is parked    *)
(* in.  A task serves one request, hence a task is also the run_id of the  *)
(* run it starts.                                                          *)
(*                                                                         *)
(* Titles, timestamps and the wording of messages are left out; a thread   *)
(* is a sequence of rows of which only the kind and the request they       *)
(* belong to matter.                                                       *)
(***************************************************************************)
EXTENDS Naturals, Sequences, FiniteSets

CONSTANTS
    Sid,        \* session ids that uuid4 may return
    Task,       \* request tasks; also the run ids
    NoSid,      \* target of a task that has no request yet
    NoTask      \* owner of a free lock

ASSUME NoTaskAssumption == NoTask \notin Task
ASSUME NoSidAssumption == NoSid \notin Sid

VARIABLES
    daemon,     \* where CoreApp.run is: serving, cancelling runs, tearing down
    doomed,     \* the _running_runs that shutdown cancels and waits for
    status,     \* _sessions[s].status, "absent" when s is not in _sessions
    mode,       \* _sessions[s].mode
    run_ids,    \* _sessions[s].run_ids, as a set
    lock,       \* _locks[s]: the task that holds it
    meta,       \* meta.json of s: the status and run_ids last written
    thread,     \* thread.jsonl of s
    pc,         \* the await a task is suspended in
    op,         \* the request a task serves
    target,     \* the session it works on
    content,    \* what the user typed: plain text, a known /skill, a bare "/"
    seen,       \* the thread a run or a compaction has read
    outcome     \* how the request ended

daemonVars  == <<daemon, doomed>>
sessionVars == <<status, mode, run_ids, lock, meta, thread>>
taskVars    == <<pc, op, target, content, seen, outcome>>
vars        == <<daemonVars, sessionVars, taskVars>>

-----------------------------------------------------------------------------
(* Data *)

Status  == {"absent", "active", "waiting_for_input", "closed"}
Mode    == {"one_shot", "chat"}
Op      == {"none", "session.create", "agent.run", "session.send_message",
            "session.close", "session.compact"}
Content == {"plain", "skill", "slash"}
Outcome == {"none", "returned", "not_found", "busy", "closed", "failed",
            "internal_error", "cancelled"}

\* The awaits a task is suspended in while it holds its session's lock.
Turn     == {"received", "invoking", "running"}
Critical == Turn \cup {"resuming", "finishing", "closing", "compacting"}
Await    == Critical \cup {"idle", "creating", "scheduled", "done"}

Row == [kind : {"user", "output", "summary"}, by : Task]

UserRow(t)   == [kind |-> "user", by |-> t]
OutputRow(t) == [kind |-> "output", by |-> t]
SummaryRow(t) == [kind |-> "summary", by |-> t]

\* What a run adds to the thread: nothing when its first LLM call failed.
Outputs(t) == {<<>>, <<OutputRow(t)>>}

-----------------------------------------------------------------------------
Init ==
    /\ daemon = "serving"
    /\ doomed = {}
    /\ status = [s \in Sid |-> "absent"]
    /\ mode = [s \in Sid |-> "chat"]
    /\ run_ids = [s \in Sid |-> {}]
    /\ lock = [s \in Sid |-> NoTask]
    /\ meta = [s \in Sid |-> [status |-> "absent", run_ids |-> {}]]
    /\ thread = [s \in Sid |-> <<>>]
    /\ pc = [t \in Task |-> "idle"]
    /\ op = [t \in Task |-> "none"]
    /\ target = [t \in Task |-> NoSid]
    /\ content = [t \in Task |-> "plain"]
    /\ seen = [t \in Task |-> <<>>]
    /\ outcome = [t \in Task |-> "none"]

-----------------------------------------------------------------------------
(* Building blocks *)

\* SessionStore.write_meta with the session as it is after the step.
WriteMeta(s) ==
    meta' = [meta EXCEPT ![s] = [status |-> status'[s], run_ids |-> run_ids'[s]]]

Park(t, await) == pc' = [pc EXCEPT ![t] = await]

End(t, o) ==
    /\ pc' = [pc EXCEPT ![t] = "done"]
    /\ outcome' = [outcome EXCEPT ![t] = o]

\* Leaving the "async with lock" block, normally or by an exception.
Release(s) == lock' = [lock EXCEPT ![s] = NoTask]

\* The listener takes requests until server.stop().
Request(t, o) ==
    /\ daemon # "exiting"
    /\ pc[t] = "idle"
    /\ op' = [op EXCEPT ![t] = o]

-----------------------------------------------------------------------------
(* session.create, and the first half of agent.run *)

Create(t, s, m) ==
    /\ \/ Request(t, "session.create")
       \/ Request(t, "agent.run") /\ m = "one_shot"
    /\ status[s] = "absent"
    /\ status' = [status EXCEPT ![s] = "active"]
    /\ mode' = [mode EXCEPT ![s] = m]
    /\ UNCHANGED run_ids
    /\ WriteMeta(s)
    /\ target' = [target EXCEPT ![t] = s]
    /\ Park(t, "creating")
    /\ UNCHANGED <<daemonVars, lock, thread, content, seen, outcome>>

\* session.created is published.  session.create answers; agent.run starts
\* send_message in a task of its own and answers with the run id at once.
Created(t) ==
    /\ pc[t] = "creating"
    /\ IF op[t] = "agent.run"
       THEN Park(t, "scheduled") /\ UNCHANGED outcome
       ELSE End(t, "returned")
    /\ UNCHANGED <<daemonVars, sessionVars, op, target, content, seen>>

-----------------------------------------------------------------------------
(* SessionManager.send_message *)

\* append_message, then publish session.message_received.
TakeMessage(t, s) ==
    /\ thread' = [thread EXCEPT ![s] = Append(@, UserRow(t))]
    /\ Park(t, "received")

\* Deviation: a send that does not look whether the session is busy.
EnterSendUnchecked(t, s) ==
    /\ status[s] \in {"active", "waiting_for_input"}
    /\ lock' = [lock EXCEPT ![s] = t]
    /\ TakeMessage(t, s)
    /\ UNCHANGED outcome

\* From entry to the first await.  Acquiring an asyncio.Lock that is free
\* does not suspend, so the locked() test and the acquisition are one step.
EnterSend(t, s) ==
    \/ /\ status[s] = "absent"
       /\ End(t, "not_found")
       /\ UNCHANGED <<lock, thread>>
    \/ /\ status[s] # "absent"
       /\ lock[s] # NoTask
       /\ End(t, "busy")
       /\ UNCHANGED <<lock, thread>>
    \/ /\ status[s] = "closed"
       /\ lock[s] = NoTask
       /\ End(t, "closed")
       /\ UNCHANGED <<lock, thread>>
    \/ /\ status[s] = "waiting_for_input"
       /\ lock[s] = NoTask
       /\ lock' = [lock EXCEPT ![s] = t]
       /\ Park(t, "resuming")
       /\ UNCHANGED <<thread, outcome>>
    \/ /\ status[s] = "active"
       /\ lock[s] = NoTask
       /\ lock' = [lock EXCEPT ![s] = t]
       /\ TakeMessage(t, s)
       /\ UNCHANGED outcome

Send(t, s, c) ==
    /\ Request(t, "session.send_message")
    /\ target' = [target EXCEPT ![t] = s]
    /\ content' = [content EXCEPT ![t] = c]
    /\ EnterSend(t, s)
    /\ UNCHANGED <<daemonVars, status, mode, run_ids, meta, seen>>

\* The task that agent.run has created gets the processor.
StartScheduled(t, c) ==
    /\ pc[t] = "scheduled"
    /\ content' = [content EXCEPT ![t] = c]
    /\ EnterSend(t, target[t])
    /\ UNCHANGED <<daemonVars, status, mode, run_ids, meta, op, target, seen>>

\* session.resumed is published.  The status stays "waiting_for_input".
Resumed(t) ==
    /\ pc[t] = "resuming"
    /\ TakeMessage(t, target[t])
    /\ UNCHANGED <<daemonVars, status, mode, run_ids, lock, meta,
                   op, target, content, seen, outcome>>

\* run_and_capture reads the history before its first await (what
\* read_messages trims from it is the matter of AgentRun).
StartRun(t, s) ==
    /\ seen' = [seen EXCEPT ![t] = thread[s]]
    /\ Park(t, "running")

\* Deviation: the run id is not saved before the run starts.
ReceivedUnsaved(t) ==
    LET s == target[t] IN
    /\ pc[t] = "received"
    /\ run_ids' = [run_ids EXCEPT ![s] = @ \cup {t}]
    /\ StartRun(t, s)
    /\ UNCHANGED <<daemonVars, status, mode, lock, meta, thread,
                   op, target, content, outcome>>

\* session.message_received is published: the run id is recorded and saved,
\* then the content is parsed.  content[1:].split() of a bare "/" is empty and
\* parts[0] raises IndexError.
Received(t) ==
    LET s == target[t] IN
    /\ pc[t] = "received"
    /\ run_ids' = [run_ids EXCEPT ![s] = @ \cup {t}]
    /\ UNCHANGED status
    /\ WriteMeta(s)
    /\ \/ /\ content[t] = "plain"
          /\ StartRun(t, s)
          /\ UNCHANGED <<lock, outcome>>
       \/ /\ content[t] = "skill"
          /\ Park(t, "invoking")
          /\ UNCHANGED <<lock, seen, outcome>>
       \/ /\ content[t] = "slash"
          /\ End(t, "internal_error")
          /\ Release(s)
          /\ UNCHANGED seen
    /\ UNCHANGED <<daemonVars, mode, thread, op, target, content>>

\* skill.invoked is published.
SkillInvoked(t) ==
    /\ pc[t] = "invoking"
    /\ StartRun(t, target[t])
    /\ UNCHANGED <<daemonVars, sessionVars, op, target, content, outcome>>

\* Deviation: the session takes over the status of its run.
RunReturnsOwnStatus(t) ==
    LET s == target[t] IN
    /\ pc[t] = "running"
    /\ \E rows \in Outputs(t) :
          /\ thread' = [thread EXCEPT ![s] = @ \o rows]
          /\ status' = [status EXCEPT ![s] = IF rows = <<>> THEN "failed" ELSE "success"]
    /\ Park(t, "finishing")
    /\ UNCHANGED <<daemonVars, mode, run_ids, lock, meta,
                   op, target, content, seen, outcome>>

\* run_and_capture has appended what the run produced and returns (a failed
\* run returns too); the status is set before the event is published.
RunReturns(t) ==
    LET s == target[t] IN
    /\ pc[t] = "running"
    /\ \E rows \in Outputs(t) :
          thread' = [thread EXCEPT ![s] = @ \o rows]
    /\ status' = [status EXCEPT ![s] = IF mode[s] = "one_shot"
                                       THEN "closed" ELSE "waiting_for_input"]
    /\ Park(t, "finishing")
    /\ UNCHANGED <<daemonVars, mode, run_ids, lock, meta,
                   op, target, content, seen, outcome>>

\* Deviation: the lock is not given back when the run raises.
RunRaisesLocked(t) ==
    /\ pc[t] = "running"
    /\ End(t, "internal_error")
    /\ UNCHANGED <<daemonVars, sessionVars, op, target, content, seen>>

\* run_and_capture raises: the run directory or events.jsonl cannot be made.
RunRaises(t) ==
    /\ pc[t] = "running"
    /\ End(t, "internal_error")
    /\ Release(target[t])
    /\ UNCHANGED <<daemonVars, status, mode, run_ids, meta, thread,
                   op, target, content, seen>>

\* Deviation: the final status is published and not saved.
FinishUnsaved(t) ==
    /\ pc[t] = "finishing"
    /\ Release(target[t])
    /\ End(t, "returned")
    /\ UNCHANGED <<daemonVars, status, mode, run_ids, meta, thread,
                   op, target, content, seen>>

\* session.closed or session.waiting_for_input is published.
Finish(t) ==
    LET s == target[t] IN
    /\ pc[t] = "finishing"
    /\ UNCHANGED <<status, run_ids>>
    /\ WriteMeta(s)
    /\ Release(s)
    /\ End(t, "returned")
    /\ UNCHANGED <<daemonVars, mode, thread, op, target, content, seen>>

-----------------------------------------------------------------------------
(* SessionManager.close *)

\* Deviation: close does not look whether a run is under way.
CloseAnyway(t, s) ==
    /\ Request(t, "session.close")
    /\ status[s] # "absent"
    /\ target' = [target EXCEPT ![t] = s]
    /\ status' = [status EXCEPT ![s] = "closed"]
    /\ UNCHANGED run_ids
    /\ WriteMeta(s)
    /\ End(t, "returned")
    /\ UNCHANGED <<daemonVars, mode, lock, thread, content, seen>>

Close(t, s) ==
    /\ Request(t, "session.close")
    /\ target' = [target EXCEPT ![t] = s]
    /\ UNCHANGED run_ids
    /\ \/ /\ status[s] = "absent"
          /\ End(t, "not_found")
          /\ UNCHANGED <<status, lock, meta>>
       \/ /\ status[s] # "absent"
          /\ lock[s] # NoTask
          /\ End(t, "busy")
          /\ UNCHANGED <<status, lock, meta>>
       \/ /\ status[s] # "absent"
          /\ lock[s] = NoTask
          /\ lock' = [lock EXCEPT ![s] = t]
          /\ status' = [status EXCEPT ![s] = "closed"]
          /\ WriteMeta(s)
          /\ Park(t, "closing")
          /\ UNCHANGED outcome
    /\ UNCHANGED <<daemonVars, mode, thread, content, seen>>

\* session.closed is published.
Closed(t) ==
    /\ pc[t] = "closing"
    /\ Release(target[t])
    /\ End(t, "returned")
    /\ UNCHANGED <<daemonVars, status, mode, run_ids, meta, thread,
                   op, target, content, seen>>

-----------------------------------------------------------------------------
(* SessionManager.compact: a closed session is compacted like any other.   *)

\* Deviation: compact takes the lock only to write, after the LLM call.
CompactUnlocked(t, s) ==
    /\ Request(t, "session.compact")
    /\ status[s] # "absent"
    /\ target' = [target EXCEPT ![t] = s]
    /\ seen' = [seen EXCEPT ![t] = thread[s]]
    /\ Park(t, "compacting")
    /\ UNCHANGED <<daemonVars, sessionVars, content, outcome>>

Compact(t, s) ==
    /\ Request(t, "session.compact")
    /\ target' = [target EXCEPT ![t] = s]
    /\ \/ /\ status[s] = "absent"
          /\ End(t, "not_found")
          /\ UNCHANGED <<lock, seen>>
       \/ /\ status[s] # "absent"
          /\ lock[s] # NoTask
          /\ End(t, "busy")
          /\ UNCHANGED <<lock, seen>>
       \/ /\ status[s] # "absent"
          /\ lock[s] = NoTask
          /\ lock' = [lock EXCEPT ![s] = t]
          /\ seen' = [seen EXCEPT ![t] = thread[s]]
          /\ Park(t, "compacting")
          /\ UNCHANGED outcome
    /\ UNCHANGED <<daemonVars, status, mode, run_ids, meta, thread, content>>

\* The LLM has answered: write_compacted replaces the thread by the summary
\* of what was read before the call.
Compacted(t) ==
    LET s == target[t] IN
    /\ pc[t] = "compacting"
    /\ thread' = [thread EXCEPT ![s] = <<SummaryRow(t)>>]
    /\ Release(s)
    /\ End(t, "returned")
    /\ UNCHANGED <<daemonVars, status, mode, run_ids, meta,
                   op, target, content, seen>>

\* The LLM call failed or its text was empty: error -32021.
CompactionFailed(t) ==
    /\ pc[t] = "compacting"
    /\ Release(target[t])
    /\ End(t, "failed")
    /\ UNCHANGED <<daemonVars, status, mode, run_ids, meta, thread,
                   op, target, content, seen>>

-----------------------------------------------------------------------------
(* Shutdown *)

\* SIGINT or SIGTERM: the tasks agent.run has started are cancelled; the
\* tasks of other requests are not.
Shutdown ==
    /\ daemon = "serving"
    /\ daemon' = "stopping"
    /\ doomed' = {t \in Task : /\ op[t] = "agent.run"
                               /\ pc[t] \notin {"idle", "creating", "done"}}
    /\ UNCHANGED <<sessionVars, taskVars>>

\* gather() has returned: the server stops and asyncio.run cancels the rest.
TearDown ==
    /\ daemon = "stopping"
    /\ \A t \in doomed : pc[t] = "done"
    /\ daemon' = "exiting"
    /\ UNCHANGED <<doomed, sessionVars, taskVars>>

\* CancelledError is raised in the await the task is suspended in.  A run
\* still appends what it has produced before it passes the error on.
Cancel(t) ==
    LET s == target[t] IN
    /\ \/ daemon = "stopping" /\ t \in doomed
       \/ daemon = "exiting"
    /\ pc[t] \notin {"idle", "done"}
    /\ IF pc[t] = "running"
       THEN \E rows \in Outputs(t) :
               thread' = [thread EXCEPT ![s] = @ \o rows]
       ELSE UNCHANGED thread
    /\ IF pc[t] \in Critical THEN Release(s) ELSE UNCHANGED lock
    /\ End(t, "cancelled")
    /\ UNCHANGED <<daemonVars, status, mode, run_ids, meta,
                   op, target, content, seen>>

-----------------------------------------------------------------------------
Arrive(t) ==
    \E s \in Sid : \/ \E m \in Mode : Create(t, s, m)
                   \/ \E c \in Content : Send(t, s, c)
                   \/ Close(t, s)
                   \/ Compact(t, s)

Continue(t) ==
    \/ Created(t)
    \/ \E c \in Content : StartScheduled(t, c)
    \/ Resumed(t)
    \/ Received(t)
    \/ SkillInvoked(t)
    \/ RunReturns(t)
    \/ RunRaises(t)
    \/ Finish(t)
    \/ Closed(t)
    \/ Compacted(t)
    \/ CompactionFailed(t)

Next ==
    \/ \E t \in Task : Arrive(t) \/ Continue(t) \/ Cancel(t)
    \/ Shutdown
    \/ TearDown

Spec == Init /\ [][Next]_vars

\* What the event loop does by itself: it starts a task that was created, and
\* raises CancelledError in the await of a task that was cancelled.  A run
\* takes that as its cue to publish run.finished, so for a run this is not all.
Fairness ==
    /\ \A t \in Task : WF_vars(\E c \in Content : StartScheduled(t, c))
    /\ \A t \in Task : WF_vars(pc[t] # "running" /\ Cancel(t))
    /\ WF_vars(TearDown)

FairSpec == Spec /\ Fairness

-----------------------------------------------------------------------------
(* Properties *)

\* The shape of the state, with a session for every task at work.
TypeOK ==
    /\ daemon \in {"serving", "stopping", "exiting"}
    /\ doomed \subseteq Task
    /\ status \in [Sid -> Status]
    /\ mode \in [Sid -> Mode]
    /\ run_ids \in [Sid -> SUBSET Task]
    /\ lock \in [Sid -> Task \cup {NoTask}]
    /\ meta \in [Sid -> [status : Status, run_ids : SUBSET Task]]
    /\ thread \in [Sid -> Seq(Row)]
    /\ pc \in [Task -> Await]
    /\ op \in [Task -> Op]
    /\ target \in [Task -> Sid \cup {NoSid}]
    /\ content \in [Task -> Content]
    /\ seen \in [Task -> Seq(Row)]
    /\ outcome \in [Task -> Outcome]
    /\ \A t \in Task : pc[t] # "idle" => target[t] \in Sid

\* A session is worked on by one task at a time, and its lock says which:
\* no two runs, closes or compactions of one session overlap at any await,
\* and no lock outlives the task that took it (manager.py:78-81, 153, 165).
SessionExclusion ==
    \A s \in Sid, t \in Task :
        (lock[s] = t) <=> (target[t] = s /\ pc[t] \in Critical)

\* What a run answers to, and what a compaction is about to replace, has been
\* read from the thread as it still is: nothing is appended between the read
\* (runner.py:156, manager.py:172) and the write (runner.py:253,
\* manager.py:178), although an LLM call lies between them.
SnapshotCurrent ==
    \A t \in Task :
        pc[t] \in {"running", "compacting"} => seen[t] = thread[target[t]]

\* In thread.jsonl the output of a run stands directly behind the user
\* message it answers: concurrent requests never interleave their rows.
OutputFollowsItsMessage ==
    \A s \in Sid : \A i \in 1 .. Len(thread[s]) :
        thread[s][i].kind = "output" =>
            /\ i > 1
            /\ thread[s][i - 1] = UserRow(thread[s][i].by)

\* At every instant, so also when the process is killed, meta.json names each
\* run that has written to the thread (it is saved before the run starts,
\* manager.py:97-99).
MetaIndexesOutput ==
    \A s \in Sid : \A i \in 1 .. Len(thread[s]) :
        thread[s][i].kind = "output" => thread[s][i].by \in meta[s].run_ids

\* While the daemon serves, a session nobody works on has a meta.json that
\* says what the memory says: every path that changes the session saves it
\* before the lock is given back.
MetaCurrent ==
    daemon = "serving" =>
        \A s \in Sid :
            lock[s] = NoTask =>
                meta[s] = [status |-> status[s], run_ids |-> run_ids[s]]

\* Closing is final: no step reopens a closed session, and its thread never
\* grows again; at most it is compacted.
ClosedIsFinal ==
    [][\A s \in Sid :
          status[s] = "closed" =>
              /\ status'[s] = "closed"
              /\ \/ thread'[s] = thread[s]
                 \/ \E t \in Task : thread'[s] = <<SummaryRow(t)>>]_vars

\* What nothing in this code sees to: each await of a request comes to an end.
\* Every publication waits for the drain of every client, without a time limit
\* (ipc_broadcaster.py:68), and a run besides for its LLM and tool calls and,
\* where timeout_s is 0, for the user (permissions/manager.py:131).
AwaitsReturn ==
    \A t \in Task : WF_vars(Continue(t)) /\ WF_vars(Cancel(t))

\* A session that is busy does not stay busy: if awaits return, by a result, an
\* error or a cancellation, the lock is given back, whichever way the task
\* that holds it ends (manager.py:81, 155, 169).  With a client that stops
\* reading, or a question nobody answers, the session stays busy.
LockIsReleased ==
    AwaitsReturn => \A s \in Sid : lock[s] # NoTask ~> lock[s] = NoTask

\* "append the message to the thread and start an agent run"
\* (manager.py:74, app.py:116): while the daemon serves, a request that
\* has put a message into the thread and has ended has also run.
MessageStartsRun ==
    daemon = "serving" =>
        \A t \in Task :
            /\ pc[t] = "done"
            /\ target[t] \in Sid
            /\ t \in run_ids[target[t]]
            => seen[t] # <<>>

-----------------------------------------------------------------------------
(* What the service promises: each session is a conversation of whole turns *)

\* The request whose turn it is in s.
TurnOf(s) ==
    IF lock[s] # NoTask /\ pc[lock[s]] \in Turn THEN lock[s] ELSE NoTask

Phase(s) ==
    CASE status[s] = "absent" -> "none"
      [] status[s] = "closed" -> "closed"
      [] OTHER                -> "open"

Conversation ==
    INSTANCE SessionLifecycle WITH
        phase <- [s \in Sid |-> Phase(s)],
        turn  <- [s \in Sid |-> TurnOf(s)],
        talk  <- thread

\* SessionManager implements SessionLifecycle.
Refinement == Conversation!Spec
=============================================================================
