------------------------------ MODULE AgentRun ------------------------------
(***************************************************************************)
(* The conversation one session has with the model: runner.py, loop.py and *)
(* context.py, with the reading and writing of thread.jsonl by             *)
(* session/store.py and the compaction of compact/compactor.py.            *)
(*                                                                         *)
(* A message is reduced to its role, the tool_use blocks it opens and the  *)
(* tool_result blocks it closes.  Turns follow each other under the lock   *)
(* of SessionManager, so one run at a time works on the thread.  The event *)
(* publications of a step do not touch the conversation and are left out,  *)
(* except that a task may be cancelled in any of them.                     *)
(***************************************************************************)
EXTENDS Naturals, Sequences, FiniteSets

CONSTANTS
    MaxSteps,       \* agent.max_steps
    AutoCompact,    \* compaction.auto_threshold > 0
    MaxTurns,       \* bound: messages sent to the session
    MaxCalls,       \* bound: tool_use blocks over the life of the session
    MaxPerReply     \* bound: tool_use blocks of one response

ASSUME MaxStepsAssumption == MaxSteps \in Nat \ {0}
ASSUME AutoCompactAssumption == AutoCompact \in BOOLEAN
ASSUME BoundsAssumption == {MaxTurns, MaxCalls, MaxPerReply} \subseteq Nat

VARIABLES
    thread,         \* thread.jsonl
    turn,           \* messages received so far
    messages,       \* context.messages
    prefill_len,    \* length of the history the run was started with
    step,           \* context.step
    status,         \* context.status; "cancelled" is "failed" for that reason
    pc,             \* the await the run is suspended in
    todo,           \* the tool calls of the response that are still to run
    issued,         \* tool_use blocks the model has produced
    produced,       \* history: the messages this run has added
    compacted,      \* history: this run has compacted its context
    folded,         \* history: the thread holds output of such a run
    skipped         \* history: calls of this run that the loop passed over

storeVars == <<thread, turn>>
runVars   == <<messages, prefill_len, step, status, pc, todo>>
vars      == <<storeVars, runVars, issued, produced, compacted, folded, skipped>>

-----------------------------------------------------------------------------
(* Data *)

CallId == 1 .. MaxCalls

Message == [role : {"user", "assistant"}, tag : 0 .. MaxTurns,
            uses : SUBSET CallId, results : SUBSET CallId]

\* The n-th message of the user; tag 0 marks everything else.
Prompt(n) == [role |-> "user", tag |-> n, uses |-> {}, results |-> {}]
Reply(S)  == [role |-> "assistant", tag |-> 0, uses |-> S, results |-> {}]
Result(S) == [role |-> "user", tag |-> 0, uses |-> {}, results |-> S]

\* Summary and acknowledgement, which replace a conversation.
Summarised == <<[role |-> "user", tag |-> 0, uses |-> {}, results |-> {}], Reply({})>>

-----------------------------------------------------------------------------
(* session/store.py: read_messages *)

\* The tool calls of ms[1 .. i] that ms[1 .. i] does not answer.
Open(ms, i) ==
    {id \in UNION {ms[j].uses : j \in 1 .. i} :
        \E j \in 1 .. i : /\ id \in ms[j].uses
                          /\ \A k \in j + 1 .. i : id \notin ms[k].results}

\* _trim_orphan_tool_use: the longest prefix in which every call is answered.
Trim(ms) ==
    LET balanced == {i \in 0 .. Len(ms) : Open(ms, i) = {}} IN
    SubSeq(ms, 1, CHOOSE i \in balanced : \A j \in balanced : j <= i)

-----------------------------------------------------------------------------
(* context.py *)

\* Deviation: every result becomes a message of its own.
AddResultApart(ms, id) == Append(ms, Result({id}))

\* The results of one step share a message.
AddResult(ms, id) ==
    IF ms[Len(ms)].results # {}
    THEN [ms EXCEPT ![Len(ms)].results = @ \cup {id}]
    ELSE Append(ms, Result({id}))

-----------------------------------------------------------------------------
Init ==
    /\ thread = <<>>
    /\ turn = 0
    /\ messages = <<>>
    /\ prefill_len = 0
    /\ step = 0
    /\ status = "running"
    /\ pc = "idle"
    /\ todo = <<>>
    /\ issued = 0
    /\ produced = <<>>
    /\ compacted = FALSE
    /\ folded = FALSE
    /\ skipped = {}

\* The message is appended and a run is started on a history.
StartTurn(history) ==
    /\ pc = "idle"
    /\ turn < MaxTurns
    /\ turn' = turn + 1
    /\ thread' = Append(thread, Prompt(turn'))
    /\ messages' = history
    /\ prefill_len' = Len(history)
    /\ step' = 0
    /\ status' = "running"
    /\ pc' = "planning"
    /\ todo' = <<>>
    /\ produced' = <<>>
    /\ compacted' = FALSE
    /\ skipped' = {}
    /\ UNCHANGED <<issued, folded>>

\* Deviations: the history is not trimmed; it is read before the message is
\* appended.
TakeMessageUntrimmed == StartTurn(Append(thread, Prompt(turn + 1)))
TakeMessageEarlyRead == StartTurn(Trim(thread))

\* SessionManager appends the message and run_and_capture reads the thread;
\* no other request can come in between (SessionManager!SnapshotCurrent).
\* The history is never empty: its first message is a prompt or a summary.
TakeMessage == StartTurn(Trim(Append(thread, Prompt(turn + 1))))

-----------------------------------------------------------------------------
(* AgentLoop.run *)

\* Deviation: the step limit is compared one too late.
EndStepLate(stop) ==
    /\ status' = CASE stop = "end_turn"      -> "success"
                   [] stop # "end_turn" /\ step' > MaxSteps -> "failed"
                   [] OTHER                  -> status
    /\ pc' = IF status' # "running" THEN "finishing" ELSE "planning"

\* The end of a step: done, compact, or plan the next one.  end_turn wins
\* over max_steps; context_pct may or may not have reached the threshold.
EndStep(stop) ==
    /\ status' = CASE stop = "end_turn"      -> "success"
                   [] stop # "end_turn" /\ step' >= MaxSteps -> "failed"
                   [] OTHER                  -> status
    /\ \/ status' # "running" /\ pc' = "finishing"
       \/ status' = "running" /\ pc' = "planning"
       \/ /\ status' = "running"
          /\ stop = "tool_use"
          /\ AutoCompact
          /\ pc' = "compacting"

\* The stop reason is what the API says, with calls or without; "other" stands
\* for the ones the loop has no case for (refusal, pause_turn, ...).
Stop == {"tool_use", "max_tokens", "end_turn", "other"}

\* The model answers with n tool calls.  They are run after "tool_use" and
\* answered with an error after "max_tokens"; else nobody answers them, and
\* unless the reason is "end_turn" the loop goes on all the same.
Respond(n, stop) ==
    LET ids == issued + 1 .. issued + n
        said == IF stop = "max_tokens" /\ n > 0
                THEN <<Reply(ids), Result(ids)>> ELSE <<Reply(ids)>>
    IN
    /\ pc = "planning"
    /\ issued + n <= MaxCalls
    /\ issued' = issued + n
    /\ step' = step + 1
    /\ messages' = messages \o said
    /\ produced' = produced \o said
    /\ skipped' = IF stop \in {"tool_use", "max_tokens"} THEN skipped ELSE skipped \cup ids
    /\ \/ /\ stop = "tool_use" /\ n > 0
          /\ todo' = [i \in 1 .. n |-> issued + i]
          /\ pc' = "acting"
          /\ UNCHANGED status
       \/ /\ ~(stop = "tool_use" /\ n > 0)
          /\ UNCHANGED todo
          /\ EndStep(stop)
    /\ UNCHANGED <<storeVars, prefill_len, compacted, folded>>

\* The API call fails: the loop is left at once.
PlanFails ==
    /\ pc = "planning"
    /\ step' = step + 1
    /\ status' = "failed"
    /\ pc' = "finishing"
    /\ UNCHANGED <<storeVars, messages, prefill_len, todo, issued, produced,
                   compacted, folded, skipped>>

\* invoke_tool has returned for the next call, with a result or an error.
ToolReturns ==
    /\ pc = "acting"
    /\ messages' = AddResult(messages, Head(todo))
    /\ produced' = AddResult(produced, Head(todo))
    /\ todo' = Tail(todo)
    /\ UNCHANGED step
    /\ IF todo' = <<>> THEN EndStep("tool_use") ELSE UNCHANGED <<status, pc>>
    /\ UNCHANGED <<storeVars, prefill_len, issued, compacted, folded, skipped>>

\* Compactor.compact replaces the context; prefill_len is not touched.
Compacted ==
    /\ pc = "compacting"
    /\ messages' = Summarised
    /\ compacted' = TRUE
    /\ pc' = "planning"
    /\ UNCHANGED <<storeVars, prefill_len, step, status, todo, issued, produced,
                   folded, skipped>>

\* The summarising call failed or its text was empty.
CompactionSkipped ==
    /\ pc = "compacting"
    /\ pc' = "planning"
    /\ UNCHANGED <<storeVars, messages, prefill_len, step, status, todo, issued,
                   produced, compacted, folded, skipped>>

-----------------------------------------------------------------------------
(* The end of run_and_capture *)

\* An exception leaves the loop (runner.py:235), maybe between two tools.
LoopRaises ==
    /\ pc \in {"planning", "acting", "compacting"}
    /\ status' = "failed"
    /\ pc' = "finishing"
    /\ UNCHANGED <<storeVars, messages, prefill_len, step, todo, issued, produced,
                   compacted, folded, skipped>>

\* Shutdown cancels the run; what it has produced is still appended.
Cancel ==
    /\ pc \in {"planning", "acting", "compacting"}
    /\ status' = "cancelled"
    /\ pc' = "finishing"
    /\ UNCHANGED <<storeVars, messages, prefill_len, step, todo, issued, produced,
                   compacted, folded, skipped>>

\* messages[prefill_len:], empty when there are fewer messages.
NewMessages == SubSeq(messages, prefill_len + 1, Len(messages))

\* Deviation: the slice starts one message early.
FinishOverlapping ==
    /\ pc = "finishing"
    /\ thread' = thread \o SubSeq(messages, prefill_len, Len(messages))
    /\ folded' = (folded \/ compacted)
    /\ pc' = IF status = "cancelled" THEN "down" ELSE "idle"
    /\ UNCHANGED <<turn, messages, prefill_len, step, status, todo, issued,
                   produced, compacted, skipped>>

\* run.finished is published, append_messages writes the thread.  After a
\* cancelled run the daemon ends.
Finish ==
    /\ pc = "finishing"
    /\ thread' = thread \o NewMessages
    /\ folded' = (folded \/ compacted)
    /\ pc' = IF status = "cancelled" THEN "down" ELSE "idle"
    /\ UNCHANGED <<turn, messages, prefill_len, step, status, todo, issued,
                   produced, compacted, skipped>>

\* The task is cancelled while it publishes run.finished: nothing is appended.
CancelledLate ==
    /\ pc = "finishing"
    /\ pc' = "down"
    /\ UNCHANGED <<storeVars, messages, prefill_len, step, status, todo, issued,
                   produced, compacted, folded, skipped>>

\* session.compact between two turns: write_compacted replaces the thread.
CompactThread ==
    /\ pc = "idle"
    /\ turn > 0
    /\ thread' = Summarised
    /\ folded' = FALSE
    /\ UNCHANGED <<turn, runVars, issued, produced, compacted, skipped>>

Next ==
    \/ TakeMessage
    \/ \E n \in 0 .. MaxPerReply : \E stop \in Stop : Respond(n, stop)
    \/ PlanFails
    \/ ToolReturns
    \/ Compacted
    \/ CompactionSkipped
    \/ LoopRaises
    \/ Cancel
    \/ Finish
    \/ CancelledLate
    \/ CompactThread

Spec == Init /\ [][Next]_vars

-----------------------------------------------------------------------------
(* Properties *)

TypeOK ==
    /\ thread \in Seq(Message)
    /\ turn \in 0 .. MaxTurns
    /\ messages \in Seq(Message)
    /\ prefill_len \in Nat
    /\ step \in 0 .. MaxSteps
    /\ status \in {"running", "success", "failed", "cancelled"}
    /\ pc \in {"idle", "planning", "acting", "compacting", "finishing", "down"}
    /\ todo \in Seq(CallId)
    /\ issued \in 0 .. MaxCalls
    /\ produced \in Seq(Message)
    /\ compacted \in BOOLEAN
    /\ folded \in BOOLEAN
    /\ skipped \subseteq CallId

\* The Messages API accepts ms, were it not for the calls in but: the message
\* behind a reply holds a result for each of its tool calls, and nothing else.
PairedBut(ms, but) ==
    /\ \A i \in 1 .. Len(ms) :
          ms[i].uses \ but = IF i < Len(ms) THEN ms[i + 1].results ELSE {}
    /\ Len(ms) > 0 => ms[1].results = {}

Paired(ms) == PairedBut(ms, {})

\* What the loop sends to the model is paired in every step of every run, as
\* long as no run has written its output after compacting its context: neither
\* calls cut off by max_tokens, nor step limits, nor a run that ended between
\* two tools or with unanswered calls leave a thread that cannot be continued.
\* Excepted are the calls of this very run that came with a stop reason the
\* loop has no case for (loop.py:92-109, store.py:111-130).
RequestIsPaired ==
    pc = "planning" /\ ~folded => PairedBut(messages, skipped)

\* A run writes exactly the messages it has produced behind the thread, even
\* when its history was trimmed (runner.py:183, 252-253).
OutputIsKept ==
    [][pc = "finishing" /\ pc' = "idle" /\ ~compacted
         => thread' = thread \o produced]_vars

\* A run answers the message it was started for: that message is in the
\* context until it is compacted, unless the thread holds a tool call that
\* never got its result: what follows such a call is cut off (store.py:126).
AnswersItsMessage ==
    /\ pc \in {"planning", "acting"}
    /\ ~compacted
    /\ Open(thread, Len(thread)) = {}
    => \E i \in 1 .. prefill_len : messages[i] = Prompt(turn)

\* In the thread no result is without its call: with the trimming of calls
\* without results this is what makes a thread readable.
ResultsHaveCalls ==
    ~folded =>
        \A i \in 1 .. Len(thread) :
            thread[i].results # {} =>
                i > 1 /\ thread[i].results \subseteq thread[i - 1].uses

\* "read the complete thread and return messages that can be passed to
\* Anthropic as they are" (store.py:80): the first request of a run is paired.
HistoryIsSendable ==
    pc = "planning" /\ step = 0 => Paired(messages)
=============================================================================
