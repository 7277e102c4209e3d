----------------------------- MODULE TaskManager -----------------------------
(***************************************************************************)
(* The task board of one run: the files task_<id>.json in a directory of   *)
(* the run, kept by TaskManager of task/manager.py.                        *)
(*                                                                         *)
(* Every operation is synchronous, so it is one step of whoever calls it.  *)
(* Ids are handed out in order and no file is ever deleted: a board is the *)
(* sequence of its tasks.  Subjects, descriptions and times are left out.  *)
(***************************************************************************)
EXTENDS Naturals, Sequences

Status == {"pending", "in_progress", "completed"}
Keep   == "keep"        \* update without a status

Task == [status : Status, blocked_by : SUBSET Nat]

EmptyBoard == <<>>

\* Every dependency must have a file.
CanCreate(board, deps) == deps \subseteq DOMAIN board

Create(board, deps) == Append(board, [status |-> "pending", blocked_by |-> deps])

\* Deviation: only tasks that have not been begun are unblocked.
ClearPending(board, id) ==
    [t \in DOMAIN board |->
        IF board[t].status = "pending" THEN [board[t] EXCEPT !.blocked_by = @ \ {id}]
                                       ELSE board[t]]

\* The completed task blocks no file any more, its own included.
ClearDependency(board, id) == [t \in DOMAIN board |-> [board[t] EXCEPT !.blocked_by = @ \ {id}]]

Cleared(board, id, status) ==
    IF status = "completed" THEN ClearDependency(board, id) ELSE board

\* The task is loaded before the others are cleared and saved after them:
\* what it says of itself is what it said before.  Nobody checks that the
\* tasks it is to wait for exist, are open, or are other tasks.
Update(board, id, status, add, remove) ==
    LET task == [status     |-> IF status = Keep THEN board[id].status ELSE status,
                 blocked_by |-> (board[id].blocked_by \cup add) \ remove]
    IN  [Cleared(board, id, status) EXCEPT ![id] = task]
=============================================================================
