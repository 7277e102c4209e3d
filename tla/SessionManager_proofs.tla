----------------------- MODULE SessionManager_proofs ------------------------
(***************************************************************************)
(* Theorems about SessionManager, for any sets of sessions and requests.   *)
(***************************************************************************)
EXTENDS SessionManager, TLAPS

USE NoTaskAssumption, NoSidAssumption

-----------------------------------------------------------------------------
(* The inductive invariant *)

\* A turn is under way only in a session that is open.
TurnIsOpen ==
    \A t \in Task :
        pc[t] \in Turn \cup {"resuming"} =>
            status[target[t]] \in {"active", "waiting_for_input"}

\* A compaction works on a session that exists.
CompactionIsOfSession ==
    \A t \in Task : pc[t] = "compacting" => status[target[t]] # "absent"

IInv ==
    /\ TypeOK
    /\ SessionExclusion
    /\ TurnIsOpen
    /\ CompactionIsOfSession
    /\ SnapshotCurrent

-----------------------------------------------------------------------------
(* Type correctness *)

\* The initial state is well typed.
LEMMA InitType == Init => TypeOK
  BY DEF Init, TypeOK, Status, Mode, Op, Content, Outcome, Await, Critical, Turn, Row

\* Rows a step appends are rows.
LEMMA RowsAreRows ==
    \A t \in Task : /\ UserRow(t) \in Row
                    /\ SummaryRow(t) \in Row
                    /\ \A rows \in Outputs(t) : rows \in Seq(Row)
  BY DEF UserRow, SummaryRow, OutputRow, Outputs, Row

\* What the building blocks of the actions do to the variables they write.
LEMMA ParkType ==
    ASSUME TypeOK, NEW t \in Task, NEW await \in Await, Park(t, await)
    PROVE  pc' \in [Task -> Await] /\ pc' = [pc EXCEPT ![t] = await]
  BY DEF TypeOK, Park

\* Ending a request keeps pc and outcome well typed.
LEMMA EndType ==
    ASSUME TypeOK, NEW t \in Task, NEW o \in Outcome, End(t, o)
    PROVE  /\ pc' \in [Task -> Await] /\ pc' = [pc EXCEPT ![t] = "done"]
           /\ outcome' \in [Task -> Outcome]
  BY DEF TypeOK, End, Await

\* A lock that is given back is free.
LEMMA ReleaseType ==
    ASSUME TypeOK, NEW s \in Sid, Release(s)
    PROVE  lock' \in [Sid -> Task \cup {NoTask}]
  BY DEF TypeOK, Release

\* What is saved is a status and a set of runs.
LEMMA WriteMetaType ==
    ASSUME TypeOK, NEW s \in Sid, WriteMeta(s),
           status' \in [Sid -> Status], run_ids' \in [Sid -> SUBSET Task]
    PROVE  meta' \in [Sid -> [status : Status, run_ids : SUBSET Task]]
  <1>1. [status |-> status'[s], run_ids |-> run_ids'[s]]
            \in [status : Status, run_ids : SUBSET Task]
    OBVIOUS
  <1>2. QED
    BY <1>1 DEF TypeOK, WriteMeta

\* Taking a message appends a row and parks the task.
LEMMA TakeMessageType ==
    ASSUME TypeOK, NEW t \in Task, NEW s \in Sid, TakeMessage(t, s)
    PROVE  /\ thread' \in [Sid -> Seq(Row)]
           /\ pc' \in [Task -> Await] /\ pc' = [pc EXCEPT ![t] = "received"]
  <1>1. Append(thread[s], UserRow(t)) \in Seq(Row)
    BY RowsAreRows DEF TypeOK
  <1>2. thread' \in [Sid -> Seq(Row)]
    BY <1>1 DEF TakeMessage, TypeOK
  <1>3. QED
    BY <1>2, ParkType DEF TakeMessage, Await, Critical, Turn

\* Starting a run records what was read and parks the task.
LEMMA StartRunType ==
    ASSUME TypeOK, NEW t \in Task, NEW s \in Sid, StartRun(t, s)
    PROVE  /\ seen' \in [Task -> Seq(Row)]
           /\ pc' \in [Task -> Await] /\ pc' = [pc EXCEPT ![t] = "running"]
  BY ParkType DEF StartRun, TypeOK, Await, Critical, Turn

\* send_message ends at once, or takes the lock and parks.
LEMMA EnterSendType ==
    ASSUME TypeOK, NEW t \in Task, NEW s \in Sid, EnterSend(t, s)
    PROVE  /\ lock' \in [Sid -> Task \cup {NoTask}]
           /\ thread' \in [Sid -> Seq(Row)]
           /\ pc' \in [Task -> Await]
           /\ \E await \in {"resuming", "received", "done"} :
                 pc' = [pc EXCEPT ![t] = await]
           /\ outcome' \in [Task -> Outcome]
  <1>1. CASE /\ lock' = [lock EXCEPT ![s] = t]
             /\ Park(t, "resuming")
             /\ UNCHANGED <<thread, outcome>>
    <2>1. pc' \in [Task -> Await] /\ pc' = [pc EXCEPT ![t] = "resuming"]
      BY <1>1, ParkType DEF Await, Critical
    <2>2. QED
      BY <1>1, <2>1 DEF TypeOK
  <1>2. CASE /\ lock' = [lock EXCEPT ![s] = t]
             /\ TakeMessage(t, s)
             /\ UNCHANGED outcome
    BY <1>2, TakeMessageType DEF TypeOK
  <1>3. CASE /\ UNCHANGED <<lock, thread>>
             /\ \E o \in {"not_found", "busy", "closed"} : End(t, o)
    BY <1>3, EndType DEF TypeOK, Outcome
  <1>4. QED
    BY <1>1, <1>2, <1>3 DEF EnterSend

\* The output of a run is appended, or nothing is.
LEMMA OutputType ==
    ASSUME TypeOK, NEW t \in Task, NEW s \in Sid, NEW rows \in Outputs(t),
           thread' = [thread EXCEPT ![s] = @ \o rows]
    PROVE  thread' \in [Sid -> Seq(Row)]
  <1>1. rows \in Seq(Row) /\ thread[s] \in Seq(Row)
    BY RowsAreRows DEF TypeOK
  <1>2. thread[s] \o rows \in Seq(Row)
    BY <1>1
  <1>3. QED
    BY <1>2 DEF TypeOK

\* Every step keeps the types.
LEMMA NextType == TypeOK /\ [Next]_vars => TypeOK'
  <1> SUFFICES ASSUME TypeOK, [Next]_vars PROVE TypeOK'
    OBVIOUS
  <1> USE DEF daemonVars, sessionVars
  <1>1. ASSUME NEW t \in Task, NEW s \in Sid, NEW m \in Mode, Create(t, s, m)
        PROVE  TypeOK'
    <2>1. status' \in [Sid -> Status] /\ run_ids' \in [Sid -> SUBSET Task]
      BY <1>1 DEF Create, TypeOK, Status
    <2>2. meta' \in [Sid -> [status : Status, run_ids : SUBSET Task]]
      BY <1>1, <2>1, WriteMetaType DEF Create
    <2>3. pc' \in [Task -> Await] /\ pc' = [pc EXCEPT ![t] = "creating"]
      BY <1>1, ParkType DEF Create, Await
    <2>4. op' \in [Task -> Op]
      BY <1>1 DEF Create, Request, TypeOK, Op
    <2>5. QED
      BY <1>1, <2>1, <2>2, <2>3, <2>4 DEF Create, TypeOK
  <1>2. ASSUME NEW t \in Task, NEW s \in Sid, NEW c \in Content, Send(t, s, c)
        PROVE  TypeOK'
    <2>1. /\ target' = [target EXCEPT ![t] = s]
          /\ content' \in [Task -> Content]
          /\ op' \in [Task -> Op]
      BY <1>2 DEF Send, Request, TypeOK, Op
    <2>2. EnterSend(t, s)
      BY <1>2 DEF Send
    <2>3. /\ lock' \in [Sid -> Task \cup {NoTask}]
          /\ thread' \in [Sid -> Seq(Row)]
          /\ pc' \in [Task -> Await]
          /\ \A u \in Task \ {t} : pc'[u] = pc[u]
          /\ outcome' \in [Task -> Outcome]
      <3>1. PICK await \in {"resuming", "received", "done"} :
               pc' = [pc EXCEPT ![t] = await]
        BY <2>2, EnterSendType
      <3>2. QED
        BY <2>2, <3>1, EnterSendType DEF TypeOK
    <2>4. QED
      BY <1>2, <2>1, <2>3 DEF Send, TypeOK
  <1>3. ASSUME NEW t \in Task, NEW s \in Sid, Close(t, s)
        PROVE  TypeOK'
    <2>1. /\ op' \in [Task -> Op]
          /\ target' = [target EXCEPT ![t] = s]
          /\ UNCHANGED <<run_ids, daemonVars, mode, thread, content, seen>>
      BY <1>3 DEF Close, Request, TypeOK, Op
    <2>2. CASE /\ UNCHANGED <<status, lock, meta>>
               /\ \E o \in {"not_found", "busy"} : End(t, o)
      <3>1. /\ pc' \in [Task -> Await] /\ pc' = [pc EXCEPT ![t] = "done"]
            /\ outcome' \in [Task -> Outcome]
        BY <2>2, EndType DEF Outcome
      <3>2. QED
        BY <2>1, <2>2, <3>1 DEF TypeOK
    <2>3. CASE /\ lock' = [lock EXCEPT ![s] = t]
               /\ status' = [status EXCEPT ![s] = "closed"]
               /\ WriteMeta(s)
               /\ Park(t, "closing")
               /\ UNCHANGED outcome
      <3>1. status' \in [Sid -> Status] /\ run_ids' \in [Sid -> SUBSET Task]
        BY <2>1, <2>3 DEF TypeOK, Status
      <3>2. meta' \in [Sid -> [status : Status, run_ids : SUBSET Task]]
        BY <2>3, <3>1, WriteMetaType
      <3>3. pc' \in [Task -> Await] /\ pc' = [pc EXCEPT ![t] = "closing"]
        BY <2>3, ParkType DEF Await, Critical
      <3>4. QED
        BY <2>1, <2>3, <3>1, <3>2, <3>3 DEF TypeOK
    <2>4. QED
      BY <1>3, <2>2, <2>3 DEF Close
  <1>4. ASSUME NEW t \in Task, NEW s \in Sid, Compact(t, s)
        PROVE  TypeOK'
    <2>1. /\ op' \in [Task -> Op]
          /\ target' = [target EXCEPT ![t] = s]
          /\ UNCHANGED <<status, daemonVars, mode, run_ids, meta, thread,
                         content>>
      BY <1>4 DEF Compact, Request, TypeOK, Op
    <2>2. CASE /\ UNCHANGED <<lock, seen>>
               /\ \E o \in {"not_found", "busy"} : End(t, o)
      <3>1. /\ pc' \in [Task -> Await] /\ pc' = [pc EXCEPT ![t] = "done"]
            /\ outcome' \in [Task -> Outcome]
        BY <2>2, EndType DEF Outcome
      <3>2. QED
        BY <2>1, <2>2, <3>1 DEF TypeOK
    <2>3. CASE /\ lock' = [lock EXCEPT ![s] = t]
               /\ seen' = [seen EXCEPT ![t] = thread[s]]
               /\ Park(t, "compacting")
               /\ UNCHANGED outcome
      <3>1. pc' \in [Task -> Await] /\ pc' = [pc EXCEPT ![t] = "compacting"]
        BY <2>3, ParkType DEF Await, Critical
      <3>2. QED
        BY <2>1, <2>3, <3>1 DEF TypeOK
    <2>4. QED
      BY <1>4, <2>2, <2>3 DEF Compact
  <1>5. ASSUME NEW t \in Task, Created(t) PROVE TypeOK'
    <2>1. CASE Park(t, "scheduled") /\ UNCHANGED outcome
      <3>1. pc' \in [Task -> Await] /\ pc' = [pc EXCEPT ![t] = "scheduled"]
        BY <2>1, ParkType DEF Await
      <3>2. QED
        BY <1>5, <2>1, <3>1 DEF Created, TypeOK
    <2>2. CASE End(t, "returned")
      <3>1. /\ pc' \in [Task -> Await] /\ pc' = [pc EXCEPT ![t] = "done"]
            /\ outcome' \in [Task -> Outcome]
        BY <2>2, EndType DEF Outcome
      <3>2. QED
        BY <1>5, <3>1 DEF Created, TypeOK
    <2>3. QED
      BY <1>5, <2>1, <2>2 DEF Created
  <1>6. ASSUME NEW t \in Task, NEW c \in Content, StartScheduled(t, c)
        PROVE  TypeOK'
    <2>1. target[t] \in Sid /\ EnterSend(t, target[t])
      BY <1>6 DEF StartScheduled, TypeOK
    <2>2. PICK await \in {"resuming", "received", "done"} :
             pc' = [pc EXCEPT ![t] = await]
      BY <2>1, EnterSendType
    <2>3. QED
      BY <1>6, <2>1, <2>2, EnterSendType DEF StartScheduled, TypeOK
  <1>7. ASSUME NEW t \in Task, Resumed(t) PROVE TypeOK'
    BY <1>7, TakeMessageType DEF Resumed, TypeOK
  <1>8. ASSUME NEW t \in Task, Received(t) PROVE TypeOK'
    <2> DEFINE s == target[t]
    <2>1. s \in Sid
      BY <1>8 DEF Received, TypeOK
    <2>2. /\ status' \in [Sid -> Status]
          /\ run_ids' \in [Sid -> SUBSET Task]
      BY <1>8, <2>1 DEF Received, TypeOK
    <2>3. meta' \in [Sid -> [status : Status, run_ids : SUBSET Task]]
      BY <1>8, <2>1, <2>2, WriteMetaType DEF Received
    <2>4. /\ lock' \in [Sid -> Task \cup {NoTask}]
          /\ seen' \in [Task -> Seq(Row)]
          /\ pc' \in [Task -> Await]
          /\ outcome' \in [Task -> Outcome]
          /\ \E await \in Await : pc' = [pc EXCEPT ![t] = await]
      BY <1>8, <2>1, StartRunType, ParkType, EndType, ReleaseType
         DEF Received, TypeOK, Await, Critical, Turn, Outcome
    <2>5. QED
      BY <1>8, <2>1, <2>2, <2>3, <2>4 DEF Received, TypeOK
  <1>9. ASSUME NEW t \in Task, SkillInvoked(t) PROVE TypeOK'
    BY <1>9, StartRunType DEF SkillInvoked, TypeOK
  <1>10. ASSUME NEW t \in Task, RunReturns(t) PROVE TypeOK'
    <2>1. target[t] \in Sid
      BY <1>10 DEF RunReturns, TypeOK
    <2>2. thread' \in [Sid -> Seq(Row)]
      BY <1>10, <2>1, OutputType DEF RunReturns
    <2>3. pc' \in [Task -> Await] /\ pc' = [pc EXCEPT ![t] = "finishing"]
      BY <1>10, ParkType DEF RunReturns, Await, Critical
    <2>4. QED
      BY <1>10, <2>1, <2>2, <2>3 DEF RunReturns, TypeOK, Status
  <1>11. ASSUME NEW t \in Task, RunRaises(t) PROVE TypeOK'
    BY <1>11, ReleaseType, EndType DEF RunRaises, TypeOK, Outcome
  <1>12. ASSUME NEW t \in Task, Finish(t) PROVE TypeOK'
    <2>1. /\ target[t] \in Sid
          /\ UNCHANGED <<status, run_ids>>
      BY <1>12 DEF Finish, TypeOK
    <2>2. meta' \in [Sid -> [status : Status, run_ids : SUBSET Task]]
      BY <1>12, <2>1, WriteMetaType DEF Finish, TypeOK
    <2>3. QED
      BY <1>12, <2>1, <2>2, ReleaseType, EndType DEF Finish, TypeOK, Outcome
  <1>13. ASSUME NEW t \in Task, Closed(t) PROVE TypeOK'
    BY <1>13, ReleaseType, EndType DEF Closed, TypeOK, Outcome
  <1>14. ASSUME NEW t \in Task, Compacted(t) PROVE TypeOK'
    <2>1. target[t] \in Sid
      BY <1>14 DEF Compacted, TypeOK
    <2>2. <<SummaryRow(t)>> \in Seq(Row)
      BY RowsAreRows
    <2>3. thread' \in [Sid -> Seq(Row)]
      BY <1>14, <2>1, <2>2 DEF Compacted, TypeOK
    <2>4. QED
      BY <1>14, <2>1, <2>3, ReleaseType, EndType
         DEF Compacted, TypeOK, Outcome
  <1>15. ASSUME NEW t \in Task, CompactionFailed(t) PROVE TypeOK'
    BY <1>15, ReleaseType, EndType DEF CompactionFailed, TypeOK, Outcome
  <1>16. ASSUME NEW t \in Task, Cancel(t) PROVE TypeOK'
    <2>1. target[t] \in Sid
      BY <1>16 DEF Cancel, TypeOK
    <2>2. thread' \in [Sid -> Seq(Row)]
      BY <1>16, <2>1, OutputType DEF Cancel, TypeOK
    <2>3. lock' \in [Sid -> Task \cup {NoTask}]
      BY <1>16, <2>1, ReleaseType DEF Cancel, TypeOK
    <2>4. QED
      BY <1>16, <2>1, <2>2, <2>3, EndType DEF Cancel, TypeOK, Outcome
  <1>17. CASE Shutdown
    BY <1>17 DEF Shutdown, taskVars, TypeOK
  <1>18. CASE TearDown
    BY <1>18 DEF TearDown, taskVars, TypeOK
  <1>19. CASE UNCHANGED vars
    BY <1>19 DEF vars, taskVars, TypeOK
  <1>20. QED
    BY <1>1, <1>2, <1>3, <1>4, <1>5, <1>6, <1>7, <1>8, <1>9, <1>10, <1>11,
       <1>12, <1>13, <1>14, <1>15, <1>16, <1>17, <1>18, <1>19
       DEF Next, Arrive, Continue

\* The state keeps its shape in every behaviour of the session service.
THEOREM TypeCorrect == Spec => []TypeOK
  <1>1. Init => TypeOK
    BY InitType
  <1>2. TypeOK /\ [Next]_vars => TypeOK'
    BY NextType
  <1>3. QED
    BY <1>1, <1>2, PTL DEF Spec

-----------------------------------------------------------------------------
(* Exclusion *)

\* Every step keeps lock and pc in agreement.
LEMMA NextExclusion ==
    TypeOK /\ SessionExclusion /\ [Next]_vars => SessionExclusion'
  <1> SUFFICES ASSUME TypeOK, SessionExclusion, [Next]_vars
               PROVE  SessionExclusion'
    OBVIOUS
  <1> USE DEF TypeOK, SessionExclusion, Critical, Turn, daemonVars, sessionVars
  <1>1. ASSUME NEW t \in Task, NEW s \in Sid, NEW m \in Mode, Create(t, s, m)
        PROVE  SessionExclusion'
    BY <1>1 DEF Create, Request, Park
  <1>2. ASSUME NEW t \in Task, NEW s \in Sid, NEW c \in Content, Send(t, s, c)
        PROVE  SessionExclusion'
    BY <1>2 DEF Send, Request, EnterSend, TakeMessage, Park, End
  <1>3. ASSUME NEW t \in Task, NEW s \in Sid, Close(t, s)
        PROVE  SessionExclusion'
    BY <1>3 DEF Close, Request, Park, End
  <1>4. ASSUME NEW t \in Task, NEW s \in Sid, Compact(t, s)
        PROVE  SessionExclusion'
    BY <1>4 DEF Compact, Request, Park, End
  <1>5. ASSUME NEW t \in Task, Created(t)
        PROVE  SessionExclusion'
    BY <1>5 DEF Created, Park, End
  <1>6. ASSUME NEW t \in Task, NEW c \in Content, StartScheduled(t, c)
        PROVE  SessionExclusion'
    BY <1>6 DEF StartScheduled, EnterSend, TakeMessage, Park, End
  <1>7. ASSUME NEW t \in Task, Resumed(t)
        PROVE  SessionExclusion'
    BY <1>7 DEF Resumed, TakeMessage, Park
  <1>8. ASSUME NEW t \in Task, Received(t)
        PROVE  SessionExclusion'
    BY <1>8 DEF Received, StartRun, Park, End, Release
  <1>9. ASSUME NEW t \in Task, SkillInvoked(t)
        PROVE  SessionExclusion'
    BY <1>9 DEF SkillInvoked, StartRun, Park
  <1>10. ASSUME NEW t \in Task, RunReturns(t)
        PROVE  SessionExclusion'
    BY <1>10 DEF RunReturns, Park
  <1>11. ASSUME NEW t \in Task, RunRaises(t)
        PROVE  SessionExclusion'
    BY <1>11 DEF RunRaises, Release, End
  <1>12. ASSUME NEW t \in Task, Finish(t)
        PROVE  SessionExclusion'
    BY <1>12 DEF Finish, Release, End
  <1>13. ASSUME NEW t \in Task, Closed(t)
        PROVE  SessionExclusion'
    BY <1>13 DEF Closed, Release, End
  <1>14. ASSUME NEW t \in Task, Compacted(t)
        PROVE  SessionExclusion'
    BY <1>14 DEF Compacted, Release, End
  <1>15. ASSUME NEW t \in Task, CompactionFailed(t)
        PROVE  SessionExclusion'
    BY <1>15 DEF CompactionFailed, Release, End
  <1>16. ASSUME NEW t \in Task, Cancel(t)
        PROVE  SessionExclusion'
    BY <1>16 DEF Cancel, Release, End
  <1>17. CASE Shutdown
    BY <1>17 DEF Shutdown, taskVars
  <1>18. CASE TearDown
    BY <1>18 DEF TearDown, taskVars
  <1>19. CASE UNCHANGED vars
    BY <1>19 DEF vars, taskVars
  <1>20. QED
    BY <1>1, <1>2, <1>3, <1>4, <1>5, <1>6, <1>7, <1>8, <1>9, <1>10, <1>11,
       <1>12, <1>13, <1>14, <1>15, <1>16, <1>17, <1>18, <1>19
       DEF Next, Arrive, Continue

-----------------------------------------------------------------------------
(* What the lock protects: the status during a turn, and the thread between *)
(* a read and the write that depends on it                                  *)

\* No step closes a session while a turn is under way.
LEMMA NextTurnIsOpen ==
    TypeOK /\ SessionExclusion /\ TurnIsOpen /\ [Next]_vars => TurnIsOpen'
  <1> SUFFICES ASSUME TypeOK, SessionExclusion, TurnIsOpen, [Next]_vars
               PROVE  TurnIsOpen'
    OBVIOUS
  <1> USE DEF TypeOK, SessionExclusion, TurnIsOpen, Critical, Turn,
              daemonVars, sessionVars
  <1>1. ASSUME NEW t \in Task, NEW s \in Sid, NEW m \in Mode, Create(t, s, m)
        PROVE  TurnIsOpen'
    BY <1>1 DEF Create, Request, Park
  <1>2. ASSUME NEW t \in Task, NEW s \in Sid, NEW c \in Content, Send(t, s, c)
        PROVE  TurnIsOpen'
    BY <1>2 DEF Send, Request, EnterSend, TakeMessage, Park, End
  <1>3. ASSUME NEW t \in Task, NEW s \in Sid, Close(t, s)
        PROVE  TurnIsOpen'
    BY <1>3 DEF Close, Request, Park, End
  <1>4. ASSUME NEW t \in Task, NEW s \in Sid, Compact(t, s)
        PROVE  TurnIsOpen'
    BY <1>4 DEF Compact, Request, Park, End
  <1>5. ASSUME NEW t \in Task, Created(t)
        PROVE  TurnIsOpen'
    BY <1>5 DEF Created, Park, End
  <1>6. ASSUME NEW t \in Task, NEW c \in Content, StartScheduled(t, c)
        PROVE  TurnIsOpen'
    BY <1>6 DEF StartScheduled, EnterSend, TakeMessage, Park, End
  <1>7. ASSUME NEW t \in Task, Resumed(t)
        PROVE  TurnIsOpen'
    BY <1>7 DEF Resumed, TakeMessage, Park
  <1>8. ASSUME NEW t \in Task, Received(t)
        PROVE  TurnIsOpen'
    BY <1>8 DEF Received, StartRun, Park, End, Release
  <1>9. ASSUME NEW t \in Task, SkillInvoked(t)
        PROVE  TurnIsOpen'
    BY <1>9 DEF SkillInvoked, StartRun, Park
  <1>10. ASSUME NEW t \in Task, RunReturns(t)
        PROVE  TurnIsOpen'
    BY <1>10 DEF RunReturns, Park
  <1>11. ASSUME NEW t \in Task, RunRaises(t)
        PROVE  TurnIsOpen'
    BY <1>11 DEF RunRaises, Release, End
  <1>12. ASSUME NEW t \in Task, Finish(t)
        PROVE  TurnIsOpen'
    BY <1>12 DEF Finish, Release, End
  <1>13. ASSUME NEW t \in Task, Closed(t)
        PROVE  TurnIsOpen'
    BY <1>13 DEF Closed, Release, End
  <1>14. ASSUME NEW t \in Task, Compacted(t)
        PROVE  TurnIsOpen'
    BY <1>14 DEF Compacted, Release, End
  <1>15. ASSUME NEW t \in Task, CompactionFailed(t)
        PROVE  TurnIsOpen'
    BY <1>15 DEF CompactionFailed, Release, End
  <1>16. ASSUME NEW t \in Task, Cancel(t)
        PROVE  TurnIsOpen'
    BY <1>16 DEF Cancel, Release, End
  <1>17. CASE Shutdown
    BY <1>17 DEF Shutdown, taskVars
  <1>18. CASE TearDown
    BY <1>18 DEF TearDown, taskVars
  <1>19. CASE UNCHANGED vars
    BY <1>19 DEF vars, taskVars
  <1>20. QED
    BY <1>1, <1>2, <1>3, <1>4, <1>5, <1>6, <1>7, <1>8, <1>9, <1>10, <1>11,
       <1>12, <1>13, <1>14, <1>15, <1>16, <1>17, <1>18, <1>19
       DEF Next, Arrive, Continue

\* No step removes a session that is being compacted.
LEMMA NextCompactionIsOfSession ==
    TypeOK /\ CompactionIsOfSession /\ [Next]_vars => CompactionIsOfSession'
  <1> SUFFICES ASSUME TypeOK, CompactionIsOfSession, [Next]_vars
               PROVE  CompactionIsOfSession'
    OBVIOUS
  <1> USE DEF TypeOK, CompactionIsOfSession, daemonVars, sessionVars
  <1>1. ASSUME NEW t \in Task, NEW s \in Sid, NEW m \in Mode, Create(t, s, m)
        PROVE  CompactionIsOfSession'
    BY <1>1 DEF Create, Request, Park
  <1>2. ASSUME NEW t \in Task, NEW s \in Sid, NEW c \in Content, Send(t, s, c)
        PROVE  CompactionIsOfSession'
    BY <1>2 DEF Send, Request, EnterSend, TakeMessage, Park, End
  <1>3. ASSUME NEW t \in Task, NEW s \in Sid, Close(t, s)
        PROVE  CompactionIsOfSession'
    BY <1>3 DEF Close, Request, Park, End
  <1>4. ASSUME NEW t \in Task, NEW s \in Sid, Compact(t, s)
        PROVE  CompactionIsOfSession'
    BY <1>4 DEF Compact, Request, Park, End
  <1>5. ASSUME NEW t \in Task, Created(t)
        PROVE  CompactionIsOfSession'
    BY <1>5 DEF Created, Park, End
  <1>6. ASSUME NEW t \in Task, NEW c \in Content, StartScheduled(t, c)
        PROVE  CompactionIsOfSession'
    BY <1>6 DEF StartScheduled, EnterSend, TakeMessage, Park, End
  <1>7. ASSUME NEW t \in Task, Resumed(t)
        PROVE  CompactionIsOfSession'
    BY <1>7 DEF Resumed, TakeMessage, Park
  <1>8. ASSUME NEW t \in Task, Received(t)
        PROVE  CompactionIsOfSession'
    BY <1>8 DEF Received, StartRun, Park, End, Release
  <1>9. ASSUME NEW t \in Task, SkillInvoked(t)
        PROVE  CompactionIsOfSession'
    BY <1>9 DEF SkillInvoked, StartRun, Park
  <1>10. ASSUME NEW t \in Task, RunReturns(t)
        PROVE  CompactionIsOfSession'
    BY <1>10 DEF RunReturns, Park
  <1>11. ASSUME NEW t \in Task, RunRaises(t)
        PROVE  CompactionIsOfSession'
    BY <1>11 DEF RunRaises, Release, End
  <1>12. ASSUME NEW t \in Task, Finish(t)
        PROVE  CompactionIsOfSession'
    BY <1>12 DEF Finish, Release, End
  <1>13. ASSUME NEW t \in Task, Closed(t)
        PROVE  CompactionIsOfSession'
    BY <1>13 DEF Closed, Release, End
  <1>14. ASSUME NEW t \in Task, Compacted(t)
        PROVE  CompactionIsOfSession'
    BY <1>14 DEF Compacted, Release, End
  <1>15. ASSUME NEW t \in Task, CompactionFailed(t)
        PROVE  CompactionIsOfSession'
    BY <1>15 DEF CompactionFailed, Release, End
  <1>16. ASSUME NEW t \in Task, Cancel(t)
        PROVE  CompactionIsOfSession'
    BY <1>16 DEF Cancel, Release, End
  <1>17. CASE Shutdown
    BY <1>17 DEF Shutdown, taskVars
  <1>18. CASE TearDown
    BY <1>18 DEF TearDown, taskVars
  <1>19. CASE UNCHANGED vars
    BY <1>19 DEF vars, taskVars
  <1>20. QED
    BY <1>1, <1>2, <1>3, <1>4, <1>5, <1>6, <1>7, <1>8, <1>9, <1>10, <1>11,
       <1>12, <1>13, <1>14, <1>15, <1>16, <1>17, <1>18, <1>19
       DEF Next, Arrive, Continue

\* No step changes a thread that somebody else has read and will write.
LEMMA NextSnapshot ==
    TypeOK /\ SessionExclusion /\ SnapshotCurrent /\ [Next]_vars
        => SnapshotCurrent'
  <1> SUFFICES ASSUME TypeOK, SessionExclusion, SnapshotCurrent, [Next]_vars
               PROVE  SnapshotCurrent'
    OBVIOUS
  <1> USE DEF TypeOK, SessionExclusion, SnapshotCurrent, Critical, Turn,
              daemonVars, sessionVars
  <1>1. ASSUME NEW t \in Task, NEW s \in Sid, NEW m \in Mode, Create(t, s, m)
        PROVE  SnapshotCurrent'
    BY <1>1 DEF Create, Request, Park
  <1>2. ASSUME NEW t \in Task, NEW s \in Sid, NEW c \in Content, Send(t, s, c)
        PROVE  SnapshotCurrent'
    BY <1>2 DEF Send, Request, EnterSend, TakeMessage, Park, End
  <1>3. ASSUME NEW t \in Task, NEW s \in Sid, Close(t, s)
        PROVE  SnapshotCurrent'
    BY <1>3 DEF Close, Request, Park, End
  <1>4. ASSUME NEW t \in Task, NEW s \in Sid, Compact(t, s)
        PROVE  SnapshotCurrent'
    BY <1>4 DEF Compact, Request, Park, End
  <1>5. ASSUME NEW t \in Task, Created(t)
        PROVE  SnapshotCurrent'
    BY <1>5 DEF Created, Park, End
  <1>6. ASSUME NEW t \in Task, NEW c \in Content, StartScheduled(t, c)
        PROVE  SnapshotCurrent'
    <2> DEFINE s == target[t]
    <2>1. \/ thread' = thread
          \/ lock[s] = NoTask /\ thread' = [thread EXCEPT ![s] = Append(@, UserRow(t))]
      BY <1>6 DEF StartScheduled, EnterSend, TakeMessage
    <2>2. \A u \in Task :
             pc'[u] \in {"running", "compacting"} =>
                /\ u # t
                /\ pc'[u] = pc[u]
      BY <1>6 DEF StartScheduled, EnterSend, TakeMessage, Park, End
    <2>3. \A u \in Task :
             pc'[u] \in {"running", "compacting"} =>
                thread'[target[u]] = thread[target[u]]
      BY <2>1, <2>2
    <2>4. QED
      BY <1>6, <2>2, <2>3 DEF StartScheduled
  <1>7. ASSUME NEW t \in Task, Resumed(t)
        PROVE  SnapshotCurrent'
    BY <1>7 DEF Resumed, TakeMessage, Park
  <1>8. ASSUME NEW t \in Task, Received(t)
        PROVE  SnapshotCurrent'
    BY <1>8 DEF Received, StartRun, Park, End, Release
  <1>9. ASSUME NEW t \in Task, SkillInvoked(t)
        PROVE  SnapshotCurrent'
    BY <1>9 DEF SkillInvoked, StartRun, Park
  <1>10. ASSUME NEW t \in Task, RunReturns(t)
        PROVE  SnapshotCurrent'
    BY <1>10 DEF RunReturns, Park
  <1>11. ASSUME NEW t \in Task, RunRaises(t)
        PROVE  SnapshotCurrent'
    BY <1>11 DEF RunRaises, Release, End
  <1>12. ASSUME NEW t \in Task, Finish(t)
        PROVE  SnapshotCurrent'
    BY <1>12 DEF Finish, Release, End
  <1>13. ASSUME NEW t \in Task, Closed(t)
        PROVE  SnapshotCurrent'
    BY <1>13 DEF Closed, Release, End
  <1>14. ASSUME NEW t \in Task, Compacted(t)
        PROVE  SnapshotCurrent'
    BY <1>14 DEF Compacted, Release, End
  <1>15. ASSUME NEW t \in Task, CompactionFailed(t)
        PROVE  SnapshotCurrent'
    BY <1>15 DEF CompactionFailed, Release, End
  <1>16. ASSUME NEW t \in Task, Cancel(t)
        PROVE  SnapshotCurrent'
    BY <1>16 DEF Cancel, Release, End
  <1>17. CASE Shutdown
    BY <1>17 DEF Shutdown, taskVars
  <1>18. CASE TearDown
    BY <1>18 DEF TearDown, taskVars
  <1>19. CASE UNCHANGED vars
    BY <1>19 DEF vars, taskVars
  <1>20. QED
    BY <1>1, <1>2, <1>3, <1>4, <1>5, <1>6, <1>7, <1>8, <1>9, <1>10, <1>11,
       <1>12, <1>13, <1>14, <1>15, <1>16, <1>17, <1>18, <1>19
       DEF Next, Arrive, Continue

\* The invariant is inductive.
LEMMA Inductive == IInv /\ [Next]_vars => IInv'
  BY NextType, NextExclusion, NextTurnIsOpen, NextCompactionIsOfSession,
     NextSnapshot DEF IInv

\* The invariant holds in every reachable state.
LEMMA Invariance == Spec => []IInv
  <1>1. Init => IInv
    BY InitType DEF IInv, Init, SessionExclusion, TurnIsOpen,
       CompactionIsOfSession, SnapshotCurrent, Critical, Turn
  <1>2. QED
    BY <1>1, Inductive, PTL DEF Spec

\* No two requests work on one session at the same time.
THEOREM Exclusion == Spec => []SessionExclusion
  <1>1. IInv => SessionExclusion
    BY DEF IInv
  <1>2. QED
    BY <1>1, Invariance, PTL

\* Nothing is appended to a thread between the read a run or a compaction
\* starts from and the write that ends it.
THEOREM Snapshots == Spec => []SnapshotCurrent
  <1>1. IInv => SnapshotCurrent
    BY DEF IInv
  <1>2. QED
    BY <1>1, Invariance, PTL

-----------------------------------------------------------------------------
(* Closing is final *)

\* A step that starts in the invariant leaves closed sessions closed.
LEMMA ClosedStep ==
    ASSUME IInv, [Next]_vars, NEW s \in Sid, status[s] = "closed"
    PROVE  /\ status'[s] = "closed"
           /\ \/ thread'[s] = thread[s]
              \/ \E t \in Task : thread'[s] = <<SummaryRow(t)>>
  <1> DEFINE Goal == /\ status'[s] = "closed"
                     /\ \/ thread'[s] = thread[s]
                        \/ \E t \in Task : thread'[s] = <<SummaryRow(t)>>
  <1> USE DEF IInv, TypeOK, SessionExclusion, TurnIsOpen, Critical, Turn,
              daemonVars, sessionVars
  <1>1. ASSUME NEW t \in Task, Arrive(t) PROVE Goal
    BY <1>1 DEF Arrive, Create, Send, Close, Compact, EnterSend, TakeMessage, Status
  <1>2. ASSUME NEW t \in Task, NEW c \in Content, StartScheduled(t, c) PROVE Goal
    BY <1>2 DEF StartScheduled, EnterSend, TakeMessage
  <1>3. ASSUME NEW t \in Task, Resumed(t) PROVE Goal
    <2>1. target[t] \in Sid /\ target[t] # s
      BY <1>3 DEF Resumed
    <2>2. QED
      BY <1>3, <2>1 DEF Resumed, TakeMessage
  <1>4. ASSUME NEW t \in Task, RunReturns(t) PROVE Goal
    <2>1. target[t] \in Sid /\ target[t] # s
      BY <1>4 DEF RunReturns
    <2>2. thread'[s] = thread[s] /\ status'[s] = status[s]
      BY <1>4, <2>1 DEF RunReturns
    <2>3. QED
      BY <2>2
  <1>5. ASSUME NEW t \in Task, Compacted(t) PROVE Goal
    BY <1>5 DEF Compacted
  <1>6. ASSUME NEW t \in Task, Cancel(t) PROVE Goal
    <2>1. pc[t] = "running" => target[t] \in Sid /\ target[t] # s
      OBVIOUS
    <2>2. thread'[s] = thread[s]
      BY <1>6, <2>1 DEF Cancel
    <2>3. QED
      BY <1>6, <2>2 DEF Cancel
  <1>7. ASSUME NEW t \in Task,
               \/ Created(t) \/ Received(t) \/ SkillInvoked(t) \/ RunRaises(t)
               \/ Finish(t) \/ Closed(t) \/ CompactionFailed(t)
        PROVE  Goal
    BY <1>7 DEF Created, Received, SkillInvoked, RunRaises, Finish, Closed,
       CompactionFailed
  <1>8. CASE Shutdown \/ TearDown \/ UNCHANGED vars
    BY <1>8 DEF Shutdown, TearDown, vars
  <1>9. QED
    BY <1>1, <1>2, <1>3, <1>4, <1>5, <1>6, <1>7, <1>8
       DEF Next, Arrive, Continue

\* A closed session stays closed and its thread never grows again.
THEOREM ClosedForGood == Spec => ClosedIsFinal
  <1>1. IInv /\ [Next]_vars =>
            [\A s \in Sid :
                status[s] = "closed" =>
                    /\ status'[s] = "closed"
                    /\ \/ thread'[s] = thread[s]
                       \/ \E t \in Task : thread'[s] = <<SummaryRow(t)>>]_vars
    BY ClosedStep
  <1>2. QED
    BY <1>1, Invariance, PTL DEF Spec, ClosedIsFinal

-----------------------------------------------------------------------------
(* SessionManager implements SessionLifecycle *)

Phases == [s \in Sid |-> Phase(s)]
Turns  == [s \in Sid |-> TurnOf(s)]

\* The request whose turn it is, told by where the requests are parked.
TurnIsParked ==
    \A s \in Sid :
        /\ TurnOf(s) \in Task \cup {NoTask}
        /\ \A t \in Task : TurnOf(s) = t <=> target[t] = s /\ pc[t] \in Turn

\* The lock of a session names the task whose turn it is.
LEMMA TurnParked == IInv => TurnIsParked
  BY DEF IInv, TypeOK, SessionExclusion, TurnOf, TurnIsParked, Critical, Turn

\* A step that parks t elsewhere without beginning or ending a turn.
LEMMA SameTurns ==
    ASSUME TurnIsParked, TurnIsParked',
           \A t \in Task : /\ pc'[t] \in Turn <=> pc[t] \in Turn
                           /\ pc[t] \in Turn => target'[t] = target[t]
    PROVE  Turns' = Turns
  <1>1. ASSUME NEW s \in Sid PROVE TurnOf(s)' = TurnOf(s)
    BY DEF TurnIsParked
  <1>2. QED
    BY <1>1 DEF Turns

\* A step in which the turn of t begins.
LEMMA TurnBegins ==
    ASSUME TurnIsParked, TurnIsParked', NEW t \in Task, NEW s \in Sid,
           target'[t] = s, pc'[t] \in Turn, TurnOf(s) = NoTask,
           pc[t] \notin Turn,
           \A u \in Task \ {t} : pc'[u] = pc[u] /\ target'[u] = target[u]
    PROVE  Turns' = [Turns EXCEPT ![s] = t]
  <1>1. TurnOf(s)' = t
    BY DEF TurnIsParked
  <1>2. ASSUME NEW z \in Sid \ {s} PROVE TurnOf(z)' = TurnOf(z)
    BY DEF TurnIsParked
  <1>3. QED
    BY <1>1, <1>2 DEF Turns

\* A step in which the turn of t ends.
LEMMA TurnEnds ==
    ASSUME TurnIsParked, TurnIsParked', NEW t \in Task, NEW s \in Sid,
           target' = target, target[t] = s,
           pc[t] \in Turn, pc'[t] \notin Turn,
           \A u \in Task \ {t} : pc'[u] = pc[u]
    PROVE  /\ Turns[s] = t
           /\ Turns' = [Turns EXCEPT ![s] = NoTask]
  <1>1. TurnOf(s) = t /\ TurnOf(s)' = NoTask
    BY DEF TurnIsParked
  <1>2. ASSUME NEW z \in Sid \ {s} PROVE TurnOf(z)' = TurnOf(z)
    BY DEF TurnIsParked
  <1>3. QED
    BY <1>1, <1>2 DEF Turns

\* Appending the rows of a run appends one entry or none.
LEMMA OutputsAppend ==
    ASSUME NEW q \in Seq(Row), NEW t \in Task, NEW rows \in Outputs(t)
    PROVE  \/ q \o rows = q
           \/ q \o rows = Append(q, OutputRow(t))
  <1>1. CASE rows = <<>>
    BY <1>1
  <1>2. CASE rows = <<OutputRow(t)>>
    <2>1. OutputRow(t) \in Row
      BY DEF OutputRow, Row
    <2>2. QED
      BY <1>2, <2>1
  <1>3. QED
    BY <1>1, <1>2 DEF Outputs

\* What a run appends is an answer of the lifecycle, or nothing.
LEMMA OutputIsAnswer ==
    ASSUME IInv, NEW t \in Task, NEW s \in Sid, NEW rows \in Outputs(t),
           thread' = [thread EXCEPT ![s] = @ \o rows]
    PROVE  thread' \in {thread, [thread EXCEPT ![s] = Append(@, OutputRow(t))]}
  <1>1. thread \in [Sid -> Seq(Row)]
    BY DEF IInv, TypeOK
  <1>2. QED
    BY <1>1, OutputsAppend

\* The turn of t ends: an Answer of the conversation.
LEMMA AnswerStep ==
    ASSUME IInv, IInv', NEW t \in Task, NEW s \in Sid,
           target' = target, target[t] = s,
           pc[t] \in Turn, pc'[t] \notin Turn,
           \A u \in Task \ {t} : pc'[u] = pc[u],
           thread' \in {thread, [thread EXCEPT ![s] = Append(@, OutputRow(t))]},
           Phases' \in {Phases, [Phases EXCEPT ![s] = "closed"]}
    PROVE  Conversation!Answer(s)
  <1>1. TurnIsParked /\ TurnIsParked'
    BY TurnParked, PTL
  <1>2. Turns[s] = t /\ Turns' = [Turns EXCEPT ![s] = NoTask]
    BY <1>1, TurnEnds
  <1>3. QED
    BY <1>2 DEF Conversation!Answer, Conversation!Entry, Turns, Phases, OutputRow

\* A message is taken: an Ask of the conversation.
LEMMA AskStep ==
    ASSUME IInv, IInv', NEW t \in Task, NEW s \in Sid,
           TakeMessage(t, s), target'[t] = s,
           pc[t] \notin Turn, TurnOf(s) = NoTask,
           \A u \in Task \ {t} : target'[u] = target[u],
           status[s] \in {"active", "waiting_for_input"}, UNCHANGED status
    PROVE  Conversation!Ask(s, t)
  <1>1. TurnIsParked /\ TurnIsParked'
    BY TurnParked, PTL
  <1>2. /\ pc'[t] \in Turn
        /\ \A u \in Task \ {t} : pc'[u] = pc[u]
    BY DEF TakeMessage, Park, IInv, TypeOK, Turn
  <1>3. Turns' = [Turns EXCEPT ![s] = t]
    BY <1>1, <1>2, TurnBegins
  <1>4. Phases' = Phases /\ Phases[s] = "open"
    BY DEF Phases, Phase
  <1>5. thread' = [thread EXCEPT ![s] = Append(@, UserRow(t))]
    BY DEF TakeMessage
  <1>6. QED
    BY <1>3, <1>4, <1>5
       DEF Conversation!Ask, Conversation!Entry, Turns, Phases, UserRow

\* A step that is none of the conversation's business.
LEMMA QuietStep ==
    ASSUME IInv, IInv', UNCHANGED <<status, thread>>,
           \A t \in Task : /\ pc'[t] \in Turn <=> pc[t] \in Turn
                           /\ pc[t] \in Turn => target'[t] = target[t]
    PROVE  UNCHANGED Conversation!vars
  <1>1. TurnIsParked /\ TurnIsParked'
    BY TurnParked, PTL
  <1>2. Turns' = Turns
    BY <1>1, SameTurns
  <1>3. Phases' = Phases
    BY DEF Phases, Phase
  <1>4. QED
    BY <1>2, <1>3 DEF Conversation!vars, Turns, Phases

\* Who holds the lock without a turn keeps the turn free.
LEMMA NoTurnBeside ==
    ASSUME IInv, NEW s \in Sid,
           \/ lock[s] = NoTask
           \/ \E t \in Task : target[t] = s /\ pc[t] \in Critical \ Turn
    PROVE  TurnOf(s) = NoTask
  BY DEF IInv, TypeOK, SessionExclusion, TurnOf

\* Every step is a step of the lifecycle or leaves it unchanged.
LEMMA RefinementStep ==
    IInv /\ IInv' /\ [Next]_vars => [Conversation!Next]_(Conversation!vars)
  <1> SUFFICES ASSUME IInv, IInv', [Next]_vars
               PROVE  Conversation!Next \/ UNCHANGED Conversation!vars
    OBVIOUS
  <1>0. TurnIsParked /\ TurnIsParked'
    BY TurnParked, PTL
  <1> DEFINE Goal == Conversation!Next \/ UNCHANGED Conversation!vars
  <1> USE DEF IInv, TypeOK, daemonVars, sessionVars
  <1>1. ASSUME NEW t \in Task, NEW s \in Sid, NEW m \in Mode, Create(t, s, m)
        PROVE  Goal
    <2>1. \A u \in Task : /\ pc'[u] \in Turn <=> pc[u] \in Turn
                          /\ pc[u] \in Turn => target'[u] = target[u]
      BY <1>1 DEF Create, Request, Park, Turn
    <2>2. Turns' = Turns
      BY <1>0, <2>1, SameTurns
    <2>3. Phases[s] = "none" /\ Phases' = [Phases EXCEPT ![s] = "open"]
      BY <1>1 DEF Create, Phases, Phase
    <2>4. Conversation!Open(s)
      BY <1>1, <2>2, <2>3 DEF Conversation!Open, Create, Turns, Phases
    <2>5. QED
      BY <2>4 DEF Conversation!Next
  <1>2. ASSUME NEW t \in Task, NEW s \in Sid, EnterSend(t, s),
               pc[t] \in {"idle", "scheduled"}, target'[t] = s,
               \A u \in Task \ {t} : target'[u] = target[u], UNCHANGED status
        PROVE  Goal
    <2>1. CASE UNCHANGED thread
      <3>1. \A u \in Task : /\ pc'[u] \in Turn <=> pc[u] \in Turn
                            /\ pc[u] \in Turn => target'[u] = target[u]
        BY <1>2, <2>1 DEF EnterSend, TakeMessage, Park, End, Turn
      <3>2. QED
        BY <1>2, <2>1, <3>1, QuietStep
    <2>2. CASE /\ TakeMessage(t, s)
               /\ status[s] = "active"
               /\ lock[s] = NoTask
      <3>1. Conversation!Ask(s, t)
        BY <1>2, <2>2, AskStep, NoTurnBeside DEF Turn
      <3>2. QED
        BY <3>1 DEF Conversation!Next
    <2>3. QED
      BY <1>2, <2>1, <2>2 DEF EnterSend
  <1>3. ASSUME NEW t \in Task, Resumed(t) PROVE Goal
    <2>1. /\ target[t] \in Sid
          /\ TurnOf(target[t]) = NoTask
          /\ status[target[t]] \in {"active", "waiting_for_input"}
      BY <1>3, NoTurnBeside DEF Resumed, TurnIsOpen, Critical, Turn
    <2>2. Conversation!Ask(target[t], t)
      BY <1>3, <2>1, AskStep DEF Resumed, Turn
    <2>3. QED
      BY <2>1, <2>2 DEF Conversation!Next
  <1>4. ASSUME NEW t \in Task, Received(t) PROVE Goal
    <2>1. CASE content[t] = "slash"
      <3>1. /\ target[t] \in Sid
            /\ pc[t] \in Turn /\ pc'[t] \notin Turn
            /\ \A u \in Task \ {t} : pc'[u] = pc[u]
            /\ UNCHANGED <<status, thread, target>>
        BY <1>4, <2>1 DEF Received, StartRun, Park, End, Turn
      <3>2. Phases' = Phases
        BY <3>1 DEF Phases, Phase
      <3>3. Conversation!Answer(target[t])
        BY <3>1, <3>2, AnswerStep
      <3>4. QED
        BY <3>1, <3>3 DEF Conversation!Next
    <2>2. CASE content[t] # "slash"
      <3>1. /\ \A u \in Task : pc'[u] \in Turn <=> pc[u] \in Turn
            /\ UNCHANGED <<status, thread, target>>
        BY <1>4, <2>2 DEF Received, StartRun, Park, Turn
      <3>2. QED
        BY <3>1, QuietStep
    <2>3. QED
      BY <2>1, <2>2
  <1>5. ASSUME NEW t \in Task, RunReturns(t) PROVE Goal
    <2>1. /\ target[t] \in Sid
          /\ pc[t] \in Turn /\ pc'[t] \notin Turn
          /\ \A u \in Task \ {t} : pc'[u] = pc[u]
          /\ target' = target
      BY <1>5 DEF RunReturns, Park, Turn
    <2>2. thread' \in {thread, [thread EXCEPT ![target[t]] = Append(@, OutputRow(t))]}
      BY <1>5, <2>1, OutputIsAnswer DEF RunReturns
    <2>3. Phases' \in {Phases, [Phases EXCEPT ![target[t]] = "closed"]}
      <3>1. status[target[t]] \in {"active", "waiting_for_input"}
        BY <1>5 DEF RunReturns, TurnIsOpen, Turn
      <3>2. QED
        BY <1>5, <2>1, <3>1 DEF RunReturns, Phases, Phase
    <2>4. Conversation!Answer(target[t])
      BY <2>1, <2>2, <2>3, AnswerStep
    <2>5. QED
      BY <2>1, <2>4 DEF Conversation!Next
  <1>6. ASSUME NEW t \in Task, RunRaises(t) PROVE Goal
    <2>1. /\ target[t] \in Sid
          /\ pc[t] \in Turn /\ pc'[t] \notin Turn
          /\ \A u \in Task \ {t} : pc'[u] = pc[u]
          /\ UNCHANGED <<status, thread, target>>
      BY <1>6 DEF RunRaises, End, Turn
    <2>2. Phases' = Phases
      BY <2>1 DEF Phases, Phase
    <2>3. Conversation!Answer(target[t])
      BY <2>1, <2>2, AnswerStep
    <2>4. QED
      BY <2>1, <2>3 DEF Conversation!Next
  <1>7. ASSUME NEW t \in Task, NEW s \in Sid, Close(t, s) PROVE Goal
    <2>1. /\ \A u \in Task : /\ pc'[u] \in Turn <=> pc[u] \in Turn
                             /\ pc[u] \in Turn => target'[u] = target[u]
          /\ UNCHANGED thread
      BY <1>7 DEF Close, Request, Park, End, Turn
    <2>2. Turns' = Turns
      BY <1>0, <2>1, SameTurns
    <2>3. CASE status' = status
      BY <2>1, <2>3, QuietStep
    <2>4. CASE status' # status
      <3>1. /\ lock[s] = NoTask
            /\ status[s] \notin {"absent", "closed"}
            /\ status' = [status EXCEPT ![s] = "closed"]
        BY <1>7, <2>4 DEF Close
      <3>2. Phases[s] = "open" /\ Phases' = [Phases EXCEPT ![s] = "closed"]
        BY <3>1 DEF Phases, Phase
      <3>3. Turns[s] = NoTask
        BY <3>1, NoTurnBeside DEF Turns
      <3>4. Conversation!Shut(s)
        BY <2>1, <2>2, <3>2, <3>3 DEF Conversation!Shut, Turns, Phases
      <3>5. QED
        BY <3>4 DEF Conversation!Next
    <2>5. QED
      BY <2>3, <2>4
  <1>8. ASSUME NEW t \in Task, Compacted(t) PROVE Goal
    <2> DEFINE s == target[t]
    <2>1. /\ s \in Sid
          /\ \A u \in Task : pc'[u] \in Turn <=> pc[u] \in Turn
          /\ UNCHANGED <<status, target>>
          /\ thread' = [thread EXCEPT ![s] = <<SummaryRow(t)>>]
      BY <1>8 DEF Compacted, End, Turn
    <2>2. Turns' = Turns
      BY <1>0, <2>1, SameTurns
    <2>3. Turns[s] = NoTask
      BY <1>8, <2>1, NoTurnBeside DEF Compacted, Critical, Turn, Turns
    <2>4. Phases' = Phases /\ Phases[s] # "none"
      BY <1>8, <2>1 DEF Compacted, CompactionIsOfSession, Phases, Phase, Status
    <2>5. Conversation!Fold(s, t)
      BY <2>1, <2>2, <2>3, <2>4
         DEF Conversation!Fold, Conversation!Entry, Turns, Phases, SummaryRow
    <2>6. QED
      BY <2>1, <2>5 DEF Conversation!Next
  <1>9. ASSUME NEW t \in Task, Cancel(t) PROVE Goal
    <2>1. CASE pc[t] \in Turn
      <3>1. /\ target[t] \in Sid
            /\ pc'[t] \notin Turn
            /\ \A u \in Task \ {t} : pc'[u] = pc[u]
            /\ UNCHANGED <<status, target>>
        BY <1>9, <2>1 DEF Cancel, End, Turn
      <3>2. Phases' = Phases
        BY <3>1 DEF Phases, Phase
      <3>3. thread' \in {thread, [thread EXCEPT ![target[t]] = Append(@, OutputRow(t))]}
        BY <1>9, <3>1, OutputIsAnswer DEF Cancel
      <3>4. Conversation!Answer(target[t])
        BY <2>1, <3>1, <3>2, <3>3, AnswerStep
      <3>5. QED
        BY <3>1, <3>4 DEF Conversation!Next
    <2>2. CASE pc[t] \notin Turn
      <3>1. /\ \A u \in Task : pc'[u] \in Turn <=> pc[u] \in Turn
            /\ UNCHANGED <<status, thread, target>>
        BY <1>9, <2>2 DEF Cancel, End, Turn
      <3>2. QED
        BY <3>1, QuietStep
    <2>3. QED
      BY <2>1, <2>2
  <1>10. ASSUME NEW t \in Task,
                \/ Created(t) \/ SkillInvoked(t) \/ Finish(t) \/ Closed(t)
                \/ CompactionFailed(t)
         PROVE  Goal
    <2>1. /\ \A u \in Task : pc'[u] \in Turn <=> pc[u] \in Turn
          /\ UNCHANGED <<status, thread, target>>
      BY <1>10 DEF Created, SkillInvoked, StartRun, Finish, Closed,
         CompactionFailed, Park, End, Turn
    <2>2. QED
      BY <2>1, QuietStep
  <1>11. ASSUME NEW t \in Task, NEW s \in Sid, Compact(t, s) PROVE Goal
    <2>1. /\ \A u \in Task : /\ pc'[u] \in Turn <=> pc[u] \in Turn
                             /\ pc[u] \in Turn => target'[u] = target[u]
          /\ UNCHANGED <<status, thread>>
      BY <1>11 DEF Compact, Request, Park, End, Turn
    <2>2. QED
      BY <2>1, QuietStep
  <1>12. ASSUME NEW t \in Task, NEW s \in Sid, NEW c \in Content, Send(t, s, c)
         PROVE  Goal
    <2>1. /\ EnterSend(t, s) /\ pc[t] = "idle" /\ target'[t] = s
          /\ \A u \in Task \ {t} : target'[u] = target[u]
          /\ UNCHANGED status
      BY <1>12 DEF Send, Request
    <2>2. QED
      BY <1>2, <2>1
  <1>13. ASSUME NEW t \in Task, NEW c \in Content, StartScheduled(t, c)
         PROVE  Goal
    <2>1. /\ target[t] \in Sid
          /\ EnterSend(t, target[t]) /\ pc[t] = "scheduled" /\ target' = target
          /\ UNCHANGED status
      BY <1>13 DEF StartScheduled
    <2>2. QED
      BY <1>2, <2>1
  <1>14. CASE Shutdown \/ TearDown \/ UNCHANGED vars
    <2>1. UNCHANGED <<status, thread, pc, target>>
      BY <1>14 DEF Shutdown, TearDown, vars, taskVars
    <2>2. QED
      BY <2>1, QuietStep
  <1>15. QED
    BY <1>1, <1>3, <1>4, <1>5, <1>6, <1>7, <1>8, <1>9, <1>10, <1>11, <1>12,
       <1>13, <1>14 DEF Next, Arrive, Continue

\* Every behaviour of the service is a conversation of whole turns.
THEOREM ImplementsLifecycle == Spec => Refinement
  <1>1. Init => Conversation!Init
    BY DEF Init, Conversation!Init, Phase, TurnOf
  <1>2. QED
    BY <1>1, RefinementStep, Invariance, PTL
       DEF Spec, Refinement, Conversation!Spec

-----------------------------------------------------------------------------
(* The rows of a thread *)

\* An output stands directly behind the message it answers.
Follows(q) ==
    \A i \in 1 .. Len(q) :
        q[i].kind = "output" => i > 1 /\ q[i - 1] = UserRow(q[i].by)

\* The last row is the message of t.
EndsWith(q, t) == q # <<>> /\ q[Len(q)] = UserRow(t)

\* While a turn is under way its message is the last row of the thread.
MessageIsLast ==
    \A t \in Task : pc[t] \in Turn => EndsWith(thread[target[t]], t)

OthersStay(t) == \A u \in Task \ {t} : pc'[u] = pc[u] /\ target'[u] = target[u]

\* What a step can do to the threads.
Quiet == UNCHANGED thread /\ \A u \in Task : pc'[u] \in Turn => pc[u] \in Turn /\ target'[u] = target[u]

Asks(t, s) ==
    /\ target'[t] = s /\ pc[t] \notin Turn
    /\ lock[s] = NoTask \/ (target[t] = s /\ pc[t] \in Critical)
    /\ OthersStay(t)
    /\ thread' = [thread EXCEPT ![s] = Append(thread[s], UserRow(t))]

Replies(t) ==
    /\ pc[t] = "running" /\ pc'[t] \notin Turn /\ target' = target
    /\ OthersStay(t)
    /\ \E rows \in Outputs(t) : thread' = [thread EXCEPT ![target[t]] = thread[target[t]] \o rows]

Sums(t) ==
    /\ pc[t] = "compacting" /\ pc'[t] \notin Turn /\ target' = target
    /\ OthersStay(t)
    /\ thread' = [thread EXCEPT ![target[t]] = <<SummaryRow(t)>>]

RowStep ==
    \/ Quiet
    \/ \E t \in Task, s \in Sid : Asks(t, s)
    \/ \E t \in Task : Replies(t) \/ Sums(t)

\* Messages come behind what a free session has, outputs behind what the
\* run has answered to, and a summary instead of everything.
LEMMA RowSteps ==
    ASSUME IInv, [Next]_vars
    PROVE  RowStep
<1> USE DEF IInv, TypeOK, Critical, Turn, daemonVars, sessionVars
<1>1. ASSUME NEW t \in Task, NEW s \in Sid, NEW m \in Mode, Create(t, s, m)
      PROVE  Quiet
  BY <1>1 DEF Create, Request, Park, Quiet
<1>2. ASSUME NEW t \in Task, NEW s \in Sid, NEW c \in Content, Send(t, s, c)
      PROVE  Quiet \/ Asks(t, s)
  BY <1>2 DEF Send, Request, EnterSend, TakeMessage, Park, End, Quiet, Asks, OthersStay
<1>3. ASSUME NEW t \in Task, NEW s \in Sid, Close(t, s) \/ Compact(t, s)
      PROVE  Quiet
  BY <1>3 DEF Close, Compact, Request, Park, End, Quiet
<1>4. ASSUME NEW t \in Task, Created(t) \/ SkillInvoked(t) \/ Received(t)
      PROVE  Quiet
  BY <1>4 DEF Created, SkillInvoked, Received, StartRun, Park, End, Quiet
<1>5. ASSUME NEW t \in Task, NEW c \in Content, StartScheduled(t, c)
      PROVE  target[t] \in Sid /\ (Quiet \/ Asks(t, target[t]))
  BY <1>5 DEF StartScheduled, EnterSend, TakeMessage, Park, End, Quiet, Asks, OthersStay
<1>6. ASSUME NEW t \in Task, Resumed(t)
      PROVE  Asks(t, target[t]) /\ target[t] \in Sid
  BY <1>6 DEF Resumed, TakeMessage, Park, Asks, OthersStay
<1>7. ASSUME NEW t \in Task, RunReturns(t)
      PROVE  Replies(t)
  BY <1>7 DEF RunReturns, Park, Replies, OthersStay
<1>8. ASSUME NEW t \in Task, RunRaises(t) \/ Finish(t) \/ Closed(t) \/ CompactionFailed(t)
      PROVE  Quiet
  BY <1>8 DEF RunRaises, Finish, Closed, CompactionFailed, End, Quiet
<1>9. ASSUME NEW t \in Task, Compacted(t)
      PROVE  Sums(t)
  BY <1>9 DEF Compacted, End, Sums, OthersStay
<1>10. ASSUME NEW t \in Task, Cancel(t)
       PROVE  Quiet \/ Replies(t)
  BY <1>10 DEF Cancel, End, Quiet, Replies, OthersStay
<1>11. ASSUME Shutdown \/ TearDown \/ UNCHANGED vars
       PROVE  Quiet
  BY <1>11 DEF Shutdown, TearDown, vars, taskVars, Quiet
<1> HIDE DEF IInv, TypeOK, Critical, Turn, daemonVars, sessionVars
<1>12. ASSUME NEW t \in Task, Arrive(t) \/ Continue(t) \/ Cancel(t)
       PROVE  RowStep
  <2>1. CASE Arrive(t)
    BY <1>1, <1>2, <1>3, <2>1 DEF Arrive, RowStep
  <2>2. CASE Continue(t)
    <3>1. CASE \E c \in Content : StartScheduled(t, c)
      BY <1>5, <3>1 DEF RowStep
    <3>2. CASE Resumed(t) \/ RunReturns(t) \/ Compacted(t)
      BY <1>6, <1>7, <1>9, <3>2 DEF RowStep
    <3>3. CASE \/ Created(t) \/ SkillInvoked(t) \/ Received(t)
               \/ RunRaises(t) \/ Finish(t) \/ Closed(t) \/ CompactionFailed(t)
      BY <1>4, <1>8, <3>3 DEF RowStep
    <3> QED BY <2>2, <3>1, <3>2, <3>3 DEF Continue
  <2> QED BY <1>10, <1>12, <2>1, <2>2 DEF RowStep
<1> QED BY <1>11, <1>12 DEF Next, RowStep

\* What may come behind the rows of a thread.
LEMMA FollowsAppend ==
    ASSUME NEW q \in Seq(Row), Follows(q), NEW t \in Task
    PROVE  /\ Follows(Append(q, UserRow(t))) /\ EndsWith(Append(q, UserRow(t)), t)
           /\ EndsWith(q, t) => Follows(Append(q, OutputRow(t)))
           /\ Follows(<<SummaryRow(t)>>)
<1>1. Len(q) \in Nat /\ UserRow(t) \in Row /\ OutputRow(t) \in Row
  BY RowsAreRows DEF OutputRow, Row
<1>2. \A r \in Row : /\ Len(Append(q, r)) = Len(q) + 1 /\ Append(q, r)[Len(q) + 1] = r
                     /\ Append(q, r) # <<>>
                     /\ \A i \in 1 .. Len(q) : Append(q, r)[i] = q[i]
  OBVIOUS
<1>3. /\ UserRow(t).kind = "user" /\ OutputRow(t).kind = "output" /\ OutputRow(t).by = t
      /\ SummaryRow(t).kind = "summary"
  BY DEF UserRow, OutputRow, SummaryRow
<1>4. ASSUME NEW r \in Row, r.kind = "output" => q # <<>> /\ q[Len(q)] = UserRow(r.by)
      PROVE  Follows(Append(q, r))
  <2> SUFFICES ASSUME NEW i \in 1 .. Len(q) + 1, Append(q, r)[i].kind = "output"
               PROVE  i > 1 /\ Append(q, r)[i - 1] = UserRow(Append(q, r)[i].by)
    BY <1>2 DEF Follows
  <2>1. CASE i = Len(q) + 1
    <3>1. r.kind = "output" /\ Append(q, r)[i] = r
      BY <1>2, <2>1
    <3>2. Len(q) \in 1 .. Len(q) /\ i - 1 = Len(q)
      BY <1>1, <1>4, <2>1, <3>1
    <3>3. Append(q, r)[i - 1] = q[Len(q)]
      BY <1>2, <3>2
    <3> QED BY <1>4, <3>1, <3>2, <3>3
  <2>2. CASE i # Len(q) + 1
    <3>1. i \in 1 .. Len(q) /\ Append(q, r)[i] = q[i]
      BY <1>1, <1>2, <2>2
    <3>2. i > 1 /\ q[i - 1] = UserRow(q[i].by)
      BY <3>1 DEF Follows
    <3>3. i - 1 \in 1 .. Len(q)
      BY <1>1, <3>1, <3>2
    <3> QED BY <1>2, <3>1, <3>2, <3>3
  <2> QED BY <2>1, <2>2
<1>5. Follows(Append(q, UserRow(t)))
  BY <1>1, <1>3, <1>4
<1>6. EndsWith(Append(q, UserRow(t)), t)
  BY <1>1, <1>2 DEF EndsWith
<1>7. EndsWith(q, t) => Follows(Append(q, OutputRow(t)))
  BY <1>1, <1>3, <1>4 DEF EndsWith
<1>8. Follows(<<SummaryRow(t)>>)
  BY <1>3 DEF Follows
<1> QED BY <1>5, <1>6, <1>7, <1>8

RowsInv ==
    /\ \A s \in Sid : Follows(thread[s])
    /\ MessageIsLast

\* A turn that goes on beside the step of t, and one in the session of t.
LEMMA BesideTurn ==
    ASSUME IInv, NEW t \in Task, NEW s \in Sid, OthersStay(t),
           lock[s] = NoTask \/ (target[t] = s /\ pc[t] \in Critical),
           NEW u \in Task \ {t}, pc'[u] \in Turn
    PROVE  pc[u] \in Turn /\ target'[u] = target[u] /\ target[u] \in Sid /\ target[u] # s
BY DEF IInv, TypeOK, SessionExclusion, OthersStay, Turn, Critical

LEMMA NextRows == IInv /\ RowsInv /\ [Next]_vars => RowsInv'
<1> SUFFICES ASSUME IInv, RowsInv, [Next]_vars PROVE RowsInv'
  OBVIOUS
<1>1. thread \in [Sid -> Seq(Row)] /\ \A t \in Task : pc[t] \in Turn => target[t] \in Sid
  BY DEF IInv, TypeOK, Turn
<1>2. CASE Quiet
  BY <1>2 DEF Quiet, RowsInv, MessageIsLast, EndsWith, Follows
<1>3. ASSUME NEW t \in Task, NEW s \in Sid, NEW q \in Seq(Row),
             thread' = [thread EXCEPT ![s] = q], Follows(q), OthersStay(t),
             lock[s] = NoTask \/ (target[t] = s /\ pc[t] \in Critical),
             pc'[t] \in Turn => target'[t] = s /\ EndsWith(q, t)
      PROVE  RowsInv'
  <2>1. thread'[s] = q /\ \A z \in Sid \ {s} : thread'[z] = thread[z]
    BY <1>1, <1>3
  <2>2. \A z \in Sid : Follows(thread'[z])
    BY <1>3, <2>1 DEF RowsInv
  <2>3. ASSUME NEW u \in Task, pc'[u] \in Turn PROVE EndsWith(thread'[target'[u]], u)
    <3>1. CASE u = t
      BY <1>3, <2>1, <2>3, <3>1
    <3>2. CASE u # t
      <4>1. pc[u] \in Turn /\ target'[u] = target[u] /\ target[u] \in Sid /\ target[u] # s
        BY <1>3, <2>3, <3>2, BesideTurn
      <4>2. EndsWith(thread[target[u]], u)
        BY <4>1 DEF RowsInv, MessageIsLast
      <4> QED BY <2>1, <4>1, <4>2
    <3> QED BY <3>1, <3>2
  <2> QED BY <2>2, <2>3 DEF RowsInv, MessageIsLast, EndsWith, Follows
<1>4. ASSUME NEW t \in Task, NEW s \in Sid, Asks(t, s) PROVE RowsInv'
  <2> DEFINE q == Append(thread[s], UserRow(t))
  <2>1. Follows(thread[s]) /\ thread[s] \in Seq(Row)
    BY <1>1 DEF RowsInv
  <2>2. q \in Seq(Row) /\ Follows(q) /\ EndsWith(q, t)
    <3>1. q \in Seq(Row)
      BY <2>1, RowsAreRows
    <3>2. Follows(q) /\ EndsWith(q, t)
      BY <2>1, FollowsAppend
    <3> QED BY <3>1, <3>2
  <2> HIDE DEF q
  <2> QED BY <1>3, <1>4, <2>2 DEF Asks, q
<1>5. ASSUME NEW t \in Task, Replies(t) PROVE RowsInv'
  <2> DEFINE s == target[t]
  <2>1. s \in Sid /\ pc[t] \in Critical /\ pc[t] \in Turn
    BY <1>1, <1>5 DEF Replies, Turn, Critical
  <2>2. Follows(thread[s]) /\ thread[s] \in Seq(Row) /\ EndsWith(thread[s], t)
    BY <1>1, <2>1 DEF RowsInv, MessageIsLast
  <2>3. PICK rows \in Outputs(t) : thread' = [thread EXCEPT ![s] = thread[s] \o rows]
    BY <1>5 DEF Replies
  <2> DEFINE q == thread[s] \o rows
  <2>4. q \in Seq(Row) /\ Follows(q)
    <3>1. q = thread[s] \/ q = Append(thread[s], OutputRow(t))
      BY <2>2, OutputsAppend
    <3>2. q \in Seq(Row)
      BY <2>2, RowsAreRows
    <3> HIDE DEF q
    <3> QED BY <2>2, <3>1, <3>2, FollowsAppend
  <2> HIDE DEF q, s
  <2>5. thread' = [thread EXCEPT ![s] = q]
    BY <2>3 DEF q
  <2> QED BY <1>3, <1>5, <2>1, <2>4, <2>5 DEF Replies, s
<1>6. ASSUME NEW t \in Task, Sums(t) PROVE RowsInv'
  <2> DEFINE s == target[t]
  <2> DEFINE q == <<SummaryRow(t)>>
  <2>1. s \in Sid /\ pc[t] \in Critical
    BY <1>6 DEF Sums, Critical, IInv, TypeOK
  <2>2. q \in Seq(Row) /\ Follows(q)
    <3>1. Follows(thread[s]) /\ thread[s] \in Seq(Row)
      BY <1>1, <2>1 DEF RowsInv
    <3> QED BY <3>1, FollowsAppend, RowsAreRows
  <2>3. thread' = [thread EXCEPT ![s] = q]
    BY <1>6 DEF Sums
  <2> HIDE DEF q, s
  <2> QED BY <1>3, <1>6, <2>1, <2>2, <2>3 DEF Sums, s
<1> QED BY <1>2, <1>4, <1>5, <1>6, RowSteps DEF RowStep

\* The output of a run stands directly behind the message it answers:
\* send_message holds the lock of the session from the append of the
\* message to the return of run_and_capture.
THEOREM OutputsFollow == Spec => []OutputFollowsItsMessage
<1>1. Init => RowsInv
  BY DEF Init, RowsInv, Follows, MessageIsLast, Turn
<1>2. RowsInv => OutputFollowsItsMessage
  BY DEF RowsInv, Follows, OutputFollowsItsMessage
<1> QED BY <1>1, <1>2, Invariance, NextRows, PTL DEF Spec

-----------------------------------------------------------------------------
(* meta.json *)

Current(s) == meta[s] = [status |-> status[s], run_ids |-> run_ids[s]]

Finishing(s) == \E t \in Task : target[t] = s /\ pc[t] = "finishing"

\* The run ids in meta.json are those of the session, and the run of a task
\* that has started one is among them.  What is not saved is the status a
\* run has left, until its event is published.
MetaInv ==
    /\ \A s \in Sid : meta[s].run_ids \subseteq run_ids[s]
    /\ \A t \in Task : pc[t] \in {"invoking", "running"} => t \in meta[target[t]].run_ids
    /\ daemon = "serving" => \A s \in Sid : Current(s) \/ Finishing(s)

\* What a step can do to the metadata of a session: nothing at all, save
\* it, or leave it to a run that is finishing.
Untouched(s) ==
    /\ UNCHANGED <<status[s], run_ids[s], meta[s]>>
    /\ \A t \in Task : (target[t] = s /\ pc[t] = "finishing")
                          => target'[t] = s /\ pc'[t] = "finishing"

Unsaved(s) == UNCHANGED <<run_ids[s], meta[s]>>

MetaStep ==
    /\ daemon' = "serving" => daemon = "serving"
    /\ \A s \in Sid : \/ Untouched(s)
                      \/ run_ids[s] \subseteq run_ids'[s] /\ Current(s)'
                      \/ Unsaved(s) /\ (daemon' # "serving" \/ Finishing(s)')
    /\ \A t \in Task : pc'[t] \in {"invoking", "running"} =>
          /\ target[t] \in Sid /\ target'[t] = target[t]
          /\ \/ pc[t] \in {"invoking", "running"}
             \/ t \in run_ids'[target[t]] /\ Current(target[t])'

LEMMA MetaSteps ==
    ASSUME IInv, [Next]_vars
    PROVE  MetaStep
<1> USE DEF IInv, TypeOK, Critical, Turn, daemonVars, sessionVars, MetaStep, Untouched,
            Unsaved, Current, Finishing
<1>1. ASSUME NEW t \in Task, NEW s \in Sid, NEW m \in Mode, Create(t, s, m)
      PROVE  MetaStep
  BY <1>1 DEF Create, Request, Park, WriteMeta
<1>2. ASSUME NEW t \in Task, NEW s \in Sid, NEW c \in Content, Send(t, s, c)
      PROVE  MetaStep
  BY <1>2 DEF Send, Request, EnterSend, TakeMessage, Park, End
<1>3. ASSUME NEW t \in Task, NEW s \in Sid, Close(t, s)
      PROVE  MetaStep
  BY <1>3 DEF Close, Request, Park, End, WriteMeta
<1>4. ASSUME NEW t \in Task, NEW s \in Sid, Compact(t, s)
      PROVE  MetaStep
  BY <1>4 DEF Compact, Request, Park, End
<1>5. ASSUME NEW t \in Task, Created(t) \/ SkillInvoked(t) \/ Resumed(t)
      PROVE  MetaStep
  <2>1. CASE Created(t)
    BY <2>1 DEF Created, TakeMessage, Park, End
  <2>2. CASE SkillInvoked(t)
    BY <2>2 DEF SkillInvoked, StartRun, Park, End
  <2>3. CASE Resumed(t)
    BY <2>3 DEF Resumed, TakeMessage, Park, End
  <2>4. QED
    BY <1>5, <2>1, <2>2, <2>3
<1>6. ASSUME NEW t \in Task, Received(t)
      PROVE  MetaStep
  BY <1>6 DEF Received, StartRun, Park, End, WriteMeta
<1>7. ASSUME NEW t \in Task, NEW c \in Content, StartScheduled(t, c)
      PROVE  MetaStep
  BY <1>7 DEF StartScheduled, EnterSend, TakeMessage, Park, End
<1>8. ASSUME NEW t \in Task, RunReturns(t)
      PROVE  MetaStep
  BY <1>8 DEF RunReturns, Park
<1>9. ASSUME NEW t \in Task, Finish(t)
      PROVE  MetaStep
  BY <1>9 DEF Finish, End, WriteMeta
<1>10. ASSUME NEW t \in Task,
              RunRaises(t) \/ Closed(t) \/ Compacted(t) \/ CompactionFailed(t)
       PROVE  MetaStep
  BY <1>10 DEF RunRaises, Closed, Compacted, CompactionFailed, End
<1>11. ASSUME NEW t \in Task, Cancel(t)
       PROVE  MetaStep
  BY <1>11 DEF Cancel, End
<1>12. ASSUME Shutdown \/ TearDown \/ UNCHANGED vars
       PROVE  MetaStep
  BY <1>12 DEF Shutdown, TearDown, vars, taskVars
<1> HIDE DEF IInv, TypeOK, Critical, Turn, daemonVars, sessionVars, MetaStep, Untouched,
             Unsaved, Current, Finishing
<1> QED
  BY <1>1, <1>2, <1>3, <1>4, <1>5, <1>6, <1>7, <1>8, <1>9, <1>10, <1>11, <1>12
     DEF Next, Arrive, Continue
\* meta.json forgets no run, and MetaInv is inductive.
LEMMA NextMeta ==
    ASSUME IInv, MetaInv, [Next]_vars
    PROVE  MetaInv' /\ \A s \in Sid : meta[s].run_ids \subseteq meta'[s].run_ids
<1>1. MetaStep
  BY MetaSteps
<1>2. ASSUME NEW s \in Sid
      PROVE  meta[s].run_ids \subseteq meta'[s].run_ids /\ meta'[s].run_ids \subseteq run_ids'[s]
  <2>1. meta[s].run_ids \subseteq run_ids[s]
    BY DEF MetaInv
  <2>2. CASE UNCHANGED <<run_ids[s], meta[s]>>
    BY <2>1, <2>2
  <2>3. CASE run_ids[s] \subseteq run_ids'[s] /\ Current(s)'
    BY <2>1, <2>3 DEF Current
  <2> QED BY <1>1, <2>2, <2>3 DEF MetaStep, Untouched, Unsaved
<1>3. ASSUME NEW t \in Task, pc'[t] \in {"invoking", "running"}
      PROVE  t \in meta'[target'[t]].run_ids
  <2>1. target[t] \in Sid /\ target'[t] = target[t]
    BY <1>1, <1>3 DEF MetaStep
  <2>2. CASE pc[t] \in {"invoking", "running"}
    BY <1>2, <2>1, <2>2 DEF MetaInv
  <2>3. CASE t \in run_ids'[target[t]] /\ Current(target[t])'
    BY <2>1, <2>3 DEF Current
  <2> QED BY <1>1, <1>3, <2>2, <2>3 DEF MetaStep
<1>4. ASSUME daemon' = "serving", NEW s \in Sid
      PROVE  Current(s)' \/ Finishing(s)'
  <2>1. Current(s) \/ Finishing(s)
    BY <1>1, <1>4 DEF MetaStep, MetaInv
  <2>2. CASE Untouched(s)
    <3>1. Current(s) => Current(s)'
      BY <2>2 DEF Untouched, Current
    <3>2. Finishing(s) => Finishing(s)'
      BY <2>2 DEF Untouched, Finishing
    <3> QED BY <2>1, <3>1, <3>2
  <2> QED BY <1>1, <1>4, <2>2 DEF MetaStep
<1> QED BY <1>2, <1>3, <1>4 DEF MetaInv

\* Every output of a thread is of one of the runs ids.
AllOf(q, ids) == \A i \in 1 .. Len(q) : q[i].kind = "output" => q[i].by \in ids

LEMMA AllOfAppend ==
    ASSUME NEW q \in Seq(Row), NEW ids, AllOf(q, ids), NEW r \in Row,
           r.kind = "output" => r.by \in ids
    PROVE  AllOf(Append(q, r), ids)
<1>1. /\ Len(q) \in Nat /\ Len(Append(q, r)) = Len(q) + 1 /\ Append(q, r)[Len(q) + 1] = r
      /\ \A i \in 1 .. Len(q) : Append(q, r)[i] = q[i]
  OBVIOUS
<1> SUFFICES ASSUME NEW i \in 1 .. Len(q) + 1, Append(q, r)[i].kind = "output"
             PROVE  Append(q, r)[i].by \in ids
  BY <1>1 DEF AllOf
<1>2. CASE i = Len(q) + 1
  BY <1>1, <1>2
<1>3. CASE i \in 1 .. Len(q)
  BY <1>1, <1>3 DEF AllOf
<1> QED BY <1>1, <1>2, <1>3

Indexed == \A s \in Sid : AllOf(thread[s], meta[s].run_ids)

LEMMA NextIndexed ==
    ASSUME IInv, MetaInv, Indexed, [Next]_vars
    PROVE  Indexed'
<1>1. \A s \in Sid : meta[s].run_ids \subseteq meta'[s].run_ids
  BY NextMeta
<1>2. thread \in [Sid -> Seq(Row)]
  BY DEF IInv, TypeOK
<1>3. \A s \in Sid : AllOf(thread[s], meta'[s].run_ids)
  BY <1>1 DEF Indexed, AllOf
<1>4. ASSUME NEW s \in Sid, NEW q, AllOf(q, meta'[s].run_ids),
             thread' = [thread EXCEPT ![s] = q]
      PROVE  Indexed'
  <2>1. \A u \in Sid : thread'[u] = IF u = s THEN q ELSE thread[u]
    BY <1>2, <1>4
  <2>2. \A u \in Sid : AllOf(thread'[u], meta'[u].run_ids)
    BY <1>3, <1>4, <2>1
  <2> QED BY <2>2 DEF Indexed, AllOf
<1>5. ASSUME Quiet PROVE Indexed'
  BY <1>3, <1>5 DEF Quiet, Indexed, AllOf
<1>6. ASSUME NEW t \in Task, NEW s \in Sid, Asks(t, s) PROVE Indexed'
  <2> DEFINE q == Append(thread[s], UserRow(t))
  <2>1. UserRow(t) \in Row /\ UserRow(t).kind = "user" /\ thread[s] \in Seq(Row)
    BY <1>2, RowsAreRows DEF UserRow
  <2>2. AllOf(q, meta'[s].run_ids)
    BY <1>3, <2>1, AllOfAppend
  <2> HIDE DEF q
  <2> QED BY <1>4, <1>6, <2>2 DEF Asks, q
<1>7. ASSUME NEW t \in Task, Replies(t) PROVE Indexed'
  <2> DEFINE s == target[t]
  <2>1. s \in Sid /\ t \in meta'[s].run_ids /\ thread[s] \in Seq(Row)
    BY <1>1, <1>2, <1>7 DEF Replies, MetaInv, IInv, TypeOK
  <2>2. PICK rows \in Outputs(t) : thread' = [thread EXCEPT ![s] = thread[s] \o rows]
    BY <1>7 DEF Replies
  <2> DEFINE q == thread[s] \o rows
  <2>3. q = thread[s] \/ q = Append(thread[s], OutputRow(t))
    BY <2>1, OutputsAppend
  <2>4. OutputRow(t) \in Row /\ OutputRow(t).by = t
    BY DEF OutputRow, Row
  <2> HIDE DEF q, s
  <2>5. AllOf(q, meta'[s].run_ids)
    BY <1>3, <2>1, <2>3, <2>4, AllOfAppend
  <2>6. thread' = [thread EXCEPT ![s] = q]
    BY <2>2 DEF q
  <2> QED BY <1>4, <2>1, <2>5, <2>6
<1>8. ASSUME NEW t \in Task, Sums(t) PROVE Indexed'
  <2> DEFINE s == target[t]
  <2> DEFINE q == <<SummaryRow(t)>>
  <2>1. s \in Sid
    BY <1>8 DEF Sums, IInv, TypeOK
  <2>2. AllOf(q, meta'[s].run_ids)
    BY DEF AllOf, SummaryRow
  <2>3. thread' = [thread EXCEPT ![s] = q]
    BY <1>8 DEF Sums
  <2> HIDE DEF q, s
  <2> QED BY <1>4, <2>1, <2>2, <2>3
<1> QED BY <1>5, <1>6, <1>7, <1>8, RowSteps DEF RowStep

LEMMA MetaInvariance == Spec => [](IInv /\ MetaInv /\ Indexed)
<1>1. Init => MetaInv /\ Indexed
  BY DEF Init, MetaInv, Current, Indexed, AllOf
<1>2. IInv /\ (MetaInv /\ Indexed) /\ [Next]_vars => (MetaInv /\ Indexed)'
  BY NextMeta, NextIndexed
<1> QED BY <1>1, <1>2, Invariance, PTL DEF Spec

\* meta.json names every run that has written to the thread, also when the
\* process is killed: send_message saves the run id before the run starts
\* (manager.py:97-99), and no later save forgets it.
THEOREM IndexNamesRuns == Spec => []MetaIndexesOutput
<1>1. Indexed => MetaIndexesOutput
  BY DEF Indexed, AllOf, MetaIndexesOutput
<1> QED BY <1>1, MetaInvariance, PTL

\* While the daemon serves, the file and the memory of a session nobody
\* works on agree: only a run that has returned leaves them apart, and it
\* holds the lock until it has saved.
THEOREM MetaIsCurrent == Spec => []MetaCurrent
<1>1. IInv /\ MetaInv => MetaCurrent
  <2> SUFFICES ASSUME IInv, MetaInv, daemon = "serving", NEW s \in Sid, lock[s] = NoTask
               PROVE  Current(s)
    BY DEF MetaCurrent, Current
  <2>1. ~ Finishing(s)
    BY NoTaskAssumption DEF Finishing, IInv, SessionExclusion, Critical
  <2> QED BY <2>1 DEF MetaInv
<1> QED BY <1>1, MetaInvariance, PTL
=============================================================================
