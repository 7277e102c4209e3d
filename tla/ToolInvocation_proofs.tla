----------------------- MODULE ToolInvocation_proofs ------------------------
(***************************************************************************)
(* Theorems about ToolInvocation, for any calls, tools, sessions, commands *)
(* and number of retries.  What the gate promises is taken over from       *)
(* PermissionManager_proofs: every step of a call is a step of the gate or *)
(* leaves it alone.                                                        *)
(***************************************************************************)
EXTENDS ToolInvocation, FiniteSetTheorems, TLAPS

Facts == INSTANCE PermissionManager_proofs

USE MaxRetriesAssumption, GateAssumption

-----------------------------------------------------------------------------
(* The gate inside the calls *)

\* Every step of the calls is a step of the gate or leaves it alone.
LEMMA StepOfGate == [Next]_vars => [Gate!Next]_(Gate!vars)
  <1> SUFFICES ASSUME [Next]_vars PROVE [Gate!Next]_(Gate!vars)
    OBVIOUS
  <1> USE DEF Gate!Next, Gate!Step
  <1>1. CASE UNCHANGED gateVars
    BY <1>1 DEF gateVars, Gate!vars, Gate!callVars, Gate!futureVars, Gate!cacheVars
  <1>2. ASSUME NEW c \in Call, Automatic(c) \/ Request(c) PROVE Gate!Next
    BY <1>2 DEF Automatic, Request
  <1>3. ASSUME NEW c \in Call, Settled(c) PROVE Gate!Next
    BY <1>3 DEF Settled, GateContinues
  <1>4. ASSUME NEW c \in Call, Cancel(c), stage[c] = "asking" PROVE Gate!Next
    BY <1>4 DEF Cancel
  <1>5. ASSUME NEW c \in Call, Outside(c) PROVE Gate!Next
    BY <1>5 DEF Outside
  <1>6. QED
    BY <1>1, <1>2, <1>3, <1>4, <1>5
       DEF Next, Start, Proceed, Reject, Enter, Succeed, RetryLater, GiveUp, Sleep,
           Retry, End, Cancel, vars

\* The calls use the gate as PermissionManager specifies it: whatever
\* invoke_tool adds around check_and_wait, every behaviour is one of the gate
\* (invocation.py:105-142).
THEOREM UsesGate == Spec => Gate!Spec
  <1>1. Init => Gate!Init
    BY DEF Init
  <1>2. QED
    BY <1>1, StepOfGate, PTL DEF Spec, Gate!Spec

\* The instance of the gate in ToolInvocation and the one of the theorems
\* are the same formulas.
LEMMA SameState ==
    /\ Gate!Init <=> Facts!Init
    /\ Gate!vars = Facts!vars
    /\ Gate!TypeOK <=> Facts!TypeOK
    /\ Gate!AllowNeedsConsent <=> Facts!AllowNeedsConsent
  BY DEF Gate!Init, Facts!Init, Gate!Nothing, Facts!Nothing,
         Gate!vars, Facts!vars, Gate!callVars, Facts!callVars,
         Gate!futureVars, Facts!futureVars, Gate!cacheVars, Facts!cacheVars,
         Gate!TypeOK, Facts!TypeOK, Gate!Where, Facts!Where, Gate!Answer, Facts!Answer,
         Gate!Memory, Facts!Memory, Gate!Verdict, Facts!Verdict,
         Gate!AllowNeedsConsent, Facts!AllowNeedsConsent, Gate!Allowing, Facts!Allowing,
         Gate!Consented, Facts!Consented

LEMMA SameNext == Gate!Next <=> Facts!Next
  <1> USE DEF Gate!callVars, Facts!callVars, Gate!futureVars, Facts!futureVars,
              Gate!cacheVars, Facts!cacheVars, Gate!Settle, Facts!Settle,
              Gate!Answer, Facts!Answer
  <1>1. ASSUME NEW c \in Call, NEW b \in Subject
        PROVE  /\ Gate!Decide(c, b) <=> Facts!Decide(c, b)
               /\ Gate!Ask(c, b) <=> Facts!Ask(c, b)
    BY DEF Gate!Decide, Facts!Decide, Gate!Ask, Facts!Ask, Gate!Evaluate, Facts!Evaluate,
           Gate!Remembered, Facts!Remembered
  <1>2. ASSUME NEW c \in Call
        PROVE  /\ Gate!Emitted(c) <=> Facts!Emitted(c)
               /\ Gate!Answered(c) <=> Facts!Answered(c)
    BY DEF Gate!Emitted, Facts!Emitted, Gate!Answered, Facts!Answered,
           Gate!Apply, Facts!Apply, Gate!Remember, Facts!Remember
  <1>3. ASSUME NEW c \in Call
        PROVE  /\ Gate!TimerFires(c) <=> Facts!TimerFires(c)
               /\ Gate!TimedOut(c) <=> Facts!TimedOut(c)
               /\ Gate!Cancel(c) <=> Facts!Cancel(c)
    BY DEF Gate!TimerFires, Facts!TimerFires, Gate!TimedOut, Facts!TimedOut,
           Gate!Cancel, Facts!Cancel
  <1>4. ASSUME NEW c \in Call, NEW d \in Gate!Answer
        PROVE  Gate!Respond(c, d) <=> Facts!Respond(c, d)
    BY DEF Gate!Respond, Facts!Respond
  <1>5. \A s \in Session : Gate!Disconnect(s) <=> Facts!Disconnect(s)
    BY DEF Gate!Disconnect, Facts!Disconnect
  <1>6. Gate!Restart <=> Facts!Restart
    BY DEF Gate!Restart, Facts!Restart
  <1>7. QED
    BY <1>1, <1>2, <1>3, <1>4, <1>5, <1>6 DEF Gate!Next, Facts!Next, Gate!Step, Facts!Step

\* What the theorems of PermissionManager say here.
GateInv == Gate!TypeOK /\ Gate!AllowNeedsConsent

\* The gate keeps its promises inside the calls.
LEMMA GateHolds == Spec => []GateInv
  <1>1. Facts!Spec => []Facts!TypeOK
    BY Facts!GateType DEF Facts!Command
  <1>2. Facts!Spec => []Facts!AllowNeedsConsent
    BY Facts!Consent DEF Facts!Command
  <1>3. Facts!TypeOK /\ Facts!AllowNeedsConsent => GateInv
    BY SameState DEF GateInv
  <1>4. Gate!Init => Facts!Init
    BY SameState
  <1>5. [Gate!Next]_(Gate!vars) => [Facts!Next]_(Facts!vars)
    BY SameNext DEF Gate!vars, Facts!vars, Gate!callVars, Facts!callVars,
       Gate!futureVars, Facts!futureVars, Gate!cacheVars, Facts!cacheVars
  <1>6. QED
    BY <1>1, <1>2, <1>3, <1>4, <1>5, UsesGate, PTL DEF Gate!Spec, Facts!Spec
-----------------------------------------------------------------------------
(* Counting events *)

\* The events of a call that are in E, counted before and after one more is
\* published; the other calls' events stay what they are.
LEMMA CountPublished ==
    ASSUME events \in [Call -> Seq(Event)], NEW c \in Call, NEW e \in Event, Publish(c, e)
    PROVE  /\ events' \in [Call -> Seq(Event)]
           /\ Len(events'[c]) > 0 /\ events'[c][Len(events'[c])] = e
           /\ \A d \in Call \ {c} : events'[d] = events[d]
           /\ \A E : /\ Count(c, E) \in Nat
                     /\ Count(c, E)' = Count(c, E) + (IF e \in E THEN 1 ELSE 0)
  <1> DEFINE s == events[c]
             n == Len(s)
             At(q, E) == {i \in 1 .. Len(q) : q[i] \in E}
  <1>1. s \in Seq(Event) /\ n \in Nat
    OBVIOUS
  <1>2. events'[c] = Append(s, e) /\ \A d \in Call \ {c} : events'[d] = events[d]
    BY DEF Publish
  <1>3. /\ Len(Append(s, e)) = n + 1
        /\ Append(s, e)[n + 1] = e
        /\ \A i \in 1 .. n : Append(s, e)[i] = s[i]
    BY <1>1
  <1>4. events' \in [Call -> Seq(Event)]
    BY <1>1, <1>2 DEF Publish
  <1>5. ASSUME NEW E
        PROVE  /\ Count(c, E) \in Nat
               /\ Count(c, E)' = Count(c, E) + (IF e \in E THEN 1 ELSE 0)
    <2>1. IsFiniteSet(1 .. n)
      BY <1>1, FS_Interval
    <2>2. IsFiniteSet(At(s, E))
      BY <2>1, FS_Subset
    <2>3. Cardinality(At(s, E)) \in Nat
      BY <2>2, FS_CardinalityType
    <2>4. At(Append(s, e), E) = IF e \in E THEN At(s, E) \cup {n + 1} ELSE At(s, E)
      BY <1>1, <1>3
    <2>5. n + 1 \notin At(s, E)
      BY <1>1
    <2>6. Cardinality(At(s, E) \cup {n + 1}) = Cardinality(At(s, E)) + 1
      BY <2>2, <2>5, FS_AddElement
    <2>7. Count(c, E) = Cardinality(At(s, E)) /\ Count(c, E)' = Cardinality(At(Append(s, e), E))
      BY <1>2 DEF Count
    <2> HIDE DEF At, n, s
    <2>8. QED
      BY <2>3, <2>4, <2>6, <2>7
  <1>6. QED
    BY <1>1, <1>2, <1>3, <1>4, <1>5

\* Nothing has been published about a call: it counts no events.
LEMMA CountNothing ==
    ASSUME NEW c \in Call, events[c] = <<>>
    PROVE  \A E : Count(c, E) = 0
  <1>1. \A E : {i \in 1 .. Len(events[c]) : events[c][i] \in E} = {}
    OBVIOUS
  <1>2. QED
    BY <1>1, FS_EmptySet DEF Count

-----------------------------------------------------------------------------
(* The inductive invariant *)

Requested(c) == Count(c, {"requested"})
Granted(c)   == Count(c, {"granted"})
Settlings(c) == Count(c, {"granted", "denied"})
Finals(c)    == Count(c, {"finished", "failed"})

\* The stage of a call and its place in the gate: only in "asking" does the
\* gate work on it, and what has been let through keeps its verdict.
InGate(c) ==
    /\ stage[c] \in {"idle", "started"} => pc[c] = "idle"
    /\ stage[c] # "asking" => pc[c] \notin {"emitting", "waiting"}
    /\ stage[c] \in {"granted", "running", "failed", "sleeping"} =>
          pc[c] = "done" /\ verdict[c] \in Gate!Allowing
    /\ executions[c] > 0 => pc[c] = "done" /\ verdict[c] \in Gate!Allowing

\* Executions are counted by attempt, and a retry is left when one is due.
InBudget(c) ==
    /\ executions[c] = attempt[c]
    /\ stage[c] \in {"idle", "started", "asking", "granted", "denied"} => attempt[c] = 0
    /\ stage[c] \in {"running", "failed", "sleeping"} => attempt[c] > 0
    /\ stage[c] \in {"failed", "sleeping"} => attempt[c] <= MaxRetries

\* The prompt of a call is shown once and taken away once.
InPrompt(c) ==
    /\ stage[c] \in {"idle", "started"} =>
          Requested(c) = 0 /\ Granted(c) = 0 /\ Settlings(c) = 0
    /\ stage[c] = "asking" => Requested(c) = 1 /\ Granted(c) = 0 /\ Settlings(c) = 0
    /\ stage[c] = "granted" => Granted(c) = Requested(c)
    /\ executions[c] > 0 => Granted(c) = Requested(c)
    /\ stage[c] \notin {"asking", "cancelled"} => Requested(c) = Settlings(c)

\* Each execution but the one under way has been reported.
InReport(c) ==
    /\ stage[c] \in {"idle", "started", "asking", "granted", "denied"} => Finals(c) = 0
    /\ stage[c] = "running" => Finals(c) = executions[c] - 1
    /\ stage[c] \in {"failed", "sleeping"} => Finals(c) = executions[c]
    /\ stage[c] \in {"ending", "ended"} =>
          /\ Len(events[c]) > 0
          /\ events[c][Len(events[c])] \in {"finished", "failed"}
          /\ Finals(c) = IF executions[c] = 0 THEN 1 ELSE executions[c]

CallInv(c) == InGate(c) /\ InBudget(c) /\ InPrompt(c) /\ InReport(c)

OwnType ==
    /\ stage \in [Call -> Stage]
    /\ attempt \in [Call -> 0 .. MaxRetries + 1]
    /\ events \in [Call -> Seq(Event)]
    /\ executions \in [Call -> 0 .. MaxRetries + 1]

OwnInv == OwnType /\ \A c \in Call : CallInv(c)

-----------------------------------------------------------------------------
(* Steps *)

\* The invariant holds initially.
LEMMA InitOwn == Init => OwnInv
  <1> SUFFICES ASSUME Init PROVE OwnInv
    OBVIOUS
  <1>1. OwnType
    BY DEF Init, OwnType, Stage
  <1>2. ASSUME NEW c \in Call PROVE CallInv(c)
    <2>1. \A E : Count(c, E) = 0
      BY CountNothing DEF Init
    <2>2. stage[c] = "idle" /\ attempt[c] = 0 /\ executions[c] = 0 /\ pc[c] = "idle"
      BY DEF Init, Gate!Init
    <2>3. QED
      BY <2>1, <2>2
         DEF CallInv, InGate, InBudget, InPrompt, InReport, Requested, Granted,
             Settlings, Finals
  <1>3. QED
    BY <1>1, <1>2 DEF OwnInv

\* What a step leaves of a call it is not about.
Untouched(d) ==
    /\ stage'[d] = stage[d] /\ attempt'[d] = attempt[d]
    /\ events'[d] = events[d] /\ executions'[d] = executions[d]
    /\ pc'[d] = pc[d] /\ verdict'[d] = verdict[d]

\* An untouched call keeps its part of the invariant.
LEMMA UntouchedCall ==
    ASSUME NEW d \in Call, CallInv(d), Untouched(d)
    PROVE  CallInv(d)'
  <1>1. /\ Requested(d)' = Requested(d) /\ Granted(d)' = Granted(d)
        /\ Settlings(d)' = Settlings(d) /\ Finals(d)' = Finals(d)
    BY DEF Untouched, Count, Requested, Granted, Settlings, Finals
  <1>2. QED
    BY <1>1 DEF Untouched, CallInv, InGate, InBudget, InPrompt, InReport

\* What is to be shown of a step of call c.
Keeps(c) == OwnType' /\ CallInv(c)' /\ \A d \in Call \ {c} : Untouched(d)

\* An event is published: the counts of the call.
LEMMA Published ==
    ASSUME OwnType, NEW c \in Call, NEW e \in Event, Publish(c, e)
    PROVE  /\ events' \in [Call -> Seq(Event)]
           /\ \A d \in Call \ {c} : events'[d] = events[d]
           /\ Len(events'[c]) > 0 /\ events'[c][Len(events'[c])] = e
           /\ {Requested(c), Granted(c), Settlings(c), Finals(c)} \subseteq Nat
           /\ Requested(c)' = Requested(c) + (IF e = "requested" THEN 1 ELSE 0)
           /\ Granted(c)' = Granted(c) + (IF e = "granted" THEN 1 ELSE 0)
           /\ Settlings(c)' = Settlings(c) + (IF e \in {"granted", "denied"} THEN 1 ELSE 0)
           /\ Finals(c)' = Finals(c) + (IF e \in {"finished", "failed"} THEN 1 ELSE 0)
  <1>1. events \in [Call -> Seq(Event)]
    BY DEF OwnType
  <1>2. \A E : /\ Count(c, E) \in Nat
               /\ Count(c, E)' = Count(c, E) + (IF e \in E THEN 1 ELSE 0)
    BY <1>1, CountPublished
  <1>3. QED
    BY <1>1, <1>2, CountPublished DEF Requested, Granted, Settlings, Finals

\* No event is published: the counts of the call.
LEMMA Unpublished ==
    ASSUME UNCHANGED events, NEW c \in Call
    PROVE  /\ Requested(c)' = Requested(c) /\ Granted(c)' = Granted(c)
           /\ Settlings(c)' = Settlings(c) /\ Finals(c)' = Finals(c)
  BY DEF Requested, Granted, Settlings, Finals, Count
-----------------------------------------------------------------------------
(* Steps that the gate has no part in *)

LEMMA StartKeeps ==
    ASSUME OwnInv, NEW c \in Call, Start(c) PROVE Keeps(c)
  <1>1. OwnType /\ CallInv(c)
    BY DEF OwnInv
  <1>2. UNCHANGED <<pc, verdict>>
    BY DEF Start, gateVars
  <1>3. QED
    BY <1>1, <1>2, Published
       DEF Start, GoTo, OwnType, Stage, Event, Keeps, Untouched, CallInv, InGate,
           InBudget, InPrompt, InReport

LEMMA FailKeeps ==
    ASSUME OwnInv, NEW c \in Call, UNCHANGED gateVars, Fail(c),
           stage[c] \in {"started", "denied", "running"}
    PROVE  Keeps(c)
  <1>1. OwnType /\ CallInv(c)
    BY DEF OwnInv
  <1>2. UNCHANGED <<pc, verdict>>
    BY DEF gateVars
  <1>3. QED
    BY <1>1, <1>2, Published
       DEF Fail, GoTo, OwnType, Stage, Event, Keeps, Untouched, CallInv, InGate,
           InBudget, InPrompt, InReport

LEMMA ExecuteKeeps ==
    ASSUME OwnInv, NEW c \in Call, UNCHANGED gateVars, Execute(c),
           stage[c] \in {"granted", "sleeping"}
    PROVE  Keeps(c)
  <1>1. OwnType /\ CallInv(c)
    BY DEF OwnInv
  <1>2. UNCHANGED <<pc, verdict>>
    BY DEF gateVars
  <1>3. UNCHANGED events
    BY DEF Execute
  <1>4. QED
    BY <1>1, <1>2, <1>3, Unpublished
       DEF Execute, GoTo, OwnType, Stage, Keeps, Untouched, CallInv, InGate,
           InBudget, InPrompt, InReport

LEMMA SucceedKeeps ==
    ASSUME OwnInv, NEW c \in Call, Succeed(c) PROVE Keeps(c)
  <1>1. OwnType /\ CallInv(c)
    BY DEF OwnInv
  <1>2. UNCHANGED <<pc, verdict>>
    BY DEF Succeed, gateVars
  <1>3. QED
    BY <1>1, <1>2, Published
       DEF Succeed, GoTo, OwnType, Stage, Event, Keeps, Untouched, CallInv, InGate,
           InBudget, InPrompt, InReport

LEMMA RetryLaterKeeps ==
    ASSUME OwnInv, NEW c \in Call, RetryLater(c) PROVE Keeps(c)
  <1>1. OwnType /\ CallInv(c)
    BY DEF OwnInv
  <1>2. UNCHANGED <<pc, verdict>>
    BY DEF RetryLater, gateVars
  <1>3. QED
    BY <1>1, <1>2, Published
       DEF RetryLater, GoTo, OwnType, Stage, Event, Keeps, Untouched, CallInv, InGate,
           InBudget, InPrompt, InReport

LEMMA SleepKeeps ==
    ASSUME OwnInv, NEW c \in Call, Sleep(c) PROVE Keeps(c)
  <1>1. OwnType /\ CallInv(c)
    BY DEF OwnInv
  <1>2. UNCHANGED <<pc, verdict, events>>
    BY DEF Sleep, gateVars
  <1>3. QED
    BY <1>1, <1>2, Unpublished
       DEF Sleep, GoTo, OwnType, Stage, Keeps, Untouched, CallInv, InGate,
           InBudget, InPrompt, InReport

LEMMA EndKeeps ==
    ASSUME OwnInv, NEW c \in Call, End(c) PROVE Keeps(c)
  <1>1. OwnType /\ CallInv(c)
    BY DEF OwnInv
  <1>2. UNCHANGED <<pc, verdict, events>>
    BY DEF End, gateVars
  <1>3. QED
    BY <1>1, <1>2, Unpublished
       DEF End, GoTo, OwnType, Stage, Keeps, Untouched, CallInv, InGate,
           InBudget, InPrompt, InReport

-----------------------------------------------------------------------------
(* Steps in the gate *)

\* A call that is settled at once.
LEMMA AutomaticKeeps ==
    ASSUME OwnInv, GateInv, NEW c \in Call, Automatic(c) PROVE Keeps(c)
  <1>1. OwnType /\ CallInv(c) /\ stage[c] = "started"
    BY DEF OwnInv, Automatic
  <1>2. PICK b \in Subject : Gate!Decide(c, b)
    BY DEF Automatic
  <1>3. /\ pc' = [pc EXCEPT ![c] = "done"]
        /\ \A d \in Call \ {c} : verdict'[d] = verdict[d]
    BY <1>2 DEF Gate!Decide, Gate!Settle, GateInv, Gate!TypeOK
  <1>4. pc'[c] = "done" /\ \A d \in Call \ {c} : pc'[d] = pc[d]
    BY <1>3 DEF GateInv, Gate!TypeOK
  <1>5. CASE verdict'[c] = "auto_allow" /\ Execute(c)
    <2>1. UNCHANGED events
      BY <1>5 DEF Execute
    <2>2. QED
      BY <1>1, <1>3, <1>4, <1>5, <2>1, Unpublished
         DEF Execute, GoTo, OwnType, Stage, Keeps, Untouched, CallInv, InGate,
             InBudget, InPrompt, InReport, Gate!Allowing
  <1>6. CASE verdict'[c] = "auto_deny" /\ Fail(c)
    BY <1>1, <1>3, <1>4, <1>6, Published
       DEF Fail, GoTo, OwnType, Stage, Event, Keeps, Untouched, CallInv, InGate,
           InBudget, InPrompt, InReport
  <1>7. QED
    BY <1>5, <1>6 DEF Automatic

LEMMA RequestKeeps ==
    ASSUME OwnInv, GateInv, NEW c \in Call, Request(c) PROVE Keeps(c)
  <1>1. OwnType /\ CallInv(c) /\ stage[c] = "started"
    BY DEF OwnInv, Request
  <1>2. PICK b \in Subject : Gate!Ask(c, b)
    BY DEF Request
  <1>3. /\ pc'[c] = "emitting" /\ \A d \in Call \ {c} : pc'[d] = pc[d]
        /\ UNCHANGED verdict
    BY <1>2 DEF Gate!Ask, GateInv, Gate!TypeOK
  <1>4. QED
    BY <1>1, <1>3, Published
       DEF Request, GoTo, OwnType, Stage, Event, Keeps, Untouched, CallInv, InGate,
           InBudget, InPrompt, InReport

\* What the gate does with a call it works on.
LEMMA GateMoves ==
    ASSUME GateInv, NEW c \in Call,
           Gate!Emitted(c) \/ Gate!Answered(c) \/ Gate!TimedOut(c) \/ Gate!Cancel(c)
    PROVE  /\ pc'[c] \in {"waiting", "done"}
           /\ \A d \in Call \ {c} : pc'[d] = pc[d] /\ verdict'[d] = verdict[d]
  BY DEF Gate!Emitted, Gate!Answered, Gate!TimedOut, Gate!Cancel, Gate!Apply,
         Gate!Remember, Gate!Settle, GateInv, Gate!TypeOK

LEMMA SettledKeeps ==
    ASSUME OwnInv, GateInv, NEW c \in Call, Settled(c) PROVE Keeps(c)
  <1>1. OwnType /\ CallInv(c) /\ stage[c] = "asking"
    BY DEF OwnInv, Settled, GateContinues
  <1>2. /\ pc'[c] \in {"waiting", "done"}
        /\ \A d \in Call \ {c} : pc'[d] = pc[d] /\ verdict'[d] = verdict[d]
        /\ UNCHANGED <<attempt, executions>>
    BY GateMoves DEF Settled, GateContinues
  <1>3. CASE pc'[c] = "waiting" /\ UNCHANGED <<stage, events>>
    BY <1>1, <1>2, <1>3, Unpublished
       DEF OwnType, Stage, Keeps, Untouched, CallInv, InGate, InBudget, InPrompt, InReport
  <1>4. CASE pc'[c] = "done" /\ Told(c, Gate!Allowing)
    <2>1. CASE verdict'[c] \in Gate!Allowing /\ GoTo(c, "granted") /\ Publish(c, "granted")
      BY <1>1, <1>2, <1>4, <2>1, Published
         DEF GoTo, OwnType, Stage, Event, Keeps, Untouched, CallInv, InGate, InBudget,
             InPrompt, InReport
    <2>2. CASE verdict'[c] \notin Gate!Allowing /\ GoTo(c, "denied") /\ Publish(c, "denied")
      BY <1>1, <1>2, <1>4, <2>2, Published
         DEF GoTo, OwnType, Stage, Event, Keeps, Untouched, CallInv, InGate, InBudget,
             InPrompt, InReport
    <2>3. QED
      BY <1>4, <2>1, <2>2 DEF Told
  <1>5. QED
    BY <1>3, <1>4 DEF Settled

LEMMA CancelKeeps ==
    ASSUME OwnInv, GateInv, NEW c \in Call, Cancel(c) PROVE Keeps(c)
  <1>1. OwnType /\ CallInv(c) /\ UNCHANGED <<attempt, events, executions>>
    BY DEF OwnInv, Cancel
  <1>2. CASE stage[c] = "asking" /\ Gate!Cancel(c)
    <2>1. /\ pc'[c] = "done"
          /\ \A d \in Call \ {c} : pc'[d] = pc[d] /\ verdict'[d] = verdict[d]
      BY <1>2 DEF Gate!Cancel, Gate!Settle, GateInv, Gate!TypeOK
    <2>2. QED
      BY <1>1, <1>2, <2>1, Unpublished
         DEF Cancel, GoTo, OwnType, Stage, Keeps, Untouched, CallInv, InGate, InBudget,
             InPrompt, InReport
  <1>3. CASE stage[c] # "asking" /\ UNCHANGED gateVars
    BY <1>1, <1>3, Unpublished
       DEF Cancel, Over, GoTo, gateVars, OwnType, Stage, Keeps, Untouched, CallInv, InGate,
           InBudget, InPrompt, InReport
  <1>4. QED
    BY <1>2, <1>3 DEF Cancel

LEMMA OutsideKeeps ==
    ASSUME OwnInv, NEW c \in Call, Outside(c) PROVE Keeps(c)
  <1>1. OwnType /\ CallInv(c) /\ UNCHANGED <<stage, attempt, events, executions>>
    BY DEF OwnInv, Outside
  <1>2. UNCHANGED <<pc, verdict>>
    BY DEF Outside, Gate!TimerFires, Gate!Respond, Gate!callVars
  <1>3. QED
    BY <1>1, <1>2, UntouchedCall DEF OwnType, Keeps, Untouched

-----------------------------------------------------------------------------
(* The theorems *)

\* The invariant is inductive, given what the gate promises.
LEMMA NextOwn == OwnInv /\ GateInv /\ [Next]_vars => OwnInv'
  <1> SUFFICES ASSUME OwnInv, GateInv, [Next]_vars PROVE OwnInv'
    OBVIOUS
  <1>1. ASSUME NEW c \in Call, Keeps(c) PROVE OwnInv'
    BY <1>1, UntouchedCall DEF Keeps, OwnInv
  <1>2. ASSUME NEW c \in Call, Reject(c) PROVE Keeps(c)
    BY <1>2, FailKeeps DEF Reject
  <1>3. ASSUME NEW c \in Call, Enter(c) PROVE Keeps(c)
    BY <1>3, FailKeeps, ExecuteKeeps DEF Enter
  <1>4. ASSUME NEW c \in Call, GiveUp(c) PROVE Keeps(c)
    BY <1>4, FailKeeps DEF GiveUp
  <1>5. ASSUME NEW c \in Call, Retry(c) PROVE Keeps(c)
    BY <1>5, ExecuteKeeps DEF Retry
  <1>6. ASSUME NEW c \in Call, Start(c) \/ Proceed(c) \/ Cancel(c) \/ Outside(c)
        PROVE  Keeps(c)
    BY <1>2, <1>3, <1>4, <1>5, <1>6, StartKeeps, AutomaticKeeps, RequestKeeps,
       SettledKeeps, SucceedKeeps, RetryLaterKeeps, SleepKeeps, EndKeeps, CancelKeeps,
       OutsideKeeps
       DEF Proceed
  <1>7. CASE UNCHANGED vars
    <2>1. UNCHANGED <<stage, attempt, events, executions, pc, verdict>>
      BY <1>7 DEF vars, gateVars
    <2>2. QED
      BY <2>1, UntouchedCall DEF OwnInv, OwnType, Untouched
  <1>8. QED
    BY <1>1, <1>6, <1>7 DEF Next

\* It holds in every reachable state.
LEMMA InvariantHolds == Spec => [](OwnInv /\ GateInv)
  <1>1. QED
    BY InitOwn, NextOwn, GateHolds, PTL DEF Spec

\* The state of the calls keeps its shape: no call is executed more often
\* than its retries allow (invocation.py:118-189).
THEOREM CallType == Spec => []TypeOK
  <1>1. OwnInv /\ GateInv => TypeOK
    BY DEF OwnInv, OwnType, GateInv, TypeOK
  <1>2. QED
    BY <1>1, InvariantHolds, PTL

\* No tool is entered, for the first time or again, without consent, whatever
\* the interleaving of calls, answers, timers, failures and cancellations.
THEOREM ConsentBeforeExecution == Spec => []ExecutedWithConsent
  <1>1. OwnInv /\ GateInv => ExecutedWithConsent
    BY DEF OwnInv, OwnType, GateInv, CallInv, InGate, InPrompt, Requested, Granted,
           ExecutedWithConsent
  <1>2. QED
    BY <1>1, InvariantHolds, PTL

\* Every prompt is closed before its call ends, unless it is cancelled.
THEOREM PromptsClose == Spec => []PromptIsClosed
  <1>1. OwnInv => PromptIsClosed
    BY DEF OwnInv, CallInv, InPrompt, Requested, Settlings, PromptIsClosed
  <1>2. QED
    BY <1>1, InvariantHolds, PTL

\* Every call that ends has been reported once and for all.
THEOREM CallsAreReported == Spec => []ReportedOnce
  <1>1. OwnInv => ReportedOnce
    BY DEF OwnInv, CallInv, InReport, Finals, ReportedOnce
  <1>2. QED
    BY <1>1, InvariantHolds, PTL
=============================================================================
