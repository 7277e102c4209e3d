---------------------- MODULE PermissionManager_proofs ----------------------
(***************************************************************************)
(* Theorems about PermissionManager, for any calls, sessions, tools,       *)
(* defaults and commands, with and without a timeout, and for any number   *)
(* of restarts.                                                            *)
(***************************************************************************)
EXTENDS PermissionManager, TLAPS

USE BashAssumption, SubjectAssumption, DefaultAssumption, TimeoutAssumption,
    LosableAssumption, RestartAssumption

-----------------------------------------------------------------------------
(* The inductive invariant *)

\* A call has a verdict only when it is done, and an answer only from
\* respond(); nobody is asked about a command that matches a deny pattern.
Phases ==
    \A c \in Call :
        /\ verdict[c] # "none" => pc[c] = "done"
        /\ pc[c] = "idle" => accepted[c] = "none" /\ c \notin pending
        /\ pc[c] \in {"emitting", "waiting"} =>
              /\ about[c].command # "denied"
              /\ future[c] \in Answer => accepted[c] = future[c]

IInv ==
    /\ TypeOK
    /\ Phases
    /\ PendingIsAwaited
    /\ AnswerIsOwn
    /\ MemoryIsTaken
    /\ AllowNeedsConsent

-----------------------------------------------------------------------------
(* Type correctness *)

\* The invariant holds initially.
LEMMA InitInv == Init => IInv
  BY DEF Init, IInv, TypeOK, Phases, PendingIsAwaited, AnswerIsOwn, MemoryIsTaken,
         AllowNeedsConsent, Where, Verdict, Answer, Allowing, Memory, Always

\* The subjects of calls.
LEMMA SubjectType ==
    \A b \in Subject : b.session \in Session /\ b.tool \in Tool /\ b.command \in Command
  OBVIOUS

\* Settling a call keeps pc and verdict well typed.
LEMMA SettleType ==
    ASSUME TypeOK, NEW c \in Call, NEW v \in Verdict, Settle(c, v)
    PROVE  pc' \in [Call -> Where] /\ verdict' \in [Call -> Verdict]
  BY DEF TypeOK, Settle, Where

\* An answer that is applied leaves caches and file well formed.
LEMMA ApplyType ==
    ASSUME TypeOK, NEW c \in Call, pc[c] # "idle", NEW d, Apply(c, d)
    PROVE  /\ d \in Answer
           /\ pc' \in [Call -> Where] /\ verdict' \in [Call -> Verdict]
           /\ session_always' \in [Session -> [Tool -> Memory]]
           /\ persistent_always' \in [Tool -> Memory]
           /\ policy_file' \in [Tool -> Memory]
  <1>1. about[c].session \in Session /\ about[c].tool \in Tool
    BY SubjectType DEF TypeOK
  <1>2. ASSUME NEW m \in {"allow", "deny"}, NEW e \in Answer, Remember(c, e, m)
        PROVE  /\ pc' \in [Call -> Where] /\ verdict' \in [Call -> Verdict]
               /\ session_always' \in [Session -> [Tool -> Memory]]
               /\ persistent_always' \in [Tool -> Memory]
               /\ policy_file' \in [Tool -> Memory]
    <2>1. pc' \in [Call -> Where] /\ verdict' \in [Call -> Verdict]
      BY <1>2, SettleType DEF Remember, Verdict
    <2>2. m \in Memory
      BY DEF Memory
    <2>3. session_always' \in [Session -> [Tool -> Memory]]
      BY <1>1, <1>2, <2>2 DEF Remember, TypeOK
    <2>4. persistent_always' \in [Tool -> Memory]
      BY <1>1, <1>2, <2>2 DEF Remember, TypeOK
    <2>5. policy_file' \in [Tool -> Memory]
      BY <1>2, <2>4 DEF Remember, TypeOK
    <2>6. QED
      BY <2>1, <2>3, <2>4, <2>5
  <1>3. CASE d = "always_allow" /\ Remember(c, d, "allow")
    BY <1>2, <1>3 DEF Answer
  <1>4. CASE d = "always_deny" /\ Remember(c, d, "deny")
    BY <1>2, <1>4 DEF Answer
  <1>5. CASE d \in {"allow_once", "deny_once"} /\ Settle(c, d) /\ UNCHANGED cacheVars
    BY <1>5, SettleType DEF TypeOK, cacheVars, Answer, Verdict
  <1>6. QED
    BY <1>3, <1>4, <1>5 DEF Apply

\* Every step keeps the types.
LEMMA NextType == TypeOK /\ [Next]_vars => TypeOK'
  <1> SUFFICES ASSUME TypeOK, [Next]_vars PROVE TypeOK'
    OBVIOUS
  <1> USE DEF callVars, futureVars, cacheVars
  <1>1. ASSUME NEW c \in Call, NEW b \in Subject, Decide(c, b) PROVE TypeOK'
    <2>1. pc' \in [Call -> Where] /\ verdict' \in [Call -> Verdict]
      BY <1>1, SettleType DEF Decide, Verdict
    <2>2. about' \in [Call -> Subject \cup {Nothing}]
      BY <1>1 DEF Decide, TypeOK
    <2>3. ASSUME NEW e \in Call, pc'[e] # "idle" PROVE about'[e] \in Subject
      BY <1>1, <2>3 DEF Decide, Settle, TypeOK
    <2>4. QED
      BY <1>1, <2>1, <2>2, <2>3 DEF Decide, TypeOK
  <1>2. ASSUME NEW c \in Call, NEW b \in Subject, Ask(c, b) PROVE TypeOK'
    BY <1>2 DEF Ask, TypeOK, Where
  <1>3. ASSUME NEW c \in Call, Emitted(c) PROVE TypeOK'
    <2>1. CASE Apply(c, future[c]) /\ UNCHANGED timer
      <3>1. pc[c] # "idle" /\ pc' = [pc EXCEPT ![c] = "done"]
        BY <1>3, <2>1 DEF Emitted, Apply, Remember, Settle
      <3>2. QED
        BY <1>3, <2>1, <3>1, ApplyType DEF Emitted, TypeOK
    <2>2. CASE /\ pc' = [pc EXCEPT ![c] = "waiting"]
               /\ timer' = [timer EXCEPT ![c] = IF TimeoutOn THEN "armed" ELSE "off"]
               /\ UNCHANGED <<verdict, cacheVars>>
      <3>1. timer' \in [Call -> {"off", "armed", "fired"}]
        BY <2>2 DEF TypeOK
      <3>2. UNCHANGED <<about, pending, future, accepted, connected, restarts>>
        BY <1>3 DEF Emitted
      <3>3. pc' \in [Call -> Where] /\ pc[c] # "idle"
        BY <1>3, <2>2 DEF Emitted, TypeOK, Where
      <3>4. QED
        BY <2>2, <3>1, <3>2, <3>3 DEF TypeOK
    <2>3. QED
      BY <1>3, <2>1, <2>2 DEF Emitted
  <1>4. ASSUME NEW c \in Call, TimerFires(c) PROVE TypeOK'
    BY <1>4 DEF TimerFires, TypeOK
  <1>5. ASSUME NEW c \in Call, TimedOut(c) PROVE TypeOK'
    BY <1>5 DEF TimedOut, Settle, TypeOK, Where, Verdict
  <1>6. ASSUME NEW c \in Call, Answered(c) PROVE TypeOK'
    <2>1. pc[c] # "idle" /\ pc' = [pc EXCEPT ![c] = "done"]
      BY <1>6 DEF Answered, Apply, Remember, Settle
    <2>2. QED
      BY <1>6, <2>1, ApplyType DEF Answered, TypeOK
  <1>7. ASSUME NEW c \in Call, Cancel(c) PROVE TypeOK'
    BY <1>7 DEF Cancel, Settle, TypeOK, Where, Verdict
  <1>8. ASSUME NEW c \in Call, NEW d \in Answer, Respond(c, d) PROVE TypeOK'
    BY <1>8 DEF Respond, TypeOK
  <1>9. ASSUME NEW s \in Session, Disconnect(s) PROVE TypeOK'
    BY <1>9 DEF Disconnect, TypeOK
  <1>10. CASE Restart
    BY <1>10 DEF Restart, TypeOK, Where, Verdict, Memory
  <1>11. CASE UNCHANGED vars
    BY <1>11 DEF vars, TypeOK
  <1>12. QED
    BY <1>1, <1>2, <1>3, <1>4, <1>5, <1>6, <1>7, <1>8, <1>9, <1>10, <1>11
       DEF Next, Step
-----------------------------------------------------------------------------
(* A verdict is never taken back *)

\* No step changes the verdict of a call that has one, nor what it is about.
VerdictIsKept ==
    \A c \in Call :
        verdict[c] # "none" =>
            verdict'[c] = verdict[c] /\ about'[c] = about[c]

\* No step takes a verdict back.
LEMMA NextKeepsVerdict == TypeOK /\ Phases /\ [Next]_vars => VerdictIsKept
  <1> SUFFICES ASSUME TypeOK, Phases, [Next]_vars PROVE VerdictIsKept
    OBVIOUS
  <1> USE DEF callVars, futureVars, cacheVars
  <1>1. ASSUME NEW c \in Call, NEW b \in Subject, Decide(c, b) PROVE VerdictIsKept
    BY <1>1 DEF Decide, Settle, TypeOK, Phases, VerdictIsKept
  <1>2. ASSUME NEW c \in Call, NEW b \in Subject, Ask(c, b) PROVE VerdictIsKept
    BY <1>2 DEF Ask, TypeOK, Phases, VerdictIsKept
  <1>3. ASSUME NEW c \in Call, Emitted(c) PROVE VerdictIsKept
    BY <1>3 DEF Emitted, Apply, Remember, Settle, TypeOK, Phases, VerdictIsKept
  <1>4. ASSUME NEW c \in Call, TimerFires(c) PROVE VerdictIsKept
    BY <1>4 DEF TimerFires, VerdictIsKept
  <1>5. ASSUME NEW c \in Call, TimedOut(c) PROVE VerdictIsKept
    BY <1>5 DEF TimedOut, Settle, TypeOK, Phases, VerdictIsKept
  <1>6. ASSUME NEW c \in Call, Answered(c) PROVE VerdictIsKept
    BY <1>6 DEF Answered, Apply, Remember, Settle, TypeOK, Phases, VerdictIsKept
  <1>7. ASSUME NEW c \in Call, Cancel(c) PROVE VerdictIsKept
    BY <1>7 DEF Cancel, Settle, TypeOK, Phases, VerdictIsKept
  <1>8. ASSUME NEW c \in Call, NEW d \in Answer, Respond(c, d) PROVE VerdictIsKept
    BY <1>8 DEF Respond, VerdictIsKept
  <1>9. ASSUME NEW s \in Session, Disconnect(s) PROVE VerdictIsKept
    BY <1>9 DEF Disconnect, VerdictIsKept
  <1>10. CASE Restart
    BY <1>10 DEF Restart, TypeOK, Phases, VerdictIsKept
  <1>11. CASE UNCHANGED vars
    BY <1>11 DEF vars, VerdictIsKept
  <1>12. QED
    BY <1>1, <1>2, <1>3, <1>4, <1>5, <1>6, <1>7, <1>8, <1>9, <1>10, <1>11
       DEF Next, Step

-----------------------------------------------------------------------------
(* Answers *)

\* What the actions of one call leave alone in the others.
OthersKept(c) ==
    \A e \in Call \ {c} :
        /\ pc'[e] = pc[e] /\ about'[e] = about[e] /\ verdict'[e] = verdict[e]
        /\ future'[e] = future[e] /\ accepted'[e] = accepted[e]
        /\ (e \in pending') <=> (e \in pending)

\* The parts of the invariant that speak of one call at a time.
CallInv == Phases /\ PendingIsAwaited /\ AnswerIsOwn

\* An answer that is applied is the verdict of the call.
LEMMA ApplyEffect ==
    ASSUME TypeOK, NEW c \in Call, NEW d, Apply(c, d)
    PROVE  /\ d \in Answer
           /\ pc' = [pc EXCEPT ![c] = "done"]
           /\ verdict' = [verdict EXCEPT ![c] = d]
  BY DEF Apply, Remember, Settle, Answer

\* Every step keeps the parts of the invariant about single calls.
LEMMA NextCallInv == TypeOK /\ CallInv /\ [Next]_vars => CallInv'
  <1> SUFFICES ASSUME TypeOK, CallInv, [Next]_vars PROVE CallInv'
    OBVIOUS
  <1> USE DEF callVars, futureVars, cacheVars, CallInv
  <1>1. ASSUME NEW c \in Call, NEW b \in Subject, Decide(c, b) PROVE CallInv'
    BY <1>1 DEF Decide, Settle, TypeOK, Phases, PendingIsAwaited, AnswerIsOwn, Answer
  <1>2. ASSUME NEW c \in Call, NEW b \in Subject, Ask(c, b) PROVE CallInv'
    <2>1. b.command # "denied"
      BY <1>2 DEF Ask, Evaluate
    <2>2. about'[c] = b /\ pc'[c] = "emitting" /\ future'[c] = "unset"
      BY <1>2 DEF Ask, TypeOK
    <2>3. OthersKept(c)
      BY <1>2 DEF Ask, TypeOK, OthersKept
    <2>4. verdict'[c] = "none" /\ accepted'[c] = accepted[c]
      BY <1>2 DEF Ask, Phases, TypeOK
    <2>5. Phases'
      BY <2>1, <2>2, <2>3, <2>4 DEF Phases, OthersKept, Answer
    <2>6. PendingIsAwaited'
      <3>1. pending' \subseteq Call
        BY <1>2 DEF Ask, TypeOK
      <3>2. QED
        BY <2>2, <2>3, <3>1 DEF PendingIsAwaited, OthersKept
    <2>7. AnswerIsOwn'
      BY <2>3, <2>4 DEF AnswerIsOwn, OthersKept, Answer
    <2>8. QED
      BY <2>5, <2>6, <2>7
  <1>3. ASSUME NEW c \in Call, Emitted(c) PROVE CallInv'
    <2>1. CASE Apply(c, future[c])
      <3>1. UNCHANGED <<about, pending, future, accepted>> /\ pc[c] = "emitting"
        BY <1>3 DEF Emitted
      <3>2. QED
        BY <2>1, <3>1, ApplyEffect
           DEF TypeOK, Phases, PendingIsAwaited, AnswerIsOwn, Answer
    <2>2. CASE pc' = [pc EXCEPT ![c] = "waiting"] /\ UNCHANGED verdict
      BY <1>3, <2>2 DEF Emitted, TypeOK, Phases, PendingIsAwaited, AnswerIsOwn, Answer
    <2>3. QED
      BY <1>3, <2>1, <2>2 DEF Emitted
  <1>4. ASSUME NEW c \in Call, TimerFires(c) PROVE CallInv'
    BY <1>4 DEF TimerFires, TypeOK, Phases, PendingIsAwaited, AnswerIsOwn, Answer
  <1>5. ASSUME NEW c \in Call, TimedOut(c) PROVE CallInv'
    BY <1>5 DEF TimedOut, Settle, TypeOK, Phases, PendingIsAwaited, AnswerIsOwn, Answer
  <1>6. ASSUME NEW c \in Call, Answered(c) PROVE CallInv'
    <2>1. Apply(c, future[c]) /\ UNCHANGED <<about, pending, future, accepted>>
      BY <1>6 DEF Answered
    <2>2. /\ pc' = [pc EXCEPT ![c] = "done"]
          /\ verdict' = [verdict EXCEPT ![c] = future[c]]
      BY <2>1, ApplyEffect
    <2>3. pc[c] = "waiting" /\ future[c] \in Answer
      BY <1>6 DEF Answered
    <2>4. accepted[c] = future[c] /\ c \notin pending
      BY <2>3 DEF Phases, PendingIsAwaited, Answer
    <2>5. QED
      BY <2>1, <2>2, <2>4 DEF TypeOK, Phases, PendingIsAwaited, AnswerIsOwn, Answer
  <1>7. ASSUME NEW c \in Call, Cancel(c) PROVE CallInv'
    BY <1>7 DEF Cancel, Settle, TypeOK, Phases, PendingIsAwaited, AnswerIsOwn, Answer
  <1>8. ASSUME NEW c \in Call, NEW d \in Answer, Respond(c, d) PROVE CallInv'
    BY <1>8 DEF Respond, TypeOK, Phases, PendingIsAwaited, AnswerIsOwn, Answer
  <1>9. ASSUME NEW s \in Session, Disconnect(s) PROVE CallInv'
    BY <1>9 DEF Disconnect, Phases, PendingIsAwaited, AnswerIsOwn
  <1>10. CASE Restart
    BY <1>10 DEF Restart, TypeOK, Where, Phases, PendingIsAwaited, AnswerIsOwn, Answer
  <1>11. CASE UNCHANGED vars
    BY <1>11 DEF vars, Phases, PendingIsAwaited, AnswerIsOwn
  <1>12. QED
    BY <1>1, <1>2, <1>3, <1>4, <1>5, <1>6, <1>7, <1>8, <1>9, <1>10, <1>11
       DEF Next, Step
-----------------------------------------------------------------------------
(* Memory and consent *)

\* A call has taken the "always" m for tool u (in session s).
Taken(u, m) == \E c \in Call : about[c].tool = u /\ verdict[c] = Always(m)
TakenIn(s, u, m) ==
    \E c \in Call : about[c].session = s /\ about[c].tool = u /\ verdict[c] = Always(m)

\* Both last, because verdicts do.
LEMMA TakenLasts ==
    ASSUME VerdictIsKept, NEW s, NEW u, NEW m \in {"allow", "deny"}
    PROVE  /\ Taken(u, m) => Taken(u, m)'
           /\ TakenIn(s, u, m) => TakenIn(s, u, m)'
  BY DEF VerdictIsKept, Taken, TakenIn, Always

\* MemoryIsTaken in terms of Taken and TakenIn.
LEMMA MemoryByTaken ==
    MemoryIsTaken <=>
        \A u \in Tool, m \in {"allow", "deny"} :
            /\ \A s \in Session : session_always[s][u] = m => TakenIn(s, u, m)
            /\ persistent_always[u] = m => Taken(u, m)
            /\ policy_file[u] = m => Taken(u, m)
  BY DEF MemoryIsTaken, Taken, TakenIn

\* The same after a step.
LEMMA MemoryByTakenNext ==
    MemoryIsTaken' <=>
        \A u \in Tool, m \in {"allow", "deny"} :
            /\ \A s \in Session : session_always'[s][u] = m => TakenIn(s, u, m)'
            /\ persistent_always'[u] = m => Taken(u, m)'
            /\ policy_file'[u] = m => Taken(u, m)'
  BY DEF MemoryIsTaken, Taken, TakenIn

\* Remembering keeps the memory backed by verdicts.
LEMMA ApplyMemory ==
    ASSUME TypeOK, MemoryIsTaken, VerdictIsKept,
           NEW c \in Call, pc[c] # "idle", NEW d, Apply(c, d), UNCHANGED about
    PROVE  MemoryIsTaken'
  <1> DEFINE b == about[c]
  <1>1. b.session \in Session /\ b.tool \in Tool
    BY SubjectType DEF TypeOK
  <1>2. ASSUME NEW n \in {"allow", "deny"}, Remember(c, Always(n), n)
        PROVE  MemoryIsTaken'
    <2>1. verdict'[c] = Always(n) /\ about'[c] = b
      BY <1>2 DEF Remember, Settle, TypeOK
    <2>2. TakenIn(b.session, b.tool, n)' /\ Taken(b.tool, n)'
      BY <2>1 DEF TakenIn, Taken
    <2>3. /\ session_always' = [session_always EXCEPT ![b.session][b.tool] = n]
          /\ persistent_always' = [persistent_always EXCEPT ![b.tool] = n]
          /\ policy_file' \in {policy_file, persistent_always'}
      BY <1>2 DEF Remember
    <2>4. ASSUME NEW u \in Tool, NEW m \in {"allow", "deny"}, NEW s \in Session,
                 session_always'[s][u] = m
          PROVE  TakenIn(s, u, m)'
      <3>1. CASE s = b.session /\ u = b.tool
        BY <1>1, <2>2, <2>3, <2>4, <3>1 DEF TypeOK
      <3>2. CASE ~(s = b.session /\ u = b.tool)
        <4>1. session_always[s][u] = m
          BY <1>1, <2>3, <2>4, <3>2 DEF TypeOK
        <4>2. QED
          BY <4>1, MemoryByTaken, TakenLasts
      <3>3. QED
        BY <3>1, <3>2
    <2>5. ASSUME NEW u \in Tool, NEW m \in {"allow", "deny"}, persistent_always'[u] = m
          PROVE  Taken(u, m)'
      <3>1. CASE u = b.tool
        BY <1>1, <2>2, <2>3, <2>5, <3>1 DEF TypeOK
      <3>2. CASE u # b.tool
        <4>1. persistent_always[u] = m
          BY <1>1, <2>3, <2>5, <3>2 DEF TypeOK
        <4>2. QED
          BY <4>1, MemoryByTaken, TakenLasts
      <3>3. QED
        BY <3>1, <3>2
    <2>6. ASSUME NEW u \in Tool, NEW m \in {"allow", "deny"}, policy_file'[u] = m
          PROVE  Taken(u, m)'
      <3>1. CASE policy_file' = policy_file
        BY <2>6, <3>1, MemoryByTaken, TakenLasts
      <3>2. CASE policy_file' = persistent_always'
        BY <2>5, <2>6, <3>2
      <3>3. QED
        BY <2>3, <3>1, <3>2
    <2>7. QED
      BY <2>4, <2>5, <2>6, MemoryByTakenNext
  <1>3. CASE d = "always_allow" /\ Remember(c, d, "allow")
    BY <1>2, <1>3 DEF Always
  <1>4. CASE d = "always_deny" /\ Remember(c, d, "deny")
    BY <1>2, <1>4 DEF Always
  <1>5. CASE UNCHANGED cacheVars
    BY <1>5, MemoryByTaken, MemoryByTakenNext, TakenLasts DEF cacheVars
  <1>6. QED
    BY <1>3, <1>4, <1>5 DEF Apply

\* Every step keeps the memory backed by verdicts.
LEMMA NextMemory == IInv /\ [Next]_vars => MemoryIsTaken'
  <1> SUFFICES ASSUME IInv, [Next]_vars PROVE MemoryIsTaken'
    OBVIOUS
  <1>1. TypeOK /\ MemoryIsTaken /\ VerdictIsKept
    BY NextKeepsVerdict DEF IInv
  <1>2. CASE \E c \in Call : Emitted(c) \/ Answered(c)
    <2>1. PICK c \in Call : Emitted(c) \/ Answered(c)
      BY <1>2
    <2>2. pc[c] # "idle" /\ UNCHANGED about
      BY <2>1 DEF Emitted, Answered
    <2>3. CASE Apply(c, future[c])
      BY <1>1, <2>2, <2>3, ApplyMemory
    <2>4. CASE UNCHANGED cacheVars
      BY <1>1, <2>4, MemoryByTaken, MemoryByTakenNext, TakenLasts DEF cacheVars
    <2>5. QED
      BY <2>1, <2>3, <2>4 DEF Emitted, Answered, cacheVars
  <1>3. CASE Restart
    <2>1. \A s \in Session, u \in Tool : session_always'[s][u] = "none"
      BY <1>3 DEF Restart
    <2>2. persistent_always' = policy_file /\ policy_file' = policy_file
      BY <1>3 DEF Restart
    <2>3. QED
      BY <1>1, <2>1, <2>2, MemoryByTaken, MemoryByTakenNext, TakenLasts
  <1>4. CASE UNCHANGED cacheVars
    BY <1>1, <1>4, MemoryByTaken, MemoryByTakenNext, TakenLasts DEF cacheVars
  <1>5. QED
    BY <1>2, <1>3, <1>4
       DEF Next, Step, Decide, Ask, TimerFires, TimedOut, Cancel, Respond, Disconnect,
           cacheVars, vars

\* What a rule or the memory allows is consented to.
LEMMA EvaluatedAllow ==
    ASSUME TypeOK, MemoryIsTaken, NEW b \in Subject, Evaluate(b) = "allow"
    PROVE  /\ b.command \notin {"denied", "outside"}
           /\ \/ b.command = "listed"
              \/ Default[b.tool] = "allow"
              \/ Consented(b.tool)
  <1>1. b.session \in Session /\ b.tool \in Tool
    BY SubjectType
  <1>2. b.command \notin {"denied", "outside"}
    BY DEF Evaluate
  <1>3. CASE session_always[b.session][b.tool] = "allow"
    BY <1>1, <1>2, <1>3 DEF MemoryIsTaken, Consented, Always
  <1>4. CASE persistent_always[b.tool] = "allow"
    BY <1>1, <1>2, <1>4 DEF MemoryIsTaken, Consented, Always
  <1>5. QED
    BY <1>2, <1>3, <1>4 DEF Evaluate, Remembered

\* The consent of AllowNeedsConsent, for one call.
Licensed(c) ==
    /\ about[c].command # "denied"
    /\ \/ accepted[c] \in {"allow_once", "always_allow"}
       \/ /\ about[c].command # "outside"
          /\ \/ about[c].command = "listed"
             \/ Default[about[c].tool] = "allow"
             \/ Consented(about[c].tool)

\* A call that gets its verdict in this step is licensed.
LEMMA NewVerdictLicensed ==
    ASSUME IInv, [Next]_vars, NEW e \in Call, verdict[e] = "none", verdict'[e] \in Allowing
    PROVE  Licensed(e)'
  <1> USE DEF callVars, futureVars, cacheVars
  <1>1. TypeOK /\ VerdictIsKept
    BY NextKeepsVerdict DEF IInv
  <1>2. ASSUME NEW u, Consented(u) PROVE Consented(u)'
    BY <1>1, <1>2 DEF Consented, VerdictIsKept
  <1>3. ASSUME NEW c \in Call, NEW b \in Subject, Decide(c, b) PROVE Licensed(e)'
    <2>1. e = c /\ Evaluate(b) = "allow" /\ about'[e] = b
      BY <1>1, <1>3 DEF Decide, Settle, TypeOK, Allowing
    <2>2. QED
      BY <1>1, <1>2, <2>1, EvaluatedAllow DEF IInv, Licensed
  <1>4. ASSUME NEW c \in Call, Emitted(c) \/ Answered(c) PROVE Licensed(e)'
    <2>1. e = c /\ Apply(c, future[c]) /\ UNCHANGED <<about, accepted>>
      BY <1>1, <1>4 DEF Emitted, Answered, Apply, Remember, Settle, TypeOK, Allowing
    <2>2. verdict'[e] = future[e] /\ future[e] \in {"allow_once", "always_allow"}
      BY <1>1, <2>1, ApplyEffect DEF TypeOK, Allowing, Answer
    <2>3. accepted[e] = future[e] /\ about[e].command # "denied"
      BY <1>4, <2>1, <2>2 DEF IInv, Phases, Emitted, Answered, Answer
    <2>4. QED
      BY <2>1, <2>2, <2>3 DEF Licensed
  <1>5. QED
    BY <1>1, <1>3, <1>4
       DEF Next, Step, Ask, TimerFires, TimedOut, Cancel, Settle, Respond, Disconnect,
           Restart, vars, TypeOK, Allowing

\* Every step keeps the calls that are let through licensed.
LEMMA NextConsent == IInv /\ [Next]_vars => AllowNeedsConsent'
  <1> SUFFICES ASSUME IInv, [Next]_vars, NEW e \in Call, verdict'[e] \in Allowing
               PROVE  Licensed(e)'
    BY DEF AllowNeedsConsent, Licensed
  <1>1. VerdictIsKept /\ CallInv'
    BY NextKeepsVerdict, NextCallInv DEF IInv, CallInv
  <1>2. CASE verdict[e] = "none"
    BY <1>2, NewVerdictLicensed
  <1>3. CASE verdict[e] # "none"
    <2>1. verdict'[e] = verdict[e] /\ about'[e] = about[e]
      BY <1>1, <1>3 DEF VerdictIsKept
    <2>2. Licensed(e)
      BY <2>1 DEF IInv, AllowNeedsConsent, Licensed
    <2>3. accepted[e] \in {"allow_once", "always_allow"} => accepted'[e] = accepted[e]
      <3>1. CASE verdict[e] = "auto_allow"
        BY <3>1 DEF IInv, AnswerIsOwn
      <3>2. CASE verdict[e] # "auto_allow"
        BY <1>1, <2>1, <3>2 DEF IInv, CallInv, AnswerIsOwn, Allowing, Answer
      <3>3. QED
        BY <3>1, <3>2
    <2>4. ASSUME NEW u, Consented(u) PROVE Consented(u)'
      BY <1>1, <2>4 DEF Consented, VerdictIsKept
    <2>5. QED
      BY <2>1, <2>2, <2>3, <2>4 DEF Licensed
  <1>4. QED
    BY <1>2, <1>3

-----------------------------------------------------------------------------
(* The theorems *)

\* The invariant is inductive and holds in every reachable state.
LEMMA InvariantHolds == Spec => []IInv
  <1>1. IInv /\ [Next]_vars => IInv'
    BY NextType, NextCallInv, NextMemory, NextConsent DEF IInv, CallInv
  <1>2. QED
    BY <1>1, InitInv, PTL DEF Spec

\* The gate's state keeps its shape: every asked call is about a subject.
THEOREM GateType == Spec => []TypeOK
  BY InvariantHolds, PTL DEF IInv

\* No tool runs without consent, for any number of calls, sessions and
\* restarts and any interleaving of questions, answers, timers and
\* cancellations (permissions/manager.py:76-146).
THEOREM Consent == Spec => []AllowNeedsConsent
  BY InvariantHolds, PTL DEF IInv

\* Every call ends with the answer accepted for it (manager.py:135-155).
THEOREM OwnAnswer == Spec => []AnswerIsOwn
  BY InvariantHolds, PTL DEF IInv

\* _pending holds the calls that wait, and else only cancelled ones.
THEOREM PendingAwaited == Spec => []PendingIsAwaited
  BY InvariantHolds, PTL DEF IInv

\* Nothing is remembered that no call has taken (manager.py:158-190).
THEOREM MemoryTaken == Spec => []MemoryIsTaken
  BY InvariantHolds, PTL DEF IInv
=============================================================================
