--------------------------- MODULE AgentRun_proofs ---------------------------
(***************************************************************************)
(* A run writes behind the thread exactly what it has produced, and what   *)
(* it sends pairs calls with results, for any number of turns, steps and   *)
(* tool calls; the state keeps its shape.                                  *)
(***************************************************************************)
EXTENDS AgentRun, Integers, TLAPS, SequenceTheorems, WellFoundedInduction

\* A step is left to the loop that plans or compacts; a tool call is left to
\* the loop that acts, behind the reply that holds it.
Acting ==
    /\ pc \in {"planning", "compacting"} => step < MaxSteps
    /\ pc = "acting" => todo # <<>> /\ messages # <<>> /\ produced # <<>>

\* The context of a run is the history it was started with and its output.
Kept ==
    (~compacted /\ pc \in {"planning", "acting", "compacting", "finishing"}) =>
        \E h \in Seq(Message) : Len(h) = prefill_len /\ messages = h \o produced

IInv == TypeOK /\ Acting /\ Kept

-----------------------------------------------------------------------------
\* The bounds are numbers.
LEMMA Bounds ==
    /\ MaxTurns \in Nat /\ MaxCalls \in Nat /\ MaxPerReply \in Nat
    /\ MaxSteps \in Nat \ {0}
BY BoundsAssumption, MaxStepsAssumption

\* A set of naturals below a bound has a largest member.
LEMMA Largest ==
    ASSUME NEW n \in Nat, NEW T \in SUBSET (0 .. n), T # {}
    PROVE  \E i \in T : \A j \in T : j <= i
<1> DEFINE R == OpToRel(<, Nat)
<1> DEFINE U == {n - i : i \in T}
<1>1. IsWellFoundedOn(R, Nat)
  BY NatLessThanWellFounded
<1>2. \A p \in Nat, q \in Nat : <<p, q>> \in R <=> p < q
  BY DEF OpToRel
<1>3. U \subseteq Nat /\ U # {}
  <2>1. \A i \in T : n - i \in Nat
    OBVIOUS
  <2>2. PICK i \in T : TRUE
    OBVIOUS
  <2> QED BY <2>1, <2>2
<1> HIDE DEF R
<1>4. PICK u \in U : \A v \in U : <<v, u>> \notin R
  <2> HIDE DEF U
  <2> QED BY <1>1, <1>3, WFMin
<1>5. PICK i \in T : u = n - i
  OBVIOUS
<1>6. ASSUME NEW j \in T PROVE j <= i
  <2>1. n - j \in U /\ n - j \in Nat /\ u \in Nat
    BY <1>3
  <2>2. ~(n - j < u)
    BY <2>1, <1>2, <1>4
  <2> QED BY <2>2, <1>5
<1> QED BY <1>6

\* Trim returns the longest prefix without open calls; the empty one has none.
LEMMA TrimIsPrefix ==
    ASSUME NEW ms \in Seq(Message)
    PROVE  \E m \in 0 .. Len(ms) :
               /\ Trim(ms) = SubSeq(ms, 1, m) /\ Open(ms, m) = {}
               /\ \A j \in 0 .. Len(ms) : Open(ms, j) = {} => j <= m
               /\ Trim(ms) \in Seq(Message) /\ Len(Trim(ms)) = m
               /\ \A i \in 1 .. m : Trim(ms)[i] = ms[i]
<1> DEFINE balanced == {i \in 0 .. Len(ms) : Open(ms, i) = {}}
<1> DEFINE m == CHOOSE i \in balanced : \A j \in balanced : j <= i
<1>1. Len(ms) \in Nat
  OBVIOUS
<1>2. Open(ms, 0) = {}
  BY DEF Open
<1>3. balanced \in SUBSET (0 .. Len(ms)) /\ balanced # {}
  BY <1>1, <1>2
<1>4. \E i \in balanced : \A j \in balanced : j <= i
  <2> HIDE DEF balanced
  <2> QED BY <1>1, <1>3, Largest
<1>5. m \in balanced /\ \A j \in balanced : j <= m
  <2> HIDE DEF balanced
  <2> QED BY <1>4
<1>6. Trim(ms) = SubSeq(ms, 1, m)
  BY DEF Trim
<1> HIDE DEF m
<1>7. m \in 0 .. Len(ms) /\ Open(ms, m) = {}
  BY <1>5
<1>8. \A i \in 1 .. m : ms[i] \in Message
  BY <1>1, <1>7
<1>9. /\ Trim(ms) \in Seq(Message) /\ Len(Trim(ms)) = m
      /\ \A i \in 1 .. m : Trim(ms)[i] = ms[i]
  <2>1. /\ SubSeq(ms, 1, m) \in Seq(Message)
        /\ Len(SubSeq(ms, 1, m)) = IF 1 <= m THEN m - 1 + 1 ELSE 0
        /\ \A i \in 1 .. m - 1 + 1 : SubSeq(ms, 1, m)[i] = ms[1 + i - 1]
    BY <1>7, <1>8, SubSeqProperties
  <2> QED BY <1>6, <1>7, <2>1
<1> QED BY <1>5, <1>6, <1>7, <1>9

LEMMA TrimType ==
    ASSUME NEW ms \in Seq(Message)
    PROVE  Trim(ms) \in Seq(Message)
BY TrimIsPrefix

\* Adding a result to a conversation gives one.
LEMMA AddResultType ==
    ASSUME NEW ms \in Seq(Message), ms # <<>>, NEW id \in CallId
    PROVE  AddResult(ms, id) \in Seq(Message) /\ AddResult(ms, id) # <<>>
<1>1. Len(ms) \in 1 .. Len(ms) /\ ms[Len(ms)] \in Message
  OBVIOUS
<1>2. CASE ms[Len(ms)].results # {}
  <2> DEFINE e == [ms[Len(ms)] EXCEPT !.results = ms[Len(ms)].results \cup {id}]
  <2>1. e \in Message
    BY <1>1 DEF Message
  <2>2. AddResult(ms, id) = [ms EXCEPT ![Len(ms)] = e]
    BY <1>2 DEF AddResult
  <2> HIDE DEF e
  <2>3. [ms EXCEPT ![Len(ms)] = e] \in Seq(Message) /\ Len([ms EXCEPT ![Len(ms)] = e]) = Len(ms)
    BY <1>1, <2>1, ExceptSeq
  <2> QED BY <1>1, <2>2, <2>3
<1>3. CASE ms[Len(ms)].results = {}
  <2>1. Result({id}) \in Message
    BY Bounds DEF Result, Message
  <2>2. AddResult(ms, id) = Append(ms, Result({id}))
    BY <1>3 DEF AddResult
  <2> QED BY <2>1, <2>2, AppendProperties
<1> QED BY <1>2, <1>3

\* A result that joins the output of a run joins its context in the same way.
LEMMA AddResultConcat ==
    ASSUME NEW h \in Seq(Message), NEW p \in Seq(Message), p # <<>>, NEW id \in CallId
    PROVE  AddResult(h \o p, id) = h \o AddResult(p, id)
<1> DEFINE q == h \o p
<1> DEFINE n == Len(h) + Len(p)
<1>1. q \in Seq(Message) /\ Len(q) = n /\ q[n] = p[Len(p)] /\ n \in 1 .. n /\ Len(p) \in 1 .. Len(p)
  BY ConcatProperties
<1>2. CASE p[Len(p)].results # {}
  <2> DEFINE e == [p[Len(p)] EXCEPT !.results = p[Len(p)].results \cup {id}]
  <2>0. p[Len(p)] \in Message
    BY <1>1
  <2>1. e \in Message
    BY <2>0 DEF Message
  <2>2. AddResult(q, id) = [q EXCEPT ![n] = e] /\ AddResult(p, id) = [p EXCEPT ![Len(p)] = e]
    <3> HIDE DEF q, n
    <3>1. q[Len(q)] = p[Len(p)]
      BY <1>1
    <3> QED BY <1>1, <1>2, <3>1 DEF AddResult
  <2> HIDE DEF e
  <2> DEFINE a == [q EXCEPT ![n] = e]
  <2> DEFINE b == [p EXCEPT ![Len(p)] = e]
  <2>3. a \in Seq(Message) /\ Len(a) = n /\ \A i \in 1 .. n : a[i] = IF i = n THEN e ELSE q[i]
    <3> HIDE DEF q, n
    <3> QED BY <1>1, <2>1, ExceptSeq
  <2>4. /\ b \in Seq(Message) /\ Len(b) = Len(p)
        /\ \A i \in 1 .. Len(p) : b[i] = IF i = Len(p) THEN e ELSE p[i]
    <3> HIDE DEF q, n
    <3> QED BY <1>1, <2>1, ExceptSeq
  <2>5. \A i \in 1 .. n : q[i] = IF i <= Len(h) THEN h[i] ELSE p[i - Len(h)]
    BY ConcatProperties
  <2> HIDE DEF a, b, q
  <2>6. h \o b \in Seq(Message) /\ Len(h \o b) = n
        /\ \A i \in 1 .. n : (h \o b)[i] = IF i <= Len(h) THEN h[i] ELSE b[i - Len(h)]
    <3>1. /\ h \o b \in Seq(Message) /\ Len(h \o b) = Len(h) + Len(b)
          /\ \A i \in 1 .. Len(h) + Len(b) :
                (h \o b)[i] = IF i <= Len(h) THEN h[i] ELSE b[i - Len(h)]
      BY <2>4, ConcatProperties
    <3> QED BY <2>4, <3>1
  <2>7. ASSUME NEW i \in 1 .. n PROVE a[i] = (h \o b)[i]
    <3>0. Len(h) \in Nat /\ Len(p) \in Nat \ {0} /\ i \in Nat
      BY <1>1
    <3>1. CASE i <= Len(h)
      <4>1. i # n
        BY <3>0, <3>1
      <4>2. a[i] = q[i] /\ q[i] = h[i] /\ (h \o b)[i] = h[i]
        BY <3>1, <4>1, <2>3, <2>5, <2>6
      <4> QED BY <4>2
    <3>2. CASE i > Len(h)
      <4>1. i - Len(h) \in 1 .. Len(p) /\ (i = n <=> i - Len(h) = Len(p)) /\ ~(i <= Len(h))
        BY <3>0, <3>2
      <4>2. (h \o b)[i] = b[i - Len(h)] /\ q[i] = p[i - Len(h)]
        BY <4>1, <2>5, <2>6
      <4> QED BY <4>1, <4>2, <2>3, <2>4
    <3>3. i <= Len(h) \/ i > Len(h)
      BY <3>0
    <3> QED BY <3>1, <3>2, <3>3
  <2>8. a = h \o b
    <3> HIDE DEF n
    <3> QED BY <2>3, <2>6, <2>7, SeqEqual
  <2> QED BY <2>2, <2>8 DEF a, b, q
<1>3. CASE p[Len(p)].results = {}
  <2> DEFINE r == Result({id})
  <2>1. r \in Message
    BY Bounds DEF Result, Message
  <2>2. AddResult(q, id) = Append(q, r) /\ AddResult(p, id) = Append(p, r)
    <3> HIDE DEF q, n
    <3> QED BY <1>1, <1>3 DEF AddResult
  <2> HIDE DEF r
  <2>3. Append(q, r) = q \o <<r>> /\ Append(p, r) = p \o <<r>> /\ <<r>> \in Seq(Message)
    BY <1>1, <2>1, AppendIsConcat
  <2>4. (h \o p) \o <<r>> = h \o (p \o <<r>>)
    BY <2>3, ConcatAssociative
  <2> QED BY <2>2, <2>3, <2>4
<1> QED BY <1>2, <1>3

\* Output is added at the end, whatever is before it.
LEMMA ConcatMessages ==
    \A x, y, z \in Seq(Message) : (x \o y) \o z = x \o (y \o z)
<1> TAKE x, y, z \in Seq(Message)
<1> HIDE DEF Message
<1> QED BY ConcatAssociative

\* The slice behind the history is the output.
LEMMA SliceBehind ==
    ASSUME NEW h \in Seq(Message), NEW p \in Seq(Message)
    PROVE  SubSeq(h \o p, Len(h) + 1, Len(h \o p)) = p
<1> DEFINE q == h \o p
<1> DEFINE s == SubSeq(q, Len(h) + 1, Len(q))
<1>1. /\ q \in Seq(Message) /\ Len(q) = Len(h) + Len(p) /\ Len(h) \in Nat /\ Len(p) \in Nat
      /\ \A i \in 1 .. Len(h) + Len(p) : q[i] = IF i <= Len(h) THEN h[i] ELSE p[i - Len(h)]
  BY ConcatProperties
<1> HIDE DEF q
<1>2. \A i \in Len(h) + 1 .. Len(q) : q[i] \in Message
  BY <1>1
<1>3. /\ s \in Seq(Message)
      /\ Len(s) = IF Len(h) + 1 <= Len(q) THEN Len(q) - (Len(h) + 1) + 1 ELSE 0
      /\ \A i \in 1 .. Len(q) - (Len(h) + 1) + 1 : s[i] = q[(Len(h) + 1) + i - 1]
  <2>1. Len(h) + 1 \in Int /\ Len(q) \in Int
    BY <1>1
  <2> QED BY <1>2, <2>1, SubSeqProperties
<1> HIDE DEF s
<1>4. Len(s) = Len(p)
  BY <1>1, <1>3
<1>5. ASSUME NEW i \in 1 .. Len(s) PROVE s[i] = p[i]
  <2>1. s[i] = q[Len(h) + i]
    <3>1. /\ i \in 1 .. Len(q) - (Len(h) + 1) + 1
          /\ (Len(h) + 1) + i - 1 = Len(h) + i
      BY <1>1, <1>4
    <3>2. s[i] = q[(Len(h) + 1) + i - 1]
      BY <1>3, <3>1
    <3> QED BY <3>1, <3>2
  <2>2. Len(h) + i \in 1 .. Len(h) + Len(p) /\ ~(Len(h) + i <= Len(h)) /\ (Len(h) + i) - Len(h) = i
    BY <1>1, <1>4
  <2> QED BY <2>1, <2>2, <1>1
<1>6. s = p
  BY <1>3, <1>4, <1>5, SeqEqual
<1> QED BY <1>6 DEF s, q

-----------------------------------------------------------------------------
\* The messages the program makes are messages.
LEMMA MessageTypes ==
    /\ \A n \in 0 .. MaxTurns : Prompt(n) \in Message
    /\ \A S \in SUBSET CallId : Reply(S) \in Message /\ Result(S) \in Message
    /\ Summarised \in Seq(Message)
<1>1. 0 \in 0 .. MaxTurns
  BY Bounds
<1>2. \A n \in 0 .. MaxTurns : Prompt(n) \in Message
  BY DEF Prompt, Message
<1>3. \A S \in SUBSET CallId : Reply(S) \in Message /\ Result(S) \in Message
  BY <1>1 DEF Reply, Result, Message
<1>4. Summarised \in Seq(Message)
  <2>1. Reply({}) \in Message
    BY <1>3
  <2>2. [role |-> "user", tag |-> 0, uses |-> {}, results |-> {}] \in Message
    BY <1>1 DEF Message
  <2> QED BY <2>1, <2>2 DEF Summarised
<1> QED BY <1>2, <1>3, <1>4

\* Where a step ends, the loop has a step left or finishes.
LEMMA EndOfStep ==
    ASSUME TypeOK, NEW stop, EndStep(stop), step' \in 0 .. MaxSteps
    PROVE  /\ status' \in {"running", "success", "failed", "cancelled"}
           /\ pc' \in {"planning", "compacting", "finishing"}
           /\ pc' \in {"planning", "compacting"} => step' < MaxSteps
<1>1. /\ stop = "end_turn" => status' = "success"
      /\ (stop # "end_turn" /\ step' >= MaxSteps) => status' = "failed"
      /\ (stop # "end_turn" /\ ~(step' >= MaxSteps)) => status' = status
  BY DEF EndStep
<1>2. \/ status' # "running" /\ pc' = "finishing"
      \/ status' = "running" /\ pc' \in {"planning", "compacting"}
  BY DEF EndStep
<1>3. step' \in Nat /\ MaxSteps \in Nat
  BY Bounds
<1> QED BY <1>1, <1>2, <1>3 DEF TypeOK

\* A run starts on a history that is a conversation.
LEMMA InitInv == Init => IInv
<1> SUFFICES ASSUME Init PROVE IInv
  OBVIOUS
<1>1. TypeOK
  <2>1. 0 \in 0 .. MaxTurns /\ 0 \in 0 .. MaxSteps /\ 0 \in 0 .. MaxCalls
    BY Bounds
  <2>2. <<>> \in Seq(Message) /\ <<>> \in Seq(CallId) /\ 0 \in Nat
    OBVIOUS
  <2>3. compacted \in BOOLEAN /\ folded \in BOOLEAN /\ skipped \subseteq CallId
    BY DEF Init
  <2> QED BY <2>1, <2>2, <2>3 DEF Init, TypeOK
<1> QED BY <1>1 DEF Init, IInv, Acting, Kept

\* A message is taken and a run starts with no output.
LEMMA TakeMessageStep ==
    ASSUME IInv, TakeMessage
    PROVE  IInv'
<1> DEFINE prompt == Prompt(turn + 1)
<1> DEFINE history == Trim(Append(thread, prompt))
<1>1. turn + 1 \in 0 .. MaxTurns /\ turn' = turn + 1
  BY Bounds DEF IInv, TypeOK, TakeMessage, StartTurn
<1>2. prompt \in Message /\ thread \in Seq(Message)
  BY <1>1, MessageTypes DEF IInv, TypeOK
<1> HIDE DEF prompt
<1>3. Append(thread, prompt) \in Seq(Message)
  BY <1>2, AppendProperties
<1>4. history \in Seq(Message) /\ Len(history) \in Nat
  <2>1. history \in Seq(Message)
    BY <1>3, TrimType, Zenon
  <2> HIDE DEF history
  <2> QED BY <2>1
<1>5. /\ thread' = Append(thread, prompt) /\ messages' = history
      /\ prefill_len' = Len(history) /\ step' = 0 /\ status' = "running"
      /\ pc' = "planning" /\ todo' = <<>> /\ produced' = <<>> /\ compacted' = FALSE
      /\ skipped' = {}
      /\ UNCHANGED <<issued, folded>>
  BY <1>1 DEF TakeMessage, StartTurn, prompt
<1> HIDE DEF history
<1>6. TypeOK'
  <2>1. <<>> \in Seq(Message) /\ <<>> \in Seq(CallId) /\ 0 \in 0 .. MaxSteps
    BY Bounds
  <2>2. issued' \in 0 .. MaxCalls /\ compacted' \in BOOLEAN /\ folded' \in BOOLEAN
    BY <1>5 DEF IInv, TypeOK
  <2>3. thread' \in Seq(Message) /\ turn' \in 0 .. MaxTurns /\ prefill_len' \in Nat
    BY <1>1, <1>3, <1>4, <1>5
  <2> QED BY <2>1, <2>2, <2>3, <1>4, <1>5 DEF TypeOK
<1>7. Acting'
  BY <1>5, Bounds DEF Acting
<1>8. history \o <<>> = history
  BY <1>4, ConcatEmptySeq
<1>9. Kept'
  BY <1>4, <1>5, <1>8 DEF Kept
<1> QED BY <1>6, <1>7, <1>9 DEF IInv

\* What the model says becomes part of context and output alike.
LEMMA RespondStep ==
    ASSUME IInv, NEW n \in 0 .. MaxPerReply, NEW stop, Respond(n, stop)
    PROVE  IInv'
<1> DEFINE ids == issued + 1 .. issued + n
<1> DEFINE said == IF stop = "max_tokens" /\ n > 0
                   THEN <<Reply(ids), Result(ids)>> ELSE <<Reply(ids)>>
<1>1. n \in Nat /\ issued \in Nat /\ issued + n \in 0 .. MaxCalls /\ pc = "planning"
  BY Bounds DEF IInv, TypeOK, Respond
<1>2. ids \in SUBSET CallId
  BY <1>1, Bounds DEF CallId
<1>3. said \in Seq(Message) /\ said # <<>>
  <2>1. Reply(ids) \in Message /\ Result(ids) \in Message
    BY <1>2, MessageTypes
  <2> HIDE DEF ids
  <2> QED BY <2>1
<1>4. /\ issued' = issued + n /\ step' = step + 1
      /\ messages' = messages \o said /\ produced' = produced \o said
      /\ UNCHANGED <<thread, turn, prefill_len, compacted, folded>>
      /\ skipped' \in {skipped, skipped \cup ids}
      /\ \/ /\ stop = "tool_use" /\ n > 0 /\ todo' = [i \in 1 .. n |-> issued + i]
            /\ pc' = "acting" /\ status' = status
         \/ todo' = todo /\ EndStep(stop)
  BY DEF Respond, storeVars
<1> HIDE DEF ids, said
<1>5. /\ messages \in Seq(Message) /\ produced \in Seq(Message)
      /\ messages' \in Seq(Message) /\ produced' \in Seq(Message)
      /\ messages' # <<>> /\ produced' # <<>>
  <2>1. messages \in Seq(Message) /\ produced \in Seq(Message)
    BY DEF IInv, TypeOK
  <2>2. \A s \in Seq(Message) : s \o said \in Seq(Message) /\ s \o said # <<>>
    BY <1>3, ConcatProperties, ConcatEqualIffEmpty
  <2> QED BY <2>1, <2>2, <1>4
<1>6. step' \in 0 .. MaxSteps /\ issued' \in 0 .. MaxCalls
  BY <1>1, <1>4, Bounds DEF IInv, TypeOK, Acting
<1>7. /\ status' \in {"running", "success", "failed", "cancelled"}
      /\ pc' \in {"planning", "compacting", "finishing", "acting"}
      /\ pc' \in {"planning", "compacting"} => step' < MaxSteps
      /\ todo' \in Seq(CallId) /\ (pc' = "acting" => todo' # <<>>)
  <2>1. CASE n > 0 /\ todo' = [i \in 1 .. n |-> issued + i] /\ pc' = "acting" /\ status' = status
    <3>1. \A i \in 1 .. n : issued + i \in CallId
      BY <1>1, Bounds DEF CallId
    <3>2. todo' \in Seq(CallId) /\ Len(todo') = n
      BY <2>1, <3>1, <1>1
    <3>3. todo' # <<>>
      BY <2>1, <3>2
    <3> QED BY <2>1, <3>2, <3>3 DEF IInv, TypeOK
  <2>2. CASE todo' = todo /\ EndStep(stop)
    <3>1. TypeOK
      BY DEF IInv
    <3>2. todo \in Seq(CallId)
      BY <3>1 DEF TypeOK
    <3> QED BY <2>2, <3>1, <3>2, <1>6, EndOfStep
  <2> QED BY <1>4, <2>1, <2>2
<1>8. TypeOK'
  <2>1. skipped' \subseteq CallId
    BY <1>2, <1>4 DEF IInv, TypeOK
  <2> QED BY <2>1, <1>4, <1>5, <1>6, <1>7 DEF IInv, TypeOK
<1>9. Acting'
  BY <1>5, <1>7 DEF Acting
<1>10. Kept'
  <2> SUFFICES ASSUME ~compacted'
               PROVE  \E h \in Seq(Message) : Len(h) = prefill_len' /\ messages' = h \o produced'
    BY DEF Kept
  <2>1. PICK h \in Seq(Message) : Len(h) = prefill_len /\ messages = h \o produced
    BY <1>1, <1>4 DEF IInv, Kept
  <2>2. (h \o produced) \o said = h \o (produced \o said)
    <3>1. produced \in Seq(Message) /\ said \in Seq(Message)
      BY <1>3, <1>5
    <3> QED BY <3>1, ConcatMessages, Zenon
  <2> QED BY <2>1, <2>2, <1>4
<1> QED BY <1>8, <1>9, <1>10 DEF IInv

\* A tool's result joins context and output alike.
LEMMA ToolReturnsStep ==
    ASSUME IInv, ToolReturns
    PROVE  IInv'
<1> DEFINE id == Head(todo)
<1>1. /\ pc = "acting" /\ todo \in Seq(CallId) /\ todo # <<>>
      /\ messages \in Seq(Message) /\ messages # <<>>
      /\ produced \in Seq(Message) /\ produced # <<>> /\ step \in 0 .. MaxSteps
  BY DEF ToolReturns, IInv, TypeOK, Acting
<1>2. id \in CallId /\ Tail(todo) \in Seq(CallId)
  BY <1>1
<1>3. /\ messages' = AddResult(messages, id) /\ produced' = AddResult(produced, id)
      /\ todo' = Tail(todo) /\ step' = step
      /\ UNCHANGED <<thread, turn, prefill_len, issued, compacted, folded, skipped>>
      /\ \/ todo' = <<>> /\ EndStep("tool_use")
         \/ todo' # <<>> /\ UNCHANGED <<status, pc>>
  BY DEF ToolReturns, storeVars
<1> HIDE DEF id
<1>4. /\ messages' \in Seq(Message) /\ messages' # <<>>
      /\ produced' \in Seq(Message) /\ produced' # <<>>
  BY <1>1, <1>2, <1>3, AddResultType
<1>5. /\ status' \in {"running", "success", "failed", "cancelled"}
      /\ pc' \in {"planning", "compacting", "finishing", "acting"}
      /\ pc' \in {"planning", "compacting"} => step' < MaxSteps
      /\ pc' = "acting" => todo' # <<>>
  <2>1. CASE todo' = <<>> /\ EndStep("tool_use")
    <3>1. TypeOK /\ step' \in 0 .. MaxSteps
      BY <1>1, <1>3 DEF IInv
    <3> QED BY <2>1, <3>1, EndOfStep
  <2>2. CASE todo' # <<>> /\ UNCHANGED <<status, pc>>
    BY <2>2, <1>1 DEF IInv, TypeOK
  <2> QED BY <1>3, <2>1, <2>2
<1>6. TypeOK'
  BY <1>1, <1>2, <1>3, <1>4, <1>5 DEF IInv, TypeOK
<1>7. Acting'
  BY <1>4, <1>5 DEF Acting
<1>8. Kept'
  <2> SUFFICES ASSUME ~compacted'
               PROVE  \E h \in Seq(Message) : Len(h) = prefill_len' /\ messages' = h \o produced'
    BY DEF Kept
  <2>1. PICK h \in Seq(Message) : Len(h) = prefill_len /\ messages = h \o produced
    BY <1>1, <1>3 DEF IInv, Kept
  <2>2. AddResult(h \o produced, id) = h \o AddResult(produced, id)
    BY <1>1, <1>2, AddResultConcat
  <2> QED BY <2>1, <2>2, <1>3
<1> QED BY <1>6, <1>7, <1>8 DEF IInv

\* The run goes on to another await, with its context as it is.
LEMMA AwaitStep ==
    ASSUME IInv, UNCHANGED <<thread, turn, messages, prefill_len, todo, issued, produced,
                             compacted, folded, skipped>>,
           pc \in {"planning", "acting", "compacting", "finishing"},
           pc' \in {"planning", "finishing", "down"},
           pc' = "planning" => pc = "compacting" /\ step' = step,
           step' \in 0 .. MaxSteps,
           status' \in {"running", "success", "failed", "cancelled"}
    PROVE  IInv'
<1>1. TypeOK'
  BY DEF IInv, TypeOK
<1>2. Acting'
  BY DEF IInv, Acting
<1>3. Kept'
  BY DEF IInv, Kept
<1> QED BY <1>1, <1>2, <1>3 DEF IInv

\* The output is written behind the thread.
LEMMA FinishStep ==
    ASSUME IInv, Finish
    PROVE  IInv' /\ (~compacted => thread' = thread \o produced)
<1>1. /\ thread \in Seq(Message) /\ messages \in Seq(Message) /\ produced \in Seq(Message)
      /\ prefill_len \in Nat
  BY DEF IInv, TypeOK
<1>2. /\ pc = "finishing" /\ thread' = thread \o NewMessages
      /\ folded' = (folded \/ compacted) /\ pc' \in {"idle", "down"}
      /\ UNCHANGED <<turn, messages, prefill_len, step, status, todo, issued, produced,
                     compacted, skipped>>
  BY DEF Finish
<1>3. NewMessages \in Seq(Message)
  <2>1. \A i \in prefill_len + 1 .. Len(messages) : messages[i] \in Message
    BY <1>1
  <2>2. prefill_len + 1 \in Int /\ Len(messages) \in Int
    BY <1>1
  <2> QED BY <2>1, <2>2, SubSeqProperties DEF NewMessages
<1>4. thread' \in Seq(Message)
  BY <1>1, <1>2, <1>3, ConcatProperties
<1>5. TypeOK'
  BY <1>2, <1>4 DEF IInv, TypeOK
<1>6. Acting' /\ Kept'
  BY <1>2 DEF Acting, Kept
<1>7. ASSUME ~compacted PROVE thread' = thread \o produced
  <2>1. PICK h \in Seq(Message) : Len(h) = prefill_len /\ messages = h \o produced
    BY <1>2, <1>7 DEF IInv, Kept
  <2>2. NewMessages = produced
    BY <2>1, <1>1, SliceBehind DEF NewMessages
  <2> QED BY <2>2, <1>2
<1> QED BY <1>5, <1>6, <1>7 DEF IInv

\* Every step keeps the invariant, and the one that ends a run appends its
\* output.
LEMMA NextInv ==
    IInv /\ [Next]_vars =>
        /\ IInv'
        /\ (pc = "finishing" /\ pc' = "idle" /\ ~compacted) => thread' = thread \o produced
<1> SUFFICES ASSUME IInv, [Next]_vars
             PROVE  /\ IInv'
                    /\ (pc = "finishing" /\ pc' = "idle" /\ ~compacted) =>
                           thread' = thread \o produced
  OBVIOUS
<1>1. CASE TakeMessage
  BY <1>1, TakeMessageStep DEF TakeMessage, StartTurn
<1>2. ASSUME NEW n \in 0 .. MaxPerReply, NEW stop \in Stop, Respond(n, stop)
      PROVE  IInv' /\ pc # "finishing"
  BY <1>2, RespondStep DEF Respond
<1>3. CASE ToolReturns
  BY <1>3, ToolReturnsStep DEF ToolReturns
<1>4. CASE PlanFails
  <2>1. step' \in 0 .. MaxSteps
    BY <1>4, Bounds DEF PlanFails, IInv, TypeOK, Acting
  <2> QED BY <1>4, <2>1, AwaitStep DEF PlanFails, storeVars
<1>5. step \in 0 .. MaxSteps /\ status \in {"running", "success", "failed", "cancelled"}
  BY DEF IInv, TypeOK
<1>6. CASE CompactionSkipped
  BY <1>5, <1>6, AwaitStep DEF CompactionSkipped, storeVars
<1>7. CASE LoopRaises
  BY <1>5, <1>7, AwaitStep DEF LoopRaises, storeVars
<1>8. CASE Cancel
  BY <1>5, <1>8, AwaitStep DEF Cancel, storeVars
<1>9. CASE CancelledLate
  BY <1>5, <1>9, AwaitStep DEF CancelledLate, storeVars
<1>10. CASE Compacted
  <2>1. TypeOK' /\ Acting' /\ Kept'
    BY <1>10, MessageTypes DEF Compacted, storeVars, IInv, TypeOK, Acting, Kept
  <2> QED BY <1>10, <2>1 DEF Compacted, IInv
<1>11. CASE Finish
  BY <1>11, FinishStep
<1>12. CASE CompactThread
  <2>1. TypeOK' /\ Acting' /\ Kept'
    BY <1>12, MessageTypes DEF CompactThread, runVars, IInv, TypeOK, Acting, Kept
  <2> QED BY <1>12, <2>1 DEF CompactThread, IInv
<1>13. CASE UNCHANGED vars
  <2>1. TypeOK' /\ Acting' /\ Kept'
    BY <1>13 DEF vars, storeVars, runVars, IInv, TypeOK, Acting, Kept
  <2> QED BY <1>13, <2>1 DEF vars, runVars, IInv
<1> QED
  BY <1>1, <1>2, <1>3, <1>4, <1>6, <1>7, <1>8, <1>9, <1>10, <1>11, <1>12, <1>13 DEF Next

\* The conversation, the thread and the counters keep their shape.
THEOREM RunType == Spec => []TypeOK
<1>1. Init => IInv
  BY InitInv
<1>2. IInv /\ [Next]_vars => IInv'
  BY NextInv
<1>3. IInv => TypeOK
  BY DEF IInv
<1> QED BY <1>1, <1>2, <1>3, PTL DEF Spec

\* A run writes exactly what it has produced behind the thread: the slice at
\* prefill_len (runner.py:183, 252-253) neither repeats the history nor loses
\* output, however the history was trimmed.
THEOREM NothingLost == Spec => OutputIsKept
<1>1. Init => IInv
  BY InitInv
<1>2. IInv /\ [Next]_vars => IInv'
  BY NextInv
<1>3. IInv /\ [Next]_vars =>
        [pc = "finishing" /\ pc' = "idle" /\ ~compacted => thread' = thread \o produced]_vars
  BY NextInv
<1> QED BY <1>1, <1>2, <1>3, PTL DEF Spec, OutputIsKept

-----------------------------------------------------------------------------
(* Pairing: what the model is sent, and what the thread holds *)

\* Apart from the calls in X, a conversation is paired but for the calls T of
\* its last step, which have no result yet.
Owing(ms, T, X) ==
    LET n == Len(ms) IN
    /\ n > 0 /\ ms[1].results = {}
    /\ \A i \in 1 .. n - 2 : ms[i].uses \ X = ms[i + 1].results
    /\ \/ /\ n > 1 /\ ms[n].results # {} /\ ms[n].uses \ X = {}
          /\ ms[n - 1].uses \ X = ms[n].results \cup T
       \/ /\ ms[n].results = {} /\ ms[n].uses \ X = T
          /\ n > 1 => ms[n - 1].uses \ X = {}

\* No result without its call right before it.
Chained(ms) ==
    \A i \in 1 .. Len(ms) : \A id \in ms[i].results : i > 1 /\ id \in ms[i - 1].uses

\* The calls of a conversation, and that it makes each of them once.
Calls(ms) == UNION {ms[i].uses : i \in 1 .. Len(ms)}
Once(ms)  == \A i, j \in 1 .. Len(ms) : \A id \in ms[i].uses : id \in ms[j].uses => i = j

\* The fields of a message are sets of calls.
LEMMA Fields ==
    ASSUME NEW ms \in Seq(Message)
    PROVE  /\ Len(ms) \in Nat
           /\ \A i \in 1 .. Len(ms) : /\ ms[i] \in Message
                                      /\ ms[i].uses \subseteq CallId
                                      /\ ms[i].results \subseteq CallId
<1>1. Len(ms) \in Nat /\ \A i \in 1 .. Len(ms) : ms[i] \in Message
  OBVIOUS
<1> QED BY <1>1 DEF Message

\* Two conversations, one behind the other.
LEMMA Joined ==
    ASSUME NEW x \in Seq(Message), NEW y \in Seq(Message)
    PROVE  /\ x \o y \in Seq(Message) /\ Len(x \o y) = Len(x) + Len(y)
           /\ Len(x) \in Nat /\ Len(y) \in Nat
           /\ \A i \in 1 .. Len(x) : (x \o y)[i] = x[i]
           /\ \A i \in 1 .. Len(y) : (x \o y)[Len(x) + i] = y[i]
           /\ \A i \in 1 .. Len(x) + Len(y) :
                 i \in 1 .. Len(x) \/ \E j \in 1 .. Len(y) : i = Len(x) + j
<1>1. Len(x) \in Nat /\ Len(y) \in Nat
  OBVIOUS
<1>2. /\ x \o y \in Seq(Message) /\ Len(x \o y) = Len(x) + Len(y)
      /\ \A i \in 1 .. Len(x) + Len(y) : (x \o y)[i] = IF i <= Len(x) THEN x[i] ELSE y[i - Len(x)]
  BY ConcatProperties
<1>3. \A i \in 1 .. Len(x) : (x \o y)[i] = x[i]
  BY <1>1, <1>2
<1>4. ASSUME NEW i \in 1 .. Len(y) PROVE (x \o y)[Len(x) + i] = y[i]
  <2>1. /\ Len(x) + i \in 1 .. Len(x) + Len(y) /\ ~(Len(x) + i <= Len(x))
        /\ (Len(x) + i) - Len(x) = i
    BY <1>1
  <2> QED BY <1>2, <2>1
<1>5. ASSUME NEW i \in 1 .. Len(x) + Len(y), i \notin 1 .. Len(x)
      PROVE  \E j \in 1 .. Len(y) : i = Len(x) + j
  <2>1. i - Len(x) \in 1 .. Len(y) /\ i = Len(x) + (i - Len(x))
    BY <1>1, <1>5
  <2> QED BY <2>1
<1> QED BY <1>1, <1>2, <1>3, <1>4, <1>5

LEMMA ChainedJoin ==
    ASSUME NEW x \in Seq(Message), NEW y \in Seq(Message), Chained(x), Chained(y)
    PROVE  Chained(x \o y)
<1> DEFINE z == x \o y
<1>1. /\ Len(z) = Len(x) + Len(y) /\ Len(x) \in Nat /\ Len(y) \in Nat
      /\ \A i \in 1 .. Len(x) : z[i] = x[i]
      /\ \A i \in 1 .. Len(y) : z[Len(x) + i] = y[i]
      /\ \A i \in 1 .. Len(z) : i \in 1 .. Len(x) \/ \E j \in 1 .. Len(y) : i = Len(x) + j
  BY Joined
<1> HIDE DEF z
<1>2. ASSUME NEW i \in 1 .. Len(z), NEW id \in z[i].results
      PROVE  i > 1 /\ id \in z[i - 1].uses
  <2>1. CASE i \in 1 .. Len(x)
    <3>1. i > 1 /\ id \in x[i - 1].uses
      BY <1>1, <1>2, <2>1 DEF Chained
    <3>2. i - 1 \in 1 .. Len(x)
      BY <1>1, <2>1, <3>1
    <3> QED BY <1>1, <3>1, <3>2
  <2>2. ASSUME NEW j \in 1 .. Len(y), i = Len(x) + j PROVE i > 1 /\ id \in z[i - 1].uses
    <3>1. j > 1 /\ id \in y[j - 1].uses
      BY <1>1, <1>2, <2>2 DEF Chained
    <3>2. j - 1 \in 1 .. Len(y) /\ i - 1 = Len(x) + (j - 1) /\ i > 1
      BY <1>1, <2>2, <3>1
    <3> QED BY <1>1, <3>1, <3>2
  <2> QED BY <1>1, <2>1, <2>2
<1> QED BY <1>2 DEF Chained, z

LEMMA CallsJoin ==
    ASSUME NEW x \in Seq(Message), NEW y \in Seq(Message)
    PROVE  /\ Calls(x \o y) = Calls(x) \cup Calls(y)
           /\ Once(x) /\ Once(y) /\ Calls(x) \cap Calls(y) = {} => Once(x \o y)
<1> DEFINE z == x \o y
<1>1. /\ Len(z) = Len(x) + Len(y) /\ Len(x) \in Nat /\ Len(y) \in Nat
      /\ \A i \in 1 .. Len(x) : z[i] = x[i]
      /\ \A i \in 1 .. Len(y) : z[Len(x) + i] = y[i]
      /\ \A i \in 1 .. Len(z) : i \in 1 .. Len(x) \/ \E j \in 1 .. Len(y) : i = Len(x) + j
  BY Joined
<1> HIDE DEF z
<1>2. \A ms : \A id : id \in Calls(ms) <=> \E i \in 1 .. Len(ms) : id \in ms[i].uses
  BY DEF Calls
<1>3. ASSUME NEW id \in Calls(z) PROVE id \in Calls(x) \cup Calls(y)
  <2>1. PICK i \in 1 .. Len(z) : id \in z[i].uses
    BY <1>2
  <2>2. CASE i \in 1 .. Len(x)
    BY <1>1, <1>2, <2>1, <2>2
  <2>3. ASSUME NEW j \in 1 .. Len(y), i = Len(x) + j PROVE id \in Calls(y)
    BY <1>1, <1>2, <2>1, <2>3
  <2> QED BY <1>1, <2>2, <2>3
<1>4. ASSUME NEW id \in Calls(x) PROVE id \in Calls(z)
  <2>1. PICK i \in 1 .. Len(x) : id \in x[i].uses
    BY <1>2
  <2>2. i \in 1 .. Len(z)
    BY <1>1
  <2> QED BY <1>1, <1>2, <2>1, <2>2
<1>5. ASSUME NEW id \in Calls(y) PROVE id \in Calls(z)
  <2>1. PICK i \in 1 .. Len(y) : id \in y[i].uses
    BY <1>2
  <2>2. Len(x) + i \in 1 .. Len(z)
    BY <1>1
  <2> QED BY <1>1, <1>2, <2>1, <2>2
<1>6. ASSUME Once(x), Once(y), Calls(x) \cap Calls(y) = {},
             NEW i \in 1 .. Len(z), NEW j \in 1 .. Len(z), NEW id \in z[i].uses, id \in z[j].uses
      PROVE  i = j
  <2>1. ASSUME i \in 1 .. Len(x), j \in 1 .. Len(x) PROVE i = j
    BY <1>1, <1>6, <2>1 DEF Once
  <2>2. ASSUME NEW k \in 1 .. Len(y), i = Len(x) + k, NEW l \in 1 .. Len(y), j = Len(x) + l
        PROVE  i = j
    <3>1. z[i] = y[k] /\ z[j] = y[l]
      BY <1>1, <2>2
    <3>2. id \in y[k].uses /\ id \in y[l].uses
      BY <1>6, <3>1
    <3>3. k = l
      BY <1>6, <3>2 DEF Once
    <3> QED BY <2>2, <3>3
  <2>3. ASSUME i \in 1 .. Len(x), NEW l \in 1 .. Len(y), j = Len(x) + l PROVE FALSE
    BY <1>1, <1>2, <1>6, <2>3
  <2>4. ASSUME j \in 1 .. Len(x), NEW l \in 1 .. Len(y), i = Len(x) + l PROVE FALSE
    BY <1>1, <1>2, <1>6, <2>4
  <2> QED BY <1>1, <2>1, <2>2, <2>3, <2>4
<1>7. Calls(z) = Calls(x) \cup Calls(y)
  BY <1>3, <1>4, <1>5
<1>8. Once(x) /\ Once(y) /\ Calls(x) \cap Calls(y) = {} => Once(z)
  BY <1>6 DEF Once
<1> QED BY <1>7, <1>8 DEF z

\* What Trim leaves of a thread can be sent.
LEMMA TrimIsPaired ==
    ASSUME NEW ms \in Seq(Message), Chained(ms), Once(ms)
    PROVE  Paired(Trim(ms))
<1>1. PICK m \in 0 .. Len(ms) :
          /\ Open(ms, m) = {} /\ Len(Trim(ms)) = m
          /\ \A i \in 1 .. m : Trim(ms)[i] = ms[i]
  BY TrimIsPrefix
<1>2. m \in Nat /\ m <= Len(ms) /\ Len(ms) \in Nat
  OBVIOUS
<1>3. ASSUME NEW i \in 1 .. m, NEW id \in ms[i].uses
      PROVE  i < m /\ id \in ms[i + 1].results
  <2>1. PICK k \in i + 1 .. m : id \in ms[k].results
    BY <1>1, <1>3 DEF Open
  <2>2. k \in 1 .. Len(ms) /\ k > 1 /\ id \in ms[k - 1].uses
    <3>1. k \in 1 .. Len(ms)
      BY <1>2
    <3> QED BY <2>1, <3>1 DEF Chained
  <2>3. k - 1 = i
    <3>1. i \in 1 .. Len(ms) /\ k - 1 \in 1 .. Len(ms)
      BY <1>2, <2>2
    <3> QED BY <1>3, <2>2, <3>1 DEF Once
  <2> QED BY <1>2, <2>1, <2>3
<1>4. ASSUME NEW i \in 1 .. m, i < m PROVE ms[i].uses = ms[i + 1].results
  <2>1. i + 1 \in 1 .. Len(ms) /\ (i + 1) - 1 = i
    BY <1>2, <1>4
  <2>2. ms[i + 1].results \subseteq ms[i].uses
    BY <2>1 DEF Chained
  <2> QED BY <1>3, <2>2
<1>5. ASSUME m > 0 PROVE ms[1].results = {}
  <2>1. 1 \in 1 .. Len(ms) /\ ~(1 > 1)
    BY <1>2, <1>5
  <2> QED BY <2>1 DEF Chained
<1>6. ASSUME NEW i \in 1 .. m
      PROVE  Trim(ms)[i].uses = IF i < m THEN Trim(ms)[i + 1].results ELSE {}
  <2>1. CASE i < m
    <3>1. i + 1 \in 1 .. m
      BY <1>2, <2>1
    <3> QED BY <1>1, <1>4, <2>1, <3>1
  <2>2. CASE ~(i < m)
    BY <1>1, <1>3, <2>2
  <2> QED BY <2>1, <2>2
<1>7. m > 0 => Trim(ms)[1].results = {}
  BY <1>1, <1>2, <1>5
<1>8. \A i \in 1 .. m : Trim(ms)[i].uses \ {} = Trim(ms)[i].uses
  OBVIOUS
<1> QED BY <1>1, <1>6, <1>7, <1>8 DEF Paired, PairedBut

\* A conversation that is owed nothing is paired.
LEMMA OwingNothing ==
    ASSUME NEW ms \in Seq(Message), ms # <<>>, NEW X
    PROVE  Owing(ms, {}, X) <=> PairedBut(ms, X)
<1> DEFINE n == Len(ms)
<1>1. n \in Nat /\ n > 0
  OBVIOUS
<1> HIDE DEF n
<1>2. ASSUME Owing(ms, {}, X) PROVE PairedBut(ms, X)
  <2>1. /\ ms[1].results = {} /\ \A i \in 1 .. n - 2 : ms[i].uses \ X = ms[i + 1].results
        /\ ms[n].uses \ X = {}
        /\ n > 1 => ms[n - 1].uses \ X = ms[n].results
    BY <1>2 DEF Owing, n
  <2>2. ASSUME NEW i \in 1 .. n
        PROVE  ms[i].uses \ X = IF i < n THEN ms[i + 1].results ELSE {}
    <3>1. CASE i \in 1 .. n - 2
      <4>1. i < n
        BY <1>1, <3>1
      <4>2. ms[i].uses \ X = ms[i + 1].results
        BY <2>1, <3>1
      <4> QED BY <1>1, <4>1, <4>2
    <3>2. CASE i = n - 1
      <4>1. n > 1 /\ i < n /\ i + 1 = n
        BY <1>1, <3>2
      <4> QED BY <2>1, <3>2, <4>1
    <3>3. CASE i = n
      <4>1. ~(i < n) /\ ms[i].uses \ X = {}
        BY <1>1, <2>1, <3>3
      <4> QED BY <4>1
    <3> QED BY <1>1, <3>1, <3>2, <3>3
  <2> QED BY <2>1, <2>2 DEF PairedBut, n
<1>3. ASSUME PairedBut(ms, X) PROVE Owing(ms, {}, X)
  <2>1. /\ \A i \in 1 .. n : ms[i].uses \ X = IF i < n THEN ms[i + 1].results ELSE {}
        /\ ms[1].results = {}
    BY <1>1, <1>3 DEF PairedBut, n
  <2>2. \A i \in 1 .. n - 2 : ms[i].uses \ X = ms[i + 1].results
    BY <1>1, <2>1
  <2>3. ms[n].uses \ X = {}
    BY <1>1, <2>1
  <2>4. n > 1 => ms[n - 1].uses \ X = ms[n].results
    <3> SUFFICES ASSUME n > 1 PROVE ms[n - 1].uses \ X = ms[n].results
      OBVIOUS
    <3>1. n - 1 \in 1 .. n /\ n - 1 < n /\ (n - 1) + 1 = n
      BY <1>1
    <3> QED BY <2>1, <3>1
  <2>5. n = 1 => ms[n].results = {}
    BY <2>1
  <2>6. n = 1 \/ n > 1
    BY <1>1
  <2> QED BY <1>1, <2>1, <2>2, <2>3, <2>4, <2>5, <2>6 DEF Owing, n
<1> QED BY <1>2, <1>3

\* What is owed calls, or nothing, has no result without its call.
LEMMA OwingIsChained ==
    ASSUME NEW ms \in Seq(Message), NEW T, NEW X, Owing(ms, T, X)
    PROVE  Chained(ms)
<1> DEFINE n == Len(ms)
<1>1. n \in Nat
  OBVIOUS
<1>2. /\ ms[1].results = {} /\ \A i \in 1 .. n - 2 : ms[i].uses \ X = ms[i + 1].results
      /\ n > 1 => ms[n].results \subseteq ms[n - 1].uses \ X
  BY DEF Owing
<1> HIDE DEF n
<1>3. ASSUME NEW i \in 1 .. n, NEW id \in ms[i].results PROVE i > 1 /\ id \in ms[i - 1].uses
  <2>1. i > 1
    BY <1>1, <1>2, <1>3
  <2>2. CASE i = n
    BY <1>2, <1>3, <2>1, <2>2
  <2>3. CASE i # n
    <3>1. i - 1 \in 1 .. n - 2 /\ (i - 1) + 1 = i
      BY <1>1, <2>1, <2>3
    <3> QED BY <1>2, <1>3, <2>1, <3>1
  <2> QED BY <2>2, <2>3
<1> QED BY <1>3 DEF Chained, n

LEMMA PairedIsChained ==
    ASSUME NEW ms \in Seq(Message), NEW X, PairedBut(ms, X)
    PROVE  Chained(ms)
<1>1. CASE ms = <<>>
  BY <1>1 DEF Chained
<1>2. CASE ms # <<>>
  BY <1>2, OwingNothing, OwingIsChained
<1> QED BY <1>1, <1>2

\* A reply leaves a paired conversation owing its calls, but for those in X.
LEMMA ReplyOwes ==
    ASSUME NEW ms \in Seq(Message), NEW X, PairedBut(ms, X), NEW S \in SUBSET CallId
    PROVE  Owing(ms \o <<Reply(S)>>, S \ X, X)
<1> DEFINE z == ms \o <<Reply(S)>>
<1> DEFINE n == Len(ms)
<1>1. <<Reply(S)>> \in Seq(Message) /\ Len(<<Reply(S)>>) = 1 /\ <<Reply(S)>>[1] = Reply(S)
  BY MessageTypes
<1>2. Len(z) = n + 1 /\ n \in Nat /\ (\A i \in 1 .. n : z[i] = ms[i]) /\ z[n + 1] = Reply(S)
  <2> HIDE DEF z
  <2>1. 1 \in 1 .. 1
    OBVIOUS
  <2> QED BY <1>1, <2>1, Joined DEF z
<1>3. Reply(S).uses = S /\ Reply(S).results = {}
  BY DEF Reply
<1>4. /\ \A i \in 1 .. n : ms[i].uses \ X = IF i < n THEN ms[i + 1].results ELSE {}
      /\ n > 0 => ms[1].results = {}
  BY DEF PairedBut
<1> HIDE DEF z, n
<1>5. z[1].results = {}
  BY <1>2, <1>3, <1>4
<1>6. ASSUME NEW i \in 1 .. (n + 1) - 2 PROVE z[i].uses \ X = z[i + 1].results
  <2>1. i \in 1 .. n /\ i + 1 \in 1 .. n /\ i < n
    BY <1>2
  <2> QED BY <1>2, <1>4, <2>1
<1>7. n + 1 > 1 => z[(n + 1) - 1].uses \ X = {}
  <2> SUFFICES ASSUME n + 1 > 1 PROVE z[(n + 1) - 1].uses \ X = {}
    OBVIOUS
  <2>1. n \in 1 .. n /\ ~(n < n) /\ (n + 1) - 1 = n
    BY <1>2
  <2> QED BY <1>2, <1>4, <2>1
<1>8. n + 1 > 0
  BY <1>2
<1>9. Owing(z, S \ X, X)
  BY <1>2, <1>3, <1>5, <1>6, <1>7, <1>8 DEF Owing
<1> QED BY <1>9 DEF z

\* Calls a conversation does not make can be excepted as well.
LEMMA ExceptMore ==
    ASSUME NEW ms, NEW X, PairedBut(ms, X), NEW S, Calls(ms) \cap S = {}
    PROVE  PairedBut(ms, X \cup S)
<1>1. ASSUME NEW i \in 1 .. Len(ms) PROVE ms[i].uses \ (X \cup S) = ms[i].uses \ X
  BY DEF Calls
<1> QED BY <1>1 DEF PairedBut

\* The result of a call pays it; all calls stay as they were.
LEMMA ResultPays ==
    ASSUME NEW ms \in Seq(Message), ms # <<>>, NEW id \in CallId
    PROVE  /\ \A T, X : Owing(ms, T \cup {id}, X) => Owing(AddResult(ms, id), T, X)
           /\ Calls(AddResult(ms, id)) = Calls(ms)
           /\ Once(ms) => Once(AddResult(ms, id))
<1> DEFINE n == Len(ms)
<1> DEFINE z == AddResult(ms, id)
<1>1. n \in Nat /\ n > 0 /\ \A i \in 1 .. n : ms[i] \in Message
  OBVIOUS
<1>2. CASE ms[n].results # {}
  <2> DEFINE e == [ms[n] EXCEPT !.results = ms[n].results \cup {id}]
  <2>1. e \in Message /\ e.uses = ms[n].uses /\ e.results = ms[n].results \cup {id}
    BY <1>1, n \in 1 .. n DEF Message
  <2>2. z = [ms EXCEPT ![n] = e]
    BY <1>2 DEF AddResult
  <2> HIDE DEF e
  <2>3. Len(z) = n /\ \A i \in 1 .. n : z[i] = IF i = n THEN e ELSE ms[i]
    BY <1>1, <2>1, <2>2, ExceptSeq
  <2> HIDE DEF z, n
  <2>4. \A i \in 1 .. n : z[i].uses = ms[i].uses
    BY <2>1, <2>3
  <2>5. \A i \in 1 .. n - 1 : z[i].results = ms[i].results
    BY <1>1, <2>3
  <2>6. z[n].results = ms[n].results \cup {id} /\ z[n].results # {} /\ n \in 1 .. n
    <3>1. n \in 1 .. n
      BY <1>1
    <3>2. z[n] = e
      BY <2>3, <3>1
    <3> QED BY <2>1, <3>1, <3>2
  <2>7. ASSUME NEW T, NEW X, Owing(ms, T \cup {id}, X) PROVE Owing(z, T, X)
    <3>1. /\ ms[1].results = {} /\ \A i \in 1 .. n - 2 : ms[i].uses \ X = ms[i + 1].results
          /\ n > 1 /\ ms[n].uses \ X = {} /\ ms[n - 1].uses \ X = ms[n].results \cup (T \cup {id})
      BY <1>2, <2>7 DEF Owing, n
    <3>2. z[1].results = {}
      BY <1>1, <2>5, <3>1
    <3>3. ASSUME NEW i \in 1 .. n - 2 PROVE z[i].uses \ X = z[i + 1].results
      <4>1. i \in 1 .. n /\ i + 1 \in 1 .. n - 1
        BY <1>1
      <4> QED BY <2>4, <2>5, <3>1, <4>1
    <3>4. z[n].uses \ X = {} /\ z[n - 1].uses \ X = z[n].results \cup T
      <4>1. n - 1 \in 1 .. n
        BY <1>1, <3>1
      <4> QED BY <2>4, <2>6, <3>1, <4>1
    <3> QED BY <1>1, <2>3, <2>6, <3>1, <3>2, <3>3, <3>4 DEF Owing
  <2>8. Calls(z) = Calls(ms)
    BY <2>3, <2>4 DEF Calls, n
  <2>9. Once(ms) => Once(z)
    BY <2>3, <2>4 DEF Once, n
  <2> QED BY <2>7, <2>8, <2>9 DEF z
<1>3. CASE ms[n].results = {}
  <2> DEFINE r == <<Result({id})>>
  <2>1. /\ r \in Seq(Message) /\ Len(r) = 1 /\ r[1] = Result({id})
        /\ Result({id}).uses = {} /\ Result({id}).results = {id}
    BY Bounds DEF Result, Message
  <2>2. z = ms \o r
    <3>1. Result({id}) \in Message
      BY Bounds DEF Result, Message
    <3>2. z = Append(ms, Result({id}))
      BY <1>3 DEF AddResult
    <3> QED BY <3>1, <3>2, AppendIsConcat
  <2> HIDE DEF r
  <2>3. Len(z) = n + 1 /\ (\A i \in 1 .. n : z[i] = ms[i]) /\ z[n + 1] = Result({id})
    <3>1. 1 \in 1 .. Len(r)
      BY <2>1
    <3>2. /\ Len(ms \o r) = Len(ms) + Len(r)
          /\ \A i \in 1 .. Len(ms) : (ms \o r)[i] = ms[i]
          /\ (ms \o r)[Len(ms) + 1] = r[1]
      <4>1. ms \in Seq(Message) /\ r \in Seq(Message)
        BY <2>1
      <4> HIDE DEF z, n
      <4>2. /\ Len(ms \o r) = Len(ms) + Len(r)
            /\ \A i \in 1 .. Len(ms) : (ms \o r)[i] = ms[i]
            /\ \A i \in 1 .. Len(r) : (ms \o r)[Len(ms) + i] = r[i]
        BY <4>1, Joined
      <4> QED BY <3>1, <4>2
    <3> HIDE DEF z
    <3> QED BY <2>1, <2>2, <3>2
  <2>4. Calls(r) = {} /\ Once(r)
    <3>1. ASSUME NEW i \in 1 .. Len(r) PROVE r[i].uses = {}
      <4>1. i = 1
        BY <2>1
      <4> QED BY <2>1, <4>1
    <3> QED BY <3>1 DEF Calls, Once
  <2>5. Calls(z) = Calls(ms) /\ (Once(ms) => Once(z))
    <3>1. /\ Calls(ms \o r) = Calls(ms) \cup Calls(r)
          /\ Once(ms) /\ Once(r) /\ Calls(ms) \cap Calls(r) = {} => Once(ms \o r)
      BY <2>1, CallsJoin
    <3> HIDE DEF z
    <3> QED BY <2>2, <2>4, <3>1
  <2> HIDE DEF z, n
  <2>6. ASSUME NEW T, NEW X, Owing(ms, T \cup {id}, X) PROVE Owing(z, T, X)
    <3>1. /\ ms[1].results = {} /\ \A i \in 1 .. n - 2 : ms[i].uses \ X = ms[i + 1].results
          /\ ms[n].uses \ X = T \cup {id}
          /\ n > 1 => ms[n - 1].uses \ X = {}
      BY <1>3, <2>6 DEF Owing, n
    <3>2. z[1].results = {}
      BY <1>1, <2>3, <3>1
    <3>3. ASSUME NEW i \in 1 .. (n + 1) - 2 PROVE z[i].uses \ X = z[i + 1].results
      <4>1. i \in 1 .. n /\ i + 1 \in 1 .. n
        BY <1>1
      <4>2. CASE i \in 1 .. n - 2
        BY <2>3, <3>1, <4>1, <4>2
      <4>3. CASE i = n - 1
        <5>1. n > 1 /\ i + 1 = n
          BY <1>1, <4>3
        <5> QED BY <1>3, <2>3, <3>1, <4>1, <4>3, <5>1
      <4> QED BY <1>1, <4>2, <4>3
    <3>4. /\ n + 1 > 1 /\ n + 1 > 0 /\ z[n + 1].results # {} /\ z[n + 1].uses \ X = {}
          /\ z[(n + 1) - 1].uses \ X = z[n + 1].results \cup T
      <4>1. n \in 1 .. n /\ (n + 1) - 1 = n /\ n + 1 > 1 /\ n + 1 > 0
        BY <1>1
      <4> QED BY <2>1, <2>3, <3>1, <4>1
    <3> QED BY <2>3, <3>2, <3>3, <3>4 DEF Owing
  <2> QED BY <2>5, <2>6 DEF z
<1> QED BY <1>2, <1>3

\* The calls of the response that are still to run.
Left == {todo[i] : i \in DOMAIN todo}

InRun == pc \in {"planning", "acting", "compacting", "finishing"}

\* Between two steps output and context are paired but for the calls the loop
\* has passed over; inside one they are owed the calls that are left.
Pairing ==
    /\ pc \in {"planning", "compacting"} =>
          PairedBut(produced, skipped) /\ (folded \/ PairedBut(messages, skipped))
    /\ pc = "acting" =>
          Owing(produced, Left, skipped) /\ (folded \/ Owing(messages, Left, skipped))
    /\ Chained(produced)
    /\ skipped \subseteq 1 .. issued
    /\ folded \/ ~InRun \/ Calls(messages) \subseteq 1 .. issued

\* Calls are made once, whether their run has been written or not; and the
\* thread has no result without its call.
Threaded ==
    /\ Once(produced) /\ Calls(produced) \subseteq 1 .. issued
    /\ ~folded => Chained(thread) /\ Once(thread) /\ Calls(thread) \subseteq 1 .. issued
    /\ ~folded /\ InRun => Calls(thread) \cap Calls(produced) = {}

\* The thread ends with the message the run is for, and the run was started on
\* what could be sent of the thread.
Opened ==
    InRun =>
        /\ thread # <<>> /\ thread[Len(thread)] = Prompt(turn)
        /\ ~compacted => messages = Trim(thread) \o produced /\ prefill_len = Len(Trim(thread))

SInv == IInv /\ Pairing /\ Threaded /\ Opened

\* Nothing is wrong with an empty conversation, a prompt or a summary.
LEMMA Harmless ==
    /\ (\A X : PairedBut(<<>>, X)) /\ Chained(<<>>) /\ Once(<<>>) /\ Calls(<<>>) = {}
    /\ \A n : Chained(<<Prompt(n)>>) /\ Once(<<Prompt(n)>>) /\ Calls(<<Prompt(n)>>) = {}
    /\ (\A X : PairedBut(Summarised, X)) /\ Chained(Summarised) /\ Once(Summarised) /\ Calls(Summarised) = {}
<1>1. (\A X : PairedBut(<<>>, X)) /\ Chained(<<>>) /\ Once(<<>>) /\ Calls(<<>>) = {}
  BY DEF PairedBut, Chained, Once, Calls
<1>2. ASSUME NEW ms, NEW k \in Nat, Len(ms) = k,
             \A i \in 1 .. k : ms[i].uses = {} /\ ms[i].results = {}
      PROVE  (\A X : PairedBut(ms, X)) /\ Chained(ms) /\ Once(ms) /\ Calls(ms) = {}
  <2>1. ASSUME NEW X PROVE PairedBut(ms, X)
    <3>1. ASSUME NEW i \in 1 .. k PROVE ms[i].uses \ X = IF i < k THEN ms[i + 1].results ELSE {}
      <4>1. i < k => i + 1 \in 1 .. k
        OBVIOUS
      <4> QED BY <1>2, <4>1
    <3>2. k > 0 => ms[1].results = {}
      BY <1>2
    <3> QED BY <1>2, <3>1, <3>2 DEF PairedBut
  <2>2. Chained(ms) /\ Once(ms) /\ Calls(ms) = {}
    BY <1>2 DEF Chained, Once, Calls
  <2> QED BY <2>1, <2>2
<1>3. ASSUME NEW n PROVE Chained(<<Prompt(n)>>) /\ Once(<<Prompt(n)>>) /\ Calls(<<Prompt(n)>>) = {}
  <2> DEFINE ms == <<Prompt(n)>>
  <2>1. Len(ms) = 1 /\ \A i \in 1 .. 1 : ms[i].uses = {} /\ ms[i].results = {}
    BY DEF Prompt
  <2> HIDE DEF ms
  <2>2. Chained(ms) /\ Once(ms) /\ Calls(ms) = {}
    BY <1>2, <2>1
  <2> QED BY <2>2 DEF ms
<1>4. (\A X : PairedBut(Summarised, X)) /\ Chained(Summarised) /\ Once(Summarised) /\ Calls(Summarised) = {}
  <2>1. Len(Summarised) = 2 /\ \A i \in 1 .. 2 : Summarised[i].uses = {} /\ Summarised[i].results = {}
    <3>1. /\ Len(Summarised) = 2
          /\ Summarised[1].uses = {} /\ Summarised[1].results = {}
          /\ Summarised[2].uses = {} /\ Summarised[2].results = {}
      BY DEF Summarised, Reply
    <3>2. \A i \in 1 .. 2 : i = 1 \/ i = 2
      OBVIOUS
    <3> QED BY <3>1, <3>2
  <2> QED BY <1>2, <2>1
<1> QED BY <1>1, <1>3, <1>4

LEMMA SInitInv == Init => SInv
<1> SUFFICES ASSUME Init PROVE SInv
  OBVIOUS
<1>1. IInv
  BY InitInv
<1>2. Pairing /\ Threaded /\ Opened
  BY Harmless DEF Init, Pairing, Threaded, Opened, InRun
<1> QED BY <1>1, <1>2 DEF SInv

\* Trimming makes no calls.
LEMMA TrimCalls ==
    ASSUME NEW ms \in Seq(Message)
    PROVE  Calls(Trim(ms)) \subseteq Calls(ms)
<1>1. PICK m \in 0 .. Len(ms) :
          Len(Trim(ms)) = m /\ \A i \in 1 .. m : Trim(ms)[i] = ms[i]
  BY TrimIsPrefix
<1>2. ASSUME NEW i \in 1 .. m PROVE i \in 1 .. Len(ms)
  OBVIOUS
<1> QED BY <1>1, <1>2 DEF Calls

\* A run starts on a history that is paired, whatever earlier runs have left
\* in the thread.
LEMMA TakeMessagePairs ==
    ASSUME SInv, TakeMessage
    PROVE  Pairing' /\ Threaded' /\ Opened'
<1> DEFINE prompt == Prompt(turn + 1)
<1>1. /\ thread' = Append(thread, prompt) /\ messages' = Trim(thread')
      /\ prefill_len' = Len(Trim(thread')) /\ turn' = turn + 1
      /\ pc' = "planning" /\ produced' = <<>> /\ skipped' = {}
      /\ UNCHANGED <<issued, folded>>
  BY DEF TakeMessage, StartTurn
<1>2. prompt \in Message /\ thread \in Seq(Message)
  <2>1. turn + 1 \in 0 .. MaxTurns
    BY Bounds DEF SInv, IInv, TypeOK, TakeMessage, StartTurn
  <2> QED BY <2>1, MessageTypes DEF SInv, IInv, TypeOK
<1>3. Chained(<<prompt>>) /\ Once(<<prompt>>) /\ Calls(<<prompt>>) = {} /\ prompt = Prompt(turn')
  BY <1>1, Harmless
<1> HIDE DEF prompt
<1>4. /\ thread' \in Seq(Message) /\ thread' = thread \o <<prompt>> /\ <<prompt>> \in Seq(Message)
      /\ thread' # <<>> /\ thread'[Len(thread')] = prompt
  BY <1>1, <1>2, AppendProperties, AppendIsConcat
<1>5. ASSUME ~folded
      PROVE  Chained(thread') /\ Once(thread') /\ Calls(thread') \subseteq 1 .. issued
  <2>1. Chained(thread) /\ Once(thread) /\ Calls(thread) \subseteq 1 .. issued
    BY <1>5 DEF SInv, Threaded
  <2>2. Chained(thread \o <<prompt>>)
    BY <1>2, <1>3, <1>4, <2>1, ChainedJoin
  <2>3. /\ Calls(thread \o <<prompt>>) = Calls(thread) \cup Calls(<<prompt>>)
        /\ Once(thread) /\ Once(<<prompt>>) /\ Calls(thread) \cap Calls(<<prompt>>) = {}
              => Once(thread \o <<prompt>>)
    BY <1>2, <1>4, CallsJoin
  <2> QED BY <1>3, <1>4, <2>1, <2>2, <2>3
<1>6. folded \/ Paired(messages')
  BY <1>1, <1>4, <1>5, TrimIsPaired
<1>7. Pairing'
  <2>1. folded \/ Calls(messages') \subseteq 1 .. issued
    BY <1>1, <1>4, <1>5, TrimCalls
  <2> QED BY <1>1, <1>6, <2>1, Harmless DEF Pairing, Paired
<1>8. Threaded'
  BY <1>1, <1>5, Harmless DEF Threaded
<1>9. Opened'
  <2>1. Trim(thread') \o <<>> = Trim(thread')
    BY <1>4, TrimType, ConcatEmptySeq
  <2> QED BY <1>1, <1>3, <1>4, <2>1 DEF Opened
<1> QED BY <1>7, <1>8, <1>9

\* The new calls of a response are new.
LEMMA RespondPairs ==
    ASSUME SInv, NEW n \in 0 .. MaxPerReply, NEW stop, Respond(n, stop)
    PROVE  Pairing' /\ Threaded' /\ Opened'
<1> DEFINE ids  == issued + 1 .. issued + n
           both == stop = "max_tokens" /\ n > 0
           said == IF both THEN <<Reply(ids), Result(ids)>> ELSE <<Reply(ids)>>
<1>1. n \in Nat /\ issued \in Nat /\ issued + n \in 0 .. MaxCalls /\ pc = "planning"
  BY Bounds DEF SInv, IInv, TypeOK, Respond
<1>2. /\ ids \in SUBSET CallId /\ (n = 0 => ids = {}) /\ ids \cap 1 .. issued = {}
      /\ 1 .. issued \subseteq 1 .. issued + n /\ ids \subseteq 1 .. issued + n
  BY <1>1, Bounds DEF CallId
<1>3. /\ issued' = issued + n
      /\ messages' = messages \o said /\ produced' = produced \o said
      /\ skipped' = IF stop \in {"tool_use", "max_tokens"} THEN skipped ELSE skipped \cup ids
      /\ UNCHANGED <<thread, turn, prefill_len, compacted, folded>>
      /\ \/ /\ stop = "tool_use" /\ n > 0 /\ todo' = [i \in 1 .. n |-> issued + i]
            /\ pc' = "acting"
         \/ /\ ~(stop = "tool_use" /\ n > 0)
            /\ pc' \in {"planning", "compacting", "finishing"}
  BY DEF Respond, storeVars, EndStep
<1>4. messages \in Seq(Message) /\ produced \in Seq(Message) /\ thread \in Seq(Message)
  BY DEF SInv, IInv, TypeOK
<1>5. ASSUME NEW S \in SUBSET CallId
      PROVE  /\ <<Reply(S)>> \in Seq(Message) /\ Once(<<Reply(S)>>) /\ Calls(<<Reply(S)>>) = S
             /\ <<Reply(S), Result(S)>> \in Seq(Message)
             /\ Once(<<Reply(S), Result(S)>>) /\ Calls(<<Reply(S), Result(S)>>) = S
             /\ \A X : \A ms \in Seq(Message) : PairedBut(ms, X) /\ S \cap X = {}
                    => PairedBut(ms \o <<Reply(S), Result(S)>>, X)
  <2> DEFINE one == <<Reply(S)>>
             two == <<Reply(S), Result(S)>>
  <2>1. Reply(S) \in Message /\ Result(S) \in Message
    BY MessageTypes
  <2>2. /\ Len(one) = 1 /\ one[1].uses = S /\ Len(two) = 2 /\ two[1].uses = S /\ two[1].results = {}
        /\ two[2].uses = {} /\ two[2].results = S
    BY DEF Reply, Result
  <2>3. one \in Seq(Message) /\ two \in Seq(Message)
    BY <2>1
  <2> HIDE DEF one, two
  <2>4. \A i \in 1 .. 1 : i = 1
    OBVIOUS
  <2>5. \A i \in 1 .. 2 : i = 1 \/ i = 2
    OBVIOUS
  <2>6. Once(one) /\ Calls(one) = S
    BY <2>2, <2>4, 1 \in 1 .. 1 DEF Once, Calls
  <2>7. Once(two) /\ Calls(two) = S
    BY <2>2, <2>5, 1 \in 1 .. 2 DEF Once, Calls
  <2>8. ASSUME NEW ms \in Seq(Message), NEW X, PairedBut(ms, X), S \cap X = {}
        PROVE  PairedBut(ms \o two, X)
    <3> DEFINE z == ms \o two
               l == Len(ms)
    <3>1. /\ Len(z) = l + 2 /\ l \in Nat /\ (\A i \in 1 .. l : z[i] = ms[i])
          /\ z[l + 1] = two[1] /\ z[l + 2] = two[2]
      <4>1. /\ Len(ms \o two) = Len(ms) + Len(two) /\ Len(ms) \in Nat
            /\ \A i \in 1 .. Len(ms) : (ms \o two)[i] = ms[i]
            /\ \A i \in 1 .. Len(two) : (ms \o two)[Len(ms) + i] = two[i]
        BY <2>3, Joined
      <4>2. 1 \in 1 .. Len(two) /\ 2 \in 1 .. Len(two)
        BY <2>2
      <4> QED BY <2>2, <4>1, <4>2
    <3>2. /\ \A i \in 1 .. l : ms[i].uses \ X = IF i < l THEN ms[i + 1].results ELSE {}
          /\ l > 0 => ms[1].results = {}
      BY <2>8 DEF PairedBut
    <3> HIDE DEF z, l
    <3>3. ASSUME NEW i \in 1 .. l + 2
          PROVE  z[i].uses \ X = IF i < l + 2 THEN z[i + 1].results ELSE {}
      <4>1. CASE i \in 1 .. l /\ i < l
        <5>1. i + 1 \in 1 .. l /\ i < l + 2
          BY <3>1, <4>1
        <5> QED BY <3>1, <3>2, <4>1, <5>1
      <4>2. CASE i = l
        <5>1. l \in 1 .. l /\ ~(l < l) /\ l < l + 2
          BY <3>1, <4>2
        <5>2. z[l].uses \ X = {} /\ z[l + 1].results = {}
          BY <2>2, <3>1, <3>2, <5>1
        <5> QED BY <4>2, <5>1, <5>2
      <4>3. CASE i = l + 1
        <5>1. l + 1 < l + 2 /\ (l + 1) + 1 = l + 2
          BY <3>1
        <5>2. z[l + 1].uses \ X = S /\ z[l + 2].results = S
          BY <2>2, <2>8, <3>1
        <5> QED BY <4>3, <5>1, <5>2
      <4>4. CASE i = l + 2
        <5>1. ~(l + 2 < l + 2) /\ z[l + 2].uses \ X = {}
          BY <2>2, <3>1
        <5> QED BY <4>4, <5>1
      <4> QED BY <3>1, <4>1, <4>2, <4>3, <4>4
    <3>4. z[1].results = {}
      <4>1. CASE l = 0
        BY <2>2, <3>1, <4>1
      <4>2. CASE l > 0
        BY <3>1, <3>2, <4>2
      <4> QED BY <3>1, <4>1, <4>2
    <3>5. PairedBut(z, X)
      BY <3>1, <3>3, <3>4 DEF PairedBut
    <3> QED BY <3>5 DEF z
  <2> QED BY <2>3, <2>6, <2>7, <2>8 DEF one, two
<1> HIDE DEF ids, both
<1>6. said \in Seq(Message) /\ Once(said) /\ Calls(said) = ids
  BY <1>2, <1>5
<1>6a. /\ skipped \subseteq 1 .. issued /\ ids \cap skipped = {}
       /\ stop \in {"tool_use", "max_tokens"} => skipped' = skipped /\ ids \ skipped' = ids
       /\ stop \notin {"tool_use", "max_tokens"} => ids \ skipped' = {}
       /\ skipped' \in {skipped, skipped \cup ids} /\ skipped' \subseteq 1 .. issued'
  <2>1. skipped \subseteq 1 .. issued
    BY DEF SInv, Pairing
  <2> HIDE DEF said
  <2> QED BY <1>2, <1>3, <2>1
<1>7. ASSUME NEW ms \in Seq(Message), PairedBut(ms, skipped), Calls(ms) \subseteq 1 .. issued
      PROVE  /\ stop = "tool_use" /\ n > 0 => Owing(ms \o said, ids, skipped')
             /\ ~(stop = "tool_use" /\ n > 0) => PairedBut(ms \o said, skipped')
  <2>1. CASE both
    <3>1. skipped' = skipped /\ said = <<Reply(ids), Result(ids)>>
      BY <1>6a, <2>1 DEF both
    <3>2. PairedBut(ms \o said, skipped)
      BY <1>2, <1>5, <1>6a, <1>7, <3>1
    <3> QED BY <2>1, <3>1, <3>2 DEF both
  <2>2. CASE ~both
    <3>0. PairedBut(ms, skipped')
      <4>1. Calls(ms) \cap ids = {}
        BY <1>2, <1>7
      <4>2. PairedBut(ms, skipped \cup ids)
        BY <1>7, <4>1, ExceptMore
      <4> QED BY <1>6a, <1>7, <4>2
    <3>1. Owing(ms \o said, ids \ skipped', skipped')
      BY <1>2, <2>2, <3>0, ReplyOwes
    <3>2. ~(stop = "tool_use" /\ n > 0) => ids \ skipped' = {}
      BY <1>1, <1>2, <1>6a, <2>2 DEF both
    <3>3. ms \o said \in Seq(Message) /\ ms \o said # <<>>
      <4>1. Owing(ms \o said, ids \ skipped', skipped') => Len(ms \o said) > 0
        BY DEF Owing
      <4>2. ms \o said \in Seq(Message)
        BY <1>6, Joined
      <4> HIDE DEF said
      <4> QED BY <3>1, <4>1, <4>2
    <3>4. ids \ skipped' = {} => PairedBut(ms \o said, skipped')
      <4> HIDE DEF said
      <4> QED BY <3>1, <3>3, OwingNothing
    <3>5. stop = "tool_use" => ids \ skipped' = ids
      BY <1>6a
    <3> QED BY <3>1, <3>2, <3>4, <3>5
  <2> QED BY <2>1, <2>2
<1> HIDE DEF said
<1>8. /\ PairedBut(produced, skipped) /\ Calls(produced) \subseteq 1 .. issued
      /\ folded \/ (PairedBut(messages, skipped) /\ Calls(messages) \subseteq 1 .. issued)
  BY <1>1 DEF SInv, Pairing, Threaded, InRun
<1>9. produced' \in Seq(Message)
  BY <1>3, <1>4, <1>6, Joined
<1>10. Chained(produced')
  BY <1>3, <1>4, <1>7, <1>8, <1>9, OwingIsChained, PairedIsChained
<1>10a. folded \/ Calls(messages') \subseteq 1 .. issued'
  <2>1. Calls(messages \o said) = Calls(messages) \cup Calls(said)
    BY <1>4, <1>6, CallsJoin
  <2> QED BY <1>2, <1>3, <1>6, <1>8, <2>1
<1>11. Pairing'
  <2>1. CASE /\ stop = "tool_use" /\ n > 0 /\ todo' = [i \in 1 .. n |-> issued + i]
             /\ pc' = "acting"
    <3>1. Left' = ids
      <4>1. Left' = {issued + i : i \in 1 .. n}
        BY <2>1 DEF Left
      <4>2. ASSUME NEW k \in ids PROVE k \in {issued + i : i \in 1 .. n}
        <5>1. k - issued \in 1 .. n /\ k = issued + (k - issued)
          BY <1>1, <4>2 DEF ids
        <5> QED BY <5>1
      <4>3. \A i \in 1 .. n : issued + i \in ids
        BY <1>1 DEF ids
      <4> QED BY <4>1, <4>2, <4>3
    <3>2. Owing(produced', ids, skipped') /\ (folded \/ Owing(messages', ids, skipped'))
      BY <1>3, <1>4, <1>7, <1>8, <2>1
    <3> QED BY <1>3, <1>6a, <1>10, <1>10a, <2>1, <3>1, <3>2 DEF Pairing
  <2>2. CASE /\ ~(stop = "tool_use" /\ n > 0)
             /\ pc' \in {"planning", "compacting", "finishing"}
    <3>1. PairedBut(produced', skipped') /\ (folded \/ PairedBut(messages', skipped'))
      BY <1>3, <1>4, <1>7, <1>8, <2>2
    <3> QED BY <1>3, <1>6a, <1>10, <1>10a, <2>2, <3>1 DEF Pairing
  <2> QED BY <1>3, <2>1, <2>2
<1>12. Threaded'
  <2>1. Once(produced) /\ Calls(produced) \subseteq 1 .. issued
    BY DEF SInv, Threaded
  <2>2. /\ Calls(produced') = Calls(produced) \cup ids
        /\ Once(produced) /\ Once(said) /\ Calls(produced) \cap ids = {} => Once(produced')
    BY <1>3, <1>4, <1>6, CallsJoin
  <2>3. Once(produced') /\ Calls(produced') \subseteq 1 .. issued'
    BY <1>2, <1>3, <1>6, <2>1, <2>2
  <2>4. ASSUME ~folded
        PROVE  /\ Chained(thread) /\ Once(thread) /\ Calls(thread) \subseteq 1 .. issued'
               /\ Calls(thread) \cap Calls(produced') = {}
    <3>1. /\ Chained(thread) /\ Once(thread) /\ Calls(thread) \subseteq 1 .. issued
          /\ Calls(thread) \cap Calls(produced) = {}
      BY <1>1, <2>4 DEF SInv, Threaded, InRun
    <3> QED BY <1>2, <1>3, <2>2, <3>1
  <2> QED BY <1>3, <2>3, <2>4 DEF Threaded
<1>13. Opened'
  <2>1. /\ thread # <<>> /\ thread[Len(thread)] = Prompt(turn)
        /\ ~compacted => messages = Trim(thread) \o produced /\ prefill_len = Len(Trim(thread))
    BY <1>1 DEF SInv, Opened, InRun
  <2>2. (Trim(thread) \o produced) \o said = Trim(thread) \o (produced \o said)
    <3>1. Trim(thread) \in Seq(Message)
      BY <1>4, TrimType
    <3> QED BY <1>4, <1>6, <3>1, ConcatMessages, Zenon
  <2> QED BY <1>3, <2>1, <2>2 DEF Opened
<1> QED BY <1>11, <1>12, <1>13

\* A result pays the call it belongs to, in output and context alike.
LEMMA ToolReturnsPairs ==
    ASSUME SInv, ToolReturns
    PROVE  Pairing' /\ Threaded' /\ Opened'
<1> DEFINE id == Head(todo)
<1>1. /\ pc = "acting" /\ todo \in Seq(CallId) /\ todo # <<>>
      /\ messages \in Seq(Message) /\ messages # <<>>
      /\ produced \in Seq(Message) /\ produced # <<>> /\ thread \in Seq(Message)
  BY DEF ToolReturns, SInv, IInv, TypeOK, Acting
<1>2. id \in CallId /\ Tail(todo) \in Seq(CallId)
  BY <1>1
<1>3. /\ messages' = AddResult(messages, id) /\ produced' = AddResult(produced, id)
      /\ todo' = Tail(todo)
      /\ UNCHANGED <<thread, turn, prefill_len, issued, compacted, folded, skipped>>
      /\ \/ todo' = <<>> /\ pc' \in {"planning", "compacting", "finishing"}
         \/ todo' # <<>> /\ pc' = "acting"
  BY <1>1 DEF ToolReturns, storeVars, EndStep
<1>4. Left = Left' \cup {id}
  <2>1. /\ Len(todo) \in Nat \ {0} /\ Len(Tail(todo)) = Len(todo) - 1
        /\ \A i \in 1 .. Len(todo) - 1 : Tail(todo)[i] = todo[i + 1]
        /\ todo[1] = id /\ DOMAIN todo = 1 .. Len(todo)
        /\ DOMAIN Tail(todo) = 1 .. Len(todo) - 1
    BY <1>1
  <2>2. Left' = {Tail(todo)[i] : i \in 1 .. Len(todo) - 1} /\ Left = {todo[i] : i \in 1 .. Len(todo)}
    BY <1>3, <2>1 DEF Left
  <2> HIDE DEF id
  <2>3. ASSUME NEW i \in 1 .. Len(todo), i # 1 PROVE todo[i] \in Left'
    <3>1. i - 1 \in 1 .. Len(todo) - 1 /\ (i - 1) + 1 = i
      BY <2>1, <2>3
    <3> QED BY <2>1, <2>2, <3>1
  <2>4. ASSUME NEW i \in 1 .. Len(todo) - 1 PROVE Tail(todo)[i] \in Left
    <3>1. i + 1 \in 1 .. Len(todo)
      BY <2>1
    <3> QED BY <2>1, <2>2, <3>1
  <2>5. id \in Left
    BY <2>1, <2>2
  <2> QED BY <2>1, <2>2, <2>3, <2>4, <2>5
<1>5. todo' = <<>> => Left' = {}
  BY DEF Left
<1> HIDE DEF id
<1>6. Owing(produced', Left', skipped) /\ (folded \/ Owing(messages', Left', skipped))
  <2>1. /\ Owing(produced, Left' \cup {id}, skipped)
        /\ folded \/ Owing(messages, Left' \cup {id}, skipped)
    BY <1>1, <1>4 DEF SInv, Pairing
  <2> QED BY <1>1, <1>2, <1>3, <2>1, ResultPays
<1>7. produced' \in Seq(Message) /\ messages' \in Seq(Message) /\ produced' # <<>> /\ messages' # <<>>
  BY <1>1, <1>2, <1>3, AddResultType
<1>8. Chained(produced')
  BY <1>6, <1>7, OwingIsChained
<1>9. Pairing'
  <2>1. todo' = <<>> =>
            PairedBut(produced', skipped) /\ (folded \/ PairedBut(messages', skipped))
    BY <1>5, <1>6, <1>7, OwingNothing
  <2>2. folded \/ Calls(messages') \subseteq 1 .. issued
    <3>1. Calls(messages') = Calls(messages)
      BY <1>1, <1>2, <1>3, ResultPays
    <3> QED BY <1>1, <3>1 DEF SInv, Pairing, InRun
  <2>3. skipped \subseteq 1 .. issued
    BY DEF SInv, Pairing
  <2> QED BY <1>3, <1>6, <1>8, <2>1, <2>2, <2>3 DEF Pairing
<1>10. Calls(produced') = Calls(produced) /\ (Once(produced) => Once(produced'))
  BY <1>1, <1>2, <1>3, ResultPays
<1>11. Threaded'
  BY <1>1, <1>3, <1>10 DEF SInv, Threaded, InRun
<1>12. Opened'
  <2>1. /\ thread # <<>> /\ thread[Len(thread)] = Prompt(turn)
        /\ ~compacted => messages = Trim(thread) \o produced /\ prefill_len = Len(Trim(thread))
    BY <1>1 DEF SInv, Opened, InRun
  <2>2. AddResult(Trim(thread) \o produced, id) = Trim(thread) \o AddResult(produced, id)
    BY <1>1, <1>2, TrimType, AddResultConcat
  <2> QED BY <1>3, <2>1, <2>2 DEF Opened
<1> QED BY <1>9, <1>11, <1>12

\* A step that leaves thread, context and output as they are.
LEMMA AwaitPairs ==
    ASSUME SInv, UNCHANGED <<thread, turn, messages, prefill_len, issued, produced,
                             compacted, folded, skipped>>,
           InRun, pc' \in {"planning", "finishing", "down"},
           pc' = "planning" => pc = "compacting"
    PROVE  Pairing' /\ Threaded' /\ Opened'
BY DEF SInv, Pairing, Threaded, Opened, InRun

\* Output is written behind a thread that knows none of its calls.
LEMMA FinishPairs ==
    ASSUME SInv, Finish
    PROVE  Pairing' /\ Threaded' /\ Opened'
<1>1. /\ pc = "finishing" /\ folded' = (folded \/ compacted) /\ pc' \in {"idle", "down"}
      /\ UNCHANGED <<issued, produced, skipped>>
  BY DEF Finish
<1>2. thread \in Seq(Message) /\ produced \in Seq(Message)
  BY DEF SInv, IInv, TypeOK
<1>3. ASSUME ~folded'
      PROVE  Chained(thread') /\ Once(thread') /\ Calls(thread') \subseteq 1 .. issued
  <2>1. thread' = thread \o produced
    BY <1>1, <1>3, FinishStep DEF SInv
  <2>2. /\ Chained(thread) /\ Once(thread) /\ Calls(thread) \subseteq 1 .. issued
        /\ Chained(produced) /\ Once(produced) /\ Calls(produced) \subseteq 1 .. issued
        /\ Calls(thread) \cap Calls(produced) = {}
    BY <1>1, <1>3 DEF SInv, Pairing, Threaded, InRun
  <2> QED BY <1>2, <2>1, <2>2, ChainedJoin, CallsJoin
<1> QED BY <1>1, <1>3 DEF SInv, Pairing, Threaded, Opened, InRun

LEMMA SNextInv == SInv /\ [Next]_vars => SInv'
<1> SUFFICES ASSUME SInv, [Next]_vars PROVE SInv'
  OBVIOUS
<1>1. IInv'
  BY NextInv DEF SInv
<1>2. CASE TakeMessage
  BY <1>1, <1>2, TakeMessagePairs DEF SInv
<1>3. ASSUME NEW n \in 0 .. MaxPerReply, NEW stop \in Stop, Respond(n, stop)
      PROVE  SInv'
  BY <1>1, <1>3, RespondPairs DEF SInv
<1>4. CASE ToolReturns
  BY <1>1, <1>4, ToolReturnsPairs DEF SInv
<1>5. CASE PlanFails \/ CompactionSkipped \/ LoopRaises \/ Cancel \/ CancelledLate
  <2>1. /\ UNCHANGED <<thread, turn, messages, prefill_len, issued, produced, compacted, folded,
                       skipped>>
        /\ InRun /\ pc' \in {"planning", "finishing", "down"}
        /\ pc' = "planning" => pc = "compacting"
    BY <1>5
       DEF PlanFails, CompactionSkipped, LoopRaises, Cancel, CancelledLate, storeVars, InRun
  <2> QED BY <1>1, <2>1, AwaitPairs DEF SInv
<1>6. CASE Compacted
  <2>1. Pairing' /\ Threaded' /\ Opened'
    BY <1>6, Harmless DEF Compacted, storeVars, SInv, Pairing, Threaded, Opened, InRun
  <2> QED BY <1>1, <2>1 DEF SInv
<1>7. CASE Finish
  BY <1>1, <1>7, FinishPairs DEF SInv
<1>8. CASE CompactThread
  <2>1. Pairing' /\ Threaded' /\ Opened'
    BY <1>8, Harmless DEF CompactThread, runVars, SInv, Pairing, Threaded, Opened, InRun
  <2> QED BY <1>1, <2>1 DEF SInv
<1>9. CASE UNCHANGED vars
  <2>1. Pairing' /\ Threaded' /\ Opened'
    <3>1. Left' = Left
      BY <1>9 DEF vars, runVars, Left
    <3> QED BY <1>9, <3>1 DEF vars, storeVars, runVars, SInv, Pairing, Threaded, Opened, InRun
  <2> QED BY <1>1, <2>1 DEF SInv
<1> QED
  BY <1>2, <1>3, <1>4, <1>5, <1>6, <1>7, <1>8, <1>9 DEF Next

LEMMA PairingHolds == Spec => []SInv
BY SInitInv, SNextInv, PTL DEF Spec

\* Every request of every run is a conversation the API accepts, after cut-off
\* responses, step limits and runs that ended between two tools, but for calls
\* this run got with a stop reason the loop has no case for, and unless output
\* of a compacted run has been written (loop.py:80-109, store.py:111-130).
THEOREM RequestsArePaired == Spec => []RequestIsPaired
<1>1. SInv => RequestIsPaired
  BY DEF SInv, Pairing, RequestIsPaired
<1> QED BY <1>1, PairingHolds, PTL

\* The thread has no result without its call, however many runs have written
\* to it; trimming calls without results makes it readable (store.py:80-130).
THEOREM ThreadIsChained == Spec => []ResultsHaveCalls
<1>1. ASSUME SInv PROVE ResultsHaveCalls
  <2>1. ASSUME ~folded, NEW i \in 1 .. Len(thread), thread[i].results # {}
        PROVE  i > 1 /\ thread[i].results \subseteq thread[i - 1].uses
    BY <1>1, <2>1 DEF SInv, Threaded, Chained
  <2> QED BY <2>1 DEF ResultsHaveCalls
<1> QED BY <1>1, PairingHolds, PTL

\* A run has the message it was started for in its context until it compacts
\* it, unless the thread holds a call without result (manager.py, store.py:80).
THEOREM MessageIsAnswered == Spec => []AnswersItsMessage
<1>1. ASSUME SInv PROVE AnswersItsMessage
  <2> SUFFICES ASSUME pc \in {"planning", "acting"}, ~compacted, Open(thread, Len(thread)) = {}
               PROVE  \E i \in 1 .. prefill_len : messages[i] = Prompt(turn)
    BY DEF AnswersItsMessage
  <2>1. /\ thread # <<>> /\ thread[Len(thread)] = Prompt(turn)
        /\ messages = Trim(thread) \o produced /\ prefill_len = Len(Trim(thread))
    BY <1>1 DEF SInv, Opened, InRun
  <2>2. thread \in Seq(Message) /\ produced \in Seq(Message)
    BY <1>1 DEF SInv, IInv, TypeOK
  <2> DEFINE l == Len(thread)
  <2>3. l \in Nat /\ l > 0
    BY <2>1, <2>2
  <2>4. PICK m \in 0 .. l :
            /\ \A j \in 0 .. l : Open(thread, j) = {} => j <= m
            /\ Trim(thread) \in Seq(Message) /\ Len(Trim(thread)) = m
            /\ \A i \in 1 .. m : Trim(thread)[i] = thread[i]
    BY <2>2, TrimIsPrefix
  <2>5. m = l
    <3>1. l \in 0 .. l
      BY <2>3
    <3>2. l <= m
      BY <2>4, <3>1
    <3> QED BY <2>3, <3>2
  <2>6. l \in 1 .. prefill_len /\ Trim(thread)[l] = Prompt(turn)
    BY <2>1, <2>3, <2>4, <2>5
  <2>7. messages[l] = Trim(thread)[l]
    BY <2>1, <2>2, <2>4, <2>6, Joined
  <2> QED BY <2>6, <2>7
<1> QED BY <1>1, PairingHolds, PTL
=============================================================================
