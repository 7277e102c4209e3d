--------------------------- MODULE Clients_proofs ---------------------------
(***************************************************************************)
(* Theorems about Clients, for any number of messages, requests and        *)
(* connections.                                                            *)
(***************************************************************************)
EXTENDS Clients, FiniteSetTheorems, TLAPS

USE ClientsAssumption

-----------------------------------------------------------------------------
(* What the daemon sends *)

Msg == [type : {"ok", "error"}, of : Waiter]
       \cup [type : {"finished", "waiting", "closed"}, of : {None}]
       \cup [type : {"requested", "denied"}, of : Req]

Asks(q, i, r) == q[i].type = "requested" /\ q[i].of = r

\* The requests that no replay announces.
Fresh == Req \ ReplayReq

\* Nothing is asked in m but in a replay.
Harmless(m) ==
    m \in Seq(Msg) /\ \A i \in 1 .. Len(m) : m[i].type = "requested" => m[i].of \in ReplayReq

LEMMA HarmlessJoin ==
    ASSUME NEW m, NEW n, Harmless(m), Harmless(n)
    PROVE  Harmless(m \o n)
<1> USE DEF Harmless
<1>1. /\ m \o n \in Seq(Msg) /\ Len(m) \in Nat /\ Len(n) \in Nat
      /\ Len(m \o n) = Len(m) + Len(n)
      /\ \A i \in 1 .. Len(m) : (m \o n)[i] = m[i]
      /\ \A i \in Len(m) + 1 .. Len(m) + Len(n) : (m \o n)[i] = n[i - Len(m)]
  OBVIOUS
<1>2. ASSUME NEW i \in 1 .. Len(m \o n), (m \o n)[i].type = "requested"
      PROVE  (m \o n)[i].of \in ReplayReq
  <2>1. CASE i \in 1 .. Len(m)
    BY <1>1, <1>2, <2>1
  <2>2. CASE i \in Len(m) + 1 .. Len(m) + Len(n)
    <3>1. i - Len(m) \in 1 .. Len(n)
      BY <1>1, <2>2
    <3> QED BY <1>1, <1>2, <2>2, <3>1
  <2> QED BY <1>1, <2>1, <2>2
<1> QED BY <1>1, <1>2

LEMMA HarmlessMessages ==
    /\ Harmless(<<>>)
    /\ \A w \in Waiter, ok \in BOOLEAN : Harmless(Response(w, ok))
    /\ \A t \in {"finished", "waiting", "closed"} : Harmless(Event(t, None))
    /\ \A r \in Req : Harmless(Event("denied", r))
<1>1. Harmless(<<>>)
  BY DEF Harmless
<1>2. ASSUME NEW x \in Msg, x.type # "requested" PROVE Harmless(<<x>>)
  <2>1. <<x>> \in Seq(Msg) /\ Len(<<x>>) = 1 /\ <<x>>[1] = x
    OBVIOUS
  <2> QED BY <1>2, <2>1 DEF Harmless
<1>3. ASSUME NEW w \in Waiter, NEW ok \in BOOLEAN PROVE Harmless(Response(w, ok))
  <2> DEFINE x == [type |-> IF ok THEN "ok" ELSE "error", of |-> w]
  <2>1. x \in Msg /\ x.type # "requested"
    BY DEF Msg
  <2> HIDE DEF x
  <2>2. Harmless(<<x>>)
    BY <1>2, <2>1
  <2> QED BY <2>2 DEF Response, x
<1>4. ASSUME NEW t, NEW r, t # "requested", [type |-> t, of |-> r] \in Msg
      PROVE  Harmless(Event(t, r))
  <2> DEFINE x == [type |-> t, of |-> r]
  <2>1. x \in Msg /\ x.type # "requested"
    BY <1>4
  <2> HIDE DEF x
  <2>2. Harmless(<<x>>)
    BY <1>2, <2>1
  <2>3. Event(t, r) = <<x>> \/ Event(t, r) = <<>>
    BY DEF Event, x
  <2> QED BY <1>1, <2>2, <2>3
<1>5. /\ \A t \in {"finished", "waiting", "closed"} : [type |-> t, of |-> None] \in Msg
      /\ \A r \in Req : [type |-> "denied", of |-> r] \in Msg
  BY DEF Msg
<1>6. \A t \in {"finished", "waiting", "closed"} : Harmless(Event(t, None))
  BY <1>4, <1>5
<1>7. \A r \in Req : Harmless(Event("denied", r))
  BY <1>4, <1>5
<1> QED BY <1>1, <1>3, <1>6, <1>7

\* So is a replay, whatever its order.
LEMMA HarmlessReplay ==
    ASSUME NEW m \in Replays
    PROVE  Harmless(m)
<1>1. ReplayReq \subseteq Req /\ IsFiniteSet(ReplayReq)
  BY DEF Req
<1> DEFINE R == {r \in ReplayReq : asked[r] # "no"}
<1> DEFINE D == {r \in ReplayReq : asked[r] = "denied"}
<1> DEFINE A == [type : {"requested"}, of : R]
<1> DEFINE B == [type : {"denied"}, of : D]
<1>2. IsFiniteSet(A)
  <2> DEFINE g == [r \in R |-> [type |-> "requested", of |-> r]]
  <2>1. IsFiniteSet(R)
    BY <1>1, FS_Subset
  <2>2. g \in Surjection(R, A)
    <3>1. g \in [R -> A]
      OBVIOUS
    <3>2. \A x \in A : x.of \in R /\ g[x.of] = x
      OBVIOUS
    <3> QED BY <3>1, <3>2 DEF Surjection
  <2> QED BY <2>1, <2>2, FS_Surjection
<1>3. IsFiniteSet(B)
  <2> DEFINE g == [r \in D |-> [type |-> "denied", of |-> r]]
  <2>1. IsFiniteSet(D)
    BY <1>1, FS_Subset
  <2>2. g \in Surjection(D, B)
    <3>1. g \in [D -> B]
      OBVIOUS
    <3>2. \A x \in B : x.of \in D /\ g[x.of] = x
      OBVIOUS
    <3> QED BY <3>1, <3>2 DEF Surjection
  <2> QED BY <2>1, <2>2, FS_Surjection
<1>4. Recorded = A \cup B
  BY DEF Recorded
<1>5. A \subseteq Msg /\ B \subseteq Msg
  BY <1>1 DEF Msg
<1>6. \A x \in Recorded : x.type = "requested" => x.of \in ReplayReq
  BY <1>4
<1> HIDE DEF A, B
<1>7. IsFiniteSet(Recorded) /\ Recorded \subseteq Msg
  BY <1>2, <1>3, <1>4, <1>5, FS_Union
<1>8. Cardinality(Recorded) \in Nat
  BY <1>7, FS_CardinalityType
<1>9. m \in [1 .. Cardinality(Recorded) -> Recorded]
  BY DEF Replays, SetToSeqs
<1>10. m \in Seq(Recorded)
  BY <1>8, <1>9
<1>11. m \in Seq(Msg) /\ \A i \in 1 .. Len(m) : m[i] \in Recorded
  BY <1>7, <1>10
<1> QED BY <1>6, <1>11 DEF Harmless

-----------------------------------------------------------------------------
(* The invariant *)

Shape ==
    /\ inbox \in Seq(Msg)
    /\ selects \in Seq(Req)
    /\ blocks \subseteq Req /\ IsFiniteSet(blocks)
    /\ asked \in [Req -> {"no", "pending", "elsewhere", "granted", "denied"}]
    /\ pump \in Req \cup {None}
    /\ pending_id \in Req \cup {None}
    /\ repeats \in Nat

\* A request that no replay announces is announced once: it is on its way at
\* most once, and not when its block is shown already.
AnnouncedOnce ==
    /\ \A r \in blocks \cap Fresh : asked[r] # "no"
    /\ \A r \in Fresh, i \in 1 .. Len(inbox) :
          Asks(inbox, i, r) =>
              /\ asked[r] # "no" /\ r \notin blocks
              /\ \A j \in 1 .. Len(inbox) : Asks(inbox, j, r) => j = i

IInv == Shape /\ AnnouncedOnce /\ SelectHasBlock

\* What a step can do to the screen and the inbox.
NoneForgotten == \A r \in Req : asked[r] # "no" => asked'[r] # "no"

SameScreen == UNCHANGED <<blocks, selects, repeats>>

Stays == SameScreen /\ inbox' = inbox

Clears == SameScreen /\ inbox' = <<>>

Hears(m) == SameScreen /\ Harmless(m) /\ inbox' = inbox \o m

IsAsked(r) ==
    /\ SameScreen /\ asked[r] = "no" /\ asked'[r] # "no"
    /\ inbox' = inbox \o Event("requested", r)

Handles ==
    /\ inbox # <<>> /\ inbox' = Tail(inbox)
    /\ \/ SameScreen
       \/ /\ Head(inbox).type = "requested"
          /\ blocks' = blocks \cup {Head(inbox).of}
          /\ selects' = Append(selects, Head(inbox).of)
          /\ repeats' = IF Head(inbox).of \in blocks \cap ReplayReq THEN repeats + 1 ELSE repeats
       \/ /\ Head(inbox).of \in blocks
          /\ repeats' = repeats
          /\ blocks' = blocks \ {Head(inbox).of}
          /\ selects' = IF selects = <<>> THEN selects ELSE Tail(selects)

Picks(r) ==
    /\ inbox' = inbox /\ repeats' = repeats
    /\ blocks' = blocks \ {r}
    /\ \E i \in 1 .. Len(selects) : selects' = RemoveAt(selects, i)

ScreenStep ==
    \/ Stays \/ Clears \/ Handles
    \/ \E m \in Seq(Msg) : Hears(m)
    \/ \E r \in Req : IsAsked(r) \/ Picks(r)

LEMMA ScreenSteps ==
    ASSUME IInv, [Next]_vars
    PROVE  ScreenStep /\ NoneForgotten
<1> USE DEF screenVars, daemonVars, wireVars, lineVars, SameScreen, NoneForgotten
<1>1. asked \in [Req -> {"no", "pending", "elsewhere", "granted", "denied"}]
      /\ pump \in Req \cup {None}
  BY DEF IInv, Shape
<1>2. ASSUME EndLoop \/ Connect \/ Reconnect \/ SocketLoopDies \/ Exit
      PROVE  Clears /\ NoneForgotten
  BY <1>2 DEF EndLoop, Connect, Reconnect, SocketLoopDies, Disconnect, Exit, Clears
<1>3. ASSUME \/ Subscribed \/ Created \/ Decided \/ ChatCreated \/ ChatReturns \/ RunAsked
             \/ RunAccepted \/ ChatLine \/ ChatEnds \/ UNCHANGED vars
      PROVE  Stays /\ NoneForgotten
  BY <1>3 DEF Subscribed, Created, Decided, ChatCreated, ChatReturns, RunAsked,
              RunAccepted, ChatLine, ChatEnds, vars, Stays
<1>4. ASSUME NEW i \in Message, SendMessage(i) \/ Sent(i) \/ Submit(i)
      PROVE  Stays /\ NoneForgotten
  BY <1>4 DEF SendMessage, Sent, Submit, Stays
<1>5. ASSUME Lose
      PROVE  Stays /\ NoneForgotten
  BY <1>1, <1>5 DEF Lose, Stays
<1>6. ASSUME Loop, ~ EndLoop
      PROVE  Handles /\ NoneForgotten
  BY <1>6 DEF Loop, ReadResponse, TuiEvent, SessionEvent, Requested, Denied, ChatEvent,
              RunEvent, ReadsEvent, Reads, Handles
<1>7. ASSUME NEW r \in Req, Decide(r)
      PROVE  Picks(r) /\ NoneForgotten
  BY <1>7 DEF Decide, Picks
<1>8. ASSUME NEW m, Harmless(m), Says(m)
      PROVE  ScreenStep
  <2>1. m \in Seq(Msg)
    BY <1>8 DEF Harmless
  <2>2. CASE link = "up"
    <3>1. Hears(m)
      BY <1>8, <2>2 DEF Says, Hears
    <3> QED BY <2>1, <3>1 DEF ScreenStep
  <2>3. CASE link # "up"
    BY <1>8, <2>3 DEF Says, ScreenStep, Stays
  <2> QED BY <2>2, <2>3
<1>9. ASSUME Answer
      PROVE  ScreenStep /\ NoneForgotten
  <2>1. Main \in Waiter
    BY DEF Waiter
  <2>2. Harmless(Response(Main, TRUE)) /\ Harmless(Response(Main, FALSE))
    BY <2>1, HarmlessMessages
  <2>3. CASE Says(Response(Main, FALSE))
    BY <1>8, <1>9, <2>2, <2>3 DEF Answer
  <2>4. CASE \E m \in IF TUI("subscribing") THEN Replays ELSE {<<>>} : Says(m \o Response(Main, TRUE))
    <3>1. PICK m \in IF TUI("subscribing") THEN Replays ELSE {<<>>} : Says(m \o Response(Main, TRUE))
      BY <2>4
    <3>2. m \in Replays \/ m = <<>>
      BY <3>1
    <3>3. Harmless(m)
      BY <3>2, HarmlessReplay, HarmlessMessages
    <3>4. Harmless(m \o Response(Main, TRUE))
      BY <2>2, <3>3, HarmlessJoin
    <3> QED BY <1>8, <1>9, <3>1, <3>4 DEF Answer
  <2> QED BY <1>9, <2>3, <2>4 DEF Answer
<1>10. ASSUME ForeignEvent
       PROVE  ScreenStep /\ NoneForgotten
  <2>1. PICK t \in {"waiting", "closed", "finished"} : Says(Event(t, None))
    BY <1>10 DEF ForeignEvent
  <2>2. Harmless(Event(t, None))
    BY <2>1, HarmlessMessages
  <2> QED BY <1>8, <1>10, <2>1, <2>2 DEF ForeignEvent
<1>11. ASSUME NEW r \in Req, Expire(r) \/ Grant(r)
       PROVE  ScreenStep /\ NoneForgotten
  <2>1. Harmless(Event("denied", r)) /\ Harmless(<<>>)
    BY HarmlessMessages
  <2>2. Says(Event("denied", r)) \/ Says(<<>>)
    BY <1>11 DEF Expire, Grant
  <2>3. NoneForgotten
    BY <1>1, <1>11 DEF Expire, Grant
  <2> QED BY <1>8, <2>1, <2>2, <2>3
<1>12. ASSUME Respond
       PROVE  ScreenStep /\ NoneForgotten
  <2> DEFINE w == IF kind = "tui" THEN Pump ELSE Main
  <2>1. w \in Waiter
    BY DEF Waiter
  <2>2. pump \in Req
    BY <1>1, <1>12 DEF Respond
  <2> DEFINE m(allowed) == IF Open(pump) /\ ~allowed THEN Event("denied", pump) ELSE <<>>
  <2>3. PICK allowed \in BOOLEAN :
            /\ asked' = [asked EXCEPT ![pump] =
                  IF Open(pump) THEN IF allowed THEN "granted" ELSE "denied" ELSE @]
            /\ Says(m(allowed) \o Response(w, TRUE))
    BY <1>12 DEF Respond
  <2>4. Harmless(m(allowed)) /\ Harmless(Response(w, TRUE))
    BY <2>1, <2>2, HarmlessMessages
  <2> HIDE DEF m, w
  <2>5. Harmless(m(allowed) \o Response(w, TRUE))
    BY <2>4, HarmlessJoin
  <2>6. ScreenStep
    BY <1>8, <2>3, <2>5
  <2>7. NoneForgotten
    BY <1>1, <2>2, <2>3
  <2> QED BY <2>6, <2>7
<1>13. ASSUME NEW i \in Message, Refuse(i) \/ Accept(i) \/ EndRun(i) \/ RunRaises(i)
       PROVE  ScreenStep /\ NoneForgotten
  <2>1. NoneForgotten
    BY <1>13 DEF Refuse, Accept, EndRun, RunRaises
  <2>2. Main \in Waiter /\ Sender(i) \in Waiter
    BY DEF Waiter, Sender
  <2>3. \A ok \in BOOLEAN : Harmless(Response(Main, ok)) /\ Harmless(Response(Sender(i), ok))
    BY <2>2, HarmlessMessages
  <2>4. Harmless(<<>>) /\ Harmless(Event("finished", None)) /\ Harmless(Event("waiting", None))
    BY HarmlessMessages
  <2>5. CASE Refuse(i)
    <3>1. Says(Response(Sender(i), kind = "run")) /\ (kind = "run") \in BOOLEAN
      BY <2>5 DEF Refuse
    <3>2. Harmless(Response(Sender(i), kind = "run"))
      BY <2>3, <3>1
    <3> QED BY <1>8, <2>1, <3>1, <3>2
  <2>6. CASE Accept(i)
    <3>1. Harmless(IF kind = "run" THEN Response(Main, TRUE) ELSE <<>>)
      BY <2>3, <2>4
    <3>2. Says(IF kind = "run" THEN Response(Main, TRUE) ELSE <<>>)
      BY <2>6 DEF Accept
    <3> QED BY <1>8, <2>1, <3>1, <3>2
  <2>7. CASE EndRun(i)
    <3> DEFINE e == Event("finished", None) \o Event("waiting", None)
    <3> DEFINE a == IF kind = "run" THEN <<>> ELSE Response(Sender(i), TRUE)
    <3>1. Harmless(e)
      BY <2>4, HarmlessJoin
    <3>2. Harmless(a)
      BY <2>3, <2>4
    <3>3. Says(e \o a)
      BY <2>7 DEF EndRun
    <3> HIDE DEF e, a
    <3>4. Harmless(e \o a)
      BY <3>1, <3>2, HarmlessJoin
    <3> QED BY <1>8, <2>1, <3>3, <3>4
  <2>8. CASE RunRaises(i)
    <3>1. Harmless(IF kind = "run" THEN <<>> ELSE Response(Sender(i), FALSE))
      BY <2>3, <2>4
    <3>2. Says(IF kind = "run" THEN <<>> ELSE Response(Sender(i), FALSE))
      BY <2>8 DEF RunRaises
    <3> QED BY <1>8, <2>1, <3>1, <3>2
  <2> QED BY <1>13, <2>5, <2>6, <2>7, <2>8
<1>14. ASSUME NEW r \in Req, Ask(r)
       PROVE  (IsAsked(r) \/ Stays) /\ NoneForgotten
  BY <1>1, <1>14 DEF Ask, Says, IsAsked, Stays
<1> HIDE DEF screenVars, daemonVars, wireVars, lineVars, SameScreen, NoneForgotten
<1>15. CASE Loop
  BY <1>2, <1>6, <1>15 DEF ScreenStep
<1>16. CASE Resume \/ User
  <2>1. CASE \E i \in Message : SendMessage(i) \/ Sent(i) \/ Submit(i)
    BY <1>4, <2>1 DEF ScreenStep
  <2>2. CASE \E r \in Req : Decide(r)
    BY <1>7, <2>2 DEF ScreenStep
  <2>3. CASE Connect \/ Reconnect \/ SocketLoopDies \/ Exit
    BY <1>2, <2>3 DEF ScreenStep
  <2>4. CASE \/ Subscribed \/ Created \/ Decided \/ ChatCreated \/ ChatReturns \/ RunAsked
             \/ RunAccepted \/ ChatLine \/ ChatEnds
    BY <1>3, <2>4 DEF ScreenStep
  <2> QED BY <1>16, <2>1, <2>2, <2>3, <2>4 DEF Resume, User
<1>17. CASE Serve
  BY <1>9, <1>11, <1>12, <1>13, <1>17 DEF Serve
<1>18. CASE Outside
  BY <1>5, <1>10, <1>14, <1>18 DEF Outside, ScreenStep
<1>19. CASE UNCHANGED vars
  BY <1>3, <1>19 DEF ScreenStep
<1> QED BY <1>15, <1>16, <1>17, <1>18, <1>19 DEF Next

LEMMA Shorter ==
    ASSUME NEW q \in Seq(Req), NEW i \in 1 .. Len(q)
    PROVE  RemoveAt(q, i) \in Seq(Req) /\ Len(RemoveAt(q, i)) = Len(q) - 1
<1> DEFINE a == SubSeq(q, 1, i - 1)
<1> DEFINE b == SubSeq(q, i + 1, Len(q))
<1>1. a \in Seq(Req) /\ b \in Seq(Req) /\ Len(a) = i - 1 /\ Len(b) = Len(q) - i
  OBVIOUS
<1>2. RemoveAt(q, i) = a \o b
  BY DEF RemoveAt
<1> HIDE DEF a, b
<1>3. a \o b \in Seq(Req) /\ Len(a \o b) = Len(a) + Len(b)
  BY <1>1
<1>4. Len(a) + Len(b) = Len(q) - 1
  <2>1. Len(q) \in Nat /\ i \in Int
    OBVIOUS
  <2> QED BY <1>1, <2>1
<1> QED BY <1>2, <1>3, <1>4

\* The rest of the shape.
LEMMA NextShape ==
    ASSUME IInv, [Next]_vars, ScreenStep
    PROVE  Shape'
<1>1. Shape
  BY DEF IInv
<1>2. asked' \in [Req -> {"no", "pending", "elsewhere", "granted", "denied"}]
  <2>1. CASE \E r \in Req : Ask(r) \/ Expire(r) \/ Grant(r)
    BY <1>1, <2>1 DEF Shape, Ask, Expire, Grant
  <2>2. CASE Respond \/ Lose
    BY <1>1, <2>2 DEF Shape, Respond, Lose
  <2>3. CASE UNCHANGED asked
    BY <1>1, <2>3 DEF Shape
  <2>4. \/ \E r \in Req : Ask(r) \/ Expire(r) \/ Grant(r)
        \/ Respond \/ Lose \/ UNCHANGED asked
    <3> USE DEF daemonVars
    <3>1. CASE Loop
      BY <3>1 DEF Loop, EndLoop, ReadResponse, TuiEvent, SessionEvent, Requested, Denied,
                  ChatEvent, RunEvent, ReadsEvent, Reads
    <3>2. CASE Resume
      BY <3>2 DEF Resume, Connect, Subscribed, Created, Reconnect, SocketLoopDies, Disconnect,
                  Decided, ChatCreated, ChatReturns, RunAsked, RunAccepted, Exit, SendMessage, Sent
    <3>3. CASE User
      BY <3>3 DEF User, ChatLine, ChatEnds, Submit, Decide
    <3>4. CASE Serve
      BY <3>4 DEF Serve, Answer, Refuse, Accept, EndRun, RunRaises
    <3>5. CASE Outside
      BY <3>5 DEF Outside, ForeignEvent
    <3> QED BY <3>1, <3>2, <3>3, <3>4, <3>5 DEF Next, vars
  <2> QED BY <2>1, <2>2, <2>3, <2>4
<1>3. inbox # <<>> => Head(inbox) \in Msg
  BY <1>1 DEF Shape
<1>4. pump' \in Req \cup {None} /\ pending_id' \in Req \cup {None}
  <2> USE DEF screenVars, lineVars
  <2>1. pump \in Req \cup {None} /\ pending_id \in Req \cup {None}
    BY <1>1 DEF Shape
  <2>2. CASE Loop
    <3>1. \A x \in Msg : x.type = "requested" => x.of \in Req
      BY DEF Msg
    <3> QED
      BY <1>3, <2>1, <2>2, <3>1 DEF Loop, EndLoop, ReadResponse, TuiEvent, SessionEvent, Requested,
         Denied, ChatEvent, RunEvent, ReadsEvent, Reads
  <2>3. CASE Resume
    BY <2>1, <2>3 DEF Resume, Connect, Subscribed, Created, Reconnect, SocketLoopDies, Disconnect,
       Decided, ChatCreated, ChatReturns, RunAsked, RunAccepted, Exit, SendMessage, Sent
  <2>4. CASE User
    BY <2>1, <2>4 DEF User, ChatLine, ChatEnds, Submit, Decide
  <2>5. CASE Serve
    BY <2>1, <2>5 DEF Serve, Answer, Respond, Refuse, Accept, EndRun, RunRaises, Expire, Grant, Says
  <2>6. CASE Outside
    BY <2>1, <2>6 DEF Outside, ForeignEvent, Lose, Ask, Says
  <2> QED BY <2>1, <2>2, <2>3, <2>4, <2>5, <2>6 DEF Next, vars
<1>5. /\ inbox' \in Seq(Msg) /\ selects' \in Seq(Req)
      /\ blocks' \subseteq Req /\ IsFiniteSet(blocks')
  <2>1. /\ inbox \in Seq(Msg) /\ selects \in Seq(Req)
        /\ blocks \subseteq Req /\ IsFiniteSet(blocks)
    BY <1>1 DEF Shape
  <2>2. CASE Stays \/ Clears
    <3>1. selects' = selects /\ blocks' = blocks /\ (inbox' = inbox \/ inbox' = <<>>)
      BY <2>2 DEF Stays, Clears, SameScreen
    <3>2. <<>> \in Seq(Msg)
      OBVIOUS
    <3> QED BY <2>1, <3>1, <3>2
  <2>3. CASE Handles
    <3>1. Tail(inbox) \in Seq(Msg) /\ (selects # <<>> => Tail(selects) \in Seq(Req))
      BY <2>1, <2>3 DEF Handles
    <3>2. \A x \in Msg : x.type = "requested" => x.of \in Req
      BY DEF Msg
    <3>3. \A r \in Req : /\ blocks \cup {r} \subseteq Req /\ IsFiniteSet(blocks \cup {r})
                         /\ blocks \ {r} \subseteq Req /\ IsFiniteSet(blocks \ {r})
                         /\ Append(selects, r) \in Seq(Req)
      BY <2>1, FS_AddElement, FS_RemoveElement
    <3> QED BY <1>3, <2>1, <2>3, <3>1, <3>2, <3>3 DEF Handles, SameScreen
  <2>4. ASSUME NEW m \in Seq(Msg), Hears(m)
        PROVE  inbox' \in Seq(Msg) /\ UNCHANGED <<selects, blocks>>
    BY <2>1, <2>4 DEF Hears, SameScreen
  <2>5. ASSUME NEW r \in Req, IsAsked(r)
        PROVE  inbox' \in Seq(Msg) /\ UNCHANGED <<selects, blocks>>
    <3>1. [type |-> "requested", of |-> r] \in Msg
      BY DEF Msg
    <3>2. Event("requested", r) \in Seq(Msg)
      BY <3>1 DEF Event
    <3> QED BY <2>1, <2>5, <3>2 DEF IsAsked, SameScreen
  <2>6. ASSUME NEW r \in Req, Picks(r)
        PROVE  /\ inbox' \in Seq(Msg) /\ selects' \in Seq(Req)
               /\ blocks' \subseteq Req /\ IsFiniteSet(blocks')
    <3>1. \A i \in 1 .. Len(selects) : RemoveAt(selects, i) \in Seq(Req)
      BY <2>1, Shorter
    <3>2. blocks \ {r} \subseteq Req /\ IsFiniteSet(blocks \ {r})
      BY <2>1, FS_RemoveElement
    <3> QED BY <2>1, <2>6, <3>1, <3>2 DEF Picks
  <2> QED BY <2>1, <2>2, <2>3, <2>4, <2>5, <2>6 DEF ScreenStep
<1>6. repeats' \in Nat
  <2>1. repeats \in Nat
    BY <1>1 DEF Shape
  <2> QED BY <2>1 DEF ScreenStep, Stays, Clears, Handles, Hears, IsAsked, Picks, SameScreen
<1> QED BY <1>2, <1>4, <1>5, <1>6 DEF Shape

\* AnnouncedOnce of a part of the inbox and of the blocks.
LEMMA FewerAnnounced ==
    ASSUME Shape, AnnouncedOnce, NoneForgotten, NEW k \in Nat, inbox' \in Seq(Msg),
           \A i \in 1 .. Len(inbox'), r \in Fresh :
               Asks(inbox', i, r) => i + k \in 1 .. Len(inbox) /\ Asks(inbox, i + k, r),
           \A r \in blocks' \cap Fresh : r \in blocks \/ (k = 1 /\ inbox # <<>> /\ Asks(inbox, 1, r))
    PROVE  AnnouncedOnce'
<1> USE DEF Fresh
<1>1. Len(inbox) \in Nat /\ Len(inbox') \in Nat /\ blocks \subseteq Req
      /\ (inbox # <<>> => 1 \in 1 .. Len(inbox))
  BY DEF Shape
<1>2. ASSUME NEW r \in blocks' \cap Fresh PROVE asked'[r] # "no"
  <2>1. CASE r \in blocks
    BY <1>1, <2>1 DEF AnnouncedOnce, NoneForgotten
  <2>2. CASE inbox # <<>> /\ Asks(inbox, 1, r)
    BY <1>1, <2>2 DEF AnnouncedOnce, NoneForgotten
  <2> QED BY <2>1, <2>2
<1>3. ASSUME NEW r \in Fresh, NEW i \in 1 .. Len(inbox'), Asks(inbox', i, r)
      PROVE  /\ asked'[r] # "no" /\ r \notin blocks'
             /\ \A j \in 1 .. Len(inbox') : Asks(inbox', j, r) => j = i
  <2>1. i + k \in 1 .. Len(inbox) /\ Asks(inbox, i + k, r)
    BY <1>3
  <2>2. /\ asked[r] # "no" /\ r \notin blocks
        /\ \A j \in 1 .. Len(inbox) : Asks(inbox, j, r) => j = i + k
    BY <2>1 DEF AnnouncedOnce
  <2>3. r \notin blocks'
    <3>1. ASSUME k = 1, inbox # <<>>, Asks(inbox, 1, r) PROVE FALSE
      BY <1>1, <2>2, <3>1
    <3> QED BY <2>2, <3>1
  <2>4. ASSUME NEW j \in 1 .. Len(inbox'), Asks(inbox', j, r) PROVE j = i
    <3>1. j + k \in 1 .. Len(inbox) /\ Asks(inbox, j + k, r)
      BY <2>4
    <3>2. j + k = i + k
      BY <2>2, <3>1
    <3> QED BY <1>1, <3>2
  <2> QED BY <2>2, <2>3, <2>4 DEF NoneForgotten
<1> QED BY <1>2, <1>3 DEF AnnouncedOnce, Asks

LEMMA NextAnnounced ==
    ASSUME IInv, ScreenStep, NoneForgotten, Shape'
    PROVE  AnnouncedOnce'
<1> USE DEF Fresh
<1>1. Shape /\ AnnouncedOnce /\ inbox \in Seq(Msg) /\ inbox' \in Seq(Msg) /\ blocks \subseteq Req
  BY DEF IInv, Shape
<1>2. Len(inbox) \in Nat
  BY <1>1
<1>3. ASSUME \A i \in 1 .. Len(inbox'), r \in Fresh :
                Asks(inbox', i, r) => i \in 1 .. Len(inbox) /\ Asks(inbox, i, r),
             blocks' \subseteq blocks
      PROVE  AnnouncedOnce'
  <2>1. \A i \in 1 .. Len(inbox'), r \in Fresh :
            Asks(inbox', i, r) => i + 0 \in 1 .. Len(inbox) /\ Asks(inbox, i + 0, r)
    <3>1. \A i \in 1 .. Len(inbox') : i + 0 = i
      BY <1>1
    <3> QED BY <1>3, <3>1
  <2> QED BY <1>1, <1>3, <2>1, FewerAnnounced
<1>4. CASE Stays \/ Clears
  <2>1. inbox' = inbox \/ Len(inbox') = 0
    BY <1>4 DEF Stays, Clears
  <2> QED BY <1>3, <1>4, <2>1 DEF Stays, Clears, SameScreen
<1>5. ASSUME NEW r \in Req, Picks(r) PROVE AnnouncedOnce'
  BY <1>3, <1>5 DEF Picks
<1>6. ASSUME NEW m \in Seq(Msg), Hears(m) PROVE AnnouncedOnce'
  <2>1. /\ inbox' = inbox \o m /\ blocks' = blocks
        /\ \A i \in 1 .. Len(m) : m[i].type = "requested" => m[i].of \in ReplayReq
    BY <1>6 DEF Hears, Harmless, SameScreen
  <2>2. /\ Len(inbox') = Len(inbox) + Len(m) /\ Len(m) \in Nat
        /\ \A i \in 1 .. Len(inbox) : inbox'[i] = inbox[i]
        /\ \A i \in Len(inbox) + 1 .. Len(inbox') : inbox'[i] = m[i - Len(inbox)]
    BY <1>1, <2>1
  <2>3. ASSUME NEW i \in 1 .. Len(inbox'), NEW r \in Fresh, Asks(inbox', i, r)
        PROVE  i \in 1 .. Len(inbox) /\ Asks(inbox, i, r)
    <3>1. ASSUME i \notin 1 .. Len(inbox) PROVE FALSE
      <4>1. i \in Len(inbox) + 1 .. Len(inbox') /\ i - Len(inbox) \in 1 .. Len(m)
        BY <1>2, <2>2, <3>1
      <4> QED BY <2>1, <2>2, <2>3, <4>1 DEF Asks
    <3> QED BY <2>2, <2>3, <3>1 DEF Asks
  <2> QED BY <1>3, <2>1, <2>3
<1>7. CASE Handles
  <2>1. /\ inbox # <<>> /\ inbox' = Tail(inbox) /\ Len(inbox') = Len(inbox) - 1
        /\ \A i \in 1 .. Len(inbox') : inbox'[i] = inbox[i + 1] /\ i + 1 \in 1 .. Len(inbox)
        /\ Head(inbox) = inbox[1] /\ inbox[1] \in Msg
    BY <1>1, <1>7 DEF Handles
  <2>2. \A i \in 1 .. Len(inbox'), r \in Fresh :
            Asks(inbox', i, r) => i + 1 \in 1 .. Len(inbox) /\ Asks(inbox, i + 1, r)
    BY <2>1 DEF Asks
  <2>3. \A x \in Msg : x.type = "requested" => x.of \in Req
    BY DEF Msg
  <2>4. \A r \in blocks' \cap Fresh : r \in blocks \/ (inbox # <<>> /\ Asks(inbox, 1, r))
    BY <1>7, <2>1, <2>3 DEF Handles, SameScreen, Asks
  <2> QED BY <1>1, <2>2, <2>4, FewerAnnounced
<1>8. ASSUME NEW r \in Req, IsAsked(r) PROVE AnnouncedOnce'
  <2>1. blocks' = blocks /\ asked[r] = "no" /\ asked'[r] # "no"
        /\ inbox' = inbox \o Event("requested", r)
    BY <1>8 DEF IsAsked, SameScreen
  <2>2. CASE inbox' = inbox
    BY <1>3, <2>1, <2>2
  <2>3. CASE inbox' = Append(inbox, [type |-> "requested", of |-> r])
    <3> DEFINE n == Len(inbox) + 1
    <3>1. /\ Len(inbox') = n /\ n \in Nat /\ n \in 1 .. n
          /\ inbox'[n] = [type |-> "requested", of |-> r]
          /\ \A i \in 1 .. n : i # n => i \in 1 .. Len(inbox) /\ inbox'[i] = inbox[i]
      BY <1>1, <1>2, <2>3
    <3>2. r \in Fresh => \A i \in 1 .. Len(inbox) : ~ Asks(inbox, i, r)
      BY <1>1, <2>1 DEF AnnouncedOnce
    <3>3. r \in Fresh => r \notin blocks
      BY <1>1, <2>1 DEF AnnouncedOnce
    <3> HIDE DEF n
    <3>4. ASSUME NEW u \in Fresh, NEW i \in 1 .. n, Asks(inbox', i, u)
          PROVE  IF i = n THEN u = r ELSE u # r /\ i \in 1 .. Len(inbox) /\ Asks(inbox, i, u)
      BY <3>1, <3>2, <3>4 DEF Asks
    <3>5. \A u \in blocks' \cap Fresh : asked'[u] # "no"
      BY <1>1, <2>1 DEF AnnouncedOnce, NoneForgotten
    <3>6. ASSUME NEW u \in Fresh, NEW i \in 1 .. n, Asks(inbox', i, u)
          PROVE  /\ asked'[u] # "no" /\ u \notin blocks'
                 /\ \A j \in 1 .. n : Asks(inbox', j, u) => j = i
      <4>1. CASE i = n
        <5>1. u = r
          BY <3>4, <3>6, <4>1
        <5>2. \A j \in 1 .. n : Asks(inbox', j, u) => j = n
          BY <3>4, <5>1
        <5> QED BY <2>1, <3>3, <4>1, <5>1, <5>2
      <4>2. CASE i # n
        <5>1. u # r /\ i \in 1 .. Len(inbox) /\ Asks(inbox, i, u)
          BY <3>4, <3>6, <4>2
        <5>2. asked[u] # "no" /\ u \notin blocks
              /\ \A j \in 1 .. Len(inbox) : Asks(inbox, j, u) => j = i
          BY <1>1, <5>1 DEF AnnouncedOnce
        <5>3. \A j \in 1 .. n : Asks(inbox', j, u) => j = i
          BY <3>4, <5>1, <5>2
        <5> QED BY <2>1, <5>2, <5>3 DEF NoneForgotten
      <4> QED BY <4>1, <4>2
    <3> QED BY <3>1, <3>5, <3>6 DEF AnnouncedOnce, Asks
  <2>4. inbox' = inbox \/ inbox' = Append(inbox, [type |-> "requested", of |-> r])
    <3>1. inbox \o <<>> = inbox
          /\ inbox \o <<[type |-> "requested", of |-> r]>> = Append(inbox, [type |-> "requested", of |-> r])
      BY <1>1
    <3> QED BY <2>1, <3>1 DEF Event
  <2> QED BY <2>2, <2>3, <2>4
<1> QED BY <1>4, <1>5, <1>6, <1>7, <1>8 DEF ScreenStep

LEMMA NextSelects ==
    ASSUME IInv, ScreenStep, Shape'
    PROVE  SelectHasBlock'
<1>1. /\ selects \in Seq(Req) /\ blocks \subseteq Req /\ IsFiniteSet(blocks)
      /\ repeats \in Nat /\ Len(selects) <= Cardinality(blocks) + repeats
      /\ inbox \in Seq(Msg) /\ AnnouncedOnce
  BY DEF IInv, Shape, SelectHasBlock
<1>2. Len(selects) \in Nat /\ Cardinality(blocks) \in Nat
  BY <1>1, FS_CardinalityType
<1>3. \A r : Cardinality(blocks \ {r}) = IF r \in blocks THEN Cardinality(blocks) - 1 ELSE Cardinality(blocks)
  BY <1>1, FS_RemoveElement
<1>4. CASE SameScreen
  BY <1>1, <1>4 DEF SameScreen, SelectHasBlock
<1>5. CASE Handles
  <2>1. inbox # <<>> /\ Head(inbox) = inbox[1] /\ inbox[1] \in Msg /\ 1 \in 1 .. Len(inbox)
    BY <1>1, <1>5 DEF Handles
  <2> DEFINE r == Head(inbox).of
  <2>2. ASSUME Head(inbox).type = "requested",
               blocks' = blocks \cup {r}, selects' = Append(selects, r),
               repeats' = IF r \in blocks \cap ReplayReq THEN repeats + 1 ELSE repeats
        PROVE  SelectHasBlock'
    <3>1. \A x \in Msg : x.type = "requested" => x.of \in Req
      BY DEF Msg
    <3>2. r \in Req /\ Asks(inbox, 1, r)
      BY <2>1, <2>2, <3>1 DEF Asks
    <3>3. r \in blocks => r \in ReplayReq
      BY <1>1, <2>1, <3>2 DEF AnnouncedOnce, Fresh
    <3> HIDE DEF r
    <3>4. Len(Append(selects, r)) = Len(selects) + 1
      BY <1>1, <3>2
    <3>5. CASE r \in blocks
      <4>1. blocks' = blocks /\ repeats' = repeats + 1
        BY <2>2, <3>3, <3>5
      <4>2. Len(selects') = Len(selects) + 1
        BY <2>2, <3>4
      <4> QED BY <1>1, <1>2, <4>1, <4>2 DEF SelectHasBlock
    <3>6. CASE r \notin blocks
      <4>1. Cardinality(blocks \cup {r}) = Cardinality(blocks) + 1
        BY <1>1, <3>6, FS_AddElement
      <4>2. repeats' = repeats
        BY <2>2, <3>6
      <4> QED BY <1>1, <1>2, <2>2, <3>4, <4>1, <4>2 DEF SelectHasBlock
    <3> QED BY <3>5, <3>6
  <2>3. ASSUME r \in blocks, blocks' = blocks \ {r},
               selects' = IF selects = <<>> THEN selects ELSE Tail(selects), repeats' = repeats
        PROVE  SelectHasBlock'
    <3> HIDE DEF r
    <3>1. Cardinality(blocks') = Cardinality(blocks) - 1 /\ Cardinality(blocks') \in Nat
      BY <1>3, <2>3, FS_CardinalityType DEF Shape
    <3>2. CASE selects = <<>>
      BY <1>1, <2>3, <3>1, <3>2 DEF SelectHasBlock
    <3>3. CASE selects # <<>>
      <4>1. Len(selects') = Len(selects) - 1
        BY <1>1, <2>3, <3>3
      <4> QED BY <1>1, <1>2, <2>3, <3>1, <4>1 DEF SelectHasBlock
    <3> QED BY <3>2, <3>3
  <2> HIDE DEF r
  <2> QED BY <1>4, <1>5, <2>2, <2>3 DEF Handles, r
<1>6. ASSUME NEW r \in Req, Picks(r) PROVE SelectHasBlock'
  <2>1. PICK i \in 1 .. Len(selects) : selects' = RemoveAt(selects, i)
    BY <1>6 DEF Picks
  <2>2. Len(selects') = Len(selects) - 1
    BY <1>1, <2>1, Shorter
  <2>3. blocks' = blocks \ {r} /\ repeats' = repeats
    BY <1>6 DEF Picks
  <2>4. Cardinality(blocks') >= Cardinality(blocks) - 1
    BY <1>2, <1>3, <2>3
  <2>5. Cardinality(blocks') \in Nat
    BY FS_CardinalityType DEF Shape
  <2> QED BY <1>1, <1>2, <2>2, <2>3, <2>4, <2>5 DEF SelectHasBlock
<1> QED BY <1>4, <1>5, <1>6 DEF ScreenStep, Stays, Clears, Hears, IsAsked

\* There are never more selectors than requests on the screen and repeated
\* announcements of a replayed run: a question that is gone leaves nothing
\* behind that takes the keyboard, although a denial removes the oldest
\* selector and not its own (tui/app.py:1036).  It rests on every other request
\* being announced only once, over all connections.
THEOREM SelectorsHaveBlocks == Spec => []SelectHasBlock
<1>1. Init => IInv
  <2>1. ASSUME Init PROVE Shape /\ AnnouncedOnce
    BY <2>1, FS_EmptySet DEF Init, Shape, AnnouncedOnce, Asks
  <2>2. ASSUME Init PROVE SelectHasBlock
    BY <2>2, FS_EmptySet DEF Init, SelectHasBlock
  <2> QED BY <2>1, <2>2 DEF IInv
<1>2. IInv /\ [Next]_vars => IInv'
  BY ScreenSteps, NextShape, NextAnnounced, NextSelects DEF IInv
<1>3. IInv => SelectHasBlock
  BY DEF IInv
<1> QED BY <1>1, <1>2, <1>3, PTL DEF Spec
=============================================================================
