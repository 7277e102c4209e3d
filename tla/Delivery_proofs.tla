--------------------------- MODULE Delivery_proofs ---------------------------
(***************************************************************************)
(* Theorems about Delivery, for any runs of any length, any clients, and   *)
(* any of them that stall, hang up or are cancelled.                       *)
(***************************************************************************)
EXTENDS Delivery, NaturalsInduction, WellFoundedInduction, TLAPS

\* The assumption, piece by piece.
LEMMA Lengths ==
    /\ \A r \in Run : LastEvent[r] \in Nat /\ LastEvent[r] >= 2
    /\ Global \notin Run /\ Nobody \notin Run
    /\ \A c \in Client : \A w \in Wish[c] : w[1] \in Run \cup {Nobody} /\ w[2] \in Scope
  <1>1. \A r \in Run : LastEvent[r] \in Nat \ {0, 1}
    BY DeliveryAssumption
  <1>2. \A r \in Run : LastEvent[r] \in Nat /\ LastEvent[r] >= 2
    BY <1>1
  <1>3. \A c \in Client : Wish[c] \subseteq (Run \cup {Nobody}) \X (Run \cup {Global})
    BY DeliveryAssumption
  <1>4. QED
    BY <1>2, <1>3, DeliveryAssumption DEF Scope

-----------------------------------------------------------------------------
(* Logs *)

\* What has been written to a log.
In(log) == {log[i] : i \in DOMAIN log}

\* The members of a sequence.
LEMMA Members ==
    ASSUME NEW S, NEW log \in Seq(S)
    PROVE  /\ Len(log) \in Nat /\ DOMAIN log = 1 .. Len(log)
           /\ \A i \in DOMAIN log : log[i] \in S
  OBVIOUS

\* Events are pairs of a run and a number.
LEMMA EventIsPair ==
    ASSUME NEW e
    PROVE  e \in Events <=> \E r \in Run : \E n \in 1 .. LastEvent[r] : e = <<r, n>>
  BY DEF Events

\* Containment, on the set of what a log holds.
LEMMA ContainsIn ==
    ASSUME NEW S, NEW log \in Seq(S), NEW e
    PROVE  Contains(log, e) <=> e \in In(log)
  BY DEF Contains, In

\* One more event is written.
LEMMA InAppend ==
    ASSUME NEW S, NEW log \in Seq(S), NEW e \in S
    PROVE  /\ Append(log, e) \in Seq(S)
           /\ In(Append(log, e)) = In(log) \cup {e}
  <1>1. Append(log, e) \in Seq(S) /\ DOMAIN Append(log, e) = 1 .. Len(log) + 1
    OBVIOUS
  <1>2. \A i \in 1 .. Len(log) : Append(log, e)[i] = log[i]
    OBVIOUS
  <1>3. Append(log, e)[Len(log) + 1] = e /\ Len(log) \in Nat /\ DOMAIN log = 1 .. Len(log)
    OBVIOUS
  <1>4. In(Append(log, e)) = In(log) \cup {e}
    BY <1>1, <1>2, <1>3 DEF In
  <1>5. QED
    BY <1>1, <1>4

\* A log with nothing in it.
LEMMA EmptyLog ==
    ASSUME NEW S, NEW log \in Seq(S)
    PROVE  In(log) = {} <=> log = <<>>
  <1>1. Len(log) \in Nat /\ DOMAIN log = 1 .. Len(log)
    OBVIOUS
  <1>2. ASSUME log = <<>> PROVE In(log) = {}
    BY <1>2 DEF In
  <1>3. ASSUME In(log) = {} PROVE log = <<>>
    <2>1. DOMAIN log = {}
      BY <1>3 DEF In
    <2>2. Len(log) = 0
      BY <1>1, <2>1
    <2>3. QED
      BY <2>2
  <1>4. QED
    BY <1>2, <1>3

\* A pair in a log names its run and its number.
LEMMA InLog ==
    ASSUME NEW log \in Seq(Events), NEW e \in In(log)
    PROVE  e[1] \in Run /\ e[2] \in Nat /\ e = <<e[1], e[2]>> /\ e \in Events
  <1>1. e \in Events
    BY Members DEF In
  <1>2. PICK q \in Run : \E k \in 1 .. LastEvent[q] : e = <<q, k>>
    BY <1>1, EventIsPair
  <1>3. QED
    BY <1>1, <1>2, Lengths

\* An event that comes after all others of its run keeps the order.
LEMMA OrderedAppend ==
    ASSUME NEW log \in Seq(Events), Ordered(log), NEW r \in Run, NEW n \in Nat,
           \A e \in In(log) : e[1] = r => e[2] < n
    PROVE  Ordered(Append(log, <<r, n>>))
  <1> DEFINE new == Append(log, <<r, n>>)
  <1>1. DOMAIN new = 1 .. Len(log) + 1 /\ Len(log) \in Nat /\ DOMAIN log = 1 .. Len(log)
    OBVIOUS
  <1>2. (\A i \in 1 .. Len(log) : new[i] = log[i]) /\ new[Len(log) + 1] = <<r, n>>
    OBVIOUS
  <1> SUFFICES ASSUME NEW i \in DOMAIN new, NEW j \in DOMAIN new, i < j, new[i][1] = new[j][1]
               PROVE  new[i][2] < new[j][2]
    BY DEF Ordered
  <1>3. i \in DOMAIN log
    BY <1>1
  <1>4. CASE j \in DOMAIN log
    BY <1>1, <1>2, <1>3, <1>4 DEF Ordered
  <1>5. CASE j = Len(log) + 1
    <2>1. log[i] \in In(log) /\ log[i][1] = r
      BY <1>1, <1>2, <1>3, <1>5 DEF In
    <2>2. QED
      BY <1>1, <1>2, <1>3, <1>5, <2>1
  <1>6. QED
    BY <1>1, <1>4, <1>5

\* The least of a set of places.
LEMMA MinIsLeast ==
    ASSUME NEW S \in SUBSET Nat, S # {}
    PROVE  Min(S) \in S /\ \A i \in S : Min(S) <= i
  <1> DEFINE R == OpToRel(<, Nat)
  <1>1. IsWellFoundedOn(R, Nat)
    BY NatLessThanWellFounded
  <1>2. \A p \in Nat, q \in Nat : <<p, q>> \in R <=> p < q
    BY DEF OpToRel
  <1> HIDE DEF R
  <1>3. PICK i \in S : \A j \in S : <<j, i>> \notin R
    BY <1>1, WFMin
  <1>4. ASSUME NEW j \in S PROVE i <= j
    <2>1. i \in Nat /\ j \in Nat /\ ~(j < i)
      BY <1>2, <1>3
    <2>2. QED
      BY <2>1
  <1>5. QED
    BY <1>4 DEF Min

-----------------------------------------------------------------------------
(* The inductive invariant *)

\* What the file of a run holds, or would hold had it refused no line.
Held(q) == In(files[q]) \cup missed

\* Where the counter of a run stands.
Counted ==
    \A r \in Run :
        /\ at[r] = "new" => begun[r] = 0
        /\ at[r] = "working" => begun[r] \in 1 .. LastEvent[r] - 1
        /\ at[r] \in Publishing => begun[r] \in 1 .. LastEvent[r]
        /\ at[r] = "finished" => begun[r] > 0
        /\ at[r] = "finished" /\ r \notin cancelled => begun[r] = LastEvent[r]

\* A client subscribes once, and is dropped only when its connection is lost.
Subscribers ==
    /\ \A i, j \in DOMAIN subscriptions : To(i) = To(j) => i = j
    /\ \A i \in DOMAIN subscriptions :
          /\ request[To(i)].state = "subscribed"
          /\ request[To(i)].scope = subscriptions[i].scope
          /\ i \in dropped => Lost(To(i))
    /\ \A c \in Client :
          request[c].state = "subscribed" => \E i \in DOMAIN subscriptions : To(i) = c
    /\ \A c \in Client : request[c].state = "idle" => inbox[c] = <<>>
    /\ \A r \in Run : \A c \in dead[r] : Lost(c)

\* No log is ahead of the runs; an event under way is in no file yet, and not
\* with the clients that come after the one it waits for.
Numbered ==
    /\ \A q \in Run : \A e \in Held(q) :
          /\ e[2] <= begun[e[1]]
          /\ at[e[1]] \in Publishing => e[2] < begun[e[1]]
    /\ \A c \in Client : \A e \in In(inbox[c]) : e[2] <= begun[e[1]]
    /\ \A r \in Run : at[r] \in Publishing =>
          \A i \in Others(r) : \A e \in In(inbox[To(i)]) : e[1] = r => e[2] < begun[r]
    /\ \A c \in Client, r \in Run : since[c][r] <= begun[r]

InOrders ==
    /\ \A c \in Client : Ordered(inbox[c])
    /\ \A q \in Run : Ordered(files[q])

\* What any file holds is held for its own run; what a client holds is too, or
\* is under way, or lost.
Stored ==
    /\ \A q \in Run : \A e \in Held(q) : e \in Held(e[1])
    /\ \A c \in Client : \A e \in In(inbox[c]) :
          e \in lost \cup InProgress \cup Held(e[1])

\* The first event of a run is kept once it is over, and the last one.
EndsKept ==
    \A r \in Run :
        /\ begun[r] > 0 /\ ~(at[r] \in Publishing /\ begun[r] = 1) =>
              <<r, 1>> \in lost \cup Held(r)
        /\ at[r] = "finished" =>
              \/ <<r, LastEvent[r]>> \in lost \cup Held(r)
              \/ <<r, 1>> \in lost

\* A run that has not been cancelled has every event it began held.
Told ==
    \A r \in Run \ cancelled : \A k \in 1 .. begun[r] : <<r, k>> \in Held(r) \cup InProgress

\* A client that event n of r is for: it subscribed before, and its
\* connection stands.
Due(c, r, n) ==
    /\ request[c].state = "subscribed" /\ ~Lost(c)
    /\ request[c].scope \in {Global, r}
    /\ n > since[c][r]

\* It has every such event that is held, and has or will have the
\* one under way.
Served ==
    \A c \in Client, r \in Run :
        /\ \A e \in Held(r) :
              e[1] = r /\ Due(c, r, e[2]) => e \in In(inbox[c])
        /\ at[r] \in Publishing /\ Due(c, r, begun[r]) =>
              \/ <<r, begun[r]>> \in In(inbox[c])
              \/ \E i \in Others(r) : To(i) = c

IInv ==
    /\ TypeOK
    /\ Counted
    /\ Subscribers
    /\ Numbered
    /\ InOrders
    /\ Stored
    /\ EndsKept
    /\ Told
    /\ Served

\* A held event names its run and its number.
LEMMA HeldEvent ==
    ASSUME TypeOK, NEW q \in Run, NEW e \in Held(q)
    PROVE  e[1] \in Run /\ e[2] \in Nat /\ e = <<e[1], e[2]>> /\ e \in Events
  <1>1. CASE e \in In(files[q])
    BY <1>1, InLog DEF TypeOK
  <1>2. CASE e \in missed
    <2>1. PICK r \in Run : \E k \in 1 .. LastEvent[r] : e = <<r, k>>
      BY <1>2, EventIsPair DEF TypeOK
    <2>2. QED
      BY <1>2, <2>1, Lengths DEF TypeOK
  <1>3. QED
    BY <1>1, <1>2 DEF Held

-----------------------------------------------------------------------------
(* A broadcast *)

\* The places of the subscriptions.
LEMMA Places ==
    ASSUME TypeOK
    PROVE  /\ DOMAIN subscriptions \subseteq Nat
           /\ DOMAIN subscriptions = 1 .. Len(subscriptions)
           /\ \A i \in DOMAIN subscriptions : To(i) \in Client /\ subscriptions[i].scope \in Scope
  <1>1. subscriptions \in Seq([client : Client, scope : Scope])
    BY DEF TypeOK
  <1>2. /\ DOMAIN subscriptions = 1 .. Len(subscriptions) /\ Len(subscriptions) \in Nat
        /\ \A i \in DOMAIN subscriptions : subscriptions[i] \in [client : Client, scope : Scope]
    BY <1>1, Members
  <1>3. QED
    BY <1>2 DEF To

\* The clients at these places have been written to, unless they are lost.
Reached(r, n, places) ==
    \A i \in places : ~Lost(To(i)) => inbox'[To(i)] = Append(inbox[To(i)], <<r, n>>)

\* The broadcast is suspended: the places left begin with the one it waits
\* for; those behind it have been written nothing.
Suspended(r, n, places, broken) ==
    \E left \in SUBSET places :
        /\ left # {} /\ rest' = [rest EXCEPT ![r] = left]
        /\ \E await \in Publishing :
              /\ at' = [at EXCEPT ![r] = await]
              /\ await = "draining" => link[To(Min(left))] = "stuck"
        /\ dead' = [dead EXCEPT ![r] = broken]
        /\ UNCHANGED <<dropped, files, missed>>
        /\ Reached(r, n, places \ (left \ {Min(left)}))
        /\ \A i \in left \ {Min(left)} : inbox'[To(i)] = inbox[To(i)]

\* What a broadcast does, whether it is suspended or not.
Sent(r, n, places, broken) ==
    /\ begun' = [begun EXCEPT ![r] = n]
    /\ UNCHANGED subscriptions
    /\ \A c \in Client :
          \/ inbox'[c] = inbox[c]
          \/ /\ inbox'[c] = Append(inbox[c], <<r, n>>)
             /\ \E i \in places : To(i) = c
    /\ inbox' = [c \in Client |-> inbox'[c]]
    /\ \/ Complete(r, n, broken) /\ Reached(r, n, places)
       \/ Suspended(r, n, places, broken)

\* A broadcast does this.
LEMMA Broadcasting ==
    ASSUME TypeOK, Subscribers, NEW r \in Run, NEW n \in Nat,
           NEW places \in SUBSET (DOMAIN subscriptions), NEW broken,
           Broadcast(r, n, places, broken)
    PROVE  Sent(r, n, places, broken)
  <1> USE DEF Sent
  <1> DEFINE slow    == {i \in places : link[To(i)] # "reading"}
             reached == {i \in places : \A j \in slow : i <= j}
             left    == {i \in places : \E j \in slow : j <= i}
             written == {c \in {To(i) : i \in reached} : ~Lost(c)}
  <1>1. /\ begun' = [begun EXCEPT ![r] = n] /\ UNCHANGED subscriptions
        /\ \A c \in Client :
              inbox'[c] = IF ~Lost(c) /\ \E i \in reached : To(i) = c
                          THEN Append(inbox[c], <<r, n>>) ELSE inbox[c]
        /\ inbox' = [c \in Client |-> inbox'[c]]
    <2>1. /\ begun' = [begun EXCEPT ![r] = n] /\ UNCHANGED subscriptions
          /\ inbox' = [c \in Client |-> IF c \in written THEN Append(inbox[c], <<r, n>>)
                                                         ELSE inbox[c]]
      BY DEF Broadcast
    <2>2. \A c : c \in written <=> ~Lost(c) /\ \E i \in reached : To(i) = c
      OBVIOUS
    <2> HIDE DEF written, reached
    <2>3. QED
      BY <2>1, <2>2
  <1>2. /\ slow = {} => Complete(r, n, broken)
        /\ slow # {} =>
              /\ rest' = [rest EXCEPT ![r] = left]
              /\ at' = [at EXCEPT ![r] = IF Lost(To(Min(slow))) THEN "woken" ELSE "draining"]
              /\ dead' = [dead EXCEPT ![r] = broken]
              /\ UNCHANGED <<dropped, files, missed>>
    <2>1. IF slow = {}
          THEN Complete(r, n, broken)
          ELSE /\ rest' = [rest EXCEPT ![r] = left]
               /\ at' = [at EXCEPT ![r] = IF Lost(To(Min(slow))) THEN "woken" ELSE "draining"]
               /\ dead' = [dead EXCEPT ![r] = broken]
               /\ UNCHANGED <<dropped, files, missed>>
      BY Zenon DEF Broadcast
    <2> HIDE DEF slow, left
    <2>2. QED
      BY <2>1
  <1>3. places \subseteq Nat /\ \A i \in places : i \in DOMAIN subscriptions /\ To(i) \in Client
    BY Places
  <1>4. Reached(r, n, reached)
    BY <1>1, <1>3 DEF Reached
  <1>5. \A c \in Client :
            \/ inbox'[c] = inbox[c]
            \/ inbox'[c] = Append(inbox[c], <<r, n>>) /\ \E i \in places : To(i) = c
    BY <1>1
  <1>6. CASE slow = {}
    <2>1. reached = places
      BY <1>6
    <2>2. QED
      BY <1>1, <1>2, <1>4, <1>5, <1>6, <2>1
  <1>7. CASE slow # {}
    <2> DEFINE m == Min(slow)
    <2>1. m \in slow /\ \A j \in slow : m <= j
      BY <1>3, <1>7, MinIsLeast
    <2> HIDE DEF m
    <2>2. m \in left /\ \A i \in left : m <= i
      <3>1. m \in Nat /\ m \in places
        BY <1>3, <2>1
      <3>2. m \in left
        BY <2>1, <3>1
      <3>3. ASSUME NEW i \in left PROVE m <= i
        <4>1. PICK j \in slow : j <= i
          OBVIOUS
        <4>2. m <= j /\ m \in Nat /\ j \in Nat /\ i \in Nat
          BY <1>3, <2>1, <3>1
        <4>3. QED
          BY <4>1, <4>2
      <3>4. QED
        BY <3>2, <3>3
    <2>3. Min(left) = m
      <3>1. Min(left) \in left /\ Min(left) <= m
        BY <1>3, <2>2, MinIsLeast
      <3>2. m <= Min(left) /\ m \in Nat /\ Min(left) \in Nat
        BY <1>3, <2>1, <2>2, <3>1
      <3>3. QED
        BY <3>1, <3>2
    <2>4. \A i \in places : i \in reached <=> i \notin left \ {m}
      <3>1. ASSUME NEW i \in places, i \in reached, i \in left PROVE i = m
        <4>1. m <= i /\ i <= m /\ i \in Nat /\ m \in Nat
          BY <1>3, <2>1, <2>2, <3>1
        <4>2. QED
          BY <4>1
      <3>2. ASSUME NEW i \in places, i \notin left PROVE i \in reached
        <4>1. \A j \in slow : i \in Nat /\ j \in Nat /\ ~(j <= i)
          BY <1>3, <3>2
        <4>2. QED
          BY <4>1
      <3>3. m \in reached
        BY <2>1
      <3>4. QED
        BY <3>1, <3>2, <3>3
    <2>5. Reached(r, n, places \ (left \ {Min(left)}))
      BY <1>4, <2>3, <2>4 DEF Reached
    <2>6. ASSUME NEW i \in left \ {Min(left)} PROVE inbox'[To(i)] = inbox[To(i)]
      <3>1. i \in places /\ i \notin reached
        BY <2>3, <2>4
      <3>2. ~ \E j \in reached : To(j) = To(i)
        BY <1>3, <3>1 DEF Subscribers
      <3>3. QED
        BY <1>1, <1>3, <3>1, <3>2
    <2>7. ~Lost(To(m)) => link[To(m)] = "stuck"
      BY <1>3, <2>1 DEF TypeOK, Lost
    <2>8. left \in SUBSET places /\ left # {}
      BY <2>2
    <2>9. \E await \in Publishing :
              /\ at' = [at EXCEPT ![r] = await]
              /\ await = "draining" => link[To(Min(left))] = "stuck"
      <3>1. CASE Lost(To(m))
        BY <1>2, <1>7, <3>1 DEF Publishing, m
      <3>2. CASE ~Lost(To(m))
        BY <1>2, <1>7, <2>3, <2>7, <3>2 DEF Publishing, m
      <3>3. QED
        BY <3>1, <3>2
    <2>10. Suspended(r, n, places, broken)
      <3> HIDE DEF left, slow
      <3>1. QED
        BY <1>2, <1>7, <2>5, <2>6, <2>8, <2>9 DEF Suspended
    <2>11. QED
      BY <1>1, <1>5, <2>10
  <1>8. QED
    BY <1>6, <1>7

\* When event n of r may be broadcast to these places: it is the latest of r;
\* they, and the files, have none like it; whoever it is due to is among them
\* or has it; and what clients have of r besides is stored or lost.
Ready(r, n, places, broken) ==
    /\ n \in 1 .. LastEvent[r] /\ begun[r] <= n
    /\ places \subseteq DOMAIN subscriptions
    /\ broken \subseteq {c \in Client : Lost(c)}
    /\ \A q \in Run : \A e \in Held(q) : e[1] = r => e[2] < n
    /\ \A i \in places : \A e \in In(inbox[To(i)]) : e[1] = r => e[2] < n
    /\ n > 1 => <<r, 1>> \in lost' \cup Held(r)
    /\ r \notin cancelled' => \A k \in 1 .. n - 1 : <<r, k>> \in Held(r)
    /\ \A c \in Client : \A e \in In(inbox[c]) :
          e[1] = r => e \in {<<r, n>>} \cup lost' \cup Held(r)
    /\ \A c \in Client :
          Due(c, r, n) => <<r, n>> \in In(inbox[c]) \/ \E i \in places : To(i) = c

\* A broadcast and what its action does besides.
Step(r, n, places, broken) ==
    /\ Ready(r, n, places, broken)
    /\ Broadcast(r, n, places, broken)
    /\ lost \subseteq lost' /\ lost' \subseteq Events
    /\ cancelled \subseteq cancelled' /\ cancelled' \subseteq Run
    /\ UNCHANGED <<link, request, since>>

\* Nobody else is written to.
Spared(places) ==
    \A c \in Client : (\A i \in places : To(i) # c) => In(inbox'[c]) = In(inbox[c])

\* The logs after a broadcast.
LEMMA LogsAfter ==
    ASSUME IInv, NEW r \in Run, NEW n, NEW places, NEW broken, Step(r, n, places, broken)
    PROVE  /\ <<r, n>> \in Events /\ n \in Nat /\ n >= 1
           /\ inbox' \in [Client -> Seq(Events)] /\ files' \in [Run -> Seq(Events)]
           /\ missed' \subseteq Events
           /\ \A c \in Client : In(inbox'[c]) \in {In(inbox[c]), In(inbox[c]) \cup {<<r, n>>}}
           /\ Spared(places)
           /\ \A q \in Run : Held(q)' \in {Held(q), Held(q) \cup {<<r, n>>}}
           /\ \/ /\ Complete(r, n, broken)
                 /\ <<r, n>> \in Held(r)'
                 /\ \A i \in places : ~Lost(To(i)) => <<r, n>> \in In(inbox'[To(i)])
              \/ /\ Suspended(r, n, places, broken)
                 /\ UNCHANGED <<files, missed>>
           /\ InOrders'
  <1>1. <<r, n>> \in Events /\ n \in Nat /\ n >= 1
    <2>1. n \in 1 .. LastEvent[r] /\ LastEvent[r] \in Nat
      BY Lengths DEF Step, Ready
    <2>2. QED
      BY <2>1, EventIsPair
  <1>2. /\ inbox \in [Client -> Seq(Events)] /\ files \in [Run -> Seq(Events)]
        /\ missed \subseteq Events
        /\ places \in SUBSET (DOMAIN subscriptions)
    BY DEF IInv, TypeOK, Step, Ready
  <1>3. /\ \A c \in Client :
              \/ inbox'[c] = inbox[c]
              \/ /\ inbox'[c] = Append(inbox[c], <<r, n>>)
                 /\ \E i \in places : To(i) = c
        /\ inbox' = [c \in Client |-> inbox'[c]]
        /\ (Complete(r, n, broken) /\ Reached(r, n, places)) \/ Suspended(r, n, places, broken)
    <2>1. TypeOK /\ Subscribers /\ Broadcast(r, n, places, broken)
      BY DEF IInv, Step
    <2>2. Sent(r, n, places, broken)
      BY <1>1, <1>2, <2>1, Broadcasting
    <2>3. QED
      BY <2>2 DEF Sent
  <1>4. \A log \in Seq(Events) :
            /\ Append(log, <<r, n>>) \in Seq(Events)
            /\ In(Append(log, <<r, n>>)) = In(log) \cup {<<r, n>>}
    BY <1>1, InAppend
  <1>5. \A c \in Client :
            /\ inbox'[c] \in Seq(Events)
            /\ In(inbox'[c]) \in {In(inbox[c]), In(inbox[c]) \cup {<<r, n>>}}
            /\ (\A i \in places : To(i) # c) => In(inbox'[c]) = In(inbox[c])
    BY <1>2, <1>3, <1>4
  <1>6. inbox' \in [Client -> Seq(Events)]
    BY <1>3, <1>5
  <1>7. /\ files' = [q \in Run |-> files'[q]]
        /\ \A q \in Run : files'[q] \in {files[q], Append(files[q], <<r, n>>)}
        /\ missed' \in {missed, missed \cup {<<r, n>>}}
    <2>1. CASE Complete(r, n, broken)
      BY <2>1 DEF Complete
    <2>2. CASE UNCHANGED <<files, missed>>
      BY <1>2, <2>2
    <2>3. QED
      BY <1>3, <2>1, <2>2 DEF Suspended
  <1>8. \A q \in Run :
            /\ files'[q] \in Seq(Events)
            /\ In(files'[q]) \in {In(files[q]), In(files[q]) \cup {<<r, n>>}}
            /\ Held(q)' \in {Held(q), Held(q) \cup {<<r, n>>}}
    <2>1. \A q \in Run :
              /\ files'[q] \in Seq(Events)
              /\ In(files'[q]) \in {In(files[q]), In(files[q]) \cup {<<r, n>>}}
      BY <1>2, <1>4, <1>7
    <2>2. QED
      BY <1>7, <2>1 DEF Held
  <1>9. files' \in [Run -> Seq(Events)] /\ missed' \subseteq Events
    BY <1>1, <1>2, <1>7, <1>8
  <1>10. ASSUME Complete(r, n, broken), Reached(r, n, places)
         PROVE  /\ <<r, n>> \in Held(r)'
                /\ \A i \in places : ~Lost(To(i)) => <<r, n>> \in In(inbox'[To(i)])
    <2>1. files'[r] = Append(files[r], <<r, n>>) \/ <<r, n>> \in missed'
      BY <1>10 DEF Complete, HasFile
    <2>2. \A i \in places : To(i) \in Client
      BY <1>2, Places DEF IInv
    <2>3. QED
      BY <1>2, <1>4, <1>10, <2>1, <2>2 DEF Reached, Held
  <1>11. InOrders'
    <2>1. ASSUME NEW c \in Client PROVE Ordered(inbox'[c])
      <3>1. CASE inbox'[c] = inbox[c]
        BY <3>1 DEF IInv, InOrders
      <3>2. CASE inbox'[c] = Append(inbox[c], <<r, n>>) /\ \E i \in places : To(i) = c
        <4>1. \A e \in In(inbox[c]) : e[1] = r => e[2] < n
          BY <3>2 DEF Step, Ready
        <4>2. QED
          BY <1>1, <1>2, <3>2, <4>1, OrderedAppend DEF IInv, InOrders
      <3>3. QED
        BY <1>3, <3>1, <3>2
    <2>2. ASSUME NEW q \in Run PROVE Ordered(files'[q])
      <3>1. \A e \in In(files[q]) : e[1] = r => e[2] < n
        BY DEF Step, Ready, Held
      <3>2. Ordered(Append(files[q], <<r, n>>))
        BY <1>1, <1>2, <3>1, OrderedAppend DEF IInv, InOrders
      <3>3. QED
        BY <1>7, <3>2 DEF IInv, InOrders
    <2>3. QED
      BY <2>1, <2>2 DEF InOrders
  <1>12. Suspended(r, n, places, broken) => UNCHANGED <<files, missed>>
    BY DEF Suspended
  <1>13. Spared(places)
    BY <1>5 DEF Spared
  <1>14. QED
    BY <1>1, <1>3, <1>5, <1>6, <1>8, <1>9, <1>10, <1>11, <1>12, <1>13

\* The runs after a broadcast: the other runs are where they were; r is done
\* with the event, or waits for the first of the places left.
RunsMoved(r, n, places, broken) ==
    /\ begun' \in [Run -> Nat] /\ rest' \in [Run -> SUBSET (DOMAIN subscriptions)]
    /\ at' \in [Run -> {"new", "working", "finished"} \cup Publishing]
    /\ dead' \in [Run -> SUBSET Client] /\ dropped' \subseteq DOMAIN subscriptions
    /\ UNCHANGED subscriptions
    /\ begun'[r] = n
    /\ \A q \in Run \ {r} :
          begun'[q] = begun[q] /\ at'[q] = at[q] /\ rest'[q] = rest[q] /\ dead'[q] = dead[q]
    /\ \/ /\ at'[r] = IF n = LastEvent[r] THEN "finished" ELSE "working"
          /\ rest'[r] = {} /\ dead'[r] = {}
          /\ dropped' = dropped \cup {i \in DOMAIN subscriptions : To(i) \in broken}
          /\ <<r, n>> \in Held(r)'
          /\ \A i \in places : ~Lost(To(i)) => <<r, n>> \in In(inbox'[To(i)])
       \/ /\ at'[r] \in Publishing
          /\ rest'[r] # {} /\ rest'[r] \subseteq places
          /\ at'[r] = "draining" => link[To(Min(rest'[r]))] = "stuck"
          /\ dead'[r] = broken
          /\ UNCHANGED <<dropped, files, missed>>
          /\ \A i \in places \ (rest'[r] \ {Min(rest'[r])}) :
                ~Lost(To(i)) => <<r, n>> \in In(inbox'[To(i)])
          /\ \A i \in rest'[r] \ {Min(rest'[r])} : inbox'[To(i)] = inbox[To(i)]

LEMMA RunsAfter ==
    ASSUME IInv, NEW r \in Run, NEW n, NEW places, NEW broken, Step(r, n, places, broken)
    PROVE  RunsMoved(r, n, places, broken)
  <1>1. /\ n \in Nat /\ n >= 1 /\ <<r, n>> \in Events
        /\ \/ /\ Complete(r, n, broken)
              /\ <<r, n>> \in Held(r)'
              /\ \A i \in places : ~Lost(To(i)) => <<r, n>> \in In(inbox'[To(i)])
           \/ Suspended(r, n, places, broken)
    BY LogsAfter
  <1>2. TypeOK /\ places \in SUBSET (DOMAIN subscriptions) /\ broken \subseteq Client
    BY DEF IInv, Step, Ready
  <1>3. begun' = [begun EXCEPT ![r] = n] /\ UNCHANGED subscriptions
    <2>1. Subscribers /\ Broadcast(r, n, places, broken)
      BY DEF IInv, Step
    <2>2. Sent(r, n, places, broken)
      BY <1>1, <1>2, <2>1, Broadcasting
    <2>3. QED
      BY <2>2 DEF Sent
  <1>4. /\ begun' \in [Run -> Nat] /\ begun'[r] = n
        /\ \A q \in Run \ {r} : begun'[q] = begun[q]
    BY <1>1, <1>2, <1>3 DEF TypeOK
  <1>5. CASE /\ Complete(r, n, broken)
             /\ <<r, n>> \in Held(r)'
             /\ \A i \in places : ~Lost(To(i)) => <<r, n>> \in In(inbox'[To(i)])
    <2>1. /\ at' = [at EXCEPT ![r] = IF n = LastEvent[r] THEN "finished" ELSE "working"]
          /\ rest' = [rest EXCEPT ![r] = {}]
          /\ dead' = [dead EXCEPT ![r] = {}]
          /\ dropped' = dropped \cup {i \in DOMAIN subscriptions : To(i) \in broken}
      BY <1>5 DEF Complete
    <2>2. /\ at' \in [Run -> {"new", "working", "finished"} \cup Publishing]
          /\ rest' \in [Run -> SUBSET (DOMAIN subscriptions)]
          /\ dead' \in [Run -> SUBSET Client] /\ dropped' \subseteq DOMAIN subscriptions
          /\ at'[r] = IF n = LastEvent[r] THEN "finished" ELSE "working"
          /\ rest'[r] = {} /\ dead'[r] = {}
          /\ \A q \in Run \ {r} : at'[q] = at[q] /\ rest'[q] = rest[q] /\ dead'[q] = dead[q]
      BY <1>2, <2>1 DEF TypeOK
    <2>3. QED
      BY <1>3, <1>4, <1>5, <2>1, <2>2 DEF RunsMoved
  <1>6. CASE Suspended(r, n, places, broken)
    <2>1. PICK left \in SUBSET places :
              /\ left # {} /\ rest' = [rest EXCEPT ![r] = left]
              /\ \E await \in Publishing :
                    /\ at' = [at EXCEPT ![r] = await]
                    /\ await = "draining" => link[To(Min(left))] = "stuck"
              /\ dead' = [dead EXCEPT ![r] = broken]
              /\ UNCHANGED <<dropped, files, missed>>
              /\ Reached(r, n, places \ (left \ {Min(left)}))
              /\ \A i \in left \ {Min(left)} : inbox'[To(i)] = inbox[To(i)]
      BY <1>6 DEF Suspended
    <2>2. /\ at' \in [Run -> {"new", "working", "finished"} \cup Publishing]
          /\ at'[r] \in Publishing
          /\ at'[r] = "draining" => link[To(Min(left))] = "stuck"
          /\ \A q \in Run \ {r} : at'[q] = at[q]
      BY <1>2, <2>1 DEF TypeOK
    <2>3. /\ rest' \in [Run -> SUBSET (DOMAIN subscriptions)]
          /\ dead' \in [Run -> SUBSET Client] /\ dropped' \subseteq DOMAIN subscriptions
          /\ rest'[r] = left /\ dead'[r] = broken
          /\ \A q \in Run \ {r} : rest'[q] = rest[q] /\ dead'[q] = dead[q]
      BY <1>2, <2>1 DEF TypeOK
    <2>4. ASSUME NEW i \in places \ (left \ {Min(left)}), ~Lost(To(i))
          PROVE  <<r, n>> \in In(inbox'[To(i)])
      <3>1. inbox'[To(i)] = Append(inbox[To(i)], <<r, n>>)
        BY <2>1, <2>4 DEF Reached
      <3>2. inbox[To(i)] \in Seq(Events)
        BY <1>2, Places DEF TypeOK
      <3>3. QED
        BY <1>1, <3>1, <3>2, InAppend
    <2>5. QED
      BY <1>3, <1>4, <2>1, <2>2, <2>3, <2>4 DEF RunsMoved
  <1>7. QED
    BY <1>1, <1>5, <1>6

\* Whatever is not about r is as it was, and nothing gets lost.
Grown(r, n) ==
    /\ n \in Nat /\ n \in 1 .. LastEvent[r] /\ begun[r] <= n /\ <<r, n>> \in Events
    /\ begun'[r] = n
    /\ \A q \in Run \ {r} :
          begun'[q] = begun[q] /\ at'[q] = at[q] /\ rest'[q] = rest[q] /\ dead'[q] = dead[q]
    /\ \A c \in Client : In(inbox'[c]) \in {In(inbox[c]), In(inbox[c]) \cup {<<r, n>>}}
    /\ \A q \in Run : Held(q)' \in {Held(q), Held(q) \cup {<<r, n>>}}
    /\ lost \subseteq lost' /\ cancelled \subseteq cancelled'
    /\ \A q \in Run : begun[q] \in Nat /\ begun[q] <= begun'[q]
    /\ UNCHANGED <<subscriptions, link, request, since>>

LEMMA Grows ==
    ASSUME IInv, NEW r \in Run, NEW n, NEW places, NEW broken, Step(r, n, places, broken)
    PROVE  Grown(r, n)
  <1>1. RunsMoved(r, n, places, broken)
    BY RunsAfter
  <1>2. n \in 1 .. LastEvent[r] /\ begun[r] <= n
    BY DEF Step, Ready
  <1>3. \A q \in Run : begun[q] \in Nat
    BY DEF IInv, TypeOK
  <1>4. \A q \in Run : begun[q] <= begun'[q]
    BY <1>1, <1>2, <1>3 DEF RunsMoved
  <1>5. /\ n \in Nat /\ <<r, n>> \in Events
        /\ \A c \in Client : In(inbox'[c]) \in {In(inbox[c]), In(inbox[c]) \cup {<<r, n>>}}
        /\ \A q \in Run : Held(q)' \in {Held(q), Held(q) \cup {<<r, n>>}}
    BY LogsAfter
  <1>6. lost \subseteq lost' /\ cancelled \subseteq cancelled' /\ UNCHANGED <<link, request, since>>
    BY DEF Step
  <1>7. QED
    BY <1>1, <1>2, <1>3, <1>4, <1>5, <1>6 DEF Grown, RunsMoved

\* What a run waits for does not change while others publish.
LEMMA OthersWait ==
    ASSUME NEW r \in Run, NEW n, Grown(r, n), NEW q \in Run, q # r
    PROVE  Others(q)' = Others(q) /\ Awaited(q)' = Awaited(q)
  BY DEF Grown, Others, Awaited, To

LEMMA StepType ==
    ASSUME IInv, NEW r \in Run, NEW n, NEW places, NEW broken, Step(r, n, places, broken)
    PROVE  TypeOK' /\ Counted'
  <1>1. Grown(r, n) /\ RunsMoved(r, n, places, broken)
    BY Grows, RunsAfter
  <1>2. TypeOK /\ Counted
    BY DEF IInv
  <1>3. /\ link' \in [Client -> {"reading", "stuck", "gone", "closed"}]
        /\ request' \in [Client -> [state : {"idle", "replaying", "subscribed", "failed"},
                                    from : Run \cup {Nobody}, scope : Scope]]
        /\ since' \in [Client -> [Run -> Nat]]
        /\ subscriptions' \in Seq([client : Client, scope : Scope])
        /\ lost' \subseteq Events /\ cancelled' \subseteq Run
    BY <1>1, <1>2 DEF TypeOK, Grown, Step
  <1>4. /\ inbox' \in [Client -> Seq(Events)] /\ files' \in [Run -> Seq(Events)]
        /\ missed' \subseteq Events
    BY LogsAfter
  <1>5. \A q \in Run : begun'[q] <= LastEvent[q]
    <2>1. n <= LastEvent[r]
      BY <1>1, Lengths DEF Grown
    <2>2. QED
      BY <1>1, <1>2, <2>1 DEF TypeOK, Grown
  <1>6. ASSUME NEW q \in Run
        PROVE  /\ at'[q] \in Publishing <=> rest'[q] # {}
               /\ at'[q] = "draining" => link'[Awaited(q)'] = "stuck"
    <2>1. CASE q = r
      <3>1. Awaited(r)' = To(Min(rest'[r])) /\ link' = link
        BY <1>1 DEF Awaited, To, Grown
      <3>2. QED
        BY <1>1, <2>1, <3>1 DEF RunsMoved, Publishing
    <2>2. CASE q # r
      <3>1. Awaited(q)' = Awaited(q)
        BY <1>1, <2>2, OthersWait
      <3>2. QED
        BY <1>1, <1>2, <2>2, <3>1 DEF TypeOK, Grown
    <2>3. QED
      BY <2>1, <2>2
  <1>7. TypeOK'
    BY <1>1, <1>3, <1>4, <1>5, <1>6 DEF TypeOK, RunsMoved
  <1>8. Counted'
    <2>1. LastEvent[r] \in Nat
      BY Lengths
    <2>2. /\ at'[r] # "new"
          /\ at'[r] = "working" => begun'[r] \in 1 .. LastEvent[r] - 1
          /\ at'[r] \in Publishing => begun'[r] \in 1 .. LastEvent[r]
          /\ at'[r] = "finished" => begun'[r] = LastEvent[r]
      BY <1>1, <2>1 DEF RunsMoved, Publishing, Grown
    <2>3. QED
      BY <1>1, <1>2, <2>2 DEF Counted, Grown
  <1>9. QED
    BY <1>7, <1>8

LEMMA StepSubscribers ==
    ASSUME IInv, NEW r \in Run, NEW n, NEW places, NEW broken, Step(r, n, places, broken)
    PROVE  Subscribers'
  <1>1. Grown(r, n) /\ RunsMoved(r, n, places, broken)
    BY Grows, RunsAfter
  <1>2. Subscribers /\ TypeOK /\ broken \subseteq {c \in Client : Lost(c)}
    BY DEF IInv, Step, Ready
  <1>3. /\ \A i : To(i)' = To(i)
        /\ \A c : Lost(c)' = Lost(c)
        /\ subscriptions' = subscriptions /\ request' = request
    BY <1>1 DEF Grown, To, Lost
  <1>4. \A i \in DOMAIN subscriptions : i \in dropped' => Lost(To(i))
    BY <1>1, <1>2 DEF RunsMoved, Subscribers
  <1>5. \A q \in Run : \A c \in dead'[q] : Lost(c)
    BY <1>1, <1>2 DEF RunsMoved, Subscribers
  <1>6. ASSUME NEW c \in Client, request[c].state = "idle" PROVE inbox'[c] = <<>>
    <2>1. \A i \in places : To(i) # c
      BY <1>2, <1>6 DEF Subscribers, Step, Ready
    <2>2. Spared(places) /\ inbox' \in [Client -> Seq(Events)]
      BY LogsAfter
    <2>3. In(inbox[c]) = {}
      BY <1>2, <1>6, EmptyLog DEF Subscribers, TypeOK
    <2>4. QED
      BY <2>1, <2>2, <2>3, EmptyLog DEF Spared
  <1>7. QED
    BY <1>2, <1>3, <1>4, <1>5, <1>6 DEF Subscribers

LEMMA StepNumbered ==
    ASSUME IInv, NEW r \in Run, NEW n, NEW places, NEW broken, Step(r, n, places, broken)
    PROVE  Numbered'
  <1>1. Grown(r, n) /\ RunsMoved(r, n, places, broken)
    BY Grows, RunsAfter
  <1>2. Numbered /\ TypeOK /\ Ready(r, n, places, broken)
    BY DEF IInv, Step
  <1>3. /\ \A i : To(i)' = To(i)
        /\ subscriptions' = subscriptions /\ since' = since
    BY <1>1 DEF Grown, To
  <1>4. \A log : log \in Seq(Events) => \A e \in In(log) :
            e[1] \in Run /\ e[2] \in Nat /\ e = <<e[1], e[2]>>
    BY InLog
  <1>10. \A q \in Run : \A e \in Held(q) : e[1] \in Run /\ e[2] \in Nat
    BY <1>2, HeldEvent
  <1>5. /\ \A q \in Run : files[q] \in Seq(Events)
        /\ \A c \in Client : inbox[c] \in Seq(Events)
        /\ \A q \in Run : begun[q] \in Nat /\ begun'[q] \in Nat /\ begun[q] <= begun'[q]
    BY <1>1, <1>2 DEF TypeOK, Grown
  <1>6. ASSUME NEW q \in Run, NEW e \in Held(q)'
        PROVE  /\ e[2] <= begun'[e[1]]
               /\ at'[e[1]] \in Publishing => e[2] < begun'[e[1]]
    <2>1. CASE e \in Held(q)
      <3>1. e[1] \in Run /\ e[2] \in Nat /\ e[2] <= begun[e[1]]
        BY <1>2, <1>10, <2>1 DEF Numbered
      <3>2. CASE e[1] = r
        BY <1>1, <1>2, <2>1, <3>1, <3>2 DEF Ready, Grown
      <3>3. CASE e[1] # r
        BY <1>1, <1>2, <2>1, <3>1, <3>3 DEF Numbered, Grown
      <3>4. QED
        BY <3>2, <3>3
    <2>2. CASE e = <<r, n>> /\ e \notin Held(q)
      <3>1. at'[r] \notin Publishing
        BY <1>1, <2>2 DEF RunsMoved, Publishing, Held
      <3>2. QED
        BY <1>1, <2>2, <3>1 DEF Grown
    <2>3. QED
      BY <1>1, <2>1, <2>2 DEF Grown
  <1>7. ASSUME NEW c \in Client, NEW e \in In(inbox'[c]) PROVE e[2] <= begun'[e[1]]
    <2>1. CASE e \in In(inbox[c])
      <3>1. e[1] \in Run /\ e[2] \in Nat /\ e[2] <= begun[e[1]]
        BY <1>2, <1>4, <1>5, <2>1 DEF Numbered
      <3>2. QED
        BY <1>5, <3>1
    <2>2. CASE e = <<r, n>>
      BY <1>1, <2>2 DEF Grown
    <2>3. QED
      BY <1>1, <2>1, <2>2 DEF Grown
  <1>8. ASSUME NEW q \in Run, at'[q] \in Publishing, NEW i \in Others(q)',
               NEW e \in In(inbox'[To(i)]), e[1] = q
        PROVE  e[2] < begun'[q]
    <2>1. CASE q = r
      <3>1. i \in places /\ inbox'[To(i)] = inbox[To(i)]
        BY <1>1, <1>8, <2>1 DEF RunsMoved, Others, Publishing
      <3>2. QED
        BY <1>1, <1>2, <1>8, <2>1, <3>1 DEF Ready, Grown
    <2>2. CASE q # r
      <3>1. i \in Others(q) /\ To(i) \in Client
        <4>1. i \in Others(q)
          BY <1>1, <1>8, <2>2, OthersWait
        <4>2. i \in DOMAIN subscriptions
          BY <1>2, <4>1 DEF Others, TypeOK
        <4>3. QED
          BY <1>2, <4>1, <4>2, Places
      <3>2. e \in In(inbox[To(i)])
        BY <1>1, <1>8, <2>2, <3>1 DEF Grown
      <3>3. QED
        BY <1>1, <1>2, <1>8, <2>2, <3>1, <3>2 DEF Numbered, Grown
    <2>3. QED
      BY <2>1, <2>2
  <1>9. \A c \in Client, q \in Run : since'[c][q] <= begun'[q]
    BY <1>2, <1>3, <1>5 DEF Numbered, TypeOK
  <1>11. QED
    BY <1>3, <1>6, <1>7, <1>8, <1>9 DEF Numbered

LEMMA StepStored ==
    ASSUME IInv, NEW r \in Run, NEW n, NEW places, NEW broken, Step(r, n, places, broken)
    PROVE  Stored'
  <1>1. Grown(r, n) /\ RunsMoved(r, n, places, broken)
    BY Grows, RunsAfter
  <1>2. Stored /\ Ready(r, n, places, broken)
    BY DEF IInv, Step
  <1>3. /\ \A q \in Run : files[q] \in Seq(Events)
        /\ \A c \in Client : inbox[c] \in Seq(Events)
        /\ TypeOK
    BY DEF IInv, TypeOK
  <1>4. <<r, n>> \in Held(r)' \/ at'[r] \in Publishing
    BY <1>1 DEF RunsMoved
  <1>5. ASSUME NEW q \in Run, NEW e \in Held(q)' PROVE e \in Held(e[1])'
    <2>1. CASE e \in Held(q)
      <3>1. e[1] \in Run /\ e \in Held(e[1])
        BY <1>2, <1>3, <2>1, HeldEvent DEF Stored
      <3>2. QED
        BY <1>1, <3>1 DEF Grown
    <2>2. CASE e = <<r, n>> /\ e \notin Held(q)
      BY <1>1, <2>2 DEF RunsMoved, Held
    <2>3. QED
      BY <1>1, <2>1, <2>2 DEF Grown
  <1>6. ASSUME NEW c \in Client, NEW e \in In(inbox'[c])
        PROVE  e \in lost' \cup InProgress' \cup Held(e[1])'
    <2>1. CASE e = <<r, n>>
      <3>1. CASE at'[r] \in Publishing
        BY <1>1, <2>1, <3>1 DEF InProgress, Grown
      <3>2. QED
        BY <1>4, <2>1, <3>1
    <2>2. CASE e \in In(inbox[c])
      <3>1. e[1] \in Run /\ e = <<e[1], e[2]>>
        BY <1>3, <2>2, InLog
      <3>2. CASE e[1] = r
        <4>1. e \in {<<r, n>>} \cup lost' \cup Held(r)
          BY <1>2, <2>2, <3>2 DEF Ready
        <4>2. QED
          BY <1>1, <2>1, <3>2, <4>1 DEF Grown
      <3>3. CASE e[1] # r
        <4>1. e \in lost \cup InProgress \cup Held(e[1])
          BY <1>2, <2>2 DEF Stored
        <4>2. e \in InProgress => e \in InProgress'
          BY <1>1, <3>1, <3>3 DEF InProgress, Grown
        <4>3. QED
          BY <1>1, <3>1, <4>1, <4>2 DEF Grown
      <3>4. QED
        BY <3>2, <3>3
    <2>3. QED
      BY <1>1, <2>1, <2>2 DEF Grown
  <1>7. QED
    BY <1>5, <1>6 DEF Stored

LEMMA StepEndsKept ==
    ASSUME IInv, NEW r \in Run, NEW n, NEW places, NEW broken, Step(r, n, places, broken)
    PROVE  EndsKept'
  <1>1. Grown(r, n) /\ RunsMoved(r, n, places, broken)
    BY Grows, RunsAfter
  <1>2. EndsKept /\ Ready(r, n, places, broken)
    BY DEF IInv, Step
  <1>3. ASSUME NEW q \in Run
        PROVE  /\ begun'[q] > 0 /\ ~(at'[q] \in Publishing /\ begun'[q] = 1) =>
                      <<q, 1>> \in lost' \cup Held(q)'
               /\ at'[q] = "finished" =>
                      \/ <<q, LastEvent[q]>> \in lost' \cup Held(q)'
                      \/ <<q, 1>> \in lost'
    <2>1. CASE q # r
      BY <1>1, <1>2, <2>1 DEF EndsKept, Grown
    <2>2. CASE q = r
      <3>1. CASE n > 1
        <4>1. <<r, 1>> \in lost' \cup Held(r)'
          BY <1>1, <1>2, <3>1 DEF Ready, Grown
        <4>2. at'[r] = "finished" => n = LastEvent[r] /\ <<r, n>> \in Held(r)'
          BY <1>1 DEF RunsMoved, Publishing
        <4>3. QED
          BY <2>2, <4>1, <4>2
      <3>2. CASE n = 1
        <4>1. at'[r] \notin Publishing => <<r, 1>> \in Held(r)'
          BY <1>1, <3>2 DEF RunsMoved
        <4>2. at'[r] # "finished"
          BY <1>1, <3>2, Lengths DEF RunsMoved, Publishing
        <4>3. QED
          BY <1>1, <2>2, <3>2, <4>1, <4>2 DEF Grown
      <3>3. QED
        BY <1>1, <3>1, <3>2 DEF Grown
    <2>3. QED
      BY <2>1, <2>2
  <1>4. QED
    BY <1>3 DEF EndsKept

LEMMA StepTold ==
    ASSUME IInv, NEW r \in Run, NEW n, NEW places, NEW broken, Step(r, n, places, broken)
    PROVE  Told'
  <1>1. Grown(r, n) /\ RunsMoved(r, n, places, broken)
    BY Grows, RunsAfter
  <1>2. Told /\ Ready(r, n, places, broken)
    BY DEF IInv, Step
  <1>3. ASSUME NEW q \in Run \ cancelled', NEW k \in 1 .. begun'[q]
        PROVE  <<q, k>> \in Held(q)' \cup InProgress'
    <2>1. CASE q # r
      <3>1. q \in Run \ cancelled /\ k \in 1 .. begun[q]
        BY <1>1, <1>3, <2>1 DEF Grown
      <3>2. <<q, k>> \in Held(q) \cup InProgress
        BY <1>2, <3>1 DEF Told
      <3>3. <<q, k>> \in InProgress => <<q, k>> \in InProgress'
        BY <1>1, <2>1 DEF InProgress, Grown
      <3>4. QED
        BY <1>1, <3>2, <3>3 DEF Grown
    <2>2. CASE q = r /\ k # n
      <3>1. k \in 1 .. n - 1
        BY <1>1, <1>3, <2>2 DEF Grown
      <3>2. <<r, k>> \in Held(r)
        BY <1>2, <1>3, <2>2, <3>1 DEF Ready
      <3>3. QED
        BY <1>1, <2>2, <3>2 DEF Grown
    <2>3. CASE q = r /\ k = n
      <3>1. <<r, n>> \in Held(r)' \/ at'[r] \in Publishing
        BY <1>1 DEF RunsMoved
      <3>2. QED
        BY <1>1, <2>3, <3>1 DEF InProgress, Grown
    <2>4. QED
      BY <2>1, <2>2, <2>3
  <1>4. QED
    BY <1>3 DEF Told

LEMMA StepServed ==
    ASSUME IInv, NEW r \in Run, NEW n, NEW places, NEW broken, Step(r, n, places, broken)
    PROVE  Served'
  <1>1. Grown(r, n) /\ RunsMoved(r, n, places, broken)
    BY Grows, RunsAfter
  <1>2. Served /\ TypeOK /\ Ready(r, n, places, broken)
    BY DEF IInv, Step
  <1>3. \A c, q, k : Due(c, q, k)' = Due(c, q, k)
    BY <1>1 DEF Due, Lost, Grown
  <1>4. \A i : To(i)' = To(i)
    BY <1>1 DEF To, Grown
  <1>5. \A c \in Client : Due(c, r, n) /\ <<r, n>> \notin In(inbox[c]) =>
            \E i \in places : To(i) = c /\ ~Lost(To(i))
    BY <1>2 DEF Ready, Due
  <1>6. ASSUME NEW c \in Client, NEW q \in Run, NEW e \in Held(q)',
               e[1] = q, Due(c, q, e[2])
        PROVE  e \in In(inbox'[c])
    <2>1. CASE e \in Held(q)
      <3>1. e \in In(inbox[c])
        BY <1>2, <1>6, <2>1 DEF Served
      <3>2. QED
        BY <1>1, <3>1 DEF Grown
    <2>2. CASE e = <<r, n>> /\ e \notin Held(q)
      <3>1. q = r /\ Due(c, r, n)
        BY <1>6, <2>2
      <3>2. \A i \in places : ~Lost(To(i)) => <<r, n>> \in In(inbox'[To(i)])
        BY <1>1, <2>2 DEF RunsMoved, Held
      <3>3. CASE <<r, n>> \in In(inbox[c])
        BY <1>1, <2>2, <3>3 DEF Grown
      <3>4. CASE <<r, n>> \notin In(inbox[c])
        BY <1>5, <2>2, <3>1, <3>2, <3>4
      <3>5. QED
        BY <3>3, <3>4
    <2>3. QED
      BY <1>1, <2>1, <2>2 DEF Grown
  <1>7. ASSUME NEW c \in Client, NEW q \in Run, at'[q] \in Publishing, Due(c, q, begun'[q])
        PROVE  \/ <<q, begun'[q]>> \in In(inbox'[c])
               \/ \E i \in Others(q)' : To(i) = c
    <2>1. CASE q # r
      <3>1. \/ <<q, begun[q]>> \in In(inbox[c])
            \/ \E i \in Others(q) : To(i) = c
        BY <1>1, <1>2, <1>7, <2>1 DEF Served, Grown
      <3>2. Others(q)' = Others(q)
        BY <1>1, <2>1, OthersWait
      <3>3. QED
        BY <1>1, <2>1, <3>1, <3>2 DEF Grown
    <2>2. CASE q = r
      <3>1. Others(r)' = rest'[r] \ {Min(rest'[r])}
        BY DEF Others
      <3>2. \A i \in places \ Others(r)' : ~Lost(To(i)) => <<r, n>> \in In(inbox'[To(i)])
        BY <1>1, <1>7, <2>2, <3>1 DEF RunsMoved, Publishing
      <3>3. begun'[r] = n /\ Due(c, r, n)
        BY <1>1, <1>7, <2>2 DEF Grown
      <3>4. CASE <<r, n>> \in In(inbox[c])
        BY <1>1, <2>2, <3>3, <3>4 DEF Grown
      <3>5. CASE <<r, n>> \notin In(inbox[c])
        BY <1>5, <2>2, <3>2, <3>3, <3>5
      <3>6. QED
        BY <3>4, <3>5
    <2>3. QED
      BY <2>1, <2>2
  <1>8. QED
    BY <1>3, <1>4, <1>6, <1>7 DEF Served

\* A broadcast that was ready keeps the invariant.
LEMMA StepKeepsInv ==
    ASSUME IInv, NEW r \in Run, NEW n, NEW places, NEW broken, Step(r, n, places, broken)
    PROVE  IInv'
  <1>1. InOrders'
    BY LogsAfter
  <1>2. QED
    BY <1>1, StepType, StepSubscribers, StepNumbered, StepStored, StepEndsKept, StepTold,
       StepServed DEF IInv

-----------------------------------------------------------------------------
(* The actions of a run *)

\* An event that comes after all others of r may be broadcast to everybody it
\* is for, if the one under way is given up.
LEMMA AudienceReady ==
    ASSUME IInv, NEW r \in Run, NEW n, n \in 1 .. LastEvent[r], begun[r] < n,
           n > 1 => begun[r] > 0 /\ ~(at[r] \in Publishing /\ begun[r] = 1),
           at[r] \in Publishing => <<r, begun[r]>> \in lost', lost \subseteq lost',
           r \notin cancelled' =>
               r \notin cancelled /\ at[r] \notin Publishing /\ n = begun[r] + 1
    PROVE  Ready(r, n, Audience(r), {})
  <1>1. TypeOK /\ Subscribers /\ Numbered /\ Stored /\ EndsKept /\ Told
    BY DEF IInv
  <1>2. /\ n \in Nat /\ begun[r] \in Nat
        /\ \A q \in Run : files[q] \in Seq(Events)
        /\ \A c \in Client : inbox[c] \in Seq(Events)
    BY <1>1, Lengths DEF TypeOK
  <1>3. /\ Audience(r) \subseteq DOMAIN subscriptions
        /\ \A i \in DOMAIN subscriptions : To(i) \in Client
    BY <1>1, Places DEF Audience
  <1>4. ASSUME NEW q \in Run, NEW e \in Held(q), e[1] = r PROVE e[2] < n
    <2>1. e[2] \in Nat /\ e[2] <= begun[r]
      BY <1>1, <1>2, <1>4, HeldEvent DEF Numbered
    <2>2. QED
      BY <1>2, <2>1
  <1>5. ASSUME NEW c \in Client, NEW e \in In(inbox[c]), e[1] = r PROVE e[2] < n
    <2>1. e[2] \in Nat /\ e[2] <= begun[r]
      BY <1>1, <1>2, <1>5, InLog DEF Numbered
    <2>2. QED
      BY <1>2, <2>1
  <1>6. ASSUME n > 1 PROVE <<r, 1>> \in lost' \cup Held(r)
    BY <1>1, <1>6 DEF EndsKept
  <1>7. ASSUME NEW c \in Client, NEW e \in In(inbox[c]), e[1] = r
        PROVE  e \in lost' \cup Held(r)
    <2>1. e \in lost \cup InProgress \cup Held(r)
      BY <1>1, <1>7 DEF Stored
    <2>2. e \in InProgress => at[r] \in Publishing /\ e = <<r, begun[r]>>
      BY <1>7 DEF InProgress
    <2>3. QED
      BY <2>1, <2>2
  <1>8. ASSUME NEW c \in Client, Due(c, r, n) PROVE \E i \in Audience(r) : To(i) = c
    <2>1. PICK i \in DOMAIN subscriptions : To(i) = c
      BY <1>1, <1>8 DEF Subscribers, Due
    <2>2. i \notin dropped /\ subscriptions[i].scope \in {Global, r}
      BY <1>1, <1>8, <2>1 DEF Subscribers, Due
    <2>3. QED
      BY <2>1, <2>2 DEF Audience
  <1>9. begun[r] <= n
    BY <1>2
  <1>10. ASSUME r \notin cancelled', NEW k \in 1 .. n - 1 PROVE <<r, k>> \in Held(r)
    <2>1. k \in 1 .. begun[r] /\ r \in Run \ cancelled /\ at[r] \notin Publishing
      BY <1>2, <1>10
    <2>2. <<r, k>> \in Held(r) \cup InProgress
      BY <1>1, <2>1 DEF Told
    <2>3. <<r, k>> \notin InProgress
      BY <2>1 DEF InProgress
    <2>4. QED
      BY <2>2, <2>3
  <1>11. QED
    BY <1>3, <1>4, <1>5, <1>6, <1>7, <1>8, <1>9, <1>10 DEF Ready

LEMMA BeginKeepsInv ==
    ASSUME IInv, NEW r \in Run, Begin(r)
    PROVE  IInv'
  <1> DEFINE n == begun[r] + 1
  <1>1. LastEvent[r] \in Nat /\ LastEvent[r] >= 2 /\ begun[r] \in Nat
    BY Lengths DEF IInv, TypeOK
  <1>2. begun[r] = 0 \/ begun[r] \in 1 .. LastEvent[r] - 1
    BY DEF IInv, Counted, Begin
  <1>3. n \in 1 .. LastEvent[r] /\ begun[r] < n /\ (n > 1 => begun[r] > 0)
    BY <1>1, <1>2
  <1>4. at[r] \notin Publishing
    BY DEF Begin, Publishing
  <1>5. /\ Broadcast(r, n, Audience(r), {})
        /\ UNCHANGED <<link, request, cancelled, lost, since>>
    BY DEF Begin
  <1>9. n = begun[r] + 1
    OBVIOUS
  <1> HIDE DEF n
  <1>6. Ready(r, n, Audience(r), {})
    BY <1>3, <1>4, <1>5, <1>9, AudienceReady
  <1>7. lost' \subseteq Events /\ cancelled' \subseteq Run
    BY <1>5 DEF IInv, TypeOK
  <1>8. QED
    BY <1>5, <1>6, <1>7, StepKeepsInv DEF Step

LEMMA ContinueKeepsInv ==
    ASSUME IInv, NEW r \in Run, Continue(r)
    PROVE  IInv'
  <1>1. PICK broken \in SUBSET ({Awaited(r)} \cap {c \in Client : Lost(c)}) :
            Broadcast(r, begun[r], Others(r), dead[r] \cup broken)
    BY DEF Continue
  <1>2. at[r] \in Publishing /\ UNCHANGED <<link, request, cancelled, lost, since>>
    BY DEF Continue, Publishing
  <1>3. /\ TypeOK /\ Counted /\ Subscribers /\ Numbered /\ Stored /\ EndsKept /\ Told
        /\ Served
    BY DEF IInv
  <1>4. /\ begun[r] \in Nat /\ begun[r] \in 1 .. LastEvent[r]
        /\ Others(r) \subseteq DOMAIN subscriptions
        /\ lost' \subseteq Events /\ cancelled' \subseteq Run
        /\ dead[r] \subseteq Client
    BY <1>2, <1>3 DEF TypeOK, Counted, Others
  <1>5. dead[r] \cup broken \subseteq {c \in Client : Lost(c)}
    BY <1>3, <1>4 DEF Subscribers
  <1>6. \A q \in Run : \A e \in Held(q) : e[1] = r => e[2] < begun[r]
    BY <1>2, <1>3 DEF Numbered
  <1>7. \A i \in Others(r) : \A e \in In(inbox[To(i)]) : e[1] = r => e[2] < begun[r]
    BY <1>2, <1>3 DEF Numbered
  <1>8. ASSUME begun[r] > 1 PROVE <<r, 1>> \in lost' \cup Held(r)
    <2>1. begun[r] > 0 /\ begun[r] # 1
      BY <1>4, <1>8
    <2>2. QED
      BY <1>2, <1>3, <2>1 DEF EndsKept
  <1>9. ASSUME NEW c \in Client, NEW e \in In(inbox[c]), e[1] = r
        PROVE  e \in {<<r, begun[r]>>} \cup lost' \cup Held(r)
    <2>1. e \in lost \cup InProgress \cup Held(r)
      BY <1>3, <1>9 DEF Stored
    <2>2. e \in InProgress => e = <<r, begun[r]>>
      BY <1>9 DEF InProgress
    <2>3. QED
      BY <1>2, <2>1, <2>2
  <1>10. \A c \in Client : Due(c, r, begun[r]) =>
             <<r, begun[r]>> \in In(inbox[c]) \/ \E i \in Others(r) : To(i) = c
    BY <1>2, <1>3 DEF Served
  <1>14. ASSUME r \notin cancelled', NEW k \in 1 .. begun[r] - 1 PROVE <<r, k>> \in Held(r)
    <2>1. k \in 1 .. begun[r] /\ k # begun[r] /\ r \in Run \ cancelled
      BY <1>2, <1>4, <1>14
    <2>2. <<r, k>> \in Held(r) \cup InProgress
      BY <1>3, <2>1 DEF Told
    <2>3. <<r, k>> \notin InProgress
      BY <2>1 DEF InProgress
    <2>4. QED
      BY <2>2, <2>3
  <1>11. Ready(r, begun[r], Others(r), dead[r] \cup broken)
    BY <1>4, <1>5, <1>6, <1>7, <1>8, <1>9, <1>10, <1>14 DEF Ready
  <1>12. Step(r, begun[r], Others(r), dead[r] \cup broken)
    BY <1>1, <1>2, <1>4, <1>11 DEF Step
  <1>13. QED
    BY <1>12, StepKeepsInv

\* A cancellation that abandons the first or the last event.
LEMMA AbandonKeepsInv ==
    ASSUME IInv, NEW r \in Run, at[r] \in Publishing, begun[r] \in {1, LastEvent[r]},
           at' = [at EXCEPT ![r] = "finished"],
           rest' = [rest EXCEPT ![r] = {}], dead' = [dead EXCEPT ![r] = {}],
           lost' = lost \cup {<<r, begun[r]>>}, cancelled' \subseteq Run,
           cancelled' = cancelled \cup {r},
           UNCHANGED <<begun, files, missed, subscriptions, dropped, inbox, link, request, since>>
    PROVE  IInv'
  <1>1. /\ TypeOK /\ Counted /\ Subscribers /\ Numbered /\ InOrders /\ Stored /\ EndsKept
        /\ Told /\ Served
    BY DEF IInv
  <1>2. /\ at' \in [Run -> {"new", "working", "finished"} \cup Publishing]
        /\ at'[r] = "finished" /\ at'[r] \notin Publishing
        /\ \A q \in Run \ {r} : at'[q] = at[q] /\ rest'[q] = rest[q] /\ dead'[q] = dead[q]
        /\ rest'[r] = {} /\ dead'[r] = {}
    BY <1>1 DEF TypeOK, Publishing
  <1>3. /\ \A i : To(i)' = To(i)
        /\ \A c : Lost(c)' = Lost(c)
        /\ \A c, q, k : Due(c, q, k)' = Due(c, q, k)
        /\ \A q \in Run \ {r} : Others(q)' = Others(q) /\ Awaited(q)' = Awaited(q)
        /\ \A q : Held(q)' = Held(q)
    BY <1>2 DEF To, Lost, Due, Others, Awaited, Held
  <1>4. <<r, begun[r]>> \in Events
    BY <1>1, EventIsPair DEF Counted
  <1>5. \A e \in InProgress : e \in InProgress' \/ e \in lost'
    BY <1>2 DEF InProgress
  <1>6. TypeOK'
    <2>1. ASSUME NEW q \in Run
          PROVE  /\ at'[q] \in Publishing <=> rest'[q] # {}
                 /\ at'[q] = "draining" => link'[Awaited(q)'] = "stuck"
      <3>1. CASE q = r
        BY <1>2, <3>1
      <3>2. CASE q # r
        <4>1. at'[q] = at[q] /\ rest'[q] = rest[q] /\ Awaited(q)' = Awaited(q)
          BY <1>2, <1>3, <3>2
        <4>2. QED
          BY <1>1, <4>1 DEF TypeOK
      <3>3. QED
        BY <3>1, <3>2
    <2>2. rest' \in [Run -> SUBSET (DOMAIN subscriptions)] /\ dead' \in [Run -> SUBSET Client]
      BY <1>1 DEF TypeOK
    <2>3. lost' \subseteq Events
      BY <1>1, <1>4 DEF TypeOK
    <2>4. QED
      BY <1>1, <1>2, <2>1, <2>2, <2>3 DEF TypeOK
  <1>7. Counted' /\ InOrders'
    BY <1>1, <1>2 DEF Counted, InOrders, Publishing
  <1>8. Subscribers'
    BY <1>1, <1>2, <1>3 DEF Subscribers
  <1>9. Numbered'
    <2>1. \A q \in Run : at'[q] \in Publishing => q # r /\ at[q] \in Publishing
      BY <1>2
    <2>2. \A q \in Run : \A e \in Held(q) : e[1] \in Run
      BY <1>1, HeldEvent
    <2>3. QED
      BY <1>1, <1>3, <2>1, <2>2 DEF Numbered
  <1>10. Stored'
    BY <1>1, <1>3, <1>5 DEF Stored
  <1>14. Told'
    <2>1. \A q \in Run \ {r} : \A k : <<q, k>> \in InProgress => <<q, k>> \in InProgress'
      BY <1>2 DEF InProgress
    <2>2. QED
      BY <1>1, <1>3, <2>1 DEF Told
  <1>11. EndsKept'
    <2>1. LastEvent[r] >= 2 /\ LastEvent[r] \in Nat
      BY Lengths
    <2>2. <<r, 1>> \in lost' \cup Held(r)
      <3>1. CASE begun[r] = 1
        BY <3>1
      <3>2. CASE begun[r] = LastEvent[r]
        <4>1. begun[r] > 0 /\ begun[r] # 1
          BY <2>1, <3>2
        <4>2. QED
          BY <1>1, <4>1 DEF EndsKept
      <3>3. QED
        BY <3>1, <3>2
    <2>3. <<r, LastEvent[r]>> \in lost' \/ <<r, 1>> \in lost'
      OBVIOUS
    <2>4. QED
      BY <1>1, <1>2, <1>3, <2>2, <2>3 DEF EndsKept
  <1>12. Served'
    BY <1>1, <1>2, <1>3 DEF Served
  <1>13. QED
    BY <1>6, <1>7, <1>8, <1>9, <1>10, <1>11, <1>12, <1>14 DEF IInv

LEMMA CancelKeepsInv ==
    ASSUME IInv, NEW r \in Run, Cancel(r)
    PROVE  IInv'
  <1>1. /\ at[r] \in {"working"} \cup Publishing
        /\ lost' = IF at[r] = "working" THEN lost ELSE lost \cup {<<r, begun[r]>>}
        /\ UNCHANGED <<link, request, since>>
    BY DEF Cancel
  <1>2. cancelled' \subseteq Run /\ cancelled' = cancelled \cup {r}
    BY DEF Cancel, IInv, TypeOK
  <1>3. /\ LastEvent[r] \in Nat /\ LastEvent[r] >= 2 /\ begun[r] \in Nat
        /\ at[r] = "working" => begun[r] \in 1 .. LastEvent[r] - 1
        /\ at[r] \in Publishing => begun[r] \in 1 .. LastEvent[r]
    BY Lengths DEF IInv, TypeOK, Counted
  <1>4. CASE at[r] # "working" /\ begun[r] \in {1, LastEvent[r]}
    <2>1. /\ at' = [at EXCEPT ![r] = "finished"]
          /\ rest' = [rest EXCEPT ![r] = {}]
          /\ dead' = [dead EXCEPT ![r] = {}]
          /\ UNCHANGED <<begun, files, subscriptions, dropped, inbox, missed>>
      BY <1>4 DEF Cancel
    <2>2. QED
      BY <1>1, <1>2, <1>4, <2>1, AbandonKeepsInv
  <1>5. CASE ~(at[r] # "working" /\ begun[r] \in {1, LastEvent[r]})
    <2>1. Broadcast(r, LastEvent[r], Audience(r), {})
      BY <1>5 DEF Cancel
    <2>2. /\ begun[r] < LastEvent[r] /\ begun[r] > 0
          /\ ~(at[r] \in Publishing /\ begun[r] = 1)
          /\ LastEvent[r] \in 1 .. LastEvent[r]
      BY <1>1, <1>3, <1>5 DEF Publishing
    <2>3. lost \subseteq lost' /\ (at[r] \in Publishing => <<r, begun[r]>> \in lost')
      BY <1>1 DEF Publishing
    <2>4. lost' \subseteq Events
      <3>1. CASE at[r] = "working"
        BY <1>1, <3>1 DEF IInv, TypeOK
      <3>2. CASE at[r] \in Publishing
        <4>1. <<r, begun[r]>> \in Events
          BY <1>3, <3>2, EventIsPair
        <4>2. QED
          BY <1>1, <4>1 DEF IInv, TypeOK
      <3>3. QED
        BY <1>1, <3>1, <3>2
    <2>5. Ready(r, LastEvent[r], Audience(r), {})
      BY <1>2, <2>2, <2>3, AudienceReady
    <2>6. Step(r, LastEvent[r], Audience(r), {})
      BY <1>1, <1>2, <2>1, <2>3, <2>4, <2>5 DEF Step
    <2>7. QED
      BY <2>6, StepKeepsInv
  <1>6. QED
    BY <1>4, <1>5

-----------------------------------------------------------------------------
(* The actions of connections and clients *)

\* A connection changes: whoever was lost stays lost, only lost clients are
\* dropped, and a run goes on waiting only for a client that is stuck.
LEMMA LinkKeepsInv ==
    ASSUME IInv,
           link' \in [Client -> {"reading", "stuck", "gone", "closed"}],
           \A c \in Client : Lost(c) => Lost(c)',
           at' \in [Run -> {"new", "working", "finished"} \cup Publishing],
           \A r \in Run : /\ at'[r] = at[r] \/ {at[r], at'[r]} \subseteq Publishing
                          /\ at'[r] = "draining" => link'[Awaited(r)] = "stuck",
           dropped' \subseteq DOMAIN subscriptions,
           \A i \in dropped' : Lost(To(i))',
           UNCHANGED <<begun, rest, dead, files, subscriptions, inbox, request, cancelled,
                       lost, missed, since>>
    PROVE  IInv'
  <1>1. /\ TypeOK /\ Counted /\ Subscribers /\ Numbered /\ InOrders /\ Stored /\ EndsKept
        /\ Told /\ Served
    BY DEF IInv
  <1>2. \A r \in Run :
            /\ at'[r] \in Publishing <=> at[r] \in Publishing
            /\ at'[r] \notin Publishing => at'[r] = at[r]
    OBVIOUS
  <1>3. /\ \A i : To(i)' = To(i)
        /\ \A r \in Run : Others(r)' = Others(r) /\ Awaited(r)' = Awaited(r)
        /\ \A q : Held(q)' = Held(q)
    BY DEF To, Others, Awaited, Held
  <1>4. \A c \in Client : \A q, k : Due(c, q, k)' => Due(c, q, k)
    BY DEF Due
  <1>5. TypeOK'
    <2>1. \A r \in Run :
              /\ at'[r] \in Publishing <=> rest'[r] # {}
              /\ at'[r] = "draining" => link'[Awaited(r)'] = "stuck"
      BY <1>1, <1>2, <1>3 DEF TypeOK
    <2>2. QED
      BY <1>1, <2>1 DEF TypeOK
  <1>6. Counted'
    <2>1. \A r \in Run : at'[r] \in {"new", "working", "finished"} => at'[r] = at[r]
      BY <1>2 DEF Publishing
    <2>2. QED
      BY <1>1, <1>2, <2>1 DEF Counted
  <1>7. Subscribers'
    <2>1. \A r \in Run : \A c \in dead[r] : Lost(c)'
      BY <1>1 DEF Subscribers, TypeOK
    <2>2. QED
      BY <1>1, <1>3, <2>1 DEF Subscribers
  <1>8. Numbered'
    <2>1. \A q \in Run : \A e \in Held(q) : e[1] \in Run
      BY <1>1, HeldEvent
    <2>2. QED
      BY <1>1, <1>2, <1>3, <2>1 DEF Numbered
  <1>9. InOrders'
    BY <1>1 DEF InOrders
  <1>10. Stored' /\ Told'
    <2>1. InProgress' = InProgress
      BY <1>2 DEF InProgress
    <2>2. QED
      BY <1>1, <1>3, <2>1 DEF Stored, Told
  <1>11. EndsKept'
    <2>1. \A r \in Run : at'[r] = "finished" => at[r] = "finished"
      BY <1>2 DEF Publishing
    <2>2. QED
      BY <1>1, <1>2, <1>3, <2>1 DEF EndsKept
  <1>12. Served'
    BY <1>1, <1>2, <1>3, <1>4 DEF Served
  <1>13. QED
    BY <1>5, <1>6, <1>7, <1>8, <1>9, <1>10, <1>11, <1>12 DEF IInv

\* A run that is suspended waits for a client.
LEMMA AwaitedIsClient ==
    ASSUME TypeOK, NEW r \in Run, at[r] \in Publishing
    PROVE  Min(rest[r]) \in DOMAIN subscriptions /\ Awaited(r) \in Client
  <1>1. rest[r] \in SUBSET Nat /\ rest[r] # {} /\ rest[r] \subseteq DOMAIN subscriptions
    BY Places DEF TypeOK
  <1>2. Min(rest[r]) \in DOMAIN subscriptions
    BY <1>1, MinIsLeast
  <1>3. QED
    BY <1>2, Places DEF Awaited

\* Waking those who wait for a client.
LEMMA WakesOnly ==
    ASSUME TypeOK, NEW c \in Client, Wake(c),
           link' \in [Client -> {"reading", "stuck", "gone", "closed"}],
           \A d \in Client \ {c} : link'[d] = link[d]
    PROVE  /\ at' \in [Run -> {"new", "working", "finished"} \cup Publishing]
           /\ \A r \in Run : /\ at'[r] = at[r] \/ {at[r], at'[r]} \subseteq Publishing
                             /\ at'[r] = "draining" => link'[Awaited(r)] = "stuck"
  <1>1. \A r \in Run :
            at'[r] = IF at[r] = "draining" /\ Awaited(r) = c THEN "woken" ELSE at[r]
    BY DEF Wake
  <1>2. at' \in [Run -> {"new", "working", "finished"} \cup Publishing]
    BY DEF Wake, TypeOK, Publishing
  <1>3. ASSUME NEW r \in Run, at'[r] = "draining" PROVE link'[Awaited(r)] = "stuck"
    <2>1. at[r] = "draining" /\ Awaited(r) # c
      BY <1>1, <1>3
    <2>2. Awaited(r) \in Client
      BY <2>1, AwaitedIsClient DEF Publishing
    <2>3. QED
      BY <2>1, <2>2 DEF TypeOK
  <1>4. QED
    BY <1>1, <1>2, <1>3 DEF Publishing

LEMMA ConnectionsKeepInv ==
    ASSUME IInv, NEW c \in Client, Stall(c) \/ Resume(c) \/ Hangup(c) \/ Unsubscribe(c)
    PROVE  IInv'
  <1>1. TypeOK /\ Subscribers
    BY DEF IInv
  <1>2. \A i \in dropped : i \in DOMAIN subscriptions /\ Lost(To(i)) /\ To(i) \in Client
    BY <1>1, Places DEF Subscribers, TypeOK
  <1>3. CASE Stall(c)
    <2>1. /\ link' \in [Client -> {"reading", "stuck", "gone", "closed"}]
          /\ \A d \in Client : Lost(d) => Lost(d)'
          /\ \A d \in Client : link[d] = "stuck" => link'[d] = "stuck"
      BY <1>1, <1>3 DEF Stall, TypeOK, Lost
    <2>2. \A r \in Run : at[r] = "draining" => link'[Awaited(r)] = "stuck"
      <3>1. \A r \in Run : at[r] = "draining" => Awaited(r) \in Client
        BY <1>1, AwaitedIsClient DEF Publishing
      <3>2. QED
        BY <1>1, <2>1, <3>1 DEF TypeOK
    <2>3. /\ UNCHANGED <<begun, at, rest, dead, files, subscriptions, dropped, inbox, request,
                         cancelled, lost, missed, since>>
      BY <1>3 DEF Stall
    <2>4. at' \in [Run -> {"new", "working", "finished"} \cup Publishing]
      BY <1>1, <2>3 DEF TypeOK
    <2>5. \A i \in dropped' : i \in DOMAIN subscriptions /\ Lost(To(i))'
      BY <1>2, <2>1, <2>3 DEF To
    <2>6. QED
      BY <2>1, <2>2, <2>3, <2>4, <2>5, LinkKeepsInv
  <1>4. CASE Resume(c)
    <2>1. /\ link' \in [Client -> {"reading", "stuck", "gone", "closed"}]
          /\ \A d \in Client : Lost(d) => Lost(d)'
          /\ \A d \in Client \ {c} : link'[d] = link[d]
      BY <1>1, <1>4 DEF Resume, TypeOK, Lost
    <2>2. /\ Wake(c)
          /\ UNCHANGED <<begun, rest, dead, files, subscriptions, dropped, inbox, request,
                         cancelled, lost, missed, since>>
      BY <1>4 DEF Resume
    <2>3. \A i \in dropped' : i \in DOMAIN subscriptions /\ Lost(To(i))'
      BY <1>2, <2>1, <2>2 DEF To
    <2>4. QED
      BY <1>1, <2>1, <2>2, <2>3, WakesOnly, LinkKeepsInv
  <1>5. CASE Hangup(c)
    <2>1. /\ link' \in [Client -> {"reading", "stuck", "gone", "closed"}]
          /\ \A d \in Client : Lost(d) => Lost(d)'
          /\ \A d \in Client \ {c} : link'[d] = link[d]
      BY <1>1, <1>5 DEF Hangup, TypeOK, Lost
    <2>2. /\ Wake(c)
          /\ UNCHANGED <<begun, rest, dead, files, subscriptions, dropped, inbox, request,
                         cancelled, lost, missed, since>>
      BY <1>5 DEF Hangup
    <2>3. \A i \in dropped' : i \in DOMAIN subscriptions /\ Lost(To(i))'
      BY <1>2, <2>1, <2>2 DEF To
    <2>4. QED
      BY <1>1, <2>1, <2>2, <2>3, WakesOnly, LinkKeepsInv
  <1>6. CASE Unsubscribe(c)
    <2>1. /\ link' \in [Client -> {"reading", "stuck", "gone", "closed"}]
          /\ \A d \in Client : Lost(d) => Lost(d)'
          /\ \A d \in Client : link[d] = "stuck" => link'[d] = "stuck"
          /\ Lost(c)'
      BY <1>1, <1>6 DEF Unsubscribe, TypeOK, Lost
    <2>2. \A r \in Run : at[r] = "draining" => link'[Awaited(r)] = "stuck"
      <3>1. \A r \in Run : at[r] = "draining" => Awaited(r) \in Client
        BY <1>1, AwaitedIsClient DEF Publishing
      <3>2. QED
        BY <1>1, <2>1, <3>1 DEF TypeOK
    <2>3. /\ UNCHANGED <<begun, at, rest, dead, files, subscriptions, inbox, request,
                         cancelled, lost, missed, since>>
          /\ dropped' = dropped \cup {i \in DOMAIN subscriptions : To(i) = c}
      BY <1>6 DEF Unsubscribe
    <2>4. at' \in [Run -> {"new", "working", "finished"} \cup Publishing]
      BY <1>1, <2>3 DEF TypeOK
    <2>5. \A i \in dropped' : i \in DOMAIN subscriptions /\ Lost(To(i))'
      BY <1>2, <2>1, <2>3 DEF To
    <2>6. QED
      BY <2>1, <2>2, <2>3, <2>4, <2>5, LinkKeepsInv
  <1>7. QED
    BY <1>3, <1>4, <1>5, <1>6

\* A client that has not subscribed yet has its request handled; what is
\* written to it comes from a file.
Handles(c, new) ==
    /\ request[c].state \in {"idle", "replaying"}
    /\ request' = [request EXCEPT ![c] = new]
    /\ new \in [state : {"replaying", "subscribed", "failed"},
                from : Run \cup {Nobody}, scope : Scope]
    /\ \/ new.state = "subscribed" /\ Subscribe(c, new.scope)
       \/ new.state # "subscribed" /\ UNCHANGED <<subscriptions, since>>
    /\ inbox' \in [Client -> Seq(Events)]
    /\ \A d \in Client \ {c} : inbox'[d] = inbox[d]
    /\ inbox'[c] = inbox[c] \/ \E q \in Run : inbox'[c] = files[q]
    /\ UNCHANGED <<begun, at, rest, dead, files, dropped, link, cancelled, lost, missed>>

LEMMA HandlingKeepsInv ==
    ASSUME IInv, NEW c \in Client, NEW new, Handles(c, new)
    PROVE  IInv'
  <1>1. /\ TypeOK /\ Counted /\ Subscribers /\ Numbered /\ InOrders /\ Stored /\ EndsKept
        /\ Told /\ Served
    BY DEF IInv
  <1>2. /\ new \in [state : {"replaying", "subscribed", "failed"},
                    from : Run \cup {Nobody}, scope : Scope]
        /\ request' = [request EXCEPT ![c] = new]
        /\ request[c].state \notin {"subscribed", "failed"}
        /\ UNCHANGED <<begun, at, rest, dead, files, dropped, link, cancelled, lost, missed>>
    BY DEF Handles
  <1>3. /\ request'[c] = new /\ \A d \in Client \ {c} : request'[d] = request[d]
        /\ request' \in [Client -> [state : {"idle", "replaying", "subscribed", "failed"},
                                    from : Run \cup {Nobody}, scope : Scope]]
    BY <1>1, <1>2 DEF TypeOK
  <1> DEFINE last == Len(subscriptions) + 1
             sub  == [client |-> c, scope |-> new.scope]
  <1>4. /\ DOMAIN subscriptions = 1 .. Len(subscriptions) /\ Len(subscriptions) \in Nat
        /\ \A i \in DOMAIN subscriptions : To(i) \in Client /\ To(i) # c
    BY <1>1, <1>2, Places DEF Subscribers, TypeOK
  <1>5. \/ /\ new.state = "subscribed"
           /\ subscriptions' = Append(subscriptions, sub)
           /\ since' = [since EXCEPT ![c] = begun]
        \/ new.state # "subscribed" /\ UNCHANGED <<subscriptions, since>>
    BY DEF Handles, Subscribe
  <1>6. /\ subscriptions' \in Seq([client : Client, scope : Scope])
        /\ DOMAIN subscriptions \subseteq DOMAIN subscriptions'
        /\ \A i \in DOMAIN subscriptions :
              subscriptions'[i] = subscriptions[i] /\ To(i)' = To(i)
        /\ \A i \in DOMAIN subscriptions' \ DOMAIN subscriptions :
              /\ i = last /\ subscriptions'[i] = sub /\ To(i)' = c
              /\ new.state = "subscribed"
        /\ new.state = "subscribed" => last \in DOMAIN subscriptions'
    <2>1. sub \in [client : Client, scope : Scope]
      BY <1>2
    <2>2. CASE new.state = "subscribed" /\ subscriptions' = Append(subscriptions, sub)
      <3>1. subscriptions \in Seq([client : Client, scope : Scope])
        BY <1>1 DEF TypeOK
      <3>2. /\ subscriptions' \in Seq([client : Client, scope : Scope])
            /\ DOMAIN subscriptions' = 1 .. last
            /\ \A i \in 1 .. Len(subscriptions) : subscriptions'[i] = subscriptions[i]
            /\ subscriptions'[last] = sub
        BY <2>1, <2>2, <3>1
      <3>3. QED
        BY <1>4, <2>2, <3>2 DEF To
    <2>3. CASE new.state # "subscribed" /\ UNCHANGED subscriptions
      BY <1>1, <2>3 DEF To, TypeOK
    <2>4. QED
      BY <1>5, <2>2, <2>3
  <1>7. /\ inbox' \in [Client -> Seq(Events)]
        /\ \A d \in Client \ {c} : inbox'[d] = inbox[d]
        /\ inbox'[c] = inbox[c] \/ \E q \in Run : inbox'[c] = files[q]
    BY DEF Handles
  <1>8. \A r \in Run : at[r] \in Publishing =>
            /\ Others(r)' = Others(r) /\ Others(r) \subseteq DOMAIN subscriptions
            /\ Awaited(r)' = Awaited(r)
    <2>1. ASSUME NEW r \in Run, at[r] \in Publishing
          PROVE  /\ Others(r)' = Others(r) /\ Others(r) \subseteq DOMAIN subscriptions
                 /\ Awaited(r)' = Awaited(r)
      <3>1. Min(rest[r]) \in DOMAIN subscriptions
        BY <1>1, <2>1, AwaitedIsClient
      <3>2. Awaited(r)' = Awaited(r)
        BY <1>2, <1>6, <3>1 DEF Awaited
      <3>3. QED
        BY <1>1, <1>2, <3>2 DEF Others, TypeOK
    <2>2. QED
      BY <2>1
  <1>9. /\ since' \in [Client -> [Run -> Nat]]
        /\ \A d \in Client \ {c} : since'[d] = since[d]
        /\ since'[c] = since[c] \/ since'[c] = begun
        /\ new.state = "subscribed" => since'[c] = begun
    <2>1. since \in [Client -> [Run -> Nat]] /\ begun \in [Run -> Nat]
      BY <1>1 DEF TypeOK
    <2>2. CASE new.state = "subscribed" /\ since' = [since EXCEPT ![c] = begun]
      BY <2>1, <2>2
    <2>3. CASE new.state # "subscribed" /\ UNCHANGED since
      BY <2>1, <2>3
    <2>4. QED
      BY <1>5, <2>2, <2>3
  <1>10. (\A i : Lost(i)' = Lost(i)) /\ (\A q : Held(q)' = Held(q))
    BY <1>2 DEF Lost, Held
  <1> HIDE DEF sub, last
  <1>11. TypeOK'
    <2>1. \A r \in Run :
              /\ at'[r] \in Publishing <=> rest'[r] # {}
              /\ at'[r] = "draining" => link'[Awaited(r)'] = "stuck"
      BY <1>1, <1>2, <1>8 DEF TypeOK, Publishing
    <2>2. /\ rest' \in [Run -> SUBSET (DOMAIN subscriptions')]
          /\ dropped' \subseteq DOMAIN subscriptions'
      BY <1>1, <1>2, <1>6 DEF TypeOK
    <2>3. QED
      BY <1>1, <1>2, <1>3, <1>6, <1>7, <1>9, <2>1, <2>2 DEF TypeOK
  <1>12. Counted' /\ EndsKept'
    BY <1>1, <1>2, <1>10 DEF Counted, EndsKept
  <1>13. Subscribers'
    <2>1. ASSUME NEW i \in DOMAIN subscriptions', NEW j \in DOMAIN subscriptions',
                 To(i)' = To(j)'
          PROVE  i = j
      BY <1>1, <1>4, <1>6, <2>1 DEF Subscribers
    <2>2. ASSUME NEW i \in DOMAIN subscriptions'
          PROVE  /\ request'[To(i)'].state = "subscribed"
                 /\ request'[To(i)'].scope = subscriptions'[i].scope
                 /\ i \in dropped' => Lost(To(i))'
      <3>1. CASE i \in DOMAIN subscriptions
        BY <1>1, <1>2, <1>3, <1>4, <1>6, <1>10, <3>1 DEF Subscribers
      <3>2. CASE i \notin DOMAIN subscriptions
        BY <1>1, <1>2, <1>3, <1>6, <3>2 DEF TypeOK, sub
      <3>3. QED
        BY <3>1, <3>2
    <2>3. ASSUME NEW d \in Client, request'[d].state = "subscribed"
          PROVE  \E i \in DOMAIN subscriptions' : To(i)' = d
      <3>1. CASE d = c
        BY <1>3, <1>4, <1>6, <2>3, <3>1 DEF last
      <3>2. CASE d # c
        BY <1>1, <1>3, <1>6, <2>3, <3>2 DEF Subscribers
      <3>3. QED
        BY <3>1, <3>2
    <2>4. \A d \in Client : request'[d].state = "idle" => inbox'[d] = <<>>
      BY <1>1, <1>2, <1>3, <1>7 DEF Subscribers
    <2>5. \A r \in Run : \A d \in dead'[r] : Lost(d)'
      BY <1>1, <1>2, <1>10 DEF Subscribers
    <2>6. QED
      BY <2>1, <2>2, <2>3, <2>4, <2>5 DEF Subscribers
  <1>14. ASSUME NEW d \in Client, NEW e \in In(inbox'[d])
         PROVE  e \in In(inbox[d]) \/ \E q \in Run : e \in Held(q)
    BY <1>7, <1>14 DEF Held
  <1>15. Numbered'
    <2>1. \A d \in Client : \A e \in In(inbox'[d]) : e[2] <= begun[e[1]]
      BY <1>1, <1>14 DEF Numbered
    <2>2. \A r \in Run : at[r] \in Publishing =>
              \A i \in Others(r) : inbox'[To(i)'] = inbox[To(i)]
      BY <1>4, <1>6, <1>7, <1>8
    <2>3. \A d \in Client, r \in Run : since'[d][r] <= begun[r]
      <3>1. \A r \in Run : begun[r] \in Nat /\ begun[r] <= begun[r]
        BY <1>1 DEF TypeOK
      <3>2. QED
        BY <1>1, <1>9, <3>1 DEF Numbered
    <2>4. QED
      BY <1>1, <1>2, <1>8, <1>10, <2>1, <2>2, <2>3 DEF Numbered
  <1>16. InOrders'
    BY <1>1, <1>2, <1>7 DEF InOrders
  <1>17. Stored' /\ Told'
    <2>1. InProgress' = InProgress
      BY <1>2 DEF InProgress
    <2>2. QED
      BY <1>1, <1>2, <1>10, <1>14, <2>1 DEF Stored, Told
  <1>18. Served'
    <2>1. ASSUME NEW d \in Client, NEW r \in Run, NEW e \in Held(r),
                 e[1] = r, Due(d, r, e[2])'
          PROVE  e \in In(inbox'[d])
      <3>1. d # c
        <4>1. ASSUME d = c PROVE FALSE
          <5>1. ~(e[2] <= begun[r])
            <6>1. e[2] > begun[r]
              BY <1>3, <1>9, <2>1, <4>1 DEF Due
            <6>2. e[2] \in Nat /\ begun[r] \in Nat
              BY <1>1, <2>1, HeldEvent DEF TypeOK
            <6>3. QED
              BY <6>1, <6>2
          <5>2. QED
            BY <1>1, <2>1, <5>1 DEF Numbered
        <4>2. QED
          BY <4>1
      <3>2. Due(d, r, e[2])
        BY <1>3, <1>9, <1>10, <2>1, <3>1 DEF Due
      <3>3. QED
        BY <1>1, <1>7, <2>1, <3>1, <3>2 DEF Served
    <2>2. ASSUME NEW d \in Client, NEW r \in Run, at[r] \in Publishing, Due(d, r, begun[r])'
          PROVE  \/ <<r, begun[r]>> \in In(inbox'[d])
                 \/ \E i \in Others(r)' : To(i)' = d
      <3>1. d # c
        <4>1. ~(begun[r] > begun[r])
          BY <1>1 DEF TypeOK
        <4>2. QED
          BY <1>2, <1>3, <1>9, <2>2, <4>1 DEF Due
      <3>2. Due(d, r, begun[r])
        BY <1>2, <1>3, <1>9, <1>10, <2>2, <3>1 DEF Due
      <3>3. \/ <<r, begun[r]>> \in In(inbox[d])
            \/ \E i \in Others(r) : To(i) = d
        BY <1>1, <2>2, <3>2 DEF Served
      <3>4. QED
        BY <1>6, <1>7, <1>8, <2>2, <3>1, <3>3
    <2>3. QED
      BY <1>2, <1>10, <2>1, <2>2 DEF Served
  <1>19. QED
    BY <1>11, <1>12, <1>13, <1>15, <1>16, <1>17, <1>18 DEF IInv

LEMMA RequestKeepsInv ==
    ASSUME IInv, NEW c \in Client, NEW w \in Wish[c], Request(c, w[1], w[2])
    PROVE  IInv'
  <1> DEFINE q     == w[1]
             lines == IF q = Nobody THEN <<>> ELSE files[q]
             state == IF lines # <<>> /\ link[c] # "reading" THEN "replaying" ELSE "subscribed"
             new   == [state |-> state, from |-> q, scope |-> w[2]]
  <1>1. /\ request[c] = Idle
        /\ inbox' = [inbox EXCEPT ![c] = IF Lost(c) THEN @ ELSE @ \o lines]
        /\ request' = [request EXCEPT ![c] = new]
        /\ IF state = "subscribed" THEN Subscribe(c, w[2]) ELSE UNCHANGED <<subscriptions, since>>
        /\ UNCHANGED <<begun, at, rest, dead, files, dropped, link, cancelled, lost, missed>>
    BY DEF Request
  <1>2. q \in Run \cup {Nobody} /\ w[2] \in Scope
    BY Lengths
  <1>3. inbox \in [Client -> Seq(Events)] /\ files \in [Run -> Seq(Events)]
    BY DEF IInv, TypeOK
  <1>4. request[c].state = "idle" /\ inbox[c] = <<>>
    BY <1>1 DEF IInv, Subscribers, Idle
  <1>5. lines \in Seq(Events) /\ (lines = <<>> \/ \E r \in Run : lines = files[r])
    BY <1>2, <1>3
  <1>6. <<>> \o lines = lines
    BY <1>5
  <1>7. new \in [state : {"replaying", "subscribed", "failed"},
                 from : Run \cup {Nobody}, scope : Scope]
    BY <1>2
  <1>8. /\ new.state = state /\ new.scope = w[2]
        /\ request[c].state \in {"idle", "replaying"}
    BY <1>4
  <1> HIDE DEF lines, state, new
  <1>9. inbox'[c] \in {inbox[c], lines} /\ \A d \in Client \ {c} : inbox'[d] = inbox[d]
    BY <1>1, <1>3, <1>4, <1>6
  <1>10. inbox' \in [Client -> Seq(Events)]
    BY <1>1, <1>3, <1>5, <1>9
  <1>11. inbox'[c] = inbox[c] \/ \E r \in Run : inbox'[c] = files[r]
    BY <1>4, <1>5, <1>9
  <1>12. Handles(c, new)
    BY <1>1, <1>7, <1>8, <1>9, <1>10, <1>11 DEF Handles
  <1>13. QED
    BY <1>12, HandlingKeepsInv

LEMMA ReplayedKeepsInv ==
    ASSUME IInv, NEW c \in Client, Replayed(c)
    PROVE  IInv'
  <1>1. /\ request[c].state = "replaying"
        /\ UNCHANGED <<begun, at, rest, dead, files, dropped, inbox, link, cancelled, lost, missed>>
    BY DEF Replayed
  <1>2. /\ request \in [Client -> [state : {"idle", "replaying", "subscribed", "failed"},
                                   from : Run \cup {Nobody}, scope : Scope]]
        /\ inbox \in [Client -> Seq(Events)]
    BY DEF IInv, TypeOK
  <1> DEFINE after(state) == [request[c] EXCEPT !.state = state]
  <1>3. \A state \in {"replaying", "subscribed", "failed"} :
            /\ after(state) \in [state : {"replaying", "subscribed", "failed"},
                                 from : Run \cup {Nobody}, scope : Scope]
            /\ after(state).state = state /\ after(state).scope = request[c].scope
    BY <1>2
  <1>4. PICK state \in {"subscribed", "failed"} :
            /\ request' = [request EXCEPT ![c] = after(state)]
            /\ \/ state = "subscribed" /\ Subscribe(c, request[c].scope)
               \/ state # "subscribed" /\ UNCHANGED <<subscriptions, since>>
    BY DEF Replayed
  <1> HIDE DEF after
  <1>5. Handles(c, after(state))
    BY <1>1, <1>2, <1>3, <1>4 DEF Handles
  <1>6. QED
    BY <1>5, HandlingKeepsInv

-----------------------------------------------------------------------------
(* The theorems *)

LEMMA InitInv == Init => IInv
  <1> SUFFICES ASSUME Init PROVE IInv
    OBVIOUS
  <1>1. /\ \A c \in Client : inbox[c] = <<>> /\ request[c] = Idle /\ since[c] = begun
        /\ \A c \in Client : link[c] = "reading"
        /\ \A r \in Run : /\ begun[r] = 0 /\ at[r] = "new" /\ at[r] \notin Publishing
                          /\ rest[r] = {} /\ dead[r] = {} /\ files[r] = <<>>
                          /\ Held(r) = {}
        /\ DOMAIN subscriptions = {} /\ dropped = {}
    BY DEF Init, Publishing, Held, In
  <1>2. In(<<>>) = {} /\ Ordered(<<>>) /\ Idle.state = "idle"
    BY DEF In, Ordered, Idle
  <1>3. TypeOK
    <2>1. \A r \in Run : begun[r] <= LastEvent[r]
      BY <1>1, Lengths
    <2>2. Idle \in [state : {"idle", "replaying", "subscribed", "failed"},
                    from : Run \cup {Nobody}, scope : Scope]
      BY DEF Idle, Scope
    <2>3. /\ request \in [Client -> [state : {"idle", "replaying", "subscribed", "failed"},
                                     from : Run \cup {Nobody}, scope : Scope]]
          /\ since \in [Client -> [Run -> Nat]]
      BY <2>2 DEF Init
    <2>4. \A r \in Run : at[r] # "draining"
      BY <1>1
    <2>5. /\ begun \in [Run -> Nat]
          /\ at \in [Run -> {"new", "working", "finished"} \cup Publishing]
          /\ rest \in [Run -> SUBSET (DOMAIN subscriptions)] /\ dead \in [Run -> SUBSET Client]
          /\ files \in [Run -> Seq(Events)] /\ inbox \in [Client -> Seq(Events)]
          /\ link \in [Client -> {"reading", "stuck", "gone", "closed"}]
          /\ subscriptions \in Seq([client : Client, scope : Scope])
          /\ dropped \subseteq DOMAIN subscriptions
          /\ cancelled \subseteq Run /\ lost \subseteq Events /\ missed \subseteq Events
      BY DEF Init
    <2>6. QED
      BY <1>1, <2>1, <2>3, <2>4, <2>5 DEF TypeOK
  <1>4. Counted
    BY <1>1 DEF Counted
  <1>5. Subscribers
    BY <1>1, <1>2 DEF Subscribers
  <1>6. Numbered
    BY <1>1, <1>2 DEF Numbered
  <1>7. InOrders /\ Stored
    BY <1>1, <1>2 DEF InOrders, Stored
  <1>8. EndsKept /\ Told
    BY <1>1 DEF EndsKept, Told
  <1>9. Served
    BY <1>1, <1>2 DEF Served
  <1>10. QED
    BY <1>3, <1>4, <1>5, <1>6, <1>7, <1>8, <1>9 DEF IInv

LEMMA NextInv == IInv /\ [Next]_vars => IInv'
  <1> SUFFICES ASSUME IInv, [Next]_vars PROVE IInv'
    OBVIOUS
  <1>1. CASE \E r \in Run : Begin(r)
    BY <1>1, BeginKeepsInv
  <1>2. CASE \E r \in Run : Continue(r)
    BY <1>2, ContinueKeepsInv
  <1>3. CASE \E r \in Run : Cancel(r)
    BY <1>3, CancelKeepsInv
  <1>4. CASE \E c \in Client : Stall(c) \/ Resume(c) \/ Hangup(c) \/ Unsubscribe(c)
    BY <1>4, ConnectionsKeepInv
  <1>5. CASE \E c \in Client : Replayed(c)
    BY <1>5, ReplayedKeepsInv
  <1>6. CASE \E c \in Client : \E w \in Wish[c] : Request(c, w[1], w[2])
    BY <1>6, RequestKeepsInv
  <1>7. CASE UNCHANGED vars
    <2>1. \A i : To(i)' = To(i) /\ Lost(i)' = Lost(i)
      BY <1>7 DEF vars, To, Lost
    <2>2. \A r : Others(r)' = Others(r) /\ Awaited(r)' = Awaited(r)
      BY <1>7 DEF vars, Others, Awaited, To
    <2>3. /\ InProgress' = InProgress /\ \A c, r, k : Due(c, r, k)' = Due(c, r, k)
          /\ \A q : Held(q)' = Held(q)
      BY <1>7 DEF vars, InProgress, Due, Lost, Held
    <2>4. TypeOK' /\ Counted' /\ InOrders' /\ EndsKept'
      BY <1>7, <2>2, <2>3 DEF IInv, vars, TypeOK, Counted, InOrders, EndsKept
    <2>5. Subscribers' /\ Numbered'
      BY <1>7, <2>1, <2>2, <2>3 DEF IInv, vars, Subscribers, Numbered
    <2>6. Stored' /\ Served' /\ Told'
      BY <1>7, <2>1, <2>2, <2>3 DEF IInv, vars, Stored, Served, Told
    <2>7. QED
      BY <2>4, <2>5, <2>6 DEF IInv
  <1>8. QED
    BY <1>1, <1>2, <1>3, <1>4, <1>5, <1>6, <1>7 DEF Next, Publish

\* The invariant holds in every state.
LEMMA InvariantHolds == Spec => []IInv
  BY InitInv, NextInv, PTL DEF Spec

\* Types; and a run is suspended in a broadcast exactly as long as there are
\* clients it has still to drain to (ipc_broadcaster.py:58-82).
THEOREM DeliveryType == Spec => []TypeOK
  <1>1. IInv => TypeOK
    BY DEF IInv
  <1>2. QED
    BY <1>1, InvariantHolds, PTL

\* Replay and live events together, a client gets the events of a run in the
\* order of their publication and none twice: what is in a file when it is
\* replayed is not broadcast any more, because publish awaits the broadcaster
\* before the writers (events/bus.py:19-21, app.py:158-206).
THEOREM EventsInOrder == Spec => []InOrder
  <1>1. IInv => InOrder
    BY DEF IInv, InOrders, InOrder
  <1>2. QED
    BY <1>1, InvariantHolds, PTL

\* A client whose connection stands has every event that began after its
\* subscription and whose broadcast is over, held by the file or refused by it:
\* another client that stalls, hangs up or subscribes in the middle of the loop
\* takes nothing from it.
THEOREM NothingIsSkipped == Spec => []LiveComplete
  <1>1. ASSUME IInv PROVE LiveComplete
    <2>1. ASSUME NEW c \in Client, request[c].state = "subscribed", ~Lost(c),
                 NEW r \in Run, request[c].scope \in {Global, r},
                 NEW n \in 1 .. LastEvent[r], n > since[c][r],
                 <<r, n>> \in missed \/ Contains(files[r], <<r, n>>)
          PROVE  Contains(inbox[c], <<r, n>>)
      <3>1. files[r] \in Seq(Events) /\ inbox[c] \in Seq(Events)
        BY <1>1 DEF IInv, TypeOK
      <3>2. <<r, n>> \in Held(r)
        BY <2>1, <3>1, ContainsIn DEF Held
      <3>3. Due(c, r, n)
        BY <2>1 DEF Due
      <3>4. <<r, n>> \in In(inbox[c])
        BY <1>1, <3>2, <3>3 DEF IInv, Served
      <3>5. QED
        BY <3>1, <3>4, ContainsIn
    <2>2. QED
      BY <2>1 DEF LiveComplete
  <1>2. QED
    BY <1>1, InvariantHolds, PTL

\* A replay can show again whatever any client has seen of a run, but for the
\* event under way, those a cancellation cut short, and the lines the file
\* refused, which its writer logs and forgets (writer.py:35-39).
THEOREM WhatIsSeenIsStored == Spec => []SeenIsStored
  <1>1. ASSUME IInv PROVE SeenIsStored
    <2>1. ASSUME NEW c \in Client, NEW i \in DOMAIN inbox[c],
                 inbox[c][i] \notin lost \cup missed \cup InProgress
          PROVE  Contains(files[inbox[c][i][1]], inbox[c][i])
      <3> DEFINE e == inbox[c][i]
      <3>1. e \in In(inbox[c]) /\ inbox[c] \in Seq(Events)
        BY <1>1 DEF In, IInv, TypeOK
      <3> HIDE DEF e
      <3>2. e[1] \in Run
        BY <3>1, InLog
      <3>3. e \in In(files[e[1]])
        BY <1>1, <2>1, <3>1 DEF IInv, Stored, Held, e
      <3>4. files[e[1]] \in Seq(Events)
        BY <1>1, <3>2 DEF IInv, TypeOK
      <3>5. Contains(files[e[1]], e)
        BY <3>3, <3>4, ContainsIn
      <3>6. QED
        BY <3>5 DEF e
    <2>2. QED
      BY <2>1 DEF SeenIsStored
  <1>2. QED
    BY <1>1, InvariantHolds, PTL

\* The file of a finished run tells it in order from run.started to
\* run.finished, and without a hole unless it was cancelled, but for what the
\* cancellation cut short and the lines the file refused (runner.py:185-250,
\* writer.py:35-39).
THEOREM FilesTellRuns == Spec => []FileIsRun
  <1>1. ASSUME IInv PROVE FileIsRun
    <2>1. ASSUME NEW r \in Run PROVE Ordered(files[r]) /\ files[r] \in Seq(Events)
      BY <1>1 DEF IInv, InOrders, TypeOK
    <2>2. ASSUME NEW r \in Run, at[r] = "finished", NEW n \in {1, LastEvent[r]},
                 <<r, n>> \notin lost \cup missed,
                 ~(n = LastEvent[r] /\ <<r, 1>> \in lost)
          PROVE  Contains(files[r], <<r, n>>)
      <3>1. begun[r] > 0 /\ at[r] \notin Publishing
        BY <1>1, <2>2 DEF IInv, Counted, Publishing
      <3>2. <<r, 1>> \in lost \cup Held(r)
        BY <1>1, <3>1 DEF IInv, EndsKept
      <3>3. <<r, LastEvent[r]>> \in lost \cup Held(r) \/ <<r, 1>> \in lost
        BY <1>1, <2>2 DEF IInv, EndsKept
      <3>4. <<r, n>> \in In(files[r])
        BY <2>2, <3>2, <3>3 DEF Held
      <3>5. QED
        BY <2>1, <3>4, ContainsIn
    <2>3. ASSUME NEW r \in Run, at[r] = "finished", r \notin cancelled,
                 NEW n \in 1 .. LastEvent[r], <<r, n>> \notin missed
          PROVE  Contains(files[r], <<r, n>>)
      <3>1. n \in 1 .. begun[r]
        BY <1>1, <2>3 DEF IInv, Counted
      <3>2. <<r, n>> \in Held(r) \cup InProgress
        BY <1>1, <2>3, <3>1 DEF IInv, Told
      <3>3. <<r, n>> \notin InProgress
        BY <2>3 DEF InProgress, Publishing
      <3>4. QED
        BY <2>1, <2>3, <3>2, <3>3, ContainsIn DEF Held
    <2>4. QED
      BY <2>1, <2>2, <2>3 DEF FileIsRun
  <1>2. QED
    BY <1>1, InvariantHolds, PTL
=============================================================================
