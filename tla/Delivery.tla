------------------------------ MODULE Delivery ------------------------------
(***************************************************************************)
(* How the events of runs reach clients and files: EventBus.publish, the   *)
(* IpcEventBroadcaster and the EventWriters behind it, event.subscribe     *)
(* with its replay, and connections that stall or end.                     *)
(*                                                                         *)
(* publish awaits the subscribers of the bus in turn: first the            *)
(* broadcaster, which awaits the drain of one client after the other, then *)
(* the writers of all runs, which do not suspend.  A run is the task that  *)
(* publishes its events; an action is what a task does between two awaits. *)
(***************************************************************************)
EXTENDS Naturals, Sequences, SequencesExt, FiniteSetsExt

CONSTANTS
    Run, Client,
    Global,         \* the scope that matches every run
    Nobody,         \* "no run": subscribe without replay_from_run
    LastEvent,      \* the number of each run's run.finished; run.started is 1
    Flaky,          \* bound: the clients that may stall or hang up
    Cancellable,    \* bound: the runs whose task may be cancelled
    Unwritable,     \* bound: the lines the file of a run may refuse
    Wish            \* bound: the replay_from_run and scope a client may ask for

ASSUME DeliveryAssumption ==
    /\ Global \notin Run /\ Nobody \notin Run
    /\ LastEvent \in [Run -> Nat \ {0, 1}]
    /\ Flaky \subseteq Client /\ Cancellable \subseteq Run
    /\ Unwritable \in [Run -> SUBSET (Run \X Nat)]
    /\ Wish \in [Client -> SUBSET ((Run \cup {Nobody}) \X (Run \cup {Global}))]

VARIABLES
    begun,          \* the event the run published last
    at,             \* what the run waits for
    rest,           \* the subscriptions its event has still to be drained to
    dead,           \* connections its event has met broken
    files,          \* events.jsonl of each run
    subscriptions,  \* all subscriptions, in the order of subscribe
    dropped,        \* the places in it that are no more in _subscriptions
    inbox,          \* what was written to the connection of a client
    link,           \* the connection of a client
    request,        \* the client's event.subscribe
    cancelled,      \* runs whose task was cancelled
    lost,           \* history: events abandoned by a cancellation
    missed,         \* history: events the file of their own run has refused
    since           \* history: begun at the subscription of a client

vars == <<begun, at, rest, dead, files, subscriptions, dropped, inbox, link,
          request, cancelled, lost, missed, since>>

Scope  == Run \cup {Global}
Events == UNION {{r} \X (1 .. LastEvent[r]) : r \in Run}
Idle   == [state |-> "idle", from |-> Nobody, scope |-> Global]
Publishing == {"draining", "woken"}

Lost(c) == link[c] \in {"gone", "closed"}

\* The client of the i-th subscription.
To(i) == subscriptions[i].client

-----------------------------------------------------------------------------
Init ==
    /\ begun = [r \in Run |-> 0]
    /\ at = [r \in Run |-> "new"]
    /\ rest = [r \in Run |-> {}]
    /\ dead = [r \in Run |-> {}]
    /\ files = [r \in Run |-> <<>>]
    /\ subscriptions = <<>>
    /\ dropped = {}
    /\ inbox = [c \in Client |-> <<>>]
    /\ link = [c \in Client |-> "reading"]
    /\ request = [c \in Client |-> Idle]
    /\ cancelled = {}
    /\ lost = {}
    /\ missed = {}
    /\ since = [c \in Client |-> begun]

-----------------------------------------------------------------------------
(* Publishing *)

\* The subscriptions an event of r is for, as the broadcaster lists them.
Audience(r) ==
    {i \in DOMAIN subscriptions \ dropped : subscriptions[i].scope \in {Global, r}}

\* Deviation: a run's file is closed before run.finished is published.
HasFileUntilLast(q, r, n) ==
    IF q = r THEN n < LastEvent[r] ELSE at[q] \notin {"new", "finished"}

\* Deviation: the writer subscribes after run.started has been published.
HasFileFromSecond(q, r, n) ==
    IF q = r THEN n > 1 ELSE at[q] \notin {"new", "finished"}

\* The EventWriter of q is open while event n of r is published: every open
\* writer gets the events of every run.
HasFile(q, r, n) == q = r \/ at[q] \notin {"new", "finished"}

\* The broadcaster drops the connections it has met broken, and the event
\* goes to the files.  A writer whose file refuses the line (no space left, a
\* text that cannot be encoded) logs it and goes on without.
Complete(r, n, broken) ==
    /\ dropped' = dropped \cup {i \in DOMAIN subscriptions : To(i) \in broken}
    /\ \E failing \in SUBSET {q \in Run : <<r, n>> \in Unwritable[q]} :
          /\ files' = [q \in Run |-> IF HasFile(q, r, n) /\ q \notin failing
                                     THEN Append(files[q], <<r, n>>) ELSE files[q]]
          /\ missed' = IF r \in failing THEN missed \cup {<<r, n>>} ELSE missed
    /\ at' = [at EXCEPT ![r] = IF n = LastEvent[r] THEN "finished" ELSE "working"]
    /\ rest' = [rest EXCEPT ![r] = {}]
    /\ dead' = [dead EXCEPT ![r] = {}]

\* Event n of r is written to the clients at these places, in their order,
\* until a drain suspends; broken are the connections it has met broken so far.
Broadcast(r, n, places, broken) ==
    LET slow    == {i \in places : link[To(i)] # "reading"}
        reached == {i \in places : \A j \in slow : i <= j}
        written == {c \in {To(i) : i \in reached} : ~Lost(c)}
    IN  /\ begun' = [begun EXCEPT ![r] = n]
        /\ inbox' = [c \in Client |-> IF c \in written THEN Append(inbox[c], <<r, n>>)
                                                       ELSE inbox[c]]
        /\ IF slow = {}
           THEN Complete(r, n, broken)
           ELSE /\ rest' = [rest EXCEPT ![r] = {i \in places : \E j \in slow : j <= i}]
                /\ at' = [at EXCEPT ![r] = IF Lost(To(Min(slow))) THEN "woken" ELSE "draining"]
                /\ dead' = [dead EXCEPT ![r] = broken]
                /\ UNCHANGED <<dropped, files, missed>>
        /\ UNCHANGED subscriptions

\* The client whose drain r waits for, and those to come after it.
Awaited(r) == To(Min(rest[r]))
Others(r)  == rest[r] \ {Min(rest[r])}

\* Deviation: a run goes on publishing after run.finished.
BeginAfterEnd(r) ==
    /\ at[r] \in {"new", "working", "finished"}
    /\ Broadcast(r, begun[r] + 1, Audience(r), {})
    /\ UNCHANGED <<link, request, cancelled, lost, since>>

\* The run publishes its next event.
Begin(r) ==
    /\ at[r] \in {"new", "working"}
    /\ Broadcast(r, begun[r] + 1, Audience(r), {})
    /\ UNCHANGED <<link, request, cancelled, lost, since>>

\* Deviation: the connection the run has waited for is written to again.
ContinueRepeating(r) ==
    /\ at[r] = "woken"
    /\ Broadcast(r, begun[r], IF Lost(Awaited(r)) THEN Others(r) ELSE rest[r], dead[r])
    /\ UNCHANGED <<link, request, cancelled, lost, since>>

\* Deviation: a broken connection ends the loop over the subscriptions.
ContinueUnlessDead(r) ==
    /\ at[r] = "woken"
    /\ Broadcast(r, begun[r], IF Lost(Awaited(r)) THEN {} ELSE Others(r), dead[r])
    /\ UNCHANGED <<link, request, cancelled, lost, since>>

\* Deviation: the end of a connection does not end a drain.
ContinueIfAlive(r) ==
    /\ at[r] = "woken"
    /\ ~Lost(Awaited(r))
    /\ Broadcast(r, begun[r], Others(r), dead[r])
    /\ UNCHANGED <<link, request, cancelled, lost, since>>

\* The drain is over.  If the connection is lost it raises, unless the
\* connection was closed in good order while the run was waiting.
Continue(r) ==
    /\ at[r] = "woken"
    /\ \E broken \in SUBSET ({Awaited(r)} \cap {c \in Client : Lost(c)}) :
          Broadcast(r, begun[r], Others(r), dead[r] \cup broken)
    /\ UNCHANGED <<link, request, cancelled, lost, since>>

\* The task of the run is cancelled.  An event under way is abandoned;
\* run.finished is published, unless the event was run.started, which is
\* published outside the try, or run.finished itself.
Cancel(r) ==
    /\ r \in Cancellable \ cancelled
    /\ at[r] \in {"working"} \cup Publishing
    /\ cancelled' = cancelled \cup {r}
    /\ lost' = IF at[r] = "working" THEN lost ELSE lost \cup {<<r, begun[r]>>}
    /\ IF at[r] # "working" /\ begun[r] \in {1, LastEvent[r]}
       THEN /\ at' = [at EXCEPT ![r] = "finished"]
            /\ rest' = [rest EXCEPT ![r] = {}]
            /\ dead' = [dead EXCEPT ![r] = {}]
            /\ UNCHANGED <<begun, files, subscriptions, dropped, inbox, missed>>
       ELSE Broadcast(r, LastEvent[r], Audience(r), {})
    /\ UNCHANGED <<link, request, since>>

-----------------------------------------------------------------------------
(* Connections *)

\* Tasks that wait for the connection of c are woken.
Wake(c) ==
    at' = [r \in Run |-> IF at[r] = "draining" /\ Awaited(r) = c THEN "woken" ELSE at[r]]

\* The client stops reading and its buffer fills up.
Stall(c) ==
    /\ c \in Flaky
    /\ link[c] = "reading"
    /\ link' = [link EXCEPT ![c] = "stuck"]
    /\ UNCHANGED <<begun, at, rest, dead, files, subscriptions, dropped, inbox,
                   request, cancelled, lost, missed, since>>

Resume(c) ==
    /\ link[c] = "stuck"
    /\ link' = [link EXCEPT ![c] = "reading"]
    /\ Wake(c)
    /\ UNCHANGED <<begun, rest, dead, files, subscriptions, dropped, inbox, request,
                   cancelled, lost, missed, since>>

Hangup(c) ==
    /\ c \in Flaky
    /\ ~Lost(c)
    /\ link' = [link EXCEPT ![c] = "gone"]
    /\ Wake(c)
    /\ UNCHANGED <<begun, rest, dead, files, subscriptions, dropped, inbox, request,
                   cancelled, lost, missed, since>>

\* The read loop of the connection notices its end.
Unsubscribe(c) ==
    /\ link[c] = "gone"
    /\ link' = [link EXCEPT ![c] = "closed"]
    /\ dropped' = dropped \cup {i \in DOMAIN subscriptions : To(i) = c}
    /\ UNCHANGED <<begun, at, rest, dead, files, subscriptions, inbox, request,
                   cancelled, lost, missed, since>>

-----------------------------------------------------------------------------
(* event.subscribe *)

\* The subscription is registered, even if its connection has gone meanwhile.
Subscribe(c, scope) ==
    /\ subscriptions' = Append(subscriptions, [client |-> c, scope |-> scope])
    /\ since' = [since EXCEPT ![c] = begun]

\* The handler writes the whole file of a run to the client, whatever the
\* scope, and registers the subscription; it is suspended in between if
\* there was something to write to a client that does not read.
Request(c, q, scope) ==
    LET lines == IF q = Nobody THEN <<>> ELSE files[q]
        state == IF lines # <<>> /\ link[c] # "reading" THEN "replaying" ELSE "subscribed"
    IN  /\ request[c] = Idle
        /\ inbox' = [inbox EXCEPT ![c] = IF Lost(c) THEN @ ELSE @ \o lines]
        /\ request' = [request EXCEPT ![c] = [state |-> state, from |-> q, scope |-> scope]]
        /\ IF state = "subscribed" THEN Subscribe(c, scope) ELSE UNCHANGED <<subscriptions, since>>
        /\ UNCHANGED <<begun, at, rest, dead, files, dropped, link, cancelled, lost, missed>>

\* The replay has been drained, or the drain raises.
Replayed(c) ==
    /\ request[c].state = "replaying"
    /\ link[c] # "stuck"
    /\ \/ /\ request' = [request EXCEPT ![c].state = "subscribed"]
          /\ Subscribe(c, request[c].scope)
       \/ /\ Lost(c)
          /\ request' = [request EXCEPT ![c].state = "failed"]
          /\ UNCHANGED <<subscriptions, since>>
    /\ UNCHANGED <<begun, at, rest, dead, files, dropped, inbox, link, cancelled, lost, missed>>

-----------------------------------------------------------------------------
Publish(r) == Begin(r) \/ Continue(r)

Next ==
    \/ \E r \in Run : Publish(r) \/ Cancel(r)
    \/ \E c \in Client :
          \/ Stall(c) \/ Resume(c) \/ Hangup(c) \/ Unsubscribe(c) \/ Replayed(c)
          \/ \E w \in Wish[c] : Request(c, w[1], w[2])

Spec == Init /\ [][Next]_vars

\* The event loop resumes tasks that can go on, and calls of the model and of
\* tools end.  Nothing is assumed of clients.
FairSpec == Spec /\ \A r \in Run : WF_vars(Publish(r))

-----------------------------------------------------------------------------
(* Properties *)

InProgress == {<<r, begun[r]>> : r \in {q \in Run : at[q] \in Publishing}}

\* Types; a run is suspended in a drain exactly as long as it has clients to
\* go, and only a client that does not read keeps it there.
TypeOK ==
    /\ begun \in [Run -> Nat] /\ \A r \in Run : begun[r] <= LastEvent[r]
    /\ at \in [Run -> {"new", "working", "finished"} \cup Publishing]
    /\ rest \in [Run -> SUBSET (DOMAIN subscriptions)]
    /\ dead \in [Run -> SUBSET Client]
    /\ files \in [Run -> Seq(Events)]
    /\ subscriptions \in Seq([client : Client, scope : Scope])
    /\ dropped \subseteq DOMAIN subscriptions
    /\ inbox \in [Client -> Seq(Events)]
    /\ link \in [Client -> {"reading", "stuck", "gone", "closed"}]
    /\ request \in [Client -> [state : {"idle", "replaying", "subscribed", "failed"},
                               from : Run \cup {Nobody}, scope : Scope]]
    /\ cancelled \subseteq Run
    /\ lost \subseteq Events
    /\ missed \subseteq Events
    /\ since \in [Client -> [Run -> Nat]]
    /\ \A r \in Run : /\ at[r] \in Publishing <=> rest[r] # {}
                      /\ at[r] = "draining" => link[Awaited(r)] = "stuck"

\* The events of each run come in the order of their publication.
Ordered(log) ==
    \A i, j \in DOMAIN log : i < j /\ log[i][1] = log[j][1] => log[i][2] < log[j][2]

\* A client gets the events of a run in the order of their publication, and
\* none twice, replay and live events taken together: an event is in the file
\* only when its broadcast is over.
InOrder == \A c \in Client : Ordered(inbox[c])

\* A client whose connection stands gets every event that began after its
\* subscription and that was published to the end, to the file or past a file
\* that refused it, although other clients stall, hang up or subscribe while
\* it is being broadcast.
LiveComplete ==
    \A c \in Client : request[c].state = "subscribed" /\ ~Lost(c) =>
        \A r \in Run : request[c].scope \in {Global, r} =>
            \A n \in 1 .. LastEvent[r] :
                /\ n > since[c][r]
                /\ <<r, n>> \in missed \/ Contains(files[r], <<r, n>>)
                => Contains(inbox[c], <<r, n>>)

\* What any client has seen of a run is in the file of the run, so that a
\* replay shows it again, unless it is still being published, the
\* cancellation of the run cut it short, or the file refused that very line
\* (writer.py:35-39): no other way an event is published loses it.
SeenIsStored ==
    \A c \in Client : \A i \in DOMAIN inbox[c] :
        LET e == inbox[c][i]
        IN  e \in lost \cup missed \cup InProgress \/ Contains(files[e[1]], e)

\* The file of a finished run tells it in order from run.started to
\* run.finished, and if it was not cancelled without a hole, except for what a
\* cancellation cut short and the lines the file refused.
FileIsRun ==
    \A r \in Run :
        /\ Ordered(files[r])
        /\ at[r] = "finished" /\ r \notin cancelled => \A n \in 1 .. LastEvent[r] :
              <<r, n>> \in missed \/ Contains(files[r], <<r, n>>)
        /\ at[r] = "finished" => \A n \in {1, LastEvent[r]} :
              \/ <<r, n>> \in lost \cup missed
              \/ n = LastEvent[r] /\ <<r, 1>> \in lost
              \/ Contains(files[r], <<r, n>>)

\* If no client stalls for ever, every run gets to its end: a client that
\* hangs up, or reads slowly, holds nobody up for good.
ReadersSuffice ==
    (\A c \in Client : []<>(link[c] # "stuck")) =>
        \A r \in Run : at[r] # "new" ~> at[r] = "finished"

\* bus/commands.py says that a subscription with replay_from_run replays the
\* history from events.jsonl and goes on with the live stream: what the client
\* has of the run has no gap.
NoGap ==
    \A c \in Client :
        LET q     == request[c].from
            shown == {n \in 1 .. LastEvent[q] : Contains(inbox[c], <<q, n>>)}
        IN  q # Nobody /\ request[c].scope \in {Global, q} =>
                \A m, n \in shown : \A k \in m .. n :
                    k \in shown \/ ~Contains(files[q], <<q, k>>)
=============================================================================
