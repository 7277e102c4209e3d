------------------------------- MODULE Clients -------------------------------
(***************************************************************************)
(* The programs in front of the daemon: the TUI (tui/app.py), kama chat    *)
(* (cli/commands/chat.py) and kama run (cli/commands/run.py), over the     *)
(* SocketClient they share (core/transport/socket_client.py).              *)
(*                                                                         *)
(* A behaviour is one client with its connection.  The daemon is what the  *)
(* client sees of it: it takes commands, answers them, and sends the       *)
(* events of every session, because all three subscribe globally.  It may  *)
(* go away and come back.  A TUI started with --replay has the events of a *)
(* run sent again on every connection it makes.                            *)
(***************************************************************************)
EXTENDS Naturals, Sequences, SequencesExt, FiniteSets

CONSTANTS
    MaxMessages,    \* bound on the messages the user sends
    OwnReq,         \* permission requests of the client's own session
    ForeignReq,     \* permission requests of other sessions
    ReplayReq,      \* those of them that belong to the run of --replay
    None,           \* no message, no request
    MaxLinks,       \* bound on the connections made
    MaxEffort,      \* bound on messages and connections of a TUI together
    MaxForeign      \* bound on what other sessions do that is seen here

Req     == OwnReq \cup ForeignReq
Message == 1 .. MaxMessages

ASSUME ClientsAssumption ==
    /\ OwnReq \cap ForeignReq = {} /\ None \notin Req
    /\ ReplayReq \subseteq ForeignReq /\ IsFiniteSet(ReplayReq)
    /\ MaxMessages \in Nat \ {0} /\ MaxLinks \in Nat /\ MaxEffort \in Nat
    /\ MaxForeign \in Nat

VARIABLES
    kind,       \* which of the three programs this is
    main,       \* where _socket_loop, _chat_async or _run_async is
    link,       \* the connection: none, up, or lost
    links,      \* the connections made so far
    loop,       \* the read loop, run_event_loop
    inbox,      \* what the daemon has sent and the loop has not read
    fut,        \* the futures of the commands under way, by who waits
    busy,       \* TUI: _busy
    prompt,     \* TUI: the input box is enabled
    blocks,     \* TUI: _pending_permission_blocks
    selects,    \* TUI: the PermissionSelect widgets, oldest first
    pump,       \* the request whose answer is being sent: by the TUI's message
                \* pump, or by chat
    pending_id, \* chat: pending_permission_id
    finished,   \* run: the event of that name is set
    work,       \* the daemon's progress with a message
    asked,      \* the daemon's progress with a permission request
    foreign,    \* what other sessions have done so far
    since,      \* history: the connection on which the TUI became busy, or 0
    repeats     \* history: the announcements of requests of the replayed run
                \* that were shown already

screenVars == <<busy, prompt, blocks, selects, pump, since, repeats>>
daemonVars == <<work, asked, foreign>>
wireVars   == <<link, links, loop, inbox, fut>>
lineVars   == <<pending_id, finished>>
vars       == <<kind, main, wireVars, screenVars, lineVars, daemonVars>>

\* Who may wait for a command: the main coroutine, the message pump, or the
\* worker of a message.
Main   == 0
Pump   == MaxMessages + 1
Waiter == Message \cup {Main, Pump}

TUI(m)  == kind = "tui" /\ main = m
Chat(m) == kind = "chat" /\ main = m
Run(m)  == kind = "run" /\ main = m

\* What run has subscribed to; the other two hear everything.
Heard(t) == kind = "run" => t = "finished"

\* What a client is sent of an answer and, once it has subscribed, of an event.
Response(w, ok) == <<[type |-> IF ok THEN "ok" ELSE "error", of |-> w]>>
HasSubscribed ==
    main = "subscribing" =>
        fut[Main] = "ok" \/ \E k \in 1 .. Len(inbox) : inbox[k] = [type |-> "ok", of |-> Main]
Event(t, r) == IF Heard(t) /\ HasSubscribed THEN <<[type |-> t, of |-> r]>> ELSE <<>>

\* Bound: what the TUI has connected and sent so far.
Effort == links + Cardinality({i \in Message : work[i] # "unsent"})

-----------------------------------------------------------------------------
Init ==
    /\ kind \in {"tui", "chat", "run"}
    /\ main = "start"
    /\ link = "none" /\ links = 0 /\ loop = "none" /\ inbox = <<>>
    /\ fut = [w \in Waiter |-> "none"]
    /\ busy = FALSE /\ prompt = FALSE /\ blocks = {} /\ selects = <<>>
    /\ pump = None /\ since = 0 /\ repeats = 0
    /\ pending_id = None /\ finished = FALSE
    /\ work = [i \in Message |-> "unsent"]
    /\ asked = [r \in Req |-> "no"]
    /\ foreign = 0

-----------------------------------------------------------------------------
(* SocketClient *)

\* send_command on a lost connection: the write fails, or it succeeds and
\* there is nobody to answer it.  Nothing checks that the loop still runs.
Command(w) ==
    \E f \in IF link = "up" THEN {"waiting"} ELSE {"broken", "unheard"} :
        fut' = [fut EXCEPT ![w] = f]

Take(w) == fut' = [fut EXCEPT ![w] = "none"]

Failed(w) == fut[w] \in {"error", "broken"}

\* The end of the read loop cancels every command still waiting.
CancelPending(f) ==
    [w \in Waiter |-> IF f[w] \in {"waiting", "unheard"} THEN "cancelled" ELSE f[w]]

EndLoop ==
    /\ loop = "running" /\ link = "lost"
    /\ loop' = "over"
    /\ inbox' = <<>>
    /\ fut' = CancelPending(fut)
    /\ UNCHANGED <<kind, main, link, links, screenVars, lineVars, daemonVars>>

\* connect, the read loop as a task, and the first command.  In the pause
\* before a reconnection workers that were started begin.
Connect ==
    /\ main = "start" /\ links < MaxLinks /\ Effort < MaxEffort
    /\ \A i \in Message : work[i] # "submitted"
    /\ main' = "subscribing"
    /\ link' = "up" /\ links' = links + 1 /\ loop' = "running" /\ inbox' = <<>>
    /\ fut' = [fut EXCEPT ![Main] = "waiting"]
    /\ UNCHANGED <<kind, screenVars, lineVars, daemonVars>>

Reads(t) ==
    /\ loop = "running" /\ inbox # <<>> /\ Head(inbox).type = t
    /\ inbox' = Tail(inbox)
    /\ UNCHANGED <<kind, link, links, loop, daemonVars>>

\* The response of a command: its future is set, and whoever waits for it
\* goes on later, perhaps after events that follow it.
ReadResponse ==
    \E t \in {"ok", "error"} :
        /\ Reads(t)
        /\ fut' = [fut EXCEPT ![Head(inbox).of] = IF @ = "waiting" THEN t ELSE @]
        /\ UNCHANGED <<main, screenVars, lineVars>>

ReadsEvent(t) == Reads(t) /\ UNCHANGED fut

-----------------------------------------------------------------------------
(* The TUI: its connection (Subscribed is also that of chat) *)

\* event.subscribe was answered: session.create.
Subscribed ==
    /\ kind # "run" /\ main = "subscribing" /\ fut[Main] = "ok"
    /\ main' = "creating"
    /\ Command(Main)
    /\ UNCHANGED <<kind, link, links, loop, inbox, screenVars, lineVars, daemonVars>>

\* So was session.create: the prompt is enabled.
Created ==
    /\ TUI("creating") /\ fut[Main] = "ok"
    /\ main' = "serving" /\ prompt' = TRUE
    /\ Take(Main)
    /\ UNCHANGED <<kind, link, links, loop, inbox, busy, blocks, selects, pump, since, repeats,
                   lineVars, daemonVars>>

\* The finally of _socket_loop: neither _busy nor the requests are reset.
\* Ending the loop cancels commands; one written after its end waits on.
Disconnect(next) ==
    /\ main' = next
    /\ prompt' = FALSE
    /\ link' = "none" /\ loop' = "none" /\ inbox' = <<>>
    /\ fut' = [IF loop = "running" THEN CancelPending(fut) ELSE fut EXCEPT ![Main] = "none"]
    /\ UNCHANGED <<kind, links, busy, blocks, selects, pump, since, repeats, lineVars, daemonVars>>

\* The loop has ended, or the daemon has refused a command: once more.
Reconnect ==
    /\ kind = "tui"
    /\ \/ main = "serving" /\ loop = "over"
       \/ main \in {"subscribing", "creating"} /\ fut[Main] = "error"
    /\ Disconnect("start")

\* A connection lost while one of them is under way ends the socket worker.
SocketLoopDies ==
    /\ kind = "tui" /\ main \in {"subscribing", "creating"}
    /\ fut[Main] \in {"cancelled", "broken"}
    /\ Disconnect("exited")

-----------------------------------------------------------------------------
(* The TUI: messages *)

\* The user presses enter in the enabled prompt.  With no session, or busy,
\* nothing happens; otherwise a worker is started.
Submit(i) ==
    /\ TUI("serving") /\ prompt /\ pump = None /\ ~busy
    /\ work[i] = "unsent" /\ \A j \in Message : j < i => work[j] # "unsent"
    /\ Effort < MaxEffort
    /\ busy' = TRUE /\ prompt' = FALSE /\ since' = links
    /\ work' = [work EXCEPT ![i] = "submitted"]
    /\ UNCHANGED <<kind, main, wireVars, blocks, selects, pump, repeats, lineVars, asked, foreign>>

\* The worker begins: without a client it returns at once.
SendMessage(i) ==
    /\ kind = "tui" /\ work[i] = "submitted"
    /\ IF main = "serving"
       THEN /\ Command(i)
            /\ work' = [work EXCEPT ![i] = IF link = "up" THEN "sent" ELSE "over"]
       ELSE /\ work' = [work EXCEPT ![i] = "over"]
            /\ UNCHANGED fut
    /\ UNCHANGED <<kind, main, link, links, loop, inbox, screenVars, lineVars, asked, foreign>>

\* Deviation: the prompt comes back, and the flag stays.
SentStillBusy(i) ==
    /\ kind = "tui"
    /\ \/ fut[i] \in {"ok", "cancelled"} /\ UNCHANGED <<busy, prompt>>
       \/ Failed(i) /\ prompt' = TRUE /\ UNCHANGED busy
    /\ Take(i)
    /\ UNCHANGED <<kind, main, link, links, loop, inbox, blocks, selects, pump, since, repeats,
                   lineVars, daemonVars>>

\* An error gives the prompt back; a cancelled worker changes nothing.
Sent(i) ==
    /\ kind = "tui"
    /\ \/ fut[i] \in {"ok", "cancelled"} /\ UNCHANGED <<busy, prompt, since>>
       \/ Failed(i) /\ busy' = FALSE /\ prompt' = TRUE /\ since' = 0
    /\ Take(i)
    /\ UNCHANGED <<kind, main, link, links, loop, inbox, blocks, selects, pump, repeats,
                   lineVars, daemonVars>>

\* session.waiting_for_input or session.closed of whatever session.
SessionEvent(t) ==
    /\ kind = "tui" /\ ReadsEvent(t)
    /\ busy' = FALSE /\ prompt' = (t = "waiting") /\ since' = 0
    /\ UNCHANGED <<main, blocks, selects, pump, repeats, lineVars>>

-----------------------------------------------------------------------------
(* The TUI: permissions *)

\* A request that is announced again gets a second selector and no second block.
Requested ==
    /\ kind = "tui" /\ ReadsEvent("requested")
    /\ repeats' = IF Head(inbox).of \in blocks \cap ReplayReq THEN repeats + 1 ELSE repeats
    /\ blocks' = blocks \cup {Head(inbox).of}
    /\ selects' = Append(selects, Head(inbox).of)
    /\ prompt' = FALSE
    /\ UNCHANGED <<main, busy, pump, since, lineVars>>

\* Deviation: the widget is left to whoever mounted it.
DeniedKeepsSelect ==
    /\ kind = "tui" /\ ReadsEvent("denied")
    /\ blocks' = blocks \ {Head(inbox).of}
    /\ prompt' = IF Head(inbox).of \in blocks /\ blocks' = {} THEN TRUE ELSE prompt
    /\ UNCHANGED <<selects, main, busy, pump, since, repeats, lineVars>>

\* A request that is still shown was denied or has timed out: its block and
\* the oldest selector, which may be another's, are taken away.
Denied ==
    /\ kind = "tui" /\ ReadsEvent("denied")
    /\ IF Head(inbox).of \in blocks
       THEN /\ blocks' = blocks \ {Head(inbox).of}
            /\ selects' = IF selects = <<>> THEN selects ELSE Tail(selects)
            /\ prompt' = IF blocks' = {} THEN TRUE ELSE prompt
       ELSE UNCHANGED <<blocks, selects, prompt>>
    /\ UNCHANGED <<main, busy, pump, since, repeats, lineVars>>

\* The user picks at a selector: it goes, and the answer is sent if there
\* is a client; the pump handles nothing else until that has returned.
Decide(r) ==
    /\ kind = "tui" /\ pump = None
    /\ \E i \in 1 .. Len(selects) : selects[i] = r /\ selects' = RemoveAt(selects, i)
    /\ blocks' = blocks \ {r}
    /\ IF main \in {"subscribing", "creating", "serving"}
       THEN pump' = r /\ Command(Pump) /\ UNCHANGED prompt
       ELSE /\ prompt' = IF blocks' = {} THEN TRUE ELSE prompt
            /\ UNCHANGED <<pump, fut>>
    /\ UNCHANGED <<kind, main, link, links, loop, inbox, busy, since, repeats, lineVars, daemonVars>>

\* An answer cancelled by a lost connection does not return: CancelledError
\* passes the handler and ends the message pump.
Decided ==
    /\ kind = "tui"
    /\ fut[Pump] = "ok" \/ Failed(Pump)
    /\ pump' = None
    /\ prompt' = IF blocks = {} THEN TRUE ELSE prompt
    /\ Take(Pump)
    /\ UNCHANGED <<kind, main, link, links, loop, inbox, busy, blocks, selects, since, repeats,
                   lineVars, daemonVars>>

-----------------------------------------------------------------------------
(* kama chat *)

ChatCreated ==
    /\ Chat("creating") /\ fut[Main] = "ok"
    /\ main' = "reading"
    /\ Take(Main)
    /\ UNCHANGED <<kind, link, links, loop, inbox, screenVars, lineVars, daemonVars>>

\* A line while a request is shown is the answer to it, if it is one of
\* the four letters; otherwise it is a message.
ChatLine ==
    /\ Chat("reading")
    /\ IF pending_id # None
       THEN /\ main' = "answering"
            /\ pump' = pending_id /\ pending_id' = None
            /\ UNCHANGED <<finished, work>>
       ELSE \E i \in Message :
            /\ work[i] = "unsent" /\ \A j \in Message : j < i => work[j] # "unsent"
            /\ main' = "sending"
            /\ work' = [work EXCEPT ![i] = IF link = "up" THEN "sent" ELSE "over"]
            /\ UNCHANGED <<pump, lineVars>>
    /\ Command(Main)
    /\ UNCHANGED <<kind, link, links, loop, inbox, busy, prompt, blocks, selects, since, repeats,
                   asked, foreign>>

\* End of input: the session is closed.
ChatEnds ==
    /\ Chat("reading")
    /\ main' = "closing"
    /\ Command(Main)
    /\ UNCHANGED <<kind, link, links, loop, inbox, screenVars, lineVars, daemonVars>>

ChatReturns ==
    /\ kind = "chat" /\ main \in {"sending", "answering"} /\ fut[Main] = "ok"
    /\ main' = "reading" /\ pump' = None
    /\ Take(Main)
    /\ UNCHANGED <<kind, link, links, loop, inbox, busy, prompt, blocks, selects, since, repeats,
                   lineVars, daemonVars>>

\* The printer.
ChatEvent ==
    /\ kind = "chat"
    /\ \/ ReadsEvent("requested") /\ pending_id' = Head(inbox).of
       \/ ReadsEvent("waiting") /\ pending_id' = None
       \/ (ReadsEvent("closed") \/ ReadsEvent("denied") \/ ReadsEvent("finished")) /\ UNCHANGED pending_id
    /\ UNCHANGED <<main, screenVars, finished>>

-----------------------------------------------------------------------------
(* kama run *)

RunAsked ==
    /\ Run("subscribing") /\ fut[Main] = "ok"
    /\ main' = "sending"
    /\ Command(Main)
    /\ work' = [work EXCEPT ![1] = IF link = "up" THEN "sent" ELSE "over"]
    /\ UNCHANGED <<kind, link, links, loop, inbox, screenVars, lineVars, asked, foreign>>

\* agent.run was answered: finished.wait().
RunAccepted ==
    /\ Run("sending") /\ fut[Main] = "ok"
    /\ main' = "running"
    /\ Take(Main)
    /\ UNCHANGED <<kind, link, links, loop, inbox, screenVars, lineVars, daemonVars>>

\* run.finished of whatever run.
RunEvent ==
    /\ kind = "run"
    /\ ReadsEvent("finished")
    /\ finished' = TRUE
    /\ UNCHANGED <<main, screenVars, pending_id>>

\* chat and run end, whatever they waited for: when the session is closed,
\* when a run has ended, on an error and on a cancelled command.
Exit ==
    /\ kind # "tui"
    /\ \/ Failed(Main) \/ fut[Main] = "cancelled"
       \/ main = "closing" /\ fut[Main] = "ok"
       \/ main = "running" /\ finished
    /\ main' = "exited"
    /\ link' = "none" /\ loop' = "none" /\ inbox' = <<>>
    /\ Take(Main)
    /\ UNCHANGED <<kind, links, screenVars, lineVars, daemonVars>>

-----------------------------------------------------------------------------
(* The daemon, as far as the client sees it *)

Says(m) ==
    /\ inbox' = IF link = "up" THEN inbox \o m ELSE inbox
    /\ UNCHANGED <<kind, main, link, links, loop, fut, screenVars, lineVars>>

Unanswered(w) ==
    /\ link = "up" /\ fut[w] = "waiting"
    /\ \A k \in 1 .. Len(inbox) : inbox[k].of # w

\* What the file of the replayed run says of its requests: each that was
\* asked, in some order, and its denial behind it.
Recorded ==
    [type : {"requested"}, of : {r \in ReplayReq : asked[r] # "no"}]
    \cup [type : {"denied"}, of : {r \in ReplayReq : asked[r] = "denied"}]

Replays ==
    {m \in SetToSeqs(Recorded) : \A i, j \in DOMAIN m :
        m[i].of = m[j].of /\ m[i].type = "requested" => i <= j}

\* A command without further consequence here is answered, perhaps with an
\* error.  The TUI's subscription is answered behind the replay.
Answer ==
    /\ main \in {"subscribing", "creating", "closing"}
    /\ Unanswered(Main)
    /\ \/ Says(Response(Main, FALSE))
       \/ \E m \in IF TUI("subscribing") THEN Replays ELSE {<<>>} :
             Says(m \o Response(Main, TRUE))
    /\ UNCHANGED daemonVars

\* Who waits for the answer to message i.
Sender(i) == IF kind = "tui" THEN i ELSE Main

\* The session is busy or gone (SessionManager): an error, except for
\* agent.run, which is answered before its task is refused.
Refuse(i) ==
    /\ work[i] = "sent"
    /\ work' = [work EXCEPT ![i] = "refused"]
    /\ Says(Response(Sender(i), kind = "run"))
    /\ UNCHANGED <<asked, foreign>>

Accept(i) ==
    /\ work[i] = "sent"
    /\ \A j \in Message : work[j] # "running"
    /\ work' = [work EXCEPT ![i] = "running"]
    /\ Says(IF kind = "run" THEN Response(Main, TRUE) ELSE <<>>)
    /\ UNCHANGED <<asked, foreign>>

\* The run ends, with nothing of it waiting for approval.
EndRun(i) ==
    /\ work[i] = "running"
    /\ \A r \in OwnReq : asked[r] # "pending"
    /\ work' = [work EXCEPT ![i] = "over"]
    /\ Says(Event("finished", None) \o Event("waiting", None)
            \o IF kind = "run" THEN <<>> ELSE Response(Sender(i), TRUE))
    /\ UNCHANGED <<asked, foreign>>

\* It raises: an error, which agent.run has no one to tell.
RunRaises(i) ==
    /\ work[i] = "running"
    /\ \A r \in OwnReq : asked[r] # "pending"
    /\ work' = [work EXCEPT ![i] = "raised"]
    /\ Says(IF kind = "run" THEN <<>> ELSE Response(Sender(i), FALSE))
    /\ UNCHANGED <<asked, foreign>>

\* A tool call of the session's run, or of another session's, asks.
Ask(r) ==
    /\ asked[r] = "no"
    /\ \/ /\ r \in OwnReq /\ \E i \in Message : work[i] = "running"
          /\ asked' = [asked EXCEPT ![r] = "pending"]
          /\ UNCHANGED foreign
       \/ /\ r \in ForeignReq /\ foreign < MaxForeign
          /\ asked' = [asked EXCEPT ![r] = "elsewhere"]
          /\ foreign' = foreign + 1
    /\ Says(Event("requested", r))
    /\ UNCHANGED work

Open(r) == asked[r] \in {"pending", "elsewhere"}

\* It times out or is denied by another client.
Expire(r) ==
    /\ Open(r)
    /\ asked' = [asked EXCEPT ![r] = "denied"]
    /\ Says(Event("denied", r))
    /\ UNCHANGED <<work, foreign>>

\* Another client grants it: permission.granted concerns no client, so that
\* what shows the request goes on to show it.
Grant(r) ==
    /\ Open(r)
    /\ asked' = [asked EXCEPT ![r] = "granted"]
    /\ Says(<<>>)
    /\ UNCHANGED <<work, foreign>>

\* permission.respond: the first answer to a pending request settles it.
Respond ==
    LET w == IF kind = "tui" THEN Pump ELSE Main IN
    /\ pump # None /\ Unanswered(w)
    /\ \E allowed \in BOOLEAN :
          /\ asked' = [asked EXCEPT ![pump] =
                IF Open(pump) THEN IF allowed THEN "granted" ELSE "denied" ELSE @]
          /\ Says((IF Open(pump) /\ ~allowed THEN Event("denied", pump) ELSE <<>>)
                  \o Response(w, TRUE))
    /\ UNCHANGED <<work, foreign>>

\* What other sessions do is sent to every client.
ForeignEvent ==
    /\ link = "up" /\ foreign < MaxForeign
    /\ foreign' = foreign + 1
    /\ \E t \in {"waiting", "closed", "finished"} : Says(Event(t, None))
    /\ UNCHANGED <<work, asked>>

\* The daemon stops or the connection breaks.  What is under way goes on as
\* the work of another session: the next connection has a session of its own.
Lose ==
    /\ link = "up"
    /\ link' = "lost"
    /\ work' = [i \in Message |-> IF work[i] \in {"sent", "running"} THEN "over" ELSE work[i]]
    /\ asked' = [r \in Req |-> IF asked[r] = "pending" THEN "elsewhere" ELSE asked[r]]
    /\ UNCHANGED <<kind, main, links, loop, inbox, fut, screenVars, lineVars, foreign>>

-----------------------------------------------------------------------------
TuiEvent ==
    \/ SessionEvent("waiting") \/ SessionEvent("closed") \/ Requested \/ Denied
    \/ kind = "tui" /\ ReadsEvent("finished") /\ UNCHANGED <<main, screenVars, lineVars>>

Loop == EndLoop \/ ReadResponse \/ TuiEvent \/ ChatEvent \/ RunEvent

Resume ==
    \/ Connect \/ Subscribed \/ Created \/ Reconnect \/ SocketLoopDies \/ Decided
    \/ ChatCreated \/ ChatReturns \/ RunAsked \/ RunAccepted \/ Exit
    \/ \E i \in Message : SendMessage(i) \/ Sent(i)

User ==
    \/ ChatLine \/ ChatEnds
    \/ \E i \in Message : Submit(i)
    \/ \E r \in Req : Decide(r)

Serve ==
    \/ Answer \/ Respond
    \/ \E i \in Message : Refuse(i) \/ Accept(i) \/ EndRun(i) \/ RunRaises(i)
    \/ \E r \in Req : Expire(r) \/ Grant(r)

Outside == ForeignEvent \/ Lose \/ \E r \in Req : Ask(r)

Next == Loop \/ Resume \/ User \/ Serve \/ Outside

Spec == Init /\ [][Next]_vars

\* The client's event loop resumes what can go on.  Nothing is assumed of
\* users, of the connection or of the daemon: what WaitsEnd needs of it, it says.
FairSpec == Spec /\ WF_vars(Loop) /\ WF_vars(Resume)

-----------------------------------------------------------------------------
(* Properties *)

\* The client waits for the agent over a connection that is up: the TUI that
\* became busy on it, chat while a line is under way, and run.  Two kinds of
\* run are the exception, because nobody tells kama run of them: the one that
\* was refused after agent.run had accepted it, and the one that raised.
Waits ==
    /\ link = "up"
    /\ \/ kind = "tui" /\ busy /\ since = links
       \/ kind = "chat" /\ main \in {"sending", "answering"}
       \/ kind = "run" /\ main = "running" /\ work[1] \notin {"refused", "raised"}

\* What the daemon owes the client: it answers each command, which for
\* session.send_message means that the run ends, and ends each run.  So the
\* questions of the run are answered or expire, which those with timeout_s = 0
\* need not (config.py:49), and no client that has stopped reading holds up
\* the broadcast (ipc_broadcaster.py:68).
DaemonServes ==
    /\ \A w \in Waiter : []<>~Unanswered(w)
    /\ \A i \in Message : []<>(work[i] # "running")

\* If the daemon serves it, a wait of the client ends or its connection does,
\* although the events of other sessions set and clear the same flags, commands
\* overlap, and a response may be handled before or after the event that
\* belongs to it (tui/app.py:624, chat.py:111, run.py:104).
WaitsEnd == DaemonServes => (Waits ~> ~Waits)

\* Once no request is shown in the TUI, no selector is left that would take
\* the keyboard, although a denial removes the oldest one, perhaps another's
\* (tui/app.py:1036).  Only a replay leaves some: of a request of the replayed
\* run that is shown already it mounts a second one (tui/app.py:1024).
SelectHasBlock == Len(selects) <= Cardinality(blocks) + repeats
=============================================================================
