------------------------------ MODULE McpClient ------------------------------
(***************************************************************************)
(* The daemon's connections to MCP servers: McpClient (mcp/client.py), the *)
(* tools made of what a server offers (mcp/tool.py), and McpServerManager  *)
(* (mcp/server.py), which connects at start-up and closes at shutdown.     *)
(*                                                                         *)
(* A connection carries lines both ways.  One call at a time owns it (an   *)
(* asyncio.Lock), writes a request and reads until a line has the id of    *)
(* the request.  A call may give up, or be cancelled, with its response    *)
(* still to come, and the connection is used again after that.             *)
(***************************************************************************)
EXTENDS Naturals, Sequences, SequencesExt, FiniteSets

CONSTANTS
    Server,         \* the configured servers
    Name,           \* the names the configuration gives servers
    NameOf,         \* the name of each: two may have the same
    Used,           \* bound: the servers whose tools are called, and that may
                    \* answer with errors
    Order,          \* their order in the configuration
    Caller,         \* tool calls of runs and subagents
    Boot,           \* the start-up task, which calls like a tool does
    None,           \* no server, no call
    Retries,        \* how often a call is tried again (at most _MAX_RETRIES)
    OwnIds,         \* bound: the ids servers give requests of their own
    MaxLines        \* bound: lines of a server unread when it sends one unasked

ASSUME McpAssumption ==
    /\ NameOf \in [Server -> Name]
    /\ Used \subseteq Server /\ Order \in Seq(Server)
    /\ None \notin Server \cup Caller \cup {Boot} /\ Boot \notin Caller
    /\ Retries \in [Caller -> Nat] /\ OwnIds \subseteq Nat /\ MaxLines \in [Server -> Nat]

Calling == Caller \cup {Boot}

VARIABLES
    daemon,         \* the daemon's life cycle
    todo,           \* servers start_all or stop_all has still to visit
    clients,        \* _clients of the manager, in the order of the dict
    offered,        \* the servers with tools in _tools of the manager
    stage,          \* how far the manager has come with a server
    process,        \* the server process, or its end of the TCP connection
    last_id,        \* _id of the client
    owner,          \* the call inside the critical section of a client
    waiters,        \* calls waiting for it
    requests,       \* requests the server has not answered
    lines,          \* lines the client has not read
    pc, server, req_id, attempt,    \* of a call
    got             \* history: what the call ended with

clientVars == <<last_id, owner, waiters>>
wireVars   == <<requests, lines>>
callVars   == <<pc, server, req_id, attempt, got>>
vars       == <<daemon, todo, clients, offered, stage, process, clientVars, wireVars, callVars>>

Stage   == {"unused", "connecting", "listing", "ready", "shadowed", "failed"}
Process == {"none", "running", "terminating", "gone"}
Nothing == [kind |-> "nothing", of |-> Boot, attempt |-> 0]

\* What a server sends unasked: notifications and lines that are no JSON,
\* and requests, which have an id of the server's own.
Noise  == [kind |-> "noise", id |-> 0, of |-> Boot, attempt |-> 0]
Ask(i) == [kind |-> "request", id |-> i, of |-> Boot, attempt |-> 0]

-----------------------------------------------------------------------------
Init ==
    /\ daemon = "starting"
    /\ todo = Order
    /\ clients = <<>>
    /\ offered = {}
    /\ stage = [s \in Server |-> "unused"]
    /\ process = [s \in Server |-> "none"]
    /\ last_id = [s \in Server |-> 0]
    /\ owner = [s \in Server |-> None]
    /\ waiters = [s \in Server |-> <<>>]
    /\ requests = [s \in Server |-> {}]
    /\ lines = [s \in Server |-> <<>>]
    /\ pc = [c \in Calling |-> "idle"]
    /\ server = [c \in Calling |-> None]
    /\ req_id = [c \in Calling |-> 0]
    /\ attempt = [c \in Calling |-> 0]
    /\ got = [c \in Calling |-> Nothing]

-----------------------------------------------------------------------------
(* McpClient._call *)

\* The request is written and the call begins to read.  A write to a server
\* that has closed the connection fails here or goes unanswered.  (drain has
\* no time limit; that servers read their input is assumed.)
Write(c, s, id, n) ==
    /\ owner' = [owner EXCEPT ![s] = c]
    /\ requests' = IF process'[s] = "running"
                   THEN [requests EXCEPT ![s] = @ \cup {[id |-> id, of |-> c, attempt |-> n]}]
                   ELSE requests
    /\ pc' = [pc EXCEPT ![c] = "reading"]

\* The id is taken before the lock; a free lock is acquired without waiting.
Enter(c, s) ==
    /\ last_id' = [last_id EXCEPT ![s] = @ + 1]
    /\ req_id' = [req_id EXCEPT ![c] = last_id[s] + 1]
    /\ server' = [server EXCEPT ![c] = s]
    /\ attempt' = [attempt EXCEPT ![c] = @ + 1]
    /\ IF owner[s] = None /\ waiters[s] = <<>>
       THEN Write(c, s, last_id[s] + 1, attempt[c] + 1) /\ UNCHANGED waiters
       ELSE /\ waiters' = [waiters EXCEPT ![s] = Append(@, c)]
            /\ pc' = [pc EXCEPT ![c] = "waiting"]
            /\ UNCHANGED <<owner, requests>>
    /\ UNCHANGED <<lines, got>>

\* The lock is free and the first waiter takes it.
Acquire(c) ==
    /\ pc[c] = "waiting"
    /\ LET s == server[c] IN
        /\ owner[s] = None
        /\ waiters[s] # <<>> /\ Head(waiters[s]) = c
        /\ waiters' = [waiters EXCEPT ![s] = Tail(@)]
        /\ UNCHANGED process
        /\ Write(c, s, req_id[c], attempt[c])
    /\ UNCHANGED <<daemon, todo, clients, offered, stage, last_id, lines,
                   server, req_id, attempt, got>>

\* The call ends and leaves the critical section.
Leave(c, result) ==
    /\ owner' = [owner EXCEPT ![server[c]] = None]
    /\ got' = [got EXCEPT ![c] = result]
    /\ pc' = [pc EXCEPT ![c] = "returned"]
    /\ req_id' = [req_id EXCEPT ![c] = 0]
    /\ UNCHANGED <<daemon, todo, clients, offered, stage, process, last_id, waiters, requests,
                   server, attempt>>

Failure == [Nothing EXCEPT !.kind = "unavailable"]

\* Deviation: the next response is taken for the one asked for.
AnswersAny(line, c) == line.kind # "noise"

\* Deviation: a line without an id is taken for the response.
AnswersUnasked(line, c) == line.kind = "noise" \/ line.id = req_id[c]

\* Any message with the id of the request: a response to it, and a request
\* of the server that happens to have the same id.  Notifications, other
\* lines and responses to earlier requests are skipped.
Answers(line, c) == line.kind # "noise" /\ line.id = req_id[c]

\* A request is taken for a result with nothing in it.
Meaning(line) == IF line.kind = "request" THEN "mistaken" ELSE line.kind

Read(c) ==
    /\ pc[c] = "reading"
    /\ LET s == server[c] IN
        /\ lines[s] # <<>>
        /\ lines' = [lines EXCEPT ![s] = Tail(@)]
        /\ LET line == Head(lines[s]) IN
           IF Answers(line, c)
           THEN Leave(c, [kind |-> Meaning(line), of |-> line.of, attempt |-> line.attempt])
           ELSE UNCHANGED <<daemon, todo, clients, offered, stage, process, clientVars,
                            requests, callVars>>

\* A line that is too long, or is JSON and no object, fails the call.
ReadFails(c) ==
    /\ pc[c] = "reading"
    /\ LET s == server[c] IN
        /\ lines[s] # <<>> /\ Head(lines[s]).kind = "noise"
        /\ lines' = [lines EXCEPT ![s] = Tail(@)]
    /\ Leave(c, Failure)

\* Deviation: a silent server is waited for.
GiveUpAtEnd(c) ==
    /\ pc[c] = "reading"
    /\ lines[server[c]] = <<>>
    /\ process[server[c]] = "gone"
    /\ Leave(c, Failure)
    /\ UNCHANGED lines

\* No line for 30 seconds, or the end of the stream: the call is given up
\* and its response, if there ever is one, stays in the connection.
GiveUp(c) ==
    /\ pc[c] = "reading"
    /\ lines[server[c]] = <<>>
    /\ Leave(c, Failure)
    /\ UNCHANGED lines

\* The limit of the tool or the end of its run cancels a call anywhere.
Cancel(c) ==
    /\ c # Boot
    /\ LET s == server[c] IN
        \/ /\ pc[c] = "reading"
           /\ owner' = [owner EXCEPT ![s] = None]
           /\ UNCHANGED waiters
        \/ /\ pc[c] = "waiting"
           /\ \E i \in 1 .. Len(waiters[s]) :
                /\ waiters[s][i] = c
                /\ waiters' = [waiters EXCEPT ![s] = RemoveAt(@, i)]
           /\ UNCHANGED owner
    /\ pc' = [pc EXCEPT ![c] = "cancelled"]
    /\ req_id' = [req_id EXCEPT ![c] = 0]
    /\ UNCHANGED <<daemon, todo, clients, offered, stage, process, last_id, wireVars,
                   server, attempt, got>>

\* The call ended without an exception.
Succeeded(c) == got[c].kind \in {"result", "mistaken"}

\* McpTool.invoke: a tool of a server that was started.  Every failure is
\* a runtime_error, after which invoke_tool calls again.
Invoke(c) ==
    /\ c # Boot
    /\ daemon \in {"serving", "stopping"}
    /\ \E s \in Used \cap offered :
        /\ \/ pc[c] = "idle"
           \/ /\ pc[c] = "returned" /\ ~Succeeded(c)
              /\ server[c] = s /\ attempt[c] <= Retries[c]
        /\ UNCHANGED process
        /\ Enter(c, s)
    /\ UNCHANGED <<daemon, todo, clients, offered, stage>>

-----------------------------------------------------------------------------
(* McpServerManager *)

Visited == todo' = Tail(todo)

Idle ==
    /\ pc' = [pc EXCEPT ![Boot] = "idle"]
    /\ attempt' = [attempt EXCEPT ![Boot] = 0]
    /\ got' = [got EXCEPT ![Boot] = Nothing]

\* The transport cannot be set up: the server is skipped.
Refused ==
    /\ daemon = "starting" /\ todo # <<>>
    /\ stage[Head(todo)] = "unused"
    /\ stage' = [stage EXCEPT ![Head(todo)] = "failed"]
    /\ Visited
    /\ UNCHANGED <<daemon, clients, offered, process, clientVars, wireVars, callVars>>

\* The process runs or the connection is open: initialize is called.
Connect ==
    /\ daemon = "starting" /\ todo # <<>>
    /\ LET s == Head(todo) IN
        /\ stage[s] = "unused"
        /\ stage' = [stage EXCEPT ![s] = "connecting"]
        /\ process' = [process EXCEPT ![s] = "running"]
        /\ Enter(Boot, s)
    /\ UNCHANGED <<daemon, todo, clients, offered>>

\* initialize was answered: it is acknowledged and tools/list is called.
Initialized ==
    /\ daemon = "starting" /\ todo # <<>>
    /\ pc[Boot] = "returned" /\ Succeeded(Boot)
    /\ LET s == Head(todo) IN
        /\ stage[s] = "connecting"
        /\ stage' = [stage EXCEPT ![s] = "listing"]
        /\ UNCHANGED process
        /\ Enter(Boot, s)
    /\ UNCHANGED <<daemon, todo, clients, offered>>

\* The client is stored under the name of its server, in the place of one
\* that was stored under it before and whose tools stay.
Store(s) ==
    LET namesakes == {i \in DOMAIN clients : NameOf[clients[i]] = NameOf[s]} IN
    \/ /\ namesakes = {}
       /\ clients' = Append(clients, s)
       /\ stage' = [stage EXCEPT ![s] = "ready"]
    \/ \E i \in namesakes :
        /\ clients' = [clients EXCEPT ![i] = s]
        /\ stage' = [stage EXCEPT ![clients[i]] = "shadowed", ![s] = "ready"]

\* The tools are known, none if the response was mistaken.
Listed ==
    /\ daemon = "starting" /\ todo # <<>>
    /\ pc[Boot] = "returned" /\ Succeeded(Boot)
    /\ stage[Head(todo)] = "listing"
    /\ Store(Head(todo))
    /\ offered' = IF got[Boot].kind = "result" THEN offered \cup {Head(todo)} ELSE offered
    /\ Visited
    /\ Idle
    /\ UNCHANGED <<daemon, process, clientVars, wireVars, server, req_id>>

\* One of the two calls failed: the server is skipped and never closed.
Skipped ==
    /\ daemon = "starting" /\ todo # <<>>
    /\ pc[Boot] = "returned" /\ ~Succeeded(Boot)
    /\ stage' = [stage EXCEPT ![Head(todo)] = "failed"]
    /\ Visited
    /\ Idle
    /\ UNCHANGED <<daemon, clients, offered, process, clientVars, wireVars, server, req_id>>

Serve ==
    /\ daemon = "starting" /\ todo = <<>>
    /\ daemon' = "serving"
    /\ UNCHANGED <<todo, clients, offered, stage, process, clientVars, wireVars, callVars>>

\* Shutdown has cancelled the runs it knows; subagents may still be calling.
StopAll ==
    /\ daemon = "serving"
    /\ daemon' = "stopping"
    /\ todo' = clients
    /\ UNCHANGED <<clients, offered, stage, process, clientVars, wireVars, callVars>>

\* close: the process is told to terminate.
Close ==
    /\ daemon = "stopping" /\ todo # <<>>
    /\ process[Head(todo)] = "running"
    /\ process' = [process EXCEPT ![Head(todo)] = "terminating"]
    /\ requests' = [requests EXCEPT ![Head(todo)] = {}]
    /\ UNCHANGED <<daemon, todo, clients, offered, stage, clientVars, lines, callVars>>

\* Deviation: a process that outlives the five seconds is left alone.
ClosedPolitely ==
    /\ daemon = "stopping" /\ todo # <<>>
    /\ process[Head(todo)] \in {"terminating", "gone"}
    /\ Visited
    /\ UNCHANGED <<daemon, clients, offered, process, stage, clientVars, wireVars, callVars>>

\* It has terminated, or is killed after five seconds.
Closed ==
    /\ daemon = "stopping" /\ todo # <<>>
    /\ process[Head(todo)] \in {"terminating", "gone"}
    /\ process' = [process EXCEPT ![Head(todo)] = "gone"]
    /\ Visited
    /\ UNCHANGED <<daemon, clients, offered, stage, clientVars, wireVars, callVars>>

Stopped ==
    /\ daemon = "stopping" /\ todo = <<>>
    /\ daemon' = "stopped"
    /\ clients' = <<>>
    /\ UNCHANGED <<todo, offered, stage, process, clientVars, wireVars, callVars>>

-----------------------------------------------------------------------------
(* The servers *)

\* A server answers requests in any order, late, with a result or an error.
Respond(s) ==
    /\ process[s] = "running"
    /\ \E r \in requests[s], k \in {"result"} \cup (IF s \in Used THEN {"error"} ELSE {}) :
        /\ requests' = [requests EXCEPT ![s] = @ \ {r}]
        /\ lines' = [lines EXCEPT ![s] =
                       Append(@, [kind |-> k, id |-> r.id, of |-> r.of, attempt |-> r.attempt])]
    /\ UNCHANGED <<daemon, todo, clients, offered, stage, process, clientVars, callVars>>

\* A line nobody asked for, as often as the server likes.
Notify(s) ==
    /\ process[s] = "running" /\ Len(lines[s]) < MaxLines[s]
    /\ \E line \in {Noise} \cup {Ask(i) : i \in OwnIds} :
          lines' = [lines EXCEPT ![s] = Append(@, line)]
    /\ UNCHANGED <<daemon, todo, clients, offered, stage, process, clientVars, requests, callVars>>

\* It ends by itself; nobody connects to it again.
Crash(s) ==
    /\ process[s] = "running"
    /\ process' = [process EXCEPT ![s] = "gone"]
    /\ requests' = [requests EXCEPT ![s] = {}]
    /\ UNCHANGED <<daemon, todo, clients, offered, stage, clientVars, lines, callVars>>

-----------------------------------------------------------------------------
Proceed(c) == Acquire(c) \/ Read(c) \/ ReadFails(c) \/ GiveUp(c)

Manage ==
    \/ Refused \/ Connect \/ Initialized \/ Listed \/ Skipped \/ Serve
    \/ StopAll \/ Close \/ Closed \/ Stopped

Next ==
    \/ Manage
    \/ \E c \in Calling : Proceed(c) \/ Cancel(c) \/ Invoke(c)
    \/ \E s \in Server : Respond(s) \/ Notify(s) \/ Crash(s)

Spec == Init /\ [][Next]_vars

\* The event loop resumes calls whose await is over; wait_for bounds the
\* wait for a line.  Servers need not answer.
FairSpec == Spec /\ \A c \in Calling : WF_vars(Proceed(c))

-----------------------------------------------------------------------------
(* Properties *)

TypeOK ==
    /\ daemon \in {"starting", "serving", "stopping", "stopped"}
    /\ todo \in Seq(Server) /\ clients \in Seq(Server)
    /\ offered \subseteq Server
    /\ stage \in [Server -> Stage]
    /\ process \in [Server -> Process]
    /\ last_id \in [Server -> Nat]
    /\ owner \in [Server -> Calling \cup {None}]
    /\ waiters \in [Server -> Seq(Calling)]
    /\ pc \in [Calling -> {"idle", "waiting", "reading", "returned", "cancelled"}]
    /\ server \in [Calling -> Server \cup {None}]
    /\ req_id \in [Calling -> Nat]
    /\ attempt \in [Calling -> Nat]
    /\ got \in [Calling -> [kind : {"nothing", "result", "mistaken", "error", "unavailable"},
                            of : Calling, attempt : Nat]]

\* A response that a call returns is the server's answer to that very
\* request: never one to another caller, and never one to an earlier attempt
\* that was given up with its answer still on the way, whatever the server
\* sends between its answers.  (A request of the server with the id of the
\* call's own ends the call too, with a result that has nothing in it.)
OwnResponse ==
    \A c \in Calling :
        (pc[c] = "returned" /\ got[c].kind \in {"result", "error"}) =>
            got[c].of = c /\ got[c].attempt = attempt[c]

\* When stop_all is done, no server that the manager has stored still runs,
\* whatever the server did and whoever was calling it.  (One that failed
\* while it was set up, or whose place a namesake has taken, is not stored
\* any more and is never closed.)
NoneLeftRunning ==
    daemon = "stopped" =>
        \A s \in Server : stage[s] = "ready" => process[s] = "gone"

\* The 30 seconds are for a line, not for a call: a server that goes on
\* sending lines, and no answer, is read for ever.
UnaskedLinesEnd == <>[][\A s \in Server : ~Notify(s)]_vars

\* Every call ends, whether or not its server answers, although calls wait
\* for each other and some are cancelled in the critical section, when the
\* servers do not go on for ever with lines nobody asked for.
CallsEnd ==
    UnaskedLinesEnd =>
        \A c \in Calling : pc[c] \in {"waiting", "reading"} ~> pc[c] \in {"returned", "cancelled"}
=============================================================================
