--------------------------- MODULE McpClient_proofs ---------------------------
(***************************************************************************)
(* A response that a call of an MCP server returns is the answer to its    *)
(* own request, for any set of servers and calls, any number of attempts   *)
(* and whatever else the servers send; and shutdown leaves no server       *)
(* running that the manager has stored, whatever the servers' names.       *)
(***************************************************************************)
EXTENDS McpClient, TLAPS

Request == [id : Nat, of : Calling, attempt : Nat]
Line    == [kind : {"result", "error", "noise", "request"}, id : Nat, of : Calling, attempt : Nat]
Ending  == [kind : {"nothing", "result", "mistaken", "error", "unavailable"}, of : Calling, attempt : Nat]

Active(c) == pc[c] \in {"waiting", "reading"}

\* A line that answers a request of the client.
IsResponse(line) == line.kind \in {"result", "error"}

\* The part of the type invariant the argument needs.
Types ==
    /\ last_id \in [Server -> Nat]
    /\ requests \in [Server -> SUBSET Request]
    /\ lines \in [Server -> Seq(Line)]
    /\ pc \in [Calling -> {"idle", "waiting", "reading", "returned", "cancelled"}]
    /\ server \in [Calling -> Server \cup {None}]
    /\ req_id \in [Calling -> Nat]
    /\ attempt \in [Calling -> Nat]
    /\ got \in [Calling -> Ending]
    /\ daemon = "starting" => todo \in Seq(Server)
    /\ \A c \in Calling : Active(c) => server[c] \in Server

\* Ids already given out: a new one belongs to no request or response.
Issued ==
    /\ \A s \in Server : \A r \in requests[s] : r.id <= last_id[s]
    /\ \A s \in Server : \A k \in 1 .. Len(lines[s]) :
          IsResponse(lines[s][k]) => lines[s][k].id <= last_id[s]
    /\ \A c \in Calling : Active(c) => req_id[c] <= last_id[server[c]]

\* Two calls under way on one connection have different ids.
Distinct ==
    \A c, d \in Calling :
        (c # d /\ Active(c) /\ Active(d) /\ server[c] = server[d]) => req_id[c] # req_id[d]

\* What carries the id of a call under way belongs to its present attempt.
Belongs(x, s) ==
    \A c \in Calling :
        (Active(c) /\ server[c] = s /\ x.id = req_id[c]) => x.of = c /\ x.attempt = attempt[c]

Owned ==
    /\ \A s \in Server : \A r \in requests[s] : Belongs(r, s)
    /\ \A s \in Server : \A k \in 1 .. Len(lines[s]) :
          IsResponse(lines[s][k]) => Belongs(lines[s][k], s)

IInv == Types /\ Issued /\ Distinct /\ Owned /\ OwnResponse

\* What no step of the manager outside its calls changes.
quiet == <<last_id, pc, server, req_id, attempt, got>>

\* A step that takes requests away, or adds a line, and leaves
\* the calls alone.
LEMMA QuietStep ==
    ASSUME IInv, UNCHANGED quiet,
           requests' \in [Server -> SUBSET Request], lines' \in [Server -> Seq(Line)],
           daemon' = "starting" => todo' \in Seq(Server),
           \A s \in Server : requests'[s] \subseteq requests[s],
           \A s \in Server : \A k \in 1 .. Len(lines'[s]) :
               \/ ~IsResponse(lines'[s][k])
               \/ \E j \in 1 .. Len(lines[s]) : lines'[s][k] = lines[s][j]
               \/ \E r \in requests[s] : /\ lines'[s][k].id = r.id
                                         /\ lines'[s][k].of = r.of
                                         /\ lines'[s][k].attempt = r.attempt
    PROVE  IInv'
<1>1. \A c \in Calling : Active(c)' <=> Active(c)
  BY DEF Active, quiet
<1>2. Types'
  BY <1>1 DEF IInv, Types, quiet
<1>3. Issued'
  <2>1. ASSUME NEW s \in Server, NEW k \in 1 .. Len(lines'[s]), IsResponse(lines'[s][k])
        PROVE  lines'[s][k].id <= last_id'[s]
    <3>1. CASE \E j \in 1 .. Len(lines[s]) : lines'[s][k] = lines[s][j]
      BY <3>1, <2>1 DEF IInv, Issued, quiet
    <3>2. CASE \E r \in requests[s] : lines'[s][k].id = r.id
      BY <3>2 DEF IInv, Issued, quiet
    <3> QED BY <3>1, <3>2, <2>1
  <2>2. /\ \A s \in Server : \A r \in requests'[s] : r.id <= last_id'[s]
        /\ \A c \in Calling : Active(c)' => req_id'[c] <= last_id'[server'[c]]
    BY <1>1 DEF IInv, Types, Issued, quiet
  <2> QED BY <2>1, <2>2 DEF Issued, Active
<1>4. Distinct'
  BY <1>1 DEF IInv, Distinct, quiet
<1>5. ASSUME NEW s \in Server, NEW x, NEW c \in Calling, Belongs(x, s),
             Active(c)', server'[c] = s, x.id = req_id'[c]
      PROVE  x.of = c /\ x.attempt = attempt'[c]
  BY <1>1, <1>5 DEF Belongs, quiet
<1>6. Owned'
  <2>1. ASSUME NEW s \in Server, NEW r \in requests'[s], NEW c \in Calling,
               Active(c)', server'[c] = s, r.id = req_id'[c]
        PROVE  r.of = c /\ r.attempt = attempt'[c]
    <3>1. Belongs(r, s)
      BY DEF IInv, Owned
    <3> QED BY <3>1, <2>1, <1>5
  <2>2. ASSUME NEW s \in Server, NEW k \in 1 .. Len(lines'[s]), IsResponse(lines'[s][k]),
               NEW c \in Calling, Active(c)', server'[c] = s, lines'[s][k].id = req_id'[c]
        PROVE  lines'[s][k].of = c /\ lines'[s][k].attempt = attempt'[c]
    <3>1. CASE \E j \in 1 .. Len(lines[s]) : lines'[s][k] = lines[s][j]
      <4>1. PICK j \in 1 .. Len(lines[s]) : lines'[s][k] = lines[s][j]
        BY <3>1
      <4>2. Belongs(lines[s][j], s)
        BY <4>1, <2>2 DEF IInv, Owned
      <4> QED BY <4>1, <4>2, <2>2, <1>5
    <3>2. CASE \E r \in requests[s] : /\ lines'[s][k].id = r.id
                                      /\ lines'[s][k].of = r.of
                                      /\ lines'[s][k].attempt = r.attempt
      <4>1. PICK r \in requests[s] : /\ lines'[s][k].id = r.id
                                     /\ lines'[s][k].of = r.of
                                     /\ lines'[s][k].attempt = r.attempt
        BY <3>2
      <4>2. Belongs(r, s)
        BY <4>1 DEF IInv, Owned
      <4>3. r.id = req_id'[c]
        BY <4>1, <2>2
      <4>4. r.of = c /\ r.attempt = attempt'[c]
        BY <4>2, <4>3, <2>2, <1>5
      <4> QED BY <4>1, <4>4
    <3>3. \/ \E j \in 1 .. Len(lines[s]) : lines'[s][k] = lines[s][j]
          \/ \E r \in requests[s] : /\ lines'[s][k].id = r.id
                                    /\ lines'[s][k].of = r.of
                                    /\ lines'[s][k].attempt = r.attempt
      BY <2>2, Zenon
    <3> QED BY <3>1, <3>2, <3>3
  <2> QED BY <2>1, <2>2 DEF Owned, Belongs
<1>7. OwnResponse'
  BY DEF IInv, OwnResponse, quiet
<1> QED BY <1>2, <1>3, <1>4, <1>6, <1>7 DEF IInv

-----------------------------------------------------------------------------
\* What the invariant says of one line.
LEMMA LineOf ==
    ASSUME IInv, NEW s \in Server, NEW k \in 1 .. Len(lines[s])
    PROVE  /\ lines[s][k] \in Line /\ lines[s][k].id \in Nat
           /\ IsResponse(lines[s][k]) => /\ lines[s][k].id <= last_id[s]
                                         /\ Belongs(lines[s][k], s)
<1>1. lines[s] \in Seq(Line)
  BY DEF IInv, Types
<1>2. lines[s][k] \in Line
  BY <1>1
<1>3. lines[s][k].id \in Nat
  BY <1>2 DEF Line
<1>4. IsResponse(lines[s][k]) => lines[s][k].id <= last_id[s] /\ Belongs(lines[s][k], s)
  BY DEF IInv, Issued, Owned
<1> QED BY <1>2, <1>3, <1>4

\* A new attempt takes an id that no other call, request or line has.
LEMMA EnterStep ==
    ASSUME IInv, NEW c \in Calling, NEW s \in Server, Enter(c, s),
           daemon' = "starting" => todo' \in Seq(Server)
    PROVE  IInv'
<1> DEFINE new == last_id[s] + 1
<1> DEFINE req == [id |-> new, of |-> c, attempt |-> attempt[c] + 1]
<1>1. /\ last_id' = [last_id EXCEPT ![s] = new]
      /\ req_id' = [req_id EXCEPT ![c] = new]
      /\ server' = [server EXCEPT ![c] = s]
      /\ attempt' = [attempt EXCEPT ![c] = attempt[c] + 1]
      /\ \E a \in {"waiting", "reading"} : pc' = [pc EXCEPT ![c] = a]
      /\ lines' = lines /\ got' = got
  BY DEF Enter, Write, IInv, Types
<1>2. /\ requests' \in [Server -> SUBSET Request]
      /\ \A t \in Server : requests'[t] \subseteq requests[t] \cup (IF t = s THEN {req} ELSE {})
  <2>1. req \in Request
    BY DEF Request, IInv, Types
  <2>2. requests' = requests \/ requests' = [requests EXCEPT ![s] = requests[s] \cup {req}]
    BY DEF Enter, Write
  <2>3. requests \in [Server -> SUBSET Request]
    BY DEF IInv, Types
  <2> HIDE DEF req
  <2>4. CASE requests' = requests
    BY <2>3, <2>4
  <2>5. CASE requests' = [requests EXCEPT ![s] = requests[s] \cup {req}]
    <3>1. requests[s] \cup {req} \in SUBSET Request
      BY <2>1, <2>3
    <3>2. \A t \in Server : requests'[t] = IF t = s THEN requests[s] \cup {req} ELSE requests[t]
      BY <2>3, <2>5
    <3>3. requests' \in [Server -> SUBSET Request]
      BY <2>3, <2>5, <3>1
    <3> QED BY <3>2, <3>3
  <2> QED BY <2>2, <2>4, <2>5
<1>3. /\ last_id[s] \in Nat /\ new \in Nat
      /\ last_id' \in [Server -> Nat] /\ last_id'[s] = new
      /\ \A t \in Server : last_id[t] \in Nat /\ last_id'[t] \in Nat /\ last_id[t] <= last_id'[t]
  BY <1>1 DEF IInv, Types
<1>4. /\ Active(c)' /\ server'[c] = s /\ req_id'[c] = new /\ attempt'[c] = attempt[c] + 1
      /\ \A d \in Calling \ {c} : /\ Active(d)' <=> Active(d)
                                  /\ server'[d] = server[d] /\ req_id'[d] = req_id[d]
                                  /\ attempt'[d] = attempt[d] /\ pc'[d] = pc[d]
  BY <1>1 DEF IInv, Types, Active
<1> HIDE DEF new, req
<1>5. Types'
  <2>1. /\ pc' \in [Calling -> {"idle", "waiting", "reading", "returned", "cancelled"}]
        /\ server' \in [Calling -> Server \cup {None}] /\ req_id' \in [Calling -> Nat]
        /\ attempt' \in [Calling -> Nat]
    BY <1>1, <1>3 DEF IInv, Types
  <2>2. \A d \in Calling : Active(d)' => server'[d] \in Server
    BY <1>4 DEF IInv, Types
  <2> QED BY <1>1, <1>2, <1>3, <2>1, <2>2 DEF IInv, Types, Active
<1>6. Issued'
  <2>1. ASSUME NEW t \in Server, NEW r \in requests'[t] PROVE r.id <= last_id'[t]
    <3>1. CASE r \in requests[t]
      <4>1. r.id <= last_id[t] /\ r.id \in Nat
        BY <3>1 DEF IInv, Issued, Types, Request
      <4> QED BY <4>1, <1>3
    <3>2. CASE t = s /\ r = req
      BY <3>2, <1>3 DEF req
    <3> QED BY <3>1, <3>2, <1>2
  <2>2. ASSUME NEW t \in Server, NEW k \in 1 .. Len(lines'[t]), IsResponse(lines'[t][k])
        PROVE  lines'[t][k].id <= last_id'[t]
    <3>1. lines[t][k].id <= last_id[t] /\ lines[t][k].id \in Nat
      BY <2>2, <1>1, LineOf
    <3> QED BY <3>1, <1>1, <1>3
  <2>3. ASSUME NEW d \in Calling, Active(d)' PROVE req_id'[d] <= last_id'[server'[d]]
    <3>1. CASE d = c
      BY <3>1, <1>3, <1>4
    <3>2. CASE d # c
      <4>1. server[d] \in Server /\ req_id[d] <= last_id[server[d]] /\ req_id[d] \in Nat
        BY <3>2, <2>3, <1>4 DEF IInv, Types, Issued
      <4> QED BY <4>1, <3>2, <1>3, <1>4
    <3> QED BY <3>1, <3>2
  <2> QED BY <2>1, <2>2, <2>3 DEF Issued, Active
<1>7. \A d \in Calling \ {c} : (Active(d) /\ server[d] = s) => req_id[d] # new
  BY <1>3 DEF IInv, Issued, Types, new
<1>8. Distinct'
  BY <1>4, <1>7 DEF IInv, Distinct, Active
<1>9. ASSUME NEW t \in Server, NEW x, x.id \in Nat, x.id <= last_id[t], Belongs(x, t),
             NEW d \in Calling, Active(d)', server'[d] = t, x.id = req_id'[d]
      PROVE  x.of = d /\ x.attempt = attempt'[d]
  <2>1. d # c
    BY <1>3, <1>4, <1>9 DEF new
  <2>2. Active(d) /\ server[d] = t /\ x.id = req_id[d] /\ attempt'[d] = attempt[d]
    BY <2>1, <1>4, <1>9
  <2> QED BY <2>2, <1>9 DEF Belongs
<1>10. Owned'
  <2>1. ASSUME NEW t \in Server, NEW r \in requests'[t],
               NEW d \in Calling, Active(d)', server'[d] = t, r.id = req_id'[d]
        PROVE  r.of = d /\ r.attempt = attempt'[d]
    <3>1. CASE r \in requests[t]
      <4>1. r.id \in Nat /\ r.id <= last_id[t] /\ Belongs(r, t)
        BY <3>1 DEF IInv, Types, Request, Issued, Owned
      <4> QED BY <4>1, <2>1, <1>9
    <3>2. CASE t = s /\ r = req
      <4>1. r.id = new /\ r.of = c /\ r.attempt = attempt[c] + 1
        BY <3>2 DEF req
      <4>2. d = c
        BY <4>1, <3>2, <2>1, <1>4, <1>7
      <4> QED BY <4>1, <4>2, <1>4
    <3> QED BY <3>1, <3>2, <1>2
  <2>2. ASSUME NEW t \in Server, NEW k \in 1 .. Len(lines'[t]), IsResponse(lines'[t][k]),
               NEW d \in Calling, Active(d)', server'[d] = t, lines'[t][k].id = req_id'[d]
        PROVE  lines'[t][k].of = d /\ lines'[t][k].attempt = attempt'[d]
    <3> DEFINE x == lines[t][k]
    <3>1. x = lines'[t][k] /\ x.id \in Nat /\ x.id <= last_id[t] /\ Belongs(x, t)
      BY <2>2, <1>1, LineOf
    <3> HIDE DEF x
    <3> QED BY <3>1, <2>2, <1>9
  <2> QED BY <2>1, <2>2 DEF Owned, Belongs, Active
<1>11. OwnResponse'
  BY <1>1, <1>4 DEF IInv, OwnResponse, Active
<1> QED BY <1>5, <1>6, <1>8, <1>10, <1>11 DEF IInv

\* The request is written when the lock is acquired, with the id taken before.
LEMMA AcquireStep ==
    ASSUME IInv, NEW c \in Calling, Acquire(c)
    PROVE  IInv'
<1> DEFINE s == server[c]
<1> DEFINE req == [id |-> req_id[c], of |-> c, attempt |-> attempt[c]]
<1>1. /\ s \in Server /\ req \in Request /\ Active(c) /\ req_id[c] <= last_id[s]
      /\ requests \in [Server -> SUBSET Request]
  BY DEF Acquire, IInv, Types, Issued, Active, Request
<1>2. /\ pc' = [pc EXCEPT ![c] = "reading"]
      /\ UNCHANGED <<last_id, server, req_id, attempt, got, lines, todo, daemon>>
      /\ requests' = requests \/ requests' = [requests EXCEPT ![s] = requests[s] \cup {req}]
  BY DEF Acquire, Write
<1> HIDE DEF s, req
<1>3. /\ requests' \in [Server -> SUBSET Request]
      /\ \A t \in Server : requests'[t] \subseteq requests[t] \cup (IF t = s THEN {req} ELSE {})
  <2>1. CASE requests' = requests
    BY <1>1, <2>1
  <2>2. CASE requests' = [requests EXCEPT ![s] = requests[s] \cup {req}]
    <3>1. requests[s] \cup {req} \in SUBSET Request
      BY <1>1
    <3>2. \A t \in Server : requests'[t] = IF t = s THEN requests[s] \cup {req} ELSE requests[t]
      BY <1>1, <2>2
    <3>3. requests' \in [Server -> SUBSET Request]
      BY <1>1, <2>2, <3>1
    <3> QED BY <3>2, <3>3
  <2> QED BY <1>2, <2>1, <2>2
<1>4. \A d \in Calling : Active(d)' <=> Active(d)
  BY <1>1, <1>2 DEF IInv, Types, Active
<1>5. Types'
  <2>1. pc' \in [Calling -> {"idle", "waiting", "reading", "returned", "cancelled"}]
    BY <1>2 DEF IInv, Types
  <2> QED BY <1>2, <1>3, <1>4, <2>1 DEF IInv, Types, Active
<1>6. Issued'
  BY <1>1, <1>2, <1>3, <1>4 DEF IInv, Issued, Active, req
<1>7. Distinct'
  BY <1>2, <1>4 DEF IInv, Distinct, Active
<1>8. Owned'
  <2>1. ASSUME NEW t \in Server, NEW r \in requests'[t],
               NEW d \in Calling, Active(d)', server'[d] = t, r.id = req_id'[d]
        PROVE  r.of = d /\ r.attempt = attempt'[d]
    <3>1. CASE r \in requests[t]
      <4>1. Belongs(r, t)
        BY <3>1 DEF IInv, Owned
      <4> QED BY <4>1, <2>1, <1>2, <1>4 DEF Belongs
    <3>2. CASE t = s /\ r = req
      <4>1. r.id = req_id[c] /\ r.of = c /\ r.attempt = attempt[c]
        BY <3>2 DEF req
      <4>2. d = c
        BY <4>1, <3>2, <2>1, <1>1, <1>2, <1>4 DEF IInv, Distinct, s
      <4> QED BY <4>1, <4>2, <1>2
    <3> QED BY <3>1, <3>2, <1>3
  <2>2. ASSUME NEW t \in Server, NEW k \in 1 .. Len(lines'[t]), IsResponse(lines'[t][k]),
               NEW d \in Calling, Active(d)', server'[d] = t, lines'[t][k].id = req_id'[d]
        PROVE  lines'[t][k].of = d /\ lines'[t][k].attempt = attempt'[d]
    BY <2>2, <1>2, <1>4 DEF IInv, Owned, Belongs
  <2> QED BY <2>1, <2>2 DEF Owned, Belongs, Active
<1>9. OwnResponse'
  BY <1>2 DEF IInv, Types, OwnResponse
<1> QED BY <1>5, <1>6, <1>7, <1>8, <1>9 DEF IInv

\* A call that ends, with the answer to its own request if with any.
LEMMA EndStep ==
    ASSUME IInv, NEW c \in Calling, NEW a \in {"idle", "returned", "cancelled"},
           pc' = [pc EXCEPT ![c] = a],
           req_id' \in [Calling -> Nat], attempt' \in [Calling -> Nat],
           got' \in [Calling -> Ending],
           \A d \in Calling \ {c} :
               req_id'[d] = req_id[d] /\ attempt'[d] = attempt[d] /\ got'[d] = got[d],
           (a = "returned" /\ got'[c].kind \in {"result", "error"}) =>
               got'[c].of = c /\ got'[c].attempt = attempt'[c],
           UNCHANGED <<last_id, server, requests>>,
           lines' \in [Server -> Seq(Line)],
           \A s \in Server : \A k \in 1 .. Len(lines'[s]) :
               \E j \in 1 .. Len(lines[s]) : lines'[s][k] = lines[s][j],
           daemon' = "starting" => todo' \in Seq(Server)
    PROVE  IInv'
<1>1. /\ ~Active(c)'
      /\ \A d \in Calling \ {c} : (Active(d)' <=> Active(d)) /\ pc'[d] = pc[d]
      /\ pc'[c] = a
      /\ pc' \in [Calling -> {"idle", "waiting", "reading", "returned", "cancelled"}]
  BY DEF IInv, Types, Active
<1>2. Types'
  BY <1>1 DEF IInv, Types, Active
<1>3. Issued'
  <2>1. \A s \in Server : \A k \in 1 .. Len(lines'[s]) :
           IsResponse(lines'[s][k]) => lines'[s][k].id <= last_id'[s]
    BY LineOf
  <2>2. \A d \in Calling : Active(d)' => req_id'[d] <= last_id'[server'[d]]
    BY <1>1 DEF IInv, Issued
  <2>0. \A s \in Server : \A r \in requests'[s] : r.id <= last_id'[s]
    BY DEF IInv, Issued
  <2> QED BY <2>1, <2>2, <2>0 DEF Issued, Active
<1>4. Distinct'
  <2>1. ASSUME NEW d \in Calling, NEW e \in Calling, d # e, Active(d)', Active(e)',
               server'[d] = server'[e]
        PROVE  req_id'[d] # req_id'[e]
    <3>1. d # c /\ e # c
      BY <2>1, <1>1
    <3>2. /\ Active(d) /\ Active(e) /\ server[d] = server[e]
          /\ req_id'[d] = req_id[d] /\ req_id'[e] = req_id[e]
      BY <3>1, <2>1, <1>1
    <3> QED BY <3>2, <2>1 DEF IInv, Distinct
  <2> QED BY <2>1 DEF Distinct, Active
<1>5. Owned'
  <2>0. ASSUME NEW s \in Server, NEW x, Belongs(x, s),
               NEW d \in Calling, Active(d)', server'[d] = s, x.id = req_id'[d]
        PROVE  x.of = d /\ x.attempt = attempt'[d]
    <3>1. d # c
      BY <2>0, <1>1
    <3>2. Active(d) /\ server[d] = s /\ x.id = req_id[d] /\ attempt'[d] = attempt[d]
      BY <3>1, <2>0, <1>1
    <3> QED BY <3>2, <2>0 DEF Belongs
  <2>1. ASSUME NEW s \in Server, NEW r \in requests'[s],
               NEW d \in Calling, Active(d)', server'[d] = s, r.id = req_id'[d]
        PROVE  r.of = d /\ r.attempt = attempt'[d]
    <3>1. Belongs(r, s)
      BY DEF IInv, Owned
    <3> QED BY <3>1, <2>1, <2>0
  <2>2. ASSUME NEW s \in Server, NEW k \in 1 .. Len(lines'[s]), IsResponse(lines'[s][k]),
               NEW d \in Calling, Active(d)', server'[d] = s, lines'[s][k].id = req_id'[d]
        PROVE  lines'[s][k].of = d /\ lines'[s][k].attempt = attempt'[d]
    <3>1. PICK j \in 1 .. Len(lines[s]) : lines'[s][k] = lines[s][j]
      OBVIOUS
    <3>2. IsResponse(lines[s][j]) /\ lines[s][j].id = req_id'[d]
      BY <2>2, <3>1
    <3>3. Belongs(lines[s][j], s)
      BY <3>2, LineOf
    <3>4. lines[s][j].of = d /\ lines[s][j].attempt = attempt'[d]
      BY <2>0, <2>2, <3>2, <3>3
    <3> QED BY <3>1, <3>4
  <2> QED BY <2>1, <2>2 DEF Owned, Belongs, Active
<1>6. OwnResponse'
  BY <1>1 DEF IInv, OwnResponse
<1> QED BY <1>2, <1>3, <1>4, <1>5, <1>6 DEF IInv

-----------------------------------------------------------------------------
\* Nothing has been asked when the daemon starts.
LEMMA InitInv == Init => IInv
<1> SUFFICES ASSUME Init PROVE IInv
  OBVIOUS
<1>1. \A c \in Calling : ~Active(c) /\ pc[c] = "idle"
  BY DEF Init, Active
<1>2. Nothing \in Ending
  BY DEF Nothing, Ending, Calling
<1>3. Types
  <2>1. todo \in Seq(Server)
    BY McpAssumption DEF Init
  <2>2. lines \in [Server -> Seq(Line)] /\ requests \in [Server -> SUBSET Request]
    BY DEF Init
  <2> QED BY <1>1, <1>2, <2>1, <2>2 DEF Init, Types
<1>4. \A s \in Server : requests[s] = {} /\ Len(lines[s]) = 0
  BY DEF Init
<1>5. Issued
  BY <1>1, <1>4 DEF Issued
<1>6. Distinct
  BY <1>1 DEF Distinct
<1>7. Owned
  BY <1>4 DEF Owned
<1>8. OwnResponse
  BY <1>1 DEF OwnResponse
<1> QED BY <1>3, <1>5, <1>6, <1>7, <1>8 DEF IInv

\* The first line of a connection is read.
LEMMA TailStep ==
    ASSUME IInv, NEW s \in Server, lines[s] # <<>>, lines' = [lines EXCEPT ![s] = Tail(lines[s])]
    PROVE  /\ lines' \in [Server -> Seq(Line)]
           /\ \A t \in Server : \A k \in 1 .. Len(lines'[t]) :
                 \E j \in 1 .. Len(lines[t]) : lines'[t][k] = lines[t][j]
<1>1. lines \in [Server -> Seq(Line)] /\ lines[s] \in Seq(Line)
  BY DEF IInv, Types
<1>2. Tail(lines[s]) \in Seq(Line)
  BY <1>1
<1>3. \A t \in Server : lines'[t] = IF t = s THEN Tail(lines[s]) ELSE lines[t]
  BY <1>1
<1>4. ASSUME NEW k \in 1 .. Len(Tail(lines[s]))
      PROVE  \E j \in 1 .. Len(lines[s]) : Tail(lines[s])[k] = lines[s][j]
  <2>1. k + 1 \in 1 .. Len(lines[s]) /\ Tail(lines[s])[k] = lines[s][k + 1]
    BY <1>1
  <2> QED BY <2>1
<1>5. ASSUME NEW t \in Server, NEW k \in 1 .. Len(lines'[t])
      PROVE  \E j \in 1 .. Len(lines[t]) : lines'[t][k] = lines[t][j]
  <2>1. CASE t = s
    BY <2>1, <1>3, <1>4
  <2>2. CASE t # s
    BY <2>2, <1>3
  <2> QED BY <2>1, <2>2
<1>6. lines' \in [Server -> Seq(Line)]
  BY <1>1, <1>2
<1> QED BY <1>5, <1>6

\* A line is read: it is skipped, or it ends the call.
LEMMA ReadStep ==
    ASSUME IInv, NEW c \in Calling, Read(c)
    PROVE  IInv'
<1> DEFINE s == server[c]
<1> DEFINE line == Head(lines[s])
<1>1. s \in Server /\ Active(c)
  BY DEF Read, IInv, Types, Active
<1>2. lines[s] \in Seq(Line) /\ lines[s] # <<>>
  BY <1>1 DEF Read, IInv, Types
<1>3. lines' = [lines EXCEPT ![s] = Tail(lines[s])]
  BY DEF Read
<1>4. 1 \in 1 .. Len(lines[s]) /\ line = lines[s][1]
  BY <1>2
<1>5. line \in Line /\ (IsResponse(line) => Belongs(line, s))
  BY <1>1, <1>4, LineOf
<1>6. (Answers(line, c) /\ IsResponse(line)) => line.of = c /\ line.attempt = attempt[c]
  BY <1>1, <1>5 DEF Answers, Belongs
<1>7. /\ lines' \in [Server -> Seq(Line)]
      /\ \A t \in Server : \A k \in 1 .. Len(lines'[t]) :
            \E j \in 1 .. Len(lines[t]) : lines'[t][k] = lines[t][j]
  <2> HIDE DEF s
  <2> QED BY <1>1, <1>2, <1>3, TailStep
<1>8. CASE Answers(line, c)
  <2> DEFINE result == [kind |-> Meaning(line), of |-> line.of, attempt |-> line.attempt]
  <2>1. Leave(c, result)
    BY <1>8 DEF Read
  <2>2. result \in Ending
    BY <1>5, <1>8 DEF Ending, Line, Answers, Meaning
  <2>3. result.kind \in {"result", "error"} => result.of = c /\ result.attempt = attempt[c]
    BY <1>5, <1>6, <1>8 DEF Meaning, IsResponse, Line
  <2> HIDE DEF result, line, s
  <2>4. /\ pc' = [pc EXCEPT ![c] = "returned"]
        /\ req_id' = [req_id EXCEPT ![c] = 0] /\ got' = [got EXCEPT ![c] = result]
        /\ UNCHANGED <<daemon, todo, last_id, server, requests, attempt>>
    BY <2>1 DEF Leave
  <2>5. /\ req_id' \in [Calling -> Nat] /\ attempt' \in [Calling -> Nat]
        /\ got' \in [Calling -> Ending] /\ got'[c] = result
        /\ \A d \in Calling \ {c} :
              req_id'[d] = req_id[d] /\ attempt'[d] = attempt[d] /\ got'[d] = got[d]
    BY <2>2, <2>4 DEF IInv, Types
  <2>6. daemon' = "starting" => todo' \in Seq(Server)
    BY <2>4 DEF IInv, Types
  <2>7. got'[c].kind \in {"result", "error"} => got'[c].of = c /\ got'[c].attempt = attempt'[c]
    BY <2>3, <2>4, <2>5
  <2>8. UNCHANGED <<last_id, server, requests>>
    BY <2>4
  <2> QED BY <1>7, <2>4, <2>5, <2>6, <2>7, <2>8, EndStep
<1>9. CASE ~Answers(line, c)
  <2>1. UNCHANGED <<daemon, todo, requests>> /\ UNCHANGED quiet
    BY <1>9 DEF Read, clientVars, callVars, quiet
  <2>2. /\ requests' \in [Server -> SUBSET Request]
        /\ \A t \in Server : requests'[t] \subseteq requests[t]
        /\ daemon' = "starting" => todo' \in Seq(Server)
    BY <2>1 DEF IInv, Types
  <2> HIDE DEF line, s
  <2> QED BY <1>7, <2>1, <2>2, QuietStep
<1> QED BY <1>8, <1>9

\* A line fails the call that reads it.
LEMMA ReadFailsStep ==
    ASSUME IInv, NEW c \in Calling, ReadFails(c)
    PROVE  IInv'
<1> DEFINE s == server[c]
<1>1. s \in Server /\ lines[s] # <<>> /\ lines' = [lines EXCEPT ![s] = Tail(lines[s])]
  BY DEF ReadFails, IInv, Types, Active
<1>2. /\ pc' = [pc EXCEPT ![c] = "returned"] /\ req_id' = [req_id EXCEPT ![c] = 0]
      /\ got' = [got EXCEPT ![c] = Failure]
      /\ UNCHANGED <<attempt, last_id, server, requests, daemon, todo>>
  BY DEF ReadFails, Leave
<1>3. Failure \in Ending /\ Failure.kind = "unavailable"
  BY DEF Failure, Nothing, Ending, Calling
<1>4. /\ req_id' \in [Calling -> Nat] /\ attempt' \in [Calling -> Nat]
      /\ got' \in [Calling -> Ending] /\ got'[c] = Failure
      /\ \A d \in Calling \ {c} :
            req_id'[d] = req_id[d] /\ attempt'[d] = attempt[d] /\ got'[d] = got[d]
      /\ daemon' = "starting" => todo' \in Seq(Server)
  BY <1>2, <1>3 DEF IInv, Types
<1>5. /\ lines' \in [Server -> Seq(Line)]
      /\ \A t \in Server : \A k \in 1 .. Len(lines'[t]) :
            \E j \in 1 .. Len(lines[t]) : lines'[t][k] = lines[t][j]
  <2> HIDE DEF s
  <2> QED BY <1>1, TailStep
<1>6. got'[c].kind \notin {"result", "error"}
  BY <1>3, <1>4
<1> HIDE DEF s
<1> QED BY <1>2, <1>4, <1>5, <1>6, EndStep

\* A call that is given up, cancelled, or done with by the manager.
LEMMA DoneStep ==
    ASSUME IInv, NEW c \in Calling, NEW a \in {"idle", "returned", "cancelled"},
           NEW result \in Ending, result.kind \notin {"result", "error"},
           pc' = [pc EXCEPT ![c] = a],
           req_id' = req_id \/ req_id' = [req_id EXCEPT ![c] = 0],
           attempt' = attempt \/ attempt' = [attempt EXCEPT ![c] = 0],
           got' = [got EXCEPT ![c] = result] \/ (got' = got /\ a # "returned"),
           UNCHANGED <<last_id, server, requests, lines>>,
           daemon' = "starting" => todo' \in Seq(Server)
    PROVE  IInv'
<1>1. /\ req_id' \in [Calling -> Nat] /\ attempt' \in [Calling -> Nat]
      /\ \A d \in Calling \ {c} : req_id'[d] = req_id[d] /\ attempt'[d] = attempt[d]
  <2>1. req_id \in [Calling -> Nat] /\ attempt \in [Calling -> Nat]
    BY DEF IInv, Types
  <2>2. req_id' \in [Calling -> Nat] /\ \A d \in Calling \ {c} : req_id'[d] = req_id[d]
    <3>1. CASE req_id' = req_id
      BY <3>1, <2>1
    <3>2. CASE req_id' = [req_id EXCEPT ![c] = 0]
      BY <3>2, <2>1
    <3> QED BY <3>1, <3>2
  <2>3. attempt' \in [Calling -> Nat] /\ \A d \in Calling \ {c} : attempt'[d] = attempt[d]
    <3>1. CASE attempt' = attempt
      BY <3>1, <2>1
    <3>2. CASE attempt' = [attempt EXCEPT ![c] = 0]
      BY <3>2, <2>1
    <3> QED BY <3>1, <3>2
  <2> QED BY <2>2, <2>3
<1>2. /\ got' \in [Calling -> Ending]
      /\ \A d \in Calling \ {c} : got'[d] = got[d]
      /\ a = "returned" => got'[c] = result
  <2>1. got \in [Calling -> Ending]
    BY DEF IInv, Types
  <2>2. CASE got' = [got EXCEPT ![c] = result]
    BY <2>1, <2>2
  <2>3. CASE got' = got /\ a # "returned"
    BY <2>1, <2>3
  <2> QED BY <2>2, <2>3
<1>3. lines' \in [Server -> Seq(Line)]
  BY DEF IInv, Types
<1> QED BY <1>1, <1>2, <1>3, EndStep

\* A line more: the others are where they were.
LEMMA AppendStep ==
    ASSUME lines \in [Server -> Seq(Line)], NEW s \in Server, NEW new \in Line,
           lines' = [lines EXCEPT ![s] = Append(lines[s], new)]
    PROVE  /\ lines' \in [Server -> Seq(Line)]
           /\ \A t \in Server : \A j \in 1 .. Len(lines'[t]) :
                \/ \E i \in 1 .. Len(lines[t]) : lines'[t][j] = lines[t][i]
                \/ t = s /\ lines'[t][j] = new
<1>1. Append(lines[s], new) \in Seq(Line)
  OBVIOUS
<1>2. lines' \in [Server -> Seq(Line)]
  BY <1>1
<1>3. \A t \in Server : lines'[t] = IF t = s THEN Append(lines[s], new) ELSE lines[t]
  OBVIOUS
<1>4. ASSUME NEW j \in 1 .. Len(Append(lines[s], new))
      PROVE  \/ \E i \in 1 .. Len(lines[s]) : Append(lines[s], new)[j] = lines[s][i]
             \/ Append(lines[s], new)[j] = new
  <2>1. lines[s] \in Seq(Line)
    OBVIOUS
  <2>2. CASE j = Len(lines[s]) + 1
    BY <2>1, <2>2
  <2>3. CASE j # Len(lines[s]) + 1
    BY <2>1, <2>3
  <2> QED BY <2>2, <2>3
<1>5. ASSUME NEW t \in Server, NEW j \in 1 .. Len(lines'[t])
      PROVE  \/ \E i \in 1 .. Len(lines[t]) : lines'[t][j] = lines[t][i]
             \/ t = s /\ lines'[t][j] = new
  <2>1. CASE t = s
    BY <2>1, <1>3, <1>4
  <2>2. CASE t # s
    BY <2>2, <1>3
  <2> QED BY <2>1, <2>2
<1> QED BY <1>2, <1>5

\* Respond moves a request, with whom it is of, into a line.
LEMMA RespondStep ==
    ASSUME IInv, NEW s \in Server, Respond(s)
    PROVE  IInv'
<1>1. PICK r \in requests[s], k \in {"result", "error"} :
        /\ requests' = [requests EXCEPT ![s] = requests[s] \ {r}]
        /\ lines' = [lines EXCEPT ![s] = Append(lines[s],
                       [kind |-> k, id |-> r.id, of |-> r.of, attempt |-> r.attempt])]
  BY DEF Respond
<1> DEFINE new == [kind |-> k, id |-> r.id, of |-> r.of, attempt |-> r.attempt]
<1>2. UNCHANGED <<daemon, todo>> /\ UNCHANGED quiet
  BY DEF Respond, clientVars, callVars, quiet
<1>3. /\ requests \in [Server -> SUBSET Request] /\ lines \in [Server -> Seq(Line)]
      /\ daemon' = "starting" => todo' \in Seq(Server)
  BY <1>2 DEF IInv, Types
<1>4. new \in Line
  BY <1>1, <1>3 DEF Line, Request
<1>5. new.id = r.id /\ new.of = r.of /\ new.attempt = r.attempt
  OBVIOUS
<1>6. /\ requests' \in [Server -> SUBSET Request]
      /\ \A t \in Server : requests'[t] \subseteq requests[t]
  BY <1>1, <1>3
<1> HIDE DEF new
<1>7. /\ lines' \in [Server -> Seq(Line)]
      /\ \A t \in Server : \A j \in 1 .. Len(lines'[t]) :
           \/ \E i \in 1 .. Len(lines[t]) : lines'[t][j] = lines[t][i]
           \/ t = s /\ lines'[t][j] = new
  <2>1. lines' = [lines EXCEPT ![s] = Append(lines[s], new)]
    BY <1>1 DEF new
  <2> QED BY <2>1, <1>3, <1>4, AppendStep
<1>8. \A t \in Server : \A j \in 1 .. Len(lines'[t]) :
        \/ \E i \in 1 .. Len(lines[t]) : lines'[t][j] = lines[t][i]
        \/ \E q \in requests[t] : /\ lines'[t][j].id = q.id
                                  /\ lines'[t][j].of = q.of
                                  /\ lines'[t][j].attempt = q.attempt
  BY <1>1, <1>5, <1>7
<1> QED BY <1>2, <1>3, <1>6, <1>7, <1>8, QuietStep

\* A line that nobody asked for is no response.
LEMMA NotifyStep ==
    ASSUME IInv, NEW s \in Server, Notify(s)
    PROVE  IInv'
<1>1. PICK new \in {Noise} \cup {Ask(i) : i \in OwnIds} :
        lines' = [lines EXCEPT ![s] = Append(lines[s], new)]
  BY DEF Notify
<1>2. UNCHANGED <<daemon, todo, requests>> /\ UNCHANGED quiet
  BY DEF Notify, clientVars, callVars, quiet
<1>3. /\ requests' \in [Server -> SUBSET Request] /\ lines \in [Server -> Seq(Line)]
      /\ \A t \in Server : requests'[t] \subseteq requests[t]
      /\ daemon' = "starting" => todo' \in Seq(Server)
  BY <1>2 DEF IInv, Types
<1>4. new \in Line /\ ~IsResponse(new)
  BY McpAssumption DEF Noise, Ask, Line, Calling, IsResponse
<1>5. /\ lines' \in [Server -> Seq(Line)]
      /\ \A t \in Server : \A j \in 1 .. Len(lines'[t]) :
           \/ \E i \in 1 .. Len(lines[t]) : lines'[t][j] = lines[t][i]
           \/ t = s /\ lines'[t][j] = new
  BY <1>1, <1>3, <1>4, AppendStep
<1>6. \A t \in Server : \A j \in 1 .. Len(lines'[t]) :
        \/ \E i \in 1 .. Len(lines[t]) : lines'[t][j] = lines[t][i]
        \/ ~IsResponse(lines'[t][j])
  BY <1>4, <1>5
<1> QED BY <1>2, <1>3, <1>5, <1>6, QuietStep

\* A server that ends, or is closed, answers nothing more.
LEMMA DropStep ==
    ASSUME IInv, NEW s \in Server, requests' = [requests EXCEPT ![s] = {}],
           UNCHANGED <<daemon, todo, lines>>, UNCHANGED quiet
    PROVE  IInv'
<1>1. /\ requests' \in [Server -> SUBSET Request] /\ lines' \in [Server -> Seq(Line)]
      /\ \A t \in Server : requests'[t] \subseteq requests[t]
      /\ daemon' = "starting" => todo' \in Seq(Server)
  BY DEF IInv, Types
<1> QED BY <1>1, QuietStep

\* The manager moves on and no call is concerned.
LEMMA ManageStep ==
    ASSUME IInv, UNCHANGED <<requests, lines>>, UNCHANGED quiet,
           daemon' = "starting" => todo' \in Seq(Server)
    PROVE  IInv'
<1>1. /\ requests' \in [Server -> SUBSET Request] /\ lines' \in [Server -> Seq(Line)]
      /\ \A t \in Server : requests'[t] \subseteq requests[t]
  BY DEF IInv, Types
<1> QED BY <1>1, QuietStep

-----------------------------------------------------------------------------
\* Every step of the specification keeps the invariant.
LEMMA NextInv == IInv /\ [Next]_vars => IInv'
<1> SUFFICES ASSUME IInv, [Next]_vars PROVE IInv'
  OBVIOUS
<1>1. daemon = "starting" => todo \in Seq(Server)
  BY DEF IInv, Types
<1>2. (daemon = "starting" /\ todo # <<>>) =>
        Head(todo) \in Server /\ Tail(todo) \in Seq(Server)
  BY <1>1
<1>3. Boot \in Calling
  BY DEF Calling
<1>4. Nothing \in Ending /\ Nothing.kind = "nothing"
      /\ Failure \in Ending /\ Failure.kind = "unavailable"
  BY <1>3 DEF Nothing, Failure, Ending
<1>5. CASE Refused
  <2>1. UNCHANGED <<requests, lines>> /\ UNCHANGED quiet
    BY <1>5 DEF Refused, clientVars, wireVars, callVars, quiet
  <2>2. daemon' = "starting" => todo' \in Seq(Server)
    BY <1>2, <1>5 DEF Refused, Visited
  <2> QED BY <2>1, <2>2, ManageStep
<1>6. CASE Connect
  <2>1. Enter(Boot, Head(todo)) /\ Head(todo) \in Server /\ UNCHANGED <<daemon, todo>>
    BY <1>2, <1>6 DEF Connect
  <2> QED BY <1>1, <1>3, <2>1, EnterStep
<1>7. CASE Initialized
  <2>1. Enter(Boot, Head(todo)) /\ Head(todo) \in Server /\ UNCHANGED <<daemon, todo>>
    BY <1>2, <1>7 DEF Initialized
  <2> QED BY <1>1, <1>3, <2>1, EnterStep
<1>8. CASE Listed \/ Skipped
  <2>1. /\ Idle /\ UNCHANGED <<daemon, clientVars, wireVars, server, req_id>>
        /\ daemon' = "starting" => todo' \in Seq(Server)
    BY <1>2, <1>8 DEF Listed, Skipped, Visited
  <2>2. UNCHANGED <<last_id, server, requests, lines, req_id>>
    BY <2>1 DEF clientVars, wireVars
  <2> QED BY <1>3, <1>4, <2>1, <2>2, DoneStep DEF Idle
<1>9. CASE Serve \/ StopAll \/ Closed \/ Stopped
  <2>1. UNCHANGED <<requests, lines>> /\ UNCHANGED quiet /\ daemon' # "starting"
    BY <1>9 DEF Serve, StopAll, Closed, Stopped, clientVars, wireVars, callVars, quiet
  <2> QED BY <2>1, ManageStep
<1>10. CASE Close
  <2>1. /\ requests' = [requests EXCEPT ![Head(todo)] = {}]
        /\ UNCHANGED <<daemon, todo, lines>> /\ UNCHANGED quiet /\ daemon # "starting"
    BY <1>10 DEF Close, clientVars, callVars, quiet
  <2>2. /\ requests' \in [Server -> SUBSET Request] /\ lines' \in [Server -> Seq(Line)]
        /\ \A t \in Server : requests'[t] \subseteq requests[t]
    BY <2>1 DEF IInv, Types
  <2> QED BY <2>1, <2>2, QuietStep
<1>11. ASSUME NEW c \in Calling, Proceed(c) \/ Cancel(c) \/ Invoke(c)
       PROVE  IInv'
  <2>1. CASE Acquire(c)
    BY <2>1, AcquireStep
  <2>2. CASE Read(c)
    BY <2>2, ReadStep
  <2>3. CASE GiveUp(c)
    <3>1. /\ pc' = [pc EXCEPT ![c] = "returned"] /\ req_id' = [req_id EXCEPT ![c] = 0]
          /\ got' = [got EXCEPT ![c] = Failure]
          /\ UNCHANGED <<attempt, last_id, server, requests, lines, daemon, todo>>
      BY <2>3 DEF GiveUp, Leave
    <3> QED BY <1>1, <1>4, <3>1, DoneStep
  <2>4. CASE Cancel(c)
    <3>1. /\ pc' = [pc EXCEPT ![c] = "cancelled"] /\ req_id' = [req_id EXCEPT ![c] = 0]
          /\ UNCHANGED <<got, attempt, last_id, server, requests, lines, daemon, todo>>
      BY <2>4 DEF Cancel, wireVars
    <3> QED BY <1>1, <1>4, <3>1, DoneStep
  <2>5. CASE Invoke(c)
    <3>1. PICK s \in Used : Enter(c, s)
      BY <2>5 DEF Invoke
    <3>2. s \in Server
      BY McpAssumption
    <3>3. UNCHANGED <<daemon, todo>>
      BY <2>5 DEF Invoke
    <3> QED BY <1>1, <3>1, <3>2, <3>3, EnterStep
  <2> QED BY <1>11, <2>1, <2>2, <2>3, <2>4, <2>5, ReadFailsStep DEF Proceed
<1>12. ASSUME NEW s \in Server, Respond(s) \/ Notify(s) \/ Crash(s)
       PROVE  IInv'
  <2>1. CASE Crash(s)
    BY <2>1, DropStep DEF Crash, clientVars, callVars, quiet
  <2> QED BY <1>12, <2>1, RespondStep, NotifyStep
<1>13. CASE UNCHANGED vars
  BY <1>1, <1>13, ManageStep DEF vars, clientVars, wireVars, callVars, quiet
<1> QED
  BY <1>5, <1>6, <1>7, <1>8, <1>9, <1>10, <1>11, <1>12, <1>13 DEF Next, Manage

\* A response that a call returns is the answer to that very request of its
\* present attempt: McpClient._call skips every line with another id, and the
\* client uses no id twice on a connection.  (A request of the server with that
\* id ends a call too, but is no response.)
THEOREM OwnAnswers == Spec => []OwnResponse
<1>1. Init => IInv
  BY InitInv
<1>2. IInv /\ [Next]_vars => IInv'
  BY NextInv
<1>3. IInv => OwnResponse
  BY DEF IInv
<1> QED BY <1>1, <1>2, <1>3, PTL DEF Spec

-----------------------------------------------------------------------------
(* The manager *)

\* The variables the argument about answers does not need.
State ==
    /\ daemon \in {"starting", "serving", "stopping", "stopped"}
    /\ todo \in Seq(Server) /\ clients \in Seq(Server)
    /\ offered \subseteq Server
    /\ stage \in [Server -> Stage]
    /\ process \in [Server -> Process]
    /\ owner \in [Server -> Calling \cup {None}]
    /\ waiters \in [Server -> Seq(Calling)]

In(s, q) == \E i \in 1 .. Len(q) : q[i] = s

\* A ready server is stored until the daemon stops, and during shutdown it
\* is still to be visited or is gone.
Kept ==
    /\ daemon # "stopped" => \A s \in Server : stage[s] = "ready" => In(s, clients)
    /\ daemon = "stopping" =>
          \A s \in Server : stage[s] = "ready" => process[s] = "gone" \/ In(s, todo)
    /\ NoneLeftRunning

MInv == IInv /\ State /\ Kept

\* A server that is not the first of a sequence is in what follows it.
LEMMA InTail ==
    ASSUME NEW q \in Seq(Server), q # <<>>
    PROVE  /\ Head(q) \in Server /\ Tail(q) \in Seq(Server)
           /\ \A s : In(s, q) => s = Head(q) \/ In(s, Tail(q))
<1>1. /\ Head(q) \in Server /\ Tail(q) \in Seq(Server) /\ Head(q) = q[1]
      /\ Len(q) \in Nat /\ Len(Tail(q)) = Len(q) - 1
      /\ \A j \in 1 .. Len(q) - 1 : Tail(q)[j] = q[j + 1]
  OBVIOUS
<1>2. ASSUME NEW s, NEW i \in 1 .. Len(q), q[i] = s, s # Head(q)
      PROVE  In(s, Tail(q))
  <2>1. i - 1 \in 1 .. Len(q) - 1 /\ (i - 1) + 1 = i
    BY <1>1, <1>2
  <2>2. Tail(q)[i - 1] = s
    BY <1>1, <1>2, <2>1
  <2> QED BY <1>1, <2>1, <2>2 DEF In
<1> QED BY <1>1, <1>2 DEF In

\* What is appended to a sequence is in it, with all it had.
LEMMA InAppend ==
    ASSUME NEW q \in Seq(Server), NEW s \in Server
    PROVE  /\ Append(q, s) \in Seq(Server) /\ In(s, Append(q, s))
           /\ \A t : In(t, q) => In(t, Append(q, s))
<1>1. /\ Append(q, s) \in Seq(Server) /\ Len(q) \in Nat /\ Len(Append(q, s)) = Len(q) + 1
      /\ Append(q, s)[Len(q) + 1] = s
      /\ \A i \in 1 .. Len(q) : Append(q, s)[i] = q[i]
  OBVIOUS
<1>2. Len(q) + 1 \in 1 .. Len(Append(q, s)) /\ 1 .. Len(q) \subseteq 1 .. Len(Append(q, s))
  BY <1>1
<1> QED BY <1>1, <1>2 DEF In

\* Without one of its elements a sequence is a sequence.
LEMMA RemoveType ==
    ASSUME NEW q \in Seq(Calling), NEW i \in 1 .. Len(q)
    PROVE  RemoveAt(q, i) \in Seq(Calling)
<1>1. SubSeq(q, 1, i - 1) \in Seq(Calling) /\ SubSeq(q, i + 1, Len(q)) \in Seq(Calling)
  OBVIOUS
<1> QED BY <1>1 DEF RemoveAt

\* A step that does not concern the manager: a process may end meanwhile.
LEMMA KeptElsewhere ==
    ASSUME State, Kept, UNCHANGED <<daemon, todo, clients, stage>>,
           \A s \in Server : process[s] = "gone" => process'[s] = "gone"
    PROVE  Kept'
BY DEF State, Kept, NoneLeftRunning, In

\* Types of the variables of the lock after a call enters.
LEMMA EnterState ==
    ASSUME IInv, State, NEW c \in Calling, NEW s \in Server, Enter(c, s)
    PROVE  /\ owner' \in [Server -> Calling \cup {None}]
           /\ waiters' \in [Server -> Seq(Calling)]
<1>1. waiters[s] \in Seq(Calling) /\ Append(waiters[s], c) \in Seq(Calling)
  BY DEF State
<1>2. owner' = owner \/ owner' = [owner EXCEPT ![s] = c]
  BY DEF Enter, Write
<1>3. waiters' = waiters \/ waiters' = [waiters EXCEPT ![s] = Append(waiters[s], c)]
  BY DEF Enter
<1>5. owner' \in [Server -> Calling \cup {None}]
  BY <1>2 DEF State
<1>6. waiters' \in [Server -> Seq(Calling)]
  BY <1>1, <1>3 DEF State
<1> QED BY <1>5, <1>6

LEMMA InitState == Init => State /\ Kept
<1> SUFFICES ASSUME Init PROVE State /\ Kept
  OBVIOUS
<1>1. State
  BY McpAssumption DEF Init, State, Stage, Process
<1>2. Kept
  BY DEF Init, Kept, NoneLeftRunning
<1> QED BY <1>1, <1>2

\* The calls of tools leave the manager alone.
LEMMA CallState ==
    ASSUME IInv, State, Kept, NEW c \in Calling, Proceed(c) \/ Cancel(c) \/ Invoke(c)
    PROVE  State' /\ Kept'
<1>1. UNCHANGED <<daemon, todo, clients, offered, stage, process>>
  BY DEF Proceed, Acquire, Read, ReadFails, GiveUp, Leave, Cancel, Invoke
<1>2. Kept'
  BY <1>1, KeptElsewhere
<1>3. Active(c) => server[c] \in Server
  BY DEF IInv, Types
<1>4. /\ owner' \in [Server -> Calling \cup {None}]
      /\ waiters' \in [Server -> Seq(Calling)]
  <2>1. CASE Acquire(c)
    <3> DEFINE s == server[c]
    <3>1. s \in Server /\ waiters[s] \in Seq(Calling) /\ waiters[s] # <<>>
      BY <2>1, <1>3 DEF Acquire, Active, State
    <3>2. /\ owner' = [owner EXCEPT ![s] = c]
          /\ waiters' = [waiters EXCEPT ![s] = Tail(waiters[s])]
      BY <2>1 DEF Acquire, Write
    <3>3. Tail(waiters[s]) \in Seq(Calling)
      BY <3>1
    <3> HIDE DEF s
    <3> QED BY <3>1, <3>2, <3>3 DEF State
  <2>2. CASE Read(c) \/ ReadFails(c) \/ GiveUp(c)
    <3>1. /\ owner' = owner \/ owner' = [owner EXCEPT ![server[c]] = None]
          /\ UNCHANGED waiters
      BY <2>2 DEF Read, ReadFails, GiveUp, Leave, clientVars
    <3> QED BY <3>1 DEF State
  <2>3. CASE Cancel(c)
    <3> DEFINE s == server[c]
    <3>1. s \in Server
      BY <2>3, <1>3 DEF Cancel, Active
    <3>2. CASE owner' = [owner EXCEPT ![s] = None] /\ UNCHANGED waiters
      BY <2>3, <3>1, <3>2 DEF Cancel, wireVars, State
    <3>3. ASSUME NEW i \in 1 .. Len(waiters[s]),
                 waiters' = [waiters EXCEPT ![s] = RemoveAt(waiters[s], i)], UNCHANGED owner
          PROVE  waiters' \in [Server -> Seq(Calling)]
      <4>1. waiters[s] \in Seq(Calling)
        BY <3>1 DEF State
      <4>2. RemoveAt(waiters[s], i) \in Seq(Calling)
        BY <4>1, RemoveType
      <4> HIDE DEF s
      <4> QED BY <3>1, <3>3, <4>2 DEF State
    <3>4. \/ owner' = [owner EXCEPT ![s] = None] /\ UNCHANGED waiters
          \/ \E i \in 1 .. Len(waiters[s]) :
                waiters' = [waiters EXCEPT ![s] = RemoveAt(waiters[s], i)] /\ UNCHANGED owner
      BY <2>3 DEF Cancel
    <3> HIDE DEF s
    <3> QED BY <3>2, <3>3, <3>4 DEF State
  <2>4. CASE Invoke(c)
    <3>1. PICK s \in Server : Enter(c, s)
      BY <2>4, McpAssumption DEF Invoke
    <3> QED BY <3>1, EnterState
  <2> QED BY <2>1, <2>2, <2>3, <2>4 DEF Proceed
<1> QED BY <1>1, <1>2, <1>4 DEF State

\* So do the servers; one that has ended stays so.
LEMMA ServerState ==
    ASSUME State, Kept, NEW s \in Server, Respond(s) \/ Notify(s) \/ Crash(s)
    PROVE  State' /\ Kept'
<1>1. /\ UNCHANGED <<daemon, todo, clients, offered, stage, owner, waiters>>
      /\ process' = process \/ process' = [process EXCEPT ![s] = "gone"]
  BY DEF Respond, Notify, Crash, clientVars
<1>2. /\ process' \in [Server -> Process]
      /\ \A t \in Server : process[t] = "gone" => process'[t] = "gone"
  BY <1>1 DEF State, Process
<1>3. Kept'
  BY <1>1, <1>2, KeptElsewhere
<1> QED BY <1>1, <1>2, <1>3 DEF State

\* A server that is stored takes nobody's place but that of a namesake, who
\* is ready no more.
LEMMA StoreKeeps ==
    ASSUME clients \in Seq(Server), stage \in [Server -> Stage], NEW s \in Server, Store(s)
    PROVE  /\ clients' \in Seq(Server) /\ stage' \in [Server -> Stage]
           /\ \A t \in Server : (stage[t] = "ready" => In(t, clients)) =>
                                (stage'[t] = "ready" => In(t, clients'))
<1>1. CASE clients' = Append(clients, s) /\ stage' = [stage EXCEPT ![s] = "ready"]
  <2>1. clients' \in Seq(Server) /\ In(s, clients') /\ \A t : In(t, clients) => In(t, clients')
    BY <1>1, InAppend
  <2>2. stage' \in [Server -> Stage] /\ \A t \in Server \ {s} : stage'[t] = stage[t]
    BY <1>1 DEF Stage
  <2> QED BY <2>1, <2>2
<1>2. ASSUME NEW i \in DOMAIN clients, clients' = [clients EXCEPT ![i] = s],
             stage' = [stage EXCEPT ![clients[i]] = "shadowed", ![s] = "ready"]
      PROVE  /\ clients' \in Seq(Server) /\ stage' \in [Server -> Stage]
             /\ \A t \in Server : (stage[t] = "ready" => In(t, clients)) =>
                                  (stage'[t] = "ready" => In(t, clients'))
  <2>1. /\ i \in 1 .. Len(clients) /\ clients[i] \in Server
        /\ clients' \in Seq(Server) /\ Len(clients') = Len(clients) /\ clients'[i] = s
        /\ \A j \in 1 .. Len(clients) : j # i => clients'[j] = clients[j]
    BY <1>2
  <2>2. /\ stage' \in [Server -> Stage]
        /\ \A t \in Server : stage'[t] = "ready" => t = s \/ (t # clients[i] /\ stage[t] = "ready")
    BY <1>2, <2>1 DEF Stage
  <2>3. ASSUME NEW t \in Server, stage[t] = "ready" => In(t, clients), stage'[t] = "ready"
        PROVE  In(t, clients')
    <3>1. CASE t = s
      BY <3>1, <2>1 DEF In
    <3>2. CASE t # s
      <4>1. t # clients[i] /\ In(t, clients)
        BY <3>2, <2>2, <2>3
      <4>2. PICK j \in 1 .. Len(clients) : clients[j] = t
        BY <4>1 DEF In
      <4> QED BY <4>1, <4>2, <2>1 DEF In
    <3> QED BY <3>1, <3>2
  <2> QED BY <2>1, <2>2, <2>3
<1> QED BY <1>1, <1>2 DEF Store

\* While the daemon starts, a server is ready only when it is stored.
LEMMA StartState ==
    ASSUME IInv, State, Kept, Refused \/ Connect \/ Initialized \/ Listed \/ Skipped
    PROVE  State' /\ Kept'
<1> DEFINE s == Head(todo)
<1>1. daemon = "starting" /\ daemon' = daemon /\ s \in Server /\ Tail(todo) \in Seq(Server)
  <2>1. daemon = "starting" /\ daemon' = daemon /\ todo # <<>>
    BY DEF Refused, Connect, Initialized, Listed, Skipped
  <2> QED BY <2>1, InTail DEF State
<1>2. todo' \in Seq(Server)
  <2>1. todo' = todo \/ todo' = Tail(todo)
    BY DEF Refused, Connect, Initialized, Listed, Skipped, Visited
  <2> QED BY <1>1, <2>1 DEF State
<1>3. /\ owner' \in [Server -> Calling \cup {None}]
      /\ waiters' \in [Server -> Seq(Calling)]
  <2>1. CASE Connect \/ Initialized
    <3>1. Enter(Boot, s) /\ Boot \in Calling
      BY <2>1 DEF Connect, Initialized, Calling
    <3> HIDE DEF s
    <3> QED BY <1>1, <3>1, EnterState
  <2>2. CASE Refused \/ Listed \/ Skipped
    BY <2>2 DEF Refused, Listed, Skipped, clientVars, wireVars, State
  <2> QED BY <2>1, <2>2
<1>4. /\ process' = process \/ process' = [process EXCEPT ![s] = "running"]
      /\ process' \in [Server -> Process]
  <2>1. process' = process \/ process' = [process EXCEPT ![s] = "running"]
    BY DEF Refused, Connect, Initialized, Listed, Skipped
  <2> QED BY <1>1, <2>1 DEF State, Process
<1>5. CASE Listed
  <2>1. /\ clients \in Seq(Server) /\ stage \in [Server -> Stage]
        /\ offered' \subseteq Server
        /\ Store(s)
    BY <1>1, <1>5 DEF Listed, State
  <2> HIDE DEF s
  <2>2. /\ clients' \in Seq(Server) /\ stage' \in [Server -> Stage]
        /\ \A t \in Server : (stage[t] = "ready" => In(t, clients)) =>
                             (stage'[t] = "ready" => In(t, clients'))
    BY <1>1, <2>1, StoreKeeps
  <2>3. Kept'
    BY <1>1, <2>2 DEF Kept, NoneLeftRunning, In
  <2> QED BY <1>1, <1>2, <1>3, <1>4, <2>1, <2>2, <2>3 DEF State
<1>6. CASE Refused \/ Connect \/ Initialized \/ Skipped
  <2>1. /\ clients' = clients /\ offered' = offered
        /\ \E a \in {"connecting", "listing", "failed"} : stage' = [stage EXCEPT ![s] = a]
    BY <1>6 DEF Refused, Connect, Initialized, Skipped
  <2>2. clients \in Seq(Server) /\ stage \in [Server -> Stage]
    BY DEF State
  <2> HIDE DEF s
  <2>3. stage' \in [Server -> Stage] /\ \A t \in Server : stage'[t] = "ready" => stage[t] = "ready"
    BY <1>1, <2>1, <2>2 DEF Stage
  <2>4. Kept'
    BY <1>1, <2>1, <2>3 DEF Kept, NoneLeftRunning, In
  <2> QED BY <1>1, <1>2, <1>3, <1>4, <2>1, <2>2, <2>3, <2>4 DEF State
<1> QED BY <1>5, <1>6

\* Shutdown visits all that is stored.
LEMMA StopState ==
    ASSUME State, Kept, Serve \/ StopAll \/ Close \/ Closed \/ Stopped
    PROVE  State' /\ Kept'
<1>1. UNCHANGED <<stage, offered, owner, waiters>>
  BY DEF Serve, StopAll, Close, Closed, Stopped, clientVars, wireVars
<1>2. CASE Serve
  <2>1. UNCHANGED <<todo, clients, process>> /\ daemon = "starting" /\ daemon' = "serving"
    BY <1>2 DEF Serve
  <2> QED BY <1>1, <2>1 DEF State, Kept, NoneLeftRunning, In
<1>3. CASE StopAll
  <2>1. /\ UNCHANGED <<clients, process>> /\ todo' = clients
        /\ daemon = "serving" /\ daemon' = "stopping"
    BY <1>3 DEF StopAll
  <2> QED BY <1>1, <2>1 DEF State, Kept, NoneLeftRunning, In
<1>4. CASE Close
  <2>1. /\ UNCHANGED <<daemon, todo, clients>>
        /\ process[Head(todo)] = "running"
        /\ process' = [process EXCEPT ![Head(todo)] = "terminating"]
    BY <1>4 DEF Close
  <2>2. /\ process' \in [Server -> Process]
        /\ \A s \in Server : process[s] = "gone" => process'[s] = "gone"
    BY <2>1 DEF State, Process
  <2>3. Kept'
    BY <1>1, <2>1, <2>2, KeptElsewhere
  <2> QED BY <1>1, <2>1, <2>2, <2>3 DEF State
<1>5. CASE Closed
  <2>1. /\ UNCHANGED <<daemon, clients>> /\ daemon = "stopping"
        /\ todo \in Seq(Server) /\ todo # <<>>
        /\ process' = [process EXCEPT ![Head(todo)] = "gone"] /\ todo' = Tail(todo)
    BY <1>5 DEF Closed, Visited, State
  <2>2. /\ Head(todo) \in Server /\ todo' \in Seq(Server)
        /\ \A s : In(s, todo) => s = Head(todo) \/ In(s, todo')
    BY <2>1, InTail
  <2>3. /\ process' \in [Server -> Process] /\ process'[Head(todo)] = "gone"
        /\ \A s \in Server : process[s] = "gone" => process'[s] = "gone"
    BY <2>1, <2>2 DEF State, Process
  <2>4. ASSUME NEW s \in Server, stage[s] = "ready"
        PROVE  In(s, clients) /\ (process'[s] = "gone" \/ In(s, todo'))
    BY <2>1, <2>2, <2>3, <2>4 DEF Kept
  <2>5. Kept'
    BY <1>1, <2>1, <2>4 DEF Kept, NoneLeftRunning, In
  <2> QED BY <1>1, <2>1, <2>2, <2>3, <2>5 DEF State
<1>6. CASE Stopped
  <2>1. /\ UNCHANGED <<todo, process>> /\ todo = <<>> /\ clients' = <<>>
        /\ daemon = "stopping" /\ daemon' = "stopped"
    BY <1>6 DEF Stopped
  <2>2. ASSUME NEW s \in Server, stage[s] = "ready" PROVE process[s] = "gone"
    BY <2>1, <2>2 DEF Kept, In
  <2> QED BY <1>1, <2>1, <2>2 DEF State, Kept, NoneLeftRunning
<1> QED BY <1>2, <1>3, <1>4, <1>5, <1>6

LEMMA NextState == MInv /\ [Next]_vars => State' /\ Kept'
<1> SUFFICES ASSUME MInv, [Next]_vars PROVE State' /\ Kept'
  OBVIOUS
<1>1. IInv /\ State /\ Kept
  BY DEF MInv
<1>2. CASE Refused \/ Connect \/ Initialized \/ Listed \/ Skipped
  BY <1>1, <1>2, StartState
<1>3. CASE Serve \/ StopAll \/ Close \/ Closed \/ Stopped
  BY <1>1, <1>3, StopState
<1>4. ASSUME NEW c \in Calling, Proceed(c) \/ Cancel(c) \/ Invoke(c) PROVE State' /\ Kept'
  BY <1>1, <1>4, CallState
<1>5. ASSUME NEW s \in Server, Respond(s) \/ Notify(s) \/ Crash(s) PROVE State' /\ Kept'
  BY <1>1, <1>5, ServerState
<1>6. CASE UNCHANGED vars
  <2>1. UNCHANGED <<daemon, todo, clients, offered, stage, process, owner, waiters>>
    BY <1>6 DEF vars, clientVars, wireVars
  <2> QED BY <1>1, <2>1 DEF State, Kept, NoneLeftRunning, In
<1> QED BY <1>2, <1>3, <1>4, <1>5, <1>6 DEF Next, Manage

LEMMA ManagerHolds == Spec => []MInv
<1>1. Init => MInv
  BY InitInv, InitState DEF MInv
<1>2. MInv /\ [Next]_vars => MInv'
  BY NextInv, NextState DEF MInv
<1> QED BY <1>1, <1>2, PTL DEF Spec

\* The client, the manager and their calls keep the shape of
\* McpClient.__init__ and McpServerManager.__init__ through every step.
THEOREM ClientType == Spec => []TypeOK
<1>1. MInv => TypeOK
  BY DEF MInv, IInv, Types, State, TypeOK, Ending
<1> QED BY <1>1, ManagerHolds, PTL

\* stop_all closes each client the manager has stored, kills what does not
\* end, and forgets the clients last: no server that no other has replaced
\* under its name outlives stop_all, however the names are given.
THEOREM ShutdownIsComplete == Spec => []NoneLeftRunning
<1>1. MInv => NoneLeftRunning
  BY DEF MInv, Kept
<1> QED BY <1>1, ManagerHolds, PTL
=============================================================================
