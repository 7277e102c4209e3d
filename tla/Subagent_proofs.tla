--------------------------- MODULE Subagent_proofs ---------------------------
(***************************************************************************)
(* A subagent runs inside the call that spawned it or in the background,   *)
(* and its end is reported before anybody gets its result; a completed     *)
(* task blocks no other: for any number of children, calls, retries, tasks *)
(* and tool sets.                                                          *)
(***************************************************************************)
EXTENDS Subagent, TLAPS, FiniteSetTheorems, SequenceTheorems

InCall(a) == at[a] \in {"spawning", "joining"}

\* The part of the type invariant the argument needs.
Types ==
    /\ at \in [Agent -> At]
    /\ mode \in [Agent -> {"root", "foreground", "background"}]
    /\ \A c \in Children : mode[c] # "root"
    /\ depth \in [Agent -> Nat]
    /\ tools \in [Agent -> SUBSET Tools]
    /\ child \in [Agent -> Children \cup {NoAgent}]
    /\ events \in [Agent -> Seq({"started", "finished"})]
    /\ registry \subseteq Children
    /\ told \subseteq Children

\* What has been published about a child tells how far it has come.
Phases ==
    \A c \in Children :
        /\ events[c] = <<>> => at[c] = "unborn"
        /\ at[c] \in Active \ {"reporting"} => events[c] = <<"started">>
        /\ at[c] \in {"reporting", "ended"} => events[c] = <<"started", "finished">>

\* The child of a call exists: unborn while its start is being published,
\* a foreground child while the call is inside it, and the one before while
\* the next try is awaited.
Spawning ==
    \A a \in Agent :
     /\ at[a] = "sleeping" => child[a] \in Children
     /\ InCall(a) => /\ child[a] \in Children
                     /\ events[child[a]] # <<>>
                     /\ at[a] = "spawning" => /\ at[child[a]] = "unborn"
                                              /\ events[child[a]] = <<"started">>
                     /\ at[a] = "joining" => mode[child[a]] = "foreground"

\* No two calls have the same child.
OneParent ==
    \A a, b \in Agent : (a # b /\ InCall(a) /\ InCall(b)) => child[a] # child[b]

\* Only background children are registered.
Registered ==
    \A c \in registry : mode[c] = "background" /\ events[c] # <<>>

\* Children are spawned in the order of their numbers.
InTurn ==
    \E n \in 0 .. MaxChildren : \A c \in Children : events[c] # <<>> <=> c <= n

\* Only an agent above the second level spawns, and its child is below it.
Depths ==
    \A a \in Agent :
        /\ "spawn_agent" \in tools[a] => depth[a] <= 1
        /\ InCall(a) \/ at[a] = "sleeping" => depth[a] <= 1
        /\ InCall(a) => depth[child[a]] = depth[a] + 1

\* A call is inside each foreground child that runs.
Awaited(c) == \E a \in Agent : at[a] = "joining" /\ child[a] = c

Accompanied ==
    \A c \in Children : (mode[c] = "foreground" /\ at[c] \in Active) => Awaited(c)

IInv ==
    /\ Types /\ Phases /\ Spawning /\ OneParent /\ Registered /\ InTurn
    /\ Depths /\ Accompanied /\ ResultFollowsReport

-----------------------------------------------------------------------------
\* The root is no child, and there are agents.
LEMMA Numbers ==
    /\ MaxChildren \in Nat /\ Root \in Agent /\ Root \notin Children
    /\ Children \subseteq Agent /\ NoAgent \notin Children
    /\ \A a \in Agent : a = Root \/ a \in Children
BY SubagentAssumption DEF Root, Agent, Children, NoAgent

\* A new child has never been started.
LEMMA Fresh ==
    ASSUME IInv, Spawned + 1 \in Children
    PROVE  /\ events[Spawned + 1] = <<>> /\ at[Spawned + 1] = "unborn"
           /\ \A d \in Children : events[d] # <<>> => d <= Spawned
           /\ \A d \in Children : d <= Spawned => events[d] # <<>>
           /\ Spawned \in Nat
<1>1. PICK n \in 0 .. MaxChildren : \A c \in Children : events[c] # <<>> <=> c <= n
  BY DEF IInv, InTurn
<1>2. {c \in Children : events[c] # <<>>} = 1 .. n
  <2>1. Children = 1 .. MaxChildren /\ MaxChildren \in Nat
    BY SubagentAssumption DEF Children
  <2> QED BY <1>1, <2>1
<1>3. Cardinality(1 .. n) = n
  BY <1>1, SubagentAssumption, FS_Interval
<1>4. Spawned = n /\ n \in Nat
  <2>1. Spawned = Cardinality(1 .. n)
    BY <1>2, Zenon DEF Spawned
  <2>2. n \in Nat
    BY <1>1, SubagentAssumption
  <2> QED BY <2>1, <2>2, <1>3
<1>5. events[Spawned + 1] = <<>>
  BY <1>1, <1>4
<1> QED BY <1>1, <1>4, <1>5 DEF IInv, Phases

\* Nothing has been spawned at first.
LEMMA InitInv == Init => IInv
<1> SUFFICES ASSUME Init PROVE IInv
  OBVIOUS
<1>1. \A a \in Agent : events[a] = <<>> /\ at[a] \in {"thinking", "unborn"}
  BY DEF Init
<1>2. \A c \in Children : at[c] = "unborn"
  BY Numbers DEF Init
<1>3. Types
  <2>1. events \in [Agent -> Seq({"started", "finished"})]
    BY DEF Init
  <2>2. \A c \in Children : mode[c] # "root"
    BY Numbers DEF Init
  <2> QED BY <2>1, <2>2 DEF Init, Types, At
<1>4. Phases
  BY <1>1, <1>2, Numbers DEF Phases, Active, Over
<1>5. Spawning /\ OneParent /\ Depths /\ Accompanied
  <2>1. \A a \in Agent : depth[a] = 0
    BY DEF Init
  <2>2. Accompanied
    BY <1>2 DEF Accompanied, Active, Over
  <2> QED BY <1>1, <2>1, <2>2 DEF Spawning, OneParent, Depths, InCall
<1>6. Registered /\ ResultFollowsReport
  BY <1>2 DEF Init, Registered, ResultFollowsReport
<1>7. InTurn
  <2>1. 0 \in 0 .. MaxChildren /\ (\A c \in Children : events[c] = <<>> /\ ~(c <= 0))
    BY <1>1, Numbers DEF Children
  <2> QED BY <2>1 DEF InTurn
<1> QED BY <1>3, <1>4, <1>5, <1>6, <1>7 DEF IInv

\* A new child is told apart from all others, which stay as they are.
LEMMA ExecuteStep ==
    ASSUME IInv, NEW a \in Agent, at[a] \in {"thinking", "sleeping"},
           NEW m \in {"foreground", "background"}, NEW profile \in Profiles,
           depth[a] <= 1, Execute(a, m, profile)
    PROVE  IInv'
<1> DEFINE c == Spawned + 1
<1>1. c \in Children /\ c \in Agent /\ c # Root
  BY Numbers DEF Execute
<1>2. /\ events[c] = <<>> /\ at[c] = "unborn" /\ Spawned \in Nat
      /\ \A d \in Children : events[d] # <<>> <=> d <= Spawned
  BY <1>1, Fresh
<1>3. /\ mode' = [mode EXCEPT ![c] = m]
      /\ child' = [child EXCEPT ![a] = c]
      /\ events' = [events EXCEPT ![c] = Append(events[c], "started")]
      /\ at' = [at EXCEPT ![a] = "spawning"]
      /\ depth' = [depth EXCEPT ![c] = depth[a] + 1]
      /\ tools' = [tools EXCEPT ![c] = ChildTools(a, profile)]
      /\ registry' = registry /\ told' = told
  BY DEF Execute, GoTo
<1> HIDE DEF c
<1>4. a # c /\ (\A d \in Children : d \in Agent)
  BY <1>2, Numbers
<1>5. /\ events'[c] = <<"started">> /\ at'[c] = "unborn" /\ mode'[c] = m
      /\ at'[a] = "spawning" /\ child'[a] = c
      /\ \A d \in Agent \ {c} : events'[d] = events[d] /\ mode'[d] = mode[d]
      /\ \A d \in Agent \ {a} : at'[d] = at[d] /\ child'[d] = child[d]
  BY <1>1, <1>2, <1>3, <1>4 DEF IInv, Types
<1>6. Types'
  <2>1. Append(events[c], "started") \in Seq({"started", "finished"})
    BY <1>1 DEF IInv, Types
  <2>2. \A d \in Children : mode'[d] # "root"
    BY <1>4, <1>5 DEF IInv, Types
  <2>3. ChildTools(a, profile) \in SUBSET Tools
    BY SubagentAssumption DEF ChildTools
  <2> HIDE DEF ChildTools
  <2> QED BY <1>1, <1>3, <2>1, <2>2, <2>3 DEF IInv, Types, At
<1>7. Phases'
  <2>1. ASSUME NEW d \in Children
        PROVE  /\ events'[d] = <<>> => at'[d] = "unborn"
               /\ at'[d] \in Active \ {"reporting"} => events'[d] = <<"started">>
               /\ at'[d] \in {"reporting", "ended"} => events'[d] = <<"started", "finished">>
    <3>1. CASE d = c
      BY <3>1, <1>5 DEF Active, Over
    <3>2. CASE d = a
      BY <3>2, <1>4, <1>5 DEF IInv, Phases, Active, Over, At
    <3>3. CASE d # a /\ d # c
      BY <3>3, <1>4, <1>5 DEF IInv, Phases
    <3> QED BY <3>1, <3>2, <3>3
  <2> QED BY <2>1 DEF Phases, Active
<1>8. \A b \in Agent \ {a} : InCall(b)' => InCall(b) /\ child'[b] = child[b] /\ child[b] # c
  BY <1>2, <1>5 DEF IInv, Spawning, InCall
<1>9. Spawning'
  <2>0. ASSUME NEW b \in Agent, at'[b] = "sleeping" PROVE child'[b] \in Children
    BY <2>0, <1>5 DEF IInv, Spawning
  <2>1. ASSUME NEW b \in Agent, InCall(b)'
        PROVE  /\ child'[b] \in Children
               /\ events'[child'[b]] # <<>>
               /\ at'[b] = "spawning" => /\ at'[child'[b]] = "unborn"
                                         /\ events'[child'[b]] = <<"started">>
               /\ at'[b] = "joining" => mode'[child'[b]] = "foreground"
    <3>1. CASE b = a
      BY <3>1, <1>1, <1>5
    <3>2. CASE b # a
      <4>1. InCall(b) /\ child'[b] = child[b] /\ child[b] # c /\ at'[b] = at[b]
        BY <3>2, <2>1, <1>5, <1>8
      <4>2. child[b] \in Children /\ child[b] \in Agent
        BY <4>1, <1>4 DEF IInv, Spawning
      <4>3. at[b] = "spawning" => child[b] # a
        BY <4>1 DEF IInv, Spawning
      <4> QED BY <4>1, <4>2, <4>3, <1>5 DEF IInv, Spawning
    <3> QED BY <3>1, <3>2
  <2> QED BY <2>0, <2>1 DEF Spawning, InCall
<1>10. OneParent'
  BY <1>5, <1>8 DEF IInv, OneParent, InCall
<1>11. Registered'
  <2>1. \A d \in registry : d # c /\ d \in Agent
    BY <1>2, <1>4 DEF IInv, Types, Registered
  <2> QED BY <2>1, <1>3, <1>5 DEF IInv, Registered
<1>12. InTurn'
  <2>1. c \in 0 .. MaxChildren /\ (\A d \in Children : d \in Nat)
    BY <1>1, Numbers DEF Children
  <2>2. \A d \in Children : events'[d] # <<>> <=> d <= c
    BY <2>1, <1>2, <1>4, <1>5 DEF c
  <2> QED BY <2>1, <2>2 DEF InTurn
<1>13. ResultFollowsReport'
  <2>1. \A d \in Children : at'[d] = "ended" => events'[d] = <<"started", "finished">>
    BY <1>7 DEF Phases
  <2>2. \A d \in told : at[d] = "ended" /\ mode[d] = "background" /\ d \in Agent /\ d # a /\ d # c
    BY <1>2, <1>4 DEF IInv, Types, ResultFollowsReport
  <2> QED BY <2>1, <2>2, <1>3, <1>5 DEF ResultFollowsReport
<1>14. Depths'
  <2>1. /\ depth'[c] = depth[a] + 1 /\ tools'[c] = ChildTools(a, profile)
        /\ \A d \in Agent \ {c} : depth'[d] = depth[d] /\ tools'[d] = tools[d]
        /\ depth[a] \in Nat
    BY <1>1, <1>3 DEF IInv, Types
  <2>2. "spawn_agent" \in tools'[c] => depth'[c] <= 1
    BY <2>1 DEF ChildTools
  <2>3. ASSUME NEW b \in Agent, InCall(b)' \/ at'[b] = "sleeping"
        PROVE  depth'[b] <= 1 /\ (InCall(b)' => depth'[child'[b]] = depth'[b] + 1)
    <3>1. CASE b = a
      BY <3>1, <2>1, <1>4, <1>5
    <3>2. CASE b # a
      <4>1. b # c /\ at'[b] = at[b] /\ depth'[b] = depth[b]
        BY <3>2, <2>1, <2>3, <1>5 DEF InCall
      <4>2. depth[b] <= 1
        BY <4>1, <2>3 DEF IInv, Depths, InCall
      <4>3. InCall(b)' => depth'[child'[b]] = depth[b] + 1
        <5>1. SUFFICES ASSUME InCall(b)' PROVE depth'[child'[b]] = depth[b] + 1
          OBVIOUS
        <5>2. InCall(b) /\ child'[b] = child[b] /\ child[b] # c /\ child[b] \in Agent
          BY <5>1, <3>2, <1>8, Numbers DEF IInv, Spawning
        <5> QED BY <5>2, <2>1 DEF IInv, Depths
      <4> QED BY <4>1, <4>2, <4>3
    <3> QED BY <3>1, <3>2
  <2>4. \A b \in Agent : "spawn_agent" \in tools'[b] => depth'[b] <= 1
    BY <2>1, <2>2 DEF IInv, Depths
  <2> QED BY <2>3, <2>4 DEF Depths, InCall
<1>15. Accompanied'
  <2>1. ASSUME NEW d \in Children, mode'[d] = "foreground", at'[d] \in Active
        PROVE  \E b \in Agent : at'[b] = "joining" /\ child'[b] = d
    <3>1. d # c /\ d \in Agent /\ mode[d] = "foreground" /\ at[d] \in Active
      BY <2>1, <1>4, <1>5 DEF Active, Over, At
    <3>2. PICK b \in Agent : at[b] = "joining" /\ child[b] = d
      BY <3>1 DEF IInv, Accompanied, Awaited
    <3>3. b # a
      BY <3>2
    <3> QED BY <3>2, <3>3, <1>5
  <2> QED BY <2>1 DEF Accompanied, Awaited, Active
<1> QED BY <1>6, <1>7, <1>9, <1>10, <1>11, <1>12, <1>13, <1>14, <1>15 DEF IInv

-----------------------------------------------------------------------------
\* A step that spawns nobody and reports nothing keeps the invariant when
\* every agent goes where what was published about it lets it go.
LEMMA MoveStep ==
    ASSUME IInv, UNCHANGED <<mode, depth, tools, events>>,
           at' \in [Agent -> At], child' \in [Agent -> Children \cup {NoAgent}],
           \A c \in Children :
               \/ at'[c] = at[c]
               \/ events[c] # <<>> /\ at'[c] \in {"raised", "cancelled"}
               \/ events[c] = <<"started">> /\ at'[c] \in Active \ {"reporting"}
               \/ events[c] = <<"started", "finished">> /\ at'[c] = "ended",
           \A a \in Agent : InCall(a)' =>
               /\ InCall(a) /\ child'[a] = child[a]
               /\ at'[a] = "spawning" => at[a] = "spawning" /\ at'[child[a]] = at[child[a]]
               /\ at'[a] = "joining" => mode[child[a]] = "foreground",
           \A a \in Agent : at'[a] = "sleeping" => /\ InCall(a) \/ at[a] = "sleeping"
                                                  /\ child'[a] = child[a],
           \A c \in Children : (mode[c] = "foreground" /\ at'[c] \in Active) => Awaited(c)',
           registry' \subseteq Children,
           \A c \in registry' : mode[c] = "background" /\ events[c] # <<>>,
           told' \subseteq Children,
           \A c \in told' : at'[c] = "ended" /\ mode[c] = "background"
    PROVE  IInv'
<1>1. Types'
  BY DEF IInv, Types
<1>2. Phases'
  <2>1. ASSUME NEW c \in Children
        PROVE  /\ events'[c] = <<>> => at'[c] = "unborn"
               /\ at'[c] \in Active \ {"reporting"} => events'[c] = <<"started">>
               /\ at'[c] \in {"reporting", "ended"} => events'[c] = <<"started", "finished">>
    <3>1. CASE at'[c] = at[c]
      BY <3>1 DEF IInv, Phases
    <3>2. CASE events[c] # <<>> /\ at'[c] \in {"raised", "cancelled"}
      BY <3>2 DEF Active, Over
    <3>3. CASE events[c] = <<"started">> /\ at'[c] \in Active \ {"reporting"}
      BY <3>3 DEF Active, Over
    <3>4. CASE events[c] = <<"started", "finished">> /\ at'[c] = "ended"
      BY <3>4 DEF Active, Over
    <3> QED BY <3>1, <3>2, <3>3, <3>4
  <2> QED BY <2>1 DEF Phases, Active
<1>3. Spawning'
  <2>1. ASSUME NEW a \in Agent, at'[a] = "sleeping" PROVE child'[a] \in Children
    BY <2>1 DEF IInv, Spawning, InCall
  <2>2. ASSUME NEW a \in Agent, InCall(a)'
        PROVE  /\ child'[a] \in Children
               /\ events'[child'[a]] # <<>>
               /\ at'[a] = "spawning" => /\ at'[child'[a]] = "unborn"
                                         /\ events'[child'[a]] = <<"started">>
               /\ at'[a] = "joining" => mode'[child'[a]] = "foreground"
    <3>1. /\ InCall(a) /\ child'[a] = child[a]
          /\ at'[a] = "spawning" => at[a] = "spawning" /\ at'[child[a]] = at[child[a]]
          /\ at'[a] = "joining" => mode[child[a]] = "foreground"
      BY <2>2
    <3> QED BY <3>1 DEF IInv, Spawning
  <2> QED BY <2>1, <2>2 DEF Spawning, InCall
<1>4. OneParent'
  BY DEF IInv, OneParent, InCall
<1>5. Registered' /\ InTurn'
  BY DEF IInv, Registered, InTurn
<1>6. ResultFollowsReport'
  BY <1>2 DEF Phases, ResultFollowsReport
<1>7. Depths'
  BY DEF IInv, Depths, InCall
<1>8. Accompanied'
  BY DEF Accompanied, Awaited, Active
<1> QED BY <1>1, <1>2, <1>3, <1>4, <1>5, <1>6, <1>7, <1>8 DEF IInv

\* The start is published: the child begins, in a task of its own or inside
\* the call.
LEMMA StartedStep ==
    ASSUME IInv, NEW a \in Agent, Started(a)
    PROVE  IInv'
<1> DEFINE c == child[a]
<1>1. /\ InCall(a) /\ at[a] = "spawning" /\ c \in Children /\ c \in Agent
      /\ at[c] = "unborn" /\ events[c] = <<"started">> /\ a # c
  BY Numbers DEF Started, InCall, IInv, Spawning
<1>2. /\ \/ /\ mode[c] = "background" /\ registry' = registry \cup {c}
            /\ at' = [at EXCEPT ![a] = "thinking", ![c] = "thinking"]
            /\ child' = [child EXCEPT ![a] = NoAgent]
         \/ /\ mode[c] # "background" /\ registry' = registry /\ child' = child
            /\ at' = [at EXCEPT ![a] = "joining", ![c] = "thinking"]
      /\ UNCHANGED <<mode, depth, tools, events, told>>
  BY DEF Started, Return
<1> HIDE DEF c
<1>3. /\ at'[c] = "thinking" /\ at'[a] \in {"thinking", "joining"}
      /\ \A b \in Agent \ {a, c} : at'[b] = at[b]
      /\ \A b \in Agent \ {a} : child'[b] = child[b]
      /\ at' \in [Agent -> At] /\ child' \in [Agent -> Children \cup {NoAgent}]
  BY <1>1, <1>2 DEF IInv, Types, At
<1>4. at'[a] = "joining" => mode[c] = "foreground" /\ child' = child
  <2>1. mode[c] \in {"root", "foreground", "background"} /\ mode[c] # "root"
    BY <1>1 DEF IInv, Types
  <2> QED BY <1>1, <1>2, <2>1 DEF IInv, Types
<1>5. a \in Children => events[a] = <<"started">>
  BY <1>1 DEF IInv, Phases, Active, Over, At
<1>6. \A b \in Children :
         \/ at'[b] = at[b]
         \/ events[b] = <<"started">> /\ at'[b] \in Active \ {"reporting"}
  BY <1>1, <1>3, <1>5, Numbers DEF Active, Over, At
<1>7. ASSUME NEW b \in Agent, InCall(b)'
      PROVE  /\ InCall(b) /\ child'[b] = child[b]
             /\ at'[b] = "spawning" => at[b] = "spawning" /\ at'[child[b]] = at[child[b]]
             /\ at'[b] = "joining" => mode[child[b]] = "foreground"
  <2>1. CASE b = a
    BY <2>1, <1>1, <1>3, <1>4, <1>7 DEF InCall, c
  <2>2. CASE b # a
    <3>1. b # c /\ at'[b] = at[b] /\ child'[b] = child[b] /\ InCall(b)
      BY <2>2, <1>3, <1>7 DEF InCall
    <3>2. child[b] # c /\ child[b] \in Children /\ child[b] \in Agent
      BY <3>1, <2>2, <1>1, Numbers DEF IInv, OneParent, Spawning, c
    <3>3. at[b] = "spawning" => child[b] # a
      BY <3>1, <1>1 DEF IInv, Spawning
    <3> QED BY <3>1, <3>2, <3>3, <1>3 DEF IInv, Spawning
  <2> QED BY <2>1, <2>2
<1>8. /\ registry' \subseteq Children
      /\ \A d \in registry' : mode[d] = "background" /\ events[d] # <<>>
  <2>1. events[c] # <<>>
    BY <1>1
  <2>2. /\ registry \subseteq Children
        /\ (\A d \in registry : mode[d] = "background" /\ events[d] # <<>>)
    BY DEF IInv, Types, Registered
  <2>3. registry' = registry \/ (registry' = registry \cup {c} /\ mode[c] = "background")
    BY <1>2
  <2> QED BY <1>1, <2>1, <2>2, <2>3, Zenon
<1>9. /\ told' \subseteq Children
      /\ \A d \in told' : at'[d] = "ended" /\ mode[d] = "background"
  <2>1. \A d \in told : at[d] = "ended" /\ mode[d] = "background" /\ d \in Agent
    BY Numbers DEF IInv, Types, ResultFollowsReport
  <2>2. \A d \in told : d # a /\ d # c
    BY <2>1, <1>1
  <2>3. told \subseteq Children /\ told' = told
    BY <1>2 DEF IInv, Types
  <2> QED BY <2>1, <2>2, <2>3, <1>3
<1>10. \A b \in Agent : at'[b] = "sleeping" => at[b] = "sleeping" /\ child'[b] = child[b]
  BY <1>1, <1>3
<1>11. ASSUME NEW d \in Children, mode[d] = "foreground", at'[d] \in Active
       PROVE  \E b \in Agent : at'[b] = "joining" /\ child'[b] = d
  <2>1. CASE d = c
    <3>1. at'[a] = "joining" /\ child' = child
      BY <2>1, <1>1, <1>2, <1>11 DEF IInv, Types
    <3> QED BY <2>1, <3>1 DEF c
  <2>2. CASE d # c
    <3>1. at[d] \in Active
      BY <2>2, <1>1, <1>3, <1>11, Numbers DEF Active, Over, At
    <3>2. PICK b \in Agent : at[b] = "joining" /\ child[b] = d
      BY <3>1, <1>11 DEF IInv, Accompanied, Awaited
    <3>3. b # a /\ b # c
      BY <3>2, <1>1
    <3> QED BY <3>2, <3>3, <1>3
  <2> QED BY <2>1, <2>2
<1>12. \A d \in Children : (mode[d] = "foreground" /\ at'[d] \in Active) => Awaited(d)'
  BY <1>11 DEF Awaited
<1> QED BY <1>2, <1>3, <1>6, <1>7, <1>8, <1>9, <1>10, <1>12, MoveStep

\* One agent goes on, neither to a spawn call nor from one.
LEMMA CalmStep ==
    ASSUME IInv, NEW a \in Agent, NEW z \in At \ {"spawning", "joining", "sleeping"},
           at' = [at EXCEPT ![a] = z], at[a] \in {"thinking", "looped", "reporting"},
           UNCHANGED <<mode, depth, tools, events, child, registry, told>>,
           a \in Children => \/ events[a] = <<"started">> /\ z \in Active \ {"reporting"}
                             \/ events[a] = <<"started", "finished">> /\ z = "ended"
                             \/ events[a] = <<"started">> /\ z = "raised"
    PROVE  IInv'
<1>1. /\ at' \in [Agent -> At] /\ at'[a] = z /\ child' \in [Agent -> Children \cup {NoAgent}]
      /\ \A b \in Agent \ {a} : at'[b] = at[b]
  BY DEF IInv, Types
<1>2. \A b \in Children :
         \/ at'[b] = at[b]
         \/ events[b] = <<"started">> /\ at'[b] \in Active \ {"reporting"}
         \/ events[b] = <<"started", "finished">> /\ at'[b] = "ended"
         \/ events[b] # <<>> /\ at'[b] \in {"raised", "cancelled"}
  <2>1. events[a] = <<"started">> => events[a] # <<>>
    OBVIOUS
  <2> QED BY <2>1, <1>1, Numbers
<1>3. ASSUME NEW b \in Agent, InCall(b)'
      PROVE  /\ InCall(b) /\ child'[b] = child[b]
             /\ at'[b] = "spawning" => at[b] = "spawning" /\ at'[child[b]] = at[child[b]]
             /\ at'[b] = "joining" => mode[child[b]] = "foreground"
  <2>1. b # a /\ at'[b] = at[b] /\ InCall(b)
    BY <1>1, <1>3 DEF InCall
  <2>2. child[b] \in Agent /\ (at[b] = "spawning" => child[b] # a)
    BY <2>1, Numbers DEF IInv, Spawning
  <2> QED BY <2>1, <2>2, <1>1 DEF IInv, Spawning
<1>4. /\ registry' \subseteq Children
      /\ \A c \in registry' : mode[c] = "background" /\ events[c] # <<>>
  BY DEF IInv, Types, Registered
<1>5. /\ told' \subseteq Children
      /\ \A c \in told' : at'[c] = "ended" /\ mode[c] = "background"
  <2>1. \A c \in told : at[c] = "ended" /\ mode[c] = "background" /\ c \in Agent
    BY Numbers DEF IInv, Types, ResultFollowsReport
  <2> QED BY <2>1, <1>1 DEF IInv, Types
<1>6. \A b \in Agent : at'[b] = "sleeping" => at[b] = "sleeping" /\ child'[b] = child[b]
  BY <1>1
<1>7. ASSUME NEW d \in Children, mode[d] = "foreground", at'[d] \in Active
      PROVE  \E b \in Agent : at'[b] = "joining" /\ child'[b] = d
  <2>1. at[d] \in Active
    BY <1>1, <1>7, Numbers DEF Active, Over, At
  <2>2. PICK b \in Agent : at[b] = "joining" /\ child[b] = d
    BY <2>1, <1>7 DEF IInv, Accompanied, Awaited
  <2>3. b # a
    BY <2>2
  <2> QED BY <2>2, <2>3, <1>1
<1>8. \A d \in Children : (mode[d] = "foreground" /\ at'[d] \in Active) => Awaited(d)'
  BY <1>7 DEF Awaited
<1> QED BY <1>1, <1>2, <1>3, <1>4, <1>5, <1>6, <1>8, MoveStep

\* A loop ends.
LEMMA EndLoopStep ==
    ASSUME IInv, NEW a \in Agent, EndLoop(a)
    PROVE  IInv'
<1> DEFINE z == IF a = Root THEN "ended" ELSE "looped"
<1>1. /\ at[a] = "thinking" /\ at' = [at EXCEPT ![a] = z]
      /\ UNCHANGED <<mode, depth, tools, events, child, registry, told>>
  BY DEF EndLoop, GoTo
<1>2. z \in At \ {"spawning", "joining", "sleeping"}
  BY DEF At
<1>3. a \in Children => events[a] = <<"started">> /\ z \in Active \ {"reporting"}
  BY <1>1, Numbers DEF IInv, Phases, Active, Over, At
<1> HIDE DEF z
<1> QED BY <1>1, <1>2, <1>3, CalmStep

\* What is published about a child that came to its end.
LEMMA AppendFinished == Append(<<"started">>, "finished") = <<"started", "finished">>
<1> DEFINE s == Append(<<"started">>, "finished")
<1> DEFINE t == <<"started", "finished">>
<1> DEFINE W == {"started", "finished"}
<1>1. s \in Seq(W) /\ t \in Seq(W) /\ Len(s) = 2 /\ Len(t) = 2
  OBVIOUS
<1>2. s[1] = "started" /\ t[1] = "started"
  OBVIOUS
<1>3. s[2] = "finished" /\ t[2] = "finished"
  OBVIOUS
<1> HIDE DEF s, t, W
<1>4. ASSUME NEW i \in 1 .. 2 PROVE s[i] = t[i]
  <2>1. i = 1 \/ i = 2
    OBVIOUS
  <2> QED BY <2>1, <1>2, <1>3
<1>5. s = t
  BY <1>1, <1>4, SeqEqual
<1> QED BY <1>5 DEF s, t

\* The end of a child is being published.
LEMMA ReportStep ==
    ASSUME IInv, NEW c \in Children, Report(c)
    PROVE  IInv'
<1>1. /\ at[c] = "looped" /\ at' = [at EXCEPT ![c] = "reporting"]
      /\ events' = [events EXCEPT ![c] = Append(events[c], "finished")]
      /\ UNCHANGED <<mode, depth, tools, child, registry, told>>
  BY DEF Report, GoTo
<1>2. events[c] = <<"started">> /\ c \in Agent
  BY <1>1, Numbers DEF IInv, Phases, Active, Over, At
<1>3. /\ events'[c] = <<"started", "finished">> /\ at'[c] = "reporting"
      /\ \A d \in Agent \ {c} : events'[d] = events[d] /\ at'[d] = at[d]
  <2>1. Append(events[c], "finished") = <<"started", "finished">>
    BY <1>2, AppendFinished
  <2>2. at'[c] = "reporting" /\ \A d \in Agent \ {c} : at'[d] = at[d]
    BY <1>1, <1>2 DEF IInv, Types
  <2>3. /\ events'[c] = Append(events[c], "finished")
        /\ \A d \in Agent \ {c} : events'[d] = events[d]
    <3>1. events \in [Agent -> Seq({"started", "finished"})]
      BY DEF IInv, Types
    <3> QED BY <3>1, <1>1, <1>2, Zenon
  <2> QED BY <2>1, <2>2, <2>3
<1>4. Types'
  <2>1. Append(events[c], "finished") \in Seq({"started", "finished"})
    BY <1>2 DEF IInv, Types
  <2> QED BY <1>1, <2>1 DEF IInv, Types, At
<1>5. Phases'
  <2>1. ASSUME NEW d \in Children
        PROVE  /\ events'[d] = <<>> => at'[d] = "unborn"
               /\ at'[d] \in Active \ {"reporting"} => events'[d] = <<"started">>
               /\ at'[d] \in {"reporting", "ended"} => events'[d] = <<"started", "finished">>
    <3>1. CASE d = c
      BY <3>1, <1>3
    <3>2. CASE d # c
      BY <3>2, <1>3, Numbers DEF IInv, Phases
    <3> QED BY <3>1, <3>2
  <2> QED BY <2>1 DEF Phases, Active
<1>6. Spawning'
  <2>0. ASSUME NEW b \in Agent, at'[b] = "sleeping" PROVE child'[b] \in Children
    BY <2>0, <1>1, <1>3 DEF IInv, Spawning
  <2>1. ASSUME NEW b \in Agent, InCall(b)'
        PROVE  /\ child'[b] \in Children
               /\ events'[child'[b]] # <<>>
               /\ at'[b] = "spawning" => /\ at'[child'[b]] = "unborn"
                                         /\ events'[child'[b]] = <<"started">>
               /\ at'[b] = "joining" => mode'[child'[b]] = "foreground"
    <3>1. b # c /\ at'[b] = at[b] /\ InCall(b) /\ child'[b] = child[b]
      BY <2>1, <1>1, <1>3 DEF InCall
    <3>2. /\ child[b] \in Children /\ child[b] \in Agent
          /\ events[child[b]] # <<>> /\ (at[b] = "spawning" => child[b] # c)
      BY <3>1, <1>1, Numbers DEF IInv, Spawning
    <3>3. events'[child[b]] # <<>>
      BY <3>2, <1>3
    <3>4. at[b] = "spawning" => at'[child[b]] = "unborn" /\ events'[child[b]] = <<"started">>
      BY <3>1, <3>2, <1>3 DEF IInv, Spawning
    <3>5. at[b] = "joining" => mode'[child[b]] = "foreground"
      BY <3>1, <1>1 DEF IInv, Spawning
    <3> QED BY <3>1, <3>2, <3>3, <3>4, <3>5
  <2> QED BY <2>0, <2>1 DEF Spawning, InCall
<1>7. OneParent'
  BY <1>1, <1>3 DEF IInv, OneParent, InCall
<1>8. Registered'
  <2>1. \A d \in registry : d \in Agent
    BY Numbers DEF IInv, Types
  <2> QED BY <2>1, <1>1, <1>3 DEF IInv, Registered
<1>9. InTurn'
  <2>1. \A d \in Children : events'[d] # <<>> <=> events[d] # <<>>
    BY <1>2, <1>3, Numbers
  <2> QED BY <2>1 DEF IInv, InTurn
<1>10. ResultFollowsReport'
  <2>1. \A d \in told : at[d] = "ended" /\ mode[d] = "background" /\ d \in Agent
    BY Numbers DEF IInv, Types, ResultFollowsReport
  <2> QED BY <2>1, <1>1, <1>3, <1>5 DEF Phases, ResultFollowsReport
<1>11. Depths'
  BY <1>1, <1>3 DEF IInv, Depths, InCall
<1>12. Accompanied'
  <2>1. ASSUME NEW d \in Children, mode[d] = "foreground", at'[d] \in Active
        PROVE  \E b \in Agent : at'[b] = "joining" /\ child'[b] = d
    <3>1. at[d] \in Active
      BY <1>1, <1>2, <1>3, <2>1, Numbers DEF Active, Over, At
    <3>2. PICK b \in Agent : at[b] = "joining" /\ child[b] = d
      BY <3>1, <2>1 DEF IInv, Accompanied, Awaited
    <3>3. b # c
      BY <3>2, <1>1
    <3> QED BY <3>2, <3>3, <1>1, <1>3
  <2> QED BY <2>1, <1>1 DEF Accompanied, Awaited, Active
<1> QED BY <1>4, <1>5, <1>6, <1>7, <1>8, <1>9, <1>10, <1>11, <1>12 DEF IInv

\* The end of a background child is published: its task is done.
LEMMA ReportedStep ==
    ASSUME IInv, NEW c \in Children, Reported(c)
    PROVE  IInv'
<1>1. /\ at[c] = "reporting" /\ at' = [at EXCEPT ![c] = "ended"] /\ c \in Agent
      /\ UNCHANGED <<mode, depth, tools, events, child, registry, told>>
  BY Numbers DEF Reported, GoTo
<1>2. events[c] = <<"started", "finished">> /\ "ended" \in At \ {"spawning", "joining", "sleeping"}
  BY <1>1 DEF IInv, Phases, At
<1> QED BY <1>1, <1>2, CalmStep

\* The task of a background child ends with an exception.
LEMMA RaiseStep ==
    ASSUME IInv, NEW c \in Children, Raise(c)
    PROVE  IInv'
<1>1. /\ at[c] \in {"thinking", "looped"} /\ at' = [at EXCEPT ![c] = "raised"] /\ c \in Agent
      /\ UNCHANGED <<mode, depth, tools, events, child, registry, told>>
  BY Numbers DEF Raise, GoTo
<1>2. events[c] = <<"started">> /\ "raised" \in At \ {"spawning", "joining", "sleeping"}
  BY <1>1 DEF IInv, Phases, At, Active, Over
<1> QED BY <1>1, <1>2, CalmStep

\* The child of a call is over and the call goes on, with its next try or
\* without: a foreground child that reported its end or raised, or one that
\* never began.
LEMMA CallEndStep ==
    ASSUME IInv, NEW a \in Agent, InCall(a), NEW z \in {"ended", "raised"},
           z = "ended" => events[child[a]] = <<"started", "finished">>,
           at[child[a]] # "ended", ~InCall(child[a]),
           \/ /\ at' = [at EXCEPT ![a] = "sleeping", ![child[a]] = z] /\ child' = child
           \/ /\ at' = [at EXCEPT ![a] = "thinking", ![child[a]] = z]
              /\ child' = [child EXCEPT ![a] = NoAgent],
           UNCHANGED <<mode, depth, tools, events, registry, told>>
    PROVE  IInv'
<1> DEFINE c == child[a]
<1>1. /\ c \in Children /\ c \in Agent /\ a # c /\ events[c] # <<>>
      /\ at[c] # "ended" /\ ~InCall(c)
  BY Numbers DEF IInv, Spawning
<1>2. /\ \/ /\ at' = [at EXCEPT ![a] = "sleeping", ![c] = z] /\ child' = child
         \/ /\ at' = [at EXCEPT ![a] = "thinking", ![c] = z]
            /\ child' = [child EXCEPT ![a] = NoAgent]
      /\ z = "ended" => events[c] = <<"started", "finished">>
  OBVIOUS
<1> HIDE DEF c
<1>3. /\ at'[c] = z /\ at'[a] \in {"thinking", "sleeping"}
      /\ at'[a] = "sleeping" => child'[a] = child[a]
      /\ \A b \in Agent \ {a, c} : at'[b] = at[b]
      /\ \A b \in Agent \ {a} : child'[b] = child[b]
      /\ at' \in [Agent -> At] /\ child' \in [Agent -> Children \cup {NoAgent}]
  BY <1>1, <1>2 DEF IInv, Types, At
<1>4. a \in Children => events[a] = <<"started">>
  BY DEF InCall, IInv, Phases, Active, Over, At
<1>5. \A b \in Children :
         \/ at'[b] = at[b]
         \/ events[b] # <<>> /\ at'[b] \in {"raised", "cancelled"}
         \/ events[b] = <<"started">> /\ at'[b] \in Active \ {"reporting"}
         \/ events[b] = <<"started", "finished">> /\ at'[b] = "ended"
  BY <1>1, <1>2, <1>3, <1>4, Numbers DEF Active, Over, At
<1>6. ASSUME NEW b \in Agent, InCall(b)'
      PROVE  /\ InCall(b) /\ child'[b] = child[b]
             /\ at'[b] = "spawning" => at[b] = "spawning" /\ at'[child[b]] = at[child[b]]
             /\ at'[b] = "joining" => mode[child[b]] = "foreground"
  <2>1. b # a /\ b # c /\ at'[b] = at[b] /\ child'[b] = child[b] /\ InCall(b)
    BY <1>3, <1>6 DEF InCall
  <2>2. child[b] \in Agent /\ (at[b] = "spawning" => child[b] # a)
    BY <2>1, Numbers DEF IInv, Spawning, InCall
  <2>3. child[b] # c
    BY <2>1 DEF IInv, OneParent, c
  <2> QED BY <2>1, <2>2, <2>3, <1>3 DEF IInv, Spawning
<1>7. /\ registry' \subseteq Children
      /\ \A d \in registry' : mode[d] = "background" /\ events[d] # <<>>
  BY DEF IInv, Types, Registered
<1>8. /\ told' \subseteq Children
      /\ \A d \in told' : at'[d] = "ended" /\ mode[d] = "background"
  <2>1. \A d \in told : at[d] = "ended" /\ mode[d] = "background" /\ d \in Agent
    BY Numbers DEF IInv, Types, ResultFollowsReport
  <2>2. \A d \in told : d # a /\ d # c
    BY <2>1, <1>1 DEF InCall
  <2>3. \A d \in told : at'[d] = at[d]
    BY <2>1, <2>2, <1>3
  <2>4. told \subseteq Children /\ told' = told
    BY DEF IInv, Types
  <2> QED BY <2>1, <2>3, <2>4
<1>9. \A b \in Agent : at'[b] = "sleeping" => /\ InCall(b) \/ at[b] = "sleeping"
                                            /\ child'[b] = child[b]
  BY <1>1, <1>3
<1>10. ASSUME NEW d \in Children, mode[d] = "foreground", at'[d] \in Active
       PROVE  \E b \in Agent : at'[b] = "joining" /\ child'[b] = d
  <2>1. d # c /\ at[d] \in Active
    BY <1>1, <1>3, <1>10, Numbers DEF InCall, Active, Over, At
  <2>2. PICK b \in Agent : at[b] = "joining" /\ child[b] = d
    BY <2>1, <1>10 DEF IInv, Accompanied, Awaited
  <2>3. b # a /\ b # c
    BY <2>1, <2>2, <1>1 DEF InCall, c
  <2> QED BY <2>2, <2>3, <1>3
<1>11. \A d \in Children : (mode[d] = "foreground" /\ at'[d] \in Active) => Awaited(d)'
  BY <1>10 DEF Awaited
<1> QED BY <1>3, <1>5, <1>6, <1>7, <1>8, <1>9, <1>11, MoveStep

\* The call gets the end of its foreground child.
LEMMA JoinedStep ==
    ASSUME IInv, NEW a \in Agent, Joined(a)
    PROVE  IInv'
<1>1. InCall(a) /\ at[child[a]] = "reporting"
  BY DEF Joined, InCall
<1>2. events[child[a]] = <<"started", "finished">>
  BY <1>1 DEF IInv, Phases, Spawning
<1>3. /\ \/ /\ at' = [at EXCEPT ![a] = "sleeping", ![child[a]] = "ended"] /\ child' = child
         \/ /\ at' = [at EXCEPT ![a] = "thinking", ![child[a]] = "ended"]
            /\ child' = [child EXCEPT ![a] = NoAgent]
      /\ UNCHANGED <<mode, depth, tools, events, registry, told>>
  BY DEF Joined, CallFails, Return
<1>4. at[child[a]] # "ended" /\ ~InCall(child[a])
  BY <1>1 DEF InCall
<1> QED BY <1>1, <1>2, <1>3, <1>4, CallEndStep

\* The call gets the exception of its child, which may never have begun.
LEMMA CallRaisesStep ==
    ASSUME IInv, NEW a \in Agent, StartFails(a) \/ ChildRaises(a)
    PROVE  IInv'
<1>1. InCall(a) /\ at[child[a]] \in {"unborn", "thinking", "looped"}
  BY DEF StartFails, ChildRaises, InCall, IInv, Spawning
<1>2. /\ \/ /\ at' = [at EXCEPT ![a] = "sleeping", ![child[a]] = "raised"] /\ child' = child
         \/ /\ at' = [at EXCEPT ![a] = "thinking", ![child[a]] = "raised"]
            /\ child' = [child EXCEPT ![a] = NoAgent]
      /\ UNCHANGED <<mode, depth, tools, events, registry, told>>
  BY DEF StartFails, ChildRaises, CallFails, Return
<1>3. at[child[a]] # "ended" /\ ~InCall(child[a])
  BY <1>1 DEF InCall
<1> QED BY <1>1, <1>2, <1>3, CallEndStep

-----------------------------------------------------------------------------
\* The agents X that a cancellation ends: agents that run, and the children
\* of calls it interrupts.  None has ended in the background, and no call
\* that goes on loses its child.  Interrupted calls are those of X and E.
Struck(X, E) ==
    \A x \in X :
        \/ x = Root \/ at[x] \in Active
        \/ \E b \in X \cup E : InCall(b) /\ x = child[b]

\* What the cancelled agents are, and what they are not.
LEMMA StruckAgents ==
    ASSUME IInv, NEW X \in SUBSET Agent, NEW E \in SUBSET Agent, Struck(X, E)
    PROVE  /\ \A x \in X \cap Children : events[x] # <<>>
           /\ \A x \in X : x \notin told
           /\ \A b \in Agent \ (X \cup E) : at[b] = "spawning" => child[b] \notin X
<1>1. ASSUME NEW x \in X
      PROVE  x # Root => events[x] # <<>> /\ ~(at[x] = "ended" /\ mode[x] = "background")
  <2>1. CASE at[x] \in Active /\ x # Root
    <3>1. x \in Children /\ at[x] # "unborn" /\ at[x] # "ended"
      BY <2>1, Numbers DEF Active, Over
    <3> QED BY <3>1 DEF IInv, Phases
  <2>2. CASE \E b \in X \cup E : InCall(b) /\ x = child[b]
    <3>1. PICK b \in X \cup E : InCall(b) /\ x = child[b]
      BY <2>2
    <3> QED BY <3>1 DEF IInv, Spawning, InCall
  <2> QED BY <2>1, <2>2 DEF Struck
<1>2. \A x \in X \cap Children : events[x] # <<>>
  BY <1>1, Numbers
<1>3. \A x \in X : x \notin told
  BY <1>1, Numbers DEF IInv, Types, ResultFollowsReport
<1>4. ASSUME NEW b \in Agent \ (X \cup E), at[b] = "spawning", child[b] \in X
      PROVE  FALSE
  <2>1. InCall(b) /\ child[b] \in Children /\ at[child[b]] = "unborn"
    BY <1>4 DEF IInv, Spawning, InCall
  <2>2. child[b] # Root /\ at[child[b]] \notin Active
    BY <2>1, Numbers DEF Active
  <2>3. PICK d \in X \cup E : InCall(d) /\ child[b] = child[d]
    BY <1>4, <2>2 DEF Struck
  <2> QED BY <1>4, <2>1, <2>3 DEF IInv, OneParent
<1> QED BY <1>2, <1>3, <1>4

\* Cancellation keeps the invariant, whether a call is given up with it or
\* nothing goes on.
LEMMA StruckStep ==
    ASSUME IInv, NEW X \in SUBSET Agent, NEW E \in SUBSET Agent, Struck(X, E), X \cap E = {},
           \A e \in E : InCall(e),
           \A b \in X \cup E : InCall(b) => child[b] \in X,
           at' \in [Agent -> At], child' \in [Agent -> Children \cup {NoAgent}],
           \A x \in X : at'[x] = "cancelled",
           \A e \in E : at'[e] = "thinking",
           \A b \in Agent \ (X \cup E) : at'[b] = at[b] /\ child'[b] = child[b],
           UNCHANGED <<mode, depth, tools, events, registry, told>>
    PROVE  IInv'
<1>1. /\ \A x \in X \cap Children : events[x] # <<>>
      /\ \A x \in X : x \notin told
      /\ \A b \in Agent \ (X \cup E) : at[b] = "spawning" => child[b] \notin X
  BY StruckAgents
<1>2. \A e \in E \cap Children : events[e] = <<"started">> /\ at[e] # "ended"
  BY DEF IInv, Phases, InCall, Active, Over, At
<1>3. \A b \in Children :
         \/ at'[b] = at[b]
         \/ events[b] # <<>> /\ at'[b] = "cancelled"
         \/ events[b] = <<"started">> /\ at'[b] \in Active \ {"reporting"}
  BY <1>1, <1>2, Numbers DEF Active, Over, At
<1>4. ASSUME NEW b \in Agent, InCall(b)'
      PROVE  /\ InCall(b) /\ child'[b] = child[b]
             /\ at'[b] = "spawning" => at[b] = "spawning" /\ at'[child[b]] = at[child[b]]
             /\ at'[b] = "joining" => mode[child[b]] = "foreground"
  <2>1. b \in Agent \ (X \cup E) /\ at'[b] = at[b] /\ child'[b] = child[b] /\ InCall(b)
    BY <1>4 DEF InCall
  <2>2. child[b] \in Agent /\ (at[b] = "spawning" => child[b] \notin X \cup E)
    BY <1>1, <2>1, Numbers DEF IInv, Spawning, InCall
  <2> QED BY <2>1, <2>2 DEF IInv, Spawning
<1>5. /\ registry' \subseteq Children
      /\ \A d \in registry' : mode[d] = "background" /\ events[d] # <<>>
  BY DEF IInv, Types, Registered
<1>6. /\ told' \subseteq Children
      /\ \A d \in told' : at'[d] = "ended" /\ mode[d] = "background"
  <2>1. \A d \in told : at[d] = "ended" /\ mode[d] = "background" /\ d \in Agent /\ d \in Children
    BY Numbers DEF IInv, Types, ResultFollowsReport
  <2>2. \A d \in told : d \notin X /\ d \notin E
    BY <1>1, <1>2, <2>1
  <2> QED BY <2>1, <2>2 DEF IInv, Types
<1>7. \A b \in Agent : at'[b] = "sleeping" => at[b] = "sleeping" /\ child'[b] = child[b]
  OBVIOUS
<1>8. ASSUME NEW d \in Children, mode[d] = "foreground", at'[d] \in Active
      PROVE  \E b \in Agent : at'[b] = "joining" /\ child'[b] = d
  <2>1. d \notin X /\ d \in Agent
    BY <1>8, Numbers DEF Active, Over
  <2>2. at[d] \in Active
    <3>1. CASE d \in E
      BY <3>1 DEF InCall, Active, Over, At
    <3>2. CASE d \notin E
      BY <3>2, <2>1, <1>8
    <3> QED BY <3>1, <3>2
  <2>3. PICK b \in Agent : at[b] = "joining" /\ child[b] = d
    BY <2>2, <1>8 DEF IInv, Accompanied, Awaited
  <2>4. b \notin X \cup E
    BY <2>1, <2>3 DEF InCall
  <2> QED BY <2>3, <2>4
<1>9. \A d \in Children : (mode[d] = "foreground" /\ at'[d] \in Active) => Awaited(d)'
  BY <1>8 DEF Awaited
<1> QED BY <1>3, <1>4, <1>5, <1>6, <1>7, <1>9, MoveStep

\* The agents in the tasks of running agents are struck.
LEMMA TaskOfStruck ==
    ASSUME IInv, NEW A \in SUBSET Agent, NEW E \in SUBSET Agent,
           \A x \in A : \/ x = Root \/ at[x] \in Active
                        \/ \E b \in E : InCall(b) /\ x = child[b]
    PROVE  TaskOf(A) \in SUBSET Agent /\ Struck(TaskOf(A), E)
<1>1. \A a \in Agent : \A x \in Inside(a) : InCall(a) /\ x = child[a] /\ x \in Agent
  BY Numbers DEF Inside, InCall, IInv, Spawning
<1> DEFINE below == A \cup UNION {Inside(a) : a \in A}
<1>2. TaskOf(A) = below \cup UNION {Inside(a) : a \in below}
  BY DEF TaskOf
<1>3. below \in SUBSET Agent
  BY <1>1
<1>4. \A x \in below : x \in A \/ \E b \in A : InCall(b) /\ x = child[b]
  BY <1>1
<1> HIDE DEF below
<1>5. A \subseteq below
  BY DEF below
<1>6. TaskOf(A) \in SUBSET Agent /\ below \subseteq TaskOf(A)
  BY <1>1, <1>2, <1>3
<1>7. \A x \in TaskOf(A) : x \in A \/ \E b \in TaskOf(A) : InCall(b) /\ x = child[b]
  BY <1>1, <1>2, <1>3, <1>4, <1>5, <1>6
<1> QED BY <1>6, <1>7 DEF Struck

\* Nobody inside the task of a cancelled agent goes on: nesting ends where
\* TaskOf ends.
LEMMA TaskOfClosed ==
    ASSUME IInv, NEW A \in SUBSET Agent, NEW b \in TaskOf(A), InCall(b)
    PROVE  child[b] \in TaskOf(A)
<1> DEFINE below == A \cup UNION {Inside(a) : a \in A}
<1>1. TaskOf(A) = below \cup UNION {Inside(a) : a \in below}
  BY DEF TaskOf
<1>2. \A a \in Agent : \A x \in Inside(a) : InCall(a) /\ x = child[a] /\ x \in Agent
  BY Numbers DEF Inside, InCall, IInv, Spawning
<1>3. child[b] \in Inside(b)
  BY DEF Inside, InCall
<1>4. CASE b \in below
  BY <1>1, <1>3, <1>4
<1>5. CASE b \notin below
  <2>1. PICK a \in below : b \in Inside(a)
    BY <1>1, <1>5
  <2>2. a \notin A
    BY <1>5, <2>1
  <2>3. PICK r \in A : a \in Inside(r)
    BY <2>1, <2>2
  <2>4. InCall(r) /\ a = child[r] /\ InCall(a) /\ b = child[a] /\ a \in Agent /\ b \in Agent
    BY <1>2, <2>1, <2>3
  <2>5. depth[a] = depth[r] + 1 /\ depth[b] = depth[a] + 1 /\ depth[b] <= 1
    BY <2>4 DEF IInv, Depths
  <2>6. depth[r] \in Nat
    BY DEF IInv, Types
  <2> QED BY <2>5, <2>6
<1> QED BY <1>4, <1>5

\* An agent that a timeout concerns is not among those inside its call.
LEMMA TimedOutTask ==
    ASSUME IInv, NEW a \in Agent, TimedOut(a)
    PROVE  /\ InCall(a) /\ Inside(a) = {child[a]} /\ child[a] \in Agent
           /\ TaskOf(Inside(a)) \in SUBSET Agent /\ Struck(TaskOf(Inside(a)), {a})
           /\ a \notin TaskOf(Inside(a))
<1> DEFINE X == TaskOf(Inside(a))
<1>1. InCall(a) /\ mode[a] \in {"root", "background"} /\ Inside(a) = {child[a]}
  BY DEF TimedOut, InCall, Inside
<1>2. child[a] \in Agent
  BY <1>1, Numbers DEF IInv, Spawning
<1>3. X \in SUBSET Agent /\ Struck(X, {a})
  <2>1. \A x \in Inside(a) : \E b \in {a} : InCall(b) /\ x = child[b]
    BY <1>1
  <2> QED BY <1>1, <1>2, <2>1, TaskOfStruck
<1>4. a \notin X
  <2>1. a # child[a]
    BY <1>1, Numbers DEF IInv, Spawning, InCall
  <2>2. ASSUME NEW b \in Agent, InCall(b) PROVE a # child[b]
    <3>1. CASE at[b] = "spawning"
      BY <3>1, <2>2, <1>1 DEF IInv, Spawning, InCall
    <3>2. CASE at[b] = "joining"
      <4>1. child[b] \in Children /\ mode[child[b]] = "foreground"
        BY <3>2, <2>2 DEF IInv, Spawning
      <4> QED BY <4>1, <1>1
    <3> QED BY <3>1, <3>2, <2>2 DEF InCall
  <2>3. X = (Inside(a) \cup UNION {Inside(b) : b \in Inside(a)})
            \cup UNION {Inside(b) : b \in Inside(a) \cup UNION {Inside(b) : b \in Inside(a)}}
    BY DEF TaskOf
  <2>4. \A x \in X : \E b \in Agent : InCall(b) /\ x = child[b]
    <3>1. \A b \in Agent : \A x \in Inside(b) : InCall(b) /\ x = child[b] /\ x \in Agent
      BY Numbers DEF Inside, InCall, IInv, Spawning
    <3> HIDE DEF X
    <3> QED BY <2>3, <3>1
  <2> HIDE DEF X
  <2> QED BY <2>2, <2>4
<1> QED BY <1>1, <1>2, <1>3, <1>4

\* The spawn call is given up; its foreground child is cancelled with what
\* runs inside it.
LEMMA TimedOutStep ==
    ASSUME IInv, NEW a \in Agent, TimedOut(a)
    PROVE  IInv'
<1> DEFINE X == TaskOf(Inside(a))
<1>1. InCall(a) /\ Inside(a) = {child[a]}
  BY TimedOutTask
<1>2. child[a] \in Agent
  BY TimedOutTask
<1>3. X \in SUBSET Agent /\ Struck(X, {a})
  BY TimedOutTask
<1>4. a \notin X
  BY TimedOutTask
<1>5. /\ at' = [x \in Agent |-> CASE x = a -> "thinking"
                                   [] x \in X -> "cancelled"
                                   [] OTHER -> at[x]]
      /\ child' = [child EXCEPT ![a] = NoAgent]
      /\ UNCHANGED <<mode, depth, tools, events, registry, told>>
  BY DEF TimedOut, Return
<1> HIDE DEF X
<1>6. /\ at'[a] = "thinking" /\ \A x \in X : at'[x] = "cancelled"
      /\ \A b \in Agent \ (X \cup {a}) : at'[b] = at[b] /\ child'[b] = child[b]
      /\ at' \in [Agent -> At] /\ child' \in [Agent -> Children \cup {NoAgent}]
  <2>1. at'[a] = "thinking" /\ \A x \in X : at'[x] = "cancelled"
    BY <1>3, <1>4, <1>5
  <2>2. \A b \in Agent \ (X \cup {a}) : at'[b] = at[b] /\ child'[b] = child[b]
    BY <1>5 DEF IInv, Types
  <2>3. \A b \in Agent : at'[b] \in At
    BY <2>1, <2>2 DEF IInv, Types, At
  <2>4. child' \in [Agent -> Children \cup {NoAgent}]
    BY <1>5 DEF IInv, Types
  <2> QED BY <1>5, <2>1, <2>2, <2>3, <2>4
<1>7. X \cap {a} = {} /\ {a} \in SUBSET Agent
  BY <1>4
<1>8. \A b \in X \cup {a} : InCall(b) => child[b] \in X
  <2>1. child[a] \in X
    BY <1>1 DEF X, TaskOf
  <2>2. \A b \in X : InCall(b) => child[b] \in X
    BY <1>1, <1>2, TaskOfClosed DEF X
  <2> QED BY <2>1, <2>2
<1> QED BY <1>1, <1>3, <1>5, <1>6, <1>7, <1>8, StruckStep

\* Tasks are cancelled by the end of the daemon.
LEMMA CancelStep ==
    ASSUME IInv, NEW A \in SUBSET Agent, \A x \in A : x = Root \/ at[x] \in Active,
           CancelTasks(A), UNCHANGED <<mode, depth, tools, child, events, registry, told>>
    PROVE  IInv'
<1> DEFINE X == TaskOf(A)
<1>1. X \in SUBSET Agent /\ Struck(X, {})
  BY TaskOfStruck
<1>2. at' = [x \in Agent |-> IF x \in X THEN "cancelled" ELSE at[x]]
  BY DEF CancelTasks
<1> HIDE DEF X
<1>3. /\ \A x \in X : at'[x] = "cancelled"
      /\ \A b \in Agent \ X : at'[b] = at[b] /\ child'[b] = child[b]
      /\ at' \in [Agent -> At] /\ child' \in [Agent -> Children \cup {NoAgent}]
  BY <1>1, <1>2 DEF IInv, Types, At
<1>4. {} \in SUBSET Agent /\ X \cap {} = {} /\ X \cup {} = X
  OBVIOUS
<1>5. \A b \in X : InCall(b) => child[b] \in X
  BY TaskOfClosed DEF X
<1> QED BY <1>1, <1>3, <1>4, <1>5, StruckStep

\* Nothing that concerns the agents changes but what the model was told.
LEMMA StillStep ==
    ASSUME IInv, UNCHANGED <<at, mode, depth, tools, child, events, registry>>,
           told' \subseteq Children,
           \A c \in told' : at[c] = "ended" /\ mode[c] = "background"
    PROVE  IInv'
<1>1. /\ at' \in [Agent -> At] /\ child' \in [Agent -> Children \cup {NoAgent}]
      /\ registry' \subseteq Children
      /\ \A c \in registry' : mode[c] = "background" /\ events[c] # <<>>
  BY DEF IInv, Types, Registered
<1>2. \A a \in Agent : InCall(a)' =>
        /\ InCall(a) /\ child'[a] = child[a]
        /\ at'[a] = "spawning" => at[a] = "spawning" /\ at'[child[a]] = at[child[a]]
        /\ at'[a] = "joining" => mode[child[a]] = "foreground"
  BY DEF IInv, Spawning, InCall
<1>3. \A c \in Children : (mode[c] = "foreground" /\ at'[c] \in Active) => Awaited(c)'
  BY DEF IInv, Accompanied, Awaited
<1> QED BY <1>1, <1>2, <1>3, MoveStep

\* The model is told what Says says.
LEMMA AgentResultStep ==
    ASSUME IInv, NEW a \in Agent, AgentResult(a)
    PROVE  IInv'
<1>1. /\ \E c \in 1 .. Spawned : told' = IF Says(c) = "result" THEN told \cup {c} ELSE told
      /\ UNCHANGED <<at, mode, depth, tools, child, events, registry>>
  BY DEF AgentResult, treeVars
<1>2. \A c \in told : at[c] = "ended" /\ mode[c] = "background" /\ c \in Children
  BY DEF IInv, Types, ResultFollowsReport
<1>3. ASSUME NEW c, Says(c) = "result"
      PROVE  c \in Children /\ at[c] = "ended" /\ mode[c] = "background"
  <2>1. c \in registry /\ at[c] = "ended"
    BY <1>3 DEF Says
  <2> QED BY <2>1 DEF IInv, Types, Registered
<1>4. told' \subseteq Children /\ \A c \in told' : at'[c] = "ended" /\ mode[c] = "background"
  BY <1>1, <1>2, <1>3
<1> QED BY <1>1, <1>4, StillStep

-----------------------------------------------------------------------------
\* A retry starts its child the way the call did.
LEMMA RetryMode ==
    ASSUME IInv, NEW a \in Agent, Retry(a)
    PROVE  mode[child[a]] \in {"foreground", "background"}
BY Numbers DEF Retry, IInv, Types, Spawning

\* Every step of the specification keeps the invariant.
LEMMA NextInv == IInv /\ [Next]_vars => IInv'
<1> SUFFICES ASSUME IInv, [Next]_vars PROVE IInv'
  OBVIOUS
<1>1. told \subseteq Children /\ \A c \in told : at[c] = "ended" /\ mode[c] = "background"
  BY DEF IInv, Types, ResultFollowsReport
<1>2. ASSUME NEW a \in Agent,
             \/ Spawn(a) \/ Started(a) \/ StartFails(a) \/ EndLoop(a)
             \/ Joined(a) \/ ChildRaises(a) \/ Retry(a)
             \/ TimedOut(a) \/ AgentResult(a) \/ Plan(a)
      PROVE  IInv'
  <2>1. CASE Spawn(a)
    <3>1. /\ at[a] = "thinking" /\ "spawn_agent" \in tools[a]
          /\ \E m \in {"foreground", "background"}, profile \in Profiles : Execute(a, m, profile)
      BY <2>1 DEF Spawn, Call
    <3>2. depth[a] <= 1
      BY <3>1 DEF IInv, Depths
    <3> QED BY <3>1, <3>2, ExecuteStep
  <2>2. CASE Retry(a)
    <3>1. /\ at[a] = "sleeping" /\ mode[child[a]] \in {"foreground", "background"}
          /\ \E profile \in Profiles : Execute(a, mode[child[a]], profile)
      BY <2>2, RetryMode DEF Retry
    <3>2. depth[a] <= 1
      BY <3>1 DEF IInv, Depths
    <3> QED BY <3>1, <3>2, ExecuteStep
  <2>3. CASE Plan(a)
    <3>1. UNCHANGED treeVars /\ told' = told
      BY <2>3 DEF Plan, CreateTask, UpdateTask
    <3> QED BY <1>1, <3>1, StillStep DEF treeVars
  <2> QED BY <1>2, <2>1, <2>2, <2>3, StartedStep, EndLoopStep, JoinedStep, CallRaisesStep,
             TimedOutStep, AgentResultStep
<1>3. ASSUME NEW c \in Children, Report(c) \/ Reported(c) \/ Raise(c)
      PROVE  IInv'
  BY <1>3, ReportStep, ReportedStep, RaiseStep
<1>4. CASE Shutdown
  <2>1. UNCHANGED <<mode, depth, tools, child, events, registry, told>>
    BY <1>4 DEF Shutdown
  <2>2. CASE UNCHANGED at
    BY <1>1, <2>1, <2>2, StillStep
  <2>3. CASE CancelTasks({Root})
    <3>1. {Root} \in SUBSET Agent
      BY Numbers
    <3> QED BY <2>1, <2>3, <3>1, CancelStep
  <2> QED BY <1>4, <2>2, <2>3 DEF Shutdown
<1>5. CASE TearDown
  <2> DEFINE A == {a \in Agent : mode[a] = "background" /\ at[a] \in Active}
  <2>1. /\ CancelTasks(A) /\ UNCHANGED <<mode, depth, tools, child, events, registry, told>>
        /\ A \in SUBSET Agent /\ \A x \in A : at[x] \in Active
    BY <1>5 DEF TearDown
  <2> HIDE DEF A
  <2> QED BY <2>1, CancelStep
<1>6. CASE UNCHANGED vars
  BY <1>1, <1>6, StillStep DEF vars, treeVars
<1> QED BY <1>2, <1>3, <1>4, <1>5, <1>6 DEF Next

\* Whoever gets the result of a child from agent_result gets it after the
\* child's end was published: Report comes before Reported, on which the
\* answer of the registry depends, and cancellation takes no result back.
THEOREM ReportedFirst == Spec => []ResultFollowsReport
<1>1. Init => IInv
  BY InitInv
<1>2. IInv /\ [Next]_vars => IInv'
  BY NextInv
<1>3. IInv => ResultFollowsReport
  BY DEF IInv
<1> QED BY <1>1, <1>2, <1>3, PTL DEF Spec

\* A foreground child that runs is inside exactly one call of the loop above
\* it: what runs in the task of an agent is at most two calls deep, and
\* cancellation and timeouts reach all of it.
THEOREM NoChildAlone == Spec => []NoOrphan
<1>1. Init => IInv
  BY InitInv
<1>2. IInv /\ [Next]_vars => IInv'
  BY NextInv
<1>3. IInv => NoOrphan
  <2> SUFFICES ASSUME IInv, NEW c \in Children, mode[c] = "foreground", at[c] \in Active
               PROVE  Cardinality({a \in Agent : at[a] = "joining" /\ child[a] = c}) = 1
    BY DEF NoOrphan
  <2>1. PICK p \in Agent : at[p] = "joining" /\ child[p] = c
    BY DEF IInv, Accompanied, Awaited
  <2>2. {a \in Agent : at[a] = "joining" /\ child[a] = c} = {p}
    BY <2>1 DEF IInv, OneParent, InCall
  <2>3. Cardinality({p}) = 1
    BY FS_Singleton
  <2> QED BY <2>2, <2>3, Zenon
<1> QED BY <1>1, <1>2, <1>3, PTL DEF Spec

-----------------------------------------------------------------------------
(* The task boards *)

\* A function over 1 .. n is a sequence.
LEMMA IsBoard ==
    ASSUME NEW n \in Nat, NEW f, f \in [1 .. n -> Task]
    PROVE  f \in Seq(Task) /\ Len(f) = n
OBVIOUS

\* A new task is pending and waits for what it was told to.
LEMMA CreateIs ==
    ASSUME NEW b \in Seq(Task), NEW deps \in SUBSET Nat
    PROVE  /\ Create(b, deps) \in Seq(Task)
           /\ DOMAIN b = 1 .. Len(b) /\ Len(b) \in Nat
           /\ DOMAIN Create(b, deps) = 1 .. Len(b) + 1
           /\ \A t \in DOMAIN b : Create(b, deps)[t] = b[t]
           /\ Create(b, deps)[Len(b) + 1].status = "pending"
           /\ Create(b, deps)[Len(b) + 1].blocked_by = deps
<1> DEFINE new == [status |-> "pending", blocked_by |-> deps]
<1>1. new \in Task /\ new.status = "pending" /\ new.blocked_by = deps
  BY DEF Task, Status
<1>2. Create(b, deps) = Append(b, new)
  BY DEF Create
<1> HIDE DEF new
<1>3. /\ Append(b, new) \in Seq(Task) /\ Len(b) \in Nat /\ DOMAIN b = 1 .. Len(b)
      /\ DOMAIN Append(b, new) = 1 .. Len(b) + 1
      /\ \A t \in 1 .. Len(b) : Append(b, new)[t] = b[t]
      /\ Append(b, new)[Len(b) + 1] = new
  BY <1>1
<1> QED BY <1>1, <1>2, <1>3

\* What is cleared are the dependencies on the completed task, and nothing else.
Freed(b, u, id, s) ==
    /\ u \in Seq(Task) /\ DOMAIN u = DOMAIN b
    /\ \A t \in DOMAIN b :
          /\ u[t].status = b[t].status
          /\ u[t].blocked_by =
                 IF s = "completed" THEN b[t].blocked_by \ {id} ELSE b[t].blocked_by

LEMMA ClearedIs ==
    ASSUME NEW b \in Seq(Task), NEW id \in Nat, NEW s \in Status \cup {Keep}
    PROVE  Freed(b, Cleared(b, id, s), id, s)
<1> DEFINE f == ClearDependency(b, id)
<1>1. b \in [1 .. Len(b) -> Task] /\ Len(b) \in Nat /\ DOMAIN b = 1 .. Len(b)
  OBVIOUS
<1>2. \A t \in DOMAIN b : b[t].status \in Status /\ b[t].blocked_by \subseteq Nat
                          /\ b[t] = [status |-> b[t].status, blocked_by |-> b[t].blocked_by]
  BY <1>1 DEF Task
<1>3. /\ f = [t \in DOMAIN b |-> [b[t] EXCEPT !.blocked_by = b[t].blocked_by \ {id}]]
  BY DEF ClearDependency
<1>4. \A t \in DOMAIN b : /\ f[t].status = b[t].status
                          /\ f[t].blocked_by = b[t].blocked_by \ {id}
                          /\ f[t] \in Task
  BY <1>2, <1>3 DEF Task
<1>5. f \in Seq(Task) /\ DOMAIN f = DOMAIN b
  <2>1. f \in [1 .. Len(b) -> Task]
    BY <1>1, <1>3, <1>4
  <2> HIDE DEF f
  <2> QED BY <1>1, <2>1, IsBoard
<1> HIDE DEF f
<1>6. Cleared(b, id, s) = IF s = "completed" THEN f ELSE b
  BY DEF Cleared, f
<1>7. Freed(b, f, id, "completed") /\ (s # "completed" => Freed(b, b, id, s))
  BY <1>4, <1>5 DEF Freed
<1> QED BY <1>6, <1>7

\* The updated task is what it was told to be; the others are what is left
\* of them when its completion is cleared.
Updated(b, u, id, s, add) ==
    /\ u \in Seq(Task) /\ DOMAIN u = DOMAIN b
    /\ u[id].status = IF s = Keep THEN b[id].status ELSE s
    /\ u[id].blocked_by \subseteq b[id].blocked_by \cup add
    /\ \A t \in DOMAIN b \ {id} :
          /\ u[t].status = b[t].status
          /\ u[t].blocked_by =
                 IF s = "completed" THEN b[t].blocked_by \ {id} ELSE b[t].blocked_by

LEMMA UpdateIs ==
    ASSUME NEW b \in Seq(Task), NEW id \in DOMAIN b, NEW s \in Status \cup {Keep},
           NEW add \in SUBSET Nat, NEW remove \in SUBSET Nat
    PROVE  Updated(b, Update(b, id, s, add, remove), id, s, add)
<1> DEFINE task == [status     |-> IF s = Keep THEN b[id].status ELSE s,
                    blocked_by |-> (b[id].blocked_by \cup add) \ remove]
<1> DEFINE f == Cleared(b, id, s)
<1>1. id \in Nat /\ b[id] \in Task /\ DOMAIN b = 1 .. Len(b) /\ Len(b) \in Nat
  OBVIOUS
<1>2. task \in Task
  BY <1>1 DEF Task, Keep, Status
<1>3. /\ task.status = IF s = Keep THEN b[id].status ELSE s
      /\ task.blocked_by \subseteq b[id].blocked_by \cup add
  OBVIOUS
<1>4. Update(b, id, s, add, remove) = [f EXCEPT ![id] = task]
  BY DEF Update
<1> HIDE DEF task
<1>5. Freed(b, f, id, s)
  BY <1>1, ClearedIs
<1> HIDE DEF f
<1>6. f \in Seq(Task) /\ DOMAIN f = DOMAIN b /\ Len(f) = Len(b)
  BY <1>1, <1>5 DEF Freed
<1>7. /\ [f EXCEPT ![id] = task] \in Seq(Task)
      /\ DOMAIN [f EXCEPT ![id] = task] = DOMAIN b
      /\ \A t \in DOMAIN b : [f EXCEPT ![id] = task][t] = IF t = id THEN task ELSE f[t]
  BY <1>1, <1>2, <1>6, ExceptSeq
<1> QED BY <1>3, <1>4, <1>5, <1>7 DEF Updated, Freed

Boards ==
    /\ board \in [Agent -> Seq(Task)]
    /\ late \in [Agent -> SUBSET (Nat \X Nat)]
    /\ NoStaleBlock

\* On one board with its late dependencies.
Unblocked(b, l) ==
    \A id \in DOMAIN b : \A d \in b[id].blocked_by \cap DOMAIN b :
        (d # id /\ b[d].status = "completed") => <<id, d>> \in l

\* A new task waits knowingly for what is completed; nobody is told to wait
\* for it yet, or it is not completed.
LEMMA CreateBoard ==
    ASSUME NEW b \in Seq(Task), NEW l \in SUBSET (Nat \X Nat), Unblocked(b, l),
           NEW deps \in SUBSET Nat, CanCreate(b, deps)
    PROVE  LET k == l \cup {<<Len(b) + 1, d>> : d \in {x \in deps : b[x].status = "completed"}}
           IN  k \in SUBSET (Nat \X Nat) /\ Unblocked(Create(b, deps), k)
<1> DEFINE c == Create(b, deps)
<1> DEFINE n == Len(b) + 1
<1> DEFINE more == {<<n, d>> : d \in {x \in deps : b[x].status = "completed"}}
<1>1. /\ c \in Seq(Task) /\ DOMAIN b = 1 .. Len(b) /\ Len(b) \in Nat
      /\ DOMAIN c = 1 .. n /\ (\A t \in DOMAIN b : c[t] = b[t])
      /\ c[n].status = "pending" /\ c[n].blocked_by = deps
  BY CreateIs
<1>2. n \in Nat /\ deps \subseteq DOMAIN b
  BY <1>1 DEF CanCreate
<1> HIDE DEF c
<1>3. more \in SUBSET (Nat \X Nat)
  BY <1>2
<1>4. ASSUME NEW id \in DOMAIN c, NEW d \in c[id].blocked_by \cap DOMAIN c,
             d # id, c[d].status = "completed"
      PROVE  <<id, d>> \in l \cup more
  <2>1. d # n /\ d \in DOMAIN b /\ b[d].status = "completed"
    BY <1>1, <1>4
  <2>2. CASE id = n
    <3>1. d \in deps
      BY <1>1, <1>4, <2>2
    <3> QED BY <2>1, <2>2, <3>1
  <2>3. CASE id # n
    <3>1. id \in DOMAIN b /\ d \in b[id].blocked_by
      BY <1>1, <1>4, <2>3
    <3> QED BY <1>4, <2>1, <3>1 DEF Unblocked
  <2> QED BY <2>2, <2>3
<1>5. Unblocked(c, l \cup more)
  BY <1>4 DEF Unblocked
<1> HIDE DEF more
<1> QED BY <1>3, <1>5 DEF c, more

\* The late dependencies of a board after an update.
LateThen(b, l, id, s, add) ==
    {p \in l : s # "completed" \/ p[2] # id}
    \cup {<<id, d>> : d \in {x \in add \cap DOMAIN b : b[x].status = "completed"}}

\* Completing a task clears it from what the others wait for; changing one
\* adds what it waits for knowingly.
LEMMA UpdateBoard ==
    ASSUME NEW b \in Seq(Task), NEW l \in SUBSET (Nat \X Nat), Unblocked(b, l),
           NEW id \in DOMAIN b, NEW s \in Status \cup {Keep},
           NEW add \in SUBSET Nat, NEW remove \in SUBSET Nat
    PROVE  /\ LateThen(b, l, id, s, add) \in SUBSET (Nat \X Nat)
           /\ Unblocked(Update(b, id, s, add, remove), LateThen(b, l, id, s, add))
<1> DEFINE u == Update(b, id, s, add, remove)
<1> DEFINE kept == {p \in l : s # "completed" \/ p[2] # id}
<1> DEFINE more == {<<id, d>> : d \in {x \in add \cap DOMAIN b : b[x].status = "completed"}}
<1>1. Updated(b, u, id, s, add)
  BY UpdateIs
<1> HIDE DEF u
<1>2. DOMAIN b \subseteq Nat
  OBVIOUS
<1>3. kept \in SUBSET (Nat \X Nat) /\ more \in SUBSET (Nat \X Nat)
  BY <1>2
<1>4. ASSUME NEW t \in DOMAIN u, NEW d \in u[t].blocked_by \cap DOMAIN u,
             d # t, u[d].status = "completed"
      PROVE  <<t, d>> \in kept \cup more
  <2>1. CASE t = id
    <3>1. d \in DOMAIN b /\ d # id /\ b[d].status = "completed"
      BY <1>1, <1>4, <2>1 DEF Updated
    <3>2. CASE d \in add
      BY <2>1, <3>1, <3>2
    <3>3. CASE d \in b[id].blocked_by
      <4>1. <<id, d>> \in l
        BY <3>1, <3>3 DEF Unblocked
      <4> QED BY <2>1, <3>1, <4>1
    <3> QED BY <1>1, <1>4, <2>1, <3>2, <3>3 DEF Updated
  <2>2. CASE t # id
    <3>1. t \in DOMAIN b /\ d \in DOMAIN b /\ d \in b[t].blocked_by
      BY <1>1, <1>4, <2>2 DEF Updated
    <3>2. s = "completed" => d # id
      BY <1>1, <1>4, <2>2 DEF Updated
    <3>3. b[d].status = "completed"
      BY <1>1, <1>4, <3>1, <3>2 DEF Keep, Updated
    <3>4. <<t, d>> \in l
      BY <1>4, <3>1, <3>3 DEF Unblocked
    <3> QED BY <3>2, <3>4
  <2> QED BY <2>1, <2>2
<1>5. Unblocked(u, kept \cup more)
  BY <1>4 DEF Unblocked
<1> HIDE DEF kept, more
<1> QED BY <1>3, <1>5 DEF u, kept, more, LateThen

LEMMA BoardsUnblocked ==
    NoStaleBlock <=> \A a \in Agent : Unblocked(board[a], late[a])
BY DEF NoStaleBlock, Unblocked

\* One board changes with its late dependencies.
LEMMA OneBoard ==
    ASSUME Boards, NEW a \in Agent, NEW b \in Seq(Task), NEW l \in SUBSET (Nat \X Nat),
           Unblocked(b, l), board' = [board EXCEPT ![a] = b], late' = [late EXCEPT ![a] = l]
    PROVE  Boards'
<1>1. board' \in [Agent -> Seq(Task)] /\ late' \in [Agent -> SUBSET (Nat \X Nat)]
  BY DEF Boards
<1>2. /\ board'[a] = b /\ late'[a] = l
      /\ \A x \in Agent \ {a} : board'[x] = board[x] /\ late'[x] = late[x]
  BY DEF Boards
<1>3. \A x \in Agent : Unblocked(board[x], late[x])
  BY BoardsUnblocked DEF Boards
<1>4. \A x \in Agent : Unblocked(board'[x], late'[x])
  <2>1. ASSUME NEW x \in Agent PROVE Unblocked(board'[x], late'[x])
    <3>1. CASE x = a
      BY <1>2, <3>1
    <3>2. CASE x # a
      <4>1. board'[x] = board[x] /\ late'[x] = late[x]
        BY <1>2, <3>2
      <4> QED BY <1>3, <4>1
    <3> QED BY <3>1, <3>2
  <2> QED BY <2>1
<1>5. NoStaleBlock'
  BY <1>4 DEF NoStaleBlock, Unblocked
<1> QED BY <1>1, <1>5 DEF Boards

LEMMA PlanBoards ==
    ASSUME Boards, NEW a \in Agent, Plan(a)
    PROVE  Boards'
<1>1. /\ board[a] \in Seq(Task) /\ late[a] \in SUBSET (Nat \X Nat)
      /\ Unblocked(board[a], late[a])
  BY BoardsUnblocked DEF Boards
<1> DEFINE Named == {{}} \cup {{d} : d \in Dependency}
<1>2. Named \subseteq SUBSET Nat /\ {} \in SUBSET Nat
  BY SubagentAssumption
<1>3. ASSUME NEW deps \in SUBSET Nat, CreateTask(a, deps) PROVE Boards'
  <2> DEFINE k == late[a] \cup {<<Len(board[a]) + 1, d>> :
                                  d \in {x \in deps : board[a][x].status = "completed"}}
  <2>1. /\ CanCreate(board[a], deps)
        /\ board' = [board EXCEPT ![a] = Create(board[a], deps)]
        /\ late' = [late EXCEPT ![a] = k]
    BY <1>3 DEF CreateTask
  <2>2. k \in SUBSET (Nat \X Nat) /\ Unblocked(Create(board[a], deps), k)
    BY <1>1, <2>1, CreateBoard
  <2>3. Create(board[a], deps) \in Seq(Task)
    BY <1>1, CreateIs
  <2> HIDE DEF k
  <2> QED BY <2>1, <2>2, <2>3, OneBoard
<1>4. ASSUME NEW id \in DOMAIN board[a], NEW s \in Status \cup {Keep},
             NEW add \in SUBSET Nat, NEW remove \in SUBSET Nat,
             UpdateTask(a, id, s, add, remove)
      PROVE  Boards'
  <2> DEFINE k == LateThen(board[a], late[a], id, s, add)
  <2> DEFINE u == Update(board[a], id, s, add, remove)
  <2>1. board' = [board EXCEPT ![a] = u] /\ late' = [late EXCEPT ![a] = k]
    BY <1>4 DEF UpdateTask, LateThen
  <2>2. k \in SUBSET (Nat \X Nat) /\ Unblocked(u, k)
    BY <1>1, UpdateBoard
  <2>3. u \in Seq(Task)
    <3>1. Updated(board[a], u, id, s, add)
      BY <1>1, UpdateIs
    <3> QED BY <3>1 DEF Updated
  <2> HIDE DEF k, u
  <2> QED BY <2>1, <2>2, <2>3, OneBoard
<1>5. \/ \E deps \in Named : CreateTask(a, deps)
      \/ \E id \in DOMAIN board[a], s \in Status \cup {Keep}, d \in Named :
             UpdateTask(a, id, s, d, {}) \/ UpdateTask(a, id, s, {}, d)
  BY DEF Plan
<1> HIDE DEF Named
<1> QED BY <1>2, <1>3, <1>4, <1>5

LEMMA InitBoards == Init => Boards
<1> SUFFICES ASSUME Init PROVE Boards
  OBVIOUS
<1>1. /\ board = [a \in Agent |-> EmptyBoard] /\ late = [a \in Agent |-> {}]
      /\ EmptyBoard \in Seq(Task) /\ DOMAIN EmptyBoard = {}
  BY DEF Init, EmptyBoard
<1> QED BY <1>1 DEF Boards, NoStaleBlock

LEMMA NextBoards == Boards /\ [Next]_vars => Boards'
<1> SUFFICES ASSUME Boards, [Next]_vars PROVE Boards'
  OBVIOUS
<1>1. CASE UNCHANGED <<board, late>>
  BY <1>1 DEF Boards, NoStaleBlock
<1>2. ASSUME NEW a \in Agent, Plan(a) PROVE Boards'
  BY <1>2, PlanBoards
<1>3. (\E a \in Agent : Plan(a)) \/ UNCHANGED <<board, late>>
  BY DEF Next, Spawn, Retry, Execute, Started, StartFails, EndLoop, Joined, ChildRaises,
         TimedOut, AgentResult, Report, Reported, Raise, Shutdown, TearDown, vars
<1> QED BY <1>1, <1>2, <1>3

\* A task waits for a completed one only if it was told to afterwards, or
\* for itself: TaskManager._clear_dependency goes through all the files of
\* the board, and task_create and task_update are steps of their own.
THEOREM CompletionUnblocks == Spec => []NoStaleBlock
<1>1. Boards => NoStaleBlock
  BY DEF Boards
<1> QED BY <1>1, InitBoards, NextBoards, PTL DEF Spec

-----------------------------------------------------------------------------
(* The type invariant *)

\* The executions of a call are counted from its start, and it is tried
\* again only while they are few enough.
Tries ==
    /\ attempt \in [Agent -> 0 .. MaxRetries + 1]
    /\ \A a \in Agent :
          /\ at[a] \in {"thinking", "unborn"} => attempt[a] = 0
          /\ at[a] = "sleeping" => attempt[a] <= MaxRetries

Reports == {<<>>, <<"started">>, <<"started", "finished">>}

Rest ==
    /\ status \in [Agent -> {"running", "success", "failed"}]
    /\ \A a \in Agent : depth[a] <= 2
    /\ \A a \in Agent : events[a] \in Reports
    /\ calls \in [Agent -> Nat]
    /\ daemon \in {"up", "stopping", "down"}

\* Steps that begin no loop and no back-off, and leave the counters alone.
LEMMA TriesStay ==
    ASSUME Tries, UNCHANGED attempt,
           \A a \in Agent : at'[a] = at[a] \/ at'[a] \notin {"thinking", "unborn", "sleeping"}
    PROVE  Tries'
BY DEF Tries

LEMMA ExecuteTypes ==
    ASSUME IInv, Tries, Rest, NEW a \in Agent, at[a] \in {"thinking", "sleeping"},
           NEW m, NEW profile, depth[a] <= 1, Execute(a, m, profile)
    PROVE  /\ Tries' /\ status' = status /\ daemon' = daemon
           /\ \A x \in Agent : depth'[x] <= 2 /\ events'[x] \in Reports
<1> DEFINE c == Spawned + 1
<1>1. c \in Children /\ c \in Agent /\ MaxRetries \in Nat
  BY Numbers, SubagentAssumption DEF Execute
<1>2. events[c] = <<>> /\ at[c] = "unborn"
  BY <1>1, Fresh
<1>3. /\ events' = [events EXCEPT ![c] = Append(events[c], "started")]
      /\ at' = [at EXCEPT ![a] = "spawning"]
      /\ depth' = [depth EXCEPT ![c] = depth[a] + 1]
      /\ attempt' = [attempt EXCEPT ![a] = attempt[a] + 1]
      /\ status' = status /\ daemon' = daemon
  BY DEF Execute, GoTo
<1> HIDE DEF c
<1>4. attempt[a] \in 0 .. MaxRetries
  BY <1>1 DEF Tries
<1>5. Tries'
  <2>1. attempt' \in [Agent -> 0 .. MaxRetries + 1]
    BY <1>1, <1>3, <1>4 DEF Tries
  <2>2. at'[a] = "spawning" /\ \A x \in Agent \ {a} : at'[x] = at[x] /\ attempt'[x] = attempt[x]
    BY <1>3 DEF Tries, IInv, Types
  <2> QED BY <2>1, <2>2 DEF Tries
<1>6. \A x \in Agent : depth'[x] <= 2
  BY <1>1, <1>3 DEF Rest, IInv, Types
<1>7. \A x \in Agent : events'[x] \in Reports
  <2>1. Append(events[c], "started") = <<"started">>
    BY <1>2
  <2> QED BY <1>1, <1>3, <2>1 DEF Rest, Reports, IInv, Types
<1> QED BY <1>3, <1>5, <1>6, <1>7

\* The start of a child's loop, and the end of a call.
LEMMA StartedTries ==
    ASSUME IInv, Tries, NEW a \in Agent, Started(a)
    PROVE  Tries'
<1> DEFINE c == child[a]
<1>1. /\ at[a] = "spawning" /\ c \in Agent /\ at[c] = "unborn" /\ c # a
      /\ 0 \in 0 .. MaxRetries + 1
  BY Numbers, SubagentAssumption DEF Started, IInv, Spawning, InCall
<1>2. attempt[c] = 0
  BY <1>1 DEF Tries
<1> HIDE DEF c
<1>3. CASE /\ at' = [at EXCEPT ![a] = "thinking", ![c] = "thinking"]
           /\ attempt' = [attempt EXCEPT ![a] = 0]
  BY <1>1, <1>2, <1>3 DEF Tries, IInv, Types
<1>4. CASE /\ at' = [at EXCEPT ![a] = "joining", ![c] = "thinking"]
           /\ UNCHANGED attempt
  BY <1>1, <1>2, <1>4 DEF Tries, IInv, Types
<1> QED BY <1>3, <1>4 DEF Started, Return, c

LEMMA CallEndTries ==
    ASSUME IInv, Tries, NEW a \in Agent, Joined(a) \/ StartFails(a) \/ ChildRaises(a)
    PROVE  Tries'
<1> DEFINE c == child[a]
<1>1. InCall(a) /\ c \in Agent /\ c # a /\ 0 \in 0 .. MaxRetries + 1
  BY Numbers, SubagentAssumption DEF Joined, StartFails, ChildRaises, IInv, Spawning, InCall
<1> HIDE DEF c
<1>2. ASSUME NEW z \in {"ended", "raised"}, attempt[a] <= MaxRetries, UNCHANGED attempt,
             at' = [at EXCEPT ![a] = "sleeping", ![c] = z]
      PROVE  Tries'
  BY <1>1, <1>2 DEF Tries, IInv, Types
<1>3. ASSUME NEW z \in {"ended", "raised"}, attempt' = [attempt EXCEPT ![a] = 0],
             at' = [at EXCEPT ![a] = "thinking", ![c] = z]
      PROVE  Tries'
  BY <1>1, <1>3 DEF Tries, IInv, Types
<1> QED BY <1>2, <1>3 DEF Joined, StartFails, ChildRaises, CallFails, Return, c

LEMMA TimedOutTries ==
    ASSUME IInv, Tries, NEW a \in Agent, TimedOut(a)
    PROVE  Tries'
<1>1. /\ attempt' = [attempt EXCEPT ![a] = 0]
      /\ \A x \in Agent \ {a} : at'[x] = at[x] \/ at'[x] = "cancelled"
      /\ 0 \in 0 .. MaxRetries + 1
  <2> DEFINE X == TaskOf(Inside(a))
  <2>1. /\ attempt' = [attempt EXCEPT ![a] = 0]
        /\ at' = [x \in Agent |-> CASE x = a -> "thinking"
                                     [] x \in X -> "cancelled"
                                     [] OTHER -> at[x]]
    BY DEF TimedOut, Return
  <2> HIDE DEF X
  <2>2. \A x \in Agent \ {a} : at'[x] = at[x] \/ at'[x] = "cancelled"
    BY <2>1
  <2> QED BY <2>1, <2>2, SubagentAssumption
<1>2. /\ attempt' \in [Agent -> 0 .. MaxRetries + 1] /\ attempt'[a] = 0
      /\ \A x \in Agent \ {a} : attempt'[x] = attempt[x]
  BY <1>1 DEF Tries
<1>3. 0 <= MaxRetries
  BY SubagentAssumption
<1> QED BY <1>1, <1>2, <1>3 DEF Tries

TInv == IInv /\ Tries /\ Rest /\ Boards

\* What an agent's own step does to its counters.
LEMMA AgentTries ==
    ASSUME IInv, Tries, Rest, NEW a \in Agent,
           \/ Spawn(a) \/ Started(a) \/ StartFails(a) \/ EndLoop(a)
           \/ Joined(a) \/ ChildRaises(a) \/ Retry(a)
           \/ TimedOut(a) \/ AgentResult(a) \/ Plan(a)
    PROVE  Tries'
<1>1. CASE Spawn(a) \/ Retry(a)
  <2>1. /\ at[a] \in {"thinking", "sleeping"}
        /\ \E m \in {"foreground", "background"}, profile \in Profiles : Execute(a, m, profile)
    BY <1>1, RetryMode DEF Spawn, Call, Retry
  <2>2. depth[a] <= 1
    BY <1>1 DEF Spawn, Call, Retry, IInv, Depths
  <2> QED BY <2>1, <2>2, ExecuteTypes
<1>2. CASE EndLoop(a)
  <2>1. UNCHANGED attempt /\ at' = [at EXCEPT ![a] = IF a = Root THEN "ended" ELSE "looped"]
    BY <1>2 DEF EndLoop, GoTo
  <2> QED BY <2>1, TriesStay DEF IInv, Types
<1>3. CASE AgentResult(a) \/ Plan(a)
  <2>1. UNCHANGED <<at, attempt>>
    BY <1>3 DEF AgentResult, Plan, CreateTask, UpdateTask, treeVars
  <2> QED BY <2>1, TriesStay
<1> QED BY <1>1, <1>2, <1>3, StartedTries, CallEndTries, TimedOutTries

LEMMA AgentRest ==
    ASSUME IInv, Tries, Rest, NEW a \in Agent,
           \/ Spawn(a) \/ Started(a) \/ StartFails(a) \/ EndLoop(a)
           \/ Joined(a) \/ ChildRaises(a) \/ Retry(a)
           \/ TimedOut(a) \/ AgentResult(a) \/ Plan(a)
    PROVE  Rest'
<1>1. calls' \in [Agent -> Nat]
  <2>1. calls' = calls \/ calls' = [calls EXCEPT ![a] = calls[a] + 1]
    BY DEF Spawn, Started, StartFails, EndLoop, Joined, ChildRaises, Retry, TimedOut,
           AgentResult, Plan, CreateTask, UpdateTask, Call
  <2> QED BY <2>1 DEF Rest
<1>2. CASE Spawn(a) \/ Retry(a)
  <2>1. /\ at[a] \in {"thinking", "sleeping"}
        /\ \E m \in {"foreground", "background"}, profile \in Profiles : Execute(a, m, profile)
    BY <1>2, RetryMode DEF Spawn, Call, Retry
  <2>2. depth[a] <= 1
    BY <1>2 DEF Spawn, Call, Retry, IInv, Depths
  <2>3. /\ status' = status /\ daemon' = daemon
        /\ \A x \in Agent : depth'[x] <= 2 /\ events'[x] \in Reports
    BY <2>1, <2>2, ExecuteTypes
  <2> QED BY <1>1, <2>3 DEF Rest
<1>3. CASE EndLoop(a)
  <2>1. /\ UNCHANGED <<depth, events, daemon>>
        /\ status' = status \/ \E s \in {"success", "failed"} : status' = [status EXCEPT ![a] = s]
    BY <1>3 DEF EndLoop
  <2>2. status' \in [Agent -> {"running", "success", "failed"}]
    BY <2>1 DEF Rest
  <2> QED BY <1>1, <2>1, <2>2 DEF Rest
<1>4. CASE \/ Started(a) \/ StartFails(a) \/ Joined(a) \/ ChildRaises(a) \/ TimedOut(a)
           \/ AgentResult(a) \/ Plan(a)
  <2>1. UNCHANGED <<status, depth, events, daemon>>
    BY <1>4 DEF Started, StartFails, Joined, ChildRaises, TimedOut, AgentResult, Plan, CreateTask, UpdateTask, treeVars
  <2> QED BY <1>1, <2>1 DEF Rest
<1> QED BY <1>2, <1>3, <1>4

\* A child's end is reported once.
LEMMA ChildTypes ==
    ASSUME IInv, Tries, Rest, NEW c \in Children, Report(c) \/ Reported(c) \/ Raise(c)
    PROVE  Tries' /\ Rest'
<1>1. c \in Agent
  BY Numbers
<1>2. UNCHANGED <<attempt, status, depth, calls, daemon>>
  BY DEF Report, Reported, Raise
<1>3. \E s \in {"reporting", "ended", "raised"} : at' = [at EXCEPT ![c] = s]
  BY DEF Report, Reported, Raise, GoTo
<1>4. Tries'
  BY <1>1, <1>2, <1>3, TriesStay DEF IInv, Types
<1>5. \A x \in Agent : events'[x] \in Reports
  <2>1. CASE Report(c)
    <3>1. /\ events' = [events EXCEPT ![c] = Append(events[c], "finished")]
          /\ events[c] = <<"started">>
      BY <2>1 DEF Report, IInv, Phases, Active, Over, At
    <3>2. Append(events[c], "finished") = <<"started", "finished">>
      BY <3>1, AppendFinished
    <3> QED BY <1>1, <3>1, <3>2 DEF Rest, Reports, IInv, Types
  <2>2. CASE Reported(c) \/ Raise(c)
    BY <2>2 DEF Reported, Raise, Rest
  <2> QED BY <2>1, <2>2
<1> QED BY <1>2, <1>4, <1>5 DEF Rest

LEMMA NextTypes == TInv /\ [Next]_vars => Tries' /\ Rest'
<1> SUFFICES ASSUME TInv, [Next]_vars PROVE Tries' /\ Rest'
  OBVIOUS
<1>1. IInv /\ Tries /\ Rest
  BY DEF TInv
<1>2. CASE Shutdown \/ TearDown
  <2>1. /\ UNCHANGED <<attempt, status, depth, calls, events>>
        /\ daemon' \in {"up", "stopping", "down"}
    BY <1>2 DEF Shutdown, TearDown
  <2>2. \A a \in Agent : at'[a] = at[a] \/ at'[a] = "cancelled"
    BY <1>2 DEF Shutdown, TearDown, CancelTasks
  <2>3. Tries'
    BY <1>1, <2>1, <2>2, TriesStay
  <2> QED BY <1>1, <2>1, <2>3 DEF Rest
<1>3. CASE UNCHANGED vars
  BY <1>1, <1>3, TriesStay DEF vars, treeVars, Rest
<1> QED BY <1>1, <1>2, <1>3, AgentTries, AgentRest, ChildTypes DEF Next

\* The tree of agents keeps the shape the code gives it: two levels below
\* the root, so many executions of a call as invoke_tool allows, and the
\* two events of a child in their order.
THEOREM TreeType == Spec => []TypeOK
<1>1. Init => TInv
  <2> SUFFICES ASSUME Init PROVE TInv
    OBVIOUS
  <2>1. Tries /\ Rest
    BY SubagentAssumption DEF Init, Tries, Rest, Reports
  <2> QED BY <2>1, InitInv, InitBoards DEF TInv
<1>2. TInv /\ [Next]_vars => TInv'
  BY NextInv, NextTypes, NextBoards DEF TInv
<1>3. TInv => TypeOK
  <2> SUFFICES ASSUME TInv PROVE TypeOK
    OBVIOUS
  <2>1. IInv /\ Tries /\ Rest /\ Boards
    BY DEF TInv
  <2>2. depth \in [Agent -> 0 .. 2]
    BY <2>1 DEF IInv, Types, Rest
  <2>3. events \in [Agent -> Reports]
    BY <2>1 DEF IInv, Types, Rest
  <2> QED BY <2>1, <2>2, <2>3 DEF TypeOK, IInv, Types, Tries, Rest, Boards, Reports
<1> QED BY <1>1, <1>2, <1>3, PTL DEF Spec
=============================================================================
