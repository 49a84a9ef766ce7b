---------------------------- MODULE ServerProofs ----------------------------
(***************************************************************************)
(* A data node serves nothing before it is ready and leaves nothing behind *)
(* a clean exit, for any number of requests, any failures and any order in *)
(* which tasks end.                                                        *)
(*                                                                         *)
(* The inductive invariant ties a live request to a listener that runs,    *)
(* the drain's position to the tasks it has seen end, and what is left in  *)
(* the buffer after the final flush to the writes acknowledged after it    *)
(* and to what one pass leaves: behind a reservation or a kept intent, in  *)
(* a blocked table, or after a failure.                                    *)
(*                                                                         *)
(* TableNames: FreshLists and OneRefresh, for any number of clients.  What *)
(* has to be known besides: a listing under way is not older than          *)
(* ListingTime, and so was the kept list when it was stored.               *)
(*                                                                         *)
(* Connections: permits, idle deadlines and bodies, for any number of      *)
(* clients and any limits and timeouts.  All but Accept, Drop and the      *)
(* passing of time change one connection that stays with its listener, so  *)
(* one lemma covers them.                                                  *)
(***************************************************************************)
EXTENDS Server, TableNames, Connections, FiniteSetTheorems, TLAPS

Serving == {"rest", "flight"}
TaskNames == Serving \cup {"flush", "maintenance", "executor", "scheduler"}

ReqRec == [pc: {"unborn", "handling", "appending", "streaming", "gone"}, via: Serving,
           scope: {"read", "write"}, gen: Nat]

\* The buffer: generations are numbers, and a kept intent has batches.
TableTypes ==
  /\ generation \in Nat /\ held \subseteq Nat /\ buffered \subseteq Nat
  /\ flushState \in {"idle", "prepared", "blocked"} /\ (flushState # "idle" => flight # {})

Types ==
  /\ req \in [Requests -> ReqRec] /\ stage \in 0 .. 13 /\ awaiting \in 0 .. 7
  /\ draining \in BOOLEAN /\ lease \in BOOLEAN
  /\ task \in [TaskNames -> {"off", "on", "done"}]
  /\ role \in {"starting", "ready", "draining", "stopped", "failed"}
  /\ exit \in {"none", "clean", "forced", "failed"}
  /\ TableTypes

\* How far the node has come, by its stage, its role and its drain.
DrainProgress ==
  /\ stage = 13 => role # "starting" /\ task["flush"] # "off"
  /\ 9 <= stage => task["flush"] # "off"
  /\ \A t \in Serving : task[t] # "off" => stage = 13
  /\ draining => stage = 13
  /\ awaiting # 0 => draining
  /\ exit = "none" => role = (IF awaiting # 0 THEN "draining" ELSE IF stage = 13 THEN "ready" ELSE "starting")

\* The drain has seen the tasks before its place end.
Drained == \A i \in 1 .. 6 : i < awaiting => task[Tasks[i]] # "on"

\* A request in a handler or a body has a listener behind it.
Served ==
  \A r \in Requests : /\ req[r].pc # "unborn" => stage = 13
                      /\ InFlight(r) => task[req[r].via] = "on"

\* After the final flush, only what one pass leaves or what came later is left.
Left == \A g \in buffered : g \in late \/ PassedOver(g)
Flushed == task["flush"] = "done" => Left

\* A clean exit comes from the end of the drain.
Exited == exit = "clean" => awaiting = 7 /\ role = "stopped" /\ ~lease

Inductive == Types /\ DrainProgress /\ Drained /\ Served /\ Flushed /\ Exited

-----------------------------------------------------------------------------

LEMMA Lists ==
  /\ Len(Stages) = 13 /\ Len(Tasks) = 6
  /\ \A i \in 1 .. 13 : /\ Stages[i] = "listeners" <=> i = 13
                        /\ Stages[i] = "flush" <=> i = 9
  /\ TaskNames = {Tasks[i] : i \in 1 .. 6}
<1>1. Len(Stages) = 13 /\ Len(Tasks) = 6
  BY DEF Stages, Tasks
<1>2. \A i \in 1 .. 13 : /\ Stages[i] = "listeners" <=> i = 13
                         /\ Stages[i] = "flush" <=> i = 9
  BY DEF Stages
<1>3. /\ Tasks[1] = "rest" /\ Tasks[2] = "flight" /\ Tasks[3] = "flush" /\ Tasks[4] = "maintenance"
      /\ Tasks[5] = "executor" /\ Tasks[6] = "scheduler"
  BY DEF Tasks
<1>4. 1 .. 6 = {1, 2, 3, 4, 5, 6}
  OBVIOUS
<1>5. TaskNames = {Tasks[i] : i \in {1, 2, 3, 4, 5, 6}}
  BY <1>3 DEF TaskNames, Serving
<1> QED BY Zenon, <1>1, <1>2, <1>4, <1>5

\* A request's step that leaves the node alone.
LEMMA RequestKept ==
  ASSUME Inductive, UNCHANGED nodeVars, NEW r \in Requests, NEW q \in ReqRec,
         req' = [req EXCEPT ![r] = q],
         q.pc # "unborn" => stage = 13,
         q.pc \in {"handling", "appending", "streaming"} => task[q.via] = "on",
         TableTypes', Flushed'
  PROVE  Inductive'
<1>1. /\ req' \in [Requests -> ReqRec] /\ req'[r] = q
      /\ \A m \in Requests : m # r => req'[m] = req[m]
  BY Zenon DEF Inductive, Types
<1>2. Served'
  BY Zenon, <1>1 DEF Inductive, Served, InFlight, nodeVars
<1>3. Types' /\ DrainProgress' /\ Drained' /\ Exited'
  BY Zenon, <1>1 DEF Inductive, Types, DrainProgress, Drained, Exited, nodeVars
<1> QED BY Zenon, <1>2, <1>3 DEF Inductive

LEMMA TableKept ==
  ASSUME Inductive, UNCHANGED tableVars
  PROVE  TableTypes' /\ (task' = task => Flushed')
<1>1. TableTypes'
  BY Zenon DEF Inductive, Types, TableTypes, tableVars
<1>2. Left' <=> Left
  BY Zenon DEF Left, PassedOver, tableVars
<1> QED BY Zenon, <1>1, <1>2 DEF Inductive, Flushed

LEMMA AcceptRequestStep ==
  ASSUME Inductive, NEW r \in Requests, NEW via \in Serving, NEW scope \in {"read", "write"},
         AcceptRequest(r, via, scope)
  PROVE  Inductive'
<1> DEFINE q == [pc |-> "handling", via |-> via, scope |-> scope, gen |-> 0]
<1>1. q \in ReqRec /\ q.pc = "handling" /\ q.via = via
  BY DEF ReqRec
<1>2. /\ task[via] = "on" /\ req' = [req EXCEPT ![r] = q] /\ task' = task
      /\ UNCHANGED nodeVars /\ UNCHANGED tableVars
  BY Zenon DEF AcceptRequest, nodeVars
<1>3. stage = 13
  BY <1>2 DEF Inductive, DrainProgress
<1> HIDE DEF q
<1> QED BY Zenon, <1>1, <1>2, <1>3, TableKept, RequestKept

LEMMA LeaveStep ==
  ASSUME Inductive, NEW r \in Requests, Leave(r)
  PROVE  Inductive'
<1> DEFINE q == [Unborn EXCEPT !.pc = "gone"]
<1>1. q \in ReqRec /\ q.pc = "gone"
  BY DEF ReqRec, Unborn, Serving
<1>2. /\ InFlight(r) /\ req' = [req EXCEPT ![r] = q] /\ task' = task
      /\ UNCHANGED nodeVars /\ UNCHANGED tableVars
  BY Zenon DEF Leave, nodeVars
<1>3. stage = 13 /\ q.pc \notin {"handling", "appending", "streaming"}
  BY <1>1, <1>2 DEF Inductive, Served, InFlight
<1> HIDE DEF q
<1> QED BY Zenon, <1>1, <1>2, <1>3, TableKept, RequestKept

LEMMA ReserveStep ==
  ASSUME Inductive, NEW r \in Requests, Reserve(r)
  PROVE  Inductive'
<1> DEFINE q == [req[r] EXCEPT !.pc = "appending", !.gen = generation + 1]
<1>1. /\ req[r].pc = "handling" /\ req' = [req EXCEPT ![r] = q] /\ task' = task
      /\ UNCHANGED nodeVars /\ UNCHANGED <<buffered, flight, flushState, late, final>>
  BY Zenon DEF Reserve, nodeVars
<1>2. generation + 1 \in Nat /\ generation' = generation + 1 /\ held' = held \cup {generation + 1}
  BY DEF Inductive, Types, TableTypes, Reserve
<1>3. q \in ReqRec /\ q.pc = "appending" /\ q.via = req[r].via
  <2>1. req[r] \in ReqRec
    BY Zenon DEF Inductive, Types
  <2> QED BY Zenon, <1>2, <2>1 DEF ReqRec
<1>4. task[q.via] = "on" /\ stage = 13
  BY <1>1, <1>3 DEF Inductive, Served, InFlight
<1>5. TableTypes' /\ Flushed'
  <2>1. TableTypes'
    BY Zenon, <1>1, <1>2 DEF Inductive, Types, TableTypes
  <2>2. Left' <=> Left
    BY Zenon, <1>1 DEF Left, PassedOver
  <2> QED BY Zenon, <1>1, <2>1, <2>2 DEF Inductive, Flushed
<1> HIDE DEF q
<1> QED BY Zenon, <1>1, <1>3, <1>4, <1>5, RequestKept

LEMMA HandleStep ==
  ASSUME Inductive, NEW r \in Requests, Handle(r)
  PROVE  Inductive'
<1> DEFINE q == [req[r] EXCEPT !.pc = "streaming"]
<1>1. /\ req[r].pc \in {"handling", "appending"} /\ req' = [req EXCEPT ![r] = q] /\ task' = task
      /\ UNCHANGED nodeVars /\ UNCHANGED <<generation, flight, flushState, final>>
      /\ held' = held \ {req[r].gen}
      /\ \/ UNCHANGED <<buffered, late>>
         \/ /\ buffered' = buffered \cup {req[r].gen}
            /\ late' = IF task["flush"] = "done" THEN late \cup {req[r].gen} ELSE late
  BY DEF Handle, nodeVars
<1>2. q \in ReqRec /\ q.pc = "streaming" /\ q.via = req[r].via /\ req[r].gen \in Nat
  <2>1. req[r] \in ReqRec
    BY Zenon DEF Inductive, Types
  <2> QED BY <2>1 DEF ReqRec
<1>3. task[q.via] = "on" /\ stage = 13
  BY <1>1, <1>2 DEF Inductive, Served, InFlight
<1>4. TableTypes'
  BY Zenon, <1>1, <1>2 DEF Inductive, Types, TableTypes
<1>5. Flushed'
  <2>1. \A g : PassedOver(g)' <=> PassedOver(g)
    BY Zenon, <1>1 DEF PassedOver
  <2>2. task["flush"] = "done" /\ Left => Left'
    BY Zenon, <1>1, <2>1 DEF Left
  <2> QED BY Zenon, <1>1, <2>2 DEF Inductive, Flushed
<1> HIDE DEF q
<1> QED BY Zenon, <1>1, <1>2, <1>3, <1>4, <1>5, RequestKept

\* A task ends: a listener without requests, or any other task.
LEMMA TaskEnds ==
  ASSUME Inductive, NEW t \in TaskNames, task[t] = "on", task' = [task EXCEPT ![t] = "done"],
         UNCHANGED <<req, stage, role, draining, awaiting, exit, lease>>,
         \A r \in Requests : InFlight(r) => req[r].via # t,
         TableTypes', Flushed'
  PROVE  Inductive'
<1>1. /\ task' \in [TaskNames -> {"off", "on", "done"}] /\ task'[t] = "done"
      /\ \A u \in TaskNames : u # t => task'[u] = task[u]
  BY Zenon DEF Inductive, Types
<1>2. /\ \A u \in TaskNames : task'[u] = "off" => task[u] = "off"
      /\ \A u \in TaskNames : task'[u] # "off" => task[u] # "off"
      /\ \A u \in TaskNames : task'[u] = "on" => task[u] = "on"
  BY <1>1
<1>3. Serving \subseteq TaskNames /\ "flush" \in TaskNames /\ \A i \in 1 .. 6 : Tasks[i] \in TaskNames
  <2>1. Serving \subseteq TaskNames /\ "flush" \in TaskNames
    BY DEF TaskNames
  <2> QED BY Zenon, <2>1, Lists
<1>4. Types'
  BY Zenon, <1>1 DEF Inductive, Types
<1>5. DrainProgress'
  BY Zenon, <1>2, <1>3 DEF Inductive, DrainProgress
<1>6. Drained'
  BY Zenon, <1>2, <1>3 DEF Inductive, Drained
<1>7. Served'
  <2>1. ASSUME NEW r \in Requests, InFlight(r)' PROVE task'[req[r].via] = "on"
    <3>1. InFlight(r) /\ req[r].via \in TaskNames
      <4>1. req[r].via \in Serving
        BY DEF Inductive, Types, ReqRec
      <4> QED BY Zenon, <1>3, <2>1, <4>1 DEF InFlight
    <3>2. req[r].via # t /\ task[req[r].via] = "on"
      BY Zenon, <3>1 DEF Inductive, Served
    <3> QED BY Zenon, <1>1, <3>1, <3>2
  <2> QED BY Zenon, <2>1 DEF Inductive, Served, InFlight
<1>8. Exited'
  BY Zenon DEF Inductive, Exited
<1> QED BY Zenon, <1>4, <1>5, <1>6, <1>7, <1>8 DEF Inductive

LEMMA Named ==
  ASSUME Inductive
  PROVE  DOMAIN task = TaskNames /\ \A r \in Requests : req[r].via \in Serving
  BY DEF Inductive, Types, ReqRec

LEMMA FlushedKept ==
  ASSUME Inductive, UNCHANGED tableVars, task'["flush"] = task["flush"]
  PROVE  TableTypes' /\ Flushed'
<1>1. Left' <=> Left
  BY Zenon DEF Left, PassedOver, tableVars
<1> QED BY Zenon, <1>1, TableKept DEF Inductive, Flushed

LEMMA BindFailsStep ==
  ASSUME Inductive, NEW t \in Serving, BindFails(t)
  PROVE  Inductive'
<1>1. t \in TaskNames /\ t # "flush" /\ "flush" \in TaskNames
  BY DEF TaskNames, Serving
<1>2. /\ task[t] = "on" /\ task' = [task EXCEPT ![t] = "done"]
      /\ UNCHANGED <<req, stage, role, draining, awaiting, exit, lease>>
      /\ UNCHANGED tableVars
  BY Zenon DEF BindFails
<1>3. \A r \in Requests : InFlight(r) => req[r].via # t
  BY DEF BindFails, InFlight
<1>4. task'["flush"] = task["flush"]
  BY Zenon, <1>1, <1>2 DEF Inductive, Types
<1> QED BY Zenon, <1>1, <1>2, <1>3, <1>4, FlushedKept, TaskEnds

LEMMA EndTaskStep ==
  ASSUME Inductive, NEW t \in DOMAIN task, EndTask(t)
  PROVE  Inductive'
<1>1. t \in TaskNames /\ "flush" \in TaskNames /\ "flush" \notin Serving
  BY Named DEF TaskNames, Serving
<1>2. /\ task[t] = "on" /\ task' = [task EXCEPT ![t] = "done"] /\ CanEnd(t)
      /\ UNCHANGED <<req, stage, role, draining, awaiting, exit, lease>>
      /\ UNCHANGED tableVars
  BY Zenon DEF EndTask
<1>3. t # "flush" /\ \A r \in Requests : InFlight(r) => req[r].via # t
  <2>1. CASE t \in Serving
    BY Zenon, <1>1, <1>2, <2>1 DEF CanEnd, LiveVia, Serving
  <2>2. CASE t \notin Serving
    BY Zenon, <1>2, <2>2, Named DEF CanEnd, Serving
  <2> QED BY Zenon, <2>1, <2>2
<1>4. task'["flush"] = task["flush"]
  BY Zenon, <1>1, <1>2, <1>3 DEF Inductive, Types
<1> QED BY Zenon, <1>1, <1>2, <1>3, <1>4, FlushedKept, TaskEnds

\* One pass of the flush.
LEMMA FlushTypes ==
  ASSUME Inductive, FlushPasses \/ FlushFails, UNCHANGED <<generation, held>>
  PROVE  TableTypes'
<1>1. buffered' \subseteq buffered
  BY Zenon DEF FlushPasses, Publishes, FlushFails
<1>2. flushState' \in {"idle", "prepared", "blocked"} /\ (flushState' # "idle" => flight' # {})
  <2>1. CASE Publishes
    BY <2>1 DEF Publishes
  <2>2. CASE FlushFails
    BY <2>2 DEF FlushFails
  <2>3. CASE UNCHANGED <<flight, flushState>>
    BY <2>3 DEF Inductive, Types, TableTypes
  <2> QED BY Zenon, <2>1, <2>2, <2>3 DEF FlushPasses
<1> QED BY Zenon, <1>1, <1>2 DEF Inductive, Types, TableTypes

LEMMA FinalFlushStep ==
  ASSUME Inductive, FinalFlush
  PROVE  Inductive'
<1>1. "flush" \in TaskNames /\ "flush" \notin Serving
  BY DEF TaskNames, Serving
<1>2. /\ task["flush"] = "on" /\ task' = [task EXCEPT !["flush"] = "done"]
      /\ UNCHANGED <<req, stage, role, draining, awaiting, exit, lease>>
  BY Zenon DEF FinalFlush
<1>3. /\ UNCHANGED <<generation, held>>
      /\ \/ FlushPasses /\ final' = Met(FALSE)
         \/ FlushFails /\ final' = Met(TRUE)
  BY Zenon DEF FinalFlush
<1>5. TableTypes'
  BY Zenon, <1>3, FlushTypes
<1>6. Left'
  <2>1. ASSUME NEW b, final' = Met(b)
        PROVE  /\ final'.intent = flushState /\ final'.flight = flight /\ final'.held = held
               /\ final'.failed = b
    BY <2>1 DEF Met
  <2> SUFFICES ASSUME NEW g \in buffered' PROVE PassedOver(g)'
    BY Zenon DEF Left
  <2>2. CASE final' = Met(TRUE)
    BY Zenon, <2>1, <2>2 DEF PassedOver
  <2>3. CASE flushState = "blocked"
    BY Zenon, <1>3, <2>1, <2>3 DEF PassedOver
  <2>4. CASE Publishes /\ final' = Met(FALSE)
    <3>1. /\ final'.flight = flight /\ final'.held = held
          /\ g \in buffered /\ g \notin Taken
      BY Zenon, <2>1, <2>4 DEF Publishes
    <3>2. CASE flight # {}
      BY Zenon, <3>1, <3>2 DEF PassedOver, Taken
    <3>3. CASE flight = {}
      <4>1. PICK h \in held : ~(g < h)
        BY Zenon, <3>1, <3>3 DEF Taken
      <4>2. h <= g
        <5>1. g \in Nat /\ h \in Nat
          BY Zenon, <3>1, <4>1 DEF Inductive, Types, TableTypes
        <5> QED BY <4>1, <5>1
      <4> QED BY Zenon, <3>1, <4>1, <4>2 DEF PassedOver
    <3> QED BY Zenon, <3>2, <3>3
  <2> QED BY Zenon, <1>3, <2>2, <2>3, <2>4 DEF FlushPasses
<1>4. \A r \in Requests : InFlight(r) => req[r].via # "flush"
  BY Zenon, <1>1, Named
<1> QED BY Zenon, <1>1, <1>2, <1>4, <1>5, <1>6, TaskEnds DEF Flushed

LEMMA FlushTickStep ==
  ASSUME Inductive, FlushTick
  PROVE  Inductive'
<1>1. /\ task["flush"] = "on" /\ (FlushPasses \/ FlushFails)
      /\ UNCHANGED <<req, stage, role, draining, task, awaiting, exit, lease>>
      /\ UNCHANGED <<generation, held>>
  BY Zenon DEF FlushTick
<1>2. TableTypes'
  BY Zenon, <1>1, FlushTypes
<1>3. Types' /\ DrainProgress' /\ Drained' /\ Exited'
  BY Zenon, <1>1, <1>2 DEF Inductive, Types, DrainProgress, Drained, Exited
<1>4. Served' /\ Flushed'
  BY Zenon, <1>1 DEF Inductive, Served, InFlight, Flushed
<1> QED BY Zenon, <1>3, <1>4 DEF Inductive

LEMMA StartStageStep ==
  ASSUME Inductive, StartStage
  PROVE  Inductive'
<1> DEFINE s == Stages[stage + 1]
<1>1. /\ exit = "none" /\ stage < 13 /\ stage \in 0 .. 13 /\ stage' = stage + 1 /\ stage + 1 \in 1 .. 13
      /\ (s = "listeners" <=> stage' = 13) /\ (s = "flush" <=> stage' = 9)
  <2>1. exit = "none" /\ stage < 13 /\ stage' = stage + 1 /\ stage \in 0 .. 13
    BY Zenon, Lists DEF StartStage, Running, Inductive, Types
  <2>2. stage + 1 \in 1 .. 13
    BY <2>1
  <2> QED BY Zenon, <2>1, <2>2, Lists
<1>2. /\ UNCHANGED <<req, draining, awaiting, exit>> /\ UNCHANGED tableVars
      /\ (lease' <=> (lease \/ s = "wal")) /\ lease' \in BOOLEAN
      /\ task' = [t \in DOMAIN task |-> IF t \in Spawned(s) THEN "on" ELSE task[t]]
      /\ IF s = "listeners" THEN MarkReady ELSE UNCHANGED role
  BY Zenon DEF StartStage, Inductive, Types
<1>3. awaiting = 0 /\ ~draining /\ role = "starting"
  BY <1>1 DEF Inductive, Types, DrainProgress
<1>4. /\ role' \in {"starting", "ready", "draining", "stopped", "failed"}
      /\ role' = (IF stage' = 13 THEN "ready" ELSE "starting")
  BY <1>1, <1>2, <1>3 DEF MarkReady
<1> HIDE DEF s
<1>5. /\ "flush" \in Spawned("flush")
      /\ \A t \in Serving : t \in Spawned(s) => s = "listeners"
  BY DEF Spawned, Serving
<1>6. /\ task' \in [TaskNames -> {"off", "on", "done"}]
      /\ \A t \in TaskNames : task'[t] = (IF t \in Spawned(s) THEN "on" ELSE task[t])
  BY <1>2, Named DEF Inductive, Types
<1>7. Serving \subseteq TaskNames /\ "flush" \in TaskNames
  BY DEF TaskNames
<1>8. Types'
  <2>1. stage' \in 0 .. 13
    BY <1>1
  <2> QED BY Zenon, <1>2, <1>4, <1>6, <2>1, TableKept DEF Inductive, Types
<1>9. task["flush"] # "off" \/ stage' = 9 => task'["flush"] # "off"
  BY <1>1, <1>5, <1>6, <1>7
<1>10. 9 <= stage' => task'["flush"] # "off"
  <2>1. 9 <= stage' => stage' = 9 \/ 9 <= stage
    BY <1>1
  <2> QED BY Zenon, <1>9, <2>1 DEF Inductive, DrainProgress
<1>11. \A t \in Serving : task'[t] # "off" => stage' = 13
  <2>1. \A t \in Serving : task[t] # "off" => FALSE
    BY <1>1 DEF Inductive, DrainProgress
  <2> QED BY Zenon, <1>1, <1>5, <1>6, <1>7, <2>1
<1>12. DrainProgress'
  BY <1>1, <1>2, <1>3, <1>4, <1>10, <1>11 DEF DrainProgress
<1>13. Drained' /\ Exited'
  BY <1>1, <1>2, <1>3 DEF Drained, Exited
<1>14. Served'
  <2>1. \A r \in Requests : req[r].pc = "unborn"
    BY <1>1 DEF Inductive, Served
  <2> QED BY <1>2, <2>1 DEF Served, InFlight
<1>15. Flushed'
  <2>1. task'["flush"] = "done" => task["flush"] = "done"
    BY <1>6, <1>7
  <2>2. Left' <=> Left
    BY Zenon, <1>2 DEF Left, PassedOver, tableVars
  <2> QED BY Zenon, <2>1, <2>2 DEF Inductive, Flushed
<1> QED BY Zenon, <1>8, <1>12, <1>13, <1>14, <1>15 DEF Inductive

\* A step of the process itself: the requests, the tasks and the buffer stay.
LEMMA ProcessKept ==
  ASSUME Inductive, UNCHANGED <<req, stage, task, tableVars>>
  PROVE  /\ Served' /\ Flushed'
         /\ stage \in 0 .. 13 /\ awaiting \in 0 .. 7
         /\ role \in {"starting", "ready", "draining", "stopped", "failed"}
         /\ stage = 13 => role # "starting"
         /\ draining \in BOOLEAN /\ lease \in BOOLEAN
         /\ /\ draining' \in BOOLEAN /\ lease' \in BOOLEAN /\ awaiting' \in 0 .. 7
            /\ role' \in {"starting", "ready", "draining", "stopped", "failed"}
            /\ exit' \in {"none", "clean", "forced", "failed"}
            => Types'
         /\ /\ stage = 13 => role' # "starting"
            /\ draining' => stage = 13
            /\ awaiting' # 0 => draining'
            /\ exit' = "none" => role' = (IF awaiting' # 0 THEN "draining"
                                          ELSE IF stage = 13 THEN "ready" ELSE "starting")
            => DrainProgress'
         /\ awaiting' = awaiting => Drained'
<1>1. Served' /\ Flushed' /\ TableTypes'
  BY Zenon, TableKept DEF Inductive, Served, InFlight
<1>2. /\ stage \in 0 .. 13 /\ awaiting \in 0 .. 7
      /\ role \in {"starting", "ready", "draining", "stopped", "failed"}
      /\ stage = 13 => role # "starting"
      /\ draining \in BOOLEAN /\ lease \in BOOLEAN
  BY Zenon DEF Inductive, Types, DrainProgress
<1>3. /\ draining' \in BOOLEAN /\ lease' \in BOOLEAN /\ awaiting' \in 0 .. 7
      /\ role' \in {"starting", "ready", "draining", "stopped", "failed"}
      /\ exit' \in {"none", "clean", "forced", "failed"}
      => Types'
  BY Zenon, <1>1 DEF Inductive, Types
<1>4. /\ stage = 13 => role' # "starting"
      /\ draining' => stage = 13
      /\ awaiting' # 0 => draining'
      /\ exit' = "none" => role' = (IF awaiting' # 0 THEN "draining"
                                    ELSE IF stage = 13 THEN "ready" ELSE "starting")
      => DrainProgress'
  BY DEF Inductive, DrainProgress
<1>5. awaiting' = awaiting => Drained'
  BY Zenon DEF Inductive, Drained
<1> QED BY Zenon, <1>1, <1>2, <1>3, <1>4, <1>5

LEMMA StageFailsStep ==
  ASSUME Inductive, StageFails
  PROVE  Inductive'
<1>1. /\ exit = "none" /\ exit' = "failed" /\ lease' = FALSE
      /\ UNCHANGED <<req, stage, task, tableVars>> /\ draining' = draining /\ awaiting' = awaiting
      /\ role' = role \/ role' = (IF role \in {"stopped", "failed"} THEN role ELSE "failed")
  BY Zenon DEF StageFails, MarkFailed, Running
<1>2. /\ role' \in {"starting", "ready", "draining", "stopped", "failed"}
      /\ stage = 13 => role' # "starting"
  BY <1>1, ProcessKept
<1>3. Types' /\ DrainProgress'
  BY Zenon, <1>1, <1>2, ProcessKept DEF Inductive, DrainProgress
<1>4. Drained' /\ Exited' /\ Served' /\ Flushed'
  BY <1>1, ProcessKept DEF Exited
<1> QED BY Zenon, <1>3, <1>4 DEF Inductive

LEMMA SignalStep ==
  ASSUME Inductive, Signal
  PROVE  Inductive'
<1>1. /\ exit = "none" /\ stage = 13 /\ draining' = TRUE
      /\ UNCHANGED <<req, stage, task, tableVars>>
      /\ UNCHANGED <<role, awaiting, exit, lease>>
  BY Zenon, Lists DEF Signal, Running
<1>2. Types' /\ DrainProgress'
  BY <1>1, ProcessKept DEF Inductive, DrainProgress, Types
<1>3. Drained' /\ Exited' /\ Served' /\ Flushed'
  BY <1>1, ProcessKept DEF Exited, Inductive
<1> QED BY Zenon, <1>2, <1>3 DEF Inductive

LEMMA BeginDrainStep ==
  ASSUME Inductive, BeginDrain
  PROVE  Inductive'
<1>1. /\ exit = "none" /\ draining /\ awaiting = 0 /\ awaiting' = 1
      /\ UNCHANGED <<req, stage, task, tableVars>>
      /\ UNCHANGED <<draining, exit, lease>>
      /\ role' = IF role \in {"starting", "ready"} THEN "draining" ELSE role
  BY Zenon DEF BeginDrain, Running, MarkDraining
<1>2. stage = 13 /\ role = "ready"
  BY <1>1 DEF Inductive, DrainProgress
<1>3. Types' /\ DrainProgress'
  BY <1>1, <1>2, ProcessKept
<1>4. Drained' /\ Exited' /\ Served' /\ Flushed'
  BY <1>1, ProcessKept DEF Exited, Drained
<1> QED BY Zenon, <1>3, <1>4 DEF Inductive

LEMMA AwaitTaskStep ==
  ASSUME Inductive, AwaitTask
  PROVE  Inductive'
<1>1. /\ exit = "none" /\ awaiting \in 1 .. 6 /\ task[Tasks[awaiting]] # "on" /\ awaiting' = awaiting + 1
      /\ UNCHANGED <<req, stage, task, tableVars>>
      /\ UNCHANGED <<role, draining, exit, lease>>
  BY Zenon, Lists DEF AwaitTask, Running
<1>2. awaiting' \in 0 .. 7 /\ awaiting # 0 /\ awaiting' # 0
  BY <1>1
<1>3. Types' /\ DrainProgress'
  BY <1>1, <1>2, ProcessKept DEF Inductive, DrainProgress
<1>4. Drained'
  <2>1. \A i \in 1 .. 6 : i < awaiting' => i = awaiting \/ i < awaiting
    BY <1>1
  <2> QED BY Zenon, <1>1, <2>1 DEF Inductive, Drained
<1>5. Exited' /\ Served' /\ Flushed'
  BY <1>1, ProcessKept DEF Exited
<1> QED BY Zenon, <1>3, <1>4, <1>5 DEF Inductive

LEMMA StopStep ==
  ASSUME Inductive, Stop
  PROVE  Inductive'
<1>1. /\ exit = "none" /\ awaiting = 7 /\ exit' = "clean" /\ lease' = FALSE
      /\ UNCHANGED <<req, stage, task, tableVars>>
      /\ UNCHANGED <<draining, awaiting>>
      /\ role' = IF role = "draining" THEN "stopped" ELSE role
  BY Lists DEF Stop, Running, MarkStopped
<1>2. role = "draining" /\ role' = "stopped"
  BY <1>1 DEF Inductive, DrainProgress
<1>3. Types' /\ DrainProgress'
  BY Zenon, <1>1, <1>2, ProcessKept DEF Inductive, DrainProgress
<1>4. Drained' /\ Exited' /\ Served' /\ Flushed'
  BY <1>1, <1>2, ProcessKept DEF Exited
<1> QED BY Zenon, <1>3, <1>4 DEF Inductive

LEMMA DrainTimeoutStep ==
  ASSUME Inductive, DrainTimeout
  PROVE  Inductive'
<1>1. /\ exit = "none" /\ exit' = "forced" /\ lease' = FALSE
      /\ UNCHANGED <<req, stage, task, tableVars>>
      /\ UNCHANGED <<draining, awaiting>>
      /\ role' = IF role \in {"stopped", "failed"} THEN role ELSE "failed"
  BY Zenon DEF DrainTimeout, Running, MarkFailed
<1>2. /\ role' \in {"starting", "ready", "draining", "stopped", "failed"}
      /\ stage = 13 => role' # "starting"
  BY <1>1, ProcessKept
<1>3. Types' /\ DrainProgress'
  BY Zenon, <1>1, <1>2, ProcessKept DEF Inductive, DrainProgress
<1>4. Drained' /\ Exited' /\ Served' /\ Flushed'
  BY <1>1, ProcessKept DEF Exited
<1> QED BY Zenon, <1>3, <1>4 DEF Inductive

LEMMA SameStep ==
  ASSUME Inductive, UNCHANGED <<req, stage, task, tableVars>>,
         UNCHANGED <<role, draining, awaiting, exit, lease>>
  PROVE  Inductive'
<1>1. Types' /\ DrainProgress' /\ Exited'
  BY Zenon, TableKept DEF Inductive, Types, DrainProgress, Exited
<1> QED BY Zenon, <1>1, ProcessKept DEF Inductive

-----------------------------------------------------------------------------

LEMMA Begins ==
  Init => Inductive
<1> SUFFICES ASSUME Init PROVE Inductive
  OBVIOUS
<1>1. /\ req = [r \in Requests |-> Unborn] /\ Unborn \in ReqRec /\ Unborn.pc = "unborn"
      /\ stage = 0 /\ role = "starting" /\ draining = FALSE
      /\ task = [t \in TaskNames |-> "off"] /\ awaiting = 0 /\ exit = "none" /\ lease = FALSE
      /\ generation = 0 /\ held = {} /\ buffered = {} /\ flushState = "idle"
  <2>1. Unborn \in ReqRec /\ Unborn.pc = "unborn"
    BY DEF Unborn, ReqRec, Serving
  <2> QED BY Zenon, <2>1, Lists DEF Init
<1>2. Types /\ Exited /\ Flushed /\ Drained
  <2>4. 0 \in 0 .. 13 /\ 0 \in 0 .. 7
    OBVIOUS
  <2>5. TableTypes
    BY <1>1 DEF TableTypes
  <2>1. Types
    BY Zenon, <1>1, <2>4, <2>5 DEF Types
  <2>2. Exited /\ Flushed
    BY <1>1 DEF Exited, Flushed, Left
  <2>3. Drained
    BY <1>1 DEF Drained
  <2> QED BY Zenon, <2>1, <2>2, <2>3
<1>3. DrainProgress
  BY <1>1 DEF DrainProgress, TaskNames
<1>4. Served
  BY <1>1 DEF Served, InFlight
<1> QED BY Zenon, <1>2, <1>3, <1>4 DEF Inductive

LEMMA Steps ==
  Inductive /\ [Next]_vars => Inductive'
<1> SUFFICES ASSUME Inductive, [Next]_vars PROVE Inductive'
  OBVIOUS
<1>1. CASE NodeStep
  BY Zenon, <1>1, StartStageStep, FinalFlushStep, BeginDrainStep, AwaitTaskStep, StopStep,
     DrainTimeoutStep, EndTaskStep DEF NodeStep
<1>2. CASE StageFails \/ FlushTick \/ Signal
  BY Zenon, <1>2, StageFailsStep, FlushTickStep, SignalStep
<1>3. CASE ProbeStart \/ ProbeAnswer
  <2>1. /\ UNCHANGED <<req, stage, task, tableVars>>
        /\ UNCHANGED <<role, draining, awaiting, exit, lease>>
    BY Zenon, <1>3 DEF ProbeStart, ProbeAnswer
  <2> QED BY Zenon, <2>1, SameStep
<1>4. CASE \E t \in {"rest", "flight"} : BindFails(t)
  BY Zenon, <1>4, BindFailsStep DEF Serving
<1>5. CASE \E r \in Requests : Reserve(r) \/ Handle(r) \/ Leave(r)
  BY Zenon, <1>5, ReserveStep, HandleStep, LeaveStep
<1>6. CASE \E r \in Requests, via \in {"rest", "flight"}, scope \in {"read", "write"} : AcceptRequest(r, via, scope)
  BY Zenon, <1>6, AcceptRequestStep DEF Serving
<1>7. CASE UNCHANGED vars
  BY Zenon, <1>7, SameStep DEF vars, nodeVars
<1> QED BY Zenon, <1>1, <1>2, <1>3, <1>4, <1>5, <1>6, <1>7 DEF Next

\* server.rs's drain, for any requests, failures and order of tasks: no request
\* comes in before the last startup stage; a clean exit leaves no task, no request
\* in a handler and no WAL lease; what stays in the buffer then was acknowledged
\* after the final flush, or that one pass failed, met a blocked table or a kept
\* intent that does not hold it, or met a reservation that is not younger.
THEOREM DrainLeavesNothing == Spec => []StopsClean
<1>1. Spec => []Inductive
  BY Begins, Steps, PTL DEF Spec
<1>2. Inductive => StopsClean
  <2> SUFFICES ASSUME Inductive PROVE StopsClean
    OBVIOUS
  <2>1. TypeOK
    BY Lists DEF Inductive, Types, TableTypes, TypeOK
  <2>2. NoTrafficBeforeReady
    BY Zenon, Lists DEF Inductive, Served, DrainProgress, NoTrafficBeforeReady
  <2>3. ASSUME exit = "clean"
        PROVE  /\ role = "stopped" /\ ~lease /\ \A t \in DOMAIN task : task[t] # "on"
               /\ \A r \in Requests : ~InFlight(r)
               /\ \A g \in buffered : g \in late \/ PassedOver(g)
    <3>1. awaiting = 7 /\ role = "stopped" /\ ~lease
      BY Zenon, <2>3 DEF Inductive, Exited
    <3>2. \A i \in 1 .. 6 : task[Tasks[i]] # "on"
      BY <3>1 DEF Inductive, Drained
    <3>3. \A t \in TaskNames : task[t] # "on"
      BY Zenon, <3>2, Lists
    <3>4. Serving \subseteq TaskNames /\ "flush" \in TaskNames
      BY DEF TaskNames
    <3>5. \A r \in Requests : ~InFlight(r)
      BY Zenon, <3>3, <3>4, Named DEF Inductive, Served
    <3>6. stage = 13 /\ task["flush"] # "off"
      BY <3>1 DEF Inductive, DrainProgress
    <3>7. task["flush"] = "done"
      BY <3>3, <3>4, <3>6 DEF Inductive, Types
    <3> QED BY Zenon, <3>1, <3>3, <3>5, <3>7, Named DEF Inductive, Flushed, Left
  <2> QED BY Zenon, <2>1, <2>2, <2>3 DEF StopsClean, CleanStop, NothingForgotten
<1> QED BY <1>1, <1>2, PTL

-----------------------------------------------------------------------------
(* The cached list of tables. *)

Loaders == Askers \cup {Background}

NamesType ==
  /\ clock \in Nat /\ ttl \in Nat
  /\ names \in [kept : BOOLEAN, seen : Nat, at : Nat]
  /\ refreshing \in BOOLEAN
  /\ listing \in [Loaders -> [pc : {"idle", "listing", "listed", "stored"}, seen : Nat,
                              ok : BOOLEAN]]
  /\ answer \in [Askers -> [fresh : BOOLEAN, age : Int]]

\* No listing, stored or about to be, was older than ListingTime at the moment it
\* was stored.
ListingsYoung ==
  /\ \A k \in Loaders : listing[k].pc = "listed" =>
       listing[k].seen <= clock /\ clock - listing[k].seen <= ListingTime
  /\ names.at - names.seen <= ListingTime

NamesInv == NamesType /\ ListingsYoung /\ FreshLists /\ OneRefresh

-----------------------------------------------------------------------------

\* The cache starts empty and idle.
LEMMA NamesInitInv == NamesInit => NamesInv
<1> SUFFICES ASSUME NamesInit PROVE NamesInv
  BY Zenon
<1> USE TableNamesAssumption DEF NamesInit, NoNames, NoListing, NoAnswer
<1>1. NamesType
  <2>1. NoListing \in [pc : {"idle", "listing", "listed", "stored"}, seen : Nat, ok : BOOLEAN]
    BY Zenon
  <2>2. NoAnswer \in [fresh : BOOLEAN, age : Int]
    OBVIOUS
  <2>3. /\ clock \in Nat /\ ttl \in Nat /\ refreshing \in BOOLEAN
        /\ names \in [kept : BOOLEAN, seen : Nat, at : Nat]
    BY Zenon
  <2> HIDE DEF NoListing, NoAnswer
  <2> QED BY Zenon, <2>1, <2>2, <2>3 DEF NamesType, Loaders
<1>2. ListingsYoung
  BY DEF ListingsYoung, Loaders
<1>3. FreshLists
  BY Zenon DEF FreshLists
<1>4. OneRefresh
  <2>1. listing[Background].pc = "idle"
    BY Zenon
  <2> QED BY Zenon, <2>1 DEF OneRefresh
<1> QED BY Zenon, <1>1, <1>2, <1>3, <1>4 DEF NamesInv

\* table_names_snapshot: the age of an answered list is its age when it was stored and
\* the time since, which is within the TTL when it is answered as fresh.
LEMMA SnapshotKeeps == ASSUME NamesInv, NEW a \in Askers, Snapshot(a) PROVE NamesInv'
<1> USE TableNamesAssumption DEF NamesInv
<1>1. a \in Loaders /\ a # Background /\ Background \in Loaders
  BY Zenon DEF Loaders
<1>2. CASE names.kept /\ (Fresh(names.at) \/ refreshing)
  <2>1. /\ answer' = [answer EXCEPT ![a] = Answer(names.seen, Fresh(names.at))]
        /\ UNCHANGED <<clock, ttl, names, refreshing, listing>>
    BY Zenon, <1>2 DEF Snapshot, SpawnRefresh
  <2>2. NamesType' /\ ListingsYoung' /\ OneRefresh'
    BY <2>1 DEF NamesType, ListingsYoung, OneRefresh, Answer, Fresh
  <2>3. FreshLists'
    <3> SUFFICES ASSUME NEW b \in Askers, answer'[b].fresh
                 PROVE  ttl' # 0 /\ answer'[b].age < ttl' + ListingTime
      BY Zenon DEF FreshLists
    <3>1. CASE b = a
      <4>1. answer'[b] = Answer(names.seen, Fresh(names.at))
        BY Zenon, <2>1, <3>1 DEF NamesType
      <4>2. Fresh(names.at) /\ answer'[b].age = clock - names.seen
        BY <4>1 DEF Answer
      <4> QED BY <4>2, <2>1 DEF Fresh, NamesType, ListingsYoung
    <3>2. CASE b # a
      BY Zenon, <3>2, <2>1 DEF NamesType, FreshLists
    <3> QED BY Zenon, <3>1, <3>2
  <2> QED BY Zenon, <2>2, <2>3
<1>3. CASE names.kept /\ ~Fresh(names.at) /\ ~refreshing
  <2>1. /\ answer' = [answer EXCEPT ![a] = Answer(names.seen, FALSE)]
        /\ refreshing' = TRUE
        /\ listing' = [listing EXCEPT ![Background].pc = "listing"]
        /\ UNCHANGED <<clock, ttl, names>>
    <3>1. Fresh(names.at) = FALSE
      BY Zenon, <1>3 DEF Fresh
    <3> QED BY Zenon, <1>3, <3>1 DEF Snapshot, SpawnRefresh
  <2>2. NamesType'
    BY <2>1, <1>1 DEF NamesType, Answer
  <2>3. ListingsYoung' /\ OneRefresh' /\ FreshLists'
    BY ZenonT(40), <2>1, <1>1 DEF NamesType, ListingsYoung, OneRefresh, FreshLists, Answer
  <2> QED BY Zenon, <2>2, <2>3
<1>4. CASE ~names.kept
  <2>1. /\ listing' = [listing EXCEPT ![a].pc = "listing"]
        /\ UNCHANGED <<clock, ttl, names, refreshing, answer>>
    BY Zenon, <1>4 DEF Snapshot
  <2> QED BY <2>1, <1>1 DEF NamesType, ListingsYoung, OneRefresh, FreshLists
<1> QED BY Zenon, <1>2, <1>3, <1>4 DEF NamesType

\* A listing is as young as can be when the catalog gives it.
LEMMA ListTablesKeeps == ASSUME NamesInv, NEW k \in Loaders, ListTables(k) PROVE NamesInv'
<1> USE TableNamesAssumption DEF NamesInv
<1>1. PICK ok \in BOOLEAN :
        listing' = [listing EXCEPT ![k] = [pc |-> "listed", seen |-> clock, ok |-> ok]]
  BY Zenon DEF ListTables
<1>2. UNCHANGED <<clock, ttl, names, refreshing, answer>> /\ listing[k].pc = "listing"
  BY Zenon DEF ListTables
<1> QED
  BY <1>1, <1>2 DEF NamesType, ListingsYoung, OneRefresh, FreshLists, Loaders

\* A listing is stored before it is older than ListingTime.
LEMMA StoreKeeps ==
  ASSUME NamesInv, (\E a \in Askers : StoreFirst(a)) \/ StoreRefreshed
  PROVE  NamesInv'
<1> USE TableNamesAssumption DEF NamesInv
<1>1. ASSUME NEW a \in Askers, StoreFirst(a) PROVE NamesInv'
  <2>1. a \in Loaders /\ a # Background
    BY Zenon DEF Loaders
  <2>2. NamesType'
    BY <1>1, <2>1 DEF StoreFirst, NamesType, Stored, Answer, NoListing
  <2>3. ListingsYoung' /\ OneRefresh' /\ FreshLists'
    BY Zenon, <1>1, <2>1
       DEF StoreFirst, NamesType, ListingsYoung, OneRefresh, FreshLists, Stored, Answer,
           NoListing, Loaders
  <2> QED BY Zenon, <2>2, <2>3
<1>2. CASE StoreRefreshed
  BY <1>2 DEF StoreRefreshed, NamesType, ListingsYoung, OneRefresh, FreshLists, Stored, Loaders
<1> QED BY Zenon, <1>1, <1>2

\* The flag falls with the end of the task, however it ended; and time goes on only
\* while every listing under way is still young.
LEMMA RestKeeps == ASSUME NamesInv, RefreshDone \/ NextInstant PROVE NamesInv'
<1> USE TableNamesAssumption DEF NamesInv
<1>1. CASE RefreshDone
  BY Zenon, <1>1 DEF RefreshDone, NamesType, ListingsYoung, OneRefresh, FreshLists, NoListing, Loaders
<1>2. CASE NextInstant
  BY <1>2 DEF NextInstant, NamesType, ListingsYoung, OneRefresh, FreshLists, Loaders
<1> QED BY Zenon, <1>1, <1>2

\* The names cache answers as fresh only what is younger than the TTL and a listing,
\* and runs one background refresh at a time, for every set of askers.
THEOREM TableNamesCorrect == NamesSpec => []NamesServed
<1>1. NamesInv /\ [NamesNext]_namesVars => NamesInv'
  <2> SUFFICES ASSUME NamesInv, [NamesNext]_namesVars PROVE NamesInv'
    BY Zenon
  <2>1. CASE UNCHANGED namesVars
    BY Zenon, <2>1 DEF namesVars, NamesInv, NamesType, ListingsYoung, FreshLists, OneRefresh
  <2>2. CASE NamesNext
    BY Zenon, <2>2, SnapshotKeeps, ListTablesKeeps, StoreKeeps, RestKeeps DEF NamesNext, Loaders
  <2> QED BY Zenon, <2>1, <2>2
<1> QED BY <1>1, NamesInitInv, PTL DEF NamesSpec, NamesInv, NamesServed

\* table_names_snapshot answers as fresh only what is younger than TTL and listing.
THEOREM ListsFresh == NamesSpec => []FreshLists
BY TableNamesCorrect, PTL DEF NamesServed

\* spawn_table_names_refresh runs one task at a time, and a failed one is over.
THEOREM RefreshExclusive == NamesSpec => []OneRefresh
BY TableNamesCorrect, PTL DEF NamesServed

-----------------------------------------------------------------------------
(* Connections. *)

Body ==
  [pc : {"none", "reading", "done", "refused"}, declared : Nat, got : Nat, seen : Nat,
   recorded : Nat]

Io ==
  [pc : {"open", "cut", "closing"}, at : Listeners, read : Nat, write : Nat, silent : Nat,
   body : Body]

\* What a handler has seen is what arrived, until the body is refused.
BodySound(b) ==
  /\ b.seen <= MaxBody
  /\ b.pc # "refused" => b.seen = b.got /\ b.recorded = 0
  /\ b.pc = "refused" =>
       /\ b.recorded = 1
       /\ b.got > MaxBody \/ (b.declared # Unknown /\ b.declared > MaxBody)

\* Neither deadline is ahead of the silence on the connection.
IoSound(io) ==
  /\ io.read + io.silent >= IdleTimeout /\ io.write + io.silent >= IdleTimeout
  /\ io.pc = "cut" => io.silent >= IdleTimeout
  /\ BodySound(io.body)

ConnType ==
  /\ conn \in [Conns -> Io \cup {Closed}]
  /\ permits \in [Listeners -> Int] /\ active \in [Listeners -> Int]

ConnInv ==
  /\ ConnType /\ PermitsConserved
  /\ \A c \in Conns : Live(c) => IoSound(conn[c])

LEMMA LiveIo ==
  ASSUME ConnType, NEW c \in Conns, Live(c)
  PROVE  conn[c] \in Io
BY DEF ConnType, Live, Closed

LEMMA InitConn == ConnectionsInit => ConnInv
<1> SUFFICES ASSUME ConnectionsInit PROVE ConnInv
  BY Zenon
<1>1. ConnType
  BY ConnectionsAssumption DEF ConnectionsInit, ConnType
<1>2. \A c \in Conns : ~Live(c)
  BY Zenon DEF ConnectionsInit, Live, Closed
<1>3. \A l \in Listeners : OfListener(l) = {}
  BY Zenon, <1>2 DEF OfListener
<1>4. PermitsConserved
  BY <1>3, FS_EmptySet, ConnectionsAssumption DEF PermitsConserved, ConnectionsInit
<1> QED BY Zenon, <1>1, <1>2, <1>4 DEF ConnInv

\* A connection that changes and keeps its listener moves no permit.
LEMMA ChangeKeeps ==
  ASSUME ConnInv, NEW c \in Conns, Live(c), NEW r \in Io, r.at = conn[c].at, IoSound(r),
         conn' = [conn EXCEPT ![c] = r], UNCHANGED <<permits, active>>
  PROVE  ConnInv'
<1>1. ConnType'
  BY Zenon DEF ConnInv, ConnType
<1>2. conn'[c] = r /\ \A d \in Conns : d # c => conn'[d] = conn[d]
  BY Zenon DEF ConnInv, ConnType
<1>3. \A d \in Conns : Live(d)' <=> Live(d)
  BY Zenon, <1>2 DEF Live, Io
<1>4. \A l \in Listeners : OfListener(l)' = OfListener(l)
  BY Zenon, <1>2, <1>3 DEF OfListener
<1>5. PermitsConserved'
  BY Zenon, <1>4 DEF ConnInv, PermitsConserved
<1>6. \A d \in Conns : Live(d)' => IoSound(conn[d])'
  <2> SUFFICES ASSUME NEW d \in Conns, Live(d)' PROVE IoSound(conn'[d])
    BY Zenon DEF IoSound, BodySound
  <2>1. CASE d = c
    BY Zenon, <2>1, <1>2
  <2>2. CASE d # c
    BY Zenon, <2>2, <1>2, <1>3 DEF ConnInv
  <2> QED BY Zenon, <2>1, <2>2
<1> QED BY Zenon, <1>1, <1>5, <1>6 DEF ConnInv

\* Bytes that move restart both deadlines and the silence.
LEMMA ProgressSound ==
  ASSUME NEW io \in Io, IoSound(io), io.pc = "open", NEW way, NEW b \in Body, BodySound(b)
  PROVE  /\ Progress(io, way) \in Io /\ IoSound(Progress(io, way))
         /\ Progress(io, way).at = io.at
         /\ [Progress(io, way) EXCEPT !.body = b] \in Io
         /\ IoSound([Progress(io, way) EXCEPT !.body = b])
         /\ [Progress(io, way) EXCEPT !.body = b].at = io.at
<1> DEFINE r == Progress(io, way)
<1>1. r \in Io /\ r.read = IdleTimeout /\ r.write = IdleTimeout /\ r.silent = 0
      /\ r.pc = "open" /\ r.at = io.at /\ r.body = io.body
  BY Zenon, ConnectionsAssumption DEF Progress, Io
<1> HIDE DEF r
<1> DEFINE s == [r EXCEPT !.body = b]
<1>2. s \in Io /\ s.read = IdleTimeout /\ s.write = IdleTimeout /\ s.silent = 0
      /\ s.pc = "open" /\ s.at = io.at /\ s.body = b
  BY Zenon, <1>1 DEF Io
<1> HIDE DEF s
<1>3. IoSound(r)
  BY <1>1, ConnectionsAssumption DEF IoSound
<1>4. IoSound(s)
  BY <1>2, ConnectionsAssumption DEF IoSound
<1> QED BY Zenon, <1>1, <1>2, <1>3, <1>4 DEF r, s

\* A frame, a head and an end leave a body sound.
LEMMA BodyKeeps ==
  ASSUME ConnInv, NEW c \in Conns, Arrives(c), NEW b \in Body, BodySound(b), Reads(c, b),
         UNCHANGED <<permits, active>>
  PROVE  ConnInv'
<1>1. Live(c) /\ conn[c] \in Io /\ IoSound(conn[c]) /\ conn[c].pc = "open"
  BY Zenon, LiveIo DEF Arrives, Open, Live, ConnInv
<1> DEFINE r == [Progress(conn[c], "read") EXCEPT !.body = b]
<1>2. r \in Io /\ IoSound(r) /\ r.at = conn[c].at
  BY ZenonT(40), <1>1, ProgressSound
<1>3. conn' = [conn EXCEPT ![c] = r]
  BY Zenon DEF Reads
<1> HIDE DEF r
<1> QED BY Zenon, <1>1, <1>2, <1>3, ChangeKeeps

LEMMA BodyStep ==
  ASSUME ConnInv, NEW c \in Conns,
         \/ \E n \in 0 .. MaxBody + 1 : RequestHead(c, n)
         \/ RequestHead(c, Unknown)
         \/ \E n \in 1 .. MaxFrame : Frame(c, n)
         \/ EndOfBody(c)
  PROVE  ConnInv'
<1> DEFINE b == conn[c].body
<1>1. Arrives(c) /\ UNCHANGED <<permits, active>>
  BY Zenon DEF RequestHead, Frame, EndOfBody
<1>2. b \in Body /\ BodySound(b)
  BY Zenon, <1>1, LiveIo DEF Arrives, Open, Live, ConnInv, IoSound, Io
<1>3. Unknown \in Nat /\ Unknown > MaxBody
  BY ConnectionsAssumption DEF Unknown
<1>4. ASSUME NEW n \in Nat, RequestHead(c, n) PROVE ConnInv'
  <2>1. CASE n # Unknown /\ n > MaxBody
    <3> DEFINE d == [NoBody EXCEPT !.pc = "refused", !.declared = n, !.recorded = 1]
    <3>1. d \in Body /\ d.pc = "refused" /\ d.declared = n /\ d.recorded = 1 /\ d.seen = 0
      BY Zenon, <1>3 DEF NoBody, Body
    <3>2. Reads(c, d)
      BY Zenon, <1>4, <2>1 DEF RequestHead
    <3> HIDE DEF d
    <3>3. BodySound(d)
      BY <2>1, <3>1, ConnectionsAssumption DEF BodySound
    <3> QED BY Zenon, <3>1, <3>2, <3>3, <1>1, BodyKeeps
  <2>2. CASE ~(n # Unknown /\ n > MaxBody)
    <3> DEFINE d == [NoBody EXCEPT !.pc = "reading", !.declared = n]
    <3>1. d \in Body /\ d.pc = "reading" /\ d.recorded = 0 /\ d.seen = 0 /\ d.got = 0
      BY Zenon, <1>3 DEF NoBody, Body
    <3>2. Reads(c, d)
      BY Zenon, <1>4, <2>2 DEF RequestHead
    <3> HIDE DEF d
    <3>3. BodySound(d)
      BY <3>1, ConnectionsAssumption DEF BodySound
    <3> QED BY Zenon, <3>1, <3>2, <3>3, <1>1, BodyKeeps
  <2> QED BY Zenon, <2>1, <2>2
<1>5. ASSUME NEW n \in 1 .. MaxFrame, Frame(c, n) PROVE ConnInv'
  <2>1. b.pc = "reading"
    BY Zenon, <1>5 DEF Frame
  <2>2. b.got \in Nat /\ b.seen = b.got /\ b.recorded = 0
    BY Zenon, <1>2, <2>1 DEF BodySound, Body
  <2> DEFINE g == b.got + n
  <2>3. g \in Nat
    <3>1. n \in Nat
      OBVIOUS
    <3> HIDE DEF b
    <3> QED BY <2>2, <3>1
  <2>4. CASE g > MaxBody
    <3> DEFINE d == [b EXCEPT !.pc = "refused", !.got = g, !.recorded = 1]
    <3>1. Reads(c, d)
      <4>1. b.recorded + 1 = 1
        BY <2>2
      <4>2. Reads(c, [b EXCEPT !.pc = "refused", !.got = @ + n, !.recorded = @ + 1])
        BY Zenon, <1>5, <2>4 DEF Frame
      <4> QED BY Zenon, <4>1, <4>2
    <3> HIDE DEF g, b
    <3>2. d \in Body /\ d.pc = "refused" /\ d.got = g /\ d.recorded = 1 /\ d.seen = b.seen
      BY Zenon, <1>2, <2>3 DEF Body
    <3> HIDE DEF d
    <3>3. BodySound(d)
      BY Zenon, <1>2, <2>3, <2>4, <3>2 DEF BodySound
    <3> QED BY Zenon, <3>1, <3>2, <3>3, <1>1, BodyKeeps
  <2>5. CASE ~(g > MaxBody)
    <3> DEFINE d == [b EXCEPT !.got = g, !.seen = g]
    <3>1. Reads(c, d)
      BY Zenon, <1>5, <2>2, <2>5 DEF Frame
    <3> HIDE DEF g, b
    <3>2. d \in Body /\ d.pc = b.pc /\ d.got = g /\ d.recorded = b.recorded /\ d.seen = g
      BY Zenon, <1>2, <2>3 DEF Body
    <3> HIDE DEF d
    <3>3. BodySound(d)
      BY <2>1, <2>2, <2>3, <2>5, <3>2, ConnectionsAssumption DEF BodySound
    <3> QED BY Zenon, <3>1, <3>2, <3>3, <1>1, BodyKeeps
  <2> QED BY Zenon, <2>4, <2>5
<1>6. CASE EndOfBody(c)
  <2> DEFINE d == [b EXCEPT !.pc = "done"]
  <2>1. d \in Body /\ BodySound(d)
    BY Zenon, <1>2, <1>6, ConnectionsAssumption DEF Body, BodySound, EndOfBody
  <2>2. Reads(c, d)
    BY Zenon, <1>6 DEF EndOfBody
  <2> HIDE DEF d
  <2> QED BY Zenon, <2>1, <2>2, <1>1, BodyKeeps
<1> QED BY <1>3, <1>4, <1>5, <1>6

\* The steps of the connection itself that move no permit.
LEMMA ConnectionStep ==
  ASSUME ConnInv, NEW c \in Conns, PollWrite(c) \/ PollExpired(c) \/ Close(c) \/ FlightRead(c)
  PROVE  ConnInv'
<1>1. Live(c) /\ conn[c] \in Io /\ IoSound(conn[c]) /\ conn[c].pc = "open"
      /\ conn[c].body \in Body /\ BodySound(conn[c].body)
  BY Zenon, LiveIo DEF PollWrite, PollExpired, Close, FlightRead, Open, Live, ConnInv, IoSound, Io
<1>2. CASE PollWrite(c)
  BY Zenon, <1>1, <1>2, ProgressSound, ChangeKeeps DEF PollWrite
<1>3. CASE FlightRead(c)
  BY Zenon, <1>1, <1>3, ProgressSound, ChangeKeeps DEF FlightRead
<1>4. CASE PollExpired(c)
  <2> DEFINE r == [conn[c] EXCEPT !.pc = "cut"]
  <2>1. r \in Io /\ r.at = conn[c].at /\ IoSound(r)
    BY <1>1, <1>4, ConnectionsAssumption DEF PollExpired, Io, IoSound
  <2>2. conn' = [conn EXCEPT ![c] = r] /\ UNCHANGED <<permits, active>>
    BY Zenon, <1>4 DEF PollExpired, ConnInv, ConnType
  <2> HIDE DEF r
  <2> QED BY Zenon, <1>1, <2>1, <2>2, ChangeKeeps
<1>5. CASE Close(c)
  <2> DEFINE r == [conn[c] EXCEPT !.pc = "closing"]
  <2>1. r \in Io /\ r.at = conn[c].at /\ IoSound(r)
    BY Zenon, <1>1, <1>5, ConnectionsAssumption DEF Io, IoSound
  <2>2. conn' = [conn EXCEPT ![c] = r] /\ UNCHANGED <<permits, active>>
    BY Zenon, <1>5 DEF Close, ConnInv, ConnType
  <2> HIDE DEF r
  <2> QED BY Zenon, <1>1, <2>1, <2>2, ChangeKeeps
<1> QED BY Zenon, <1>2, <1>3, <1>4, <1>5

\* A permit goes to the connection that is accepted.
LEMMA AcceptStep ==
  ASSUME ConnInv, NEW c \in Conns, NEW l \in Listeners, Accept(c, l)
  PROVE  ConnInv'
<1> DEFINE r == LimitedIo(l)
<1>1. r \in Io /\ r.at = l /\ r.pc = "open" /\ IoSound(r)
  <2>1. NoBody \in Body /\ BodySound(NoBody)
    BY ConnectionsAssumption DEF NoBody, Body, BodySound, Unknown
  <2>2. IdleTimeout \in Nat
    BY Zenon, ConnectionsAssumption
  <2>3. r \in Io /\ r.at = l /\ r.pc = "open" /\ r.read = IdleTimeout /\ r.write = IdleTimeout
        /\ r.silent = 0 /\ r.body = NoBody
    BY Zenon, <2>1, <2>2 DEF LimitedIo, Io
  <2> HIDE DEF r
  <2> QED BY <2>1, <2>2, <2>3 DEF IoSound
<1> HIDE DEF r
<1>2. /\ conn' = [conn EXCEPT ![c] = r] /\ ~Live(c)
      /\ permits' = [permits EXCEPT ![l] = @ - 1] /\ active' = [active EXCEPT ![l] = @ + 1]
  BY Zenon DEF Accept, r
<1>3. ConnType'
  BY <1>1, <1>2 DEF ConnInv, ConnType
<1>4. conn'[c] = r /\ \A d \in Conns : d # c => conn'[d] = conn[d]
  BY Zenon, <1>2 DEF ConnInv, ConnType
<1>5. Live(c)' /\ \A d \in Conns : d # c => (Live(d)' <=> Live(d))
  BY Zenon, <1>1, <1>4 DEF Live, Io
<1>6. OfListener(l)' = OfListener(l) \cup {c} /\ c \notin OfListener(l)
  BY Zenon, <1>1, <1>2, <1>4, <1>5 DEF OfListener
<1>7. \A k \in Listeners : k # l => OfListener(k)' = OfListener(k)
  BY Zenon, <1>1, <1>2, <1>4, <1>5 DEF OfListener
<1>8. PermitsConserved'
  <2>1. IsFiniteSet(OfListener(l))
    BY Zenon, ConnectionsAssumption, FS_Subset DEF OfListener
  <2>2. Cardinality(OfListener(l))' = Cardinality(OfListener(l)) + 1
    BY Zenon, <2>1, <1>6, FS_AddElement
  <2>3. Cardinality(OfListener(l)) \in Nat
    BY Zenon, <2>1, FS_CardinalityType
  <2>4. permits'[l] = permits[l] - 1 /\ active'[l] = active[l] + 1
        /\ permits[l] \in Int /\ active[l] \in Int
    BY Zenon, <1>2 DEF ConnInv, ConnType
  <2>5. \A k \in Listeners : k # l => permits'[k] = permits[k] /\ active'[k] = active[k]
    BY Zenon, <1>2 DEF ConnInv, ConnType
  <2>6. permits[l] + Cardinality(OfListener(l)) = MaxConnections[l]
        /\ active[l] = Cardinality(OfListener(l))
    BY Zenon DEF ConnInv, PermitsConserved
  <2>7. permits'[l] + Cardinality(OfListener(l))' = MaxConnections[l]
        /\ active'[l] = Cardinality(OfListener(l))'
    BY <2>2, <2>3, <2>4, <2>6
  <2>8. \A k \in Listeners : k # l =>
          permits'[k] + Cardinality(OfListener(k))' = MaxConnections[k]
          /\ active'[k] = Cardinality(OfListener(k))'
    BY Zenon, <2>5, <1>7 DEF ConnInv, PermitsConserved
  <2> QED BY Zenon, <2>7, <2>8 DEF PermitsConserved
<1>9. \A d \in Conns : Live(d)' => IoSound(conn[d])'
  <2> SUFFICES ASSUME NEW d \in Conns, Live(d)' PROVE IoSound(conn'[d])
    BY Zenon DEF IoSound, BodySound
  <2>1. CASE d = c
    BY Zenon, <2>1, <1>1, <1>4
  <2>2. CASE d # c
    BY Zenon, <2>2, <1>4, <1>5 DEF ConnInv
  <2> QED BY Zenon, <2>1, <2>2
<1> QED BY Zenon, <1>3, <1>8, <1>9 DEF ConnInv

\* A connection that is dropped gives its permit back.
LEMMA DropStep ==
  ASSUME ConnInv, NEW c \in Conns, Drop(c)
  PROVE  ConnInv'
<1>0. Live(c) /\ conn[c] \in Io /\ conn[c].at \in Listeners
  BY Zenon, LiveIo DEF Drop, Live, ConnInv, Io
<1>1. PICK l \in Listeners : l = conn[c].at
  BY Zenon, <1>0
<1>2. /\ conn' = [conn EXCEPT ![c] = Closed]
      /\ permits' = [permits EXCEPT ![l] = @ + 1] /\ active' = [active EXCEPT ![l] = @ - 1]
  BY Zenon, <1>1 DEF Drop
<1>3. ConnType'
  BY <1>2 DEF ConnInv, ConnType
<1>4. conn'[c] = Closed /\ \A d \in Conns : d # c => conn'[d] = conn[d]
  BY Zenon, <1>2 DEF ConnInv, ConnType
<1>5. ~Live(c)' /\ \A d \in Conns : d # c => (Live(d)' <=> Live(d))
  BY <1>4 DEF Live, Closed
<1>6. OfListener(l)' = OfListener(l) \ {c} /\ c \in OfListener(l)
  BY Zenon, <1>0, <1>1, <1>4, <1>5 DEF OfListener
<1>7. \A k \in Listeners : k # l => OfListener(k)' = OfListener(k)
  BY Zenon, <1>0, <1>1, <1>4, <1>5 DEF OfListener
<1>8. PermitsConserved'
  <2>1. IsFiniteSet(OfListener(l))
    BY Zenon, ConnectionsAssumption, FS_Subset DEF OfListener
  <2>2. Cardinality(OfListener(l))' = Cardinality(OfListener(l)) - 1
    BY Zenon, <2>1, <1>6, FS_RemoveElement
  <2>3. Cardinality(OfListener(l)) \in Nat
    BY Zenon, <2>1, FS_CardinalityType
  <2>4. permits'[l] = permits[l] + 1 /\ active'[l] = active[l] - 1
        /\ permits[l] \in Int /\ active[l] \in Int
    BY Zenon, <1>1, <1>2 DEF ConnInv, ConnType
  <2>5. \A k \in Listeners : k # l => permits'[k] = permits[k] /\ active'[k] = active[k]
    BY Zenon, <1>2 DEF ConnInv, ConnType
  <2>6. permits[l] + Cardinality(OfListener(l)) = MaxConnections[l]
        /\ active[l] = Cardinality(OfListener(l))
    BY Zenon, <1>1 DEF ConnInv, PermitsConserved
  <2>7. permits'[l] + Cardinality(OfListener(l))' = MaxConnections[l]
        /\ active'[l] = Cardinality(OfListener(l))'
    BY <2>2, <2>3, <2>4, <2>6
  <2>8. \A k \in Listeners : k # l =>
          permits'[k] + Cardinality(OfListener(k))' = MaxConnections[k]
          /\ active'[k] = Cardinality(OfListener(k))'
    BY Zenon, <2>5, <1>7 DEF ConnInv, PermitsConserved
  <2> QED BY Zenon, <2>7, <2>8 DEF PermitsConserved
<1>9. \A d \in Conns : Live(d)' => IoSound(conn[d])'
  <2> SUFFICES ASSUME NEW d \in Conns, Live(d)' PROVE IoSound(conn'[d])
    BY Zenon DEF IoSound, BodySound
  <2> QED BY Zenon, <1>4, <1>5 DEF ConnInv
<1> QED BY Zenon, <1>3, <1>8, <1>9 DEF ConnInv

\* Time moves every open connection towards its deadlines, and no permit.
LEMMA ElapseStep == ConnInv /\ Elapse => ConnInv'
<1> SUFFICES ASSUME ConnInv, Elapse PROVE ConnInv'
  BY Zenon
<1>1. \A c \in Conns : ~Open(c) => conn'[c] = conn[c]
  BY Zenon DEF Elapse
<1>2. ASSUME NEW c \in Conns, Open(c)
      PROVE  conn'[c] \in Io /\ conn'[c].at = conn[c].at /\ conn'[c].pc = "open" /\ IoSound(conn'[c])
  <2> DEFINE io == conn[c]
             rd == Down(io.read)
             wr == Down(io.write)
             si == IF io.silent < IdleTimeout THEN io.silent + 1 ELSE io.silent
             r == [io EXCEPT !.read = rd, !.write = wr, !.silent = si]
  <2>1. io \in Io /\ IoSound(io) /\ io.pc = "open"
    BY Zenon, <1>2, LiveIo DEF Open, Live, ConnInv
  <2>2. conn'[c] = r
    BY Zenon, <1>2 DEF Elapse
  <2>3. /\ rd \in Nat /\ wr \in Nat /\ si \in Nat /\ rd + si >= IdleTimeout /\ wr + si >= IdleTimeout
    <3>1. /\ io.read \in Nat /\ io.write \in Nat /\ io.silent \in Nat
          /\ io.read + io.silent >= IdleTimeout /\ io.write + io.silent >= IdleTimeout
      BY Zenon, <2>1 DEF Io, IoSound
    <3>2. IdleTimeout \in Nat
      BY Zenon, ConnectionsAssumption
    <3> HIDE DEF io
    <3> QED BY <3>1, <3>2 DEF Down
  <2>4. BodySound(io.body)
    BY Zenon, <2>1 DEF IoSound
  <2> HIDE DEF io, rd, wr, si
  <2>5. r \in Io /\ r.at = io.at /\ r.pc = "open" /\ r.read = rd /\ r.write = wr /\ r.silent = si
        /\ r.body = io.body
    BY Zenon, <2>1, <2>3 DEF Io
  <2> HIDE DEF r
  <2>6. IoSound(r)
    BY Zenon, <2>3, <2>4, <2>5 DEF IoSound
  <2> QED BY Zenon, <2>2, <2>5, <2>6 DEF io
<1>3. ConnType'
  <2>1. \A c \in Conns : conn'[c] \in Io \cup {Closed}
    BY Zenon, <1>1, <1>2 DEF ConnInv, ConnType
  <2>2. conn' = [c \in Conns |-> conn'[c]]
    BY Zenon DEF Elapse
  <2> QED BY Zenon, <2>1, <2>2 DEF ConnInv, ConnType, Elapse
<1>4. \A c \in Conns : Live(c)' <=> Live(c)
  BY Zenon, <1>1, <1>2 DEF Live, Open
<1>5. \A l \in Listeners : OfListener(l)' = OfListener(l)
  BY Zenon, <1>1, <1>2, <1>4 DEF OfListener
<1>6. PermitsConserved'
  BY Zenon, <1>5 DEF ConnInv, PermitsConserved, Elapse
<1>7. \A d \in Conns : Live(d)' => IoSound(conn[d])'
  <2> SUFFICES ASSUME NEW d \in Conns, Live(d)' PROVE IoSound(conn'[d])
    BY Zenon DEF IoSound, BodySound
  <2>1. CASE Open(d)
    BY Zenon, <2>1, <1>2
  <2>2. CASE ~Open(d)
    BY Zenon, <2>2, <1>1, <1>4 DEF ConnInv
  <2> QED BY Zenon, <2>1, <2>2
<1> QED BY Zenon, <1>3, <1>6, <1>7 DEF ConnInv

LEMMA InvSound == ConnInv => ConnectionsSound
<1> SUFFICES ASSUME ConnInv PROVE ConnectionsSound
  BY Zenon
<1>1. CutOnlyWhenSilent
  BY Zenon DEF ConnInv, CutOnlyWhenSilent, Live, IoSound
<1>2. ASSUME NEW c \in Conns, Live(c)
      PROVE  /\ conn[c].body.seen <= MaxBody
             /\ conn[c].body.pc = "done" =>
                  conn[c].body.seen = conn[c].body.got /\ conn[c].body.got <= MaxBody
                  /\ conn[c].body.recorded = 0
             /\ conn[c].body.pc = "refused" <=> conn[c].body.recorded = 1
             /\ conn[c].body.pc = "refused" =>
                  \/ conn[c].body.got > MaxBody
                  \/ conn[c].body.declared # Unknown /\ conn[c].body.declared > MaxBody
  <2> DEFINE b == conn[c].body
  <2>1. BodySound(b)
    BY Zenon, <1>2 DEF ConnInv, IoSound
  <2> HIDE DEF b
  <2>2. /\ b.seen <= MaxBody
        /\ b.pc = "done" => b.seen = b.got /\ b.got <= MaxBody /\ b.recorded = 0
        /\ b.pc = "refused" <=> b.recorded = 1
        /\ b.pc = "refused" => b.got > MaxBody \/ (b.declared # Unknown /\ b.declared > MaxBody)
    BY <2>1 DEF BodySound
  <2> QED BY Zenon, <2>2 DEF b
<1>3. BodiesBounded
  BY Zenon, <1>2 DEF BodiesBounded
<1> QED BY Zenon, <1>1, <1>3 DEF ConnInv, ConnectionsSound

\* For any number of connections and listeners and any limits: the permits of a
\* listener are conserved (accept and the drop of LimitedIo), a connection that
\* moves bytes either way is not cut, and no handler sees a body past the limit.
THEOREM ConnectionsCorrect == ConnectionsSpec => []ConnectionsSound
<1>1. ConnInv /\ [ConnectionsNext]_connVars => ConnInv'
  <2> SUFFICES ASSUME ConnInv, [ConnectionsNext]_connVars PROVE ConnInv'
    BY Zenon
  <2>1. CASE UNCHANGED connVars
    BY Zenon, <2>1 DEF connVars, ConnInv, ConnType, PermitsConserved, OfListener, Live, IoSound, BodySound
  <2>2. CASE Elapse
    BY Zenon, <2>2, ElapseStep
  <2>3. ASSUME NEW c \in Conns, \E l \in Listeners : Accept(c, l) PROVE ConnInv'
    BY Zenon, <2>3, AcceptStep
  <2>4. ASSUME NEW c \in Conns, Drop(c) PROVE ConnInv'
    BY Zenon, <2>4, DropStep
  <2>5. ASSUME NEW c \in Conns, PollWrite(c) \/ PollExpired(c) \/ Close(c) \/ FlightRead(c)
        PROVE  ConnInv'
    BY Zenon, <2>5, ConnectionStep
  <2>6. ASSUME NEW c \in Conns,
               \/ \E n \in 0 .. MaxBody + 1 : RequestHead(c, n)
               \/ RequestHead(c, Unknown)
               \/ \E n \in 1 .. MaxFrame : Frame(c, n)
               \/ EndOfBody(c)
        PROVE  ConnInv'
    BY Zenon, <2>6, BodyStep
  <2> QED BY Zenon, <2>1, <2>2, <2>3, <2>4, <2>5, <2>6 DEF ConnectionsNext
<1> QED BY <1>1, InitConn, InvSound, PTL DEF ConnectionsSpec
==============================================================================
