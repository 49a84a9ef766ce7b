------------------------------- MODULE Server -------------------------------
(***************************************************************************)
(* A data node from start to exit: the startup stages, the role's          *)
(* lifecycle, the listeners and their requests, the background tasks and   *)
(* the drain that a signal starts.  The writes go to one table.            *)
(*                                                                         *)
(* The signal reaches every task through one watch channel, at once; the   *)
(* drain then waits for them one after the other, within a timeout.        *)
(***************************************************************************)
EXTENDS Integers, Sequences, FiniteSets

CONSTANTS
  Requests,      \* request identities
  HasScheduler,  \* cluster.scheduler_enabled on this node
  MaxFailures    \* bound on failing flushes, stages and binds

VARIABLES
  req,       \* request -> its listener, kind and progress
  stage,     \* startup stages done
  role,      \* RoleLifecycle.state
  draining,  \* drain_requested, and the watch channel's value
  task,      \* background task -> "off", "on", "done"
  awaiting,  \* what the drain waits for next
  exit,      \* "none", "clean", "forced", "failed"
  lease,     \* the WAL's lease is held
  generation, \* generations given out
  held,      \* reserved generations
  buffered,  \* acknowledged generations not yet flushed, those in flight included
  flight,    \* those a flush has taken and kept
  flushState, \* TableFlushState: "idle", "prepared" or "blocked"
  late,      \* history: generations acknowledged after the final flush
  final,     \* history: what the final flush met, and whether it failed
  probe,     \* GET /ready
  failures

tableVars == <<generation, held, buffered, flight, flushState, late, final>>
nodeVars == <<stage, role, draining, task, awaiting, exit, lease, probe, failures>>
vars == <<req, nodeVars, tableVars>>

ASSUME ServerConstants == HasScheduler \in BOOLEAN /\ MaxFailures \in Nat

Stages == <<"config", "catalog", "wal", "storage", "replay", "query", "cluster", "app_state",
            "flush", "readiness", "maintenance", "tls", "listeners">>
Tasks == <<"rest", "flight", "flush", "maintenance", "executor", "scheduler">>

Unborn == [pc |-> "unborn", via |-> "rest", scope |-> "read", gen |-> 0]
InFlight(r) == req[r].pc \in {"handling", "appending", "streaming"}
LiveVia(via) == {r \in Requests : InFlight(r) /\ req[r].via = via}
Running == exit = "none"

-----------------------------------------------------------------------------
(* RoleLifecycle: each transition loads the state and swaps it once. *)

MarkReady == role' = IF role = "starting" THEN "ready" ELSE role

MarkDraining == role' = IF role \in {"starting", "ready"} THEN "draining" ELSE role
MarkStopped == role' = IF role = "draining" THEN "stopped" ELSE role
MarkFailed == role' = IF role \in {"stopped", "failed"} THEN role ELSE "failed"

-----------------------------------------------------------------------------
(* Startup: the stages in order; a failing one ends the process. *)

Spawned(s) ==
  CASE s = "cluster" -> {"executor"} \cup (IF HasScheduler THEN {"scheduler"} ELSE {})
    [] s = "flush" -> {"flush"}
    [] s = "maintenance" -> {"maintenance"}
    [] s = "listeners" -> {"rest", "flight"}
    [] OTHER -> {}

StartStage ==
  LET s == Stages[stage + 1] IN
  /\ Running /\ stage < Len(Stages)
  /\ stage' = stage + 1
  /\ lease' = (lease \/ s = "wal")
  /\ task' = [t \in DOMAIN task |-> IF t \in Spawned(s) THEN "on" ELSE task[t]]
  /\ IF s = "listeners" THEN MarkReady ELSE UNCHANGED role
  /\ UNCHANGED <<req, draining, awaiting, exit, tableVars, probe, failures>>

\* Only a failing readiness check is recorded in the role.
StageFails ==
  LET s == Stages[stage + 1] IN
  /\ Running /\ stage < Len(Stages) /\ s \notin {"flush", "listeners"}
  /\ failures > 0 /\ failures' = failures - 1
  /\ exit' = "failed" /\ lease' = FALSE
  /\ IF s = "readiness" THEN MarkFailed ELSE UNCHANGED role
  /\ UNCHANGED <<req, stage, draining, task, awaiting, tableVars, probe>>

\* A listener that cannot bind ends its task; the node goes on without it.
BindFails(t) ==
  /\ Running /\ t \in {"rest", "flight"} /\ task[t] = "on"
  /\ \A r \in Requests : req[r].via = t => req[r].pc = "unborn"
  /\ failures > 0 /\ failures' = failures - 1
  /\ task' = [task EXCEPT ![t] = "done"]
  /\ UNCHANGED <<req, stage, role, draining, awaiting, exit, lease, tableVars, probe>>

-----------------------------------------------------------------------------
(* Requests. *)

\* A connection is accepted until the listener sees the drain; one that is open
\* by then can still send a request.
AcceptRequest(r, via, scope) ==
  /\ Running /\ task[via] = "on" /\ req[r].pc = "unborn"
  /\ draining => \E q \in LiveVia(via) : q # r
  /\ req' = [req EXCEPT ![r] = [pc |-> "handling", via |-> via, scope |-> scope, gen |-> 0]]
  /\ UNCHANGED <<nodeVars, tableVars>>

\* A write reserves its generation, then awaits its append.
Reserve(r) ==
  /\ Running /\ req[r].pc = "handling" /\ req[r].scope = "write"
  /\ generation' = generation + 1 /\ held' = held \cup {generation + 1}
  /\ req' = [req EXCEPT ![r].pc = "appending", ![r].gen = generation + 1]
  /\ UNCHANGED <<nodeVars, buffered, flight, flushState, late, final>>

\* The handler returns: a write it acknowledges is in the WAL and in the buffer;
\* one that was refused, or whose append failed, has no reservation left.
Handle(r) ==
  /\ Running
  /\ \/ /\ req[r].pc = "appending" /\ buffered' = buffered \cup {req[r].gen}
        /\ late' = IF task["flush"] = "done" THEN late \cup {req[r].gen} ELSE late
     \/ req[r].pc \in {"handling", "appending"} /\ UNCHANGED <<buffered, late>>
  /\ held' = held \ {req[r].gen}
  /\ req' = [req EXCEPT ![r].pc = "streaming"]
  /\ UNCHANGED <<nodeVars, generation, flight, flushState, final>>

\* The body ended, or the connection went away before: a handler that is dropped
\* while it awaits its append leaves its reservation behind.
Leave(r) ==
  /\ Running /\ InFlight(r)
  /\ req' = [req EXCEPT ![r] = [Unborn EXCEPT !.pc = "gone"]]
  /\ UNCHANGED <<nodeVars, tableVars>>

-----------------------------------------------------------------------------
(* Background tasks. *)

\* drain_pending_to_in_flight: what is in flight already, and nothing else, or
\* what is below every reservation.
Taken == IF flight # {} THEN flight ELSE {g \in buffered : \A h \in held : g < h}

Publishes ==
  /\ buffered' = buffered \ Taken /\ flight' = {} /\ flushState' = "idle"
  /\ UNCHANGED failures

\* The files or the commit fail and the batches go back; or the intent is kept,
\* prepared or blocked.
FlushFails ==
  /\ Taken # {} /\ failures > 0 /\ failures' = failures - 1
  /\ \/ flight' = {} /\ flushState' = "idle"
     \/ flight' = Taken /\ flushState' \in {"prepared", "blocked"}
        /\ (flushState = "blocked" => flushState' = "blocked")
  /\ UNCHANGED buffered

\* flush_all_tables: one pass.  A blocked table is passed over, or its intent
\* checked again when that is due, and stays as it is while its fate is unknown.
FlushPasses ==
  \/ Publishes
  \/ flushState = "blocked" /\ UNCHANGED <<buffered, flight, flushState, failures>>

\* flush_loop's tick.
FlushTick ==
  /\ Running /\ task["flush"] = "on" /\ buffered # {}
  /\ FlushPasses \/ FlushFails
  /\ UNCHANGED <<req, stage, role, draining, task, awaiting, exit, lease, probe, generation, held,
                 late, final>>

\* Mutation: the flush loop returns without its final flush.
FinalFlush_Skipped ==
  /\ Running /\ task["flush"] = "on" /\ draining
  /\ task' = [task EXCEPT !["flush"] = "done"]
  /\ UNCHANGED <<req, stage, role, draining, awaiting, exit, lease, probe, failures, tableVars>>

Met(failed) == [intent |-> flushState, flight |-> flight, held |-> held, failed |-> failed]

\* The loop sees the watch channel: one more pass, and the end.
FinalFlush ==
  /\ Running /\ task["flush"] = "on" /\ draining
  /\ task' = [task EXCEPT !["flush"] = "done"]
  /\ \/ FlushPasses /\ final' = Met(FALSE)
     \/ FlushFails /\ final' = Met(TRUE)
  /\ UNCHANGED <<req, stage, role, draining, awaiting, exit, lease, probe, generation, held, late>>

\* A listener ends when its last request is gone; maintenance after its cycle;
\* the executor when it has drained or its own timeout passes; the scheduler
\* when it has no jobs, or its timeout passes.
CanEnd(t) == IF t \in {"rest", "flight"} THEN LiveVia(t) = {} ELSE t # "flush"

EndTask(t) ==
  /\ Running /\ task[t] = "on" /\ draining /\ CanEnd(t)
  /\ task' = [task EXCEPT ![t] = "done"]
  /\ UNCHANGED <<req, stage, role, draining, awaiting, exit, lease, tableVars, probe,
                 failures>>

-----------------------------------------------------------------------------
(* The drain. *)

Signal ==
  /\ Running /\ stage = Len(Stages) /\ ~draining
  /\ draining' = TRUE
  /\ UNCHANGED <<req, stage, role, task, awaiting, exit, lease, tableVars, probe, failures>>

\* mark_draining follows request_drain, then the wait starts.
BeginDrain ==
  /\ Running /\ draining /\ awaiting = 0
  /\ MarkDraining /\ awaiting' = 1
  /\ UNCHANGED <<req, stage, draining, task, exit, lease, tableVars, probe, failures>>

AwaitTask ==
  /\ Running /\ awaiting \in 1 .. Len(Tasks) /\ task[Tasks[awaiting]] # "on"
  /\ awaiting' = awaiting + 1
  /\ UNCHANGED <<req, stage, role, draining, task, exit, lease, tableVars, probe, failures>>

\* Everything ended: the role stops, then the lease is released.
Stop ==
  /\ Running /\ awaiting = Len(Tasks) + 1
  /\ MarkStopped /\ lease' = FALSE /\ exit' = "clean"
  /\ UNCHANGED <<req, stage, draining, task, awaiting, tableVars, probe, failures>>

\* Mutation: only the wait for the last task is limited.
DrainTimeout_LastOnly ==
  /\ Running /\ awaiting = Len(Tasks)
  /\ MarkFailed /\ exit' = "forced" /\ lease' = FALSE
  /\ UNCHANGED <<req, stage, draining, task, awaiting, tableVars, probe, failures>>

\* drain_with_timeout elapsed: the process exits where it stands.
DrainTimeout ==
  /\ Running /\ awaiting \in 1 .. Len(Tasks)
  /\ MarkFailed /\ exit' = "forced" /\ lease' = FALSE
  /\ UNCHANGED <<req, stage, draining, task, awaiting, tableVars, probe, failures>>

-----------------------------------------------------------------------------
(* GET /ready: the role and the flag are read first, the dependencies after. *)

ProbeStart ==
  /\ Running /\ task["rest"] = "on" /\ probe.pc = "idle"
  /\ probe' = IF role = "ready" /\ ~draining THEN [probe EXCEPT !.pc = "checking"]
              ELSE [pc |-> "idle", answer |-> 503]
  /\ UNCHANGED <<req, stage, role, draining, task, awaiting, exit, lease, tableVars,
                 failures>>

ProbeAnswer ==
  /\ Running /\ probe.pc = "checking"
  /\ \E code \in {200, 503} : probe' = [pc |-> "idle", answer |-> code]
  /\ UNCHANGED <<req, stage, role, draining, task, awaiting, exit, lease, tableVars,
                 failures>>

-----------------------------------------------------------------------------

Init ==
  /\ req = [r \in Requests |-> Unborn]
  /\ stage = 0 /\ role = "starting" /\ draining = FALSE
  /\ task = [t \in {Tasks[i] : i \in 1 .. Len(Tasks)} |-> "off"]
  /\ awaiting = 0 /\ exit = "none" /\ lease = FALSE
  /\ generation = 0 /\ held = {} /\ buffered = {} /\ flight = {} /\ flushState = "idle"
  /\ late = {} /\ final = [intent |-> "idle", flight |-> {}, held |-> {}, failed |-> FALSE]
  /\ probe = [pc |-> "idle", answer |-> 0]
  /\ failures = MaxFailures

NodeStep ==
  \/ StartStage \/ FinalFlush \/ BeginDrain \/ AwaitTask \/ Stop \/ DrainTimeout
  \/ \E t \in DOMAIN task : EndTask(t)

Next ==
  \/ NodeStep \/ StageFails \/ FlushTick \/ Signal \/ ProbeStart \/ ProbeAnswer
  \/ \E t \in {"rest", "flight"} : BindFails(t)
  \/ \E r \in Requests : \/ Reserve(r) \/ Handle(r) \/ Leave(r)
                         \/ \E via \in {"rest", "flight"}, scope \in {"read", "write"} :
                              AcceptRequest(r, via, scope)

Spec == Init /\ [][Next]_vars

\* The main task, its timers and the tasks it spawned keep running.
FairSpec == Spec /\ WF_vars(NodeStep)

-----------------------------------------------------------------------------
(* Properties. *)

TypeOK ==
  /\ role \in {"starting", "ready", "draining", "stopped", "failed"}
  /\ exit \in {"none", "clean", "forced", "failed"}
  /\ \A t \in DOMAIN task : task[t] \in {"off", "on", "done"}
  /\ flushState \in {"idle", "prepared", "blocked"} /\ (flushState # "idle" => flight # {})
  /\ stage \in 0 .. Len(Stages) /\ awaiting \in 0 .. Len(Tasks) + 1

\* "Startup checks config before it opens public listeners": no request is
\* accepted before the last stage has passed.
NoTrafficBeforeReady ==
  \A r \in Requests : req[r].pc # "unborn" => stage = Len(Stages) /\ role # "starting"

\* The process reports a clean stop only when every task it started has ended,
\* no request is in a handler, and the WAL is free for the next instance.
CleanStop ==
  exit = "clean" =>
    /\ role = "stopped" /\ ~lease
    /\ \A t \in DOMAIN task : task[t] # "on"
    /\ \A r \in Requests : ~InFlight(r)

\* What the final flush leaves: when it fails; in a blocked table; when it met an
\* intent, all but that; and what is not older than every reservation it met.
PassedOver(g) ==
  \/ final.failed
  \/ final.intent = "blocked"
  \/ final.flight # {} /\ g \notin final.flight
  \/ \E h \in final.held : h <= g

\* What a clean stop leaves unflushed was acknowledged after the final flush or is
\* what one pass of it leaves.
NothingForgotten == exit = "clean" => \A g \in buffered : g \in late \/ PassedOver(g)

\* Requests come in only when the node is ready, and a clean exit leaves no task,
\* no handler, no held WAL and no batch that one pass of the flush would take.
StopsClean == TypeOK /\ NoTrafficBeforeReady /\ CleanStop /\ NothingForgotten

\* A signalled node exits.
Exits == draining ~> exit # "none"

\* "Shutdown follows this order: ... 2. Drain active requests.  3. Run the final
\* flush where the role owns ingest."
FlushAfterRequests ==
  task["flush"] = "done" => \A r \in Requests : ~(InFlight(r) /\ req[r].scope = "write")
=============================================================================
