----------------------------- MODULE GatewayBoot -----------------------------
(* A gateway's process: main of boot.py with its hydration, its registration *)
(* and its lane-locked task, and the handlers of SIGTERM and SIGINT that     *)
(* shut it down.  asyncio.run cancels every task once when a handler's       *)
(* sys.exit ends the loop, and waits until all of them are done.             *)
EXTENDS Naturals

CONSTANTS
    MaxSignals      \* bound: signals sent to the process

VARIABLES
    hasTask,        \* TASK_ID is set
    stage,          \* where main is
    context,        \* what the hydration brought
    mesh,           \* the connections of the cluster manager
    lane,           \* where the lane-locked execution of the task is
    locked,         \* the lane's key holds this gateway's lock
    heart,          \* the heartbeat task runs
    stops,          \* how far the handler of each signal is
    closing,        \* how far main's own _graceful_shutdown is
    cancelling,     \* asyncio.run has cancelled all tasks
    cancel,         \* main is to get a CancelledError
    ended           \* the process is gone

bootVars == <<hasTask, stage, context, mesh, lane, locked, heart, stops, closing,
              cancelling, cancel, ended>>

Signal == 1 .. MaxSignals
Shutdown == {"none", "offline", "drain", "close", "exit", "over"}

BootTypeOK ==
    /\ hasTask \in BOOLEAN
    /\ stage \in {"hydrate", "register", "task", "standby", "cleanup", "end"}
    /\ context \in {"pending", "empty", "checkpoint", "failed"}
    /\ mesh \in {"none", "open", "draining", "closed"}
    /\ lane \in {"out", "entering", "held", "backoff"}
    /\ locked \in BOOLEAN /\ heart \in BOOLEAN
    /\ stops \in [Signal -> Shutdown] /\ closing \in Shutdown
    /\ cancelling \in BOOLEAN /\ cancel \in BOOLEAN /\ ended \in BOOLEAN

BootInit ==
    /\ hasTask \in BOOLEAN
    /\ stage = "hydrate" /\ context = "pending"
    /\ mesh = "none"
    /\ lane = "out" /\ locked = FALSE
    /\ heart = FALSE
    /\ stops = [s \in Signal |-> "none"] /\ closing = "none"
    /\ cancelling = FALSE /\ cancel = FALSE /\ ended = FALSE

-----------------------------------------------------------------------------
(* main                                                                      *)

\* hydrate_state ends: only a process with a task looks for a checkpoint, and
\* a search that fails is as good as one that finds nothing.
Hydrate(found) ==
    /\ ~ended /\ stage = "hydrate"
    /\ found => hasTask
    /\ context' = IF found THEN "checkpoint" ELSE "empty"
    /\ stage' = "register"
    /\ UNCHANGED <<hasTask, mesh, lane, locked, heart, stops, closing, cancelling,
                   cancel, ended>>

\* hydrate_with_timeout gives up: main goes on with an empty context.
HydrationTimesOut ==
    /\ ~ended /\ stage = "hydrate"
    /\ context' = "failed"
    /\ stage' = "register"
    /\ UNCHANGED <<hasTask, mesh, lane, locked, heart, stops, closing, cancelling,
                   cancel, ended>>

\* What main does after the registration up to its next await.  Without a
\* cluster the task cannot even begin and main goes on to its end.
Begin(connected) ==
    /\ heart' = (connected /\ hasTask)
    /\ stage' = IF ~hasTask THEN "standby"
                ELSE IF connected THEN "task" ELSE "cleanup"
    /\ lane' = IF stage' = "task" THEN "entering" ELSE "out"
    /\ closing' = IF stage' = "cleanup" THEN "offline" ELSE "none"

\* register_with_mesh returns the cluster manager or raises.
Register(connected) ==
    /\ ~ended /\ stage = "register"
    /\ mesh' = IF connected THEN "open" ELSE "none"
    /\ Begin(connected)
    /\ UNCHANGED <<hasTask, context, locked, stops, cancelling, cancel, ended>>

\* __aenter__ takes the lane, unless a lock of this task is still there.
EnterLane ==
    /\ ~ended /\ stage = "task" /\ lane = "entering" /\ ~cancel
    /\ mesh \in {"open", "draining"} /\ ~locked
    /\ locked' = TRUE /\ lane' = "held"
    /\ UNCHANGED <<hasTask, stage, context, mesh, heart, stops, closing, cancelling,
                   cancel, ended>>

\* __aenter__ raises: the lane is contested, a claim of this task is there or
\* the mesh does not answer.  The lock may have been made before.
EnterFails(made) ==
    /\ ~ended /\ stage = "task" /\ lane = "entering" /\ ~cancel
    /\ made => mesh \in {"open", "draining"}
    /\ locked' = (locked \/ made) /\ lane' = "backoff"
    /\ UNCHANGED <<hasTask, stage, context, mesh, heart, stops, closing, cancelling,
                   cancel, ended>>

EndBackoff ==
    /\ ~ended /\ stage = "task" /\ lane = "backoff" /\ ~cancel
    /\ lane' = "entering"
    /\ UNCHANGED <<hasTask, stage, context, mesh, locked, heart, stops, closing,
                   cancelling, cancel, ended>>

\* __aexit__ releases what it can and suppresses the exception it was called
\* with, unless its own events cannot be published.
ExitLane ==
    /\ locked' \in IF mesh \in {"open", "draining"} THEN {FALSE, TRUE} ELSE {locked}
    /\ lane' \in IF mesh = "closed" THEN {"backoff"} ELSE {"entering", "backoff"}

\* Publishing the claim fails inside the execution.
TaskFails ==
    /\ ~ended /\ stage = "task" /\ lane = "held" /\ ~cancel
    /\ ExitLane
    /\ UNCHANGED <<hasTask, stage, context, mesh, heart, stops, closing, cancelling,
                   cancel, ended>>

\* The TTL of the lanes bucket, once nobody renews the lock.
LaneExpires ==
    /\ locked /\ (lane # "held" \/ mesh = "closed" \/ ended)
    /\ locked' = FALSE
    /\ UNCHANGED <<hasTask, stage, context, mesh, lane, heart, stops, closing,
                   cancelling, cancel, ended>>

\* Mutant: the standby loop goes on after its cancellation.
CancelMainSwallowed ==
    /\ ~ended /\ cancel /\ stage = "standby"
    /\ cancel' = FALSE
    /\ UNCHANGED <<hasTask, stage, context, mesh, lane, locked, heart, stops,
                   closing, cancelling, ended>>

\* The CancelledError reaches main.  In the execution it is __aexit__ that
\* gets and suppresses it; anywhere else it leads to main's finally, or out
\* of it when that has begun.
CancelMain ==
    /\ ~ended /\ cancel
    /\ cancel' = FALSE
    /\ \/ /\ stage = "task" /\ lane = "held"
          /\ ExitLane
          /\ UNCHANGED <<stage, closing>>
       \/ /\ stage = "standby" \/ (stage = "task" /\ lane # "held")
          /\ stage' = "cleanup" /\ closing' = "offline"
          /\ lane' = "out"
          /\ UNCHANGED locked
       \/ /\ stage = "cleanup"
          /\ stage' = "end" /\ closing' = "over"
          /\ UNCHANGED <<lane, locked>>
    /\ UNCHANGED <<hasTask, context, mesh, heart, stops, cancelling, ended>>

-----------------------------------------------------------------------------
(* _graceful_shutdown, by main's finally and by the handler of a signal: the  *)
(* heartbeat is cancelled, "offline" published, the connection drained, the   *)
(* manager closed.  Each of these is tried also when an earlier one failed.   *)
\* The state of the mesh after a step, and the next step.
AfterStep(step, after) ==
    CASE step = "offline" -> <<mesh, IF mesh = "none" THEN after ELSE "drain">>
      [] step = "drain" -> <<IF mesh = "closed" THEN mesh ELSE "draining", "close">>
      [] step = "close" -> <<"closed", after>>

\* A drained client closes by itself.
DrainEnds ==
    /\ ~ended /\ mesh = "draining"
    /\ mesh' = "closed"
    /\ UNCHANGED <<hasTask, stage, context, lane, locked, heart, stops, closing,
                   cancelling, cancel, ended>>

Finalise ==
    /\ ~ended /\ stage = "cleanup" /\ ~cancel
    /\ heart' = FALSE
    /\ mesh' = AfterStep(closing, "over")[1]
    /\ closing' = AfterStep(closing, "over")[2]
    /\ stage' = IF closing' = "over" THEN "end" ELSE stage
    /\ UNCHANGED <<hasTask, context, lane, locked, stops, cancelling, cancel, ended>>

\* A signal arrives.  Before main installs its handlers it kills the process.
SendSignal(s) ==
    /\ ~ended /\ stops[s] = "none" /\ \A t \in 1 .. s - 1 : stops[t] # "none"
    /\ IF stage \in {"hydrate", "register"}
       THEN ended' = TRUE /\ stops' = [stops EXCEPT ![s] = "over"]
       ELSE stops' = [stops EXCEPT ![s] = "offline"] /\ UNCHANGED ended
    /\ UNCHANGED <<hasTask, stage, context, mesh, lane, locked, heart, closing,
                   cancelling, cancel>>

HandleSignal(s) ==
    /\ ~ended /\ stops[s] \in {"offline", "drain", "close"}
    /\ heart' = FALSE
    /\ mesh' = AfterStep(stops[s], "exit")[1]
    /\ stops' = [stops EXCEPT ![s] = AfterStep(stops[s], "exit")[2]]
    /\ UNCHANGED <<hasTask, stage, context, lane, locked, closing, cancelling,
                   cancel, ended>>

\* wait_for gives the handler five seconds.
HandlerTimesOut(s) ==
    /\ ~ended /\ stops[s] \in {"drain", "close"}
    /\ stops' = [stops EXCEPT ![s] = "exit"]
    /\ UNCHANGED <<hasTask, stage, context, mesh, lane, locked, heart, closing,
                   cancelling, cancel, ended>>

\* Mutant: sys.exit only cancels, whatever was cancelled before.
ExitAgain(s) ==
    /\ ~ended /\ stops[s] = "exit"
    /\ stops' = [t \in Signal |-> IF stops[t] = "none" THEN "none" ELSE "over"]
    /\ cancelling' = TRUE
    /\ cancel' = (stage # "end")
    /\ UNCHANGED <<hasTask, stage, context, mesh, lane, locked, heart, closing, ended>>

\* sys.exit(0) in a handler: the first one makes asyncio.run cancel all the
\* tasks, handlers of other signals included; one that comes while it waits
\* for them ends the process.
Exit(s) ==
    /\ ~ended /\ stops[s] = "exit"
    /\ stops' = [t \in Signal |-> IF stops[t] = "none" THEN "none" ELSE "over"]
    /\ cancelling' = TRUE
    /\ ended' = cancelling
    /\ cancel' = (~cancelling /\ stage # "end")
    /\ heart' = FALSE
    /\ UNCHANGED <<hasTask, stage, context, mesh, lane, locked, closing>>

\* main has returned: asyncio.run cancels what is left and returns.
Return ==
    /\ ~ended /\ stage = "end"
    /\ ended' = TRUE
    /\ UNCHANGED <<hasTask, stage, context, mesh, lane, locked, heart, stops,
                   closing, cancelling, cancel>>

Main ==
    \/ \E found \in BOOLEAN : Hydrate(found)
    \/ HydrationTimesOut
    \/ \E connected \in BOOLEAN : Register(connected)
    \/ EnterLane
    \/ \E made \in BOOLEAN : EnterFails(made)
    \/ EndBackoff
    \/ CancelMain
    \/ Finalise
    \/ Return

Handler(s) == HandleSignal(s) \/ HandlerTimesOut(s) \/ Exit(s)

BootNext ==
    \/ Main
    \/ TaskFails
    \/ LaneExpires
    \/ DrainEnds
    \/ \E s \in Signal : SendSignal(s) \/ Handler(s)

\* The event loop runs every task that can go on, the client's included.
BootFairness ==
    /\ WF_bootVars(Main) /\ WF_bootVars(DrainEnds)
    /\ \A s \in Signal : WF_bootVars(Handler(s))

BootSpec == BootInit /\ [][BootNext]_bootVars /\ BootFairness

-----------------------------------------------------------------------------
Signalled == \E s \in Signal : stops[s] # "none"

\* SIGTERM and SIGINT end the process cleanly (hardening.py:413-417: "When a
\* container receives SIGTERM (Docker stop), it must: ... 4. Then exit cleanly").
SignalEnds == Signalled ~> ended

\* A signal ends a gateway that has no task, and any gateway once an earlier
\* signal's handler has called sys.exit (boot.py, main; hardening.py,
\* install_signal_handlers).
StandbyOrSecondSignalEnds ==
    /\ (~hasTask /\ Signalled) ~> ended
    /\ (cancelling /\ \E s \in Signal : stops[s] \notin {"none", "over"}) ~> ended

=============================================================================
