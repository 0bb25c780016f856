--------------------------- MODULE GatewayRestart ---------------------------
(***************************************************************************)
(* The gateway's run loop (cli/gateway-cli/run-loop.ts) and the requests   *)
(* that restart it (infra/restart.ts, the config watcher's                 *)
(* requestGatewayRestart), over the command lanes of CommandQueue.         *)
(*                                                                         *)
(* emitGatewayRestart authorises one SIGUSR1 and emits it synchronously;   *)
(* the listener consumes the authorisation and the token before it         *)
(* returns, so neither is ever pending between two actions.                *)
(***************************************************************************)
EXTENDS CommandQueue

CONSTANTS
    SessionLanes,   \* the lanes of sessions, the others being main, cron, subagent
    MaxGeneration,  \* bound: in-process restarts, later ones replace the process
    MaxPolls        \* bound: restart requests that wait for idleness at a time

ASSUME RestartAssumption ==
    /\ SessionLanes \subseteq Lanes
    /\ MaxGeneration \in Nat
    /\ MaxPolls \in Nat \ {0}

VARIABLES
    loop,       \* runGatewayLoop: awaits start(), awaits a restart, has exited
    server,     \* the variable server holds a started server
    resolver,   \* restartResolver: null, of the current wait, of an earlier one
    shutdown,   \* the request being carried out
    waitingFor, \* activeAtStart of waitForActiveTasks
    timer,      \* pendingRestartTimer is set
    polls       \* deferGatewayRestartUntilIdle intervals: of this server's
                \* config watcher (restartPending), and all others

loopVars == <<loop, server, resolver, shutdown, waitingFor, timer, polls>>
vars == <<laneVars, loopVars>>

NoShutdown == [phase |-> "none", action |-> "none", drained |-> FALSE]

TypeOK ==
    /\ LaneTypeOK
    /\ loop \in {"starting", "waiting", "exited"}
    /\ server \in BOOLEAN
    /\ resolver \in {"null", "live", "used"}
    /\ shutdown \in [phase : {"none", "draining", "closing"},
                     action : {"none", "stop", "restart"}, drained : BOOLEAN]
    /\ waitingFor \subseteq Commands
    /\ timer \in BOOLEAN
    /\ polls \in [watcher : 0 .. 1, other : 0 .. MaxPolls]

Init ==
    /\ LaneInit
    /\ loop = "starting"
    /\ server = FALSE
    /\ resolver = "null"
    /\ shutdown = NoShutdown
    /\ waitingFor = {}
    /\ timer = FALSE
    /\ polls = [watcher |-> 0, other |-> 0]

Up == loop # "exited"

(***************************************************************************)
(* runtime.exit: the timers and the loop's state go with the process.      *)
(***************************************************************************)
Exit ==
    /\ loop' = "exited"
    /\ server' = FALSE
    /\ resolver' = "null"
    /\ shutdown' = NoShutdown
    /\ waitingFor' = {}
    /\ timer' = FALSE
    /\ polls' = [watcher |-> 0, other |-> 0]
    /\ UNCHANGED laneVars

(***************************************************************************)
(* The callers of the lanes, while the process lives.  A config reload     *)
(* sets the limits of the global lanes; an interrupting message or a reset *)
(* of the session clears the lane of a session, whose limit stays 1.       *)
(***************************************************************************)
EnqueueCommand(c) ==
    Up /\ Enqueue(c) /\ UNCHANGED loopVars

ReloadLimit(l, m) ==
    Up /\ m # maxConcurrent[l] /\ SetConcurrency(l, m) /\ UNCHANGED loopVars

ClearSession(l) ==
    Up /\ queue[l] # <<>> /\ Clear(l) /\ UNCHANGED loopVars

TaskEnds(c) ==
    /\ Up
    /\ Finish(c)
    /\ UNCHANGED loopVars

-----------------------------------------------------------------------------
(***************************************************************************)
(* start() resolves: the loop stores the server and waits with a new       *)
(* resolver.  A new server has a config watcher without a pending restart; *)
(* the interval of the old one's is not cleared.  Or start() throws.       *)
(***************************************************************************)
StartDone ==
    /\ loop = "starting"
    /\ loop' = "waiting"
    /\ server' = TRUE
    /\ resolver' = "live"
    /\ polls.watcher + polls.other <= MaxPolls
    /\ polls' = [watcher |-> 0, other |-> polls.watcher + polls.other]
    /\ UNCHANGED <<laneVars, shutdown, waitingFor, timer>>

StartFails == loop = "starting" /\ Exit

(***************************************************************************)
(* request: ignored while another one is carried out.  Otherwise the code  *)
(* runs to its first await: a restart with active tasks takes their ids    *)
(* and waits for them, everything else goes on to close the server.        *)
(***************************************************************************)
Request(action) ==
    IF shutdown.phase # "none"
    THEN UNCHANGED <<shutdown, waitingFor>>
    ELSE LET drains == action = "restart" /\ ActiveTasks # {}
         IN  /\ shutdown' = [phase |-> IF drains THEN "draining" ELSE "closing",
                             action |-> action, drained |-> FALSE]
             /\ waitingFor' = IF drains THEN ActiveTasks ELSE {}

Signal(action) ==           \* SIGTERM, SIGINT, or a SIGUSR1 from outside
    /\ Up
    /\ shutdown.phase = "none"
    /\ Request(action)
    /\ UNCHANGED <<laneVars, loop, server, resolver, timer, polls>>

(***************************************************************************)
(* waitForActiveTasks: its poll finds none of the ids active, or the       *)
(* deadline has passed; then the server is closed.                         *)
(***************************************************************************)
StopDraining(drained) ==
    /\ Up
    /\ shutdown.phase = "draining"
    /\ shutdown' = [shutdown EXCEPT !.phase = "closing", !.drained = drained]
    /\ UNCHANGED <<laneVars, loop, server, resolver, waitingFor, timer, polls>>

DrainPollCountsOneLane ==       \* mutant: the poll looks at one lane only
    (\E l \in Lanes : waitingFor \cap active[l] = {}) /\ StopDraining(TRUE)

DrainPoll == waitingFor \cap ActiveTasks = {} /\ StopDraining(TRUE)

DrainTimeout == waitingFor \cap ActiveTasks # {} /\ StopDraining(FALSE)

(***************************************************************************)
(* The finally block after server.close.  A stop exits.  A restart either  *)
(* replaces the process or resolves the wait of the loop, whose next       *)
(* iteration resets the lanes and calls start() before any other event is  *)
(* handled.  A resolver of an earlier wait wakes nobody.                   *)
(***************************************************************************)
RestartForgetsLoop ==           \* mutant: the wait of the loop is not resolved
    /\ generation < MaxGeneration
    /\ shutdown.action = "restart"
    /\ server' = FALSE
    /\ shutdown' = NoShutdown
    /\ waitingFor' = {}
    /\ UNCHANGED <<laneVars, loop, resolver, timer, polls>>

RestartInProcess ==
    /\ generation < MaxGeneration
    /\ shutdown.action = "restart"
    /\ server' = FALSE
    /\ shutdown' = NoShutdown
    /\ waitingFor' = {}
    /\ UNCHANGED <<timer, polls>>
    /\ IF resolver = "live"
       THEN Reset /\ loop' = "starting" /\ resolver' = "used"
       ELSE UNCHANGED <<laneVars, loop, resolver>>

CloseDone ==
    /\ Up
    /\ shutdown.phase = "closing"
    /\ Exit \/ RestartInProcess

(***************************************************************************)
(* The force-exit timer.  It is armed for the drain and 5 s more, so that  *)
(* it fires only while the server is being closed.                         *)
(***************************************************************************)
ForceExit == Up /\ shutdown.phase = "closing" /\ Exit

-----------------------------------------------------------------------------
(***************************************************************************)
(* emitGatewayRestart clears a scheduled restart and signals.              *)
(***************************************************************************)
EmitRestart ==
    /\ timer' = FALSE
    /\ Request("restart")
    /\ UNCHANGED <<laneVars, loop, server, resolver>>

(***************************************************************************)
(* scheduleGatewaySigusr1Restart: a second call before the timer fires is  *)
(* coalesced.  The timer emits when nothing is pending and polls otherwise.*)
(***************************************************************************)
ScheduleRestart ==
    /\ Up
    /\ ~timer
    /\ timer' = TRUE
    /\ UNCHANGED <<laneVars, loop, server, resolver, shutdown, waitingFor, polls>>

ScheduledTimerFires ==
    /\ Up
    /\ timer
    /\ IF Idle
       THEN EmitRestart /\ UNCHANGED polls
       ELSE /\ polls.other < MaxPolls
            /\ polls' = [polls EXCEPT !.other = @ + 1]
            /\ timer' = FALSE
            /\ UNCHANGED <<laneVars, loop, server, resolver, shutdown, waitingFor>>

(***************************************************************************)
(* requestGatewayRestart of the config watcher: one deferral per server.   *)
(***************************************************************************)
ConfigRestart ==
    /\ loop = "waiting"
    /\ IF Idle
       THEN EmitRestart /\ UNCHANGED polls
       ELSE /\ polls.watcher = 0
            /\ polls' = [polls EXCEPT !.watcher = 1]
            /\ UNCHANGED <<laneVars, loop, server, resolver, shutdown, waitingFor, timer>>

(***************************************************************************)
(* An interval of deferGatewayRestartUntilIdle: nothing is pending, or it  *)
(* has waited for its maximum; it ends and emits.                          *)
(***************************************************************************)
PollFires(kind) ==
    /\ Up
    /\ polls[kind] > 0
    /\ polls' = [polls EXCEPT ![kind] = @ - 1]
    /\ EmitRestart

Done == ~Up /\ UNCHANGED vars

Next ==
    \/ \E c \in Commands : EnqueueCommand(c) \/ TaskEnds(c)
    \/ \E l \in Lanes \ SessionLanes, m \in Limits : ReloadLimit(l, m)
    \/ \E l \in SessionLanes : ClearSession(l)
    \/ StartDone \/ StartFails
    \/ \E action \in {"stop", "restart"} : Signal(action)
    \/ DrainPoll \/ DrainTimeout
    \/ CloseDone \/ ForceExit
    \/ ScheduleRestart \/ ScheduledTimerFires
    \/ ConfigRestart
    \/ \E kind \in {"watcher", "other"} : PollFires(kind)
    \/ Done

(***************************************************************************)
(* Some task that can end does, and a turn enqueues its work; the drain's  *)
(* poll fires and close() returns or the force-exit timer fires.           *)
(***************************************************************************)
TaskProgress == \E c \in Commands : TaskEnds(c) \/ (Outer[c] # NoCommand /\ EnqueueCommand(c))
ShutdownProgress == DrainPoll \/ DrainTimeout \/ CloseDone \/ ForceExit

Fairness == WF_vars(TaskProgress) /\ WF_vars(ShutdownProgress)

Spec == Init /\ [][Next]_vars /\ Fairness

-----------------------------------------------------------------------------
(***************************************************************************)
(* When the restart goes on after a drain that succeeded, every task that  *)
(* was active when the signal came has really ended, in whatever lane and  *)
(* however many others were started meanwhile.                             *)
(***************************************************************************)
DrainedMeansSettled ==
    shutdown.phase = "closing" /\ shutdown.drained =>
        \A c \in waitingFor : status[c] = "settled"

(***************************************************************************)
(* Every command that is enqueued is started and settles, or is cleared,   *)
(* over any number of restarts, raised and lowered limits and commands     *)
(* that wait for inner ones, unless the process exits.  (The commands are  *)
(* finitely many and each is enqueued once: in the end none waits or runs.)*)
(***************************************************************************)
CommandsSettle == <>[](~Up \/ \A c \in Commands : status[c] \notin {"queued", "running"})

(***************************************************************************)
(* A restart that is accepted while the loop waits for it leads to a new   *)
(* iteration of the loop or to the end of the process.                     *)
(***************************************************************************)
RestartHappens ==
    (resolver = "live" /\ shutdown.action = "restart") ~> (resolver = "used" \/ ~Up)
=============================================================================
