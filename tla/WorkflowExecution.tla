--------------------------- MODULE WorkflowExecution ---------------------------
(***************************************************************************)
(* The execution of workflows: OrchestratorIntegration and StepExecutor of *)
(* bridge/pkg/secretary/orchestrator_integration.go on top of the          *)
(* orchestrator and of the agent factory, with everything that runs beside *)
(* an execution: the Matrix command and the scheduler that start one, the  *)
(* RPCs that advance, cancel or shut down workflows, the handlers that     *)
(* stop or delete agents, and a restart of the bridge.                     *)
(*                                                                         *)
(* One goroutine, runWorkflow, executes each workflow.  It shares the      *)
(* orchestrator, the store and the factory with the others and holds no    *)
(* lock between two calls, so each call it makes is a step of its own.     *)
(*                                                                         *)
(* The rows, containers and calls of the factory are those of AgentFactory, *)
(* whose Instances bound the containers that can be spawned.               *)
(*                                                                         *)
(* Environment says which outside events and failures an instance of the   *)
(* model has, so that each question is asked of the executions it is       *)
(* about.  Sequential templates only: parallel groups are not modelled.    *)
(***************************************************************************)
EXTENDS AgentFactory, Sequences

CONSTANTS
  Workflows, Steps, Rooms, Template, FirstOrder, NoStep, NoRoom, None,
  NextStepID,     \* NextStepID[w][s]: the successor of s, or NoStep
  AgentCount,     \* AgentCount[s]: agents assigned to s
  Failover,       \* failoverPolicy is not FailoverImmediateFail
  RetryCount,     \* StepExecutor.retryCount
  Environment,    \* outside events and failures that occur
  OperatorCalls   \* bound: operators' calls about agents in progress at once

VARIABLES
  store, active, ctxDone, announced,   \* the orchestrator
  exec,       \* executionCancels and the goroutine: a Run, or None
  launch,     \* a handler between StartWorkflow and StartWorkflowExecution
  owner,      \* history: the workflow and step each container was spawned for
  earned      \* history: the steps seen completed or advanced by hand

Orch == INSTANCE WorkflowOrchestrator
Order == INSTANCE ExecutionOrder

orchVars == <<store, active, ctxDone, announced>>
vars == <<store, active, ctxDone, announced, row, container, calls, exec, launch, owner, earned>>

Events ==
  {"command", "rpcStart", "advance", "cancel", "shutdown", "restart", "cancelExecution",
   "stop", "delete", "definition", "refusal", "spawnFails", "untracked", "dockerFails", "storeFails"}

ASSUME EnvironmentAssumption ==
  /\ Environment \subseteq Events
  /\ AgentCount \in [Steps -> Nat] /\ RetryCount \in Nat /\ Failover \in BOOLEAN
  /\ OperatorCalls \in Nat
  /\ \A w \in Workflows : DOMAIN NextStepID[w] = {Template[w][i] : i \in DOMAIN Template[w]}

(* Loaded templates are sequences of distinct steps. *)
ASSUME TemplateAssumption ==
  /\ Template \in [Workflows -> Seq(Steps)]
  /\ \A w \in Workflows : Orch!IsInjectiveSeq(Template[w])
  /\ FirstOrder \in [Workflows -> Nat]

(* Whether a call of Docker, or a write to the store, succeeds. *)
Answers == IF "dockerFails" \in Environment THEN BOOLEAN ELSE {TRUE}

Saves == IF "storeFails" \in Environment THEN BOOLEAN ELSE {TRUE}

Outcomes == {"completed", "failed", "cancelled"}

(* at: where the goroutine is.  todo: the steps left of ExecutionOrder,    *)
(* the current one first.  cancel: "requested" when CancelWorkflowExecution *)
(* has cancelled the context and not yet called CancelAllForWorkflow.      *)
Run ==
  [at : {"next", "approve", "attempt", "spawn", "wait", "polled", "stopping", "retry",
         "advance", "report", "exit"},
   todo : Seq(Steps), attempt : 0..RetryCount, agent : Nat,
   inst : Instances \cup {None}, result : Outcomes \cup {"none"},
   cancel : {"no", "requested", "done"}]

Launch ==
  [at : {"read", "write", "execute"}, snap : Orch!Row \cup {None}, room : Rooms \cup {NoRoom}]

ASSUME EmptyAssumption ==
  /\ NoStep \notin Steps /\ NoRoom \notin Rooms
  /\ None \notin Orch!Row /\ None \notin Orch!Entry
  /\ None \notin Run /\ None \notin Launch /\ None \notin Workflows \X Steps

TypeOK ==
  /\ Orch!TypeOK
  /\ FactoryTypeOK
  /\ exec \in [Workflows -> Run \cup {None}]
  /\ launch \in [Workflows -> Launch \cup {None}]
  /\ owner \in [Instances -> (Workflows \X Steps) \cup {None}]
  /\ earned \in [Workflows -> SUBSET Steps]

Init ==
  /\ Orch!Init
  /\ FactoryInit
  /\ exec = [w \in Workflows |-> None]
  /\ launch = [w \in Workflows |-> None]
  /\ owner = [i \in Instances |-> None]
  /\ earned = [w \in Workflows |-> {}]

-----------------------------------------------------------------------------
(* Starting a workflow and its execution. *)

CreateWorkflow(w) ==
  /\ Orch!CreateWorkflow(w)
  /\ UNCHANGED <<factoryVars, exec, launch, owner, earned>>

(* A start begins anew, unless a goroutine of an earlier start still runs. *)
Forget(w) == earned' = [earned EXCEPT ![w] = IF exec[w] = None THEN {} ELSE @]

(* handleStartWorkflow's first call. *)
CommandStart(w, room) ==
  /\ "command" \in Environment /\ launch[w] = None
  /\ Orch!StartWorkflow(w)
  /\ launch' = [launch EXCEPT ![w] = [at |-> "read", snap |-> None, room |-> room]]
  /\ Forget(w)
  /\ UNCHANGED <<factoryVars, exec, owner>>

(* The copy that GetWorkflow returns. *)
CommandRead(w) ==
  /\ launch[w] # None /\ launch[w].at = "read"
  /\ launch' = [launch EXCEPT ![w].at = "write", ![w].snap = Orch!Current(w)]
  /\ UNCHANGED <<orchVars, factoryVars, exec, owner, earned>>

(* The copy is written back with the room of the command. *)
CommandWrite(w, saved) ==
  /\ launch[w] # None /\ launch[w].at = "write"
  /\ Orch!UpdateWorkflow(w, [launch[w].snap EXCEPT !.room = launch[w].room], saved)
  /\ launch' = [launch EXCEPT ![w].at = "execute"]
  /\ UNCHANGED <<active, ctxDone, announced, factoryVars, exec, owner, earned>>

(* templateDispatch of the scheduler starts a workflow and executes it.    *)
SchedulerStart(w) ==
  /\ launch[w] = None
  /\ Orch!StartWorkflow(w)
  /\ launch' = [launch EXCEPT ![w] = [at |-> "execute", snap |-> None, room |-> NoRoom]]
  /\ Forget(w)
  /\ UNCHANGED <<factoryVars, exec, owner>>

(* secretary.start_workflow starts a workflow and executes nothing. *)
RPCStart(w) ==
  /\ "rpcStart" \in Environment /\ launch[w] = None
  /\ Orch!StartWorkflow(w)
  /\ Forget(w)
  /\ UNCHANGED <<factoryVars, exec, launch, owner>>

(* ExecuteSteps begins by validating the template. *)
FirstStep(order) ==
  [at |-> "next", todo |-> order, attempt |-> 0, agent |-> 1, inst |-> None,
   result |-> "none", cancel |-> "no"]

InvalidTemplate ==
  [at |-> "report", todo |-> <<>>, attempt |-> 0, agent |-> 1, inst |-> None,
   result |-> "failed", cancel |-> "no"]

(* Mutant: the steps are executed in any order. *)
StartWorkflowExecutionUnordered(w) ==
  /\ launch[w] # None /\ launch[w].at = "execute"
  /\ launch' = [launch EXCEPT ![w] = None]
  /\ IF exec[w] = None /\ Orch!Current(w).status = "running"
     THEN \E order \in Order!SetToSeqs(DOMAIN NextStepID[w]) :
            exec' = [exec EXCEPT ![w] = FirstStep(order)]
     ELSE UNCHANGED exec
  /\ UNCHANGED <<orchVars, factoryVars, owner, earned>>

(* Refused while the workflow is already executing or is not running. *)
StartWorkflowExecution(w) ==
  /\ launch[w] # None /\ launch[w].at = "execute"
  /\ launch' = [launch EXCEPT ![w] = None]
  /\ IF exec[w] = None /\ Orch!Current(w).status = "running"
     THEN IF Order!Acyclic(NextStepID[w])
          THEN \E order \in Order!KahnOrders(NextStepID[w]) :
                 exec' = [exec EXCEPT ![w] = FirstStep(order)]
          ELSE exec' = [exec EXCEPT ![w] = InvalidTemplate]
     ELSE UNCHANGED exec
  /\ UNCHANGED <<orchVars, factoryVars, owner, earned>>

-----------------------------------------------------------------------------
(* The goroutine. *)

At(w, at) == exec[w] # None /\ exec[w].at = at

Cancelled(w) == exec[w].cancel # "no"

Goto(w, at) == exec' = [exec EXCEPT ![w].at = at]

(* Leave a container behind, or report an outcome. *)
Leave(w, at) == [exec[w] EXCEPT !.at = at, !.inst = None, !.result = "none"]

Report(w, result) ==
  exec' = [exec EXCEPT ![w] = [Leave(w, "report") EXCEPT !.result = result]]

(* Mutant: the loop ends one step early. *)
NextStepOffByOne(w) ==
  /\ At(w, "next")
  /\ CASE Len(exec[w].todo) <= 1 -> Report(w, "completed")
       [] Len(exec[w].todo) > 1 /\ Cancelled(w) -> Report(w, "cancelled")
       [] OTHER -> Goto(w, "approve")
  /\ UNCHANGED <<orchVars, factoryVars, launch, owner, earned>>

(* The top of the loop of executeSequential. *)
NextStep(w) ==
  /\ At(w, "next")
  /\ CASE exec[w].todo = <<>> -> Report(w, "completed")
       [] exec[w].todo # <<>> /\ Cancelled(w) -> Report(w, "cancelled")
       [] OTHER -> Goto(w, "approve")
  /\ UNCHANGED <<orchVars, factoryVars, launch, owner, earned>>

(* checkApproval: granted, refused or timed out, or interrupted. *)
CheckApproval(w) ==
  /\ At(w, "approve")
  /\ \/ exec' = [exec EXCEPT ![w].at = "attempt", ![w].attempt = 0, ![w].agent = 1]
     \/ "refusal" \in Environment /\ Report(w, "failed")
     \/ Cancelled(w) /\ Report(w, "cancelled")
  /\ UNCHANGED <<orchVars, factoryVars, launch, owner, earned>>

Agents(w) == AgentCount[Head(exec[w].todo)]

(* More than one agent, tried in turn. *)
FailingOver(s) == Failover /\ AgentCount[s] > 1

(* The result of one agent: completed if it is in good; else the next      *)
(* agent up to agents, or the next attempt.                                *)
Judge(w, result, good, agents) ==
  LET failover == FailingOver(Head(exec[w].todo)) IN
  CASE result \in good -> exec' = [exec EXCEPT ![w] = Leave(w, "advance")]
    [] result \notin good /\ failover /\ exec[w].agent < agents ->
         exec' = [exec EXCEPT ![w] = [Leave(w, "attempt") EXCEPT !.agent = @ + 1]]
    [] ~failover /\ result = "recoverable" /\ exec[w].attempt < RetryCount ->
         exec' = [exec EXCEPT ![w] = Leave(w, "retry")]
    [] ~failover /\ result = "cancelled" -> Report(w, "cancelled")
    [] OTHER -> Report(w, "failed")

(* Mutant: a failed agent counts as a completed one. *)
AfterAgentIgnoresFailure(w, result) ==
  Judge(w, result, {"completed", "failed"}, Agents(w))

(* Mutant: one agent too many. *)
AfterAgentOneMoreAgent(w, result) == Judge(w, result, {"completed"}, Agents(w) + 1)

(* What executeStep and executeStepWithRetry do with the result of one     *)
(* agent.  FailoverAggregatedError hides that the last one was cancelled.  *)
AfterAgent(w, result) == Judge(w, result, {"completed"}, Agents(w))

(* A step seen to be completed. *)
Earn(w, status) ==
  earned' = [earned EXCEPT ![w] =
    IF status = "completed" THEN @ \cup {Head(exec[w].todo)} ELSE @]

(* executeStep: the broker may refuse, there may be no agent, and the loop *)
(* over the agents checks the context.  Spawn fails at once when the       *)
(* context is already cancelled.                                           *)
ExecuteStep(w) ==
  /\ At(w, "attempt")
  /\ CASE Agents(w) = 0 -> Report(w, "failed")
       [] Agents(w) > 0 /\ Cancelled(w) ->
            IF FailingOver(Head(exec[w].todo)) THEN Report(w, "cancelled")
                                               ELSE AfterAgent(w, "recoverable")
       [] OTHER -> Goto(w, "spawn") \/ ("refusal" \in Environment /\ Report(w, "failed"))
  /\ UNCHANGED <<orchVars, factoryVars, launch, owner, earned>>

(* Which unused ID a container gets makes no difference. *)
SpawnAgent(w, tracked) ==
  LET i == CHOOSE i \in Instances : container[i] = "unused" IN
  /\ At(w, "spawn")
  /\ \E j \in Instances : container[j] = "unused"
  /\ tracked \/ "untracked" \in Environment
  /\ Spawn(i, tracked)
  /\ exec' = [exec EXCEPT ![w].at = "wait", ![w].inst = i]
  /\ owner' = [owner EXCEPT ![i] = <<w, Head(exec[w].todo)>>]
  /\ UNCHANGED <<orchVars, launch, earned>>

SpawnFails(w) ==
  /\ At(w, "spawn")
  /\ "spawnFails" \in Environment \/ Cancelled(w)
  /\ AfterAgent(w, "recoverable")
  /\ UNCHANGED <<orchVars, factoryVars, launch, owner, earned>>

(* An inspection fails when Docker does, and when its context is cancelled: *)
(* the select may take the tick although the context is done.              *)
Reachable(w) ==
  IF Cancelled(w) THEN {FALSE} ELSE Answers

(* Mutant: the wait times out and leaves the container running. *)
PollTimesOut(w) ==
  /\ At(w, "wait")
  /\ AfterAgent(w, "recoverable")
  /\ UNCHANGED <<orchVars, factoryVars, launch, owner, earned>>

(* A tick of waitForCompletion.  A row that does not say running is not    *)
(* inspected; one that is neither completed nor failed is polled again.    *)
Poll(w) ==
  LET i == exec[w].inst IN
  /\ At(w, "wait")
  /\ \/ /\ ~Known(i)
        /\ AfterAgent(w, "recoverable")
        /\ UNCHANGED <<calls, earned>>
     \/ /\ row[i] \in {"completed", "failed"}
        /\ AfterAgent(w, row[i])
        /\ Earn(w, row[i])
        /\ UNCHANGED calls
     \/ \E reachable \in Reachable(w) :
          /\ Inspect(i, "status", reachable)
          /\ exec' = [exec EXCEPT ![w].at = "polled",
                                  ![w].result = Observed(i, reachable)]
          /\ UNCHANGED earned
  /\ UNCHANGED <<orchVars, row, container, launch, owner>>

(* GetStatus has written what it saw and returns it. *)
Polled(w) ==
  /\ At(w, "polled") /\ ~Calling(exec[w].inst, "status")
  /\ AfterAgent(w, exec[w].result)
  /\ Earn(w, exec[w].result)
  /\ UNCHANGED <<orchVars, factoryVars, launch, owner>>

(* The context is done: waitForCompletion stops the instance and returns. *)
WaitCancelled(w) ==
  /\ At(w, "wait") /\ Cancelled(w)
  /\ StopCall(exec[w].inst, "executor")
  /\ Goto(w, "stopping")
  /\ UNCHANGED <<orchVars, launch, owner, earned>>

StopReturned(w) ==
  /\ At(w, "stopping") /\ ~Calling(exec[w].inst, "executor")
  /\ AfterAgent(w, "cancelled")
  /\ UNCHANGED <<orchVars, factoryVars, launch, owner, earned>>

(* executeStepWithRetry waits; with the context done either case is taken. *)
Retry(w) ==
  /\ At(w, "retry")
  /\ \/ exec' = [exec EXCEPT ![w].at = "attempt", ![w].attempt = @ + 1]
     \/ Cancelled(w) /\ Report(w, "cancelled")
  /\ UNCHANGED <<orchVars, factoryVars, launch, owner, earned>>

(* A failed write is an error of AdvanceWorkflow, like a step that is not  *)
(* the current one.                                                        *)
Advance(w, saved) ==
  LET s == Head(exec[w].todo) IN
  /\ At(w, "advance")
  /\ IF Orch!OnStep(w, s)
     THEN /\ Orch!AdvanceWorkflow(w, s, saved)
          /\ IF saved
             THEN exec' = [exec EXCEPT ![w].at = "next", ![w].todo = Tail(@)]
             ELSE Report(w, "failed")
     ELSE Report(w, "failed") /\ UNCHANGED orchVars
  /\ UNCHANGED <<factoryVars, launch, owner, earned>>

(* Mutant: a failure is not reported to the orchestrator. *)
ReportSuccessOnly(w, saved) ==
  /\ At(w, "report")
  /\ IF exec[w].result = "completed" /\ Orch!CanMove(w, "completed")
     THEN Orch!Finish(w, "completed", saved)
     ELSE UNCHANGED orchVars
  /\ Goto(w, "exit")
  /\ UNCHANGED <<factoryVars, launch, owner, earned>>

(* The end of runWorkflow: an error of the orchestrator is ignored. *)
ReportOutcome(w, saved) ==
  /\ At(w, "report")
  /\ IF Orch!CanMove(w, exec[w].result)
     THEN IF exec[w].result = "cancelled"
          THEN Orch!CancelWorkflow(w, saved)
          ELSE Orch!Finish(w, exec[w].result, saved)
     ELSE UNCHANGED orchVars
  /\ Goto(w, "exit")
  /\ UNCHANGED <<factoryVars, launch, owner, earned>>

(* The deferred deletion from executionCancels. *)
Exit(w) ==
  /\ At(w, "exit")
  /\ exec' = [exec EXCEPT ![w] = None]
  /\ UNCHANGED <<orchVars, factoryVars, launch, owner, earned>>

-----------------------------------------------------------------------------
(* What runs beside it. *)

(* secretary.advance_workflow *)
AdvanceByHand(w, s, saved) ==
  /\ "advance" \in Environment
  /\ Orch!AdvanceWorkflow(w, s, saved)
  /\ earned' = [earned EXCEPT ![w] = @ \cup {s}]
  /\ UNCHANGED <<factoryVars, exec, launch, owner>>

(* secretary.cancel_workflow, and the command: the execution is not told.  *)
CancelByHand(w, saved) ==
  /\ "cancel" \in Environment
  /\ Orch!CancelWorkflow(w, saved)
  /\ UNCHANGED <<factoryVars, exec, launch, owner, earned>>

(* CancelWorkflowExecution first cancels the context ...                   *)
CancelWorkflowExecution(w) ==
  /\ "cancelExecution" \in Environment
  /\ exec[w] # None /\ exec[w].cancel = "no"
  /\ exec' = [exec EXCEPT ![w].cancel = "requested"]
  /\ UNCHANGED <<orchVars, factoryVars, launch, owner, earned>>

(* ... then CancelAllForWorkflow stops what runningSteps still holds.      *)
CancelAllForWorkflow(w) ==
  /\ exec[w] # None /\ exec[w].cancel = "requested"
  /\ exec' = [exec EXCEPT ![w].cancel = "done"]
  /\ IF exec[w].inst # None
     THEN StopCall(exec[w].inst, "cancel")
     ELSE UNCHANGED factoryVars
  /\ UNCHANGED <<orchVars, launch, owner, earned>>

Shutdown(lost) ==
  /\ "shutdown" \in Environment
  /\ lost = {} \/ "storeFails" \in Environment
  /\ Orch!Shutdown(lost)
  /\ UNCHANGED <<factoryVars, exec, launch, owner, earned>>

(* Another call of an operator fits in the bound. *)
OperatorFree ==
  Cardinality({c \in calls : c.by \in {"rpc", "delete", "definition"}}) < OperatorCalls

(* studio.stop_instance, and the command that deletes an agent. *)
StopInstance(i, by) ==
  /\ OperatorFree
  /\ \/ by = "rpc" /\ "stop" \in Environment
     \/ by = "delete" /\ "delete" \in Environment
  /\ StopCall(i, by)
  /\ UNCHANGED <<orchVars, exec, launch, owner, earned>>

(* studio.delete_agent begins with its check. *)
DeleteDefinition(i) ==
  /\ "definition" \in Environment /\ OperatorFree
  /\ CheckRunning(i)
  /\ UNCHANGED <<orchVars, exec, launch, owner, earned>>

(* A stop, a status call or a deletion goes on. *)
FactoryStep(c) ==
  /\ \/ \E saved \in Saves :
          \/ WriteObserved(c, saved)
          \/ StopSave(c, saved)
          \/ StopMark(c, saved)
          \/ DeleteInstance(c, saved)
          \/ Cascade(c, saved)
     \/ \E removed \in Answers : Remove(c, removed)
     \/ \E stopped \in Answers, code \in {"ok", "error"} : StopContainer(c, stopped, code)
  /\ UNCHANGED <<orchVars, exec, launch, owner, earned>>

ContainerExit(i) ==
  /\ \E code \in {"ok", "error"} : ContainerEnds(i, code)
  /\ UNCHANGED <<orchVars, exec, launch, owner, earned>>

(* The bridge restarts: goroutines, handlers and calls are gone, the       *)
(* containers run on.                                                      *)
Restart ==
  /\ "restart" \in Environment
  /\ Orch!Restart
  /\ FactoryRestart
  /\ exec' = [w \in Workflows |-> None]
  /\ launch' = [w \in Workflows |-> None]
  /\ UNCHANGED <<owner, earned>>

-----------------------------------------------------------------------------
(* The goroutine of w. *)
Proceed(w) ==
  \/ NextStep(w) \/ CheckApproval(w) \/ ExecuteStep(w)
  \/ SpawnFails(w) \/ \E tracked \in BOOLEAN : SpawnAgent(w, tracked)
  \/ Poll(w) \/ Polled(w) \/ WaitCancelled(w) \/ StopReturned(w) \/ Retry(w)
  \/ \E saved \in Saves : Advance(w, saved) \/ ReportOutcome(w, saved)
  \/ Exit(w)

(* The handlers that launch it. *)
Launching(w) ==
  \/ CommandRead(w)
  \/ \E saved \in Saves : CommandWrite(w, saved)
  \/ StartWorkflowExecution(w)

Next ==
  \/ \E w \in Workflows :
       \/ CreateWorkflow(w)
       \/ \E room \in Rooms : CommandStart(w, room)
       \/ SchedulerStart(w)
       \/ RPCStart(w)
       \/ Launching(w)
       \/ Proceed(w)
       \/ \E saved \in Saves :
            \/ CancelByHand(w, saved)
            \/ \E s \in Steps : AdvanceByHand(w, s, saved)
       \/ CancelWorkflowExecution(w)
       \/ CancelAllForWorkflow(w)
  \/ \E lost \in SUBSET Workflows : Shutdown(lost)
  \/ \E i \in Instances :
       \/ ContainerExit(i)
       \/ DeleteDefinition(i)
       \/ \E by \in {"rpc", "delete"} : StopInstance(i, by)
  \/ \E c \in calls : FactoryStep(c)
  \/ Restart

(* The goroutines are scheduled, and Docker and the store answer the calls *)
(* that an execution and its cancellation make.                            *)
Fairness ==
  /\ \A w \in Workflows : WF_vars(Proceed(w)) /\ WF_vars(Launching(w))
  /\ \A i \in Instances, by \in {"status", "executor", "cancel"} :
       WF_vars(\E c \in calls : c.inst = i /\ c.by = by /\ FactoryStep(c))

Spec == Init /\ [][Next]_vars /\ Fairness

(* Moreover, every agent ends by itself. *)
AgentsEnd == Spec /\ \A i \in Instances : WF_vars(ContainerExit(i))

-----------------------------------------------------------------------------
(* A workflow is completed only by work: each step of its template was seen *)
(* to complete, or advanced by an operator, since the workflow was started. *)
(* The executor, the operators and a restart all move the same pointer.    *)
CompletionIsEarned ==
  \A w \in Workflows :
    store[w] # None /\ store[w].status = "completed" =>
      {Template[w][i] : i \in DOMAIN Template[w]} \subseteq earned[w]

(* With a template chained by NextStepID, no container is started for a    *)
(* step before all the steps ahead of it in the template are done.         *)
StartsInTemplateOrder ==
  \A w \in Workflows :
    exec[w] # None /\ exec[w].at \in {"spawn", "wait"} =>
      \A i \in 1..(Orch!Position(w, Head(exec[w].todo)) - 1) : Template[w][i] \in earned[w]

Spawned(w, s) == {i \in Instances : owner[i] = <<w, s>>}

(* Retries and fail-over are bounded: one step starts at most one          *)
(* container for each attempt, or for each agent, whatever the errors are. *)
SpawnsAreBounded ==
  \A w \in Workflows, s \in Steps :
    Cardinality(Spawned(w, s)) <= (IF FailingOver(s) THEN AgentCount[s] ELSE RetryCount + 1)

(* While its row says running, a container that runs is watched by the     *)
(* goroutine of the workflow it was started for: neither a retry, nor a    *)
(* fail-over, nor a cancellation leaves one behind that a status call      *)
(* would still report as running.                                          *)
RunningIsWatched ==
  \A i \in Instances :
    container[i] = "running" /\ row[i] = "running" =>
      exec[owner[i][1]] # None /\ exec[owner[i][1]].inst = i

(* Every execution ends, and leaves an outcome in the store and no entry   *)
(* in activeWorkflows.                                                     *)
ExecutionSettles ==
  \A w \in Workflows :
    exec[w] # None ~>
      (exec[w] = None /\ active[w] = None /\ store[w] # None /\ store[w].status \in Orch!Terminal)

=============================================================================
