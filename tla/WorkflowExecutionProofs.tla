------------------------ MODULE WorkflowExecutionProofs ------------------------
(***************************************************************************)
(* Proofs about the execution of workflows and about the agent factory it  *)
(* uses, for any workflows, templates, policies and number of containers:  *)
(*                                                                         *)
(*   - the factory: what its records say of Docker is true;                *)
(*   - a completed workflow was earned step by step, and the steps of a    *)
(*     chained template start in its order, in any environment;            *)
(*   - the composition implements the factory's specification;             *)
(*   - no container is left running unwatched, in a reliable environment;  *)
(*   - a step gets a bounded number of containers, if a workflow is        *)
(*     executed at most once;                                              *)
(*   - where the start command is not used, the composition implements the *)
(*     orchestrator's specification too, and keeps what it promises.       *)
(***************************************************************************)
EXTENDS WorkflowExecution, FiniteSetTheorems, WellFoundedInduction, TLAPS

-----------------------------------------------------------------------------
(* The agent factory, for any number of instances. *)

(* A call that is about to write completed, or to remove the instance, has *)
(* already seen or made the container stop; an ID whose container was not  *)
(* started has no row.                                                     *)
CallsFollowDocker ==
  /\ \A c \in calls :
       c.at \in {"save", "remove", "forget", "completed"} => container[c.inst] \in Stopped
  /\ \A i \in Instances : container[i] \in {"unused", "created"} => row[i] = "none"

FactoryInv ==
  /\ FactoryTypeOK
  /\ CallsFollowDocker
  /\ CompletedMeansStopped
  /\ DeletedMeansStopped

(* Before anything is spawned. *)
LEMMA FactoryInvInit == FactoryInit => FactoryInv
  BY DEF FactoryInit, FactoryInv, FactoryTypeOK, CallsFollowDocker,
         CompletedMeansStopped, DeletedMeansStopped, ContainerState, NoRow

(* Containers only move forward: once stopped, never started again. *)
Forward ==
  \A i \in Instances : container[i] \in Stopped => container'[i] \in Stopped

(* What a step on one instance may write, seen from the invariant. *)
LEMMA CallFields ==
  ASSUME FactoryTypeOK, NEW c \in calls
  PROVE  /\ c.inst \in Instances
         /\ c.by \in Pollers => c.at \in {"completed", "failed"}
         /\ c.at \in {"stop", "save", "mark", "remove", "forget"} => c.by \in Stoppers
  BY DEF FactoryTypeOK, Call, Stoppers, Pollers

(* A step that only starts or ends a container. *)
LEMMA ContainerSteps ==
  ASSUME FactoryInv, NEW i \in Instances,
         \/ \E tracked \in BOOLEAN : Spawn(i, tracked)
         \/ SpawnLeaks(i)
         \/ \E code \in {"ok", "error"} : ContainerEnds(i, code)
  PROVE  FactoryInv'
<1> USE DEF FactoryInv, FactoryTypeOK, CallsFollowDocker, CompletedMeansStopped,
            DeletedMeansStopped,
            ContainerState, InstanceStatus, Stopped
<1>0. \A c \in calls : c.inst \in Instances
  BY CallFields
<1>1. ASSUME NEW tracked \in BOOLEAN, Spawn(i, tracked) PROVE FactoryInv'
  BY <1>0, <1>1 DEF Spawn
<1>2. CASE SpawnLeaks(i)
  BY <1>0, <1>2 DEF SpawnLeaks
<1>3. ASSUME NEW code \in {"ok", "error"}, ContainerEnds(i, code) PROVE FactoryInv'
  BY <1>0, <1>3 DEF ContainerEnds
<1> QED
  BY <1>1, <1>2, <1>3

(* A call that begins. *)
LEMMA CallBegins ==
  ASSUME FactoryInv, NEW i \in Instances,
         \/ \E by \in Pollers, reachable \in BOOLEAN : Inspect(i, by, reachable)
         \/ Kill(i)
         \/ CheckRunning(i)
         \/ \E by \in Stoppers : StopCall(i, by)
  PROVE  FactoryInv'
<1> USE DEF FactoryInv, FactoryTypeOK, CallsFollowDocker, CompletedMeansStopped,
            DeletedMeansStopped
<1>1. ASSUME NEW by \in Pollers, NEW reachable \in BOOLEAN, Inspect(i, by, reachable)
      PROVE  FactoryInv'
  <2> DEFINE seen == Observed(i, reachable)
  <2>1. seen \in {"completed", "failed"} /\ (seen = "completed" => container[i] \in Stopped)
    BY <1>1 DEF Inspect, Observed, ContainerState, Stopped
  <2>2. [inst |-> i, by |-> by, at |-> seen] \in Call
    BY <2>1 DEF Call
  <2> HIDE DEF seen
  <2> QED
    BY <1>1, <2>1, <2>2 DEF Inspect, seen
<1>2. ASSUME NEW by \in Stoppers, StopCall(i, by) PROVE FactoryInv'
  BY <1>2 DEF StopCall, Call
<1>3. CASE Kill(i)
  <2>1. \A d \in calls : d.inst \in Instances
    BY CallFields
  <2>2. [inst |-> i, by |-> "kill", at |-> "failed"] \in Call
    BY DEF Call
  <2> QED
    BY <1>3, <2>1, <2>2 DEF Kill, Known, NoRow, ContainerState, Stopped
<1>4. CASE CheckRunning(i)
  BY <1>4 DEF CheckRunning, Call
<1> QED
  BY <1>1, <1>2, <1>3, <1>4

(* A call that goes on. *)
LEMMA CallContinues ==
  ASSUME FactoryInv, NEW c \in calls, CallStep(c)
  PROVE  FactoryInv'
<1> USE DEF FactoryInv, FactoryTypeOK, CallsFollowDocker, CompletedMeansStopped,
            DeletedMeansStopped
<1>0. /\ c.inst \in Instances /\ c \in Call
      /\ \A d \in calls : d.inst \in Instances
  BY CallFields
<1>1. ASSUME NEW saved \in BOOLEAN, WriteObserved(c, saved) PROVE FactoryInv'
  BY <1>0, <1>1 DEF WriteObserved, UpdateInstance, Return, Known, NoRow, InstanceStatus, Stopped
<1>2. ASSUME NEW stopped \in BOOLEAN, NEW code \in {"ok", "error"},
             StopContainer(c, stopped, code)
      PROVE  FactoryInv'
  <2>1. c.by \in Stoppers
    BY <1>2, CallFields DEF StopContainer
  <2>2. \A at \in {"save", "mark"} : [c EXCEPT !.at = at] \in Call
                 /\ [c EXCEPT !.at = at].at = at /\ [c EXCEPT !.at = at].inst = c.inst
    BY <1>0, <2>1 DEF Call, Stoppers, Pollers
  <2>3. CASE container' = container /\ StopError(c)
    BY <1>0, <1>2, <2>2, <2>3 DEF StopContainer, StopError, Move,
                                  Return
  <2>4. CASE /\ row[c.inst] = "running" /\ container[c.inst] # "removed"
             /\ container' = [container EXCEPT ![c.inst] = IF @ = "running" THEN code ELSE @]
             /\ Move(c, "save")
    <3>1. container' \in [Instances -> ContainerState]
      BY <1>0, <2>4 DEF ContainerState
    <3>2. Forward
      BY <1>0, <2>4 DEF Forward, Stopped
    <3>3. container'[c.inst] \in Stopped
      BY <1>0, <2>4 DEF ContainerState, Stopped
    <3>4. \A i \in Instances : i # c.inst => container'[i] = container[i]
      BY <1>0, <2>4
    <3>5. row' = row /\ calls' = (calls \ {c}) \cup {[c EXCEPT !.at = "save"]}
      BY <1>2, <2>4 DEF StopContainer, Move
    <3>6. FactoryTypeOK'
      BY <2>2, <3>1, <3>5
    <3>7. CallsFollowDocker'
      BY <1>0, <2>2, <3>2, <3>3, <3>4, <3>5 DEF Forward, Stopped
    <3> QED
      BY <3>2, <3>5, <3>6, <3>7 DEF Forward
  <2> QED
    BY <1>2, <2>3, <2>4 DEF StopContainer
<1>3. ASSUME NEW saved \in BOOLEAN, StopSave(c, saved) PROVE FactoryInv'
  <2>1. c.by \in Stoppers /\ container[c.inst] \in Stopped
    BY <1>3, CallFields DEF StopSave
  <2>2. \A at \in {"mark", "remove"} : [c EXCEPT !.at = at] \in Call
                 /\ [c EXCEPT !.at = at].at = at /\ [c EXCEPT !.at = at].inst = c.inst
    BY <1>0, <2>1 DEF Call, Stoppers, Pollers
  <2>3. calls' \subseteq Call /\ \A d \in calls' \ calls : d.inst = c.inst
    BY <1>3, <2>2 DEF StopSave, Move, Return
  <2>4. row' \in [Instances -> InstanceStatus \cup NoRow]
        /\ \A i \in Instances : row'[i] # row[i] => i = c.inst /\ row'[i] = "completed"
    BY <1>0, <1>3 DEF StopSave, UpdateInstance, InstanceStatus
  <2> QED
    BY <1>0, <1>3, <2>1, <2>3, <2>4 DEF StopSave, Stopped
<1>4. ASSUME NEW saved \in BOOLEAN, StopMark(c, saved) PROVE FactoryInv'
  BY <1>0, <1>4 DEF StopMark, UpdateInstance, Return, Known, NoRow, InstanceStatus, Stopped
<1>5. ASSUME NEW removed \in BOOLEAN, Remove(c, removed) PROVE FactoryInv'
  <2>1. container[c.inst] \in Stopped /\ c.by \in Stoppers
    BY <1>0, <1>5, CallFields DEF Remove
  <2>2. /\ [c EXCEPT !.at = "forget"] \in Call
        /\ [c EXCEPT !.at = "forget"].at = "forget" /\ [c EXCEPT !.at = "forget"].inst = c.inst
    BY <1>0, <2>1 DEF Call, Stoppers, Pollers
  <2>3. calls' \subseteq Call /\ \A d \in calls' \ calls : d.inst = c.inst
    BY <1>5, <2>2 DEF Remove, Move, Return
  <2>4. \A i \in Instances : container[i] \in Stopped => container'[i] \in Stopped
    BY <1>0, <1>5 DEF Remove, Stopped
  <2>5. /\ container' \in [Instances -> ContainerState]
        /\ \A i \in Instances : container'[i] \in {container[i], "removed"}
    BY <1>0, <1>5 DEF Remove, ContainerState
  <2>6. row' = row
    BY <1>5 DEF Remove
  <2> QED
    BY <1>0, <2>1, <2>3, <2>4, <2>5, <2>6 DEF Stopped
<1>6. ASSUME NEW deleted \in BOOLEAN, DeleteInstance(c, deleted) PROVE FactoryInv'
  <2>1. container[c.inst] \in Stopped
    BY <1>6 DEF DeleteInstance
  <2>2. /\ row' \in [Instances -> InstanceStatus \cup NoRow]
        /\ \A i \in Instances : row'[i] # row[i] => i = c.inst /\ row'[i] = "deleted"
    BY <1>0, <1>6 DEF DeleteInstance, NoRow
  <2> QED
    BY <1>0, <1>6, <2>1, <2>2 DEF DeleteInstance, Return, Stopped
<1>7. ASSUME NEW deleted \in BOOLEAN, Cascade(c, deleted) PROVE FactoryInv'
  <2>1. /\ row' \in [Instances -> InstanceStatus \cup NoRow]
        /\ \A i \in Instances : row'[i] # row[i] => /\ i = c.inst /\ row'[i] = "cascaded"
                                                     /\ row[i] # "none"
    BY <1>0, <1>7 DEF Cascade, Known, NoRow
  <2> QED
    BY <1>0, <1>7, <2>1 DEF Cascade, Return, Stopped
<1> QED
  BY <1>1, <1>2, <1>3, <1>4, <1>5, <1>6, <1>7 DEF CallStep

(* The four parts of the invariant hold together, whatever the             *)
(* interleaving of spawns, status calls, stops, deletions, kills, failed   *)
(* writes and restarts.                                                    *)
LEMMA FactoryInvariant == FactorySpec => []FactoryInv
<1>1. FactoryInv /\ [FactoryNext]_factoryVars => FactoryInv'
  <2>1. ASSUME FactoryInv, UNCHANGED factoryVars PROVE FactoryInv'
    BY <2>1 DEF factoryVars, FactoryInv, FactoryTypeOK, CallsFollowDocker,
                CompletedMeansStopped,
                DeletedMeansStopped
  <2>2. ASSUME FactoryInv, FactoryRestart PROVE FactoryInv'
    BY <2>2 DEF FactoryRestart, FactoryInv, FactoryTypeOK, CallsFollowDocker,
                CompletedMeansStopped,
                DeletedMeansStopped
  <2> QED
    BY <2>1, <2>2, ContainerSteps, CallBegins, CallContinues DEF FactoryNext
<1> QED
  BY FactoryInvInit, <1>1, PTL DEF FactorySpec

(* GetStatus and Stop write completed only over a container that no longer *)
(* runs, although they write after the call of Docker has returned.        *)
THEOREM RecordedEndIsReal == FactorySpec => []CompletedMeansStopped
<1>1. FactoryInv => CompletedMeansStopped
  BY DEF FactoryInv
<1> QED
  BY FactoryInvariant, <1>1, PTL

(* Remove, in two steps, deletes the row only when the container no longer *)
(* runs, whatever stops, kills, status calls and deletions of the          *)
(* definition do in between.  A row that goes with its definition is       *)
(* another matter, and not deleted by Remove.                              *)
THEOREM DeletedAgentIsStopped == FactorySpec => []DeletedMeansStopped
<1>1. FactoryInv => DeletedMeansStopped
  BY DEF FactoryInv
<1> QED
  BY FactoryInvariant, <1>1, PTL

-----------------------------------------------------------------------------
(* The executions. *)

StepsOf(w) == {Template[w][i] : i \in DOMAIN Template[w]}

(* The successors lead through the template in slice order. *)
InSliceOrder(w) ==
  \A i \in DOMAIN Template[w] :
    NextStepID[w][Template[w][i]] = IF i < Len(Template[w]) THEN Template[w][i + 1] ELSE NoStep

(* The steps that are not in todo are done.  If the template is chained,   *)
(* todo is the end of it.                                                  *)
Remaining(w, todo, done) ==
  /\ Order!Acyclic(NextStepID[w])
  /\ StepsOf(w) \subseteq done \cup {todo[i] : i \in DOMAIN todo}
  /\ InSliceOrder(w) =>
       /\ Len(todo) <= Len(Template[w])
       /\ \A i \in DOMAIN todo : todo[i] = Template[w][Len(Template[w]) - Len(todo) + i]
       /\ \A i \in 1 .. (Len(Template[w]) - Len(todo)) : Template[w][i] \in done

(* Where the goroutine works on a step. *)
Busy == {"approve", "attempt", "spawn", "wait", "polled", "stopping", "retry", "advance"}

(* Where it has a container. *)
Watching == {"wait", "polled", "stopping"}

RunOK(w, r, done) ==
  /\ r.at \in Busy \cup {"next"} => Remaining(w, r.todo, done)
  /\ r.at \in Busy => r.todo # <<>>
  /\ r.at \in Watching => r.inst \in Instances
  /\ r.at = "retry" => r.attempt < RetryCount
  /\ r.at = "advance" => Head(r.todo) \in done
  /\ r.at = "report" /\ r.result = "completed" => StepsOf(w) \subseteq done

(* The steps before the one that activeWorkflows points to are done. *)
ActiveOK(w, a, done) ==
  /\ Template[w] # <<>> =>
       \E k \in DOMAIN Template[w] :
         Template[w][k] = a.wf.step /\ \A i \in 1 .. (k - 1) : Template[w][i] \in done
  /\ a.wf.status = "completed" => StepsOf(w) \subseteq done

(* What the start command will write back is no unearned completion. *)
LaunchOK(w, l, done) ==
  l.at = "write" =>
    l.snap \in Orch!Row /\ (l.snap.status = "completed" => StepsOf(w) \subseteq done)

Good(w, saved, a, r, l, done) ==
  /\ (saved # None /\ saved.status = "completed") => StepsOf(w) \subseteq done
  /\ a # None => saved # None /\ ActiveOK(w, a, done)
  /\ r # None => RunOK(w, r, done)
  /\ l # None => saved # None /\ LaunchOK(w, l, done)

Types ==
  /\ store \in [Workflows -> Orch!Row \cup {None}]
  /\ active \in [Workflows -> Orch!Entry \cup {None}]
  /\ exec \in [Workflows -> Run \cup {None}]
  /\ launch \in [Workflows -> Launch \cup {None}]
  /\ earned \in [Workflows -> SUBSET Steps]

IInv ==
  /\ Types
  /\ \A w \in Workflows : Good(w, store[w], active[w], exec[w], launch[w], earned[w])

(* What is assumed of the template of w. *)
LEMMA TemplateFacts ==
  ASSUME NEW w \in Workflows
  PROVE  /\ Template[w] \in Seq(Steps)
         /\ DOMAIN Template[w] = 1 .. Len(Template[w]) /\ Len(Template[w]) \in Nat
         /\ \A i, j \in DOMAIN Template[w] : Template[w][i] = Template[w][j] => i = j
         /\ \A i \in DOMAIN Template[w] : Template[w][i] \in Steps
         /\ StepsOf(w) \subseteq Steps
         /\ DOMAIN NextStepID[w] = StepsOf(w)
<1>1. /\ Template[w] \in Seq(Steps)
      /\ \A i, j \in DOMAIN Template[w] : Template[w][i] = Template[w][j] => i = j
  BY TemplateAssumption DEF Orch!IsInjectiveSeq
<1>2. /\ DOMAIN Template[w] = 1 .. Len(Template[w]) /\ Len(Template[w]) \in Nat
      /\ \A i \in DOMAIN Template[w] : Template[w][i] \in Steps
  BY <1>1
<1>3. DOMAIN NextStepID[w] = StepsOf(w)
  BY EnvironmentAssumption DEF StepsOf
<1>4. StepsOf(w) \subseteq Steps
  BY <1>2 DEF StepsOf
<1>5. QED
  BY <1>1, <1>2, <1>3, <1>4

(* The step after the k-th of a template, and the place of the k-th. *)
LEMMA Successor ==
  ASSUME NEW w \in Workflows, NEW k \in DOMAIN Template[w]
  PROVE  /\ k < Len(Template[w]) =>
              Orch!NextStep(w, Template[w][k]) = Template[w][k + 1] /\ k + 1 \in DOMAIN Template[w]
         /\ Orch!NextStep(w, Template[w][k]) = NoStep => k = Len(Template[w])
         /\ Orch!NextStep(w, Template[w][k]) # NoStep => k < Len(Template[w])
         /\ Orch!Position(w, Template[w][k]) = k
<1> DEFINE T == Template[w]
<1>1. /\ DOMAIN T = 1 .. Len(T) /\ Len(T) \in Nat
      /\ \A i, j \in DOMAIN T : T[i] = T[j] => i = j
      /\ \A i \in DOMAIN T : T[i] \in Steps
  BY TemplateFacts
<1> HIDE DEF T
<1>2. (CHOOSE i \in DOMAIN T : T[i] = T[k]) = k
  BY <1>1 DEF T
<1>3. Orch!Position(w, T[k]) = k
  BY <1>2 DEF Orch!Position, T
<1>4. CASE k < Len(T)
  <2>1. k + 1 \in DOMAIN T
    BY <1>1, <1>4 DEF T
  <2>2. Orch!NextStep(w, T[k]) = T[(CHOOSE i \in DOMAIN T : T[i] = T[k]) + 1]
    BY <2>1 DEF Orch!NextStep, T
  <2>3. Orch!NextStep(w, T[k]) = T[k + 1]
    BY <1>2, <2>2
  <2>4. T[k + 1] # NoStep
    BY <1>1, <2>1, EmptyAssumption
  <2>5. QED
    BY <1>3, <1>4, <2>1, <2>3, <2>4 DEF T
<1>5. CASE ~(k < Len(T))
  <2>1. k = Len(T)
    BY <1>1, <1>5 DEF T
  <2>2. ~\E i \in DOMAIN T : T[i] = T[k] /\ i + 1 \in DOMAIN T
    BY <1>1, <2>1 DEF T
  <2>3. Orch!NextStep(w, T[k]) = NoStep
    BY <2>2 DEF Orch!NextStep, T
  <2>4. QED
    BY <1>3, <1>5, <2>1, <2>3 DEF T
<1>6. QED
  BY <1>4, <1>5 DEF T

(* What is good stays good while more steps are done. *)
LEMMA MoreIsDone ==
  ASSUME NEW w \in Workflows, NEW st, NEW a, NEW r, NEW l, NEW done, NEW more,
         Good(w, st, a, r, l, done), done \subseteq more
  PROVE  Good(w, st, a, r, l, more)
<1>1. (st # None /\ st.status = "completed") => StepsOf(w) \subseteq more
  BY DEF Good
<1>2. a # None => st # None /\ ActiveOK(w, a, more)
  BY DEF Good, ActiveOK
<1>3. r # None => RunOK(w, r, more)
  <2>1. \A todo : Remaining(w, todo, done) => Remaining(w, todo, more)
    BY DEF Remaining
  <2>2. QED
    BY <2>1 DEF Good, RunOK
<1>4. l # None => st # None /\ LaunchOK(w, l, more)
  BY DEF Good, LaunchOK
<1>5. QED
  BY <1>1, <1>2, <1>3, <1>4 DEF Good

(* Only the state of w changes. *)
Only(w) ==
  /\ store'  = [v \in Workflows |-> IF v = w THEN store'[w] ELSE store[v]]
  /\ active' = [v \in Workflows |-> IF v = w THEN active'[w] ELSE active[v]]
  /\ exec'   = [v \in Workflows |-> IF v = w THEN exec'[w] ELSE exec[v]]
  /\ launch' = [v \in Workflows |-> IF v = w THEN launch'[w] ELSE launch[v]]
  /\ earned' = [v \in Workflows |-> IF v = w THEN earned'[w] ELSE earned[v]]

TypesOf(st, a, r, l, done) ==
  /\ st \in Orch!Row \cup {None} /\ a \in Orch!Entry \cup {None}
  /\ r \in Run \cup {None} /\ l \in Launch \cup {None} /\ done \subseteq Steps

(* A step of one workflow is judged by what it leaves of that workflow. *)
LEMMA OneWorkflow ==
  ASSUME IInv, NEW w \in Workflows, Only(w),
         TypesOf(store'[w], active'[w], exec'[w], launch'[w], earned'[w]),
         Good(w, store'[w], active'[w], exec'[w], launch'[w], earned'[w])
  PROVE  IInv'
<1>1. /\ store' \in [Workflows -> Orch!Row \cup {None}]
      /\ active' \in [Workflows -> Orch!Entry \cup {None}]
      /\ exec' \in [Workflows -> Run \cup {None}]
      /\ launch' \in [Workflows -> Launch \cup {None}]
      /\ earned' \in [Workflows -> SUBSET Steps]
  <2> USE DEF IInv, Types, Only, TypesOf
  <2>1. store' \in [Workflows -> Orch!Row \cup {None}]
    OBVIOUS
  <2>2. active' \in [Workflows -> Orch!Entry \cup {None}]
    OBVIOUS
  <2>3. exec' \in [Workflows -> Run \cup {None}]
    OBVIOUS
  <2>4. launch' \in [Workflows -> Launch \cup {None}]
    OBVIOUS
  <2>5. earned' \in [Workflows -> SUBSET Steps]
    OBVIOUS
  <2>6. QED
    BY <2>1, <2>2, <2>3, <2>4, <2>5
<1>2. ASSUME NEW v \in Workflows
      PROVE  Good(v, store'[v], active'[v], exec'[v], launch'[v], earned'[v])
  <2>1. CASE v = w
    BY <2>1
  <2>2. CASE v # w
    <3>1. /\ store'[v] = store[v] /\ active'[v] = active[v] /\ exec'[v] = exec[v]
          /\ launch'[v] = launch[v] /\ earned'[v] = earned[v]
      BY <2>2 DEF Only
    <3>2. QED
      BY <3>1 DEF IInv
  <2>3. QED
    BY <2>1, <2>2
<1>3. QED
  BY <1>1, <1>2 DEF IInv, Types

(* The same, for a state that is given. *)
LEMMA OneState ==
  ASSUME IInv, NEW w \in Workflows
  PROVE  /\ TypesOf(store[w], active[w], exec[w], launch[w], earned[w])
         /\ Good(w, store[w], active[w], exec[w], launch[w], earned[w])
  BY DEF IInv, Types, TypesOf

-----------------------------------------------------------------------------
(* What a step of w does to the orchestrator, to the goroutine and to the  *)
(* start handler, done being the steps that are done after it.             *)
OrchMove(w, done) ==
  /\ store' = [v \in Workflows |-> IF v = w THEN store'[w] ELSE store[v]]
  /\ active' = [v \in Workflows |-> IF v = w THEN active'[w] ELSE active[v]]
  /\ store'[w] \in Orch!Row \cup {None} /\ active'[w] \in Orch!Entry \cup {None}
  /\ store[w] # None => store'[w] # None
  /\ (store'[w] # None /\ store'[w].status = "completed") => StepsOf(w) \subseteq done
  /\ active'[w] # None => store'[w] # None /\ ActiveOK(w, active'[w], done)

RunMove(w, done) ==
  /\ exec' = [v \in Workflows |-> IF v = w THEN exec'[w] ELSE exec[v]]
  /\ exec'[w] \in Run \cup {None}
  /\ exec'[w] # None => RunOK(w, exec'[w], done)

LaunchMove(w, done) ==
  /\ launch' = [v \in Workflows |-> IF v = w THEN launch'[w] ELSE launch[v]]
  /\ launch'[w] \in Launch \cup {None}
  /\ launch'[w] # None => store'[w] # None /\ LaunchOK(w, launch'[w], done)

(* A step that makes these three moves keeps the invariant. *)
LEMMA Moves ==
  ASSUME IInv, NEW w \in Workflows, NEW done \in SUBSET Steps,
         OrchMove(w, done), RunMove(w, done), LaunchMove(w, done),
         earned' = [earned EXCEPT ![w] = done]
  PROVE  IInv'
<1>1. earned'[w] = done /\ earned' = [v \in Workflows |-> IF v = w THEN earned'[w] ELSE earned[v]]
  BY DEF IInv, Types
<1>2. Only(w)
  BY <1>1 DEF Only, OrchMove, RunMove, LaunchMove
<1>3. TypesOf(store'[w], active'[w], exec'[w], launch'[w], earned'[w])
  BY <1>1 DEF TypesOf, OrchMove, RunMove, LaunchMove
<1>4. Good(w, store'[w], active'[w], exec'[w], launch'[w], earned'[w])
  BY <1>1 DEF Good, OrchMove, RunMove, LaunchMove
<1>5. QED
  BY <1>2, <1>3, <1>4, OneWorkflow

(* What is not touched stays good. *)
LEMMA Untouched ==
  ASSUME IInv, NEW w \in Workflows, NEW done, earned[w] \subseteq done
  PROVE  /\ UNCHANGED <<store, active>> => OrchMove(w, done)
         /\ UNCHANGED exec => RunMove(w, done)
         /\ UNCHANGED launch /\ OrchMove(w, done) => LaunchMove(w, done)
<1>1. /\ TypesOf(store[w], active[w], exec[w], launch[w], earned[w])
      /\ Good(w, store[w], active[w], exec[w], launch[w], done)
  BY OneState, MoreIsDone
<1>2. ASSUME UNCHANGED <<store, active>> PROVE OrchMove(w, done)
  <2>1. /\ store = [v \in Workflows |-> IF v = w THEN store[w] ELSE store[v]]
        /\ active = [v \in Workflows |-> IF v = w THEN active[w] ELSE active[v]]
    BY DEF IInv, Types
  <2>2. QED
    BY <1>1, <1>2, <2>1 DEF OrchMove, Good, TypesOf
<1>3. ASSUME UNCHANGED exec PROVE RunMove(w, done)
  <2>1. exec = [v \in Workflows |-> IF v = w THEN exec[w] ELSE exec[v]]
    BY DEF IInv, Types
  <2>2. QED
    BY <1>1, <1>3, <2>1 DEF RunMove, Good, TypesOf
<1>4. ASSUME UNCHANGED launch, OrchMove(w, done) PROVE LaunchMove(w, done)
  <2>1. launch = [v \in Workflows |-> IF v = w THEN launch[w] ELSE launch[v]]
    BY DEF IInv, Types
  <2>2. QED
    BY <1>1, <1>4, <2>1 DEF LaunchMove, OrchMove, Good, TypesOf
<1>5. QED
  BY <1>2, <1>3, <1>4

(* The fields of an entry of activeWorkflows. *)
LEMMA EntryFields ==
  ASSUME IInv, NEW w \in Workflows, active[w] # None
  PROVE  /\ active[w] \in Orch!Entry /\ active[w].wf \in Orch!Row /\ active[w].index \in Nat
         /\ \A st \in Orch!Status : [active[w].wf EXCEPT !.status = st] \in Orch!Row
         /\ \A st \in Orch!Status : [active[w].wf EXCEPT !.status = st].status = st
         /\ \A st \in Orch!Status : [active[w].wf EXCEPT !.status = st].step = active[w].wf.step
         /\ \A s \in Steps : [active[w].wf EXCEPT !.step = s] \in Orch!Row
         /\ \A s \in Steps : [active[w].wf EXCEPT !.step = s].step = s
         /\ \A s \in Steps : [active[w].wf EXCEPT !.step = s].status = active[w].wf.status
<1>1. active[w] \in Orch!Entry
  BY DEF IInv, Types
<1>2. active[w].wf \in Orch!Row /\ active[w].index \in Nat
  BY <1>1 DEF Orch!Entry
<1>3. QED
  BY <1>1, <1>2 DEF Orch!Row

(* A new row is pending. *)
LEMMA CreateMove ==
  ASSUME IInv, NEW w \in Workflows, Orch!CreateWorkflow(w), NEW done, earned[w] \subseteq done
  PROVE  OrchMove(w, done)
<1> DEFINE new == [status |-> "pending", step |-> NoStep, room |-> NoRoom]
<1>1. new \in Orch!Row /\ new.status = "pending"
  BY DEF Orch!Row, Orch!Status
<1>2. store' = [store EXCEPT ![w] = new] /\ active' = active
  BY DEF Orch!CreateWorkflow
<1> HIDE DEF new
<1>3. store'[w] = new /\ active'[w] = active[w]
  BY <1>2 DEF IInv, Types
<1>4. Good(w, store[w], active[w], exec[w], launch[w], done) /\ active[w] \in Orch!Entry \cup {None}
  BY OneState, MoreIsDone DEF TypesOf
<1>5. /\ store' = [v \in Workflows |-> IF v = w THEN store'[w] ELSE store[v]]
      /\ active' = [v \in Workflows |-> IF v = w THEN active'[w] ELSE active[v]]
  BY <1>2 DEF IInv, Types
<1>6. new # None
  BY <1>1, EmptyAssumption
<1>7. QED
  BY <1>1, <1>3, <1>4, <1>5, <1>6 DEF OrchMove, Good

(* A start does not depend on what was done before. *)
LEMMA StartMove ==
  ASSUME IInv, NEW w \in Workflows, Orch!StartWorkflow(w), NEW done
  PROVE  OrchMove(w, done) /\ store'[w] # None
<1> DEFINE wf == Orch!Started(w)
           index == IF Template[w] = <<>> THEN 0 ELSE FirstOrder[w]
           entry == [wf |-> wf, index |-> index]
<1>1. store' = [store EXCEPT ![w] = wf] /\ active' = [active EXCEPT ![w] = entry]
  BY DEF Orch!StartWorkflow, Orch!UpdateWorkflow, Orch!Launched
<1>2. store[w] \in Orch!Row
  BY DEF IInv, Types, Orch!StartWorkflow
<1>3. Template[w] # <<>> => 1 \in DOMAIN Template[w] /\ Template[w][1] \in Steps
  BY TemplateFacts
<1>4. wf \in Orch!Row /\ wf.status = "running" /\ (Template[w] # <<>> => wf.step = Template[w][1])
  BY <1>2, <1>3 DEF Orch!Started, Orch!Row, Orch!Status
<1>5. index \in Nat
  BY TemplateAssumption
<1> HIDE DEF wf, index
<1>6. entry \in Orch!Entry /\ entry.wf = wf
  BY <1>4, <1>5 DEF Orch!Entry
<1>7. wf # None /\ entry # None
  BY <1>4, <1>6, EmptyAssumption
<1>8. ActiveOK(w, entry, done)
  BY <1>3, <1>4, <1>6 DEF ActiveOK
<1> HIDE DEF entry
<1>9. store'[w] = wf /\ active'[w] = entry
  BY <1>1 DEF IInv, Types
<1>10. /\ store' = [v \in Workflows |-> IF v = w THEN store'[w] ELSE store[v]]
       /\ active' = [v \in Workflows |-> IF v = w THEN active'[w] ELSE active[v]]
  BY <1>1 DEF IInv, Types
<1>11. QED
  BY <1>4, <1>6, <1>7, <1>8, <1>9, <1>10 DEF OrchMove

(* The status in memory becomes st, in the row too if the write succeeds,  *)
(* and the entry stays or goes.                                            *)
LEMMA StatusMove ==
  ASSUME IInv, NEW w \in Workflows, active[w] # None, NEW done, earned[w] \subseteq done,
         NEW st \in Orch!Status, st = "completed" => StepsOf(w) \subseteq done,
         NEW saved \in BOOLEAN,
         Orch!UpdateWorkflow(w, [active[w].wf EXCEPT !.status = st], saved),
         \/ active' = [active EXCEPT ![w] = None]
         \/ active' = [active EXCEPT ![w].wf = [active[w].wf EXCEPT !.status = st]]
  PROVE  OrchMove(w, done)
<1> DEFINE wf == [active[w].wf EXCEPT !.status = st]
           entry == [active[w] EXCEPT !.wf = wf]
<1>1. /\ wf \in Orch!Row /\ wf.status = st /\ wf.step = active[w].wf.step
      /\ active[w] \in Orch!Entry
  BY EntryFields
<1>2. Good(w, store[w], active[w], exec[w], launch[w], done) /\ store[w] \in Orch!Row \cup {None}
  BY OneState, MoreIsDone DEF TypesOf
<1>3. store' = IF saved THEN [store EXCEPT ![w] = wf] ELSE store
  BY DEF Orch!UpdateWorkflow
<1>4. active' = [active EXCEPT ![w] = None] \/ active' = [active EXCEPT ![w] = entry]
  BY DEF IInv, Types
<1> HIDE DEF wf
<1>5. entry \in Orch!Entry /\ entry.wf = wf
  BY <1>1 DEF Orch!Entry
<1> HIDE DEF entry
<1>6. wf # None
  BY <1>1, EmptyAssumption
<1>7. ActiveOK(w, entry, done)
  BY <1>1, <1>2, <1>5 DEF ActiveOK, Good
<1>8. store'[w] \in {wf, store[w]} /\ active'[w] \in {None, entry}
  BY <1>3, <1>4 DEF IInv, Types
<1>9. store' = [v \in Workflows |-> IF v = w THEN store'[w] ELSE store[v]]
  BY <1>3 DEF IInv, Types
<1>10. active' = [v \in Workflows |-> IF v = w THEN active'[w] ELSE active[v]]
  BY <1>4 DEF IInv, Types
<1>11. store'[w] # None /\ store'[w] \in Orch!Row
  BY <1>1, <1>2, <1>6, <1>8 DEF Good
<1>12. store'[w].status = "completed" => StepsOf(w) \subseteq done
  BY <1>1, <1>2, <1>8, <1>11 DEF Good
<1>13. QED
  BY <1>5, <1>7, <1>8, <1>9, <1>10, <1>11, <1>12 DEF OrchMove

(* An outcome; a completion only when all is done. *)
LEMMA FinishMove ==
  ASSUME IInv, NEW w \in Workflows, NEW done, earned[w] \subseteq done,
         NEW outcome \in Orch!Terminal, outcome = "completed" => StepsOf(w) \subseteq done,
         NEW saved \in BOOLEAN, Orch!Finish(w, outcome, saved)
  PROVE  OrchMove(w, done)
<1>1. active[w] # None /\ outcome \in Orch!Status
  BY DEF Orch!Finish, Orch!CanMove, Orch!IsActive, Orch!Terminal, Orch!Status
<1>2. /\ Orch!UpdateWorkflow(w, [active[w].wf EXCEPT !.status = outcome], saved)
      /\ \/ active' = [active EXCEPT ![w] = None]
         \/ active' = [active EXCEPT ![w].wf = [active[w].wf EXCEPT !.status = outcome]]
  BY DEF Orch!Finish, Orch!Remove
<1>3. QED
  BY <1>1, <1>2, StatusMove

(* A cancellation. *)
LEMMA CancelMove ==
  ASSUME IInv, NEW w \in Workflows, NEW done, earned[w] \subseteq done,
         NEW saved \in BOOLEAN, Orch!CancelWorkflow(w, saved)
  PROVE  OrchMove(w, done)
<1>1. active[w] # None /\ "cancelled" \in Orch!Status
  BY DEF Orch!CancelWorkflow, Orch!CanMove, Orch!IsActive, Orch!Status
<1>2. /\ Orch!UpdateWorkflow(w, [active[w].wf EXCEPT !.status = "cancelled"], saved)
      /\ active' = [active EXCEPT ![w] = None]
  BY DEF Orch!CancelWorkflow, Orch!Remove
<1>3. QED
  BY <1>1, <1>2, StatusMove

(* The step that is left behind is done; past the last one all are. *)
LEMMA AdvanceMove ==
  ASSUME IInv, NEW w \in Workflows, NEW done, earned[w] \subseteq done, NEW s, s \in done,
         NEW saved \in BOOLEAN, Orch!AdvanceWorkflow(w, s, saved)
  PROVE  OrchMove(w, done)
<1>1. /\ active[w] # None /\ active[w].wf.status = "running"
      /\ Template[w] # <<>> /\ active[w].wf.step = s
  BY DEF Orch!AdvanceWorkflow, Orch!OnStep, Orch!IsActive
<1>2. /\ Good(w, store[w], active[w], exec[w], launch[w], done)
      /\ store[w] \in Orch!Row \cup {None}
  BY OneState, MoreIsDone DEF TypesOf
<1>3. PICK k \in DOMAIN Template[w] :
        Template[w][k] = s /\ \A i \in 1 .. (k - 1) : Template[w][i] \in done
  BY <1>1, <1>2 DEF Good, ActiveOK
<1>4. DOMAIN Template[w] = 1 .. Len(Template[w]) /\ Len(Template[w]) \in Nat
  BY TemplateFacts
<1>5. \A i \in 1 .. k : Template[w][i] \in done
  BY <1>3, <1>4
<1>6. CASE Orch!NextStep(w, s) = NoStep
  <2>1. k = Len(Template[w])
    BY <1>3, <1>6, Successor
  <2>2. StepsOf(w) \subseteq done
    BY <1>4, <1>5, <2>1 DEF StepsOf
  <2>3. Orch!Finish(w, "completed", saved) /\ "completed" \in Orch!Terminal
    BY <1>6 DEF Orch!AdvanceWorkflow, Orch!CompleteWorkflow, Orch!Terminal
  <2>4. QED
    BY <2>2, <2>3, FinishMove
<1>7. CASE Orch!NextStep(w, s) # NoStep
  <2> DEFINE wf == [active[w].wf EXCEPT !.step = Orch!NextStep(w, s)]
             entry == [wf |-> wf, index |-> active[w].index + 1]
  <2>1. /\ Orch!NextStep(w, s) = Template[w][k + 1] /\ k + 1 \in DOMAIN Template[w]
        /\ Template[w][k + 1] \in Steps
    BY <1>3, <1>7, Successor, TemplateFacts
  <2>2. /\ wf \in Orch!Row /\ wf.step = Template[w][k + 1] /\ wf.status = "running"
        /\ active[w].index \in Nat
    BY <1>1, <2>1, EntryFields
  <2>3. /\ store' = IF saved THEN [store EXCEPT ![w] = wf] ELSE store
        /\ active' = [active EXCEPT ![w] = entry]
    BY <1>7 DEF Orch!AdvanceWorkflow, Orch!UpdateWorkflow, IInv, Types
  <2> HIDE DEF wf
  <2>4. entry \in Orch!Entry /\ entry.wf = wf
    BY <2>2 DEF Orch!Entry
  <2> HIDE DEF entry
  <2>5. wf # None
    BY <2>2, EmptyAssumption
  <2>6. ActiveOK(w, entry, done)
    <3>1. \A i \in 1 .. ((k + 1) - 1) : Template[w][i] \in done
      BY <1>4, <1>5
    <3>2. QED
      BY <2>1, <2>2, <2>4, <3>1 DEF ActiveOK
  <2>7. store'[w] \in {wf, store[w]} /\ active'[w] = entry
    BY <2>3 DEF IInv, Types
  <2>8. store' = [v \in Workflows |-> IF v = w THEN store'[w] ELSE store[v]]
    BY <2>3 DEF IInv, Types
  <2>9. active' = [v \in Workflows |-> IF v = w THEN active'[w] ELSE active[v]]
    BY <2>3 DEF IInv, Types
  <2>10. store'[w] # None /\ store'[w] \in Orch!Row
    BY <1>1, <1>2, <2>2, <2>5, <2>7 DEF Good
  <2>11. store'[w].status = "completed" => StepsOf(w) \subseteq done
    BY <1>2, <2>2, <2>7, <2>10 DEF Good
  <2>12. QED
    BY <2>4, <2>6, <2>7, <2>8, <2>9, <2>10, <2>11 DEF OrchMove
<1>8. QED
  BY <1>6, <1>7

-----------------------------------------------------------------------------
(* The goroutine: it goes from one record to another. *)
LEMMA RunStep ==
  ASSUME IInv, NEW w \in Workflows, NEW done, NEW r \in Run, RunOK(w, r, done),
         exec' = [exec EXCEPT ![w] = r]
  PROVE  RunMove(w, done)
<1>1. exec'[w] = r /\ exec' = [v \in Workflows |-> IF v = w THEN exec'[w] ELSE exec[v]]
  BY DEF IInv, Types
<1>2. QED
  BY <1>1 DEF RunMove

(* What is known of a goroutine. *)
LEMMA RunFacts ==
  ASSUME IInv, NEW w \in Workflows, exec[w] # None, NEW done, earned[w] \subseteq done
  PROVE  /\ exec[w] \in Run /\ exec[w].todo \in Seq(Steps) /\ exec[w].attempt \in 0 .. RetryCount
         /\ exec[w].agent \in Nat /\ RunOK(w, exec[w], done)
         /\ Leave(w, "report") \in Run /\ Leave(w, "report").at = "report"
<1>1. exec[w] \in Run
  BY DEF IInv, Types
<1>2. RunOK(w, exec[w], done)
  <2>1. Good(w, store[w], active[w], exec[w], launch[w], earned[w])
    BY OneState
  <2>2. Good(w, store[w], active[w], exec[w], launch[w], done)
    BY <2>1, MoreIsDone
  <2>3. QED
    BY <2>2 DEF Good
<1>3. exec[w].todo \in Seq(Steps) /\ exec[w].attempt \in 0 .. RetryCount /\ exec[w].agent \in Nat
  BY <1>1 DEF Run
<1>4. Leave(w, "report") \in Run /\ Leave(w, "report").at = "report"
  BY <1>1 DEF Leave, Run
<1>5. QED
  BY <1>1, <1>2, <1>3, <1>4

(* An outcome is reported. *)
LEMMA ReportMove ==
  ASSUME IInv, NEW w \in Workflows, exec[w] # None, NEW done, earned[w] \subseteq done,
         NEW result \in Outcomes, result = "completed" => StepsOf(w) \subseteq done,
         Report(w, result)
  PROVE  RunMove(w, done)
<1> DEFINE r == [Leave(w, "report") EXCEPT !.result = result]
<1>1. Leave(w, "report") \in Run /\ Leave(w, "report").at = "report"
  BY RunFacts
<1>2. r \in Run /\ r.at = "report" /\ r.result = result
  BY <1>1 DEF Run
<1>3. exec' = [exec EXCEPT ![w] = r]
  BY DEF Report
<1> HIDE DEF r
<1>4. RunOK(w, r, done)
  BY <1>2 DEF RunOK, Busy, Watching
<1>5. QED
  BY <1>2, <1>3, <1>4, RunStep

(* The goroutine goes on with the same step. *)
LEMMA SameStep ==
  ASSUME IInv, NEW w \in Workflows, exec[w] # None, NEW done, earned[w] \subseteq done,
         exec[w].at \in Busy \cup {"next"}, exec[w].todo # <<>>,
         NEW r \in Run, r.todo = exec[w].todo, r.at \in Busy,
         r.at \in Watching => r.inst \in Instances,
         r.at = "retry" => r.attempt < RetryCount,
         r.at = "advance" => Head(exec[w].todo) \in done,
         exec' = [exec EXCEPT ![w] = r]
  PROVE  RunMove(w, done)
<1>1. RunOK(w, exec[w], done)
  BY RunFacts
<1>2. Remaining(w, r.todo, done)
  BY <1>1 DEF RunOK
<1>3. RunOK(w, r, done)
  BY <1>2 DEF RunOK, Busy, Watching
<1>4. QED
  BY <1>3, RunStep

(* What becomes of the result of an agent. *)
LEMMA JudgeMove ==
  ASSUME IInv, NEW w \in Workflows, exec[w] # None, NEW done, earned[w] \subseteq done,
         exec[w].at \in Busy, NEW result, result = "completed" => Head(exec[w].todo) \in done,
         AfterAgent(w, result)
  PROVE  RunMove(w, done)
<1>1. /\ exec[w] \in Run /\ exec[w].todo # <<>>
      /\ exec[w].attempt \in 0 .. RetryCount /\ exec[w].agent \in Nat
  BY RunFacts DEF RunOK
<1>2. \A at \in Busy : /\ Leave(w, at) \in Run /\ Leave(w, at).at = at
                       /\ Leave(w, at).todo = exec[w].todo
                       /\ Leave(w, at).attempt = exec[w].attempt
                       /\ Leave(w, at).agent = exec[w].agent
  BY <1>1 DEF Leave, Run, Busy
<1>3. CASE result = "completed" /\ exec' = [exec EXCEPT ![w] = Leave(w, "advance")]
  <2>1. "advance" \in Busy \ Watching
    BY DEF Busy, Watching
  <2>2. QED
    BY <1>1, <1>2, <1>3, <2>1, SameStep
<1>4. CASE exec' = [exec EXCEPT ![w] = [Leave(w, "attempt") EXCEPT !.agent = @ + 1]]
  <2> DEFINE r == [Leave(w, "attempt") EXCEPT !.agent = @ + 1]
  <2>1. "attempt" \in Busy \ Watching
    BY DEF Busy, Watching
  <2>2. r \in Run /\ r.at = "attempt" /\ r.todo = exec[w].todo
    BY <1>1, <1>2, <2>1 DEF Run
  <2>3. exec' = [exec EXCEPT ![w] = r]
    BY <1>4
  <2> HIDE DEF r
  <2>4. QED
    BY <1>1, <2>1, <2>2, <2>3, SameStep
<1>5. CASE exec[w].attempt < RetryCount /\ exec' = [exec EXCEPT ![w] = Leave(w, "retry")]
  <2>1. "retry" \in Busy \ Watching
    BY DEF Busy, Watching
  <2>2. QED
    BY <1>1, <1>2, <1>5, <2>1, SameStep
<1>6. CASE Report(w, "cancelled") \/ Report(w, "failed")
  <2>1. "cancelled" \in Outcomes /\ "failed" \in Outcomes
    BY DEF Outcomes
  <2>2. QED
    BY <1>6, <2>1, ReportMove
<1>7. QED
  BY <1>3, <1>4, <1>5, <1>6 DEF AfterAgent, Judge

(* A goroutine that only moves to another place of the same step. *)
LEMMA GotoMove ==
  ASSUME IInv, NEW w \in Workflows, exec[w] # None, NEW done, earned[w] \subseteq done,
         exec[w].at \in Busy \cup {"next"}, exec[w].todo # <<>>,
         NEW at \in Busy \ {"retry", "advance"}, at \in Watching => exec[w].at \in Watching,
         Goto(w, at)
  PROVE  RunMove(w, done)
<1> DEFINE r == [exec[w] EXCEPT !.at = at]
<1>1. exec[w] \in Run /\ (exec[w].at \in Watching => exec[w].inst \in Instances)
  BY RunFacts DEF RunOK
<1>2. r \in Run /\ r.at = at /\ r.todo = exec[w].todo /\ r.inst = exec[w].inst
  BY <1>1 DEF Run, Busy
<1>3. exec' = [exec EXCEPT ![w] = r]
  BY DEF Goto
<1> HIDE DEF r
<1>4. QED
  BY <1>1, <1>2, <1>3, SameStep

-----------------------------------------------------------------------------
(* A step of the goroutine that leaves the orchestrator and the start      *)
(* handler alone.                                                          *)
LEMMA GoroutineStep ==
  ASSUME IInv, NEW w \in Workflows, NEW done \in SUBSET Steps, earned[w] \subseteq done,
         RunMove(w, done), earned' = [earned EXCEPT ![w] = done],
         UNCHANGED <<store, active, launch>>
  PROVE  IInv'
<1>1. OrchMove(w, done) /\ LaunchMove(w, done)
  BY Untouched
<1>2. QED
  BY <1>1, Moves

(* The same, when no step is newly done. *)
LEMMA QuietStep ==
  ASSUME IInv, NEW w \in Workflows, RunMove(w, earned[w]),
         UNCHANGED <<store, active, launch, earned>>
  PROVE  IInv'
<1>1. earned[w] \in SUBSET Steps /\ earned' = [earned EXCEPT ![w] = earned[w]]
  BY DEF IInv, Types
<1>2. QED
  BY <1>1, GoroutineStep

(* The top of the loop: with no step left, all are done. *)
LEMMA NextStepInv ==
  ASSUME IInv, NEW w \in Workflows, NextStep(w)
  PROVE  IInv'
<1>1. exec[w] # None /\ exec[w].at = "next" /\ exec[w].at \in Busy \cup {"next"}
  BY DEF NextStep, At
<1>2. UNCHANGED <<store, active, launch, earned>>
  BY DEF NextStep, orchVars
<1>3. CASE exec[w].todo = <<>> /\ Report(w, "completed")
  <2>1. Remaining(w, <<>>, earned[w])
    BY <1>1, <1>3, RunFacts DEF RunOK
  <2>2. StepsOf(w) \subseteq earned[w]
    BY <2>1 DEF Remaining
  <2>3. QED
    BY <1>1, <1>2, <1>3, <2>2, ReportMove, QuietStep DEF Outcomes
<1>4. CASE Report(w, "cancelled")
  BY <1>1, <1>2, <1>4, ReportMove, QuietStep DEF Outcomes
<1>5. CASE exec[w].todo # <<>> /\ Goto(w, "approve")
  <2>1. "approve" \in (Busy \ Watching) \ {"retry", "advance"}
    BY DEF Busy, Watching
  <2>2. QED
    BY <1>1, <1>2, <1>5, <2>1, GotoMove, QuietStep
<1>6. QED
  BY <1>3, <1>4, <1>5 DEF NextStep

(* The approval of a step. *)
LEMMA CheckApprovalInv ==
  ASSUME IInv, NEW w \in Workflows, CheckApproval(w)
  PROVE  IInv'
<1>1. exec[w] # None /\ exec[w].at \in Busy /\ exec[w].todo # <<>> /\ exec[w] \in Run
  <2>1. exec[w] # None /\ exec[w].at \in Busy
    BY DEF CheckApproval, At, Busy
  <2>2. QED
    BY <2>1, RunFacts DEF RunOK
<1>2. UNCHANGED <<store, active, launch, earned>>
  BY DEF CheckApproval, orchVars
<1>3. CASE exec' = [exec EXCEPT ![w].at = "attempt", ![w].attempt = 0, ![w].agent = 1]
  <2> DEFINE r == [exec[w] EXCEPT !.at = "attempt", !.attempt = 0, !.agent = 1]
  <2>1. 0 \in 0 .. RetryCount
    BY EnvironmentAssumption
  <2>2. r \in Run /\ r.at = "attempt" /\ r.todo = exec[w].todo
    BY <1>1, <2>1 DEF Run
  <2>3. exec' = [exec EXCEPT ![w] = r]
    BY <1>1, <1>3 DEF IInv, Types, Run
  <2>4. "attempt" \in Busy \ Watching
    BY DEF Busy, Watching
  <2> HIDE DEF r
  <2>5. RunMove(w, earned[w])
    BY <1>1, <2>2, <2>3, <2>4, SameStep
  <2>6. QED
    BY <1>2, <2>5, QuietStep
<1>4. CASE Report(w, "failed") \/ Report(w, "cancelled")
  BY <1>1, <1>2, <1>4, ReportMove, QuietStep DEF Outcomes
<1>5. QED
  BY <1>3, <1>4 DEF CheckApproval

(* Where the goroutine is at one of these places, it has a step at hand. *)
LEMMA BusyFacts ==
  ASSUME IInv, NEW w \in Workflows, NEW at \in Busy, At(w, at)
  PROVE  /\ exec[w] # None /\ exec[w].at \in Busy /\ exec[w].at \in Busy \cup {"next"}
         /\ exec[w].todo # <<>> /\ exec[w] \in Run
<1>1. exec[w] # None /\ exec[w].at \in Busy
  BY DEF At
<1>2. QED
  BY <1>1, RunFacts DEF RunOK

(* An attempt begins. *)
LEMMA ExecuteStepInv ==
  ASSUME IInv, NEW w \in Workflows, ExecuteStep(w)
  PROVE  IInv'
<1>1. /\ exec[w] # None /\ exec[w].at \in Busy /\ exec[w].at \in Busy \cup {"next"}
      /\ exec[w].todo # <<>> /\ exec[w] \in Run
  BY BusyFacts DEF ExecuteStep, Busy
<1>2. UNCHANGED <<store, active, launch, earned>>
  BY DEF ExecuteStep, orchVars
<1>3. CASE Report(w, "failed") \/ Report(w, "cancelled")
  BY <1>1, <1>2, <1>3, ReportMove, QuietStep DEF Outcomes
<1>4. CASE AfterAgent(w, "recoverable")
  BY <1>1, <1>2, <1>4, JudgeMove, QuietStep
<1>5. CASE Goto(w, "spawn")
  <2>1. "spawn" \in (Busy \ Watching) \ {"retry", "advance"}
    BY DEF Busy, Watching
  <2>2. QED
    BY <1>1, <1>2, <1>5, <2>1, GotoMove, QuietStep
<1>6. QED
  BY <1>3, <1>4, <1>5 DEF ExecuteStep

(* A container is spawned, or cannot be. *)
LEMMA SpawnInv ==
  ASSUME IInv, NEW w \in Workflows, SpawnFails(w) \/ \E tracked \in BOOLEAN : SpawnAgent(w, tracked)
  PROVE  IInv'
<1>1. /\ exec[w] # None /\ exec[w].at \in Busy /\ exec[w].at \in Busy \cup {"next"}
      /\ exec[w].todo # <<>> /\ exec[w] \in Run
  BY BusyFacts DEF SpawnFails, SpawnAgent, Busy
<1>2. UNCHANGED <<store, active, launch, earned>>
  BY DEF SpawnFails, SpawnAgent, orchVars
<1>3. CASE SpawnFails(w)
  <2>1. AfterAgent(w, "recoverable")
    BY <1>3 DEF SpawnFails
  <2>2. QED
    BY <1>1, <1>2, <2>1, JudgeMove, QuietStep
<1>4. ASSUME NEW tracked \in BOOLEAN, SpawnAgent(w, tracked) PROVE IInv'
  <2> DEFINE i == CHOOSE i \in Instances : container[i] = "unused"
             r == [exec[w] EXCEPT !.at = "wait", !.inst = i]
  <2>1. i \in Instances
    BY <1>4 DEF SpawnAgent
  <2>2. exec' = [exec EXCEPT ![w].at = "wait", ![w].inst = i]
    BY <1>4 DEF SpawnAgent
  <2> HIDE DEF i
  <2>3. exec' = [exec EXCEPT ![w] = r]
    BY <1>1, <2>2 DEF IInv, Types, Run
  <2>4. r \in Run /\ r.at = "wait" /\ r.todo = exec[w].todo /\ r.inst \in Instances
    BY <1>1, <2>1 DEF Run
  <2>5. "wait" \in Busy
    BY DEF Busy
  <2> HIDE DEF r
  <2>6. RunMove(w, earned[w])
    BY <1>1, <2>3, <2>4, <2>5, SameStep
  <2>7. QED
    BY <1>2, <2>6, QuietStep
<1>5. QED
  BY <1>3, <1>4

(* The result of an agent is judged, and the step is done if it completed. *)
LEMMA EarnStep ==
  ASSUME IInv, NEW w \in Workflows, exec[w] # None, exec[w].at \in Busy, NEW result,
         AfterAgent(w, result), Earn(w, result), UNCHANGED <<store, active, launch>>
  PROVE  IInv'
<1> DEFINE done == IF result = "completed" THEN earned[w] \cup {Head(exec[w].todo)} ELSE earned[w]
<1>1. exec[w].todo \in Seq(Steps) /\ exec[w].todo # <<>> /\ earned[w] \in SUBSET Steps
  BY RunFacts DEF RunOK, IInv, Types
<1>2. Head(exec[w].todo) \in Steps
  BY <1>1
<1>3. /\ done \in SUBSET Steps /\ earned[w] \subseteq done
      /\ result = "completed" => Head(exec[w].todo) \in done
  BY <1>1, <1>2
<1>4. earned' = [earned EXCEPT ![w] = done]
  BY DEF Earn, IInv, Types
<1> HIDE DEF done
<1>5. RunMove(w, done)
  BY <1>3, JudgeMove
<1>6. QED
  BY <1>3, <1>4, <1>5, GoroutineStep

(* A tick of waitForCompletion. *)
LEMMA PollInv ==
  ASSUME IInv, NEW w \in Workflows, Poll(w)
  PROVE  IInv'
<1>1. /\ exec[w] # None /\ exec[w].at \in Busy /\ exec[w].at \in Busy \cup {"next"}
      /\ exec[w].todo # <<>> /\ exec[w] \in Run /\ exec[w].inst \in Instances
  <2>1. At(w, "wait") /\ "wait" \in Busy /\ "wait" \in Watching
    BY DEF Poll, Busy, Watching
  <2>2. QED
    BY <2>1, BusyFacts, RunFacts DEF RunOK, At
<1>2. UNCHANGED <<store, active, launch>>
  BY DEF Poll, orchVars
<1>3. CASE AfterAgent(w, "recoverable") /\ UNCHANGED earned
  BY <1>1, <1>2, <1>3, JudgeMove, QuietStep
<1>4. CASE AfterAgent(w, row[exec[w].inst]) /\ Earn(w, row[exec[w].inst])
  BY <1>1, <1>2, <1>4, EarnStep
<1>5. ASSUME NEW reachable \in Reachable(w),
             Inspect(exec[w].inst, "status", reachable),
             exec' = [exec EXCEPT ![w].at = "polled",
                                  ![w].result = Observed(exec[w].inst, reachable)],
             UNCHANGED earned
      PROVE  IInv'
  <2> DEFINE seen == Observed(exec[w].inst, reachable)
             r == [exec[w] EXCEPT !.at = "polled", !.result = seen]
  <2>1. seen \in Outcomes
    BY <1>5 DEF Inspect, Observed, Outcomes
  <2>2. exec' = [exec EXCEPT ![w].at = "polled", ![w].result = seen]
    BY <1>5
  <2> HIDE DEF seen
  <2>3. exec' = [exec EXCEPT ![w] = r]
    BY <1>1, <2>2 DEF IInv, Types, Run
  <2>4. r \in Run /\ r.at = "polled" /\ r.todo = exec[w].todo /\ r.inst = exec[w].inst
    BY <1>1, <2>1 DEF Run
  <2>5. "polled" \in Busy
    BY DEF Busy
  <2> HIDE DEF r
  <2>6. RunMove(w, earned[w])
    BY <1>1, <2>3, <2>4, <2>5, SameStep
  <2>7. QED
    BY <1>2, <1>5, <2>6, QuietStep
<1>6. QED
  BY <1>3, <1>4, <1>5 DEF Poll

(* The status call returns. *)
LEMMA PolledInv ==
  ASSUME IInv, NEW w \in Workflows, Polled(w)
  PROVE  IInv'
<1>1. exec[w] # None /\ exec[w].at \in Busy
  BY BusyFacts DEF Polled, Busy
<1>2. /\ AfterAgent(w, exec[w].result) /\ Earn(w, exec[w].result)
      /\ UNCHANGED <<store, active, launch>>
  BY DEF Polled, orchVars
<1>3. QED
  BY <1>1, <1>2, EarnStep

(* The goroutine stops its container and comes back from that. *)
LEMMA StoppingInv ==
  ASSUME IInv, NEW w \in Workflows, WaitCancelled(w) \/ StopReturned(w)
  PROVE  IInv'
<1>1. /\ exec[w] # None /\ exec[w].at \in Busy /\ exec[w].at \in Busy \cup {"next"}
      /\ exec[w].todo # <<>>
  BY BusyFacts DEF WaitCancelled, StopReturned, Busy
<1>2. UNCHANGED <<store, active, launch, earned>>
  BY DEF WaitCancelled, StopReturned, orchVars
<1>3. CASE exec[w].at = "wait" /\ Goto(w, "stopping")
  <2>1. "stopping" \in Busy \ {"retry", "advance"} /\ exec[w].at \in Watching
    BY <1>3 DEF Busy, Watching
  <2>2. QED
    BY <1>1, <1>2, <1>3, <2>1, GotoMove, QuietStep
<1>4. CASE AfterAgent(w, "cancelled")
  BY <1>1, <1>2, <1>4, JudgeMove, QuietStep
<1>5. QED
  BY <1>3, <1>4 DEF WaitCancelled, StopReturned, At

(* The next attempt, which is still within RetryCount. *)
LEMMA RetryInv ==
  ASSUME IInv, NEW w \in Workflows, Retry(w)
  PROVE  IInv'
<1>1. /\ exec[w] # None /\ exec[w].at \in Busy /\ exec[w].at \in Busy \cup {"next"}
      /\ exec[w].todo # <<>> /\ exec[w] \in Run
  BY BusyFacts DEF Retry, Busy
<1>2. UNCHANGED <<store, active, launch, earned>>
  BY DEF Retry, orchVars
<1>3. CASE exec' = [exec EXCEPT ![w].at = "attempt", ![w].attempt = @ + 1]
  <2> DEFINE r == [exec[w] EXCEPT !.at = "attempt", !.attempt = exec[w].attempt + 1]
  <2>1. exec[w].attempt < RetryCount /\ exec[w].attempt \in 0 .. RetryCount
    BY <1>1, RunFacts DEF RunOK, Retry, At
  <2>2. exec[w].attempt + 1 \in 0 .. RetryCount
    BY <2>1, EnvironmentAssumption
  <2>3. exec' = [exec EXCEPT ![w] = r]
    BY <1>1, <1>3 DEF IInv, Types, Run
  <2>4. r \in Run /\ r.at = "attempt" /\ r.todo = exec[w].todo
    BY <1>1, <2>2 DEF Run
  <2>5. "attempt" \in Busy \ Watching
    BY DEF Busy, Watching
  <2> HIDE DEF r
  <2>6. RunMove(w, earned[w])
    BY <1>1, <2>3, <2>4, <2>5, SameStep
  <2>7. QED
    BY <1>2, <2>6, QuietStep
<1>4. CASE Report(w, "cancelled")
  BY <1>1, <1>2, <1>4, ReportMove, QuietStep DEF Outcomes
<1>5. QED
  BY <1>3, <1>4 DEF Retry

(* A step that ends with the first of todo done leaves the rest of todo. *)
LEMMA TailRemains ==
  ASSUME NEW w \in Workflows, NEW todo \in Seq(Steps), todo # <<>>, NEW done,
         Remaining(w, todo, done), Head(todo) \in done
  PROVE  Remaining(w, Tail(todo), done)
<1> DEFINE rest == Tail(todo)
           n == Len(Template[w])
<1>1. /\ rest \in Seq(Steps) /\ Len(rest) = Len(todo) - 1 /\ Len(todo) \in Nat \ {0}
      /\ \A i \in 1 .. Len(rest) : rest[i] = todo[i + 1]
      /\ DOMAIN rest = 1 .. Len(rest) /\ DOMAIN todo = 1 .. Len(todo) /\ Head(todo) = todo[1]
  OBVIOUS
<1>2. n \in Nat
  BY TemplateFacts
<1> HIDE DEF rest, n
<1>3. \A i \in DOMAIN todo : todo[i] \in done \/ \E j \in DOMAIN rest : rest[j] = todo[i]
  <2> TAKE i \in DOMAIN todo
  <2>1. CASE i = 1
    BY <1>1, <2>1
  <2>2. CASE i # 1
    <3>1. i - 1 \in DOMAIN rest /\ rest[i - 1] = todo[(i - 1) + 1]
      BY <1>1, <2>2
    <3>2. (i - 1) + 1 = i
      BY <1>1
    <3>3. QED
      BY <3>1, <3>2
  <2>3. QED
    BY <2>1, <2>2
<1>4. StepsOf(w) \subseteq done \cup {rest[i] : i \in DOMAIN rest}
  BY <1>3 DEF Remaining
<1>5. ASSUME InSliceOrder(w)
      PROVE  /\ Len(rest) <= n
             /\ \A i \in DOMAIN rest : rest[i] = Template[w][n - Len(rest) + i]
             /\ \A i \in 1 .. (n - Len(rest)) : Template[w][i] \in done
  <2>1. /\ Len(todo) <= n
        /\ \A i \in DOMAIN todo : todo[i] = Template[w][n - Len(todo) + i]
        /\ \A i \in 1 .. (n - Len(todo)) : Template[w][i] \in done
    BY <1>5 DEF Remaining, n
  <2>2. Len(rest) <= n
    BY <1>1, <1>2, <2>1
  <2>3. ASSUME NEW i \in DOMAIN rest PROVE rest[i] = Template[w][n - Len(rest) + i]
    <3>1. i + 1 \in DOMAIN todo /\ n - Len(todo) + (i + 1) = n - Len(rest) + i
      BY <1>1, <1>2
    <3>2. QED
      BY <1>1, <2>1, <3>1
  <2>4. ASSUME NEW i \in 1 .. (n - Len(rest)) PROVE Template[w][i] \in done
    <3>1. CASE i <= n - Len(todo)
      BY <1>1, <1>2, <2>1, <3>1
    <3>2. CASE ~(i <= n - Len(todo))
      <4>1. 1 \in DOMAIN todo /\ i = n - Len(todo) + 1
        BY <1>1, <1>2, <3>2
      <4>2. QED
        BY <1>1, <2>1, <4>1
    <3>3. QED
      BY <3>1, <3>2
  <2>5. QED
    BY <2>2, <2>3, <2>4
<1>6. QED
  BY <1>4, <1>5 DEF Remaining, rest, n

(* The step is left behind. *)
LEMMA AdvanceInv ==
  ASSUME IInv, NEW w \in Workflows, NEW saved \in Saves, Advance(w, saved)
  PROVE  IInv'
<1> DEFINE s == Head(exec[w].todo)
<1>1. /\ exec[w] # None /\ exec[w].at = "advance"
      /\ exec[w].todo # <<>> /\ exec[w] \in Run
  BY BusyFacts DEF Advance, At, Busy
<1>2. /\ saved \in BOOLEAN /\ UNCHANGED <<launch, earned>>
      /\ earned[w] \in SUBSET Steps /\ earned' = [earned EXCEPT ![w] = earned[w]]
  BY DEF Advance, Saves, IInv, Types
<1>3. RunOK(w, exec[w], earned[w]) /\ exec[w].todo \in Seq(Steps)
  BY <1>1, RunFacts
<1>4. s \in earned[w] /\ Remaining(w, exec[w].todo, earned[w])
  BY <1>1, <1>3 DEF RunOK, Busy, Watching
<1>5. OrchMove(w, earned[w])
  <2>1. Orch!AdvanceWorkflow(w, s, saved) \/ UNCHANGED <<store, active>>
    BY DEF Advance, orchVars
  <2>2. QED
    BY <1>2, <1>4, <2>1, AdvanceMove, Untouched
<1>6. RunMove(w, earned[w])
  <2>1. CASE Report(w, "failed")
    BY <1>1, <2>1, ReportMove DEF Outcomes
  <2>2. CASE exec' = [exec EXCEPT ![w].at = "next", ![w].todo = Tail(@)]
    <3> DEFINE r == [exec[w] EXCEPT !.at = "next", !.todo = Tail(exec[w].todo)]
    <3>1. Tail(exec[w].todo) \in Seq(Steps)
      BY <1>1, <1>3
    <3>2. exec' = [exec EXCEPT ![w] = r]
      BY <1>1, <2>2 DEF IInv, Types, Run
    <3>3. r \in Run /\ r.at = "next" /\ r.todo = Tail(exec[w].todo)
      BY <1>1, <3>1 DEF Run
    <3>4. Remaining(w, Tail(exec[w].todo), earned[w])
      BY <1>1, <1>3, <1>4, TailRemains
    <3> HIDE DEF r
    <3>5. RunOK(w, r, earned[w])
      BY <3>3, <3>4 DEF RunOK, Busy, Watching
    <3>6. QED
      BY <3>2, <3>3, <3>5, RunStep
  <2>3. QED
    BY <2>1, <2>2 DEF Advance
<1>7. LaunchMove(w, earned[w])
  BY <1>2, <1>5, Untouched
<1>8. QED
  BY <1>2, <1>5, <1>6, <1>7, Moves

(* The outcome of the goroutine reaches the orchestrator. *)
LEMMA ReportOutcomeInv ==
  ASSUME IInv, NEW w \in Workflows, NEW saved \in Saves, ReportOutcome(w, saved)
  PROVE  IInv'
<1>1. exec[w] # None /\ exec[w].at = "report" /\ exec[w] \in Run
  BY RunFacts DEF ReportOutcome, At
<1>2. /\ saved \in BOOLEAN /\ UNCHANGED <<launch, earned>>
      /\ earned[w] \in SUBSET Steps /\ earned' = [earned EXCEPT ![w] = earned[w]]
  BY DEF ReportOutcome, Saves, IInv, Types
<1>3. exec[w].result = "completed" => StepsOf(w) \subseteq earned[w]
  BY <1>1, RunFacts DEF RunOK
<1>4. OrchMove(w, earned[w])
  <2>1. CASE UNCHANGED <<store, active>>
    BY <2>1, Untouched
  <2>2. CASE Orch!CancelWorkflow(w, saved)
    BY <1>2, <2>2, CancelMove
  <2>3. CASE Orch!CanMove(w, exec[w].result) /\ Orch!Finish(w, exec[w].result, saved)
    <3>1. CASE exec[w].result \in Orch!Terminal
      BY <1>2, <1>3, <2>3, <3>1, FinishMove
    <3>2. CASE exec[w].result = "none"
      <4>1. active[w] # None /\ Orch!ValidateTransition(active[w].wf.status, "none")
        BY <2>3, <3>2 DEF Orch!CanMove, Orch!IsActive
      <4>2. active[w].wf.status \in Orch!Status
        BY <4>1, EntryFields DEF Orch!Row
      <4>3. QED
        BY <4>1, <4>2 DEF Orch!ValidateTransition, Orch!ValidTransitions, Orch!Status
    <3>3. exec[w].result \in Orch!Terminal \cup {"none"}
      BY <1>1 DEF Run, Outcomes, Orch!Terminal
    <3>4. QED
      BY <3>1, <3>2, <3>3
  <2>4. QED
    BY <2>1, <2>2, <2>3 DEF ReportOutcome, orchVars
<1>5. RunMove(w, earned[w])
  <2> DEFINE r == [exec[w] EXCEPT !.at = "exit"]
  <2>1. exec' = [exec EXCEPT ![w] = r]
    BY DEF ReportOutcome, Goto
  <2>2. r \in Run /\ r.at = "exit"
    BY <1>1 DEF Run
  <2> HIDE DEF r
  <2>3. RunOK(w, r, earned[w])
    BY <2>2 DEF RunOK, Busy, Watching
  <2>4. QED
    BY <2>1, <2>2, <2>3, RunStep
<1>6. LaunchMove(w, earned[w])
  BY <1>2, <1>4, Untouched
<1>7. QED
  BY <1>2, <1>4, <1>5, <1>6, Moves

(* The goroutine ends. *)
LEMMA ExitInv ==
  ASSUME IInv, NEW w \in Workflows, Exit(w)
  PROVE  IInv'
<1>1. exec'[w] = None /\ exec' = [v \in Workflows |-> IF v = w THEN exec'[w] ELSE exec[v]]
  BY DEF Exit, IInv, Types
<1>2. RunMove(w, earned[w])
  BY <1>1 DEF RunMove
<1>3. QED
  BY <1>2, QuietStep DEF Exit, orchVars

(* The goroutine of one workflow. *)
LEMMA ProceedInv ==
  ASSUME IInv, NEW w \in Workflows, Proceed(w)
  PROVE  IInv'
  BY NextStepInv, CheckApprovalInv, ExecuteStepInv, SpawnInv, PollInv, PolledInv, StoppingInv,
     RetryInv, AdvanceInv, ReportOutcomeInv, ExitInv DEF Proceed

-----------------------------------------------------------------------------
(* What the executor adds to the history is only ever forgotten by a start *)
(* that finds no goroutine and no start handler.                           *)
LEMMA StartInv ==
  ASSUME IInv, NEW w \in Workflows,
         SchedulerStart(w) \/ RPCStart(w) \/ \E room \in Rooms : CommandStart(w, room)
  PROVE  IInv'
<1> DEFINE done == IF exec[w] = None THEN {} ELSE earned[w]
<1>1. /\ launch[w] = None /\ Orch!StartWorkflow(w) /\ Forget(w) /\ UNCHANGED exec
      /\ earned[w] \in SUBSET Steps
  BY DEF SchedulerStart, RPCStart, CommandStart, IInv, Types
<1>2. done \in SUBSET Steps /\ earned' = [earned EXCEPT ![w] = done]
  BY <1>1 DEF Forget, IInv, Types
<1>3. RunMove(w, done)
  <2>1. CASE exec[w] = None
    <3>1. exec = [v \in Workflows |-> IF v = w THEN exec[w] ELSE exec[v]]
      BY DEF IInv, Types
    <3>2. QED
      BY <1>1, <2>1, <3>1 DEF RunMove
  <2>2. CASE exec[w] # None
    BY <1>1, <2>2, Untouched
  <2>3. QED
    BY <2>1, <2>2
<1> HIDE DEF done
<1>4. OrchMove(w, done) /\ store'[w] # None
  BY <1>1, StartMove
<1>5. LaunchMove(w, done)
  <2>1. CASE UNCHANGED launch
    <3>1. launch = [v \in Workflows |-> IF v = w THEN launch[w] ELSE launch[v]]
      BY DEF IInv, Types
    <3>2. QED
      BY <1>1, <2>1, <3>1 DEF LaunchMove
  <2>2. ASSUME NEW l \in Launch, l.at # "write", launch' = [launch EXCEPT ![w] = l]
        PROVE  LaunchMove(w, done)
    <3>1. launch'[w] = l /\ launch' = [v \in Workflows |-> IF v = w THEN launch'[w] ELSE launch[v]]
      BY <2>2 DEF IInv, Types
    <3>2. QED
      BY <1>4, <2>2, <3>1 DEF LaunchMove, LaunchOK
  <2>3. ASSUME NEW room \in Rooms \cup {NoRoom}, NEW at \in {"read", "execute"},
               launch' = [launch EXCEPT ![w] = [at |-> at, snap |-> None, room |-> room]]
        PROVE  LaunchMove(w, done)
    <3> DEFINE l == [at |-> at, snap |-> None, room |-> room]
    <3>1. l \in Launch /\ l.at # "write"
      BY DEF Launch
    <3> HIDE DEF l
    <3>2. QED
      BY <2>2, <2>3, <3>1 DEF l
  <2>4. QED
    BY <2>1, <2>3 DEF SchedulerStart, RPCStart, CommandStart
<1>6. QED
  BY <1>2, <1>3, <1>4, <1>5, Moves

-----------------------------------------------------------------------------
(* The orders of the dependency validator. *)

(* Every set of numbers has a least element. *)
LEMMA LeastElement ==
  ASSUME NEW S \in SUBSET Nat, S # {}
  PROVE  \E x \in S : \A y \in S : x <= y
<1>1. PICK x \in S : \A y \in S : ~(<<y, x>> \in OpToRel(<, Nat))
  BY NatLessThanWellFounded, WFMin
<1>2. \A y \in S : ~(y < x)
  BY <1>1 DEF OpToRel
<1>3. QED
  BY <1>2

(* Numbers from 1 to n that increase with their index are their index. *)
LEMMA IncreasingIsIdentity ==
  ASSUME NEW n \in Nat, NEW p \in [1 .. n -> 1 .. n],
         \A k \in 1 .. n : k + 1 \in 1 .. n => p[k] < p[k + 1]
  PROVE  \A k \in 1 .. n : p[k] = k
<1>0. \A k \in 1 .. n : p[k] \in 1 .. n /\ p[k] \in Nat /\ k \in Nat
  OBVIOUS
<1>1. \A k \in 1 .. n : p[k] >= k
  <2> DEFINE Low == {k \in 1 .. n : p[k] < k}
  <2>1. SUFFICES ASSUME Low # {} PROVE FALSE
    <3>1. ASSUME Low = {}, NEW k \in 1 .. n PROVE p[k] >= k
      <4>1. ~(p[k] < k)
        BY <3>1
      <4>2. QED
        BY <1>0, <4>1
    <3>2. QED
      BY <3>1
  <2>2. Low \in SUBSET Nat
    BY <1>0
  <2>3. PICK k \in Low : \A j \in Low : k <= j
    BY <2>1, <2>2, LeastElement
  <2>4. k # 1 /\ k \in 1 .. n /\ p[k] < k
    OBVIOUS
  <2>5. k - 1 \in 1 .. n /\ p[k - 1] < p[(k - 1) + 1] /\ (k - 1) + 1 = k
    BY <2>4
  <2>6. k - 1 \in Low
    BY <2>4, <2>5
  <2>7. QED
    BY <2>3, <2>4, <2>6
<1>2. \A k \in 1 .. n : p[k] <= k
  <2> DEFINE High == {k \in 1 .. n : p[k] > k}
             Gaps == {n - k : k \in High}
  <2>1. SUFFICES ASSUME High # {} PROVE FALSE
    <3>1. ASSUME High = {}, NEW k \in 1 .. n PROVE p[k] <= k
      <4>1. ~(p[k] > k)
        BY <3>1
      <4>2. QED
        BY <1>0, <4>1
    <3>2. QED
      BY <3>1
  <2>2. Gaps \in SUBSET Nat /\ Gaps # {}
    <3>1. \A k \in High : n - k \in Nat
      OBVIOUS
    <3>2. QED
      BY <2>1, <3>1
  <2>3. PICK g \in Gaps : \A h \in Gaps : g <= h
    BY <2>2, LeastElement
  <2>4. PICK k \in High : g = n - k
    BY <2>3
  <2>5. k \in 1 .. n /\ p[k] > k /\ p[k] \in 1 .. n
    BY <2>4
  <2>6. k + 1 \in 1 .. n /\ p[k] < p[k + 1] /\ p[k + 1] \in 1 .. n
    BY <2>5
  <2>7. k + 1 \in High
    BY <2>5, <2>6
  <2>8. n - (k + 1) \in Gaps
    BY <2>7
  <2>9. g <= n - (k + 1)
    BY <2>3, <2>8
  <2>10. QED
    BY <2>4, <2>5, <2>9
<1>3. QED
  BY <1>0, <1>1, <1>2

(* The validator's order has every step of the template, once. *)
LEMMA OrderCovers ==
  ASSUME NEW w \in Workflows, NEW order \in Order!KahnOrders(NextStepID[w])
  PROVE  /\ order \in [1 .. Len(Template[w]) -> StepsOf(w)]
         /\ \A i, j \in 1 .. Len(Template[w]) : order[i] = order[j] => i = j
         /\ \A s \in StepsOf(w) : \E i \in 1 .. Len(Template[w]) : order[i] = s
         /\ \A i \in 1 .. Len(Template[w]) : Order!Released(NextStepID[w], order, order[i]) < i
<1> DEFINE T == Template[w]
           n == Len(T)
           S == StepsOf(w)
<1>1. /\ DOMAIN T = 1 .. n /\ n \in Nat /\ T \in Seq(Steps)
      /\ \A i, j \in DOMAIN T : T[i] = T[j] => i = j
      /\ DOMAIN NextStepID[w] = S /\ S = {T[i] : i \in DOMAIN T}
  BY TemplateFacts DEF StepsOf
<1> HIDE DEF T, n, S
<1>2. T \in [1 .. n -> S]
  BY <1>1
<1>3. T \in Bijection(1 .. n, S)
  BY <1>1, <1>2 DEF Bijection, Injection, Surjection, IsInjective
<1>4. ExistsBijection(1 .. n, S)
  BY <1>3 DEF ExistsBijection
<1>5. Cardinality(S) = n /\ IsFiniteSet(S)
  BY <1>1, <1>4, FS_CountingElements, FS_NatBijection
<1>a. Order!Cardinality(S) = Cardinality(S)
  BY DEF Order!Cardinality, Cardinality
<1>6. /\ order \in [1 .. n -> S] /\ \A i, j \in 1 .. n : i # j => order[i] # order[j]
      /\ \A i \in DOMAIN order : Order!Released(NextStepID[w], order, order[i]) < i
  BY <1>1, <1>5, <1>a DEF Order!KahnOrders, Order!SetToSeqs
<1>7. order \in Injection(1 .. n, S)
  BY <1>6 DEF Injection, IsInjective
<1>8. IsFiniteSet(1 .. n) /\ Cardinality(1 .. n) = n
  BY <1>1, FS_Interval
<1>9. order \in Surjection(1 .. n, S)
  BY <1>5, <1>7, <1>8, FS_Injection
<1>10. QED
  BY <1>6, <1>9 DEF Surjection, T, n, S

(* In a chained template it is the order of the slice. *)
LEMMA OrderOfChain ==
  ASSUME NEW w \in Workflows, NEW order \in Order!KahnOrders(NextStepID[w]), InSliceOrder(w)
  PROVE  \A k \in 1 .. Len(Template[w]) : order[k] = Template[w][k]
<1> DEFINE T == Template[w]
           n == Len(T)
           next == NextStepID[w]
           p == [k \in 1 .. n |-> CHOOSE i \in 1 .. n : order[i] = T[k]]
<1>1. /\ DOMAIN T = 1 .. n /\ n \in Nat
      /\ \A i, j \in 1 .. n : T[i] = T[j] => i = j
      /\ \A i \in 1 .. n : T[i] \in Steps /\ T[i] # NoStep
      /\ StepsOf(w) = {T[i] : i \in 1 .. n}
      /\ \A i \in 1 .. n : next[T[i]] = IF i < n THEN T[i + 1] ELSE NoStep
  BY TemplateFacts, EmptyAssumption DEF StepsOf, InSliceOrder
<1>2. /\ order \in [1 .. n -> StepsOf(w)]
      /\ \A i, j \in 1 .. n : order[i] = order[j] => i = j
      /\ \A s \in StepsOf(w) : \E i \in 1 .. n : order[i] = s
      /\ \A i \in 1 .. n : Order!Released(next, order, order[i]) < i
  BY OrderCovers
<1> HIDE DEF T, n, next
<1>3. ASSUME NEW k \in 1 .. n PROVE p[k] \in 1 .. n /\ order[p[k]] = T[k]
  <2>1. \E i \in 1 .. n : order[i] = T[k]
    BY <1>1, <1>2
  <2>2. p[k] = CHOOSE i \in 1 .. n : order[i] = T[k]
    OBVIOUS
  <2>3. QED
    BY <2>1, <2>2
<1>4. p \in [1 .. n -> 1 .. n]
  BY <1>3
<1> HIDE DEF p
<1>5. ASSUME NEW k \in 1 .. n, k + 1 \in 1 .. n PROVE p[k] < p[k + 1]
  <2> DEFINE A == {i \in DOMAIN order : next[order[i]] = T[k + 1]}
  <2>1. DOMAIN order = 1 .. n
    BY <1>2
  <2>2. next[T[k]] = T[k + 1]
    BY <1>1, <1>5
  <2>3. p[k] \in A
    BY <1>3, <2>1, <2>2
  <2>4. ASSUME NEW i \in A PROVE i = p[k]
    <3>1. PICK m \in 1 .. n : order[i] = T[m]
      BY <1>1, <1>2, <2>1
    <3>2. next[T[m]] = T[k + 1]
      BY <3>1
    <3>3. m < n /\ T[m + 1] = T[k + 1]
      BY <1>1, <1>5, <3>2
    <3>4. m = k
      BY <1>1, <1>5, <3>3
    <3>5. QED
      BY <1>2, <1>3, <2>1, <3>1, <3>4
  <2>5. A = {p[k]}
    BY <2>3, <2>4
  <2> HIDE DEF A
  <2>6. Order!Released(next, order, T[k + 1]) = Order!Max({0} \cup A)
    BY DEF Order!Released, A
  <2>7. Order!Max({0} \cup {p[k]}) = p[k]
    <3>1. p[k] \in Nat /\ p[k] >= 1
      BY <1>1, <1>3
    <3>2. QED
      BY <3>1 DEF Order!Max
  <2>8. Order!Released(next, order, order[p[k + 1]]) < p[k + 1]
    BY <1>2, <1>3, <1>5
  <2>9. QED
    BY <1>3, <1>5, <2>5, <2>6, <2>7, <2>8
<1>6. \A k \in 1 .. n : p[k] = k
  BY <1>1, <1>4, <1>5, IncreasingIsIdentity
<1>7. QED
  BY <1>3, <1>6 DEF T, n

(* At the beginning everything remains. *)
LEMMA OrderRemains ==
  ASSUME NEW w \in Workflows, Order!Acyclic(NextStepID[w]),
         NEW order \in Order!KahnOrders(NextStepID[w]), NEW done
  PROVE  order \in Seq(Steps) /\ Remaining(w, order, done)
<1> DEFINE n == Len(Template[w])
<1>1. n \in Nat /\ StepsOf(w) \subseteq Steps
  BY TemplateFacts
<1>2. /\ order \in [1 .. n -> StepsOf(w)]
      /\ \A s \in StepsOf(w) : \E i \in 1 .. n : order[i] = s
  BY OrderCovers
<1>3. InSliceOrder(w) => \A k \in 1 .. n : order[k] = Template[w][k]
  BY OrderOfChain
<1> HIDE DEF n
<1>4. order \in Seq(Steps) /\ Len(order) = n /\ DOMAIN order = 1 .. n
  BY <1>1, <1>2
<1>5. StepsOf(w) \subseteq done \cup {order[i] : i \in DOMAIN order}
  BY <1>2, <1>4
<1>6. /\ Len(order) <= n
      /\ \A i \in DOMAIN order : n - Len(order) + i = i
      /\ 1 .. (n - Len(order)) = {}
  BY <1>1, <1>4
<1>7. Remaining(w, order, done)
  BY <1>3, <1>4, <1>5, <1>6 DEF Remaining, n
<1>8. QED
  BY <1>4, <1>7

-----------------------------------------------------------------------------
(* The handler that starts an execution. *)
LEMMA StartWorkflowExecutionInv ==
  ASSUME IInv, NEW w \in Workflows, StartWorkflowExecution(w)
  PROVE  IInv'
<1>1. /\ UNCHANGED <<store, active, earned>>
      /\ earned[w] \in SUBSET Steps /\ earned' = [earned EXCEPT ![w] = earned[w]]
      /\ 0 \in 0 .. RetryCount
  BY EnvironmentAssumption DEF StartWorkflowExecution, orchVars, IInv, Types
<1>2. OrchMove(w, earned[w])
  BY <1>1, Untouched
<1>3. LaunchMove(w, earned[w])
  <2>1. /\ launch'[w] = None
        /\ launch' = [v \in Workflows |-> IF v = w THEN launch'[w] ELSE launch[v]]
    BY DEF StartWorkflowExecution, IInv, Types
  <2>2. QED
    BY <2>1 DEF LaunchMove
<1>4. CASE UNCHANGED exec
  BY <1>1, <1>2, <1>3, <1>4, Untouched, Moves
<1>5. ASSUME Order!Acyclic(NextStepID[w]), NEW order \in Order!KahnOrders(NextStepID[w]),
             exec' = [exec EXCEPT ![w] = FirstStep(order)]
      PROVE  IInv'
  <2>1. order \in Seq(Steps) /\ Remaining(w, order, earned[w])
    BY <1>5, OrderRemains
  <2>2. /\ FirstStep(order) \in Run /\ FirstStep(order).at = "next"
        /\ FirstStep(order).todo = order
    BY <1>1, <2>1 DEF FirstStep, Run
  <2>3. RunOK(w, FirstStep(order), earned[w])
    BY <2>1, <2>2 DEF RunOK, Busy, Watching
  <2>4. RunMove(w, earned[w])
    BY <1>5, <2>2, <2>3, RunStep
  <2>5. QED
    BY <1>1, <1>2, <1>3, <2>4, Moves
<1>6. CASE exec' = [exec EXCEPT ![w] = InvalidTemplate]
  <2>1. /\ InvalidTemplate \in Run /\ InvalidTemplate.at = "report"
        /\ InvalidTemplate.result = "failed"
    BY <1>1 DEF InvalidTemplate, Run, Outcomes
  <2>2. RunOK(w, InvalidTemplate, earned[w])
    BY <2>1 DEF RunOK, Busy, Watching
  <2>3. RunMove(w, earned[w])
    BY <1>6, <2>1, <2>2, RunStep
  <2>4. QED
    BY <1>1, <1>2, <1>3, <2>3, Moves
<1>7. QED
  BY <1>4, <1>5, <1>6 DEF StartWorkflowExecution

(* The copy that the start command reads says completed only if all is     *)
(* done, whether it comes from memory or from the store.                   *)
LEMMA CommandReadInv ==
  ASSUME IInv, NEW w \in Workflows, CommandRead(w)
  PROVE  IInv'
<1> DEFINE snap == Orch!Current(w)
           l == [launch[w] EXCEPT !.at = "write", !.snap = snap]
<1>1. /\ UNCHANGED <<store, active, exec, earned>> /\ launch[w] # None
      /\ launch' = [launch EXCEPT ![w].at = "write", ![w].snap = snap]
      /\ earned[w] \in SUBSET Steps /\ earned' = [earned EXCEPT ![w] = earned[w]]
      /\ launch[w] \in Launch
  BY DEF CommandRead, orchVars, IInv, Types
<1>2. /\ Good(w, store[w], active[w], exec[w], launch[w], earned[w])
      /\ store[w] \in Orch!Row \cup {None}
  BY OneState DEF TypesOf
<1>3. store[w] # None
  BY <1>1, <1>2 DEF Good
<1>4. snap \in Orch!Row /\ (snap.status = "completed" => StepsOf(w) \subseteq earned[w])
  <2>1. CASE active[w] # None
    BY <1>2, <2>1, EntryFields DEF Good, ActiveOK, Orch!Current, Orch!IsActive
  <2>2. CASE active[w] = None
    BY <1>2, <1>3, <2>2 DEF Good, Orch!Current, Orch!IsActive
  <2>3. QED
    BY <2>1, <2>2
<1> HIDE DEF snap
<1>5. launch' = [launch EXCEPT ![w] = l]
  BY <1>1 DEF IInv, Types, Launch
<1>6. l \in Launch /\ l.at = "write" /\ l.snap = snap
  BY <1>1, <1>4 DEF Launch
<1> HIDE DEF l
<1>7. launch'[w] = l /\ launch' = [v \in Workflows |-> IF v = w THEN launch'[w] ELSE launch[v]]
  BY <1>5 DEF IInv, Types
<1>8. OrchMove(w, earned[w]) /\ RunMove(w, earned[w])
  BY <1>1, Untouched
<1>9. LaunchMove(w, earned[w])
  BY <1>1, <1>3, <1>4, <1>6, <1>7 DEF LaunchMove, LaunchOK
<1>10. QED
  BY <1>1, <1>8, <1>9, Moves

(* The stale copy is written back: it says completed only if all is done. *)
LEMMA CommandWriteInv ==
  ASSUME IInv, NEW w \in Workflows, NEW saved \in Saves, CommandWrite(w, saved)
  PROVE  IInv'
<1> DEFINE wf == [launch[w].snap EXCEPT !.room = launch[w].room]
           l == [launch[w] EXCEPT !.at = "execute"]
<1>1. /\ UNCHANGED <<active, exec, earned>>
      /\ launch[w] # None /\ launch[w].at = "write" /\ launch[w] \in Launch
      /\ store' = (IF saved THEN [store EXCEPT ![w] = wf] ELSE store)
      /\ launch' = [launch EXCEPT ![w] = l]
      /\ earned[w] \in SUBSET Steps /\ earned' = [earned EXCEPT ![w] = earned[w]]
  BY DEF CommandWrite, Orch!UpdateWorkflow, IInv, Types
<1>2. /\ Good(w, store[w], active[w], exec[w], launch[w], earned[w])
      /\ store[w] \in Orch!Row \cup {None} /\ active[w] \in Orch!Entry \cup {None}
  BY OneState DEF TypesOf
<1>3. /\ store[w] # None /\ launch[w].snap \in Orch!Row
      /\ launch[w].snap.status = "completed" => StepsOf(w) \subseteq earned[w]
  BY <1>1, <1>2 DEF Good, LaunchOK
<1>4. launch[w].room \in Rooms \cup {NoRoom}
  BY <1>1 DEF Launch
<1>5. wf \in Orch!Row /\ wf.status = launch[w].snap.status
  BY <1>3, <1>4 DEF Orch!Row
<1>6. l \in Launch /\ l.at = "execute"
  BY <1>1 DEF Launch
<1> HIDE DEF wf, l
<1>7. store'[w] \in {wf, store[w]} /\ active'[w] = active[w]
  BY <1>1 DEF IInv, Types
<1>8. store'[w] # None /\ store'[w] \in Orch!Row
  BY <1>2, <1>3, <1>5, <1>7, EmptyAssumption
<1>9. store'[w].status = "completed" => StepsOf(w) \subseteq earned[w]
  BY <1>2, <1>3, <1>5, <1>7 DEF Good
<1>10. /\ store' = [v \in Workflows |-> IF v = w THEN store'[w] ELSE store[v]]
       /\ active' = [v \in Workflows |-> IF v = w THEN active'[w] ELSE active[v]]
  BY <1>1 DEF IInv, Types
<1>11. OrchMove(w, earned[w])
  BY <1>2, <1>7, <1>8, <1>9, <1>10 DEF OrchMove, Good
<1>12. launch'[w] = l /\ launch' = [v \in Workflows |-> IF v = w THEN launch'[w] ELSE launch[v]]
  BY <1>1 DEF IInv, Types
<1>13. LaunchMove(w, earned[w])
  BY <1>6, <1>8, <1>12 DEF LaunchMove, LaunchOK
<1>14. RunMove(w, earned[w])
  BY <1>1, Untouched
<1>15. QED
  BY <1>1, <1>11, <1>13, <1>14, Moves

-----------------------------------------------------------------------------
(* What runs beside an execution. *)
LEMMA BesideInv ==
  ASSUME IInv, NEW w \in Workflows, NEW saved \in Saves,
         CreateWorkflow(w) \/ CancelByHand(w, saved) \/ \E s \in Steps : AdvanceByHand(w, s, saved)
  PROVE  IInv'
<1>1. saved \in BOOLEAN /\ earned[w] \in SUBSET Steps /\ UNCHANGED <<exec, launch>>
  BY DEF Saves, CreateWorkflow, CancelByHand, AdvanceByHand, IInv, Types
<1>2. ASSUME NEW done \in SUBSET Steps, earned[w] \subseteq done, OrchMove(w, done),
             earned' = [earned EXCEPT ![w] = done]
      PROVE  IInv'
  <2>1. RunMove(w, done) /\ LaunchMove(w, done)
    BY <1>1, <1>2, Untouched
  <2>2. QED
    BY <1>2, <2>1, Moves
<1>3. CASE CreateWorkflow(w) \/ CancelByHand(w, saved)
  <2>1. earned' = [earned EXCEPT ![w] = earned[w]]
    BY <1>3 DEF CreateWorkflow, CancelByHand, IInv, Types
  <2>2. OrchMove(w, earned[w])
    BY <1>1, <1>3, CreateMove, CancelMove DEF CreateWorkflow, CancelByHand
  <2>3. QED
    BY <1>1, <1>2, <2>1, <2>2
<1>4. ASSUME NEW s \in Steps, AdvanceByHand(w, s, saved) PROVE IInv'
  <2> DEFINE done == earned[w] \cup {s}
  <2>1. /\ Orch!AdvanceWorkflow(w, s, saved) /\ earned' = [earned EXCEPT ![w] = done]
        /\ done \in SUBSET Steps /\ s \in done /\ earned[w] \subseteq done
    BY <1>1, <1>4 DEF AdvanceByHand, IInv, Types
  <2> HIDE DEF done
  <2>2. OrchMove(w, done)
    BY <1>1, <2>1, AdvanceMove
  <2>3. QED
    BY <1>2, <2>1, <2>2
<1>5. QED
  BY <1>3, <1>4

(* The cancellation of an execution touches its cancel field only. *)
LEMMA CancelExecutionInv ==
  ASSUME IInv, NEW w \in Workflows, CancelWorkflowExecution(w) \/ CancelAllForWorkflow(w)
  PROVE  IInv'
<1>1. PICK c \in {"requested", "done"} : exec' = [exec EXCEPT ![w].cancel = c]
  BY DEF CancelWorkflowExecution, CancelAllForWorkflow
<1>2. exec[w] # None /\ UNCHANGED <<store, active, launch, earned>>
  BY DEF CancelWorkflowExecution, CancelAllForWorkflow, orchVars
<1>3. exec[w] \in Run /\ RunOK(w, exec[w], earned[w])
  BY <1>2, RunFacts
<1> DEFINE r == [exec[w] EXCEPT !.cancel = c]
<1>4. /\ r \in Run /\ r.at = exec[w].at /\ r.todo = exec[w].todo /\ r.result = exec[w].result
      /\ r.attempt = exec[w].attempt /\ r.inst = exec[w].inst
  BY <1>3 DEF Run
<1>5. exec' = [exec EXCEPT ![w] = r]
  BY <1>1
<1> HIDE DEF r
<1>6. RunOK(w, r, earned[w])
  BY <1>3, <1>4 DEF RunOK
<1>7. RunMove(w, earned[w])
  BY <1>4, <1>5, <1>6, RunStep
<1>8. QED
  BY <1>2, <1>7, QuietStep

(* A shutdown or a restart drops every entry of activeWorkflows. *)
LEMMA AllDroppedInv ==
  ASSUME IInv, Restart \/ \E lost \in SUBSET Workflows : Shutdown(lost)
  PROVE  IInv'
<1>1. /\ active' = [w \in Workflows |-> None] /\ UNCHANGED earned
      /\ \/ UNCHANGED <<exec, launch>>
         \/ exec' = [w \in Workflows |-> None] /\ launch' = [w \in Workflows |-> None]
  BY DEF Restart, Shutdown, Orch!Restart, Orch!Shutdown
<1>2. \/ UNCHANGED store
      \/ \E lost \in SUBSET Workflows :
           store' = [w \in Workflows |->
                       IF active[w] # None /\ w \notin lost
                       THEN [active[w].wf EXCEPT !.status = "cancelled"]
                       ELSE store[w]]
  BY DEF Restart, Shutdown, Orch!Restart, Orch!Shutdown, Orch!IsActive
<1>3. ASSUME NEW w \in Workflows
      PROVE  /\ store'[w] \in Orch!Row \cup {None}
             /\ store[w] # None => store'[w] # None
             /\ store'[w] = store[w] \/ store'[w].status = "cancelled"
  <2>1. store[w] \in Orch!Row \cup {None}
    BY DEF IInv, Types
  <2>2. CASE store'[w] = store[w]
    BY <2>1, <2>2
  <2>3. CASE active[w] # None /\ store'[w] = [active[w].wf EXCEPT !.status = "cancelled"]
    <3>1. "cancelled" \in Orch!Status
      BY DEF Orch!Status
    <3>2. store'[w] \in Orch!Row /\ store'[w].status = "cancelled"
      BY <2>3, <3>1, EntryFields
    <3>3. QED
      BY <3>2, EmptyAssumption
  <2>4. QED
    BY <1>2, <2>2, <2>3
<1>4. store' \in [Workflows -> Orch!Row \cup {None}]
  <2>1. store' = [w \in Workflows |-> store'[w]]
    BY <1>2 DEF IInv, Types
  <2>2. QED
    BY <1>3, <2>1
<1>5. Types'
  BY <1>1, <1>4 DEF IInv, Types
<1>6. ASSUME NEW w \in Workflows
      PROVE  Good(w, store'[w], active'[w], exec'[w], launch'[w], earned'[w])
  <2>1. Good(w, store[w], active[w], exec[w], launch[w], earned[w])
    BY OneState
  <2>2. /\ active'[w] = None /\ earned'[w] = earned[w]
        /\ exec'[w] \in {None, exec[w]} /\ launch'[w] \in {None, launch[w]}
    BY <1>1
  <2>3. QED
    BY <1>3, <2>1, <2>2 DEF Good
<1>7. QED
  BY <1>5, <1>6 DEF IInv

(* Every step keeps the invariant. *)
LEMMA StepInv == IInv /\ [Next]_vars => IInv'
<1> SUFFICES ASSUME IInv, [Next]_vars PROVE IInv'
  OBVIOUS
<1>1. CASE UNCHANGED <<store, active, exec, launch, earned>>
  BY <1>1 DEF IInv, Types
<1>2. ASSUME NEW w \in Workflows, Launching(w) PROVE IInv'
  BY <1>2, CommandReadInv, CommandWriteInv, StartWorkflowExecutionInv DEF Launching
<1>3. ASSUME NEW w \in Workflows, CreateWorkflow(w) PROVE IInv'
  <2>1. TRUE \in Saves
    BY DEF Saves
  <2>2. QED
    BY <1>3, <2>1, BesideInv
<1>4. ASSUME NEW i \in Instances,
             \/ ContainerExit(i) \/ DeleteDefinition(i)
             \/ \E by \in {"rpc", "delete"} : StopInstance(i, by)
      PROVE  IInv'
  BY <1>1, <1>4 DEF ContainerExit, DeleteDefinition, StopInstance, orchVars
<1>5. ASSUME NEW c \in calls, FactoryStep(c) PROVE IInv'
  BY <1>1, <1>5 DEF FactoryStep, orchVars
<1>6. CASE Next
  BY <1>2, <1>3, <1>4, <1>5, <1>6, StartInv, ProceedInv, BesideInv, CancelExecutionInv,
  AllDroppedInv
     DEF Next
<1>7. QED
  BY <1>1, <1>6 DEF vars

(* It holds at the start. *)
LEMMA InitInv == Init => IInv
<1> SUFFICES ASSUME Init PROVE IInv
  OBVIOUS
<1>1. /\ store = [w \in Workflows |-> None] /\ active = [w \in Workflows |-> None]
      /\ exec = [w \in Workflows |-> None] /\ launch = [w \in Workflows |-> None]
      /\ earned = [w \in Workflows |-> {}]
  BY DEF Init, Orch!Init
<1>2. QED
  BY <1>1 DEF IInv, Types, Good

(* A workflow is completed only by work, whatever operators, failures,     *)
(* restarts and the start command do to the row, the copy in memory and    *)
(* the containers.                                                         *)
THEOREM CompletedIsEarned == Spec => []CompletionIsEarned
<1>1. IInv => CompletionIsEarned
  BY DEF IInv, Good, CompletionIsEarned, StepsOf
<1>2. QED
  BY <1>1, InitInv, StepInv, PTL DEF Spec

(* If the successors of every template that can be executed lead through   *)
(* it in slice order, no container is started for a step before the steps  *)
(* ahead of it are done.                                                   *)
THEOREM StepsStartInOrder ==
  ASSUME \A w \in Workflows : Order!Acyclic(NextStepID[w]) => InSliceOrder(w)
  PROVE  Spec => []StartsInTemplateOrder
<1>1. ASSUME IInv, NEW w \in Workflows, exec[w] # None, exec[w].at \in {"spawn", "wait"},
             NEW i \in 1 .. (Orch!Position(w, Head(exec[w].todo)) - 1)
      PROVE  Template[w][i] \in earned[w]
  <2> DEFINE todo == exec[w].todo
             n == Len(Template[w])
  <2>1. exec[w].at \in Busy
    BY <1>1 DEF Busy
  <2>2. todo \in Seq(Steps) /\ RunOK(w, exec[w], earned[w])
    BY <1>1, RunFacts
  <2>3. todo # <<>> /\ Remaining(w, todo, earned[w])
    BY <2>1, <2>2 DEF RunOK
  <2>4. n \in Nat /\ DOMAIN Template[w] = 1 .. n
    BY TemplateFacts
  <2>5. /\ Len(todo) <= n
        /\ \A j \in DOMAIN todo : todo[j] = Template[w][n - Len(todo) + j]
        /\ \A j \in 1 .. (n - Len(todo)) : Template[w][j] \in earned[w]
    BY <2>3 DEF Remaining
  <2>6. 1 \in DOMAIN todo /\ Head(todo) = todo[1] /\ Len(todo) \in Nat \ {0}
    BY <2>2, <2>3
  <2> HIDE DEF todo, n
  <2> DEFINE k == n - Len(todo) + 1
  <2>7. k \in DOMAIN Template[w] /\ Head(todo) = Template[w][k]
    BY <2>4, <2>5, <2>6
  <2>8. Orch!Position(w, Template[w][k]) = k
    BY <2>7, Successor
  <2>9. i \in 1 .. (n - Len(todo))
    BY <1>1, <2>4, <2>6, <2>7, <2>8 DEF todo
  <2>10. QED
    BY <2>5, <2>9
<1>2. IInv => StartsInTemplateOrder
  BY <1>1 DEF StartsInTemplateOrder
<1>3. QED
  BY <1>2, InitInv, StepInv, PTL DEF Spec

-----------------------------------------------------------------------------
(* What a step does to the factory. *)
FactoryMove == FactoryNext \/ UNCHANGED factoryVars

(* The goroutine uses the factory through its operations. *)
LEMMA ProceedUsesFactory ==
  ASSUME IInv, NEW w \in Workflows, Proceed(w)
  PROVE  FactoryMove
<1>1. \A at \in Watching : At(w, at) => exec[w].inst \in Instances
  BY RunFacts DEF At, RunOK
<1>2. ASSUME NEW tracked \in BOOLEAN, SpawnAgent(w, tracked) PROVE FactoryMove
  BY <1>2 DEF SpawnAgent, FactoryMove, FactoryNext
<1>3. CASE Poll(w)
  <2>1. At(w, "wait") /\ exec[w].inst \in Instances
    BY <1>1, <1>3 DEF Poll, Watching
  <2>2. CASE UNCHANGED factoryVars
    BY <2>2 DEF FactoryMove
  <2>3. ASSUME NEW reachable \in Reachable(w), Inspect(exec[w].inst, "status", reachable)
        PROVE  FactoryMove
    <3>1. reachable \in BOOLEAN /\ "status" \in Pollers
      BY DEF Reachable, Answers, Pollers
    <3>2. QED
      BY <2>1, <2>3, <3>1 DEF FactoryMove, FactoryNext
  <2>4. QED
    BY <1>3, <2>2, <2>3 DEF Poll, factoryVars
<1>4. CASE WaitCancelled(w)
  <2>1. exec[w].inst \in Instances /\ "executor" \in Stoppers
    BY <1>1, <1>4 DEF WaitCancelled, Watching, Stoppers
  <2>2. QED
    BY <1>4, <2>1 DEF WaitCancelled, FactoryMove, FactoryNext
<1>5. CASE \/ NextStep(w) \/ CheckApproval(w) \/ ExecuteStep(w) \/ SpawnFails(w) \/ Polled(w)
           \/ StopReturned(w) \/ Retry(w) \/ Exit(w)
           \/ \E saved \in Saves : Advance(w, saved) \/ ReportOutcome(w, saved)
  BY <1>5 DEF NextStep, CheckApproval, ExecuteStep, SpawnFails, Polled, StopReturned, Retry, Exit,
              Advance, ReportOutcome, FactoryMove
<1>6. QED
  BY <1>2, <1>3, <1>4, <1>5 DEF Proceed

(* The executor, the handlers and a restart use the factory only through   *)
(* its operations: the composition implements the specification of the     *)
(* factory, and what is proved of the factory holds in every execution.    *)
THEOREM UsesFactory == Spec => FactorySpec
<1>1. Init => FactoryInit
  BY DEF Init
<1>2. IInv /\ [Next]_vars => [FactoryNext]_factoryVars
  <2> SUFFICES ASSUME IInv, [Next]_vars PROVE FactoryMove
    BY DEF FactoryMove, factoryVars, factoryVars
  <2>1. ASSUME NEW w \in Workflows, CancelAllForWorkflow(w) PROVE FactoryMove
    <3>1. exec[w].inst \in Instances \cup {None} /\ "cancel" \in Stoppers
      BY <2>1, RunFacts DEF CancelAllForWorkflow, Run, Stoppers
    <3>2. QED
      BY <2>1, <3>1 DEF CancelAllForWorkflow, FactoryMove, FactoryNext
  <2>2. ASSUME NEW i \in Instances,
               \/ ContainerExit(i) \/ DeleteDefinition(i)
               \/ \E by \in {"rpc", "delete"} : StopInstance(i, by)
        PROVE  FactoryMove
    BY <2>2 DEF ContainerExit, DeleteDefinition, StopInstance, FactoryMove, FactoryNext, Stoppers
  <2>3. ASSUME NEW c \in calls, FactoryStep(c) PROVE FactoryMove
    <3>1. Saves \subseteq BOOLEAN /\ Answers \subseteq BOOLEAN
      BY DEF Saves, Answers
    <3>2. CallStep(c)
      BY <2>3, <3>1 DEF FactoryStep, CallStep
    <3>3. QED
      BY <3>2 DEF FactoryMove, FactoryNext
  <2>4. CASE Restart
    BY <2>4 DEF Restart, FactoryMove, FactoryNext
  <2>5. ASSUME NEW w \in Workflows,
               \/ CreateWorkflow(w) \/ SchedulerStart(w) \/ RPCStart(w) \/ Launching(w)
               \/ \E room \in Rooms : CommandStart(w, room)
               \/ CancelWorkflowExecution(w)
               \/ \E saved \in Saves : \/ CancelByHand(w, saved)
                                       \/ \E s \in Steps : AdvanceByHand(w, s, saved)
        PROVE  FactoryMove
    BY <2>5 DEF CreateWorkflow, SchedulerStart, RPCStart, Launching, CommandStart, CommandRead,
                CommandWrite, StartWorkflowExecution, CancelWorkflowExecution, CancelByHand,
                AdvanceByHand, FactoryMove
  <2>6. ASSUME NEW lost \in SUBSET Workflows, Shutdown(lost) PROVE FactoryMove
    BY <2>6 DEF Shutdown, FactoryMove
  <2>7. CASE UNCHANGED vars
    BY <2>7 DEF vars, FactoryMove, factoryVars
  <2>8. QED
    BY <2>1, <2>2, <2>3, <2>4, <2>5, <2>6, <2>7, ProceedUsesFactory DEF Next
<1>3. QED
  BY <1>1, <1>2, InitInv, StepInv, PTL DEF Spec, FactorySpec

-----------------------------------------------------------------------------
(* The containers that run. *)

Running(i) == container[i] = "running" /\ row[i] = "running"

(* The goroutine holds i, and if it waits for a call about i, that call is *)
(* still in progress.                                                      *)
Holds(w, i) ==
  /\ exec[w] # None /\ exec[w].inst = i /\ exec[w].at \in Watching
  /\ exec[w].at = "polled" => Calling(i, "status")
  /\ exec[w].at = "stopping" => Calling(i, "executor")

Watched ==
  /\ owner \in [Instances -> (Workflows \X Steps) \cup {None}]
  /\ \A i \in Instances :
       Running(i) => \E w \in Workflows, s \in Steps : owner[i] = <<w, s>> /\ Holds(w, i)

(* Docker and the store answer, and the bridge stays up. *)
Reliable == Environment \cap {"restart", "dockerFails", "storeFails"} = {}

(* A step of the goroutine of w that holds no running container. *)
LEMMA HoldsNothing ==
  ASSUME IInv, Watched, NEW w \in Workflows, \A i \in Instances : Running(i) => ~Holds(w, i),
         exec' = [v \in Workflows |-> IF v = w THEN exec'[w] ELSE exec[v]],
         UNCHANGED <<row, container, calls, owner>>
  PROVE  Watched'
<1>1. ASSUME NEW i \in Instances, Running(i)'
      PROVE  (\E v \in Workflows, s \in Steps : owner[i] = <<v, s>> /\ Holds(v, i))'
  <2>1. PICK v \in Workflows, s \in Steps : owner[i] = <<v, s>> /\ Holds(v, i)
    BY <1>1 DEF Watched, Running
  <2>2. v # w
    BY <1>1, <2>1 DEF Running
  <2>3. exec'[v] = exec[v]
    BY <2>2
  <2>4. Holds(v, i)'
    BY <2>1, <2>3 DEF Holds, Calling
  <2>5. QED
    BY <2>1, <2>4
<1>2. QED
  BY <1>1 DEF Watched

(* A step that begins calls and leaves the goroutines where they are. *)
LEMMA CallsBegin ==
  ASSUME Watched, calls \subseteq calls', UNCHANGED <<row, container, owner>>,
         \A w \in Workflows : /\ exec[w] # None => exec'[w] # None
                              /\ exec'[w].inst = exec[w].inst /\ exec'[w].at = exec[w].at
  PROVE  Watched'
<1>1. ASSUME NEW i \in Instances, Running(i)'
      PROVE  (\E v \in Workflows, s \in Steps : owner[i] = <<v, s>> /\ Holds(v, i))'
  <2>1. PICK v \in Workflows, s \in Steps : owner[i] = <<v, s>> /\ Holds(v, i)
    BY <1>1 DEF Watched, Running
  <2>2. Holds(v, i)'
    BY <2>1 DEF Holds, Calling
  <2>3. QED
    BY <2>1, <2>2
<1>2. QED
  BY <1>1 DEF Watched

(* A step of a call about j, after which j no longer runs with a row that  *)
(* says so.                                                                *)
LEMMA CallAbout ==
  ASSUME Watched, NEW j \in Instances, UNCHANGED <<owner, exec>>,
         ~Running(j)',
         \A i \in Instances \ {j} : row'[i] = row[i] /\ container'[i] = container[i],
         \A c \in calls : c.inst # j => c \in calls'
  PROVE  Watched'
<1>1. ASSUME NEW i \in Instances, Running(i)'
      PROVE  (\E v \in Workflows, s \in Steps : owner[i] = <<v, s>> /\ Holds(v, i))'
  <2>1. i # j /\ Running(i)
    BY <1>1 DEF Running
  <2>2. PICK v \in Workflows, s \in Steps : owner[i] = <<v, s>> /\ Holds(v, i)
    BY <2>1 DEF Watched
  <2>3. Holds(v, i)'
    BY <2>1, <2>2 DEF Holds, Calling
  <2>4. QED
    BY <2>2, <2>3
<1>2. QED
  BY <1>1 DEF Watched

(* A stop or a status call that goes on leaves no container unwatched. *)
LEMMA FactoryStepWatched ==
  ASSUME FactoryInv, Watched, Reliable, NEW c \in calls, FactoryStep(c)
  PROVE  Watched'
<1>1. Saves = {TRUE} /\ Answers = {TRUE}
  BY DEF Reliable, Saves, Answers
<1>2. /\ c.inst \in Instances
      /\ row \in [Instances -> InstanceStatus \cup NoRow]
      /\ container \in [Instances -> ContainerState]
  BY CallFields DEF FactoryInv, FactoryTypeOK
<1>3. c.at \in {"save", "remove", "forget"} => container[c.inst] \in Stopped
  BY DEF FactoryInv, CallsFollowDocker
<1>4. UNCHANGED <<owner, exec>>
  BY DEF FactoryStep
<1> USE DEF Running, UpdateInstance, Known, NoRow
<1>5. CASE WriteObserved(c, TRUE)
  <2>1. /\ row'[c.inst] # "running" /\ calls' = calls \ {c} /\ container' = container
        /\ \A i \in Instances \ {c.inst} : row'[i] = row[i]
    BY <1>2, <1>5 DEF WriteObserved, Return
  <2>2. QED
    BY <1>2, <1>4, <2>1, CallAbout
<1>6. ASSUME NEW code \in {"ok", "error"}, StopContainer(c, TRUE, code) PROVE Watched'
  <2>1. /\ row' = row
        /\ container'[c.inst] # "running" \/ row[c.inst] # "running"
        /\ \A i \in Instances \ {c.inst} : container'[i] = container[i]
    BY <1>2, <1>6 DEF StopContainer
  <2>2. \A d \in calls : d.inst # c.inst => d \in calls'
    BY <1>6 DEF StopContainer, StopError, Move, Return
  <2>3. QED
    BY <1>2, <1>4, <2>1, <2>2, CallAbout
<1>7. CASE StopSave(c, TRUE)
  <2>1. /\ container' = container /\ container[c.inst] # "running"
        /\ \A i \in Instances \ {c.inst} : row'[i] = row[i]
    BY <1>2, <1>3, <1>7 DEF StopSave, Stopped
  <2>2. \A d \in calls : d.inst # c.inst => d \in calls'
    BY <1>7 DEF StopSave, Move, Return
  <2>3. QED
    BY <1>2, <1>4, <2>1, <2>2, CallAbout
<1>8. CASE StopMark(c, TRUE)
  <2>1. /\ row'[c.inst] # "running" /\ calls' = calls \ {c} /\ container' = container
        /\ \A i \in Instances \ {c.inst} : row'[i] = row[i]
    BY <1>2, <1>8 DEF StopMark, Return
  <2>2. QED
    BY <1>2, <1>4, <2>1, CallAbout
<1>9. CASE Remove(c, TRUE)
  <2>1. /\ container'[c.inst] # "running" /\ row' = row
        /\ \A i \in Instances \ {c.inst} : container'[i] = container[i]
    BY <1>2, <1>3, <1>9 DEF Remove, Stopped
  <2>2. \A d \in calls : d.inst # c.inst => d \in calls'
    BY <1>9 DEF Remove, Move, Return
  <2>3. QED
    BY <1>2, <1>4, <2>1, <2>2, CallAbout
<1>10. CASE DeleteInstance(c, TRUE) \/ Cascade(c, TRUE)
  <2>1. /\ row'[c.inst] # "running" /\ calls' = calls \ {c} /\ container' = container
        /\ \A i \in Instances \ {c.inst} : row'[i] = row[i]
    BY <1>2, <1>10 DEF DeleteInstance, Cascade, Return
  <2>2. QED
    BY <1>2, <1>4, <2>1, CallAbout
<1>11. QED
  BY <1>1, <1>5, <1>6, <1>7, <1>8, <1>9, <1>10 DEF FactoryStep

(* The goroutine of w changes only its own record. *)
ExecOnly(w) == exec' = [v \in Workflows |-> IF v = w THEN exec'[w] ELSE exec[v]]

(* Each way in which the goroutine goes on is a change of its record. *)
LEMMA ExecChanges ==
  ASSUME IInv, NEW w \in Workflows
  PROVE  /\ \A r : exec' = [exec EXCEPT ![w] = r] => ExecOnly(w) /\ exec'[w] = r
         /\ \A at : Goto(w, at) => ExecOnly(w)
         /\ \A result : Report(w, result) => ExecOnly(w)
         /\ \A result : AfterAgent(w, result) => ExecOnly(w)
<1>1. \A r : exec' = [exec EXCEPT ![w] = r] => ExecOnly(w) /\ exec'[w] = r
  BY DEF IInv, Types, ExecOnly
<1>2. \A at : Goto(w, at) => ExecOnly(w)
  BY <1>1 DEF Goto
<1>3. \A result : Report(w, result) => ExecOnly(w)
  BY <1>1 DEF Report
<1>4. \A result : AfterAgent(w, result) => ExecOnly(w)
  BY <1>1, <1>3 DEF AfterAgent, Judge
<1>5. QED
  BY <1>1, <1>2, <1>3, <1>4

(* The goroutine leaves a container only when it no longer runs unobserved. *)
LEMMA ProceedWatched ==
  ASSUME IInv, FactoryInv, Watched, NEW w \in Workflows, Proceed(w)
  PROVE  Watched'
<1>1. ASSUME ExecOnly(w), UNCHANGED <<row, container, calls, owner>>,
             exec[w] = None \/ exec[w].at \notin Watching
      PROVE  Watched'
  BY <1>1, HoldsNothing DEF Holds, ExecOnly
<1>2. CASE \/ NextStep(w) \/ CheckApproval(w) \/ ExecuteStep(w) \/ SpawnFails(w)
           \/ Retry(w) \/ Exit(w)
           \/ \E saved \in Saves : Advance(w, saved) \/ ReportOutcome(w, saved)
  <2>1. exec[w].at \notin Watching
    BY <1>2 DEF NextStep, CheckApproval, ExecuteStep, SpawnFails, Retry, Exit, Advance,
                ReportOutcome, At, Watching
  <2>2. UNCHANGED <<row, container, calls, owner>>
    BY <1>2 DEF NextStep, CheckApproval, ExecuteStep, SpawnFails, Retry, Exit, Advance,
                ReportOutcome, factoryVars
  <2>3. ExecOnly(w)
    <3>1. CASE NextStep(w) \/ ExecuteStep(w) \/ SpawnFails(w)
      BY <3>1, ExecChanges DEF NextStep, ExecuteStep, SpawnFails
    <3>2. CASE CheckApproval(w) \/ Retry(w)
      BY <3>2, ExecChanges DEF CheckApproval, Retry, ExecOnly, IInv, Types
    <3>3. CASE Exit(w)
      BY <3>3, ExecChanges DEF Exit
    <3>4. ASSUME NEW saved \in Saves, Advance(w, saved) PROVE ExecOnly(w)
      BY <3>4, ExecChanges DEF Advance, ExecOnly, IInv, Types
    <3>5. ASSUME NEW saved \in Saves, ReportOutcome(w, saved) PROVE ExecOnly(w)
      BY <3>5, ExecChanges DEF ReportOutcome
    <3>6. QED
      BY <1>2, <3>1, <3>2, <3>3, <3>4, <3>5
  <2>4. QED
    BY <1>1, <2>1, <2>2, <2>3
<1>3. ASSUME ExecOnly(w), UNCHANGED <<row, container, calls, owner>>, ~Running(exec[w].inst)
      PROVE  Watched'
  BY <1>3, HoldsNothing DEF Holds, ExecOnly
<1>4. \A at \in Watching : At(w, at) => exec[w].inst \in Instances /\ exec[w] \in Run
  BY RunFacts DEF At, RunOK
<1>5. CASE Poll(w)
  <2>0. PICK i \in Instances : i = exec[w].inst
    BY <1>4, <1>5 DEF Poll, Watching
  <2>1. At(w, "wait") /\ exec[w] \in Run /\ UNCHANGED <<row, container, owner>>
    BY <1>4, <1>5 DEF Poll, Watching
  <2>2. CASE /\ ~Known(i) \/ row[i] \in {"completed", "failed"}
             /\ UNCHANGED calls /\ \E result : AfterAgent(w, result)
    <3>1. ExecOnly(w) /\ ~Running(exec[w].inst)
      BY <2>0, <2>2, ExecChanges DEF Running, Known, NoRow
    <3>2. QED
      BY <1>3, <2>1, <2>2, <3>1
  <2>3. ASSUME NEW reachable \in Reachable(w), Inspect(i, "status", reachable),
               exec' = [exec EXCEPT ![w].at = "polled",
                                    ![w].result = Observed(i, reachable)]
        PROVE  Watched'
    <3> DEFINE seen == Observed(i, reachable)
    <3>1. calls' = calls \cup {[inst |-> i, by |-> "status", at |-> seen]}
      BY <2>3 DEF Inspect
    <3> HIDE DEF seen
    <3>2. /\ exec'[w] # None /\ exec'[w].inst = i /\ exec'[w].at = "polled"
          /\ \A v \in Workflows : v # w => exec'[v] = exec[v]
      <4> DEFINE r == [exec[w] EXCEPT !.at = "polled", !.result = seen]
      <4>1. exec' = [exec EXCEPT ![w] = r]
        BY <2>1, <2>3 DEF IInv, Types, Run, seen
      <4>2. r.inst = i /\ r.at = "polled" /\ r # None
        <5>1. seen \in Outcomes
          BY <2>3 DEF Inspect, Observed, Outcomes, seen
        <5>2. r \in Run /\ r.inst = i /\ r.at = "polled"
          BY <2>0, <2>1, <5>1 DEF Run
        <5>3. QED
          BY <5>2, EmptyAssumption
      <4> HIDE DEF r
      <4>3. QED
        BY <4>1, <4>2 DEF IInv, Types
    <3>3. Calling(i, "status")'
      <4> DEFINE c == [inst |-> i, by |-> "status", at |-> seen]
      <4>1. c \in calls' /\ c.inst = i /\ c.by = "status"
        BY <3>1
      <4> HIDE DEF c
      <4>2. QED
        BY <4>1 DEF Calling
    <3>4. ASSUME NEW j \in Instances, Running(j)'
          PROVE  (\E v \in Workflows, s \in Steps : owner[j] = <<v, s>> /\ Holds(v, j))'
      <4>1. PICK v \in Workflows, s \in Steps : owner[j] = <<v, s>> /\ Holds(v, j)
        BY <2>1, <3>4 DEF Watched, Running
      <4>2. CASE v = w
        <5>1. j = i
          BY <2>0, <4>1, <4>2 DEF Holds
        <5>2. Holds(v, j)'
          BY <3>2, <3>3, <4>2, <5>1 DEF Holds, Watching
        <5>3. QED
          BY <2>1, <4>1, <5>2
      <4>3. CASE v # w
        <5>1. Holds(v, j)'
          BY <3>1, <3>2, <4>1, <4>3 DEF Holds, Calling
        <5>2. QED
          BY <2>1, <4>1, <5>1
      <4>4. QED
        BY <4>2, <4>3
    <3>5. QED
      BY <2>1, <3>4 DEF Watched
  <2>4. QED
    BY <1>5, <2>0, <2>2, <2>3 DEF Poll
<1>6. CASE Polled(w) \/ StopReturned(w)
  <2> DEFINE i == exec[w].inst
  <2>1. exec[w] # None /\ i \in Instances /\ UNCHANGED <<row, container, calls, owner>>
    BY <1>4, <1>6 DEF Polled, StopReturned, Watching, factoryVars, At
  <2>2. ExecOnly(w)
    BY <1>6, ExecChanges DEF Polled, StopReturned
  <2>3. ~Holds(w, i)
    BY <1>6 DEF Polled, StopReturned, Holds, At
  <2>4. QED
    BY <2>1, <2>2, <2>3, HoldsNothing DEF Holds, ExecOnly
<1>7. CASE WaitCancelled(w)
  <2>0. PICK i \in Instances : i = exec[w].inst
    BY <1>4, <1>7 DEF WaitCancelled, Watching
  <2> DEFINE r == [exec[w] EXCEPT !.at = "stopping"]
  <2>1. /\ At(w, "wait") /\ exec[w] \in Run /\ UNCHANGED <<row, container, owner>>
        /\ calls' = calls \cup {[inst |-> i, by |-> "executor", at |-> "stop"]}
        /\ exec' = [exec EXCEPT ![w] = r]
    BY <1>4, <1>7, <2>0 DEF WaitCancelled, Goto, StopCall, Watching
  <2>2. r.inst = i /\ r.at = "stopping" /\ r # None
    <3>1. r \in Run /\ r.inst = i /\ r.at = "stopping"
      BY <2>0, <2>1 DEF Run
    <3>2. QED
      BY <3>1, EmptyAssumption
  <2> HIDE DEF r
  <2>3. /\ exec'[w] # None /\ exec'[w].inst = i /\ exec'[w].at = "stopping"
        /\ \A v \in Workflows : v # w => exec'[v] = exec[v]
    BY <2>1, <2>2 DEF IInv, Types
  <2>4. Calling(i, "executor")'
    <3> DEFINE c == [inst |-> i, by |-> "executor", at |-> "stop"]
    <3>1. c \in calls' /\ c.inst = i /\ c.by = "executor"
      BY <2>1
    <3> HIDE DEF c
    <3>2. QED
      BY <3>1 DEF Calling
  <2>5. ASSUME NEW j \in Instances, Running(j)'
        PROVE  (\E v \in Workflows, s \in Steps : owner[j] = <<v, s>> /\ Holds(v, j))'
    <3>1. PICK v \in Workflows, s \in Steps : owner[j] = <<v, s>> /\ Holds(v, j)
      BY <2>1, <2>5 DEF Watched, Running
    <3>2. CASE v = w
      <4>1. j = i
        BY <2>0, <3>1, <3>2 DEF Holds
      <4>2. Holds(v, j)'
        BY <2>3, <2>4, <3>2, <4>1 DEF Holds, Watching
      <4>3. QED
        BY <2>1, <3>1, <4>2
    <3>3. CASE v # w
      <4>1. Holds(v, j)'
        BY <2>1, <2>3, <3>1, <3>3 DEF Holds, Calling
      <4>2. QED
        BY <2>1, <3>1, <4>1
    <3>4. QED
      BY <3>2, <3>3
  <2>6. QED
    BY <2>1, <2>5 DEF Watched
<1>8. ASSUME NEW tracked \in BOOLEAN, SpawnAgent(w, tracked) PROVE Watched'
  <2> DEFINE i == CHOOSE i \in Instances : container[i] = "unused"
             s == Head(exec[w].todo)
             r == [exec[w] EXCEPT !.at = "wait", !.inst = i]
  <2>1. /\ At(w, "spawn") /\ i \in Instances /\ container[i] = "unused"
        /\ Spawn(i, tracked)
        /\ exec' = [exec EXCEPT ![w].at = "wait", ![w].inst = i]
        /\ owner' = [owner EXCEPT ![i] = <<w, s>>]
    BY <1>8 DEF SpawnAgent
  <2>2. s \in Steps /\ exec[w] \in Run
    <3>1. exec[w] # None /\ exec[w].at \in Busy
      BY <2>1 DEF At, Busy
    <3>2. exec[w].todo \in Seq(Steps) /\ exec[w].todo # <<>> /\ exec[w] \in Run
      BY <3>1, RunFacts DEF RunOK
    <3>3. QED
      BY <3>2
  <2> HIDE DEF i, s
  <2>3. exec' = [exec EXCEPT ![w] = r]
    BY <2>1, <2>2 DEF IInv, Types, Run
  <2>4. r.inst = i /\ r.at = "wait" /\ r # None
    <3>1. r \in Run /\ r.inst = i /\ r.at = "wait"
      BY <2>1, <2>2 DEF Run
    <3>2. QED
      BY <3>1, EmptyAssumption
  <2> HIDE DEF r
  <2>5. /\ exec'[w] # None /\ exec'[w].inst = i /\ exec'[w].at = "wait"
        /\ \A v \in Workflows : v # w => exec'[v] = exec[v]
    BY <2>3, <2>4 DEF IInv, Types
  <2>6. /\ calls' = calls
        /\ \A j \in Instances : j # i => container'[j] = container[j] /\ row'[j] = row[j]
    BY <2>1 DEF Spawn, FactoryInv, FactoryTypeOK
  <2>7. /\ owner' \in [Instances -> (Workflows \X Steps) \cup {None}]
        /\ owner'[i] = <<w, s>> /\ \A j \in Instances : j # i => owner'[j] = owner[j]
    BY <2>1, <2>2 DEF Watched
  <2>8. ASSUME NEW j \in Instances, Running(j)'
        PROVE  (\E v \in Workflows, t \in Steps : owner[j] = <<v, t>> /\ Holds(v, j))'
    <3>1. CASE j = i
      <4>1. Holds(w, j)'
        BY <2>5, <3>1 DEF Holds, Watching
      <4>2. QED
        BY <2>2, <2>7, <3>1, <4>1
    <3>2. CASE j # i
      <4>1. Running(j)
        BY <2>6, <2>8, <3>2 DEF Running
      <4>2. PICK v \in Workflows, t \in Steps : owner[j] = <<v, t>> /\ Holds(v, j)
        BY <4>1 DEF Watched
      <4>3. v # w
        BY <2>1, <4>2 DEF Holds, At, Watching
      <4>4. Holds(v, j)'
        BY <2>5, <2>6, <4>2, <4>3 DEF Holds, Calling
      <4>5. QED
        BY <2>7, <3>2, <4>2, <4>4
    <3>3. QED
      BY <3>1, <3>2
  <2>9. QED
    BY <2>7, <2>8 DEF Watched
<1>9. QED
  BY <1>2, <1>5, <1>6, <1>7, <1>8 DEF Proceed

(* A step that touches neither goroutines nor containers. *)
LEMMA SameWatch ==
  ASSUME Watched, UNCHANGED <<row, container, calls, owner, exec>>
  PROVE  Watched'
  BY DEF Watched, Running, Holds, Calling

(* Every step of a reliable environment leaves the containers watched. *)
LEMMA StepWatched ==
  ASSUME Reliable
  PROVE  IInv /\ FactoryInv /\ Watched /\ [Next]_vars => Watched'
<1> SUFFICES ASSUME IInv, FactoryInv, Watched, [Next]_vars PROVE Watched'
  OBVIOUS
<1>1. ASSUME NEW w \in Workflows, StartWorkflowExecution(w) PROVE Watched'
  <2>1. UNCHANGED <<row, container, calls, owner>>
    BY <1>1 DEF StartWorkflowExecution, factoryVars
  <2>2. CASE UNCHANGED exec
    BY <2>1, <2>2, SameWatch
  <2>3. ASSUME exec[w] = None, NEW r, exec' = [exec EXCEPT ![w] = r] PROVE Watched'
    <3>1. ExecOnly(w)
      BY <2>3, ExecChanges
    <3>2. \A i \in Instances : ~Holds(w, i)
      BY <2>3 DEF Holds
    <3>3. QED
      BY <2>1, <3>1, <3>2, HoldsNothing DEF ExecOnly
  <2>4. QED
    BY <1>1, <2>2, <2>3 DEF StartWorkflowExecution
<1>2. ASSUME NEW w \in Workflows, CancelWorkflowExecution(w) \/ CancelAllForWorkflow(w)
      PROVE  Watched'
  <2>1. PICK cancel \in {"requested", "done"} : exec' = [exec EXCEPT ![w].cancel = cancel]
    BY <1>2 DEF CancelWorkflowExecution, CancelAllForWorkflow
  <2>2. exec[w] # None /\ exec[w] \in Run
    BY <1>2, RunFacts DEF CancelWorkflowExecution, CancelAllForWorkflow
  <2>3. calls \subseteq calls' /\ UNCHANGED <<row, container, owner>>
    BY <1>2 DEF CancelWorkflowExecution, CancelAllForWorkflow, factoryVars, StopCall
  <2>4. /\ exec'[w] # None
        /\ exec'[w].inst = exec[w].inst /\ exec'[w].at = exec[w].at
    <3>1. exec'[w] = [exec[w] EXCEPT !.cancel = cancel]
      BY <2>1 DEF IInv, Types
    <3>2. exec'[w] \in Run
      BY <2>2, <3>1 DEF Run
    <3>3. QED
      BY <2>2, <3>1, <3>2, EmptyAssumption DEF Run
  <2>5. \A v \in Workflows : v # w => exec'[v] = exec[v]
    BY <2>1 DEF IInv, Types
  <2>6. \A v \in Workflows : /\ exec[v] # None => exec'[v] # None
                             /\ exec'[v].inst = exec[v].inst /\ exec'[v].at = exec[v].at
    BY <2>4, <2>5
  <2>7. QED
    BY <2>3, <2>6, CallsBegin
<1>3. ASSUME NEW i \in Instances,
             DeleteDefinition(i) \/ \E by \in {"rpc", "delete"} : StopInstance(i, by)
      PROVE  Watched'
  <2>1. calls \subseteq calls' /\ UNCHANGED <<row, container, owner, exec>>
    BY <1>3 DEF DeleteDefinition, CheckRunning, StopInstance, StopCall
  <2>2. QED
    BY <2>1, CallsBegin
<1>4. ASSUME NEW i \in Instances, ContainerExit(i) PROVE Watched'
  <2>1. PICK code \in {"ok", "error"} : ContainerEnds(i, code)
    BY <1>4 DEF ContainerExit
  <2>2. UNCHANGED <<owner, exec>>
    BY <1>4 DEF ContainerExit
  <2>3. container \in [Instances -> ContainerState]
    BY DEF FactoryInv, FactoryTypeOK
  <2>4. /\ row' = row /\ calls' = calls /\ container'[i] # "running"
        /\ \A j \in Instances \ {i} : container'[j] = container[j]
    BY <2>1, <2>3 DEF ContainerEnds
  <2>5. QED
    BY <2>2, <2>4, CallAbout DEF Running
<1>5. ASSUME NEW w \in Workflows,
             \/ CreateWorkflow(w) \/ SchedulerStart(w) \/ RPCStart(w) \/ CommandRead(w)
             \/ \E room \in Rooms : CommandStart(w, room)
             \/ \E saved \in Saves : \/ CommandWrite(w, saved) \/ CancelByHand(w, saved)
                                     \/ \E s \in Steps : AdvanceByHand(w, s, saved)
      PROVE  Watched'
  BY <1>5, SameWatch DEF CreateWorkflow, SchedulerStart, RPCStart, CommandStart, CommandRead,
                         CommandWrite, CancelByHand, AdvanceByHand, factoryVars
<1>6. ASSUME NEW lost \in SUBSET Workflows, Shutdown(lost) PROVE Watched'
  BY <1>6, SameWatch DEF Shutdown, factoryVars
<1>7. CASE UNCHANGED vars
  BY <1>7, SameWatch DEF vars
<1>8. ~Restart
  BY DEF Reliable, Restart
<1>9. QED
  BY <1>1, <1>2, <1>3, <1>4, <1>5, <1>6, <1>7, <1>8, ProceedWatched, FactoryStepWatched
  DEF Next, Launching

(* While Docker and the store answer and the bridge stays up, retries,     *)
(* fail-overs, cancellations and the stops of operators never leave a      *)
(* container behind that runs with a row that says so.                     *)
THEOREM RunningContainersAreWatched ==
  ASSUME Reliable
  PROVE  Spec => []RunningIsWatched
<1>1. Init => Watched
  BY DEF Init, FactoryInit, Watched, Running
<1>2. Watched => RunningIsWatched
  <2> SUFFICES ASSUME Watched, NEW i \in Instances, Running(i)
               PROVE  exec[owner[i][1]] # None /\ exec[owner[i][1]].inst = i
    BY DEF RunningIsWatched, Running
  <2>1. PICK w \in Workflows, s \in Steps : owner[i] = <<w, s>> /\ Holds(w, i)
    BY DEF Watched
  <2>2. QED
    BY <2>1 DEF Holds
<1>3. Spec => []FactoryInv
  BY UsesFactory, FactoryInvariant, PTL
<1>4. Spec => []IInv
  BY InitInv, StepInv, PTL DEF Spec
<1>5. IInv /\ FactoryInv /\ Watched /\ [Next]_vars => Watched'
  BY StepWatched
<1>6. QED
  BY <1>1, <1>2, <1>3, <1>4, <1>5, PTL DEF Spec

-----------------------------------------------------------------------------
(* How many containers a step gets. *)

(* The containers that owner gives to step s of w, and whether they are at *)
(* most n.                                                                 *)
Given(own, w, s) == {i \in Instances : own[i] = <<w, s>>}

Within(own, w, s, n) == IsFiniteSet(Given(own, w, s)) /\ Cardinality(Given(own, w, s)) <= n

Limit(s) == IF FailingOver(s) THEN AgentCount[s] ELSE RetryCount + 1

(* The number of the agent, or of the attempt, that the goroutine is at. *)
Turn(s, r) == IF FailingOver(s) THEN r.agent ELSE r.attempt + 1

(* Before a container is spawned, and from then on. *)
Before == {"attempt", "spawn"}

After == Watching \cup {"retry"}

(* The containers of the current step are at most as many as its turns. *)
HeadWithin(own, w, r) ==
  /\ r.at \in Before \cup After => Turn(Head(r.todo), r) \in 1 .. Limit(Head(r.todo))
  /\ r.at \in Before => Within(own, w, Head(r.todo), Turn(Head(r.todo), r) - 1)
  /\ r.at \in After => Within(own, w, Head(r.todo), Turn(Head(r.todo), r))
  /\ r.at = "retry" => ~FailingOver(Head(r.todo))

(* The steps after the current one have none. *)
RunWithin(own, w, r) ==
  /\ \A i, j \in DOMAIN r.todo : r.todo[i] = r.todo[j] => i = j
  /\ r.at \notin {"report", "exit"} =>
       \A j \in DOMAIN r.todo :
         (j # 1 \/ r.at \in {"next", "approve"}) => Within(own, w, r.todo[j], 0)
  /\ HeadWithin(own, w, r)

Waits(st) == st = None \/ st.status = "pending"

(* A row is running exactly while the workflow is in memory: a workflow    *)
(* that was started once cannot be started again.                          *)
OrchOnce(st, a) ==
  /\ a # None => st # None /\ st.status = "running"
  /\ a = None => st = None \/ st.status \in {"pending", "completed", "failed", "cancelled"}

Quota(own, w, st, a, r, l) ==
  /\ OrchOnce(st, a)
  /\ \A s \in Steps : Within(own, w, s, Limit(s))
  /\ Waits(st) \/ l # None => r = None /\ \A s \in Steps : Within(own, w, s, 0)
  /\ l # None => ~Waits(st) /\ l.at = "execute"
  /\ r # None => RunWithin(own, w, r)

Quotas ==
  /\ owner \in [Instances -> (Workflows \X Steps) \cup {None}]
  /\ \A w \in Workflows : Quota(owner, w, store[w], active[w], exec[w], launch[w])

(* No restart, no lost write and no start command, whose write can put a   *)
(* finished workflow back: then a workflow is executed once.               *)
RunsOnce == Environment \cap {"restart", "storeFails", "command"} = {}

(* A weaker limit holds too. *)
LEMMA WithinMore ==
  ASSUME NEW own, NEW w, NEW s, NEW m \in Int, NEW n \in Int, m <= n, Within(own, w, s, m)
  PROVE  Within(own, w, s, n)
<1>1. Cardinality(Given(own, w, s)) \in Nat
  BY FS_CardinalityType DEF Within
<1>2. QED
  BY <1>1 DEF Within

(* The limit of a step, in the two policies. *)
LEMMA LimitType ==
  ASSUME NEW s \in Steps
  PROVE  Limit(s) \in Nat /\ (~FailingOver(s) => Limit(s) = RetryCount + 1)
         /\ (FailingOver(s) => Limit(s) = AgentCount[s] /\ AgentCount[s] > 1)
         /\ AgentCount[s] \in Nat /\ RetryCount \in Nat
  BY EnvironmentAssumption DEF Limit, FailingOver

(* What a goroutine on a step has as its current step. *)
LEMMA HeadFacts ==
  ASSUME IInv, NEW w \in Workflows, NEW at \in Busy, At(w, at)
  PROVE  /\ exec[w] # None /\ exec[w] \in Run /\ exec[w].at = at /\ exec[w].at \in Busy
         /\ exec[w].todo \in Seq(Steps) /\ exec[w].todo # <<>>
         /\ Head(exec[w].todo) \in Steps /\ Head(exec[w].todo) = exec[w].todo[1]
         /\ 1 \in DOMAIN exec[w].todo
         /\ exec[w].attempt \in 0 .. RetryCount /\ exec[w].agent \in Nat
<1>1. exec[w] # None /\ exec[w] \in Run /\ exec[w].todo # <<>> /\ exec[w].at \in Busy
  BY BusyFacts
<1>2. /\ exec[w].todo \in Seq(Steps)
      /\ exec[w].attempt \in 0 .. RetryCount /\ exec[w].agent \in Nat
  BY <1>1 DEF Run
<1>3. /\ Head(exec[w].todo) \in Steps /\ Head(exec[w].todo) = exec[w].todo[1]
      /\ 1 \in DOMAIN exec[w].todo
  BY <1>1, <1>2
<1>4. QED
  BY <1>1, <1>2, <1>3 DEF At

(* Only w changes, and no container is spawned. *)
Elsewhere(w) ==
  \A v \in Workflows \ {w} : /\ store'[v] = store[v] /\ active'[v] = active[v]
                             /\ exec'[v] = exec[v] /\ launch'[v] = launch[v]

(* A step that spawns nothing is judged by what it leaves of its workflow. *)
LEMMA OneQuota ==
  ASSUME Quotas, NEW w \in Workflows, UNCHANGED owner, Elsewhere(w),
         Quota(owner, w, store'[w], active'[w], exec'[w], launch'[w])
  PROVE  Quotas'
<1>1. ASSUME NEW v \in Workflows
      PROVE  Quota(owner, v, store'[v], active'[v], exec'[v], launch'[v])
  <2>1. CASE v = w
    BY <2>1
  <2>2. CASE v # w
    <3>1. Quota(owner, v, store[v], active[v], exec[v], launch[v])
      BY DEF Quotas
    <3>2. /\ store'[v] = store[v] /\ active'[v] = active[v]
          /\ exec'[v] = exec[v] /\ launch'[v] = launch[v]
      BY <2>2 DEF Elsewhere
    <3>3. QED
      BY <3>1, <3>2
  <2>3. QED
    BY <2>1, <2>2
<1>2. QED
  BY <1>1 DEF Quotas

(* A step of the goroutine alone. *)
LEMMA RunQuota ==
  ASSUME IInv, Quotas, NEW w \in Workflows, exec[w] # None,
         UNCHANGED <<store, active, launch, owner>>,
         NEW r, exec' = [exec EXCEPT ![w] = r], r # None => RunWithin(owner, w, r)
  PROVE  Quotas'
<1>1. exec'[w] = r /\ \A v \in Workflows \ {w} : exec'[v] = exec[v]
  BY DEF IInv, Types
<1>2. Elsewhere(w)
  BY <1>1 DEF Elsewhere
<1>3. Quota(owner, w, store[w], active[w], exec[w], launch[w])
  BY DEF Quotas
<1>4. Quota(owner, w, store[w], active[w], r, launch[w])
  BY <1>3 DEF Quota
<1>5. QED
  BY <1>1, <1>2, <1>4, OneQuota

(* The goroutine goes on with the steps it had. *)
LEMMA SameTodo ==
  ASSUME NEW own, NEW w, NEW r, NEW q, RunWithin(own, w, r), q.todo = r.todo,
         \/ q.at \in {"report", "exit"}
         \/ /\ r.at \notin {"report", "exit"}
            /\ q.at \in {"next", "approve"} => r.at \in {"next", "approve"}
            /\ HeadWithin(own, w, q)
  PROVE  RunWithin(own, w, q)
<1>1. CASE q.at \in {"report", "exit"}
  BY <1>1 DEF RunWithin, HeadWithin, Before, After, Watching
<1>2. CASE q.at \notin {"report", "exit"}
  BY <1>2 DEF RunWithin
<1>3. QED
  BY <1>1, <1>2

(* The goroutine reports an outcome. *)
LEMMA ReportQuota ==
  ASSUME IInv, Quotas, NEW w \in Workflows, exec[w] # None,
         UNCHANGED <<store, active, launch, owner>>, NEW result \in Outcomes, Report(w, result)
  PROVE  Quotas'
<1> DEFINE r == [Leave(w, "report") EXCEPT !.result = result]
<1>1. r.at = "report" /\ r.todo = exec[w].todo
  BY RunFacts DEF Leave, Run
<1>2. exec' = [exec EXCEPT ![w] = r]
  BY DEF Report
<1> HIDE DEF r
<1>3. RunWithin(owner, w, exec[w])
  BY DEF Quotas, Quota
<1>4. RunWithin(owner, w, r)
  BY <1>1, <1>3, SameTodo
<1>5. QED
  BY <1>2, <1>4, RunQuota

(* A failed agent is followed by the next agent or the next attempt, if    *)
(* there is one.                                                           *)
LEMMA JudgeQuota ==
  ASSUME IInv, Quotas, NEW w \in Workflows, NEW at \in Before \cup Watching, At(w, at),
         UNCHANGED <<store, active, launch, owner>>, NEW result, AfterAgent(w, result)
  PROVE  Quotas'
<1> DEFINE s == Head(exec[w].todo)
<1>1. /\ exec[w] # None /\ exec[w] \in Run /\ exec[w].at = at /\ s \in Steps
      /\ exec[w].attempt \in 0 .. RetryCount /\ exec[w].agent \in Nat
  <2>1. at \in Busy
    BY DEF Before, Watching, Busy
  <2>2. QED
    BY <2>1, HeadFacts
<1>2. RunWithin(owner, w, exec[w])
  BY <1>1 DEF Quotas, Quota
<1>3. /\ Limit(s) \in Nat /\ (~FailingOver(s) => Limit(s) = RetryCount + 1)
      /\ (FailingOver(s) => Limit(s) = AgentCount[s])
      /\ RetryCount \in Nat
  BY <1>1, LimitType
<1>4. Turn(s, exec[w]) \in 1 .. Limit(s) /\ Within(owner, w, s, Turn(s, exec[w]))
  <2>1. Turn(s, exec[w]) \in 1 .. Limit(s)
    BY <1>1, <1>2 DEF RunWithin, HeadWithin, After
  <2>2. CASE at \in Before
    <3>1. Within(owner, w, s, Turn(s, exec[w]) - 1)
      BY <1>1, <1>2, <2>2 DEF RunWithin, HeadWithin
    <3> DEFINE n == Turn(s, exec[w])
    <3>2. n \in Int /\ n - 1 \in Int /\ n - 1 <= n
      BY <1>3, <2>1
    <3> HIDE DEF n, s
    <3>3. Within(owner, w, s, n)
      BY <3>1, <3>2, WithinMore DEF n
    <3>4. QED
      BY <2>1, <3>3 DEF n
  <2>3. CASE at \in Watching
    BY <1>1, <1>2, <2>1, <2>3 DEF RunWithin, HeadWithin, After
  <2>4. QED
    BY <2>2, <2>3
<1>5. exec[w].at \notin {"report", "exit"}
  BY <1>1 DEF Before, Watching
<1>6. \A p \in {"advance", "attempt", "retry"} :
        /\ Leave(w, p) \in Run /\ Leave(w, p).at = p /\ Leave(w, p).todo = exec[w].todo
        /\ Leave(w, p).attempt = exec[w].attempt /\ Leave(w, p).agent = exec[w].agent
  BY <1>1 DEF Leave, Run
<1>7. CASE exec' = [exec EXCEPT ![w] = Leave(w, "advance")]
  <2>1. HeadWithin(owner, w, Leave(w, "advance"))
    BY <1>6 DEF HeadWithin, Before, After, Watching
  <2>2. RunWithin(owner, w, Leave(w, "advance"))
    BY <1>2, <1>5, <1>6, <2>1, SameTodo
  <2>3. QED
    BY <1>1, <1>7, <2>2, RunQuota
<1>8. CASE /\ FailingOver(s) /\ exec[w].agent < Agents(w)
           /\ exec' = [exec EXCEPT ![w] = [Leave(w, "attempt") EXCEPT !.agent = @ + 1]]
  <2> DEFINE r == [Leave(w, "attempt") EXCEPT !.agent = @ + 1]
  <2>1. r.at = "attempt" /\ r.todo = exec[w].todo /\ r.agent = exec[w].agent + 1
    BY <1>6 DEF Run
  <2>2. exec' = [exec EXCEPT ![w] = r]
    BY <1>8
  <2> HIDE DEF r
  <2>3. Turn(s, r) = Turn(s, exec[w]) + 1 /\ Turn(s, exec[w]) < Limit(s)
    BY <1>3, <1>8, <2>1 DEF Turn, Agents
  <2>4. Turn(s, r) \in 1 .. Limit(s) /\ Turn(s, r) - 1 = Turn(s, exec[w])
    BY <1>3, <1>4, <2>3
  <2>5. HeadWithin(owner, w, r)
    BY <1>4, <2>1, <2>4 DEF HeadWithin, Before, After, Watching
  <2>6. RunWithin(owner, w, r)
    BY <1>2, <1>5, <2>1, <2>5, SameTodo
  <2>7. QED
    BY <1>1, <2>2, <2>6, RunQuota
<1>9. CASE ~FailingOver(s) /\ exec' = [exec EXCEPT ![w] = Leave(w, "retry")]
  <2> DEFINE r == Leave(w, "retry")
  <2>1. r.at = "retry" /\ r.todo = exec[w].todo /\ Turn(s, r) = Turn(s, exec[w])
    BY <1>6 DEF Turn
  <2> HIDE DEF r
  <2>2. HeadWithin(owner, w, r)
    BY <1>4, <1>9, <2>1 DEF HeadWithin, Before, After, Watching
  <2>3. RunWithin(owner, w, r)
    BY <1>2, <1>5, <2>1, <2>2, SameTodo
  <2>4. QED
    BY <1>1, <1>9, <2>3, RunQuota DEF r
<1>10. CASE Report(w, "failed") \/ Report(w, "cancelled")
  BY <1>1, <1>10, ReportQuota DEF Outcomes
<1>11. QED
  BY <1>7, <1>8, <1>9, <1>10 DEF AfterAgent, Judge

(* The goroutine moves on with the same step and the same turn. *)
LEMMA GotoQuota ==
  ASSUME IInv, Quotas, NEW w \in Workflows, exec[w] # None,
         UNCHANGED <<store, active, launch, owner>>,
         NEW r, exec' = [exec EXCEPT ![w] = r], r # None, r.todo = exec[w].todo,
         r.agent = exec[w].agent, r.attempt = exec[w].attempt,
         \/ r.at = exec[w].at
         \/ exec[w].at = "next" /\ r.at = "approve"
         \/ exec[w].at \in Before /\ r.at \in Before
         \/ exec[w].at \in Watching /\ r.at \in Watching
  PROVE  Quotas'
<1>1. RunWithin(owner, w, exec[w])
  BY DEF Quotas, Quota
<1>2. \A s : Turn(s, r) = Turn(s, exec[w])
  BY DEF Turn
<1>3. HeadWithin(owner, w, r)
  BY <1>1, <1>2 DEF RunWithin, HeadWithin, Before, After, Watching
<1>4. RunWithin(owner, w, r)
  BY <1>1, <1>3, SameTodo DEF Before, Watching
<1>5. QED
  BY <1>4, RunQuota

(* The steps of the goroutine that concern neither the orchestrator nor a  *)
(* new container.                                                          *)
LEMMA QuietQuota ==
  ASSUME IInv, Quotas, NEW w \in Workflows,
         \/ NextStep(w) \/ CheckApproval(w) \/ ExecuteStep(w) \/ SpawnFails(w)
         \/ Poll(w) \/ Polled(w) \/ WaitCancelled(w) \/ StopReturned(w) \/ Retry(w) \/ Exit(w)
         \/ CancelWorkflowExecution(w) \/ CancelAllForWorkflow(w)
  PROVE  Quotas'
<1>1. UNCHANGED <<store, active, launch, owner>> /\ exec[w] # None
  BY DEF NextStep, CheckApproval, ExecuteStep, SpawnFails, Poll, Polled, WaitCancelled,
         StopReturned, Retry, Exit, CancelWorkflowExecution, CancelAllForWorkflow, orchVars, At
<1>2. exec[w] \in Run /\ RunWithin(owner, w, exec[w])
  BY <1>1 DEF IInv, Types, Quotas, Quota
<1>3. CASE \/ Report(w, "completed") \/ Report(w, "cancelled") \/ Report(w, "failed")
  BY <1>1, <1>3, ReportQuota DEF Outcomes
<1>4. ASSUME NEW at \in Before \cup Watching, At(w, at), NEW result, AfterAgent(w, result)
      PROVE  Quotas'
  BY <1>1, <1>4, JudgeQuota
<1>5. ASSUME NEW at \in {"approve", "spawn", "stopping"}, Goto(w, at),
             \/ at = "approve" /\ At(w, "next")
             \/ at = "spawn" /\ At(w, "attempt")
             \/ at = "stopping" /\ At(w, "wait")
      PROVE  Quotas'
  <2> DEFINE r == [exec[w] EXCEPT !.at = at]
  <2>1. /\ r \in Run /\ r.at = at /\ r.todo = exec[w].todo
        /\ r.agent = exec[w].agent /\ r.attempt = exec[w].attempt
    BY <1>2 DEF Run
  <2>2. exec' = [exec EXCEPT ![w] = r]
    BY <1>5 DEF Goto
  <2> HIDE DEF r
  <2>3. r # None
    BY <2>1, EmptyAssumption
  <2>4. QED
    BY <1>1, <1>5, <2>1, <2>2, <2>3, GotoQuota DEF At, Before, Watching
<1>6. CASE NextStep(w)
  BY <1>3, <1>5, <1>6 DEF NextStep
<1>7. CASE ExecuteStep(w)
  BY <1>3, <1>4, <1>5, <1>7 DEF ExecuteStep, Before
<1>8. CASE SpawnFails(w) \/ Polled(w) \/ StopReturned(w)
  BY <1>4, <1>8 DEF SpawnFails, Polled, StopReturned, Before, Watching
<1>9. CASE WaitCancelled(w)
  BY <1>5, <1>9 DEF WaitCancelled
<1>10. CASE Exit(w)
  BY <1>1, <1>10, RunQuota DEF Exit
<1>11. CASE Poll(w)
  <2>1. At(w, "wait") /\ "wait" \in Watching
    BY <1>11 DEF Poll, Watching
  <2>2. ASSUME NEW seen \in Outcomes \cup {"none"},
               exec' = [exec EXCEPT ![w].at = "polled", ![w].result = seen]
        PROVE  Quotas'
    <3> DEFINE r == [exec[w] EXCEPT !.at = "polled", !.result = seen]
    <3>1. /\ r \in Run /\ r.at = "polled" /\ r.todo = exec[w].todo
          /\ r.agent = exec[w].agent /\ r.attempt = exec[w].attempt
      BY <1>2 DEF Run
    <3>2. exec' = [exec EXCEPT ![w] = r]
      BY <2>2, <1>2 DEF IInv, Types, Run
    <3> HIDE DEF r
    <3>3. r # None
      BY <3>1, EmptyAssumption
    <3>4. QED
      BY <1>1, <2>1, <3>1, <3>2, <3>3, GotoQuota DEF At, Watching
  <2>3. ASSUME NEW reachable \in Reachable(w), Inspect(exec[w].inst, "status", reachable),
               exec' = [exec EXCEPT ![w].at = "polled",
                                    ![w].result = Observed(exec[w].inst, reachable)]
        PROVE  Quotas'
    <3>1. Observed(exec[w].inst, reachable) \in Outcomes
      BY <2>3 DEF Inspect, Observed, Outcomes
    <3>2. QED
      BY <2>2, <2>3, <3>1
  <2>4. QED
    BY <1>4, <1>11, <2>1, <2>3 DEF Poll
<1>12. CASE CheckApproval(w)
  <2>1. CASE exec' = [exec EXCEPT ![w].at = "attempt", ![w].attempt = 0, ![w].agent = 1]
    <3> DEFINE r == [exec[w] EXCEPT !.at = "attempt", !.attempt = 0, !.agent = 1]
               s == Head(exec[w].todo)
    <3>1. At(w, "approve") /\ "approve" \in Busy
      BY <1>12 DEF CheckApproval, Busy
    <3>2. /\ s \in Steps /\ s = exec[w].todo[1] /\ 1 \in DOMAIN exec[w].todo
          /\ exec[w].at = "approve"
      BY <3>1, HeadFacts
    <3>3. 0 \in 0 .. RetryCount
      BY EnvironmentAssumption
    <3>4. r \in Run /\ r.at = "attempt" /\ r.todo = exec[w].todo /\ r.attempt = 0 /\ r.agent = 1
      BY <1>2, <3>3 DEF Run
    <3>5. exec' = [exec EXCEPT ![w] = r]
      BY <1>2, <2>1 DEF IInv, Types, Run
    <3> HIDE DEF r
    <3>6. Within(owner, w, s, 0)
      BY <1>2, <3>2 DEF RunWithin
    <3> HIDE DEF s
    <3>7. Turn(s, r) = 1 /\ 1 \in 1 .. Limit(s)
      BY <3>2, <3>4, LimitType DEF Turn
    <3>8. HeadWithin(owner, w, r)
      BY <3>4, <3>6, <3>7 DEF HeadWithin, Before, After, Watching, s
    <3>9. RunWithin(owner, w, r)
      BY <1>2, <3>2, <3>4, <3>8, SameTodo
    <3>10. QED
      BY <1>1, <3>5, <3>9, RunQuota
  <2>2. QED
    BY <1>3, <1>12, <2>1 DEF CheckApproval
<1>13. CASE Retry(w)
  <2>1. CASE exec' = [exec EXCEPT ![w].at = "attempt", ![w].attempt = @ + 1]
    <3> DEFINE r == [exec[w] EXCEPT !.at = "attempt", !.attempt = @ + 1]
               s == Head(exec[w].todo)
    <3>1. At(w, "retry") /\ "retry" \in Busy
      BY <1>13 DEF Retry, Busy
    <3>2. /\ s \in Steps /\ exec[w].at = "retry" /\ exec[w].attempt \in 0 .. RetryCount
      BY <3>1, HeadFacts
    <3>3. exec[w].attempt < RetryCount /\ RetryCount \in Nat
      BY <1>1, <3>2, RunFacts, EnvironmentAssumption DEF RunOK
    <3>4. exec[w].attempt + 1 \in 0 .. RetryCount
      BY <3>2, <3>3
    <3>5. r.at = "attempt" /\ r.todo = exec[w].todo /\ r.attempt = exec[w].attempt + 1 /\ r \in Run
      BY <1>2, <3>4 DEF Run
    <3>6. exec' = [exec EXCEPT ![w] = r]
      BY <1>2, <2>1 DEF IInv, Types, Run
    <3> HIDE DEF r
    <3>7. ~FailingOver(s) /\ Within(owner, w, s, Turn(s, exec[w]))
      BY <1>2, <3>2 DEF RunWithin, HeadWithin, After
    <3> HIDE DEF s
    <3>8. Turn(s, r) - 1 = Turn(s, exec[w]) /\ Turn(s, r) \in 1 .. Limit(s)
      BY <3>2, <3>3, <3>5, <3>7, LimitType DEF Turn
    <3>9. HeadWithin(owner, w, r)
      BY <3>5, <3>7, <3>8 DEF HeadWithin, Before, After, Watching, s
    <3>10. RunWithin(owner, w, r)
      BY <1>2, <3>2, <3>5, <3>9, SameTodo
    <3>11. QED
      BY <1>1, <3>6, <3>10, RunQuota
  <2>2. QED
    BY <1>3, <1>13, <2>1 DEF Retry
<1>14. CASE CancelWorkflowExecution(w) \/ CancelAllForWorkflow(w)
  <2>1. PICK cancel \in {"requested", "done"} : exec' = [exec EXCEPT ![w].cancel = cancel]
    BY <1>14 DEF CancelWorkflowExecution, CancelAllForWorkflow
  <2> DEFINE r == [exec[w] EXCEPT !.cancel = cancel]
  <2>2. /\ r \in Run /\ r.at = exec[w].at /\ r.todo = exec[w].todo
        /\ r.agent = exec[w].agent /\ r.attempt = exec[w].attempt
    BY <1>2 DEF Run
  <2>3. exec' = [exec EXCEPT ![w] = r]
    BY <2>1
  <2> HIDE DEF r
  <2>4. r # None
    BY <2>2, EmptyAssumption
  <2>5. QED
    BY <1>1, <2>2, <2>3, <2>4, GotoQuota
<1>15. QED
  BY <1>6, <1>7, <1>8, <1>9, <1>10, <1>11, <1>12, <1>13, <1>14

(* A spawn adds one container to the current step and takes none from      *)
(* another.                                                                *)
LEMMA OneMore ==
  ASSUME owner \in [Instances -> (Workflows \X Steps) \cup {None}],
         NEW i \in Instances, NEW w \in Workflows, NEW s \in Steps,
         owner' = [owner EXCEPT ![i] = <<w, s>>]
  PROVE  /\ \A v, t : \A n \in Int :
              <<v, t>> # <<w, s>> /\ Within(owner, v, t, n) => Within(owner', v, t, n)
         /\ \A n \in Nat : Within(owner, w, s, n - 1) => Within(owner', w, s, n)
<1>1. ASSUME NEW v, NEW t, NEW n \in Int, <<v, t>> # <<w, s>>, Within(owner, v, t, n)
      PROVE  Within(owner', v, t, n)
  <2>1. Given(owner', v, t) \subseteq Given(owner, v, t)
    BY <1>1 DEF Given
  <2>2. /\ IsFiniteSet(Given(owner', v, t))
        /\ Cardinality(Given(owner', v, t)) <= Cardinality(Given(owner, v, t))
    BY <1>1, <2>1, FS_Subset DEF Within
  <2>3. Cardinality(Given(owner', v, t)) \in Nat /\ Cardinality(Given(owner, v, t)) \in Nat
    BY <1>1, <2>2, FS_CardinalityType DEF Within
  <2>4. QED
    BY <1>1, <2>2, <2>3 DEF Within
<1>2. ASSUME NEW n \in Nat, Within(owner, w, s, n - 1)
      PROVE  Within(owner', w, s, n)
  <2> DEFINE old == Given(owner, w, s)
  <2>1. Given(owner', w, s) = old \cup {i}
    BY DEF Given
  <2>2. /\ IsFiniteSet(old) /\ Cardinality(old) \in Nat /\ Cardinality(old) <= n - 1
    BY <1>2, FS_CardinalityType DEF Within
  <2> HIDE DEF old
  <2>3. IsFiniteSet(old \cup {i}) /\ Cardinality(old \cup {i}) <= Cardinality(old) + 1
    <3>1. /\ IsFiniteSet(old \cup {i})
          /\ i \in old => Cardinality(old \cup {i}) = Cardinality(old)
          /\ i \notin old => Cardinality(old \cup {i}) = Cardinality(old) + 1
      BY <2>2, FS_AddElement
    <3>2. QED
      BY <2>2, <3>1
  <2>4. Cardinality(old \cup {i}) \in Nat
    BY <2>3, FS_CardinalityType
  <2>5. Cardinality(old \cup {i}) <= n
    BY <2>2, <2>3, <2>4
  <2>6. QED
    BY <2>1, <2>3, <2>5 DEF Within
<1>3. QED
  BY <1>1, <1>2

(* A spawn uses up the turn it is made in. *)
LEMMA SpawnQuota ==
  ASSUME IInv, Quotas, NEW w \in Workflows, NEW tracked \in BOOLEAN, SpawnAgent(w, tracked)
  PROVE  Quotas'
<1> DEFINE i == CHOOSE i \in Instances : container[i] = "unused"
           r == [exec[w] EXCEPT !.at = "wait", !.inst = i]
           s == Head(exec[w].todo)
           n == Turn(s, exec[w])
<1>1. /\ At(w, "spawn") /\ i \in Instances
      /\ exec' = [exec EXCEPT ![w].at = "wait", ![w].inst = i]
      /\ owner' = [owner EXCEPT ![i] = <<w, s>>]
      /\ UNCHANGED <<store, active, launch>>
  BY DEF SpawnAgent, orchVars
<1> HIDE DEF i
<1>2. "spawn" \in Busy
  BY DEF Busy
<1>3. /\ exec[w] # None /\ exec[w] \in Run /\ exec[w].at = "spawn" /\ s \in Steps
      /\ s = exec[w].todo[1] /\ exec[w].todo \in Seq(Steps) /\ 1 \in DOMAIN exec[w].todo
  BY <1>1, <1>2, HeadFacts
<1>4. r \in Run /\ r.at = "wait" /\ r.todo = exec[w].todo /\ Turn(s, r) = n
  BY <1>1, <1>3 DEF Run, Turn
<1>5. exec' = [exec EXCEPT ![w] = r]
  BY <1>1, <1>3 DEF IInv, Types, Run
<1> HIDE DEF r
<1>6. exec'[w] = r /\ \A v \in Workflows \ {w} : exec'[v] = exec[v]
  BY <1>5 DEF IInv, Types
<1>7. Quota(owner, w, store[w], active[w], exec[w], launch[w])
  BY DEF Quotas
<1>8. RunWithin(owner, w, exec[w])
  BY <1>3, <1>7 DEF Quota
<1>9. n \in 1 .. Limit(s) /\ Within(owner, w, s, n - 1) /\ Limit(s) \in Nat
  BY <1>3, <1>8, LimitType DEF RunWithin, HeadWithin, Before
<1> HIDE DEF n, s
<1>10. owner \in [Instances -> (Workflows \X Steps) \cup {None}]
  BY DEF Quotas
<1>11. n \in Nat /\ n \in Int /\ n <= Limit(s) /\ Limit(s) \in Int
  BY <1>9
<1>12. \A v, t : \A m \in Int :
         <<v, t>> # <<w, s>> /\ Within(owner, v, t, m) => Within(owner', v, t, m)
  BY <1>1, <1>3, <1>10, OneMore
<1>13. Within(owner', w, s, n)
  BY <1>1, <1>3, <1>9, <1>10, <1>11, OneMore
<1>14. \A t \in Steps : Within(owner', w, t, Limit(t))
  <2>1. Within(owner', w, s, Limit(s))
    BY <1>11, <1>13, WithinMore
  <2>2. ASSUME NEW t \in Steps, t # s PROVE Within(owner', w, t, Limit(t))
    <3>1. Within(owner, w, t, Limit(t)) /\ Limit(t) \in Int
      BY <1>7, LimitType DEF Quota
    <3>2. <<w, t>> # <<w, s>>
      BY <2>2
    <3>3. QED
      BY <1>12, <3>1, <3>2
  <2>3. QED
    BY <2>1, <2>2
<1>15. RunWithin(owner', w, r)
  <2>1. HeadWithin(owner', w, r)
    BY <1>4, <1>9, <1>13 DEF HeadWithin, Before, After, Watching, s
  <2>2. ASSUME NEW j \in DOMAIN r.todo, j # 1 PROVE Within(owner', w, r.todo[j], 0)
    <3>1. Within(owner, w, r.todo[j], 0)
      BY <1>3, <1>4, <1>8, <2>2 DEF RunWithin
    <3>2. r.todo[j] # s
      BY <1>3, <1>4, <1>8, <2>2 DEF RunWithin
    <3>3. <<w, r.todo[j]>> # <<w, s>>
      BY <3>2
    <3>4. QED
      BY <1>12, <3>1, <3>3
  <2>3. \A j, k \in DOMAIN r.todo : r.todo[j] = r.todo[k] => j = k
    BY <1>4, <1>8 DEF RunWithin
  <2>4. QED
    BY <1>4, <2>1, <2>2, <2>3 DEF RunWithin
<1>16. Quota(owner', w, store[w], active[w], r, launch[w])
  BY <1>3, <1>7, <1>14, <1>15 DEF Quota
<1>17. ASSUME NEW v \in Workflows, v # w
       PROVE  Quota(owner', v, store[v], active[v], exec[v], launch[v])
  <2>1. Quota(owner, v, store[v], active[v], exec[v], launch[v])
    BY DEF Quotas
  <2>2. \A t : \A m \in Int : Within(owner, v, t, m) => Within(owner', v, t, m)
    <3>1. \A t : <<v, t>> # <<w, s>>
      BY <1>17
    <3>2. QED
      BY <1>12, <3>1
  <2>3. \A t \in Steps : Within(owner', v, t, Limit(t))
    BY <2>1, <2>2, LimitType DEF Quota
  <2>4. ASSUME exec[v] # None PROVE RunWithin(owner', v, exec[v])
    <3>1. RunWithin(owner, v, exec[v])
      BY <2>1, <2>4 DEF Quota
    <3>2. exec[v].attempt \in Nat /\ exec[v].agent \in Nat
      <4>1. exec[v] \in Run
        BY <2>4 DEF IInv, Types
      <4>2. QED
        BY <4>1, EnvironmentAssumption DEF Run
    <3>3. \A t : Turn(t, exec[v]) \in Int /\ Turn(t, exec[v]) - 1 \in Int
      BY <3>2 DEF Turn
    <3>4. HeadWithin(owner', v, exec[v])
      BY <2>2, <3>1, <3>3 DEF RunWithin, HeadWithin
    <3>5. QED
      BY <2>2, <3>1, <3>4 DEF RunWithin
  <2>5. \A t \in Steps : Within(owner, v, t, 0) => Within(owner', v, t, 0)
    BY <2>2
  <2>6. QED
    BY <2>1, <2>3, <2>4, <2>5 DEF Quota
<1>18. owner' \in [Instances -> (Workflows \X Steps) \cup {None}]
  BY <1>1, <1>3, <1>10
<1>19. QED
  BY <1>1, <1>6, <1>16, <1>17, <1>18 DEF Quotas

-----------------------------------------------------------------------------
OrchElsewhere(w) ==
  \A v \in Workflows \ {w} : store'[v] = store[v] /\ active'[v] = active[v]

(* A step of the orchestrator on an active workflow. *)
LEMMA OrchQuota ==
  ASSUME IInv, Quotas, NEW w \in Workflows, active[w] # None, UNCHANGED <<launch, owner>>,
         OrchElsewhere(w), OrchOnce(store'[w], active'[w]), ~Waits(store'[w]),
         \A v \in Workflows \ {w} : exec'[v] = exec[v],
         exec'[w] = None \/ (exec[w] # None /\ RunWithin(owner, w, exec'[w]))
  PROVE  Quotas'
<1>1. Elsewhere(w)
  BY DEF Elsewhere, OrchElsewhere
<1>2. Quota(owner, w, store[w], active[w], exec[w], launch[w])
  BY DEF Quotas
<1>3. Quota(owner, w, store'[w], active'[w], exec'[w], launch[w])
  BY <1>2 DEF Quota
<1>4. QED
  BY <1>1, <1>3, OneQuota

(* With every write saved, an outcome removes the entry and ends the row. *)
LEMMA FinishOnce ==
  ASSUME IInv, NEW w \in Workflows, NEW outcome \in Orch!Terminal,
         Orch!Finish(w, outcome, TRUE) \/ (outcome = "cancelled" /\ Orch!CancelWorkflow(w, TRUE))
  PROVE  /\ active[w] # None /\ OrchElsewhere(w)
         /\ OrchOnce(store'[w], active'[w]) /\ ~Waits(store'[w])
<1> DEFINE wf == [active[w].wf EXCEPT !.status = outcome]
<1>1. active[w] # None /\ outcome \in Orch!Status
  BY DEF Orch!Finish, Orch!CancelWorkflow, Orch!CanMove, Orch!IsActive, Orch!Terminal, Orch!Status
<1>2. wf \in Orch!Row /\ wf.status = outcome
  BY <1>1, EntryFields
<1>3. store' = [store EXCEPT ![w] = wf] /\ active' = [active EXCEPT ![w] = None]
  BY DEF Orch!Finish, Orch!CancelWorkflow, Orch!UpdateWorkflow, Orch!Remove
<1> HIDE DEF wf
<1>4. store'[w] = wf /\ active'[w] = None /\ wf # None
  BY <1>2, <1>3, EmptyAssumption DEF IInv, Types
<1>5. OrchElsewhere(w)
  BY <1>3 DEF OrchElsewhere, IInv, Types
<1>6. QED
  BY <1>1, <1>2, <1>4, <1>5 DEF OrchOnce, Waits, Orch!Terminal

(* So does the last advance; an earlier one keeps both running. *)
LEMMA AdvanceOnce ==
  ASSUME IInv, NEW w \in Workflows, NEW s, Orch!AdvanceWorkflow(w, s, TRUE)
  PROVE  /\ active[w] # None /\ OrchElsewhere(w)
         /\ OrchOnce(store'[w], active'[w]) /\ ~Waits(store'[w])
<1>1. CASE Orch!Finish(w, "completed", TRUE)
  BY <1>1, FinishOnce DEF Orch!Terminal
<1>2. CASE Orch!NextStep(w, s) # NoStep
  <2> DEFINE wf == [active[w].wf EXCEPT !.step = Orch!NextStep(w, s)]
             entry == [wf |-> wf, index |-> active[w].index + 1]
  <2>1. /\ active[w] # None /\ active[w].wf.status = "running"
        /\ Template[w] # <<>> /\ active[w].wf.step = s
    BY DEF Orch!AdvanceWorkflow, Orch!OnStep, Orch!IsActive
  <2>2. Good(w, store[w], active[w], exec[w], launch[w], earned[w])
    BY OneState
  <2>3. PICK k \in DOMAIN Template[w] : Template[w][k] = s
    BY <2>1, <2>2 DEF Good, ActiveOK
  <2>4. Orch!NextStep(w, s) \in Steps
    BY <1>2, <2>3, Successor, TemplateFacts
  <2>5. wf \in Orch!Row /\ wf.status = "running" /\ active[w].index \in Nat
    BY <2>1, <2>4, EntryFields
  <2>6. store' = [store EXCEPT ![w] = wf] /\ active' = [active EXCEPT ![w] = entry]
    BY <1>2 DEF Orch!AdvanceWorkflow, Orch!UpdateWorkflow, IInv, Types
  <2> HIDE DEF wf
  <2>7. entry \in Orch!Entry
    BY <2>5 DEF Orch!Entry
  <2> HIDE DEF entry
  <2>8. store'[w] = wf /\ active'[w] = entry /\ wf # None /\ entry # None
    BY <2>5, <2>6, <2>7, EmptyAssumption DEF IInv, Types
  <2>9. OrchElsewhere(w)
    BY <2>6 DEF OrchElsewhere, IInv, Types
  <2>10. QED
    BY <2>1, <2>5, <2>8, <2>9 DEF OrchOnce, Waits
<1>3. QED
  BY <1>1, <1>2 DEF Orch!AdvanceWorkflow, Orch!CompleteWorkflow

(* Only a workflow that was never executed can be started. *)
LEMMA StartQuota ==
  ASSUME IInv, Quotas, NEW w \in Workflows, Orch!StartWorkflow(w), UNCHANGED <<exec, owner>>,
         \A v \in Workflows \ {w} : launch'[v] = launch[v],
         launch'[w] = launch[w] \/ launch'[w].at = "execute"
  PROVE  Quotas'
<1>1. Quota(owner, w, store[w], active[w], exec[w], launch[w])
  BY DEF Quotas
<1>2. OrchMove(w, earned[w]) /\ store'[w] # None
  BY StartMove
<1>3. Waits(store[w])
  <2>1. active[w] = None /\ store[w] # None /\ Orch!ValidateTransition(store[w].status, "running")
    BY DEF Orch!StartWorkflow, Orch!IsActive
  <2>2. store[w].status \in {"pending", "completed", "failed", "cancelled"}
    BY <1>1, <2>1 DEF Quota, OrchOnce
  <2>3. store[w].status = "pending"
    BY <2>1, <2>2 DEF Orch!ValidateTransition, Orch!ValidTransitions, Orch!Status
  <2>4. QED
    BY <2>3 DEF Waits
<1>4. exec[w] = None /\ launch[w] = None /\ \A s \in Steps : Within(owner, w, s, 0)
  BY <1>1, <1>3 DEF Quota
<1>5. store'[w].status = "running"
  <2>1. store[w] \in Orch!Row
    BY DEF IInv, Types, Orch!StartWorkflow
  <2>2. Orch!Started(w).status = "running"
    BY <2>1 DEF Orch!Started, Orch!Row
  <2>3. QED
    BY <2>2 DEF Orch!StartWorkflow, Orch!UpdateWorkflow, IInv, Types
<1>6. active'[w] # None
  <2> DEFINE index == IF Template[w] = <<>> THEN 0 ELSE FirstOrder[w]
             entry == [wf |-> Orch!Started(w), index |-> index]
  <2>1. active' = [active EXCEPT ![w] = entry]
    BY DEF Orch!StartWorkflow, Orch!Launched
  <2>2. entry \in Orch!Entry
    <3>1. store[w] \in Orch!Row
      BY DEF IInv, Types, Orch!StartWorkflow
    <3>2. Template[w] # <<>> => Template[w][1] \in Steps
      BY TemplateFacts
    <3>3. Orch!Started(w) \in Orch!Row
      BY <3>1, <3>2 DEF Orch!Started, Orch!Row, Orch!Status
    <3>4. QED
      BY <3>3, TemplateAssumption DEF Orch!Entry
  <2> HIDE DEF entry
  <2>3. QED
    BY <2>1, <2>2, EmptyAssumption DEF IInv, Types
<1>7. OrchOnce(store'[w], active'[w]) /\ ~Waits(store'[w])
  BY <1>2, <1>5, <1>6 DEF OrchOnce, Waits
<1>8. Elsewhere(w)
  BY <1>2 DEF Elsewhere, OrchMove
<1>9. Quota(owner, w, store'[w], active'[w], exec'[w], launch'[w])
  BY <1>1, <1>4, <1>7 DEF Quota
<1>10. QED
  BY <1>8, <1>9, OneQuota

(* A new workflow has no container. *)
LEMMA CreateQuota ==
  ASSUME IInv, Quotas, NEW w \in Workflows, CreateWorkflow(w)
  PROVE  Quotas'
<1> DEFINE new == [status |-> "pending", step |-> NoStep, room |-> NoRoom]
<1>1. /\ store[w] = None /\ store' = [store EXCEPT ![w] = new]
      /\ UNCHANGED <<active, exec, launch, owner>>
  BY DEF CreateWorkflow, Orch!CreateWorkflow
<1>2. new.status = "pending"
  OBVIOUS
<1> HIDE DEF new
<1>3. store'[w] = new /\ Elsewhere(w)
  BY <1>1 DEF IInv, Types, Elsewhere
<1>4. Quota(owner, w, store[w], active[w], exec[w], launch[w])
  BY DEF Quotas
<1>5. Waits(store[w]) /\ active[w] = None
  BY <1>1, <1>4 DEF Waits, Quota, OrchOnce
<1>6. OrchOnce(new, active[w]) /\ Waits(new)
  BY <1>2, <1>5 DEF OrchOnce, Waits
<1>7. Quota(owner, w, new, active[w], exec[w], launch[w])
  BY <1>4, <1>5, <1>6 DEF Quota
<1>8. QED
  BY <1>1, <1>3, <1>7, OneQuota

(* The execution begins with no container for any of its steps. *)
LEMMA ExecutionQuota ==
  ASSUME IInv, Quotas, NEW w \in Workflows, StartWorkflowExecution(w)
  PROVE  Quotas'
<1>1. /\ launch[w] # None /\ launch' = [launch EXCEPT ![w] = None]
      /\ UNCHANGED <<store, active, owner>>
  BY DEF StartWorkflowExecution, orchVars
<1>2. Quota(owner, w, store[w], active[w], exec[w], launch[w])
  BY DEF Quotas
<1>3. /\ exec[w] = None /\ ~Waits(store[w])
      /\ \A s \in Steps : Within(owner, w, s, 0)
  BY <1>1, <1>2 DEF Quota
<1>4. launch'[w] = None /\ \A v \in Workflows \ {w} : launch'[v] = launch[v]
  BY <1>1 DEF IInv, Types
<1>5. ASSUME \A v \in Workflows \ {w} : exec'[v] = exec[v],
             exec'[w] # None => RunWithin(owner, w, exec'[w])
      PROVE  Quotas'
  <2>1. Elsewhere(w)
    BY <1>1, <1>4, <1>5 DEF Elsewhere
  <2>2. Quota(owner, w, store[w], active[w], exec'[w], launch'[w])
    BY <1>2, <1>3, <1>4, <1>5 DEF Quota
  <2>3. QED
    BY <1>1, <2>1, <2>2, OneQuota
<1>6. ASSUME NEW order \in Order!KahnOrders(NextStepID[w]),
             exec' = [exec EXCEPT ![w] = FirstStep(order)]
      PROVE  Quotas'
  <2> DEFINE r == FirstStep(order)
             n == Len(Template[w])
  <2>1. /\ order \in [1 .. n -> StepsOf(w)]
        /\ \A i, j \in 1 .. n : order[i] = order[j] => i = j
    BY OrderCovers
  <2>2. r.at = "next" /\ r.todo = order
    BY DEF FirstStep
  <2>3. \A j \in DOMAIN order : order[j] \in Steps
    BY <2>1, TemplateFacts
  <2> HIDE DEF r, n
  <2>4. HeadWithin(owner, w, r)
    BY <2>2 DEF HeadWithin, Before, After, Watching
  <2>5. RunWithin(owner, w, r)
    BY <1>3, <2>1, <2>2, <2>3, <2>4 DEF RunWithin
  <2>6. exec'[w] = r /\ \A v \in Workflows \ {w} : exec'[v] = exec[v]
    BY <1>6 DEF IInv, Types, r
  <2>7. QED
    BY <1>5, <2>5, <2>6
<1>7. CASE exec' = [exec EXCEPT ![w] = InvalidTemplate]
  <2>1. InvalidTemplate.at = "report" /\ InvalidTemplate.todo = <<>>
    BY DEF InvalidTemplate
  <2>2. RunWithin(owner, w, InvalidTemplate)
    BY <2>1 DEF RunWithin, HeadWithin, Before, After, Watching
  <2>3. exec'[w] = InvalidTemplate /\ \A v \in Workflows \ {w} : exec'[v] = exec[v]
    BY <1>7 DEF IInv, Types
  <2>4. QED
    BY <1>5, <2>2, <2>3
<1>8. CASE UNCHANGED exec
  BY <1>3, <1>5, <1>8
<1>9. QED
  BY <1>6, <1>7, <1>8 DEF StartWorkflowExecution

(* The goroutine advances the workflow, or reports the outcome. *)
LEMMA AdvanceQuota ==
  ASSUME IInv, Quotas, NEW w \in Workflows, Advance(w, TRUE)
  PROVE  Quotas'
<1> DEFINE s == Head(exec[w].todo)
<1>1. At(w, "advance") /\ UNCHANGED <<launch, owner>> /\ "advance" \in Busy
  BY DEF Advance, Busy
<1>2. /\ exec[w] # None /\ exec[w] \in Run /\ exec[w].at = "advance"
      /\ exec[w].todo \in Seq(Steps) /\ exec[w].todo # <<>>
  BY <1>1, HeadFacts
<1>3. RunWithin(owner, w, exec[w])
  BY <1>2 DEF Quotas, Quota
<1>4. CASE /\ Orch!AdvanceWorkflow(w, s, TRUE)
           /\ exec' = [exec EXCEPT ![w].at = "next", ![w].todo = Tail(@)]
  <2> DEFINE r == [exec[w] EXCEPT !.at = "next", !.todo = Tail(@)]
  <2>1. /\ active[w] # None /\ OrchElsewhere(w)
        /\ OrchOnce(store'[w], active'[w]) /\ ~Waits(store'[w])
    BY <1>4, AdvanceOnce
  <2>2. exec' = [exec EXCEPT ![w] = r]
    BY <1>2, <1>4 DEF IInv, Types, Run
  <2>3. r.at = "next" /\ r.todo = Tail(exec[w].todo)
    BY <1>2 DEF Run
  <2> HIDE DEF r
  <2>4. exec'[w] = r /\ \A v \in Workflows \ {w} : exec'[v] = exec[v]
    BY <2>2 DEF IInv, Types
  <2>5. \A j \in DOMAIN r.todo : /\ r.todo[j] = exec[w].todo[j + 1]
                                 /\ j + 1 \in DOMAIN exec[w].todo /\ j + 1 # 1 /\ j \in Nat
    BY <1>2, <2>3
  <2>6. \A j \in DOMAIN r.todo : Within(owner, w, r.todo[j], 0)
    BY <1>2, <1>3, <2>5 DEF RunWithin
  <2>7. \A j, k \in DOMAIN r.todo : r.todo[j] = r.todo[k] => j = k
    <3> SUFFICES ASSUME NEW j \in DOMAIN r.todo, NEW k \in DOMAIN r.todo, r.todo[j] = r.todo[k]
                 PROVE  j = k
      OBVIOUS
    <3>1. j + 1 = k + 1
      BY <1>3, <2>5 DEF RunWithin
    <3>2. QED
      BY <2>5, <3>1
  <2>8. HeadWithin(owner, w, r)
    BY <2>3 DEF HeadWithin, Before, After, Watching
  <2>9. RunWithin(owner, w, r)
    BY <2>6, <2>7, <2>8 DEF RunWithin
  <2>10. QED
    BY <1>1, <1>2, <2>1, <2>4, <2>9, OrchQuota
<1>5. CASE Report(w, "failed") /\ UNCHANGED orchVars
  BY <1>1, <1>2, <1>5, ReportQuota DEF Outcomes, orchVars
<1>6. QED
  BY <1>4, <1>5 DEF Advance

(* The outcome of the goroutine reaches the orchestrator. *)
LEMMA ReportOutcomeQuota ==
  ASSUME IInv, Quotas, NEW w \in Workflows, ReportOutcome(w, TRUE)
  PROVE  Quotas'
<1> DEFINE r == [exec[w] EXCEPT !.at = "exit"]
<1>1. /\ exec[w] # None /\ exec[w].at = "report" /\ UNCHANGED <<launch, owner>>
      /\ exec' = [exec EXCEPT ![w] = r]
  BY DEF ReportOutcome, At, Goto
<1>2. exec[w] \in Run /\ RunWithin(owner, w, exec[w])
  BY <1>1 DEF IInv, Types, Quotas, Quota
<1>3. r.at = "exit" /\ r.todo = exec[w].todo
  BY <1>2 DEF Run
<1> HIDE DEF r
<1>4. RunWithin(owner, w, r)
  BY <1>2, <1>3, SameTodo
<1>5. exec'[w] = r /\ \A v \in Workflows \ {w} : exec'[v] = exec[v]
  BY <1>1 DEF IInv, Types
<1>6. CASE UNCHANGED orchVars
  BY <1>1, <1>4, <1>6, RunQuota DEF orchVars
<1>7. CASE /\ Orch!CanMove(w, exec[w].result)
           /\ IF exec[w].result = "cancelled" THEN Orch!CancelWorkflow(w, TRUE)
              ELSE Orch!Finish(w, exec[w].result, TRUE)
  <2>1. exec[w].result \in Orch!Terminal
    <3>1. active[w] # None /\ Orch!ValidateTransition(active[w].wf.status, exec[w].result)
      BY <1>7 DEF Orch!CanMove, Orch!IsActive
    <3>2. active[w].wf.status \in Orch!Status
      BY <3>1, EntryFields DEF Orch!Row
    <3>3. exec[w].result # "none"
      BY <3>1, <3>2 DEF Orch!ValidateTransition, Orch!ValidTransitions, Orch!Status
    <3>4. exec[w].result \in Outcomes \cup {"none"}
      BY <1>2 DEF Run
    <3>5. QED
      BY <3>3, <3>4 DEF Outcomes, Orch!Terminal
  <2>2. /\ active[w] # None /\ OrchElsewhere(w)
        /\ OrchOnce(store'[w], active'[w]) /\ ~Waits(store'[w])
    BY <1>7, <2>1, FinishOnce
  <2>3. QED
    BY <1>1, <1>4, <1>5, <2>2, OrchQuota
<1>8. QED
  BY <1>6, <1>7 DEF ReportOutcome

(* The operators. *)
LEMMA ByHandQuota ==
  ASSUME IInv, Quotas, NEW w \in Workflows,
         CancelByHand(w, TRUE) \/ \E s \in Steps : AdvanceByHand(w, s, TRUE)
  PROVE  Quotas'
<1>1. UNCHANGED <<exec, launch, owner>>
  BY DEF CancelByHand, AdvanceByHand
<1>2. /\ active[w] # None /\ OrchElsewhere(w)
      /\ OrchOnce(store'[w], active'[w]) /\ ~Waits(store'[w])
  BY FinishOnce, AdvanceOnce DEF CancelByHand, AdvanceByHand, Orch!Terminal
<1>3. exec[w] = None \/ RunWithin(owner, w, exec[w])
  BY DEF Quotas, Quota
<1>4. QED
  BY <1>1, <1>2, <1>3, OrchQuota

(* A shutdown ends every row that is in memory. *)
LEMMA ShutdownQuota ==
  ASSUME IInv, Quotas, Shutdown({})
  PROVE  Quotas'
<1>1. UNCHANGED <<exec, launch, owner>> /\ Orch!Shutdown({})
  BY DEF Shutdown
<1>2. ASSUME NEW w \in Workflows
      PROVE  Quota(owner, w, store'[w], active'[w], exec[w], launch[w])
  <2>1. Quota(owner, w, store[w], active[w], exec[w], launch[w])
    BY DEF Quotas
  <2>2. active'[w] = None
    BY <1>1 DEF Orch!Shutdown
  <2>3. CASE active[w] = None
    <3>1. store'[w] = store[w]
      BY <1>1, <2>3 DEF Orch!Shutdown, Orch!IsActive
    <3>2. QED
      BY <2>1, <2>2, <2>3, <3>1
  <2>4. CASE active[w] # None
    <3>1. store'[w] = [active[w].wf EXCEPT !.status = "cancelled"]
      BY <1>1, <2>4 DEF Orch!Shutdown, Orch!IsActive
    <3>2. store'[w] \in Orch!Row /\ store'[w].status = "cancelled"
      <4>1. active[w].wf \in Orch!Row
        BY <2>4, EntryFields
      <4>2. QED
        BY <3>1, <4>1 DEF Orch!Row, Orch!Status
    <3>3. OrchOnce(store'[w], active'[w]) /\ ~Waits(store'[w])
      BY <2>2, <3>2, EmptyAssumption DEF OrchOnce, Waits
    <3>4. QED
      BY <2>1, <3>3 DEF Quota
  <2>5. QED
    BY <2>3, <2>4
<1>3. QED
  BY <1>1, <1>2 DEF Quotas

(* Every step keeps the quotas while a workflow runs at most once. *)
LEMMA StepQuotas ==
  ASSUME RunsOnce
  PROVE  IInv /\ Quotas /\ [Next]_vars => Quotas'
<1> SUFFICES ASSUME IInv, Quotas, [Next]_vars PROVE Quotas'
  OBVIOUS
<1>1. Saves = {TRUE}
  BY DEF RunsOnce, Saves
<1>2. ASSUME NEW w \in Workflows, Proceed(w) PROVE Quotas'
  <2>1. CASE \E saved \in Saves : Advance(w, saved) \/ ReportOutcome(w, saved)
    BY <1>1, <2>1, AdvanceQuota, ReportOutcomeQuota
  <2>2. QED
    BY <1>2, <2>1, QuietQuota, SpawnQuota DEF Proceed
<1>3. ASSUME NEW w \in Workflows, SchedulerStart(w) PROVE Quotas'
  <2> DEFINE l == [at |-> "execute", snap |-> None, room |-> NoRoom]
  <2>1. /\ Orch!StartWorkflow(w) /\ UNCHANGED <<exec, owner>>
        /\ launch' = [launch EXCEPT ![w] = l]
    BY <1>3 DEF SchedulerStart
  <2>2. l.at = "execute"
    OBVIOUS
  <2> HIDE DEF l
  <2>3. launch'[w] = l /\ \A v \in Workflows \ {w} : launch'[v] = launch[v]
    BY <2>1 DEF IInv, Types
  <2>4. QED
    BY <2>1, <2>2, <2>3, StartQuota
<1>4. ASSUME NEW w \in Workflows, RPCStart(w) PROVE Quotas'
  BY <1>4, StartQuota DEF RPCStart
<1>5. ASSUME NEW w \in Workflows, Launching(w) PROVE Quotas'
  <2>1. launch[w] # None => launch[w].at = "execute"
    BY DEF Quotas, Quota
  <2>2. StartWorkflowExecution(w)
    BY <1>5, <2>1 DEF Launching, CommandRead, CommandWrite
  <2>3. QED
    BY <2>2, ExecutionQuota
<1>6. ASSUME NEW w \in Workflows, NEW room \in Rooms PROVE ~CommandStart(w, room)
  BY DEF RunsOnce, CommandStart
<1>7. ~Restart
  BY DEF RunsOnce, Restart
<1>8. ASSUME NEW lost \in SUBSET Workflows, Shutdown(lost) PROVE Quotas'
  <2>1. lost = {}
    BY <1>8 DEF RunsOnce, Shutdown
  <2>2. QED
    BY <1>8, <2>1, ShutdownQuota
<1>9. ASSUME UNCHANGED <<store, active, exec, launch, owner>> PROVE Quotas'
  BY <1>9 DEF Quotas
<1>10. ASSUME NEW i \in Instances,
              \/ ContainerExit(i) \/ DeleteDefinition(i)
              \/ \E by \in {"rpc", "delete"} : StopInstance(i, by)
       PROVE  Quotas'
  BY <1>9, <1>10 DEF ContainerExit, DeleteDefinition, StopInstance, orchVars
<1>11. ASSUME NEW c \in calls, FactoryStep(c) PROVE Quotas'
  BY <1>9, <1>11 DEF FactoryStep, orchVars
<1>12. CASE UNCHANGED vars
  BY <1>9, <1>12 DEF vars
<1>13. ASSUME NEW w \in Workflows, NEW saved \in Saves,
              CancelByHand(w, saved) \/ \E s \in Steps : AdvanceByHand(w, s, saved)
       PROVE  Quotas'
  BY <1>1, <1>13, ByHandQuota
<1>14. QED
  BY <1>2, <1>3, <1>4, <1>5, <1>6, <1>7, <1>8, <1>10, <1>11, <1>12, <1>13, CreateQuota, QuietQuota
  DEF Next

(* One execution of a step spawns at most one container for each attempt,  *)
(* or for each agent, if a workflow is executed at most once: without a    *)
(* restart, a lost write or the stale write of the start command.          *)
THEOREM RetriesSpawnWithinBounds ==
  ASSUME RunsOnce
  PROVE  Spec => []SpawnsAreBounded
<1>1. Init => Quotas
  <2> SUFFICES ASSUME Init PROVE Quotas
    OBVIOUS
  <2>1. /\ owner = [i \in Instances |-> None]
        /\ \A w \in Workflows : /\ store[w] = None /\ active[w] = None
                                /\ exec[w] = None /\ launch[w] = None
    BY DEF Init, Orch!Init
  <2>2. \A w \in Workflows, s \in Steps : None # <<w, s>>
    BY EmptyAssumption
  <2>3. \A w \in Workflows, s \in Steps : Given(owner, w, s) = {}
    BY <2>1, <2>2 DEF Given
  <2>4. \A w \in Workflows, s \in Steps : Within(owner, w, s, 0) /\ Within(owner, w, s, Limit(s))
    BY <2>3, FS_EmptySet, LimitType DEF Within
  <2>5. QED
    BY <2>1, <2>4 DEF Quotas, Quota, OrchOnce, Waits
<1>2. Quotas => SpawnsAreBounded
  BY DEF Quotas, Quota, Within, Given, Limit, Spawned, SpawnsAreBounded
<1>3. IInv /\ Quotas /\ [Next]_vars => Quotas'
  BY StepQuotas
<1>4. QED
  BY <1>1, <1>2, <1>3, InitInv, StepInv, PTL DEF Spec

-----------------------------------------------------------------------------
(* The row that the start command writes over whatever is stored by then. *)
WritesBack == \E w \in Workflows, saved \in BOOLEAN : CommandWrite(w, saved)

(* What a step does to the orchestrator and its rows. *)
OrchestratorMove == Orch!Next \/ WritesBack \/ UNCHANGED orchVars

(* The goroutine moves its workflow through the orchestrator's operations: *)
(* the step it advances is one of the template, and what it reports is one *)
(* of the three outcomes.                                                  *)
LEMMA ProceedUsesOrchestrator ==
  ASSUME IInv, NEW w \in Workflows, Proceed(w)
  PROVE  OrchestratorMove
<1>1. Saves \subseteq BOOLEAN
  BY DEF Saves
<1>2. ASSUME NEW saved \in Saves, Advance(w, saved) PROVE OrchestratorMove
  <2>1. exec[w] # None /\ exec[w].at = "advance"
    BY <1>2 DEF Advance, At
  <2>2. exec[w].todo \in Seq(Steps) /\ exec[w].todo # <<>>
    BY <2>1, RunFacts DEF RunOK, Busy
  <2>3. Head(exec[w].todo) \in Steps
    BY <2>2
  <2>4. UNCHANGED orchVars \/ Orch!AdvanceWorkflow(w, Head(exec[w].todo), saved)
    BY <1>2 DEF Advance
  <2> QED
    BY <1>1, <2>3, <2>4 DEF OrchestratorMove, Orch!Next
<1>3. ASSUME NEW saved \in Saves, ReportOutcome(w, saved) PROVE OrchestratorMove
  <2>1. exec[w] \in Run
    BY <1>3 DEF ReportOutcome, At, IInv, Types
  <2>2. exec[w].result \in Outcomes \cup {"none"}
    BY <2>1 DEF Run
  <2>3. CASE exec[w].result = "none"
    <3>1. Orch!CanMove(w, "none") => FALSE
      <4> SUFFICES ASSUME active[w] # None, Orch!ValidateTransition(active[w].wf.status, "none")
                   PROVE  FALSE
        BY DEF Orch!CanMove, Orch!IsActive
      <4>1. active[w].wf.status \in Orch!Status
        BY DEF IInv, Types, Orch!Entry, Orch!Row
      <4> QED
        BY <4>1 DEF Orch!ValidateTransition, Orch!ValidTransitions, Orch!Status
    <3> QED
      BY <1>3, <2>3, <3>1 DEF ReportOutcome, OrchestratorMove
  <2>4. CASE exec[w].result \in Outcomes
    BY <1>1, <1>3, <2>4
    DEF ReportOutcome, Outcomes, OrchestratorMove, Orch!Next, Orch!CompleteWorkflow,
        Orch!FailWorkflow
  <2> QED
    BY <2>2, <2>3, <2>4
<1>4. CASE \/ NextStep(w) \/ CheckApproval(w) \/ ExecuteStep(w) \/ SpawnFails(w) \/ Poll(w)
           \/ Polled(w) \/ WaitCancelled(w) \/ StopReturned(w) \/ Retry(w) \/ Exit(w)
           \/ \E tracked \in BOOLEAN : SpawnAgent(w, tracked)
  BY <1>4 DEF NextStep, CheckApproval, ExecuteStep, SpawnFails, SpawnAgent, Poll, Polled,
              WaitCancelled, StopReturned, Retry, Exit, OrchestratorMove
<1> QED
  BY <1>2, <1>3, <1>4 DEF Proceed

(* The executor, the handlers, a shutdown and a restart use the            *)
(* orchestrator only through its operations, except for the row that the   *)
(* start command writes by itself.                                         *)
THEOREM UsesOrchestrator ==
  Spec => Orch!Init /\ [][Orch!Next \/ WritesBack]_orchVars
<1>1. Init => Orch!Init
  BY DEF Init
<1>2. IInv /\ [Next]_vars => [Orch!Next \/ WritesBack]_orchVars
  <2> SUFFICES ASSUME IInv, [Next]_vars PROVE OrchestratorMove
    BY DEF OrchestratorMove
  <2>1. ASSUME NEW w \in Workflows,
               \/ CreateWorkflow(w) \/ SchedulerStart(w) \/ RPCStart(w)
               \/ \E room \in Rooms : CommandStart(w, room)
        PROVE  OrchestratorMove
    BY <2>1 DEF CreateWorkflow, SchedulerStart, RPCStart, CommandStart, OrchestratorMove, Orch!Next
  <2>2. Saves \subseteq BOOLEAN
    BY DEF Saves
  <2>3. ASSUME NEW w \in Workflows, Launching(w) PROVE OrchestratorMove
    BY <2>2, <2>3 DEF Launching, CommandRead, StartWorkflowExecution, OrchestratorMove, WritesBack
  <2>4. ASSUME NEW w \in Workflows, NEW saved \in Saves,
               CancelByHand(w, saved) \/ \E s \in Steps : AdvanceByHand(w, s, saved)
        PROVE  OrchestratorMove
    BY <2>2, <2>4 DEF CancelByHand, AdvanceByHand, OrchestratorMove, Orch!Next
  <2>5. ASSUME NEW w \in Workflows, CancelWorkflowExecution(w) \/ CancelAllForWorkflow(w)
        PROVE  OrchestratorMove
    BY <2>5 DEF CancelWorkflowExecution, CancelAllForWorkflow, OrchestratorMove
  <2>6. ASSUME NEW i \in Instances,
               \/ ContainerExit(i) \/ DeleteDefinition(i)
               \/ \E by \in {"rpc", "delete"} : StopInstance(i, by)
        PROVE  OrchestratorMove
    BY <2>6 DEF ContainerExit, DeleteDefinition, StopInstance, OrchestratorMove
  <2>7. ASSUME NEW c \in calls, FactoryStep(c) PROVE OrchestratorMove
    BY <2>7 DEF FactoryStep, OrchestratorMove
  <2>8. ASSUME NEW lost \in SUBSET Workflows, Shutdown(lost) PROVE OrchestratorMove
    BY <2>8 DEF Shutdown, OrchestratorMove, Orch!Next
  <2>9. CASE Restart
    BY <2>9 DEF Restart, OrchestratorMove, Orch!Next
  <2>10. CASE UNCHANGED vars
    BY <2>10 DEF vars, orchVars, OrchestratorMove
  <2> QED
    BY <2>1, <2>3, <2>4, <2>5, <2>6, <2>7, <2>8, <2>9, <2>10, ProceedUsesOrchestrator DEF Next
<1> QED
  BY <1>1, <1>2, InitInv, StepInv, PTL DEF Spec

(* No handler is about to write a row back. *)
NothingToWrite == \A w \in Workflows : launch[w] # None => launch[w].at = "execute"

(* Only the start command reads and writes rows itself. *)
LEMMA NothingToWriteStep ==
  ASSUME "command" \notin Environment
  PROVE  IInv /\ NothingToWrite /\ [Next]_vars => NothingToWrite'
<1> SUFFICES ASSUME IInv, NothingToWrite, [Next]_vars PROVE NothingToWrite'
  OBVIOUS
<1>1. launch \in [Workflows -> Launch \cup {None}]
  BY DEF IInv, Types
<1>2. CASE UNCHANGED launch
  BY <1>2 DEF NothingToWrite
<1>3. ASSUME NEW w \in Workflows, SchedulerStart(w) PROVE NothingToWrite'
  BY <1>1, <1>3 DEF SchedulerStart, NothingToWrite
<1>4. ASSUME NEW w \in Workflows, Launching(w) PROVE NothingToWrite'
  BY <1>1, <1>4 DEF Launching, CommandRead, CommandWrite, StartWorkflowExecution, NothingToWrite
<1>5. CASE Restart
  BY <1>1, <1>5 DEF Restart, NothingToWrite
<1>6. ASSUME NEW w \in Workflows, Proceed(w) PROVE UNCHANGED launch
  BY <1>6 DEF Proceed, NextStep, CheckApproval, ExecuteStep, SpawnFails, SpawnAgent, Poll, Polled,
              WaitCancelled, StopReturned, Retry, Advance, ReportOutcome, Exit
<1>7. ASSUME NEW w \in Workflows,
             \/ CreateWorkflow(w) \/ RPCStart(w) \/ CancelWorkflowExecution(w)
             \/ CancelAllForWorkflow(w)
             \/ \E saved \in Saves : \/ CancelByHand(w, saved)
                                     \/ \E s \in Steps : AdvanceByHand(w, s, saved)
      PROVE  UNCHANGED launch
  BY <1>7 DEF CreateWorkflow, RPCStart, CancelWorkflowExecution, CancelAllForWorkflow,
              CancelByHand, AdvanceByHand
<1>8. ASSUME \/ \E lost \in SUBSET Workflows : Shutdown(lost)
             \/ \E i \in Instances : \/ ContainerExit(i) \/ DeleteDefinition(i)
                                     \/ \E by \in {"rpc", "delete"} : StopInstance(i, by)
             \/ \E c \in calls : FactoryStep(c)
             \/ UNCHANGED vars
      PROVE  UNCHANGED launch
  BY <1>8 DEF Shutdown, ContainerExit, DeleteDefinition, StopInstance, FactoryStep, vars
<1> QED
  BY <1>2, <1>3, <1>4, <1>5, <1>6, <1>7, <1>8 DEF Next, CommandStart

(* Where workflows are started by the scheduler and the RPC only, the      *)
(* composition implements the specification of the orchestrator.           *)
THEOREM ImplementsOrchestrator ==
  ASSUME "command" \notin Environment
  PROVE  Spec => Orch!Spec
<1>1. Init => NothingToWrite
  BY DEF Init, NothingToWrite
<1>2. NothingToWrite => ~WritesBack
  BY DEF NothingToWrite, WritesBack, CommandWrite
<1>3. NothingToWrite /\ [Orch!Next \/ WritesBack]_orchVars => [Orch!Next]_(Orch!orchVars)
  BY <1>2 DEF Orch!orchVars, orchVars
<1> QED
  BY <1>1, <1>3, InitInv, StepInv, NothingToWriteStep, UsesOrchestrator, PTL DEF Spec, Orch!Spec

(* The theorems about the orchestrator, for the state it has here. *)
OrchProofs == INSTANCE WorkflowOrchestratorProofs

(* The operations are those the theorems are about. *)
LEMMA SameOrchestrator == OrchProofs!Init = Orch!Init /\ OrchProofs!Next = Orch!Next
<1>1. OrchProofs!Init = Orch!Init
  BY DEF OrchProofs!Init, Orch!Init
<1>2. OrchProofs!Next = Orch!Next
  BY DEF OrchProofs!Next, OrchProofs!CreateWorkflow, OrchProofs!StartWorkflow,
         OrchProofs!CompleteWorkflow, OrchProofs!FailWorkflow, OrchProofs!CancelWorkflow,
         OrchProofs!BlockWorkflow, OrchProofs!UnblockWorkflow, OrchProofs!AdvanceWorkflow,
         OrchProofs!Shutdown, OrchProofs!Restart, OrchProofs!Finish, OrchProofs!CanMove,
         OrchProofs!OnStep, OrchProofs!UpdateWorkflow, OrchProofs!Emit, OrchProofs!Remove,
         OrchProofs!NextStep, OrchProofs!IsActive, OrchProofs!Started, OrchProofs!Launched,
         OrchProofs!ValidateTransition, OrchProofs!ValidTransitions, OrchProofs!Status,
         Orch!Next, Orch!CreateWorkflow, Orch!StartWorkflow, Orch!CompleteWorkflow,
         Orch!FailWorkflow, Orch!CancelWorkflow, Orch!BlockWorkflow, Orch!UnblockWorkflow,
         Orch!AdvanceWorkflow, Orch!Shutdown, Orch!Restart, Orch!Finish, Orch!CanMove,
         Orch!OnStep, Orch!UpdateWorkflow, Orch!Emit, Orch!Remove, Orch!NextStep,
         Orch!IsActive, Orch!Started, Orch!Launched, Orch!ValidateTransition,
         Orch!ValidTransitions, Orch!Status
<1> QED
  BY <1>1, <1>2

(* They assume nothing that is not assumed here. *)
LEMMA OrchestratorAssumptions ==
  /\ OrchProofs!TemplateAssumption
  /\ OrchProofs!EmptyAssumption
  /\ OrchProofs!NoneAssumption
<1>1. OrchProofs!TemplateAssumption
  BY TemplateAssumption DEF OrchProofs!TemplateAssumption, OrchProofs!IsInjectiveSeq,
                            Orch!IsInjectiveSeq
<1>2. OrchProofs!EmptyAssumption
  BY EmptyAssumption DEF OrchProofs!EmptyAssumption
<1>3. OrchProofs!NoneAssumption
  BY EmptyAssumption DEF OrchProofs!NoneAssumption, OrchProofs!Row, OrchProofs!Entry,
                         OrchProofs!Status, Orch!Row, Orch!Entry, Orch!Status
<1> QED
  BY <1>1, <1>2, <1>3

(* So the theorems apply to the composition. *)
LEMMA SpecIsOrchProofs ==
  ASSUME "command" \notin Environment
  PROVE  Spec => OrchProofs!Spec
<1>1. [Orch!Next]_(Orch!orchVars) => [OrchProofs!Next]_(OrchProofs!orchVars)
  BY SameOrchestrator DEF Orch!orchVars, OrchProofs!orchVars
<1>2. Orch!Init => OrchProofs!Init
  BY SameOrchestrator
<1> QED
  BY <1>1, <1>2, ImplementsOrchestrator, PTL DEF Orch!Spec, OrchProofs!Spec

(* Whatever the executions, operators and schedulers do beside each other, *)
(* an active workflow has a live row, an announced outcome is stored, and  *)
(* the row claims no step that memory has not reached.  The start command  *)
(* is excluded: it may write back what it read before another operation.   *)
THEOREM ExecutionsKeepBooks ==
  ASSUME "command" \notin Environment
  PROVE  Spec => []/\ Orch!ActiveRowIsLive
                   /\ Orch!AnnouncedOutcomeIsStored
                   /\ Orch!StoredStepNotAhead
<1> USE OrchestratorAssumptions
    DEF OrchProofs!TemplateAssumption, OrchProofs!EmptyAssumption, OrchProofs!NoneAssumption
<1>1. OrchProofs!Spec => [](OrchProofs!TypeOK /\ OrchProofs!ActiveRowIsLive)
  BY OrchProofs!ActiveRowsAreLive
<1>2. OrchProofs!Spec => []OrchProofs!AnnouncedOutcomeIsStored
  BY OrchProofs!AnnouncedOutcome
<1>3. OrchProofs!Spec => []OrchProofs!StoredStepNotAhead
  BY OrchProofs!RowNeverAhead
<1>4. OrchProofs!ActiveRowIsLive => Orch!ActiveRowIsLive
  BY DEF OrchProofs!ActiveRowIsLive, OrchProofs!IsActive, Orch!ActiveRowIsLive, Orch!IsActive
<1>5. OrchProofs!AnnouncedOutcomeIsStored => Orch!AnnouncedOutcomeIsStored
  BY DEF OrchProofs!AnnouncedOutcomeIsStored, OrchProofs!IsActive,
         Orch!AnnouncedOutcomeIsStored, Orch!IsActive
<1>6. OrchProofs!StoredStepNotAhead => Orch!StoredStepNotAhead
  BY DEF OrchProofs!StoredStepNotAhead, OrchProofs!IsActive, OrchProofs!Position,
         Orch!StoredStepNotAhead, Orch!IsActive, Orch!Position
<1> QED
  BY <1>1, <1>2, <1>3, <1>4, <1>5, <1>6, SpecIsOrchProofs, PTL

(* Under the same condition no execution, retry, restart or lost write     *)
(* overwrites an outcome in the store, and a workflow in memory takes its  *)
(* steps one at a time.                                                    *)
THEOREM ExecutionsKeepOutcomes ==
  ASSUME "command" \notin Environment
  PROVE  Spec => Orch!OutcomeIsFinal /\ Orch!OneStepAtATime
<1> USE OrchestratorAssumptions
    DEF OrchProofs!TemplateAssumption, OrchProofs!EmptyAssumption, OrchProofs!NoneAssumption
<1>1. OrchProofs!Spec => OrchProofs!OutcomeIsFinal
  BY OrchProofs!OutcomesAreFinal
<1>2. OrchProofs!Spec => OrchProofs!OneStepAtATime
  BY OrchProofs!StepsAreNotSkipped
<1>3. OrchProofs!OutcomeIsFinal => Orch!OutcomeIsFinal
  BY DEF OrchProofs!OutcomeIsFinal, OrchProofs!orchVars, OrchProofs!Terminal,
         Orch!OutcomeIsFinal, Orch!orchVars, Orch!Terminal
<1>4. OrchProofs!OneStepAtATime => Orch!OneStepAtATime
  BY DEF OrchProofs!OneStepAtATime, OrchProofs!orchVars, OrchProofs!IsActive,
         OrchProofs!Position, Orch!OneStepAtATime, Orch!orchVars, Orch!IsActive, Orch!Position
<1> QED
  BY <1>1, <1>2, <1>3, <1>4, SpecIsOrchProofs
=============================================================================
