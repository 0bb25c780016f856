----------------------------- MODULE AgentFactory -----------------------------
(***************************************************************************)
(* AgentFactory of bridge/pkg/studio/factory.go and the handlers that stop *)
(* or delete instances: studio.stop_instance and studio.delete_agent       *)
(* (studio/rpc.go) and DeleteSecretaryAgent                                *)
(* (secretary/studio_integration.go): the rows of agent_instances and the  *)
(* Docker containers behind them.                                          *)
(*                                                                         *)
(* The factory has no lock.  A call reads the row, waits for Docker, then  *)
(* writes the row, and other calls run in between, so a call in progress   *)
(* is an element of calls.                                                 *)
(*                                                                         *)
(* studio.delete_agent deletes a definition, and the foreign key takes the *)
(* rows of its instances along.  It is modelled as one instance sees it:   *)
(* the check found no running row, and later this row is gone.             *)
(*                                                                         *)
(* Abstracted away: the rest of definitions, images, limits, mounts, PII   *)
(* sockets and state directories, and the second, pending row that         *)
(* studio.spawn_agent inserts and never gives a container.  container is   *)
(* Docker's state.                                                         *)
(***************************************************************************)
EXTENDS Integers, FiniteSets

CONSTANTS Instances     \* instance IDs; generateID never repeats one

VARIABLES
  row,         \* status in agent_instances; "none": no row yet
  container,   \* the container of each instance
  calls        \* calls in progress

factoryVars == <<row, container, calls>>

InstanceStatus == {"running", "completed", "failed", "cancelled"}

ContainerState == {"unused", "created", "running", "ok", "error", "removed"}

(* Who stops: waitForCompletion, CancelStep, the RPC, the Matrix command.  *)
Stoppers == {"executor", "cancel", "rpc", "delete"}

(* Who inspects: GetStatus for waitForCompletion, and CleanupStale. *)
Pollers == {"status", "cleanup"}

(* at: what the call does next; "completed" and "failed" are the status    *)
(* that an inspection, or Kill, is about to write.                         *)
Call == [inst : Instances, by : Stoppers, at : {"stop", "save", "mark", "remove", "forget"}]
          \cup [inst : Instances, by : Pollers \cup {"kill"}, at : {"completed", "failed"}]
          \cup [inst : Instances, by : {"definition"}, at : {"cascade"}]

(* A row that is not there: not yet, deleted by Remove, or deleted with    *)
(* its definition.                                                         *)
NoRow == {"none", "deleted", "cascaded"}

FactoryTypeOK ==
  /\ row \in [Instances -> InstanceStatus \cup NoRow]
  /\ container \in [Instances -> ContainerState]
  /\ calls \subseteq Call

FactoryInit ==
  /\ row = [i \in Instances |-> "none"]
  /\ container = [i \in Instances |-> "unused"]
  /\ calls = {}

-----------------------------------------------------------------------------
Known(i) == row[i] \notin NoRow

(* UpdateInstance: fails when there is no row, or when the store does. *)
UpdateInstance(i, status, saved) ==
  row' = IF saved /\ Known(i) THEN [row EXCEPT ![i] = status] ELSE row

(* The container runs even when its row could not be created, for which it *)
(* is enough that the definition is deleted meanwhile.                     *)
Spawn(i, tracked) ==
  /\ container[i] = "unused"
  /\ container' = [container EXCEPT ![i] = "running"]
  /\ row' = IF tracked THEN [row EXCEPT ![i] = "running"] ELSE row
  /\ UNCHANGED calls

(* ContainerStart failed, and so did the removal with the same context.    *)
SpawnLeaks(i) ==
  /\ container[i] = "unused"
  /\ container' = [container EXCEPT ![i] = "created"]
  /\ UNCHANGED <<row, calls>>

(* The agent's process ends by itself. *)
ContainerEnds(i, code) ==
  /\ container[i] = "running"
  /\ container' = [container EXCEPT ![i] = code]
  /\ UNCHANGED <<row, calls>>

(* What GetStatus returns; an inspection fails when the container was      *)
(* removed, and also when Docker cannot be reached.                        *)
Observed(i, reachable) ==
  CASE row[i] # "running" -> row[i]
    [] ~reachable \/ container[i] = "removed" -> "failed"
    [] container[i] = "running" -> "running"
    [] container[i] = "ok" -> "completed"
    [] OTHER -> "failed"

Calling(i, by) == \E c \in calls : c.inst = i /\ c.by = by

(* GetStatus, and each iteration of CleanupStale, of an instance whose row *)
(* says running and whose container does not.  Otherwise they change       *)
(* nothing.                                                                *)
Inspect(i, by, reachable) ==
  /\ row[i] = "running" /\ Observed(i, reachable) # "running"
  /\ ~Calling(i, by)
  /\ calls' = calls \cup {[inst |-> i, by |-> by, at |-> Observed(i, reachable)]}
  /\ UNCHANGED <<row, container>>

(* No status check: Docker refuses to kill what does not run. *)
Kill(i) ==
  /\ Known(i) /\ container[i] = "running" /\ ~Calling(i, "kill")
  /\ container' = [container EXCEPT ![i] = "error"]
  /\ calls' = calls \cup {[inst |-> i, by |-> "kill", at |-> "failed"]}
  /\ UNCHANGED row

(* handleDeleteAgent lists the running rows of the definition, and goes on *)
(* if there is none.  The row of i may be inserted after that.             *)
CheckRunning(i) ==
  /\ row[i] # "running" /\ ~Calling(i, "definition")
  /\ calls' = calls \cup {[inst |-> i, by |-> "definition", at |-> "cascade"]}
  /\ UNCHANGED <<row, container>>

-----------------------------------------------------------------------------
Move(c, at) == calls' = (calls \ {c}) \cup {[c EXCEPT !.at = at]}

Return(c) == calls' = calls \ {c}

(* A handler calls Stop; handleStopInstance first checks the row itself.   *)
StopCall(i, by) ==
  /\ container[i] # "unused"
  /\ by = "rpc" => row[i] = "running"
  /\ ~Calling(i, by)
  /\ calls' = calls \cup {[inst |-> i, by |-> by, at |-> "stop"]}
  /\ UNCHANGED <<row, container>>

(* GetStatus and CleanupStale ignore the result of this write, and after   *)
(* it Kill has nothing left to do.                                         *)
WriteObserved(c, saved) ==
  /\ c \in calls /\ c.at \in {"completed", "failed"}
  /\ UpdateInstance(c.inst, c.at, saved)
  /\ Return(c)
  /\ UNCHANGED container

(* Mutant: DeleteSecretaryAgent, too, goes on after an error of Stop. *)
StopErrorIgnored(c) ==
  CASE c.by = "rpc" -> Move(c, "mark")
    [] c.by = "delete" -> Move(c, "remove")
    [] OTHER -> Return(c)

(* handleStopInstance logs an error of Stop and goes on. *)
StopError(c) == IF c.by = "rpc" THEN Move(c, "mark") ELSE Return(c)

(* Mutant: an error of ContainerStop is ignored. *)
StopContainerUnchecked(c, stopped, code) ==
  /\ c \in calls /\ c.at = "stop"
  /\ IF row[c.inst] = "running"
     THEN /\ container' = [container EXCEPT ![c.inst] =
                             IF @ = "running" /\ stopped THEN code ELSE @]
          /\ Move(c, "save")
     ELSE StopError(c) /\ UNCHANGED container
  /\ UNCHANGED row

(* Stop refuses an instance whose row is not running, and gives up when    *)
(* Docker does; a stopped container exits with some code.                  *)
StopContainer(c, stopped, code) ==
  /\ c \in calls /\ c.at = "stop"
  /\ IF row[c.inst] = "running" /\ stopped /\ container[c.inst] # "removed"
     THEN /\ container' = [container EXCEPT ![c.inst] = IF @ = "running" THEN code ELSE @]
          /\ Move(c, "save")
     ELSE StopError(c) /\ UNCHANGED container
  /\ UNCHANGED row

StopSave(c, saved) ==
  /\ c \in calls /\ c.at = "save"
  /\ UpdateInstance(c.inst, "completed", saved)
  /\ CASE c.by = "rpc" -> Move(c, "mark")
       [] c.by = "delete" /\ saved /\ Known(c.inst) -> Move(c, "remove")
       [] OTHER -> Return(c)
  /\ UNCHANGED container

(* handleStopInstance: the row becomes cancelled whatever Stop returned.   *)
StopMark(c, saved) ==
  /\ c \in calls /\ c.at = "mark"
  /\ UpdateInstance(c.inst, "cancelled", saved)
  /\ Return(c)
  /\ UNCHANGED container

(* Remove: an error of Docker is ignored, and Docker refuses to remove a   *)
(* running container without force ...                                     *)
Remove(c, removed) ==
  LET i == c.inst IN
  /\ c \in calls /\ c.at = "remove"
  /\ IF Known(i)
     THEN /\ container' = [container EXCEPT ![i] =
               IF removed /\ (@ # "running" \/ row[i] = "running") THEN "removed" ELSE @]
          /\ Move(c, "forget")
     ELSE Return(c) /\ UNCHANGED container
  /\ UNCHANGED row

(* ... then the row is deleted, if it is still there and the store does it. *)
DeleteInstance(c, deleted) ==
  /\ c \in calls /\ c.at = "forget"
  /\ row' = IF deleted /\ Known(c.inst) THEN [row EXCEPT ![c.inst] = "deleted"] ELSE row
  /\ Return(c)
  /\ UNCHANGED container

(* DeleteDefinition deletes the row, whatever it says by now; the container *)
(* is left as it is.                                                       *)
Cascade(c, deleted) ==
  /\ c \in calls /\ c.at = "cascade"
  /\ row' = IF deleted /\ Known(c.inst) THEN [row EXCEPT ![c.inst] = "cascaded"] ELSE row
  /\ Return(c)
  /\ UNCHANGED container

CallStep(c) ==
  \/ \E saved \in BOOLEAN : WriteObserved(c, saved)
  \/ \E stopped \in BOOLEAN, code \in {"ok", "error"} : StopContainer(c, stopped, code)
  \/ \E saved \in BOOLEAN : StopSave(c, saved) \/ StopMark(c, saved)
  \/ \E removed \in BOOLEAN : Remove(c, removed)
  \/ \E deleted \in BOOLEAN : DeleteInstance(c, deleted) \/ Cascade(c, deleted)

(* The bridge dies: the calls are gone, rows and containers stay. *)
FactoryRestart ==
  /\ calls' = {}
  /\ UNCHANGED <<row, container>>

FactoryNext ==
  \/ \E i \in Instances :
       \/ \E tracked \in BOOLEAN : Spawn(i, tracked)
       \/ SpawnLeaks(i)
       \/ \E code \in {"ok", "error"} : ContainerEnds(i, code)
       \/ \E by \in Pollers, reachable \in BOOLEAN : Inspect(i, by, reachable)
       \/ Kill(i)
       \/ CheckRunning(i)
       \/ \E by \in Stoppers : StopCall(i, by)
  \/ \E c \in calls : CallStep(c)
  \/ FactoryRestart

FactorySpec == FactoryInit /\ [][FactoryNext]_factoryVars

-----------------------------------------------------------------------------
Stopped == {"ok", "error", "removed"}

(* A row says completed only when the container has ended: Stop writes     *)
(* after Docker confirmed, GetStatus after an inspection, and no stale     *)
(* write of a slower call can make it untrue.                              *)
CompletedMeansStopped ==
  \A i \in Instances : row[i] = "completed" => container[i] \in Stopped

(* Deleting an agent through the factory never loses a container: once     *)
(* Remove has deleted the row the container does not run, although Remove  *)
(* does not force the removal and ignores Docker's refusal, and although   *)
(* other calls write the row, kill the container or delete the definition  *)
(* in between.  It says nothing of a row that went with its definition:    *)
(* studio.delete_agent asks only the rows, so it leaves a container behind *)
(* whose row was marked cancelled or failed while it ran, or was inserted  *)
(* after the check.                                                        *)
DeletedMeansStopped ==
  \A i \in Instances : row[i] = "deleted" => container[i] \in Stopped
=============================================================================
