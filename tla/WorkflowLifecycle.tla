-------------------------- MODULE WorkflowLifecycle --------------------------
(***************************************************************************)
(* What the secretary promises about the persisted status of a workflow.   *)
(*                                                                         *)
(* A workflow row is created pending, leaves pending only by starting,     *)
(* alternates between running and blocked while it is live, and ends in    *)
(* one of three outcomes that are final.  The promise is about the row in  *)
(* the store, the only copy that survives a crash of the bridge: it is     *)
(* weaker than the table in validateTransition, because the row may lag    *)
(* behind the copy in memory when a write is lost, and stronger than it,   *)
(* because no crash, lost write or shutdown may undo an outcome.           *)
(***************************************************************************)
CONSTANT Workflows

VARIABLE status

Absent   == "absent"
Pending  == "pending"
Live     == {"running", "blocked"}
Outcomes == {"completed", "failed", "cancelled"}

Init == status = [w \in Workflows |-> Absent]

Create(w) ==
  /\ status[w] = Absent
  /\ status' = [status EXCEPT ![w] = Pending]

Begin(w) ==
  /\ status[w] = Pending
  /\ status' = [status EXCEPT ![w] = "running"]

(* Several live rows may move in one step: a shutdown cancels all of them. *)
Progress ==
  /\ status' \in [Workflows -> {Absent, Pending} \cup Live \cup Outcomes]
  /\ \A w \in Workflows :
       status'[w] # status[w] =>
         /\ status[w] \in Live
         /\ status'[w] \in Live \cup Outcomes

Next == Progress \/ \E w \in Workflows : Create(w) \/ Begin(w)

Spec == Init /\ [][Next]_status
=============================================================================
