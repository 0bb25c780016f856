------------------------- MODULE WorkflowOrchestrator -------------------------
(***************************************************************************)
(* WorkflowOrchestratorImpl of bridge/pkg/secretary/orchestrator.go: the   *)
(* map of active workflows kept in memory, the row of each workflow in the *)
(* store, and the operations that move both.                               *)
(*                                                                         *)
(* Every operation holds o.mu for its whole duration, so each is one       *)
(* action.  A write to the store may fail; the parameter saved says        *)
(* whether this one succeeded.  An operation that returns an error and     *)
(* changes nothing is a stuttering step and has no action.                 *)
(*                                                                         *)
(* Abstracted away: names, descriptions, variables, timestamps and error   *)
(* texts of a workflow, and the progress fractions of the events.          *)
(***************************************************************************)
EXTENDS Integers, Sequences, FiniteSets, TLC

CONSTANTS
  Workflows,    \* workflow IDs
  Steps,        \* step IDs
  Rooms,        \* Matrix room IDs
  Template,     \* Template[w]: the step IDs of w's template, in slice order
  FirstOrder,   \* FirstOrder[w]: the Order field of the first of them
  NoStep,       \* the empty CurrentStep
  NoRoom,       \* the empty RoomID
  None          \* no row in the store, no entry in activeWorkflows

IsInjectiveSeq(s) == \A i, j \in DOMAIN s : s[i] = s[j] => i = j

ASSUME TemplateAssumption ==
  /\ Template \in [Workflows -> Seq(Steps)]
  /\ \A w \in Workflows : IsInjectiveSeq(Template[w])
  /\ FirstOrder \in [Workflows -> Nat]

ASSUME EmptyAssumption == NoStep \notin Steps /\ NoRoom \notin Rooms

Status == {"pending", "running", "blocked", "completed", "failed", "cancelled"}

Terminal == {"completed", "failed", "cancelled"}

(* Mutant: a failed workflow may be started again. *)
ValidTransitionsReopen ==
  [from \in Status |->
     CASE from \in {"pending", "failed"} -> {"running", "cancelled"}
       [] from = "running" -> {"completed", "failed", "cancelled", "blocked"}
       [] from = "blocked" -> {"running", "failed", "cancelled"}
       [] OTHER -> {}]

ValidTransitions ==
  [from \in Status |->
     CASE from = "pending" -> {"running", "cancelled"}
       [] from = "running" -> {"completed", "failed", "cancelled", "blocked"}
       [] from = "blocked" -> {"running", "failed", "cancelled"}
       [] OTHER -> {}]

ValidateTransition(from, to) == from = to \/ to \in ValidTransitions[from]

Row == [status : Status, step : Steps \cup {NoStep}, room : Rooms \cup {NoRoom}]

Entry == [wf : Row, index : Nat]

ASSUME NoneAssumption == None \notin Row /\ None \notin Entry

VARIABLES
  store,      \* the workflows table: a row, or None, for each ID
  active,     \* activeWorkflows: an entry, or None, for each ID
  ctxDone,    \* o.ctx has been cancelled by Shutdown
  announced   \* the last lifecycle event emitted for each workflow

orchVars == <<store, active, ctxDone, announced>>

Events == {"none", "started", "blocked", "completed", "failed", "cancelled"}

TypeOK ==
  /\ store \in [Workflows -> Row \cup {None}]
  /\ active \in [Workflows -> Entry \cup {None}]
  /\ ctxDone \in BOOLEAN
  /\ announced \in [Workflows -> Events]

Init ==
  /\ store = [w \in Workflows |-> None]
  /\ active = [w \in Workflows |-> None]
  /\ ctxDone = FALSE
  /\ announced = [w \in Workflows |-> "none"]

-----------------------------------------------------------------------------
IsActive(w) == active[w] # None

(* UpdateWorkflow: the whole row is overwritten, or nothing is. *)
UpdateWorkflow(w, wf, saved) ==
  store' = IF saved THEN [store EXCEPT ![w] = wf] ELSE store

Emit(w, event) == announced' = [announced EXCEPT ![w] = event]

Remove(w) == active' = [active EXCEPT ![w] = None]

(* The step after s in the template's slice; NoStep when s is the last. *)
NextStep(w, s) ==
  IF \E i \in DOMAIN Template[w] : Template[w][i] = s /\ i + 1 \in DOMAIN Template[w]
  THEN Template[w][(CHOOSE i \in DOMAIN Template[w] : Template[w][i] = s) + 1]
  ELSE NoStep

(* GetWorkflow: the copy in memory if there is one, else the row. *)
Current(w) == IF IsActive(w) THEN active[w].wf ELSE store[w]

-----------------------------------------------------------------------------
(* A new workflow is inserted pending, without a room. *)
CreateWorkflow(w) ==
  /\ store[w] = None
  /\ store' = [store EXCEPT ![w] = [status |-> "pending", step |-> NoStep, room |-> NoRoom]]
  /\ UNCHANGED <<active, ctxDone, announced>>

Started(w) ==
  [store[w] EXCEPT !.status = "running",
                   !.step = IF Template[w] = <<>> THEN @ ELSE Template[w][1]]

(* The entry that StartWorkflow puts into activeWorkflows. *)
Launched(w, index) == [active EXCEPT ![w] = [wf |-> Started(w), index |-> index]]

(* Mutant: the status of the row is not validated. *)
StartWorkflowUnchecked(w) ==
  /\ ~IsActive(w) /\ store[w] # None
  /\ UpdateWorkflow(w, Started(w), TRUE)
  /\ active' = Launched(w, 0)
  /\ Emit(w, "started")
  /\ UNCHANGED ctxDone

(* Mutant: an active workflow may be started. *)
StartWorkflowTwice(w) ==
  /\ store[w] # None /\ ValidateTransition(store[w].status, "running")
  /\ UpdateWorkflow(w, Started(w), TRUE)
  /\ active' = Launched(w, 0)
  /\ Emit(w, "started")
  /\ UNCHANGED ctxDone

(* A failed write leaves everything as it was: only success has an action. *)
StartWorkflow(w) ==
  /\ ~IsActive(w)
  /\ store[w] # None
  /\ ValidateTransition(store[w].status, "running")
  /\ UpdateWorkflow(w, Started(w), TRUE)
  /\ active' = Launched(w, IF Template[w] = <<>> THEN 0 ELSE FirstOrder[w])
  /\ Emit(w, "started")
  /\ UNCHANGED ctxDone

(* The workflow is active and may move to this status. *)
CanMove(w, to) == IsActive(w) /\ ValidateTransition(active[w].wf.status, to)

(* Mutant: the entry stays in activeWorkflows. *)
FinishKeepsEntry(w, outcome, saved) ==
  LET wf == [active[w].wf EXCEPT !.status = outcome] IN
  /\ CanMove(w, outcome)
  /\ UpdateWorkflow(w, wf, saved)
  /\ active' = [active EXCEPT ![w].wf = wf]
  /\ IF saved THEN Emit(w, outcome) ELSE UNCHANGED announced
  /\ UNCHANGED ctxDone

(* Mutant: the error of the write is ignored, as CancelWorkflow does. *)
FinishIgnoresError(w, outcome, saved) ==
  /\ CanMove(w, outcome)
  /\ UpdateWorkflow(w, [active[w].wf EXCEPT !.status = outcome], saved)
  /\ Remove(w) /\ Emit(w, outcome)
  /\ UNCHANGED ctxDone

(* completeWorkflowLocked, FailWorkflow: the status in memory changes      *)
(* before the write; if the write fails the entry stays, already terminal. *)
Finish(w, outcome, saved) ==
  LET wf == [active[w].wf EXCEPT !.status = outcome] IN
  /\ CanMove(w, outcome)
  /\ UpdateWorkflow(w, wf, saved)
  /\ IF saved
     THEN Remove(w) /\ Emit(w, outcome)
     ELSE active' = [active EXCEPT ![w].wf = wf] /\ UNCHANGED announced
  /\ UNCHANGED ctxDone

CompleteWorkflow(w, saved) == Finish(w, "completed", saved)

FailWorkflow(w, saved) == Finish(w, "failed", saved)

(* The workflow runs and s is its current step. *)
OnStep(w, s) ==
  /\ IsActive(w)
  /\ active[w].wf.status = "running"
  /\ Template[w] # <<>>
  /\ active[w].wf.step = s

(* Mutant: the row moves on and the copy in memory does not. *)
AdvanceRowOnly(w, s, saved) ==
  /\ OnStep(w, s)
  /\ IF NextStep(w, s) = NoStep
     THEN CompleteWorkflow(w, saved)
     ELSE /\ UpdateWorkflow(w, [active[w].wf EXCEPT !.step = NextStep(w, s)], saved)
          /\ UNCHANGED <<active, ctxDone, announced>>

(* Past the last step, advancing completes the workflow.  Otherwise the    *)
(* copy in memory moves on even when the write fails.                      *)
AdvanceWorkflow(w, s, saved) ==
  /\ OnStep(w, s)
  /\ IF NextStep(w, s) = NoStep
     THEN CompleteWorkflow(w, saved)
     ELSE LET wf == [active[w].wf EXCEPT !.step = NextStep(w, s)] IN
          /\ UpdateWorkflow(w, wf, saved)
          /\ active' = [active EXCEPT ![w] = [wf |-> wf, index |-> @.index + 1]]
          /\ UNCHANGED <<ctxDone, announced>>

(* The result of the write is ignored: the workflow is dropped and its     *)
(* cancellation announced either way.                                      *)
CancelWorkflow(w, saved) ==
  /\ CanMove(w, "cancelled")
  /\ UpdateWorkflow(w, [active[w].wf EXCEPT !.status = "cancelled"], saved)
  /\ Remove(w)
  /\ Emit(w, "cancelled")
  /\ UNCHANGED ctxDone

BlockWorkflow(w, saved) ==
  LET wf == [active[w].wf EXCEPT !.status = "blocked"] IN
  /\ CanMove(w, "blocked")
  /\ UpdateWorkflow(w, wf, saved)
  /\ active' = [active EXCEPT ![w].wf = wf]
  /\ Emit(w, "blocked")
  /\ UNCHANGED ctxDone

UnblockWorkflow(w, saved) ==
  LET wf == [active[w].wf EXCEPT !.status = "running"] IN
  /\ CanMove(w, "running")
  /\ UpdateWorkflow(w, wf, saved)
  /\ active' = [active EXCEPT ![w].wf = wf]
  /\ UNCHANGED <<ctxDone, announced>>

(* Every active workflow is marked cancelled without validating the        *)
(* transition; the writes in lost fail and are ignored.                    *)
Shutdown(lost) ==
  /\ ctxDone' = TRUE
  /\ store' = [w \in Workflows |->
                 IF IsActive(w) /\ w \notin lost
                 THEN [active[w].wf EXCEPT !.status = "cancelled"]
                 ELSE store[w]]
  /\ announced' = [w \in Workflows |-> IF IsActive(w) THEN "cancelled" ELSE announced[w]]
  /\ active' = [w \in Workflows |-> None]

(* The bridge dies and a new process builds a new orchestrator: the store  *)
(* is all that is left.                                                    *)
Restart ==
  /\ active' = [w \in Workflows |-> None]
  /\ ctxDone' = FALSE
  /\ UNCHANGED <<store, announced>>

Next ==
  \/ \E w \in Workflows :
       \/ CreateWorkflow(w)
       \/ StartWorkflow(w)
       \/ \E saved \in BOOLEAN :
            \/ CompleteWorkflow(w, saved)
            \/ FailWorkflow(w, saved)
            \/ CancelWorkflow(w, saved)
            \/ BlockWorkflow(w, saved)
            \/ UnblockWorkflow(w, saved)
            \/ \E s \in Steps : AdvanceWorkflow(w, s, saved)
  \/ \E lost \in SUBSET Workflows : Shutdown(lost)
  \/ Restart

Spec == Init /\ [][Next]_orchVars

-----------------------------------------------------------------------------
(* Position of a step in a template, 0 for NoStep. *)
Position(w, s) ==
  IF s \in {Template[w][i] : i \in DOMAIN Template[w]}
  THEN CHOOSE i \in DOMAIN Template[w] : Template[w][i] = s
  ELSE 0

(* While a workflow is in activeWorkflows its row is live: an operation    *)
(* that writes an outcome also removes the entry, so no active workflow    *)
(* can still be moved after its outcome reached the store.                 *)
ActiveRowIsLive ==
  \A w \in Workflows :
    IsActive(w) => store[w] # None /\ store[w].status \in {"running", "blocked"}

(* EmitCompleted and EmitFailed come after the write: a user is told of    *)
(* completion or failure only when the row says the same, for ever after,  *)
(* whatever crashes, restarts or lost writes follow.                       *)
AnnouncedOutcomeIsStored ==
  \A w \in Workflows :
    announced[w] \in {"completed", "failed"} =>
      store[w] # None /\ store[w].status = announced[w] /\ ~IsActive(w)

(* The row never claims a step that memory has not reached: a lost write   *)
(* makes the row lag, and a restart therefore never skips a step.          *)
StoredStepNotAhead ==
  \A w \in Workflows :
    IsActive(w) => Position(w, store[w].step) <= Position(w, active[w].wf.step)

(* An outcome in the store is never overwritten. *)
OutcomeIsFinal ==
  [][\A w \in Workflows :
       store[w] # None /\ store[w].status \in Terminal => store'[w] = store[w]]_orchVars

(* A workflow in memory moves through its template one step at a time.     *)
OneStepAtATime ==
  [][\A w \in Workflows :
       IsActive(w) /\ active'[w] # None =>
         Position(w, active'[w].wf.step) - Position(w, active[w].wf.step) \in {0, 1}]_orchVars

(* The persisted status implements the abstract lifecycle. *)
Lifecycle ==
  INSTANCE WorkflowLifecycle
    WITH status <- [w \in Workflows |-> IF store[w] = None THEN "absent" ELSE store[w].status]

ImplementsLifecycle == Lifecycle!Spec
=============================================================================
