---------------------- MODULE WorkflowOrchestratorProofs ----------------------
(***************************************************************************)
(* Theorems about WorkflowOrchestrator for every set of workflows, steps   *)
(* and rooms and every template.  The inductive invariant is TypeOK and    *)
(* ActiveRowIsLive: an entry in activeWorkflows implies a live row.        *)
(***************************************************************************)
EXTENDS WorkflowOrchestrator, TLAPS

(* A template that is not empty has a first step, and what follows a step  *)
(* is a step or NoStep.                                                    *)
LEMMA TemplateSteps ==
  ASSUME NEW w \in Workflows
  PROVE  /\ Template[w] # <<>> => Template[w][1] \in Steps
         /\ \A s \in Steps : NextStep(w, s) \in Steps \cup {NoStep}
<1>1. Template[w] \in Seq(Steps)
  BY TemplateAssumption
<1>2. Template[w] # <<>> => Template[w][1] \in Steps
  BY <1>1
<1>3. ASSUME NEW s \in Steps,
             \E i \in DOMAIN Template[w] : Template[w][i] = s /\ i + 1 \in DOMAIN Template[w]
      PROVE  Template[w][(CHOOSE i \in DOMAIN Template[w] : Template[w][i] = s) + 1] \in Steps
  <2>1. PICK k \in DOMAIN Template[w] : Template[w][k] = s /\ k + 1 \in DOMAIN Template[w]
    BY <1>3
  <2>2. (CHOOSE i \in DOMAIN Template[w] : Template[w][i] = s) = k
    BY <2>1, TemplateAssumption DEF IsInjectiveSeq
  <2>3. Template[w][k + 1] \in Steps
    BY <1>1, <2>1
  <2>4. QED
    BY <2>2, <2>3
<1>4. QED
  BY <1>2, <1>3 DEF NextStep

(* An entry holds a row and an index, and changing the status of a row     *)
(* to another status gives a row.                                          *)
LEMMA EntryFields ==
  ASSUME TypeOK, NEW w \in Workflows, IsActive(w)
  PROVE  /\ active[w] \in Entry
         /\ active[w].wf \in Row
         /\ active[w].index \in Nat
         /\ \A st \in Status : [active[w].wf EXCEPT !.status = st] \in Row
         /\ \A st \in Status : [active[w].wf EXCEPT !.status = st].status = st
<1>1. active[w] \in Entry
  BY DEF TypeOK, IsActive
<1>2. active[w].wf \in Row /\ active[w].index \in Nat
  BY <1>1 DEF Entry
<1>3. QED
  BY <1>1, <1>2 DEF Row

-----------------------------------------------------------------------------
LiveStatus == {"running", "blocked"}

(* Only workflow w moves, and what it moves to is well typed. *)
MovesOnly(w) ==
  /\ store' = [store EXCEPT ![w] = store'[w]]
  /\ active' = [active EXCEPT ![w] = active'[w]]
  /\ announced' = [announced EXCEPT ![w] = announced'[w]]
  /\ ctxDone' = ctxDone
  /\ store'[w] \in Row
  /\ active'[w] \in Entry \cup {None}
  /\ announced'[w] \in Events

(* The four kinds of move of a workflow that the invariants tell apart:    *)
(* its row is created, it starts, it stays active, it leaves the map.      *)
IsCreated(w) ==
  /\ store[w] = None /\ store'[w].status = "pending"
  /\ active'[w] = active[w] /\ announced'[w] = announced[w]

Starts(w) ==
  /\ store[w] # None /\ store[w].status \in LiveStatus \cup {"pending"}
  /\ store'[w].status = "running"
  /\ active'[w] # None /\ announced'[w] = "started"

StaysActive(w) ==
  /\ IsActive(w) /\ active'[w] # None
  /\ store'[w].status \in LiveStatus
  /\ announced'[w] \in {announced[w], "blocked"}

Leaves(w) ==
  /\ IsActive(w) /\ active'[w] = None
  /\ store'[w].status \in LiveStatus \cup Terminal
  /\ announced'[w] \in Terminal
  /\ announced'[w] \in {"completed", "failed"} => store'[w].status = announced'[w]

Moves(w) == MovesOnly(w) /\ (IsCreated(w) \/ Starts(w) \/ StaysActive(w) \/ Leaves(w))

(* The row of an active workflow, from the invariant. *)
LEMMA ActiveRow ==
  ASSUME TypeOK, ActiveRowIsLive, NEW w \in Workflows, IsActive(w)
  PROVE  store[w] \in Row /\ store[w].status \in LiveStatus
BY DEF ActiveRowIsLive, TypeOK, LiveStatus

(* A new row. *)
LEMMA CreateMoves ==
  ASSUME TypeOK, NEW w \in Workflows, CreateWorkflow(w)
  PROVE  Moves(w)
<1>1. store'[w] = [status |-> "pending", step |-> NoStep, room |-> NoRoom]
  BY DEF CreateWorkflow, TypeOK
<1>2. store'[w] \in Row /\ store'[w].status = "pending"
  BY <1>1 DEF Row, Status
<1>3. QED
  BY <1>1, <1>2 DEF CreateWorkflow, Moves, MovesOnly, IsCreated, TypeOK

(* A start makes the row and the entry running. *)
LEMMA StartMoves ==
  ASSUME TypeOK, NEW w \in Workflows, StartWorkflow(w)
  PROVE  Moves(w)
<1>1. store[w] \in Row
  BY DEF StartWorkflow, TypeOK
<1>2. store[w].status \in LiveStatus \cup {"pending"}
  <2>1. store[w].status \in Status
    BY <1>1 DEF Row
  <2>2. ValidateTransition(store[w].status, "running")
    BY DEF StartWorkflow
  <2>3. QED
    BY <2>1, <2>2 DEF ValidateTransition, ValidTransitions, Status, LiveStatus
<1>3. Started(w) \in Row /\ Started(w).status = "running"
  BY <1>1, TemplateSteps DEF Started, Row, Status
<1>4. [wf |-> Started(w), index |-> IF Template[w] = <<>> THEN 0 ELSE FirstOrder[w]] \in Entry
  BY <1>3, TemplateAssumption DEF Entry
<1>5. active' = [active EXCEPT ![w] =
                   [wf |-> Started(w), index |-> IF Template[w] = <<>> THEN 0 ELSE FirstOrder[w]]]
  BY DEF StartWorkflow, Launched
<1>6. active'[w] \in Entry /\ active'[w] # None
  BY <1>4, <1>5, NoneAssumption DEF TypeOK
<1>7. QED
  BY <1>1, <1>2, <1>3, <1>5, <1>6
     DEF StartWorkflow, UpdateWorkflow, Emit, Moves, MovesOnly, Starts, TypeOK, Events

(* An outcome, written or lost. *)
LEMMA FinishMoves ==
  ASSUME TypeOK, ActiveRowIsLive, NEW w \in Workflows, NEW outcome \in Terminal,
         NEW saved \in BOOLEAN, Finish(w, outcome, saved)
  PROVE  Moves(w)
<1> DEFINE wf == [active[w].wf EXCEPT !.status = outcome]
<1>1. IsActive(w)
  BY DEF Finish, CanMove
<1>2. wf \in Row /\ wf.status = outcome /\ active[w] \in Entry
  BY <1>1, EntryFields DEF Terminal, Status
<1>3. store[w] \in Row /\ store[w].status \in LiveStatus
  BY <1>1, ActiveRow
<1>4. CASE saved
  BY <1>1, <1>2, <1>3, <1>4
     DEF Finish, UpdateWorkflow, Remove, Emit, Moves, MovesOnly, Leaves, TypeOK, Events, Terminal
<1>5. CASE ~saved
  <2>1. /\ store' = store
        /\ active' = [active EXCEPT ![w].wf = wf]
        /\ announced' = announced
        /\ ctxDone' = ctxDone
    BY <1>5 DEF Finish, UpdateWorkflow
  <2>2. active'[w] \in Entry
    BY <1>2, <2>1 DEF Entry, TypeOK
  <2>3. QED
    BY <1>1, <1>2, <1>3, <2>1, <2>2, NoneAssumption
       DEF Moves, MovesOnly, StaysActive, TypeOK
<1>6. QED
  BY <1>4, <1>5

(* Any operation that stores wf in the entry of w and keeps it live. *)
LEMMA UpdateMoves ==
  ASSUME TypeOK, ActiveRowIsLive, NEW w \in Workflows, NEW wf \in Row, NEW i \in Nat,
         NEW saved \in BOOLEAN, IsActive(w), wf.status \in LiveStatus,
         UpdateWorkflow(w, wf, saved),
         active' = [active EXCEPT ![w] = [wf |-> wf, index |-> i]],
         announced' \in {announced, [announced EXCEPT ![w] = "blocked"]},
         ctxDone' = ctxDone
  PROVE  Moves(w)
<1>1. store[w] \in Row /\ store[w].status \in LiveStatus
  BY ActiveRow
<1>2. store' = [store EXCEPT ![w] = store'[w]] /\ store'[w] \in Row /\ store'[w].status \in LiveStatus
  BY <1>1 DEF UpdateWorkflow, TypeOK
<1>3. active'[w] \in Entry /\ active' = [active EXCEPT ![w] = active'[w]]
  BY DEF Entry, TypeOK
<1>4. announced'[w] \in {announced[w], "blocked"} /\ announced'[w] \in Events
  BY DEF TypeOK, Events
<1>5. announced' = [announced EXCEPT ![w] = announced'[w]]
  BY DEF TypeOK
<1>6. QED
  BY <1>2, <1>3, <1>4, <1>5, NoneAssumption DEF Moves, MovesOnly, StaysActive

(* A live status, written or lost. *)
LEMMA SetStatusMoves ==
  ASSUME TypeOK, ActiveRowIsLive, NEW w \in Workflows, NEW st \in LiveStatus,
         NEW saved \in BOOLEAN, IsActive(w),
         UpdateWorkflow(w, [active[w].wf EXCEPT !.status = st], saved),
         active' = [active EXCEPT ![w].wf = [active[w].wf EXCEPT !.status = st]],
         announced' \in {announced, [announced EXCEPT ![w] = "blocked"]},
         ctxDone' = ctxDone
  PROVE  Moves(w)
<1> DEFINE wf == [active[w].wf EXCEPT !.status = st]
<1>1. wf \in Row /\ wf.status = st /\ active[w] \in Entry /\ active[w].index \in Nat
  BY EntryFields DEF LiveStatus, Status
<1>2. [active[w] EXCEPT !.wf = wf] = [wf |-> wf, index |-> active[w].index]
  BY <1>1 DEF Entry
<1>3. active' = [active EXCEPT ![w] = [wf |-> wf, index |-> active[w].index]]
  BY <1>2
<1>4. UpdateWorkflow(w, wf, saved) /\ wf.status \in LiveStatus
  BY <1>1
<1> HIDE DEF wf
<1>5. QED
  BY <1>1, <1>3, <1>4, UpdateMoves

(* A block. *)
LEMMA BlockMoves ==
  ASSUME TypeOK, ActiveRowIsLive, NEW w \in Workflows, NEW saved \in BOOLEAN,
         BlockWorkflow(w, saved)
  PROVE  Moves(w)
<1>1. "blocked" \in LiveStatus
  BY DEF LiveStatus
<1>2. /\ IsActive(w)
      /\ UpdateWorkflow(w, [active[w].wf EXCEPT !.status = "blocked"], saved)
      /\ active' = [active EXCEPT ![w].wf = [active[w].wf EXCEPT !.status = "blocked"]]
      /\ announced' \in {announced, [announced EXCEPT ![w] = "blocked"]}
      /\ ctxDone' = ctxDone
  BY DEF BlockWorkflow, CanMove, Emit
<1>3. QED
  BY <1>1, <1>2, SetStatusMoves

(* An unblock. *)
LEMMA UnblockMoves ==
  ASSUME TypeOK, ActiveRowIsLive, NEW w \in Workflows, NEW saved \in BOOLEAN,
         UnblockWorkflow(w, saved)
  PROVE  Moves(w)
<1>1. "running" \in LiveStatus
  BY DEF LiveStatus
<1>2. /\ IsActive(w)
      /\ UpdateWorkflow(w, [active[w].wf EXCEPT !.status = "running"], saved)
      /\ active' = [active EXCEPT ![w].wf = [active[w].wf EXCEPT !.status = "running"]]
      /\ announced' \in {announced, [announced EXCEPT ![w] = "blocked"]}
      /\ ctxDone' = ctxDone
  BY DEF UnblockWorkflow, CanMove
<1>3. QED
  BY <1>1, <1>2, SetStatusMoves

(* An advance, which past the last step is a completion. *)
LEMMA AdvanceMoves ==
  ASSUME TypeOK, ActiveRowIsLive, NEW w \in Workflows, NEW s \in Steps,
         NEW saved \in BOOLEAN, AdvanceWorkflow(w, s, saved)
  PROVE  Moves(w)
<1>1. CASE NextStep(w, s) = NoStep
  <2>1. Finish(w, "completed", saved)
    BY <1>1 DEF AdvanceWorkflow, CompleteWorkflow
  <2>2. QED
    BY <2>1, FinishMoves DEF Terminal
<1>2. CASE NextStep(w, s) # NoStep
  <2> DEFINE wf == [active[w].wf EXCEPT !.step = NextStep(w, s)]
  <2>1. IsActive(w) /\ active[w].wf.status = "running"
    BY DEF AdvanceWorkflow, OnStep
  <2>2. active[w].wf \in Row /\ active[w].index \in Nat
    BY <2>1, EntryFields
  <2>3. NextStep(w, s) \in Steps
    BY <1>2, TemplateSteps
  <2>4. wf \in Row /\ wf.status \in LiveStatus
    BY <2>1, <2>2, <2>3 DEF Row, LiveStatus
  <2>5. /\ UpdateWorkflow(w, wf, saved)
        /\ active' = [active EXCEPT ![w] = [wf |-> wf, index |-> active[w].index + 1]]
        /\ announced' = announced
        /\ ctxDone' = ctxDone
    BY <1>2, <2>1 DEF AdvanceWorkflow
  <2>6. active[w].index + 1 \in Nat
    BY <2>2
  <2> HIDE DEF wf
  <2>7. QED
    BY <2>1, <2>4, <2>5, <2>6, UpdateMoves
<1>3. QED
  BY <1>1, <1>2

(* A cancellation, whose write may be lost. *)
LEMMA CancelMoves ==
  ASSUME TypeOK, ActiveRowIsLive, NEW w \in Workflows, NEW saved \in BOOLEAN,
         CancelWorkflow(w, saved)
  PROVE  Moves(w)
<1> DEFINE wf == [active[w].wf EXCEPT !.status = "cancelled"]
<1>1. IsActive(w)
  BY DEF CancelWorkflow, CanMove
<1>2. wf \in Row /\ wf.status = "cancelled"
  BY <1>1, EntryFields DEF Status
<1>3. store[w] \in Row /\ store[w].status \in LiveStatus
  BY <1>1, ActiveRow
<1>4. UpdateWorkflow(w, wf, saved) /\ Remove(w) /\ Emit(w, "cancelled") /\ ctxDone' = ctxDone
  BY DEF CancelWorkflow
<1> HIDE DEF wf
<1>5. QED
  BY <1>1, <1>2, <1>3, <1>4
     DEF UpdateWorkflow, Remove, Emit, Moves, MovesOnly, Leaves, TypeOK, Events, Terminal

(* A shutdown or a restart empties the map; a shutdown may only move live  *)
(* rows to cancelled, a restart moves none.                                *)
Empties ==
  /\ active' = [w \in Workflows |-> None]
  /\ ctxDone' \in BOOLEAN
  /\ store' \in [Workflows -> Row \cup {None}]
  /\ announced' \in [Workflows -> Events]
  /\ \A w \in Workflows :
       \/ store'[w] = store[w] /\ announced'[w] = announced[w]
       \/ /\ IsActive(w)
          /\ store'[w] \in Row /\ store'[w].status \in LiveStatus \cup {"cancelled"}
          /\ announced'[w] = "cancelled"

(* A shutdown drops every entry. *)
LEMMA ShutdownEmpties ==
  ASSUME TypeOK, ActiveRowIsLive, NEW lost \in SUBSET Workflows, Shutdown(lost)
  PROVE  Empties
<1>1. ASSUME NEW w \in Workflows, IsActive(w)
      PROVE  /\ store'[w] \in Row /\ store'[w].status \in LiveStatus \cup {"cancelled"}
             /\ announced'[w] = "cancelled"
  <2>1. /\ [active[w].wf EXCEPT !.status = "cancelled"] \in Row
        /\ [active[w].wf EXCEPT !.status = "cancelled"].status = "cancelled"
    BY <1>1, EntryFields DEF Status
  <2>2. store[w] \in Row /\ store[w].status \in LiveStatus
    BY <1>1, ActiveRow
  <2>3. store'[w] \in {store[w], [active[w].wf EXCEPT !.status = "cancelled"]}
    BY DEF Shutdown
  <2>4. announced'[w] = "cancelled"
    BY <1>1 DEF Shutdown
  <2>5. QED
    BY <2>1, <2>2, <2>3, <2>4
<1>2. ASSUME NEW w \in Workflows, ~IsActive(w)
      PROVE  store'[w] = store[w] /\ announced'[w] = announced[w]
  BY <1>2 DEF Shutdown
<1>3. \A w \in Workflows : store'[w] \in Row \cup {None} /\ announced'[w] \in Events
  BY <1>1, <1>2 DEF TypeOK, Events
<1>4. store' = [w \in Workflows |-> store'[w]] /\ announced' = [w \in Workflows |-> announced'[w]]
  BY DEF Shutdown
<1>5. store' \in [Workflows -> Row \cup {None}] /\ announced' \in [Workflows -> Events]
  BY <1>3, <1>4
<1>6. QED
  BY <1>1, <1>2, <1>5 DEF Empties, Shutdown

-----------------------------------------------------------------------------
(* Every step of the orchestrator is of one of the five kinds. *)
LEMMA NextMoves ==
  ASSUME TypeOK, ActiveRowIsLive, Next
  PROVE  Empties \/ \E w \in Workflows : Moves(w)
<1>1. ASSUME NEW w \in Workflows, CreateWorkflow(w)
      PROVE  Moves(w)
  BY <1>1, CreateMoves
<1>2. ASSUME NEW w \in Workflows, StartWorkflow(w)
      PROVE  Moves(w)
  BY <1>2, StartMoves
<1>3. ASSUME NEW w \in Workflows, NEW saved \in BOOLEAN,
             CompleteWorkflow(w, saved) \/ FailWorkflow(w, saved)
      PROVE  Moves(w)
  BY <1>3, FinishMoves DEF CompleteWorkflow, FailWorkflow, Terminal
<1>4. ASSUME NEW w \in Workflows, NEW saved \in BOOLEAN, CancelWorkflow(w, saved)
      PROVE  Moves(w)
  BY <1>4, CancelMoves
<1>5. ASSUME NEW w \in Workflows, NEW saved \in BOOLEAN, BlockWorkflow(w, saved)
      PROVE  Moves(w)
  BY <1>5, BlockMoves
<1>6. ASSUME NEW w \in Workflows, NEW saved \in BOOLEAN, UnblockWorkflow(w, saved)
      PROVE  Moves(w)
  BY <1>6, UnblockMoves
<1>7. ASSUME NEW w \in Workflows, NEW saved \in BOOLEAN, NEW s \in Steps,
             AdvanceWorkflow(w, s, saved)
      PROVE  Moves(w)
  BY <1>7, AdvanceMoves
<1>8. ASSUME NEW lost \in SUBSET Workflows, Shutdown(lost)
      PROVE  Empties
  BY <1>8, ShutdownEmpties
<1>9. ASSUME Restart
      PROVE  Empties
  BY <1>9 DEF Restart, Empties, TypeOK
<1>10. QED
  BY <1>1, <1>2, <1>3, <1>4, <1>5, <1>6, <1>7, <1>8, <1>9 DEF Next

(* TypeOK and ActiveRowIsLive are inductive together: starting needs the   *)
(* row, and every other write to the row of w needs an entry whose row is  *)
(* live.                                                                   *)
LEMMA InvariantStep ==
  ASSUME TypeOK, ActiveRowIsLive, [Next]_orchVars
  PROVE  TypeOK' /\ ActiveRowIsLive'
<1>1. CASE UNCHANGED orchVars
  BY <1>1 DEF orchVars, TypeOK, ActiveRowIsLive, IsActive
<1>2. ASSUME NEW w \in Workflows, Moves(w)
      PROVE  TypeOK' /\ ActiveRowIsLive'
  <2>1. TypeOK'
    BY <1>2 DEF Moves, MovesOnly, TypeOK
  <2>2. \A v \in Workflows \ {w} : store'[v] = store[v] /\ active'[v] = active[v]
    BY <1>2 DEF Moves, MovesOnly, TypeOK
  <2>3. active'[w] # None => store'[w] # None /\ store'[w].status \in {"running", "blocked"}
    BY <1>2, NoneAssumption
       DEF Moves, MovesOnly, IsCreated, Starts, StaysActive, Leaves, ActiveRowIsLive,
           IsActive, LiveStatus
  <2>4. QED
    BY <2>1, <2>2, <2>3 DEF ActiveRowIsLive, IsActive
<1>3. CASE Empties
  BY <1>3 DEF Empties, TypeOK, ActiveRowIsLive, IsActive
<1>4. QED
  BY <1>1, <1>2, <1>3, NextMoves

(* It holds in an empty store. *)
LEMMA InvariantInit == Init => TypeOK /\ ActiveRowIsLive /\ AnnouncedOutcomeIsStored
BY DEF Init, TypeOK, ActiveRowIsLive, AnnouncedOutcomeIsStored, IsActive, Events

(* Type correctness, and the invariant the rest follows from: a workflow   *)
(* in activeWorkflows has a live row, under lost writes, shutdowns and     *)
(* crashes.                                                                *)
THEOREM ActiveRowsAreLive == Spec => [](TypeOK /\ ActiveRowIsLive)
<1>1. Init => TypeOK /\ ActiveRowIsLive
  BY InvariantInit
<1>2. TypeOK /\ ActiveRowIsLive /\ [Next]_orchVars => (TypeOK /\ ActiveRowIsLive)'
  BY InvariantStep
<1>3. QED
  BY <1>1, <1>2, PTL DEF Spec

(* A completion or failure that was announced is in the store for good. *)
THEOREM AnnouncedOutcome == Spec => []AnnouncedOutcomeIsStored
<1> DEFINE Inv == TypeOK /\ ActiveRowIsLive /\ AnnouncedOutcomeIsStored
<1>1. ASSUME Inv, [Next]_orchVars
      PROVE  AnnouncedOutcomeIsStored'
  <2>1. CASE UNCHANGED orchVars
    BY <1>1, <2>1 DEF orchVars, AnnouncedOutcomeIsStored, IsActive
  <2>2. ASSUME NEW w \in Workflows, Moves(w)
        PROVE  AnnouncedOutcomeIsStored'
    <3>1. \A v \in Workflows \ {w} : /\ store'[v] = store[v] /\ active'[v] = active[v]
                                      /\ announced'[v] = announced[v]
      BY <1>1, <2>2 DEF Moves, MovesOnly, TypeOK
    <3>2. announced'[w] \in {"completed", "failed"} =>
            store'[w] # None /\ store'[w].status = announced'[w] /\ active'[w] = None
      BY <1>1, <2>2, NoneAssumption
         DEF Moves, MovesOnly, IsCreated, Starts, StaysActive, Leaves,
             AnnouncedOutcomeIsStored, IsActive, LiveStatus
    <3>3. QED
      BY <1>1, <3>1, <3>2 DEF AnnouncedOutcomeIsStored, IsActive
  <2>3. CASE Empties
    BY <1>1, <2>3, NoneAssumption DEF Empties, AnnouncedOutcomeIsStored, IsActive
  <2>4. QED
    BY <1>1, <2>1, <2>2, <2>3, NextMoves
<1>2. Inv /\ [Next]_orchVars => Inv'
  BY <1>1, InvariantStep
<1>3. Init => Inv
  BY InvariantInit
<1>4. QED
  BY <1>2, <1>3, PTL DEF Spec

(* An outcome in the store is never overwritten, by whatever interleaving  *)
(* of operations, lost writes, shutdowns and restarts.                     *)
THEOREM OutcomesAreFinal == Spec => OutcomeIsFinal
<1> DEFINE Kept == \A w \in Workflows :
                     store[w] # None /\ store[w].status \in Terminal => store'[w] = store[w]
<1>1. ASSUME TypeOK, ActiveRowIsLive, [Next]_orchVars
      PROVE  Kept
  <2>1. CASE UNCHANGED orchVars
    BY <2>1 DEF orchVars
  <2>2. ASSUME NEW w \in Workflows, Moves(w)
        PROVE  Kept
    <3>1. \A v \in Workflows \ {w} : store'[v] = store[v]
      BY <1>1, <2>2 DEF Moves, MovesOnly, TypeOK
    <3>2. store[w] # None => store[w].status \notin Terminal
      BY <1>1, <2>2
         DEF Moves, IsCreated, Starts, StaysActive, Leaves, ActiveRowIsLive, LiveStatus, Terminal
    <3>3. QED
      BY <3>1, <3>2
  <2>3. CASE Empties
    BY <1>1, <2>3 DEF Empties, ActiveRowIsLive, Terminal
  <2>4. QED
    BY <1>1, <2>1, <2>2, <2>3, NextMoves
<1>2. TypeOK /\ ActiveRowIsLive /\ [Next]_orchVars => [Kept]_orchVars
  BY <1>1
<1>3. Spec => [][Kept]_orchVars
  BY <1>2, ActiveRowsAreLive, PTL DEF Spec
<1>4. QED
  BY <1>3 DEF OutcomeIsFinal

(* The row of each workflow implements the abstract lifecycle: a lost      *)
(* write shows as a row that stays, a crash as no step at all.             *)
THEOREM Refinement == Spec => ImplementsLifecycle
<1> DEFINE Stored == [w \in Workflows |-> IF store[w] = None THEN "absent" ELSE store[w].status]
<1>1. Init => Lifecycle!Init
  BY DEF Init, Lifecycle!Init, Lifecycle!Absent
<1>2. ASSUME TypeOK, ActiveRowIsLive, [Next]_orchVars
      PROVE  [Lifecycle!Next]_Stored
  <2>1. CASE UNCHANGED orchVars
    BY <2>1 DEF orchVars
  <2>2. ASSUME NEW w \in Workflows, Moves(w)
        PROVE  [Lifecycle!Next]_Stored
    <3>1. \A v \in Workflows \ {w} : store'[v] = store[v]
      BY <1>2, <2>2 DEF Moves, MovesOnly, TypeOK
    <3>2. store'[w] # None /\ store'[w].status \in Status
      BY <2>2, NoneAssumption DEF Moves, MovesOnly, Row
    <3>3. Stored' = [Stored EXCEPT ![w] = store'[w].status]
      BY <3>1, <3>2
    <3>4. CASE IsCreated(w)
      <4>1. Lifecycle!Create(w)
        BY <3>3, <3>4 DEF IsCreated, Lifecycle!Create, Lifecycle!Absent, Lifecycle!Pending
      <4>2. QED
        BY <4>1 DEF Lifecycle!Next
    <3>5. CASE Starts(w) /\ store[w].status = "pending"
      <4>1. Lifecycle!Begin(w)
        BY <3>3, <3>5 DEF Starts, Lifecycle!Begin, Lifecycle!Pending
      <4>2. QED
        BY <4>1 DEF Lifecycle!Next
    <3>6. CASE ~IsCreated(w) /\ ~(Starts(w) /\ store[w].status = "pending")
      <4>1. store[w] # None /\ store[w].status \in LiveStatus
        BY <1>2, <2>2, <3>6
           DEF Moves, Starts, StaysActive, Leaves, ActiveRowIsLive, LiveStatus
      <4>2. store'[w].status \in LiveStatus \cup Terminal
        BY <2>2, <3>6 DEF Moves, Starts, StaysActive, Leaves, LiveStatus
      <4>3. \A v \in Workflows : store[v] # None => store[v].status \in Status
        BY <1>2 DEF TypeOK, Row
      <4>4. Lifecycle!Progress
        BY <3>3, <4>1, <4>2, <4>3
           DEF Lifecycle!Progress, Lifecycle!Absent, Lifecycle!Pending, Lifecycle!Live,
               Lifecycle!Outcomes, LiveStatus, Terminal, Status
      <4>5. QED
        BY <4>4 DEF Lifecycle!Next
    <3>7. QED
      BY <3>4, <3>5, <3>6
  <2>3. CASE Empties
    <3>1. \A w \in Workflows :
            \/ store'[w] = store[w]
            \/ /\ store[w] # None /\ store[w].status \in LiveStatus
               /\ store'[w] # None /\ store'[w].status \in LiveStatus \cup {"cancelled"}
      BY <1>2, <2>3, NoneAssumption DEF Empties, ActiveRowIsLive, LiveStatus
    <3>2. \A v \in Workflows : store'[v] # None => store'[v].status \in Status
      BY <2>3 DEF Empties, Row
    <3>3. Lifecycle!Progress
      BY <3>1, <3>2
         DEF Lifecycle!Progress, Lifecycle!Absent, Lifecycle!Pending, Lifecycle!Live,
             Lifecycle!Outcomes, LiveStatus, Status
    <3>4. QED
      BY <3>3 DEF Lifecycle!Next
  <2>4. QED
    BY <1>2, <2>1, <2>2, <2>3, NextMoves
<1>3. TypeOK /\ ActiveRowIsLive /\ [Next]_orchVars => [Lifecycle!Next]_Stored
  BY <1>2
<1>4. QED
  BY <1>1, <1>3, ActiveRowsAreLive, PTL DEF Spec, ImplementsLifecycle, Lifecycle!Spec

-----------------------------------------------------------------------------
(* The step that follows another in a template is one position further.    *)
LEMMA NextPosition ==
  ASSUME NEW w \in Workflows, NEW s
  PROVE  /\ Position(w, s) \in Nat
         /\ NextStep(w, s) # NoStep => Position(w, NextStep(w, s)) = Position(w, s) + 1
<1> DEFINE T == Template[w]
<1>1. T \in Seq(Steps) /\ IsInjectiveSeq(T) /\ DOMAIN T = 1 .. Len(T) /\ Len(T) \in Nat
  BY TemplateAssumption
<1> HIDE DEF T
<1>2. ASSUME NEW i \in DOMAIN T
      PROVE  (CHOOSE k \in DOMAIN T : T[k] = T[i]) = i
  BY <1>1 DEF IsInjectiveSeq
<1>3. ASSUME NEW i \in DOMAIN T
      PROVE  Position(w, T[i]) = i
  BY <1>2 DEF Position, T
<1>4. Position(w, s) \in Nat
  <2>1. CASE \E i \in DOMAIN T : T[i] = s
    BY <1>1, <1>3, <2>1
  <2>2. CASE ~\E i \in DOMAIN T : T[i] = s
    BY <2>2 DEF Position, T
  <2>3. QED
    BY <2>1, <2>2
<1>5. ASSUME NextStep(w, s) # NoStep
      PROVE  Position(w, NextStep(w, s)) = Position(w, s) + 1
  <2>1. PICK i \in DOMAIN T : T[i] = s /\ i + 1 \in DOMAIN T
    BY <1>5 DEF NextStep, T
  <2>2. (CHOOSE k \in DOMAIN T : T[k] = s) = i
    BY <1>2, <2>1
  <2>3. NextStep(w, s) = T[(CHOOSE k \in DOMAIN T : T[k] = s) + 1]
    BY <1>5 DEF NextStep, T
  <2>4. NextStep(w, s) = T[i + 1]
    BY <2>2, <2>3
  <2>5. QED
    BY <1>3, <2>1, <2>4
<1>6. QED
  BY <1>4, <1>5

(* How a step of the orchestrator moves w along its template: the entry is *)
(* new and the row says the same, or it stays or moves to the next step,   *)
(* and the row stays or follows.                                           *)
StepMoves(w) ==
  \/ active'[w] = None
  \/ ~IsActive(w) /\ store'[w].step = active'[w].wf.step
  \/ /\ IsActive(w)
     /\ store'[w].step \in {store[w].step, active'[w].wf.step}
     /\ \/ active'[w].wf.step = active[w].wf.step
        \/ /\ active'[w].wf.step = NextStep(w, active[w].wf.step)
           /\ NextStep(w, active[w].wf.step) # NoStep

(* An operation that writes wf to the row of w, or fails to, and keeps it  *)
(* in the entry.                                                           *)
LEMMA WriteStepMoves ==
  ASSUME TypeOK, ActiveRowIsLive, NEW w \in Workflows, NEW wf, NEW i, NEW saved \in BOOLEAN,
         IsActive(w), UpdateWorkflow(w, wf, saved),
         active' = [active EXCEPT ![w] = [wf |-> wf, index |-> i]],
         \/ wf.step = active[w].wf.step
         \/ wf.step = NextStep(w, active[w].wf.step) /\ NextStep(w, active[w].wf.step) # NoStep
  PROVE  StepMoves(w)
<1>1. active'[w].wf = wf
  BY DEF TypeOK
<1>2. store'[w] \in {store[w], wf}
  BY DEF UpdateWorkflow, TypeOK
<1>3. QED
  BY <1>1, <1>2 DEF StepMoves

(* The same where only the status changes. *)
LEMMA StatusStepMoves ==
  ASSUME TypeOK, ActiveRowIsLive, NEW w \in Workflows, NEW st \in Status, NEW saved \in BOOLEAN,
         IsActive(w), UpdateWorkflow(w, [active[w].wf EXCEPT !.status = st], saved),
         active' = [active EXCEPT ![w].wf = [active[w].wf EXCEPT !.status = st]]
  PROVE  StepMoves(w)
<1> DEFINE wf == [active[w].wf EXCEPT !.status = st]
<1>1. active[w] \in Entry /\ active[w].wf \in Row
  BY EntryFields
<1>2. wf.step = active[w].wf.step
  BY <1>1 DEF Row
<1>3. [active[w] EXCEPT !.wf = wf] = [wf |-> wf, index |-> active[w].index]
  BY <1>1 DEF Entry
<1>4. active' = [active EXCEPT ![w] = [wf |-> wf, index |-> active[w].index]]
  BY <1>3
<1>5. UpdateWorkflow(w, wf, saved)
  OBVIOUS
<1> HIDE DEF wf
<1>6. QED
  BY <1>2, <1>4, <1>5, WriteStepMoves

(* Finish writes an outcome and drops the entry, or keeps it where it was. *)
LEMMA FinishStepMoves ==
  ASSUME TypeOK, ActiveRowIsLive, NEW w \in Workflows, NEW outcome \in Terminal,
         NEW saved \in BOOLEAN, Finish(w, outcome, saved)
  PROVE  StepMoves(w)
<1>1. CASE saved
  BY <1>1 DEF Finish, Remove, StepMoves, TypeOK
<1>2. CASE ~saved
  <2>1. /\ IsActive(w) /\ UpdateWorkflow(w, [active[w].wf EXCEPT !.status = outcome], saved)
        /\ active' = [active EXCEPT ![w].wf = [active[w].wf EXCEPT !.status = outcome]]
        /\ outcome \in Status
    BY <1>2 DEF Finish, CanMove, Terminal, Status
  <2>2. QED
    BY <2>1, StatusStepMoves
<1>3. QED
  BY <1>1, <1>2

(* Every step moves every workflow along its template in one of these ways, *)
(* or leaves its row and its entry alone.                                  *)
LEMMA NextStepMoves ==
  ASSUME TypeOK, ActiveRowIsLive, Next, NEW w \in Workflows
  PROVE  StepMoves(w) \/ (store'[w] = store[w] /\ active'[w] = active[w])
<1> DEFINE Still(v) == v # w => store'[w] = store[w] /\ active'[w] = active[w]
<1>1. ASSUME NEW v \in Workflows, CreateWorkflow(v)
      PROVE  Still(v) /\ StepMoves(v)
  BY <1>1 DEF CreateWorkflow, TypeOK, ActiveRowIsLive, IsActive, StepMoves
<1>2. ASSUME NEW v \in Workflows, StartWorkflow(v)
      PROVE  Still(v) /\ StepMoves(v)
  <2>1. /\ ~IsActive(v) /\ store' = [store EXCEPT ![v] = Started(v)]
        /\ \E i : active' = [active EXCEPT ![v] = [wf |-> Started(v), index |-> i]]
    BY <1>2 DEF StartWorkflow, UpdateWorkflow, Launched
  <2>2. QED
    BY <2>1 DEF TypeOK, StepMoves
<1>3. ASSUME NEW v \in Workflows, NEW saved \in BOOLEAN, NEW outcome \in Terminal,
             Finish(v, outcome, saved)
      PROVE  Still(v) /\ StepMoves(v)
  <2>1. Still(v)
    BY <1>3 DEF Finish, UpdateWorkflow, Remove, TypeOK
  <2>2. QED
    BY <1>3, <2>1, FinishStepMoves
<1>4. ASSUME NEW v \in Workflows, NEW saved \in BOOLEAN, CancelWorkflow(v, saved)
      PROVE  Still(v) /\ StepMoves(v)
  BY <1>4 DEF CancelWorkflow, UpdateWorkflow, Remove, TypeOK, StepMoves
<1>5. ASSUME NEW v \in Workflows, NEW saved \in BOOLEAN,
             BlockWorkflow(v, saved) \/ UnblockWorkflow(v, saved)
      PROVE  Still(v) /\ StepMoves(v)
  <2>1. PICK st \in {"blocked", "running"} :
          /\ IsActive(v) /\ UpdateWorkflow(v, [active[v].wf EXCEPT !.status = st], saved)
          /\ active' = [active EXCEPT ![v].wf = [active[v].wf EXCEPT !.status = st]]
    BY <1>5 DEF BlockWorkflow, UnblockWorkflow, CanMove
  <2>2. st \in Status
    BY DEF Status
  <2>3. Still(v)
    BY <2>1 DEF UpdateWorkflow, TypeOK
  <2>4. QED
    BY <2>1, <2>2, <2>3, StatusStepMoves
<1>6. ASSUME NEW v \in Workflows, NEW saved \in BOOLEAN, NEW s \in Steps,
             AdvanceWorkflow(v, s, saved)
      PROVE  Still(v) /\ StepMoves(v)
  <2>1. CASE NextStep(v, s) = NoStep
    <3>1. Finish(v, "completed", saved) /\ "completed" \in Terminal
      BY <1>6, <2>1 DEF AdvanceWorkflow, CompleteWorkflow, Terminal
    <3>2. QED
      BY <1>3, <3>1
  <2>2. CASE NextStep(v, s) # NoStep
    <3> DEFINE wf == [active[v].wf EXCEPT !.step = NextStep(v, s)]
    <3>1. /\ IsActive(v) /\ active[v].wf.step = s
          /\ UpdateWorkflow(v, wf, saved)
          /\ active' = [active EXCEPT ![v] = [wf |-> wf, index |-> active[v].index + 1]]
      BY <1>6, <2>2 DEF AdvanceWorkflow, OnStep
    <3>2. active[v].wf \in Row
      BY <3>1, EntryFields
    <3>3. wf.step = NextStep(v, s)
      BY <3>2 DEF Row
    <3> HIDE DEF wf
    <3>4. Still(v)
      BY <3>1 DEF UpdateWorkflow, TypeOK
    <3>5. StepMoves(v)
      BY <2>2, <3>1, <3>3, WriteStepMoves
    <3>6. QED
      BY <3>4, <3>5
  <2>3. QED
    BY <2>1, <2>2
<1>7. ASSUME Restart \/ \E lost \in SUBSET Workflows : Shutdown(lost)
      PROVE  StepMoves(w)
  BY <1>7 DEF Restart, Shutdown, StepMoves
<1> HIDE DEF Still
<1>8. \/ \E v \in Workflows : Still(v) /\ StepMoves(v)
      \/ StepMoves(w)
  <2>1. "completed" \in Terminal /\ "failed" \in Terminal
    BY DEF Terminal
  <2>2. QED
    BY <1>1, <1>2, <1>3, <1>4, <1>5, <1>6, <1>7, <2>1 DEF Next, CompleteWorkflow, FailWorkflow
<1>9. QED
  BY <1>8 DEF Still

(* The row of a workflow never claims a step that memory has not reached,  *)
(* whatever writes are lost: a restart repeats steps and skips none.       *)
THEOREM RowNeverAhead == Spec => []StoredStepNotAhead
<1> DEFINE Inv == TypeOK /\ ActiveRowIsLive /\ StoredStepNotAhead
<1>1. ASSUME Inv, [Next]_orchVars
      PROVE  StoredStepNotAhead'
  <2>1. CASE UNCHANGED orchVars
    BY <1>1, <2>1 DEF orchVars, StoredStepNotAhead, IsActive
  <2>2. ASSUME Next, NEW w \in Workflows, active'[w] # None
        PROVE  Position(w, store'[w].step) <= Position(w, active'[w].wf.step)
    <3>1. StepMoves(w) \/ (store'[w] = store[w] /\ active'[w] = active[w])
      BY <1>1, <2>2, NextStepMoves
    <3>2. IsActive(w) => Position(w, store[w].step) <= Position(w, active[w].wf.step)
      BY <1>1 DEF StoredStepNotAhead
    <3>3. CASE store'[w].step = active'[w].wf.step
      BY <3>3, NextPosition
    <3>4. CASE /\ IsActive(w) /\ store'[w].step = store[w].step
               /\ \/ active'[w].wf.step = active[w].wf.step
                  \/ /\ active'[w].wf.step = NextStep(w, active[w].wf.step)
                     /\ NextStep(w, active[w].wf.step) # NoStep
      BY <3>2, <3>4, NextPosition
    <3>5. QED
      BY <2>2, <3>1, <3>3, <3>4 DEF StepMoves, IsActive
  <2>3. QED
    BY <1>1, <2>1, <2>2 DEF StoredStepNotAhead, IsActive
<1>2. Inv /\ [Next]_orchVars => Inv'
  BY <1>1, InvariantStep
<1>3. Init => Inv
  <2>1. Init => StoredStepNotAhead
    BY DEF Init, StoredStepNotAhead, IsActive
  <2>2. QED
    BY <2>1, InvariantInit
<1>4. QED
  BY <1>2, <1>3, PTL DEF Spec

(* A workflow in memory moves through its template one step at a time.     *)
THEOREM StepsAreNotSkipped == Spec => OneStepAtATime
<1>1. ASSUME TypeOK, ActiveRowIsLive, Next, NEW w \in Workflows, IsActive(w), active'[w] # None
      PROVE  Position(w, active'[w].wf.step) - Position(w, active[w].wf.step) \in {0, 1}
  <2>1. \/ active'[w].wf.step = active[w].wf.step
        \/ /\ active'[w].wf.step = NextStep(w, active[w].wf.step)
           /\ NextStep(w, active[w].wf.step) # NoStep
    BY <1>1, NextStepMoves DEF StepMoves
  <2>2. QED
    BY <2>1, NextPosition
<1>2. TypeOK /\ ActiveRowIsLive /\ [Next]_orchVars =>
        [\A w \in Workflows :
           IsActive(w) /\ active'[w] # None =>
             Position(w, active'[w].wf.step) - Position(w, active[w].wf.step) \in {0, 1}]_orchVars
  BY <1>1
<1>3. QED
  BY <1>2, ActiveRowsAreLive, PTL DEF OneStepAtATime, Spec
=============================================================================
