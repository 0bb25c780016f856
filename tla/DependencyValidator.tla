-------------------------- MODULE DependencyValidator --------------------------
(***************************************************************************)
(* DependencyValidator.ValidateTemplate of                                 *)
(* bridge/pkg/secretary/orchestrator_dependencies.go, one action for each  *)
(* phase and, inside the phases that iterate over a Go map, one for each   *)
(* iteration: the map's order is random, so any remaining node may come    *)
(* next.                                                                   *)
(*                                                                         *)
(* A template is any sequence of steps: empty and repeated IDs, successors *)
(* that do not exist and cycles are what the validator is there to refuse. *)
(***************************************************************************)
EXTENDS ExecutionOrder

CONSTANTS
  StepIDs,      \* the step IDs a template may use
  NoStep,       \* the empty ID
  Templates     \* the templates submitted

(* member: AssignedMemberID is set and TeamID is not. *)
WorkflowStep == [id : StepIDs \cup {NoStep}, next : StepIDs \cup {NoStep}, member : BOOLEAN]

ASSUME ValidatorAssumption == NoStep \notin StepIDs /\ Templates \subseteq Seq(WorkflowStep)

VARIABLES
  template,   \* template.Steps
  phase,      \* the phase of ValidateTemplate that runs next
  valid,      \* result.Valid
  graph,      \* DependencyGraph: at most one successor each, NoStep for none
  visited,    \* detectCycles: nodes seen
  path,       \* detectCycleDFS: the recursion stack, which is recStack too
  cycle,      \* CyclePath of the error reported, if any
  inDegree,   \* topologicalSort: in-degrees still to be released
  unread,     \* topologicalSort: nodes its first loop has still to look at
  queue,      \* topologicalSort: the FIFO queue
  order       \* topologicalSort: sorted, in the end ExecutionOrder

vars == <<template, phase, valid, graph, visited, path, cycle, inDegree, unread, queue, order>>

Phases == {"validateStepIDs", "buildDependencyGraph", "detectCycles",
           "enqueue", "sort", "done"}

TypeOK ==
  /\ template \in Seq(WorkflowStep)
  /\ phase \in Phases
  /\ valid \in BOOLEAN
  /\ DOMAIN graph \subseteq StepIDs
  /\ \A n \in DOMAIN graph : graph[n] \in StepIDs \cup {NoStep}
  /\ visited \subseteq DOMAIN graph
  /\ \A s \in {path, cycle, queue, order} : s \in Seq(StepIDs)
  /\ inDegree \in [DOMAIN graph -> Int]
  /\ unread \subseteq DOMAIN graph

Init ==
  /\ template \in Templates
  /\ phase = "validateStepIDs"
  /\ valid = TRUE
  /\ graph = <<>>
  /\ visited = {}
  /\ path = <<>>
  /\ cycle = <<>>
  /\ inDegree = <<>>
  /\ unread = {}
  /\ queue = <<>>
  /\ order = <<>>

-----------------------------------------------------------------------------
IDs == {template[i].id : i \in DOMAIN template}

(* Every ID is set, none is repeated, no member is assigned without a team. *)
StepIDsValid ==
  /\ NoStep \notin IDs
  /\ \A i, j \in DOMAIN template : template[i].id = template[j].id => i = j
  /\ \A i \in DOMAIN template : ~template[i].member

Goto(p, ok) == phase' = (IF ok THEN p ELSE "done") /\ valid' = ok

ValidateStepIDs ==
  /\ phase = "validateStepIDs"
  /\ Goto("buildDependencyGraph", StepIDsValid)
  /\ UNCHANGED <<template, graph, visited, path, cycle, inDegree, unread, queue, order>>

Successor(n) == (CHOOSE s \in Range(template) : s.id = n).next

(* A successor that is not a step of the template is an error and no edge. *)
BuildDependencyGraph ==
  /\ phase = "buildDependencyGraph"
  /\ graph' = [n \in IDs |-> IF Successor(n) \in IDs THEN Successor(n) ELSE NoStep]
  /\ Goto("detectCycles", \A n \in IDs : Successor(n) \in IDs \cup {NoStep})
  /\ inDegree' = [n \in IDs |-> 0]
  /\ UNCHANGED <<template, visited, path, cycle, unread, queue, order>>

(* detectCycles: the next unvisited node of the iteration starts a DFS.    *)
StartDFS(n) ==
  /\ phase = "detectCycles" /\ path = <<>>
  /\ n \in DOMAIN graph \ visited
  /\ visited' = visited \cup {n}
  /\ path' = <<n>>
  /\ UNCHANGED <<template, phase, valid, graph, cycle, inDegree, unread, queue, order>>

(* Mutant: every node seen before is taken for a cycle, recStack unused. *)
VisitNeighborWithoutRecStack ==
  /\ phase = "detectCycles" /\ path # <<>>
  /\ LET neighbor == graph[Last(path)] IN
     \/ /\ neighbor # NoStep /\ neighbor \notin visited
        /\ visited' = visited \cup {neighbor}
        /\ path' = Append(path, neighbor)
        /\ UNCHANGED <<phase, valid, cycle>>
     \/ /\ neighbor \in visited
        /\ cycle' = Append(path, neighbor)
        /\ Goto("done", FALSE)
        /\ UNCHANGED <<visited, path>>
     \/ /\ neighbor = NoStep
        /\ path' = Front(path)
        /\ UNCHANGED <<phase, valid, visited, cycle>>
  /\ UNCHANGED <<template, graph, inDegree, unread, queue, order>>

(* Mutant: the path that leads to a cycle is reported with it. *)
VisitNeighborWholePath ==
  /\ phase = "detectCycles" /\ path # <<>>
  /\ LET neighbor == graph[Last(path)] IN
     \/ /\ neighbor # NoStep /\ neighbor \notin visited
        /\ visited' = visited \cup {neighbor}
        /\ path' = Append(path, neighbor)
        /\ UNCHANGED <<phase, valid, cycle>>
     \/ /\ neighbor \in Range(path)
        /\ cycle' = Append(path, neighbor)
        /\ Goto("done", FALSE)
        /\ UNCHANGED <<visited, path>>
     \/ /\ neighbor = NoStep \/ neighbor \in visited \ Range(path)
        /\ path' = Front(path)
        /\ UNCHANGED <<phase, valid, visited, cycle>>
  /\ UNCHANGED <<template, graph, inDegree, unread, queue, order>>

(* detectCycleDFS: descend, report a cycle, or return to the caller.       *)
VisitNeighbor ==
  /\ phase = "detectCycles" /\ path # <<>>
  /\ LET neighbor == graph[Last(path)] IN
     \/ /\ neighbor # NoStep /\ neighbor \notin visited
        /\ visited' = visited \cup {neighbor}
        /\ path' = Append(path, neighbor)
        /\ UNCHANGED <<phase, valid, cycle>>
     \/ /\ neighbor \in visited /\ neighbor \in Range(path)
        /\ cycle' = Append(SubSeq(path, SelectInSeq(path, LAMBDA m : m = neighbor), Len(path)),
                           neighbor)
        /\ Goto("done", FALSE)
        /\ UNCHANGED <<visited, path>>
     \/ /\ neighbor = NoStep \/ neighbor \in visited \ Range(path)
        /\ path' = Front(path)
        /\ UNCHANGED <<phase, valid, visited, cycle>>
  /\ UNCHANGED <<template, graph, inDegree, unread, queue, order>>

(* No cycle was found: topologicalSort counts the in-degrees. *)
CountInDegrees ==
  /\ phase = "detectCycles" /\ path = <<>> /\ visited = DOMAIN graph
  /\ inDegree' = [n \in DOMAIN graph |-> Cardinality(Predecessors(graph, n))]
  /\ unread' = DOMAIN graph
  /\ Goto("enqueue", TRUE)
  /\ UNCHANGED <<template, graph, visited, path, cycle, queue, order>>

EnqueueRoots(n) ==
  /\ phase = "enqueue" /\ n \in unread
  /\ unread' = unread \ {n}
  /\ queue' = IF inDegree[n] = 0 THEN Append(queue, n) ELSE queue
  /\ UNCHANGED <<template, phase, valid, graph, visited, path, cycle, inDegree, order>>

StartSort ==
  /\ phase = "enqueue" /\ unread = {}
  /\ Goto("sort", TRUE)
  /\ UNCHANGED <<template, graph, visited, path, cycle, inDegree, unread, queue, order>>

(* Sort a node, and enqueue its neighbor when no other is ahead of it. *)
Process(node, rest) ==
  LET neighbor == graph[node] IN
  /\ order' = Append(order, node)
  /\ inDegree' = IF neighbor = NoStep THEN inDegree
                 ELSE [inDegree EXCEPT ![neighbor] = @ - 1]
  /\ queue' = IF neighbor # NoStep /\ inDegree[neighbor] = 1
              THEN Append(rest, neighbor) ELSE rest
  /\ UNCHANGED <<template, phase, valid, graph, visited, path, cycle, unread>>

(* Mutant: a stack instead of a queue. *)
DequeueFromEnd ==
  phase = "sort" /\ queue # <<>> /\ Process(Last(queue), Front(queue))

(* Mutant: a node without a successor is skipped before it is removed. *)
DequeueSkipsLeaf ==
  /\ phase = "sort" /\ queue # <<>>
  /\ IF graph[Head(queue)] = NoStep THEN UNCHANGED vars
     ELSE Process(Head(queue), Tail(queue))

Dequeue ==
  phase = "sort" /\ queue # <<>> /\ Process(Head(queue), Tail(queue))

(* orderByTemplateSequence returns the order it is given: every ID is in   *)
(* it already when the lengths agree.                                      *)
FinishSort ==
  /\ phase = "sort" /\ queue = <<>>
  /\ Goto("done", Len(order) = Cardinality(DOMAIN graph))
  /\ UNCHANGED <<template, graph, visited, path, cycle, inDegree, unread, queue, order>>

Next ==
  \/ ValidateStepIDs
  \/ BuildDependencyGraph
  \/ \E n \in StepIDs : StartDFS(n) \/ EnqueueRoots(n)
  \/ VisitNeighbor
  \/ CountInDegrees
  \/ StartSort
  \/ Dequeue
  \/ FinishSort

(* The validator runs in one goroutine under its own mutex, so it is       *)
(* scheduled until it returns.                                             *)
Spec == Init /\ [][Next]_vars /\ WF_vars(Next)

-----------------------------------------------------------------------------
WellFormed == StepIDsValid /\ \A n \in IDs : Successor(n) \in IDs \cup {NoStep}

(* ValidateTemplate accepts exactly the templates whose IDs are sound,     *)
(* whose successors exist and whose graph has no cycle, whatever order the *)
(* maps are iterated in: the depth-first search with its shared visited    *)
(* set misses no cycle and reports none that is not there.                 *)
AcceptsExactlyAcyclic ==
  phase = "done" => (valid <=> WellFormed /\ Acyclic(graph))

(* A reported CyclePath really is one: it starts and ends with the same    *)
(* step and every step in it is followed by its NextStepID.                *)
ReportedCycleIsReal ==
  cycle # <<>> =>
    /\ Len(cycle) > 1 /\ Head(cycle) = Last(cycle)
    /\ \A i \in 1..(Len(cycle) - 1) : graph[cycle[i]] = cycle[i+1]

(* ExecutionOrder is one of the orders Kahn's algorithm with a FIFO queue  *)
(* can return: all steps, each once, each after its predecessors.          *)
OrderIsKahn ==
  phase = "done" /\ valid => order \in KahnOrders(graph)

(* ValidateTemplate returns. *)
Terminates == <>(phase = "done")
=============================================================================
