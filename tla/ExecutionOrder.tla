---------------------------- MODULE ExecutionOrder ----------------------------
(***************************************************************************)
(* The execution order that orchestrator_dependencies.go computes, as a    *)
(* set of possible results.  Every step has at most one successor, its     *)
(* NextStepID, so the dependency graph is a function next from the IDs of  *)
(* a template to those IDs or NoStep.                                      *)
(*                                                                         *)
(* topologicalSort is Kahn's algorithm with a FIFO queue whose first       *)
(* content, the steps without a predecessor, comes in the order of a Go    *)
(* map iteration: any order.                                               *)
(***************************************************************************)
EXTENDS Integers, Sequences, FiniteSets, FiniteSetsExt, SequencesExt

Predecessors(next, n) == {m \in DOMAIN next : next[m] = n}

(* No steps lead only to each other: in every set of steps there is one    *)
(* whose successor is not in the set.                                      *)
Acyclic(next) ==
  \A S \in SUBSET DOMAIN next : S # {} => \E n \in S : next[n] \notin S

(* The place in order of n's last predecessor, 0 when n has none. *)
Released(next, order, n) ==
  Max({0} \cup {i \in DOMAIN order : next[order[i]] = n})

(* Each step comes after its predecessors, and steps come in the order in  *)
(* which their last predecessor was taken: that is the FIFO queue.         *)
KahnOrders(next) ==
  {order \in SetToSeqs(DOMAIN next) :
     /\ \A i \in DOMAIN order : Released(next, order, order[i]) < i
     /\ \A i, j \in DOMAIN order :
          i < j => Released(next, order, order[i]) <= Released(next, order, order[j])}
=============================================================================
