-------------------------- MODULE ExecutionGuardProofs --------------------------
(***************************************************************************)
(* Proofs about what guards an execution in bridge/pkg/secretary: the      *)
(* validator a template has to pass before it is executed, and the         *)
(* approval a step waits for before it is given personal data.             *)
(*                                                                         *)
(* The validator, DependencyValidator, for any step IDs and any templates, *)
(* of any length.  Its invariant says what the depth-first search has left *)
(* behind it, and what the counters of the topological sort count.         *)
(*                                                                         *)
(* The approvals, PendingApproval, for any number of requests and steps,   *)
(* when no two requests ask for the same step.                             *)
(***************************************************************************)
EXTENDS DependencyValidator, PendingApproval,
        SequenceTheorems, FiniteSetTheorems, WellFoundedInduction, TLAPS

(* A set of natural numbers has a least element. *)
LEMMA LeastElement ==
  ASSUME NEW S \in SUBSET Nat, S # {}
  PROVE  \E x \in S : \A y \in S : x <= y
<1>1. PICK x \in S : \A y \in S : ~(<<y, x>> \in OpToRel(<, Nat))
  BY NatLessThanWellFounded, WFMin
<1>2. \A y \in S : ~(y < x)
  BY <1>1 DEF OpToRel
<1> QED
  BY <1>2

(* A set of natural numbers up to n has a greatest element. *)
LEMMA GreatestElement ==
  ASSUME NEW n \in Nat, NEW S \in SUBSET (0 .. n), S # {}
  PROVE  \E x \in S : \A y \in S : x >= y
<1> DEFINE Gaps == {n - x : x \in S}
<1>1. Gaps \in SUBSET Nat /\ Gaps # {}
  <2>1. \A x \in S : n - x \in Nat
    OBVIOUS
  <2> QED
    BY <2>1
<1>2. PICK g \in Gaps : \A h \in Gaps : g <= h
  BY <1>1, LeastElement
<1>3. PICK x \in S : g = n - x
  BY <1>2
<1>4. ASSUME NEW y \in S PROVE x >= y
  <2>1. n - x <= n - y
    BY <1>2, <1>3
  <2> QED
    BY <2>1
<1> QED
  BY <1>4

(* Released is the last place whose step leads to n, or 0. *)
LEMMA ReleasedIsLast ==
  ASSUME NEW next, NEW D, NEW s \in Seq(D), NEW n
  PROVE  /\ Released(next, s, n) \in 0 .. Len(s)
         /\ \A i \in DOMAIN s : next[s[i]] = n => i <= Released(next, s, n)
<1> DEFINE A == {0} \cup {i \in DOMAIN s : next[s[i]] = n}
<1>1. Len(s) \in Nat /\ DOMAIN s = 1 .. Len(s)
  OBVIOUS
<1>2. A \in SUBSET (0 .. Len(s)) /\ A # {}
  BY <1>1
<1>3. \E x \in A : \A y \in A : x >= y
  BY <1>1, <1>2, GreatestElement
<1>4. Max(A) \in A /\ \A y \in A : Max(A) >= y
  BY <1>3 DEF Max
<1>5. Released(next, s, n) = Max(A)
  BY DEF Released
<1> HIDE DEF A
<1>6. \A i \in DOMAIN s : next[s[i]] = n => i \in A
  BY DEF A
<1>7. \A i \in DOMAIN s : i \in A => i <= Max(A)
  BY <1>1, <1>2, <1>4
<1> QED
  BY <1>1, <1>2, <1>4, <1>5, <1>6, <1>7

(* A step that does not lead to n leaves n's place as it is, ... *)
LEMMA ReleasedSame ==
  ASSUME NEW next, NEW D, NEW s \in Seq(D), NEW x \in D, NEW n, next[x] # n
  PROVE  Released(next, Append(s, x), n) = Released(next, s, n)
<1> DEFINE t == Append(s, x)
<1>1. /\ Len(s) \in Nat /\ DOMAIN s = 1 .. Len(s) /\ DOMAIN t = 1 .. Len(s) + 1
      /\ t[Len(s) + 1] = x /\ \A i \in 1 .. Len(s) : t[i] = s[i]
  OBVIOUS
<1> HIDE DEF t
<1>2. {i \in DOMAIN t : next[t[i]] = n} = {i \in DOMAIN s : next[s[i]] = n}
  BY <1>1
<1> QED
  BY <1>2 DEF Released, t

(* ... and one that does becomes its last predecessor. *)
LEMMA ReleasedNow ==
  ASSUME NEW next, NEW D, NEW s \in Seq(D), NEW x \in D, NEW n, next[x] = n
  PROVE  Released(next, Append(s, x), n) = Len(s) + 1
<1> DEFINE t == Append(s, x)
<1>1. /\ Len(s) \in Nat /\ t \in Seq(D) /\ Len(t) = Len(s) + 1 /\ DOMAIN t = 1 .. Len(s) + 1
      /\ t[Len(s) + 1] = x
  OBVIOUS
<1> HIDE DEF t
<1>2. /\ Released(next, t, n) \in 0 .. Len(t)
      /\ \A i \in DOMAIN t : next[t[i]] = n => i <= Released(next, t, n)
  BY <1>1, ReleasedIsLast
<1>3. Len(s) + 1 <= Released(next, t, n)
  BY <1>1, <1>2
<1> QED
  BY <1>1, <1>2, <1>3 DEF t

(* Finitely many steps that each have a predecessor among them lead only   *)
(* to each other, for every step has one successor.                        *)
LEMMA AllPredecessorsInside ==
  ASSUME NEW next, NEW U, IsFiniteSet(U), \A n \in U : \E m \in U : next[m] = n
  PROVE  \A m \in U : next[m] \in U
<1> DEFINE D == {m \in U : next[m] \in U}
           f == [m \in D |-> next[m]]
<1>1. f \in Surjection(D, U)
  BY DEF Surjection
<1>2. IsFiniteSet(D) /\ Cardinality(D) <= Cardinality(U) /\ D \in SUBSET U
  BY FS_Subset
<1>3. Cardinality(U) <= Cardinality(D)
  BY <1>1, <1>2, FS_Surjection
<1>4. Cardinality(D) \in Nat /\ Cardinality(U) \in Nat
  BY <1>2, FS_CardinalityType
<1>5. Cardinality(U) = Cardinality(D)
  BY <1>2, <1>3, <1>4
<1> HIDE DEF f
<1>6. U = D
  <2> HIDE DEF D
  <2> QED BY <1>2, <1>5, FS_Subset
<1> QED
  BY <1>6

(* A sequence without repetitions is as long as its range is large. *)
LEMMA DistinctLength ==
  ASSUME NEW S, NEW s \in Seq(S), \A i, j \in DOMAIN s : s[i] = s[j] => i = j
  PROVE  /\ IsFiniteSet(Range(s)) /\ Cardinality(Range(s)) = Len(s)
<1>1. Len(s) \in Nat /\ DOMAIN s = 1 .. Len(s) /\ s \in [1 .. Len(s) -> S]
  OBVIOUS
<1>2. s \in [1 .. Len(s) -> Range(s)]
  BY <1>1 DEF Range
<1>3. s \in Bijection(1 .. Len(s), Range(s))
  BY <1>1, <1>2 DEF Bijection, Injection, Surjection, IsInjective, Range
<1>4. ExistsBijection(1 .. Len(s), Range(s))
  BY <1>3 DEF ExistsBijection
<1>5. IsFiniteSet(1 .. Len(s)) /\ Cardinality(1 .. Len(s)) = Len(s)
  BY <1>1, FS_Interval
<1> QED
  BY <1>4, <1>5, FS_Bijection
-----------------------------------------------------------------------------
(* A path that ends where it began. *)
IsCycle(next, s) ==
  /\ Len(s) > 1 /\ Head(s) = Last(s)
  /\ \A i \in 1 .. (Len(s) - 1) : next[s[i]] = s[i + 1]

(* The walks of k steps in S. *)
Walks(next, S, k) ==
  {s \in [1 .. k -> S] : \A i \in 1 .. (k - 1) : next[s[i]] = s[i + 1]}

(* Steps that lead only to each other can be followed for any length. *)
LEMMA EndlessWalk ==
  ASSUME NEW next, NEW S, S # {}, \A n \in S : next[n] \in S, NEW k \in Nat, k >= 1
  PROVE  Walks(next, S, k) # {}
<1> DEFINE Bad == {n \in Nat : n >= 1 /\ Walks(next, S, n) = {}}
<1>1. Walks(next, S, 1) # {}
  <2>1. PICK x \in S : TRUE
    OBVIOUS
  <2>2. [i \in 1 .. 1 |-> x] \in [1 .. 1 -> S] /\ 1 .. (1 - 1) = {}
    BY <2>1
  <2>3. \A i \in {} : next[[j \in 1 .. 1 |-> x][i]] = [j \in 1 .. 1 |-> x][i + 1]
    OBVIOUS
  <2> QED
    BY <2>2, <2>3 DEF Walks
<1>2. ASSUME NEW n \in Nat, n >= 1, Walks(next, S, n) # {} PROVE Walks(next, S, n + 1) # {}
  <2>1. PICK s \in [1 .. n -> S] : \A i \in 1 .. (n - 1) : next[s[i]] = s[i + 1]
    BY <1>2 DEF Walks
  <2> DEFINE t == [i \in 1 .. (n + 1) |-> IF i = n + 1 THEN next[s[n]] ELSE s[i]]
  <2>2. t \in [1 .. (n + 1) -> S]
    BY <1>2, <2>1
  <2>3. ASSUME NEW i \in 1 .. n PROVE next[t[i]] = t[i + 1]
    BY <1>2, <2>1
  <2> HIDE DEF t
  <2>4. (n + 1) - 1 = n
    OBVIOUS
  <2> QED
    BY <2>2, <2>3, <2>4 DEF Walks
<1>3. SUFFICES ASSUME Bad # {} PROVE FALSE
  OBVIOUS
<1>4. PICK n \in Bad : \A m \in Bad : n <= m
  <2>1. Bad \in SUBSET Nat
    OBVIOUS
  <2> QED
    BY <1>3, <2>1, LeastElement
<1>5. n \in Nat /\ n > 1 /\ Walks(next, S, n) = {}
  BY <1>1, <1>4
<1>6. n - 1 \in Nat /\ n - 1 >= 1 /\ (n - 1) + 1 = n
  BY <1>5
<1>7. Walks(next, S, n - 1) # {}
  BY <1>4, <1>5, <1>6
<1> QED
  BY <1>2, <1>5, <1>6, <1>7

(* Acyclic says what its name says: a finite graph is acyclic exactly when *)
(* no path along the successors ends where it began.                       *)
THEOREM AcyclicMeansNoCycle ==
  ASSUME NEW next, IsFiniteSet(DOMAIN next)
  PROVE  Acyclic(next) <=> ~\E s \in Seq(DOMAIN next) : IsCycle(next, s)
<1>1. ASSUME Acyclic(next), NEW s \in Seq(DOMAIN next), IsCycle(next, s) PROVE FALSE
  <2> DEFINE S == {s[i] : i \in 1 .. (Len(s) - 1)}
  <2>1. Len(s) \in Nat /\ Len(s) > 1 /\ DOMAIN s = 1 .. Len(s)
    BY <1>1 DEF IsCycle
  <2>2. s[1] = s[Len(s)]
    BY <1>1, <2>1 DEF IsCycle, Last
  <2>3. S \in SUBSET DOMAIN next /\ s[1] \in S
    BY <2>1
  <2>4. PICK n \in S : next[n] \notin S
    BY <1>1, <2>3 DEF Acyclic
  <2>5. PICK i \in 1 .. (Len(s) - 1) : n = s[i]
    BY <2>4
  <2>6. next[n] = s[i + 1]
    BY <1>1, <2>5 DEF IsCycle
  <2>7. CASE i + 1 = Len(s)
    BY <2>2, <2>3, <2>4, <2>6, <2>7
  <2>8. CASE i + 1 # Len(s)
    <3>1. i + 1 \in 1 .. (Len(s) - 1)
      <4> DEFINE L == Len(s)
      <4>1. L \in Nat /\ i \in 1 .. (L - 1) /\ i + 1 # L
        BY <2>1, <2>8
      <4> HIDE DEF L
      <4>2. i + 1 \in 1 .. (L - 1)
        BY <4>1
      <4> QED
        BY <4>2 DEF L
    <3> QED
      BY <2>4, <2>6, <3>1
  <2> QED
    BY <2>7, <2>8
<1>2. ASSUME ~Acyclic(next) PROVE \E s \in Seq(DOMAIN next) : IsCycle(next, s)
  <2>1. PICK S \in SUBSET DOMAIN next : S # {} /\ \A n \in S : next[n] \in S
    BY <1>2 DEF Acyclic
  <2>2. IsFiniteSet(S)
    BY FS_Subset
  <2> DEFINE k == Cardinality(S) + 1
  <2>3. k \in Nat /\ k >= 1 /\ Cardinality(S) < k /\ Cardinality(S) \in Nat
    BY <2>2, FS_CardinalityType
  <2> HIDE DEF k
  <2>4. PICK w \in [1 .. k -> S] : \A i \in 1 .. (k - 1) : next[w[i]] = w[i + 1]
    <3>1. S # {} /\ \A n \in S : next[n] \in S
      BY <2>1
    <3>2. k \in Nat /\ k >= 1
      BY <2>3
    <3>3. Walks(next, S, k) # {}
      BY <3>1, <3>2, EndlessWalk
    <3> QED
      BY <3>3 DEF Walks
  <2>5. IsFiniteSet(1 .. k) /\ Cardinality(1 .. k) = k
    BY <2>3, FS_Interval
  <2>6. \E i, j \in 1 .. k : i # j /\ w[i] = w[j]
    BY <2>2, <2>3, <2>5, FS_PigeonHole
  <2>7. PICK i, j \in 1 .. k : i < j /\ w[i] = w[j]
    BY <2>3, <2>6
  <2> DEFINE s == [m \in 1 .. (j - i + 1) |-> w[i + m - 1]]
  <2>8. \A m \in 1 .. (j - i + 1) : i + m - 1 \in 1 .. k /\ w[i + m - 1] \in DOMAIN next
    BY <2>1, <2>3, <2>4, <2>7
  <2>9. s \in Seq(DOMAIN next) /\ Len(s) = j - i + 1
    BY <2>3, <2>7, <2>8
  <2>10. \A m \in 1 .. (j - i + 1) : s[m] = w[i + m - 1]
    OBVIOUS
  <2> HIDE DEF s
  <2>11. Len(s) > 1 /\ Head(s) = Last(s)
    <3>1. j - i + 1 \in 1 .. (j - i + 1) /\ 1 \in 1 .. (j - i + 1)
      BY <2>3, <2>7
    <3>2. s[1] = w[i] /\ s[j - i + 1] = w[j]
      BY <2>3, <2>7, <2>10, <3>1
    <3>3. Head(s) = s[1]
      BY <2>9
    <3> QED
      BY <2>3, <2>7, <2>9, <3>2, <3>3 DEF Last
  <2>12. ASSUME NEW m \in 1 .. (Len(s) - 1) PROVE next[s[m]] = s[m + 1]
    <3>1. /\ m \in 1 .. (j - i + 1) /\ m + 1 \in 1 .. (j - i + 1)
          /\ i + m - 1 \in 1 .. (k - 1) /\ i + (m + 1) - 1 = (i + m - 1) + 1
      BY <2>3, <2>7, <2>9
    <3>2. next[w[i + m - 1]] = w[(i + m - 1) + 1]
      BY <2>4, <3>1
    <3> QED
      BY <2>10, <3>1, <3>2
  <2> QED
    BY <2>9, <2>11, <2>12 DEF IsCycle
<1> QED
  BY <1>1, <1>2

-----------------------------------------------------------------------------
(* Where the variables of each phase stand. *)
Shape ==
  /\ template \in Seq(WorkflowStep) /\ phase \in Phases /\ valid \in BOOLEAN
  /\ DOMAIN graph \subseteq StepIDs /\ IsFiniteSet(DOMAIN graph)
  /\ \A n \in DOMAIN graph : graph[n] \in DOMAIN graph \cup {NoStep}
  /\ path \in Seq(DOMAIN graph) /\ cycle \in Seq(DOMAIN graph)
  /\ queue \in Seq(DOMAIN graph) /\ order \in Seq(DOMAIN graph)
  /\ visited \subseteq DOMAIN graph /\ unread \subseteq DOMAIN graph
  /\ inDegree \in [DOMAIN graph -> Int]

(* What is still empty in a phase. *)
NotYet ==
  /\ phase \in {"validateStepIDs", "buildDependencyGraph"} =>
       DOMAIN graph = {} /\ path = <<>> /\ visited = {} /\ unread = {}
  /\ phase \in {"validateStepIDs", "buildDependencyGraph", "detectCycles"} =>
       cycle = <<>> /\ queue = <<>>
  /\ phase \in {"validateStepIDs", "buildDependencyGraph", "detectCycles", "enqueue"} =>
       order = <<>>
  /\ phase = "sort" => unread = {}

(* What has been validated so far. *)
Validated ==
  /\ phase = "buildDependencyGraph" => StepIDsValid
  /\ phase \in {"detectCycles", "enqueue", "sort"} => WellFormed
  /\ phase \in {"enqueue", "sort"} => Acyclic(graph)

(* Nodes whose search has returned. *)
Finished == visited \ Range(path)

(* The recursion stack is a path of visited nodes, and whatever it has     *)
(* left behind leads nowhere but to what was left behind, without a cycle. *)
Search ==
  phase = "detectCycles" =>
    /\ \A i, j \in DOMAIN path : path[i] = path[j] => i = j
    /\ Range(path) \subseteq visited
    /\ \A i \in 1 .. (Len(path) - 1) : graph[path[i]] = path[i + 1]
    /\ \A n \in Finished : graph[n] \in Finished \cup {NoStep}
    /\ \A S \in SUBSET Finished : S # {} => \E n \in S : graph[n] \notin S

(* The sorted nodes and those in the queue behind them. *)
Taken == order \o queue

(* The predecessors of n that are not sorted yet. *)
Unsorted(n) == {m \in DOMAIN graph \ Range(order) : graph[m] = n}

(* No step twice in s, each after its last predecessor in sorted, and      *)
(* steps in the order of their last predecessors.                          *)
Fifo(next, sorted, s) ==
  /\ \A i, j \in DOMAIN s : s[i] = s[j] => i = j
  /\ \A i \in DOMAIN s : Released(next, sorted, s[i]) < i
  /\ \A i, j \in DOMAIN s :
       i < j => Released(next, sorted, s[i]) <= Released(next, sorted, s[j])

(* The counters are right, and the queue has what they release, in order.  *)
Sorting ==
  phase \in {"enqueue", "sort"} =>
    /\ \A n \in DOMAIN graph : inDegree[n] = Cardinality(Unsorted(n))
    /\ \A n \in DOMAIN graph : n \in Range(Taken) <=> n \notin unread /\ inDegree[n] = 0
    /\ Fifo(graph, order, Taken)

ValidatorInv ==
  /\ Shape
  /\ NotYet
  /\ Validated
  /\ Search
  /\ Sorting
  /\ AcceptsExactlyAcyclic
  /\ ReportedCycleIsReal
  /\ OrderIsKahn

(* What is valid depends on the template only. *)
LEMMA SameTemplate ==
  ASSUME template' = template
  PROVE  IDs' = IDs /\ StepIDsValid' = StepIDsValid /\ WellFormed' = WellFormed
<1>1. IDs' = IDs
  BY DEF IDs
<1>2. StepIDsValid' = StepIDsValid
  BY <1>1 DEF StepIDsValid
<1>3. ASSUME NEW n PROVE Successor(n)' = Successor(n)
  BY DEF Successor, Range
<1>4. WellFormed' = WellFormed
  BY <1>1, <1>2, <1>3 DEF WellFormed
<1> QED
  BY <1>1, <1>2, <1>4

(* Finitely many IDs. *)
LEMMA IDsFinite ==
  ASSUME template \in Seq(WorkflowStep)
  PROVE  IsFiniteSet(IDs)
<1> DEFINE f == [i \in DOMAIN template |-> template[i].id]
<1>1. DOMAIN template = 1 .. Len(template) /\ Len(template) \in Nat
  OBVIOUS
<1>2. IsFiniteSet(DOMAIN template)
  BY <1>1, FS_Interval
<1>3. f \in Surjection(DOMAIN template, IDs)
  BY DEF Surjection, IDs
<1> HIDE DEF f
<1> QED
  BY <1>2, <1>3, FS_Surjection

(* NoStep is no node. *)
LEMMA NoStepIsNoNode ==
  ASSUME Shape
  PROVE  NoStep \notin DOMAIN graph
  BY ValidatorAssumption DEF Shape

(* Before anything is validated. *)
LEMMA ValidatorInvInit == Init => ValidatorInv
<1> SUFFICES ASSUME Init PROVE ValidatorInv
  OBVIOUS
<1> USE DEF Init
<1>1. DOMAIN graph = {} /\ IsFiniteSet({})
  BY FS_EmptySet
<1>2. \A S : <<>> \in Seq(S)
  OBVIOUS
<1>3. inDegree \in [DOMAIN graph -> Int]
  BY <1>1
<1>4. template \in Seq(WorkflowStep) /\ phase = "validateStepIDs" /\ phase \in Phases
  BY ValidatorAssumption DEF Phases
<1>5. Shape
  BY <1>1, <1>2, <1>3, <1>4 DEF Shape
<1> QED
  BY <1>1, <1>4, <1>5
  DEF ValidatorInv, NotYet, Validated, Search, Sorting, AcceptsExactlyAcyclic,
      ReportedCycleIsReal, OrderIsKahn

(* validateStepIDs *)
LEMMA ValidateStepIDsInv ==
  ASSUME ValidatorInv, ValidateStepIDs
  PROVE  ValidatorInv'
<1> USE DEF ValidateStepIDs, Goto
<1>1. Shape'
  BY DEF ValidatorInv, Shape, Phases, StepIDsValid
<1>2. IDs' = IDs /\ StepIDsValid' = StepIDsValid /\ WellFormed' = WellFormed
  BY SameTemplate
<1>3. NotYet' /\ cycle' = <<>>
  BY DEF ValidatorInv, NotYet
<1>4. Validated'
  BY <1>2 DEF Validated
<1>5. phase' \notin {"detectCycles", "enqueue", "sort"}
  OBVIOUS
<1>6. Search' /\ Sorting'
  BY <1>5 DEF Search, Sorting
<1>7. AcceptsExactlyAcyclic'
  BY <1>2 DEF AcceptsExactlyAcyclic, WellFormed
<1>8. ReportedCycleIsReal' /\ OrderIsKahn'
  BY <1>3 DEF ReportedCycleIsReal, OrderIsKahn
<1> QED
  BY <1>1, <1>3, <1>4, <1>6, <1>7, <1>8 DEF ValidatorInv

(* buildDependencyGraph *)
LEMMA BuildDependencyGraphInv ==
  ASSUME ValidatorInv, BuildDependencyGraph
  PROVE  ValidatorInv'
<1> DEFINE found == \A n \in IDs : Successor(n) \in IDs \cup {NoStep}
<1>0. phase' = (IF found THEN "detectCycles" ELSE "done") /\ valid' = found
  BY DEF BuildDependencyGraph, Goto
<1>1. /\ template' = template /\ visited' = {} /\ path' = <<>> /\ cycle' = <<>>
      /\ queue' = <<>> /\ order' = <<>> /\ unread' = {}
      /\ StepIDsValid
  BY DEF BuildDependencyGraph, ValidatorInv, NotYet, Validated
<1>2. /\ DOMAIN graph' = IDs /\ \A n \in IDs : graph'[n] \in IDs \cup {NoStep}
      /\ inDegree' \in [IDs -> Int]
  BY DEF BuildDependencyGraph
<1>3. IDs' = IDs /\ StepIDsValid' = StepIDsValid /\ WellFormed' = WellFormed
  BY <1>1, SameTemplate
<1>4. IsFiniteSet(IDs) /\ IDs \subseteq StepIDs
  <2>1. template \in Seq(WorkflowStep)
    BY DEF ValidatorInv, Shape
  <2>2. \A i \in DOMAIN template : template[i].id \in StepIDs \cup {NoStep}
    <3>1. \A i \in DOMAIN template : template[i] \in WorkflowStep
      BY <2>1
    <3> QED
      BY <3>1 DEF WorkflowStep
  <2> QED
    BY <1>1, <2>1, <2>2, IDsFinite DEF IDs, StepIDsValid
<1>5. Shape'
  <2>1. template' \in Seq(WorkflowStep) /\ phase' \in Phases /\ valid' \in BOOLEAN
    BY <1>0, <1>1 DEF ValidatorInv, Shape, Phases
  <2>2. <<>> \in Seq(IDs)
    OBVIOUS
  <2> QED
    BY <1>1, <1>2, <1>4, <2>1, <2>2 DEF Shape
<1>6. WellFormed = found
  BY <1>1 DEF WellFormed
<1> HIDE DEF found
<1>7. NotYet'
  BY <1>0, <1>1 DEF NotYet
<1>8. Validated'
  BY <1>0, <1>3, <1>6 DEF Validated
<1>9. Search'
  <2>1. Range(path)' = {} /\ DOMAIN path' = {} /\ Len(path') = 0
    BY <1>1 DEF Range
  <2>2. Finished' = {}
    BY <1>1, <2>1 DEF Finished
  <2>3. 1 .. (Len(path') - 1) = {}
    BY <2>1
  <2> QED
    BY <1>1, <2>1, <2>2, <2>3 DEF Search
<1>10. Sorting'
  BY <1>0 DEF Sorting
<1>11. AcceptsExactlyAcyclic' /\ ReportedCycleIsReal' /\ OrderIsKahn'
  BY <1>0, <1>1, <1>3, <1>6 DEF AcceptsExactlyAcyclic, ReportedCycleIsReal, OrderIsKahn
<1> QED
  BY <1>5, <1>7, <1>8, <1>9, <1>10, <1>11 DEF ValidatorInv

(* What the search and the sort leave alone. *)
LEMMA Unchanging ==
  ASSUME ValidatorInv, UNCHANGED <<template, graph>>, phase \in {"detectCycles", "enqueue", "sort"}
  PROVE  WellFormed' /\ Acyclic(graph)' = Acyclic(graph) /\ NoStep \notin DOMAIN graph
<1>1. WellFormed'
  BY SameTemplate DEF ValidatorInv, Validated
<1>2. Acyclic(graph)' = Acyclic(graph)
  BY DEF Acyclic
<1> QED
  BY <1>1, <1>2, NoStepIsNoNode DEF ValidatorInv

(* While the phase is not done the last three parts say little. *)
LEMMA NotDone ==
  ASSUME phase' # "done", cycle' = <<>>
  PROVE  AcceptsExactlyAcyclic' /\ ReportedCycleIsReal' /\ OrderIsKahn'
  BY DEF AcceptsExactlyAcyclic, ReportedCycleIsReal, OrderIsKahn

(* A node is pushed: it starts the stack, or follows its last node. *)
LEMMA Push ==
  ASSUME ValidatorInv, phase = "detectCycles", NEW n \in DOMAIN graph \ visited,
         path # <<>> => graph[Last(path)] = n,
         visited' = visited \cup {n}, path' = Append(path, n),
         UNCHANGED <<template, phase, valid, graph, cycle, inDegree, unread, queue, order>>
  PROVE  ValidatorInv'
<1>1. /\ path \in Seq(DOMAIN graph) /\ Len(path) \in Nat /\ DOMAIN path = 1 .. Len(path)
      /\ path' \in Seq(DOMAIN graph)
      /\ DOMAIN path' = 1 .. Len(path) + 1 /\ Len(path') = Len(path) + 1
      /\ path'[Len(path) + 1] = n /\ \A i \in 1 .. Len(path) : path'[i] = path[i]
  BY DEF ValidatorInv, Shape
<1>2. Shape'
  BY <1>1 DEF ValidatorInv, Shape
<1>3. NotYet' /\ Validated'
  BY Unchanging DEF ValidatorInv, NotYet, Validated
<1>4. Range(path)' = Range(path) \cup {n}
  BY <1>1 DEF Range
<1>5. Range(path) \subseteq visited /\ \A i \in DOMAIN path : path[i] \in visited
  BY DEF ValidatorInv, Search, Range
<1>6. Finished' = Finished
  BY <1>4, <1>5 DEF Finished
<1>7. \A i, j \in DOMAIN path' : path'[i] = path'[j] => i = j
  BY <1>1, <1>5 DEF ValidatorInv, Search
<1>8. ASSUME NEW i \in 1 .. (Len(path') - 1) PROVE graph[path'[i]] = path'[i + 1]
  <2>1. i \in 1 .. Len(path)
    BY <1>1
  <2>2. CASE i = Len(path)
    <3>1. path # <<>>
      BY <1>1, <2>1
    <3> QED
      BY <1>1, <2>1, <2>2, <3>1 DEF Last
  <2>3. CASE i # Len(path)
    <3>1. i \in 1 .. (Len(path) - 1) /\ i + 1 \in 1 .. Len(path)
      <4> DEFINE L == Len(path)
      <4>1. L \in Nat /\ i \in 1 .. L /\ i # L
        BY <1>1, <2>1, <2>3
      <4> HIDE DEF L
      <4>2. i \in 1 .. (L - 1) /\ i + 1 \in 1 .. L
        BY <4>1
      <4> QED
        BY <4>2 DEF L
    <3> QED
      BY <1>1, <2>1, <3>1 DEF ValidatorInv, Search
  <2> QED
    BY <2>2, <2>3
<1>9. Search'
  BY <1>4, <1>5, <1>6, <1>7, <1>8 DEF ValidatorInv, Search
<1>10. Sorting' /\ phase' # "done" /\ cycle' = <<>>
  BY DEF Sorting, ValidatorInv, NotYet
<1> QED
  BY <1>2, <1>3, <1>9, <1>10, NotDone DEF ValidatorInv

(* The last node of the stack returns: it leads nowhere, or to nodes that  *)
(* have returned.                                                          *)
LEMMA Pop ==
  ASSUME ValidatorInv, phase = "detectCycles", path # <<>>,
         graph[Last(path)] \in Finished \cup {NoStep},
         path' = Front(path),
         UNCHANGED <<template, phase, valid, graph, visited, cycle, inDegree, unread, queue, order>>
  PROVE  ValidatorInv'
<1> DEFINE n == Last(path)
           L == Len(path)
<1>1. /\ path \in Seq(DOMAIN graph) /\ L \in Nat /\ L >= 1 /\ DOMAIN path = 1 .. L
      /\ n = path[L] /\ n \in DOMAIN graph
  BY DEF ValidatorInv, Shape, Last
<1>2. /\ path' \in Seq(DOMAIN graph) /\ DOMAIN path' = 1 .. (L - 1) /\ Len(path') = L - 1
      /\ \A i \in 1 .. (L - 1) : path'[i] = path[i]
  BY <1>1 DEF Front
<1>3. Shape'
  BY <1>2 DEF ValidatorInv, Shape
<1>4. NotYet' /\ Validated'
  <2>1. NotYet'
    BY DEF ValidatorInv, NotYet
  <2> QED
    BY <2>1, Unchanging DEF ValidatorInv, Validated
<1>5. \A i, j \in 1 .. L : path[i] = path[j] => i = j
  BY <1>1 DEF ValidatorInv, Search
<1>6. Range(path)' = Range(path) \ {n}
  <2>1. Range(path) = {path[i] : i \in 1 .. L}
    BY <1>1 DEF Range
  <2>2. Range(path)' = {path[i] : i \in 1 .. (L - 1)}
    BY <1>2 DEF Range
  <2>3. \A i \in 1 .. (L - 1) : i \in 1 .. L /\ path[i] # n
    BY <1>1, <1>5
  <2>4. \A i \in 1 .. L : i \in 1 .. (L - 1) \/ path[i] = n
    BY <1>1
  <2> QED
    BY <2>1, <2>2, <2>3, <2>4
<1>7. n \in Range(path) /\ Range(path) \subseteq visited
  BY <1>1 DEF ValidatorInv, Search, Range
<1>8. Finished' = Finished \cup {n} /\ n \notin Finished
  BY <1>6, <1>7 DEF Finished
<1>9. \A m \in Finished : graph[m] \in Finished \cup {NoStep}
  BY DEF ValidatorInv, Search
<1>10. NoStep \notin Finished \cup {n}
  BY <1>1, NoStepIsNoNode DEF ValidatorInv, Shape, Finished
<1>11. ASSUME NEW S \in SUBSET (Finished \cup {n}), S # {}, \A m \in S : graph[m] \in S
       PROVE  FALSE
  <2>1. n \notin S \/ S \ {n} # {}
    BY <1>8, <1>10, <1>11
  <2>2. \A m \in S \ {n} : graph[m] \in S \ {n}
    BY <1>8, <1>9, <1>10, <1>11
  <2>3. S \ {n} \in SUBSET Finished /\ S \ {n} # {}
    BY <1>11, <2>1
  <2> QED
    BY <2>2, <2>3 DEF ValidatorInv, Search
<1>12. Search'
  <2>1. \A i, j \in DOMAIN path' : path'[i] = path'[j] => i = j
    BY <1>1, <1>2, <1>5
  <2>2. \A i \in 1 .. (Len(path') - 1) : graph[path'[i]] = path'[i + 1]
    <3>1. \A i \in 1 .. (L - 1) : graph[path[i]] = path[i + 1]
      BY DEF ValidatorInv, Search
    <3>2. \A i \in 1 .. ((L - 1) - 1) : i \in 1 .. (L - 1) /\ i + 1 \in 1 .. (L - 1)
      BY <1>1
    <3> HIDE DEF L
    <3> QED
      BY <1>2, <3>1, <3>2
  <2>3. Range(path)' \subseteq visited
    BY <1>6, <1>7
  <2>4. \A m \in Finished' : graph[m] \in Finished' \cup {NoStep}
    BY <1>8, <1>9
  <2>5. \A S \in SUBSET Finished' : S # {} => \E m \in S : graph[m] \notin S
    BY <1>8, <1>11
  <2> QED
    BY <2>1, <2>2, <2>3, <2>4, <2>5 DEF Search
<1>13. Sorting' /\ phase' # "done" /\ cycle' = <<>>
  BY DEF Sorting, ValidatorInv, NotYet
<1> QED
  BY <1>3, <1>4, <1>12, <1>13, NotDone DEF ValidatorInv

(* The last node of the stack leads back into it: the part of the stack    *)
(* from there on is a cycle.                                               *)
LEMMA CycleFound ==
  ASSUME ValidatorInv, phase = "detectCycles", path # <<>>,
         NEW n \in Range(path), graph[Last(path)] = n,
         cycle' = Append(SubSeq(path, SelectInSeq(path, LAMBDA m : m = n), Len(path)), n),
         Goto("done", FALSE),
         UNCHANGED <<template, graph, visited, path, inDegree, unread, queue, order>>
  PROVE  ValidatorInv'
<1> DEFINE L == Len(path)
           k == SelectInSeq(path, LAMBDA m : m = n)
           stack == SubSeq(path, k, L)
<1>1. /\ path \in Seq(DOMAIN graph) /\ L \in Nat /\ L >= 1 /\ DOMAIN path = 1 .. L
      /\ n \in DOMAIN graph /\ graph[path[L]] = n
      /\ \A i \in 1 .. (L - 1) : graph[path[i]] = path[i + 1]
  BY DEF ValidatorInv, Shape, Search, Last, Range
<1>2. k \in 1 .. L /\ path[k] = n
  <2> DEFINE I == {i \in 1 .. L : path[i] = n}
  <2>1. I \in SUBSET Nat /\ I # {}
    BY <1>1 DEF Range
  <2>2. \E x \in I : \A y \in I : x =< y
    BY <2>1, LeastElement
  <2>3. k = Min(I)
    BY <2>1 DEF SelectInSeq
  <2>4. Min(I) \in I
    BY <2>2 DEF Min
  <2> HIDE DEF k
  <2> QED
    BY <2>3, <2>4
<1> HIDE DEF k
<1>3. /\ stack \in Seq(DOMAIN graph) /\ Len(stack) = L - k + 1
      /\ \A i \in 1 .. (L - k + 1) : stack[i] = path[k + i - 1]
  BY <1>1, <1>2
<1>a. cycle' = Append(stack, n)
  BY DEF k
<1> HIDE DEF stack
<1> HIDE DEF L
<1> DEFINE M == L - k + 1
<1>b. M \in Nat /\ M >= 1
  BY <1>1, <1>2
<1>c. Len(stack) = M /\ \A i \in 1 .. M : stack[i] = path[k + i - 1]
  BY <1>3
<1>d. \A i \in 1 .. (M - 1) : graph[path[k + i - 1]] = path[k + (i + 1) - 1]
  <2>1. ASSUME NEW i \in 1 .. (M - 1)
        PROVE  k + i - 1 \in 1 .. (L - 1) /\ k + (i + 1) - 1 = (k + i - 1) + 1
    BY <1>1, <1>2, <2>1
  <2> QED
    BY <1>1, <2>1
<1>e. k + 1 - 1 = k /\ k + M - 1 = L
  BY <1>1, <1>2
<1> HIDE DEF M
<1>4. /\ cycle' \in Seq(DOMAIN graph) /\ Len(cycle') = M + 1 /\ cycle'[M + 1] = n
      /\ \A i \in 1 .. M : cycle'[i] = path[k + i - 1]
  <2>1. /\ cycle' \in Seq(DOMAIN graph) /\ Len(cycle') = M + 1 /\ cycle'[M + 1] = n
        /\ \A i \in 1 .. M : cycle'[i] = stack[i]
    <3>1. stack \in Seq(DOMAIN graph) /\ n \in DOMAIN graph
      BY <1>1, <1>3
    <3>2. /\ Append(stack, n) \in Seq(DOMAIN graph) /\ Len(Append(stack, n)) = Len(stack) + 1
          /\ Append(stack, n)[Len(stack) + 1] = n
          /\ \A i \in 1 .. Len(stack) : Append(stack, n)[i] = stack[i]
      BY <3>1, AppendProperties
    <3> QED
      BY <1>a, <1>c, <3>2
  <2> QED
    BY <1>c, <2>1
<1>5. Len(cycle') > 1 /\ Head(cycle') = Last(cycle')
  <2>1. 1 \in 1 .. M
    BY <1>b
  <2>2. cycle'[1] = n
    BY <1>2, <1>4, <1>e, <2>1
  <2>3. Head(cycle') = cycle'[1]
    BY <1>4
  <2> QED
    BY <1>4, <1>b, <2>2, <2>3 DEF Last
<1>6. ASSUME NEW i \in 1 .. (Len(cycle') - 1) PROVE graph[cycle'[i]] = cycle'[i + 1]
  <2>1. i \in 1 .. M /\ cycle'[i] = path[k + i - 1]
    <3>1. Len(cycle') - 1 = M
      BY <1>4, <1>b
    <3> QED
      BY <1>4, <3>1
  <2>2. CASE i = M
    BY <1>1, <1>4, <1>e, <2>1, <2>2
  <2>3. CASE i # M
    <3>1. i \in 1 .. (M - 1) /\ i + 1 \in 1 .. M
      BY <1>b, <2>1, <2>3
    <3> QED
      BY <1>4, <1>d, <2>1, <3>1
  <2> QED
    BY <2>2, <2>3
<1>7. ReportedCycleIsReal'
  BY <1>5, <1>6 DEF ReportedCycleIsReal
<1>8. ~Acyclic(graph)
  <2>1. IsFiniteSet(DOMAIN graph)
    BY DEF ValidatorInv, Shape
  <2>2. IsCycle(graph, cycle')
    BY <1>5, <1>6 DEF IsCycle
  <2>3. \E s \in Seq(DOMAIN graph) : IsCycle(graph, s)
    BY <1>4, <2>2
  <2> QED
    BY <2>1, <2>3, AcyclicMeansNoCycle
<1>9. phase' = "done" /\ valid' = FALSE
  BY DEF Goto
<1>10. AcceptsExactlyAcyclic'
  BY <1>8, <1>9, Unchanging DEF AcceptsExactlyAcyclic
<1>11. Shape'
  BY <1>4, <1>9 DEF ValidatorInv, Shape, Phases
<1>12. NotYet' /\ Validated' /\ Search' /\ Sorting' /\ OrderIsKahn'
  BY <1>9 DEF NotYet, Validated, Search, Sorting, OrderIsKahn
<1> QED
  BY <1>7, <1>10, <1>11, <1>12 DEF ValidatorInv

(* detectCycleDFS *)
LEMMA VisitNeighborInv ==
  ASSUME ValidatorInv, VisitNeighbor
  PROVE  ValidatorInv'
<1> DEFINE n == graph[Last(path)]
<1>1. phase = "detectCycles" /\ path # <<>>
  BY DEF VisitNeighbor
<1>2. n \in DOMAIN graph \cup {NoStep}
  <2>1. /\ path \in Seq(DOMAIN graph)
        /\ \A m \in DOMAIN graph : graph[m] \in DOMAIN graph \cup {NoStep}
    BY DEF ValidatorInv, Shape
  <2>2. Last(path) \in DOMAIN graph
    BY <1>1, <2>1 DEF Last
  <2> QED
    BY <2>1, <2>2
<1>3. CASE n # NoStep /\ n \notin visited /\ visited' = visited \cup {n} /\ path' = Append(path, n)
           /\ UNCHANGED <<phase, valid, cycle>>
  BY <1>1, <1>2, <1>3, Push DEF VisitNeighbor
<1>4. CASE /\ n \in Range(path)
           /\ cycle' = Append(SubSeq(path, SelectInSeq(path, LAMBDA m : m = n), Len(path)), n)
           /\ Goto("done", FALSE) /\ UNCHANGED <<visited, path>>
  BY <1>1, <1>4, CycleFound DEF VisitNeighbor
<1>5. CASE /\ n = NoStep \/ n \in visited \ Range(path)
           /\ path' = Front(path) /\ UNCHANGED <<phase, valid, visited, cycle>>
  BY <1>1, <1>5, Pop DEF VisitNeighbor, Finished
<1> QED
  BY <1>3, <1>4, <1>5 DEF VisitNeighbor

(* detectCycles starts a search. *)
LEMMA StartDFSInv ==
  ASSUME ValidatorInv, NEW n, StartDFS(n)
  PROVE  ValidatorInv'
<1>1. /\ n \in DOMAIN graph \ visited /\ phase = "detectCycles" /\ path = <<>>
      /\ visited' = visited \cup {n} /\ path' = Append(path, n)
      /\ UNCHANGED <<template, phase, valid, graph, cycle, inDegree, unread, queue, order>>
  BY DEF StartDFS
<1> QED
  BY <1>1, Push

-----------------------------------------------------------------------------
(* Moving the head of one sequence to the end of another changes nothing   *)
(* of their concatenation, ...                                             *)
LEMMA HeadMoves ==
  ASSUME NEW D, NEW s \in Seq(D), NEW t \in Seq(D), t # <<>>
  PROVE  Append(s, Head(t)) \o Tail(t) = s \o t
<1> DEFINE h == Head(t)
           b == Tail(t)
<1>1. h \in D /\ b \in Seq(D) /\ <<h>> \in Seq(D)
  BY HeadTailProperties
<1>2. <<h>> \o b = t
  OBVIOUS
<1> HIDE DEF h, b
<1>3. Append(s, h) = s \o <<h>>
  BY <1>1, AppendIsConcat
<1>4. (s \o <<h>>) \o b = s \o (<<h>> \o b)
  BY <1>1, ConcatAssociative
<1> QED
  BY <1>2, <1>3, <1>4 DEF h, b

(* ... and appending to the second appends to the concatenation. *)
LEMMA AppendMoves ==
  ASSUME NEW D, NEW s \in Seq(D), NEW t \in Seq(D), NEW x \in D
  PROVE  s \o Append(t, x) = Append(s \o t, x)
<1>1. <<x>> \in Seq(D) /\ s \o t \in Seq(D)
  BY ConcatProperties
<1>2. Append(t, x) = t \o <<x>> /\ Append(s \o t, x) = (s \o t) \o <<x>>
  BY <1>1, AppendIsConcat
<1> QED
  BY <1>1, <1>2, ConcatAssociative

(* A step that was released last may be queued at the end. *)
LEMMA FifoAppend ==
  ASSUME NEW next, NEW D, NEW sorted \in Seq(D), NEW s \in Seq(D), NEW x \in D,
         Fifo(next, sorted, s), x \notin Range(s),
         Released(next, sorted, x) <= Len(s),
         \A i \in DOMAIN s : Released(next, sorted, s[i]) <= Released(next, sorted, x)
  PROVE  Fifo(next, sorted, Append(s, x))
<1> DEFINE t == Append(s, x)
           L == Len(s)
           r(n) == Released(next, sorted, n)
<1>1. /\ L \in Nat /\ DOMAIN s = 1 .. L /\ DOMAIN t = 1 .. (L + 1)
      /\ t[L + 1] = x /\ \A i \in 1 .. L : t[i] = s[i] /\ s[i] # x
  BY DEF Range
<1>2. ASSUME NEW n PROVE r(n) \in Nat
  <2>1. Released(next, sorted, n) \in 0 .. Len(sorted)
    BY ReleasedIsLast
  <2> QED
    BY <2>1
<1>3. /\ \A i, j \in 1 .. L : s[i] = s[j] => i = j
      /\ \A i \in 1 .. L : r(s[i]) < i /\ r(s[i]) <= r(x)
      /\ \A i, j \in 1 .. L : i < j => r(s[i]) <= r(s[j])
      /\ r(x) <= L
  BY <1>1 DEF Fifo
<1>4. \A i \in 1 .. (L + 1) : i \in 1 .. L \/ i = L + 1
  BY <1>1
<1>5. \A i \in 1 .. L : ~(L + 1 < i)
  BY <1>1
<1> HIDE DEF t, L, r
<1>6. \A i, j \in DOMAIN t : t[i] = t[j] => i = j
  BY <1>1, <1>3, <1>4
<1>7. \A i \in DOMAIN t : r(t[i]) < i
  BY <1>1, <1>2, <1>3, <1>4
<1>8. \A i, j \in DOMAIN t : i < j => r(t[i]) <= r(t[j])
  BY <1>1, <1>2, <1>3, <1>4, <1>5
<1> QED
  BY <1>6, <1>7, <1>8 DEF Fifo, t, r

(* Nothing is released before anything is sorted. *)
LEMMA NothingReleased ==
  ASSUME NEW next, NEW n
  PROVE  Released(next, <<>>, n) = 0
<1>1. <<>> \in Seq({}) /\ Len(<<>>) = 0
  OBVIOUS
<1>2. Released(next, <<>>, n) \in 0 .. 0
  BY <1>1, ReleasedIsLast
<1> QED
  BY <1>2

(* Range of a sequence with one more element. *)
LEMMA RangeAppend ==
  ASSUME NEW D, NEW s \in Seq(D), NEW x \in D
  PROVE  Range(Append(s, x)) = Range(s) \cup {x}
<1> DEFINE t == Append(s, x)
<1>1. /\ Len(s) \in Nat /\ DOMAIN s = 1 .. Len(s) /\ DOMAIN t = 1 .. Len(s) + 1
      /\ t[Len(s) + 1] = x /\ \A i \in 1 .. Len(s) : t[i] = s[i]
  OBVIOUS
<1>2. \A i : i \in 1 .. Len(s) + 1 <=> i \in 1 .. Len(s) \/ i = Len(s) + 1
  BY <1>1
<1> HIDE DEF t
<1>3. Range(t) = Range(s) \cup {x}
  BY <1>1, <1>2 DEF Range
<1> QED
  BY <1>3 DEF t

(* Types of what is sorted. *)
LEMMA SortFacts ==
  ASSUME ValidatorInv
  PROVE  /\ order \in Seq(DOMAIN graph) /\ queue \in Seq(DOMAIN graph)
         /\ Taken \in Seq(DOMAIN graph) /\ Len(Taken) = Len(order) + Len(queue)
         /\ Range(Taken) = Range(order) \cup Range(queue)
         /\ \A n : IsFiniteSet(Unsorted(n)) /\ Cardinality(Unsorted(n)) \in Nat
<1>1. order \in Seq(DOMAIN graph) /\ queue \in Seq(DOMAIN graph) /\ IsFiniteSet(DOMAIN graph)
  BY DEF ValidatorInv, Shape
<1>2. /\ Taken \in Seq(DOMAIN graph) /\ Len(Taken) = Len(order) + Len(queue)
      /\ Range(Taken) = Range(order) \cup Range(queue)
  BY <1>1, ConcatProperties, RangeConcatenation DEF Taken
<1>3. ASSUME NEW n PROVE IsFiniteSet(Unsorted(n)) /\ Cardinality(Unsorted(n)) \in Nat
  <2>1. Unsorted(n) \in SUBSET DOMAIN graph
    BY DEF Unsorted
  <2> QED
    BY <1>1, <2>1, FS_Subset, FS_CardinalityType
<1> QED
  BY <1>1, <1>2, <1>3

(* The search has found no cycle, and the counting begins. *)
LEMMA CountInDegreesInv ==
  ASSUME ValidatorInv, CountInDegrees
  PROVE  ValidatorInv'
<1>1. /\ phase = "detectCycles" /\ path = <<>> /\ visited = DOMAIN graph
      /\ inDegree' = [n \in DOMAIN graph |-> Cardinality(Predecessors(graph, n))]
      /\ unread' = DOMAIN graph /\ phase' = "enqueue" /\ valid' = TRUE
      /\ UNCHANGED <<template, graph, visited, path, cycle, queue, order>>
      /\ cycle = <<>> /\ queue = <<>> /\ order = <<>>
  BY DEF CountInDegrees, Goto, ValidatorInv, NotYet
<1>2. Range(<<>>) = {}
  BY DEF Range
<1>3. Acyclic(graph)
  <2>1. Finished = DOMAIN graph
    BY <1>1, <1>2 DEF Finished
  <2> QED
    BY <1>1, <2>1 DEF ValidatorInv, Search, Acyclic
<1>4. Validated'
  BY <1>1, <1>3, Unchanging DEF Validated
<1>5. ASSUME NEW n \in DOMAIN graph
      PROVE  /\ Cardinality(Predecessors(graph, n)) \in Nat
             /\ Unsorted(n)' = Predecessors(graph, n)
  <2>1. Unsorted(n) = Predecessors(graph, n)
    BY <1>1, <1>2 DEF Unsorted, Predecessors
  <2>2. Unsorted(n)' = Unsorted(n)
    BY <1>1 DEF Unsorted
  <2> QED
    BY <2>1, <2>2, SortFacts
<1>6. Shape'
  BY <1>1, <1>5 DEF ValidatorInv, Shape, Phases
<1>7. NotYet' /\ Search'
  BY <1>1 DEF NotYet, Search
<1>8. Taken' = <<>> /\ DOMAIN Taken' = {} /\ Range(Taken)' = {}
  BY <1>1, <1>2 DEF Taken
<1>9. Fifo(graph, order, Taken)'
  BY <1>8 DEF Fifo
<1>10. Sorting'
  BY <1>1, <1>5, <1>8, <1>9 DEF Sorting
<1>11. phase' # "done" /\ cycle' = <<>>
  BY <1>1
<1> QED
  BY <1>4, <1>6, <1>7, <1>10, <1>11, NotDone DEF ValidatorInv

(* Another root is read. *)
LEMMA EnqueueRootsInv ==
  ASSUME ValidatorInv, NEW n, EnqueueRoots(n)
  PROVE  ValidatorInv'
<1>1. /\ phase = "enqueue" /\ n \in unread /\ n \in DOMAIN graph /\ unread' = unread \ {n}
      /\ queue' = (IF inDegree[n] = 0 THEN Append(queue, n) ELSE queue)
      /\ UNCHANGED <<template, phase, valid, graph, visited, path, cycle, inDegree, order>>
      /\ order = <<>>
  BY DEF EnqueueRoots, ValidatorInv, NotYet, Shape
<1>2. /\ queue \in Seq(DOMAIN graph) /\ Taken \in Seq(DOMAIN graph)
      /\ order \in Seq(DOMAIN graph)
  BY SortFacts
<1>3. Shape'
  <2>1. queue' \in Seq(DOMAIN graph)
    BY <1>1, <1>2, AppendProperties
  <2>2. unread' \subseteq DOMAIN graph
    BY <1>1 DEF ValidatorInv, Shape
  <2> QED
    BY <1>1, <2>1, <2>2 DEF ValidatorInv, Shape
<1>4. Validated' /\ Search'
  BY <1>1, Unchanging DEF ValidatorInv, Validated, Search
<1>5. Taken' = IF inDegree[n] = 0 THEN Append(Taken, n) ELSE Taken
  BY <1>1, <1>2, AppendMoves DEF Taken
<1>6. n \notin Range(Taken)
  BY <1>1 DEF ValidatorInv, Sorting
<1>7. Fifo(graph, order, Taken)'
  <2>1. CASE inDegree[n] = 0
    <3>1. /\ Released(graph, order, n) <= Len(Taken)
          /\ \A i \in DOMAIN Taken :
               Released(graph, order, Taken[i]) <= Released(graph, order, n)
      <4>1. \A m : Released(graph, order, m) = 0
        BY <1>1, NothingReleased
      <4>2. 0 <= Len(Taken)
        BY <1>2
      <4> QED
        BY <4>1, <4>2
    <3>2. Fifo(graph, order, Taken)
      BY <1>1 DEF ValidatorInv, Sorting
    <3>4. Fifo(graph, order, Append(Taken, n))
      BY <1>1, <1>2, <1>6, <3>1, <3>2, FifoAppend
    <3>5. Taken' = Append(Taken, n)
      BY <1>5, <2>1
    <3> QED
      BY <1>1, <3>4, <3>5 DEF Fifo
  <2>2. CASE inDegree[n] # 0
    <3>1. Taken' = Taken
      BY <1>5, <2>2
    <3> QED
      BY <1>1, <3>1 DEF ValidatorInv, Sorting, Fifo
  <2> QED
    BY <2>1, <2>2
<1>8. Range(Taken)' = IF inDegree[n] = 0 THEN Range(Taken) \cup {n} ELSE Range(Taken)
  <2>1. Range(Append(Taken, n)) = Range(Taken) \cup {n}
    BY <1>1, <1>2, RangeAppend
  <2>2. CASE inDegree[n] = 0
    BY <1>5, <2>1, <2>2
  <2>3. CASE inDegree[n] # 0
    BY <1>5, <2>3
  <2> QED
    BY <2>2, <2>3
<1>9. ASSUME NEW m \in DOMAIN graph
      PROVE  /\ inDegree'[m] = Cardinality(Unsorted(m)')
             /\ m \in Range(Taken)' <=> m \notin unread' /\ inDegree'[m] = 0
  <2>1. Unsorted(m)' = Unsorted(m)
    BY <1>1 DEF Unsorted
  <2> QED
    BY <1>1, <1>8, <2>1 DEF ValidatorInv, Sorting
<1>10. Sorting'
  BY <1>1, <1>7, <1>9 DEF Sorting
<1>11. NotYet' /\ phase' # "done" /\ cycle' = cycle
  BY <1>1 DEF ValidatorInv, NotYet
<1>12. AcceptsExactlyAcyclic' /\ ReportedCycleIsReal' /\ OrderIsKahn'
  BY <1>1, <1>11 DEF ValidatorInv, AcceptsExactlyAcyclic, ReportedCycleIsReal, OrderIsKahn
<1> QED
  BY <1>3, <1>4, <1>10, <1>11, <1>12 DEF ValidatorInv

(* All nodes have been read. *)
LEMMA StartSortInv ==
  ASSUME ValidatorInv, StartSort
  PROVE  ValidatorInv'
<1>1. /\ phase = "enqueue" /\ unread = {} /\ phase' = "sort" /\ valid' = TRUE
      /\ UNCHANGED <<template, graph, visited, path, cycle, inDegree, unread, queue, order>>
  BY DEF StartSort, Goto
<1>2. Shape' /\ NotYet' /\ Search'
  BY <1>1 DEF ValidatorInv, Shape, Phases, NotYet, Search
<1>3. Validated'
  BY <1>1, Unchanging DEF ValidatorInv, Validated
<1>4. Taken' = Taken /\ \A n : Unsorted(n)' = Unsorted(n)
  BY <1>1 DEF Taken, Unsorted
<1>5. Fifo(graph, order, Taken)'
  BY <1>1, <1>4 DEF ValidatorInv, Sorting, Fifo
<1>6. Sorting'
  BY <1>1, <1>4, <1>5 DEF ValidatorInv, Sorting
<1>7. AcceptsExactlyAcyclic' /\ ReportedCycleIsReal' /\ OrderIsKahn'
  BY <1>1 DEF ValidatorInv, AcceptsExactlyAcyclic, ReportedCycleIsReal, OrderIsKahn
<1> QED
  BY <1>2, <1>3, <1>6, <1>7 DEF ValidatorInv

(* The first node of the queue is not sorted yet, and no predecessor of    *)
(* a node that is sorted or in the queue.                                  *)
LEMMA FirstOfQueue ==
  ASSUME ValidatorInv, phase = "sort", queue # <<>>
  PROVE  /\ Head(queue) \in DOMAIN graph \ Range(order)
         /\ \A m \in Range(Taken) : graph[Head(queue)] # m
<1> DEFINE node == Head(queue)
           k == Len(order) + 1
<1>1. /\ order \in Seq(DOMAIN graph) /\ queue \in Seq(DOMAIN graph)
      /\ Taken \in Seq(DOMAIN graph) /\ Len(Taken) = Len(order) + Len(queue)
  BY SortFacts
<1>2. /\ Len(order) \in Nat /\ Len(queue) \in Nat /\ Len(queue) >= 1
      /\ node = queue[1] /\ node \in DOMAIN graph
  BY <1>1
<1>3. /\ k \in DOMAIN Taken /\ Taken[k] = node
      /\ \A i \in DOMAIN order : i \in DOMAIN Taken /\ i # k /\ Taken[i] = order[i]
  <2>1. \A i \in 1 .. Len(order) + Len(queue) :
          Taken[i] = IF i <= Len(order) THEN order[i] ELSE queue[i - Len(order)]
    BY <1>1, ConcatProperties DEF Taken
  <2>2. DOMAIN Taken = 1 .. Len(order) + Len(queue) /\ DOMAIN order = 1 .. Len(order)
    BY <1>1
  <2>3. k \in 1 .. Len(order) + Len(queue) /\ ~(k <= Len(order)) /\ k - Len(order) = 1
    BY <1>2
  <2>4. ASSUME NEW i \in 1 .. Len(order)
        PROVE  i \in 1 .. Len(order) + Len(queue) /\ i <= Len(order) /\ i # k
    BY <1>2
  <2> HIDE DEF k
  <2> QED
    BY <1>2, <2>1, <2>2, <2>3, <2>4
<1> HIDE DEF k
<1>4. node \notin Range(order)
  <2>1. \A i, j \in DOMAIN Taken : Taken[i] = Taken[j] => i = j
    BY DEF ValidatorInv, Sorting, Fifo
  <2> QED
    BY <1>3, <2>1 DEF Range
<1>5. ASSUME NEW m \in Range(Taken) PROVE graph[node] # m
  <2>1. m \in DOMAIN graph
    BY <1>1 DEF Range
  <2>2. Cardinality(Unsorted(m)) = 0
    BY <2>1 DEF ValidatorInv, Sorting
  <2>3. Unsorted(m) = {}
    BY <2>2, SortFacts, FS_EmptySet
  <2> QED
    BY <1>2, <1>4, <2>3 DEF Unsorted
<1> QED
  BY <1>2, <1>4, <1>5

(* The first node of the queue is sorted. *)
LEMMA DequeueInv ==
  ASSUME ValidatorInv, Dequeue
  PROVE  ValidatorInv'
<1> DEFINE node == Head(queue)
           next == graph[node]
           freed == next # NoStep /\ inDegree[next] = 1
<1>1. /\ phase = "sort" /\ queue # <<>> /\ order' = Append(order, node)
      /\ inDegree' = (IF next = NoStep THEN inDegree
                      ELSE [inDegree EXCEPT ![next] = @ - 1])
      /\ queue' = (IF freed THEN Append(Tail(queue), next) ELSE Tail(queue))
      /\ UNCHANGED <<template, phase, valid, graph, visited, path, cycle, unread>>
      /\ unread = {} /\ cycle = cycle'
  BY DEF Dequeue, Process, ValidatorInv, NotYet
<1>2. /\ order \in Seq(DOMAIN graph) /\ queue \in Seq(DOMAIN graph)
      /\ Taken \in Seq(DOMAIN graph) /\ Len(Taken) = Len(order) + Len(queue)
      /\ \A n : IsFiniteSet(Unsorted(n)) /\ Cardinality(Unsorted(n)) \in Nat
  BY SortFacts
<1>3. node \in DOMAIN graph \ Range(order) /\ \A m \in Range(Taken) : next # m
  BY <1>1, FirstOfQueue
<1>4. next \in DOMAIN graph \cup {NoStep} /\ NoStep \notin DOMAIN graph
  BY <1>3, NoStepIsNoNode DEF ValidatorInv, Shape
<1>5. inDegree \in [DOMAIN graph -> Int]
  BY DEF ValidatorInv, Shape
<1>6. Tail(queue) \in Seq(DOMAIN graph) /\ Append(order, node) \in Seq(DOMAIN graph)
  BY <1>1, <1>2, <1>3, HeadTailProperties, AppendProperties
<1> HIDE DEF node, next
<1>7. Shape'
  <2>1. order' \in Seq(DOMAIN graph)
    BY <1>1, <1>6
  <2>2. queue' \in Seq(DOMAIN graph)
    BY <1>1, <1>4, <1>6, AppendProperties
  <2>3. inDegree' \in [DOMAIN graph -> Int]
    BY <1>1, <1>4, <1>5
  <2> QED
    BY <1>1, <2>1, <2>2, <2>3 DEF ValidatorInv, Shape
<1>8. Range(order)' = Range(order) \cup {node}
  <2>1. Range(Append(order, node)) = Range(order) \cup {node}
    BY <1>2, <1>3, RangeAppend
  <2> QED
    BY <1>1, <2>1
<1>9. Taken' = IF freed THEN Append(Taken, next) ELSE Taken
  <2>1. Append(order, node) \o Tail(queue) = Taken
    BY <1>1, <1>2, HeadMoves DEF Taken, node
  <2>2. CASE freed
    <3>1. next \in DOMAIN graph
      BY <1>4, <2>2
    <3>2. Append(order, node) \o Append(Tail(queue), next)
            = Append(Append(order, node) \o Tail(queue), next)
      BY <1>6, <3>1, AppendMoves
    <3>3. queue' = Append(Tail(queue), next)
      BY <1>1, <2>2
    <3> QED
      BY <1>1, <2>1, <2>2, <3>2, <3>3 DEF Taken
  <2>3. CASE ~freed
    <3>1. queue' = Tail(queue)
      BY <1>1, <2>3
    <3> QED
      BY <1>1, <2>1, <2>3, <3>1 DEF Taken
  <2> QED
    BY <2>2, <2>3
<1>10. next \notin Range(Taken)
  BY <1>3
<1>11. Range(Taken)' = IF freed THEN Range(Taken) \cup {next} ELSE Range(Taken)
  <2>1. CASE freed
    <3>1. Range(Append(Taken, next)) = Range(Taken) \cup {next}
      BY <1>2, <1>4, <2>1, RangeAppend
    <3> QED
      BY <1>9, <2>1, <3>1
  <2>2. CASE ~freed
    BY <1>9, <2>2
  <2> QED
    BY <2>1, <2>2
<1>12. ASSUME NEW m \in DOMAIN graph
       PROVE  /\ inDegree'[m] = Cardinality(Unsorted(m)')
              /\ m \in Range(Taken)' <=> m \notin unread' /\ inDegree'[m] = 0
  <2>1. /\ inDegree[m] = Cardinality(Unsorted(m)) /\ inDegree[m] \in Nat
        /\ m \in Range(Taken) <=> inDegree[m] = 0
    BY <1>1, <1>2 DEF ValidatorInv, Sorting
  <2>2. Unsorted(m)' = Unsorted(m) \ {node}
    BY <1>1, <1>8 DEF Unsorted
  <2>3. CASE m = next
    <3>1. node \in Unsorted(m)
      BY <1>3, <2>3 DEF Unsorted, next
    <3>2. Cardinality(Unsorted(m) \ {node}) = Cardinality(Unsorted(m)) - 1
      BY <1>2, <3>1, FS_RemoveElement
    <3>3. inDegree'[m] = inDegree[m] - 1 /\ inDegree[m] # 0
      BY <1>1, <1>4, <1>5, <1>10, <2>1, <2>3
    <3>4. m \in Range(Taken)' <=> inDegree[m] = 1
      BY <1>4, <1>10, <1>11, <2>3
    <3> QED
      BY <1>1, <2>1, <2>2, <3>2, <3>3, <3>4
  <2>4. CASE m # next
    <3>1. node \notin Unsorted(m)
      BY <2>4 DEF Unsorted, next
    <3>2. Unsorted(m)' = Unsorted(m)
      BY <2>2, <3>1
    <3>3. inDegree'[m] = inDegree[m]
      BY <1>1, <1>4, <1>5, <2>4
    <3>4. m \in Range(Taken)' <=> m \in Range(Taken)
      BY <1>11, <2>4
    <3> QED
      BY <1>1, <2>1, <3>2, <3>3, <3>4
  <2> QED
    BY <2>3, <2>4
<1>13. Fifo(graph, Append(order, node), Taken)
  <2>1. Fifo(graph, order, Taken)
    BY <1>1 DEF ValidatorInv, Sorting
  <2>2. ASSUME NEW i \in DOMAIN Taken
        PROVE  Released(graph, Append(order, node), Taken[i]) = Released(graph, order, Taken[i])
    <3>1. Taken[i] \in Range(Taken)
      BY DEF Range
    <3> QED
      BY <1>2, <1>3, <3>1, ReleasedSame DEF next
  <2> QED
    BY <2>1, <2>2 DEF Fifo
<1>14. Fifo(graph, order, Taken)'
  <2>1. CASE freed
    <3> DEFINE s == Append(order, node)
               n == Len(order) + 1
    <3>1. next \in DOMAIN graph
      BY <1>4, <2>1
    <3>2. Released(graph, s, next) = n
      BY <1>2, <1>3, ReleasedNow DEF next
    <3>3. Len(order) \in Nat /\ Len(queue) \in Nat /\ Len(queue) >= 1
      BY <1>1, <1>2
    <3>4. Len(s) = n
      BY <1>2, <1>3, AppendProperties
    <3> HIDE DEF s
    <3>5. n <= Len(Taken)
      BY <1>2, <3>3
    <3>6. \A i \in DOMAIN Taken : Released(graph, s, Taken[i]) <= n
      <4>1. s \in Seq(DOMAIN graph)
        BY <1>6 DEF s
      <4>2. \A m : Released(graph, s, m) \in 0 .. Len(s)
        BY <4>1, ReleasedIsLast
      <4>3. \A r \in 0 .. n : r <= n
        BY <3>3
      <4> HIDE DEF n
      <4> QED
        BY <3>4, <4>2, <4>3
    <3>7. Fifo(graph, s, Append(Taken, next))
      <4>1. Fifo(graph, s, Taken) /\ s \in Seq(DOMAIN graph)
        BY <1>6, <1>13 DEF s
      <4> HIDE DEF n
      <4>2. /\ Released(graph, s, next) <= Len(Taken)
            /\ \A i \in DOMAIN Taken : Released(graph, s, Taken[i]) <= Released(graph, s, next)
        BY <3>2, <3>5, <3>6
      <4> QED
        BY <1>2, <1>10, <3>1, <4>1, <4>2, FifoAppend
    <3>8. Taken' = Append(Taken, next) /\ order' = s /\ graph' = graph
      BY <1>1, <1>9, <2>1 DEF s
    <3> QED
      BY <3>7, <3>8 DEF Fifo
  <2>2. CASE ~freed
    <3>1. Taken' = Taken /\ order' = Append(order, node) /\ graph' = graph
      BY <1>1, <1>9, <2>2
    <3> QED
      BY <1>13, <3>1 DEF Fifo
  <2> QED
    BY <2>1, <2>2
<1>15. Sorting'
  BY <1>1, <1>12, <1>14 DEF Sorting
<1>16. NotYet' /\ Search'
  BY <1>1 DEF ValidatorInv, NotYet, Search
<1>17. Validated'
  BY <1>1, Unchanging DEF ValidatorInv, Validated
<1>18. AcceptsExactlyAcyclic' /\ ReportedCycleIsReal' /\ OrderIsKahn'
  BY <1>1 DEF ValidatorInv, AcceptsExactlyAcyclic, ReportedCycleIsReal, OrderIsKahn
<1> QED
  BY <1>7, <1>15, <1>16, <1>17, <1>18 DEF ValidatorInv

(* With the queue empty all nodes are sorted: each of the others would     *)
(* have a predecessor among the others, and they would lead only to each   *)
(* other.                                                                  *)
LEMMA AllSorted ==
  ASSUME ValidatorInv, phase = "sort", queue = <<>>
  PROVE  Range(order) = DOMAIN graph
<1> DEFINE U == DOMAIN graph \ Range(order)
<1>1. /\ order \in Seq(DOMAIN graph) /\ Range(Taken) = Range(order) \cup Range(queue)
      /\ \A n : IsFiniteSet(Unsorted(n))
  BY SortFacts
<1>2. Range(Taken) = Range(order) /\ Range(order) \in SUBSET DOMAIN graph
  <2>1. Range(queue) = {}
    <3>1. DOMAIN queue = {}
      OBVIOUS
    <3> QED
      BY <3>1 DEF Range
  <2>2. \A i \in DOMAIN order : order[i] \in DOMAIN graph
    BY <1>1
  <2>3. Range(order) \subseteq DOMAIN graph
    BY <2>2 DEF Range
  <2> QED
    BY <1>1, <2>1, <2>3
<1>3. IsFiniteSet(U) /\ U \in SUBSET DOMAIN graph
  <2>1. IsFiniteSet(DOMAIN graph)
    BY DEF ValidatorInv, Shape
  <2> QED
    BY <2>1, FS_Subset
<1>4. ASSUME NEW n \in U PROVE \E m \in U : graph[m] = n
  <2>1. Cardinality(Unsorted(n)) # 0
    BY <1>2 DEF ValidatorInv, Sorting, NotYet
  <2>2. Unsorted(n) # {}
    BY <2>1, FS_EmptySet
  <2> QED
    BY <2>2 DEF Unsorted
<1>5. \A m \in U : graph[m] \in U
  <2> HIDE DEF U
  <2> QED
    BY <1>3, <1>4, AllPredecessorsInside
<1>6. Acyclic(graph)
  BY DEF ValidatorInv, Validated
<1>7. U = {}
  <2> HIDE DEF U
  <2> QED
    BY <1>3, <1>5, <1>6 DEF Acyclic
<1> QED
  BY <1>2, <1>7

(* topologicalSort returns. *)
LEMMA FinishSortInv ==
  ASSUME ValidatorInv, FinishSort
  PROVE  ValidatorInv'
<1>1. /\ phase = "sort" /\ queue = <<>> /\ phase' = "done"
      /\ valid' = (Len(order) = Cardinality(DOMAIN graph))
      /\ UNCHANGED <<template, graph, visited, path, cycle, inDegree, unread, queue, order>>
  BY DEF FinishSort, Goto
<1>2. order \in Seq(DOMAIN graph)
  BY SortFacts
<1>3. Taken = order
  BY <1>1, <1>2 DEF Taken
<1>4. Fifo(graph, order, order)
  BY <1>1, <1>3 DEF ValidatorInv, Sorting
<1>5. Range(order) = DOMAIN graph
  BY <1>1, AllSorted
<1>6. Cardinality(DOMAIN graph) = Len(order)
  <2>1. \A i, j \in DOMAIN order : order[i] = order[j] => i = j
    BY <1>4 DEF Fifo
  <2>2. Cardinality(Range(order)) = Len(order)
    BY <1>2, <2>1, DistinctLength
  <2> QED
    BY <1>5, <2>2
<1>7. valid'
  BY <1>1, <1>6
<1>8. order \in KahnOrders(graph)
  <2>1. order \in SetToSeqs(DOMAIN graph)
    <3>1. order \in [1 .. Len(order) -> DOMAIN graph] /\ DOMAIN order = 1 .. Len(order)
      BY <1>2
    <3> QED
      BY <1>4, <1>6, <3>1 DEF SetToSeqs, Fifo
  <2> QED
    BY <1>4, <2>1 DEF KahnOrders, Fifo
<1>9. OrderIsKahn'
  <2>1. order' \in KahnOrders(graph')
    BY <1>1, <1>8
  <2> QED
    BY <2>1 DEF OrderIsKahn
<1>10. AcceptsExactlyAcyclic'
  <2>1. WellFormed' /\ Acyclic(graph)' = Acyclic(graph)
    BY <1>1, Unchanging
  <2>2. Acyclic(graph)
    BY <1>1 DEF ValidatorInv, Validated
  <2> QED
    BY <1>7, <2>1, <2>2 DEF AcceptsExactlyAcyclic
<1>11. Shape'
  BY <1>1, <1>7 DEF ValidatorInv, Shape, Phases
<1>12. NotYet' /\ Validated' /\ Search' /\ Sorting'
  BY <1>1 DEF NotYet, Validated, Search, Sorting
<1>13. ReportedCycleIsReal'
  BY <1>1 DEF ValidatorInv, ReportedCycleIsReal
<1> QED
  BY <1>9, <1>10, <1>11, <1>12, <1>13 DEF ValidatorInv

(* Nothing happens. *)
LEMMA ValidatorStutter ==
  ASSUME ValidatorInv, UNCHANGED vars
  PROVE  ValidatorInv'
<1> USE DEF vars
<1>1. StepIDsValid' = StepIDsValid /\ WellFormed' = WellFormed /\ Acyclic(graph)' = Acyclic(graph)
  BY SameTemplate DEF Acyclic
<1>2. Shape' /\ NotYet' /\ Search'
  <2>1. Shape'
    BY DEF ValidatorInv, Shape
  <2>2. NotYet'
    BY DEF ValidatorInv, NotYet
  <2>3. Finished' = Finished
    BY DEF Finished
  <2>4. Search'
    BY <2>3 DEF ValidatorInv, Search
  <2> QED
    BY <2>1, <2>2, <2>4
<1>3. Validated' /\ AcceptsExactlyAcyclic'
  BY <1>1 DEF ValidatorInv, Validated, AcceptsExactlyAcyclic
<1>4. Taken' = Taken /\ \A n : Unsorted(n)' = Unsorted(n)
  BY DEF Taken, Unsorted
<1>5. Fifo(graph, order, Taken)' <=> Fifo(graph, order, Taken)
  BY <1>4 DEF Fifo
<1>6. Sorting'
  BY <1>4, <1>5 DEF ValidatorInv, Sorting
<1>7. ReportedCycleIsReal' /\ OrderIsKahn'
  BY DEF ValidatorInv, ReportedCycleIsReal, OrderIsKahn
<1> QED
  BY <1>2, <1>3, <1>6, <1>7 DEF ValidatorInv

(* One lemma for each action of the validator. *)
LEMMA ValidatorStep == ValidatorInv /\ [Next]_vars => ValidatorInv'
<1> SUFFICES ASSUME ValidatorInv, [Next]_vars PROVE ValidatorInv'
  OBVIOUS
<1>1. CASE ValidateStepIDs
  BY <1>1, ValidateStepIDsInv
<1>2. CASE BuildDependencyGraph
  BY <1>2, BuildDependencyGraphInv
<1>3. ASSUME NEW n \in StepIDs, StartDFS(n) PROVE ValidatorInv'
  BY <1>3, StartDFSInv
<1>4. ASSUME NEW n \in StepIDs, EnqueueRoots(n) PROVE ValidatorInv'
  BY <1>4, EnqueueRootsInv
<1>5. CASE VisitNeighbor
  BY <1>5, VisitNeighborInv
<1>6. CASE CountInDegrees
  BY <1>6, CountInDegreesInv
<1>7. CASE StartSort
  BY <1>7, StartSortInv
<1>8. CASE Dequeue
  BY <1>8, DequeueInv
<1>9. CASE FinishSort
  BY <1>9, FinishSortInv
<1>10. CASE UNCHANGED vars
  BY <1>10, ValidatorStutter
<1> QED
  BY <1>1, <1>2, <1>3, <1>4, <1>5, <1>6, <1>7, <1>8, <1>9, <1>10 DEF Next

(* So the invariant holds whatever is submitted, in any order of the maps. *)
LEMMA ValidatorInvariant == Spec => []ValidatorInv
  BY ValidatorInvInit, ValidatorStep, PTL DEF Spec

(* The variables of ValidateTemplate keep their types; in particular the   *)
(* stack, the queue and the order hold IDs of steps and never the empty    *)
(* one, which ends a search.                                               *)
THEOREM ValidatorTypes == Spec => []TypeOK
<1>1. ASSUME ValidatorInv PROVE TypeOK
  <2>1. \A s \in Seq(DOMAIN graph) : s \in Seq(StepIDs)
    BY <1>1 DEF ValidatorInv, Shape
  <2>2. \A n \in DOMAIN graph : graph[n] \in StepIDs \cup {NoStep}
    BY <1>1 DEF ValidatorInv, Shape
  <2> QED
    BY <1>1, <2>1, <2>2 DEF ValidatorInv, Shape, TypeOK
<1> QED
  BY ValidatorInvariant, <1>1, PTL

(* ValidateTemplate returns with Valid set exactly when the step IDs are   *)
(* sound, every NextStepID names a step and the graph has no cycle,        *)
(* whatever order detectCycles iterates over its map in: nodes it has left *)
(* behind lead nowhere but to each other and have no cycle, so that it     *)
(* need not look at them again, and the sort that follows leaves none out. *)
THEOREM ValidatorIsExact == Spec => []AcceptsExactlyAcyclic
<1>1. ValidatorInv => AcceptsExactlyAcyclic
  BY DEF ValidatorInv
<1> QED
  BY ValidatorInvariant, <1>1, PTL

(* The CyclePath that detectCycleDFS cuts out of its stack follows the     *)
(* NextStepIDs and ends with the step it began with.                       *)
THEOREM CyclePathIsACycle == Spec => []ReportedCycleIsReal
<1>1. ValidatorInv => ReportedCycleIsReal
  BY DEF ValidatorInv
<1> QED
  BY ValidatorInvariant, <1>1, PTL

(* The ExecutionOrder of an accepted template has every step once, after   *)
(* its predecessors, in the order of a FIFO queue: topologicalSort returns *)
(* what WorkflowExecution takes the execution order from.                  *)
THEOREM ExecutionOrderIsKahn == Spec => []OrderIsKahn
<1>1. ValidatorInv => OrderIsKahn
  BY DEF ValidatorInv
<1> QED
  BY ValidatorInvariant, <1>1, PTL

-----------------------------------------------------------------------------
(* PendingApproval *)

(* An entry of the map is filed under its own step, and no call for the    *)
(* step began after its request did while that was in progress.            *)
FiledUnderStep ==
  \A s \in Steps : pending[s] # None =>
    StepOf[pending[s]] = s /\ \A q \in Requests : pending[s] \notin open[q]

(* What open records: calls that have begun, for the same step; of two     *)
(* calls for one step in progress, one was there when the other began.     *)
OpenIsOverlap ==
  /\ \A q, r \in Requests : r \in open[q] =>
       StepOf[q] = StepOf[r] /\ at[q] # "idle" /\ at[r] # "idle"
  /\ \A q, r \in Requests :
       q # r /\ StepOf[q] = StepOf[r] /\ InProgress(q) /\ InProgress(r) =>
         q \in open[r] \/ r \in open[q]

(* The answer a, if it decides r, was given to r or to an earlier call for *)
(* its step.                                                               *)
GivenBefore(a, r) ==
  \E q \in Requests : StepOf[q] = StepOf[r] /\ r \notin open[q] /\ a \in answers[q]

ChannelsAreAnswered == \A r \in Requests : channel[r] # "empty" => GivenBefore(channel[r], r)

(* Answers on their way were given, to a request that has begun, and are   *)
(* sent to that request or to a later one for its step.                    *)
InFlightIsAnswered ==
  /\ \A r \in Requests : answers[r] # {} => at[r] # "idle"
  /\ \A m \in messages : m.answer \in answers[m.about]
  /\ \A d \in sends : /\ StepOf[d.to] = StepOf[d.about] /\ d.to \notin open[d.about]
                      /\ d.answer \in answers[d.about]
  /\ ChannelsAreAnswered

ApprovalInv ==
  /\ ApprovalTypeOK
  /\ FiledUnderStep
  /\ OpenIsOverlap
  /\ InFlightIsAnswered
  /\ ResultIsTheAnswer
  /\ WaitingIsPending
  /\ ReturnedIsForgotten

(* It holds before any request. *)
LEMMA ApprovalInvInit == ApprovalInit => ApprovalInv
  BY StepOfAssumption, NoneAssumption
  DEF ApprovalInit, ApprovalInv, ApprovalTypeOK, FiledUnderStep, OpenIsOverlap, InProgress,
      InFlightIsAnswered, ChannelsAreAnswered, ResultIsTheAnswer, WaitingIsPending,
      ReturnedIsForgotten, Answer, Message, Send

(* Every step keeps the types. *)
LEMMA ApprovalTypeStep == ApprovalTypeOK /\ [ApprovalNext]_approvalVars => ApprovalTypeOK'
<1> SUFFICES ASSUME ApprovalTypeOK, [ApprovalNext]_approvalVars PROVE ApprovalTypeOK'
  OBVIOUS
<1> USE StepOfAssumption DEF ApprovalTypeOK, Answer
<1>1. CASE UNCHANGED approvalVars
  BY <1>1 DEF approvalVars
<1>2. ASSUME NEW r \in Requests, Register(r) PROVE ApprovalTypeOK'
  BY <1>2 DEF Register
<1>3. ASSUME NEW r \in Requests, Publish(r) PROVE ApprovalTypeOK'
  BY <1>3 DEF Publish
<1>4. ASSUME NEW r \in Requests, Receive(r) PROVE ApprovalTypeOK'
  BY <1>4 DEF Receive, Decide
<1>5. ASSUME NEW r \in Requests, NEW reason \in {"timedOut", "cancelled"}, GiveUp(r, reason)
      PROVE ApprovalTypeOK'
  BY <1>5 DEF GiveUp, Decide
<1>6. ASSUME NEW r \in Requests, Cleanup(r) PROVE ApprovalTypeOK'
  BY <1>6 DEF Cleanup
<1>7. ASSUME NEW r \in Requests, NEW answer \in Answer, Respond(r, answer) PROVE ApprovalTypeOK'
  BY <1>7 DEF Respond, Message
<1>8. ASSUME NEW m \in messages, HandleResponse(m) PROVE ApprovalTypeOK'
  <2>1. m \in Message /\ pending[StepOf[m.about]] \in Requests \cup {None}
    BY DEF Message
  <2>2. sends' \subseteq Send
    BY <1>8, <2>1 DEF HandleResponse, Send, Message
  <2> QED
    BY <1>8, <2>2 DEF HandleResponse
<1>9. ASSUME NEW d \in sends, SendAnswer(d) PROVE ApprovalTypeOK'
  BY <1>9 DEF SendAnswer, Send
<1> QED
  BY <1>1, <1>2, <1>3, <1>4, <1>5, <1>6, <1>7, <1>8, <1>9 DEF ApprovalNext, Waits

(* What a step does to the map and to the calls.                           *)
MapInv == FiledUnderStep /\ OpenIsOverlap /\ WaitingIsPending /\ ReturnedIsForgotten

(* The map: an entry is the latest call's for its step, and a call that    *)
(* waits without one has met another.                                      *)
LEMMA ApprovalMapStep ==
  ASSUME ApprovalTypeOK, MapInv, [ApprovalNext]_approvalVars
  PROVE  MapInv'
<1> USE StepOfAssumption, NoneAssumption
    DEF ApprovalTypeOK, MapInv, FiledUnderStep, OpenIsOverlap, WaitingIsPending,
        ReturnedIsForgotten, InProgress
<1>1. CASE UNCHANGED approvalVars
  BY <1>1 DEF approvalVars
<1>2. ASSUME NEW r \in Requests, Register(r) PROVE MapInv'
  <2>1. /\ at[r] = "idle" /\ at' = [at EXCEPT ![r] = "registered"]
        /\ pending' = [pending EXCEPT ![StepOf[r]] = r]
        /\ open' = [open EXCEPT ![r] = {q \in Requests : StepOf[q] = StepOf[r] /\ InProgress(q)}]
    BY <1>2 DEF Register
  <2>2. /\ r \notin open'[r] /\ \A q \in Requests : r \notin open'[q]
        /\ \A q \in Requests \ {r} : open'[q] = open[q] /\ at'[q] = at[q]
    BY <2>1
  <2>3. FiledUnderStep'
    BY <2>1, <2>2
  <2>4. OpenIsOverlap'
    BY <2>1, <2>2
  <2>5. WaitingIsPending'
    <3> SUFFICES ASSUME NEW p \in Requests, at'[p] \in {"registered", "waiting"},
                        pending'[StepOf[p]] # p
                 PROVE  \E q \in Requests : p \in open'[q] \/ (q \in open'[p] /\ at'[q] = "returned")
      OBVIOUS
    <3>1. p # r /\ at[p] \in {"registered", "waiting"}
      BY <2>1
    <3>2. CASE StepOf[p] = StepOf[r]
      BY <2>1, <3>1, <3>2
    <3>3. CASE StepOf[p] # StepOf[r]
      <4>1. PICK q \in Requests : p \in open[q] \/ (q \in open[p] /\ at[q] = "returned")
        BY <2>1, <3>1, <3>3
      <4> QED
        BY <2>1, <2>2, <3>1, <4>1
    <3> QED
      BY <3>2, <3>3
  <2>6. ReturnedIsForgotten'
    BY <2>1
  <2> QED
    BY <2>3, <2>4, <2>5, <2>6
<1>3. ASSUME NEW r \in Requests, at[r] \notin {"idle", "returned"}, NEW v,
             v \in {"waiting", "decided"}, at[r] = "decided" => v = "decided",
             at[r] = "waiting" => v = "decided",
             at' = [at EXCEPT ![r] = v], UNCHANGED <<pending, open>>
      PROVE  MapInv'
  <2>1. \A q \in Requests : /\ at'[q] = "idle" <=> at[q] = "idle"
                            /\ at'[q] = "returned" <=> at[q] = "returned"
                            /\ at'[q] \in {"registered", "waiting"} =>
                                 at[q] \in {"registered", "waiting"}
    BY <1>3
  <2>2. \A q \in Requests : InProgress(q)' <=> InProgress(q)
    BY <1>3
  <2> QED
    BY <1>3, <2>1, <2>2
<1>4. ASSUME NEW r \in Requests, Cleanup(r) PROVE MapInv'
  <2>1. /\ at[r] = "decided" /\ at' = [at EXCEPT ![r] = "returned"]
        /\ pending' = [pending EXCEPT ![StepOf[r]] = None] /\ open' = open
    BY <1>4 DEF Cleanup
  <2>2. FiledUnderStep'
    BY <2>1
  <2>3. OpenIsOverlap'
    BY <2>1
  <2>4. WaitingIsPending'
    <3> SUFFICES ASSUME NEW p \in Requests, at'[p] \in {"registered", "waiting"},
                        pending'[StepOf[p]] # p
                 PROVE  \E q \in Requests : p \in open'[q] \/ (q \in open'[p] /\ at'[q] = "returned")
      OBVIOUS
    <3>1. p # r /\ at[p] \in {"registered", "waiting"}
      BY <2>1
    <3>2. CASE StepOf[p] = StepOf[r]
      BY <2>1, <3>1, <3>2
    <3>3. CASE StepOf[p] # StepOf[r]
      <4>1. PICK q \in Requests : p \in open[q] \/ (q \in open[p] /\ at[q] = "returned")
        BY <2>1, <3>1, <3>3
      <4> QED
        BY <2>1, <3>1, <4>1
    <3> QED
      BY <3>2, <3>3
  <2>5. ReturnedIsForgotten'
    BY <2>1
  <2> QED
    BY <2>2, <2>3, <2>4, <2>5
<1>5. ASSUME UNCHANGED <<at, pending, open>> PROVE MapInv'
  BY <1>5
<1>6. ASSUME NEW r \in Requests, Publish(r) PROVE MapInv'
  BY <1>3, <1>6 DEF Publish
<1>7. ASSUME NEW r \in Requests, NEW outcome, Decide(r, outcome), UNCHANGED <<pending, open>>
      PROVE  MapInv'
  BY <1>3, <1>7 DEF Decide
<1> QED
  BY <1>1, <1>2, <1>4, <1>5, <1>6, <1>7
  DEF ApprovalNext, Waits, Receive, GiveUp, Respond, HandleResponse, SendAnswer

(* The answers: what is in flight, in a channel or decided was given by a  *)
(* user to that request, or to an earlier one for its step.                *)
AnswerInv == InFlightIsAnswered /\ ResultIsTheAnswer

LEMMA ApprovalAnswerStep ==
  ASSUME ApprovalTypeOK, MapInv, AnswerInv, [ApprovalNext]_approvalVars
  PROVE  AnswerInv'
<1> USE StepOfAssumption, NoneAssumption DEF ApprovalTypeOK, Answer
<1>0. ResultIsTheAnswer <=> \A r \in Requests : result[r] \in Answer => GivenBefore(result[r], r)
  BY DEF ResultIsTheAnswer, GivenBefore
<1>1. ResultIsTheAnswer' <=>
        \A r \in Requests : result'[r] \in Answer =>
          \E q \in Requests : StepOf[q] = StepOf[r] /\ r \notin open'[q] /\ result'[r] \in answers'[q]
  BY DEF ResultIsTheAnswer
<1>2. ASSUME UNCHANGED <<at, open, answers, result, channel, messages, sends>> PROVE AnswerInv'
  BY <1>2 DEF AnswerInv, InFlightIsAnswered, ResultIsTheAnswer, GivenBefore,
         ChannelsAreAnswered
<1>3. ASSUME NEW r \in Requests, Register(r) PROVE AnswerInv'
  <2>1. /\ at[r] = "idle" /\ answers[r] = {} /\ at' = [at EXCEPT ![r] = "registered"]
        /\ \A q \in Requests \ {r} : open'[q] = open[q]
        /\ UNCHANGED <<result, channel, messages, sends, answers>>
    BY <1>3 DEF Register, AnswerInv, InFlightIsAnswered
  <2>2. ASSUME NEW p \in Requests, NEW a, GivenBefore(a, p)
        PROVE  \E q \in Requests : StepOf[q] = StepOf[p] /\ p \notin open'[q] /\ a \in answers'[q]
    <3>1. PICK q \in Requests : StepOf[q] = StepOf[p] /\ p \notin open[q] /\ a \in answers[q]
      BY <2>2 DEF GivenBefore
    <3>2. q # r
      BY <2>1, <3>1
    <3> QED
      BY <2>1, <3>1, <3>2
  <2>3. ResultIsTheAnswer'
    BY <1>0, <1>1, <2>1, <2>2 DEF AnswerInv
  <2>4. ChannelsAreAnswered'
    BY <2>1, <2>2 DEF AnswerInv, InFlightIsAnswered, ChannelsAreAnswered, GivenBefore
  <2>5. \A d \in sends : d.about \in Requests /\ d.about # r
    BY <2>1 DEF AnswerInv, InFlightIsAnswered, Send
  <2>6. \A d \in sends' : /\ StepOf[d.to] = StepOf[d.about] /\ d.to \notin open'[d.about]
                          /\ d.answer \in answers'[d.about]
    BY <2>1, <2>5 DEF AnswerInv, InFlightIsAnswered
  <2>7. /\ \A p \in Requests : answers'[p] # {} => at'[p] # "idle"
        /\ \A m \in messages' : m.answer \in answers'[m.about]
    BY <2>1 DEF AnswerInv, InFlightIsAnswered
  <2> QED
    BY <2>3, <2>4, <2>6, <2>7 DEF AnswerInv, InFlightIsAnswered
<1>4. ASSUME NEW r \in Requests, NEW v, v # "idle", at' = [at EXCEPT ![r] = v],
             UNCHANGED <<open, answers, result, channel, messages, sends>>
      PROVE  AnswerInv'
  BY <1>4 DEF AnswerInv, InFlightIsAnswered, ResultIsTheAnswer, GivenBefore,
         ChannelsAreAnswered
<1>5. ASSUME NEW r \in Requests, Receive(r) PROVE AnswerInv'
  <2>1. /\ channel[r] # "empty" /\ at' = [at EXCEPT ![r] = "decided"]
        /\ result' = [result EXCEPT ![r] = channel[r]]
        /\ channel' = [channel EXCEPT ![r] = "empty"]
        /\ UNCHANGED <<open, answers, messages, sends>>
    BY <1>5 DEF Receive, Decide
  <2> QED
    BY <2>1 DEF AnswerInv, InFlightIsAnswered, ResultIsTheAnswer, GivenBefore,
         ChannelsAreAnswered
<1>6. ASSUME NEW r \in Requests, NEW reason \in {"timedOut", "cancelled"}, GiveUp(r, reason)
      PROVE  AnswerInv'
  <2>1. /\ at' = [at EXCEPT ![r] = "decided"] /\ result' = [result EXCEPT ![r] = reason]
        /\ UNCHANGED <<open, answers, messages, sends, channel>>
    BY <1>6 DEF GiveUp, Decide
  <2> QED
    BY <2>1 DEF AnswerInv, InFlightIsAnswered, ResultIsTheAnswer, GivenBefore,
         ChannelsAreAnswered
<1>7. ASSUME NEW r \in Requests, NEW answer \in Answer, Respond(r, answer) PROVE AnswerInv'
  <2>1. /\ at[r] # "idle" /\ messages' = messages \cup {[about |-> r, answer |-> answer]}
        /\ answers' = [answers EXCEPT ![r] = @ \cup {answer}]
        /\ UNCHANGED <<at, open, result, channel, sends>>
    BY <1>7 DEF Respond
  <2>2. \A q \in Requests : answers[q] \subseteq answers'[q]
    BY <2>1
  <2>3. ResultIsTheAnswer'
    BY <1>0, <2>1, <2>2 DEF AnswerInv, GivenBefore, ResultIsTheAnswer
  <2>4. InFlightIsAnswered'
    BY <2>1, <2>2 DEF AnswerInv, InFlightIsAnswered, ChannelsAreAnswered, GivenBefore, Message, Send
  <2> QED
    BY <2>3, <2>4 DEF AnswerInv
<1>8. ASSUME NEW m \in messages, HandleResponse(m) PROVE AnswerInv'
  <2> DEFINE ch == pending[StepOf[m.about]]
  <2>1. m \in Message /\ m.about \in Requests /\ m.answer \in answers[m.about]
    BY DEF Message, AnswerInv, InFlightIsAnswered
  <2>2. ch # None => /\ ch \in Requests /\ StepOf[ch] = StepOf[m.about]
                     /\ ch \notin open[m.about]
    BY <2>1 DEF MapInv, FiledUnderStep
  <2>3. /\ messages' \subseteq messages
        /\ UNCHANGED <<at, open, answers, result, channel>>
        /\ \A d \in sends' : \/ d \in sends
                             \/ /\ ch # None
                                /\ d = [to |-> ch, answer |-> m.answer, about |-> m.about]
    BY <1>8 DEF HandleResponse
  <2>4. \A d \in sends' : /\ StepOf[d.to] = StepOf[d.about] /\ d.to \notin open[d.about]
                          /\ d.answer \in answers[d.about]
    BY <2>1, <2>2, <2>3 DEF AnswerInv, InFlightIsAnswered
  <2> QED
    BY <2>3, <2>4 DEF AnswerInv, InFlightIsAnswered, ResultIsTheAnswer, GivenBefore,
         ChannelsAreAnswered
<1>9. ASSUME NEW d \in sends, SendAnswer(d) PROVE AnswerInv'
  <2>1. d \in Send /\ d.to \in Requests /\ d.about \in Requests
    BY DEF Send
  <2>2. GivenBefore(d.answer, d.to)
    BY <2>1 DEF AnswerInv, InFlightIsAnswered, GivenBefore
  <2>3. /\ sends' = sends \ {d} /\ UNCHANGED <<at, open, answers, result, messages>>
        /\ \A r \in Requests : channel'[r] = channel[r] \/ (r = d.to /\ channel'[r] = d.answer)
    BY <1>9 DEF SendAnswer
  <2> QED
    BY <2>2, <2>3 DEF AnswerInv, InFlightIsAnswered, ResultIsTheAnswer, GivenBefore,
         ChannelsAreAnswered
<1> QED
  BY <1>2, <1>3, <1>4, <1>5, <1>6, <1>7, <1>8, <1>9
  DEF ApprovalNext, Waits, Publish, Cleanup, approvalVars

(* The parts of the invariant hold together, however steps are shared.     *)
LEMMA ApprovalInvariant == ApprovalSpec => []ApprovalInv
<1>1. ApprovalInv /\ [ApprovalNext]_approvalVars => ApprovalInv'
  BY ApprovalTypeStep, ApprovalMapStep, ApprovalAnswerStep DEF ApprovalInv, MapInv, AnswerInv
<1> QED
  BY ApprovalInvInit, <1>1, PTL DEF ApprovalSpec

(* A request is granted or refused only by an answer given to it or to an  *)
(* earlier call for its step, whatever the delays of answers and timers    *)
(* and however many workflows ask for the step.                            *)
THEOREM AnswersReachTheirRequest == ApprovalSpec => []ResultIsTheAnswer
<1>1. ApprovalInv => ResultIsTheAnswer
  BY DEF ApprovalInv
<1> QED
  BY ApprovalInvariant, <1>1, PTL

(* The map holds every request that waits, except one that another call    *)
(* for its step, in progress with it, has displaced or deleted; and it     *)
(* holds none that has returned.                                           *)
THEOREM WaitingRequestsAreFiled ==
  ApprovalSpec => [](WaitingIsPending /\ ReturnedIsForgotten)
<1>1. ApprovalInv => WaitingIsPending /\ ReturnedIsForgotten
  BY DEF ApprovalInv
<1> QED
  BY ApprovalInvariant, <1>1, PTL
=============================================================================
