------------------------ MODULE GatewayRestartProofs ------------------------
(***************************************************************************)
(* That the lanes never stall, that their books agree with what runs, and  *)
(* that a drain that succeeds has waited for every task, for every number  *)
(* of lanes, commands, limits, restarts and restart requests.              *)
(***************************************************************************)
EXTENDS GatewayRestart, FiniteSetTheorems, TLAPS

(***************************************************************************)
(* The entries of a queue, and a queue that holds each at most once.       *)
(***************************************************************************)
Entries(q) == {q[i] : i \in DOMAIN q}
Unique(q) == \A i, j \in DOMAIN q : q[i] = q[j] => i = j

(***************************************************************************)
(* NoStall and ActiveIsRunning are not inductive: a queue that held a      *)
(* command twice would start one task where it counts two, and a task that *)
(* had started in a generation to come would be counted after a reset.     *)
(***************************************************************************)
QueuedOnce == \A l \in Lanes : Unique(queue[l])
StartedBefore == \A c \in Commands : taskGeneration[c] <= generation

LaneInv == LaneTypeOK /\ QueuedOnce /\ StartedBefore /\ NoStall /\ ActiveIsRunning

-----------------------------------------------------------------------------
(***************************************************************************)
(* The first n entries of a queue without duplicates are n commands.       *)
(***************************************************************************)
LEMMA FirstEntries ==
  ASSUME NEW q \in Seq(Commands), Unique(q), NEW n \in 0 .. Len(q)
  PROVE  /\ IsFiniteSet({q[i] : i \in 1 .. n})
         /\ Cardinality({q[i] : i \in 1 .. n}) = n
  <1> DEFINE S == {q[i] : i \in 1 .. n}
             f == [i \in 1 .. n |-> q[i]]
  <1>1. IsFiniteSet(1 .. n) /\ Cardinality(1 .. n) = n
    BY FS_Interval
  <1>2. f \in Bijection(1 .. n, S)
    BY DEF Unique, Bijection, Injection, Surjection, IsInjective
  <1>3. ExistsBijection(1 .. n, S)
    BY <1>2 DEF ExistsBijection
  <1> QED
    BY <1>1, <1>3, FS_Bijection

(***************************************************************************)
(* An entry that is not in the queue is added to it.                       *)
(***************************************************************************)
LEMMA AppendEntry ==
  ASSUME NEW q \in Seq(Commands), Unique(q), NEW c \in Commands, c \notin Entries(q)
  PROVE  Unique(Append(q, c)) /\ Entries(Append(q, c)) = Entries(q) \cup {c}
  <1> DEFINE r == Append(q, c)
             n == Len(q)
  <1>1. /\ n \in Nat /\ DOMAIN q = 1 .. n /\ DOMAIN r = 1 .. n + 1
        /\ r[n + 1] = c /\ \A i \in 1 .. n : r[i] = q[i]
    OBVIOUS
  <1> HIDE DEF r, n
  <1>2. \A i \in 1 .. n : q[i] # c
    BY <1>1 DEF Entries
  <1>3. \A i \in 1 .. n + 1 : i \in 1 .. n \/ i = n + 1
    BY <1>1
  <1>4. Unique(r)
    BY <1>1, <1>2, <1>3 DEF Unique
  <1>5. Entries(r) \subseteq Entries(q) \cup {c}
    BY <1>1, <1>3 DEF Entries
  <1>6. Entries(q) \cup {c} \subseteq Entries(r)
    <2>1. \A i \in 1 .. n : i \in 1 .. n + 1
      BY <1>1
    <2>2. n + 1 \in 1 .. n + 1
      BY <1>1
    <2> QED
      BY <1>1, <2>1, <2>2 DEF Entries
  <1> QED
    BY <1>4, <1>5, <1>6 DEF r

(***************************************************************************)
(* pump on one lane: it shifts a prefix of the queue, the rest keeps its   *)
(* order, and it stops only at an empty queue or with all slots taken.     *)
(***************************************************************************)
LEMMA PumpLane ==
  ASSUME NEW q \in Seq(Commands), Unique(q), NEW a \in SUBSET Commands, NEW m \in Nat,
         Entries(q) \cap a = {}
  PROVE  LET n == StartCount(q, a, m)
             s == {q[i] : i \in 1 .. n}
             r == SubSeq(q, n + 1, Len(q))
         IN  /\ r \in Seq(Commands) /\ Unique(r)
             /\ s \subseteq Entries(q)
             /\ Entries(r) = Entries(q) \ s
             /\ r # <<>> => Cardinality(a \cup s) >= m
  <1> DEFINE n == StartCount(q, a, m)
             s == {q[i] : i \in 1 .. n}
             r == SubSeq(q, n + 1, Len(q))
  <1>1. IsFiniteSet(a) /\ Cardinality(a) \in Nat
    BY LanesAssumption, FS_Subset, FS_CardinalityType
  <1>2. n \in 0 .. Len(q)
    BY <1>1 DEF StartCount
  <1> HIDE DEF n
  <1>3. /\ r \in Seq(Commands) /\ Len(r) = Len(q) - n
        /\ \A i \in 1 .. Len(r) : r[i] = q[n + i]
    BY <1>2
  <1>4. Unique(r)
    <2> SUFFICES ASSUME NEW i \in 1 .. Len(r), NEW j \in 1 .. Len(r), r[i] = r[j]
                 PROVE  i = j
      BY <1>3 DEF Unique
    <2>1. n + i \in DOMAIN q /\ n + j \in DOMAIN q
      BY <1>2, <1>3
    <2>2. n + i = n + j
      BY <1>3, <2>1 DEF Unique
    <2> QED
      BY <1>2, <2>2
  <1>5. s \subseteq Entries(q)
    BY <1>2 DEF Entries
  <1>6. Entries(r) = Entries(q) \ s
    <2>1. ASSUME NEW x \in Entries(r) PROVE x \in Entries(q) \ s
      <3>1. PICK i \in 1 .. Len(r) : x = q[n + i]
        BY <1>3 DEF Entries
      <3>2. n + i \in DOMAIN q /\ \A j \in 1 .. n : j \in DOMAIN q /\ j # n + i
        BY <1>2, <1>3
      <3> QED
        BY <3>1, <3>2 DEF Entries, Unique
    <2>2. ASSUME NEW x \in Entries(q), x \notin s PROVE x \in Entries(r)
      <3>1. PICK i \in 1 .. Len(q) : x = q[i]
        BY DEF Entries
      <3>2. i > n
        BY <1>2, <2>2, <3>1
      <3>3. i - n \in 1 .. Len(r) /\ r[i - n] = x
        BY <1>2, <1>3, <3>1, <3>2
      <3> QED
        BY <1>3, <3>3 DEF Entries
    <2> QED
      BY <2>1, <2>2
  <1>7. ASSUME r # <<>> PROVE Cardinality(a \cup s) >= m
    <2>1. n < Len(q)
      BY <1>2, <1>3, <1>7
    <2>2. CASE m - Cardinality(a) <= 0
      <3>1. n = 0
        BY <2>2 DEF StartCount, n
      <3>2. s = {}
        BY <3>1
      <3> HIDE DEF s
      <3>3. Cardinality(a \cup s) = Cardinality(a)
        BY <3>2, Zenon
      <3> QED
        BY <1>1, <2>2, <3>3
    <2>3. CASE m - Cardinality(a) > 0
      <3>1. n = m - Cardinality(a)
        BY <1>1, <2>1, <2>3 DEF StartCount, n
      <3>2. IsFiniteSet(s) /\ Cardinality(s) = n
        BY <1>2, FirstEntries
      <3> HIDE DEF s
      <3>3. a \cap s = {}
        BY <1>5
      <3>4. Cardinality(a \cap s) = 0
        BY <3>3, FS_EmptySet
      <3>5. Cardinality(a \cup s) = Cardinality(a) + Cardinality(s) - Cardinality(a \cap s)
        BY <1>1, <3>2, FS_Union, Zenon
      <3> QED
        BY <1>1, <1>2, <3>1, <3>2, <3>4, <3>5
    <2> QED
      BY <1>1, <2>2, <2>3
  <1> QED
    BY <1>3, <1>4, <1>5, <1>6, <1>7 DEF n

(***************************************************************************)
(* What Drain is handed: queues and active sets that agree with the        *)
(* statuses, and no stalled lane but those it is to drain.                 *)
(***************************************************************************)
Ready(ls, q, a, m, g, st) ==
    /\ q \in [Lanes -> Seq(Commands)] /\ a \in [Lanes -> SUBSET Commands]
    /\ m \in [Lanes -> Limits] /\ g \in Nat /\ st \in [Commands -> Statuses]
    /\ \A l \in Lanes :
          /\ Unique(q[l])
          /\ Entries(q[l]) = {c \in Commands : st[c] = "queued" /\ LaneOf[c] = l}
          /\ a[l] = {c \in Commands : /\ st[c] = "running"
                                      /\ LaneOf[c] = l
                                      /\ taskGeneration[c] = g}
          /\ l \notin ls /\ q[l] # <<>> => Cardinality(a[l]) >= m[l]
    /\ taskGeneration \in [Commands -> Nat]
    /\ \A c \in Commands : taskGeneration[c] <= g

(***************************************************************************)
(* drainLane on such lanes restores the invariant, whichever lanes it is   *)
(* called for.  It starts only commands that waited.                       *)
(***************************************************************************)
LEMMA DrainLanes ==
  ASSUME NEW ls, NEW q, NEW a, NEW m, NEW g, NEW st,
         Ready(ls, q, a, m, g, st), Drain(ls, q, a, m, g, st)
  PROVE  /\ LaneInv'
         /\ \A c \in Commands : st[c] # "queued" => status'[c] = st[c]
         /\ \A c \in Commands : st[c] = "running" => taskGeneration'[c] = taskGeneration[c]
  <1> DEFINE n == [l \in Lanes |-> IF l \in ls THEN StartCount(q[l], a[l], m[l]) ELSE 0]
             started == [l \in Lanes |-> {q[l][i] : i \in 1 .. n[l]}]
             all == UNION {started[l] : l \in Lanes}
             rest(l) == SubSeq(q[l], n[l] + 1, Len(q[l]))
  <1>1. /\ queue' = [l \in Lanes |-> rest(l)]
        /\ active' = [l \in Lanes |-> a[l] \cup started[l]]
        /\ status' = [c \in Commands |-> IF c \in all THEN "running" ELSE st[c]]
        /\ taskGeneration' = [c \in Commands |-> IF c \in all THEN g
                                                 ELSE IF st[c] = "settled" THEN 0
                                                 ELSE taskGeneration[c]]
        /\ maxConcurrent' = m
        /\ generation' = g
    BY DEF Drain
  <1>2. ASSUME NEW l \in Lanes
        PROVE  /\ q[l] \in Seq(Commands) /\ a[l] \in SUBSET Commands /\ m[l] \in Nat
               /\ Unique(q[l]) /\ Entries(q[l]) \cap a[l] = {}
    BY LanesAssumption DEF Ready
  <1>3. ASSUME NEW l \in Lanes
        PROVE  /\ rest(l) \in Seq(Commands) /\ Unique(rest(l))
               /\ started[l] \subseteq Entries(q[l])
               /\ Entries(rest(l)) = Entries(q[l]) \ started[l]
               /\ rest(l) # <<>> => Cardinality(a[l] \cup started[l]) >= m[l]
    <2>1. CASE l \in ls
      <3>1. n[l] = StartCount(q[l], a[l], m[l])
        BY <2>1
      <3>2. started[l] = {q[l][i] : i \in 1 .. StartCount(q[l], a[l], m[l])}
        BY <3>1
      <3> DEFINE k == StartCount(q[l], a[l], m[l])
                 s == {q[l][i] : i \in 1 .. k}
                 r == SubSeq(q[l], k + 1, Len(q[l]))
      <3>3. /\ r \in Seq(Commands) /\ Unique(r)
            /\ s \subseteq Entries(q[l])
            /\ Entries(r) = Entries(q[l]) \ s
            /\ r # <<>> => Cardinality(a[l] \cup s) >= m[l]
        BY <1>2, PumpLane
      <3>4. rest(l) = r /\ started[l] = s
        BY <3>1, <3>2
      <3> HIDE DEF n, started, rest, s, r
      <3> QED
        BY <3>3, <3>4
    <2>2. CASE l \notin ls
      <3>1. n[l] = 0 /\ started[l] = {}
        BY <2>2
      <3> HIDE DEF n, started
      <3>2. rest(l) = q[l]
        BY <1>2, <3>1
      <3>3. Cardinality(a[l] \cup started[l]) = Cardinality(a[l])
        BY <3>1, Zenon
      <3>4. q[l] # <<>> => Cardinality(a[l]) >= m[l]
        BY <2>2 DEF Ready
      <3> HIDE DEF rest
      <3> QED
        BY <1>2, <3>1, <3>2, <3>3, <3>4
    <2> QED
      BY <2>1, <2>2
  <1>4. ASSUME NEW c \in Commands
        PROVE  /\ c \in all <=> c \in started[LaneOf[c]]
               /\ \A l \in Lanes : c \in started[l] => st[c] = "queued" /\ LaneOf[c] = l
    <2> HIDE DEF n, started
    <2>1. \A l \in Lanes : c \in started[l] => st[c] = "queued" /\ LaneOf[c] = l
      BY <1>3 DEF Ready
    <2>2. LaneOf[c] \in Lanes
      BY LanesAssumption
    <2> QED
      BY <2>1, <2>2
  <1> HIDE DEF n, started, all, rest
  <1>5. LaneTypeOK'
    BY <1>1, <1>2, <1>3 DEF LaneTypeOK, Ready, Statuses, Entries
  <1>6. QueuedOnce'
    BY <1>1, <1>3 DEF QueuedOnce
  <1>7. StartedBefore'
    BY <1>1 DEF StartedBefore, Ready
  <1>8. NoStall'
    <2> SUFFICES ASSUME NEW l \in Lanes, queue'[l] # <<>>
                 PROVE  Cardinality(active'[l]) >= maxConcurrent'[l]
      BY DEF NoStall
    <2>1. queue'[l] = rest(l) /\ active'[l] = a[l] \cup started[l] /\ maxConcurrent'[l] = m[l]
      BY <1>1
    <2> QED
      BY <1>3, <2>1
  <1>9. ASSUME NEW l \in Lanes
        PROVE  active'[l] = {c \in Commands : /\ status'[c] = "running"
                                              /\ LaneOf[c] = l
                                              /\ taskGeneration'[c] = generation'}
    <2>1. active'[l] \subseteq Commands
      BY <1>5 DEF LaneTypeOK
    <2>2. ASSUME NEW c \in Commands
          PROVE  c \in active'[l] <=> /\ status'[c] = "running"
                                      /\ LaneOf[c] = l
                                      /\ taskGeneration'[c] = generation'
      <3>1. CASE c \in started[l]
        BY <1>1, <1>4, <3>1
      <3>2. CASE c \notin started[l] /\ c \in all
        BY <1>1, <1>4, <3>2 DEF Ready
      <3>3. CASE c \notin all
        BY <1>1, <1>4, <3>3 DEF Ready
      <3> QED
        BY <3>1, <3>2, <3>3
    <2> QED
      BY <2>1, <2>2
  <1>10. ASSUME NEW l \in Lanes
         PROVE  Entries(queue'[l]) = {c \in Commands : status'[c] = "queued" /\ LaneOf[c] = l}
    <2>1. queue'[l] = rest(l)
      BY <1>1
    <2>2. Entries(queue'[l]) = Entries(q[l]) \ started[l]
      BY <1>3, <2>1
    <2>3. Entries(q[l]) = {c \in Commands : st[c] = "queued" /\ LaneOf[c] = l}
      BY DEF Ready
    <2>4. ASSUME NEW c \in Commands, LaneOf[c] = l
          PROVE  status'[c] = "queued" <=> st[c] = "queued" /\ c \notin started[l]
      BY <1>1, <1>4, <2>4
    <2> QED
      BY <2>2, <2>3, <2>4
  <1>11. ActiveIsRunning'
    BY <1>9, <1>10 DEF ActiveIsRunning, Entries
  <1>12. \A c \in Commands : /\ st[c] # "queued" => status'[c] = st[c]
                             /\ st[c] = "running" => taskGeneration'[c] = taskGeneration[c]
    BY <1>1, <1>4, LanesAssumption
  <1> QED
    BY <1>5, <1>6, <1>7, <1>8, <1>11, <1>12 DEF LaneInv

-----------------------------------------------------------------------------
(***************************************************************************)
(* What a step may do to a command: a settled one stays settled, and a     *)
(* task runs on, in the generation it started in, or settles.              *)
(***************************************************************************)
Forward ==
    \A c \in Commands :
        /\ status[c] = "settled" => status'[c] = "settled"
        /\ status[c] = "running" =>
              \/ status'[c] = "running" /\ taskGeneration'[c] = taskGeneration[c]
              \/ status'[c] = "settled"

(***************************************************************************)
(* enqueueCommandInLane keeps the invariant: a command is put in its lane  *)
(* once, and the lane is drained.                                          *)
(***************************************************************************)
LEMMA EnqueueStep ==
  ASSUME LaneInv, NEW c \in Commands, Enqueue(c)
  PROVE  LaneInv' /\ Forward /\ generation' = generation
  <1> DEFINE l == LaneOf[c]
             q == [queue EXCEPT ![l] = Append(@, c)]
             st == [status EXCEPT ![c] = "queued"]
  <1>0. l \in Lanes /\ status[c] = "new"
    BY LanesAssumption DEF Enqueue
  <1>1. LaneTypeOK /\ QueuedOnce /\ StartedBefore /\ NoStall /\ ActiveIsRunning
    BY DEF LaneInv
  <1>2. Drain({l}, q, active, maxConcurrent, generation, st)
    BY DEF Enqueue
  <1>3. /\ q \in [Lanes -> Seq(Commands)] /\ st \in [Commands -> Statuses]
        /\ \A k \in Lanes : k # l => q[k] = queue[k]
        /\ q[l] = Append(queue[l], c) /\ queue[l] \in Seq(Commands)
    BY <1>0, <1>1 DEF LaneTypeOK, Statuses
  <1>4. c \notin Entries(queue[l])
    BY <1>0, <1>1 DEF ActiveIsRunning, Entries
  <1>5. Unique(q[l]) /\ Entries(q[l]) = Entries(queue[l]) \cup {c}
    <2> HIDE DEF q
    <2>1. Unique(queue[l])
      BY <1>0, <1>1 DEF QueuedOnce
    <2> QED
      BY <1>3, <1>4, <2>1, AppendEntry
  <1>6. ASSUME NEW k \in Lanes
        PROVE  /\ Unique(q[k])
               /\ Entries(q[k]) = {d \in Commands : st[d] = "queued" /\ LaneOf[d] = k}
    <2>1. Entries(queue[k]) = {d \in Commands : status[d] = "queued" /\ LaneOf[d] = k}
      BY <1>1 DEF ActiveIsRunning, Entries
    <2>2. CASE k = l
      BY <1>0, <1>1, <1>5, <2>1, <2>2 DEF LaneTypeOK
    <2>3. CASE k # l
      <3> HIDE DEF q
      <3> QED
        BY <1>1, <1>3, <2>1, <2>3 DEF LaneTypeOK, QueuedOnce
    <2> QED
      BY <2>2, <2>3
  <1>7. ASSUME NEW k \in Lanes
        PROVE  /\ active[k] = {d \in Commands : /\ st[d] = "running"
                                                /\ LaneOf[d] = k
                                                /\ taskGeneration[d] = generation}
               /\ k # l /\ q[k] # <<>> => Cardinality(active[k]) >= maxConcurrent[k]
    <2>1. active[k] = {d \in Commands : /\ status[d] = "running"
                                        /\ LaneOf[d] = k
                                        /\ taskGeneration[d] = generation}
      BY <1>1 DEF ActiveIsRunning
    <2>2. \A d \in Commands : st[d] = "running" <=> status[d] = "running"
      BY <1>0, <1>1 DEF LaneTypeOK
    <2> QED
      BY <1>1, <1>3, <2>1, <2>2 DEF NoStall
  <1> HIDE DEF q, st
  <1>8. Ready({l}, q, active, maxConcurrent, generation, st)
    BY <1>1, <1>3, <1>6, <1>7 DEF Ready, LaneTypeOK, StartedBefore
  <1>9. /\ LaneInv'
        /\ \A d \in Commands : st[d] # "queued" => status'[d] = st[d]
        /\ \A d \in Commands : st[d] = "running" => taskGeneration'[d] = taskGeneration[d]
    BY <1>2, <1>8, DrainLanes
  <1> QED
    BY <1>0, <1>1, <1>2, <1>9 DEF Forward, LaneTypeOK, Drain, st

(***************************************************************************)
(* The end of a task keeps the invariant: a task of the current generation *)
(* frees its slot and the lane is drained, an older one is in no books.    *)
(***************************************************************************)
LEMMA FinishStep ==
  ASSUME LaneInv, NEW c \in Commands, Finish(c)
  PROVE  LaneInv' /\ Forward /\ generation' = generation
  <1> DEFINE l == LaneOf[c]
             current == taskGeneration[c] = generation
             ls == IF current THEN {l} ELSE {}
             a == IF current THEN [active EXCEPT ![l] = @ \ {c}] ELSE active
             st == [status EXCEPT ![c] = "settled"]
  <1>0. l \in Lanes /\ status[c] = "running"
    BY LanesAssumption DEF Finish
  <1>1. LaneTypeOK /\ QueuedOnce /\ StartedBefore /\ NoStall /\ ActiveIsRunning
    BY DEF LaneInv
  <1>2. Drain(ls, queue, a, maxConcurrent, generation, st)
    BY DEF Finish
  <1>3. /\ a \in [Lanes -> SUBSET Commands] /\ st \in [Commands -> Statuses]
        /\ \A d \in Commands : st[d] = IF d = c THEN "settled" ELSE status[d]
        /\ \A k \in Lanes : a[k] = IF current /\ k = l THEN active[k] \ {c} ELSE active[k]
    BY <1>0, <1>1 DEF LaneTypeOK, Statuses
  <1> HIDE DEF a, st
  <1>4. ASSUME NEW k \in Lanes
        PROVE  /\ Unique(queue[k])
               /\ Entries(queue[k]) = {d \in Commands : st[d] = "queued" /\ LaneOf[d] = k}
    <2>1. Entries(queue[k]) = {d \in Commands : status[d] = "queued" /\ LaneOf[d] = k}
      BY <1>1 DEF ActiveIsRunning, Entries
    <2>2. \A d \in Commands : st[d] = "queued" <=> status[d] = "queued"
      BY <1>0, <1>3
    <2> QED
      BY <1>1, <2>1, <2>2 DEF QueuedOnce
  <1>5. ASSUME NEW k \in Lanes
        PROVE  /\ a[k] = {d \in Commands : /\ st[d] = "running"
                                           /\ LaneOf[d] = k
                                           /\ taskGeneration[d] = generation}
               /\ k \notin ls /\ queue[k] # <<>> => Cardinality(a[k]) >= maxConcurrent[k]
    <2>1. active[k] = {d \in Commands : /\ status[d] = "running"
                                        /\ LaneOf[d] = k
                                        /\ taskGeneration[d] = generation}
      BY <1>1 DEF ActiveIsRunning
    <2>2. k \notin ls => a[k] = active[k]
      BY <1>3
    <2>3. queue[k] # <<>> => Cardinality(active[k]) >= maxConcurrent[k]
      BY <1>1 DEF NoStall
    <2>4. a[k] = {d \in Commands : /\ st[d] = "running"
                                   /\ LaneOf[d] = k
                                   /\ taskGeneration[d] = generation}
      BY <1>0, <1>3, <2>1
    <2> QED
      BY <2>2, <2>3, <2>4
  <1> HIDE DEF ls
  <1>6. Ready(ls, queue, a, maxConcurrent, generation, st)
    BY <1>1, <1>3, <1>4, <1>5 DEF Ready, LaneTypeOK, StartedBefore
  <1>7. /\ LaneInv'
        /\ \A d \in Commands : st[d] # "queued" => status'[d] = st[d]
        /\ \A d \in Commands : st[d] = "running" => taskGeneration'[d] = taskGeneration[d]
    BY <1>2, <1>6, DrainLanes
  <1> QED
    BY <1>0, <1>2, <1>3, <1>7 DEF Forward, Drain

(***************************************************************************)
(* A changed limit keeps the invariant: the lane is drained with it.       *)
(***************************************************************************)
LEMMA SetConcurrencyStep ==
  ASSUME LaneInv, NEW l \in Lanes, NEW m \in Limits, SetConcurrency(l, m)
  PROVE  LaneInv' /\ Forward /\ generation' = generation
  <1> DEFINE ms == [maxConcurrent EXCEPT ![l] = m]
  <1>1. LaneTypeOK /\ QueuedOnce /\ StartedBefore /\ NoStall /\ ActiveIsRunning
    BY DEF LaneInv
  <1>2. Drain({l}, queue, active, ms, generation, status)
    BY DEF SetConcurrency
  <1>3. ms \in [Lanes -> Limits] /\ \A k \in Lanes : k # l => ms[k] = maxConcurrent[k]
    BY <1>1 DEF LaneTypeOK
  <1> HIDE DEF ms
  <1>4. ASSUME NEW k \in Lanes
        PROVE  /\ Unique(queue[k])
               /\ Entries(queue[k]) = {d \in Commands : status[d] = "queued" /\ LaneOf[d] = k}
               /\ k # l /\ queue[k] # <<>> => Cardinality(active[k]) >= ms[k]
    BY <1>1, <1>3 DEF ActiveIsRunning, Entries, QueuedOnce, NoStall
  <1>5. ASSUME NEW k \in Lanes
        PROVE  active[k] = {d \in Commands : /\ status[d] = "running"
                                             /\ LaneOf[d] = k
                                             /\ taskGeneration[d] = generation}
    BY <1>1 DEF ActiveIsRunning
  <1>6. Ready({l}, queue, active, ms, generation, status)
    BY <1>1, <1>3, <1>4, <1>5 DEF Ready, LaneTypeOK, StartedBefore
  <1>7. /\ LaneInv'
        /\ \A d \in Commands : status[d] # "queued" => status'[d] = status[d]
        /\ \A d \in Commands : status[d] = "running" => taskGeneration'[d] = taskGeneration[d]
    BY <1>2, <1>6, DrainLanes
  <1> QED
    BY <1>2, <1>7 DEF Forward, Drain

(***************************************************************************)
(* clearCommandLane keeps the invariant: it rejects exactly what waited in *)
(* the lane, and an empty lane cannot stall.                               *)
(***************************************************************************)
LEMMA ClearStep ==
  ASSUME LaneInv, NEW l \in Lanes, Clear(l)
  PROVE  LaneInv' /\ Forward /\ generation' = generation
  <1>1. LaneTypeOK /\ QueuedOnce /\ StartedBefore /\ NoStall /\ ActiveIsRunning
    BY DEF LaneInv
  <1>2. /\ \A k \in Lanes : queue'[k] = IF k = l THEN <<>> ELSE queue[k]
        /\ queue' \in [Lanes -> Seq(Commands)]
        /\ UNCHANGED <<active, maxConcurrent, generation, taskGeneration>>
    BY <1>1 DEF Clear, LaneTypeOK
  <1>3. \A k \in Lanes :
           Entries(queue[k]) = {d \in Commands : status[d] = "queued" /\ LaneOf[d] = k}
    BY <1>1 DEF ActiveIsRunning, Entries
  <1>4. /\ status' \in [Commands -> Statuses]
        /\ \A c \in Commands : status'[c] = IF status[c] = "queued" /\ LaneOf[c] = l
                                            THEN "settled" ELSE status[c]
    BY <1>1, <1>3 DEF Clear, LaneTypeOK, Entries, Statuses
  <1>5. LaneTypeOK' /\ StartedBefore'
    BY <1>1, <1>2, <1>4 DEF LaneTypeOK, StartedBefore
  <1>6. QueuedOnce'
    BY <1>1, <1>2 DEF QueuedOnce, Unique
  <1>7. NoStall'
    BY <1>1, <1>2 DEF NoStall
  <1>8. ASSUME NEW k \in Lanes
        PROVE  active'[k] = {c \in Commands : /\ status'[c] = "running"
                                              /\ LaneOf[c] = k
                                              /\ taskGeneration'[c] = generation'}
    BY <1>1, <1>2, <1>4 DEF ActiveIsRunning
  <1>9. ASSUME NEW k \in Lanes
        PROVE  Entries(queue'[k]) = {c \in Commands : status'[c] = "queued" /\ LaneOf[c] = k}
    <2>1. CASE k = l
      <3>1. Entries(queue'[k]) = {}
        BY <1>2, <2>1 DEF Entries
      <3> QED
        BY <1>4, <2>1, <3>1
    <2>2. CASE k # l
      <3>1. Entries(queue'[k]) = Entries(queue[k])
        BY <1>2, <2>2
      <3> QED
        BY <1>3, <1>4, <2>2, <3>1
    <2> QED
      BY <2>1, <2>2
  <1> QED
    BY <1>2, <1>4, <1>5, <1>6, <1>7, <1>8, <1>9 DEF LaneInv, ActiveIsRunning, Forward, Entries

(***************************************************************************)
(* resetAllLanes keeps the invariant: no task has started in the new       *)
(* generation yet, so that the lanes begin with no active task.            *)
(***************************************************************************)
LEMMA ResetStep ==
  ASSUME LaneInv, Reset
  PROVE  LaneInv' /\ Forward
  <1> DEFINE ls == {l \in Lanes : queue[l] # <<>>}
             a == [l \in Lanes |-> {}]
  <1>1. LaneTypeOK /\ QueuedOnce /\ StartedBefore /\ NoStall /\ ActiveIsRunning
    BY DEF LaneInv
  <1>2. Drain(ls, queue, a, maxConcurrent, generation + 1, status)
    BY DEF Reset
  <1>3. \A c \in Commands : taskGeneration[c] # generation + 1
                            /\ taskGeneration[c] <= generation + 1
    BY <1>1 DEF LaneTypeOK, StartedBefore
  <1>4. ASSUME NEW k \in Lanes
        PROVE  /\ Unique(queue[k])
               /\ Entries(queue[k]) = {d \in Commands : status[d] = "queued" /\ LaneOf[d] = k}
               /\ a[k] = {d \in Commands : /\ status[d] = "running"
                                           /\ LaneOf[d] = k
                                           /\ taskGeneration[d] = generation + 1}
               /\ k \notin ls => queue[k] = <<>>
    BY <1>1, <1>3 DEF ActiveIsRunning, Entries, QueuedOnce
  <1>5. a \in [Lanes -> SUBSET Commands]
    OBVIOUS
  <1> HIDE DEF a, ls
  <1>6. Ready(ls, queue, a, maxConcurrent, generation + 1, status)
    BY <1>1, <1>3, <1>4, <1>5 DEF Ready, LaneTypeOK
  <1>7. /\ LaneInv'
        /\ \A d \in Commands : status[d] # "queued" => status'[d] = status[d]
        /\ \A d \in Commands : status[d] = "running" => taskGeneration'[d] = taskGeneration[d]
    BY <1>2, <1>6, DrainLanes
  <1> QED
    BY <1>7 DEF Forward

-----------------------------------------------------------------------------
(***************************************************************************)
(* Every operation on the lanes keeps the invariant and moves the commands *)
(* forward.                                                                *)
(***************************************************************************)
LEMMA LaneStep == LaneInv /\ [LaneNext]_laneVars => LaneInv' /\ Forward
  <1> SUFFICES ASSUME LaneInv, [LaneNext]_laneVars PROVE LaneInv' /\ Forward
    OBVIOUS
  <1>1. CASE UNCHANGED laneVars
    BY <1>1 DEF laneVars, LaneInv, LaneTypeOK, QueuedOnce, StartedBefore, NoStall,
       ActiveIsRunning, Forward
  <1> QED
    BY <1>1, EnqueueStep, FinishStep, SetConcurrencyStep, ClearStep, ResetStep DEF LaneNext

(***************************************************************************)
(* The empty lanes satisfy the invariant.                                  *)
(***************************************************************************)
LEMMA LaneInitInv == LaneInit => LaneInv
  <1> SUFFICES ASSUME LaneInit PROVE LaneInv
    OBVIOUS
  <1>1. LaneTypeOK /\ StartedBefore
    BY LanesAssumption DEF LaneInit, LaneTypeOK, StartedBefore, Statuses
  <1>2. QueuedOnce /\ NoStall
    BY DEF LaneInit, QueuedOnce, NoStall, Unique
  <1>3. ActiveIsRunning
    BY DEF LaneInit, ActiveIsRunning
  <1> QED
    BY <1>1, <1>2, <1>3 DEF LaneInv

(***************************************************************************)
(* Whoever uses the lanes, in whatever order: no lane ever holds an entry  *)
(* and a free slot, and its books are exactly the tasks of the current     *)
(* generation and the commands that wait.                                  *)
(***************************************************************************)
THEOREM LanesAreSound == LaneSpec => [](NoStall /\ ActiveIsRunning)
  <1>1. LaneInv => NoStall /\ ActiveIsRunning
    BY DEF LaneInv
  <1> QED
    BY <1>1, LaneInitInv, LaneStep, PTL DEF LaneSpec

-----------------------------------------------------------------------------
(***************************************************************************)
(* The run loop uses the lanes through their operations only, and while a  *)
(* restart is carried out the generation changes with its last step.       *)
(***************************************************************************)
LEMMA LoopStep ==
  [Next]_vars => /\ [LaneNext]_laneVars
                 /\ generation' = generation \/ shutdown' = NoShutdown
  <1> SUFFICES ASSUME [Next]_vars
               PROVE  /\ [LaneNext]_laneVars
                      /\ generation' = generation \/ shutdown' = NoShutdown
    OBVIOUS
  <1>1. ASSUME NEW c \in Commands, EnqueueCommand(c) \/ TaskEnds(c)
        PROVE  LaneNext /\ generation' = generation
    BY <1>1 DEF EnqueueCommand, TaskEnds, LaneNext, Enqueue, Finish, Drain
  <1>2. ASSUME NEW l \in Lanes, NEW m \in Limits, ReloadLimit(l, m)
        PROVE  LaneNext /\ generation' = generation
    BY <1>2 DEF ReloadLimit, LaneNext, SetConcurrency, Drain
  <1>3. ASSUME NEW l \in SessionLanes, ClearSession(l)
        PROVE  LaneNext /\ generation' = generation
    BY <1>3, RestartAssumption DEF ClearSession, LaneNext, Clear
  <1>4. CASE CloseDone
    BY <1>4 DEF CloseDone, Exit, RestartInProcess, LaneNext, laneVars
  <1>5. ASSUME NEW kind \in {"watcher", "other"}, PollFires(kind)
        PROVE  UNCHANGED laneVars
    BY <1>5 DEF PollFires, EmitRestart
  <1>6. ASSUME NEW action \in {"stop", "restart"}, Signal(action)
        PROVE  UNCHANGED laneVars
    BY <1>6 DEF Signal
  <1>7. CASE StartDone \/ StartFails \/ DrainPoll \/ DrainTimeout \/ ForceExit \/ ScheduleRestart
    BY <1>7 DEF StartDone, StartFails, Exit, DrainPoll, DrainTimeout, StopDraining, ForceExit,
       ScheduleRestart, laneVars
  <1>8. CASE ScheduledTimerFires \/ ConfigRestart
    BY <1>8 DEF ScheduledTimerFires, ConfigRestart, EmitRestart, laneVars
  <1>9. CASE Done \/ UNCHANGED vars
    BY <1>9 DEF Done, vars, laneVars
  <1> QED
    BY <1>1, <1>2, <1>3, <1>4, <1>5, <1>6, <1>7, <1>8, <1>9 DEF Next, laneVars

(***************************************************************************)
(* The gateway implements the specification of the lanes: restarts,        *)
(* reloads and drains reach them through their operations only.            *)
(***************************************************************************)
THEOREM GatewayUsesLanes == Spec => LaneSpec
  <1>1. Init => LaneInit
    BY DEF Init
  <1>2. [Next]_vars => [LaneNext]_laneVars
    BY LoopStep
  <1> QED
    BY <1>1, <1>2, PTL DEF Spec, LaneSpec

(***************************************************************************)
(* In every behaviour of the gateway no lane stalls.                       *)
(***************************************************************************)
THEOREM LanesNeverStall == Spec => []NoStall
  BY GatewayUsesLanes, LanesAreSound, PTL

(***************************************************************************)
(* In every behaviour of the gateway, over any number of restarts, the     *)
(* active ids are the tasks that run and the entries those that wait.      *)
(***************************************************************************)
THEOREM BooksAgree == Spec => []ActiveIsRunning
  BY GatewayUsesLanes, LanesAreSound, PTL

-----------------------------------------------------------------------------
(***************************************************************************)
(* DrainedMeansSettled is not inductive: while the drain goes on, the ids  *)
(* it waits for are those of tasks of this generation, which are active    *)
(* until they settle.                                                      *)
(***************************************************************************)
WaitsForTasks ==
    shutdown.phase = "draining" =>
        \A c \in waitingFor :
            \/ status[c] = "settled"
            \/ status[c] = "running" /\ taskGeneration[c] = generation

IInv == TypeOK /\ LaneInv /\ WaitsForTasks /\ DrainedMeansSettled

(***************************************************************************)
(* The records a request and its end leave behind.                         *)
(***************************************************************************)
Shutdowns == [phase : {"none", "draining", "closing"},
              action : {"none", "stop", "restart"}, drained : BOOLEAN]

LEMMA ShutdownType ==
  /\ NoShutdown \in Shutdowns
  /\ \A ph \in {"draining", "closing"}, ac \in {"stop", "restart"} :
        [phase |-> ph, action |-> ac, drained |-> FALSE] \in Shutdowns
  /\ [watcher |-> 0, other |-> 0] \in [watcher : 0 .. 1, other : 0 .. MaxPolls]
  BY RestartAssumption DEF NoShutdown, Shutdowns

(***************************************************************************)
(* The initial states satisfy it.                                          *)
(***************************************************************************)
LEMMA InitIInv == Init => IInv
  <1> SUFFICES ASSUME Init PROVE IInv
    OBVIOUS
  <1>1. LaneInv
    BY LaneInitInv DEF Init
  <1>2. TypeOK
    BY <1>1, ShutdownType DEF Init, TypeOK, LaneInv, Shutdowns
  <1>3. WaitsForTasks /\ DrainedMeansSettled
    BY DEF Init, NoShutdown, WaitsForTasks, DrainedMeansSettled
  <1> QED
    BY <1>1, <1>2, <1>3 DEF IInv

(***************************************************************************)
(* The active tasks are commands of the current generation that run.       *)
(***************************************************************************)
LEMMA ActiveTasksRun ==
  ASSUME LaneInv
  PROVE  ActiveTasks = {c \in Commands : status[c] = "running" /\ taskGeneration[c] = generation}
  BY LanesAssumption DEF LaneInv, ActiveIsRunning, ActiveTasks

(***************************************************************************)
(* Every step of the loop keeps the types of its variables.                *)
(***************************************************************************)
LEMMA TypeStep == TypeOK /\ LaneInv /\ LaneInv' /\ [Next]_vars => TypeOK'
  <1> SUFFICES ASSUME TypeOK, LaneInv, LaneInv', [Next]_vars PROVE TypeOK'
    OBVIOUS
  <1>0. LaneTypeOK'
    BY DEF LaneInv
  <1>1. MaxPolls \in Nat /\ ActiveTasks \subseteq Commands
    BY RestartAssumption, ActiveTasksRun
  <1> USE <1>0 DEF TypeOK
  <1>2. CASE UNCHANGED loopVars
    BY <1>2 DEF loopVars
  <1>3. CASE Exit
    BY <1>3, ShutdownType DEF Exit, Shutdowns
  <1>4. CASE StartDone
    <2>1. polls' \in [watcher : 0 .. 1, other : 0 .. MaxPolls]
      BY <1>1, <1>4 DEF StartDone
    <2> QED
      BY <1>4, <2>1 DEF StartDone
  <1>5. ASSUME NEW action \in {"stop", "restart"}, Request(action)
        PROVE  /\ shutdown' \in [phase : {"none", "draining", "closing"},
                                 action : {"none", "stop", "restart"}, drained : BOOLEAN]
               /\ waitingFor' \subseteq Commands
    <2>1. CASE shutdown.phase # "none"
      BY <1>5, <2>1 DEF Request
    <2>2. CASE shutdown.phase = "none"
      <3>1. waitingFor' \subseteq Commands
        BY <1>1, <1>5, <2>2 DEF Request
      <3>2. \E ph \in {"draining", "closing"} :
               shutdown' = [phase |-> ph, action |-> action, drained |-> FALSE]
        BY <1>5, <2>2 DEF Request
      <3> QED
        BY <3>1, <3>2, ShutdownType DEF Shutdowns
    <2> QED
      BY <2>1, <2>2
  <1>6. ASSUME NEW action \in {"stop", "restart"}, Signal(action)
        PROVE  TypeOK'
    BY <1>5, <1>6 DEF Signal
  <1>7. ASSUME NEW drained \in BOOLEAN, StopDraining(drained)
        PROVE  TypeOK'
    BY <1>7 DEF StopDraining
  <1>8. CASE RestartInProcess
    BY <1>8, ShutdownType DEF RestartInProcess, Shutdowns
  <1>9. CASE ScheduleRestart
    BY <1>9 DEF ScheduleRestart
  <1>10. CASE EmitRestart /\ polls' \in [watcher : 0 .. 1, other : 0 .. MaxPolls]
    BY <1>5, <1>10 DEF EmitRestart
  <1>11. CASE ScheduledTimerFires
    <2>1. ~Idle => polls' \in [watcher : 0 .. 1, other : 0 .. MaxPolls]
      BY <1>1, <1>11 DEF ScheduledTimerFires
    <2> QED
      BY <1>10, <1>11, <2>1 DEF ScheduledTimerFires
  <1>12. CASE ConfigRestart
    <2>1. ~Idle => polls' \in [watcher : 0 .. 1, other : 0 .. MaxPolls]
      BY <1>1, <1>12 DEF ConfigRestart
    <2> QED
      BY <1>10, <1>12, <2>1 DEF ConfigRestart
  <1>13. ASSUME NEW kind \in {"watcher", "other"}, PollFires(kind)
         PROVE  TypeOK'
    <2>1. polls' \in [watcher : 0 .. 1, other : 0 .. MaxPolls]
      BY <1>1, <1>13 DEF PollFires
    <2> QED
      BY <1>10, <1>13, <2>1 DEF PollFires
  <1>14. CASE Done \/ UNCHANGED vars
    BY <1>2, <1>14 DEF Done, vars
  <1> QED
    BY <1>2, <1>3, <1>4, <1>6, <1>7, <1>8, <1>9, <1>11, <1>12, <1>13, <1>14
    DEF Next, EnqueueCommand, TaskEnds, ReloadLimit, ClearSession, StartFails, DrainPoll,
        DrainTimeout, CloseDone, ForceExit

(***************************************************************************)
(* A step that leaves the request alone and keeps the generation leaves    *)
(* the tasks it waits for running or settled.                              *)
(***************************************************************************)
LEMMA DrainGoesOn ==
  ASSUME IInv, Forward, generation' = generation, UNCHANGED <<shutdown, waitingFor>>
  PROVE  WaitsForTasks' /\ DrainedMeansSettled'
  BY DEF IInv, TypeOK, Forward, WaitsForTasks, DrainedMeansSettled

(***************************************************************************)
(* A request that is accepted waits for the active tasks and for no other; *)
(* nothing counts as drained yet.                                          *)
(***************************************************************************)
LEMMA RequestWaits ==
  ASSUME IInv, UNCHANGED laneVars, NEW action, Request(action)
  PROVE  WaitsForTasks' /\ DrainedMeansSettled'
  <1>1. ActiveTasks = {c \in Commands : status[c] = "running" /\ taskGeneration[c] = generation}
    BY ActiveTasksRun DEF IInv
  <1>2. CASE shutdown.phase # "none"
    BY <1>2 DEF Request, IInv, laneVars, WaitsForTasks, DrainedMeansSettled
  <1>3. CASE shutdown.phase = "none"
    <2>1. ~shutdown'.drained
      BY <1>3 DEF Request
    <2>2. waitingFor' \in {ActiveTasks, {}}
      BY <1>3 DEF Request
    <2> QED
      BY <1>1, <2>1, <2>2 DEF laneVars, WaitsForTasks, DrainedMeansSettled
  <1> QED
    BY <1>2, <1>3

(***************************************************************************)
(* Every step keeps the invariant.  The poll that ends a drain finds none  *)
(* of the ids active, and by WaitsForTasks what is not active is settled.  *)
(***************************************************************************)
LEMMA StepIInv == IInv /\ [Next]_vars => IInv'
  <1> SUFFICES ASSUME IInv, [Next]_vars PROVE IInv'
    OBVIOUS
  <1>1. LaneInv' /\ Forward
    BY LaneStep, LoopStep DEF IInv
  <1>2. TypeOK'
    BY <1>1, TypeStep DEF IInv
  <1>3. WaitsForTasks' /\ DrainedMeansSettled'
    <2>1. CASE shutdown' = NoShutdown
      BY <2>1 DEF NoShutdown, WaitsForTasks, DrainedMeansSettled
    <2>2. CASE generation' = generation /\ UNCHANGED <<shutdown, waitingFor>>
      BY <1>1, <2>2, DrainGoesOn
    <2>3. ASSUME NEW action, Request(action), UNCHANGED laneVars
          PROVE  WaitsForTasks' /\ DrainedMeansSettled'
      BY <2>3, RequestWaits
    <2>4. CASE DrainPoll
      <3>1. \A c \in waitingFor : c \in Commands /\ c \notin ActiveTasks
        BY <2>4 DEF DrainPoll, IInv, TypeOK
      <3>2. \A c \in waitingFor : status[c] = "settled"
        BY <2>4, <3>1, ActiveTasksRun DEF DrainPoll, StopDraining, IInv, WaitsForTasks
      <3>3. shutdown'.phase = "closing"
        BY <2>4 DEF DrainPoll, StopDraining, IInv, TypeOK
      <3> QED
        BY <2>4, <3>2, <3>3
        DEF DrainPoll, StopDraining, laneVars, WaitsForTasks, DrainedMeansSettled
    <2>5. CASE DrainTimeout
      <3>1. shutdown'.phase = "closing" /\ ~shutdown'.drained
        BY <2>5 DEF DrainTimeout, StopDraining, IInv, TypeOK
      <3> QED
        BY <3>1 DEF WaitsForTasks, DrainedMeansSettled
    <2>6. CASE \/ \E c \in Commands : EnqueueCommand(c) \/ TaskEnds(c)
               \/ \E l \in Lanes \ SessionLanes, m \in Limits : ReloadLimit(l, m)
               \/ \E l \in SessionLanes : ClearSession(l)
      <3>1. UNCHANGED <<shutdown, waitingFor>>
        BY <2>6 DEF EnqueueCommand, TaskEnds, ReloadLimit, ClearSession, loopVars
      <3> QED
        BY <2>1, <2>2, <3>1, LoopStep
    <2>7. CASE StartDone \/ ScheduleRestart \/ Done \/ UNCHANGED vars
      BY <2>2, <2>7 DEF StartDone, ScheduleRestart, Done, vars, laneVars, loopVars
    <2>8. CASE StartFails \/ CloseDone \/ ForceExit
      BY <2>1, <2>8 DEF StartFails, CloseDone, ForceExit, Exit, RestartInProcess
    <2>9. CASE \E action \in {"stop", "restart"} : Signal(action)
      BY <2>3, <2>9 DEF Signal
    <2>10. CASE ScheduledTimerFires \/ ConfigRestart
      BY <2>2, <2>3, <2>10 DEF ScheduledTimerFires, ConfigRestart, EmitRestart, laneVars
    <2>11. CASE \E kind \in {"watcher", "other"} : PollFires(kind)
      BY <2>3, <2>11 DEF PollFires, EmitRestart
    <2> QED
      BY <2>4, <2>5, <2>6, <2>7, <2>8, <2>9, <2>10, <2>11 DEF Next
  <1> QED
    BY <1>1, <1>2, <1>3 DEF IInv

(***************************************************************************)
(* The variables of every behaviour have their types.                      *)
(***************************************************************************)
THEOREM TypeCorrect == Spec => []TypeOK
  <1>1. IInv => TypeOK
    BY DEF IInv
  <1> QED
    BY <1>1, InitIInv, StepIInv, PTL DEF Spec

(***************************************************************************)
(* A restart that goes on because its drain succeeded has waited for every *)
(* task that was active when it was asked for.                             *)
(***************************************************************************)
THEOREM DrainIsComplete == Spec => []DrainedMeansSettled
  <1>1. IInv => DrainedMeansSettled
    BY DEF IInv
  <1> QED
    BY <1>1, InitIInv, StepIInv, PTL DEF Spec
=============================================================================
