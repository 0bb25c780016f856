---------------------------- MODULE CommandQueue ----------------------------
(***************************************************************************)
(* The in-process command queue of the agent runtime                       *)
(* (process/command-queue.ts).  A lane runs at most maxConcurrent tasks at *)
(* a time and keeps the others in a queue.  Everything between two awaits  *)
(* of the code is one action: the queue is only touched by code that runs  *)
(* to completion on the event loop, so the flag "draining" is FALSE        *)
(* between two actions and is not a variable here.                         *)
(*                                                                         *)
(* A command is one call of enqueueCommandInLane.  It starts at most once, *)
(* so that the command itself serves as its task id.  All lanes share one  *)
(* generation: only whether a task's generation is still its lane's        *)
(* matters, and resetAllLanes moves all lanes together.                    *)
(***************************************************************************)
EXTENDS Integers, Sequences, FiniteSets

CONSTANTS
    Lanes,
    Commands,
    NoCommand,
    LaneOf,     \* the lane a command is put in
    Outer,      \* the command whose task enqueues this one and awaits it
    Limits      \* the values a lane's concurrency is configured to

ASSUME LanesAssumption ==
    /\ IsFiniteSet(Commands)
    /\ NoCommand \notin Commands
    /\ LaneOf \in [Commands -> Lanes]
    /\ Outer \in [Commands -> Commands \cup {NoCommand}]
    /\ Limits \subseteq Nat \ {0}
    /\ 1 \in Limits

VARIABLES
    queue,          \* the entries waiting in each lane, oldest first
    active,         \* activeTaskIds of each lane
    maxConcurrent,  \* the limit of each lane
    generation,     \* the generation of the lanes
    status,         \* where each command is; settled: its promise is resolved or rejected
    taskGeneration  \* the generation a running command started in

laneVars == <<queue, active, maxConcurrent, generation, status, taskGeneration>>

Statuses == {"new", "queued", "running", "settled"}

LaneTypeOK ==
    /\ queue \in [Lanes -> Seq(Commands)]
    /\ active \in [Lanes -> SUBSET Commands]
    /\ maxConcurrent \in [Lanes -> Limits]
    /\ generation \in Nat
    /\ status \in [Commands -> Statuses]
    /\ taskGeneration \in [Commands -> Nat]

LaneInit ==
    /\ queue = [l \in Lanes |-> <<>>]
    /\ active = [l \in Lanes |-> {}]
    /\ maxConcurrent = [l \in Lanes |-> 1]
    /\ generation = 0
    /\ status = [c \in Commands |-> "new"]
    /\ taskGeneration = [c \in Commands |-> 0]

(***************************************************************************)
(* getTotalQueueSize is zero, and the ids getActiveTaskCount counts.       *)
(***************************************************************************)
Idle == \A l \in Lanes : queue[l] = <<>> /\ active[l] = {}
ActiveTasks == UNION {active[l] : l \in Lanes}

-----------------------------------------------------------------------------
(***************************************************************************)
(* pump: shift entries while the lane has a free slot.  StartCount is how  *)
(* many the loop shifts.  Drain is drainLane for the lanes of ls, given    *)
(* the queues, active sets, limits, statuses and generation at that point. *)
(***************************************************************************)
StartCount(q, a, m) ==
    LET free == m - Cardinality(a)
    IN  IF free <= 0 THEN 0 ELSE IF free < Len(q) THEN free ELSE Len(q)

Drain(ls, q, a, m, g, st) ==
    LET n == [l \in Lanes |-> IF l \in ls THEN StartCount(q[l], a[l], m[l]) ELSE 0]
        started == [l \in Lanes |-> {q[l][i] : i \in 1 .. n[l]}]
        all == UNION {started[l] : l \in Lanes}
    IN  /\ queue' = [l \in Lanes |-> SubSeq(q[l], n[l] + 1, Len(q[l]))]
        /\ active' = [l \in Lanes |-> a[l] \cup started[l]]
        /\ status' = [c \in Commands |-> IF c \in all THEN "running" ELSE st[c]]
        /\ taskGeneration' =
              [c \in Commands |-> IF c \in all THEN g
                                  ELSE IF st[c] = "settled" THEN 0
                                  ELSE taskGeneration[c]]
        /\ maxConcurrent' = m
        /\ generation' = g

(***************************************************************************)
(* enqueueCommandInLane.  A turn of the agent runs in the lane of its      *)
(* session and there enqueues the same work in a global lane               *)
(* (pi-embedded-runner/run.ts), which Outer describes.                     *)
(***************************************************************************)
Enqueue(c) ==
    /\ status[c] = "new"
    /\ Outer[c] # NoCommand => status[Outer[c]] = "running"
    /\ Drain({LaneOf[c]},
             [queue EXCEPT ![LaneOf[c]] = Append(@, c)],
             active, maxConcurrent, generation,
             [status EXCEPT ![c] = "queued"])

(***************************************************************************)
(* A task ends.  completeTask frees the slot, and the lane is pumped, only *)
(* if the lane was not reset since the task started.  A task that awaits   *)
(* an inner command ends after it.  Then the promise is resolved or        *)
(* rejected with the task's outcome.                                       *)
(***************************************************************************)
Inner(c) == {d \in Commands : Outer[d] = c}

FinishWithoutPump(c) ==     \* mutant: completion does not pump the lane
    /\ status[c] = "running"
    /\ \A d \in Inner(c) : status[d] = "settled"
    /\ active' = IF taskGeneration[c] = generation
                 THEN [active EXCEPT ![LaneOf[c]] = @ \ {c}] ELSE active
    /\ status' = [status EXCEPT ![c] = "settled"]
    /\ UNCHANGED <<queue, maxConcurrent, generation, taskGeneration>>

Finish(c) ==
    LET l == LaneOf[c]
        current == taskGeneration[c] = generation
    IN  /\ status[c] = "running"
        /\ \A d \in Inner(c) : status[d] = "settled"
        /\ Drain(IF current THEN {l} ELSE {},
                 queue,
                 IF current THEN [active EXCEPT ![l] = @ \ {c}] ELSE active,
                 maxConcurrent, generation,
                 [status EXCEPT ![c] = "settled"])

(***************************************************************************)
(* setCommandLaneConcurrency, and clearCommandLane, which rejects what     *)
(* waits in the lane.                                                      *)
(***************************************************************************)
SetConcurrency(l, m) ==
    Drain({l}, queue, active, [maxConcurrent EXCEPT ![l] = m], generation, status)

Clear(l) ==
    LET pending == {queue[l][i] : i \in DOMAIN queue[l]}
    IN  /\ queue' = [queue EXCEPT ![l] = <<>>]
        /\ status' = [c \in Commands |-> IF c \in pending THEN "settled" ELSE status[c]]
        /\ UNCHANGED <<active, maxConcurrent, generation, taskGeneration>>

(***************************************************************************)
(* resetAllLanes: a new generation, no active tasks, the queues kept and   *)
(* drained.  The old tasks go on running.                                  *)
(***************************************************************************)
ResetWithoutDrain ==            \* mutant: the preserved entries wait for the next enqueue
    /\ active' = [l \in Lanes |-> {}]
    /\ generation' = generation + 1
    /\ UNCHANGED <<queue, maxConcurrent, status, taskGeneration>>

ResetKeepsActive ==             \* mutant: a new generation, the old ids still counted
    Drain({l \in Lanes : queue[l] # <<>>},
          queue, active, maxConcurrent, generation + 1, status)

Reset ==
    Drain({l \in Lanes : queue[l] # <<>>},
          queue, [l \in Lanes |-> {}], maxConcurrent, generation + 1, status)

LaneNext ==
    \/ \E c \in Commands : Enqueue(c) \/ Finish(c)
    \/ \E l \in Lanes, m \in Limits : SetConcurrency(l, m)
    \/ \E l \in Lanes : Clear(l)
    \/ Reset

LaneSpec == LaneInit /\ [][LaneNext]_laneVars

-----------------------------------------------------------------------------
(***************************************************************************)
(* No lost wake-up: an entry waits only in a lane whose slots are all      *)
(* taken.  Nothing else starts it: a lane that holds an entry and a free   *)
(* slot would wait for an enqueue that may never come.                     *)
(***************************************************************************)
NoStall ==
    \A l \in Lanes :
        queue[l] # <<>> => Cardinality(active[l]) >= maxConcurrent[l]

(***************************************************************************)
(* The books agree with what runs: the active ids of a lane are exactly    *)
(* the tasks of the lane that were started in the current generation and   *)
(* have not ended, and the entries of its queue are exactly the commands   *)
(* that wait.  A task of an older generation is counted nowhere.           *)
(***************************************************************************)
ActiveIsRunning ==
    \A l \in Lanes :
        /\ active[l] = {c \in Commands : /\ status[c] = "running"
                                         /\ LaneOf[c] = l
                                         /\ taskGeneration[c] = generation}
        /\ {queue[l][i] : i \in DOMAIN queue[l]} =
              {c \in Commands : status[c] = "queued" /\ LaneOf[c] = l}
=============================================================================
