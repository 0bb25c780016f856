----------------------------- MODULE CronService -----------------------------
(***************************************************************************)
(* The cron scheduler of the gateway (cron/service/*.ts): the timer tick,  *)
(* the operations of its clients, the store file, and what becomes of them *)
(* when the gateway crashes, is restarted inside the process or replaces   *)
(* the scheduler by another one (gateway/server-reload-handlers.ts).       *)
(*                                                                         *)
(* Every section run by locked() is one step: the lock is shared by all    *)
(* services on a store.  Jobs run outside of it in a tick, one after the   *)
(* other, and inside it in start and run, which therefore hold the lock    *)
(* from one step to another.  A section may fail to read or to write the   *)
(* file, or come across a schedule that has no next time (an expression    *)
(* that does not parse).  Time is counted in units of the longest timer    *)
(* delay (MAX_TIMER_DELAY_MS, a minute).                                   *)
(***************************************************************************)
EXTENDS Integers, Sequences, FiniteSets, FiniteSetsExt

CONSTANTS
    N,              \* how many jobs; their numbers give their order in the store
    OneShot,        \* jobs whose schedule is "at"; the others have a cron expression
    DeleteAfterRun, \* one-shots that are deleted once they ended "ok"
    At,             \* the time of a one-shot
    Period,         \* a cron expression fires at the multiples of this time
    Backoff,        \* ERROR_BACKOFF_SCHEDULE_MS
    StuckRun,       \* STUCK_RUN_MS
    MaxScheduleErrors,  \* MAX_SCHEDULE_ERRORS
    MaxNow,         \* bound: the clock
    MaxFailures,    \* bound: reads and writes of the file that fail
    MaxOps,         \* bound: operations of clients and failures together
    MaxSharedOps,   \* bound: the same, once a process has replaced its service
    MaxServices     \* bound: services, one more for every restart

Jobs == 1 .. N
Services == 1 .. MaxServices

ASSUME CronAssumption ==
    /\ N \in Nat /\ MaxNow \in Nat
    /\ MaxOps \in Nat /\ MaxSharedOps \in 0 .. MaxOps /\ StuckRun \in Nat
    /\ MaxScheduleErrors \in Nat \ {0} /\ MaxFailures \in Nat
    /\ OneShot \subseteq Jobs /\ DeleteAfterRun \subseteq OneShot
    /\ At \in [OneShot -> Nat]
    /\ Period \in Nat \ {0}
    /\ Backoff \in Seq(Nat) /\ Backoff # <<>>
    /\ MaxServices \in Nat \ {0}

None == -1
Statuses == {"ok", "error", "skipped"}
Time == Nat \cup {None}
Job == [enabled : BOOLEAN, next : Time, running : Time,
        last : Statuses \cup {"never"}, errors : 0 .. Len(Backoff),
        broken : BOOLEAN, scheduleErrors : 0 .. MaxScheduleErrors]

VARIABLES
    now,        \* the clock
    file,       \* the jobs in the store file
    store,      \* state.store of each service
    loaded,     \* the services that have loaded it
    timer,      \* when the timer of each service fires, or None
    tick,       \* onTimer of each service; state.running unless it is idle
    holder,     \* the service that holds the lock while it runs jobs, or 0
    held,       \* the jobs it has still to run under the lock, the first is running
    gen,        \* the service started last
    client,     \* the service that the requests of clients reach
    fresh,      \* the jobs that do not exist yet
    ops,        \* operations of clients so far
    settled,    \* history: one-shots whose end, or removal, has been on disk
    touched,    \* history: one-shots a client has updated or run
    shared,     \* history: a process has replaced its service by another
    failures,   \* reads and writes that have failed
    failed,     \* history: the last section of each service, if it failed (see Failed)
    orphans     \* history: jobs whose marker a section that failed has left

services == <<gen, client, shared>>
history == <<fresh, ops, settled, touched>>
faults == <<failures, failed, orphans>>
vars == <<now, file, store, loaded, timer, tick, holder, held, services, history, faults>>

Idle == [pc |-> "idle", todo |-> {}, done |-> <<>>]

(***************************************************************************)
(* A section that fails leaves the service with its timer armed, as a tick *)
(* does, or without having armed it, as start and the clients' calls do.   *)
(***************************************************************************)
Failed == {"no", "armed", "unarmed"}

TypeOK ==
    /\ now \in 0 .. MaxNow
    /\ \A jobs \in {file} \cup {store[s] : s \in Services} :
          DOMAIN jobs \subseteq Jobs /\ \A j \in DOMAIN jobs : jobs[j] \in Job
    /\ loaded \subseteq Services
    /\ timer \in [Services -> Time]
    /\ \A s \in Services :
          /\ tick[s].pc \in {"idle", "lock", "exec", "apply"}
          /\ tick[s].todo \subseteq Jobs /\ DOMAIN tick[s].done \subseteq Jobs
          /\ \A j \in DOMAIN tick[s].done :
                tick[s].done[j] \in [status : Statuses, endedAt : Nat]
    /\ holder \in 0 .. MaxServices
    /\ held \subseteq Jobs
    /\ gen \in Services /\ client \in Services
    /\ fresh \subseteq Jobs /\ settled \subseteq OneShot /\ touched \subseteq OneShot
    /\ shared \in BOOLEAN
    /\ ops \in 0 .. MaxOps
    /\ failures \in 0 .. MaxFailures /\ failed \in [Services -> Failed] /\ orphans \subseteq Jobs

-----------------------------------------------------------------------------
(***************************************************************************)
(* computeJobNextRunAtMs: a one-shot stays due until it ended "ok", a cron *)
(* expression fires strictly later.                                        *)
(***************************************************************************)
ComputeNext(j, job, t) ==
    IF ~job.enabled \/ (j \in OneShot /\ job.last = "ok") THEN None
    ELSE IF j \in OneShot THEN At[j]
    ELSE (t \div Period + 1) * Period

NewJob(j, enabled) ==
    LET job == [enabled |-> enabled, next |-> None, running |-> None, last |-> "never",
                errors |-> 0, broken |-> FALSE, scheduleErrors |-> 0]
    IN  [job EXCEPT !.next = ComputeNext(j, job, now)]

(***************************************************************************)
(* It throws for an enabled job with an expression that does not parse.    *)
(***************************************************************************)
ScheduleFails(job) == job.enabled /\ job.broken

IsDue(job) == job.enabled /\ job.next # None /\ now >= job.next

(***************************************************************************)
(* isRunnableJob, and what runMissedJobs takes up when a service starts.   *)
(***************************************************************************)
Runnable(jobs) == {j \in DOMAIN jobs : IsDue(jobs[j]) /\ jobs[j].running = None}

Missed(jobs, interrupted) ==
    {j \in Runnable(jobs) \ interrupted : j \in OneShot => jobs[j].last = "never"}

(***************************************************************************)
(* recomputeNextRuns and recomputeNextRunsForMaintenance: both repair the  *)
(* state of disabled and of stuck jobs, the first also moves a time that   *)
(* has passed.  Errors of the schedule are counted, and in the end disable *)
(* the job (recordScheduleComputeError).                                   *)
(***************************************************************************)
Normalize(job) ==
    IF ~job.enabled THEN [job EXCEPT !.next = None, !.running = None]
    ELSE IF job.running # None /\ now - job.running > StuckRun THEN [job EXCEPT !.running = None]
    ELSE job

ScheduleError(job) ==
    LET count == Min({job.scheduleErrors + 1, MaxScheduleErrors})
    IN  [job EXCEPT !.next = None, !.scheduleErrors = count, !.enabled = (count < MaxScheduleErrors)]

RecomputeJob(j, job) ==
    IF ScheduleFails(job) THEN ScheduleError(job)
    ELSE [job EXCEPT !.next = ComputeNext(j, job, now), !.scheduleErrors = 0]

Recompute(jobs, movesPast) ==
    [j \in DOMAIN jobs |->
        LET job == Normalize(jobs[j])
        IN  IF job.enabled /\ (job.next = None \/ (movesPast /\ now >= job.next))
            THEN RecomputeJob(j, job)
            ELSE job]

RecomputeNextRuns(jobs) == Recompute(jobs, TRUE)
Maintenance(jobs) == Recompute(jobs, FALSE)

(***************************************************************************)
(* applyJobResult: every end disables a one-shot, an error delays a cron   *)
(* job.  lastStatus is only ever read for the former and consecutiveErrors *)
(* for the latter, and they are kept for these only.  Where the schedule   *)
(* fails it throws, having taken the marker off but set no time.           *)
(***************************************************************************)
Errors(job, status) ==
    IF status = "error" THEN Min({job.errors + 1, Len(Backoff)}) ELSE 0

EndJobOnSuccess(j, job, result) ==      \* mutant: a one-shot that failed stays enabled
    IF j \in OneShot
    THEN [job EXCEPT !.running = None, !.last = result.status, !.enabled = (result.status # "ok")]
    ELSE [job EXCEPT !.running = None, !.next = ComputeNext(j, job, result.endedAt)]

EndJobKeepsTime(j, job, result) ==      \* mutant: a cron job that ended well keeps its time
    IF j \in OneShot
    THEN [job EXCEPT !.running = None, !.last = result.status, !.enabled = FALSE, !.next = None]
    ELSE [job EXCEPT !.running = None]

EndJob(j, job, result) ==
    IF j \in OneShot
    THEN [job EXCEPT !.running = None, !.last = result.status, !.enabled = FALSE, !.next = None]
    ELSE LET errors == Errors(job, result.status)
             next   == ComputeNext(j, job, result.endedAt)
         IN  [job EXCEPT !.running = None, !.errors = errors,
                 !.next = IF ScheduleFails(job) THEN @
                          ELSE IF job.enabled /\ result.status = "error"
                               THEN Max({next, result.endedAt + Backoff[errors]})
                               ELSE next]

(***************************************************************************)
(* The results of jobs that still exist are applied in turn, up to the     *)
(* first that throws.                                                      *)
(***************************************************************************)
ThrowsAt(jobs, results) == {j \in DOMAIN results \cap DOMAIN jobs : ScheduleFails(jobs[j])}

ApplyJobResults(jobs, results) ==
    LET applied == {j \in DOMAIN results : \A i \in ThrowsAt(jobs, results) : j <= i}
        deleted == {j \in applied \cap DeleteAfterRun : results[j].status = "ok"}
    IN  [j \in DOMAIN jobs \ deleted |->
            IF j \in applied THEN EndJob(j, jobs[j], results[j]) ELSE jobs[j]]

(***************************************************************************)
(* When the timer fires that armTimer sets, and the marker of a running    *)
(* job.                                                                    *)
(***************************************************************************)
WakeTime(jobs) ==
    LET wakes == {jobs[j].next : j \in {i \in DOMAIN jobs : jobs[i].enabled}} \ {None}
    IN  IF wakes = {} THEN None ELSE Min({Max({Min(wakes), now}), now + 1})

MarkRunning(jobs, S) ==
    [j \in DOMAIN jobs |-> IF j \in S THEN [jobs[j] EXCEPT !.running = now] ELSE jobs[j]]

(***************************************************************************)
(* A job, or the result of one, is added to the others (push).             *)
(***************************************************************************)
With(f, j, v) == [i \in DOMAIN f \cup {j} |-> IF i = j THEN v ELSE f[i]]

-----------------------------------------------------------------------------
Init ==
    /\ now = 0
    /\ fresh \in {k + 1 .. N : k \in 0 .. N}
    /\ file = [j \in Jobs \ fresh |-> NewJob(j, TRUE)]
    /\ store = [s \in Services |-> <<>>]
    /\ loaded = {}
    /\ timer = [s \in Services |-> None]
    /\ tick = [s \in Services |-> Idle]
    /\ holder = 0
    /\ held = {}
    /\ gen = 1 /\ client = 1 /\ shared = FALSE
    /\ ops = 0
    /\ settled = {} /\ touched = {}
    /\ failures = 0 /\ failed = [s \in Services |-> "no"] /\ orphans = {}

(***************************************************************************)
(* persist: the file is replaced as a whole, or the write fails and it     *)
(* keeps what it had, while the store in memory has changed all the same.  *)
(* The jobs in owned have a marker that their tick has set.                *)
(***************************************************************************)
Save(s, jobs, owned) ==
    /\ \E saved \in {jobs} :
          /\ store' = [store EXCEPT ![s] = saved]
          /\ file' = saved
          /\ settled' = settled \cup {j \in OneShot \ fresh :
                                        j \in DOMAIN saved => saved[j].last # "never"}
          /\ orphans' = {j \in (orphans \cap DOMAIN saved) \ owned : saved[j].running # None}
    /\ UNCHANGED failures

NotSaved(s, jobs, left) ==
    /\ store' = [store EXCEPT ![s] = jobs]
    /\ orphans' = orphans \cup left
    /\ UNCHANGED <<file, settled>>

MoreOps == ops + failures < (IF shared THEN MaxSharedOps ELSE MaxOps)

Fault ==
    /\ failures < MaxFailures /\ MoreOps
    /\ failures' = failures + 1

(***************************************************************************)
(* armTimer, from the store in memory.                                     *)
(***************************************************************************)
ArmTimer(s, how) ==
    /\ timer' = [timer EXCEPT ![s] = WakeTime(store'[s])]
    /\ failed' = [failed EXCEPT ![s] = how]

(***************************************************************************)
(* start and the calls of clients save the store and then arm the timer: a *)
(* section that throws before leaves the timer as it was, and the markers  *)
(* of no tick in the file as they were.                                    *)
(***************************************************************************)
Unowned(s) ==
    {j \in DOMAIN file : file[j].running # None} \ (tick[s].todo \cup DOMAIN tick[s].done)

CallThrows(s, jobs) ==
    /\ NotSaved(s, jobs, Unowned(s))
    /\ failed' = [failed EXCEPT ![s] = "unarmed"]
    /\ UNCHANGED timer

CallEnds(s, jobs) ==
    \/ Save(s, jobs, {}) /\ ArmTimer(s, "no")
    \/ Fault /\ CallThrows(s, jobs)

(***************************************************************************)
(* A service runs jobs under the lock: the first one is marked in memory.  *)
(***************************************************************************)
HoldLock(s, jobs, S) ==
    /\ holder' = s
    /\ held' = S
    /\ store' = [store EXCEPT ![s] = MarkRunning(jobs, {Min(S)})]
    /\ UNCHANGED <<file, timer, settled, faults>>

(***************************************************************************)
(* start: markers left by an earlier process are cleared, and the jobs     *)
(* that were interrupted are not run as missed ones.  Nobody calls it      *)
(* again when it throws, even if it could not load the store.              *)
(***************************************************************************)
Cleared(jobs) == [j \in DOMAIN jobs |-> [jobs[j] EXCEPT !.running = None]]

ToStart(s) == holder = 0 /\ s = gen /\ s \notin loaded /\ failed[s] = "no"

StartKeepsMarkers(s) ==         \* mutant: a marker in the file survives the start
    /\ ToStart(s)
    /\ loaded' = loaded \cup {s}
    /\ IF Missed(file, {}) = {}
       THEN CallEnds(s, RecomputeNextRuns(file)) /\ UNCHANGED <<holder, held>>
       ELSE HoldLock(s, file, Missed(file, {}))
    /\ UNCHANGED <<now, tick, services, fresh, ops, touched>>

Start(s) ==
    /\ ToStart(s)
    /\ loaded' = loaded \cup {s}
    /\ LET interrupted == {j \in DOMAIN file : file[j].running # None}
       IN  \E jobs \in {Cleared(file)} :
              IF Missed(jobs, interrupted) = {}
              THEN CallEnds(s, RecomputeNextRuns(jobs)) /\ UNCHANGED <<holder, held>>
              ELSE HoldLock(s, jobs, Missed(jobs, interrupted))
    /\ UNCHANGED <<now, tick, services, fresh, ops, touched>>

StartCannotRead(s) ==
    /\ ToStart(s)
    /\ Fault /\ CallThrows(s, store[s])
    /\ UNCHANGED <<now, loaded, tick, holder, held, services, fresh, ops, touched>>

(***************************************************************************)
(* A job run under the lock ends (executeJob).  After the last one, start  *)
(* and run recompute every time that has passed.  Where the end throws, no *)
(* other one is run.                                                       *)
(***************************************************************************)
HeldJobEnds(status) ==
    /\ holder # 0
    /\ LET j      == Min(held)
           rest   == held \ {j}
           result == [i \in {j} |-> [status |-> status, endedAt |-> now]]
           throws == ThrowsAt(store[holder], result) # {}
       IN  \E jobs \in {ApplyJobResults(store[holder], result)} :
              IF rest # {} /\ ~throws THEN HoldLock(holder, jobs, rest)
              ELSE /\ IF throws THEN CallThrows(holder, jobs) /\ UNCHANGED failures
                      ELSE CallEnds(holder, RecomputeNextRuns(jobs))
                   /\ holder' = 0
                   /\ held' = {}
    /\ UNCHANGED <<now, loaded, tick, services, fresh, ops, touched>>

-----------------------------------------------------------------------------
(***************************************************************************)
(* onTimer.  The timer fires again later while a tick is running.          *)
(***************************************************************************)
TimerFires(s) ==
    /\ timer[s] # None /\ now >= timer[s]
    /\ IF tick[s].pc = "idle"
       THEN /\ tick' = [tick EXCEPT ![s].pc = "lock"]
            /\ timer' = [timer EXCEPT ![s] = None]
       ELSE /\ timer' = [timer EXCEPT ![s] = now + 1]
            /\ UNCHANGED tick
    /\ UNCHANGED <<now, file, store, loaded, holder, held, services, history, faults>>

(***************************************************************************)
(* A tick arms the timer however it ends (finally).                        *)
(***************************************************************************)
FinishTick(s, jobs) ==
    /\ Save(s, jobs, {})
    /\ ArmTimer(s, "no")
    /\ tick' = [tick EXCEPT ![s] = Idle]

AbortTickUnarmed(s, jobs, left) ==  \* mutant: only a tick that succeeds arms the timer
    /\ NotSaved(s, jobs, left)
    /\ tick' = [tick EXCEPT ![s] = Idle]
    /\ UNCHANGED <<timer, failed>>

AbortTick(s, jobs, left) ==
    /\ NotSaved(s, jobs, left)
    /\ ArmTimer(s, "armed")
    /\ tick' = [tick EXCEPT ![s] = Idle]

(***************************************************************************)
(* The first locked section: reload the store, mark the due jobs, and run  *)
(* the first of them.  Where the reload fails, the store in memory stays.  *)
(***************************************************************************)
TickCollect(s) ==
    /\ tick[s].pc = "lock"
    /\ holder = 0
    /\ LET due  == Runnable(file)
           jobs == IF due = {} THEN Maintenance(file) ELSE MarkRunning(file, due)
       IN  \/ due = {} /\ FinishTick(s, jobs)
           \/ /\ due # {}
              /\ Save(s, jobs, due)
              /\ tick' = [tick EXCEPT ![s].pc = "exec", ![s].todo = due]
              /\ UNCHANGED <<timer, failed>>
           \/ Fault /\ ((jobs # file /\ AbortTick(s, jobs, due)) \/ AbortTick(s, store[s], {}))
    /\ UNCHANGED <<now, loaded, holder, held, services, fresh, ops, touched>>

(***************************************************************************)
(* A job of the tick ends, with "error" also after a timeout, and the next *)
(* one starts.                                                             *)
(***************************************************************************)
TickJobEnds(s, status) ==
    /\ tick[s].pc = "exec"
    /\ LET j    == Min(tick[s].todo)
           rest == tick[s].todo \ {j}
       IN  /\ tick' = [tick EXCEPT ![s] =
                [pc   |-> IF rest = {} THEN "apply" ELSE "exec",
                 todo |-> rest,
                 done |-> With(@.done, j, [status |-> status, endedAt |-> now])]]
           /\ store' = [store EXCEPT ![s] = IF rest = {} THEN @ ELSE MarkRunning(@, {Min(rest)})]
    /\ UNCHANGED <<now, file, loaded, timer, holder, held, services, history, faults>>

(***************************************************************************)
(* The second locked section: reload the store and apply the results to    *)
(* the jobs that still exist.  Where it fails, the file keeps the markers  *)
(* of all the jobs of the tick.                                            *)
(***************************************************************************)
TickApply(s) ==
    /\ tick[s].pc = "apply"
    /\ holder = 0
    /\ LET results == tick[s].done
           left    == DOMAIN results
       IN  \E jobs \in {ApplyJobResults(file, results)} :
              IF ThrowsAt(file, results) # {}
              THEN AbortTick(s, jobs, left) /\ UNCHANGED failures
              ELSE \/ FinishTick(s, Maintenance(jobs))
                   \/ Fault /\ (AbortTick(s, Maintenance(jobs), left) \/ AbortTick(s, store[s], left))
    /\ UNCHANGED <<now, loaded, holder, held, services, fresh, ops, touched>>

-----------------------------------------------------------------------------
(***************************************************************************)
(* The operations of clients.  They trust the store in memory, and load it *)
(* themselves if start has failed to; add and remove then recompute it.    *)
(***************************************************************************)
Memory(recompute) ==
    IF client \in loaded THEN store[client]
    ELSE IF recompute THEN RecomputeNextRuns(file)
    ELSE file

Operation ==
    /\ holder = 0 /\ MoreOps
    /\ client \in loaded \/ failed[client] = "unarmed"
    /\ ops' = ops + 1
    /\ loaded' = loaded \cup {client}
    /\ UNCHANGED <<now, tick, services>>

Add(j, enabled) ==
    /\ j \in fresh /\ \A i \in fresh : j <= i
    /\ Operation
    /\ fresh' = fresh \ {j}
    /\ CallEnds(client, RecomputeNextRuns(With(Memory(TRUE), j, NewJob(j, enabled))))
    /\ UNCHANGED <<holder, held, touched>>

(***************************************************************************)
(* A patch gives a job another schedule, switches it on or off, or is some *)
(* other edit, which only supplies a time that is missing.  Only a cron    *)
(* expression can be one that does not parse; update then throws once the  *)
(* job in memory has been patched.                                         *)
(***************************************************************************)
Patches == {"enable", "disable", "edit", "break", "reschedule"}

Edited(job, patch) ==
    CASE patch \in {"enable", "disable"}   -> [job EXCEPT !.enabled = (patch = "enable")]
      [] patch \in {"break", "reschedule"} -> [job EXCEPT !.broken = (patch = "break")]
      [] OTHER                             -> job

Recomputes(job, patch) == job.enabled /\ (patch = "edit" => job.next = None)

Patched(j, job, patch) ==
    LET edited == Edited(job, patch)
    IN  IF Recomputes(edited, patch)
        THEN IF edited.broken THEN edited ELSE [edited EXCEPT !.next = ComputeNext(j, edited, now)]
        ELSE IF edited.enabled \/ patch = "edit" THEN edited
        ELSE [edited EXCEPT !.next = None, !.running = None]

Update(j, patch) ==
    /\ j \in DOMAIN Memory(FALSE)
    /\ patch = "break" => j \notin OneShot
    /\ Operation
    /\ LET edited == Edited(Memory(FALSE)[j], patch)
           jobs   == [Memory(FALSE) EXCEPT ![j] = Patched(j, @, patch)]
       IN  IF Recomputes(edited, patch) /\ edited.broken
           THEN CallThrows(client, jobs) /\ UNCHANGED failures
           ELSE CallEnds(client, jobs)
    /\ touched' = touched \cup ({j} \cap OneShot)
    /\ UNCHANGED <<holder, held, fresh>>

Remove(j) ==
    /\ j \in Jobs \ fresh
    /\ Operation
    /\ CallEnds(client, [i \in DOMAIN Memory(TRUE) \ {j} |-> Memory(TRUE)[i]])
    /\ UNCHANGED <<holder, held, fresh, touched>>

Run(j, mode) ==
    /\ j \in DOMAIN Memory(FALSE)
    /\ Memory(FALSE)[j].running = None
    /\ mode = "force" \/ IsDue(Memory(FALSE)[j])
    /\ Operation
    /\ HoldLock(client, Memory(FALSE), {j})
    /\ touched' = touched \cup ({j} \cap OneShot)
    /\ UNCHANGED fresh

(***************************************************************************)
(* list and status save the store if its maintenance has changed it.       *)
(***************************************************************************)
List ==
    /\ Maintenance(Memory(FALSE)) # Memory(FALSE) \/ client \notin loaded
    /\ Operation
    /\ LET jobs == Maintenance(Memory(FALSE))
       IN  \/ Save(client, jobs, {})
           \/ jobs # Memory(FALSE) /\ Fault /\ NotSaved(client, jobs, Unowned(client))
    /\ UNCHANGED <<timer, failed, holder, held, fresh, touched>>

-----------------------------------------------------------------------------
(***************************************************************************)
(* A crash loses everything but the file.  A hot reload stops the timer of *)
(* the service and starts another one, while requests still reach the      *)
(* former.  A restart inside the process stops the timer of the service    *)
(* that requests reach.  Neither stops a tick that is running.             *)
(***************************************************************************)
NewService == gen < MaxServices /\ gen' = gen + 1

Crash ==
    /\ NewService
    /\ client' = gen'
    /\ store' = [s \in Services |-> <<>>]
    /\ loaded' = {}
    /\ timer' = [s \in Services |-> None]
    /\ tick' = [s \in Services |-> Idle]
    /\ holder' = 0
    /\ held' = {}
    /\ UNCHANGED <<now, file, shared, history, faults>>

HotReload ==
    /\ NewService
    /\ shared' = TRUE
    /\ timer' = [timer EXCEPT ![gen] = None]
    /\ UNCHANGED <<now, file, store, loaded, tick, holder, held, client, history, faults>>

RestartInProcess ==
    /\ NewService
    /\ client' = gen'
    /\ shared' = TRUE
    /\ timer' = [timer EXCEPT ![client] = None]
    /\ UNCHANGED <<now, file, store, loaded, tick, holder, held, history, faults>>

Clock ==
    /\ now < MaxNow
    /\ now' = now + 1
    /\ UNCHANGED <<file, store, loaded, timer, tick, holder, held, services, history, faults>>

ServiceStep(s) ==
    \/ TimerFires(s)
    \/ \E status \in Statuses : TickJobEnds(s, status)
    \/ StartCannotRead(s)
    \/ Start(s)
    \/ TickCollect(s)
    \/ TickApply(s)

LockStep == \E status \in Statuses : HeldJobEnds(status)

ClientStep ==
    \E j \in Jobs :
        \/ \E enabled \in BOOLEAN : Add(j, enabled)
        \/ \E patch \in Patches : Update(j, patch)
        \/ Remove(j)
        \/ \E mode \in {"due", "force"} : Run(j, mode)

Next ==
    \/ \E s \in Services : ServiceStep(s)
    \/ LockStep
    \/ ClientStep
    \/ List
    \/ Crash
    \/ HotReload
    \/ RestartInProcess
    \/ Clock

(***************************************************************************)
(* Timers fire, sections waiting for the lock get it in turn, and a job    *)
(* ends: onTimer gives it ten minutes, start and run wait for the agent.   *)
(***************************************************************************)
Progress == (\E s \in Services : ServiceStep(s)) \/ LockStep

Spec == Init /\ [][Next]_vars /\ WF_vars(Progress)

-----------------------------------------------------------------------------
(***************************************************************************)
(* The scheduler does not die: a service that knows of a run to come has a *)
(* timer armed or a tick running, unless it was stopped or is in the       *)
(* middle of a section.  A tick that fails to read, to mark, to apply or   *)
(* to save is no exception, since onTimer arms the timer in its finally;   *)
(* a start or a call of a client is, which throws before it does.          *)
(***************************************************************************)
SchedulerAlive ==
    (gen \in loaded /\ holder # gen /\ WakeTime(store[gen]) # None)
        => timer[gen] # None \/ tick[gen].pc # "idle" \/ failed[gen] = "unarmed"

(***************************************************************************)
(* A job marked as running on disk is one that is running, or a section    *)
(* has failed that would have taken its marker off and no saved store has  *)
(* been without it since: no crash, no operation and no failure of another *)
(* section leaves a marker behind that keeps the job from running.         *)
(***************************************************************************)
MarkerIsOwned ==
    (gen \in loaded /\ ~shared) =>
        \A j \in DOMAIN file :
            file[j].running # None =>
                \/ holder = gen
                \/ j \in tick[gen].todo \cup DOMAIN tick[gen].done
                \/ j \in orphans

(***************************************************************************)
(* The jobs that a service is executing or has chosen to execute.          *)
(***************************************************************************)
Scheduled == held \cup UNION {tick[s].todo : s \in Services}

Refires(j) == j \in settled \ touched' /\ j \notin Scheduled /\ j \in Scheduled'

(***************************************************************************)
(* A one-shot whose end or removal is on disk is not scheduled again,      *)
(* whatever crashes and failed writes follow, unless a client asks for it, *)
(* or a stopped service is still used on the same store.                   *)
(***************************************************************************)
OneShotRunsOnce == [][\A j \in OneShot : Refires(j) => shared]_vars

(***************************************************************************)
(* A section that failed has left the service without a timer, or with one *)
(* for later, set from a store in memory that the file differs from.       *)
(***************************************************************************)
Stalled ==
    /\ failed[gen] # "no" /\ holder # gen /\ tick[gen].pc = "idle"
    /\ timer[gen] = None \/ timer[gen] > now

(***************************************************************************)
(* A job that is due is run, or moved to a later time.  Only a failure can *)
(* prevent it: one that has left the marker of the job, or one that has    *)
(* left the service without a timer, or with one for later.                *)
(***************************************************************************)
DueJobRuns ==
    \A j \in Jobs :
        (j \in DOMAIN file /\ IsDue(file[j]))
            ~> (shared \/ j \notin DOMAIN file \/ ~IsDue(file[j]) \/ j \in orphans \/ Stalled)
=============================================================================
